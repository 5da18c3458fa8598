-------------------------- MODULE MCManagedStream --------------------------
(* Two or three submissions with RequestIds of their own. *)
EXTENDS ManagedStream

CONSTANTS s1, s2, s3, i1, i2, i3

Distinct == (s1 :> i1) @@ (s2 :> i2) @@ (s3 :> i3)
Pair     == (s1 :> i1) @@ (s2 :> i2)
=============================================================================
