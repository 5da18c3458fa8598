---------------------------- MODULE MCEdgeQueue ----------------------------
(* Small instances of EdgeQueue. *)
EXTENDS EdgeQueue, TLC

CONSTANTS p1, p2, c1, c2, w1, x1

\* Threads of one role are interchangeable.
Interchangeable == Permutations(Producers) \cup Permutations(Consumers)
=============================================================================
