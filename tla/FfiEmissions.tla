----------------------------- MODULE FfiEmissions -----------------------------
(***************************************************************************)
(* Ownership of native payloads across the C ABI: one node instance of a   *)
(* dynamically loaded Node Pack, the box the C++ SDK keeps for it          *)
(* (cpp/include/muxiva/muxiva.hpp), CppMultimodalInstance::on_process and  *)
(* append_owned_emissions (crates/muxiva-ffi/src/bridge.rs), and           *)
(* ForeignPayloadOwner (frame.rs), which frees a payload by calling back   *)
(* into the pack when the last FrameBuffer clone goes away.                *)
(***************************************************************************)
EXTENDS Integers, Sequences, FiniteSets, SequencesExt

CONSTANTS
    MaxPayloads,   \* bound on the payloads a pack allocates
    MAX_EMISSIONS  \* append_owned_emissions: the longest array it accepts (4096 in the code)

ASSUME EmissionsAssumption == MaxPayloads \in Nat /\ MAX_EMISSIONS \in Nat \ {0}

VARIABLES
    instance,     \* "none", "live" or "gone": the boxed CppMultimodalInstance
    registration, \* the NodeRegistration, with its constructor's Arc<Library>, is alive
    step,         \* where on_process is
    shape,        \* payload -> what its OwnedNamedFrameView is like, in the order of allocation
    box,          \* payloads whose unique_ptr the SDK's box holds
    handed,        \* MultimodalNodeBox.owned_emissions_taken
    pending,      \* views not yet adopted by append_owned_emissions
    owners,       \* payloads with a ForeignPayloadOwner
    pinned,       \* those of them whose owner clones the Arc<Library>
    emissions,    \* payloads in the Vec of ForeignNodeEmission
    clones,       \* payload -> FrameBuffer clones downstream
    frees,        \* ghost: payload -> times freed
    overlong,     \* ghost: payloads of an array refused for its length
    destroys      \* ghost: calls of the destroy callback

emissionVars == <<instance, registration, step, shape, box, handed, pending, owners, pinned,
                  emissions, clones, frees, overlong, destroys>>

Payloads == 1..MaxPayloads
Shapes == {"good", "no_release", "bad_fields", "bad_port", "bad_frame"}
Produced == DOMAIN shape

EmissionsInit ==
    /\ instance = "none" /\ registration = TRUE /\ step = "idle"
    /\ shape = <<>> /\ box = {} /\ handed = TRUE /\ pending = <<>>
    /\ owners = {} /\ pinned = {} /\ emissions = {}
    /\ clones = [p \in Payloads |-> 0] /\ frees = [p \in Payloads |-> 0]
    /\ overlong = {} /\ destroys = 0

\* delete, by the SDK's unique_ptr or by release_owned_payload.
Free(set) == frees' = [p \in Payloads |-> IF p \in set THEN frees[p] + 1 ELSE frees[p]]

\* Some object below holds an Arc<Library>.  The process-wide cache of lib.rs keeps one more for
\* ever; the owners are written so that nothing depends on it.
Mapped == registration \/ instance = "live" \/ pinned # {}

-----------------------------------------------------------------------------
(* CppMultimodalNodeConstructor::create: a table it refuses is destroyed at once. *)

CreateInstance ==
    /\ instance = "none" /\ registration
    /\ \/ instance' = "live" /\ UNCHANGED destroys
       \/ instance' = "gone" /\ destroys' = destroys + 1
       \/ instance' = "gone" /\ UNCHANGED destroys   \* the callback reported an error
    /\ UNCHANGED <<registration, step, shape, box, handed, pending, owners, pinned, emissions,
                   clones, frees, overlong>>

-----------------------------------------------------------------------------
(* on_process *)

\* multimodal_process: the emissions of this call replace those still in the box.
\* With an exception the context frees its own and the box keeps what it had.
Callback ==
    /\ step = "idle" /\ instance = "live"
    /\ \E fresh \in BoundedSeq(Shapes, MAX_EMISSIONS + 1), throws \in BOOLEAN, views_ok \in BOOLEAN :
        LET new == (Len(shape) + 1)..(Len(shape) + Len(fresh))
        IN /\ Len(shape) + Len(fresh) <= MaxPayloads
           /\ shape' = shape \o fresh
           /\ IF throws
              THEN /\ Free(new) /\ step' = "failed" /\ UNCHANGED <<box, handed>>
              ELSE /\ Free(box) /\ box' = new /\ handed' = FALSE
                   \* the borrowed views are copied before anything owned is handed
                   /\ step' = IF views_ok THEN "take" ELSE "failed"
    /\ UNCHANGED <<instance, registration, pending, owners, pinned, emissions, clones, overlong,
                   destroys>>

ReleasedFromBox == {}

\* ForeignPayloadOwner::from_view is tried on every view, and guards every payload that
\* has a release callback before any other field is looked at.
Adopted(array) == {p \in ToSet(array) : shape[p] # "no_release"}
Refused(array) == \E p \in ToSet(array) : shape[p] \in {"no_release", "bad_fields"}

Pins(set) == set

\* take_owned_emissions, and append_owned_emissions up to the first error of from_view:
\* every owner is dropped again when one view was refused.
TakeOwned ==
    /\ step = "take"
    /\ LET array == IF handed THEN <<>> ELSE SetToSortSeq(box, <)
           guarded == Adopted(array)
       IN /\ handed' = TRUE /\ box' = ReleasedFromBox
          /\ IF Len(array) > MAX_EMISSIONS
             THEN /\ overlong' = overlong \cup ToSet(array) /\ step' = "failed"
                  /\ UNCHANGED <<owners, pinned, pending, frees>>
             ELSE /\ UNCHANGED overlong
                  /\ IF Refused(array)
                     THEN /\ Free(guarded) /\ step' = "failed" /\ UNCHANGED <<owners, pinned, pending>>
                     ELSE /\ owners' = owners \cup guarded /\ pinned' = pinned \cup Pins(guarded)
                          /\ pending' = array /\ step' = "adopt" /\ UNCHANGED frees
    /\ UNCHANGED <<instance, registration, shape, emissions, clones, destroys>>

\* An error drops the owner at hand, those not reached yet and the emissions collected.
DropAll ==
    LET dropped == ToSet(pending) \cup emissions
    IN /\ Free(dropped) /\ owners' = owners \ dropped /\ pinned' = pinned \ dropped
       /\ pending' = <<>> /\ emissions' = {} /\ step' = "failed"

\* The loop over the views: the port, then adopt_owned_frame.
AdoptNext ==
    /\ step = "adopt" /\ pending # <<>>
    /\ IF shape[Head(pending)] = "good"
       THEN /\ emissions' = emissions \cup {Head(pending)} /\ pending' = Tail(pending)
            /\ UNCHANGED <<owners, pinned, frees, step>>
       ELSE DropAll
    /\ UNCHANGED <<instance, registration, shape, box, handed, clones, overlong, destroys>>

\* The tick, then the metrics: a refused metric loses the emissions; otherwise they are returned.
Finish ==
    /\ step = "adopt" /\ pending = <<>>
    /\ \/ DropAll /\ UNCHANGED clones
       \/ /\ clones' = [p \in Payloads |-> IF p \in emissions THEN 1 ELSE clones[p]]
          /\ emissions' = {} /\ step' = "idle" /\ UNCHANGED <<owners, pinned, pending, frees>>
    /\ UNCHANGED <<instance, registration, shape, box, handed, overlong, destroys>>

-----------------------------------------------------------------------------
(* Around it: the edges fan a buffer out and drop it, and the run ends. *)

CloneBuffer(p) ==
    /\ clones[p] = 1 /\ clones' = [clones EXCEPT ![p] = 2]
    /\ UNCHANGED <<instance, registration, step, shape, box, handed, pending, owners, pinned,
                   emissions, frees, overlong, destroys>>

LastClone(p) == IF clones[p] = 1 THEN {p} ELSE {}

DropBuffer(p) ==
    /\ clones[p] > 0 /\ clones' = [clones EXCEPT ![p] = @ - 1]
    /\ Free(LastClone(p))
    /\ owners' = owners \ LastClone(p) /\ pinned' = pinned \ LastClone(p)
    /\ UNCHANGED <<instance, registration, step, shape, box, handed, pending, emissions, overlong,
                   destroys>>

\* CppMultimodalInstance::drop: destroy deletes the box with what it still holds.
DropInstance ==
    /\ instance = "live" /\ step \in {"idle", "failed"}
    /\ instance' = "gone" /\ destroys' = destroys + 1 /\ Free(box) /\ box' = {}
    /\ UNCHANGED <<registration, step, shape, handed, pending, owners, pinned, emissions, clones,
                   overlong>>

DropRegistration ==
    /\ registration /\ registration' = FALSE
    /\ UNCHANGED <<instance, step, shape, box, handed, pending, owners, pinned, emissions, clones,
                   frees, overlong, destroys>>

EmissionsNext ==
    \/ CreateInstance \/ Callback \/ TakeOwned \/ AdoptNext \/ Finish \/ DropInstance \/ DropRegistration
    \/ \E p \in Payloads : CloneBuffer(p) \/ DropBuffer(p)

-----------------------------------------------------------------------------
(* Properties *)

\* The instance is destroyed once, and only a payload nobody refers to has been freed, once.
\* The views the pack hands over and the errors on the way make owners of both sides.
FreedOnceAndUnreferenced ==
    /\ destroys <= 1
    /\ \A p \in Produced : frees[p] > 0 =>
        /\ frees[p] = 1 /\ p \notin box \cup owners \cup emissions \cup ToSet(pending)
        /\ clones[p] = 0

\* Between two calls every payload the pack allocated is freed, or the box or a Frame holds
\* it: one malformed view does not lose the others.  Payloads without a release callback
\* cannot be freed, and those of an array longer than MAX_EMISSIONS are lost.
NoPayloadLost ==
    step \in {"idle", "failed"} =>
        \A p \in Produced :
            \/ frees[p] > 0 \/ p \in box \/ clones[p] > 0
            \/ shape[p] = "no_release" \/ p \in overlong

\* destroy, and the release a late Frame makes on a worker after the graph and its registry
\* are gone, run while an owner keeps the pack's library mapped, the cache aside.
CallbacksStayMapped == [][frees' # frees \/ instance' # instance => Mapped]_emissionVars

\* Ownership of a pack's payloads passes whole, through every error path.
PayloadsAreFreedOnce == FreedOnceAndUnreferenced /\ NoPayloadLost
=============================================================================
