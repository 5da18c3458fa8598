----------------------------- MODULE GraphRunner -----------------------------
(***************************************************************************)
(* The synchronous GraphRunner of crates/muxiva-core/src/runner.rs: one    *)
(* thread prepares the Nodes in topological order, calls every Source once *)
(* and drains what follows from it, finishes the Nodes in reverse order,   *)
(* and on the first failure aborts every prepared Node.                    *)
(*                                                                         *)
(* A step is one hook or one Edge of one emission.  A hook that fails      *)
(* returns an error or panics; the runner treats both alike.  A frame is   *)
(* its Edge, its type and its number on that Edge.                         *)
(***************************************************************************)
EXTENDS Integers, Sequences, FiniteSets, SequencesExt

CONSTANTS
    Order,        \* GraphDefinition.topological_order
    Sources,      \* the Nodes of kind Source
    Outputs,      \* Node -> declared output ports -> frame type
    Edges,        \* EdgeId -> [from, port, to, type, enabled, validation, transform]
    Emissions,    \* emissions of one process call: sequences of [port, type]
    EMISSION_LIMIT, \* emissions a NodeContext keeps of one call (16384)
    Strangers     \* ids outside the graph that attachments may name

Nodes == ToSet(Order)
Sends == {<<Edges[e].from, Edges[e].to>> : e \in DOMAIN Edges}

\* What GraphBuilder guarantees of a GraphDefinition (GraphCompile).
ASSUME CompiledGraph ==
    /\ Order \in Seq(Nodes) /\ IsInjective(Order)
    /\ \A i, j \in DOMAIN Order : <<Order[i], Order[j]>> \in Sends => i < j
    /\ \A e \in DOMAIN Edges :
          /\ Edges[e].from \in Nodes /\ Edges[e].to \in Nodes \ Sources
          /\ Outputs[Edges[e].from][Edges[e].port] = Edges[e].type
          /\ Edges[e].transform \in {"Identity", "Named"}
ASSUME EmissionsAssumption ==
    /\ Emissions \subseteq Seq([port : STRING, type : STRING])
    /\ EMISSION_LIMIT \in Nat

VARIABLES
    state,        \* GraphRunnerState, "none" before new and "refused" after it
    attached,     \* [nodes, policies]: the keys of NodeInstances and EdgePolicies
    prepared, aborted,
    cursor,       \* position in Order of the loop of this state
    worklist,     \* VecDeque<DispatchItem>: [edge, type, number]
    emitter,      \* the Node whose emissions are being routed
    emissions,    \* the emissions not yet routed, the first one first
    edgesLeft,    \* the Edges of the first emission not yet applied
    metrics,      \* EdgeId -> [delivered, dropped, signals, errors]
    observed,     \* observed_signals
    failure,      \* code of the AbortReason, or "none"
    \* What the properties look back on:
    finished,     \* Nodes whose on_finish returned
    offered,      \* EdgeId -> frames that reached apply_edge
    processed     \* the items taken from the worklist

callVars == <<prepared, aborted, finished>>
flowOfFrames == <<worklist, emitter, emissions, edgesLeft, metrics, observed, offered, processed>>
runnerVars == <<state, attached, callVars, cursor, flowOfFrames, failure>>

NoMetrics == [delivered |-> 0, dropped |-> 0, signals |-> 0, errors |-> 0]
RunnerInit(first) ==
    /\ state = first /\ attached = [nodes |-> {}, policies |-> {}]
    /\ prepared = {} /\ aborted = {} /\ finished = {} /\ cursor = 1
    /\ worklist = <<>> /\ emitter = Order[1] /\ emissions = <<>> /\ edgesLeft = {}
    /\ metrics = [e \in DOMAIN Edges |-> NoMetrics] /\ observed = <<>> /\ failure = "none"
    /\ offered = [e \in DOMAIN Edges |-> 0] /\ processed = <<>>

----------------------------------------------------------------------------
(* new                                                                     *)

edge_uses_named_policy(e) ==
    Edges[e].validation # "TypeGateOnly" \/ Edges[e].transform = "Named"

expected_policies == {e \in DOMAIN Edges : Edges[e].enabled /\ edge_uses_named_policy(e)}

New(nodes, policies) ==
    /\ state = "none"
    /\ attached' = [nodes |-> nodes, policies |-> policies]
    /\ state' = IF nodes = Nodes /\ policies = expected_policies THEN "Ready" ELSE "refused"
    /\ UNCHANGED <<callVars, cursor, flowOfFrames, failure>>

----------------------------------------------------------------------------
(* run and execute                                                         *)

\* A hook or an Edge has failed: the loops are left with the first reason.
FailWith(code) ==
    /\ failure' = code /\ state' = "Aborting" /\ cursor' = Len(Order)

Run ==
    /\ state = "Ready" /\ state' = "Preparing" /\ cursor' = 1
    /\ UNCHANGED <<attached, callVars, flowOfFrames, failure>>

\* Mutant: a Node counts as prepared before its hook is called.
PrepareEarly(ok) ==
    /\ state = "Preparing" /\ cursor <= Len(Order)
    /\ prepared' = prepared \cup {Order[cursor]}
    /\ \/ ok /\ cursor' = cursor + 1 /\ UNCHANGED <<state, failure>>
       \/ ~ok /\ FailWith("prepare")
    /\ UNCHANGED <<attached, aborted, finished, flowOfFrames>>

call_prepare(ok) ==
    /\ state = "Preparing" /\ cursor <= Len(Order)
    /\ \/ /\ ok /\ prepared' = prepared \cup {Order[cursor]}
          /\ cursor' = cursor + 1 /\ UNCHANGED <<state, failure>>
       \/ ~ok /\ FailWith("prepare") /\ UNCHANGED prepared
    /\ UNCHANGED <<attached, aborted, finished, flowOfFrames>>

StartSources ==
    /\ state = "Preparing" /\ cursor > Len(Order)
    /\ state' = "Running" /\ cursor' = 1
    /\ UNCHANGED <<attached, callVars, flowOfFrames, failure>>

\* Nothing of the last call is left to route or to dispatch.
Routed == emissions = <<>> /\ edgesLeft = {}
Drained == Routed /\ worklist = <<>>

\* take_emissions: emit refused those past the limit.  The runner does not look
\* at emission_overflowed, so a Node that ignores the refusal goes on.
take_emissions(emitted) ==
    IF Len(emitted) <= EMISSION_LIMIT THEN emitted ELSE SubSeq(emitted, 1, EMISSION_LIMIT)

\* The end of a process call on n: its emissions, or its failure.
Processed(n, ok, emitted) ==
    \/ ok /\ emitter' = n /\ emissions' = take_emissions(emitted) /\ UNCHANGED <<state, cursor, failure>>
    \/ ~ok /\ FailWith("process") /\ UNCHANGED <<emitter, emissions>>

\* call_process of the Source the loop has come to; the others are passed over.
ProcessSource(ok, emitted) ==
    /\ state = "Running" /\ Drained /\ cursor <= Len(Order) /\ Order[cursor] \in Sources
    /\ \/ ok /\ cursor' = cursor + 1 /\ emitter' = Order[cursor] /\ emissions' = take_emissions(emitted)
          /\ UNCHANGED <<state, failure>>
       \/ ~ok /\ FailWith("process") /\ UNCHANGED <<emitter, emissions>>
    /\ UNCHANGED <<attached, callVars, worklist, edgesLeft, metrics, observed, offered, processed>>

\* Mutant: what is left of the last Source is given up at the next Node.
PassOverPending ==
    /\ state = "Running" /\ Routed /\ cursor <= Len(Order) /\ Order[cursor] \notin Sources
    /\ cursor' = cursor + 1 /\ worklist' = <<>>
    /\ UNCHANGED <<state, attached, callVars, emitter, emissions, edgesLeft, metrics, observed,
                   offered, processed, failure>>

PassOver ==
    /\ state = "Running" /\ Drained /\ cursor <= Len(Order) /\ Order[cursor] \notin Sources
    /\ cursor' = cursor + 1
    /\ UNCHANGED <<state, attached, callVars, flowOfFrames, failure>>

Dispatch(ok, emitted) ==
    /\ state = "Running" /\ Routed /\ worklist # <<>>
    /\ worklist' = Tail(worklist) /\ processed' = Append(processed, Head(worklist))
    /\ Processed(Edges[Head(worklist).edge].to, ok, emitted)
    /\ UNCHANGED <<attached, callVars, edgesLeft, metrics, observed, offered>>

----------------------------------------------------------------------------
(* route_emissions and apply_edge                                          *)

\* The enabled Edges of an output port.
Routes(n, port) ==
    {e \in DOMAIN Edges : Edges[e].from = n /\ Edges[e].port = port /\ Edges[e].enabled}

\* The emission uses a declared output port, with a frame of its type.
Declared(n, emission) ==
    emission.port \in DOMAIN Outputs[n] /\ emission.type = Outputs[n][emission.port]

RouteEmission ==
    /\ state = "Running" /\ edgesLeft = {} /\ emissions # <<>>
    /\ IF Declared(emitter, Head(emissions))
       THEN LET edges == Routes(emitter, Head(emissions).port) IN
            /\ edgesLeft' = edges
            /\ emissions' = IF edges = {} THEN Tail(emissions) ELSE emissions
            /\ UNCHANGED <<state, cursor, failure>>
       ELSE FailWith("output") /\ UNCHANGED <<emissions, edgesLeft>>
    /\ UNCHANGED <<attached, callVars, worklist, emitter, metrics, observed, offered, processed>>

\* What validation and transform may answer on an Edge.
Verdicts(e) ==
    IF Edges[e].validation = "TypeGateOnly" THEN {"accept"} ELSE {"accept", "reject", "error"}
EdgeActions(e) ==
    IF Edges[e].transform = "Identity" THEN {"forward"}
    ELSE {"forward", "mutated", "replace", "unlineaged", "drop", "abort", "signal", "error"}

Drops(e, verdict, action) ==
    \/ verdict = "reject" /\ Edges[e].validation = "Drop"
    \/ verdict = "accept" /\ action = "drop"
\* A drop or a signal is counted before its hook is called; a hook that fails
\* is counted as an error too, and ends the run.
Told(counter, hookOk) ==
    [counted |-> {counter} \cup (IF hookOk THEN {} ELSE {"errors"}), fails |-> ~hookOk]
Refused == [counted |-> {"errors"}, fails |-> TRUE]

\* What is counted for one frame on one Edge, and whether the run goes on.
\* "mutated" stands for every answer edge_error refuses: a Forward that is not
\* the input, a Replace with its id or of another type, a signal that is none.
Outcome(e, verdict, action, hookOk) ==
    IF Drops(e, verdict, action) THEN Told("dropped", hookOk)
    ELSE IF verdict # "accept" THEN Refused
    ELSE CASE action \in {"forward", "replace"} -> [counted |-> {"delivered"}, fails |-> FALSE]
           [] action = "signal" -> Told("signals", hookOk)
           [] action = "unlineaged" -> [counted |-> {}, fails |-> TRUE]
           [] OTHER -> Refused

Count(e, counted) ==
    metrics' = [metrics EXCEPT ![e] =
        [c \in DOMAIN @ |-> @[c] + IF c \in counted THEN 1 ELSE 0]]

\* The Edge has taken the frame: on to the next Edge, or the next emission.
NextEdge(e) ==
    /\ edgesLeft' = edgesLeft \ {e}
    /\ emissions' = IF edgesLeft = {e} THEN Tail(emissions) ELSE emissions

\* The Edges of an emission are taken in the order of their EdgeIds.
apply_edge(verdict, action, hookOk) ==
    /\ state = "Running"
    /\ \E e \in edgesLeft :
         LET frame == [edge |-> e, type |-> Head(emissions).type, number |-> offered[e] + 1]
             outcome == IF frame.type # Edges[e].type
                        THEN Refused
                        ELSE Outcome(e, verdict, action, hookOk)
         IN /\ \A f \in edgesLeft : e <= f
            /\ verdict \in Verdicts(e) /\ action \in EdgeActions(e)
            /\ offered' = [offered EXCEPT ![e] = @ + 1]
            /\ Count(e, outcome.counted)
            /\ worklist' = IF "delivered" \in outcome.counted THEN Append(worklist, frame) ELSE worklist
            /\ observed' = IF outcome.counted = {"signals"} THEN Append(observed, e) ELSE observed
            /\ IF outcome.fails
               THEN /\ FailWith(IF frame.type # Edges[e].type THEN "edge type" ELSE "edge")
                    /\ UNCHANGED <<edgesLeft, emissions>>
               ELSE NextEdge(e) /\ UNCHANGED <<state, cursor, failure>>
    /\ UNCHANGED <<attached, callVars, emitter, processed>>

----------------------------------------------------------------------------
(* finish, abort and release                                               *)

StartFinish ==
    /\ state = "Running" /\ Drained /\ cursor > Len(Order)
    /\ state' = "Finishing" /\ cursor' = Len(Order)
    /\ UNCHANGED <<attached, callVars, flowOfFrames, failure>>

call_finish(ok) ==
    /\ state = "Finishing" /\ cursor > 0
    /\ \/ ok /\ finished' = finished \cup {Order[cursor]} /\ cursor' = cursor - 1
          /\ UNCHANGED <<state, failure>>
       \/ ~ok /\ FailWith("finish") /\ UNCHANGED finished
    /\ UNCHANGED <<attached, prepared, aborted, flowOfFrames>>

\* release_runtime_resources, at the end of run.
Released == attached' = [nodes |-> {}, policies |-> {}]

Succeed ==
    /\ state = "Finishing" /\ cursor = 0
    /\ state' = "Finished" /\ Released
    /\ UNCHANGED <<callVars, cursor, flowOfFrames, failure>>

\* abort_all_prepared, one Node; a panic of its hook is kept as a diagnostic.
AbortPrepared ==
    /\ state = "Aborting" /\ cursor > 0
    /\ aborted' = aborted \cup ({Order[cursor]} \cap prepared)
    /\ cursor' = cursor - 1
    /\ UNCHANGED <<state, attached, prepared, finished, flowOfFrames, failure>>

Aborted ==
    /\ state = "Aborting" /\ cursor = 0
    /\ state' = "Aborted" /\ Released
    /\ UNCHANGED <<callVars, cursor, flowOfFrames, failure>>

\* What run does between its call and its return.
RunStep ==
    \/ StartSources \/ PassOver \/ RouteEmission \/ StartFinish \/ Succeed
    \/ AbortPrepared \/ Aborted
    \/ \E ok \in BOOLEAN : call_prepare(ok) \/ call_finish(ok)
    \/ \E ok \in BOOLEAN, emitted \in Emissions : ProcessSource(ok, emitted) \/ Dispatch(ok, emitted)
    \/ \E verdict \in {"accept", "reject", "error"},
          action \in {"forward", "mutated", "replace", "unlineaged", "drop", "abort", "signal", "error"},
          hookOk \in BOOLEAN : apply_edge(verdict, action, hookOk)

RunnerNext ==
    \/ \E nodes \in SUBSET (Nodes \cup Strangers), policies \in SUBSET (DOMAIN Edges \cup Strangers) :
          New(nodes, policies)
    \/ Run \/ RunStep

RunnerSpec == RunnerInit("none") /\ [][RunnerNext]_runnerVars

\* The calling thread goes on as long as the hooks it calls return.
RunnerFair == WF_runnerVars(RunStep)

----------------------------------------------------------------------------
(* Properties                                                              *)

Counters == [delivered : Nat, dropped : Nat, signals : Nat, errors : Nat]
RunnerTypeOK ==
    /\ state \in {"none", "refused", "Ready", "Preparing", "Running", "Finishing", "Aborting",
                  "Finished", "Aborted"}
    /\ prepared \subseteq Nodes /\ aborted \subseteq prepared /\ finished \subseteq prepared
    /\ cursor \in 0..(Len(Order) + 1) /\ (emissions # <<>> => emitter \in Nodes)
    /\ metrics \in [DOMAIN Edges -> Counters] /\ ToSet(observed) \subseteq DOMAIN Edges

\* The maps GraphRunner::new accepted hold everything the run looks up with
\* expect(): an instance for each Node and a policy for each Edge that may ask
\* one to validate, to transform, or to hear of a drop or a signal.
AttachmentsSuffice ==
    state \in {"Ready", "Preparing", "Running", "Finishing", "Aborting"} =>
        /\ Nodes \subseteq attached.nodes
        /\ \A e \in DOMAIN Edges :
              Edges[e].enabled /\ (Cardinality(Verdicts(e)) > 1 \/ Cardinality(EdgeActions(e)) > 1)
                 => e \in attached.policies

\* The Edge type gate repeats what the output port has already been held to
\* and what the builder has checked of the Edge, so it never fires.
EdgeTypeGateNeverFires == failure # "edge type"

\* Every frame an Edge was offered is counted on it once while the run goes
\* well.  Only the frame that ends the run may count twice (a drop or a signal
\* whose hook failed is also an error) or not at all (a replacement whose
\* lineage was refused).
MetricsAccountForOffers ==
    \A e \in DOMAIN Edges :
        LET m == metrics[e]
            sum == m.delivered + m.dropped + m.signals + m.errors
        IN /\ failure # "edge" => sum = offered[e] /\ m.errors = 0
           /\ sum \in (offered[e] - 1)..(offered[e] + 1)
           /\ m.errors <= 1

\* A Node sees the frames of each of its Edges in the order they were emitted,
\* without a gap other than those the policy dropped or turned into signals.
InputsInEmissionOrder ==
    \A i, j \in DOMAIN processed :
        i < j /\ processed[i].edge = processed[j].edge => processed[i].number < processed[j].number

\* A successful run has left nothing behind: every delivery was processed,
\* every Node prepared and finished, none aborted, and the summary's signals are
\* the signals the Edges counted.
SuccessIsComplete ==
    state = "Finished" =>
        /\ prepared = Nodes /\ finished = Nodes /\ aborted = {} /\ failure = "none"
        /\ \A e \in DOMAIN Edges :
              /\ metrics[e].delivered = Cardinality({i \in DOMAIN processed : processed[i].edge = e})
              /\ metrics[e].signals = Cardinality({i \in DOMAIN observed : observed[i] = e})

\* The run takes every frame to its end, in order, and accounts for it.
RunnerLosesNothing ==
    /\ RunnerTypeOK /\ AttachmentsSuffice /\ EdgeTypeGateNeverFires
    /\ MetricsAccountForOffers /\ InputsInEmissionOrder /\ SuccessIsComplete

\* The runner keeps the lifecycle promise of NodeContract.
HooksOf(n) ==
    IF n \in aborted THEN "aborted" ELSE IF n \in finished THEN "finished"
    ELSE IF n \in prepared THEN "prepared" ELSE "new"
NC == INSTANCE NodeContract WITH
    hooks <- [n \in Nodes |-> HooksOf(n)], failed <- failure # "none"
KeepsNodeContract == NC!Contract

\* A run that has begun ends, and after a failure no prepared Node is left
\* without its abort hook.
RunEnds ==
    state = "Preparing" ~> \/ state = "Finished"
                           \/ state = "Aborted" /\ aborted = prepared
=============================================================================
