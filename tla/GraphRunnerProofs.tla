-------------------------- MODULE GraphRunnerProofs --------------------------
(***************************************************************************)
(* Theorems about the synchronous GraphRunner, for every compiled graph,   *)
(* every policy verdict and every sequence of emissions.                   *)
(***************************************************************************)
EXTENDS GraphRunner, CountingLemmas, TLAPS

----------------------------------------------------------------------------
(* The inductive invariant                                                 *)

\* The first k Nodes of the topological order, and those after position k.
FirstNodes(k) == {Order[i] : i \in {j \in DOMAIN Order : j <= k}}
NodesAfter(k) == {Order[i] : i \in {j \in DOMAIN Order : j > k}}

\* Where each loop of run is, and which hooks it has called by then.
PhaseInv ==
    /\ state \in {"none", "refused", "Ready", "Preparing", "Running", "Finishing", "Aborting",
                  "Finished", "Aborted"}
    /\ cursor \in 0..(Len(Order) + 1)
    /\ prepared \subseteq Nodes /\ finished \subseteq prepared /\ aborted \subseteq prepared
    /\ state \in {"none", "refused", "Ready"} => prepared = {}
    /\ state = "Preparing" => cursor >= 1 /\ prepared = FirstNodes(cursor - 1)
    /\ state \in {"Running", "Finishing", "Finished"} => prepared = Nodes
    /\ state \in {"Finishing", "Aborting"} => cursor <= Len(Order)
    /\ state = "Running" => cursor >= 1
    /\ state \in {"none", "refused", "Ready", "Preparing", "Running"} => finished = {}
    /\ state = "Finishing" => finished = NodesAfter(cursor)
    /\ state = "Finished" => finished = Nodes
    /\ state \notin {"Aborting", "Aborted"} => aborted = {} /\ failure = "none"
    /\ state \in {"Aborting", "Aborted"} => failure # "none"
    /\ state = "Aborting" => aborted = NodesAfter(cursor) \cap prepared

AttachedInv ==
    state \in {"Ready", "Preparing", "Running", "Finishing", "Aborting"} =>
        attached.nodes = Nodes /\ attached.policies = expected_policies

Emission == [port : STRING, type : STRING]
Item == [edge : DOMAIN Edges, type : STRING, number : Nat]
FlowTypes ==
    /\ emissions \in Seq(Emission) /\ edgesLeft \subseteq DOMAIN Edges
    /\ worklist \in Seq(Item) /\ processed \in Seq(Item) /\ observed \in Seq(DOMAIN Edges)
    /\ metrics \in [DOMAIN Edges -> Counters] /\ offered \in [DOMAIN Edges -> Nat]

\* The Edges still to be served are routes of the emission at the head, which
\* has passed the test of its output port.
RoutesInv ==
    /\ emissions # <<>> => emitter \in Nodes
    /\ edgesLeft # {} => /\ emissions # <<>> /\ Declared(emitter, Head(emissions))
                         /\ edgesLeft \subseteq Routes(emitter, Head(emissions).port)

\* All items ever put on the worklist, in order.
Dispatched == processed \o worklist
OfEdge(e) == {item \in Item : item.edge = e}

\* Items are numbered upwards on each Edge, within what the Edge was offered.
Numbered(items, upTo) ==
    /\ \A i \in DOMAIN items : items[i].number <= upTo[items[i].edge]
    /\ \A i, j \in DOMAIN items :
          i < j /\ items[i].edge = items[j].edge => items[i].number < items[j].number
NumbersInv == Numbered(Dispatched, offered)

\* The counters of the Edges agree with the worklist and with the summary.
CountersInv ==
    \A e \in DOMAIN Edges :
        /\ metrics[e].delivered = CountOf(Dispatched, OfEdge(e))
        /\ failure # "edge" => metrics[e].signals = CountOf(observed, {e})

\* The sources are left only when nothing waits any more.
DrainedInv == state \in {"Finishing", "Finished"} => worklist = <<>>

FlowInv ==
    /\ FlowTypes /\ RoutesInv /\ NumbersInv /\ CountersInv /\ MetricsAccountForOffers
    /\ EdgeTypeGateNeverFires /\ DrainedInv

RunnerInv == PhaseInv /\ AttachedInv /\ FlowInv

----------------------------------------------------------------------------
(* The topological order                                                   *)

LEMMA OrderFacts ==
    /\ Len(Order) \in Nat /\ DOMAIN Order = 1..Len(Order)
    /\ \A i \in DOMAIN Order : Order[i] \in Nodes
    /\ \A n \in Nodes : \E i \in DOMAIN Order : Order[i] = n
    /\ \A i, j \in DOMAIN Order : Order[i] = Order[j] => i = j
<1>1. Order \in Seq(Nodes) BY CompiledGraph
<1>2. Len(Order) \in Nat /\ DOMAIN Order = 1..Len(Order) BY <1>1
<1>3. Nodes = {Order[i] : i \in DOMAIN Order} BY DEF Nodes, ToSet
<1>4. QED BY <1>2, <1>3, CompiledGraph DEF IsInjective

\* The loops take the Nodes one by one.
LEMMA Loops ==
    ASSUME NEW k \in DOMAIN Order
    PROVE  /\ FirstNodes(k) = FirstNodes(k - 1) \cup {Order[k]} /\ Order[k] \notin FirstNodes(k - 1)
           /\ NodesAfter(k - 1) = NodesAfter(k) \cup {Order[k]} /\ Order[k] \notin NodesAfter(k)
<1>1. k \in Nat /\ \A j \in DOMAIN Order : j \in Nat BY OrderFacts
<1>2. \A j \in DOMAIN Order : (j <= k <=> (j <= k - 1 \/ j = k)) /\ ~(k <= k - 1)
  BY <1>1
<1>3. \A j \in DOMAIN Order : (j > k - 1 <=> (j > k \/ j = k)) /\ ~(k > k)
  BY <1>1
<1>4. FirstNodes(k) = FirstNodes(k - 1) \cup {Order[k]} BY <1>2 DEF FirstNodes
<1>5. Order[k] \notin FirstNodes(k - 1) BY <1>2, OrderFacts DEF FirstNodes
<1>6. NodesAfter(k - 1) = NodesAfter(k) \cup {Order[k]} BY <1>3 DEF NodesAfter
<1>7. Order[k] \notin NodesAfter(k) BY <1>3, OrderFacts DEF NodesAfter
<1>8. QED BY <1>4, <1>5, <1>6, <1>7

LEMMA LoopEnds ==
    /\ FirstNodes(0) = {} /\ FirstNodes(Len(Order)) = Nodes
    /\ NodesAfter(0) = Nodes /\ NodesAfter(Len(Order)) = {}
<1>1. \A j \in DOMAIN Order : j \in Nat /\ ~(j <= 0) /\ j <= Len(Order) /\ j > 0 /\ ~(j > Len(Order))
  BY OrderFacts
<1>2. QED BY <1>1, OrderFacts DEF FirstNodes, NodesAfter

----------------------------------------------------------------------------
(* The hooks                                                               *)

LEMMA PhaseInitially == RunnerInit("none") => PhaseInv /\ AttachedInv
BY OrderFacts DEF RunnerInit, PhaseInv, AttachedInv

\* A failure in one of the loops begins the abort of what is prepared.
LEMMA FailureAborts ==
    ASSUME PhaseInv, AttachedInv, NEW code, code # "none", FailWith(code),
           state \in {"Preparing", "Running", "Finishing"},
           UNCHANGED <<attached, prepared, finished, aborted>>
    PROVE  PhaseInv' /\ AttachedInv'
<1>1. aborted' = NodesAfter(cursor') \cap prepared'
  BY LoopEnds DEF PhaseInv, FailWith
<1>2. PhaseInv' BY <1>1, OrderFacts DEF PhaseInv, FailWith
<1>3. AttachedInv' BY DEF AttachedInv, FailWith
<1>4. QED BY <1>2, <1>3

\* A step inside the loop over the sources calls no hook of the lifecycle.
LEMMA PhaseRests ==
    ASSUME PhaseInv, AttachedInv, UNCHANGED <<state, attached, prepared, finished, aborted, failure>>,
           \/ cursor' = cursor
           \/ state = "Running" /\ cursor <= Len(Order) /\ cursor' = cursor + 1
    PROVE  PhaseInv' /\ AttachedInv'
<1>1. AttachedInv' BY DEF AttachedInv
<1>2. CASE cursor' = cursor BY <1>1, <1>2 DEF PhaseInv
<1>3. CASE state = "Running" /\ cursor <= Len(Order) /\ cursor' = cursor + 1
  BY <1>1, <1>3, OrderFacts DEF PhaseInv
<1>4. QED BY <1>2, <1>3

LEMMA NewPhase ==
    ASSUME PhaseInv, AttachedInv, NEW nodes, NEW policies, New(nodes, policies)
    PROVE  PhaseInv' /\ AttachedInv'
<1>1. PhaseInv' BY DEF New, PhaseInv, callVars
<1>2. AttachedInv' BY DEF New, AttachedInv, expected_policies
<1>3. QED BY <1>1, <1>2

LEMMA RunPhase ==
    ASSUME PhaseInv, AttachedInv, Run
    PROVE  PhaseInv' /\ AttachedInv'
<1>1. cursor' - 1 = 0 /\ FirstNodes(cursor' - 1) = {} BY LoopEnds DEF Run
<1>2. /\ state' = "Preparing" /\ cursor' = 1 /\ cursor' \in 0..(Len(Order) + 1)
      /\ prepared' = {} /\ finished' = {} /\ aborted' = {} /\ failure' = "none"
  BY OrderFacts DEF Run, PhaseInv, callVars
<1>3. PhaseInv' BY <1>1, <1>2 DEF PhaseInv
<1>4. AttachedInv' BY DEF Run, AttachedInv
<1>5. QED BY <1>3, <1>4

LEMMA PreparePhase ==
    ASSUME PhaseInv, AttachedInv, NEW ok, call_prepare(ok)
    PROVE  PhaseInv' /\ AttachedInv'
<1>0. /\ state = "Preparing" /\ cursor <= Len(Order) /\ UNCHANGED <<attached, aborted, finished>>
      /\ cursor \in DOMAIN Order
  BY OrderFacts DEF call_prepare, PhaseInv
<1>1. CASE /\ prepared' = prepared \cup {Order[cursor]}
           /\ cursor' = cursor + 1 /\ UNCHANGED <<state, failure>>
  <2>1. prepared' = FirstNodes(cursor' - 1) /\ prepared' \subseteq Nodes
    BY <1>0, <1>1, Loops, OrderFacts DEF PhaseInv
  <2>2. PhaseInv' BY <1>0, <1>1, <2>1, OrderFacts DEF PhaseInv
  <2>3. QED BY <1>0, <1>1, <2>2 DEF AttachedInv
<1>2. CASE FailWith("prepare") /\ UNCHANGED prepared
  BY <1>0, <1>2, FailureAborts
<1>3. QED BY <1>1, <1>2 DEF call_prepare

LEMMA StartSourcesPhase ==
    ASSUME PhaseInv, AttachedInv, StartSources
    PROVE  PhaseInv' /\ AttachedInv'
<1>1. cursor - 1 = Len(Order) /\ prepared = FirstNodes(cursor - 1)
  BY OrderFacts DEF StartSources, PhaseInv
<1>2. PhaseInv' BY <1>1, LoopEnds, OrderFacts DEF StartSources, PhaseInv, callVars
<1>3. AttachedInv' BY DEF StartSources, AttachedInv
<1>4. QED BY <1>2, <1>3

LEMMA StartFinishPhase ==
    ASSUME PhaseInv, AttachedInv, StartFinish
    PROVE  PhaseInv' /\ AttachedInv'
<1>1. PhaseInv' BY LoopEnds, OrderFacts DEF StartFinish, PhaseInv, callVars
<1>2. AttachedInv' BY DEF StartFinish, AttachedInv
<1>3. QED BY <1>1, <1>2

LEMMA FinishPhase ==
    ASSUME PhaseInv, AttachedInv, NEW ok, call_finish(ok)
    PROVE  PhaseInv' /\ AttachedInv'
<1>0. /\ state = "Finishing" /\ cursor > 0 /\ UNCHANGED <<attached, aborted, prepared>>
      /\ cursor \in DOMAIN Order
  BY OrderFacts DEF call_finish, PhaseInv
<1>1. CASE /\ finished' = finished \cup {Order[cursor]} /\ cursor' = cursor - 1
           /\ UNCHANGED <<state, failure>>
  <2>1. finished' = NodesAfter(cursor') /\ finished' \subseteq Nodes
    BY <1>0, <1>1, Loops, OrderFacts DEF PhaseInv
  <2>2. PhaseInv' BY <1>0, <1>1, <2>1, OrderFacts DEF PhaseInv
  <2>3. QED BY <1>0, <1>1, <2>2 DEF AttachedInv
<1>2. CASE FailWith("finish") /\ UNCHANGED finished
  BY <1>0, <1>2, FailureAborts
<1>3. QED BY <1>1, <1>2 DEF call_finish

LEMMA SucceedPhase ==
    ASSUME PhaseInv, AttachedInv, Succeed
    PROVE  PhaseInv' /\ AttachedInv'
<1>1. PhaseInv' BY LoopEnds DEF Succeed, PhaseInv, callVars
<1>2. AttachedInv' BY DEF Succeed, AttachedInv
<1>3. QED BY <1>1, <1>2

LEMMA AbortPhase ==
    ASSUME PhaseInv, AttachedInv, AbortPrepared
    PROVE  PhaseInv' /\ AttachedInv'
<1>0. /\ state = "Aborting" /\ cursor > 0 /\ UNCHANGED <<state, attached, prepared, finished, failure>>
      /\ aborted' = aborted \cup ({Order[cursor]} \cap prepared) /\ cursor' = cursor - 1
      /\ cursor \in DOMAIN Order
  BY OrderFacts DEF AbortPrepared, PhaseInv
<1>1. aborted' = NodesAfter(cursor') \cap prepared' BY <1>0, Loops DEF PhaseInv
<1>2. PhaseInv' BY <1>0, <1>1, OrderFacts DEF PhaseInv
<1>3. QED BY <1>0, <1>2 DEF AttachedInv

LEMMA AbortedPhase ==
    ASSUME PhaseInv, AttachedInv, Aborted
    PROVE  PhaseInv' /\ AttachedInv'
<1>1. PhaseInv' BY DEF Aborted, PhaseInv, callVars
<1>2. AttachedInv' BY DEF Aborted, AttachedInv
<1>3. QED BY <1>1, <1>2

LEMMA FlowPhase ==
    ASSUME PhaseInv, AttachedInv,
           \/ PassOver \/ RouteEmission
           \/ \E ok \in BOOLEAN, emitted \in Emissions :
                 ProcessSource(ok, emitted) \/ Dispatch(ok, emitted)
           \/ \E verdict, action, hookOk : apply_edge(verdict, action, hookOk)
    PROVE  PhaseInv' /\ AttachedInv'
<1>0. state = "Running" /\ UNCHANGED <<attached, prepared, finished, aborted>>
  BY DEF PassOver, RouteEmission, ProcessSource, Dispatch, apply_edge, callVars
<1>1. \/ \E code : code # "none" /\ FailWith(code)
      \/ /\ UNCHANGED <<state, failure>>
         /\ cursor' = cursor \/ (cursor <= Len(Order) /\ cursor' = cursor + 1)
  <2>1. CASE PassOver BY <2>1 DEF PassOver
  <2>2. CASE RouteEmission BY <2>2 DEF RouteEmission
  <2>3. CASE \E ok \in BOOLEAN, emitted \in Emissions : ProcessSource(ok, emitted)
    BY <2>3 DEF ProcessSource
  <2>4. CASE \E ok \in BOOLEAN, emitted \in Emissions : Dispatch(ok, emitted)
    BY <2>4 DEF Dispatch, Processed
  <2>5. CASE \E verdict, action, hookOk : apply_edge(verdict, action, hookOk)
    <3>1. PICK verdict, action, hookOk : apply_edge(verdict, action, hookOk) BY <2>5
    <3>2. \/ FailWith("edge type") \/ FailWith("edge") \/ UNCHANGED <<state, cursor, failure>>
      BY <3>1 DEF apply_edge
    <3>3. QED BY <3>2
  <2>6. QED BY <2>1, <2>2, <2>3, <2>4, <2>5
<1>2. CASE \E code : code # "none" /\ FailWith(code) BY <1>0, <1>2, FailureAborts
<1>3. CASE /\ UNCHANGED <<state, failure>>
           /\ cursor' = cursor \/ (cursor <= Len(Order) /\ cursor' = cursor + 1)
  BY <1>0, <1>3, PhaseRests
<1>4. QED BY <1>1, <1>2, <1>3

----------------------------------------------------------------------------
(* The frames                                                              *)

LEMMA FlowInitially == RunnerInit("none") => FlowInv
<1> SUFFICES ASSUME RunnerInit("none") PROVE FlowInv
  OBVIOUS
<1>1. FlowTypes BY DEF RunnerInit, FlowTypes, NoMetrics, Counters
<1>2. RoutesInv /\ EdgeTypeGateNeverFires /\ DrainedInv
  BY DEF RunnerInit, RoutesInv, EdgeTypeGateNeverFires, DrainedInv
<1>3. Dispatched = <<>> BY DEF RunnerInit, Dispatched
<1>4. NumbersInv BY <1>3 DEF NumbersInv, Numbered
<1>5. \A T : CountOf(<<>>, T) = 0
  <2>1. \A T : PositionsOf(<<>>, T) = {} BY DEF PositionsOf
  <2>2. QED BY <2>1, FS_EmptySet DEF CountOf
<1>6. CountersInv BY <1>3, <1>5 DEF RunnerInit, CountersInv, NoMetrics
<1>7. MetricsAccountForOffers BY DEF RunnerInit, MetricsAccountForOffers, NoMetrics
<1>8. QED BY <1>1, <1>2, <1>4, <1>6, <1>7 DEF FlowInv

\* The steps that call a hook of the lifecycle leave the frames alone.
LEMMA FlowRests ==
    ASSUME FlowInv, UNCHANGED flowOfFrames,
           failure' = failure \/ (failure = "none" /\ failure' \notin {"edge", "edge type"}),
           state' \in {"Finishing", "Finished"} => worklist = <<>>
    PROVE  FlowInv'
<1> USE DEF FlowInv, flowOfFrames
<1>1. FlowTypes' BY DEF FlowTypes
<1>2. RoutesInv' BY DEF RoutesInv, Declared, Routes
<1>3. Dispatched' = Dispatched BY DEF Dispatched
<1>4. NumbersInv' BY <1>3 DEF NumbersInv
<1>5. CountersInv' BY <1>3 DEF CountersInv
<1>6. MetricsAccountForOffers' BY DEF MetricsAccountForOffers
<1>7. EdgeTypeGateNeverFires' /\ DrainedInv' BY DEF EdgeTypeGateNeverFires, DrainedInv
<1>8. QED BY <1>1, <1>2, <1>4, <1>5, <1>6, <1>7

\* A call that returned hands over its emissions, those past the limit cut off.
LEMMA EmissionsTaken ==
    ASSUME NEW emitted \in Emissions
    PROVE  take_emissions(emitted) \in Seq(Emission)
<1>1. emitted \in Seq(Emission) BY EmissionsAssumption DEF Emission
<1>2. ASSUME Len(emitted) > EMISSION_LIMIT
      PROVE  SubSeq(emitted, 1, EMISSION_LIMIT) \in Seq(Emission)
  <2>1. \A i \in 1..EMISSION_LIMIT : emitted[i] \in Emission
    BY <1>1, <1>2, EmissionsAssumption
  <2>2. QED BY <1>1, <2>1, EmissionsAssumption
<1>3. QED BY <1>1, <1>2, EmissionsAssumption DEF take_emissions

LEMMA ProcessSourceFlow ==
    ASSUME PhaseInv, FlowInv, NEW ok \in BOOLEAN, NEW emitted \in Emissions,
           ProcessSource(ok, emitted)
    PROVE  FlowInv'
<1> USE DEF FlowInv
<1>1. /\ state = "Running" /\ failure = "none" /\ edgesLeft = {}
      /\ UNCHANGED <<worklist, edgesLeft, metrics, observed, offered, processed>>
      /\ state' \in {"Running", "Aborting"} /\ failure' \in {"none", "process"}
  BY DEF ProcessSource, PhaseInv, Drained, Routed, FailWith
<1>2. \/ emitter' \in Nodes /\ emissions' \in Seq(Emission)
      \/ UNCHANGED <<emitter, emissions>>
  BY EmissionsTaken, OrderFacts DEF ProcessSource, PhaseInv
<1>3. FlowTypes' BY <1>1, <1>2 DEF FlowTypes
<1>4. RoutesInv' BY <1>1, <1>2 DEF RoutesInv
<1>5. Dispatched' = Dispatched BY <1>1 DEF Dispatched
<1>6. NumbersInv' BY <1>1, <1>5 DEF NumbersInv
<1>7. CountersInv' BY <1>1, <1>5 DEF CountersInv
<1>8. MetricsAccountForOffers' BY <1>1 DEF MetricsAccountForOffers
<1>9. EdgeTypeGateNeverFires' /\ DrainedInv' BY <1>1 DEF EdgeTypeGateNeverFires, DrainedInv
<1>10. QED BY <1>3, <1>4, <1>6, <1>7, <1>8, <1>9

\* An item goes from the worklist to its Node; Dispatched stays as it is.
LEMMA DispatchFlow ==
    ASSUME PhaseInv, FlowInv, NEW ok \in BOOLEAN, NEW emitted \in Emissions, Dispatch(ok, emitted)
    PROVE  FlowInv'
<1> USE DEF FlowInv
<1>1. /\ state = "Running" /\ failure = "none" /\ edgesLeft = {} /\ worklist # <<>>
      /\ UNCHANGED <<edgesLeft, metrics, observed, offered>>
      /\ worklist' = Tail(worklist) /\ processed' = Append(processed, Head(worklist))
      /\ state' \in {"Running", "Aborting"} /\ failure' \in {"none", "process"}
  BY DEF Dispatch, Processed, PhaseInv, Routed, FailWith
<1>2. worklist \in Seq(Item) /\ processed \in Seq(Item) BY DEF FlowTypes
<1>3. Head(worklist) \in Item /\ worklist' \in Seq(Item) /\ processed' \in Seq(Item) BY <1>1, <1>2
<1>4. \/ emitter' \in Nodes /\ emissions' \in Seq(Emission)
      \/ UNCHANGED <<emitter, emissions>>
  <2>1. Edges[Head(worklist).edge].to \in Nodes BY <1>3, CompiledGraph DEF Item
  <2>2. QED BY <2>1, EmissionsTaken DEF Dispatch, Processed
<1>5. FlowTypes' BY <1>1, <1>3, <1>4 DEF FlowTypes
<1>6. RoutesInv' BY <1>1, <1>4 DEF RoutesInv
<1>7. Dispatched' = Dispatched BY <1>1, <1>2, HeadMovesOver DEF Dispatched
<1>8. NumbersInv' BY <1>1, <1>7 DEF NumbersInv
<1>9. CountersInv' BY <1>1, <1>7 DEF CountersInv
<1>10. MetricsAccountForOffers' BY <1>1 DEF MetricsAccountForOffers
<1>11. EdgeTypeGateNeverFires' /\ DrainedInv' BY <1>1 DEF EdgeTypeGateNeverFires, DrainedInv
<1>12. QED BY <1>5, <1>6, <1>8, <1>9, <1>10, <1>11

LEMMA RouteEmissionFlow ==
    ASSUME PhaseInv, FlowInv, RouteEmission
    PROVE  FlowInv'
<1> USE DEF FlowInv
<1>1. /\ state = "Running" /\ failure = "none" /\ edgesLeft = {} /\ emissions # <<>>
      /\ UNCHANGED <<worklist, emitter, metrics, observed, offered, processed>>
      /\ state' \in {"Running", "Aborting"} /\ failure' \in {"none", "output"}
  BY DEF RouteEmission, PhaseInv, FailWith
<1>2. \/ UNCHANGED <<emissions, edgesLeft>>
      \/ /\ Declared(emitter, Head(emissions)) /\ emissions' = emissions
         /\ edgesLeft' = Routes(emitter, Head(emissions).port)
      \/ emissions' = Tail(emissions) /\ edgesLeft' = {}
  BY DEF RouteEmission
<1>3. emissions' \in Seq(Emission) /\ edgesLeft' \subseteq DOMAIN Edges
  <2>1. emissions \in Seq(Emission) /\ Tail(emissions) \in Seq(Emission) BY <1>1 DEF FlowTypes
  <2>2. QED BY <1>1, <1>2, <2>1 DEF Routes
<1>4. FlowTypes' BY <1>1, <1>3 DEF FlowTypes
<1>5. RoutesInv' BY <1>1, <1>2 DEF RoutesInv, Declared, Routes
<1>6. Dispatched' = Dispatched BY <1>1 DEF Dispatched
<1>7. NumbersInv' BY <1>1, <1>6 DEF NumbersInv
<1>8. CountersInv' BY <1>1, <1>6 DEF CountersInv
<1>9. MetricsAccountForOffers' BY <1>1 DEF MetricsAccountForOffers
<1>10. EdgeTypeGateNeverFires' /\ DrainedInv' BY <1>1 DEF EdgeTypeGateNeverFires, DrainedInv
<1>11. QED BY <1>4, <1>5, <1>7, <1>8, <1>9, <1>10

----------------------------------------------------------------------------
(* apply_edge                                                              *)

\* Everything that can become of one frame on one Edge.
Ends(counted) == [counted |-> counted, fails |-> TRUE]
GoesOn(counted) == [counted |-> counted, fails |-> FALSE]
Outcomes ==
    {GoesOn({"delivered"}), GoesOn({"dropped"}), GoesOn({"signals"}), Ends({"dropped", "errors"}),
     Ends({"signals", "errors"}), Ends({"errors"}), Ends({})}

LEMMA OutcomeCases ==
    ASSUME NEW e, NEW verdict, NEW action, NEW hookOk \in BOOLEAN
    PROVE  Outcome(e, verdict, action, hookOk) \in Outcomes /\ Refused \in Outcomes
<1>1. Told("dropped", hookOk) \in Outcomes /\ Told("signals", hookOk) \in Outcomes
  <2>1. CASE hookOk
    <3>1. Told("dropped", hookOk) = GoesOn({"dropped"}) /\ Told("signals", hookOk) = GoesOn({"signals"})
      BY <2>1 DEF Told, GoesOn
    <3>2. QED BY <3>1 DEF Outcomes
  <2>2. CASE ~hookOk
    <3>1. /\ Told("dropped", hookOk) = Ends({"dropped", "errors"})
          /\ Told("signals", hookOk) = Ends({"signals", "errors"})
      BY <2>2 DEF Told, Ends
    <3>2. QED BY <3>1 DEF Outcomes
  <2>3. QED BY <2>1, <2>2
<1>2. /\ Refused \in Outcomes /\ [counted |-> {"delivered"}, fails |-> FALSE] \in Outcomes
      /\ [counted |-> {}, fails |-> TRUE] \in Outcomes
  BY DEF Refused, Outcomes, Ends, GoesOn
<1>3. QED BY <1>1, <1>2 DEF Outcome

\* What one application of an Edge does, with the outcome of the frame.
AppliedTo(e, outcome) ==
    /\ offered' = [offered EXCEPT ![e] = @ + 1]
    /\ Count(e, outcome.counted)
    /\ worklist' = IF "delivered" \in outcome.counted
                   THEN Append(worklist, [edge |-> e, type |-> Head(emissions).type,
                                          number |-> offered[e] + 1])
                   ELSE worklist
    /\ observed' = IF outcome.counted = {"signals"} THEN Append(observed, e) ELSE observed
    /\ IF outcome.fails
       THEN failure' = "edge" /\ state' = "Aborting" /\ UNCHANGED <<edgesLeft, emissions>>
       ELSE NextEdge(e) /\ UNCHANGED <<state, failure>>

\* The Edge's own type gate repeats a test the emission has passed.
LEMMA ApplyEdgeEffect ==
    ASSUME FlowInv, NEW verdict, NEW action, NEW hookOk \in BOOLEAN,
           apply_edge(verdict, action, hookOk)
    PROVE  \E e \in edgesLeft, outcome \in Outcomes : AppliedTo(e, outcome)
<1>1. PICK e \in edgesLeft :
        LET frame == [edge |-> e, type |-> Head(emissions).type, number |-> offered[e] + 1]
            outcome == IF frame.type # Edges[e].type
                       THEN Refused
                       ELSE Outcome(e, verdict, action, hookOk)
        IN  /\ offered' = [offered EXCEPT ![e] = @ + 1]
            /\ Count(e, outcome.counted)
            /\ worklist' = IF "delivered" \in outcome.counted THEN Append(worklist, frame) ELSE worklist
            /\ observed' = IF outcome.counted = {"signals"} THEN Append(observed, e) ELSE observed
            /\ IF outcome.fails
               THEN /\ FailWith(IF frame.type # Edges[e].type THEN "edge type" ELSE "edge")
                    /\ UNCHANGED <<edgesLeft, emissions>>
               ELSE NextEdge(e) /\ UNCHANGED <<state, cursor, failure>>
  BY DEF apply_edge
<1>2. Head(emissions).type = Edges[e].type
  <2>1. /\ e \in DOMAIN Edges /\ Edges[e].from = emitter /\ Edges[e].port = Head(emissions).port
        /\ Head(emissions).type = Outputs[emitter][Head(emissions).port]
    BY DEF FlowInv, RoutesInv, Routes, Declared
  <2>2. QED BY <2>1, CompiledGraph
<1>3. AppliedTo(e, Outcome(e, verdict, action, hookOk))
  BY <1>1, <1>2 DEF AppliedTo, FailWith
<1>4. QED BY <1>3, OutcomeCases

\* The counters of the Edge after an outcome.
LEMMA CountedOn ==
    ASSUME FlowTypes, NEW e \in DOMAIN Edges, NEW counted, Count(e, counted)
    PROVE  /\ metrics' \in [DOMAIN Edges -> Counters]
           /\ \A f \in DOMAIN Edges : f # e => metrics'[f] = metrics[f]
           /\ metrics'[e].delivered = metrics[e].delivered + (IF "delivered" \in counted THEN 1 ELSE 0)
           /\ metrics'[e].dropped = metrics[e].dropped + (IF "dropped" \in counted THEN 1 ELSE 0)
           /\ metrics'[e].signals = metrics[e].signals + (IF "signals" \in counted THEN 1 ELSE 0)
           /\ metrics'[e].errors = metrics[e].errors + (IF "errors" \in counted THEN 1 ELSE 0)
<1>1. metrics \in [DOMAIN Edges -> Counters] /\ metrics[e] \in Counters BY DEF FlowTypes
<1>2. metrics' = [metrics EXCEPT ![e] =
                    [c \in DOMAIN metrics[e] |-> metrics[e][c] + IF c \in counted THEN 1 ELSE 0]]
  BY DEF Count
<1>3. metrics'[e] = [c \in DOMAIN metrics[e] |-> metrics[e][c] + IF c \in counted THEN 1 ELSE 0]
      /\ \A f \in DOMAIN Edges : f # e => metrics'[f] = metrics[f]
  BY <1>1, <1>2
<1>4. DOMAIN metrics[e] = {"delivered", "dropped", "signals", "errors"} BY <1>1 DEF Counters
<1>5. /\ metrics'[e].delivered = metrics[e].delivered + (IF "delivered" \in counted THEN 1 ELSE 0)
      /\ metrics'[e].dropped = metrics[e].dropped + (IF "dropped" \in counted THEN 1 ELSE 0)
      /\ metrics'[e].signals = metrics[e].signals + (IF "signals" \in counted THEN 1 ELSE 0)
      /\ metrics'[e].errors = metrics[e].errors + (IF "errors" \in counted THEN 1 ELSE 0)
  BY <1>1, <1>3, <1>4
<1>6. metrics'[e] \in Counters
  <2>1. metrics'[e] = [delivered |-> metrics'[e].delivered, dropped |-> metrics'[e].dropped,
                       signals |-> metrics'[e].signals, errors |-> metrics'[e].errors]
    BY <1>3, <1>4
  <2>2. /\ metrics'[e].delivered \in Nat /\ metrics'[e].dropped \in Nat
        /\ metrics'[e].signals \in Nat /\ metrics'[e].errors \in Nat
    BY <1>1, <1>5 DEF Counters
  <2>3. QED BY <2>1, <2>2 DEF Counters
<1>7. metrics' \in [DOMAIN Edges -> Counters]
  BY <1>1, <1>2, <1>3, <1>6
<1>8. QED BY <1>3, <1>5, <1>7

LEMMA NumberedOn ==
    ASSUME NEW items \in Seq(Item), NEW upTo \in [DOMAIN Edges -> Nat], Numbered(items, upTo),
           NEW e \in DOMAIN Edges, NEW x \in Item, x.edge = e, x.number = upTo[e] + 1
    PROVE  /\ Numbered(items, [upTo EXCEPT ![e] = @ + 1])
           /\ Numbered(Append(items, x), [upTo EXCEPT ![e] = @ + 1])
<1>1. /\ Len(items) \in Nat /\ DOMAIN items = 1..Len(items)
      /\ DOMAIN Append(items, x) = 1..(Len(items) + 1)
      /\ \A i \in 1..Len(items) : Append(items, x)[i] = items[i]
      /\ Append(items, x)[Len(items) + 1] = x
      /\ \A i \in 1..Len(items) : items[i] \in Item
  OBVIOUS
<1>2. PICK next \in [DOMAIN Edges -> Nat] : next = [upTo EXCEPT ![e] = @ + 1]
  <2>1. [upTo EXCEPT ![e] = @ + 1] \in [DOMAIN Edges -> Nat] OBVIOUS
  <2>2. QED BY <2>1, Zenon
<1>3. next[e] = upTo[e] + 1 /\ \A f \in DOMAIN Edges : f # e => next[f] = upTo[f] BY <1>2
<1>4. ASSUME NEW i \in 1..Len(items)
      PROVE  /\ items[i].edge \in DOMAIN Edges /\ items[i].number \in Nat
             /\ items[i].number <= next[items[i].edge]
             /\ items[i].edge = e => items[i].number < x.number
  <2>1. /\ items[i].edge \in DOMAIN Edges /\ items[i].number \in Nat
        /\ items[i].number <= upTo[items[i].edge]
    BY <1>1 DEF Item, Numbered
  <2>2. QED BY <1>3, <2>1
<1>5. Numbered(items, next) BY <1>1, <1>4 DEF Numbered
<1>6. Numbered(Append(items, x), next)
  <2>1. ASSUME NEW i \in 1..(Len(items) + 1)
        PROVE  Append(items, x)[i].number <= next[Append(items, x)[i].edge]
    <3>1. CASE i \in 1..Len(items) BY <1>1, <1>4, <3>1
    <3>2. CASE i = Len(items) + 1
      <4>1. x.number <= next[x.edge] BY <1>3 DEF Item
      <4>2. QED BY <1>1, <3>2, <4>1
    <3>3. QED BY <1>1, <3>1, <3>2
  <2>2. ASSUME NEW i \in 1..(Len(items) + 1), NEW j \in 1..(Len(items) + 1), i < j,
               Append(items, x)[i].edge = Append(items, x)[j].edge
        PROVE  Append(items, x)[i].number < Append(items, x)[j].number
    <3>1. i \in 1..Len(items) BY <1>1, <2>2
    <3>2. CASE j \in 1..Len(items) BY <1>1, <2>2, <3>1, <3>2 DEF Numbered
    <3>3. CASE j = Len(items) + 1 BY <1>1, <1>4, <2>2, <3>1, <3>3
    <3>4. QED BY <1>1, <3>2, <3>3
  <2>3. QED BY <1>1, <2>1, <2>2 DEF Numbered
<1>7. QED BY <1>2, <1>5, <1>6

LEMMA ApplyEdgeFlow ==
    ASSUME PhaseInv, FlowInv, NEW verdict, NEW action, NEW hookOk \in BOOLEAN,
           apply_edge(verdict, action, hookOk)
    PROVE  FlowInv'
<1> USE DEF FlowInv
<1>1. PICK e \in edgesLeft, outcome \in Outcomes : AppliedTo(e, outcome) BY ApplyEdgeEffect
<1>2. /\ state = "Running" /\ failure = "none" /\ UNCHANGED <<emitter, processed>>
      /\ e \in DOMAIN Edges /\ emissions # <<>>
      /\ state' \in {"Running", "Aborting"} /\ failure' \in {"none", "edge"}
      /\ failure' = "edge" <=> outcome.fails
  BY <1>1 DEF apply_edge, PhaseInv, FlowTypes, AppliedTo, RoutesInv
<1>3. PICK x : x = [edge |-> e, type |-> Head(emissions).type, number |-> offered[e] + 1]
  OBVIOUS
<1>4. x \in Item /\ x.edge = e /\ x.number = offered[e] + 1
  <2>1. emissions \in Seq(Emission) /\ Head(emissions) \in Emission BY <1>2 DEF FlowTypes
  <2>2. offered[e] + 1 \in Nat BY <1>2 DEF FlowTypes
  <2>3. QED BY <1>2, <1>3, <2>1, <2>2 DEF Item, Emission
<1>5. /\ offered \in [DOMAIN Edges -> Nat] /\ offered' = [offered EXCEPT ![e] = @ + 1]
      /\ offered' \in [DOMAIN Edges -> Nat] /\ offered'[e] = offered[e] + 1
      /\ \A f \in DOMAIN Edges : f # e => offered'[f] = offered[f]
  BY <1>1, <1>2 DEF AppliedTo, FlowTypes
<1>6. worklist \in Seq(Item) /\ processed \in Seq(Item) /\ Dispatched \in Seq(Item)
  BY DEF FlowTypes, Dispatched
<1>7. \/ "delivered" \in outcome.counted /\ worklist' = Append(worklist, x)
      \/ "delivered" \notin outcome.counted /\ worklist' = worklist
  BY <1>1, <1>3 DEF AppliedTo
<1>8. \/ "delivered" \in outcome.counted /\ Dispatched' = Append(Dispatched, x)
      \/ "delivered" \notin outcome.counted /\ Dispatched' = Dispatched
  <2>1. processed \o Append(worklist, x) = Append(processed \o worklist, x)
    BY <1>4, <1>6, AppendToSecond
  <2>2. QED BY <1>2, <1>7, <2>1 DEF Dispatched
<1>9. /\ metrics' \in [DOMAIN Edges -> Counters]
      /\ \A f \in DOMAIN Edges : f # e => metrics'[f] = metrics[f]
      /\ metrics'[e].delivered = metrics[e].delivered + (IF "delivered" \in outcome.counted THEN 1 ELSE 0)
      /\ metrics'[e].dropped = metrics[e].dropped + (IF "dropped" \in outcome.counted THEN 1 ELSE 0)
      /\ metrics'[e].signals = metrics[e].signals + (IF "signals" \in outcome.counted THEN 1 ELSE 0)
      /\ metrics'[e].errors = metrics[e].errors + (IF "errors" \in outcome.counted THEN 1 ELSE 0)
  BY <1>1, <1>2, CountedOn DEF AppliedTo
<1>10. FlowTypes'
  <2>1. emissions \in Seq(Emission) /\ Tail(emissions) \in Seq(Emission) BY <1>2 DEF FlowTypes
  <2>2. emissions' \in {emissions, Tail(emissions)} /\ edgesLeft' \subseteq edgesLeft
    BY <1>1 DEF AppliedTo, NextEdge
  <2>3. observed' \in Seq(DOMAIN Edges)
    <3>1. observed \in Seq(DOMAIN Edges) BY DEF FlowTypes
    <3>2. Append(observed, e) \in Seq(DOMAIN Edges) BY <1>2, <3>1
    <3>3. QED BY <1>1, <3>1, <3>2 DEF AppliedTo
  <2>4. worklist' \in Seq(Item)
    <3>1. Append(worklist, x) \in Seq(Item) BY <1>4, <1>6
    <3>2. QED BY <1>6, <1>7, <3>1
  <2>5. QED BY <1>2, <1>5, <1>9, <2>1, <2>2, <2>3, <2>4 DEF FlowTypes
<1>11. RoutesInv'
  <2>1. CASE outcome.fails BY <1>1, <1>2, <2>1 DEF AppliedTo, RoutesInv, Declared, Routes
  <2>2. CASE ~outcome.fails /\ edgesLeft = {e}
    <3>1. edgesLeft' = {} BY <1>1, <2>2 DEF AppliedTo, NextEdge
    <3>2. QED BY <1>2, <3>1 DEF RoutesInv
  <2>3. CASE ~outcome.fails /\ edgesLeft # {e}
    <3>1. edgesLeft' \subseteq edgesLeft /\ emissions' = emissions
      BY <1>1, <2>3 DEF AppliedTo, NextEdge
    <3>2. QED BY <1>2, <3>1 DEF RoutesInv, Declared, Routes
  <2>4. QED BY <2>1, <2>2, <2>3
<1>12. NumbersInv'
  <2>1. /\ Numbered(Dispatched, [offered EXCEPT ![e] = @ + 1])
        /\ Numbered(Append(Dispatched, x), [offered EXCEPT ![e] = @ + 1])
    BY <1>2, <1>4, <1>5, <1>6, NumberedOn DEF NumbersInv
  <2>2. QED BY <1>5, <1>8, <2>1 DEF NumbersInv
<1>13. CountersInv'
  <2> SUFFICES ASSUME NEW f \in DOMAIN Edges
               PROVE  /\ metrics'[f].delivered = CountOf(Dispatched', OfEdge(f))
                      /\ failure' # "edge" => metrics'[f].signals = CountOf(observed', {f})
    BY DEF CountersInv, OfEdge, Item
  <2>1. /\ metrics[f].delivered = CountOf(Dispatched, OfEdge(f)) /\ metrics[f] \in Counters
        /\ metrics[f].signals = CountOf(observed, {f})
    BY <1>2 DEF CountersInv, FlowTypes
  <2>2. x \in OfEdge(f) <=> f = e BY <1>4 DEF OfEdge
  <2>3. /\ f = e => CountOf(Append(Dispatched, x), OfEdge(f)) = CountOf(Dispatched, OfEdge(f)) + 1
        /\ f # e => CountOf(Append(Dispatched, x), OfEdge(f)) = CountOf(Dispatched, OfEdge(f))
    BY <1>4, <1>6, <2>2, CountOfAppend
  <2>4. metrics'[f].delivered = CountOf(Dispatched', OfEdge(f))
    <3>1. CASE f = e
      <4>1. metrics[e].delivered \in Nat BY <2>1, <3>1 DEF Counters
      <4>2. CASE "delivered" \in outcome.counted
        <5>1. metrics'[e].delivered = metrics[e].delivered + 1 BY <1>9, <4>2
        <5>2. QED BY <1>8, <2>1, <2>3, <3>1, <4>2, <5>1
      <4>3. CASE "delivered" \notin outcome.counted
        <5>1. metrics'[e].delivered = metrics[e].delivered + 0 BY <1>9, <4>3
        <5>2. QED BY <1>8, <2>1, <3>1, <4>1, <4>3, <5>1
      <4>4. QED BY <4>2, <4>3
    <3>2. CASE f # e BY <1>8, <1>9, <2>1, <2>3, <3>2
    <3>3. QED BY <3>1, <3>2
  <2>5. ASSUME failure' # "edge" PROVE metrics'[f].signals = CountOf(observed', {f})
    <3>1. ~outcome.fails BY <1>2, <2>5
    <3>2. outcome.counted = {"signals"} <=> "signals" \in outcome.counted
      BY <3>1 DEF Outcomes, Ends, GoesOn
    <3>3. /\ f = e => CountOf(Append(observed, e), {f}) = CountOf(observed, {f}) + 1
          /\ f # e => CountOf(Append(observed, e), {f}) = CountOf(observed, {f})
      <4>1. observed \in Seq(DOMAIN Edges) /\ e \in DOMAIN Edges BY <1>2 DEF FlowTypes
      <4>2. e \in {f} <=> f = e OBVIOUS
      <4>3. QED BY <4>1, <4>2, CountOfAppend
    <3>4. \/ "signals" \in outcome.counted /\ observed' = Append(observed, e)
          \/ "signals" \notin outcome.counted /\ observed' = observed
      BY <1>1, <3>2 DEF AppliedTo
    <3>5. CASE f = e
      <4>1. metrics[e].signals \in Nat BY <2>1, <3>5 DEF Counters
      <4>2. CASE "signals" \in outcome.counted
        <5>1. metrics'[e].signals = metrics[e].signals + 1 BY <1>9, <4>2
        <5>2. QED BY <2>1, <3>3, <3>4, <3>5, <4>2, <5>1
      <4>3. CASE "signals" \notin outcome.counted
        <5>1. metrics'[e].signals = metrics[e].signals + 0 BY <1>9, <4>3
        <5>2. QED BY <2>1, <3>4, <3>5, <4>1, <4>3, <5>1
      <4>4. QED BY <4>2, <4>3
    <3>6. CASE f # e BY <1>9, <2>1, <3>3, <3>4, <3>6
    <3>7. QED BY <3>5, <3>6
  <2>6. QED BY <2>4, <2>5
<1>14. MetricsAccountForOffers'
  <2>1. \A f \in DOMAIN Edges : metrics[f] \in Counters /\ offered[f] \in Nat BY DEF FlowTypes
  <2>2. \A f \in DOMAIN Edges :
            /\ metrics[f].delivered + metrics[f].dropped + metrics[f].signals + metrics[f].errors = offered[f]
            /\ metrics[f].errors = 0
    BY <1>2 DEF MetricsAccountForOffers
  <2>3. \/ ~outcome.fails /\ outcome.counted \in {{"delivered"}, {"dropped"}, {"signals"}}
        \/ /\ outcome.fails
           /\ outcome.counted \in {{"dropped", "errors"}, {"signals", "errors"}, {"errors"}, {}}
    BY DEF Outcomes, Ends, GoesOn
  <2> SUFFICES ASSUME NEW f \in DOMAIN Edges
               PROVE  LET m == metrics'[f]
                          sum == m.delivered + m.dropped + m.signals + m.errors
                      IN  /\ failure' # "edge" => sum = offered'[f] /\ m.errors = 0
                          /\ sum \in (offered'[f] - 1)..(offered'[f] + 1)
                          /\ m.errors <= 1
    BY DEF MetricsAccountForOffers
  <2>4. CASE f # e BY <1>5, <1>9, <2>1, <2>2, <2>4 DEF Counters
  <2>5. CASE f = e
    <3>1. /\ metrics[e].delivered \in Nat /\ metrics[e].dropped \in Nat
          /\ metrics[e].signals \in Nat /\ metrics[e].errors = 0 /\ offered[e] \in Nat
          /\ metrics[e].delivered + metrics[e].dropped + metrics[e].signals = offered[e]
      BY <2>1, <2>2, <2>5 DEF Counters
    <3>2. PICK d \in {0, 1}, r \in {0, 1}, g \in {0, 1}, q \in {0, 1} :
            /\ metrics'[e].delivered = metrics[e].delivered + d
            /\ metrics'[e].dropped = metrics[e].dropped + r
            /\ metrics'[e].signals = metrics[e].signals + g
            /\ metrics'[e].errors = q
            /\ d = 1 <=> "delivered" \in outcome.counted
            /\ r = 1 <=> "dropped" \in outcome.counted
            /\ g = 1 <=> "signals" \in outcome.counted
            /\ q = 1 <=> "errors" \in outcome.counted
      BY <1>9, <3>1
    <3>3. /\ d + r + g + q \in 0..2
          /\ ~outcome.fails => d + r + g + q = 1 /\ q = 0
      BY <2>3, <3>2
    <3>4. metrics'[e].delivered + metrics'[e].dropped + metrics'[e].signals + metrics'[e].errors
            = offered[e] + (d + r + g + q)
      BY <3>1, <3>2
    <3>5. QED BY <1>2, <1>5, <2>5, <3>1, <3>2, <3>3, <3>4
  <2>6. QED BY <2>4, <2>5
<1>15. EdgeTypeGateNeverFires' /\ DrainedInv' BY <1>2 DEF EdgeTypeGateNeverFires, DrainedInv
<1>16. QED BY <1>10, <1>11, <1>12, <1>13, <1>14, <1>15

----------------------------------------------------------------------------
(* The invariant                                                           *)

LEMMA LifecycleFlow ==
    ASSUME RunnerInv,
           \/ \E nodes, policies : New(nodes, policies)
           \/ Run \/ StartSources \/ PassOver \/ StartFinish \/ Succeed \/ AbortPrepared \/ Aborted
           \/ \E ok \in BOOLEAN : call_prepare(ok) \/ call_finish(ok)
    PROVE  FlowInv'
<1>1. UNCHANGED flowOfFrames
  BY DEF New, Run, StartSources, PassOver, StartFinish, Succeed, AbortPrepared, Aborted,
         call_prepare, call_finish
<1>2. failure' = failure \/ (failure = "none" /\ failure' \notin {"edge", "edge type"})
  BY DEF New, Run, StartSources, PassOver, StartFinish, Succeed, AbortPrepared, Aborted,
         call_prepare, call_finish, FailWith, RunnerInv, PhaseInv
<1>3. state' \in {"Finishing", "Finished"} => worklist = <<>>
  BY DEF New, Run, StartSources, PassOver, StartFinish, Succeed, AbortPrepared, Aborted,
         call_prepare, call_finish, FailWith, RunnerInv, FlowInv, DrainedInv, Drained
<1>4. QED BY <1>1, <1>2, <1>3, FlowRests DEF RunnerInv

\* RunnerInv is an invariant of the runner: of its lifecycle loops, of what is
\* attached to it and of the frames on their way.
THEOREM RunnerInvariant == RunnerSpec => []RunnerInv
<1>1. RunnerInit("none") => RunnerInv BY PhaseInitially, FlowInitially DEF RunnerInv
<1>2. RunnerInv /\ [RunnerNext]_runnerVars => RunnerInv'
  <2> SUFFICES ASSUME RunnerInv, [RunnerNext]_runnerVars PROVE RunnerInv'
    OBVIOUS
  <2> USE DEF RunnerInv
  <2>1. CASE \E nodes \in SUBSET (Nodes \cup Strangers),
                policies \in SUBSET (DOMAIN Edges \cup Strangers) : New(nodes, policies)
    BY <2>1, NewPhase, LifecycleFlow
  <2>2. CASE Run BY <2>2, RunPhase, LifecycleFlow
  <2>3. CASE StartSources BY <2>3, StartSourcesPhase, LifecycleFlow
  <2>4. CASE PassOver BY <2>4, FlowPhase, LifecycleFlow
  <2>5. CASE RouteEmission BY <2>5, FlowPhase, RouteEmissionFlow
  <2>6. CASE StartFinish BY <2>6, StartFinishPhase, LifecycleFlow
  <2>7. CASE Succeed BY <2>7, SucceedPhase, LifecycleFlow
  <2>8. CASE AbortPrepared BY <2>8, AbortPhase, LifecycleFlow
  <2>9. CASE Aborted BY <2>9, AbortedPhase, LifecycleFlow
  <2>10. CASE \E ok \in BOOLEAN : call_prepare(ok) \/ call_finish(ok)
    BY <2>10, PreparePhase, FinishPhase, LifecycleFlow
  <2>11. CASE \E ok \in BOOLEAN, emitted \in Emissions :
                 ProcessSource(ok, emitted) \/ Dispatch(ok, emitted)
    BY <2>11, FlowPhase, ProcessSourceFlow, DispatchFlow
  <2>12. ASSUME NEW verdict, NEW action, NEW hookOk \in BOOLEAN, apply_edge(verdict, action, hookOk)
         PROVE  RunnerInv'
    BY <2>12, FlowPhase, ApplyEdgeFlow
  <2>13. CASE UNCHANGED runnerVars
    <3>1. UNCHANGED <<state, attached, prepared, finished, aborted, failure, cursor, flowOfFrames>>
      BY <2>13 DEF runnerVars, callVars
    <3>2. FlowInv' BY <3>1, FlowRests DEF FlowInv, DrainedInv
    <3>3. QED BY <3>1, <3>2, PhaseRests
  <2>14. QED
    BY <2>1, <2>2, <2>3, <2>4, <2>5, <2>6, <2>7, <2>8, <2>9, <2>10, <2>11, <2>12, <2>13
    DEF RunnerNext, RunStep
<1>3. QED BY <1>1, <1>2, PTL DEF RunnerSpec

----------------------------------------------------------------------------
(* What the runner promises                                                *)

\* RunnerLosesNothing (GraphRunner::new, run, route_emissions and apply_edge):
\* what new accepted suffices for every lookup of the run; the type gate of an
\* Edge never fires; every frame offered to an Edge is counted on it, and its
\* Node sees the delivered ones in order; a run that succeeded has left nothing
\* behind.  For every compiled graph and every sequence of verdicts.
THEOREM NothingIsLost == RunnerSpec => []RunnerLosesNothing
<1>1. RunnerInv => RunnerLosesNothing
  <2> SUFFICES ASSUME RunnerInv PROVE RunnerLosesNothing
    OBVIOUS
  <2> USE DEF RunnerInv, FlowInv
  <2>1. RunnerTypeOK
    <3>1. ToSet(observed) \subseteq DOMAIN Edges
      <4>1. observed \in Seq(DOMAIN Edges) BY DEF FlowTypes
      <4>2. QED BY <4>1 DEF ToSet
    <3>2. QED BY <3>1 DEF RunnerTypeOK, PhaseInv, FlowTypes, RoutesInv
  <2>2. AttachmentsSuffice
    <3> SUFFICES ASSUME state \in {"Ready", "Preparing", "Running", "Finishing", "Aborting"}
                 PROVE  /\ Nodes \subseteq attached.nodes
                        /\ \A e \in DOMAIN Edges :
                              Edges[e].enabled
                              /\ (Cardinality(Verdicts(e)) > 1 \/ Cardinality(EdgeActions(e)) > 1)
                                 => e \in attached.policies
      BY DEF AttachmentsSuffice
    <3>1. attached.nodes = Nodes /\ attached.policies = expected_policies BY DEF AttachedInv
    <3>2. ASSUME NEW e \in DOMAIN Edges, ~edge_uses_named_policy(e)
          PROVE  ~(Cardinality(Verdicts(e)) > 1) /\ ~(Cardinality(EdgeActions(e)) > 1)
      <4>1. Edges[e].validation = "TypeGateOnly" /\ Edges[e].transform = "Identity"
        BY <3>2, CompiledGraph DEF edge_uses_named_policy
      <4>2. Verdicts(e) = {"accept"} /\ EdgeActions(e) = {"forward"}
        BY <4>1 DEF Verdicts, EdgeActions
      <4>3. Cardinality({"accept"}) = 1 /\ Cardinality({"forward"}) = 1 BY FS_Singleton
      <4>4. QED BY <4>2, <4>3
    <3>3. QED BY <3>1, <3>2 DEF expected_policies
  <2>3. /\ worklist \in Seq(Item) /\ processed \in Seq(Item)
        /\ \A i \in DOMAIN processed : i \in DOMAIN Dispatched /\ Dispatched[i] = processed[i]
    BY DEF FlowTypes, Dispatched
  <2>4. InputsInEmissionOrder
    BY <2>3 DEF InputsInEmissionOrder, NumbersInv, Numbered
  <2>5. SuccessIsComplete
    <3> SUFFICES ASSUME state = "Finished"
                 PROVE  /\ prepared = Nodes /\ finished = Nodes /\ aborted = {} /\ failure = "none"
                        /\ \A e \in DOMAIN Edges :
                              /\ metrics[e].delivered
                                   = Cardinality({i \in DOMAIN processed : processed[i].edge = e})
                              /\ metrics[e].signals
                                   = Cardinality({i \in DOMAIN observed : observed[i] = e})
      BY DEF SuccessIsComplete
    <3>1. prepared = Nodes /\ finished = Nodes /\ aborted = {} /\ failure = "none" BY DEF PhaseInv
    <3>2. Dispatched = processed BY <2>3 DEF DrainedInv, Dispatched
    <3>3. ASSUME NEW e \in DOMAIN Edges
          PROVE  /\ PositionsOf(processed, OfEdge(e)) = {i \in DOMAIN processed : processed[i].edge = e}
                 /\ PositionsOf(observed, {e}) = {i \in DOMAIN observed : observed[i] = e}
      BY <2>3 DEF PositionsOf, OfEdge
    <3>4. QED BY <3>1, <3>2, <3>3 DEF CountersInv, CountOf
  <2>6. QED BY <2>1, <2>2, <2>4, <2>5 DEF RunnerLosesNothing
<1>2. QED BY <1>1, RunnerInvariant, PTL

----------------------------------------------------------------------------
(* Refinement of NodeContract                                              *)

\* The hooks of n as the contract sees them, from what the runner keeps.
LEMMA HooksFacts ==
    ASSUME NEW n
    PROVE  /\ HooksOf(n) = "aborted" <=> n \in aborted
           /\ HooksOf(n) = "finished" <=> n \notin aborted /\ n \in finished
           /\ HooksOf(n) = "prepared" <=> n \notin aborted /\ n \notin finished /\ n \in prepared
           /\ HooksOf(n) = "new" <=> n \notin aborted /\ n \notin finished /\ n \notin prepared
BY DEF HooksOf

\* After a step that leaves every hook but n's, the map of hooks has changed at
\* n alone.
LEMMA OneHookChanges ==
    ASSUME NEW n \in Nodes, \A m \in Nodes : m # n => HooksOf(m)' = HooksOf(m)
    PROVE  [m \in Nodes |-> HooksOf(m)]' = [[m \in Nodes |-> HooksOf(m)] EXCEPT ![n] = HooksOf(n)']
OBVIOUS

LEMMA ContractRests ==
    ASSUME UNCHANGED <<prepared, finished, aborted>>, failure' # "none" <=> failure # "none"
    PROVE  UNCHANGED NC!contractVars
<1>1. \A n \in Nodes : HooksOf(n)' = HooksOf(n) BY DEF HooksOf
<1>2. [n \in Nodes |-> HooksOf(n)]' = [n \in Nodes |-> HooksOf(n)] BY <1>1
<1>3. (failure # "none")' = (failure # "none") OBVIOUS
<1>4. QED BY <1>2, <1>3 DEF NC!contractVars

\* One more Node prepared, in topological order.
LEMMA PrepareRefines ==
    ASSUME PhaseInv, state = "Preparing", cursor \in DOMAIN Order,
           prepared' = prepared \cup {Order[cursor]}, UNCHANGED <<finished, aborted, failure>>
    PROVE  \E n \in Nodes : NC!PrepareNode(n)
<1>1. PICK n \in Nodes : n = Order[cursor] BY OrderFacts
<1>2. prepared = FirstNodes(cursor - 1) /\ finished = {} /\ aborted = {} /\ failure = "none"
  BY DEF PhaseInv
<1>3. n \notin prepared BY <1>1, <1>2, Loops
<1>4. ASSUME NEW m \in Nodes, <<m, n>> \in Sends PROVE HooksOf(m) = "prepared"
  <2>1. PICK i \in DOMAIN Order : m = Order[i] BY OrderFacts
  <2>2. i < cursor BY <1>1, <1>4, <2>1, CompiledGraph
  <2>3. i <= cursor - 1 BY <2>2, OrderFacts
  <2>4. m \in prepared BY <1>2, <2>1, <2>3 DEF FirstNodes
  <2>5. QED BY <1>2, <2>4, HooksFacts
<1>5. HooksOf(n) = "new" /\ HooksOf(n)' = "prepared"
  BY <1>1, <1>2, <1>3 DEF HooksOf
<1>6. \A m \in Nodes : m # n => HooksOf(m)' = HooksOf(m) BY <1>1, <1>2 DEF HooksOf
<1>7. [m \in Nodes |-> HooksOf(m)]' = [[m \in Nodes |-> HooksOf(m)] EXCEPT ![n] = "prepared"]
  BY <1>5, <1>6, OneHookChanges
<1>8. QED BY <1>2, <1>4, <1>5, <1>7 DEF NC!PrepareNode

\* One more Node finished, in the reverse order.
LEMMA FinishRefines ==
    ASSUME PhaseInv, state = "Finishing", cursor \in DOMAIN Order,
           finished' = finished \cup {Order[cursor]}, UNCHANGED <<prepared, aborted, failure>>
    PROVE  \E n \in Nodes : NC!FinishNode(n)
<1>1. PICK n \in Nodes : n = Order[cursor] BY OrderFacts
<1>2. prepared = Nodes /\ finished = NodesAfter(cursor) /\ aborted = {} /\ failure = "none"
  BY DEF PhaseInv
<1>3. n \notin finished BY <1>1, <1>2, Loops
<1>4. ASSUME NEW m \in Nodes, <<n, m>> \in Sends PROVE HooksOf(m) = "finished"
  <2>1. PICK i \in DOMAIN Order : m = Order[i] BY OrderFacts
  <2>2. cursor < i BY <1>1, <1>4, <2>1, CompiledGraph
  <2>3. i > cursor BY <2>2, OrderFacts
  <2>4. m \in finished BY <1>2, <2>1, <2>3 DEF NodesAfter
  <2>5. QED BY <1>2, <2>4, HooksFacts
<1>5. HooksOf(n) = "prepared" /\ HooksOf(n)' = "finished"
  BY <1>1, <1>2, <1>3 DEF HooksOf
<1>6. \A m \in Nodes : HooksOf(m) # "new" BY <1>2, HooksFacts
<1>7. \A m \in Nodes : m # n => HooksOf(m)' = HooksOf(m) BY <1>1, <1>2 DEF HooksOf
<1>8. [m \in Nodes |-> HooksOf(m)]' = [[m \in Nodes |-> HooksOf(m)] EXCEPT ![n] = "finished"]
  BY <1>5, <1>7, OneHookChanges
<1>9. QED BY <1>2, <1>4, <1>5, <1>6, <1>8 DEF NC!FinishNode

\* One more prepared Node aborted, in the reverse order, or a Node passed over
\* that was never prepared.
LEMMA AbortRefines ==
    ASSUME PhaseInv, state = "Aborting", cursor \in DOMAIN Order,
           aborted' = aborted \cup ({Order[cursor]} \cap prepared),
           UNCHANGED <<prepared, finished, failure>>
    PROVE  UNCHANGED NC!contractVars \/ \E n \in Nodes : NC!AbortNode(n)
<1>1. PICK n \in Nodes : n = Order[cursor] BY OrderFacts
<1>2. /\ aborted = NodesAfter(cursor) \cap prepared /\ failure # "none"
      /\ finished \subseteq prepared
  BY DEF PhaseInv
<1>3. n \notin aborted BY <1>1, <1>2, Loops
<1>4. CASE n \notin prepared
  <2>1. aborted' = aborted BY <1>1, <1>4
  <2>2. QED BY <2>1, ContractRests
<1>5. CASE n \in prepared
  <2>1. aborted' = aborted \cup {n} BY <1>1, <1>5
  <2>2. ASSUME NEW m \in Nodes, <<n, m>> \in Sends PROVE HooksOf(m) \notin NC!Holding
    <3>1. PICK i \in DOMAIN Order : m = Order[i] BY OrderFacts
    <3>2. cursor < i BY <1>1, <2>2, <3>1, CompiledGraph
    <3>3. i > cursor BY <3>2, OrderFacts
    <3>4. m \in aborted \/ m \notin prepared BY <1>2, <3>1, <3>3 DEF NodesAfter
    <3>5. QED BY <1>2, <3>4, HooksFacts DEF NC!Holding
  <2>3. HooksOf(n) \in NC!Holding /\ HooksOf(n)' = "aborted"
    BY <1>3, <1>5, <2>1 DEF HooksOf, NC!Holding
  <2>4. \A m \in Nodes : m # n => HooksOf(m)' = HooksOf(m) BY <2>1 DEF HooksOf
  <2>5. [m \in Nodes |-> HooksOf(m)]' = [[m \in Nodes |-> HooksOf(m)] EXCEPT ![n] = "aborted"]
    BY <2>3, <2>4, OneHookChanges
  <2>6. NC!AbortNode(n) BY <1>2, <2>2, <2>3, <2>5 DEF NC!AbortNode
  <2>7. QED BY <2>6
<1>6. QED BY <1>4, <1>5

\* KeepsNodeContract (GraphRunner::run, abort_all_prepared): for every compiled
\* graph the runner implements NodeContract: each Node is prepared after those
\* it receives from, finished after those it sends to, and after a failure every
\* prepared Node is aborted once, after those it sends to.
THEOREM RunnerKeepsContract == RunnerSpec => KeepsNodeContract
<1>1. RunnerInit("none") => NC!ContractInit
  <2> SUFFICES ASSUME RunnerInit("none") PROVE NC!ContractInit
    OBVIOUS
  <2>1. prepared = {} /\ finished = {} /\ aborted = {} /\ failure = "none" BY DEF RunnerInit
  <2>2. [n \in Nodes |-> HooksOf(n)] = [n \in Nodes |-> "new"] BY <2>1 DEF HooksOf
  <2>3. QED BY <2>1, <2>2 DEF NC!ContractInit
<1>2. RunnerInv /\ [RunnerNext]_runnerVars => [NC!ContractNext]_(NC!contractVars)
  <2> SUFFICES ASSUME RunnerInv, [RunnerNext]_runnerVars
               PROVE  NC!ContractNext \/ UNCHANGED NC!contractVars
    OBVIOUS
  <2>0. PhaseInv BY DEF RunnerInv
  <2>1. \/ UNCHANGED <<prepared, finished, aborted, failure>>
        \/ UNCHANGED <<prepared, finished, aborted>> /\ failure = "none" /\ failure' # "none"
        \/ /\ state = "Preparing" /\ cursor <= Len(Order) /\ UNCHANGED <<finished, aborted, failure>>
           /\ prepared' = prepared \cup {Order[cursor]}
        \/ /\ state = "Finishing" /\ cursor > 0 /\ UNCHANGED <<prepared, aborted, failure>>
           /\ finished' = finished \cup {Order[cursor]}
        \/ /\ state = "Aborting" /\ cursor > 0 /\ UNCHANGED <<prepared, finished, failure>>
           /\ aborted' = aborted \cup ({Order[cursor]} \cap prepared)
    <3>1. CASE \/ \E nodes, policies : New(nodes, policies)
               \/ Run \/ StartSources \/ PassOver \/ StartFinish \/ Succeed \/ Aborted
               \/ UNCHANGED runnerVars
      BY <3>1 DEF New, Run, StartSources, PassOver, StartFinish, Succeed, Aborted, callVars, runnerVars
    <3>2. CASE \E ok \in BOOLEAN : call_prepare(ok) BY <2>0, <3>2 DEF call_prepare, FailWith, PhaseInv
    <3>3. CASE \E ok \in BOOLEAN : call_finish(ok) BY <2>0, <3>3 DEF call_finish, FailWith, PhaseInv
    <3>4. CASE AbortPrepared BY <3>4 DEF AbortPrepared
    <3>5. ASSUME state = "Running", UNCHANGED callVars,
                 (\E code : code # "none" /\ FailWith(code)) \/ UNCHANGED failure
          PROVE  \/ UNCHANGED <<prepared, finished, aborted, failure>>
                 \/ UNCHANGED <<prepared, finished, aborted>> /\ failure = "none" /\ failure' # "none"
      BY <2>0, <3>5 DEF callVars, FailWith, PhaseInv
    <3>6. CASE RouteEmission BY <3>5, <3>6 DEF RouteEmission
    <3>7. CASE \E ok \in BOOLEAN, emitted \in Emissions : ProcessSource(ok, emitted)
      BY <3>5, <3>7 DEF ProcessSource
    <3>8. CASE \E ok \in BOOLEAN, emitted \in Emissions : Dispatch(ok, emitted)
      BY <3>5, <3>8 DEF Dispatch, Processed
    <3>9. ASSUME NEW verdict, NEW action, NEW hookOk, apply_edge(verdict, action, hookOk)
          PROVE  \/ UNCHANGED <<prepared, finished, aborted, failure>>
                 \/ UNCHANGED <<prepared, finished, aborted>> /\ failure = "none" /\ failure' # "none"
      <4>1. /\ state = "Running" /\ UNCHANGED callVars
            /\ FailWith("edge type") \/ FailWith("edge") \/ UNCHANGED failure
        BY <3>9 DEF apply_edge
      <4>2. QED BY <3>5, <4>1
    <3>10. QED
      BY <3>1, <3>2, <3>3, <3>4, <3>6, <3>7, <3>8, <3>9 DEF RunnerNext, RunStep
  <2>2. CASE UNCHANGED <<prepared, finished, aborted, failure>> BY <2>2, ContractRests
  <2>3. CASE UNCHANGED <<prepared, finished, aborted>> /\ failure = "none" /\ failure' # "none"
    <3>1. \A n \in Nodes : HooksOf(n)' = HooksOf(n) BY <2>3 DEF HooksOf
    <3>2. [n \in Nodes |-> HooksOf(n)]' = [n \in Nodes |-> HooksOf(n)] BY <3>1
    <3>3. ~(failure # "none") /\ (failure # "none")' = TRUE BY <2>3
    <3>4. NC!Fail BY <3>2, <3>3 DEF NC!Fail
    <3>5. QED BY <3>4 DEF NC!ContractNext
  <2>4. CASE /\ state = "Preparing" /\ cursor <= Len(Order) /\ UNCHANGED <<finished, aborted, failure>>
             /\ prepared' = prepared \cup {Order[cursor]}
    <3>1. cursor \in DOMAIN Order BY <2>0, <2>4, OrderFacts DEF PhaseInv
    <3>2. QED BY <2>0, <2>4, <3>1, PrepareRefines DEF NC!ContractNext
  <2>5. CASE /\ state = "Finishing" /\ cursor > 0 /\ UNCHANGED <<prepared, aborted, failure>>
             /\ finished' = finished \cup {Order[cursor]}
    <3>1. cursor \in DOMAIN Order BY <2>0, <2>5, OrderFacts DEF PhaseInv
    <3>2. QED BY <2>0, <2>5, <3>1, FinishRefines DEF NC!ContractNext
  <2>6. CASE /\ state = "Aborting" /\ cursor > 0 /\ UNCHANGED <<prepared, finished, failure>>
             /\ aborted' = aborted \cup ({Order[cursor]} \cap prepared)
    <3>1. cursor \in DOMAIN Order BY <2>0, <2>6, OrderFacts DEF PhaseInv
    <3>2. QED BY <2>0, <2>6, <3>1, AbortRefines DEF NC!ContractNext
  <2>7. QED BY <2>1, <2>2, <2>3, <2>4, <2>5, <2>6
<1>3. QED BY <1>1, <1>2, RunnerInvariant, PTL DEF RunnerSpec, KeepsNodeContract, NC!Contract
=============================================================================
