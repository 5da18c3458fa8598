----------------------- MODULE RuntimeLifecycleProofs -----------------------
(***************************************************************************)
(* Theorems about RuntimeLifecycle, for every graph, every number of       *)
(* stops and every interleaving of the runtime's threads.                  *)
(***************************************************************************)
EXTENDS RuntimeLifecycle, CountingLemmas, TLAPS

USE GraphAssumption, DistinctAssumption

Labels == WorkerPC \cup DispatcherPC \cup CoordinatorPC \cup {"idle", "first", "refused"}

\* The hook the coordinator is inside of exists.
TypeInv ==
    /\ TypeOK /\ pc \in [Threads -> Labels]
    /\ pc[Coordinator] \in {"finishing", "aborting"} => hook > 0

\* start_with_spawner and the launch gate go together; before the gate opens no
\* thread has left it, and a cancelled start has no coordinator.
LaunchInv ==
    /\ launch = "none" <=> start = "spawning"
    /\ launch = "go" <=> start = "ok"
    /\ launch = "none" => \A t \in Nodes \cup Edges : pc[t] \in {"unspawned", "launch"}
    /\ launch = "cancel" =>
          /\ pc[Coordinator] = "unspawned"
          /\ \A t \in Nodes \cup Edges : pc[t] \in {"unspawned", "launch", "exited"}
    /\ launch # "go" => prepared = {} /\ processed = {}
    /\ start = "err" => \A t \in Nodes \cup Edges : pc[t] \in {"unspawned", "exited"}
    /\ pc[Coordinator] # "unspawned" => \A t \in Nodes \cup Edges : pc[t] # "unspawned"

\* What the coordinator has done determines what it may rely on.
Collecting == {"unspawned", "collect"}
CoordinatorInv ==
    /\ pc[Coordinator] \notin Collecting => AllExited
    /\ pc[Coordinator] # "exited" => result = None
    /\ pc[Coordinator] \in Collecting \cup {"begin_finishing"} /\ reason = None =>
          state \in {"Starting", "Running"}
    /\ success_sealed => pc[Coordinator] \in {"release_ok", "publish_ok", "exited"}
    /\ resources = "released" =>
          pc[Coordinator] \in {"publish_ok", "publish_err", "exited"}
    /\ CoordinatorAssertionsHold
    /\ result \in {None, Success, reason}
    /\ result = Success => reason = None /\ success_sealed

\* A stop is told that it was first exactly if its reason was installed.
StopInv == \A s \in Stoppers : pc[s] = "first" <=> reason = s

\* Nodes that have not left, and the one whose hook runs, are active.
ActiveInv ==
    /\ \A n \in Nodes : pc[n] # "exited" => n \in active_nodes
    /\ pc[Coordinator] \in {"finishing", "aborting"} => Order[hook] \in active_nodes

\* A worker that is past on_prepare without being prepared has installed a
\* reason or found one.
PreparedInv ==
    \A n \in Nodes : pc[n] \notin {"unspawned", "launch", "prepare"} /\ launch = "go" =>
        n \in prepared \/ reason # None

BeforeGate == {"unspawned", "launch", "prepare", "arrive", "gate"}

\* The prepare gate: nobody passes before it is released, an accepted failure
\* has cancelled the token before its thread goes on, and so, once the gate is
\* released, a token that is not cancelled means that every node was prepared
\* or that a stop came first.
GateShut ==
    ~released =>
        /\ Nodes # {} /\ reason \in Nodes \cup Stoppers \cup {None}
        /\ launch # "cancel" => processed = {} /\ \A n \in Nodes : pc[n] \in BeforeGate
GateOpen ==
    released /\ launch # "cancel" =>
        /\ \A n \in Nodes : pc[n] \notin {"unspawned", "launch", "prepare", "arrive"}
        /\ launch = "go" => prepared = Nodes \/ reason \in Stoppers \/ cancelled
TokenInv ==
    reason # None /\ ~cancelled =>
        /\ shutting[reason] = "cancel"
        /\ reason \in Nodes => pc[reason] \in {"arrive", "leave"}
SourceInv ==
    \A n \in Sources : pc[n] \in {"run", "tick"} \/ n \in processed =>
        prepared = Nodes \/ reason \in Stoppers
GateInv == GateShut /\ GateOpen /\ TokenInv /\ SourceInv

\* The hooks called so far, by where the coordinator stands.
FinishedDownTo(k) == [i \in 1..(Len(Order) - k) |-> Order[Len(Order) + 1 - i]]
FinishInv ==
    /\ pc[Coordinator] \in Collecting \cup {"begin_finishing"} => finish_calls = <<>>
    /\ pc[Coordinator] \in {"begin_finishing", "fail_finish"} /\ reason = None =>
          prepared = Nodes
    /\ pc[Coordinator] \in {"finish", "finishing"} /\ reason = None =>
          prepared = Nodes /\ finish_calls = FinishedDownTo(hook)
    /\ pc[Coordinator] \in {"release_ok", "publish_ok"} \/ result = Success =>
          prepared = Nodes /\ finish_calls = Reversed

\* The prepared nodes that stand after position k in the topological order.
PreparedAfter(k) == {n \in prepared : \E i \in DOMAIN Order : i > k /\ Order[i] = n}
AbortInv ==
    /\ \/ pc[Coordinator] \notin {"abort", "aborting", "release_err", "publish_err", "exited"}
       \/ result = Success
       => abort_calls = <<>>
    /\ pc[Coordinator] \in {"abort", "aborting"} =>
          ElementsOf(abort_calls) = PreparedAfter(hook) /\ InReverseOrder(abort_calls)
    /\ pc[Coordinator] = "aborting" => Order[hook] \in prepared
    /\ pc[Coordinator] \in {"release_err", "publish_err"} \/ result \in Threads =>
          ElementsOf(abort_calls) = prepared /\ InReverseOrder(abort_calls)
HookInv == FinishInv /\ AbortInv

LifeInv == /\ TypeInv /\ LaunchInv /\ CoordinatorInv /\ StopInv /\ ActiveInv
           /\ PreparedInv /\ GateInv /\ HookInv

----------------------------------------------------------------------------
(* Types.                                                                  *)

LEMMA Roles ==
    /\ Coordinator \in Threads /\ Coordinator \notin Nodes \cup Edges \cup Stoppers
    /\ \A n \in Nodes : n \in Threads /\ n \notin Edges \cup Stoppers
    /\ \A e \in Edges : e \in Threads /\ e \notin Nodes \cup Stoppers
    /\ \A s \in Stoppers : s \in Threads /\ s \notin Nodes \cup Edges
    /\ None \notin Threads /\ Success \notin Threads /\ None # Success
BY DEF Threads

\* The labels a thread of each role may be moved to.
LabelsOf(t) ==
    IF t \in Nodes THEN WorkerPC
    ELSE IF t \in Edges THEN DispatcherPC
    ELSE IF t \in Stoppers THEN {"idle", "first", "refused"} ELSE CoordinatorPC

\* TypeOK in parts: the threads, the prepare gate and everything else.
PcOK == pc \in [Threads -> Labels] /\ \A t \in Threads : pc[t] \in LabelsOf(t)
Unarrived == {n \in Nodes : pc[n] \in {"unspawned", "launch", "prepare", "arrive"}}
DataOK ==
    /\ start \in {"spawning", "cleanup", "join", "ok", "err"}
    /\ launch \in {"none", "go", "cancel"}
    /\ shutting \in [Threads -> {"no", "cancel", "seal", "close"}]
    /\ state \in ConcurrentRuntimeState
    /\ reason \in Threads \cup {None} /\ result \in Threads \cup {None, Success}
    /\ success_sealed \in BOOLEAN /\ active_nodes \subseteq Nodes
    /\ released \in BOOLEAN /\ cancelled \in BOOLEAN /\ open \subseteq Edges
    /\ bus_stopped \in BOOLEAN /\ resources \in {"open", "sealed", "released"}
    /\ prepared \subseteq Nodes /\ next_tick \subseteq Nodes
    /\ hook \in 0..Len(Order) /\ processed \subseteq Nodes
    /\ finish_calls \in Seq(Nodes) /\ abort_calls \in Seq(Nodes)
HookOK == pc[Coordinator] \in {"finishing", "aborting"} => hook > 0
GateOK == remaining = Cardinality(Unarrived) \/ launch = "cancel"

LEMMA TypeParts ==
    /\ TypeInv <=> PcOK /\ DataOK /\ GateOK /\ HookOK
    /\ TypeInv' <=> PcOK' /\ DataOK' /\ GateOK' /\ HookOK'
<1>1. PcOK <=> /\ pc \in [Threads -> Labels] /\ DOMAIN pc = Threads
               /\ \A n \in Nodes : pc[n] \in WorkerPC
               /\ \A e \in Edges : pc[e] \in DispatcherPC
               /\ \A s \in Stoppers : pc[s] \in {"idle", "first", "refused"}
               /\ pc[Coordinator] \in CoordinatorPC
  BY Roles DEF PcOK, LabelsOf, Threads
<1>2. PcOK' <=> /\ pc' \in [Threads -> Labels] /\ DOMAIN pc' = Threads
                /\ \A n \in Nodes : pc'[n] \in WorkerPC
                /\ \A e \in Edges : pc'[e] \in DispatcherPC
                /\ \A s \in Stoppers : pc'[s] \in {"idle", "first", "refused"}
                /\ pc'[Coordinator] \in CoordinatorPC
  BY Roles DEF PcOK, LabelsOf, Threads
<1>3. TypeInv <=> PcOK /\ DataOK /\ GateOK /\ HookOK
  BY <1>1, Zenon DEF TypeInv, TypeOK, DataOK, GateOK, Unarrived, HookOK
<1>4. TypeInv' <=> PcOK' /\ DataOK' /\ GateOK' /\ HookOK'
  BY <1>2, Zenon DEF TypeInv, TypeOK, DataOK, GateOK, Unarrived, HookOK
<1>5. QED BY <1>3, <1>4

\* One thread moves to a label of its role.
LEMMA Moved ==
    ASSUME PcOK, NEW t \in Threads, NEW label \in LabelsOf(t), Goto(t, label)
    PROVE  PcOK' /\ pc'[t] = label /\ \A u \in Threads \ {t} : pc'[u] = pc[u]
<1>1. label \in Labels
  BY DEF LabelsOf, Labels
<1>2. pc'[t] = label /\ \A u \in Threads \ {t} : pc'[u] = pc[u]
  BY DEF PcOK, Goto
<1>3. pc' \in [Threads -> Labels] BY <1>1 DEF PcOK, Goto
<1>4. QED BY <1>2, <1>3 DEF PcOK

\* What request_abort may change.
LEMMA AbortEffect ==
    ASSUME DataOK, NEW t \in Threads, RequestAbort(t)
    PROVE  /\ reason' \in Threads \cup {None} /\ state' \in ConcurrentRuntimeState
           /\ shutting' \in [Threads -> {"no", "cancel", "seal", "close"}]
           /\ reason # None => reason' = reason
           /\ AbortAccepted => reason' = t /\ shutting'[t] = "cancel"
           /\ ~AbortAccepted => UNCHANGED <<reason, state, shutting>>
           /\ \A u \in Threads \ {t} : shutting'[u] = shutting[u]
<1>1. CASE AbortAccepted
  <2>1. /\ reason' = t /\ state' \in {"Aborting", "Stopping"} /\ reason = None
        /\ shutting' = [shutting EXCEPT ![t] = "cancel"]
    BY <1>1 DEF RequestAbort, AbortAccepted
  <2>2. shutting \in [Threads -> {"no", "cancel", "seal", "close"}] BY DEF DataOK
  <2>3. /\ shutting'[t] = "cancel" /\ \A u \in Threads \ {t} : shutting'[u] = shutting[u]
        /\ shutting' \in [Threads -> {"no", "cancel", "seal", "close"}]
    BY <2>1, <2>2
  <2>4. state' \in ConcurrentRuntimeState BY <2>1 DEF ConcurrentRuntimeState
  <2>5. QED BY <1>1, <2>1, <2>3, <2>4
<1>2. CASE ~AbortAccepted
  BY <1>2 DEF RequestAbort, DataOK
<1>3. QED BY <1>1, <1>2

\* No unarrived worker comes or goes.
LEMMA GateStays ==
    ASSUME GateOK, UNCHANGED <<remaining, launch>>,
           \A n \in Nodes : pc'[n] \in {"unspawned", "launch", "prepare", "arrive"}
                        <=> pc[n] \in {"unspawned", "launch", "prepare", "arrive"}
    PROVE  GateOK'
<1>1. Unarrived' = Unarrived BY DEF Unarrived
<1>2. QED BY <1>1 DEF GateOK

----------------------------------------------------------------------------
(* The steps of each thread, reduced to what the invariants depend on.     *)

\* A worker's step moves only that worker; it may install its failure as the
\* reason, and change what is recorded about the node itself.
WorkerEffect(n) ==
    /\ UNCHANGED <<start, launch, success_sealed, result, shared, hook,
                   finish_calls, abort_calls>>
    /\ \A u \in Threads \ {n} : pc'[u] = pc[u]
    /\ pc[n] \notin {"unspawned", "exited"} /\ pc'[n] \notin {"unspawned", "launch"}
    /\ \/ UNCHANGED <<reason, shutting>>
          /\ (state' = state \/ (state = "Starting" /\ reason = None /\ state' = "Running"))
       \/ RequestAbort(n)

LEMMA WorkerType ==
    ASSUME TypeInv, NEW n \in Nodes, WorkerStep(n)
    PROVE  TypeInv' /\ WorkerEffect(n)
<1>0. PcOK /\ DataOK /\ GateOK /\ HookOK BY TypeParts
<1>1. n \in Threads /\ LabelsOf(n) = WorkerPC /\ n # Coordinator /\ pc[n] \in WorkerPC
  BY <1>0, Roles DEF LabelsOf, PcOK
<1>2. ASSUME NEW label \in WorkerPC, Goto(n, label)
      PROVE  /\ PcOK' /\ pc'[n] = label /\ \A u \in Threads \ {n} : pc'[u] = pc[u]
             /\ hook' = hook => HookOK'
  BY <1>0, <1>1, <1>2, Moved, Roles DEF HookOK
<1>3. ASSUME NEW label \in WorkerPC, Goto(n, label), UNCHANGED <<remaining, launch>>,
             label \in {"unspawned", "launch", "prepare", "arrive"}
                <=> pc[n] \in {"unspawned", "launch", "prepare", "arrive"}
      PROVE  GateOK'
  BY <1>0, <1>2, <1>3, GateStays, Roles
<1>4. CASE Launched(n, "prepare")
  <2>1. PICK label \in {"prepare", "exited"} :
            /\ Goto(n, label) /\ pc[n] = "launch"
            /\ label = "exited" => launch = "cancel"
    BY <1>0, <1>4 DEF Launched, DataOK
  <2>2. label \in WorkerPC BY DEF WorkerPC
  <2>3. DataOK' BY <1>0, <1>4 DEF Launched, DataOK, control, gate, shared, history
  <2>4. GateOK'
    <3>1. CASE label = "prepare" BY <1>3, <1>4, <2>1, <2>2, <3>1 DEF Launched, gate
    <3>2. CASE label = "exited" BY <1>4, <2>1, <3>2 DEF Launched, GateOK
    <3>3. QED BY <2>1, <3>1, <3>2
  <2>5. QED BY <1>2, <1>4, <2>1, <2>2, <2>3, <2>4, TypeParts
            DEF Launched, WorkerEffect, control, history
<1>5. CASE Prepare(n)
  <2>1. Goto(n, "arrive") /\ pc[n] = "prepare" /\ "arrive" \in WorkerPC
    BY <1>5 DEF Prepare, At, WorkerPC
  <2>2. \/ prepared' = prepared \cup {n} /\ UNCHANGED <<reason, state, shutting>>
        \/ RequestAbort(n) /\ UNCHANGED prepared
    BY <1>5 DEF Prepare
  <2>3. DataOK'
    BY <1>0, <1>1, <1>5, <2>2, AbortEffect DEF Prepare, DataOK, gate, shared, history
  <2>4. GateOK' BY <1>3, <1>5, <2>1 DEF Prepare, gate
  <2>5. QED BY <1>2, <1>5, <2>1, <2>2, <2>3, <2>4, TypeParts
            DEF Prepare, WorkerEffect, history
<1>6. CASE Arrive(n)
  <2>1. Goto(n, "gate") /\ pc[n] = "arrive" /\ "gate" \in WorkerPC
    BY <1>6 DEF Arrive, At, WorkerPC
  <2>2. released' \in BOOLEAN BY <1>0, <1>6 DEF Arrive, DataOK
  <2>3. DataOK' BY <1>0, <1>6, <2>2 DEF Arrive, DataOK, control, shared, history
  <2>4. ASSUME launch # "cancel" PROVE remaining' = Cardinality(Unarrived')
    <3>1. Unarrived \subseteq Nodes /\ n \in Unarrived /\ n \notin Unarrived'
          /\ \A v : v # n => (v \in Unarrived' <=> v \in Unarrived)
      BY <1>1, <1>2, <2>1, Roles DEF Unarrived
    <3>2. IsFiniteSet(Unarrived) BY <3>1, FS_Subset
    <3>3. Cardinality(Unarrived) \in Nat /\ Cardinality(Unarrived) # 0
      BY <3>1, <3>2, FS_CardinalityType, FS_EmptySet
    <3>4. Cardinality(Unarrived') = Cardinality(Unarrived) - 1
      BY <3>1, <3>2, CountOneMove
    <3>5. QED BY <1>0, <1>6, <2>4, <3>3, <3>4 DEF Arrive, GateOK
  <2>5. GateOK' BY <1>6, <2>4 DEF GateOK, Arrive
  <2>6. QED BY <1>2, <1>6, <2>1, <2>3, <2>5, TypeParts
            DEF Arrive, WorkerEffect, control, history
<1>7. CASE PassGate(n) \/ Decide(n) \/ SourceTick(n) \/ ConsumerDone(n) \/ DropSenders(n)
  <2>1. PICK label \in {"decide", "mark", "run", "leave", "inactive"} :
            Goto(n, label) /\ pc[n] \in {"gate", "decide", "tick", "run", "leave"}
    BY <1>7 DEF PassGate, Decide, SourceTick, ConsumerDone, DropSenders, At
  <2>2. label \in WorkerPC BY DEF WorkerPC
  <2>3. UNCHANGED <<start, launch, shutting, control, gate, shared, prepared,
                    next_tick, hook, history>>
    BY <1>7 DEF PassGate, Decide, SourceTick, ConsumerDone, DropSenders
  <2>4. DataOK' BY <1>0, <2>3 DEF DataOK, control, gate, shared, history
  <2>5. GateOK' BY <1>3, <2>1, <2>2, <2>3 DEF gate
  <2>6. QED BY <1>2, <2>1, <2>2, <2>3, <2>4, <2>5, TypeParts
            DEF WorkerEffect, control, history
<1>8. CASE MarkRunning(n)
  <2>1. Goto(n, "decide") /\ pc[n] = "mark" /\ "decide" \in WorkerPC
    BY <1>8 DEF MarkRunning, WorkerPC
  <2>2. DataOK'
    BY <1>0, <1>8 DEF MarkRunning, DataOK, ConcurrentRuntimeState, gate, shared, history
  <2>3. GateOK' BY <1>3, <1>8, <2>1 DEF MarkRunning, gate
  <2>4. QED BY <1>2, <1>8, <2>1, <2>2, <2>3, TypeParts
            DEF MarkRunning, WorkerEffect, history
<1>9. CASE Process(n)
  <2>1. PICK label \in {"tick", "run", "leave"} : Goto(n, label) /\ pc[n] = "run"
    BY <1>9 DEF Process
  <2>2. label \in WorkerPC BY DEF WorkerPC
  <2>3. DataOK' BY <1>0, <1>1, <1>9 DEF Process, DataOK, control, gate, shared
  <2>4. GateOK' BY <1>3, <1>9, <2>1, <2>2 DEF Process, gate
  <2>5. QED BY <1>2, <1>9, <2>1, <2>2, <2>3, <2>4, TypeParts
            DEF Process, WorkerEffect, control
<1>10. CASE ProcessFails(n)
  <2>1. Goto(n, "leave") /\ pc[n] = "run" /\ "leave" \in WorkerPC /\ RequestAbort(n)
    BY <1>10 DEF ProcessFails, WorkerPC
  <2>2. DataOK'
    BY <1>0, <1>1, <1>10, <2>1, AbortEffect DEF ProcessFails, DataOK, gate, shared
  <2>3. GateOK' BY <1>3, <1>10, <2>1 DEF ProcessFails, gate
  <2>4. QED BY <1>2, <1>10, <2>1, <2>2, <2>3, TypeParts DEF ProcessFails, WorkerEffect
<1>11. CASE NodeInactive(n)
  <2>1. Goto(n, "exited") /\ pc[n] = "inactive" /\ "exited" \in WorkerPC
    BY <1>11 DEF NodeInactive, WorkerPC
  <2>2. DataOK' BY <1>0, <1>11 DEF NodeInactive, DataOK, gate, shared, history
  <2>3. GateOK' BY <1>3, <1>11, <2>1 DEF NodeInactive, gate
  <2>4. QED BY <1>2, <1>11, <2>1, <2>2, <2>3, TypeParts
            DEF NodeInactive, WorkerEffect, history
<1>12. QED BY <1>4, <1>5, <1>6, <1>7, <1>8, <1>9, <1>10, <1>11 DEF WorkerStep

\* A dispatcher's step likewise; it fails only for what its producer sent.
DispatcherEffect(e) ==
    /\ UNCHANGED <<start, launch, success_sealed, result, active_nodes, gate,
                   cancelled, bus_stopped, resources, prepared, next_tick, hook, history>>
    /\ open' \in {open, open \ {e}}
    /\ \A u \in Threads \ {e} : pc'[u] = pc[u]
    /\ pc[e] \notin {"unspawned", "exited"} /\ pc'[e] \notin {"unspawned", "launch"}
    /\ \/ UNCHANGED <<reason, state, shutting>>
       \/ RequestAbort(e) /\ processed # {}

LEMMA DispatcherType ==
    ASSUME TypeInv, NEW e \in Edges, DispatcherStep(e)
    PROVE  TypeInv' /\ DispatcherEffect(e)
<1>0. PcOK /\ DataOK /\ GateOK /\ HookOK BY TypeParts
<1>1. e \in Threads /\ LabelsOf(e) = DispatcherPC /\ e # Coordinator /\ e \notin Nodes
  BY Roles DEF LabelsOf
<1>2. PICK label \in {"dispatch", "closing", "exited"} :
          Goto(e, label) /\ pc[e] \in {"launch", "dispatch", "closing"}
  BY DEF DispatcherStep, Launched, DispatcherDrained, DispatcherFails, DispatcherCloses, At
<1>3. /\ PcOK' /\ pc'[e] = label /\ \A u \in Threads \ {e} : pc'[u] = pc[u]
  <2>1. label \in DispatcherPC BY DEF DispatcherPC
  <2>2. QED BY <1>0, <1>1, <1>2, <2>1, Moved
<1>4. UNCHANGED <<start, launch, success_sealed, result, active_nodes, gate,
                  cancelled, bus_stopped, resources, prepared, next_tick, hook, history>>
  BY DEF DispatcherStep, Launched, DispatcherDrained, DispatcherFails, DispatcherCloses,
         control, shared
<1>5. open' \in {open, open \ {e}}
  BY DEF DispatcherStep, Launched, DispatcherDrained, DispatcherFails, DispatcherCloses,
         shared
<1>6. UNCHANGED <<reason, state, shutting>> \/ (RequestAbort(e) /\ processed # {})
  BY DEF DispatcherStep, Launched, DispatcherDrained, DispatcherFails, DispatcherCloses,
         control
<1>7. DataOK'
  BY <1>0, <1>1, <1>4, <1>5, <1>6, AbortEffect DEF DataOK, gate, history
<1>8. GateOK' BY <1>0, <1>1, <1>3, <1>4, GateStays, Roles DEF gate
<1>9. HookOK' BY <1>0, <1>1, <1>3, <1>4, Roles DEF HookOK
<1>10. QED BY <1>2, <1>3, <1>4, <1>5, <1>6, <1>7, <1>8, <1>9, TypeParts
           DEF DispatcherEffect

\* stop moves only its caller, to "first" exactly if it was accepted.
StopEffect(s) ==
    /\ UNCHANGED <<start, launch, success_sealed, result, active_nodes, gate,
                   shared, prepared, next_tick, hook, history>>
    /\ RequestAbort(s) /\ start = "ok" /\ pc[s] = "idle"
    /\ \A u \in Threads \ {s} : pc'[u] = pc[u]
    /\ pc'[s] = IF AbortAccepted THEN "first" ELSE "refused"

LEMMA StopType ==
    ASSUME TypeInv, NEW s \in Stoppers, Stop(s)
    PROVE  TypeInv' /\ StopEffect(s)
<1>0. PcOK /\ DataOK /\ GateOK /\ HookOK BY TypeParts
<1>1. s \in Threads /\ LabelsOf(s) = {"idle", "first", "refused"} /\ s # Coordinator
      /\ s \notin Nodes
  BY Roles DEF LabelsOf
<1>2. PcOK' /\ pc'[s] = (IF AbortAccepted THEN "first" ELSE "refused")
      /\ \A u \in Threads \ {s} : pc'[u] = pc[u]
  BY <1>0, <1>1, Moved DEF Stop
<1>3. DataOK'
  BY <1>0, <1>1, AbortEffect DEF Stop, DataOK, gate, shared, history
<1>4. GateOK' BY <1>0, <1>1, <1>2, GateStays, Roles DEF Stop, gate
<1>5. HookOK' BY <1>0, <1>1, <1>2, Roles DEF Stop, HookOK
<1>6. QED BY <1>2, <1>3, <1>4, <1>5, TypeParts DEF StopEffect, Stop

\* The body of fail_graph or stop only cancels, seals and closes.
ShutdownEffect(t) ==
    /\ UNCHANGED <<start, launch, pc, control, gate, prepared, next_tick, hook, history>>
    /\ cancelled' = (cancelled \/ shutting[t] = "cancel")
    /\ resources' = resources \/ (resources = "open" /\ resources' = "sealed")
    /\ \A u \in Threads \ {t} : shutting'[u] = shutting[u]

LEMMA ShutdownType ==
    ASSUME TypeInv, NEW t \in Threads, ShutdownStep(t)
    PROVE  TypeInv' /\ ShutdownEffect(t)
<1>0. PcOK /\ DataOK /\ GateOK /\ HookOK BY TypeParts
<1>1. shutting \in [Threads -> {"no", "cancel", "seal", "close"}] /\ cancelled \in BOOLEAN
      /\ bus_stopped \in BOOLEAN /\ open \subseteq Edges
  BY <1>0 DEF DataOK
<1>2. UNCHANGED <<start, launch, pc, control, gate, prepared, next_tick, hook, history>>
  BY DEF ShutdownStep, ShutdownCancel, ShutdownSeal, ShutdownClose
<1>3. /\ shutting' \in [Threads -> {"no", "cancel", "seal", "close"}]
      /\ \A u \in Threads \ {t} : shutting'[u] = shutting[u]
  BY <1>1 DEF ShutdownStep, ShutdownCancel, ShutdownSeal, ShutdownClose
<1>4. /\ cancelled' \in BOOLEAN /\ bus_stopped' \in BOOLEAN
      /\ cancelled' = (cancelled \/ shutting[t] = "cancel")
  BY <1>1, Zenon DEF ShutdownStep, ShutdownCancel, ShutdownSeal, ShutdownClose
<1>5. /\ open' \subseteq Edges
      /\ resources' = resources \/ (resources = "open" /\ resources' = "sealed")
  BY <1>1 DEF ShutdownStep, ShutdownCancel, ShutdownSeal, ShutdownClose
<1>6. DataOK'
  BY <1>0, <1>2, <1>3, <1>4, <1>5 DEF DataOK, control, gate, history
<1>7. PcOK' /\ GateOK' /\ HookOK'
  BY <1>0, <1>2 DEF PcOK, GateOK, Unarrived, HookOK, gate
<1>8. QED BY <1>2, <1>3, <1>4, <1>5, <1>6, <1>7, TypeParts DEF ShutdownEffect

\* start_with_spawner moves a thread out of "unspawned", or itself.
SpawnEffect(t) ==
    /\ UNCHANGED <<start, launch, shutting, control, gate, shared, prepared, next_tick,
                   hook, history>>
    /\ start = "spawning" /\ t \in Nodes \cup Edges \cup {Coordinator}
    /\ pc[t] = "unspawned"
    /\ pc'[t] = IF t = Coordinator THEN "collect" ELSE "launch"
    /\ \A u \in Threads \ {t} : pc'[u] = pc[u]
    /\ t = Coordinator => \A u \in Nodes \cup Edges : pc[u] # "unspawned"

LEMMA SpawnType ==
    ASSUME TypeInv, NEW t \in NextToSpawn, Spawn(t)
    PROVE  TypeInv' /\ SpawnEffect(t)
<1>0. PcOK /\ DataOK /\ GateOK /\ HookOK BY TypeParts
<1>1. t \in Nodes \cup Edges \cup {Coordinator} /\ pc[t] = "unspawned" /\ t \in Threads
  BY Roles DEF NextToSpawn
<1>2. (IF t = Coordinator THEN "collect" ELSE "launch") \in LabelsOf(t)
  BY <1>1, Roles DEF LabelsOf, WorkerPC, DispatcherPC, CoordinatorPC
<1>3. /\ PcOK' /\ pc'[t] = (IF t = Coordinator THEN "collect" ELSE "launch")
      /\ \A u \in Threads \ {t} : pc'[u] = pc[u]
  BY <1>0, <1>1, <1>2, Moved DEF Spawn
<1>4. DataOK' BY <1>0 DEF Spawn, DataOK, control, gate, shared, history
<1>5. GateOK' BY <1>0, <1>1, <1>3, GateStays, Roles DEF Spawn, gate
<1>6. HookOK' BY <1>0, <1>1, <1>3, Roles DEF Spawn, HookOK
<1>7. t = Coordinator => \A u \in Nodes \cup Edges : pc[u] # "unspawned"
  BY Roles DEF NextToSpawn
<1>8. QED BY <1>1, <1>3, <1>4, <1>5, <1>6, <1>7, TypeParts DEF SpawnEffect, Spawn

\* The other steps of start_with_spawner move no thread.
StartEffect ==
    /\ UNCHANGED <<pc, shutting, control, gate, bus_stopped, resources, prepared,
                   next_tick, hook, history>>
    /\ \/ start = "spawning" /\ start' = "ok" /\ launch' = "go" /\ UNCHANGED cancelled
          /\ NextToSpawn = {}
       \/ start = "spawning" /\ start' = "cleanup" /\ launch' = "cancel"
          /\ UNCHANGED cancelled /\ pc[Coordinator] = "unspawned"
       \/ start = "cleanup" /\ start' = "join" /\ UNCHANGED launch /\ cancelled'
       \/ start = "join" /\ start' = "err" /\ UNCHANGED <<launch, cancelled>>
          /\ \A t \in Nodes \cup Edges : pc[t] \in {"unspawned", "exited"}

LEMMA StartType ==
    ASSUME TypeInv, LaunchInv,
           Release \/ SpawnFails \/ CleanupClose \/ CleanupJoin
    PROVE  TypeInv' /\ StartEffect
<1>0. PcOK /\ DataOK /\ GateOK /\ HookOK BY TypeParts
<1>1. PcOK' /\ HookOK'
  BY <1>0 DEF PcOK, HookOK, Release, SpawnFails, CleanupClose, CleanupJoin
<1>2. Unarrived' = Unarrived
  BY DEF Unarrived, Release, SpawnFails, CleanupClose, CleanupJoin
<1>3. GateOK'
  BY <1>0, <1>2 DEF GateOK, LaunchInv, Release, SpawnFails, CleanupClose, CleanupJoin, gate
<1>4. SpawnFails => pc[Coordinator] = "unspawned"
  BY DEF SpawnFails, NextToSpawn, LaunchInv
<1>5. start' \in {"spawning", "cleanup", "join", "ok", "err"}
      /\ launch' \in {"none", "go", "cancel"} /\ open' \subseteq Edges
  BY <1>0 DEF Release, SpawnFails, CleanupClose, CleanupJoin, DataOK, shared
<1>6. cancelled' \in BOOLEAN
  BY <1>0, Zenon DEF Release, SpawnFails, CleanupClose, CleanupJoin, DataOK, shared
<1>7. UNCHANGED <<pc, shutting, control, gate, bus_stopped, resources, prepared,
                  next_tick, hook, history>>
  BY DEF Release, SpawnFails, CleanupClose, CleanupJoin, shared
<1>8. DataOK'
  BY <1>0, <1>5, <1>6, <1>7 DEF DataOK, control, gate, history
<1>9. StartEffect
  BY <1>4, <1>7 DEF StartEffect, Release, SpawnFails, CleanupClose, CleanupJoin, shared
<1>10. QED BY <1>1, <1>3, <1>8, <1>9, TypeParts

\* The coordinator moves only itself; only its failed on_finish may install a
\* reason.
CoordinatorEffect ==
    /\ UNCHANGED <<start, launch, gate, cancelled, open, prepared, next_tick, processed>>
    /\ \A u \in Threads \ {Coordinator} : pc'[u] = pc[u]
    /\ pc[Coordinator] \notin {"unspawned", "exited"}
    /\ pc'[Coordinator] \notin {"unspawned", "collect"}
    /\ pc[Coordinator] # "fail_finish" => UNCHANGED <<reason, shutting>>

LEMMA CoordinatorType ==
    ASSUME TypeInv, CoordinatorStep
    PROVE  TypeInv' /\ CoordinatorEffect
<1>0. PcOK /\ DataOK /\ GateOK /\ HookOK BY TypeParts
<1>1. Coordinator \in Threads /\ LabelsOf(Coordinator) = CoordinatorPC
  BY Roles DEF LabelsOf
<1> DEFINE Frame == UNCHANGED <<start, launch, gate, cancelled, open, prepared, next_tick,
                                processed>>
<1>2. ASSUME NEW label \in CoordinatorPC, Goto(Coordinator, label), Frame, DataOK',
             label \in {"finishing", "aborting"} => hook' > 0,
             pc[Coordinator] \notin {"unspawned", "exited"},
             label \notin {"unspawned", "collect"},
             pc[Coordinator] # "fail_finish" => UNCHANGED <<reason, shutting>>
      PROVE  TypeInv' /\ CoordinatorEffect
  <2>1. /\ PcOK' /\ pc'[Coordinator] = label
        /\ \A u \in Threads \ {Coordinator} : pc'[u] = pc[u]
    BY <1>0, <1>1, <1>2, Moved
  <2>2. GateOK' BY <1>0, <1>2, <2>1, GateStays, Roles DEF gate
  <2>3. HookOK' BY <1>2, <2>1 DEF HookOK
  <2>4. QED BY <1>2, <2>1, <2>2, <2>3, TypeParts DEF CoordinatorEffect
<1>3. hook \in 0..Len(Order) /\ Len(Order) \in Nat
      /\ \A i \in 1..Len(Order) : Order[i] \in Nodes
  BY <1>0 DEF DataOK
<1>4. CASE Collect
  <2>1. DataOK' BY <1>0, <1>4 DEF Collect, DataOK, control, gate, shared, history
  <2>2. QED BY <1>2, <1>4, <2>1 DEF Collect, CoordinatorPC, control, shared, history
<1>5. CASE BeginFinishing
  <2>1. DataOK'
    BY <1>0, <1>3, <1>5 DEF BeginFinishing, DataOK, ConcurrentRuntimeState, gate, shared, history
  <2>2. QED BY <1>2, <1>5, <2>1 DEF BeginFinishing, CoordinatorPC, shared, history
<1>6. ASSUME NEW from \in {"finish", "abort"}, NEW to \in {"finishing", "aborting"},
             EnterHook(from, to)
      PROVE  TypeInv' /\ CoordinatorEffect
  <2>1. DataOK' BY <1>0, <1>3, <1>6 DEF EnterHook, DataOK, gate, shared, history
  <2>2. QED BY <1>2, <1>3, <1>6, <2>1 DEF EnterHook, CoordinatorPC, shared, history
<1>7. CASE FinishOk \/ FinishFails \/ AbortReturns
  <2>1. pc[Coordinator] \in {"finishing", "aborting"} /\ hook \in 1..Len(Order)
    BY <1>0, <1>3, <1>7 DEF FinishOk, FinishFails, AbortReturns, HookOK
  <2>2. Order[hook] \in Nodes /\ hook - 1 \in 0..Len(Order) /\ 0 \in 0..Len(Order)
    BY <1>3, <2>1
  <2>3. /\ finish_calls' = finish_calls \/ finish_calls' = Append(finish_calls, Order[hook])
        /\ abort_calls' = abort_calls \/ abort_calls' = Append(abort_calls, Order[hook])
        /\ hook' \in {0, hook - 1} /\ active_nodes' \subseteq active_nodes
        /\ UNCHANGED <<start, launch, shutting, state, reason, success_sealed,
                       result, gate, shared, prepared, next_tick, processed>>
    BY <1>7 DEF FinishOk, FinishFails, AbortReturns
  <2>4. finish_calls' \in Seq(Nodes) /\ abort_calls' \in Seq(Nodes)
    <3>1. finish_calls \in Seq(Nodes) /\ abort_calls \in Seq(Nodes) BY <1>0 DEF DataOK
    <3>2. /\ Append(finish_calls, Order[hook]) \in Seq(Nodes)
          /\ Append(abort_calls, Order[hook]) \in Seq(Nodes)
      BY <2>2, <3>1
    <3>3. finish_calls' = finish_calls \/ finish_calls' = Append(finish_calls, Order[hook])
      BY <2>3
    <3>4. abort_calls' = abort_calls \/ abort_calls' = Append(abort_calls, Order[hook])
      BY <2>3
    <3>5. finish_calls' \in Seq(Nodes) BY <3>1, <3>2, <3>3, ZenonT(30)
    <3>6. abort_calls' \in Seq(Nodes) BY <3>1, <3>2, <3>4, ZenonT(30)
    <3>7. QED BY <3>5, <3>6
  <2>5. DataOK' BY <1>0, <2>2, <2>3, <2>4 DEF DataOK, gate, shared
  <2>6. QED BY <1>2, <1>7, <2>1, <2>3, <2>5
            DEF FinishOk, FinishFails, AbortReturns, CoordinatorPC, shared
<1>8. CASE FailGraphInFinish
  <2>1. DataOK'
    BY <1>0, <1>1, <1>8, AbortEffect DEF FailGraphInFinish, DataOK, gate, shared, history
  <2>2. QED BY <1>2, <1>8, <2>1 DEF FailGraphInFinish, CoordinatorPC, shared, history
<1>9. CASE SealSuccess
  <2>1. success_sealed' \in BOOLEAN BY <1>9, Zenon DEF SealSuccess
  <2>2. DataOK' BY <1>0, <1>9, <2>1 DEF SealSuccess, DataOK, gate, shared, history
  <2>3. QED BY <1>2, <1>9, <2>2 DEF SealSuccess, At, CoordinatorPC, shared, history
<1>10. CASE BeginAborting
  <2>1. DataOK'
    BY <1>0, <1>3, <1>10 DEF BeginAborting, DataOK, ConcurrentRuntimeState, gate, shared, history
  <2>2. QED BY <1>2, <1>10, <2>1 DEF BeginAborting, CoordinatorPC, shared, history
<1>11. CASE AbortSkip
  <2>1. DataOK' BY <1>0, <1>3, <1>11 DEF AbortSkip, DataOK, control, gate, shared, history
  <2>2. PcOK' /\ GateOK' /\ HookOK'
    BY <1>0, <1>11 DEF AbortSkip, PcOK, GateOK, Unarrived, HookOK, gate
  <2>3. QED BY <1>11, <2>1, <2>2, TypeParts
            DEF AbortSkip, CoordinatorEffect, control, shared, history
<1>12. CASE AbortLoopDone
  <2>1. DataOK' BY <1>0, <1>12 DEF AbortLoopDone, DataOK, control, gate, shared, history
  <2>2. QED BY <1>2, <1>12, <2>1 DEF AbortLoopDone, CoordinatorPC, control, shared, history
<1>13. CASE ReleaseResources
  <2>1. bus_stopped' \in BOOLEAN BY <1>13, Zenon DEF ReleaseResources
  <2>2. DataOK'
    BY <1>0, <1>13, <2>1 DEF ReleaseResources, DataOK, control, gate, history
  <2>3. QED BY <1>2, <1>13, <2>2 DEF ReleaseResources, CoordinatorPC, control, history
<1>14. CASE PublishSuccess \/ PublishAbort
  <2>1. DataOK'
    BY <1>0, <1>14 DEF PublishSuccess, PublishAbort, DataOK, ConcurrentRuntimeState, gate,
                       shared, history
  <2>2. QED BY <1>2, <1>14, <2>1
            DEF PublishSuccess, PublishAbort, CoordinatorPC, shared, history
<1>15. QED BY <1>4, <1>5, <1>6, <1>7, <1>8, <1>9, <1>10, <1>11, <1>12, <1>13, <1>14
           DEF CoordinatorStep, AbortEnter


----------------------------------------------------------------------------
(* The initial state, and the steps of the threads outside the graph.      *)

LEMMA LifeInit == ASSUME Init PROVE LifeInv
<1>1. \A t \in Threads : pc[t] = IF t \in Stoppers THEN "idle" ELSE "unspawned"
  BY DEF Init
<1>2. PcOK
  <2>1. pc \in [Threads -> Labels] BY DEF Init, Labels, WorkerPC
  <2>2. QED BY <1>1, <2>1, Roles
            DEF PcOK, LabelsOf, WorkerPC, DispatcherPC, CoordinatorPC
<1>3. DataOK
  <2>1. success_sealed \in BOOLEAN /\ released \in BOOLEAN /\ cancelled \in BOOLEAN
        /\ bus_stopped \in BOOLEAN
    BY Zenon DEF Init
  <2>2. finish_calls \in Seq(Nodes) /\ abort_calls \in Seq(Nodes) BY DEF Init
  <2>3. hook \in 0..Len(Order) BY DEF Init
  <2>4. QED BY <2>1, <2>2, <2>3 DEF Init, DataOK, ConcurrentRuntimeState
<1>4. GateOK
  <2>1. Unarrived = Nodes BY <1>1, Roles DEF Unarrived
  <2>2. QED BY <2>1 DEF GateOK, Init
<1>5. HookOK BY <1>1, Roles DEF HookOK
<1>6. TypeInv BY <1>2, <1>3, <1>4, <1>5, TypeParts
<1>7. LaunchInv BY <1>1, Roles DEF Init, LaunchInv
<1>8. CoordinatorInv
  BY <1>1, Roles DEF Init, CoordinatorInv, Collecting, CoordinatorAssertionsHold
<1>9. StopInv BY <1>1, Roles DEF Init, StopInv
<1>10. ActiveInv BY <1>1, Roles DEF Init, ActiveInv
<1>11. PreparedInv BY <1>1, Roles DEF Init, PreparedInv
<1>12. GateInv BY <1>1, Roles DEF Init, GateInv, GateShut, GateOpen, TokenInv, SourceInv, BeforeGate
<1>13. HookInv BY <1>1, Roles DEF Init, HookInv, FinishInv, AbortInv, Collecting
<1>14. QED BY <1>6, <1>7, <1>8, <1>9, <1>10, <1>11, <1>12, <1>13 DEF LifeInv

LEMMA StopStep ==
    ASSUME LifeInv, NEW s \in Stoppers, Stop(s)
    PROVE  LifeInv'
<1>0. TypeInv /\ LaunchInv /\ CoordinatorInv /\ StopInv /\ ActiveInv /\ PreparedInv
      /\ GateInv /\ HookInv
  BY DEF LifeInv
<1>1. TypeInv' /\ StopEffect(s) /\ DataOK BY <1>0, StopType, TypeParts
<1>2. /\ s \in Threads /\ s # Coordinator /\ pc'[Coordinator] = pc[Coordinator]
      /\ \A t \in Nodes \cup Edges : pc'[t] = pc[t]
  BY <1>1, Roles DEF StopEffect
<1>3. /\ UNCHANGED <<start, launch, success_sealed, result, active_nodes, released,
                     cancelled, resources, prepared, hook, processed, finish_calls,
                     abort_calls>>
      /\ UNCHANGED <<reason, shutting>> \/ (AbortAccepted /\ reason' = s /\ shutting'[s] = "cancel")
      /\ UNCHANGED state \/ reason' # None
  BY <1>1, <1>2, AbortEffect, Roles DEF StopEffect, gate, shared, history
<1>4. LaunchInv' BY <1>0, <1>2, <1>3 DEF LaunchInv
<1>5. CoordinatorInv'
  BY <1>0, <1>2, <1>3, Roles
     DEF CoordinatorInv, CoordinatorAssertionsHold, AllExited, AbortAccepted
<1>6. StopInv'
  BY <1>0, <1>1, <1>3, AbortEffect, Roles DEF StopInv, StopEffect, AbortAccepted
<1>7. ActiveInv' BY <1>0, <1>2, <1>3 DEF ActiveInv
<1>8. PreparedInv' BY <1>0, <1>2, <1>3, Roles DEF PreparedInv
<1>9. GateInv'
  <2>1. GateShut' /\ GateOpen'
    <3>1. /\ \A n \in Nodes : pc'[n] = pc[n]
          /\ UNCHANGED <<launch, released, cancelled, prepared, processed>>
          /\ reason' = reason \/ (reason = None /\ reason' = s)
      BY <1>2, <1>3 DEF AbortAccepted
    <3>2. GateShut' BY <1>0, <3>1 DEF GateInv, GateShut
    <3>3. None \notin Stoppers BY Roles
    <3>4. GateOpen' BY <1>0, <3>1, <3>3 DEF GateInv, GateOpen
    <3>5. QED BY <3>2, <3>4
  <2>2. TokenInv' BY <1>0, <1>2, <1>3, Roles DEF GateInv, TokenInv
  <2>3. SourceInv' BY <1>0, <1>2, <1>3, Roles, SMTT(30) DEF GateInv, SourceInv
  <2>4. QED BY <2>1, <2>2, <2>3 DEF GateInv
<1>10. HookInv'
  BY <1>0, <1>2, <1>3, Roles DEF HookInv, FinishInv, AbortInv, PreparedAfter, ElementsOf,
         InReverseOrder, AbortAccepted
<1>11. QED BY <1>1, <1>4, <1>5, <1>6, <1>7, <1>8, <1>9, <1>10 DEF LifeInv

LEMMA ShutdownSteps ==
    ASSUME LifeInv, NEW t \in Threads, ShutdownStep(t)
    PROVE  LifeInv'
<1>0. TypeInv /\ LaunchInv /\ CoordinatorInv /\ StopInv /\ ActiveInv /\ PreparedInv
      /\ GateInv /\ HookInv
  BY DEF LifeInv
<1>1. TypeInv' /\ ShutdownEffect(t) /\ DataOK BY <1>0, ShutdownType, TypeParts
<1>2. LaunchInv' BY <1>0, <1>1 DEF LaunchInv, ShutdownEffect, history
<1>3. CoordinatorInv'
  BY <1>0, <1>1 DEF CoordinatorInv, CoordinatorAssertionsHold, AllExited, ShutdownEffect, control
<1>4. StopInv' /\ ActiveInv' /\ PreparedInv'
  BY <1>0, <1>1 DEF StopInv, ActiveInv, PreparedInv, ShutdownEffect, control
<1>5. reason' # None /\ ~cancelled' => shutting'[reason'] = "cancel"
  BY <1>0, <1>1 DEF GateInv, TokenInv, ShutdownEffect, DataOK, control
<1>6. GateInv'
  BY <1>0, <1>1, <1>5
     DEF GateInv, GateShut, GateOpen, TokenInv, SourceInv, ShutdownEffect, control, gate, history
<1>7. HookInv'
  BY <1>0, <1>1 DEF HookInv, FinishInv, AbortInv, PreparedAfter, ElementsOf,
         InReverseOrder, ShutdownEffect, control, history
<1>8. QED BY <1>1, <1>2, <1>3, <1>4, <1>6, <1>7 DEF LifeInv

LEMMA SpawnSteps ==
    ASSUME LifeInv, NEW t \in NextToSpawn, Spawn(t)
    PROVE  LifeInv'
<1>0. TypeInv /\ LaunchInv /\ CoordinatorInv /\ StopInv /\ ActiveInv /\ PreparedInv
      /\ GateInv /\ HookInv
  BY DEF LifeInv
<1>1. TypeInv' /\ SpawnEffect(t) /\ DataOK BY <1>0, SpawnType, TypeParts
<1>2. /\ launch = "none" /\ pc[Coordinator] = "unspawned"
      /\ pc'[Coordinator] \in {"unspawned", "collect"}
      /\ t \in Threads /\ t \notin Stoppers
  BY <1>0, <1>1, Roles DEF LaunchInv, SpawnEffect
<1>3. LaunchInv' BY <1>0, <1>1, <1>2, Roles DEF LaunchInv, SpawnEffect, history
<1>4. CoordinatorInv'
  BY <1>0, <1>1, <1>2
     DEF CoordinatorInv, Collecting, CoordinatorAssertionsHold, SpawnEffect, control, shared
<1>5. StopInv' BY <1>0, <1>1, <1>2, Roles DEF StopInv, SpawnEffect, control
<1>6. ActiveInv' BY <1>0, <1>1, <1>2, Roles DEF ActiveInv, SpawnEffect, control
<1>7. PreparedInv' BY <1>1, <1>2 DEF PreparedInv, SpawnEffect
<1>8. GateInv'
  <2>1. /\ UNCHANGED <<launch, shutting, reason, released, cancelled, prepared, processed>>
        /\ \A u \in Threads : pc'[u] = pc[u] \/ (pc[u] = "unspawned" /\ pc'[u] \in {"launch", "collect"})
        /\ \A n \in Nodes : pc'[n] = pc[n] \/ (pc[n] = "unspawned" /\ pc'[n] = "launch")
    BY <1>1, <1>2, Roles DEF SpawnEffect, control, gate, shared, history
  <2>2. GateShut' BY <1>0, <2>1 DEF GateInv, GateShut, BeforeGate
  <2>3. GateOpen' BY <1>0, <2>1 DEF GateInv, GateOpen
  <2>4. TokenInv' BY <1>0, <2>1 DEF GateInv, TokenInv
  <2>5. SourceInv' BY <1>0, <2>1 DEF GateInv, SourceInv
  <2>6. QED BY <2>2, <2>3, <2>4, <2>5 DEF GateInv
<1>9. HookInv'
  BY <1>0, <1>1, <1>2 DEF HookInv, FinishInv, AbortInv, CoordinatorInv, Collecting, SpawnEffect, control, history
<1>10. QED BY <1>1, <1>3, <1>4, <1>5, <1>6, <1>7, <1>8, <1>9 DEF LifeInv

LEMMA StartSteps ==
    ASSUME LifeInv, Release \/ SpawnFails \/ CleanupClose \/ CleanupJoin
    PROVE  LifeInv'
<1>0. TypeInv /\ LaunchInv /\ CoordinatorInv /\ StopInv /\ ActiveInv /\ PreparedInv
      /\ GateInv /\ HookInv
  BY DEF LifeInv
<1>1. TypeInv' /\ StartEffect /\ DataOK BY <1>0, StartType, TypeParts
<1>2. LaunchInv' BY <1>0, <1>1 DEF LaunchInv, StartEffect, history
<1>3. CoordinatorInv'
  BY <1>0, <1>1 DEF CoordinatorInv, CoordinatorAssertionsHold, AllExited, StartEffect, control
<1>4. StopInv' /\ ActiveInv'
  BY <1>0, <1>1 DEF StopInv, ActiveInv, StartEffect, control
<1>5. PreparedInv' BY <1>0, <1>1 DEF PreparedInv, LaunchInv, StartEffect, control
<1>6. start = "spawning" /\ released => Nodes = prepared
  <2>1. SUFFICES ASSUME start = "spawning", released PROVE Nodes = prepared
    OBVIOUS
  <2>2. launch = "none" /\ prepared = {} /\ \A n \in Nodes : pc[n] \in {"unspawned", "launch"}
    BY <1>0, <2>1 DEF LaunchInv
  <2>3. \A n \in Nodes : pc[n] \notin {"unspawned", "launch"}
    BY <1>0, <2>1, <2>2 DEF GateInv, GateOpen
  <2>4. Nodes = {} BY <2>2, <2>3
  <2>5. QED BY <2>2, <2>4
<1>7. GateInv'
  BY <1>0, <1>1, <1>6
     DEF GateInv, GateShut, GateOpen, TokenInv, SourceInv, LaunchInv, StartEffect, control,
         gate, history
<1>8. HookInv'
  BY <1>0, <1>1 DEF HookInv, FinishInv, AbortInv, PreparedAfter, ElementsOf,
         InReverseOrder, StartEffect, control, history
<1>9. QED BY <1>1, <1>2, <1>3, <1>4, <1>5, <1>7, <1>8 DEF LifeInv

LEMMA DispatcherSteps ==
    ASSUME LifeInv, NEW e \in Edges, DispatcherStep(e)
    PROVE  LifeInv'
<1>0. TypeInv /\ LaunchInv /\ CoordinatorInv /\ StopInv /\ ActiveInv /\ PreparedInv
      /\ GateInv /\ HookInv
  BY DEF LifeInv
<1>1. TypeInv' /\ DispatcherEffect(e) /\ DataOK BY <1>0, DispatcherType, TypeParts
<1>2. /\ e \in Threads /\ e # Coordinator /\ pc'[Coordinator] = pc[Coordinator]
      /\ \A n \in Nodes : pc'[n] = pc[n]
      /\ \A s \in Stoppers : pc'[s] = pc[s]
  BY <1>1, Roles DEF DispatcherEffect
<1>3. pc[Coordinator] \in Collecting /\ result = None /\ ~success_sealed
  BY <1>0, <1>1 DEF CoordinatorInv, Collecting, AllExited, DispatcherEffect
<1>4. /\ launch # "none" /\ start # "err"
      /\ launch = "cancel" => pc'[e] = "exited"
  <2>1. pc[e] = "launch" => Launched(e, "dispatch")
    BY DEF DispatcherStep, DispatcherDrained, DispatcherFails, DispatcherCloses, At
  <2>2. pc[e] \notin {"unspawned", "exited"} BY <1>1 DEF DispatcherEffect
  <2>3. pc \in [Threads -> Labels] BY <1>0 DEF TypeInv
  <2>4. QED BY <1>0, <1>2, <2>1, <2>2, <2>3 DEF LaunchInv, Launched, Goto
<1>5. \/ UNCHANGED <<reason, state, shutting>>
      \/ reason = None /\ reason' = e /\ shutting'[e] = "cancel" /\ processed # {}
  BY <1>1, <1>2, AbortEffect DEF DispatcherEffect, AbortAccepted
<1>6. LaunchInv'
  <2>1. UNCHANGED <<start, launch, prepared, processed>> BY <1>1 DEF DispatcherEffect, history
  <2>2. \A t \in Nodes \cup Edges : t # e => pc'[t] = pc[t] BY <1>1, Roles DEF DispatcherEffect
  <2>3. pc'[e] # "unspawned" BY <1>1 DEF DispatcherEffect
  <2>4. QED BY <1>0, <1>2, <1>4, <2>1, <2>2, <2>3 DEF LaunchInv
<1>7. CoordinatorInv'
  BY <1>0, <1>1, <1>2, <1>3, <1>5, Roles
     DEF CoordinatorInv, Collecting, CoordinatorAssertionsHold, DispatcherEffect
<1>8. StopInv' BY <1>0, <1>2, <1>5, Roles DEF StopInv
<1>9. ActiveInv' /\ PreparedInv'
  BY <1>0, <1>1, <1>2, <1>5, Roles DEF ActiveInv, PreparedInv, DispatcherEffect
<1>10. GateInv'
  <2>1. UNCHANGED <<launch, released, cancelled, prepared, processed>>
    BY <1>1 DEF DispatcherEffect, gate, history
  <2>2. GateShut' /\ GateOpen'
    BY <1>0, <1>2, <1>5, <2>1, Roles, SMTT(30) DEF GateInv, GateShut, GateOpen, LaunchInv
  <2>3. TokenInv' BY <1>0, <1>2, <1>5, <2>1, Roles DEF GateInv, TokenInv
  <2>4. SourceInv' BY <1>0, <1>2, <1>5, <2>1, Roles DEF GateInv, SourceInv
  <2>5. QED BY <2>2, <2>3, <2>4 DEF GateInv
<1>11. HookInv'
  BY <1>0, <1>1, <1>2, <1>3, Roles DEF HookInv, FinishInv, AbortInv, Collecting, DispatcherEffect, history
<1>12. QED BY <1>1, <1>6, <1>7, <1>8, <1>9, <1>10, <1>11 DEF LifeInv

----------------------------------------------------------------------------
(* A worker's step.  The worker has not exited, so the coordinator is still *)
(* collecting.                                                             *)

LEMMA WorkerSteps ==
    ASSUME LifeInv, NEW n \in Nodes, WorkerStep(n)
    PROVE  LifeInv'
<1>0. TypeInv /\ LaunchInv /\ CoordinatorInv /\ StopInv /\ ActiveInv /\ PreparedInv
      /\ GateInv /\ HookInv
  BY DEF LifeInv
<1>1. TypeInv' /\ WorkerEffect(n) /\ DataOK /\ DataOK' /\ GateOK'
  BY <1>0, WorkerType, TypeParts
<1>2. /\ n \in Threads /\ n # Coordinator /\ pc'[Coordinator] = pc[Coordinator]
      /\ \A m \in Nodes \cup Edges : m # n => pc'[m] = pc[m]
      /\ \A s \in Stoppers : pc'[s] = pc[s] /\ s # n
      /\ pc[n] \notin {"unspawned", "exited"} /\ pc'[n] \notin {"unspawned", "launch"}
      /\ UNCHANGED <<start, launch, success_sealed, result, cancelled, resources, hook,
                     finish_calls, abort_calls>>
  BY <1>1, Roles DEF WorkerEffect, shared
<1>3. pc[Coordinator] \in Collecting /\ result = None /\ ~success_sealed
  BY <1>0, <1>2 DEF CoordinatorInv, Collecting, AllExited
<1>4. /\ launch # "none" /\ start # "err"
      /\ launch = "cancel" => pc'[n] = "exited" /\ UNCHANGED <<prepared, processed>>
  <2>1. pc[n] = "launch" => Launched(n, "prepare")
    BY DEF WorkerStep, Prepare, Arrive, PassGate, MarkRunning, Decide, Process,
           ProcessFails, SourceTick, ConsumerDone, DropSenders, NodeInactive, At
  <2>2. pc \in [Threads -> Labels] BY <1>0 DEF TypeInv
  <2>3. QED BY <1>0, <1>2, <2>1, <2>2 DEF LaunchInv, Launched, Goto, history
<1>5. /\ \/ UNCHANGED <<reason, shutting>>
         \/ reason = None /\ reason' = n /\ shutting'[n] = "cancel"
      /\ state' = state \/ reason' # None \/ state' = "Running"
  BY <1>1, <1>2, AbortEffect, Roles DEF WorkerEffect, AbortAccepted
<1>6. LaunchInv'
  <2>1. CASE launch = "go" BY <1>0, <1>2, <1>4, <2>1 DEF LaunchInv
  <2>2. CASE launch = "cancel" BY <1>0, <1>2, <1>4, <2>2 DEF LaunchInv
  <2>3. QED BY <1>1, <1>4, <2>1, <2>2 DEF DataOK
<1>7. CoordinatorInv'
  BY <1>0, <1>2, <1>3, <1>5, Roles DEF CoordinatorInv, Collecting, CoordinatorAssertionsHold
<1>8. StopInv' BY <1>0, <1>2, <1>5, Roles DEF StopInv
<1>9. ActiveInv'
  <2>1. active_nodes' = active_nodes \/ (active_nodes' = active_nodes \ {n} /\ pc'[n] = "exited")
    <3>1. pc \in [Threads -> Labels] BY <1>0 DEF TypeInv
    <3>2. QED BY <1>2, <3>1
              DEF WorkerStep, Launched, Prepare, Arrive, PassGate, MarkRunning, Decide, Process,
                  ProcessFails, SourceTick, ConsumerDone, DropSenders, NodeInactive, Goto, control
  <2>2. QED BY <1>0, <1>2, <1>3, <2>1 DEF ActiveInv, Collecting
<1>10. PreparedInv' /\ GateInv'
  <2>0. pc \in [Threads -> Labels] /\ prepared \subseteq Nodes /\ Sources \subseteq Nodes
        /\ released \in BOOLEAN /\ cancelled \in BOOLEAN
    BY <1>0, <1>1 DEF TypeInv, DataOK
  <2>1. CASE Launched(n, "prepare")
    <3>1. /\ pc[n] = "launch" /\ pc'[n] \in {"prepare", "exited"}
          /\ pc'[n] = "exited" <=> launch # "go"
          /\ UNCHANGED <<reason, shutting, released, prepared, processed>>
      BY <1>2, <2>0, <2>1 DEF Launched, Goto, control, gate, history
    <3>2. PreparedInv' BY <1>0, <1>2, <3>1 DEF PreparedInv
    <3>3. GateShut' /\ GateOpen'
      BY <1>0, <1>1, <1>2, <1>4, <3>1 DEF GateInv, GateShut, GateOpen, BeforeGate, DataOK
    <3>4. TokenInv' /\ SourceInv' BY <1>0, <1>2, <2>0, <3>1 DEF GateInv, TokenInv, SourceInv
    <3>5. QED BY <3>2, <3>3, <3>4 DEF GateInv
  <2>2. CASE Prepare(n)
    <3>1. /\ pc[n] = "prepare" /\ pc'[n] = "arrive" /\ UNCHANGED <<released, processed>>
          /\ \/ prepared' = prepared \cup {n} /\ UNCHANGED <<reason, shutting>>
             \/ UNCHANGED prepared /\ RequestAbort(n)
      BY <1>2, <2>0, <2>2 DEF Prepare, At, Goto, gate, history
    <3>2. n \in prepared' \/ reason' # None
      BY <1>2, <1>3, <3>1, Roles DEF RequestAbort, AbortAccepted
    <3>3. PreparedInv' BY <1>0, <1>2, <1>5, <3>1, <3>2, Roles DEF PreparedInv
    <3>4. launch = "go" /\ ~released BY <1>0, <1>1, <1>4, <3>1 DEF GateInv, GateOpen, LaunchInv, DataOK
    <3>5. GateShut' /\ GateOpen'
      BY <1>0, <1>2, <1>5, <3>1, <3>4 DEF GateInv, GateShut, GateOpen, BeforeGate
    <3>6. TokenInv' BY <1>0, <1>2, <1>5, <3>1, Roles DEF GateInv, TokenInv
    <3>7. SourceInv' BY <1>0, <1>2, <1>5, <2>0, <3>1, <3>4 DEF GateInv, GateShut, SourceInv, BeforeGate
    <3>8. QED BY <3>3, <3>5, <3>6, <3>7 DEF GateInv
  <2>3. CASE Arrive(n)
    <3>1. /\ pc[n] = "arrive" /\ pc'[n] = "gate" /\ shutting[n] = "no"
          /\ UNCHANGED <<reason, shutting, prepared, processed>>
          /\ released' = (released \/ remaining' = 0)
      BY <1>2, <2>0, <2>3 DEF Arrive, At, Goto, control, history
    <3>2. launch = "go" /\ ~released BY <1>0, <1>1, <1>4, <3>1 DEF GateInv, GateOpen, LaunchInv, DataOK
    <3>3. PreparedInv' BY <1>0, <1>2, <3>1, Roles DEF PreparedInv
    <3>4. GateShut' BY <1>0, <1>2, <3>1, <3>2 DEF GateInv, GateShut, BeforeGate
    <3>5. TokenInv' /\ SourceInv'
      BY <1>0, <1>2, <2>0, <3>1 DEF GateInv, TokenInv, SourceInv
    <3>6. ASSUME released' PROVE \A m \in Nodes : m \notin Unarrived'
      <4>1. Cardinality(Unarrived') = 0 BY <1>1, <1>2, <3>1, <3>2, <3>6 DEF GateOK
      <4>2. IsFiniteSet(Unarrived') BY FS_Subset DEF Unarrived
      <4>3. Unarrived' = {} BY <4>1, <4>2, FS_EmptySet
      <4>4. QED BY <4>3
    <3>7. ASSUME released', ~cancelled, reason \notin Stoppers PROVE prepared = Nodes
      <4>1. reason \notin Nodes
        BY <1>0, <1>2, <3>1, <3>2, <3>6, <3>7, Roles, SMTT(30)
           DEF GateInv, GateShut, TokenInv, BeforeGate, Unarrived
      <4>2. reason = None BY <1>0, <3>2, <3>7, <4>1 DEF GateInv, GateShut
      <4>3. ASSUME NEW m \in Nodes PROVE m \in prepared
        <5>1. pc'[m] \notin {"unspawned", "launch", "prepare"}
          BY <3>6, <3>7 DEF Unarrived
        <5>2. QED BY <1>2, <3>1, <3>2, <3>3, <4>2, <5>1 DEF PreparedInv
      <4>4. Nodes \subseteq prepared BY <4>3
      <4>5. prepared \subseteq Nodes BY <2>0
      <4>6. QED BY <4>4, <4>5
    <3>8. GateOpen' BY <1>2, <3>1, <3>6, <3>7 DEF GateOpen, Unarrived
    <3>9. QED BY <3>3, <3>4, <3>5, <3>8 DEF GateInv
  <2>4. CASE PassGate(n) \/ MarkRunning(n)
    <3>1. /\ pc[n] \in {"gate", "mark"} /\ pc'[n] \in {"mark", "decide"}
          /\ UNCHANGED <<reason, shutting, released, prepared, processed>>
          /\ pc[n] = "gate" => released
      BY <1>2, <2>0, <2>4 DEF PassGate, MarkRunning, Goto, control, gate, history
    <3>2. launch = "go" /\ released
      BY <1>0, <1>1, <1>4, <3>1 DEF GateInv, GateShut, BeforeGate, LaunchInv, DataOK
    <3>3. PreparedInv' BY <1>0, <1>2, <3>1 DEF PreparedInv
    <3>4. GateShut' /\ GateOpen' BY <1>0, <1>2, <3>1, <3>2 DEF GateInv, GateShut, GateOpen
    <3>5. TokenInv' /\ SourceInv' BY <1>0, <1>2, <2>0, <3>1 DEF GateInv, TokenInv, SourceInv
    <3>6. QED BY <3>3, <3>4, <3>5 DEF GateInv
  <2>5. CASE Decide(n)
    <3>1. /\ pc[n] = "decide" /\ pc'[n] \in {"run", "leave"}
          /\ UNCHANGED <<reason, shutting, released, prepared, processed>>
          /\ pc'[n] = "run" => n \notin Sources \/ ~cancelled
      BY <1>2, <2>0, <2>5 DEF Decide, Goto, control, gate, history
    <3>2. launch = "go" /\ released
      BY <1>0, <1>1, <1>4, <3>1 DEF GateInv, GateShut, BeforeGate, LaunchInv, DataOK
    <3>3. PreparedInv' BY <1>0, <1>2, <3>1 DEF PreparedInv
    <3>4. GateShut' /\ GateOpen' BY <1>0, <1>2, <3>1, <3>2 DEF GateInv, GateShut, GateOpen
    <3>5. TokenInv' BY <1>0, <1>2, <2>0, <3>1 DEF GateInv, TokenInv
    <3>6. SourceInv' BY <1>0, <1>2, <2>0, <3>1, <3>2 DEF GateInv, GateOpen, SourceInv
    <3>7. QED BY <3>3, <3>4, <3>5, <3>6 DEF GateInv
  <2>6. CASE Process(n)
    <3>1. /\ pc[n] = "run" /\ pc'[n] \in {"run", "tick", "leave"}
          /\ UNCHANGED <<reason, shutting, released, prepared>>
          /\ processed' = processed \cup {n}
      BY <1>2, <2>0, <2>6 DEF Process, Goto, control, gate
    <3>2. launch = "go" /\ released
      BY <1>0, <1>1, <1>4, <3>1 DEF GateInv, GateShut, BeforeGate, LaunchInv, DataOK
    <3>3. PreparedInv' BY <1>0, <1>2, <3>1 DEF PreparedInv
    <3>4. GateShut' /\ GateOpen' BY <1>0, <1>2, <3>1, <3>2 DEF GateInv, GateShut, GateOpen
    <3>5. TokenInv' BY <1>0, <1>2, <2>0, <3>1 DEF GateInv, TokenInv
    <3>6. SourceInv' BY <1>0, <1>2, <2>0, <3>1 DEF GateInv, SourceInv
    <3>7. QED BY <3>3, <3>4, <3>5, <3>6 DEF GateInv
  <2>7. CASE ProcessFails(n)
    <3>1. /\ pc[n] = "run" /\ pc'[n] = "leave" /\ UNCHANGED <<released, prepared>>
          /\ processed' = processed \cup {n}
      BY <1>2, <2>0, <2>7 DEF ProcessFails, Goto, gate
    <3>2. launch = "go" /\ released
      BY <1>0, <1>1, <1>4, <3>1 DEF GateInv, GateShut, BeforeGate, LaunchInv, DataOK
    <3>3. PreparedInv' BY <1>0, <1>2, <1>5, <3>1, Roles DEF PreparedInv
    <3>4. GateShut' /\ GateOpen'
      BY <1>0, <1>2, <1>5, <3>1, <3>2, Roles, SMTT(30) DEF GateInv, GateShut, GateOpen
    <3>5. TokenInv' BY <1>0, <1>2, <1>5, <2>0, <3>1, Roles DEF GateInv, TokenInv
    <3>6. SourceInv' BY <1>0, <1>2, <1>5, <2>0, <3>1, Roles DEF GateInv, SourceInv
    <3>7. QED BY <3>3, <3>4, <3>5, <3>6 DEF GateInv
  <2>8. CASE SourceTick(n) \/ ConsumerDone(n) \/ DropSenders(n) \/ NodeInactive(n)
    <3>1. /\ pc[n] \in {"tick", "run", "leave", "inactive"}
          /\ pc'[n] \in {"run", "leave", "inactive", "exited"}
          /\ UNCHANGED <<reason, shutting, released, prepared, processed>>
          /\ pc[n] = "leave" => shutting[n] = "no"
          /\ pc'[n] = "run" => pc[n] = "tick"
      BY <1>2, <2>0, <2>8
         DEF SourceTick, ConsumerDone, DropSenders, NodeInactive, At, Goto, control, gate, history
    <3>2. launch = "go" /\ released
      BY <1>0, <1>1, <1>4, <3>1 DEF GateInv, GateShut, BeforeGate, LaunchInv, DataOK
    <3>3. PreparedInv' BY <1>0, <1>2, <3>1 DEF PreparedInv
    <3>4. GateShut' /\ GateOpen' BY <1>0, <1>2, <3>1, <3>2 DEF GateInv, GateShut, GateOpen
    <3>5. TokenInv' BY <1>0, <1>2, <2>0, <3>1 DEF GateInv, TokenInv
    <3>6. SourceInv' BY <1>0, <1>2, <2>0, <3>1 DEF GateInv, SourceInv
    <3>7. QED BY <3>3, <3>4, <3>5, <3>6 DEF GateInv
  <2>9. QED BY <2>1, <2>2, <2>3, <2>4, <2>5, <2>6, <2>7, <2>8 DEF WorkerStep
<1>11. HookInv'
  BY <1>0, <1>2, <1>3, Roles DEF HookInv, FinishInv, AbortInv, Collecting
<1>12. QED BY <1>1, <1>6, <1>7, <1>8, <1>9, <1>10, <1>11 DEF LifeInv

----------------------------------------------------------------------------
(* The coordinator's steps: what the hooks have covered so far.            *)

LEMMA OrderFacts ==
    /\ Len(Order) \in Nat /\ DOMAIN Order = 1..Len(Order)
    /\ \A i \in 1..Len(Order) : Order[i] \in Nodes
OBVIOUS

\* on_finish goes down the topological order.
LEMMA FinishOneMore ==
    /\ FinishedDownTo(Len(Order)) = <<>> /\ FinishedDownTo(0) = Reversed
    /\ \A k \in 1..Len(Order) :
          Append(FinishedDownTo(k), Order[k]) = FinishedDownTo(k - 1)
<1>1. FinishedDownTo(Len(Order)) = <<>>
  BY OrderFacts DEF FinishedDownTo
<1>2. FinishedDownTo(0) = Reversed
  BY OrderFacts DEF FinishedDownTo, Reversed
<1>3. ASSUME NEW k \in 1..Len(Order)
      PROVE  Append(FinishedDownTo(k), Order[k]) = FinishedDownTo(k - 1)
  <2>1. /\ k \in Nat /\ k - 1 \in Nat /\ Len(Order) - k \in Nat
        /\ Len(Order) - (k - 1) = (Len(Order) - k) + 1
        /\ Len(Order) + 1 - ((Len(Order) - k) + 1) = k
    BY OrderFacts
  <2>2. FinishedDownTo(k) \in Seq(Nodes) /\ Len(FinishedDownTo(k)) = Len(Order) - k
    <3>1. \A i \in 1..(Len(Order) - k) : Order[Len(Order) + 1 - i] \in Nodes
      BY <2>1, OrderFacts
    <3>2. QED BY <2>1, <3>1 DEF FinishedDownTo
  <2>3. FinishedDownTo(k - 1) \in Seq(Nodes)
        /\ Len(FinishedDownTo(k - 1)) = (Len(Order) - k) + 1
    <3>1. \A i \in 1..(Len(Order) - (k - 1)) : Order[Len(Order) + 1 - i] \in Nodes
      BY <2>1, OrderFacts
    <3>2. QED BY <2>1, <3>1 DEF FinishedDownTo
  <2>4. FinishedDownTo(k - 1)[(Len(Order) - k) + 1] = Order[k]
    BY <2>1 DEF FinishedDownTo
  <2>5. \A i \in 1..(Len(Order) - k) : FinishedDownTo(k - 1)[i] = FinishedDownTo(k)[i]
    BY <2>1 DEF FinishedDownTo
  <2>6. /\ Len(FinishedDownTo(k - 1)) = Len(FinishedDownTo(k)) + 1
        /\ \A i \in 1..Len(FinishedDownTo(k)) : FinishedDownTo(k - 1)[i] = FinishedDownTo(k)[i]
    BY <2>2, <2>3, <2>5
  <2>7. FinishedDownTo(k - 1) =
            Append(FinishedDownTo(k), FinishedDownTo(k - 1)[Len(FinishedDownTo(k)) + 1])
    BY <2>2, <2>3, <2>6, OneLonger, Zenon
  <2>8. QED BY <2>2, <2>4, <2>7
<1>4. QED BY <1>1, <1>2, <1>3

\* What the abort loop has been through grows by one node at a time.
LEMMA PreparedAfterSteps ==
    ASSUME prepared \subseteq Nodes
    PROVE  /\ PreparedAfter(Len(Order)) = {} /\ PreparedAfter(0) = prepared
           /\ \A k \in 1..Len(Order) :
                 PreparedAfter(k - 1) = PreparedAfter(k) \cup ({Order[k]} \cap prepared)
<1>1. PreparedAfter(Len(Order)) = {} BY OrderFacts DEF PreparedAfter
<1>2. PreparedAfter(0) = prepared BY OrderFacts DEF PreparedAfter
<1>3. ASSUME NEW k \in 1..Len(Order)
      PROVE  PreparedAfter(k - 1) = PreparedAfter(k) \cup ({Order[k]} \cap prepared)
  <2>1. \A i \in DOMAIN Order : i > k - 1 <=> (i > k \/ i = k) BY OrderFacts
  <2>2. k \in DOMAIN Order BY OrderFacts
  <2>3. QED BY <2>1, <2>2 DEF PreparedAfter
<1>4. QED BY <1>1, <1>2, <1>3

\* Appending the node at position k to nodes that all stand after it.
LEMMA ReverseOneMore ==
    ASSUME NEW s \in Seq(Nodes), InReverseOrder(s), NEW k \in 1..Len(Order),
           \A x \in ElementsOf(s) : \E i \in DOMAIN Order : i > k /\ Order[i] = x
    PROVE  InReverseOrder(Append(s, Order[k]))
<1>1. /\ Len(s) \in Nat /\ DOMAIN s = 1..Len(s) /\ k \in DOMAIN Order
      /\ DOMAIN Append(s, Order[k]) = 1..(Len(s) + 1)
      /\ \A i \in 1..Len(s) : Append(s, Order[k])[i] = s[i]
      /\ Append(s, Order[k])[Len(s) + 1] = Order[k]
  BY OrderFacts
<1>2. SUFFICES ASSUME NEW i \in 1..(Len(s) + 1), NEW j \in 1..(Len(s) + 1), i < j,
                      NEW a \in DOMAIN Order, NEW b \in DOMAIN Order,
                      Order[a] = Append(s, Order[k])[i], Order[b] = Append(s, Order[k])[j]
               PROVE  a > b
  BY <1>1 DEF InReverseOrder
<1>3. i \in 1..Len(s) /\ Order[a] = s[i] BY <1>1, <1>2
<1>4. CASE j \in 1..Len(s) BY <1>1, <1>2, <1>3, <1>4 DEF InReverseOrder
<1>5. CASE j = Len(s) + 1
  <2>1. Order[b] = Order[k] BY <1>1, <1>2, <1>5
  <2>2. b = k BY <1>1, <2>1
  <2>3. s[i] \in ElementsOf(s) BY <1>1, <1>3 DEF ElementsOf
  <2>4. PICK c \in DOMAIN Order : c > k /\ Order[c] = s[i] BY <2>3
  <2>5. a = c BY <1>3, <2>4
  <2>6. QED BY <2>2, <2>4, <2>5
<1>6. QED BY <1>1, <1>4, <1>5, SMTT(30)

LEMMA CoordinatorSteps ==
    ASSUME LifeInv, CoordinatorStep
    PROVE  LifeInv'
<1>0. TypeInv /\ LaunchInv /\ CoordinatorInv /\ StopInv /\ ActiveInv /\ PreparedInv
      /\ GateInv /\ FinishInv /\ AbortInv
  BY DEF LifeInv, HookInv
<1>1. TypeInv' /\ CoordinatorEffect /\ DataOK /\ DataOK' BY <1>0, CoordinatorType, TypeParts
<1>2. /\ \A t \in Nodes \cup Edges : pc'[t] = pc[t]
      /\ \A s \in Stoppers : pc'[s] = pc[s]
      /\ pc[Coordinator] \notin {"unspawned", "exited"}
      /\ pc'[Coordinator] \notin {"unspawned", "collect"}
      /\ UNCHANGED <<start, launch, released, cancelled, prepared, processed>>
      /\ pc \in [Threads -> Labels] /\ Coordinator \in Threads
  BY <1>0, <1>1, Roles DEF CoordinatorEffect, gate, TypeInv
<1>3. AllExited /\ result = None /\ launch # "cancel"
  BY <1>0, <1>2
     DEF CoordinatorInv, LaunchInv, Collecting, CoordinatorStep, Collect, BeginFinishing, EnterHook,
         FinishOk, FinishFails, FailGraphInFinish, SealSuccess, BeginAborting, AbortSkip,
         AbortEnter, AbortReturns, AbortLoopDone, ReleaseResources, PublishSuccess,
         PublishAbort, At
<1>4. released
  BY <1>0, <1>3 DEF GateInv, GateShut, BeforeGate, AllExited
<1>5. /\ \/ UNCHANGED <<reason, shutting>>
         \/ /\ FailGraphInFinish /\ reason = None /\ reason' = Coordinator
            /\ shutting'[Coordinator] = "cancel"
      /\ FailGraphInFinish => reason' # None /\ pc[Coordinator] = "fail_finish"
  <2>1. CASE FailGraphInFinish
    <3>1. RequestAbort(Coordinator) /\ pc[Coordinator] = "fail_finish"
      BY <2>1 DEF FailGraphInFinish
    <3>2. ~success_sealed BY <1>0, <3>1 DEF CoordinatorInv
    <3>3. QED BY <1>1, <1>2, <1>3, <2>1, <3>1, <3>2, AbortEffect, Roles DEF AbortAccepted
  <2>2. CASE ~FailGraphInFinish
    BY <2>2 DEF CoordinatorStep, Collect, BeginFinishing, EnterHook, FinishOk, FinishFails,
         SealSuccess, BeginAborting, AbortSkip, AbortEnter, AbortReturns, AbortLoopDone,
         ReleaseResources, PublishSuccess, PublishAbort, control
  <2>3. QED BY <2>1, <2>2
<1>6. LaunchInv' BY <1>0, <1>2, <1>3 DEF LaunchInv
<1>7. StopInv' BY <1>0, <1>2, <1>5, Roles DEF StopInv
<1>8. PreparedInv' BY <1>0, <1>2, <1>5, Roles DEF PreparedInv
<1>9. GateInv'
  <2>1. GateShut' BY <1>2, <1>4 DEF GateShut
  <2>2. GateOpen' /\ SourceInv'
    BY <1>0, <1>2, <1>5, Roles DEF GateInv, GateOpen, SourceInv
  <2>3. TokenInv' BY <1>0, <1>2, <1>5, Roles DEF GateInv, TokenInv
  <2>4. QED BY <2>1, <2>2, <2>3 DEF GateInv
<1>10. ActiveInv'
  <2>1. \A n \in Nodes : pc'[n] = "exited" BY <1>2, <1>3 DEF AllExited
  <2>2. pc'[Coordinator] \in {"finishing", "aborting"} => Order[hook'] \in active_nodes'
    BY <1>2 DEF CoordinatorStep, Collect, BeginFinishing, EnterHook, FinishOk, FinishFails,
         FailGraphInFinish, SealSuccess, BeginAborting, AbortSkip, AbortEnter, AbortReturns,
         AbortLoopDone, ReleaseResources, PublishSuccess, PublishAbort, Goto
  <2>3. QED BY <2>1, <2>2 DEF ActiveInv
<1>11. CoordinatorInv'
  <2>0. AllExited' BY <1>2, <1>3 DEF AllExited
  <2>1. CASE Collect \/ BeginFinishing
    BY <1>0, <1>2, <1>3, <2>0, <2>1
       DEF Collect, BeginFinishing, CoordinatorInv, CoordinatorAssertionsHold, Collecting, Goto,
           control, shared
  <2>2. CASE FinishOk \/ FinishFails \/ AbortReturns \/ AbortSkip \/ AbortLoopDone \/ BeginAborting
    BY <1>0, <1>2, <1>3, <2>0, <2>2
       DEF FinishOk, FinishFails, AbortReturns, AbortSkip, AbortLoopDone, BeginAborting,
           CoordinatorInv, CoordinatorAssertionsHold, Collecting, Goto, control, shared
  <2>3. CASE EnterHook("finish", "finishing") \/ AbortEnter
    BY <1>0, <1>2, <1>3, <2>0, <2>3
       DEF EnterHook, AbortEnter, CoordinatorInv, CoordinatorAssertionsHold, Collecting, Goto,
           shared
  <2>4. CASE FailGraphInFinish
    BY <1>0, <1>2, <1>3, <1>5, <2>0, <2>4
       DEF FailGraphInFinish, CoordinatorInv, CoordinatorAssertionsHold, Collecting, Goto, shared
  <2>5. CASE SealSuccess
    <3>1. success_sealed' <=> reason = None BY <1>3, <2>5 DEF SealSuccess
    <3>2. pc'[Coordinator] = IF success_sealed' THEN "release_ok" ELSE "begin_aborting"
      BY <1>2, <2>5 DEF SealSuccess, Goto
    <3>3. UNCHANGED <<reason, state, result, resources>> /\ pc[Coordinator] = "finish"
      BY <2>5 DEF SealSuccess, At, shared
    <3>4. QED BY <1>0, <1>3, <2>0, <3>1, <3>2, <3>3
              DEF CoordinatorInv, CoordinatorAssertionsHold, Collecting
  <2>6. CASE ReleaseResources \/ PublishSuccess \/ PublishAbort
    <3>1. reason # Success BY <1>1, Roles DEF DataOK
    <3>2. QED BY <1>0, <1>2, <1>3, <2>0, <2>6, <3>1
       DEF ReleaseResources, PublishSuccess, PublishAbort, CoordinatorInv,
           CoordinatorAssertionsHold, Collecting, Goto, control, shared
  <2>7. QED BY <2>1, <2>2, <2>3, <2>4, <2>5, <2>6 DEF CoordinatorStep
<1>12. FinishInv'
  <2>1. CASE Collect
    <3>1. ASSUME reason = None PROVE prepared = Nodes
      <4>1. \A n \in Nodes : pc[n] = "exited" BY <1>3 DEF AllExited
      <4>2. \A n \in Nodes : launch = "go" BY <1>0, <1>1, <1>3, <4>1 DEF LaunchInv, DataOK
      <4>3. \A n \in Nodes : n \in prepared BY <1>0, <3>1, <4>1, <4>2 DEF PreparedInv
      <4>4. prepared \subseteq Nodes BY <1>1 DEF DataOK
      <4>5. QED BY <4>3, <4>4
    <3>2. QED BY <1>0, <1>2, <1>3, <2>1, <3>1, Roles
              DEF Collect, FinishInv, Collecting, Goto, control, history
  <2>2. CASE BeginFinishing
    BY <1>0, <1>2, <1>3, <2>2, FinishOneMore, Roles
       DEF BeginFinishing, CoordinatorInv, FinishInv, Collecting, Goto, history
  <2>3. CASE FinishOk
    <3>1. pc[Coordinator] = "finishing" /\ pc'[Coordinator] = "finish" /\ hook' = hook - 1
          /\ UNCHANGED <<reason, result>> /\ finish_calls' = Append(finish_calls, Order[hook])
      BY <1>2, <2>3 DEF FinishOk, Goto
    <3>2. hook \in 1..Len(Order) BY <1>0, <1>1, <3>1 DEF TypeInv, DataOK
    <3>3. reason = None => finish_calls' = FinishedDownTo(hook - 1)
      BY <1>0, <3>1, <3>2, FinishOneMore DEF FinishInv
    <3>4. FinishedDownTo(hook)' = FinishedDownTo(hook - 1) BY <3>1 DEF FinishedDownTo
    <3>5. QED BY <1>0, <1>2, <1>3, <3>1, <3>3, <3>4, Roles DEF FinishInv, Collecting
  <2>4. CASE FinishFails
    BY <1>0, <1>2, <1>3, <2>4, Roles DEF FinishFails, FinishInv, Collecting, Goto
  <2>5. CASE FailGraphInFinish
    BY <1>0, <1>2, <1>3, <1>5, <2>5, Roles DEF FailGraphInFinish, FinishInv, Collecting, Goto
  <2>6. CASE EnterHook("finish", "finishing")
    <3>1. pc[Coordinator] = "finish" /\ pc'[Coordinator] = "finishing"
          /\ UNCHANGED <<hook, reason, result, finish_calls>>
      BY <1>2, <2>6 DEF EnterHook, Goto, history
    <3>2. FinishedDownTo(hook)' = FinishedDownTo(hook) BY <3>1 DEF FinishedDownTo
    <3>3. QED BY <1>0, <1>2, <1>3, <3>1, <3>2, Roles DEF FinishInv, Collecting
  <2>7. CASE SealSuccess
    <3>1. /\ pc[Coordinator] = "finish" /\ hook = 0
          /\ UNCHANGED <<reason, result, finish_calls>>
          /\ pc'[Coordinator] \in {"release_ok", "begin_aborting"}
          /\ pc'[Coordinator] = "release_ok" => reason = None
      BY <1>2, <2>7 DEF SealSuccess, At, Goto, history
    <3>2. QED BY <1>0, <1>2, <1>3, <3>1, FinishOneMore, Roles DEF FinishInv, Collecting
  <2>8. CASE BeginAborting \/ AbortSkip \/ AbortEnter \/ AbortReturns \/ AbortLoopDone
    BY <1>0, <1>2, <1>3, <2>8, Roles
       DEF BeginAborting, AbortSkip, AbortEnter, EnterHook, AbortReturns, AbortLoopDone, FinishInv,
           Collecting, Goto, control, history
  <2>9. CASE ReleaseResources \/ PublishSuccess \/ PublishAbort
    BY <1>0, <1>1, <1>2, <1>3, <2>9, Roles, SMTT(30)
       DEF ReleaseResources, PublishSuccess, PublishAbort, FinishInv, Reversed, Collecting, Goto,
           control, history, DataOK
  <2>10. QED BY <2>1, <2>2, <2>3, <2>4, <2>5, <2>6, <2>7, <2>8, <2>9 DEF CoordinatorStep
<1>13. AbortInv'
  <2>0. /\ hook \in 0..Len(Order) /\ prepared \subseteq Nodes /\ abort_calls \in Seq(Nodes)
        /\ PreparedAfter(hook)' = PreparedAfter(hook')
    BY <1>1, <1>2 DEF DataOK, PreparedAfter
  <2>1. CASE \/ Collect \/ BeginFinishing \/ EnterHook("finish", "finishing") \/ FinishOk
             \/ FinishFails \/ FailGraphInFinish \/ SealSuccess
    <3>1. /\ UNCHANGED <<result, abort_calls>>
          /\ pc[Coordinator] \in {"collect", "begin_finishing", "finish", "finishing",
                                  "fail_finish"}
          /\ pc'[Coordinator] \in {"begin_finishing", "finish", "finishing", "fail_finish",
                                   "begin_aborting", "release_ok"}
      BY <1>2, <2>1 DEF Collect, BeginFinishing, EnterHook, FinishOk, FinishFails,
                        FailGraphInFinish, SealSuccess, At, Goto, control, history
    <3>2. QED BY <1>0, <1>3, <3>1, Roles DEF AbortInv
  <2>2. CASE BeginAborting
    <3>1. /\ pc[Coordinator] = "begin_aborting" /\ pc'[Coordinator] = "abort"
          /\ hook' = Len(Order) /\ UNCHANGED <<result, abort_calls>>
      BY <1>2, <2>2 DEF BeginAborting, Goto, history
    <3>2. abort_calls = <<>> BY <1>0, <3>1 DEF AbortInv
    <3>3. ElementsOf(abort_calls') = {} /\ InReverseOrder(abort_calls)'
      BY <3>1, <3>2 DEF ElementsOf, InReverseOrder
    <3>4. PreparedAfter(hook') = {} BY <2>0, <3>1, PreparedAfterSteps
    <3>5. QED BY <1>3, <2>0, <3>1, <3>2, <3>3, <3>4, Roles DEF AbortInv
  <2>3. CASE AbortSkip
    <3>1. /\ pc[Coordinator] = "abort" /\ pc'[Coordinator] = "abort" /\ hook' = hook - 1
          /\ UNCHANGED <<result, abort_calls>> /\ hook > 0 /\ Order[hook] \notin prepared
      BY <1>2, <2>3 DEF AbortSkip, Goto, control, history
    <3>2. hook \in 1..Len(Order) BY <2>0, <3>1
    <3>3. PreparedAfter(hook') = PreparedAfter(hook)
      <4>1. {Order[hook]} \cap prepared = {} BY <3>1
      <4>2. PreparedAfter(hook - 1) = PreparedAfter(hook) \cup ({Order[hook]} \cap prepared)
        BY <2>0, <3>2, PreparedAfterSteps
      <4>3. QED BY <3>1, <4>1, <4>2, ZenonT(30)
    <3>4. InReverseOrder(abort_calls)' <=> InReverseOrder(abort_calls)
      BY <3>1 DEF InReverseOrder
    <3>5. QED BY <1>0, <1>3, <2>0, <3>1, <3>3, <3>4, Roles DEF AbortInv
  <2>4. CASE AbortEnter
    <3>1. /\ pc[Coordinator] = "abort" /\ pc'[Coordinator] = "aborting"
          /\ UNCHANGED <<hook, result, abort_calls>> /\ Order[hook] \in prepared
      BY <1>2, <2>4 DEF AbortEnter, EnterHook, Goto, history
    <3>2. InReverseOrder(abort_calls)' <=> InReverseOrder(abort_calls)
      BY <3>1 DEF InReverseOrder
    <3>3. QED BY <1>0, <1>2, <1>3, <2>0, <3>1, <3>2, Roles DEF AbortInv
  <2>5. CASE AbortReturns
    <3>1. /\ pc[Coordinator] = "aborting" /\ pc'[Coordinator] = "abort" /\ hook' = hook - 1
          /\ UNCHANGED result /\ abort_calls' = Append(abort_calls, Order[hook])
      BY <1>2, <2>5 DEF AbortReturns, Goto
    <3>2. hook \in 1..Len(Order) BY <1>0, <2>0, <3>1 DEF TypeInv
    <3>3. ElementsOf(abort_calls) = PreparedAfter(hook) /\ InReverseOrder(abort_calls)
          /\ Order[hook] \in prepared /\ Order[hook] \in Nodes
      BY <1>0, <2>0, <3>1 DEF AbortInv
    <3>4. PreparedAfter(hook') = PreparedAfter(hook) \cup {Order[hook]}
      BY <2>0, <3>1, <3>2, <3>3, PreparedAfterSteps
    <3>5. ElementsOf(abort_calls') = ElementsOf(abort_calls) \cup {Order[hook]}
      BY <2>0, <3>1, <3>3, AppendElements
    <3>6. \A x \in ElementsOf(abort_calls) : \E i \in DOMAIN Order : i > hook /\ Order[i] = x
      BY <3>3 DEF PreparedAfter
    <3>7. InReverseOrder(Append(abort_calls, Order[hook]))
      BY <2>0, <3>2, <3>3, <3>6, ReverseOneMore
    <3>8. InReverseOrder(abort_calls)' BY <3>1, <3>7 DEF InReverseOrder
    <3>9. ElementsOf(abort_calls)' = PreparedAfter(hook)'
      BY <2>0, <3>3, <3>4, <3>5
    <3>10. QED BY <1>3, <3>1, <3>8, <3>9, Roles DEF AbortInv
  <2>6. CASE AbortLoopDone
    <3>1. /\ pc[Coordinator] = "abort" /\ pc'[Coordinator] = "release_err" /\ hook = 0
          /\ UNCHANGED <<result, abort_calls>>
      BY <1>2, <2>6 DEF AbortLoopDone, Goto, control, history
    <3>2. ElementsOf(abort_calls) = prepared
      BY <1>0, <2>0, <3>1, PreparedAfterSteps DEF AbortInv
    <3>3. InReverseOrder(abort_calls)' BY <1>0, <3>1 DEF AbortInv, InReverseOrder
    <3>4. QED BY <1>2, <1>3, <3>1, <3>2, <3>3, Roles DEF AbortInv
  <2>7. CASE ReleaseResources \/ PublishSuccess \/ PublishAbort
    <3>1. /\ UNCHANGED abort_calls
          /\ pc[Coordinator] \in {"release_ok", "publish_ok"} =>
                pc'[Coordinator] \in {"publish_ok", "exited"} /\ result' \in {result, Success}
          /\ pc[Coordinator] \in {"release_err", "publish_err"} =>
                pc'[Coordinator] \in {"publish_err", "exited"} /\ result' \in {result, reason}
          /\ pc[Coordinator] \in {"release_ok", "publish_ok", "release_err", "publish_err"}
          /\ pc'[Coordinator] \in {"publish_ok", "publish_err", "exited"}
      BY <1>2, <2>7 DEF ReleaseResources, PublishSuccess, PublishAbort, Goto, control, history
    <3>2. InReverseOrder(abort_calls)' <=> InReverseOrder(abort_calls)
      BY <3>1 DEF InReverseOrder
    <3>3. reason # Success BY <1>1, Roles DEF DataOK
    <3>4. QED BY <1>0, <1>2, <1>3, <3>1, <3>2, <3>3, Roles DEF AbortInv
  <2>8. QED BY <2>1, <2>2, <2>3, <2>4, <2>5, <2>6, <2>7 DEF CoordinatorStep
<1>14. QED BY <1>1, <1>6, <1>7, <1>8, <1>9, <1>10, <1>11, <1>12, <1>13 DEF LifeInv, HookInv

----------------------------------------------------------------------------
(* The theorems.                                                           *)

LEMMA LifeNext == ASSUME LifeInv, [Next]_vars PROVE LifeInv'
<1>1. CASE StartStep
  BY <1>1, SpawnSteps, StartSteps DEF StartStep
<1>2. CASE \E n \in Nodes : WorkerStep(n) BY <1>2, WorkerSteps
<1>3. CASE \E e \in Edges : DispatcherStep(e) BY <1>3, DispatcherSteps
<1>4. CASE CoordinatorStep BY <1>4, CoordinatorSteps
<1>5. CASE \E s \in Stoppers : Stop(s) BY <1>5, StopStep
<1>6. CASE \E t \in Threads : ShutdownStep(t) BY <1>6, ShutdownSteps
<1>7. CASE UNCHANGED vars
  <2>1. /\ TypeInv' /\ LaunchInv' /\ CoordinatorInv' /\ StopInv' /\ ActiveInv'
        /\ PreparedInv'
    BY <1>7 DEF LifeInv, TypeInv, TypeOK, LaunchInv, CoordinatorInv, CoordinatorAssertionsHold,
         AllExited, StopInv, ActiveInv, PreparedInv, vars, control, gate, shared, history
  <2>2. GateInv'
    BY <1>7 DEF LifeInv, GateInv, GateShut, GateOpen, TokenInv, SourceInv, vars, control, gate,
         shared, history
  <2>3. HookInv'
    BY <1>7 DEF LifeInv, HookInv, FinishInv, AbortInv, PreparedAfter, FinishedDownTo,
         InReverseOrder, ElementsOf, vars, control, gate, shared, history
  <2>4. QED BY <2>1, <2>2, <2>3 DEF LifeInv
<1>8. QED BY <1>1, <1>2, <1>3, <1>4, <1>5, <1>6, <1>7 DEF Next

\* The inductive invariant holds in every reachable state.
THEOREM LifecycleInvariant == Spec => []LifeInv
BY LifeInit, LifeNext, PTL DEF Spec

\* However stops, failing callbacks and the finish phase race, begin_aborting
\* always finds a reason, publish_success never finds one, and stop returns true
\* exactly for the cancellation that the run ends with.
THEOREM OneOutcome == Spec => []OutcomeIsDecidedOnce
<1>1. ASSUME LifeInv PROVE OutcomeIsDecidedOnce
  <2>1. CoordinatorInv /\ StopInv BY <1>1 DEF LifeInv
  <2>2. StopTellsTheTruth
    <3>1. \A s \in Stoppers : s # None /\ s # Success BY Roles
    <3>2. QED BY <2>1, <3>1 DEF CoordinatorInv, StopInv, StopTellsTheTruth
  <2>3. QED BY <2>1, <2>2 DEF CoordinatorInv, OutcomeIsDecidedOnce
<1>2. QED BY <1>1, LifecycleInvariant, PTL

\* coordinate publishes Ok only after on_finish was called on every node in
\* reverse topological order, and an error only after on_abort was called once
\* on exactly the prepared nodes, in that order.
THEOREM OutcomeMatchesHooks == Spec => []HooksMatchOutcome
<1>1. ASSUME LifeInv PROVE HooksMatchOutcome
  <2>1. FinishInv /\ AbortInv BY <1>1 DEF LifeInv, HookInv
  <2>2. QED BY <2>1
            DEF FinishInv, AbortInv, HooksMatchOutcome, SuccessMeansFinished,
                AbortCoversPrepared, ElementsOf
<1>2. QED BY <1>1, LifecycleInvariant, PTL

\* A node is active while one of its callbacks runs, hooks overlap no worker,
\* resources outlive every callback, sources wait for the preparation of the
\* whole graph unless a stop came first, and a start that fails runs nothing.
THEOREM CallbacksAccounted == Spec => []CallbacksAreAccountedFor
<1>1. ASSUME LifeInv PROVE CallbacksAreAccountedFor
  <2>0. TypeInv /\ LaunchInv /\ CoordinatorInv /\ ActiveInv /\ GateInv
    BY <1>1 DEF LifeInv
  <2>1. TypeOK BY <2>0 DEF TypeInv
  <2>2. TimeoutReportsExecuting
    BY <2>0 DEF ActiveInv, TimeoutReportsExecuting, Executing, HookRunning
  <2>3. CallbacksDoNotOverlap
    <3>1. HookRunning # {} => AllExited
      BY <2>0 DEF CoordinatorInv, HookRunning, Collecting
    <3>2. ASSUME resources = "released" PROVE Executing = {}
      <4>1. pc[Coordinator] \in {"publish_ok", "publish_err", "exited"} /\ AllExited
        BY <2>0, <3>2 DEF CoordinatorInv, Collecting
      <4>2. QED BY <4>1 DEF Executing, HookRunning, AllExited
    <3>3. QED BY <3>1, <3>2 DEF CallbacksDoNotOverlap
  <2>4. SourcesWaitUnlessStopped BY <2>0 DEF GateInv, SourceInv, SourcesWaitUnlessStopped
  <2>5. FailedStartIsClean
    BY <2>0 DEF LaunchInv, CoordinatorInv, FailedStartIsClean
  <2>6. QED BY <2>1, <2>2, <2>3, <2>4, <2>5 DEF CallbacksAreAccountedFor
<1>2. QED BY <1>1, LifecycleInvariant, PTL
=============================================================================
