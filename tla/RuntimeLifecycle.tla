-------------------------- MODULE RuntimeLifecycle --------------------------
(***************************************************************************)
(* Start, stop, failure and completion of one graph run: the threads that  *)
(* ConcurrentRuntime::start_with_spawner creates and the RuntimeControl    *)
(* they share (crates/muxiva-core/src/concurrent.rs).                      *)
(*                                                                         *)
(*   start        the thread inside start_with_spawner                     *)
(*   Nodes        node workers: prepare, gate, process, leave              *)
(*   Edges        edge dispatchers, one between two workers                *)
(*   Coordinator  collects the exits, then finishes or aborts every node   *)
(*   Stoppers     threads that call GraphRuntime::stop once                *)
(*                                                                         *)
(* One action is one critical section or one callback.  What flows on the  *)
(* Edges is modelled in EdgeQueue and EdgeRouting; here an Edge is open or *)
(* closed and a callback succeeds or fails.                                *)
(***************************************************************************)
EXTENDS Integers, Sequences, FiniteSets

CONSTANTS
    Nodes, Edges,       \* the graph
    From, To,           \* From[e], To[e]: the two ends of Edge e
    Order,              \* GraphDefinition::topological_order
    Sources,            \* nodes of NodeKind::Source
    Stoppers, Coordinator,
    None, Success       \* "no reason / no result" and the result Ok(summary)

Threads == Nodes \cup Edges \cup Stoppers \cup {Coordinator}

ASSUME GraphAssumption ==
    /\ IsFiniteSet(Nodes) /\ From \in [Edges -> Nodes] /\ To \in [Edges -> Nodes]
    /\ Sources \subseteq Nodes
    /\ Order \in Seq(Nodes)
    /\ \A n \in Nodes : \E i \in DOMAIN Order : Order[i] = n
    /\ \A i, j \in DOMAIN Order : Order[i] = Order[j] => i = j
    /\ \A e \in Edges : \A i, j \in DOMAIN Order :
          Order[i] = From[e] /\ Order[j] = To[e] => i < j
ASSUME DistinctAssumption ==
    /\ None \notin Threads \cup {Success} /\ Success \notin Threads
    /\ Nodes \cap Edges = {} /\ Nodes \cap Stoppers = {} /\ Edges \cap Stoppers = {}
    /\ Coordinator \notin Nodes \cup Edges \cup Stoppers

VARIABLES
    start,           \* where start_with_spawner stands; "ok" / "err" once it returned
    launch,          \* LaunchGate: "none", "go" or "cancel"
    pc,              \* where every other thread stands
    shutting,        \* shutting[t]: the next step of t's fail_graph / stop body
    state,           \* ControlState.state
    reason,          \* ControlState.reason: the thread that installed it
    success_sealed, result, active_nodes,
    remaining, released,      \* PrepareGate
    cancelled,       \* StopToken
    open,            \* Edges whose queues are not closed
    bus_stopped, resources,   \* NotificationBus and ResourceStore admission
    prepared,        \* nodes whose on_prepare returned Ok
    next_tick,       \* nodes with a scheduled tick
    hook,            \* index into Order of the coordinator's current node
    processed,       \* history: nodes whose on_process was called
    finish_calls, abort_calls \* history: nodes in the order of their hooks

control == <<state, reason, success_sealed, result, active_nodes>>
gate    == <<remaining, released>>
shared  == <<cancelled, open, bus_stopped, resources>>
history == <<processed, finish_calls, abort_calls>>
vars == <<start, launch, pc, shutting, control, gate, shared, prepared,
          next_tick, hook, history>>

ConcurrentRuntimeState == {"Starting", "Running", "Stopping", "Finishing",
                           "Aborting", "Finished", "Aborted"}

Init ==
    /\ start = "spawning" /\ launch = "none"
    /\ pc = [t \in Threads |-> IF t \in Stoppers THEN "idle" ELSE "unspawned"]
    /\ shutting = [t \in Threads |-> "no"]
    /\ state = "Starting" /\ reason = None /\ success_sealed = FALSE
    /\ result = None /\ active_nodes = Nodes
    /\ remaining = Cardinality(Nodes) /\ released = (Nodes = {})
    /\ cancelled = FALSE /\ open = Edges
    /\ bus_stopped = FALSE /\ resources = "open"
    /\ prepared = {} /\ next_tick = {} /\ hook = 0
    /\ processed = {} /\ finish_calls = <<>> /\ abort_calls = <<>>

Goto(t, label) == pc' = [pc EXCEPT ![t] = label]
At(t, label)   == pc[t] = label /\ shutting[t] = "no"

----------------------------------------------------------------------------
(* fail_graph and GraphRuntime::stop                                       *)

AbortAccepted == reason = None /\ ~success_sealed /\ result = None

\* RuntimeControl::request_abort; the caller that is accepted goes on to
\* cancel, seal and close, the others return at once.
RequestAbort(t) ==
    \/ /\ AbortAccepted
       /\ reason' = t
       /\ state' = IF state = "Finishing" THEN "Aborting" ELSE "Stopping"
       /\ shutting' = [shutting EXCEPT ![t] = "cancel"]
    \/ /\ ~AbortAccepted
       /\ UNCHANGED <<reason, state, shutting>>

\* stop.cancel()
ShutdownCancel(t) ==
    /\ shutting[t] = "cancel"
    /\ cancelled' = TRUE
    /\ shutting' = [shutting EXCEPT ![t] = "seal"]
    /\ UNCHANGED <<start, launch, pc, control, gate, open, bus_stopped,
                   resources, prepared, next_tick, hook, history>>

\* notification_bus.request_stop() and resources.seal()
ShutdownSeal(t) ==
    /\ shutting[t] = "seal"
    /\ bus_stopped' = TRUE
    /\ resources' = IF resources = "open" THEN "sealed" ELSE resources
    /\ shutting' = [shutting EXCEPT ![t] = "close"]
    /\ UNCHANGED <<start, launch, pc, control, gate, cancelled, open, prepared,
                   next_tick, hook, history>>

\* close_all and close_all_signals, one Edge at a time.
ShutdownClose(t) ==
    /\ shutting[t] = "close"
    /\ \/ \E e \in open : open' = open \ {e} /\ UNCHANGED shutting
       \/ /\ open = {}
          /\ shutting' = [shutting EXCEPT ![t] = "no"]
          /\ UNCHANGED open
    /\ UNCHANGED <<start, launch, pc, control, gate, cancelled, bus_stopped,
                   resources, prepared, next_tick, hook, history>>

ShutdownStep(t) == ShutdownCancel(t) \/ ShutdownSeal(t) \/ ShutdownClose(t)

\* GraphRuntime::stop; its return value is the label.
Stop(s) ==
    /\ pc[s] = "idle" /\ start = "ok"
    /\ RequestAbort(s)
    /\ Goto(s, IF AbortAccepted THEN "first" ELSE "refused")
    /\ UNCHANGED <<start, launch, success_sealed, result, active_nodes, gate,
                   shared, prepared, next_tick, hook, history>>

----------------------------------------------------------------------------
(* start_with_spawner                                                      *)

\* Dispatchers are spawned before workers, workers before the coordinator.
NextToSpawn ==
    LET waiting(S) == {t \in S : pc[t] = "unspawned"}
    IN IF waiting(Edges) # {} THEN waiting(Edges)
       ELSE IF waiting(Nodes) # {} THEN waiting(Nodes)
       ELSE waiting({Coordinator})

Spawn(t) ==
    /\ start = "spawning" /\ t \in NextToSpawn
    /\ Goto(t, IF t = Coordinator THEN "collect" ELSE "launch")
    /\ UNCHANGED <<start, launch, shutting, control, gate, shared, prepared,
                   next_tick, hook, history>>

Release ==
    /\ start = "spawning" /\ NextToSpawn = {}
    /\ launch' = "go" /\ start' = "ok"
    /\ UNCHANGED <<pc, shutting, control, gate, shared, prepared, next_tick,
                   hook, history>>

\* The spawner fails: cleanup_failed_start cancels the launch ...
SpawnFails ==
    /\ start = "spawning" /\ NextToSpawn # {}
    /\ launch' = "cancel" /\ start' = "cleanup"
    /\ UNCHANGED <<pc, shutting, control, gate, shared, prepared, next_tick,
                   hook, history>>

\* ... cancels the token and closes every queue ...
CleanupClose ==
    /\ start = "cleanup"
    /\ cancelled' = TRUE /\ open' = {} /\ start' = "join"
    /\ UNCHANGED <<launch, pc, shutting, control, gate, bus_stopped, resources,
                   prepared, next_tick, hook, history>>

\* ... and joins the threads spawned so far.
CleanupJoin ==
    /\ start = "join"
    /\ \A t \in Nodes \cup Edges : pc[t] \in {"unspawned", "exited"}
    /\ start' = "err"
    /\ UNCHANGED <<launch, pc, shutting, control, gate, shared, prepared,
                   next_tick, hook, history>>

----------------------------------------------------------------------------
(* NodeWorker::run                                                         *)

\* LaunchGate::wait, for workers and dispatchers.
Launched(t, label) ==
    /\ pc[t] = "launch" /\ launch # "none"
    /\ Goto(t, IF launch = "go" THEN label ELSE "exited")
    /\ UNCHANGED <<start, launch, shutting, control, gate, shared, prepared,
                   next_tick, hook, history>>

\* on_prepare returned; an error is reported before the gate is reached.
Prepare(n) ==
    /\ At(n, "prepare")
    /\ Goto(n, "arrive")
    /\ \/ /\ prepared' = prepared \cup {n}
          /\ UNCHANGED <<reason, state, shutting>>
       \/ RequestAbort(n) /\ UNCHANGED prepared
    /\ UNCHANGED <<start, launch, success_sealed, result, active_nodes, gate,
                   shared, next_tick, hook, history>>

\* PrepareGate::arrive_and_wait: arrive ...
Arrive(n) ==
    /\ At(n, "arrive")
    /\ remaining' = IF remaining = 0 THEN 0 ELSE remaining - 1
    /\ released' = (released \/ remaining' = 0)
    /\ Goto(n, "gate")
    /\ UNCHANGED <<start, launch, shutting, control, shared, prepared,
                   next_tick, hook, history>>

\* ... wait, and then read the token.
PassGate(n) ==
    /\ pc[n] = "gate" /\ released
    /\ Goto(n, IF cancelled THEN "decide" ELSE "mark")
    /\ UNCHANGED <<start, launch, shutting, control, gate, shared, prepared,
                   next_tick, hook, history>>

MarkRunning(n) ==
    /\ pc[n] = "mark"
    /\ state' = IF state = "Starting" /\ reason = None THEN "Running" ELSE state
    /\ Goto(n, "decide")
    /\ UNCHANGED <<start, launch, shutting, reason, success_sealed, result,
                   active_nodes, gate, shared, prepared, next_tick, hook, history>>

Decide(n) ==
    /\ pc[n] = "decide"
    /\ Goto(n, IF n \in prepared /\ (n \notin Sources \/ ~cancelled)
               THEN "run" ELSE "leave")
    /\ UNCHANGED <<start, launch, shutting, control, gate, shared, prepared,
                   next_tick, hook, history>>

Inputs(n) == {e \in Edges : To[e] = n}

\* A consumer is called with a frame or Signal from upstream, or for a tick.
HasWork(n) ==
    \/ n \in Sources \/ n \in next_tick
    \/ \E e \in Inputs(n) : From[e] \in processed

\* A callback returns Ok and is routed: it may schedule a tick.  A source
\* that schedules none leaves its loop.
Process(n) ==
    /\ pc[n] = "run" /\ HasWork(n)
    /\ processed' = processed \cup {n}
    /\ \/ /\ next_tick' = next_tick \cup {n}
          /\ Goto(n, IF n \in Sources THEN "tick" ELSE "run")
       \/ /\ next_tick' = next_tick \ {n}
          /\ Goto(n, IF n \in Sources THEN "leave" ELSE "run")
    /\ UNCHANGED <<start, launch, shutting, control, gate, shared, prepared,
                   hook, finish_calls, abort_calls>>

\* A callback, or routing what it emitted, fails.
ProcessFails(n) ==
    /\ pc[n] = "run" /\ HasWork(n)
    /\ processed' = processed \cup {n}
    /\ RequestAbort(n)
    /\ Goto(n, "leave")
    /\ UNCHANGED <<start, launch, success_sealed, result, active_nodes, gate,
                   shared, prepared, next_tick, hook, finish_calls, abort_calls>>

\* stop.wait_timeout(delay) in run_source.
SourceTick(n) ==
    /\ pc[n] = "tick"
    /\ Goto(n, IF cancelled THEN "leave" ELSE "run")
    /\ UNCHANGED <<start, launch, shutting, control, gate, shared, prepared,
                   next_tick, hook, history>>

\* Mutant: a consumer with a scheduled tick does not look at the token.
ConsumerDoneIgnoringStop(n) ==
    /\ pc[n] = "run" /\ n \notin Sources
    /\ Inputs(n) \cap open = {}
    /\ n \notin next_tick
    /\ Goto(n, "leave")
    /\ UNCHANGED <<start, launch, shutting, control, gate, shared, prepared,
                   next_tick, hook, history>>

\* run_consumer returns: every input closed and drained, no tick to wait for.
ConsumerDone(n) ==
    /\ pc[n] = "run" /\ n \notin Sources
    /\ Inputs(n) \cap open = {}
    /\ n \notin next_tick \/ cancelled
    /\ Goto(n, "leave")
    /\ UNCHANGED <<start, launch, shutting, control, gate, shared, prepared,
                   next_tick, hook, history>>

\* outgoing.clear() disconnects the dispatchers of the node's outputs.
DropSenders(n) ==
    /\ At(n, "leave")
    /\ Goto(n, "inactive")
    /\ UNCHANGED <<start, launch, shutting, control, gate, shared, prepared,
                   next_tick, hook, history>>

NodeInactive(n) ==
    /\ pc[n] = "inactive"
    /\ active_nodes' = active_nodes \ {n}
    /\ Goto(n, "exited")
    /\ UNCHANGED <<start, launch, shutting, state, reason, success_sealed,
                   result, gate, shared, prepared, next_tick, hook, history>>

WorkerStep(n) ==
    \/ Launched(n, "prepare") \/ Prepare(n) \/ Arrive(n) \/ PassGate(n)
    \/ MarkRunning(n) \/ Decide(n) \/ Process(n) \/ ProcessFails(n)
    \/ SourceTick(n) \/ ConsumerDone(n) \/ DropSenders(n) \/ NodeInactive(n)

----------------------------------------------------------------------------
(* run_dispatcher                                                          *)

SenderDropped(e) == pc[From[e]] \in {"inactive", "exited"}

\* The receiver loop ends when the producer dropped its sender ...
DispatcherDrained(e) ==
    /\ pc[e] = "dispatch" /\ SenderDropped(e)
    /\ Goto(e, "closing")
    /\ UNCHANGED <<start, launch, shutting, control, gate, shared, prepared,
                   next_tick, hook, history>>

\* ... or when apply_edge or apply_signal fails for something it was sent.
DispatcherFails(e) ==
    /\ pc[e] = "dispatch" /\ From[e] \in processed
    /\ RequestAbort(e)
    /\ Goto(e, "closing")
    /\ UNCHANGED <<start, launch, success_sealed, result, active_nodes, gate,
                   shared, prepared, next_tick, hook, history>>

DispatcherCloses(e) ==
    /\ At(e, "closing")
    /\ open' = open \ {e}
    /\ Goto(e, "exited")
    /\ UNCHANGED <<start, launch, shutting, control, gate, cancelled,
                   bus_stopped, resources, prepared, next_tick, hook, history>>

DispatcherStep(e) ==
    \/ Launched(e, "dispatch") \/ DispatcherDrained(e) \/ DispatcherFails(e)
    \/ DispatcherCloses(e)

----------------------------------------------------------------------------
(* coordinate                                                              *)

AllExited == \A t \in Nodes \cup Edges : pc[t] = "exited"

\* Mutant: resources are released before the lifecycle hooks.
CollectReleasing ==
    /\ pc[Coordinator] = "collect" /\ AllExited
    /\ resources' = "released"
    /\ Goto(Coordinator, IF reason = None THEN "begin_finishing" ELSE "begin_aborting")
    /\ UNCHANGED <<start, launch, shutting, control, gate, cancelled, open,
                   bus_stopped, prepared, next_tick, hook, history>>

\* Every exit was received and every thread joined; read the reason once.
Collect ==
    /\ pc[Coordinator] = "collect" /\ AllExited
    /\ Goto(Coordinator, IF reason = None THEN "begin_finishing" ELSE "begin_aborting")
    /\ UNCHANGED <<start, launch, shutting, control, gate, shared, prepared,
                   next_tick, hook, history>>

BeginFinishing ==
    /\ pc[Coordinator] = "begin_finishing"
    /\ LET proceed == reason = None /\ result = None
       IN /\ state' = IF proceed /\ state \in {"Starting", "Running"}
                      THEN "Finishing" ELSE state
          /\ hook' = IF proceed /\ state' = "Finishing" THEN Len(Order) ELSE hook
          /\ Goto(Coordinator, IF proceed /\ state' = "Finishing"
                               THEN "finish" ELSE "begin_aborting")
    /\ UNCHANGED <<start, launch, shutting, reason, success_sealed, result,
                   active_nodes, gate, shared, prepared, next_tick, history>>

\* lifecycle_enter, then the hook of node Order[hook] begins.
EnterHook(from, to) ==
    /\ pc[Coordinator] = from /\ hook > 0
    /\ active_nodes' = active_nodes \cup {Order[hook]}
    /\ Goto(Coordinator, to)
    /\ UNCHANGED <<start, launch, shutting, state, reason, success_sealed,
                   result, gate, shared, prepared, next_tick, hook, history>>

\* on_finish returns Ok: go on with the node before it.
FinishOk ==
    /\ pc[Coordinator] = "finishing"
    /\ finish_calls' = Append(finish_calls, Order[hook])
    /\ active_nodes' = active_nodes \ {Order[hook]}
    /\ hook' = hook - 1
    /\ Goto(Coordinator, "finish")
    /\ UNCHANGED <<start, launch, shutting, state, reason, success_sealed,
                   result, gate, shared, prepared, next_tick, processed,
                   abort_calls>>

\* on_finish fails: lifecycle_exit, then fail_graph, and leave the loop.
FinishFails ==
    /\ pc[Coordinator] = "finishing"
    /\ finish_calls' = Append(finish_calls, Order[hook])
    /\ active_nodes' = active_nodes \ {Order[hook]}
    /\ hook' = 0
    /\ Goto(Coordinator, "fail_finish")
    /\ UNCHANGED <<start, launch, shutting, state, reason, success_sealed,
                   result, gate, shared, prepared, next_tick, processed,
                   abort_calls>>

FailGraphInFinish ==
    /\ pc[Coordinator] = "fail_finish"
    /\ RequestAbort(Coordinator)
    /\ Goto(Coordinator, "finish")
    /\ UNCHANGED <<start, launch, success_sealed, result, active_nodes, gate,
                   shared, prepared, next_tick, hook, history>>

\* Mutant: success is sealed although a stop was accepted during on_finish.
SealSuccessUnchecked ==
    /\ At(Coordinator, "finish") /\ hook = 0
    /\ success_sealed' = TRUE
    /\ Goto(Coordinator, "release_ok")
    /\ UNCHANGED <<start, launch, shutting, state, reason, result,
                   active_nodes, gate, shared, prepared, next_tick, hook, history>>

SealSuccess ==
    /\ At(Coordinator, "finish") /\ hook = 0
    /\ success_sealed' = (reason = None /\ result = None)
    /\ Goto(Coordinator, IF success_sealed' THEN "release_ok" ELSE "begin_aborting")
    /\ UNCHANGED <<start, launch, shutting, state, reason, result,
                   active_nodes, gate, shared, prepared, next_tick, hook, history>>

BeginAborting ==
    /\ pc[Coordinator] = "begin_aborting"
    /\ state' = "Aborting" /\ hook' = Len(Order)
    /\ Goto(Coordinator, "abort")
    /\ UNCHANGED <<start, launch, shutting, reason, success_sealed, result,
                   active_nodes, gate, shared, prepared, next_tick, history>>

\* A node that never prepared has nothing to abort.
AbortSkip ==
    /\ pc[Coordinator] = "abort" /\ hook > 0 /\ Order[hook] \notin prepared
    /\ hook' = hook - 1
    /\ UNCHANGED <<start, launch, pc, shutting, control, gate, shared, prepared,
                   next_tick, history>>

\* Mutant: on_abort is called only on nodes that processed something.
AbortEnterProcessedOnly ==
    \/ hook > 0 /\ Order[hook] \in processed /\ EnterHook("abort", "aborting")
    \/ /\ pc[Coordinator] = "abort" /\ hook > 0 /\ Order[hook] \notin processed
       /\ hook' = hook - 1
       /\ UNCHANGED <<start, launch, pc, shutting, control, gate, shared,
                      prepared, next_tick, history>>

AbortEnter == hook > 0 /\ Order[hook] \in prepared /\ EnterHook("abort", "aborting")

\* on_abort returned or panicked; a panic is only a diagnostic.
AbortReturns ==
    /\ pc[Coordinator] = "aborting"
    /\ abort_calls' = Append(abort_calls, Order[hook])
    /\ active_nodes' = active_nodes \ {Order[hook]}
    /\ hook' = hook - 1
    /\ Goto(Coordinator, "abort")
    /\ UNCHANGED <<start, launch, shutting, state, reason, success_sealed,
                   result, gate, shared, prepared, next_tick, processed,
                   finish_calls>>

AbortLoopDone ==
    /\ pc[Coordinator] = "abort" /\ hook = 0
    /\ Goto(Coordinator, "release_err")
    /\ UNCHANGED <<start, launch, shutting, control, gate, shared, prepared,
                   next_tick, hook, history>>

\* drop(nodes), drop(resources), notification_bus.stop, resources.stop
ReleaseResources ==
    /\ pc[Coordinator] \in {"release_ok", "release_err"}
    /\ bus_stopped' = TRUE /\ resources' = "released"
    /\ Goto(Coordinator, IF pc[Coordinator] = "release_ok"
                         THEN "publish_ok" ELSE "publish_err")
    /\ UNCHANGED <<start, launch, shutting, control, gate, cancelled, open,
                   prepared, next_tick, hook, history>>

PublishSuccess ==
    /\ pc[Coordinator] = "publish_ok"
    /\ state' = "Finished" /\ result' = Success
    /\ Goto(Coordinator, "exited")
    /\ UNCHANGED <<start, launch, shutting, reason, success_sealed,
                   active_nodes, gate, shared, prepared, next_tick, hook, history>>

PublishAbort ==
    /\ pc[Coordinator] = "publish_err"
    /\ state' = "Aborted" /\ result' = reason
    /\ Goto(Coordinator, "exited")
    /\ UNCHANGED <<start, launch, shutting, reason, success_sealed,
                   active_nodes, gate, shared, prepared, next_tick, hook, history>>

CoordinatorStep ==
    \/ Collect \/ BeginFinishing
    \/ shutting[Coordinator] = "no" /\ EnterHook("finish", "finishing")
    \/ FinishOk \/ FinishFails \/ FailGraphInFinish \/ SealSuccess
    \/ BeginAborting \/ AbortSkip \/ AbortEnter \/ AbortReturns \/ AbortLoopDone
    \/ ReleaseResources \/ PublishSuccess \/ PublishAbort

----------------------------------------------------------------------------

StartStep == (\E t \in NextToSpawn : Spawn(t)) \/ Release \/ SpawnFails
             \/ CleanupClose \/ CleanupJoin

Next ==
    \/ StartStep
    \/ \E n \in Nodes : WorkerStep(n)
    \/ \E e \in Edges : DispatcherStep(e)
    \/ CoordinatorStep
    \/ \E s \in Stoppers : Stop(s)
    \/ \E t \in Threads : ShutdownStep(t)

\* Every thread is scheduled and callbacks return; nobody has to call stop,
\* and a consumer is not obliged to be called.  A consumer with a due tick runs
\* it before it looks at its inputs, so that it leaves its loop is asked only
\* of ticks that are not always due (a positive delay): strong fairness.
Fairness ==
    /\ WF_vars(StartStep)
    /\ \A n \in Nodes :
          /\ WF_vars(WorkerStep(n) /\ (n \in Sources \/ pc[n] # "run"))
          /\ SF_vars(ConsumerDone(n))
    /\ \A e \in Edges : WF_vars(DispatcherDrained(e) \/ DispatcherCloses(e)
                                \/ Launched(e, "dispatch"))
    /\ WF_vars(CoordinatorStep)
    /\ \A t \in Threads : WF_vars(ShutdownStep(t))

Spec     == Init /\ [][Next]_vars
FairSpec == Spec /\ Fairness
----------------------------------------------------------------------------
(* Properties                                                              *)

WorkerPC == {"unspawned", "launch", "prepare", "arrive", "gate", "mark", "decide",
             "run", "tick", "leave", "inactive", "exited"}
DispatcherPC == {"unspawned", "launch", "dispatch", "closing", "exited"}
CoordinatorPC == {"unspawned", "collect", "begin_finishing", "finish", "finishing",
                  "fail_finish", "begin_aborting", "abort", "aborting", "release_ok",
                  "release_err", "publish_ok", "publish_err", "exited"}

\* ControlState, the gates and the threads keep their types; the prepare gate
\* counts every worker off exactly once.
TypeOK ==
    /\ start \in {"spawning", "cleanup", "join", "ok", "err"}
    /\ launch \in {"none", "go", "cancel"}
    /\ DOMAIN pc = Threads
    /\ \A n \in Nodes : pc[n] \in WorkerPC
    /\ \A e \in Edges : pc[e] \in DispatcherPC
    /\ \A s \in Stoppers : pc[s] \in {"idle", "first", "refused"}
    /\ pc[Coordinator] \in CoordinatorPC
    /\ shutting \in [Threads -> {"no", "cancel", "seal", "close"}]
    /\ state \in ConcurrentRuntimeState
    /\ reason \in Threads \cup {None} /\ result \in Threads \cup {None, Success}
    /\ success_sealed \in BOOLEAN /\ active_nodes \subseteq Nodes
    /\ remaining = Cardinality({n \in Nodes : pc[n] \in
                       {"unspawned", "launch", "prepare", "arrive"}})
       \/ launch = "cancel"
    /\ released \in BOOLEAN /\ cancelled \in BOOLEAN /\ open \subseteq Edges
    /\ bus_stopped \in BOOLEAN /\ resources \in {"open", "sealed", "released"}
    /\ prepared \subseteq Nodes /\ next_tick \subseteq Nodes
    /\ hook \in 0..Len(Order) /\ processed \subseteq Nodes
    /\ finish_calls \in Seq(Nodes) /\ abort_calls \in Seq(Nodes)

\* begin_aborting expects "abort reason installed" (concurrent.rs:891), and
\* publish_success asserts a seal without a reason (concurrent.rs:882): the
\* coordinator read the reason earlier and without holding the lock since.
CoordinatorAssertionsHold ==
    /\ pc[Coordinator] \in {"begin_aborting", "abort", "aborting",
                            "release_err", "publish_err"} => reason # None
    /\ pc[Coordinator] \in {"release_ok", "publish_ok"} =>
          success_sealed /\ reason = None

Reversed == [i \in 1..Len(Order) |-> Order[Len(Order) + 1 - i]]

\* A success is reported only for a run in which every node was prepared and
\* finished, in reverse topological order, and none was aborted.
SuccessMeansFinished ==
    result = Success =>
        /\ prepared = Nodes /\ finish_calls = Reversed /\ abort_calls = <<>>

\* Every node of s stands after the next one in the topological order, so none
\* occurs twice.
InReverseOrder(s) ==
    \A i, j \in DOMAIN s : i < j =>
        \A a, b \in DOMAIN Order : Order[a] = s[i] /\ Order[b] = s[j] => a > b

\* An aborted run has called on_abort exactly once on every prepared node, in
\* reverse topological order, and on no other node.
AbortCoversPrepared ==
    result \in Threads =>
        /\ {abort_calls[i] : i \in DOMAIN abort_calls} = prepared
        /\ InReverseOrder(abort_calls)

\* stop returns true only if the run ends with that cancellation, however it
\* races node errors, other stops and the coordinator's finish phase.
StopTellsTheTruth ==
    \A s \in Stoppers :
        /\ pc[s] = "first" => reason = s /\ result \in {None, s}
        /\ result = s => pc[s] = "first"

\* However stops, node errors and the finish phase race, the run's outcome is
\* decided once: nobody is told another one than the run then publishes.
OutcomeIsDecidedOnce == CoordinatorAssertionsHold /\ StopTellsTheTruth

\* The hooks a run has called are those its published outcome calls for.
HooksMatchOutcome == SuccessMeansFinished /\ AbortCoversPrepared

HookRunning == IF pc[Coordinator] \in {"finishing", "aborting"}
               THEN {Order[hook]} ELSE {}
Executing == HookRunning \cup
             {n \in Nodes : pc[n] \in {"prepare", "run", "tick"}}

\* "A timeout never hides live workers" (concurrent.rs:754): a node inside one
\* of its callbacks is among the active nodes a timed-out wait reports.
TimeoutReportsExecuting == Executing \subseteq active_nodes

\* No callback of a node overlaps another one, and resources are released
\* after every callback.
CallbacksDoNotOverlap ==
    /\ HookRunning # {} => AllExited
    /\ Executing # {} => resources # "released"

\* A source is called only if every node was prepared; an external stop that
\* was accepted first is the one exception (see SourcesWaitForPreparation).
SourcesWaitUnlessStopped ==
    processed \cap Sources # {} => prepared = Nodes \/ reason \in Stoppers

\* "Sources cannot produce until every Node has completed prepare
\* successfully" (docs/design/05-concurrent-runtime-and-flow-control.md:141).
SourcesWaitForPreparation ==
    processed \cap Sources # {} => prepared = Nodes

\* A start that fails has run no callback and left no thread behind.
FailedStartIsClean ==
    /\ launch = "cancel" => prepared = {} /\ processed = {} /\ result = None
    /\ start = "err" => \A t \in Nodes \cup Edges : pc[t] \in {"unspawned", "exited"}

\* Callbacks run one at a time, in prepared graphs, between the gate and the
\* release of the resources, and never unknown to a wait that times out.
CallbacksAreAccountedFor ==
    /\ TypeOK /\ TimeoutReportsExecuting /\ CallbacksDoNotOverlap
    /\ SourcesWaitUnlessStopped /\ FailedStartIsClean

\* An accepted stop or failure always ends in a published abort.
AbortIsPublished == reason # None ~> result # None

\* A graph whose nodes cease to schedule ticks always ends: end of stream
\* passes from the sources through every dispatcher and worker.
QuietGraphEnds ==
    <>[](next_tick = {}) => <>(result # None \/ start = "err")

\* Every run ends that was stopped, has failed or has nothing left to do.
EveryRunEnds == AbortIsPublished /\ QuietGraphEnds
=============================================================================
