---------------------------- MODULE GraphCallbacks ----------------------------
(***************************************************************************)
(* A whole graph whose Nodes live in one JavaScript Worker                 *)
(* (crates/muxiva-node/src/graph.rs, RunRegisteredGraphTask): every Node   *)
(* instance is called by its own graph worker through one queue of         *)
(* callbacks, and waits for the answer on a channel made for that call.    *)
(* ForeignNodeAdapter (crates/muxiva-core/src/foreign_registry.rs) applies *)
(* the answer to the Node's context.                                       *)
(*                                                                         *)
(* What the concurrent runtime does with an instance is taken from         *)
(* RuntimeLifecycle: prepare, then process, then finish, or abort as soon  *)
(* as any call of any instance has failed.                                 *)
(***************************************************************************)
EXTENDS ForeignDriver

CONSTANTS
    Instances,      \* Node instances of the graph
    CallbackQueue,  \* CALLBACK_QUEUE_CAPACITY
    MaxProcess      \* bound: process calls of one instance

VARIABLES
    inst,       \* [phase, call, done]: what the graph worker of each instance does
    slot,       \* what the channel of the current call holds: at most one answer
    queue,      \* callbacks that wait for the JavaScript thread
    js,         \* "idle", or "hung" in a hook that never returns
    task,       \* compute: "running", "aborting" or "timed_out", then its result
    hooks,      \* history: hooks that ran, per instance, in order
    stale,      \* history: an answer was taken by a later call
    applied     \* history: calls whose output reached the Node's context

graphVars == <<inst, slot, queue, js, task, hooks, stale, applied>>

Terminal == {"finish", "abort"}
Numbered(i) == [inst |-> i, kind |-> inst[i].phase, no |-> inst[i].call]

GraphDriverInit == host = "graph" /\ driver = NewDriver("Strict", 1)

GraphHostInit ==
    /\ inst = [i \in Instances |-> [phase |-> "idle", call |-> 0, last |-> "new"]]
    /\ slot = [i \in Instances |-> <<>>]
    /\ queue = <<>> /\ js = "idle" /\ task = "running"
    /\ hooks = [i \in Instances |-> <<>>]
    /\ stale = FALSE /\ applied = {}

----------------------------------------------------------------------------
(* TypeScriptInstance::invoke, on the graph worker of instance i           *)

\* Which hook the runtime calls next.
Due(i) ==
    LET last == inst[i].last IN
    IF task # "running" \/ last = "failed"
    THEN IF last \in {"new", "ended"} THEN {} ELSE {"abort"}
    ELSE CASE last = "new" -> {"prepare"}
           [] last = "ready" -> {"finish"} \cup (IF inst[i].call <= MaxProcess
                                                 THEN {"process"} ELSE {})
           [] OTHER -> {}

\* Only a Node that was prepared is aborted.
Failed(i, kind) ==
    /\ inst' = [inst EXCEPT ![i].phase = "idle",
                            ![i].last = IF kind \in {"prepare", "abort"} THEN "ended"
                                        ELSE "failed"]
    /\ task' = IF task = "running" THEN "aborting" ELSE task

\* A fresh channel and a place in the queue; a full queue is an error.
InvokeCallback(i) ==
    /\ inst[i].phase = "idle" /\ task # "finished"
    /\ \E kind \in Due(i) :
         \/ /\ Len(queue) < CallbackQueue
            /\ inst' = [inst EXCEPT ![i].phase = kind, ![i].call = @ + 1]
            /\ queue' = Append(queue, [inst |-> i, kind |-> kind, no |-> inst[i].call + 1])
            /\ slot' = [slot EXCEPT ![i] = <<>>]
            /\ UNCHANGED task
         \/ /\ Len(queue) = CallbackQueue
            /\ Failed(i, kind)
            /\ UNCHANGED <<queue, slot>>
    /\ UNCHANGED <<js, hooks, stale, applied>>

\* The answer is decoded as a whole: an undeclared port, a bad frame or a
\* control action of a source fails the call and none of its output is applied.
TakeAnswer(i) ==
    /\ inst[i].phase # "idle" /\ slot[i] # <<>>
    /\ stale' = (stale \/ slot[i][1].no # inst[i].call)
    /\ \/ /\ slot[i][1].result = "ok"
          /\ applied' = applied \cup {Numbered(i)}
          /\ inst' = [inst EXCEPT ![i].phase = "idle",
                        ![i].last = IF inst[i].phase \in Terminal THEN "ended" ELSE "ready"]
          /\ UNCHANGED task
       \/ /\ slot[i][1].result # "ok"
          /\ Failed(i, inst[i].phase)
          /\ UNCHANGED applied
    /\ slot' = [slot EXCEPT ![i] = <<>>]
    /\ UNCHANGED <<queue, js, hooks>>

\* recv_timeout(CALLBACK_TIMEOUT) gives up; the callback stays queued.
TimesOut(i) ==
    /\ inst[i].phase # "idle" /\ slot[i] = <<>>
    /\ Failed(i, inst[i].phase)
    /\ UNCHANGED <<slot, queue, js, hooks, stale, applied>>

----------------------------------------------------------------------------
(* The Worker's JavaScript thread: dispatch of graph-worker.mjs            *)

\* The response envelope: emissions and actions that decode, or do not, or the
\* hook threw.
CallbackResult == {"ok", "undecodable", "throws"}


\* The answer goes to the channel of its call; nobody listens after a timeout.
Hook ==
    /\ js = "idle" /\ queue # <<>>
    /\ LET c == Head(queue) IN
         /\ hooks' = [hooks EXCEPT ![c.inst] = Append(@, c.kind)]
         /\ \/ /\ js' = "hung"
               /\ UNCHANGED slot
            \/ \E result \in CallbackResult :
                 /\ slot' = IF inst[c.inst].phase # "idle" /\ inst[c.inst].call = c.no
                            THEN [slot EXCEPT ![c.inst] = <<[no |-> c.no, result |-> result]>>]
                            ELSE slot
                 /\ UNCHANGED js
    /\ queue' = Tail(queue)
    /\ UNCHANGED <<inst, task, stale, applied>>

----------------------------------------------------------------------------
(* RunRegisteredGraphTask::compute: wait, and stop when the time is over   *)

Waited ==
    /\ task = "running"
    /\ \/ /\ \A i \in Instances : inst[i].last = "ended"
          /\ task' = "finished"
       \/ task' = "timed_out"
    /\ UNCHANGED <<inst, slot, queue, js, hooks, stale, applied>>

\* wait reports an abort when the runtime has ended; the second wait, after a
\* timeout and stop, lasts five seconds at most.
StopWaited ==
    /\ \/ task = "timed_out"
       \/ /\ task = "aborting"
          /\ \A i \in Instances : inst[i].last \in {"new", "ended"} /\ inst[i].phase = "idle"
    /\ task' = "failed"
    /\ UNCHANGED <<inst, slot, queue, js, hooks, stale, applied>>

----------------------------------------------------------------------------

GraphStep(i) == InvokeCallback(i) \/ TakeAnswer(i) \/ TimesOut(i)
GraphNext ==
    /\ host = "graph"
    /\ (\E i \in Instances : GraphStep(i)) \/ Hook \/ Waited \/ StopWaited

\* recv_timeout bounds every wait and the runtime's threads are scheduled; the
\* JavaScript thread may hang in a hook.
GraphFair ==
    /\ \A i \in Instances : WF_graphVars(host = "graph" /\ GraphStep(i))
    /\ WF_graphVars(host = "graph" /\ StopWaited)

----------------------------------------------------------------------------
(* Properties                                                              *)

\* The answer of a call that timed out never stands for a later call.
NoStaleAnswer == ~stale

\* Although calls time out while their hooks wait behind other Nodes, the hooks
\* of one Node run in the lifecycle's order: prepare first, and nothing after
\* finish, except the abort of a Node whose finish had failed.
HooksFollowLifecycle ==
    \A i \in Instances : \A k \in DOMAIN hooks[i] :
        /\ k = 1 <=> hooks[i][k] = "prepare"
        /\ hooks[i][k] = "abort" => k = Len(hooks[i])
        /\ hooks[i][k] = "finish" => \A n \in (k + 1)..Len(hooks[i]) : hooks[i][n] = "abort"


\* A graph that fails or times out ends although a hook hangs: each call gives
\* up by its own timer.
StopEndsGraph == task \in {"aborting", "timed_out"} ~> task = "failed"
=============================================================================
