---------------------------- MODULE EdgeRouting ----------------------------
(***************************************************************************)
(* How what a node emits reaches the next nodes: NodeWorker::route, the    *)
(* edge dispatchers with their one-slot mailboxes, the frame queue and the *)
(* Signal queue of every Edge, and NodeWorker::run_consumer                *)
(* (crates/muxiva-core/src/concurrent.rs, signal.rs).                      *)
(*                                                                         *)
(* Callback k of node n may emit one Signal <<n, k>> and, to each of its   *)
(* outgoing Edges e, a batch of frames <<n, k, 1>>, <<n, k, 2>>, ...       *)
(* Queue operations are atomic here (EdgeQueue looks inside them) and      *)
(* frame queues use the Block policy, the one that can make threads wait   *)
(* for each other.  dirty[n] says that n's QueueWake generation moved      *)
(* since n last observed it.  Scheduled ticks are in RuntimeLifecycle.     *)
(***************************************************************************)
EXTENDS Integers, Sequences, SequencesExt

CONSTANTS
    Nodes, Edges, From, To, Sources,   \* the graph
    Signalling,        \* nodes whose callbacks may emit Signals
    PolicyEdges,       \* Edges with a named EdgePolicy
    Capacity,          \* QueuePolicy::capacity of every Edge
    SignalCapacity,    \* RuntimeOptions::signal_queue_capacity
    MaxCallbacks,      \* bound: callbacks of one source
    Batches,           \* bound: how many frames one callback emits to an Edge
    DrainModes,        \* whether closing drains: failure_mode, shutdown_mode
    Stoppers,          \* threads that may call stop
    Stuck,             \* nodes whose callbacks may hang
    Failing,           \* nodes whose callbacks may fail
    None

ASSUME GraphAssumption ==
    /\ From \in [Edges -> Nodes] /\ To \in [Edges -> Nodes]
    /\ Sources \subseteq Nodes /\ Signalling \subseteq Nodes
    /\ PolicyEdges \subseteq Edges /\ Stuck \subseteq Nodes
    /\ Failing \subseteq Nodes /\ DrainModes \subseteq BOOLEAN
    /\ \A e \in Edges : To[e] \notin Sources
ASSUME BoundsAssumption ==
    /\ Capacity \in Nat \ {0} /\ SignalCapacity \in Nat \ {0}
    /\ MaxCallbacks \in Nat \ {0} /\ Batches \in [Edges -> SUBSET Nat]

Out(n) == {e \in Edges : From[e] = n}
In(n)  == {e \in Edges : To[e] = n}

VARIABLES
    pc,           \* where every worker stands
    hung,         \* nodes whose current callback will never return
    calls,        \* calls[n]: callbacks n has completed
    emitted,      \* emitted[e]: frames the last callback emitted to Edge e
    todo,         \* Edges left in the current phase of n's loop
    pending,      \* Edges whose mailbox was full at try_send
    unacked,      \* Edges whose dispatcher has not acknowledged the Signals
    dirty,
    mailbox,      \* sync_channel(1) of every dispatcher
    dpc,          \* where every dispatcher stands
    batch,        \* frames a dispatcher still has to apply
    queue, closed,                  \* the frame queue of every Edge
    signal_queue, signals_closed,   \* and its Signal queue
    reason,       \* an abort was requested
    aborter,      \* the thread that is closing every queue, or None
    to_close,     \* the queues it has not closed yet
    drain,        \* whether it drains or discards them
    sent,         \* history: frames emitted to each Edge, in order
    announced,    \* history: Signals each node emitted, in order
    seen,         \* history: what each node was called with, in order
    accepted,     \* history: Signals accepted by each Edge's Signal queue
    lost          \* history: frames dropped or consumed by an EdgePolicy

emission  == <<calls, emitted, sent, announced>>
worker    == <<pc, hung, emission, todo, pending>>
transport == <<mailbox, dpc, batch>>
queues    == <<queue, closed, signal_queue, signals_closed>>
abort     == <<reason, aborter, to_close, drain>>
history   == <<seen, accepted, lost>>
vars == <<worker, unacked, dirty, transport, queues, abort, history>>

Init ==
    /\ pc = [n \in Nodes |-> IF n \in Sources THEN "call" ELSE "observe"]
    /\ hung = {} /\ calls = [n \in Nodes |-> 0]
    /\ emitted = [e \in Edges |-> 0] /\ sent = [e \in Edges |-> <<>>]
    /\ announced = [n \in Nodes |-> <<>>]
    /\ todo = [n \in Nodes |-> {}] /\ pending = [n \in Nodes |-> {}]
    /\ unacked = {} /\ dirty = [n \in Nodes |-> FALSE]
    /\ mailbox = [e \in Edges |-> <<>>]
    /\ dpc = [e \in Edges |-> "recv"] /\ batch = [e \in Edges |-> <<>>]
    /\ queue = [e \in Edges |-> <<>>] /\ signal_queue = [e \in Edges |-> <<>>]
    /\ closed = [e \in Edges |-> FALSE]
    /\ signals_closed = [e \in Edges |-> FALSE]
    /\ reason = FALSE /\ aborter = None /\ to_close = {} /\ drain \in DrainModes
    /\ seen = [n \in Nodes |-> <<>>]
    /\ accepted = [e \in Edges |-> {}] /\ lost = {}

Goto(n, label) == pc' = [pc EXCEPT ![n] = label]
\* A thread that has to close the queues does nothing else before it has.
At(n, label) == pc[n] = label /\ aborter # n
Calling(n) == At(n, "call") /\ n \notin hung
DispatcherAt(e, label) == dpc[e] = label /\ aborter # e

\* The dispatcher left its receive loop, which dropped the receiver.
Gone(e) == dpc[e] \in {"closing", "closing_signals", "done"} /\ aborter # e
\* The worker returned, which dropped its senders.
Returned(n) == At(n, "done")
\* Edges are served in the order of the worker's list of outputs.
First(edges) == CHOOSE e \in edges : TRUE
SignalOf(n) == <<n, calls[n]>>
Batch(n, k, size) == [i \in 1..size |-> <<n, k, i>>]
BatchOf(n, e) == Batch(n, calls[n], emitted[e])
NonEmpty(n) == {e \in Out(n) : emitted[e] > 0}
Phase(n, label, edges) == Goto(n, label) /\ todo' = [todo EXCEPT ![n] = edges]

\* fail_graph: the first caller goes on to close every queue.
FailGraph(t) ==
    /\ reason' = TRUE
    /\ aborter' = IF reason THEN aborter ELSE t
    /\ to_close' = IF reason THEN to_close ELSE {"frames", "signals"} \X Edges
    /\ UNCHANGED drain

Discarded(q) == IF drain THEN q ELSE <<>>
\* The queues are closed in the order of a BTreeMap, fixed but not known.
Closing(pass, e) ==
    /\ <<pass, e>> \in to_close
    /\ e = CHOOSE d \in Edges : <<pass, d>> \in to_close
    /\ to_close' = to_close \ {<<pass, e>>}
    /\ aborter' = IF to_close' = {} THEN None ELSE aborter
    /\ dirty' = [dirty EXCEPT ![To[e]] = TRUE]
    /\ UNCHANGED <<worker, unacked, transport, reason, drain, history>>

\* close_all: one queue after another.
CloseAll(e) ==
    /\ Closing("frames", e)
    /\ closed' = [closed EXCEPT ![e] = TRUE]
    /\ queue' = [queue EXCEPT ![e] = Discarded(@)]
    /\ UNCHANGED <<signal_queue, signals_closed>>

\* close_all_signals, which follows it.
CloseAllSignals(e) ==
    /\ \A d \in Edges : <<"frames", d>> \notin to_close
    /\ Closing("signals", e)
    /\ signals_closed' = [signals_closed EXCEPT ![e] = TRUE]
    /\ signal_queue' = [signal_queue EXCEPT ![e] = Discarded(@)]
    /\ UNCHANGED <<queue, closed>>

\* GraphRuntime::stop, from any thread.
Stop ==
    /\ ~reason /\ \E n \in Nodes : pc[n] # "done"
    /\ \E t \in Stoppers : FailGraph(t)
    /\ UNCHANGED <<worker, unacked, dirty, transport, queues, history>>

----------------------------------------------------------------------------
(* A callback and NodeWorker::route                                        *)

\* How many frames a callback of n may emit to every Edge.
Emissions(n) ==
    {f \in [Edges -> {0} \cup UNION Range(Batches)] :
        \A e \in Edges : f[e] \in IF e \in Out(n) THEN Batches[e] ELSE {0}}

\* The callback returns; what it emits is routed.
Callback(n) ==
    /\ Calling(n)
    /\ calls' = [calls EXCEPT ![n] = @ + 1]
    /\ \E s \in BOOLEAN, f \in Emissions(n) :
          /\ s => n \in Signalling /\ Out(n) # {}
          /\ emitted' = [e \in Edges |-> IF e \in Out(n) THEN f[e] ELSE emitted[e]]
          /\ sent' = [e \in Edges |-> sent[e] \o Batch(n, calls'[n], f[e])]
          /\ announced' = IF s THEN [announced EXCEPT ![n] = Append(@, <<n, calls'[n]>>)]
                         ELSE announced
          /\ IF s THEN Phase(n, "send_signals", Out(n))
             ELSE Phase(n, "try_send", {e \in Out(n) : f[e] > 0})
    /\ pending' = [pending EXCEPT ![n] = {}]
    /\ UNCHANGED <<hung, unacked, dirty, transport, queues, abort, history>>

\* User code blocks for ever.
Hang(n) ==
    /\ At(n, "call") /\ n \in Stuck \ hung
    /\ hung' = hung \cup {n}
    /\ UNCHANGED <<pc, emission, todo, pending, unacked, dirty, transport, queues,
                   abort, history>>

\* The callback fails, or emits through a wrong port: nothing is sent.
CallbackFails(n) ==
    /\ Calling(n) /\ n \in Failing
    /\ FailGraph(n)
    /\ Phase(n, "done", {})
    /\ UNCHANGED <<hung, emission, pending, unacked, dirty, transport, queues, history>>

\* route returns Err: run reports it and leaves.
RouteFails(n) ==
    /\ FailGraph(n)
    /\ Phase(n, "done", {})
    /\ UNCHANGED <<hung, emission, pending, unacked, dirty, transport, queues, history>>

\* Dispatch::Signals goes to one outgoing Edge after the other; send waits
\* until the mailbox is empty.
SendSignals(n) ==
    /\ At(n, "send_signals") /\ todo[n] # {}
    /\ LET e == First(todo[n])
       IN \/ /\ ~Gone(e) /\ mailbox[e] = <<>>
             /\ mailbox' = [mailbox EXCEPT ![e] = <<[kind |-> "signals", signal |-> SignalOf(n)]>>]
             /\ unacked' = unacked \cup {e}
             /\ Phase(n, "send_signals", todo[n] \ {e})
             /\ UNCHANGED <<hung, emission, pending, dirty, dpc, batch, queues, abort, history>>
          \/ /\ Gone(e)
             /\ RouteFails(n)

SignalsAreSent(n) ==
    /\ At(n, "send_signals") /\ todo[n] = {}
    /\ Goto(n, "acks")
    /\ UNCHANGED <<hung, emission, todo, pending, unacked, dirty, transport, queues, abort,
                   history>>

\* One recv per outgoing Edge; a dispatcher that went away never answers.
Acknowledged(n) ==
    /\ At(n, "acks")
    /\ \/ /\ Out(n) \cap unacked = {}
          /\ Goto(n, "barrier")
          /\ UNCHANGED <<hung, emission, todo, pending, unacked, dirty, transport,
                         queues, abort, history>>
       \/ /\ Out(n) \cap unacked # {}
          /\ \A e \in Out(n) \cap unacked : Gone(e)
          /\ RouteFails(n)

\* Mutant: frames follow although a Signal was refused.
BarrierUnchecked(n) ==
    /\ At(n, "barrier")
    /\ Phase(n, "try_send", NonEmpty(n))
    /\ UNCHANGED <<hung, emission, pending, unacked, dirty, transport, queues,
                   abort, history>>

\* control.reason() after the acknowledgements.
Barrier(n) ==
    /\ At(n, "barrier")
    /\ \/ reason /\ RouteFails(n)
       \/ /\ ~reason
          /\ Phase(n, "try_send", NonEmpty(n))
          /\ UNCHANGED <<hung, emission, pending, unacked, dirty, transport, queues,
                         abort, history>>

Deposit(n, e) == mailbox' = [mailbox EXCEPT ![e] =
                                <<[kind |-> "frames", frames |-> BatchOf(n, e)]>>]

Offer(n, e) ==
    \/ mailbox[e] = <<>> /\ Deposit(n, e) /\ UNCHANGED pending
    \/ /\ mailbox[e] # <<>>
       /\ pending' = [pending EXCEPT ![n] = @ \cup {e}]
       /\ UNCHANGED mailbox

\* Every Edge is offered its batch before any full mailbox is waited for.
TrySend(n) ==
    /\ At(n, "try_send") /\ todo[n] # {}
    /\ LET e == First(todo[n])
       IN \/ /\ ~Gone(e)
             /\ Offer(n, e)
             /\ Phase(n, "try_send", todo[n] \ {e})
             /\ UNCHANGED <<hung, emission, unacked, dirty, dpc, batch, queues, abort, history>>
          \/ /\ Gone(e)
             /\ RouteFails(n)

\* The batches that did not fit: a blocking send for each.
SendPending(n) ==
    /\ At(n, "try_send") /\ todo[n] = {} /\ pending[n] # {}
    /\ LET e == First(pending[n])
       IN \/ /\ ~Gone(e) /\ mailbox[e] = <<>>
             /\ Deposit(n, e)
             /\ pending' = [pending EXCEPT ![n] = @ \ {e}]
             /\ UNCHANGED <<pc, hung, emission, todo, unacked, dirty, dpc, batch,
                            queues, abort, history>>
          \/ /\ Gone(e)
             /\ RouteFails(n)

\* route returns Ok.  A consumer looks for more; a source schedules its next
\* callback or ends.
Routed(n) ==
    /\ At(n, "try_send") /\ todo[n] = {} /\ pending[n] = {}
    /\ \/ n \notin Sources /\ Goto(n, "observe")
       \/ n \in Sources /\ calls[n] < MaxCallbacks /\ Goto(n, "call")
       \/ n \in Sources /\ Goto(n, "done")
    /\ UNCHANGED <<hung, emission, todo, pending, unacked, dirty, transport, queues,
                   abort, history>>

\* A source stops at its next scheduled callback once the token is cancelled.
SourceStops(n) ==
    /\ n \in Sources /\ Calling(n) /\ reason
    /\ Phase(n, "done", {})
    /\ UNCHANGED <<hung, emission, pending, unacked, dirty, transport, queues, abort,
                   history>>

----------------------------------------------------------------------------
(* NodeWorker::run_consumer                                                *)

Observe(n) ==
    /\ At(n, "observe")
    /\ dirty' = [dirty EXCEPT ![n] = FALSE]
    /\ Phase(n, "scan_signals", In(n))
    /\ UNCHANGED <<hung, emission, pending, unacked, transport, queues, abort, history>>

\* try_pop found nothing on Edge e; after the last Edge comes the next phase.
NothingOn(n, e, label, next, edges) ==
    IF todo[n] = {e} THEN Phase(n, next, edges) ELSE Phase(n, label, todo[n] \ {e})
CalledWith(n, kind, e, id) ==
    /\ seen' = [seen EXCEPT ![n] = Append(@, [kind |-> kind, edge |-> e, id |-> id])]
    /\ Phase(n, "call", {})

\* One try_pop per incoming Edge, each under that queue's own lock.  The
\* cursor, which rotates the order, is not kept: any order is possible.
ScanSignals(n) ==
    /\ At(n, "scan_signals")
    /\ \E e \in todo[n] :
          \/ /\ signal_queue[e] # <<>>
             /\ signal_queue' = [signal_queue EXCEPT ![e] = Tail(@)]
             /\ CalledWith(n, "signal", e, Head(signal_queue[e]))
          \/ /\ signal_queue[e] = <<>>
             /\ NothingOn(n, e, "scan_signals", "scan_frames", In(n))
             /\ UNCHANGED <<signal_queue, seen>>
    /\ UNCHANGED <<hung, emission, pending, unacked, dirty, transport, queue, closed,
                   signals_closed, abort, accepted, lost>>

ScanFrames(n) ==
    /\ At(n, "scan_frames")
    /\ \E e \in todo[n] :
          \/ /\ queue[e] # <<>>
             /\ queue' = [queue EXCEPT ![e] = Tail(@)]
             /\ CalledWith(n, "frame", e, Head(queue[e]))
          \/ /\ queue[e] = <<>>
             /\ NothingOn(n, e, "scan_frames", "check", {})
             /\ UNCHANGED <<queue, seen>>
    /\ UNCHANGED <<hung, emission, pending, unacked, dirty, transport, closed,
                   signal_queue, signals_closed, abort, accepted, lost>>

\* Both queues answer is_closed_and_empty; that is stable, so the order of the
\* tests does not matter.
Exhausted(e) == /\ closed[e] /\ queue[e] = <<>>
                /\ signals_closed[e] /\ signal_queue[e] = <<>>

\* Mutant: the exit test does not look at what is still queued.
CheckClosedOnly(n) ==
    /\ At(n, "check")
    /\ Goto(n, IF \A e \in In(n) : closed[e] /\ signals_closed[e] THEN "done" ELSE "wait")
    /\ UNCHANGED <<hung, emission, todo, pending, unacked, dirty, transport, queues,
                   abort, history>>

Check(n) ==
    /\ At(n, "check")
    /\ Goto(n, IF \A e \in In(n) : Exhausted(e) THEN "done" ELSE "wait")
    /\ UNCHANGED <<hung, emission, todo, pending, unacked, dirty, transport, queues,
                   abort, history>>

\* wake.wait_for_change(observed) returns.
Woken(n) ==
    /\ At(n, "wait") /\ dirty[n]
    /\ Goto(n, "observe")
    /\ UNCHANGED <<hung, emission, todo, pending, unacked, dirty, transport, queues,
                   abort, history>>

----------------------------------------------------------------------------
(* run_dispatcher                                                          *)

DGoto(e, label) == dpc' = [dpc EXCEPT ![e] = label]

Receive(e) ==
    /\ DispatcherAt(e, "recv")
    /\ \/ /\ mailbox[e] # <<>>
          /\ mailbox' = [mailbox EXCEPT ![e] = <<>>]
          /\ LET message == Head(mailbox[e])
             IN IF message.kind = "signals"
                THEN /\ DGoto(e, "signal")
                     /\ batch' = [batch EXCEPT ![e] = <<message.signal>>]
                ELSE /\ DGoto(e, "frames")
                     /\ batch' = [batch EXCEPT ![e] = message.frames]
       \/ /\ mailbox[e] = <<>> /\ Returned(From[e])
          /\ DGoto(e, "closing")
          /\ UNCHANGED <<mailbox, batch>>
    /\ UNCHANGED <<worker, unacked, dirty, queues, abort, history>>

\* Mutant: the dispatcher does not acknowledge an accepted Signal.
ApplySignalUnacknowledged(e) ==
    /\ DispatcherAt(e, "signal")
    /\ ~signals_closed[e] /\ Len(signal_queue[e]) < SignalCapacity
    /\ signal_queue' = [signal_queue EXCEPT ![e] = Append(@, Head(batch[e]))]
    /\ accepted' = [accepted EXCEPT ![e] = @ \cup {Head(batch[e])}]
    /\ dirty' = [dirty EXCEPT ![To[e]] = TRUE]
    /\ batch' = [batch EXCEPT ![e] = <<>>]
    /\ DGoto(e, "recv")
    /\ UNCHANGED <<worker, unacked, mailbox, queue, closed, signals_closed, abort,
                   seen, lost>>

\* apply_signal: the policy sees the Signal, then try_push, which never
\* waits; then acknowledged.send(()).
ApplySignal(e) ==
    /\ DispatcherAt(e, "signal")
    /\ ~signals_closed[e] /\ Len(signal_queue[e]) < SignalCapacity
    /\ signal_queue' = [signal_queue EXCEPT ![e] = Append(@, Head(batch[e]))]
    /\ accepted' = [accepted EXCEPT ![e] = @ \cup {Head(batch[e])}]
    /\ dirty' = [dirty EXCEPT ![To[e]] = TRUE]
    /\ unacked' = unacked \ {e}
    /\ batch' = [batch EXCEPT ![e] = <<>>]
    /\ DGoto(e, "recv")
    /\ UNCHANGED <<worker, mailbox, queue, closed, signals_closed, abort, seen,
                   lost>>

\* The policy fails, or the Signal queue is closed or full.
ApplySignalFails(e) ==
    /\ DispatcherAt(e, "signal")
    /\ \/ signals_closed[e] \/ Len(signal_queue[e]) = SignalCapacity
       \/ e \in PolicyEdges
    /\ FailGraph(e)
    /\ DGoto(e, "ack_failed")
    /\ UNCHANGED <<worker, unacked, dirty, mailbox, batch, queues, history>>

\* The failure is acknowledged too, when the queues have been closed.
AcknowledgeFailure(e) ==
    /\ DispatcherAt(e, "ack_failed")
    /\ DGoto(e, "closing")
    /\ unacked' = unacked \ {e}
    /\ batch' = [batch EXCEPT ![e] = <<>>]
    /\ UNCHANGED <<worker, dirty, mailbox, queues, abort, history>>

\* The policies let the frame pass, or replace it by a fresh one.
Forward(e) ==
    /\ ~closed[e] /\ Len(queue[e]) < Capacity
    /\ queue' = [queue EXCEPT ![e] = Append(@, Head(batch[e]))]
    /\ dirty' = [dirty EXCEPT ![To[e]] = TRUE]
    /\ UNCHANGED lost

\* Validation rejects it, or the transform drops it or turns it into a Signal
\* for the policy itself: the frame goes no further.
PolicyConsumes(e) ==
    /\ e \in PolicyEdges
    /\ lost' = lost \cup {<<e, Head(batch[e])>>}
    /\ UNCHANGED <<queue, dirty>>

\* apply_edge for the next frame of the batch; push waits while it is full.
ApplyFrame(e) ==
    /\ DispatcherAt(e, "frames")
    /\ Forward(e) \/ PolicyConsumes(e)
    /\ batch' = [batch EXCEPT ![e] = Tail(@)]
    /\ DGoto(e, IF Len(batch[e]) = 1 THEN "recv" ELSE "frames")
    /\ UNCHANGED <<worker, unacked, mailbox, signal_queue, signals_closed,
                   closed, abort, seen, accepted>>

\* A policy fails, or the queue was closed: the rest of the batch is dropped.
ApplyFrameFails(e) ==
    /\ DispatcherAt(e, "frames")
    /\ closed[e] \/ e \in PolicyEdges
    /\ FailGraph(e)
    /\ DGoto(e, "closing")
    /\ batch' = [batch EXCEPT ![e] = <<>>]
    /\ UNCHANGED <<worker, unacked, dirty, mailbox, queues, history>>

\* queue.close(Drain)
CloseEdge(e) ==
    /\ DispatcherAt(e, "closing")
    /\ closed' = [closed EXCEPT ![e] = TRUE]
    /\ dirty' = [dirty EXCEPT ![To[e]] = TRUE]
    /\ mailbox' = [mailbox EXCEPT ![e] = <<>>]
    /\ DGoto(e, "closing_signals")
    /\ UNCHANGED <<worker, unacked, batch, queue, signal_queue,
                   signals_closed, abort, history>>

\* signal_queue.close(Drain), and the thread ends.
CloseEdgeSignals(e) ==
    /\ DispatcherAt(e, "closing_signals")
    /\ signals_closed' = [signals_closed EXCEPT ![e] = TRUE]
    /\ dirty' = [dirty EXCEPT ![To[e]] = TRUE]
    /\ DGoto(e, "done")
    /\ UNCHANGED <<worker, unacked, mailbox, batch, queue, closed, signal_queue,
                   abort, history>>

----------------------------------------------------------------------------

RouteStep(n) == \/ SendSignals(n) \/ SignalsAreSent(n) \/ Acknowledged(n)
                \/ Barrier(n) \/ TrySend(n) \/ SendPending(n) \/ Routed(n)
LoopStep(n) == \/ Observe(n) \/ ScanSignals(n) \/ ScanFrames(n) \/ Check(n)
               \/ Woken(n)
CallStep(n) == Callback(n) \/ CallbackFails(n) \/ SourceStops(n)
DispatcherStep(e) == \/ Receive(e) \/ ApplySignal(e) \/ ApplySignalFails(e)
                     \/ AcknowledgeFailure(e)
                     \/ ApplyFrame(e) \/ ApplyFrameFails(e)
                     \/ CloseEdge(e) \/ CloseEdgeSignals(e)

Next == \/ \E n \in Nodes : RouteStep(n) \/ LoopStep(n) \/ CallStep(n) \/ Hang(n)
        \/ \E e \in Edges : DispatcherStep(e)
        \/ \E e \in Edges : CloseAll(e) \/ CloseAllSignals(e)
        \/ Stop

\* Threads are scheduled; a callback returns unless it hangs.
Fairness ==
    /\ \A n \in Nodes : WF_vars(RouteStep(n) \/ LoopStep(n))
    /\ \A n \in Nodes : WF_vars(CallStep(n))
    /\ \A e \in Edges : WF_vars(DispatcherStep(e))
    /\ WF_vars(\E e \in Edges : CloseAll(e) \/ CloseAllSignals(e))

Spec == Init /\ [][Next]_vars
FairSpec == Spec /\ Fairness

----------------------------------------------------------------------------
(* Properties                                                              *)

Threads == Nodes \cup Edges \cup Stoppers
IsSignal(x, e) == x.kind = "signal" /\ x.edge = e
IsFrame(x, e)  == x.kind = "frame" /\ x.edge = e
Ids(s) == [i \in DOMAIN s |-> s[i].id]
SignalsSeen(e) == Ids(SelectSeq(seen[To[e]], LAMBDA x : IsSignal(x, e)))
FramesSeen(e)  == Ids(SelectSeq(seen[To[e]], LAMBDA x : IsFrame(x, e)))
\* What the EdgePolicy let through.
Owed(e) == SelectSeq(sent[e], LAMBDA f : <<e, f>> \notin lost)

\* The memory a graph can hold between two nodes is bounded: one batch in the
\* mailbox, one with the dispatcher, and what the two queues may store.
TypeOK ==
    /\ pc \in [Nodes -> {"call", "send_signals", "acks", "barrier", "try_send",
                         "observe", "scan_signals", "scan_frames", "check", "wait", "done"}]
    /\ dpc \in [Edges -> {"recv", "signal", "ack_failed", "frames",
                          "closing", "closing_signals", "done"}]
    /\ \A n \in Nodes : todo[n] \subseteq Edges /\ pending[n] \subseteq Out(n)
    /\ unacked \subseteq Edges /\ dirty \in [Nodes -> BOOLEAN]
    /\ \A e \in Edges : /\ Len(mailbox[e]) <= 1
                         /\ Len(queue[e]) <= Capacity
                         /\ Len(signal_queue[e]) <= SignalCapacity
                         /\ emitted[e] \in {0} \cup Batches[e]
    /\ aborter \in Threads \cup {None} /\ (aborter = None) = (to_close = {})

\* The frames that have left e's source node and were not dropped.
FramesOf(e) == ToSet(queue[e]) \cup ToSet(FramesSeen(e))
               \cup (IF dpc[e] = "frames" THEN ToSet(batch[e]) ELSE {})
               \cup UNION {ToSet(m.frames) : m \in {x \in ToSet(mailbox[e]) : x.kind = "frames"}}

\* The frames of a callback that emitted a Signal leave the callback's worker
\* only when every outgoing Edge's Signal queue has accepted that Signal (the
\* comment in route).
SignalBarrier ==
    \A e \in Edges : \A f \in FramesOf(e) :
        <<f[1], f[2]>> \in ToSet(announced[From[e]])
            => \A d \in Out(From[e]) : <<f[1], f[2]>> \in accepted[d]

\* Every Edge delivers what was sent in order and without a gap, Signals and
\* frames each in their own order, also while the graph is being aborted.
InOrderWithoutGaps ==
    \A e \in Edges : /\ IsPrefix(FramesSeen(e), Owed(e))
                     /\ IsPrefix(SignalsSeen(e), announced[From[e]])

\* A graph that ends by itself has delivered everything: no worker leaves
\* run_consumer while something is on its way to it.
EndOfStreamLossless ==
    (~reason /\ \A n \in Nodes : pc[n] = "done")
        => \A e \in Edges : /\ FramesSeen(e) = Owed(e)
                            /\ SignalsSeen(e) = announced[From[e]]

\* Every Edge delivers exactly what its source node sent and the policy let
\* through: within the memory of its mailbox, dispatcher and two queues, in
\* order, without a gap, and to the last frame unless the graph is aborted.
DeliveryIsExact == TypeOK /\ InOrderWithoutGaps /\ EndOfStreamLossless

\* A node is called with a Signal before it is called with a frame that the
\* same upstream callback emitted (the test
\* callback_signals_are_delivered_before_accompanying_frames).
SignalBeforeFrame ==
    \A e \in Edges : \A i \in DOMAIN seen[To[e]] :
        LET x == seen[To[e]][i]
            s == <<x.id[1], x.id[2]>>
        IN (IsFrame(x, e) /\ s \in ToSet(announced[From[e]]))
               => \E j \in 1..(i - 1) :
                     IsSignal(seen[To[e]][j], e) /\ seen[To[e]][j].id = s

\* Every worker and every dispatcher has ended.
AllEnded == /\ \A n \in Nodes : pc[n] = "done"
            /\ \A e \in Edges : dpc[e] = "done"
=============================================================================
