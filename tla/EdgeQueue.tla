----------------------------- MODULE EdgeQueue -----------------------------
(***************************************************************************)
(* The bounded Edge queue of muxiva-core (crates/muxiva-core/src/queue.rs) *)
(* with the threads that call it.  One action is one critical section of   *)
(* QueueState's mutex, or one notification made after the mutex was        *)
(* released: push drops the guard BEFORE it notifies, so a notification    *)
(* may be delayed past any number of other threads' steps.                 *)
(*                                                                         *)
(*   Producers  call push (and record_drop); in the runtime, dispatchers   *)
(*   Consumers  call the blocking pop                                      *)
(*   Pollers    run the node worker's loop: read the QueueWake generation, *)
(*              try_pop, is_closed_and_empty, wait_for_change              *)
(*   Closers    call close with DrainMode Drain or Discard                 *)
(*                                                                         *)
(* A frame is <<p, n>>: the n-th frame producer p submitted.  Clocks,      *)
(* byte counts and reason texts are left out; no property tells them       *)
(* apart.                                                                  *)
(***************************************************************************)
EXTENDS Integers, Sequences, FiniteSets

CONSTANTS
    Producers, Consumers, Pollers, Closers,   \* the calling threads
    Capacity,       \* QueuePolicy::capacity, a NonZeroUsize
    MaxPushes,      \* bound: frames one producer submits
    MaxCloses       \* bound: calls of close made by one closer

ASSUME CapacityAssumption == Capacity \in Nat \ {0}
ASSUME BoundsAssumption   == MaxPushes \in Nat /\ MaxCloses \in Nat
ASSUME ThreadsAssumption  ==
    /\ IsFiniteSet(Producers) /\ IsFiniteSet(Consumers)
    /\ Producers \cap Consumers = {} /\ Producers \cap Pollers = {}
    /\ Producers \cap Closers = {}   /\ Consumers \cap Pollers = {}
    /\ Consumers \cap Closers = {}   /\ Pollers \cap Closers = {}

QueueOverflowPolicy == {"Block", "DropOldest", "DropNewest", "Abort"}
DrainMode           == {"Drain", "Discard"}
DropReason          == {"oldest", "newest", "shutdown", "policy"}
Frames              == Producers \X (1..MaxPushes)
Threads             == Producers \cup Consumers \cup Pollers \cup Closers

VARIABLES
    overflow,        \* the declared QueueOverflowPolicy, fixed at construction
    frames,          \* QueueState.frames
    closed,          \* QueueState.closed
    enqueue_total, dequeue_total, drop_total, high_watermark,
    generation,      \* QueueWake.generation of the target node
    pc,              \* where each thread stands
    observed,        \* the generation a poller read before it polled
    submitted,       \* submitted[p]: number of frames p has passed to push
    closes,          \* closes[c]: number of calls c has made to close
    got,             \* history: frames handed to consumers, in order
    dropped,         \* history: <<frame, reason>> of every dropped frame
    rejected         \* history: frames whose push returned an error

metrics == <<enqueue_total, dequeue_total, drop_total, high_watermark>>
history == <<got, dropped, rejected>>
vars == <<overflow, frames, closed, metrics, generation, pc, observed,
          submitted, closes, history>>

ProducerPC == {"idle", "not_full", "woken", "notify_one", "wake"}
ConsumerPC == {"idle", "not_empty", "woken", "done"}
PollerPC   == {"observe", "poll", "check", "asleep", "done"}
CloserPC   == {"idle", "all_not_empty", "all_not_full", "wake"}

Init ==
    /\ overflow \in QueueOverflowPolicy
    /\ frames = <<>> /\ closed = FALSE
    /\ enqueue_total = 0 /\ dequeue_total = 0
    /\ drop_total = 0 /\ high_watermark = 0
    /\ generation = 0
    /\ pc = [t \in Threads |-> IF t \in Pollers THEN "observe" ELSE "idle"]
    /\ observed = [w \in Pollers |-> 0]
    /\ submitted = [p \in Producers |-> 0]
    /\ closes = [c \in Closers |-> 0]
    /\ got = <<>> /\ dropped = {} /\ rejected = {}

Goto(t, label) == pc' = [pc EXCEPT ![t] = label]

NotFullWaiters  == {p \in Producers : pc[p] = "not_full"}
NotEmptyWaiters == {c \in Consumers : pc[c] = "not_empty"}

\* Condvar::notify_one: wake some waiter of the set, if there is one, and
\* move thread t to its next label in the same step.
NotifyOneAndGoto(waiters, t, label) ==
    \/ /\ waiters = {}
       /\ Goto(t, label)
    \/ \E w \in waiters :
          pc' = [pc EXCEPT ![w] = "woken", ![t] = label]

\* Condvar::notify_all.
NotifyAllAndGoto(waiters, t, label) ==
    pc' = [u \in Threads |-> IF u \in waiters THEN "woken"
                             ELSE IF u = t THEN label ELSE pc[u]]

----------------------------------------------------------------------------
(* push                                                                    *)

Longer(n) == IF high_watermark < n THEN n ELSE high_watermark

\* fn enqueue, applied to the deque `base`.
Enqueue(base, f) ==
    /\ frames' = Append(base, f)
    /\ enqueue_total' = enqueue_total + 1
    /\ high_watermark' = Longer(Len(base) + 1)

\* Mutant: the capacity test is off by one.
PushOpenOffByOne(p, f) ==
    /\ Len(frames) <= Capacity
    /\ Enqueue(frames, f)
    /\ Goto(p, "notify_one")
    /\ UNCHANGED <<drop_total, dropped, rejected>>

\* The body of push with the lock held and the queue open: frame f of p.
PushOpen(p, f) ==
    \/ /\ Len(frames) < Capacity
       /\ Enqueue(frames, f)
       /\ Goto(p, "notify_one")
       /\ UNCHANGED <<drop_total, dropped, rejected>>
    \/ /\ Len(frames) = Capacity /\ overflow = "Block"
       /\ Goto(p, "not_full")
       /\ UNCHANGED <<frames, enqueue_total, drop_total, high_watermark,
                      dropped, rejected>>
    \/ /\ Len(frames) = Capacity /\ overflow = "DropOldest"
       /\ dropped' = dropped \cup {<<Head(frames), "oldest">>}
       /\ drop_total' = drop_total + 1
       /\ Enqueue(Tail(frames), f)
       /\ Goto(p, "notify_one")
       /\ UNCHANGED rejected
    \/ /\ Len(frames) = Capacity /\ overflow = "DropNewest"
       /\ dropped' = dropped \cup {<<f, "newest">>}
       /\ drop_total' = drop_total + 1
       /\ Goto(p, "idle")
       /\ UNCHANGED <<frames, enqueue_total, high_watermark, rejected>>
    \/ /\ Len(frames) = Capacity /\ overflow = "Abort"
       /\ rejected' = rejected \cup {f}
       /\ Goto(p, "idle")
       /\ UNCHANGED <<frames, enqueue_total, drop_total, high_watermark,
                      dropped>>

\* QueuePushError::Closed, before the first wait or after any wake-up.
PushClosed(p, f) ==
    /\ rejected' = rejected \cup {f}
    /\ Goto(p, "idle")
    /\ UNCHANGED <<frames, enqueue_total, drop_total, high_watermark, dropped>>

\* Mutant: a push woken by close does not look at `closed` again.
PushLockedIgnoringClose(p, f) ==
    /\ PushOpen(p, f)
    /\ UNCHANGED <<overflow, closed, dequeue_total, generation, observed,
                   closes, got>>

PushLocked(p, f) ==
    /\ \/ closed /\ PushClosed(p, f)
       \/ ~closed /\ PushOpen(p, f)
    /\ UNCHANGED <<overflow, closed, dequeue_total, generation, observed,
                   closes, got>>

Push(p) ==
    /\ pc[p] = "idle"
    /\ submitted[p] < MaxPushes
    /\ submitted' = [submitted EXCEPT ![p] = @ + 1]
    /\ PushLocked(p, <<p, submitted[p] + 1>>)

\* not_full.wait returned: the loop re-reads `closed` and the length.
PushWoken(p) ==
    /\ pc[p] = "woken"
    /\ PushLocked(p, <<p, submitted[p]>>)
    /\ UNCHANGED submitted

\* notify_available, after drop(state): not_empty.notify_one ...
PushNotify(p) ==
    /\ pc[p] = "notify_one"
    /\ NotifyOneAndGoto(NotEmptyWaiters, p, "wake")
    /\ UNCHANGED <<overflow, frames, closed, metrics, generation, observed,
                   submitted, closes, history>>

\* ... and QueueWake::notify of the target node.
PushWake(p) ==
    /\ pc[p] = "wake"
    /\ Goto(p, "idle")
    /\ generation' = generation + 1
    /\ UNCHANGED <<overflow, frames, closed, metrics, observed, submitted,
                   closes, history>>

\* record_drop: an Edge policy dropped the frame before it reached push.
RecordDrop(p) ==
    /\ pc[p] = "idle"
    /\ submitted[p] < MaxPushes
    /\ submitted' = [submitted EXCEPT ![p] = @ + 1]
    /\ drop_total' = drop_total + 1
    /\ dropped' = dropped \cup {<<<<p, submitted[p] + 1>>, "policy">>}
    /\ UNCHANGED <<overflow, frames, closed, enqueue_total, dequeue_total,
                   high_watermark, generation, pc, observed, closes, got,
                   rejected>>

----------------------------------------------------------------------------
(* pop, try_pop and the node worker's polling loop                         *)

\* Mutant: a dequeue forgets not_full.notify_one.
DequeueWithoutNotify(t, label) ==
    /\ frames # <<>>
    /\ frames' = Tail(frames)
    /\ got' = Append(got, Head(frames))
    /\ dequeue_total' = dequeue_total + 1
    /\ Goto(t, label)
    /\ UNCHANGED <<overflow, closed, enqueue_total, drop_total,
                   high_watermark, generation, observed, submitted, closes,
                   dropped, rejected>>

\* fn dequeue followed by not_full.notify_one, both under the lock.
Dequeue(t, label) ==
    /\ frames # <<>>
    /\ frames' = Tail(frames)
    /\ got' = Append(got, Head(frames))
    /\ dequeue_total' = dequeue_total + 1
    /\ NotifyOneAndGoto(NotFullWaiters, t, label)
    /\ UNCHANGED <<overflow, closed, enqueue_total, drop_total,
                   high_watermark, generation, observed, submitted, closes,
                   dropped, rejected>>

\* Only t's own position changes.
Step(t, from, to) ==
    /\ pc[t] = from
    /\ Goto(t, to)
    /\ UNCHANGED <<overflow, frames, closed, metrics, generation, observed,
                   submitted, closes, history>>

\* pop: entered, or resumed from not_empty.wait.
Pop(c) ==
    \E at \in {"idle", "woken"} :
        \/ pc[c] = at /\ Dequeue(c, "idle")
        \/ frames = <<>> /\ closed  /\ Step(c, at, "done")
        \/ frames = <<>> /\ ~closed /\ Step(c, at, "not_empty")

\* The generation is read before the queue is polled.
PollObserve(w) ==
    /\ pc[w] = "observe"
    /\ Goto(w, "poll")
    /\ observed' = [observed EXCEPT ![w] = generation]
    /\ UNCHANGED <<overflow, frames, closed, metrics, generation, submitted,
                   closes, history>>

TryPop(w) ==
    \/ pc[w] = "poll" /\ Dequeue(w, "observe")
    \/ frames = <<>> /\ Step(w, "poll", "check")

\* Mutant: the generation to sleep on is read after the poll.
PollCheckLateGeneration(w) ==
    /\ pc[w] = "check"
    /\ Goto(w, IF closed /\ frames = <<>> THEN "done" ELSE "asleep")
    /\ observed' = [observed EXCEPT ![w] = generation]
    /\ UNCHANGED <<overflow, frames, closed, metrics, generation, submitted,
                   closes, history>>

\* is_closed_and_empty ends the worker; otherwise wait_for_change(observed).
PollCheck(w) ==
    \/ closed /\ frames = <<>> /\ Step(w, "check", "done")
    \/ ~(closed /\ frames = <<>>) /\ Step(w, "check", "asleep")

PollWake(w) ==
    /\ generation # observed[w]
    /\ Step(w, "asleep", "observe")

----------------------------------------------------------------------------
(* close                                                                   *)

\* Mutant: Discard forgets to count the frames it clears.
CloseUncounted(c, mode) ==
    /\ pc[c] = "idle"
    /\ closes[c] < MaxCloses
    /\ closes' = [closes EXCEPT ![c] = @ + 1]
    /\ closed' = TRUE
    /\ frames' = IF mode = "Discard" THEN <<>> ELSE frames
    /\ dropped' = IF mode = "Discard"
                  THEN dropped \cup {<<frames[i], "shutdown">> : i \in DOMAIN frames}
                  ELSE dropped
    /\ Goto(c, "all_not_empty")
    /\ UNCHANGED <<overflow, metrics, generation, observed, submitted, got,
                   rejected>>

Close(c, mode) ==
    /\ pc[c] = "idle"
    /\ closes[c] < MaxCloses
    /\ closes' = [closes EXCEPT ![c] = @ + 1]
    /\ closed' = TRUE
    /\ \/ /\ mode = "Drain"
          /\ UNCHANGED <<frames, drop_total, dropped>>
       \/ /\ mode = "Discard"
          /\ frames' = <<>>
          /\ drop_total' = drop_total + Len(frames)
          /\ dropped' = dropped \cup
                {<<frames[i], "shutdown">> : i \in DOMAIN frames}
    /\ Goto(c, "all_not_empty")
    /\ UNCHANGED <<overflow, enqueue_total, dequeue_total, high_watermark,
                   generation, observed, submitted, got, rejected>>

\* Mutant: close wakes one consumer instead of all of them.
CloseNotifyOneNotEmpty(c) ==
    /\ pc[c] = "all_not_empty"
    /\ NotifyOneAndGoto(NotEmptyWaiters, c, "all_not_full")
    /\ UNCHANGED <<overflow, frames, closed, metrics, generation, observed,
                   submitted, closes, history>>

CloseNotifyNotEmpty(c) ==
    /\ pc[c] = "all_not_empty"
    /\ NotifyAllAndGoto(NotEmptyWaiters, c, "all_not_full")
    /\ UNCHANGED <<overflow, frames, closed, metrics, generation, observed,
                   submitted, closes, history>>

CloseNotifyNotFull(c) ==
    /\ pc[c] = "all_not_full"
    /\ NotifyAllAndGoto(NotFullWaiters, c, "wake")
    /\ UNCHANGED <<overflow, frames, closed, metrics, generation, observed,
                   submitted, closes, history>>

\* Mutant: close does not notify the target node's QueueWake.
CloseWakeNobody(c) == Step(c, "wake", "idle")

CloseWake(c) ==
    /\ pc[c] = "wake"
    /\ Goto(c, "idle")
    /\ generation' = generation + 1
    /\ UNCHANGED <<overflow, frames, closed, metrics, observed, submitted,
                   closes, history>>

\* A condition variable may wake a waiter without a notification.
SpuriousWakeup(t) == Step(t, "not_full", "woken") \/ Step(t, "not_empty", "woken")

----------------------------------------------------------------------------

ProducerStep(p) == Push(p) \/ PushWoken(p) \/ PushNotify(p) \/ PushWake(p)
                   \/ RecordDrop(p)
PollerStep(w)   == PollObserve(w) \/ TryPop(w) \/ PollCheck(w) \/ PollWake(w)
CloserStep(c)   == \/ \E mode \in DrainMode : Close(c, mode)
                   \/ CloseNotifyNotEmpty(c) \/ CloseNotifyNotFull(c)
                   \/ CloseWake(c)

Next ==
    \/ \E p \in Producers : ProducerStep(p) \/ SpuriousWakeup(p)
    \/ \E c \in Consumers : Pop(c) \/ SpuriousWakeup(c)
    \/ \E w \in Pollers : PollerStep(w)
    \/ \E c \in Closers : CloserStep(c)

\* A thread inside a call is scheduled again; nobody is obliged to start a
\* call of push, pop or close, and nothing promises a spurious wake-up.  The
\* node worker is a loop: all of its steps are scheduled.
Fairness ==
    /\ \A p \in Producers : WF_vars(PushWoken(p) \/ PushNotify(p) \/ PushWake(p))
    /\ \A c \in Consumers : WF_vars(pc[c] = "woken" /\ Pop(c))
    /\ \A w \in Pollers : WF_vars(PollerStep(w))
    /\ \A c \in Closers : WF_vars(CloseNotifyNotEmpty(c) \/ CloseNotifyNotFull(c)
                                  \/ CloseWake(c))

Spec     == Init /\ [][Next]_vars
FairSpec == Spec /\ Fairness
----------------------------------------------------------------------------
(* Properties                                                              *)

InQueue == {frames[i] : i \in DOMAIN frames}
Received == {got[i] : i \in DOMAIN got}
DroppedFrames == {d[1] : d \in dropped}
DroppedFor(reasons) == {d \in dropped : d[2] \in reasons}

DataTypeOK ==
    /\ overflow \in QueueOverflowPolicy
    /\ frames \in Seq(Frames) /\ Len(frames) <= Capacity
    /\ closed \in BOOLEAN
    /\ enqueue_total \in Nat /\ dequeue_total \in Nat
    /\ drop_total \in Nat /\ high_watermark \in 0..Capacity
    /\ generation \in Nat
    /\ observed \in [Pollers -> Nat]
    /\ submitted \in [Producers -> 0..MaxPushes]
    /\ closes \in [Closers -> Nat]
    /\ got \in Seq(Frames)
    /\ dropped \subseteq Frames \X DropReason
    /\ rejected \subseteq Frames

PCTypeOK ==
    /\ pc \in [Threads -> ProducerPC \cup ConsumerPC \cup PollerPC \cup CloserPC]
    /\ \A p \in Producers : pc[p] \in ProducerPC
    /\ \A c \in Consumers : pc[c] \in ConsumerPC
    /\ \A w \in Pollers : pc[w] \in PollerPC
    /\ \A c \in Closers : pc[c] \in CloserPC

\* Every variable of QueueState, QueueWake and the threads keeps its type;
\* the deque never exceeds the declared capacity.
TypeOK == DataTypeOK /\ PCTypeOK

PendingNotifies == {p \in Producers : pc[p] = "notify_one"}
WokenConsumers  == {c \in Consumers : pc[c] = "woken"}
WokenProducers  == {p \in Producers : pc[p] = "woken"}
ClosingAt(labels) == {c \in Closers : pc[c] \in labels}

\* push releases the lock before not_empty.notify_one, and pop may steal the
\* frame a notified consumer was meant for: still, while a consumer waits,
\* every queued frame is covered by a notification in flight or a consumer
\* already woken.  No frame sits in the queue with all consumers asleep.
NoLostNotification ==
    \/ NotEmptyWaiters = {}
    \/ Len(frames) <= Cardinality(PendingNotifies) + Cardinality(WokenConsumers)

\* Under Block, while a producer waits on not_full every free slot is covered
\* by a producer already woken, unless a close still has to notify_all.
NoLostCapacity ==
    \/ NotFullWaiters = {}
    \/ Capacity - Len(frames) <= Cardinality(WokenProducers)
    \/ ClosingAt({"all_not_empty", "all_not_full"}) # {}

\* Whoever waits is owed nothing: notifications that are delayed, stolen or
\* spurious leave no frame behind with every consumer asleep, and no slot
\* free with a producer asleep that nobody has woken.
WaitersAreOwedNothing == NoLostNotification /\ NoLostCapacity

\* A closed queue leaves nobody waiting once close has made its notify_all
\* calls: push and pop never start a wait after `closed` is set.
NoWaiterAfterClose ==
    closed =>
        /\ NotEmptyWaiters # {} => ClosingAt({"all_not_empty"}) # {}
        /\ NotFullWaiters # {} =>
              ClosingAt({"all_not_empty", "all_not_full"}) # {}

\* The node worker polls after reading the QueueWake generation: when it
\* sleeps on an unchanged generation, a frame in the queue or a closed queue
\* still has its wake-up to come.
NoMissedWake ==
    \A w \in Pollers :
        pc[w] = "asleep" /\ observed[w] = generation =>
            /\ frames # <<>> =>
                  \E p \in Producers : pc[p] \in {"notify_one", "wake"}
            /\ closed => \/ frames # <<>>
                         \/ ClosingAt({"all_not_empty", "all_not_full", "wake"}) # {}

\* The metrics of a snapshot account for every frame: what was enqueued was
\* dequeued, is still queued, or was dropped; and each frame handed to the
\* Edge met exactly one fate.
MetricsAccountForEveryFrame ==
    /\ dequeue_total = Len(got)
    /\ drop_total = Cardinality(dropped)
    /\ enqueue_total = dequeue_total + Len(frames)
                       + Cardinality(DroppedFor({"oldest", "shutdown"}))
    /\ \A p \in Producers, n \in 1..MaxPushes :
          LET f == <<p, n>>
              settled == \/ n < submitted[p]
                         \/ n = submitted[p] /\ pc[p] \notin {"not_full", "woken"}
          IN Cardinality({fate \in 1..4 :
                 \/ fate = 1 /\ f \in InQueue
                 \/ fate = 2 /\ f \in Received
                 \/ fate = 3 /\ f \in DroppedFrames
                 \/ fate = 4 /\ f \in rejected}) = IF settled THEN 1 ELSE 0

\* "A later Drain can never make discarded data available again"
\* (queue.rs:279): once closed, a queue only shrinks and stays closed.
ClosedOnlyShrinks ==
    [][closed => closed' /\ Len(frames') <= Len(frames)
                 /\ enqueue_total' = enqueue_total]_vars

\* A closed queue lets everybody go: blocked pushes and pops return, and the
\* node worker leaves its loop after draining what is left.
CloseReleasesEveryone ==
    closed ~> /\ \A p \in Producers : pc[p] # "not_full"
              /\ \A c \in Consumers : pc[c] # "not_empty"
              /\ \A w \in Pollers : pc[w] = "done"

\* A producer blocked on a full queue returns while a node worker polls it.
BlockedPushReturns ==
    \A p \in Producers : pc[p] = "not_full" ~> pc[p] = "idle"

\* Nobody stays blocked on an Edge queue, without help from spurious wake-ups.
BlockedCallsReturn == CloseReleasesEveryone /\ BlockedPushReturns

\* The queue implements the channel an Edge promises.
Channel == INSTANCE EdgeChannel
    WITH Frame <- Frames, chan <- frames, open <- ~closed, out <- got

\* Every step of the queue is a step of EdgeChannel or leaves it unchanged.
ImplementsChannel == Channel!Spec
=============================================================================
