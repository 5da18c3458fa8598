-------------------------- MODULE EdgeQueueProofs --------------------------
(***************************************************************************)
(* Theorems about EdgeQueue, for every number of threads, every capacity   *)
(* and every bound on the calls they make.                                 *)
(***************************************************************************)
EXTENDS EdgeQueue, CountingLemmas, TLAPS

USE CapacityAssumption, BoundsAssumption, ThreadsAssumption

\* A producer inside not_full.wait, or just woken from it, has a frame in hand.
FrameInHand ==
    \A p \in Producers : pc[p] \in {"not_full", "woken"} => submitted[p] # 0

\* The labels a thread of each role may be moved to.
LabelsOf(t) ==
    IF t \in Producers THEN ProducerPC
    ELSE IF t \in Consumers THEN ConsumerPC
    ELSE IF t \in Pollers THEN PollerPC ELSE CloserPC

\* Moving one thread to a label of its role keeps pc's type.
LEMMA GotoType ==
    ASSUME PCTypeOK, NEW t \in Threads, NEW label \in LabelsOf(t),
           Goto(t, label)
    PROVE  PCTypeOK'
BY DEF PCTypeOK, Goto, Threads, LabelsOf, ProducerPC, ConsumerPC, PollerPC, CloserPC

\* notify_one wakes a blocked producer or consumer, whose role has "woken".
LEMMA NotifyOneType ==
    ASSUME PCTypeOK, NEW t \in Threads, NEW label \in LabelsOf(t),
           NEW waiters, waiters \subseteq Producers \cup Consumers,
           NotifyOneAndGoto(waiters, t, label)
    PROVE  PCTypeOK'
<1>1. CASE waiters = {} /\ Goto(t, label)
  BY <1>1, GotoType
<1>2. CASE \E w \in waiters : pc' = [pc EXCEPT ![w] = "woken", ![t] = label]
  BY <1>2 DEF PCTypeOK, Threads, LabelsOf, ProducerPC, ConsumerPC, PollerPC, CloserPC
<1>3. QED BY <1>1, <1>2 DEF NotifyOneAndGoto

\* notify_all likewise.
LEMMA NotifyAllType ==
    ASSUME PCTypeOK, NEW t \in Threads, NEW label \in LabelsOf(t),
           NEW waiters, waiters \subseteq Producers \cup Consumers,
           NotifyAllAndGoto(waiters, t, label)
    PROVE  PCTypeOK'
BY DEF NotifyAllAndGoto, PCTypeOK, Threads, LabelsOf, ProducerPC, ConsumerPC,
       PollerPC, CloserPC

LEMMA WaitersAreCallers ==
    /\ NotFullWaiters \subseteq Producers \cup Consumers
    /\ NotEmptyWaiters \subseteq Producers \cup Consumers
BY DEF NotFullWaiters, NotEmptyWaiters

\* push with the lock held, for the frame f the caller submitted.
LEMMA PushLockedType ==
    ASSUME TypeOK, NEW p \in Producers, NEW f \in Frames, PushLocked(p, f),
           submitted' \in [Producers -> 0..MaxPushes]
    PROVE  TypeOK'
<1> USE DEF TypeOK
<1>0. p \in Threads /\ ProducerPC = LabelsOf(p)
  BY DEF Threads, LabelsOf
<1>1. CASE closed /\ PushClosed(p, f)
  <2>1. PCTypeOK' BY <1>0, <1>1, GotoType DEF PushClosed, ProducerPC
  <2>2. DataTypeOK' BY <1>1 DEF DataTypeOK, PushLocked, PushClosed
  <2>3. QED BY <2>1, <2>2
<1>2. CASE ~closed /\ PushOpen(p, f)
  <2>1. PCTypeOK' BY <1>0, <1>2, GotoType DEF PushOpen, ProducerPC
  <2>2. CASE Len(frames) < Capacity /\ Enqueue(frames, f)
             /\ UNCHANGED <<drop_total, dropped, rejected>>
    BY <2>1, <2>2 DEF DataTypeOK, PushLocked, Enqueue, Longer
  <2>3. CASE /\ Len(frames) = Capacity
             /\ dropped' = dropped \cup {<<Head(frames), "oldest">>}
             /\ drop_total' = drop_total + 1
             /\ Enqueue(Tail(frames), f)
             /\ UNCHANGED rejected
    <3>1. Head(frames) \in Frames /\ Tail(frames) \in Seq(Frames)
          /\ Len(Tail(frames)) = Capacity - 1
      BY <2>3 DEF DataTypeOK
    <3>2. <<Head(frames), "oldest">> \in Frames \X DropReason
      BY <3>1 DEF DropReason
    <3>3. QED BY <2>1, <2>3, <3>1, <3>2 DEF DataTypeOK, PushLocked, Enqueue, Longer
  <2>4. CASE /\ dropped' = dropped \cup {<<f, "newest">>}
             /\ drop_total' = drop_total + 1
             /\ UNCHANGED <<frames, enqueue_total, high_watermark, rejected>>
    <3>1. <<f, "newest">> \in Frames \X DropReason
      BY DEF DropReason
    <3>2. QED BY <2>1, <2>4, <3>1 DEF DataTypeOK, PushLocked
  <2>5. CASE /\ rejected' \subseteq rejected \cup {f}
             /\ UNCHANGED <<frames, enqueue_total, drop_total, high_watermark,
                            dropped>>
    BY <2>1, <2>5 DEF DataTypeOK, PushLocked
  <2>6. QED BY <1>2, <2>2, <2>3, <2>4, <2>5 DEF PushOpen
<1>3. QED BY <1>1, <1>2 DEF PushLocked

\* A step that only moves one thread.
LEMMA StepType ==
    ASSUME TypeOK, NEW t \in Threads, NEW from, NEW to \in LabelsOf(t),
           Step(t, from, to)
    PROVE  TypeOK'
<1>1. PCTypeOK' BY GotoType DEF TypeOK, Step
<1>2. DataTypeOK' BY DEF TypeOK, Step, DataTypeOK, metrics, history
<1>3. QED BY <1>1, <1>2 DEF TypeOK

\* A dequeue by a consumer or a poller.
LEMMA DequeueType ==
    ASSUME TypeOK, NEW t \in Threads, NEW label \in LabelsOf(t),
           Dequeue(t, label)
    PROVE  TypeOK'
<1>1. PCTypeOK' BY NotifyOneType, WaitersAreCallers DEF TypeOK, Dequeue
<1>2. DataTypeOK' BY DEF TypeOK, Dequeue, DataTypeOK
<1>3. QED BY <1>1, <1>2 DEF TypeOK

\* A step of a thread inside push or record_drop.
LEMMA ProducerType ==
    ASSUME TypeOK, FrameInHand, NEW p \in Producers, ProducerStep(p)
    PROVE  TypeOK'
<1> USE DEF TypeOK
<1>0. p \in Threads /\ ProducerPC = LabelsOf(p)
  BY DEF Threads, LabelsOf
<1>1. CASE Push(p)
  <2>1. <<p, submitted[p] + 1>> \in Frames
    BY <1>1 DEF Push, DataTypeOK, Frames
  <2>2. submitted' \in [Producers -> 0..MaxPushes]
    BY <1>1 DEF Push, DataTypeOK
  <2>3. QED BY <1>1, <2>1, <2>2, PushLockedType DEF Push
<1>2. CASE PushWoken(p)
  <2>1. <<p, submitted[p]>> \in Frames
    BY <1>2 DEF DataTypeOK, Frames, FrameInHand, PushWoken
  <2>2. submitted' \in [Producers -> 0..MaxPushes]
    BY <1>2 DEF PushWoken, DataTypeOK
  <2>3. QED BY <1>2, <2>1, <2>2, PushLockedType DEF PushWoken
<1>3. CASE PushNotify(p)
  <2>1. PCTypeOK' BY <1>0, <1>3, NotifyOneType, WaitersAreCallers DEF PushNotify, ProducerPC
  <2>2. DataTypeOK' BY <1>3 DEF PushNotify, DataTypeOK, metrics, history
  <2>3. QED BY <2>1, <2>2
<1>4. CASE PushWake(p)
  <2>1. PCTypeOK' BY <1>0, <1>4, GotoType DEF PushWake, ProducerPC
  <2>2. DataTypeOK' BY <1>4 DEF PushWake, DataTypeOK, metrics, history
  <2>3. QED BY <2>1, <2>2
<1>5. CASE RecordDrop(p)
  <2>1. PCTypeOK' BY <1>5 DEF RecordDrop, PCTypeOK
  <2>2. <<<<p, submitted[p] + 1>>, "policy">> \in Frames \X DropReason
    BY <1>5 DEF RecordDrop, DataTypeOK, Frames, DropReason
  <2>3. dropped' \subseteq Frames \X DropReason
    <3>1. dropped \subseteq Frames \X DropReason BY DEF DataTypeOK
    <3>2. dropped' = dropped \cup {<<<<p, submitted[p] + 1>>, "policy">>}
      BY <1>5 DEF RecordDrop
    <3>3. QED BY <2>2, <3>1, <3>2, Zenon
  <2>4. DataTypeOK' BY <1>5, <2>3 DEF RecordDrop, DataTypeOK
  <2>5. QED BY <2>1, <2>4
<1>6. QED BY <1>1, <1>2, <1>3, <1>4, <1>5 DEF ProducerStep

\* A step of a thread inside pop.
LEMMA ConsumerType ==
    ASSUME TypeOK, NEW c \in Consumers, Pop(c)
    PROVE  TypeOK'
<1>0. c \in Threads /\ {"idle", "not_empty", "done"} \subseteq LabelsOf(c)
  BY DEF Threads, LabelsOf, ConsumerPC
<1>1. PICK at \in {"idle", "woken"} :
        \/ Dequeue(c, "idle")
        \/ Step(c, at, "done")
        \/ Step(c, at, "not_empty")
  BY DEF Pop
<1>2. QED BY <1>0, <1>1, DequeueType, StepType

\* A step of a node worker's polling loop.
LEMMA PollerType ==
    ASSUME TypeOK, NEW w \in Pollers, PollerStep(w)
    PROVE  TypeOK'
<1>0. w \in Threads /\ PollerPC = LabelsOf(w)
  BY DEF Threads, LabelsOf
<1>1. CASE PollObserve(w)
  <2>1. PCTypeOK' BY <1>0, <1>1, GotoType DEF PollObserve, PollerPC, TypeOK
  <2>2. DataTypeOK'
    BY <1>1 DEF PollObserve, TypeOK, DataTypeOK, metrics, history
  <2>3. QED BY <2>1, <2>2 DEF TypeOK
<1>2. CASE TryPop(w)
  BY <1>0, <1>2, DequeueType, StepType DEF TryPop, PollerPC
<1>3. CASE PollCheck(w)
  BY <1>0, <1>3, StepType DEF PollCheck, PollerPC
<1>4. CASE PollWake(w)
  BY <1>0, <1>4, StepType DEF PollWake, PollerPC
<1>5. QED BY <1>1, <1>2, <1>3, <1>4 DEF PollerStep

\* A step of a thread inside close.
LEMMA CloserType ==
    ASSUME TypeOK, NEW c \in Closers, CloserStep(c)
    PROVE  TypeOK'
<1> USE DEF TypeOK
<1>0. c \in Threads /\ CloserPC = LabelsOf(c)
  BY DEF Threads, LabelsOf
<1>1. ASSUME NEW mode \in DrainMode, Close(c, mode) PROVE TypeOK'
  <2>1. PCTypeOK' BY <1>0, <1>1, GotoType DEF Close, CloserPC
  <2>2. {<<frames[i], "shutdown">> : i \in DOMAIN frames}
          \subseteq Frames \X DropReason
    BY DEF DataTypeOK, DropReason
  <2>3. dropped' \subseteq Frames \X DropReason
    <3>1. dropped \subseteq Frames \X DropReason BY DEF DataTypeOK
    <3>2. \/ dropped' = dropped
          \/ dropped' = dropped \cup {<<frames[i], "shutdown">> : i \in DOMAIN frames}
      BY <1>1 DEF Close
    <3>3. QED BY <2>2, <3>1, <3>2, Zenon
  <2>4. /\ frames' \in Seq(Frames) /\ Len(frames') <= Capacity
        /\ drop_total' \in Nat
    <3>1. \/ frames' = frames /\ drop_total' = drop_total
          \/ frames' = <<>> /\ drop_total' = drop_total + Len(frames)
      BY <1>1 DEF Close
    <3>2. frames \in Seq(Frames) /\ Len(frames) <= Capacity /\ drop_total \in Nat
      BY DEF DataTypeOK
    <3>3. <<>> \in Seq(Frames) /\ Len(<<>>) = 0 /\ Len(frames) \in Nat
      BY <3>2
    <3>4. drop_total + Len(frames) \in Nat BY <3>2, <3>3
    <3>5. 0 <= Capacity OBVIOUS
    <3>6. CASE frames' = frames /\ drop_total' = drop_total
      BY <3>2, <3>6
    <3>7. CASE frames' = <<>> /\ drop_total' = drop_total + Len(frames)
      BY <3>3, <3>4, <3>5, <3>7
    <3>8. QED BY <3>1, <3>6, <3>7
  <2>5. DataTypeOK' BY <1>1, <2>3, <2>4 DEF Close, DataTypeOK
  <2>6. QED BY <2>1, <2>5
<1>2. CASE CloseNotifyNotEmpty(c)
  <2>1. PCTypeOK' BY <1>0, <1>2, NotifyAllType, WaitersAreCallers
    DEF CloseNotifyNotEmpty, CloserPC
  <2>2. DataTypeOK' BY <1>2 DEF CloseNotifyNotEmpty, DataTypeOK, metrics, history
  <2>3. QED BY <2>1, <2>2
<1>3. CASE CloseNotifyNotFull(c)
  <2>1. PCTypeOK' BY <1>0, <1>3, NotifyAllType, WaitersAreCallers
    DEF CloseNotifyNotFull, CloserPC
  <2>2. DataTypeOK' BY <1>3 DEF CloseNotifyNotFull, DataTypeOK, metrics, history
  <2>3. QED BY <2>1, <2>2
<1>4. CASE CloseWake(c)
  <2>1. PCTypeOK' BY <1>0, <1>4, GotoType DEF CloseWake, CloserPC
  <2>2. DataTypeOK' BY <1>4 DEF CloseWake, DataTypeOK, metrics, history
  <2>3. QED BY <2>1, <2>2
<1>5. QED BY <1>1, <1>2, <1>3, <1>4 DEF CloserStep

\* FrameInHand survives a move of one thread, unless that thread is a producer
\* moved to a waiting label.
LEMMA MoveKeepsFrameInHand ==
    ASSUME TypeOK, FrameInHand, NEW t \in Threads, NEW label,
           t \in Producers => label \notin {"not_full", "woken"},
           NEW waiters, waiters \subseteq NotFullWaiters \cup Consumers,
           \/ NotifyOneAndGoto(waiters, t, label)
           \/ NotifyAllAndGoto(waiters, t, label)
           \/ Goto(t, label),
           UNCHANGED submitted
    PROVE  FrameInHand'
BY DEF TypeOK, PCTypeOK, FrameInHand, NotifyOneAndGoto, NotifyAllAndGoto, Goto,
       NotFullWaiters, Threads

\* push increments submitted before it can block.
LEMMA PushKeepsFrameInHand ==
    ASSUME TypeOK, FrameInHand, NEW p \in Producers, NEW f, PushLocked(p, f),
           \/ submitted' = [submitted EXCEPT ![p] = @ + 1]
           \/ submitted[p] # 0 /\ UNCHANGED submitted
    PROVE  FrameInHand'
<1>1. \E label : Goto(p, label)
  BY DEF PushLocked, PushClosed, PushOpen
<1>2. submitted \in [Producers -> 0..MaxPushes] /\ pc \in [Threads -> ProducerPC \cup ConsumerPC \cup PollerPC \cup CloserPC]
  BY DEF TypeOK, DataTypeOK, PCTypeOK
<1>3. submitted'[p] # 0
  BY <1>2
<1>4. \A q \in Producers \ {p} : pc'[q] = pc[q] /\ submitted'[q] = submitted[q]
  BY <1>1, <1>2 DEF Goto, Threads
<1>5. QED BY <1>3, <1>4 DEF FrameInHand

\* The inductive invariant behind type correctness.
TypeInv == TypeOK /\ FrameInHand

LEMMA TypeInvInit == Init => TypeInv
<1> SUFFICES ASSUME Init PROVE TypeInv
  OBVIOUS
<1>1. PCTypeOK
  BY DEF Init, PCTypeOK, Threads, ProducerPC, ConsumerPC, PollerPC, CloserPC
<1>2. frames \in Seq(Frames) /\ got \in Seq(Frames) /\ Len(frames) = 0
  BY DEF Init
<1>3. DataTypeOK
  <2>1. /\ observed \in [Pollers -> Nat] /\ closes \in [Closers -> Nat]
        /\ submitted \in [Producers -> 0..MaxPushes]
    BY DEF Init
  <2>2. dropped \subseteq Frames \X DropReason /\ rejected \subseteq Frames
    BY DEF Init
  <2>3. closed \in BOOLEAN /\ overflow \in QueueOverflowPolicy
    BY Zenon DEF Init
  <2>4. /\ enqueue_total \in Nat /\ dequeue_total \in Nat /\ drop_total \in Nat
        /\ high_watermark \in 0..Capacity /\ generation \in Nat
    BY DEF Init
  <2>5. QED BY <1>2, <2>1, <2>2, <2>3, <2>4 DEF DataTypeOK
<1>4. FrameInHand
  BY DEF Init, FrameInHand, Threads
<1>5. QED BY <1>1, <1>3, <1>4 DEF TypeInv, TypeOK

LEMMA TypeInvStep == TypeInv /\ [Next]_vars => TypeInv'
<1> SUFFICES ASSUME TypeOK, FrameInHand, [Next]_vars PROVE TypeOK' /\ FrameInHand'
  BY DEF TypeInv
<1>1. ASSUME NEW p \in Producers, ProducerStep(p) PROVE TypeOK' /\ FrameInHand'
  <2>0. p \in Threads /\ TypeOK' BY <1>1, ProducerType DEF Threads
  <2>1. CASE Push(p) \/ PushWoken(p)
    BY <2>0, <2>1, PushKeepsFrameInHand DEF Push, PushWoken, FrameInHand
  <2>2. CASE PushNotify(p)
    BY <2>0, <2>2, MoveKeepsFrameInHand DEF PushNotify, NotEmptyWaiters
  <2>3. CASE PushWake(p)
    BY <2>0, <2>3, MoveKeepsFrameInHand DEF PushWake
  <2>4. CASE RecordDrop(p)
    BY <2>0, <2>4 DEF RecordDrop, FrameInHand, TypeOK, DataTypeOK
  <2>5. QED BY <1>1, <2>0, <2>1, <2>2, <2>3, <2>4 DEF ProducerStep
<1>2. ASSUME NEW c \in Consumers, Pop(c) PROVE TypeOK' /\ FrameInHand'
  <2>1. c \in Threads /\ c \notin Producers /\ TypeOK'
    BY <1>2, ConsumerType DEF Threads
  <2>2. QED BY <1>2, <2>1, MoveKeepsFrameInHand DEF Pop, Dequeue, Step
<1>3. ASSUME NEW w \in Pollers, PollerStep(w) PROVE TypeOK' /\ FrameInHand'
  <2>1. w \in Threads /\ w \notin Producers /\ TypeOK'
    BY <1>3, PollerType DEF Threads
  <2>2. QED BY <1>3, <2>1, MoveKeepsFrameInHand
    DEF PollerStep, PollObserve, TryPop, PollCheck, PollWake, Dequeue, Step
<1>4. ASSUME NEW c \in Closers, CloserStep(c) PROVE TypeOK' /\ FrameInHand'
  <2>1. c \in Threads /\ c \notin Producers /\ TypeOK'
    BY <1>4, CloserType DEF Threads
  <2>2. QED BY <1>4, <2>1, MoveKeepsFrameInHand
    DEF CloserStep, Close, CloseNotifyNotEmpty, CloseNotifyNotFull, CloseWake,
        NotEmptyWaiters
<1>5. ASSUME NEW t \in Producers \cup Consumers, SpuriousWakeup(t)
      PROVE TypeOK' /\ FrameInHand'
  <2>1. t \in Threads /\ "woken" \in LabelsOf(t)
    BY DEF Threads, LabelsOf, ProducerPC, ConsumerPC
  <2>2. TypeOK' BY <1>5, <2>1, StepType DEF SpuriousWakeup
  <2>3. FrameInHand'
    <3>1. /\ pc[t] \in {"not_full", "not_empty"}
          /\ pc' = [pc EXCEPT ![t] = "woken"] /\ submitted' = submitted
      BY <1>5 DEF SpuriousWakeup, Step, Goto
    <3>2. t \in Producers => pc[t] # "not_empty"
      BY DEF TypeOK, PCTypeOK, ProducerPC
    <3>3. QED BY <2>1, <3>1, <3>2 DEF FrameInHand, TypeOK, PCTypeOK
  <2>4. QED BY <2>2, <2>3
<1>6. CASE UNCHANGED vars
  BY <1>6 DEF vars, metrics, history, TypeOK, DataTypeOK, PCTypeOK, FrameInHand
<1>7. QED BY <1>1, <1>2, <1>3, <1>4, <1>5, <1>6 DEF Next

\* Whatever the threads do, the queue keeps its type and never holds more
\* frames than its declared capacity.
THEOREM TypeCorrect == Spec => []TypeOK
<1>1. TypeInv => TypeOK BY DEF TypeInv
<1>2. QED BY TypeInvInit, TypeInvStep, <1>1, PTL DEF Spec

----------------------------------------------------------------------------
(* Waiters and close.                                                      *)

\* Once closed, moving a thread that is not a closer about to notify, to a
\* label that is not a wait, starts no wait and cancels no notification.
LEMMA MoveStartsNoWait ==
    ASSUME TypeOK, NoWaiterAfterClose, closed' = closed,
           NEW t \in Threads, NEW label \in LabelsOf(t),
           closed => label \notin {"not_full", "not_empty"},
           t \in Closers => pc[t] \notin {"all_not_empty", "all_not_full"},
           NEW waiters, waiters \subseteq Producers \cup Consumers,
           NotifyOneAndGoto(waiters, t, label) \/ Goto(t, label)
    PROVE  NoWaiterAfterClose'
<1> SUFFICES ASSUME closed PROVE NoWaiterAfterClose'
  BY DEF NoWaiterAfterClose
<1>1. \A u \in Threads : pc'[u] \in {pc[u], "woken", label}
  BY DEF NotifyOneAndGoto, Goto, TypeOK, PCTypeOK
<1>2. NotEmptyWaiters' \subseteq NotEmptyWaiters /\ NotFullWaiters' \subseteq NotFullWaiters
  BY <1>1 DEF NotEmptyWaiters, NotFullWaiters, Threads
<1>3. \A x \in Closers \ {t} : pc'[x] = pc[x]
  BY DEF NotifyOneAndGoto, Goto, TypeOK, PCTypeOK, Threads
<1>4. QED BY <1>2, <1>3 DEF NoWaiterAfterClose, ClosingAt

LEMMA NoWaiterAfterCloseStep ==
    TypeInv /\ NoWaiterAfterClose /\ [Next]_vars => NoWaiterAfterClose'
<1> SUFFICES ASSUME TypeOK, NoWaiterAfterClose, [Next]_vars
             PROVE  NoWaiterAfterClose'
  BY DEF TypeInv
<1> USE WaitersAreCallers
<1>1. ASSUME NEW p \in Producers, ProducerStep(p) PROVE NoWaiterAfterClose'
  <2>0. p \in Threads /\ LabelsOf(p) = ProducerPC /\ p \notin Closers
    BY DEF Threads, LabelsOf
  <2>1. CASE Push(p) \/ PushWoken(p)
    <3>1. PICK f : PushLocked(p, f) BY <2>1 DEF Push, PushWoken
    <3>2. CASE closed /\ PushClosed(p, f)
      BY <2>0, <3>1, <3>2, MoveStartsNoWait DEF PushLocked, PushClosed, ProducerPC
    <3>3. CASE ~closed
      BY <3>1, <3>3 DEF PushLocked, NoWaiterAfterClose
    <3>4. QED BY <3>1, <3>2, <3>3 DEF PushLocked
  <2>2. CASE PushNotify(p) \/ PushWake(p)
    BY <2>0, <2>2, MoveStartsNoWait DEF PushNotify, PushWake, ProducerPC
  <2>3. CASE RecordDrop(p)
    BY <2>3 DEF RecordDrop, NoWaiterAfterClose, NotEmptyWaiters, NotFullWaiters, ClosingAt
  <2>4. QED BY <1>1, <2>1, <2>2, <2>3 DEF ProducerStep
<1>2. ASSUME NEW c \in Consumers, Pop(c) PROVE NoWaiterAfterClose'
  <2>0. c \in Threads /\ LabelsOf(c) = ConsumerPC /\ c \notin Closers
    BY DEF Threads, LabelsOf
  <2>1. QED BY <1>2, <2>0, MoveStartsNoWait DEF Pop, Dequeue, Step, ConsumerPC
<1>3. ASSUME NEW w \in Pollers, PollerStep(w) PROVE NoWaiterAfterClose'
  <2>0. w \in Threads /\ LabelsOf(w) = PollerPC /\ w \notin Closers
    BY DEF Threads, LabelsOf
  <2>1. QED BY <1>3, <2>0, MoveStartsNoWait
    DEF PollerStep, PollObserve, TryPop, PollCheck, PollWake, Dequeue, Step, PollerPC
<1>4. ASSUME NEW c \in Closers, CloserStep(c) PROVE NoWaiterAfterClose'
  <2>0. c \in Threads /\ LabelsOf(c) = CloserPC /\ c \notin Producers \cup Consumers
    BY DEF Threads, LabelsOf
  <2>1. ASSUME NEW mode \in DrainMode, Close(c, mode) PROVE NoWaiterAfterClose'
    <3>1. pc'[c] = "all_not_empty"
      BY <2>0, <2>1 DEF Close, Goto, TypeOK, PCTypeOK
    <3>2. QED BY <3>1 DEF NoWaiterAfterClose, ClosingAt
  <2>2. CASE CloseNotifyNotEmpty(c)
    <3>1. NotEmptyWaiters' = {}
      BY <2>0, <2>2 DEF CloseNotifyNotEmpty, NotifyAllAndGoto, NotEmptyWaiters, Threads
    <3>2. pc'[c] = "all_not_full"
      BY <2>0, <2>2 DEF CloseNotifyNotEmpty, NotifyAllAndGoto, NotEmptyWaiters
    <3>3. QED BY <3>1, <3>2 DEF NoWaiterAfterClose, ClosingAt
  <2>3. CASE CloseNotifyNotFull(c)
    <3>1. NotFullWaiters' = {}
      BY <2>0, <2>3 DEF CloseNotifyNotFull, NotifyAllAndGoto, NotFullWaiters, Threads
    <3>2. /\ NotEmptyWaiters' = NotEmptyWaiters
          /\ ClosingAt({"all_not_empty"})' = ClosingAt({"all_not_empty"})
      BY <2>0, <2>3 DEF CloseNotifyNotFull, NotifyAllAndGoto, NotFullWaiters,
                        NotEmptyWaiters, ClosingAt, Threads
    <3>3. QED BY <2>3, <3>1, <3>2 DEF NoWaiterAfterClose, CloseNotifyNotFull
  <2>4. CASE CloseWake(c)
    BY <2>0, <2>4, MoveStartsNoWait DEF CloseWake, CloserPC
  <2>5. QED BY <1>4, <2>1, <2>2, <2>3, <2>4 DEF CloserStep
<1>5. ASSUME NEW t \in Producers \cup Consumers, SpuriousWakeup(t)
      PROVE NoWaiterAfterClose'
  <2>1. t \in Threads /\ "woken" \in LabelsOf(t) /\ t \notin Closers
    BY DEF Threads, LabelsOf, ProducerPC, ConsumerPC
  <2>2. QED BY <1>5, <2>1, MoveStartsNoWait DEF SpuriousWakeup, Step
<1>6. CASE UNCHANGED vars
  BY <1>6 DEF vars, NoWaiterAfterClose, NotEmptyWaiters, NotFullWaiters, ClosingAt
<1>7. QED BY <1>1, <1>2, <1>3, <1>4, <1>5, <1>6 DEF Next

\* After close has notified, no thread is left in not_empty.wait or
\* not_full.wait, for any number of threads and closers.
THEOREM CloseStrandsNobody == Spec => []NoWaiterAfterClose
<1>1. Init => NoWaiterAfterClose
  BY DEF Init, NoWaiterAfterClose
<1>2. QED BY <1>1, TypeInvInit, TypeInvStep, NoWaiterAfterCloseStep, PTL DEF Spec

----------------------------------------------------------------------------
(* The node worker's sleep.                                                *)

\* Producers that enqueued and have still to bump the generation, and closers
\* that set `closed` and have still to do so.
PendingWakes == {p \in Producers : pc[p] \in {"notify_one", "wake"}}
Closing      == ClosingAt({"all_not_empty", "all_not_full", "wake"})

\* NoMissedWake is not inductive: the worker falls asleep after it polled, so
\* what it will rely on must hold from the moment the poll found nothing.  A
\* worker that polled an already closed queue found it empty for good and
\* leaves instead of sleeping.
WakeInv ==
    \A w \in Pollers :
        /\ observed[w] <= generation
        /\ pc[w] \in {"check", "asleep"} /\ observed[w] = generation =>
              /\ frames # <<>> => PendingWakes # {}
              /\ closed => Closing # {} \/ (pc[w] = "check" /\ frames = <<>>)

\* A step that takes back no promised wake-up, refills no closed queue and lets
\* no worker finish a poll keeps the invariant.
LEMMA PromisesKept ==
    ASSUME TypeOK, WakeInv, UNCHANGED <<generation, observed>>,
           PendingWakes \subseteq PendingWakes', Closing \subseteq Closing',
           frames' # <<>> => frames # <<>> \/ PendingWakes' # {},
           closed' => closed \/ Closing' # {},
           closed /\ frames = <<>> => frames' = <<>>,
           \A w \in Pollers : pc'[w] = pc[w] \/ pc'[w] \notin {"check", "asleep"}
    PROVE  WakeInv'
BY DEF WakeInv

\* A bump of the generation makes every worker's observation stale.
LEMMA BumpWakesEveryone ==
    ASSUME TypeOK, WakeInv, generation' = generation + 1, UNCHANGED observed
    PROVE  WakeInv'
<1>1. generation \in Nat /\ observed \in [Pollers -> Nat]
  BY DEF TypeOK, DataTypeOK
<1>2. \A w \in Pollers : observed'[w] < generation'
  BY <1>1 DEF WakeInv
<1>3. QED BY <1>1, <1>2 DEF WakeInv

\* Moving a thread that owes no wake-up, and notifying others, takes nothing
\* back.
LEMMA MoveKeepsPromises ==
    ASSUME TypeOK, NEW t \in Threads, NEW label,
           t \notin PendingWakes \cup Closing,
           NEW waiters, waiters \subseteq NotFullWaiters \cup NotEmptyWaiters,
           \/ NotifyOneAndGoto(waiters, t, label)
           \/ Goto(t, label)
    PROVE  /\ PendingWakes \subseteq PendingWakes' /\ Closing \subseteq Closing'
           /\ \A w \in Pollers \ {t} : pc'[w] = pc[w]
           /\ pc'[t] \in {label, "woken"}
<1>1. pc \in [Threads -> ProducerPC \cup ConsumerPC \cup PollerPC \cup CloserPC]
  BY DEF TypeOK, PCTypeOK
<1>2. \A u \in Threads \ {t} :
          \/ pc'[u] = pc[u]
          \/ pc[u] \in {"not_full", "not_empty"} /\ u \in Producers \cup Consumers
  BY <1>1 DEF NotifyOneAndGoto, Goto, NotFullWaiters, NotEmptyWaiters
<1>3. PendingWakes \subseteq PendingWakes'
  BY <1>2 DEF PendingWakes, Threads
<1>4. Closing \subseteq Closing'
  BY <1>2 DEF Closing, ClosingAt, Threads
<1>5. \A w \in Pollers \ {t} : pc'[w] = pc[w]
  BY <1>2 DEF Threads
<1>6. pc'[t] \in {label, "woken"}
  BY <1>1 DEF NotifyOneAndGoto, Goto
<1>7. QED BY <1>3, <1>4, <1>5, <1>6

LEMMA ProducerKeepsWakeInv ==
    ASSUME TypeOK, WakeInv, NEW p \in Producers, ProducerStep(p)
    PROVE  WakeInv'
<1>0. p \in Threads /\ p \notin Pollers /\ p \notin Closing
  BY DEF Threads, Closing, ClosingAt
<1>1. CASE Push(p) \/ PushWoken(p)
  <2>1. PICK f : PushLocked(p, f) BY <1>1 DEF Push, PushWoken
  <2>2. p \notin PendingWakes BY <1>1 DEF Push, PushWoken, PendingWakes
  <2>3. PICK label : Goto(p, label)
    BY <2>1 DEF PushLocked, PushClosed, PushOpen
  <2>4. /\ PendingWakes \subseteq PendingWakes' /\ Closing \subseteq Closing'
        /\ \A w \in Pollers : pc'[w] = pc[w]
    BY <1>0, <2>2, <2>3, MoveKeepsPromises
  <2>5. frames' = frames \/ (~closed /\ p \in PendingWakes')
    <3>1. frames' = frames \/ (~closed /\ Goto(p, "notify_one"))
      BY <2>1 DEF PushLocked, PushClosed, PushOpen
    <3>2. QED BY <1>0, <3>1 DEF Goto, PendingWakes, TypeOK, PCTypeOK
  <2>6. QED BY <2>1, <2>4, <2>5, PromisesKept DEF PushLocked
<1>2. CASE PushNotify(p)
  <2>1. /\ PendingWakes \subseteq PendingWakes' /\ Closing \subseteq Closing'
        /\ \A w \in Pollers : pc'[w] = pc[w]
    BY <1>0, <1>2 DEF PushNotify, NotifyOneAndGoto, Goto, NotEmptyWaiters,
       PendingWakes, Closing, ClosingAt, TypeOK, PCTypeOK, Threads
  <2>2. QED BY <1>2, <2>1, PromisesKept DEF PushNotify
<1>3. CASE PushWake(p)
  BY <1>3, BumpWakesEveryone DEF PushWake
<1>4. CASE RecordDrop(p)
  <2>1. PendingWakes' = PendingWakes /\ Closing' = Closing
    BY <1>4 DEF RecordDrop, PendingWakes, Closing, ClosingAt
  <2>2. QED BY <1>4, <2>1, PromisesKept DEF RecordDrop
<1>5. QED BY <1>1, <1>2, <1>3, <1>4 DEF ProducerStep

\* A dequeue leaves a frame behind only if there was one before it.
LEMMA DequeueKeepsWakeInv ==
    ASSUME TypeOK, WakeInv, NEW t \in Consumers \cup Pollers, NEW label,
           label \notin {"check", "asleep"}, Dequeue(t, label)
    PROVE  WakeInv'
<1>1. t \in Threads /\ t \notin PendingWakes \cup Closing
  BY DEF Threads, PendingWakes, Closing, ClosingAt
<1>2. /\ PendingWakes \subseteq PendingWakes' /\ Closing \subseteq Closing'
      /\ \A w \in Pollers \ {t} : pc'[w] = pc[w]
      /\ pc'[t] \in {label, "woken"}
  BY <1>1, MoveKeepsPromises DEF Dequeue
<1>3. QED BY <1>2, PromisesKept DEF Dequeue

\* A thread that owes no wake-up moves to a label outside the worker's sleep.
LEMMA StepKeepsWakeInv ==
    ASSUME TypeOK, WakeInv, NEW t \in Threads, t \notin PendingWakes \cup Closing,
           NEW from, NEW to, to \notin {"check", "asleep"}, Step(t, from, to)
    PROVE  WakeInv'
<1>1. /\ PendingWakes \subseteq PendingWakes' /\ Closing \subseteq Closing'
      /\ \A w \in Pollers \ {t} : pc'[w] = pc[w]
      /\ pc'[t] \in {to, "woken"}
  BY MoveKeepsPromises DEF Step
<1>2. QED BY <1>1, PromisesKept DEF Step

LEMMA PollerKeepsWakeInv ==
    ASSUME TypeOK, WakeInv, NEW w \in Pollers, PollerStep(w)
    PROVE  WakeInv'
<1>0. w \in Threads /\ w \notin PendingWakes \cup Closing
  BY DEF Threads, PendingWakes, Closing, ClosingAt
<1>1. ASSUME NEW label, Goto(w, label)
      PROVE  /\ pc'[w] = label /\ \A v \in Pollers \ {w} : pc'[v] = pc[v]
             /\ PendingWakes' = PendingWakes /\ Closing' = Closing
  BY <1>0, <1>1 DEF Goto, PendingWakes, Closing, ClosingAt, TypeOK, PCTypeOK, Threads
<1>2. CASE PollObserve(w)
  <2>1. generation \in Nat /\ observed \in [Pollers -> Nat]
    BY DEF TypeOK, DataTypeOK
  <2>2. /\ pc'[w] = "poll" /\ \A v \in Pollers \ {w} : pc'[v] = pc[v]
        /\ PendingWakes' = PendingWakes /\ Closing' = Closing
    BY <1>1, <1>2 DEF PollObserve
  <2>3. QED BY <1>2, <2>1, <2>2 DEF PollObserve, WakeInv
<1>3. CASE pc[w] = "poll" /\ Dequeue(w, "observe")
  BY <1>3, DequeueKeepsWakeInv
<1>4. CASE frames = <<>> /\ Step(w, "poll", "check")
  <2>1. /\ pc'[w] = "check" /\ \A v \in Pollers \ {w} : pc'[v] = pc[v]
        /\ PendingWakes' = PendingWakes /\ Closing' = Closing
    BY <1>1, <1>4 DEF Step
  <2>2. QED BY <1>4, <2>1 DEF Step, WakeInv
<1>5. CASE Step(w, "check", "done") \/ Step(w, "asleep", "observe")
  BY <1>0, <1>5, StepKeepsWakeInv
<1>6. CASE ~(closed /\ frames = <<>>) /\ Step(w, "check", "asleep")
  <2>1. /\ pc[w] = "check" /\ pc'[w] = "asleep"
        /\ \A v \in Pollers \ {w} : pc'[v] = pc[v]
        /\ PendingWakes' = PendingWakes /\ Closing' = Closing
    BY <1>1, <1>6 DEF Step
  <2>2. QED BY <1>6, <2>1 DEF Step, WakeInv
<1>7. QED BY <1>2, <1>3, <1>4, <1>5, <1>6
          DEF PollerStep, TryPop, PollCheck, PollWake

LEMMA CloserKeepsWakeInv ==
    ASSUME TypeOK, WakeInv, NEW c \in Closers, CloserStep(c)
    PROVE  WakeInv'
<1>0. c \in Threads /\ c \notin Pollers /\ c \notin Producers \cup Consumers
  BY DEF Threads
<1>1. ASSUME NEW mode \in DrainMode, Close(c, mode) PROVE WakeInv'
  <2>1. c \notin PendingWakes \cup Closing
    BY <1>0, <1>1 DEF Close, PendingWakes, Closing, ClosingAt
  <2>2. /\ PendingWakes \subseteq PendingWakes' /\ Closing \subseteq Closing'
        /\ \A w \in Pollers : pc'[w] = pc[w]
    BY <1>0, <1>1, <2>1, MoveKeepsPromises DEF Close
  <2>3. c \in Closing'
    BY <1>0, <1>1 DEF Close, Goto, Closing, ClosingAt, TypeOK, PCTypeOK
  <2>4. QED BY <1>1, <2>2, <2>3, PromisesKept DEF Close
<1>2. CASE CloseNotifyNotEmpty(c) \/ CloseNotifyNotFull(c)
  <2>1. /\ PendingWakes \subseteq PendingWakes' /\ Closing \subseteq Closing'
        /\ \A w \in Pollers : pc'[w] = pc[w]
    BY <1>0, <1>2 DEF CloseNotifyNotEmpty, CloseNotifyNotFull, NotifyAllAndGoto,
       NotEmptyWaiters, NotFullWaiters, PendingWakes, Closing, ClosingAt, Threads
  <2>2. QED BY <1>2, <2>1, PromisesKept DEF CloseNotifyNotEmpty, CloseNotifyNotFull
<1>3. CASE CloseWake(c)
  BY <1>3, BumpWakesEveryone DEF CloseWake
<1>4. QED BY <1>1, <1>2, <1>3 DEF CloserStep, CloseNotifyNotEmpty

LEMMA WakeInvStep == TypeInv /\ WakeInv /\ [Next]_vars => WakeInv'
<1> SUFFICES ASSUME TypeOK, WakeInv, [Next]_vars PROVE WakeInv'
  BY DEF TypeInv
<1>1. ASSUME NEW c \in Consumers, Pop(c) PROVE WakeInv'
  <2>1. c \in Threads /\ c \notin PendingWakes \cup Closing
    BY DEF Threads, PendingWakes, Closing, ClosingAt
  <2>2. QED BY <1>1, <2>1, DequeueKeepsWakeInv, StepKeepsWakeInv DEF Pop
<1>2. ASSUME NEW t \in Producers \cup Consumers, SpuriousWakeup(t) PROVE WakeInv'
  <2>1. t \in Threads /\ t \notin PendingWakes \cup Closing
    BY <1>2 DEF SpuriousWakeup, Step, Threads, PendingWakes, Closing, ClosingAt
  <2>2. QED BY <1>2, <2>1, StepKeepsWakeInv DEF SpuriousWakeup
<1>3. CASE UNCHANGED vars
  BY <1>3 DEF vars, WakeInv, PendingWakes, Closing, ClosingAt
<1>4. QED BY <1>1, <1>2, <1>3, ProducerKeepsWakeInv, PollerKeepsWakeInv,
             CloserKeepsWakeInv DEF Next

\* A node worker never sleeps through a frame or a close: whoever enqueued the
\* frame, or closed the queue, is still going to change the generation it
\* sleeps on.
THEOREM WorkerNeverOversleeps == Spec => []NoMissedWake
<1>1. Init => WakeInv
  BY DEF Init, WakeInv, Threads
<1>2. WakeInv => NoMissedWake
  BY DEF WakeInv, NoMissedWake, PendingWakes, Closing
<1>3. QED BY <1>1, <1>2, TypeInvInit, TypeInvStep, WakeInvStep, PTL DEF Spec

----------------------------------------------------------------------------
(* A closed queue.                                                         *)

\* Once closed, a queue stays closed, accepts nothing and only shrinks: no
\* blocked push enqueues after close, and no later Drain revives what a
\* Discard dropped.
THEOREM NothingEntersAfterClose == Spec => ClosedOnlyShrinks
<1> DEFINE Shrinks == closed' /\ Len(frames') <= Len(frames)
                      /\ enqueue_total' = enqueue_total
<1>1. ASSUME TypeOK, closed, [Next]_vars PROVE Shrinks
  <2>0. frames \in Seq(Frames) /\ Len(frames) \in Nat
    BY <1>1 DEF TypeOK, DataTypeOK
  <2>1. ASSUME UNCHANGED <<closed, frames, enqueue_total>> PROVE Shrinks
    BY <1>1, <2>0, <2>1
  <2>2. ASSUME NEW t, NEW label, Dequeue(t, label) PROVE Shrinks
    <3>1. Len(Tail(frames)) = Len(frames) - 1
      BY <2>0, <2>2 DEF Dequeue
    <3>2. QED BY <1>1, <2>0, <2>2, <3>1 DEF Dequeue
  <2>3. ASSUME NEW t, NEW from, NEW to, Step(t, from, to) PROVE Shrinks
    BY <2>1, <2>3 DEF Step, metrics
  <2>4. ASSUME NEW p \in Producers, ProducerStep(p) PROVE Shrinks
    <3>1. ASSUME NEW f, PushLocked(p, f)
          PROVE  UNCHANGED <<closed, frames, enqueue_total>>
      BY <1>1, <3>1, Zenon DEF PushLocked, PushClosed
    <3>2. CASE Push(p) \/ PushWoken(p)
      BY <2>1, <3>1, <3>2, Zenon DEF Push, PushWoken
    <3>3. CASE PushNotify(p) \/ PushWake(p) \/ RecordDrop(p)
      BY <2>1, <3>3 DEF PushNotify, PushWake, RecordDrop, metrics
    <3>4. QED BY <2>4, <3>2, <3>3, Zenon DEF ProducerStep
  <2>5. ASSUME NEW w \in Pollers, PollerStep(w) PROVE Shrinks
    <3>1. CASE PollObserve(w)
      BY <2>1, <3>1 DEF PollObserve, metrics
    <3>2. QED BY <2>2, <2>3, <2>5, <3>1, Zenon
              DEF PollerStep, TryPop, PollCheck, PollWake
  <2>6. ASSUME NEW c \in Closers, CloserStep(c) PROVE Shrinks
    <3>1. ASSUME NEW mode \in DrainMode, Close(c, mode) PROVE Shrinks
      <4>1. closed' /\ enqueue_total' = enqueue_total
            /\ (frames' = frames \/ frames' = <<>>)
        BY <3>1, Zenon DEF Close
      <4>2. Len(<<>>) <= Len(frames) /\ Len(frames) <= Len(frames)
        BY <2>0
      <4>3. QED BY <4>1, <4>2, Zenon
    <3>2. CASE CloseNotifyNotEmpty(c) \/ CloseNotifyNotFull(c) \/ CloseWake(c)
      BY <2>1, <3>2 DEF CloseNotifyNotEmpty, CloseNotifyNotFull, CloseWake, metrics
    <3>3. QED BY <2>6, <3>1, <3>2, Zenon DEF CloserStep
  <2>7. CASE UNCHANGED vars
    BY <2>1, <2>7 DEF vars, metrics
  <2>8. QED BY <1>1, <2>2, <2>3, <2>4, <2>5, <2>6, <2>7, Zenon
            DEF Next, Pop, SpuriousWakeup
<1>2. TypeInv /\ [Next]_vars => [closed => Shrinks]_vars
  BY <1>1 DEF TypeInv
<1>3. QED BY <1>2, TypeInvInit, TypeInvStep, PTL DEF Spec, ClosedOnlyShrinks

----------------------------------------------------------------------------
(* The queue implements EdgeChannel.                                       *)

\* push with the lock held is a Send, an Overwrite or a stutter.
LEMMA PushLockedRefines ==
    ASSUME TypeOK, NEW p \in Producers, NEW f \in Frames, PushLocked(p, f)
    PROVE  [Channel!Next]_(Channel!vars)
<1>1. CASE closed /\ PushClosed(p, f)
  BY <1>1 DEF PushLocked, PushClosed, Channel!vars
<1>2. CASE ~closed /\ PushOpen(p, f)
  <2>1. CASE Len(frames) < Capacity /\ Enqueue(frames, f)
    <3>1. Channel!Send(f)
      BY <1>2, <2>1 DEF PushLocked, Enqueue, Channel!Send
    <3>2. QED BY <3>1 DEF Channel!Next
  <2>2. CASE Len(frames) = Capacity /\ Enqueue(Tail(frames), f)
    <3>1. Channel!Overwrite(f)
      BY <1>2, <2>2 DEF PushLocked, Enqueue, Channel!Overwrite
    <3>2. QED BY <3>1 DEF Channel!Next
  <2>3. CASE UNCHANGED frames
    BY <2>3 DEF PushLocked, Channel!vars
  <2>4. QED BY <1>2, <2>1, <2>2, <2>3 DEF PushOpen
<1>3. QED BY <1>1, <1>2 DEF PushLocked

LEMMA ChannelStep == TypeInv /\ [Next]_vars => [Channel!Next]_(Channel!vars)
<1> SUFFICES ASSUME TypeOK, FrameInHand, [Next]_vars
             PROVE  [Channel!Next]_(Channel!vars)
  BY DEF TypeInv
<1>1. ASSUME NEW p \in Producers, ProducerStep(p)
      PROVE  [Channel!Next]_(Channel!vars)
  <2>1. CASE Push(p)
    <3>1. <<p, submitted[p] + 1>> \in Frames
      BY <2>1 DEF Push, TypeOK, DataTypeOK, Frames
    <3>2. QED BY <2>1, <3>1, PushLockedRefines DEF Push
  <2>2. CASE PushWoken(p)
    <3>1. <<p, submitted[p]>> \in Frames
      BY <2>2 DEF TypeOK, DataTypeOK, Frames, FrameInHand, PushWoken
    <3>2. QED BY <2>2, <3>1, PushLockedRefines DEF PushWoken
  <2>3. CASE PushNotify(p) \/ PushWake(p) \/ RecordDrop(p)
    BY <2>3 DEF PushNotify, PushWake, RecordDrop, history, Channel!vars
  <2>4. QED BY <1>1, <2>1, <2>2, <2>3 DEF ProducerStep
<1>2. ASSUME NEW t, NEW label, Dequeue(t, label)
      PROVE  [Channel!Next]_(Channel!vars)
  <2>1. Channel!Receive BY <1>2 DEF Dequeue, Channel!Receive
  <2>2. QED BY <2>1 DEF Channel!Next
<1>3. ASSUME NEW t, NEW from, NEW to, Step(t, from, to)
      PROVE  [Channel!Next]_(Channel!vars)
  BY <1>3 DEF Step, history, Channel!vars
<1>4. ASSUME NEW c \in Consumers, Pop(c)
      PROVE  [Channel!Next]_(Channel!vars)
  BY <1>2, <1>3, <1>4 DEF Pop
<1>5. ASSUME NEW w \in Pollers, PollerStep(w)
      PROVE  [Channel!Next]_(Channel!vars)
  <2>1. CASE PollObserve(w)
    BY <2>1 DEF PollObserve, history, Channel!vars
  <2>2. QED BY <1>2, <1>3, <1>5, <2>1 DEF PollerStep, TryPop, PollCheck, PollWake
<1>6. ASSUME NEW c \in Closers, CloserStep(c)
      PROVE  [Channel!Next]_(Channel!vars)
  <2>1. ASSUME NEW mode \in DrainMode, Close(c, mode)
        PROVE  [Channel!Next]_(Channel!vars)
    <3>1. frames' \in {frames, <<>>} /\ closed' = TRUE /\ UNCHANGED got
      BY <2>1 DEF Close
    <3>2. Channel!Close BY <3>1 DEF Channel!Close
    <3>3. QED BY <3>2 DEF Channel!Next
  <2>2. QED BY <1>6, <2>1 DEF CloserStep, CloseNotifyNotEmpty,
               CloseNotifyNotFull, CloseWake, history, Channel!vars
<1>7. ASSUME NEW t, SpuriousWakeup(t) PROVE [Channel!Next]_(Channel!vars)
  BY <1>3, <1>7 DEF SpuriousWakeup
<1>8. CASE UNCHANGED vars
  BY <1>8 DEF vars, history, Channel!vars
<1>9. QED BY <1>1, <1>4, <1>5, <1>6, <1>7, <1>8 DEF Next

\* The queue of queue.rs, with its locks, notifications and overflow policies,
\* is the bounded FIFO channel the Edge promises its endpoints.
THEOREM Refinement == Spec => ImplementsChannel
<1>1. Init => Channel!Init
  BY DEF Init, Channel!Init
<1>2. QED BY <1>1, TypeInvInit, TypeInvStep, ChannelStep, PTL
          DEF Spec, ImplementsChannel, Channel!Spec

----------------------------------------------------------------------------
(* Notifications and the waiters they are owed to.                         *)

\* Sets of threads of one role can be counted.
LEMMA RolesAreFinite ==
    ASSUME NEW S, S \subseteq Producers \/ S \subseteq Consumers
    PROVE  IsFiniteSet(S) /\ Cardinality(S) \in Nat
<1>1. IsFiniteSet(S) BY FS_Subset
<1>2. QED BY <1>1, FS_CardinalityType

LEMMA NotificationNumbers ==
    /\ IsFiniteSet(PendingNotifies) /\ IsFiniteSet(WokenConsumers)
    /\ Cardinality(PendingNotifies) \in Nat /\ Cardinality(PendingNotifies') \in Nat
    /\ Cardinality(WokenConsumers) \in Nat /\ Cardinality(WokenConsumers') \in Nat
<1>1. /\ PendingNotifies \subseteq Producers /\ PendingNotifies' \subseteq Producers
      /\ WokenConsumers \subseteq Consumers /\ WokenConsumers' \subseteq Consumers
  BY DEF PendingNotifies, WokenConsumers
<1>2. QED BY <1>1, RolesAreFinite

\* A step that adds no frame and takes neither a notification nor a woken
\* consumer away, and starts no wait.
LEMMA NothingMoreIsOwed ==
    ASSUME TypeOK, NoLostNotification,
           frames' = frames \/ frames' = <<>> \/ (frames # <<>> /\ frames' = Tail(frames)),
           PendingNotifies' = PendingNotifies, WokenConsumers' = WokenConsumers,
           NotEmptyWaiters' \subseteq NotEmptyWaiters
    PROVE  NoLostNotification'
<1>1. frames \in Seq(Frames) BY DEF TypeOK, DataTypeOK
<1>2. Len(frames') <= Len(frames) /\ Len(frames') \in Nat /\ Len(frames) \in Nat
  <2>1. CASE frames' = frames BY <1>1, <2>1
  <2>2. CASE frames' = <<>> BY <1>1, <2>2
  <2>3. CASE frames # <<>> /\ frames' = Tail(frames) BY <1>1, <2>3
  <2>4. QED BY <2>1, <2>2, <2>3
<1>3. QED BY <1>2, NotificationNumbers DEF NoLostNotification

\* push: one more frame, one more notification to come.
LEMMA PushOwesOne ==
    ASSUME TypeOK, NoLostNotification, NEW p \in Producers, NEW f, PushLocked(p, f),
           pc[p] \in {"idle", "woken"}
    PROVE  NoLostNotification'
<1>0. p \in Threads /\ p \notin Consumers /\ frames \in Seq(Frames)
      /\ pc \in [Threads -> ProducerPC \cup ConsumerPC \cup PollerPC \cup CloserPC]
  BY DEF Threads, TypeOK, DataTypeOK, PCTypeOK
<1>1. PICK label : Goto(p, label) /\ (label = "notify_one" \/ frames' = frames)
                   /\ label \in ProducerPC
  BY DEF PushLocked, PushClosed, PushOpen, ProducerPC
<1>2. NotEmptyWaiters' = NotEmptyWaiters /\ WokenConsumers' = WokenConsumers
  BY <1>0, <1>1 DEF NotEmptyWaiters, WokenConsumers, Goto, Threads
<1>3. CASE label = "notify_one"
  <2>1. p \notin PendingNotifies /\ p \in PendingNotifies'
        /\ \A v : v # p => (v \in PendingNotifies' <=> v \in PendingNotifies)
    BY <1>0, <1>1, <1>3 DEF PendingNotifies, Goto, Threads
  <2>2. Cardinality(PendingNotifies') = Cardinality(PendingNotifies) + 1
    BY <2>1, CountOneMove, NotificationNumbers
  <2>3. Len(frames') <= Len(frames) + 1 /\ Len(frames') \in Nat
    <3>1. \/ frames' = frames \/ frames' = Append(frames, f)
          \/ frames # <<>> /\ frames' = Append(Tail(frames), f)
      BY <1>0 DEF PushLocked, PushClosed, PushOpen, Enqueue
    <3>2. CASE frames' = frames BY <1>0, <3>2
    <3>3. CASE frames' = Append(frames, f) BY <1>0, <3>3
    <3>4. CASE frames # <<>> /\ frames' = Append(Tail(frames), f) BY <1>0, <3>4
    <3>5. QED BY <3>1, <3>2, <3>3, <3>4
  <2>4. QED BY <1>0, <1>2, <2>2, <2>3, NotificationNumbers DEF NoLostNotification
<1>4. CASE label # "notify_one"
  <2>1. PendingNotifies' = PendingNotifies
    BY <1>0, <1>1, <1>4 DEF PendingNotifies, Goto, Threads
  <2>2. QED BY <1>1, <1>2, <1>4, <2>1, NothingMoreIsOwed
<1>5. QED BY <1>3, <1>4

\* notify_one turns a notification to come into a woken consumer.
LEMMA NotifyOwesNoMore ==
    ASSUME TypeOK, NoLostNotification, NEW p \in Producers, PushNotify(p)
    PROVE  NoLostNotification'
<1>0. p \in Threads /\ p \notin Consumers /\ frames \in Seq(Frames) /\ frames' = frames
      /\ pc \in [Threads -> ProducerPC \cup ConsumerPC \cup PollerPC \cup CloserPC]
      /\ pc[p] = "notify_one"
  BY DEF Threads, TypeOK, DataTypeOK, PCTypeOK, PushNotify
<1>1. CASE NotEmptyWaiters = {} /\ Goto(p, "wake")
  <2>1. NotEmptyWaiters' = {}
    BY <1>0, <1>1 DEF NotEmptyWaiters, Goto, Threads
  <2>2. QED BY <2>1 DEF NoLostNotification
<1>2. CASE \E c \in NotEmptyWaiters : pc' = [pc EXCEPT ![c] = "woken", ![p] = "wake"]
  <2>1. PICK c \in NotEmptyWaiters : pc' = [pc EXCEPT ![c] = "woken", ![p] = "wake"]
    BY <1>2
  <2>2. c \in Consumers /\ c \in Threads /\ c # p /\ pc[c] = "not_empty" /\ c \notin Producers
    BY <1>0 DEF NotEmptyWaiters, Threads
  <2>3. p \in PendingNotifies /\ p \notin PendingNotifies'
        /\ \A v : v # p => (v \in PendingNotifies' <=> v \in PendingNotifies)
    BY <1>0, <2>1, <2>2 DEF PendingNotifies, Threads
  <2>4. Cardinality(PendingNotifies') = Cardinality(PendingNotifies) - 1
    BY <2>3, CountOneMove, NotificationNumbers
  <2>5. c \notin WokenConsumers /\ c \in WokenConsumers'
        /\ \A v : v # c => (v \in WokenConsumers' <=> v \in WokenConsumers)
    BY <1>0, <2>1, <2>2 DEF WokenConsumers, Threads
  <2>6. Cardinality(WokenConsumers') = Cardinality(WokenConsumers) + 1
    BY <2>5, CountOneMove, NotificationNumbers
  <2>7. NotEmptyWaiters # {} BY <2>1
  <2>8. QED BY <1>0, <2>4, <2>6, <2>7, NotificationNumbers DEF NoLostNotification
<1>3. QED BY <1>1, <1>2 DEF PushNotify, NotifyOneAndGoto

\* pop by a woken consumer spends its notification on one frame, and waits
\* again only on an empty queue.
LEMMA PopOwesNoMore ==
    ASSUME TypeOK, NoLostNotification, NEW c \in Consumers, Pop(c)
    PROVE  NoLostNotification'
<1>0. c \in Threads /\ c \notin Producers /\ frames \in Seq(Frames)
      /\ pc \in [Threads -> ProducerPC \cup ConsumerPC \cup PollerPC \cup CloserPC]
  BY DEF Threads, TypeOK, DataTypeOK, PCTypeOK
<1>1. ASSUME frames = <<>>, frames' = frames PROVE NoLostNotification'
  BY <1>1, NotificationNumbers DEF NoLostNotification
<1>2. ASSUME pc[c] \in {"idle", "woken"}, Dequeue(c, "idle")
      PROVE  NoLostNotification'
  <2>1. pc' = [pc EXCEPT ![c] = "idle"]
        \/ \E w \in NotFullWaiters : pc' = [pc EXCEPT ![w] = "woken", ![c] = "idle"]
    BY <1>2 DEF Dequeue, NotifyOneAndGoto, Goto
  <2>2. /\ \A u \in Consumers \ {c} : pc'[u] = pc[u]
        /\ pc'[c] = "idle"
        /\ \A u \in Producers : pc'[u] = pc[u] \/ (pc[u] = "not_full" /\ pc'[u] = "woken")
    BY <1>0, <2>1 DEF NotFullWaiters, Threads
  <2>3. PendingNotifies' = PendingNotifies /\ NotEmptyWaiters' = NotEmptyWaiters
    BY <1>2, <2>2 DEF PendingNotifies, NotEmptyWaiters
  <2>4. c \notin WokenConsumers'
        /\ \A v : v # c => (v \in WokenConsumers' <=> v \in WokenConsumers)
    BY <2>2 DEF WokenConsumers
  <2>5. \/ Cardinality(WokenConsumers') = Cardinality(WokenConsumers)
        \/ Cardinality(WokenConsumers') = Cardinality(WokenConsumers) - 1
    BY <2>4, CountOneMove, NotificationNumbers
  <2>6. Len(frames') = Len(frames) - 1 /\ Len(frames) \in Nat
    BY <1>0, <1>2 DEF Dequeue
  <2>7. QED BY <2>3, <2>5, <2>6, NotificationNumbers DEF NoLostNotification
<1>3. QED BY <1>1, <1>2 DEF Pop, Step

LEMMA NoLostNotificationStep ==
    TypeInv /\ NoLostNotification /\ [Next]_vars => NoLostNotification'
<1> SUFFICES ASSUME TypeOK, NoLostNotification, [Next]_vars
             PROVE  NoLostNotification'
  BY DEF TypeInv
<1>0. pc \in [Threads -> ProducerPC \cup ConsumerPC \cup PollerPC \cup CloserPC]
  BY DEF TypeOK, PCTypeOK
<1>1. ASSUME NEW p \in Producers, ProducerStep(p) PROVE NoLostNotification'
  <2>1. CASE Push(p) \/ PushWoken(p)
    BY <2>1, PushOwesOne DEF Push, PushWoken
  <2>2. CASE PushNotify(p)
    BY <2>2, NotifyOwesNoMore
  <2>3. CASE PushWake(p)
    <3>1. /\ PendingNotifies' = PendingNotifies /\ WokenConsumers' = WokenConsumers
          /\ NotEmptyWaiters' = NotEmptyWaiters
      BY <1>0, <2>3 DEF PushWake, Goto, PendingNotifies, WokenConsumers,
                        NotEmptyWaiters, Threads
    <3>2. QED BY <2>3, <3>1, NothingMoreIsOwed DEF PushWake
  <2>4. CASE RecordDrop(p)
    BY <2>4, NothingMoreIsOwed
       DEF RecordDrop, PendingNotifies, WokenConsumers, NotEmptyWaiters
  <2>5. QED BY <1>1, <2>1, <2>2, <2>3, <2>4 DEF ProducerStep
<1>2. ASSUME NEW w \in Pollers, PollerStep(w) PROVE NoLostNotification'
  <2>1. \/ frames' = frames /\ \E label : Goto(w, label)
        \/ /\ frames # <<>> /\ frames' = Tail(frames)
           /\ \E label : NotifyOneAndGoto(NotFullWaiters, w, label)
    BY <1>2 DEF PollerStep, PollObserve, TryPop, PollCheck, PollWake, Dequeue, Step
  <2>2. /\ \A u \in Consumers : pc'[u] = pc[u]
        /\ \A u \in Producers : pc'[u] = pc[u] \/ (pc[u] = "not_full" /\ pc'[u] = "woken")
    BY <1>0, <2>1 DEF NotifyOneAndGoto, Goto, NotFullWaiters, Threads
  <2>3. /\ PendingNotifies' = PendingNotifies /\ WokenConsumers' = WokenConsumers
        /\ NotEmptyWaiters' = NotEmptyWaiters
    BY <2>2 DEF PendingNotifies, WokenConsumers, NotEmptyWaiters
  <2>4. QED BY <2>1, <2>3, NothingMoreIsOwed
<1>3. ASSUME NEW c \in Closers, CloserStep(c) PROVE NoLostNotification'
  <2>1. CASE CloseNotifyNotEmpty(c)
    <3>1. NotEmptyWaiters' = {}
      BY <2>1 DEF CloseNotifyNotEmpty, NotifyAllAndGoto, NotEmptyWaiters, Threads
    <3>2. QED BY <3>1 DEF NoLostNotification
  <2>2. CASE CloseNotifyNotFull(c)
    <3>1. /\ \A u \in Consumers : pc'[u] = pc[u]
          /\ \A u \in Producers : pc'[u] = pc[u] \/ (pc[u] = "not_full" /\ pc'[u] = "woken")
      BY <1>0, <2>2 DEF CloseNotifyNotFull, NotifyAllAndGoto, NotFullWaiters, Threads
    <3>2. /\ PendingNotifies' = PendingNotifies /\ WokenConsumers' = WokenConsumers
          /\ NotEmptyWaiters' = NotEmptyWaiters
      BY <3>1 DEF PendingNotifies, WokenConsumers, NotEmptyWaiters
    <3>3. QED BY <2>2, <3>2, NothingMoreIsOwed DEF CloseNotifyNotFull
  <2>3. CASE CloseWake(c) \/ \E mode \in DrainMode : Close(c, mode)
    <3>1. \E label : Goto(c, label)
      BY <2>3 DEF CloseWake, Close
    <3>2. \A u \in Consumers \cup Producers : pc'[u] = pc[u]
      BY <1>0, <3>1 DEF Goto, Threads
    <3>3. /\ PendingNotifies' = PendingNotifies /\ WokenConsumers' = WokenConsumers
          /\ NotEmptyWaiters' = NotEmptyWaiters
      BY <3>2 DEF PendingNotifies, WokenConsumers, NotEmptyWaiters
    <3>4. frames' = frames \/ frames' = <<>>
      BY <2>3 DEF CloseWake, Close
    <3>5. QED BY <3>3, <3>4, NothingMoreIsOwed
  <2>4. QED BY <1>3, <2>1, <2>2, <2>3 DEF CloserStep
<1>4. ASSUME NEW t \in Producers \cup Consumers, SpuriousWakeup(t)
      PROVE  NoLostNotification'
  <2>1. /\ frames' = frames /\ pc' = [pc EXCEPT ![t] = "woken"] /\ t \in Threads
        /\ pc[t] \in {"not_full", "not_empty"}
    BY <1>4 DEF SpuriousWakeup, Step, Goto, Threads
  <2>2. PendingNotifies' = PendingNotifies /\ NotEmptyWaiters' \subseteq NotEmptyWaiters
    BY <1>0, <2>1 DEF PendingNotifies, NotEmptyWaiters, Threads
  <2>3. CASE t \in Producers
    <3>1. WokenConsumers' = WokenConsumers
      BY <1>0, <2>1, <2>3 DEF WokenConsumers, Threads
    <3>2. QED BY <2>1, <2>2, <3>1, NothingMoreIsOwed
  <2>4. CASE t \in Consumers
    <3>1. t \notin WokenConsumers /\ t \in WokenConsumers'
          /\ \A v : v # t => (v \in WokenConsumers' <=> v \in WokenConsumers)
      BY <1>0, <2>1, <2>4 DEF WokenConsumers, Threads
    <3>2. Cardinality(WokenConsumers') = Cardinality(WokenConsumers) + 1
      BY <3>1, CountOneMove, NotificationNumbers
    <3>3. Len(frames) \in Nat BY DEF TypeOK, DataTypeOK
    <3>4. QED BY <2>1, <2>2, <3>2, <3>3, NotificationNumbers DEF NoLostNotification
  <2>5. QED BY <2>3, <2>4
<1>5. CASE UNCHANGED vars
  BY <1>5 DEF vars, NoLostNotification, NotEmptyWaiters, PendingNotifies, WokenConsumers
<1>6. QED BY <1>1, <1>2, <1>3, <1>4, <1>5, PopOwesNoMore DEF Next

\* Only QueueOverflowPolicy::Block makes a producer wait.
BlockedOnlyUnderBlock ==
    \A p \in Producers : pc[p] \in {"not_full", "woken"} => overflow = "Block"

LEMMA BlockedOnlyUnderBlockStep ==
    TypeInv /\ BlockedOnlyUnderBlock /\ [Next]_vars => BlockedOnlyUnderBlock'
<1> SUFFICES ASSUME TypeOK, BlockedOnlyUnderBlock, [Next]_vars
             PROVE  BlockedOnlyUnderBlock'
  BY DEF TypeInv
<1>0. pc \in [Threads -> ProducerPC \cup ConsumerPC \cup PollerPC \cup CloserPC]
  BY DEF TypeOK, PCTypeOK
<1>1. ASSUME overflow' = overflow,
             \A u \in Producers : \/ pc'[u] \notin {"not_full", "woken"}
                                  \/ pc[u] \in {"not_full", "woken"}
                                  \/ overflow = "Block"
      PROVE  BlockedOnlyUnderBlock'
  BY <1>1 DEF BlockedOnlyUnderBlock
<1>2. ASSUME NEW p \in Producers, NEW f, PushLocked(p, f)
      PROVE  BlockedOnlyUnderBlock'
  <2>1. \E label : Goto(p, label)
                   /\ (label \notin {"not_full", "woken"} \/ overflow = "Block")
    BY <1>2 DEF PushLocked, PushClosed, PushOpen
  <2>2. overflow' = overflow BY <1>2 DEF PushLocked
  <2>3. QED BY <1>0, <1>1, <2>1, <2>2 DEF Goto, Threads
<1>3. ASSUME NEW p \in Producers, ProducerStep(p) PROVE BlockedOnlyUnderBlock'
  <2>1. CASE PushNotify(p)
    BY <1>0, <1>1, <2>1 DEF PushNotify, NotifyOneAndGoto, Goto, NotEmptyWaiters, Threads
  <2>2. CASE PushWake(p) \/ RecordDrop(p)
    BY <1>0, <1>1, <2>2 DEF PushWake, RecordDrop, Goto, Threads
  <2>3. QED BY <1>2, <1>3, <2>1, <2>2 DEF ProducerStep, Push, PushWoken
<1>4. ASSUME NEW t \in Consumers \cup Pollers, NEW label, Dequeue(t, label)
      PROVE  BlockedOnlyUnderBlock'
  BY <1>0, <1>1, <1>4 DEF Dequeue, NotifyOneAndGoto, Goto, NotFullWaiters, Threads
<1>5. ASSUME NEW t \in Consumers \cup Pollers, NEW from, NEW to, Step(t, from, to)
      PROVE  BlockedOnlyUnderBlock'
  BY <1>0, <1>1, <1>5 DEF Step, Goto, Threads
<1>6. ASSUME NEW w \in Pollers, PollObserve(w) PROVE BlockedOnlyUnderBlock'
  BY <1>0, <1>1, <1>6 DEF PollObserve, Goto, Threads
<1>7. ASSUME NEW c \in Closers, CloserStep(c) PROVE BlockedOnlyUnderBlock'
  <2>1. CASE CloseNotifyNotEmpty(c) \/ CloseNotifyNotFull(c)
    BY <1>0, <1>1, <2>1 DEF CloseNotifyNotEmpty, CloseNotifyNotFull, NotifyAllAndGoto,
       NotEmptyWaiters, NotFullWaiters, Threads
  <2>2. CASE CloseWake(c) \/ \E mode \in DrainMode : Close(c, mode)
    BY <1>0, <1>1, <2>2 DEF CloseWake, Close, Goto, Threads
  <2>3. QED BY <1>7, <2>1, <2>2 DEF CloserStep
<1>8. ASSUME NEW t \in Producers \cup Consumers, SpuriousWakeup(t)
      PROVE  BlockedOnlyUnderBlock'
  <2>1. /\ pc' = [pc EXCEPT ![t] = "woken"] /\ t \in Threads /\ overflow' = overflow
        /\ pc[t] \in {"not_full", "not_empty"}
    BY <1>8 DEF SpuriousWakeup, Step, Goto, Threads
  <2>2. t \in Producers => pc[t] = "not_full"
    BY <2>1 DEF TypeOK, PCTypeOK, ProducerPC
  <2>3. QED BY <1>0, <1>1, <2>1, <2>2 DEF Threads
<1>9. CASE UNCHANGED vars
  BY <1>9 DEF vars, BlockedOnlyUnderBlock
<1>10. QED BY <1>3, <1>4, <1>5, <1>6, <1>7, <1>8, <1>9
           DEF Next, Pop, PollerStep, TryPop, PollCheck, PollWake

LEMMA CapacityNumbers ==
    /\ IsFiniteSet(WokenProducers)
    /\ Cardinality(WokenProducers) \in Nat /\ Cardinality(WokenProducers') \in Nat
<1>1. WokenProducers \subseteq Producers /\ WokenProducers' \subseteq Producers
  BY DEF WokenProducers
<1>2. QED BY <1>1, RolesAreFinite

ClosersToNotify == ClosingAt({"all_not_empty", "all_not_full"})

\* A step that frees no slot, and takes neither a woken producer nor a close
\* that has still to notify away.
LEMMA NoSlotIsFreed ==
    ASSUME TypeOK, NoLostCapacity, UNCHANGED frames,
           WokenProducers' = WokenProducers, ClosersToNotify \subseteq ClosersToNotify',
           NotFullWaiters' \subseteq NotFullWaiters
    PROVE  NoLostCapacity'
BY DEF NoLostCapacity, ClosersToNotify

\* push by a woken producer takes the slot it was woken for, waits again only
\* beside no free slot, or leaves because of a close that has to notify.
LEMMA PushTakesItsSlot ==
    ASSUME TypeOK, NoLostCapacity, BlockedOnlyUnderBlock, NoWaiterAfterClose,
           NEW p \in Producers, NEW f, PushLocked(p, f), pc[p] \in {"idle", "woken"}
    PROVE  NoLostCapacity'
<1>0. p \in Threads /\ p \notin Closers /\ frames \in Seq(Frames) /\ Len(frames) \in Nat
      /\ pc \in [Threads -> ProducerPC \cup ConsumerPC \cup PollerPC \cup CloserPC]
  BY DEF Threads, TypeOK, DataTypeOK, PCTypeOK
<1>1. ASSUME NEW label, Goto(p, label)
      PROVE  /\ ClosersToNotify' = ClosersToNotify
             /\ \A v : v # p => (v \in WokenProducers' <=> v \in WokenProducers)
             /\ p \in WokenProducers' <=> label = "woken"
             /\ label # "not_full" => NotFullWaiters' \subseteq NotFullWaiters
  BY <1>0, <1>1 DEF Goto, ClosersToNotify, ClosingAt, WokenProducers, NotFullWaiters, Threads
<1>2. ASSUME NEW label, Goto(p, label), label # "woken"
      PROVE  \/ Cardinality(WokenProducers') = Cardinality(WokenProducers)
                /\ pc[p] = "idle"
             \/ Cardinality(WokenProducers') = Cardinality(WokenProducers) - 1
                /\ pc[p] = "woken"
  <2>1. p \notin WokenProducers' BY <1>1, <1>2
  <2>2. p \in WokenProducers <=> pc[p] = "woken" BY DEF WokenProducers
  <2>3. \A v : v # p => (v \in WokenProducers' <=> v \in WokenProducers)
    BY <1>1, <1>2
  <2>4. QED BY <2>1, <2>2, <2>3, CountOneMove, CapacityNumbers
<1>3. CASE closed /\ PushClosed(p, f)
  <2>1. Goto(p, "idle") BY <1>3 DEF PushClosed
  <2>2. NotFullWaiters' \subseteq NotFullWaiters /\ ClosersToNotify' = ClosersToNotify
    BY <1>1, <2>1
  <2>3. NotFullWaiters # {} => ClosersToNotify # {}
    BY <1>3 DEF NoWaiterAfterClose, ClosersToNotify
  <2>4. QED BY <2>2, <2>3 DEF NoLostCapacity, ClosersToNotify
<1>4. CASE ~closed /\ PushOpen(p, f)
  <2>1. CASE Len(frames) < Capacity /\ Enqueue(frames, f) /\ Goto(p, "notify_one")
    <3>1. Len(frames') = Len(frames) + 1
      BY <1>0, <2>1 DEF Enqueue
    <3>2. NotFullWaiters' \subseteq NotFullWaiters /\ ClosersToNotify' = ClosersToNotify
      BY <1>1, <2>1
    <3>3. QED BY <1>0, <1>2, <2>1, <3>1, <3>2, CapacityNumbers
              DEF NoLostCapacity, ClosersToNotify
  <2>2. CASE Len(frames) = Capacity /\ Goto(p, "not_full") /\ UNCHANGED frames
    BY <1>0, <2>2, CapacityNumbers DEF NoLostCapacity
  <2>3. CASE Len(frames) = Capacity /\ overflow = "DropOldest"
             /\ Enqueue(Tail(frames), f) /\ Goto(p, "notify_one")
    <3>1. NotFullWaiters = {}
      BY <2>3 DEF BlockedOnlyUnderBlock, NotFullWaiters
    <3>2. NotFullWaiters' = {} BY <1>1, <2>3, <3>1
    <3>3. QED BY <3>2 DEF NoLostCapacity
  <2>4. CASE overflow \in {"DropNewest", "Abort"} /\ Goto(p, "idle")
    <3>1. NotFullWaiters = {}
      BY <2>4 DEF BlockedOnlyUnderBlock, NotFullWaiters
    <3>2. NotFullWaiters' = {} BY <1>1, <2>4, <3>1
    <3>3. QED BY <3>2 DEF NoLostCapacity
  <2>5. QED BY <1>4, <2>1, <2>2, <2>3, <2>4 DEF PushOpen
<1>5. QED BY <1>3, <1>4 DEF PushLocked

\* dequeue wakes a producer for the slot it frees.
LEMMA DequeueHandsOverItsSlot ==
    ASSUME TypeOK, NoLostCapacity, NEW t \in Consumers \cup Pollers, NEW label,
           Dequeue(t, label)
    PROVE  NoLostCapacity'
<1>0. t \in Threads /\ t \notin Producers /\ t \notin Closers
      /\ frames \in Seq(Frames) /\ Len(frames) \in Nat
      /\ pc \in [Threads -> ProducerPC \cup ConsumerPC \cup PollerPC \cup CloserPC]
  BY DEF Threads, TypeOK, DataTypeOK, PCTypeOK
<1>1. Len(frames') = Len(frames) - 1
  BY <1>0 DEF Dequeue
<1>2. CASE NotFullWaiters = {} /\ Goto(t, label)
  <2>1. NotFullWaiters' = {}
    BY <1>0, <1>2 DEF NotFullWaiters, Goto, Threads
  <2>2. QED BY <2>1 DEF NoLostCapacity
<1>3. CASE \E w \in NotFullWaiters : pc' = [pc EXCEPT ![w] = "woken", ![t] = label]
  <2>1. PICK w \in NotFullWaiters : pc' = [pc EXCEPT ![w] = "woken", ![t] = label]
    BY <1>3
  <2>2. w \in Producers /\ w \in Threads /\ w # t /\ pc[w] = "not_full" /\ w \notin Closers
    BY <1>0 DEF NotFullWaiters, Threads
  <2>3. w \notin WokenProducers /\ w \in WokenProducers'
        /\ \A v : v # w => (v \in WokenProducers' <=> v \in WokenProducers)
    BY <1>0, <2>1, <2>2 DEF WokenProducers, Threads
  <2>4. Cardinality(WokenProducers') = Cardinality(WokenProducers) + 1
    BY <2>3, CountOneMove, CapacityNumbers
  <2>5. ClosersToNotify' = ClosersToNotify /\ NotFullWaiters # {}
    BY <1>0, <2>1, <2>2 DEF ClosersToNotify, ClosingAt, Threads
  <2>6. QED BY <1>0, <1>1, <2>4, <2>5, CapacityNumbers DEF NoLostCapacity, ClosersToNotify
<1>4. QED BY <1>2, <1>3 DEF Dequeue, NotifyOneAndGoto

LEMMA NoLostCapacityStep ==
    TypeInv /\ BlockedOnlyUnderBlock /\ NoWaiterAfterClose /\ NoLostCapacity
    /\ [Next]_vars => NoLostCapacity'
<1> SUFFICES ASSUME TypeOK, BlockedOnlyUnderBlock, NoWaiterAfterClose, NoLostCapacity,
                    [Next]_vars
             PROVE  NoLostCapacity'
  BY DEF TypeInv
<1>0. pc \in [Threads -> ProducerPC \cup ConsumerPC \cup PollerPC \cup CloserPC]
  BY DEF TypeOK, PCTypeOK
<1>1. ASSUME UNCHANGED frames, \A u \in Producers : pc'[u] = pc[u],
             \A u \in Closers : pc[u] \in {"all_not_empty", "all_not_full"} =>
                                pc'[u] \in {"all_not_empty", "all_not_full"}
      PROVE  NoLostCapacity'
  <2>1. /\ WokenProducers' = WokenProducers /\ NotFullWaiters' = NotFullWaiters
        /\ ClosersToNotify \subseteq ClosersToNotify'
    BY <1>1 DEF WokenProducers, NotFullWaiters, ClosersToNotify, ClosingAt
  <2>2. QED BY <1>1, <2>1, NoSlotIsFreed
<1>2. ASSUME NEW p \in Producers, ProducerStep(p) PROVE NoLostCapacity'
  <2>1. CASE Push(p) \/ PushWoken(p)
    BY <2>1, PushTakesItsSlot DEF Push, PushWoken
  <2>2. CASE PushNotify(p) \/ PushWake(p)
    <3>1. /\ pc[p] \in {"notify_one", "wake"} /\ pc'[p] \in {"wake", "idle"}
          /\ \A u \in (Producers \cup Closers) \ {p} : pc'[u] = pc[u]
          /\ frames' = frames
      BY <1>0, <2>2 DEF PushNotify, PushWake, NotifyOneAndGoto, Goto, NotEmptyWaiters, Threads
    <3>2. /\ WokenProducers' = WokenProducers /\ NotFullWaiters' = NotFullWaiters
          /\ ClosersToNotify' = ClosersToNotify
      BY <3>1 DEF WokenProducers, NotFullWaiters, ClosersToNotify, ClosingAt
    <3>3. QED BY <3>1, <3>2, NoSlotIsFreed
  <2>3. CASE RecordDrop(p)
    BY <1>1, <2>3 DEF RecordDrop
  <2>4. QED BY <1>2, <2>1, <2>2, <2>3 DEF ProducerStep
<1>3. ASSUME NEW t \in Consumers \cup Pollers, NEW from, NEW to, Step(t, from, to)
      PROVE  NoLostCapacity'
  BY <1>0, <1>1, <1>3 DEF Step, Goto, Threads
<1>4. ASSUME NEW w \in Pollers, PollObserve(w) PROVE NoLostCapacity'
  BY <1>0, <1>1, <1>4 DEF PollObserve, Goto, Threads
<1>5. ASSUME NEW c \in Closers, CloserStep(c) PROVE NoLostCapacity'
  <2>1. ASSUME NEW mode \in DrainMode, Close(c, mode) PROVE NoLostCapacity'
    <3>1. c \in ClosersToNotify'
      BY <1>0, <2>1 DEF Close, Goto, ClosersToNotify, ClosingAt, Threads
    <3>2. QED BY <3>1 DEF NoLostCapacity, ClosersToNotify
  <2>2. CASE CloseNotifyNotEmpty(c)
    <3>1. c \in ClosersToNotify'
      BY <1>0, <2>2 DEF CloseNotifyNotEmpty, NotifyAllAndGoto, NotEmptyWaiters,
                        ClosersToNotify, ClosingAt, Threads
    <3>2. QED BY <3>1 DEF NoLostCapacity, ClosersToNotify
  <2>3. CASE CloseNotifyNotFull(c)
    <3>1. NotFullWaiters' = {}
      BY <2>3 DEF CloseNotifyNotFull, NotifyAllAndGoto, NotFullWaiters, Threads
    <3>2. QED BY <3>1 DEF NoLostCapacity
  <2>4. CASE CloseWake(c)
    BY <1>0, <1>1, <2>4 DEF CloseWake, Goto, Threads
  <2>5. QED BY <1>5, <2>1, <2>2, <2>3, <2>4 DEF CloserStep
<1>6. ASSUME NEW t \in Producers \cup Consumers, SpuriousWakeup(t)
      PROVE  NoLostCapacity'
  <2>1. /\ frames' = frames /\ pc' = [pc EXCEPT ![t] = "woken"] /\ t \in Threads
        /\ pc[t] \in {"not_full", "not_empty"} /\ t \notin Closers
    BY <1>6 DEF SpuriousWakeup, Step, Goto, Threads
  <2>2. CASE t \in Consumers
    BY <1>0, <1>1, <2>1, <2>2 DEF Threads
  <2>3. CASE t \in Producers
    <3>1. t \notin WokenProducers /\ t \in WokenProducers'
          /\ \A v : v # t => (v \in WokenProducers' <=> v \in WokenProducers)
      BY <1>0, <2>1, <2>3 DEF WokenProducers, Threads
    <3>2. Cardinality(WokenProducers') = Cardinality(WokenProducers) + 1
      BY <3>1, CountOneMove, CapacityNumbers
    <3>3. NotFullWaiters' \subseteq NotFullWaiters /\ ClosersToNotify' = ClosersToNotify
      BY <1>0, <2>1, <2>3 DEF NotFullWaiters, ClosersToNotify, ClosingAt, Threads
    <3>4. Len(frames) \in Nat BY DEF TypeOK, DataTypeOK
    <3>5. QED BY <2>1, <3>2, <3>3, <3>4, CapacityNumbers DEF NoLostCapacity, ClosersToNotify
  <2>4. QED BY <2>2, <2>3
<1>7. CASE UNCHANGED vars
  BY <1>1, <1>7 DEF vars
<1>8. QED BY <1>2, <1>3, <1>4, <1>5, <1>6, <1>7, DequeueHandsOverItsSlot
          DEF Next, Pop, PollerStep, TryPop, PollCheck, PollWake

\* No notification is lost, for any number of threads: a frame never waits in
\* the queue while every consumer sleeps, nor a free slot while a blocked
\* producer sleeps, although push notifies after it released the lock and any
\* thread may take what another one was woken for.
THEOREM NoNotificationIsLost == Spec => []WaitersAreOwedNothing
<1>1. Init => BlockedOnlyUnderBlock /\ NoLostNotification /\ NoLostCapacity
              /\ NoWaiterAfterClose
  <2> SUFFICES ASSUME Init
               PROVE  /\ BlockedOnlyUnderBlock /\ NoWaiterAfterClose
                      /\ NotEmptyWaiters = {} /\ NotFullWaiters = {}
    BY DEF NoLostNotification, NoLostCapacity
  <2>1. \A t \in Producers \cup Consumers : pc[t] = "idle"
    BY DEF Init, Threads
  <2>2. BlockedOnlyUnderBlock BY <2>1 DEF BlockedOnlyUnderBlock
  <2>3. NotEmptyWaiters = {} /\ NotFullWaiters = {}
    BY <2>1 DEF NotEmptyWaiters, NotFullWaiters
  <2>4. NoWaiterAfterClose BY <2>3 DEF NoWaiterAfterClose
  <2>5. QED BY <2>2, <2>3, <2>4
<1>2. NoLostNotification /\ NoLostCapacity => WaitersAreOwedNothing
  BY DEF WaitersAreOwedNothing
<1>3. QED BY <1>1, <1>2, TypeInvInit, TypeInvStep, NoLostNotificationStep,
             BlockedOnlyUnderBlockStep, NoWaiterAfterCloseStep, NoLostCapacityStep,
             PTL DEF Spec

----------------------------------------------------------------------------
(* Metrics and the fate of every frame.                                    *)

\* The last frame of p that is past push: a producer that waits has its last
\* frame still in hand.
LastSettled(p) ==
    IF pc[p] \in {"not_full", "woken"} THEN submitted[p] - 1 ELSE submitted[p]

SettledFrames == {f \in Frames : f[2] <= LastSettled(f[1])}

\* Every settled frame is in exactly one place, and in the queue only once.
FateInv ==
    /\ NoRepeats(frames)
    /\ InQueue \cap Received = {} /\ InQueue \cap DroppedFrames = {}
    /\ InQueue \cap rejected = {} /\ Received \cap DroppedFrames = {}
    /\ Received \cap rejected = {} /\ DroppedFrames \cap rejected = {}
    /\ InQueue \cup Received \cup DroppedFrames \cup rejected = SettledFrames

\* The counters of EdgeQueueMetrics count what the history holds.
CountInv ==
    /\ IsFiniteSet(dropped)
    /\ dequeue_total = Len(got) /\ drop_total = Cardinality(dropped)
    /\ enqueue_total = dequeue_total + Len(frames)
                       + Cardinality(DroppedFor({"oldest", "shutdown"}))

\* A frame that push has just been given is not settled yet, and becomes so
\* unless the producer goes to wait for a slot.
LEMMA SubmittedFrame ==
    ASSUME TypeOK, FrameInHand, NEW p \in Producers, NEW f,
           \/ /\ pc[p] = "idle" /\ submitted[p] < MaxPushes
              /\ f = <<p, submitted[p] + 1>>
              /\ submitted' = [submitted EXCEPT ![p] = @ + 1]
           \/ pc[p] = "woken" /\ f = <<p, submitted[p]>> /\ UNCHANGED submitted,
           \A u \in Producers \ {p} : pc'[u] = pc[u]
    PROVE  /\ f \in Frames /\ f \notin SettledFrames
           /\ pc'[p] \notin {"not_full", "woken"} =>
                 SettledFrames' = SettledFrames \cup {f}
           /\ pc'[p] = "not_full" => SettledFrames' = SettledFrames
<1>0. submitted \in [Producers -> 0..MaxPushes] /\ submitted[p] \in 0..MaxPushes
  BY DEF TypeOK, DataTypeOK
<1>1. f \in Frames
  BY <1>0 DEF Frames, FrameInHand
<1>2. f[1] = p /\ f[2] \in 1..MaxPushes /\ f = <<p, f[2]>>
  BY <1>1 DEF Frames
<1>3. /\ LastSettled(p) = f[2] - 1
      /\ pc'[p] \notin {"not_full", "woken"} => LastSettled(p)' = f[2]
      /\ pc'[p] = "not_full" => LastSettled(p)' = f[2] - 1
  BY <1>0 DEF LastSettled
<1>4. \A u \in Producers \ {p} : LastSettled(u)' = LastSettled(u)
  BY <1>0 DEF LastSettled
<1>5. ASSUME NEW g \in Frames
      PROVE  /\ g[1] \in Producers /\ g[2] \in Int /\ (g = f <=> g[1] = p /\ g[2] = f[2])
             /\ g \in SettledFrames <=> g[2] <= LastSettled(g[1])
             /\ g \in SettledFrames' <=> g[2] <= LastSettled(g[1])'
  <2>1. g[1] \in Producers /\ g[2] \in Int /\ g = <<g[1], g[2]>>
    BY <1>5 DEF Frames
  <2>2. g = f <=> g[1] = p /\ g[2] = f[2]
    BY <1>2, <2>1, Zenon
  <2>3. QED BY <2>1, <2>2 DEF SettledFrames
<1>6. SettledFrames' \subseteq Frames /\ SettledFrames \subseteq Frames
  BY DEF SettledFrames
<1>7. f \notin SettledFrames
  BY <1>1, <1>2, <1>3, <1>5
<1>8. ASSUME pc'[p] \notin {"not_full", "woken"}
      PROVE  SettledFrames' = SettledFrames \cup {f}
  <2>1. ASSUME NEW g \in Frames PROVE g \in SettledFrames' <=> g \in SettledFrames \cup {f}
    <3>1. CASE g[1] = p BY <1>2, <1>3, <1>5, <1>8, <3>1
    <3>2. CASE g[1] # p BY <1>4, <1>5, <3>2
    <3>3. QED BY <3>1, <3>2
  <2>2. QED BY <1>1, <1>6, <2>1
<1>9. ASSUME pc'[p] = "not_full"
      PROVE  SettledFrames' = SettledFrames
  <2>1. ASSUME NEW g \in Frames PROVE g \in SettledFrames' <=> g \in SettledFrames
    <3>1. CASE g[1] = p BY <1>2, <1>3, <1>5, <1>9, <3>1
    <3>2. CASE g[1] # p BY <1>4, <1>5, <3>2
    <3>3. QED BY <3>1, <3>2
  <2>2. QED BY <1>6, <2>1
<1>10. QED BY <1>1, <1>7, <1>8, <1>9

\* A step that neither submits a frame nor lets a waiting producer go.
LEMMA NothingSettles ==
    ASSUME UNCHANGED submitted,
           \A u \in Producers :
              pc'[u] \in {"not_full", "woken"} <=> pc[u] \in {"not_full", "woken"}
    PROVE  SettledFrames' = SettledFrames
<1>1. \A u \in Producers : LastSettled(u)' = LastSettled(u)
  BY DEF LastSettled
<1>2. \A g \in Frames : g[1] \in Producers BY DEF Frames
<1>3. QED BY <1>1, <1>2 DEF SettledFrames

\* One more dropped frame: the record is new, so the set grows by one.
LEMMA DropOne ==
    ASSUME TypeOK, CountInv, NEW f, f \notin DroppedFrames, NEW reason,
           dropped' = dropped \cup {<<f, reason>>}
    PROVE  /\ IsFiniteSet(dropped') /\ Cardinality(dropped') = Cardinality(dropped) + 1
           /\ DroppedFrames' = DroppedFrames \cup {f}
           /\ Cardinality(DroppedFor({"oldest", "shutdown"})) \in Nat
           /\ reason \in {"oldest", "shutdown"} =>
                 Cardinality(DroppedFor({"oldest", "shutdown"})') =
                    Cardinality(DroppedFor({"oldest", "shutdown"})) + 1
           /\ reason \in {"newest", "policy"} =>
                 Cardinality(DroppedFor({"oldest", "shutdown"})') =
                    Cardinality(DroppedFor({"oldest", "shutdown"}))
<1> DEFINE D == DroppedFor({"oldest", "shutdown"})
<1>1. <<f, reason>> \notin dropped
  BY DEF DroppedFrames
<1>2. IsFiniteSet(dropped') /\ Cardinality(dropped') = Cardinality(dropped) + 1
  BY <1>1, FS_AddElement DEF CountInv
<1>3. DroppedFrames' = DroppedFrames \cup {f}
  <2>1. <<f, reason>>[1] = f OBVIOUS
  <2>2. \A d : d \in dropped' <=> d \in dropped \/ d = <<f, reason>> OBVIOUS
  <2>3. \A x : x \in DroppedFrames' <=> x \in DroppedFrames \/ x = f
    BY <2>1, <2>2, Zenon DEF DroppedFrames
  <2>4. QED BY <2>3
<1>4. D \subseteq dropped BY DEF DroppedFor
<1>5. IsFiniteSet(D) /\ Cardinality(D) \in Nat
  BY <1>4, FS_Subset, FS_CardinalityType DEF CountInv
<1>6. CASE reason \in {"oldest", "shutdown"}
  <2>1. D' = D \cup {<<f, reason>>} BY <1>6 DEF DroppedFor
  <2>2. <<f, reason>> \notin D BY <1>1, <1>4
  <2>3. Cardinality(D') = Cardinality(D) + 1 BY <1>5, <2>1, <2>2, FS_AddElement
  <2>4. QED BY <1>2, <1>3, <1>5, <1>6, <2>3
<1>7. CASE reason \in {"newest", "policy"}
  <2>1. D' = D BY <1>7 DEF DroppedFor
  <2>2. QED BY <1>2, <1>3, <1>5, <1>7, <2>1
<1>8. QED BY <1>2, <1>3, <1>5, <1>6, <1>7

LEMMA FateSets ==
    /\ InQueue = ElementsOf(frames) /\ InQueue' = ElementsOf(frames')
    /\ Received = ElementsOf(got) /\ Received' = ElementsOf(got')
BY DEF InQueue, Received, ElementsOf

\* The frame given to push goes into the queue, to the dropped or to the
\* rejected frames, or stays in the producer's hand.
LEMMA PushDecidesFate ==
    ASSUME TypeOK, FrameInHand, FateInv, CountInv, NEW p \in Producers, NEW f,
           \/ /\ pc[p] = "idle" /\ submitted[p] < MaxPushes
              /\ f = <<p, submitted[p] + 1>>
              /\ submitted' = [submitted EXCEPT ![p] = @ + 1]
           \/ pc[p] = "woken" /\ f = <<p, submitted[p]>> /\ UNCHANGED submitted,
           PushLocked(p, f)
    PROVE  FateInv' /\ CountInv'
<1>0. /\ frames \in Seq(Frames) /\ got \in Seq(Frames) /\ Len(frames) \in Nat
      /\ Len(got) \in Nat /\ enqueue_total \in Nat /\ drop_total \in Nat
      /\ pc \in [Threads -> ProducerPC \cup ConsumerPC \cup PollerPC \cup CloserPC]
      /\ p \in Threads /\ got' = got /\ dequeue_total' = dequeue_total
  BY DEF TypeOK, DataTypeOK, PCTypeOK, Threads, PushLocked
<1>1. ASSUME NEW label, Goto(p, label)
      PROVE  /\ f \in Frames /\ f \notin SettledFrames
             /\ label \notin {"not_full", "woken"} =>
                   SettledFrames' = SettledFrames \cup {f}
             /\ label = "not_full" => SettledFrames' = SettledFrames
  <2>1. pc'[p] = label /\ \A u \in Producers \ {p} : pc'[u] = pc[u]
    BY <1>0, <1>1 DEF Goto, Threads
  <2>2. QED BY <2>1, SubmittedFrame
<1>2. Received' = Received BY <1>0 DEF Received
<1>3. ASSUME UNCHANGED dropped
      PROVE  /\ DroppedFrames' = DroppedFrames
             /\ DroppedFor({"oldest", "shutdown"})' = DroppedFor({"oldest", "shutdown"})
  BY <1>3 DEF DroppedFrames, DroppedFor
<1>4. ASSUME UNCHANGED frames PROVE InQueue' = InQueue
  BY <1>4 DEF InQueue
<1>5. Cardinality(DroppedFor({"oldest", "shutdown"})) \in Nat
  <2>1. DroppedFor({"oldest", "shutdown"}) \subseteq dropped BY DEF DroppedFor
  <2>2. QED BY <2>1, FS_Subset, FS_CardinalityType DEF CountInv
\* QueuePushError: the frame is handed back.
<1>6. CASE /\ rejected' = rejected \cup {f} /\ Goto(p, "idle")
           /\ UNCHANGED <<frames, enqueue_total, drop_total, dropped>>
  <2>1. f \notin SettledFrames /\ SettledFrames' = SettledFrames \cup {f}
    BY <1>1, <1>6
  <2>2. DroppedFrames' = DroppedFrames /\ InQueue' = InQueue BY <1>3, <1>4, <1>6
  <2>3. FateInv' BY <1>2, <1>6, <2>1, <2>2 DEF FateInv
  <2>4. CountInv' BY <1>0, <1>3, <1>6 DEF CountInv
  <2>5. QED BY <2>3, <2>4
\* Block: the producer waits with the frame.
<1>7. CASE /\ Goto(p, "not_full")
           /\ UNCHANGED <<frames, enqueue_total, drop_total, dropped, rejected>>
  <2>1. SettledFrames' = SettledFrames BY <1>1, <1>7
  <2>2. DroppedFrames' = DroppedFrames /\ InQueue' = InQueue BY <1>3, <1>4, <1>7
  <2>3. FateInv' BY <1>2, <1>7, <2>1, <2>2 DEF FateInv
  <2>4. CountInv' BY <1>0, <1>3, <1>7 DEF CountInv
  <2>5. QED BY <2>3, <2>4
\* DropNewest: the frame is dropped.
<1>8. CASE /\ dropped' = dropped \cup {<<f, "newest">>} /\ drop_total' = drop_total + 1
           /\ Goto(p, "idle") /\ UNCHANGED <<frames, enqueue_total, rejected>>
  <2>1. f \notin SettledFrames /\ SettledFrames' = SettledFrames \cup {f}
    BY <1>1, <1>8
  <2>2. f \notin DroppedFrames BY <2>1 DEF FateInv
  <2>3. /\ IsFiniteSet(dropped') /\ Cardinality(dropped') = Cardinality(dropped) + 1
        /\ DroppedFrames' = DroppedFrames \cup {f}
        /\ Cardinality(DroppedFor({"oldest", "shutdown"})') =
              Cardinality(DroppedFor({"oldest", "shutdown"}))
    BY <1>8, <2>2, DropOne
  <2>4. FateInv' BY <1>2, <1>4, <1>8, <2>1, <2>3 DEF FateInv
  <2>5. CountInv' BY <1>0, <1>8, <2>3 DEF CountInv
  <2>6. QED BY <2>4, <2>5
\* There is room.
<1>9. CASE /\ Enqueue(frames, f) /\ Goto(p, "notify_one")
           /\ UNCHANGED <<drop_total, dropped, rejected>>
  <2>1. f \in Frames /\ f \notin SettledFrames /\ SettledFrames' = SettledFrames \cup {f}
    BY <1>1, <1>9
  <2>2. f \notin InQueue BY <2>1 DEF FateInv
  <2>3. NoRepeats(frames') /\ InQueue' = InQueue \cup {f}
    BY <1>0, <1>9, <2>1, <2>2, FateSets, AppendElements DEF Enqueue, FateInv
  <2>4. DroppedFrames' = DroppedFrames BY <1>3, <1>9
  <2>5. FateInv' BY <1>2, <1>9, <2>1, <2>3, <2>4 DEF FateInv
  <2>6. Len(frames') = Len(frames) + 1 /\ enqueue_total' = enqueue_total + 1
    BY <1>0, <1>9 DEF Enqueue
  <2>7. CountInv' BY <1>0, <1>3, <1>5, <1>9, <2>6 DEF CountInv
  <2>8. QED BY <2>5, <2>7
\* DropOldest: the head makes room.
<1>10. CASE /\ Len(frames) = Capacity /\ Enqueue(Tail(frames), f)
            /\ dropped' = dropped \cup {<<Head(frames), "oldest">>}
            /\ drop_total' = drop_total + 1 /\ Goto(p, "notify_one")
            /\ UNCHANGED rejected
  <2>1. f \in Frames /\ f \notin SettledFrames /\ SettledFrames' = SettledFrames \cup {f}
    BY <1>1, <1>10
  <2>2. frames # <<>> /\ Tail(frames) \in Seq(Frames) /\ Len(Tail(frames)) = Len(frames) - 1
    BY <1>0, <1>10
  <2>3. /\ Head(frames) \in InQueue /\ NoRepeats(Tail(frames))
        /\ ElementsOf(Tail(frames)) = InQueue \ {Head(frames)}
    BY <1>0, <2>2, FateSets, TailElements DEF FateInv
  <2>4. f \notin ElementsOf(Tail(frames))
    BY <2>1, <2>3 DEF FateInv
  <2>5. NoRepeats(frames') /\ InQueue' = (InQueue \ {Head(frames)}) \cup {f}
    <3>1. frames' = Append(Tail(frames), f) BY <1>10 DEF Enqueue
    <3>2. /\ ElementsOf(Append(Tail(frames), f)) = ElementsOf(Tail(frames)) \cup {f}
          /\ NoRepeats(Append(Tail(frames), f))
      BY <2>1, <2>2, <2>3, <2>4, AppendElements, ZenonT(30)
    <3>3. QED BY <2>3, <3>1, <3>2, FateSets
  <2>6. Head(frames) \notin DroppedFrames BY <2>3 DEF FateInv
  <2>7. /\ IsFiniteSet(dropped') /\ Cardinality(dropped') = Cardinality(dropped) + 1
        /\ DroppedFrames' = DroppedFrames \cup {Head(frames)}
        /\ Cardinality(DroppedFor({"oldest", "shutdown"})') =
              Cardinality(DroppedFor({"oldest", "shutdown"})) + 1
    BY <1>10, <2>6, DropOne
  <2>8. FateInv' BY <1>2, <1>10, <2>1, <2>3, <2>5, <2>7 DEF FateInv
  <2>9. Len(frames') = Len(frames) /\ enqueue_total' = enqueue_total + 1
    BY <1>0, <1>10, <2>2 DEF Enqueue
  <2>10. CountInv'
    <3>1. drop_total' = Cardinality(dropped') BY <1>10, <2>7 DEF CountInv
    <3>2. dequeue_total' = Len(got') /\ dequeue_total \in Nat BY <1>0 DEF CountInv
    <3>3. enqueue_total' = dequeue_total' + Len(frames')
                           + Cardinality(DroppedFor({"oldest", "shutdown"})')
      BY <1>0, <1>5, <2>7, <2>9, <3>2 DEF CountInv
    <3>4. QED BY <2>7, <3>1, <3>2, <3>3 DEF CountInv
  <2>11. QED BY <2>8, <2>10
<1>11. QED BY <1>6, <1>7, <1>8, <1>9, <1>10 DEF PushLocked, PushClosed, PushOpen

\* record_drop: the Edge policy's drop is counted like any other.
LEMMA RecordDropDecidesFate ==
    ASSUME TypeOK, FrameInHand, FateInv, CountInv, NEW p \in Producers, RecordDrop(p)
    PROVE  FateInv' /\ CountInv'
<1> DEFINE f == <<p, submitted[p] + 1>>
<1>1. f \notin SettledFrames /\ SettledFrames' = SettledFrames \cup {f}
  BY SubmittedFrame DEF RecordDrop
<1>2. f \notin DroppedFrames BY <1>1 DEF FateInv
<1>3. dropped' = dropped \cup {<<f, "policy">>} BY DEF RecordDrop
<1> HIDE DEF f
<1>4. /\ IsFiniteSet(dropped') /\ Cardinality(dropped') = Cardinality(dropped) + 1
      /\ DroppedFrames' = DroppedFrames \cup {f}
      /\ Cardinality(DroppedFor({"oldest", "shutdown"})') =
            Cardinality(DroppedFor({"oldest", "shutdown"}))
  BY <1>2, <1>3, DropOne
<1>5. InQueue' = InQueue /\ Received' = Received /\ frames' = frames
      /\ rejected' = rejected
  BY DEF RecordDrop, InQueue, Received
<1>6. FateInv' BY <1>1, <1>4, <1>5 DEF FateInv
<1>7. CountInv' BY <1>4 DEF RecordDrop, CountInv
<1>8. QED BY <1>6, <1>7

\* dequeue moves the head to the received frames.
LEMMA DequeueDecidesFate ==
    ASSUME TypeOK, FateInv, CountInv, NEW t \in Consumers \cup Pollers, NEW label,
           Dequeue(t, label)
    PROVE  FateInv' /\ CountInv'
<1>0. /\ frames \in Seq(Frames) /\ got \in Seq(Frames) /\ Len(frames) \in Nat
      /\ Len(got) \in Nat /\ frames # <<>> /\ dequeue_total \in Nat
      /\ pc \in [Threads -> ProducerPC \cup ConsumerPC \cup PollerPC \cup CloserPC]
  BY DEF TypeOK, DataTypeOK, PCTypeOK, Threads, Dequeue
<1>1. /\ Head(frames) \in InQueue /\ NoRepeats(Tail(frames))
      /\ ElementsOf(Tail(frames)) = InQueue \ {Head(frames)}
  BY <1>0, FateSets, TailElements DEF FateInv
<1>2. InQueue' = InQueue \ {Head(frames)} /\ NoRepeats(frames')
  BY <1>1, FateSets DEF Dequeue
<1>3. Head(frames) \in Frames /\ got' = Append(got, Head(frames))
  BY <1>0 DEF Dequeue
<1>4. Received' = Received \cup {Head(frames)}
  BY <1>0, <1>3, FateSets, AppendElements
<1>5. /\ DroppedFrames' = DroppedFrames /\ rejected' = rejected /\ dropped' = dropped
      /\ DroppedFor({"oldest", "shutdown"})' = DroppedFor({"oldest", "shutdown"})
  BY DEF Dequeue, DroppedFrames, DroppedFor
<1>6. SettledFrames' = SettledFrames
  <2>1. \A u \in Producers :
          pc'[u] \in {"not_full", "woken"} <=> pc[u] \in {"not_full", "woken"}
    BY <1>0 DEF Dequeue, NotifyOneAndGoto, Goto, NotFullWaiters, Threads
  <2>2. QED BY <2>1, NothingSettles DEF Dequeue
<1>7. FateInv' BY <1>1, <1>2, <1>4, <1>5, <1>6 DEF FateInv
<1>8. /\ Len(frames') = Len(frames) - 1 /\ Len(got') = Len(got) + 1
      /\ dequeue_total' = dequeue_total + 1 /\ enqueue_total' = enqueue_total
      /\ drop_total' = drop_total
  BY <1>0, <1>3 DEF Dequeue
<1>9. Cardinality(DroppedFor({"oldest", "shutdown"})) \in Nat
  <2>1. DroppedFor({"oldest", "shutdown"}) \subseteq dropped BY DEF DroppedFor
  <2>2. QED BY <2>1, FS_Subset, FS_CardinalityType DEF CountInv
<1>10. CountInv' BY <1>0, <1>5, <1>8, <1>9 DEF CountInv
<1>11. QED BY <1>7, <1>10

\* close with DrainMode::Discard drops what is queued, and counts it.
LEMMA DiscardDecidesFate ==
    ASSUME TypeOK, FateInv, CountInv, SettledFrames' = SettledFrames,
           frames' = <<>>, drop_total' = drop_total + Len(frames),
           dropped' = dropped \cup {<<frames[i], "shutdown">> : i \in DOMAIN frames},
           UNCHANGED <<got, rejected, enqueue_total, dequeue_total>>
    PROVE  FateInv' /\ CountInv'
<1> DEFINE T == {<<frames[i], "shutdown">> : i \in DOMAIN frames}
           D == DroppedFor({"oldest", "shutdown"})
<1>0. frames \in Seq(Frames) /\ Len(frames) \in Nat /\ Len(got) \in Nat
  BY DEF TypeOK, DataTypeOK
<1>1. IsFiniteSet(T) /\ Cardinality(T) = Len(frames)
  BY <1>0, TaggedElementsCount DEF FateInv
<1>2. \A d \in T : d[1] \in InQueue /\ d[2] = "shutdown"
  BY DEF InQueue
<1>3. ASSUME NEW x \in InQueue PROVE \E d \in T : d[1] = x
  <2>1. PICK i \in DOMAIN frames : x = frames[i] BY DEF InQueue
  <2>2. <<frames[i], "shutdown">> \in T BY <2>1
  <2>3. <<frames[i], "shutdown">>[1] = x BY <2>1
  <2>4. QED BY <2>2, <2>3
<1>4. dropped \cap T = {}
  BY <1>2 DEF FateInv, DroppedFrames
<1>5. dropped' = dropped \cup T OBVIOUS
<1> HIDE DEF T
<1>6. IsFiniteSet(dropped') /\ Cardinality(dropped') = Cardinality(dropped) + Len(frames)
  <2>1. Cardinality(dropped) \in Nat BY FS_CardinalityType DEF CountInv
  <2>2. IsFiniteSet(dropped) BY DEF CountInv
  <2>3. /\ IsFiniteSet(dropped \cup T)
        /\ Cardinality(dropped \cup T) =
              Cardinality(dropped) + Cardinality(T) - Cardinality(dropped \cap T)
    BY <1>1, <2>2, FS_Union
  <2>4. Cardinality(dropped \cap T) = 0 BY <1>4, FS_EmptySet
  <2>5. Cardinality(dropped \cup T) = Cardinality(dropped) + Len(frames)
    BY <1>0, <1>1, <2>1, <2>3, <2>4
  <2>6. QED BY <1>5, <2>3, <2>5, Zenon
<1>7. Cardinality(D') = Cardinality(D) + Len(frames) /\ Cardinality(D) \in Nat
  <2>1. D' = D \cup T BY <1>2, <1>5 DEF DroppedFor
  <2>2. D \subseteq dropped BY DEF DroppedFor
  <2>3. IsFiniteSet(D) /\ Cardinality(D) \in Nat /\ D \cap T = {}
    BY <1>4, <2>2, FS_Subset, FS_CardinalityType DEF CountInv
  <2> HIDE DEF D
  <2>4. Cardinality(D \cup T) = Cardinality(D) + Cardinality(T) - Cardinality(D \cap T)
    BY <1>1, <2>3, FS_Union
  <2>5. Cardinality(D \cap T) = 0 BY <2>3, FS_EmptySet
  <2>6. QED BY <1>0, <1>1, <2>1, <2>3, <2>4, <2>5
<1>8. DroppedFrames' = DroppedFrames \cup InQueue
  BY <1>2, <1>3, <1>5 DEF DroppedFrames
<1>9. InQueue' = {} /\ NoRepeats(frames') /\ Len(frames') = 0
  BY DEF InQueue, NoRepeats
<1>10. Received' = Received BY DEF Received
<1>11. FateInv' BY <1>8, <1>9, <1>10 DEF FateInv
<1>12. CountInv' BY <1>0, <1>6, <1>7, <1>9 DEF CountInv
<1>13. QED BY <1>11, <1>12

\* Every other step leaves frames, history and metrics alone.
LEMMA FatesUnchanged ==
    ASSUME FateInv, CountInv, SettledFrames' = SettledFrames,
           UNCHANGED <<frames, got, dropped, rejected, enqueue_total, dequeue_total,
                       drop_total>>
    PROVE  FateInv' /\ CountInv'
<1>1. /\ InQueue' = InQueue /\ Received' = Received /\ DroppedFrames' = DroppedFrames
      /\ DroppedFor({"oldest", "shutdown"})' = DroppedFor({"oldest", "shutdown"})
  BY DEF InQueue, Received, DroppedFrames, DroppedFor
<1>2. FateInv' BY <1>1 DEF FateInv
<1>3. CountInv' BY <1>1 DEF CountInv
<1>4. QED BY <1>2, <1>3

LEMMA FateStep ==
    TypeInv /\ FateInv /\ CountInv /\ [Next]_vars => FateInv' /\ CountInv'
<1> SUFFICES ASSUME TypeOK, FrameInHand, FateInv, CountInv, [Next]_vars
             PROVE  FateInv' /\ CountInv'
  BY DEF TypeInv
<1>0. pc \in [Threads -> ProducerPC \cup ConsumerPC \cup PollerPC \cup CloserPC]
  BY DEF TypeOK, PCTypeOK
<1>1. ASSUME NEW p \in Producers, ProducerStep(p) PROVE FateInv' /\ CountInv'
  <2>1. CASE Push(p) \/ PushWoken(p)
    BY <2>1, PushDecidesFate DEF Push, PushWoken
  <2>2. CASE PushNotify(p) \/ PushWake(p)
    <3>1. \A u \in Producers :
            pc'[u] \in {"not_full", "woken"} <=> pc[u] \in {"not_full", "woken"}
      BY <1>0, <2>2 DEF PushNotify, PushWake, NotifyOneAndGoto, Goto, NotEmptyWaiters,
                        Threads
    <3>2. SettledFrames' = SettledFrames
      BY <2>2, <3>1, NothingSettles DEF PushNotify, PushWake
    <3>3. QED BY <2>2, <3>2, FatesUnchanged DEF PushNotify, PushWake, metrics, history
  <2>3. QED BY <1>1, <2>1, <2>2, RecordDropDecidesFate DEF ProducerStep
<1>2. ASSUME NEW t \in Consumers \cup Pollers \cup Closers, NEW label, Goto(t, label),
             UNCHANGED submitted
      PROVE  SettledFrames' = SettledFrames
  <2>1. \A u \in Producers : pc'[u] = pc[u]
    BY <1>0, <1>2 DEF Goto, Threads
  <2>2. QED BY <1>2, <2>1, NothingSettles
<1>3. ASSUME NEW t \in Consumers \cup Pollers, NEW from, NEW to, Step(t, from, to)
      PROVE  FateInv' /\ CountInv'
  BY <1>2, <1>3, FatesUnchanged DEF Step, metrics, history
<1>4. ASSUME NEW w \in Pollers, PollObserve(w) PROVE FateInv' /\ CountInv'
  BY <1>2, <1>4, FatesUnchanged DEF PollObserve, metrics, history
<1>5. ASSUME NEW c \in Closers, CloserStep(c) PROVE FateInv' /\ CountInv'
  <2>1. ASSUME NEW mode \in DrainMode, Close(c, mode) PROVE FateInv' /\ CountInv'
    <3>1. SettledFrames' = SettledFrames BY <1>2, <2>1 DEF Close
    <3>2. QED BY <2>1, <3>1, DiscardDecidesFate, FatesUnchanged DEF Close
  <2>2. CASE CloseNotifyNotEmpty(c) \/ CloseNotifyNotFull(c)
    <3>1. \A u \in Producers :
            pc'[u] \in {"not_full", "woken"} <=> pc[u] \in {"not_full", "woken"}
      BY <1>0, <2>2 DEF CloseNotifyNotEmpty, CloseNotifyNotFull, NotifyAllAndGoto,
                        NotEmptyWaiters, NotFullWaiters, Threads
    <3>2. SettledFrames' = SettledFrames
      BY <2>2, <3>1, NothingSettles DEF CloseNotifyNotEmpty, CloseNotifyNotFull
    <3>3. QED BY <2>2, <3>2, FatesUnchanged
              DEF CloseNotifyNotEmpty, CloseNotifyNotFull, metrics, history
  <2>3. CASE CloseWake(c)
    BY <1>2, <2>3, FatesUnchanged DEF CloseWake, metrics, history
  <2>4. QED BY <1>5, <2>1, <2>2, <2>3 DEF CloserStep
<1>6. ASSUME NEW t \in Producers \cup Consumers, SpuriousWakeup(t)
      PROVE  FateInv' /\ CountInv'
  <2>1. /\ pc' = [pc EXCEPT ![t] = "woken"] /\ t \in Threads /\ UNCHANGED submitted
        /\ pc[t] \in {"not_full", "not_empty"}
        /\ UNCHANGED <<frames, got, dropped, rejected, enqueue_total, dequeue_total,
                       drop_total>>
    BY <1>6 DEF SpuriousWakeup, Step, Goto, Threads, metrics, history
  <2>2. t \in Producers => pc[t] = "not_full"
    BY <2>1 DEF TypeOK, PCTypeOK, ProducerPC
  <2>3. \A u \in Producers :
          pc'[u] \in {"not_full", "woken"} <=> pc[u] \in {"not_full", "woken"}
    BY <1>0, <2>1, <2>2 DEF Threads
  <2>4. QED BY <2>1, <2>3, NothingSettles, FatesUnchanged
<1>7. CASE UNCHANGED vars
  <2>1. SettledFrames' = SettledFrames BY <1>7, NothingSettles DEF vars
  <2>2. QED BY <1>7, <2>1, FatesUnchanged DEF vars, metrics, history
<1>8. QED BY <1>1, <1>3, <1>4, <1>5, <1>6, <1>7, DequeueDecidesFate
          DEF Next, Pop, PollerStep, TryPop, PollCheck, PollWake

LEMMA FateInit == Init => FateInv /\ CountInv
<1> SUFFICES ASSUME Init PROVE FateInv /\ CountInv
  OBVIOUS
<1>1. /\ InQueue = {} /\ Received = {} /\ DroppedFrames = {} /\ rejected = {}
      /\ NoRepeats(frames) /\ DroppedFor({"oldest", "shutdown"}) = {}
      /\ Len(frames) = 0 /\ Len(got) = 0
  BY DEF Init, InQueue, Received, DroppedFrames, DroppedFor, NoRepeats
<1>2. SettledFrames = {}
  <2>1. \A p \in Producers : LastSettled(p) = 0
    BY DEF Init, LastSettled, Threads
  <2>2. \A f \in Frames : f[1] \in Producers /\ f[2] \in Nat /\ f[2] > 0
    BY DEF Frames
  <2>3. QED BY <2>1, <2>2 DEF SettledFrames
<1>3. FateInv BY <1>1, <1>2 DEF FateInv
<1>4. CountInv
  <2>1. IsFiniteSet(dropped) /\ Cardinality(dropped) = 0
        /\ Cardinality(DroppedFor({"oldest", "shutdown"})) = 0
    BY <1>1, FS_EmptySet DEF Init
  <2>2. enqueue_total = 0 /\ dequeue_total = 0 /\ drop_total = 0 BY DEF Init
  <2>3. QED BY <1>1, <2>1, <2>2 DEF CountInv
<1>5. QED BY <1>3, <1>4

\* One of four fates, counted the way the property does.
LEMMA OneFate ==
    ASSUME NEW A \in BOOLEAN, NEW B \in BOOLEAN, NEW C \in BOOLEAN, NEW D \in BOOLEAN,
           ~(A /\ B), ~(A /\ C), ~(A /\ D), ~(B /\ C), ~(B /\ D), ~(C /\ D)
    PROVE  Cardinality({fate \in 1..4 : \/ fate = 1 /\ A
                                        \/ fate = 2 /\ B
                                        \/ fate = 3 /\ C
                                        \/ fate = 4 /\ D})
              = IF A \/ B \/ C \/ D THEN 1 ELSE 0
<1> DEFINE F == {fate \in 1..4 : \/ fate = 1 /\ A
                                 \/ fate = 2 /\ B
                                 \/ fate = 3 /\ C
                                 \/ fate = 4 /\ D}
<1>1. CASE A  <2>1. F = {1} BY <1>1  <2>2. QED BY <1>1, <2>1, FS_Singleton
<1>2. CASE B  <2>1. F = {2} BY <1>2  <2>2. QED BY <1>2, <2>1, FS_Singleton
<1>3. CASE C  <2>1. F = {3} BY <1>3  <2>2. QED BY <1>3, <2>1, FS_Singleton
<1>4. CASE D  <2>1. F = {4} BY <1>4  <2>2. QED BY <1>4, <2>1, FS_Singleton
<1>5. CASE ~A /\ ~B /\ ~C /\ ~D
  <2>1. F = {} BY <1>5
  <2>2. QED BY <1>5, <2>1, FS_EmptySet
<1>6. QED BY <1>1, <1>2, <1>3, <1>4, <1>5

LEMMA FateInvSuffices == TypeOK /\ FateInv /\ CountInv => MetricsAccountForEveryFrame
<1> SUFFICES ASSUME TypeOK, FateInv, CountInv PROVE MetricsAccountForEveryFrame
  OBVIOUS
<1>1. ASSUME NEW p \in Producers, NEW n \in 1..MaxPushes
      PROVE  LET f == <<p, n>>
                 settled == \/ n < submitted[p]
                            \/ n = submitted[p] /\ pc[p] \notin {"not_full", "woken"}
             IN Cardinality({fate \in 1..4 :
                    \/ fate = 1 /\ f \in InQueue
                    \/ fate = 2 /\ f \in Received
                    \/ fate = 3 /\ f \in DroppedFrames
                    \/ fate = 4 /\ f \in rejected}) = IF settled THEN 1 ELSE 0
  <2> DEFINE f == <<p, n>>
             settled == \/ n < submitted[p]
                        \/ n = submitted[p] /\ pc[p] \notin {"not_full", "woken"}
  <2>1. f \in Frames /\ f[1] = p /\ f[2] = n BY DEF Frames
  <2>2. f \in SettledFrames <=> n <= LastSettled(p)
    BY <2>1 DEF SettledFrames
  <2>3. submitted[p] \in Nat BY DEF TypeOK, DataTypeOK
  <2>4. n <= LastSettled(p) <=> settled BY <2>3 DEF LastSettled
  <2>5. settled <=> f \in InQueue \/ f \in Received \/ f \in DroppedFrames \/ f \in rejected
    BY <2>2, <2>4 DEF FateInv
  <2>6. /\ ~(f \in InQueue /\ f \in Received) /\ ~(f \in InQueue /\ f \in DroppedFrames)
        /\ ~(f \in InQueue /\ f \in rejected) /\ ~(f \in Received /\ f \in DroppedFrames)
        /\ ~(f \in Received /\ f \in rejected) /\ ~(f \in DroppedFrames /\ f \in rejected)
    BY DEF FateInv
  <2> HIDE DEF f, settled
  <2>7. Cardinality({fate \in 1..4 : \/ fate = 1 /\ f \in InQueue
                                     \/ fate = 2 /\ f \in Received
                                     \/ fate = 3 /\ f \in DroppedFrames
                                     \/ fate = 4 /\ f \in rejected})
           = IF f \in InQueue \/ f \in Received \/ f \in DroppedFrames \/ f \in rejected
             THEN 1 ELSE 0
    BY <2>6, OneFate
  <2>8. QED BY <2>5, <2>7 DEF f, settled
<1>2. QED BY <1>1 DEF MetricsAccountForEveryFrame, CountInv

\* The counters of a metrics snapshot account for every frame a producer ever
\* submitted: each met exactly one fate, whatever the overflow policy, and
\* however push, pop, record_drop and close interleave.
THEOREM EveryFrameIsAccountedFor == Spec => []MetricsAccountForEveryFrame
<1>1. TypeInv => TypeOK BY DEF TypeInv
<1>2. QED BY <1>1, TypeInvInit, TypeInvStep, FateInit, FateStep, FateInvSuffices, PTL
          DEF Spec
=============================================================================
