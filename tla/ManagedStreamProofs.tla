------------------------ MODULE ManagedStreamProofs ------------------------
(***************************************************************************)
(* Theorems about ManagedStream, for any number of submissions, any        *)
(* capacities and every interleaving of callers, workers, executor and     *)
(* stop.                                                                   *)
(***************************************************************************)
EXTENDS ManagedStream, CountingLemmas, TLAPS

USE StreamAssumption

Results == {None, Response, Timeout}
Completions == [sub : Submissions, result : Results]
SubsOf(q) == {q[i].sub : i \in DOMAIN q}

TypeInv ==
    /\ input \in Seq(Submissions) /\ accepted \in Seq(Submissions)
    /\ worker_completions \in Seq(Completions) /\ drained \in Seq(Completions)
    /\ relaxed \in Seq(Completions) /\ results \in Seq(Completions)
    /\ delivered \in Seq(Completions)
    /\ Len(input) <= InputCapacity /\ Len(results) <= ResultCapacity
    /\ closed \in BOOLEAN /\ ordering \in {"Strict", "Relaxed"} /\ lifecycle \in 0..2
    /\ registrations \in [Ids -> Submissions \cup {None}]
    /\ cancelled \in [Submissions -> BOOLEAN] /\ terminal \in [Submissions -> BOOLEAN]
    /\ lease \in [Submissions -> {"caller", "held", "released"}]
    /\ winner \in [Submissions -> {None, "cancel", "timeout", "worker"}]
    /\ marked \subseteq Submissions /\ expired \subseteq Submissions
    /\ active \subseteq Submissions /\ scan \subseteq Submissions
    /\ launches \subseteq Submissions /\ timer \subseteq Submissions
    /\ to_cancel \subseteq Submissions
    /\ epc \in {"drain", "process", "unregister", "scan", "deliver", "launch", "wait",
                "spawn", "done"}
    /\ spc \in {"idle", "clear", "take", "cancel", "await", "returned"}
    /\ DOMAIN ordered \subseteq Submissions
    /\ \A s \in DOMAIN ordered : ordered[s] \in Results
    /\ next_delivery \in Nat \ {0}
    /\ progress \in BOOLEAN
    /\ wpc \in [Submissions -> {"none", "attempt", "calling", "finish", "push", "done"}]
    /\ attempt \in [Submissions -> 1..AttemptLimit]
    /\ answer \in [Submissions -> Results]
    /\ epc = "unregister" => drained # <<>>

\* Whoever gives up a request has won, or lost, its terminal transition, which
\* released the lease; a cancel in progress is about to.
LeaseInv ==
    /\ \A s \in Submissions : terminal[s] => lease[s] = "released"
    /\ \A s \in Submissions : cancelled[s] => terminal[s] \/ s \in marked
    /\ \A s \in Submissions : wpc[s] \in {"push", "done"} => terminal[s]
    /\ \A s \in SubsOf(worker_completions) \cup SubsOf(drained) : terminal[s]
    /\ HeldLeaseHasOwner

DistinctIds == \A s, t \in Submissions : IdOf[s] = IdOf[t] => s = t

\* A lease that is held is registered until stop takes it over.
StopInv ==
    /\ spc \in {"take", "cancel", "await", "returned"} => closed
    /\ \A s \in Submissions \ marked : lease[s] = "held" =>
          \/ spc \in {"idle", "clear", "take"} /\ registrations[IdOf[s]] = s
          \/ spc = "cancel" /\ s \in to_cancel

\* Requests no worker was started for, and where requests are taken from and to.
Pending == {s \in Submissions : lease[s] = "caller"} \cup ElementsOf(input) \cup launches
StartInv ==
    /\ NoRepeats(input) /\ NoRepeats(accepted)
    /\ \A s \in ElementsOf(accepted) : lease[s] # "caller"
    /\ \A s \in ElementsOf(input) : lease[s] # "caller" /\ s \notin launches
    /\ \A s \in Pending : wpc[s] = "none"
                          /\ s \notin SubsOf(worker_completions) \cup SubsOf(drained)
    /\ \A s \in launches : lease[s] # "caller"
    /\ \A s \in SubsOf(worker_completions) \cup SubsOf(drained) : wpc[s] \in {"none", "done"}
    /\ \A s \in Submissions : terminal[s] /\ winner[s] = "worker" =>
          wpc[s] \in {"push", "done"} \/ (wpc[s] = "none" /\ s \notin Pending)

\* A result is the one the winner of the terminal transition produced.
Sound(s, r) ==
    /\ r # None => terminal[s]
    /\ r = Response => winner[s] = "worker"
    /\ r = Timeout => winner[s] = "timeout" \/ (winner[s] = "worker" /\ answer[s] = Timeout)
\* Every result on its way from a worker to the caller.
Ordered == {Completion(s, ordered[s]) : s \in DOMAIN ordered}
Pushing == {Completion(s, answer[s]) : s \in {t \in Submissions : wpc[t] = "push"}}
Holdings == ElementsOf(worker_completions) \cup ElementsOf(drained) \cup ElementsOf(relaxed)
            \cup ElementsOf(results) \cup ElementsOf(delivered) \cup Ordered \cup Pushing
SoundInv ==
    /\ \A c \in Holdings : Sound(c.sub, c.result)
    /\ \A c \in ElementsOf(relaxed) \cup ElementsOf(results) \cup ElementsOf(delivered) :
          c.result # None

\* Strict streams: what was handed over is a part of what was accepted, in its
\* order.
Earlier(s, t) == \E a, b \in DOMAIN accepted : a < b /\ accepted[a] = s /\ accepted[b] = t
HandedOver(s) == \E a \in DOMAIN accepted : a < next_delivery /\ accepted[a] = s
StrictInv ==
    ordering = "Strict" =>
        /\ relaxed = <<>>
        /\ \A s \in SubsOf(results) \cup SubsOf(delivered) : HandedOver(s)
        /\ \A i, j \in DOMAIN results : i < j => Earlier(results[i].sub, results[j].sub)
        /\ \A i, j \in DOMAIN delivered : i < j => Earlier(delivered[i].sub, delivered[j].sub)
        /\ \A s \in SubsOf(delivered), t \in SubsOf(results) : Earlier(s, t)

\* Relaxed streams: a request has one answer, in one place.
Answers(q) == {q[i].sub : i \in {k \in DOMAIN q : q[k].result # None}}
AnsweredOnce(q) == \A i, j \in DOMAIN q :
    q[i].result # None /\ q[j].result # None /\ q[i].sub = q[j].sub => i = j
OneAnswer ==
    /\ AnsweredOnce(worker_completions) /\ AnsweredOnce(drained) /\ AnsweredOnce(relaxed)
    /\ AnsweredOnce(results) /\ AnsweredOnce(delivered)
    /\ \A s \in Answers(delivered) :
          s \notin Answers(results) \cup Answers(relaxed) \cup Answers(drained)
                   \cup Answers(worker_completions)
    /\ \A s \in Answers(results) :
          s \notin Answers(relaxed) \cup Answers(drained) \cup Answers(worker_completions)
    /\ \A s \in Answers(relaxed) : s \notin Answers(drained) \cup Answers(worker_completions)
    /\ \A s \in Answers(drained) : s \notin Answers(worker_completions)
    /\ \A s \in Submissions : wpc[s] = "push" /\ answer[s] # None =>
          s \notin Answers(delivered) \cup Answers(results) \cup Answers(relaxed)
                   \cup Answers(drained) \cup Answers(worker_completions)
RelaxedInv == ordering = "Relaxed" => OneAnswer

\* The window: what the executor holds, including the completion in its hand.
SubsOnce(q) == \A i, j \in DOMAIN q : q[i].sub = q[j].sub => i = j
InHand == IF epc = "unregister" THEN {Head(drained).sub} ELSE {}
Occupied == active \cup DOMAIN ordered \cup SubsOf(relaxed) \cup InHand
WindowInv ==
    /\ IsFiniteSet(Occupied) /\ Cardinality(Occupied) <= MaxInFlight
    /\ SubsOnce(worker_completions) /\ SubsOnce(drained)
    /\ SubsOf(worker_completions) \cap SubsOf(drained) = {}
    /\ SubsOf(worker_completions) \cup (SubsOf(drained) \ InHand) \subseteq active
    /\ launches \cup scan \subseteq active
    /\ \A s \in Submissions : wpc[s] \in {"attempt", "calling", "finish", "push"} => s \in active
    /\ epc \notin {"process", "unregister", "done"} => drained = <<>>
    /\ epc # "scan" => scan = {}
    /\ epc \notin {"launch", "spawn"} => launches = {}

\* The executor goes to sleep with nothing left to do, and what changes that
\* wakes it.
SleepInv ==
    /\ epc = "launch" /\ ~progress => ~Deliverable
    /\ SleepsOnlyWhenIdle

----------------------------------------------------------------------------
(* Types                                                                   *)

LEMMA InitType == Init => TypeInv
<1> SUFFICES ASSUME Init PROVE TypeInv OBVIOUS
<1>1. DOMAIN ordered = {} BY DEF Init
<1>2. closed \in BOOLEAN /\ progress \in BOOLEAN BY DEF Init
<1>3. ordering \in {"Strict", "Relaxed"} BY DEF Init
<1>4. QED BY <1>1, <1>2, <1>3 DEF Init, TypeInv, Results

\* Every step keeps the types.
LEMMA CallerType ==
    ASSUME TypeInv, NEW s \in Submissions, CallerStep(s)
    PROVE  TypeInv'
<1>1. CASE Submit(s)
  BY <1>1, SMTT(30) DEF TypeInv, Submit, NotifyAll, workers, stopping, fixed
<1>2. CASE Refuse(s)
  BY <1>2 DEF TypeInv, Refuse, mailbox, executor, workers, stopping, fixed
<1>3. CASE CancelMark(s)
  BY <1>3 DEF TypeInv, CancelMark, mailbox, executor, workers, stopping, fixed
<1>4. CASE CancelFinish(s)
  BY <1>4 DEF TypeInv, CancelFinish, Finish, NotifyAll, mailbox, workers, stopping, fixed
<1>5. CASE Expire(s)
  BY <1>5 DEF TypeInv, Expire, mailbox, terminals, executor, workers, stopping, fixed
<1>6. QED BY <1>1, <1>2, <1>3, <1>4, <1>5 DEF CallerStep

LEMMA GotoType ==
    ASSUME TypeInv, NEW s \in Submissions, NEW a \in Results,
           NEW label \in {"none", "attempt", "calling", "finish", "push", "done"},
           WorkerGoto(s, label, a)
    PROVE  /\ wpc' \in [Submissions -> {"none", "attempt", "calling", "finish", "push", "done"}]
           /\ answer' \in [Submissions -> Results]
BY DEF TypeInv, WorkerGoto

LEMMA WorkerType ==
    ASSUME TypeInv, NEW s \in Submissions,
           WorkerStep(s) \/ AdapterReturns(s) \/ AdapterHangs(s)
    PROVE  TypeInv'
<1>1. CASE Attempt(s)
  <2>1. \E label \in {"calling", "finish"}, a \in Results : WorkerGoto(s, label, a)
    BY <1>1 DEF Attempt, GiveUp, Results
  <2>2. /\ wpc' \in [Submissions -> {"none", "attempt", "calling", "finish", "push", "done"}]
        /\ answer' \in [Submissions -> Results]
    BY <2>1, GotoType
  <2>3. QED BY <1>1, <2>2 DEF TypeInv, Attempt, mailbox, terminals, executor, stopping, fixed
<1>2. CASE WorkerFinish(s)
  BY <1>2 DEF TypeInv, WorkerFinish, Finish, WorkerGoto, Results, mailbox, executor, stopping, fixed
<1>3. CASE WorkerPush(s)
  <2>1. Completion(s, answer[s]) \in Completions
    BY DEF TypeInv, Completion, Completions
  <2>2. worker_completions' \in Seq(Completions)
    BY <1>3, <2>1 DEF TypeInv, WorkerPush, Push
  <2>3. QED BY <1>3, <2>2 DEF TypeInv, WorkerPush, NotifyAll, terminals, stopping, fixed
<1>4. CASE AdapterReturns(s)
  <2>1. \E label \in {"attempt", "finish"}, a \in Results : WorkerGoto(s, label, a)
    BY <1>4 DEF AdapterReturns, GiveUp, Results
  <2>2. /\ wpc' \in [Submissions -> {"none", "attempt", "calling", "finish", "push", "done"}]
        /\ answer' \in [Submissions -> Results]
    BY <2>1, GotoType
  <2>3. attempt' \in [Submissions -> 1..AttemptLimit]
    <3>1. \/ UNCHANGED attempt
          \/ attempt[s] < AttemptLimit /\ attempt' = [attempt EXCEPT ![s] = @ + 1]
      BY <1>4 DEF AdapterReturns
    <3>2. attempt[s] < AttemptLimit => attempt[s] + 1 \in 1..AttemptLimit
      BY DEF TypeInv
    <3>3. attempt \in [Submissions -> 1..AttemptLimit] BY DEF TypeInv
    <3>4. QED BY <3>1, <3>2, <3>3
  <2>4. QED BY <1>4, <2>2, <2>3, SMTT(30) DEF TypeInv, AdapterReturns, mailbox, terminals, executor, stopping, fixed
<1>5. CASE AdapterHangs(s)
  BY <1>5 DEF TypeInv, AdapterHangs, mailbox, terminals, executor, stopping
<1>6. QED BY <1>1, <1>2, <1>3, <1>4, <1>5 DEF WorkerStep

LEMMA ResolveType ==
    ASSUME TypeInv, NEW s \in Submissions, NEW r \in Results, Resolve(s, r)
    PROVE  /\ DOMAIN ordered' \subseteq Submissions
           /\ \A t \in DOMAIN ordered' : ordered'[t] \in Results
           /\ relaxed' \in Seq(Completions)
<1>1. Completion(s, r) \in Completions
  BY DEF Completion, Completions
<1>2. relaxed' \in Seq(Completions)
  BY <1>1 DEF TypeInv, Resolve
<1>3. \/ ordered' = ordered
      \/ ordered' = [t \in DOMAIN ordered \cup {s} |-> IF t = s THEN r ELSE ordered[t]]
  BY DEF Resolve
<1>4. DOMAIN ordered \subseteq Submissions /\ \A t \in DOMAIN ordered : ordered[t] \in Results
  BY DEF TypeInv
<1>5. CASE ordered' = ordered BY <1>2, <1>4, <1>5
<1>6. CASE ordered' = [t \in DOMAIN ordered \cup {s} |-> IF t = s THEN r ELSE ordered[t]]
  <2>1. DOMAIN ordered' = DOMAIN ordered \cup {s} BY <1>6
  <2>2. \A t \in DOMAIN ordered' : ordered'[t] = IF t = s THEN r ELSE ordered[t] BY <1>6
  <2>3. QED BY <1>2, <1>4, <2>1, <2>2
<1>7. QED BY <1>3, <1>5, <1>6

\* The head of a queue of completions, and the rest.
LEMMA CompletionHead ==
    ASSUME NEW q \in Seq(Completions), q # <<>>
    PROVE  /\ Head(q) \in Completions /\ Head(q) = q[1] /\ Tail(q) \in Seq(Completions)
           /\ Head(q).sub \in Submissions /\ Head(q).result \in Results
<1>1. Head(q) \in Completions /\ Head(q) = q[1] /\ Tail(q) \in Seq(Completions)
  OBVIOUS
<1>2. QED BY <1>1 DEF Completions

LEMMA ExitType ==
    ASSUME TypeInv, ExecutorExit
    PROVE  TypeInv'
BY DEF TypeInv, ExecutorExit, mailbox, terminals, workers, fixed

LEMMA RoundType ==
    ASSUME TypeInv, Drain \/ Process \/ Unregister \/ (\E s \in Submissions : Scan(s))
    PROVE  TypeInv'
<1>1. CASE Drain
  <2>1. CASE ExecutorExit BY <2>1, ExitType
  <2>2. CASE ~ExecutorExit
    <3>1. progress' = (worker_completions # <<>>) BY <1>1, <2>2 DEF Drain
    <3>2. progress' \in BOOLEAN BY <3>1
    <3>3. /\ drained' = worker_completions /\ worker_completions' = <<>> /\ epc' = "process"
          /\ UNCHANGED <<input, results, closed, registrations, terminals, marked,
                         expired, active, scan, ordered, relaxed, next_delivery,
                         launches, timer, workers, stopping, accepted, delivered>>
      BY <1>1, <2>2 DEF Drain
    <3>4. QED BY <3>2, <3>3 DEF TypeInv, terminals, workers, stopping, fixed
  <2>3. QED BY <2>1, <2>2
<1>2. CASE Process
  BY <1>2 DEF TypeInv, Process, mailbox, terminals, workers, stopping, fixed
<1>3. CASE Unregister
  <2> DEFINE c == Head(drained)
  <2>1. drained \in Seq(Completions) /\ drained # <<>> BY <1>3 DEF TypeInv, Unregister
  <2>2. /\ c.sub \in Submissions /\ c.result \in Results /\ Tail(drained) \in Seq(Completions)
    BY <2>1, CompletionHead
  <2>3. Resolve(c.sub, c.result) BY <1>3 DEF Unregister
  <2>4. /\ DOMAIN ordered' \subseteq Submissions
        /\ \A t \in DOMAIN ordered' : ordered'[t] \in Results
        /\ relaxed' \in Seq(Completions)
    BY <2>2, <2>3, ResolveType
  <2>5. registrations' \in [Ids -> Submissions \cup {None}]
    BY <1>3, <2>2 DEF TypeInv, Unregister
  <2>6. QED BY <1>3, <2>2, <2>4, <2>5 DEF TypeInv, Unregister, mailbox, terminals, workers, stopping, fixed
<1>4. ASSUME NEW s \in Submissions, Scan(s) PROVE TypeInv'
  <2>1. \/ \E r \in Results : Resolve(s, r)
        \/ UNCHANGED <<ordered, relaxed>>
    BY <1>4 DEF Scan, TimeOut, Results
  <2>2. /\ DOMAIN ordered' \subseteq Submissions
        /\ \A t \in DOMAIN ordered' : ordered'[t] \in Results
        /\ relaxed' \in Seq(Completions)
    BY <2>1, ResolveType DEF TypeInv
  <2>3. Finish(s, "timeout") \/ UNCHANGED <<terminal, winner, lease>>
    BY <1>4 DEF Scan, TimeOut
  <2>4. /\ terminal' \in [Submissions -> BOOLEAN]
        /\ lease' \in [Submissions -> {"caller", "held", "released"}]
        /\ winner' \in [Submissions -> {None, "cancel", "timeout", "worker"}]
    BY <2>3 DEF TypeInv, Finish
  <2>5. QED BY <1>4, <2>2, <2>4 DEF TypeInv, Scan, mailbox, workers, stopping, fixed
<1>5. QED BY <1>1, <1>2, <1>3, <1>4

LEMMA LockedType ==
    ASSUME TypeInv, Deliver \/ DeliverOne \/ Delivered \/ Launch \/ LaunchDone
    PROVE  TypeInv'
<1>1. CASE Deliver
  <2>1. CASE ExecutorExit BY <2>1, ExitType
  <2>2. CASE ~ExecutorExit
    BY <1>1, <2>2 DEF TypeInv, Deliver, mailbox, terminals, workers, stopping, fixed
  <2>3. QED BY <2>1, <2>2
<1>2. CASE DeliverOne
  <2>1. /\ results' \in Seq(Completions) /\ Len(results') <= ResultCapacity
        /\ relaxed' \in Seq(Completions) /\ DOMAIN ordered' \subseteq Submissions
        /\ \A t \in DOMAIN ordered' : ordered'[t] \in Results
        /\ next_delivery' \in Nat \ {0}
    <3>1. CASE DeliverRelaxed
      <4>1. Head(relaxed) \in Completions /\ Tail(relaxed) \in Seq(Completions)
        BY <3>1, CompletionHead DEF TypeInv, DeliverRelaxed
      <4>2. QED BY <3>1, <4>1 DEF TypeInv, DeliverRelaxed, Room
    <3>2. CASE DeliverStrict
      <4> DEFINE s == accepted[next_delivery]
      <4>1. s \in DOMAIN ordered /\ s \in Submissions /\ ordered[s] \in Results
            /\ (ordered[s] # None => Room)
        BY <3>2 DEF TypeInv, DeliverStrict, Due
      <4>2. Completion(s, ordered[s]) \in Completions
        BY <4>1 DEF Completion, Completions
      <4>3. /\ results' = IF ordered[s] = None THEN results
                          ELSE Append(results, Completion(s, ordered[s]))
            /\ ordered' = [t \in DOMAIN ordered \ {s} |-> ordered[t]]
            /\ next_delivery' = next_delivery + 1 /\ relaxed' = relaxed
        BY <3>2 DEF DeliverStrict
      <4> HIDE DEF s
      <4>4. results' \in Seq(Completions) /\ Len(results') <= ResultCapacity
        BY <4>1, <4>2, <4>3 DEF TypeInv, Room
      <4>5. QED BY <4>3, <4>4 DEF TypeInv
    <3>3. QED BY <1>2, <3>1, <3>2 DEF DeliverOne
  <2>2. progress' \in BOOLEAN BY <1>2 DEF DeliverOne
  <2>3. QED BY <1>2, <2>1, <2>2 DEF TypeInv, DeliverOne, terminals, workers, stopping, fixed
<1>3. CASE Delivered
  BY <1>3 DEF TypeInv, Delivered, mailbox, terminals, workers, stopping, fixed
<1>4. CASE Launch
  <2> DEFINE s == Head(input)
  <2>1. s \in Submissions /\ input' \in Seq(Submissions) /\ Len(input') <= InputCapacity
    BY <1>4 DEF TypeInv, Launch
  <2>2. \/ \E r \in Results : Resolve(s, r)
        \/ UNCHANGED <<ordered, relaxed>>
    BY <1>4 DEF Launch, Results
  <2>3. /\ DOMAIN ordered' \subseteq Submissions
        /\ \A t \in DOMAIN ordered' : ordered'[t] \in Results
        /\ relaxed' \in Seq(Completions)
    BY <2>1, <2>2, ResolveType DEF TypeInv
  <2>4. /\ Finish(s, "timeout") \/ UNCHANGED <<terminal, winner, lease>>
        /\ \/ UNCHANGED <<active, launches>> 
           \/ active' = active \cup {s} /\ launches' = launches \cup {s}
        /\ \/ UNCHANGED registrations
           \/ registrations' = [registrations EXCEPT ![IdOf[s]] = None]
    BY <1>4 DEF Launch
  <2>5. progress' \in BOOLEAN BY <1>4 DEF Launch
  <2> HIDE DEF s
  <2>6. /\ terminal' \in [Submissions -> BOOLEAN]
        /\ lease' \in [Submissions -> {"caller", "held", "released"}]
        /\ winner' \in [Submissions -> {None, "cancel", "timeout", "worker"}]
        /\ registrations' \in [Ids -> Submissions \cup {None}]
        /\ active' \subseteq Submissions /\ launches' \subseteq Submissions
    BY <2>1, <2>4 DEF TypeInv, Finish
  <2>7. QED BY <1>4, <2>1, <2>3, <2>5, <2>6 DEF TypeInv, Launch, workers, stopping, fixed
<1>5. CASE LaunchDone
  BY <1>5 DEF TypeInv, LaunchDone, SleepOrContinue, mailbox, terminals, workers, stopping, fixed
<1>6. QED BY <1>1, <1>2, <1>3, <1>4, <1>5

LEMMA SpawnType ==
    ASSUME TypeInv,
           Wake \/ Spawned \/ (\E s \in Submissions : Spawn(s) \/ SpawnFails(s))
    PROVE  TypeInv'
<1>1. CASE Wake
  BY <1>1 DEF TypeInv, Wake, mailbox, terminals, workers, stopping, fixed
<1>2. CASE Spawned
  BY <1>2 DEF TypeInv, Spawned, mailbox, terminals, workers, stopping, fixed
<1>3. ASSUME NEW s \in Submissions, Spawn(s) PROVE TypeInv'
  BY <1>3 DEF TypeInv, Spawn, mailbox, terminals, stopping, fixed
<1>4. ASSUME NEW s \in Submissions, SpawnFails(s) PROVE TypeInv'
  <2>1. \E r \in Results : Push(s, r) BY <1>4 DEF SpawnFails, Results
  <2>2. \A r \in Results : Completion(s, r) \in Completions
    BY DEF Completion, Completions
  <2>3. worker_completions' \in Seq(Completions)
    BY <2>1, <2>2 DEF TypeInv, Push
  <2>4. QED BY <1>4, <2>3 DEF TypeInv, SpawnFails, Finish, workers, stopping, fixed
<1>5. QED BY <1>1, <1>2, <1>3, <1>4

LEMMA StopType ==
    ASSUME TypeInv, StopRequest \/ StopStep \/ Recv
    PROVE  TypeInv'
<1>1. CASE StopRequest
  BY <1>1 DEF TypeInv, StopRequest, mailbox, terminals, executor, workers, fixed
<1>2. CASE StopClear
  <2>1. closed' \in BOOLEAN BY <1>2 DEF StopClear
  <2>2. QED BY <1>2, <2>1 DEF TypeInv, StopClear, executor, workers, fixed
<1>3. CASE StopTake
  BY <1>3 DEF TypeInv, StopTake, mailbox, terminals, executor, workers, fixed
<1>4. ASSUME NEW s \in Submissions, StopCancel(s) PROVE TypeInv'
  BY <1>4 DEF TypeInv, StopCancel, Finish, mailbox, executor, workers, fixed
<1>5. CASE StopNotify
  BY <1>5 DEF TypeInv, StopNotify, NotifyAll, mailbox, terminals, workers, fixed
<1>6. CASE StopReturn
  BY <1>6 DEF TypeInv, StopReturn, mailbox, terminals, executor, workers, fixed
<1>7. CASE Recv
  <2>1. Head(results) \in Completions /\ Tail(results) \in Seq(Completions)
    BY <1>7, CompletionHead DEF TypeInv, Recv
  <2>2. QED BY <1>7, <2>1, SMTT(30) DEF TypeInv, Recv, NotifyAll, terminals, workers, stopping, fixed
<1>8. QED BY <1>1, <1>2, <1>3, <1>4, <1>5, <1>6, <1>7 DEF StopStep

LEMMA TypeStep ==
    ASSUME TypeInv, [Next]_vars
    PROVE  TypeInv'
<1>1. CASE UNCHANGED vars
  BY <1>1 DEF TypeInv, vars, mailbox, terminals, executor, workers, fixed, stopping
<1>2. CASE Next
  BY <1>2, CallerType, WorkerType, RoundType, LockedType, SpawnType, StopType
     DEF Next, ExecutorStep, SpuriousWakeup, TimerFires
<1>3. QED BY <1>1, <1>2

----------------------------------------------------------------------------
(* Leases                                                                  *)

\* The submissions in a queue of completions as it grows and shrinks.
LEMMA SubsOfEmpty == SubsOf(<<>>) = {}
BY DEF SubsOf

LEMMA SubsOfAppend ==
    ASSUME NEW q \in Seq(Completions), NEW c \in Completions
    PROVE  SubsOf(Append(q, c)) = SubsOf(q) \cup {c.sub}
<1>1. ElementsOf(Append(q, c)) = ElementsOf(q) \cup {c} BY AppendElements
<1>2. \A p : SubsOf(p) = {d.sub : d \in ElementsOf(p)} BY DEF SubsOf, ElementsOf
<1>3. QED BY <1>1, <1>2

LEMMA SubsAreSubmissions ==
    ASSUME NEW q \in Seq(Completions)
    PROVE  SubsOf(q) \subseteq Submissions
<1>1. \A i \in DOMAIN q : q[i] \in Completions OBVIOUS
<1>2. \A i \in DOMAIN q : q[i].sub \in Submissions BY <1>1 DEF Completions
<1>3. QED BY <1>2 DEF SubsOf

LEMMA SubsOfTail ==
    ASSUME NEW q \in Seq(Completions), q # <<>>
    PROVE  /\ SubsOf(q) = SubsOf(Tail(q)) \cup {Head(q).sub}
           /\ SubsOf(q) \subseteq Submissions /\ Head(q).sub \in Submissions
<1>1. ElementsOf(q) = ElementsOf(Tail(q)) \cup {Head(q)} BY TailCovers
<1>2. \A p : SubsOf(p) = {d.sub : d \in ElementsOf(p)} BY DEF SubsOf, ElementsOf
<1>3. SubsOf(q) \subseteq Submissions BY SubsAreSubmissions
<1>4. QED BY <1>1, <1>2, <1>3, CompletionHead

\* Whoever wins, the request is terminal and its lease released.
LEMMA FinishLease ==
    ASSUME TypeInv, LeaseInv, NEW s \in Submissions, NEW who, Finish(s, who)
    PROVE  /\ terminal' = [terminal EXCEPT ![s] = TRUE]
           /\ lease' = [lease EXCEPT ![s] = "released"]
BY DEF TypeInv, LeaseInv, Finish

leaseVars == <<terminal, lease, cancelled, marked, wpc, worker_completions, drained,
               input, active, launches>>

LEMMA LeaseFrame ==
    ASSUME LeaseInv, UNCHANGED leaseVars
    PROVE  LeaseInv'
BY DEF LeaseInv, leaseVars, HeldLeaseHasOwner, Alive, SubsOf

LEMMA LeaseCaller ==
    ASSUME TypeInv, LeaseInv, NEW s \in Submissions, CallerStep(s)
    PROVE  LeaseInv'
<1>1. CASE Submit(s)
  <2>1. ElementsOf(input') = ElementsOf(input) \cup {s}
    BY <1>1, AppendElements DEF TypeInv, Submit
  <2>2. \A t : t \in ToSet(input') <=> t \in ToSet(input) \/ t = s
    BY <2>1 DEF ToSet, ElementsOf
  <2>3. /\ UNCHANGED <<terminal, cancelled, marked, wpc, worker_completions, drained, active, launches>>
        /\ lease' = [lease EXCEPT ![s] = "held"] /\ lease[s] = "caller"
    BY <1>1 DEF Submit, workers
  <2>4. HeldLeaseHasOwner'
    BY <2>2, <2>3 DEF TypeInv, LeaseInv, HeldLeaseHasOwner, Alive
  <2>5. QED BY <2>3, <2>4 DEF TypeInv, LeaseInv, SubsOf
<1>2. CASE Refuse(s)
  BY <1>2 DEF TypeInv, LeaseInv, Refuse, HeldLeaseHasOwner, Alive, mailbox, executor, workers, SubsOf
<1>3. CASE CancelMark(s)
  BY <1>3 DEF TypeInv, LeaseInv, CancelMark, HeldLeaseHasOwner, Alive, mailbox, executor, workers, SubsOf
<1>4. CASE CancelFinish(s)
  <2>1. /\ terminal' = [terminal EXCEPT ![s] = TRUE] /\ lease' = [lease EXCEPT ![s] = "released"]
    BY <1>4, FinishLease DEF CancelFinish
  <2>2. QED
    BY <1>4, <2>1 DEF TypeInv, LeaseInv, CancelFinish, HeldLeaseHasOwner, Alive, mailbox, workers, SubsOf
<1>5. CASE Expire(s)
  BY <1>5, LeaseFrame DEF leaseVars, Expire, mailbox, terminals, executor, workers
<1>6. QED BY <1>1, <1>2, <1>3, <1>4, <1>5 DEF CallerStep

LEMMA LeaseWorker ==
    ASSUME TypeInv, LeaseInv, NEW s \in Submissions,
           WorkerStep(s) \/ AdapterReturns(s) \/ AdapterHangs(s)
    PROVE  LeaseInv'
<1>1. CASE Attempt(s) \/ AdapterReturns(s)
  <2>1. \E label \in {"attempt", "calling", "finish"} : wpc' = [wpc EXCEPT ![s] = label]
    BY <1>1 DEF Attempt, AdapterReturns, GiveUp, WorkerGoto
  <2>2. UNCHANGED <<terminal, lease, cancelled, marked, worker_completions, drained,
                    input, active, launches>>
    BY <1>1 DEF Attempt, AdapterReturns, mailbox, terminals, executor
  <2>3. QED BY <2>1, <2>2 DEF TypeInv, LeaseInv, HeldLeaseHasOwner, Alive, SubsOf
<1>2. CASE WorkerFinish(s)
  <2>1. /\ terminal' = [terminal EXCEPT ![s] = TRUE] /\ lease' = [lease EXCEPT ![s] = "released"]
    BY <1>2, FinishLease DEF WorkerFinish
  <2>2. QED
    BY <1>2, <2>1 DEF TypeInv, LeaseInv, WorkerFinish, WorkerGoto, HeldLeaseHasOwner, Alive, mailbox, executor, SubsOf
<1>3. CASE WorkerPush(s)
  <2>1. Completion(s, answer[s]) \in Completions /\ Completion(s, answer[s]).sub = s
    BY DEF TypeInv, Completion, Completions
  <2>2. SubsOf(worker_completions') \subseteq SubsOf(worker_completions) \cup {s}
    BY <1>3, <2>1, SubsOfAppend DEF TypeInv, WorkerPush, Push
  <2>3. /\ UNCHANGED <<terminal, lease, cancelled, marked, input, active, launches, drained>>
        /\ wpc' = [wpc EXCEPT ![s] = "done"] /\ terminal[s] /\ wpc[s] = "push"
    BY <1>3 DEF LeaseInv, WorkerPush, terminals
  <2>4. QED BY <2>2, <2>3 DEF TypeInv, LeaseInv, HeldLeaseHasOwner, Alive
<1>4. CASE AdapterHangs(s)
  BY <1>4, LeaseFrame DEF leaseVars, AdapterHangs, mailbox, terminals, executor
<1>5. QED BY <1>1, <1>2, <1>3, <1>4 DEF WorkerStep

LEMMA LeaseRound ==
    ASSUME TypeInv, LeaseInv, Drain \/ Process \/ Unregister \/ (\E s \in Submissions : Scan(s))
    PROVE  LeaseInv'
<1>1. CASE Drain
  <2>1. CASE ExecutorExit
    BY <2>1, LeaseFrame DEF leaseVars, ExecutorExit, mailbox, terminals, workers
  <2>2. CASE ~ExecutorExit
    <3>1. /\ drained' = worker_completions /\ worker_completions' = <<>>
          /\ UNCHANGED <<terminal, lease, cancelled, marked, wpc, input, active, launches>>
      BY <1>1, <2>2 DEF Drain, terminals, workers
    <3>2. SubsOf(worker_completions') = {} /\ SubsOf(drained') = SubsOf(worker_completions)
      BY <3>1, SubsOfEmpty
    <3>3. QED BY <3>1, <3>2 DEF LeaseInv, HeldLeaseHasOwner, Alive
  <2>3. QED BY <2>1, <2>2
<1>2. CASE Process
  <2>1. CASE drained = <<>>
    BY <1>2, <2>1, LeaseFrame DEF leaseVars, Process, mailbox, terminals, workers
  <2>2. CASE drained # <<>>
    <3>1. Head(drained).sub \in SubsOf(drained) /\ Head(drained).sub \in Submissions
      BY <2>2, SubsOfTail DEF TypeInv
    <3>2. /\ active' = active \ {Head(drained).sub}
          /\ UNCHANGED <<terminal, lease, cancelled, marked, wpc, worker_completions, drained, input, launches>>
      BY <1>2, <2>2 DEF Process, mailbox, terminals, workers
    <3>3. lease[Head(drained).sub] = "released" BY <3>1 DEF LeaseInv
    <3>4. QED BY <3>2, <3>3 DEF LeaseInv, HeldLeaseHasOwner, Alive, SubsOf
  <2>3. QED BY <2>1, <2>2
<1>3. CASE Unregister
  <2>1. SubsOf(drained') \subseteq SubsOf(drained)
    BY <1>3, SubsOfTail DEF TypeInv, Unregister
  <2>2. UNCHANGED <<terminal, lease, cancelled, marked, wpc, worker_completions, input, active, launches>>
    BY <1>3 DEF Unregister, mailbox, terminals, workers
  <2>3. QED BY <2>1, <2>2 DEF LeaseInv, HeldLeaseHasOwner, Alive
<1>4. ASSUME NEW s \in Submissions, Scan(s) PROVE LeaseInv'
  <2>1. \/ UNCHANGED <<terminal, lease>>
        \/ terminal' = [terminal EXCEPT ![s] = TRUE] /\ lease' = [lease EXCEPT ![s] = "released"]
    BY <1>4, FinishLease DEF Scan, TimeOut
  <2>2. UNCHANGED <<cancelled, marked, wpc, worker_completions, drained, input, active, launches>>
    BY <1>4 DEF Scan, mailbox, workers
  <2>3. HeldLeaseHasOwner'
    BY <2>1, <2>2 DEF TypeInv, LeaseInv, HeldLeaseHasOwner, Alive
  <2>4. \A t \in Submissions : terminal[t] => terminal'[t]
    BY <2>1, ZenonT(30) DEF TypeInv
  <2>5. \A t \in SubsOf(worker_completions) \cup SubsOf(drained) : t \in Submissions
    BY SubsAreSubmissions DEF TypeInv
  <2>6. SubsOf(worker_completions') = SubsOf(worker_completions) /\ SubsOf(drained') = SubsOf(drained)
    BY <2>2
  <2>7. \A t \in Submissions : terminal'[t] => lease'[t] = "released"
    <3>1. \A t \in Submissions : terminal[t] => lease[t] = "released" BY DEF LeaseInv
    <3>2. CASE UNCHANGED <<terminal, lease>> BY <3>1, <3>2
    <3>3. CASE terminal' = [terminal EXCEPT ![s] = TRUE] /\ lease' = [lease EXCEPT ![s] = "released"]
      BY <3>1, <3>3 DEF TypeInv
    <3>4. QED BY <2>1, <3>2, <3>3
  <2>8. QED BY <2>2, <2>3, <2>4, <2>5, <2>6, <2>7 DEF LeaseInv
<1>5. QED BY <1>1, <1>2, <1>3, <1>4

LEMMA LeaseLocked ==
    ASSUME TypeInv, LeaseInv, Deliver \/ DeliverOne \/ Delivered \/ Launch \/ LaunchDone
    PROVE  LeaseInv'
<1>1. CASE Deliver \/ DeliverOne \/ Delivered \/ LaunchDone
  BY <1>1, LeaseFrame DEF leaseVars, Deliver, ExecutorExit, DeliverOne, DeliverRelaxed, DeliverStrict,
     Delivered, LaunchDone, mailbox, terminals, workers
<1>2. CASE Launch
  <2> DEFINE s == Head(input)
  <2>1. s \in Submissions /\ ElementsOf(input) \subseteq ElementsOf(input') \cup {s}
    <3>1. input \in Seq(Submissions) /\ input # <<>> /\ input' = Tail(input)
      BY <1>2 DEF TypeInv, Launch
    <3>2. QED BY <3>1, TailCovers
  <2>2. /\ cancelled[s] \/ ~cancelled[s]
        /\ \/ cancelled[s] /\ UNCHANGED <<terminal, lease, active, launches>>
           \/ ~cancelled[s] /\ s \in expired /\ Finish(s, "timeout") /\ UNCHANGED <<active, launches>>
           \/ active' = active \cup {s} /\ launches' = launches \cup {s} /\ UNCHANGED <<terminal, lease>>
    BY <1>2 DEF Launch
  <2>3. \/ cancelled[s] /\ UNCHANGED <<terminal, lease, active, launches>>
        \/ /\ terminal' = [terminal EXCEPT ![s] = TRUE] /\ lease' = [lease EXCEPT ![s] = "released"]
           /\ UNCHANGED <<active, launches>>
        \/ active' = active \cup {s} /\ launches' = launches \cup {s} /\ UNCHANGED <<terminal, lease>>
    BY <2>1, <2>2, FinishLease
  <2>4. UNCHANGED <<cancelled, marked, wpc, worker_completions, drained>>
    BY <1>2 DEF Launch, workers
  <2> HIDE DEF s
  <2>5. \A t \in Submissions : t \in ToSet(input) => t = s \/ t \in ToSet(input')
    BY <2>1 DEF ToSet, ElementsOf
  <2>6. HeldLeaseHasOwner'
    BY <2>1, <2>3, <2>4, <2>5 DEF TypeInv, LeaseInv, HeldLeaseHasOwner, Alive
  <2>7. \A t \in Submissions : (terminal[t] => terminal'[t]) /\ (terminal'[t] => lease'[t] = "released")
    BY <2>1, <2>3 DEF TypeInv, LeaseInv
  <2>8. \A t \in SubsOf(worker_completions) \cup SubsOf(drained) : t \in Submissions
    BY SubsAreSubmissions DEF TypeInv
  <2>9. SubsOf(worker_completions') = SubsOf(worker_completions) /\ SubsOf(drained') = SubsOf(drained)
    BY <2>4
  <2>10. QED BY <2>4, <2>6, <2>7, <2>8, <2>9 DEF LeaseInv
<1>3. QED BY <1>1, <1>2

LEMMA LeaseSpawn ==
    ASSUME TypeInv, LeaseInv,
           Wake \/ Spawned \/ (\E s \in Submissions : Spawn(s) \/ SpawnFails(s))
    PROVE  LeaseInv'
<1>1. CASE Wake \/ Spawned
  BY <1>1, LeaseFrame DEF leaseVars, Wake, Spawned, mailbox, terminals, workers
<1>2. ASSUME NEW s \in Submissions, Spawn(s) PROVE LeaseInv'
  BY <1>2 DEF TypeInv, LeaseInv, Spawn, HeldLeaseHasOwner, Alive, mailbox, terminals, SubsOf
<1>3. ASSUME NEW s \in Submissions, SpawnFails(s) PROVE LeaseInv'
  <2>1. \E r \in Results : Push(s, r) BY <1>3 DEF SpawnFails, Results
  <2>2. \A r \in Results : Completion(s, r) \in Completions /\ Completion(s, r).sub = s
    BY DEF Completion, Completions
  <2>3. SubsOf(worker_completions') \subseteq SubsOf(worker_completions) \cup {s}
    BY <2>1, <2>2, SubsOfAppend DEF TypeInv, Push
  <2>4. /\ terminal' = [terminal EXCEPT ![s] = TRUE] /\ lease' = [lease EXCEPT ![s] = "released"]
    BY <1>3, FinishLease DEF SpawnFails
  <2>5. /\ UNCHANGED <<cancelled, marked, wpc, drained, input, active>>
        /\ launches' = launches \ {s}
    BY <1>3 DEF SpawnFails, workers
  <2>6. QED BY <2>3, <2>4, <2>5 DEF TypeInv, LeaseInv, HeldLeaseHasOwner, Alive
<1>4. QED BY <1>1, <1>2, <1>3

LEMMA LeaseStop ==
    ASSUME TypeInv, LeaseInv, StopRequest \/ StopStep \/ Recv
    PROVE  LeaseInv'
<1>1. CASE StopRequest \/ StopTake \/ StopNotify \/ StopReturn \/ Recv
  BY <1>1, LeaseFrame DEF leaseVars, StopRequest, StopTake, StopNotify, StopReturn, Recv,
     mailbox, terminals, executor, workers
<1>2. CASE StopClear
  <2>1. /\ worker_completions' = <<>> 
        /\ lease' = [s \in Submissions |->
                        IF s \in ToSet(input) \ marked THEN "released" ELSE lease[s]]
        /\ UNCHANGED <<cancelled, terminal, marked, wpc, drained, active, launches>>
    BY <1>2 DEF StopClear, executor, workers
  <2>2. SubsOf(worker_completions') = {} BY <2>1, SubsOfEmpty
  <2>3. QED BY <2>1, <2>2 DEF TypeInv, LeaseInv, HeldLeaseHasOwner, Alive, SubsOf
<1>3. ASSUME NEW s \in Submissions, StopCancel(s) PROVE LeaseInv'
  <2>1. /\ terminal' = [terminal EXCEPT ![s] = TRUE] /\ lease' = [lease EXCEPT ![s] = "released"]
    BY <1>3, FinishLease DEF StopCancel
  <2>2. QED
    BY <1>3, <2>1 DEF TypeInv, LeaseInv, StopCancel, HeldLeaseHasOwner, Alive, mailbox, executor, workers, SubsOf
<1>4. QED BY <1>1, <1>2, <1>3 DEF StopStep

LEMMA LeaseStep ==
    ASSUME TypeInv, LeaseInv, [Next]_vars
    PROVE  LeaseInv'
<1>1. CASE UNCHANGED vars
  BY <1>1, LeaseFrame DEF leaseVars, vars, mailbox, terminals, executor, workers
<1>2. CASE Next
  BY <1>2, LeaseCaller, LeaseWorker, LeaseRound, LeaseLocked, LeaseSpawn, LeaseStop
     DEF Next, ExecutorStep, SpuriousWakeup, TimerFires
<1>3. QED BY <1>1, <1>2

----------------------------------------------------------------------------
(* stop releases the leases                                                *)

\* A step that submits nothing and leaves the registrations alone.
LEMMA StopFrame ==
    ASSUME TypeInv, StopInv, UNCHANGED <<spc, closed, marked, registrations, to_cancel>>,
           \A t \in Submissions : lease'[t] = "held" => lease[t] = "held"
    PROVE  StopInv'
BY DEF StopInv

LEMMA StopCaller ==
    ASSUME DistinctIds, TypeInv, LeaseInv, StopInv, NEW s \in Submissions, CallerStep(s)
    PROVE  StopInv'
<1>1. CASE Submit(s)
  <2>1. /\ UNCHANGED <<spc, closed, marked, to_cancel>> /\ ~closed
        /\ registrations' = [registrations EXCEPT ![IdOf[s]] = s]
        /\ lease' = [lease EXCEPT ![s] = "held"]
    BY <1>1 DEF Submit, stopping
  <2>2. spc \in {"idle", "clear"} BY <2>1 DEF StopInv, TypeInv
  <2>3. registrations'[IdOf[s]] = s BY <2>1 DEF TypeInv
  <2>4. \A t \in Submissions : t # s => registrations'[IdOf[t]] = registrations[IdOf[t]]
    BY <2>1 DEF TypeInv, DistinctIds
  <2>5. \A t \in Submissions : t # s => lease'[t] = lease[t]
    BY <2>1 DEF TypeInv
  <2>6. QED BY <2>1, <2>2, <2>3, <2>4, <2>5 DEF StopInv
<1>2. CASE Refuse(s)
  BY <1>2, StopFrame DEF TypeInv, Refuse, mailbox, stopping
<1>3. CASE CancelMark(s)
  BY <1>3 DEF TypeInv, StopInv, CancelMark, mailbox, stopping
<1>4. CASE CancelFinish(s)
  <2>1. lease' = [lease EXCEPT ![s] = "released"]
    BY <1>4, FinishLease DEF CancelFinish
  <2>2. QED BY <1>4, <2>1 DEF TypeInv, StopInv, CancelFinish, mailbox, stopping
<1>5. CASE Expire(s)
  BY <1>5, StopFrame DEF Expire, mailbox, terminals, stopping
<1>6. QED BY <1>1, <1>2, <1>3, <1>4, <1>5 DEF CallerStep

LEMMA StopWorker ==
    ASSUME TypeInv, LeaseInv, StopInv, NEW s \in Submissions,
           WorkerStep(s) \/ AdapterReturns(s) \/ AdapterHangs(s)
    PROVE  StopInv'
<1>1. CASE WorkerFinish(s)
  <2>1. lease' = [lease EXCEPT ![s] = "released"]
    BY <1>1, FinishLease DEF WorkerFinish
  <2>2. QED BY <1>1, <2>1, StopFrame DEF TypeInv, WorkerFinish, mailbox, stopping
<1>2. CASE Attempt(s) \/ WorkerPush(s) \/ AdapterReturns(s) \/ AdapterHangs(s)
  BY <1>2, StopFrame DEF Attempt, WorkerPush, AdapterReturns, AdapterHangs, mailbox, terminals, stopping
<1>3. QED BY <1>1, <1>2 DEF WorkerStep

LEMMA StopExecutor ==
    ASSUME DistinctIds, TypeInv, LeaseInv, StopInv, ExecutorStep \/ Wake
    PROVE  StopInv'
<1>1. CASE Drain \/ Process \/ Deliver \/ DeliverOne \/ Delivered \/ LaunchDone \/ Wake \/ Spawned
  BY <1>1, StopFrame DEF Drain, ExecutorExit, Process, Deliver, DeliverOne, Delivered, LaunchDone, Wake,
     Spawned, mailbox, terminals, stopping
<1>2. CASE Unregister
  <2> DEFINE c == Head(drained).sub
  <2>1. c \in SubsOf(drained) /\ c \in Submissions
    BY <1>2, SubsOfTail DEF TypeInv, Unregister
  <2>2. lease[c] = "released" BY <2>1 DEF LeaseInv
  <2>3. registrations' = [registrations EXCEPT ![IdOf[c]] = None]
    BY <1>2 DEF Unregister
  <2>4. UNCHANGED <<spc, closed, marked, to_cancel, lease>>
    BY <1>2 DEF Unregister, mailbox, terminals, stopping
  <2> HIDE DEF c
  <2>5. \A t \in Submissions : t # c => registrations'[IdOf[t]] = registrations[IdOf[t]]
    BY <2>1, <2>3 DEF TypeInv, DistinctIds
  <2>6. QED BY <2>1, <2>2, <2>4, <2>5 DEF StopInv
<1>3. CASE Launch
  <2> DEFINE s == Head(input)
  <2>1. s \in Submissions BY <1>3 DEF TypeInv, Launch
  <2>2. \/ /\ cancelled[s] /\ UNCHANGED <<terminal, lease>>
           /\ registrations' = [registrations EXCEPT ![IdOf[s]] = None]
        \/ /\ Finish(s, "timeout") /\ registrations' = [registrations EXCEPT ![IdOf[s]] = None]
        \/ UNCHANGED <<registrations, lease>>
    BY <1>3 DEF Launch
  <2>3. cancelled[s] => lease[s] = "released" \/ s \in marked BY <2>1 DEF LeaseInv
  <2>4. UNCHANGED <<spc, closed, marked, to_cancel>> BY <1>3 DEF Launch, stopping
  <2> HIDE DEF s
  <2>5. CASE UNCHANGED <<registrations, lease>> BY <2>4, <2>5, StopFrame
  <2>6. CASE /\ cancelled[s] /\ UNCHANGED <<terminal, lease>>
             /\ registrations' = [registrations EXCEPT ![IdOf[s]] = None]
    <3>1. \A t \in Submissions : t # s => registrations'[IdOf[t]] = registrations[IdOf[t]]
      BY <2>1, <2>6 DEF TypeInv, DistinctIds
    <3>2. QED BY <2>1, <2>3, <2>4, <2>6, <3>1 DEF StopInv
  <2>7. CASE Finish(s, "timeout") /\ registrations' = [registrations EXCEPT ![IdOf[s]] = None]
    <3>1. \A t \in Submissions : t # s => registrations'[IdOf[t]] = registrations[IdOf[t]]
      BY <2>1, <2>7 DEF TypeInv, DistinctIds
    <3>2. lease' = [lease EXCEPT ![s] = "released"] BY <2>1, <2>7, FinishLease
    <3>3. QED BY <2>1, <2>4, <3>1, <3>2 DEF StopInv, TypeInv
  <2>8. QED BY <2>2, <2>5, <2>6, <2>7
<1>4. ASSUME NEW s \in Submissions, Scan(s) \/ SpawnFails(s) \/ Spawn(s) PROVE StopInv'
  <2>1. UNCHANGED lease \/ lease' = [lease EXCEPT ![s] = "released"]
    BY <1>4, FinishLease DEF Scan, TimeOut, SpawnFails, Spawn, terminals
  <2>2. \A t \in Submissions : lease'[t] = "held" => lease[t] = "held"
    BY <2>1 DEF TypeInv
  <2>3. UNCHANGED <<spc, closed, marked, registrations, to_cancel>>
    BY <1>4 DEF Scan, SpawnFails, Spawn, mailbox, stopping
  <2>4. QED BY <2>2, <2>3, StopFrame
<1>5. QED BY <1>1, <1>2, <1>3, <1>4 DEF ExecutorStep, TimerFires

LEMMA StopStop ==
    ASSUME TypeInv, LeaseInv, StopInv, StopRequest \/ StopStep \/ Recv
    PROVE  StopInv'
<1>1. CASE StopRequest
  BY <1>1 DEF TypeInv, StopInv, StopRequest, mailbox, terminals
<1>2. CASE StopClear
  BY <1>2 DEF TypeInv, StopInv, StopClear
<1>3. CASE StopTake
  <2>1. \A s \in Submissions : lease[s] = "held" => Alive(s) BY DEF LeaseInv, HeldLeaseHasOwner
  <2>2. QED BY <1>3, <2>1 DEF TypeInv, StopInv, StopTake, mailbox, terminals
<1>4. ASSUME NEW s \in Submissions, StopCancel(s) PROVE StopInv'
  <2>1. lease' = [lease EXCEPT ![s] = "released"]
    BY <1>4, FinishLease DEF StopCancel
  <2>2. QED BY <1>4, <2>1 DEF TypeInv, StopInv, StopCancel, mailbox
<1>5. CASE StopNotify
  BY <1>5 DEF TypeInv, StopInv, StopNotify, mailbox, terminals
<1>6. CASE StopReturn
  BY <1>6 DEF TypeInv, StopInv, StopReturn, mailbox, terminals
<1>7. CASE Recv
  BY <1>7, StopFrame DEF Recv, terminals, stopping
<1>8. QED BY <1>1, <1>2, <1>3, <1>4, <1>5, <1>6, <1>7 DEF StopStep

LEMMA InitLease == Init => LeaseInv /\ StopInv
<1> SUFFICES ASSUME Init PROVE LeaseInv /\ StopInv OBVIOUS
<1>1. SubsOf(worker_completions) = {} /\ SubsOf(drained) = {} BY SubsOfEmpty DEF Init
<1>2. QED BY <1>1 DEF Init, LeaseInv, StopInv, HeldLeaseHasOwner

LEMMA StopInvStep ==
    ASSUME DistinctIds, TypeInv, LeaseInv, StopInv, [Next]_vars
    PROVE  StopInv'
<1>1. CASE UNCHANGED vars
  BY <1>1, StopFrame DEF vars, mailbox, terminals, stopping
<1>2. CASE Next
  BY <1>2, StopCaller, StopWorker, StopExecutor, StopStop DEF Next, SpuriousWakeup
<1>3. QED BY <1>1, <1>2

\* A lease is never dropped on the floor: whatever the interleaving of
\* submit, cancel, deadline, worker and stop, a lease that is still held
\* belongs to a request that some thread will finish.
THEOREM LeasesHaveOwners == Spec => []HeldLeaseHasOwner
<1>1. Init => TypeInv /\ LeaseInv BY InitType, InitLease
<1>2. TypeInv /\ LeaseInv /\ [Next]_vars => (TypeInv /\ LeaseInv)'
  BY TypeStep, LeaseStep
<1>3. TypeInv /\ LeaseInv => HeldLeaseHasOwner BY DEF LeaseInv
<1>4. QED BY <1>1, <1>2, <1>3, PTL DEF Spec

\* ManagedAsyncStream::stop: when it returns, no lease is held any more, also
\* not by a request whose adapter call is stuck, except those a concurrent
\* cancel is about to release; requests carry distinct RequestIds.
THEOREM NoLeaseLeaks ==
    ASSUME DistinctIds
    PROVE  Spec => []LeasesAreReleased
<1> DEFINE Inv == TypeInv /\ LeaseInv /\ StopInv
<1>1. Init => Inv BY InitType, InitLease
<1>2. Inv /\ [Next]_vars => Inv' BY TypeStep, LeaseStep, StopInvStep
<1>3. Inv => LeasesAreReleased
  BY DEF LeaseInv, StopInv, LeasesAreReleased, StopReleasesLeases
<1>4. QED BY <1>1, <1>2, <1>3, PTL DEF Spec

----------------------------------------------------------------------------
(* Requests are started once, and the winner stays the winner              *)

LEMMA FinishEffect ==
    ASSUME TypeInv, NEW s \in Submissions, NEW who, Finish(s, who)
    PROVE  /\ \A t \in Submissions : t # s => /\ terminal'[t] = terminal[t] /\ winner'[t] = winner[t]
                                              /\ lease'[t] = lease[t]
           /\ terminal'[s] /\ winner'[s] = IF terminal[s] THEN winner[s] ELSE who
           /\ lease'[s] = IF terminal[s] THEN lease[s] ELSE "released"
BY DEF TypeInv, Finish

\* No worker becomes the winner.
NoWorkerWins ==
    \A t \in Submissions :
        /\ terminal'[t] /\ winner'[t] = "worker" => terminal[t] /\ winner[t] = "worker"
        /\ lease'[t] = "caller" => lease[t] = "caller"

LEMMA FinishedByOthers ==
    ASSUME TypeInv, NEW s \in Submissions, Finish(s, "cancel") \/ Finish(s, "timeout")
    PROVE  NoWorkerWins
<1>1. CASE Finish(s, "cancel") BY <1>1, FinishEffect DEF NoWorkerWins
<1>2. CASE Finish(s, "timeout") BY <1>2, FinishEffect DEF NoWorkerWins
<1>3. QED BY <1>1, <1>2

\* A step that starts and completes nothing.
LEMMA StartFrame ==
    ASSUME TypeInv, StartInv, NoWorkerWins, UNCHANGED <<accepted, launches, wpc>>,
           input' \in {input, <<>>},
           SubsOf(worker_completions)' \cup SubsOf(drained)'
               \subseteq SubsOf(worker_completions) \cup SubsOf(drained)
    PROVE  StartInv'
<1>1. NoRepeats(input') /\ ElementsOf(input') \subseteq ElementsOf(input)
  BY DEF StartInv, NoRepeats, ElementsOf
<1>2. Pending' \subseteq Pending BY <1>1 DEF Pending, NoWorkerWins
<1>3. ElementsOf(accepted) \subseteq Submissions /\ ElementsOf(input) \subseteq Submissions
  BY DEF TypeInv, ElementsOf
<1>4. NoRepeats(accepted') /\ ElementsOf(accepted') = ElementsOf(accepted) BY DEF StartInv
<1>5. \A t \in ElementsOf(accepted') : lease'[t] # "caller"
  BY <1>3, <1>4 DEF StartInv, NoWorkerWins
<1>6. \A t \in ElementsOf(input') : lease'[t] # "caller" /\ t \notin launches'
  BY <1>1, <1>3 DEF StartInv, NoWorkerWins
<1>7. \A t \in launches' : lease'[t] # "caller"
  BY DEF TypeInv, StartInv, NoWorkerWins
<1>8. \A t \in Submissions : terminal'[t] /\ winner'[t] = "worker" =>
          wpc'[t] \in {"push", "done"} \/ (wpc'[t] = "none" /\ t \notin Pending')
  BY <1>2 DEF StartInv, NoWorkerWins
<1>9. /\ \A t \in Pending' : wpc'[t] = "none"
                          /\ t \notin SubsOf(worker_completions)' \cup SubsOf(drained)'
      /\ \A t \in SubsOf(worker_completions)' \cup SubsOf(drained)' : wpc'[t] \in {"none", "done"}
  BY <1>2 DEF StartInv
<1>10. QED BY <1>1, <1>4, <1>5, <1>6, <1>7, <1>8, <1>9 DEF StartInv

LEMMA StartCaller ==
    ASSUME TypeInv, StartInv, NEW s \in Submissions, CallerStep(s)
    PROVE  StartInv'
<1>1. CASE Submit(s)
  <2>1. /\ input' = Append(input, s) /\ accepted' = Append(accepted, s) /\ lease[s] = "caller"
        /\ lease' = [lease EXCEPT ![s] = "held"]
        /\ UNCHANGED <<launches, wpc, terminal, winner, worker_completions, drained>>
    BY <1>1 DEF Submit, workers
  <2>2. s \notin ElementsOf(input) /\ s \notin ElementsOf(accepted) /\ s \notin launches
    BY <2>1 DEF StartInv
  <2>3. /\ ElementsOf(input') = ElementsOf(input) \cup {s} /\ NoRepeats(input')
        /\ ElementsOf(accepted') = ElementsOf(accepted) \cup {s} /\ NoRepeats(accepted')
    BY <2>1, <2>2, AppendElements DEF TypeInv, StartInv
  <2>4. lease'[s] = "held" /\ \A t \in Submissions : t # s => lease'[t] = lease[t]
    BY <2>1 DEF TypeInv
  <2>5. s \in Pending BY <2>1 DEF Pending
  <2>6. Pending' \subseteq Pending BY <2>1, <2>3, <2>4, <2>5 DEF Pending
  <2>7. ElementsOf(accepted) \subseteq Submissions /\ ElementsOf(input) \subseteq Submissions
    BY DEF TypeInv, ElementsOf
  <2>8. /\ \A t \in ElementsOf(accepted') : lease'[t] # "caller"
        /\ \A t \in ElementsOf(input') : lease'[t] # "caller" /\ t \notin launches'
        /\ \A t \in launches' : lease'[t] # "caller"
    BY <2>1, <2>2, <2>3, <2>4, <2>7 DEF StartInv, TypeInv
  <2>9. SubsOf(worker_completions)' = SubsOf(worker_completions) /\ SubsOf(drained)' = SubsOf(drained)
    BY <2>1 DEF SubsOf
  <2>10. QED BY <2>1, <2>3, <2>6, <2>8, <2>9 DEF StartInv
<1>2. CASE Refuse(s)
  <2>1. NoWorkerWins BY <1>2 DEF TypeInv, NoWorkerWins, Refuse
  <2>2. QED BY <1>2, <2>1, StartFrame DEF Refuse, mailbox, executor, workers, SubsOf
<1>3. CASE CancelMark(s) \/ Expire(s)
  <2>1. NoWorkerWins BY <1>3 DEF NoWorkerWins, CancelMark, Expire, terminals
  <2>2. QED BY <1>3, <2>1, StartFrame DEF CancelMark, Expire, mailbox, executor, workers, SubsOf
<1>4. CASE CancelFinish(s)
  <2>1. NoWorkerWins BY <1>4, FinishedByOthers DEF CancelFinish
  <2>2. QED BY <1>4, <2>1, StartFrame DEF CancelFinish, mailbox, workers, SubsOf
<1>5. QED BY <1>1, <1>2, <1>3, <1>4 DEF CallerStep

\* A worker that moves on: it is not waiting to be started, and unless it has
\* finished it has not won yet.
LEMMA StartWorker ==
    ASSUME TypeInv, StartInv, NEW s \in Submissions,
           WorkerStep(s) \/ AdapterReturns(s) \/ AdapterHangs(s)
    PROVE  StartInv'
<1>1. CASE Attempt(s) \/ AdapterReturns(s) \/ WorkerFinish(s)
  <2>1. /\ wpc[s] \in {"attempt", "calling", "finish"}
        /\ \E label \in {"attempt", "calling", "finish", "push"} : wpc' = [wpc EXCEPT ![s] = label]
        /\ UNCHANGED <<accepted, launches, input, worker_completions, drained>>
    BY <1>1 DEF Attempt, AdapterReturns, WorkerFinish, GiveUp, WorkerGoto, mailbox, executor
  <2>2. \A t \in Submissions : t # s => wpc'[t] = wpc[t] BY <2>1 DEF TypeInv
  <2>3. \/ UNCHANGED <<terminal, winner, lease>>
        \/ Finish(s, "worker") /\ wpc'[s] = "push"
    BY <1>1 DEF TypeInv, Attempt, AdapterReturns, WorkerFinish, WorkerGoto, terminals
  <2>4. /\ \A t \in Submissions : t # s => (terminal'[t] = terminal[t] /\ winner'[t] = winner[t])
        /\ \A t \in Submissions : lease'[t] = "caller" => lease[t] = "caller"
        /\ terminal'[s] /\ winner'[s] = "worker" =>
               (terminal[s] /\ winner[s] = "worker") \/ wpc'[s] = "push"
    BY <2>3, FinishEffect
  <2>5. s \notin Pending /\ s \notin SubsOf(worker_completions) \cup SubsOf(drained)
    BY <2>1 DEF StartInv
  <2>6. ~(terminal[s] /\ winner[s] = "worker") BY <2>1 DEF StartInv
  <2>7. Pending' \subseteq Pending BY <2>1, <2>4 DEF Pending, ElementsOf
  <2>8. SubsOf(worker_completions)' = SubsOf(worker_completions) /\ SubsOf(drained)' = SubsOf(drained)
    BY <2>1 DEF SubsOf
  <2>9. SubsOf(worker_completions) \cup SubsOf(drained) \subseteq Submissions /\ Pending \subseteq Submissions
    BY SubsAreSubmissions DEF TypeInv, Pending, ElementsOf
  <2>10. /\ \A t \in Pending' : wpc'[t] = "none"
                  /\ t \notin SubsOf(worker_completions)' \cup SubsOf(drained)'
         /\ \A t \in SubsOf(worker_completions)' \cup SubsOf(drained)' : wpc'[t] \in {"none", "done"}
    BY <2>2, <2>5, <2>7, <2>8, <2>9 DEF StartInv
  <2>11. \A t \in Submissions : terminal'[t] /\ winner'[t] = "worker" =>
            wpc'[t] \in {"push", "done"} \/ (wpc'[t] = "none" /\ t \notin Pending')
    BY <2>2, <2>4, <2>6, <2>7 DEF StartInv
  <2>12. /\ NoRepeats(input') /\ NoRepeats(accepted')
         /\ ElementsOf(input') = ElementsOf(input) /\ ElementsOf(accepted') = ElementsOf(accepted)
    BY <2>1 DEF StartInv
  <2>13. ElementsOf(accepted) \subseteq Submissions /\ ElementsOf(input) \subseteq Submissions
    BY SMTT(30) DEF TypeInv, ElementsOf
  <2>14. /\ \A t \in ElementsOf(accepted') : lease'[t] # "caller"
         /\ \A t \in ElementsOf(input') : lease'[t] # "caller" /\ t \notin launches'
         /\ \A t \in launches' : lease'[t] # "caller"
    BY <2>1, <2>4, <2>12, <2>13 DEF StartInv, TypeInv
  <2>15. QED BY <2>10, <2>11, <2>12, <2>14 DEF StartInv
<1>2. CASE WorkerPush(s)
  <2>1. Completion(s, answer[s]) \in Completions /\ Completion(s, answer[s]).sub = s
    BY DEF TypeInv, Completion, Completions
  <2>2. SubsOf(worker_completions)' \subseteq SubsOf(worker_completions) \cup {s}
    BY <1>2, <2>1, SubsOfAppend DEF TypeInv, WorkerPush, Push
  <2>3. /\ UNCHANGED <<accepted, launches, input, drained, terminal, winner, lease>>
        /\ wpc[s] = "push" /\ wpc' = [wpc EXCEPT ![s] = "done"]
    BY <1>2 DEF WorkerPush, terminals
  <2>4. wpc'[s] = "done" /\ \A t \in Submissions : t # s => wpc'[t] = wpc[t]
    BY <2>3 DEF TypeInv
  <2>5. s \notin Pending BY <2>3 DEF StartInv
  <2>6. Pending' = Pending /\ SubsOf(drained)' = SubsOf(drained)
    BY <2>3 DEF Pending, ElementsOf, SubsOf
  <2>7. SubsOf(worker_completions) \cup SubsOf(drained) \subseteq Submissions /\ Pending \subseteq Submissions
    BY SubsAreSubmissions DEF TypeInv, Pending, ElementsOf
  <2>8. /\ \A t \in Pending' : wpc'[t] = "none"
                  /\ t \notin SubsOf(worker_completions)' \cup SubsOf(drained)'
        /\ \A t \in SubsOf(worker_completions)' \cup SubsOf(drained)' : wpc'[t] \in {"none", "done"}
    BY <2>2, <2>4, <2>5, <2>6, <2>7 DEF StartInv
  <2>9. \A t \in Submissions : terminal'[t] /\ winner'[t] = "worker" =>
            wpc'[t] \in {"push", "done"} \/ (wpc'[t] = "none" /\ t \notin Pending')
    BY <2>3, <2>4, <2>6 DEF StartInv
  <2>10. QED BY <2>3, <2>8, <2>9 DEF StartInv, ElementsOf, NoRepeats
<1>3. CASE AdapterHangs(s)
  <2>1. NoWorkerWins BY <1>3 DEF NoWorkerWins, AdapterHangs, terminals
  <2>2. QED BY <1>3, <2>1, StartFrame DEF AdapterHangs, mailbox, executor, SubsOf
<1>4. QED BY <1>1, <1>2, <1>3 DEF WorkerStep

LEMMA StartLaunch ==
    ASSUME TypeInv, StartInv, Launch
    PROVE  StartInv'
<1> DEFINE s == Head(input)
<1>1. /\ input \in Seq(Submissions) /\ input # <<>> /\ input' = Tail(input) /\ NoRepeats(input)
      /\ UNCHANGED <<accepted, wpc, worker_completions, drained>>
  BY DEF TypeInv, StartInv, Launch, workers
<1>2. s \in ElementsOf(input) /\ NoRepeats(input') /\ ElementsOf(input') = ElementsOf(input) \ {s}
  BY <1>1, TailElements
<1>3. /\ launches' \in {launches, launches \cup {s}}
      /\ UNCHANGED <<terminal, winner, lease>> \/ Finish(s, "timeout")
  BY DEF Launch
<1> HIDE DEF s
<1>4. s \in Submissions /\ ElementsOf(input) \subseteq Submissions /\ ElementsOf(accepted) \subseteq Submissions
  <2>1. ElementsOf(input) \subseteq Submissions BY <1>1 DEF ElementsOf
  <2>2. ElementsOf(accepted) \subseteq Submissions BY DEF TypeInv, ElementsOf
  <2>3. QED BY <1>2, <2>1, <2>2
<1>5. NoWorkerWins
  <2>1. CASE UNCHANGED <<terminal, winner, lease>> BY <2>1 DEF NoWorkerWins
  <2>2. QED BY <1>3, <1>4, <2>1, FinishedByOthers
<1>6. Pending' \subseteq Pending BY <1>2, <1>3, <1>5 DEF Pending, NoWorkerWins
<1>7. SubsOf(worker_completions)' = SubsOf(worker_completions) /\ SubsOf(drained)' = SubsOf(drained)
  BY <1>1 DEF SubsOf
<1>8. /\ \A t \in ElementsOf(accepted') : lease'[t] # "caller"
      /\ \A t \in ElementsOf(input') : lease'[t] # "caller" /\ t \notin launches'
      /\ \A t \in launches' : lease'[t] # "caller"
  BY <1>1, <1>2, <1>3, <1>4, <1>5 DEF StartInv, TypeInv, NoWorkerWins
<1>9. /\ \A t \in Pending' : wpc'[t] = "none"
                /\ t \notin SubsOf(worker_completions)' \cup SubsOf(drained)'
      /\ \A t \in SubsOf(worker_completions)' \cup SubsOf(drained)' : wpc'[t] \in {"none", "done"}
  BY <1>1, <1>6, <1>7 DEF StartInv
<1>10. \A t \in Submissions : terminal'[t] /\ winner'[t] = "worker" =>
          wpc'[t] \in {"push", "done"} \/ (wpc'[t] = "none" /\ t \notin Pending')
  BY <1>1, <1>5, <1>6 DEF StartInv, NoWorkerWins
<1>11. NoRepeats(accepted') BY <1>1 DEF StartInv
<1>12. QED BY <1>2, <1>8, <1>9, <1>10, <1>11 DEF StartInv

LEMMA StartSpawn ==
    ASSUME TypeInv, StartInv, NEW s \in Submissions, Spawn(s) \/ SpawnFails(s)
    PROVE  StartInv'
<1>1. /\ s \in launches /\ launches' = launches \ {s} /\ UNCHANGED <<accepted, input, drained>>
  BY DEF Spawn, SpawnFails, mailbox
<1>2. s \in Pending /\ lease[s] # "caller" /\ s \notin ElementsOf(input) /\ wpc[s] = "none"
  BY <1>1 DEF StartInv, Pending
<1>3. s \notin SubsOf(worker_completions) \cup SubsOf(drained) BY <1>2 DEF StartInv
<1>4. ~(terminal[s] /\ winner[s] = "worker") BY <1>2 DEF StartInv
<1>5. SubsOf(worker_completions) \cup SubsOf(drained) \subseteq Submissions /\ Pending \subseteq Submissions
  BY SubsAreSubmissions DEF TypeInv, Pending, ElementsOf
<1>6. SubsOf(drained)' = SubsOf(drained) BY <1>1 DEF SubsOf
<1>7. ASSUME \A t \in Submissions : lease'[t] = "caller" => lease[t] = "caller"
      PROVE  /\ Pending' \subseteq Pending \ {s} /\ NoRepeats(input') /\ NoRepeats(accepted')
             /\ \A t \in ElementsOf(accepted') : lease'[t] # "caller"
             /\ \A t \in ElementsOf(input') : lease'[t] # "caller" /\ t \notin launches'
             /\ \A t \in launches' : lease'[t] # "caller"
  <2>1. Pending' \subseteq Pending \ {s} BY <1>1, <1>2, <1>7 DEF Pending
  <2>2. ElementsOf(accepted) \subseteq Submissions /\ ElementsOf(input) \subseteq Submissions
    BY DEF TypeInv, ElementsOf
  <2>3. NoRepeats(input') /\ NoRepeats(accepted') BY <1>1 DEF StartInv
  <2>4. QED BY <1>1, <1>7, <2>1, <2>2, <2>3 DEF StartInv, TypeInv
<1>8. CASE Spawn(s)
  <2>1. wpc' = [wpc EXCEPT ![s] = "attempt"] /\ UNCHANGED <<terminal, winner, lease, worker_completions>>
    BY <1>8 DEF Spawn, mailbox, terminals
  <2>2. \A t \in Submissions : t # s => wpc'[t] = wpc[t] BY <2>1 DEF TypeInv
  <2>3. SubsOf(worker_completions)' = SubsOf(worker_completions) BY <2>1 DEF SubsOf
  <2>4. Pending' \subseteq Pending \ {s} BY <1>7, <2>1
  <2>5. /\ \A t \in Pending' : wpc'[t] = "none"
                /\ t \notin SubsOf(worker_completions)' \cup SubsOf(drained)'
        /\ \A t \in SubsOf(worker_completions)' \cup SubsOf(drained)' : wpc'[t] \in {"none", "done"}
    BY <1>3, <1>5, <1>6, <2>2, <2>3, <2>4 DEF StartInv
  <2>6. \A t \in Submissions : terminal'[t] /\ winner'[t] = "worker" =>
            wpc'[t] \in {"push", "done"} \/ (wpc'[t] = "none" /\ t \notin Pending')
    BY <1>4, <2>1, <2>2, <2>4 DEF StartInv
  <2>7. QED BY <1>7, <2>1, <2>5, <2>6 DEF StartInv
<1>9. CASE SpawnFails(s)
  <2>1. Finish(s, "worker") /\ UNCHANGED wpc BY <1>9 DEF SpawnFails, workers
  <2>2. /\ \A t \in Submissions : t # s => (terminal'[t] = terminal[t] /\ winner'[t] = winner[t])
        /\ \A t \in Submissions : lease'[t] = "caller" => lease[t] = "caller"
    BY <2>1, FinishEffect
  <2>3. \E r \in Results : Push(s, r) BY <1>9 DEF SpawnFails, Results
  <2>4. \A r \in Results : Completion(s, r) \in Completions /\ Completion(s, r).sub = s
    BY DEF Completion, Completions
  <2>5. SubsOf(worker_completions)' \subseteq SubsOf(worker_completions) \cup {s}
    BY <2>3, <2>4, SubsOfAppend DEF TypeInv, Push
  <2>6. Pending' \subseteq Pending \ {s} BY <1>7, <2>2
  <2>7. /\ \A t \in Pending' : wpc'[t] = "none"
                /\ t \notin SubsOf(worker_completions)' \cup SubsOf(drained)'
        /\ \A t \in SubsOf(worker_completions)' \cup SubsOf(drained)' : wpc'[t] \in {"none", "done"}
    BY <1>2, <1>5, <1>6, <2>1, <2>5, <2>6 DEF StartInv
  <2>8. \A t \in Submissions : terminal'[t] /\ winner'[t] = "worker" =>
            wpc'[t] \in {"push", "done"} \/ (wpc'[t] = "none" /\ t \notin Pending')
    BY <1>2, <2>1, <2>2, <2>6 DEF StartInv
  <2>9. QED BY <1>7, <2>2, <2>7, <2>8 DEF StartInv
<1>10. QED BY <1>8, <1>9

LEMMA StartExecutor ==
    ASSUME TypeInv, StartInv, ExecutorStep \/ Wake
    PROVE  StartInv'
<1>1. CASE Drain \/ Unregister
  <2>1. NoWorkerWins BY <1>1 DEF NoWorkerWins, Drain, ExecutorExit, Unregister, terminals
  <2>2. UNCHANGED <<accepted, launches, wpc, input>>
    BY <1>1 DEF Drain, ExecutorExit, Unregister, mailbox, workers
  <2>3. SubsOf(worker_completions)' \cup SubsOf(drained)' \subseteq SubsOf(worker_completions) \cup SubsOf(drained)
    <3>1. CASE UNCHANGED <<worker_completions, drained>> BY <3>1 DEF SubsOf
    <3>2. CASE drained' = worker_completions /\ worker_completions' = <<>>
      BY <3>2, SubsOfEmpty DEF SubsOf
    <3>3. CASE Unregister
      <4>1. SubsOf(Tail(drained)) \subseteq SubsOf(drained)
        BY <3>3, SubsOfTail DEF TypeInv, Unregister
      <4>2. QED BY <3>3, <4>1 DEF Unregister, mailbox, SubsOf
    <3>4. QED BY <1>1, <3>1, <3>2, <3>3 DEF Drain, ExecutorExit, mailbox
  <2>4. QED BY <2>1, <2>2, <2>3, StartFrame
<1>2. CASE Process \/ Deliver \/ DeliverOne \/ Delivered \/ LaunchDone \/ Wake \/ Spawned
  <2>1. UNCHANGED <<terminal, winner, lease, accepted, launches, wpc, input, worker_completions, drained>>
    BY <1>2 DEF Process, Deliver, ExecutorExit, DeliverOne, Delivered, LaunchDone, Wake, Spawned,
       mailbox, terminals, workers
  <2>2. NoWorkerWins BY <2>1 DEF NoWorkerWins
  <2>3. QED BY <2>1, <2>2, StartFrame DEF SubsOf
<1>3. ASSUME NEW s \in Submissions, Scan(s) PROVE StartInv'
  <2>1. UNCHANGED <<accepted, launches, wpc, input, worker_completions, drained>>
    BY <1>3 DEF Scan, mailbox, workers
  <2>2. UNCHANGED <<terminal, winner, lease>> \/ Finish(s, "timeout") BY <1>3 DEF Scan, TimeOut
  <2>3. NoWorkerWins
    <3>1. CASE UNCHANGED <<terminal, winner, lease>> BY <3>1 DEF NoWorkerWins
    <3>2. QED BY <2>2, <3>1, FinishedByOthers
  <2>4. QED BY <2>1, <2>3, StartFrame DEF SubsOf
<1>4. QED BY <1>1, <1>2, <1>3, StartLaunch, StartSpawn DEF ExecutorStep, TimerFires

LEMMA StartStop ==
    ASSUME TypeInv, StartInv, StopRequest \/ StopStep \/ Recv
    PROVE  StartInv'
<1>1. CASE StopRequest \/ StopTake \/ StopNotify \/ StopReturn \/ Recv
  <2>1. UNCHANGED <<terminal, winner, lease, accepted, launches, wpc, input, worker_completions, drained>>
    BY <1>1 DEF StopRequest, StopTake, StopNotify, StopReturn, Recv, mailbox, terminals, executor, workers
  <2>2. NoWorkerWins BY <2>1 DEF NoWorkerWins
  <2>3. QED BY <2>1, <2>2, StartFrame DEF SubsOf
<1>2. CASE StopClear
  <2>1. NoWorkerWins BY <1>2 DEF NoWorkerWins, StopClear
  <2>2. UNCHANGED <<accepted, launches, wpc, drained>> /\ input' = <<>> /\ worker_completions' = <<>>
    BY <1>2 DEF StopClear, executor, workers
  <2>3. SubsOf(worker_completions)' \cup SubsOf(drained)' \subseteq SubsOf(worker_completions) \cup SubsOf(drained)
    BY <2>2, SubsOfEmpty DEF SubsOf
  <2>4. QED BY <2>1, <2>2, <2>3, StartFrame
<1>3. ASSUME NEW s \in Submissions, StopCancel(s) PROVE StartInv'
  <2>1. NoWorkerWins BY <1>3, FinishedByOthers DEF StopCancel
  <2>2. QED BY <1>3, <2>1, StartFrame DEF StopCancel, mailbox, executor, workers, SubsOf
<1>4. QED BY <1>1, <1>2, <1>3 DEF StopStep

LEMMA StartStep ==
    ASSUME TypeInv, StartInv, [Next]_vars
    PROVE  StartInv'
<1>1. CASE UNCHANGED vars
  <2>1. NoWorkerWins BY <1>1 DEF vars, terminals, NoWorkerWins
  <2>2. QED BY <1>1, <2>1, StartFrame DEF vars, mailbox, executor, workers, SubsOf
<1>2. CASE Next
  BY <1>2, StartCaller, StartWorker, StartExecutor, StartStop DEF Next, SpuriousWakeup
<1>3. QED BY <1>1, <1>2

\* Once a request is terminal its winner, and the answer of a worker that won,
\* no longer change.
LEMMA WinnerStays ==
    ASSUME TypeInv, StartInv, [Next]_vars, NEW t \in Submissions, terminal[t]
    PROVE  /\ terminal'[t] /\ winner'[t] = winner[t]
           /\ winner[t] = "worker" => answer'[t] = answer[t]
<1>1. \/ UNCHANGED <<terminal, winner>>
      \/ \E s \in Submissions : \E who \in {"cancel", "timeout", "worker"} : Finish(s, who)
  <2>1. CASE UNCHANGED vars BY <2>1 DEF vars, terminals
  <2>2. CASE ExecutorStep \/ Wake
    <3>1. CASE Launch
      <4>1. Head(input) \in Submissions BY <3>1 DEF TypeInv, Launch
      <4>2. QED BY <3>1, <4>1 DEF Launch
    <3>2. QED BY <2>2, <3>1 DEF ExecutorStep, TimerFires, Wake, Drain, ExecutorExit, Process, Unregister, Scan,
       TimeOut, Deliver, DeliverOne, Delivered, LaunchDone, Spawn, SpawnFails, Spawned, terminals
  <2>3. CASE Recv \/ StopRequest \/ StopStep
    BY <2>3 DEF Recv, StopRequest, StopStep, StopClear, StopTake, StopCancel, StopNotify, StopReturn, terminals
  <2>4. ASSUME NEW s \in Submissions, CallerStep(s) \/ WorkerStep(s) \/ AdapterReturns(s) \/ AdapterHangs(s)
        PROVE  UNCHANGED <<terminal, winner>> \/ \E who \in {"cancel", "timeout", "worker"} : Finish(s, who)
    BY <2>4 DEF CallerStep, Submit, Refuse, CancelMark, CancelFinish, Expire, WorkerStep, Attempt, WorkerFinish,
       WorkerPush, AdapterReturns, AdapterHangs, terminals
  <2>5. QED BY <2>1, <2>2, <2>3, <2>4 DEF Next, SpuriousWakeup
<1>2. terminal'[t] /\ winner'[t] = winner[t] BY <1>1, FinishEffect
<1>3. \/ UNCHANGED answer
      \/ \E s \in Submissions : wpc[s] \in {"attempt", "calling", "finish"} /\ \E a : answer' = [answer EXCEPT ![s] = a]
  <2>1. CASE UNCHANGED vars BY <2>1 DEF vars, workers
  <2>2. CASE ExecutorStep \/ Wake
    BY <2>2 DEF ExecutorStep, TimerFires, Wake, Drain, ExecutorExit, Process, Unregister, Scan,
       Deliver, DeliverOne, Delivered, Launch, LaunchDone, Spawn, SpawnFails, Spawned, workers
  <2>3. CASE Recv \/ StopRequest \/ StopStep
    BY <2>3 DEF Recv, StopRequest, StopStep, StopClear, StopTake, StopCancel, StopNotify, StopReturn, workers
  <2>4. ASSUME NEW s \in Submissions, CallerStep(s)
        PROVE  UNCHANGED answer
    BY <2>4 DEF CallerStep, Submit, Refuse, CancelMark, CancelFinish, Expire, workers
  <2>5. ASSUME NEW s \in Submissions, WorkerStep(s) \/ AdapterReturns(s) \/ AdapterHangs(s)
        PROVE  UNCHANGED answer \/ (wpc[s] \in {"attempt", "calling", "finish"} /\ \E a : answer' = [answer EXCEPT ![s] = a])
    BY <2>5 DEF WorkerStep, Attempt, WorkerFinish, WorkerPush, AdapterReturns, AdapterHangs, GiveUp, WorkerGoto
  <2>6. QED BY <2>1, <2>2, <2>3, <2>4, <2>5 DEF Next, SpuriousWakeup
<1>4. winner[t] = "worker" => wpc[t] \notin {"attempt", "calling", "finish"} BY DEF StartInv
<1>5. QED BY <1>2, <1>3, <1>4 DEF TypeInv

----------------------------------------------------------------------------
(* What is delivered is the winner's                                       *)

LEMMA HoldingsAreCompletions == TypeInv => Holdings \subseteq Completions
<1> SUFFICES ASSUME TypeInv PROVE Holdings \subseteq Completions OBVIOUS
<1>1. \A q \in Seq(Completions) : ElementsOf(q) \subseteq Completions BY DEF ElementsOf
<1>2. /\ worker_completions \in Seq(Completions) /\ drained \in Seq(Completions)
      /\ relaxed \in Seq(Completions) /\ results \in Seq(Completions)
      /\ delivered \in Seq(Completions)
  BY DEF TypeInv
<1>3. Ordered \cup Pushing \subseteq Completions
  BY DEF TypeInv, Ordered, Pushing, Completion, Completions
<1>4. QED BY <1>1, <1>2, <1>3 DEF Holdings

\* A step that brings at most one new result into circulation, a sound one.
LEMMA SoundMoves ==
    ASSUME TypeInv, StartInv, SoundInv, [Next]_vars,
           NEW s \in Submissions, NEW r \in Results, Sound(s, r)',
           Holdings' \subseteq Holdings \cup {Completion(s, r)},
           \A c \in (ElementsOf(relaxed) \cup ElementsOf(results) \cup ElementsOf(delivered))' :
               \/ c \in ElementsOf(relaxed) \cup ElementsOf(results) \cup ElementsOf(delivered)
               \/ c.result # None
    PROVE  SoundInv'
<1>1. Completion(s, r).sub = s /\ Completion(s, r).result = r BY DEF Completion
<1>2. ASSUME NEW c \in Holdings PROVE Sound(c.sub, c.result)'
  <2>1. c \in Completions BY HoldingsAreCompletions
  <2>2. c.sub \in Submissions /\ c.result \in Results BY <2>1 DEF Completions
  <2>3. Sound(c.sub, c.result) BY DEF SoundInv
  <2>4. CASE c.result = None
    BY <2>4 DEF Sound
  <2>5. CASE c.result # None
    <3>1. terminal[c.sub] BY <2>3, <2>5 DEF Sound
    <3>2. /\ terminal'[c.sub] /\ winner'[c.sub] = winner[c.sub]
          /\ winner[c.sub] = "worker" => answer'[c.sub] = answer[c.sub]
      BY <2>2, <3>1, WinnerStays
    <3>3. QED BY <2>3, <3>1, <3>2 DEF Sound
  <2>6. QED BY <2>4, <2>5
<1>3. \A c \in Holdings' : Sound(c.sub, c.result)' BY <1>1, <1>2
<1>4. \A c \in (ElementsOf(relaxed) \cup ElementsOf(results) \cup ElementsOf(delivered))' : c.result # None
  BY DEF SoundInv
<1>5. QED BY <1>3, <1>4 DEF SoundInv

\* A step that only moves results.
LEMMA SoundFrame ==
    ASSUME TypeInv, StartInv, SoundInv, [Next]_vars, Holdings' \subseteq Holdings,
           \A c \in (ElementsOf(relaxed) \cup ElementsOf(results) \cup ElementsOf(delivered))' :
               \/ c \in ElementsOf(relaxed) \cup ElementsOf(results) \cup ElementsOf(delivered)
               \/ c.result # None
    PROVE  SoundInv'
<1>1. CASE Submissions = {}
  <2>1. Holdings' = {}
    <3>1. Completions = {} BY <1>1 DEF Completions
    <3>2. QED BY <3>1, HoldingsAreCompletions
  <2>2. QED BY <2>1 DEF SoundInv, Holdings
<1>2. CASE Submissions # {}
  <2>1. PICK s \in Submissions : TRUE BY <1>2
  <2>2. None \in Results /\ Sound(s, None)' BY DEF Results, Sound
  <2>3. QED BY <2>1, <2>2, SoundMoves
<1>3. QED BY <1>1, <1>2

LEMMA ResolveHolds ==
    ASSUME TypeInv, NEW s \in Submissions, NEW r \in Results, Resolve(s, r)
    PROVE  /\ Ordered' \subseteq Ordered \cup {Completion(s, r)}
           /\ ElementsOf(relaxed') \subseteq ElementsOf(relaxed) \cup {Completion(s, r)}
           /\ \A c \in ElementsOf(relaxed') : c \in ElementsOf(relaxed) \/ c.result # None
<1>1. Completion(s, r) \in Completions /\ Completion(s, r).result = r BY DEF Completion, Completions
<1>2. \/ relaxed' = relaxed
      \/ relaxed' = Append(relaxed, Completion(s, r)) /\ r # None
  BY DEF Resolve
<1>3. relaxed \in Seq(Completions) BY DEF TypeInv
<1>4. ElementsOf(Append(relaxed, Completion(s, r))) = ElementsOf(relaxed) \cup {Completion(s, r)}
  BY <1>1, <1>3, AppendElements
<1>5. /\ ElementsOf(relaxed') \subseteq ElementsOf(relaxed) \cup {Completion(s, r)}
      /\ \A c \in ElementsOf(relaxed') : c \in ElementsOf(relaxed) \/ c.result # None
  BY <1>1, <1>2, <1>4
<1>6. \/ ordered' = ordered
      \/ ordered' = [t \in DOMAIN ordered \cup {s} |-> IF t = s THEN r ELSE ordered[t]]
  BY DEF Resolve
<1>7. Ordered' \subseteq Ordered \cup {Completion(s, r)} BY <1>6 DEF Ordered, Completion
<1>8. QED BY <1>5, <1>7

holdVars == <<worker_completions, drained, relaxed, results, delivered, ordered, wpc, answer>>

LEMMA SoundStays ==
    ASSUME TypeInv, StartInv, SoundInv, [Next]_vars, UNCHANGED holdVars
    PROVE  SoundInv'
<1>1. /\ Holdings' = Holdings
      /\ (ElementsOf(relaxed) \cup ElementsOf(results) \cup ElementsOf(delivered))'
         = ElementsOf(relaxed) \cup ElementsOf(results) \cup ElementsOf(delivered)
  BY DEF holdVars, Holdings, Ordered, Pushing, ElementsOf
<1>2. QED BY <1>1, SoundFrame

\* Workers.
LEMMA SoundWorker ==
    ASSUME TypeInv, StartInv, SoundInv, [Next]_vars, NEW s \in Submissions,
           WorkerStep(s) \/ AdapterReturns(s) \/ AdapterHangs(s)
    PROVE  SoundInv'
<1>1. CASE Attempt(s) \/ AdapterReturns(s)
  <2>1. /\ UNCHANGED <<worker_completions, drained, relaxed, results, delivered, ordered>>
        /\ \E label \in {"attempt", "calling", "finish"} : wpc' = [wpc EXCEPT ![s] = label]
        /\ \E a : answer' = [answer EXCEPT ![s] = a]
    BY <1>1 DEF Attempt, AdapterReturns, GiveUp, WorkerGoto, mailbox, executor
  <2>2. \A t \in Submissions : wpc'[t] = "push" => wpc[t] = "push" /\ answer'[t] = answer[t]
    BY <2>1 DEF TypeInv
  <2>3. Pushing' \subseteq Pushing BY <2>2 DEF Pushing
  <2>4. /\ Holdings' \subseteq Holdings
        /\ (ElementsOf(relaxed) \cup ElementsOf(results) \cup ElementsOf(delivered))'
           = ElementsOf(relaxed) \cup ElementsOf(results) \cup ElementsOf(delivered)
    BY <2>1, <2>3 DEF Holdings, Ordered, ElementsOf
  <2>5. QED BY <2>4, SoundFrame
<1>2. CASE WorkerFinish(s)
  <2>0. PICK a \in Results : a = IF terminal[s] THEN None ELSE answer[s]
    BY DEF TypeInv, Results
  <2>1. /\ UNCHANGED <<worker_completions, drained, relaxed, results, delivered, ordered>>
        /\ wpc' = [wpc EXCEPT ![s] = "push"] /\ answer' = [answer EXCEPT ![s] = a]
        /\ Finish(s, "worker")
    BY <1>2, <2>0 DEF WorkerFinish, WorkerGoto, mailbox, executor
  <2>3. answer'[s] = a /\ \A t \in Submissions : t # s => wpc'[t] = wpc[t] /\ answer'[t] = answer[t]
    BY <2>1 DEF TypeInv
  <2>4. Pushing' \subseteq Pushing \cup {Completion(s, a)} BY <2>3 DEF Pushing
  <2>5. Sound(s, a)'
    <3>1. CASE a = None BY <3>1 DEF Sound
    <3>2. CASE a # None
      <4>1. ~terminal[s] BY <2>0, <3>2
      <4>2. terminal'[s] /\ winner'[s] = "worker" BY <2>1, <4>1, FinishEffect
      <4>3. QED BY <2>3, <4>2 DEF Sound
    <3>3. QED BY <3>1, <3>2
  <2>6. /\ Holdings' \subseteq Holdings \cup {Completion(s, a)}
        /\ (ElementsOf(relaxed) \cup ElementsOf(results) \cup ElementsOf(delivered))'
           = ElementsOf(relaxed) \cup ElementsOf(results) \cup ElementsOf(delivered)
    BY <2>1, <2>4 DEF Holdings, Ordered, ElementsOf
  <2>7. QED BY <2>5, <2>6, SoundMoves
<1>3. CASE WorkerPush(s)
  <2>1. /\ UNCHANGED <<drained, relaxed, results, delivered, ordered, answer>>
        /\ wpc[s] = "push" /\ wpc' = [wpc EXCEPT ![s] = "done"]
        /\ \/ UNCHANGED worker_completions
           \/ worker_completions' = Append(worker_completions, Completion(s, answer[s]))
    BY <1>3 DEF WorkerPush, Push
  <2>2. Completion(s, answer[s]) \in Pushing /\ Completion(s, answer[s]) \in Completions
    BY <2>1 DEF TypeInv, Pushing, Completion, Completions
  <2>3. ElementsOf(worker_completions') \subseteq ElementsOf(worker_completions) \cup Pushing
    <3>1. worker_completions \in Seq(Completions) BY DEF TypeInv
    <3>2. ElementsOf(Append(worker_completions, Completion(s, answer[s])))
          = ElementsOf(worker_completions) \cup {Completion(s, answer[s])}
      BY <2>2, <3>1, AppendElements
    <3>3. CASE worker_completions' = worker_completions BY <3>3
    <3>4. CASE worker_completions' = Append(worker_completions, Completion(s, answer[s]))
      BY <2>2, <3>2, <3>4, Zenon
    <3>5. QED BY <2>1, <3>3, <3>4
  <2>4. Pushing' \subseteq Pushing BY <2>1 DEF TypeInv, Pushing
  <2>5. /\ Holdings' \subseteq Holdings
        /\ (ElementsOf(relaxed) \cup ElementsOf(results) \cup ElementsOf(delivered))'
           = ElementsOf(relaxed) \cup ElementsOf(results) \cup ElementsOf(delivered)
    BY <2>1, <2>3, <2>4 DEF Holdings, Ordered, ElementsOf
  <2>6. QED BY <2>5, SoundFrame
<1>4. CASE AdapterHangs(s)
  BY <1>4, SoundStays DEF holdVars, AdapterHangs, mailbox, executor
<1>5. QED BY <1>1, <1>2, <1>3, <1>4 DEF WorkerStep

\* The executor resolves a request: what it adds is sound.
LEMMA SoundResolve ==
    ASSUME TypeInv, StartInv, SoundInv, [Next]_vars, NEW s \in Submissions, NEW r \in Results,
           Resolve(s, r), Sound(s, r)' \/ Completion(s, r) \in ElementsOf(drained),
           ElementsOf(drained') \subseteq ElementsOf(drained),
           UNCHANGED <<worker_completions, results, delivered, wpc, answer>>
    PROVE  SoundInv'
<1>1. /\ Ordered' \subseteq Ordered \cup {Completion(s, r)}
      /\ ElementsOf(relaxed') \subseteq ElementsOf(relaxed) \cup {Completion(s, r)}
      /\ \A c \in ElementsOf(relaxed') : c \in ElementsOf(relaxed) \/ c.result # None
  BY ResolveHolds
<1>2. Pushing' = Pushing BY DEF Pushing
<1>3. Holdings' \subseteq Holdings \cup {Completion(s, r)}
  BY <1>1, <1>2 DEF Holdings, ElementsOf
<1>4. \A c \in (ElementsOf(relaxed) \cup ElementsOf(results) \cup ElementsOf(delivered))' :
               \/ c \in ElementsOf(relaxed) \cup ElementsOf(results) \cup ElementsOf(delivered)
               \/ c.result # None
  BY <1>1 DEF ElementsOf
<1>5. CASE Sound(s, r)' BY <1>3, <1>4, <1>5, SoundMoves
<1>6. CASE Completion(s, r) \in ElementsOf(drained)
  <2>1. Holdings' \subseteq Holdings BY <1>3, <1>6 DEF Holdings
  <2>2. QED BY <1>4, <2>1, SoundFrame
<1>7. QED BY <1>5, <1>6

LEMMA SoundTimeout ==
    ASSUME TypeInv, NEW s \in Submissions, Finish(s, "timeout"), ~terminal[s]
    PROVE  Sound(s, Timeout)'
<1>1. terminal'[s] /\ winner'[s] = "timeout" BY FinishEffect
<1>2. QED BY <1>1 DEF Sound

LEMMA SoundRound ==
    ASSUME TypeInv, StartInv, SoundInv, [Next]_vars,
           Drain \/ Process \/ Unregister \/ (\E s \in Submissions : Scan(s))
    PROVE  SoundInv'
<1>1. CASE Drain
  <2>1. CASE ExecutorExit
    BY <2>1, SoundStays DEF holdVars, ExecutorExit, mailbox, workers
  <2>2. CASE ~ExecutorExit
    <3>1. /\ drained' = worker_completions /\ worker_completions' = <<>>
          /\ UNCHANGED <<relaxed, results, delivered, ordered, wpc, answer>>
      BY <1>1, <2>2 DEF Drain, workers
    <3>2. ElementsOf(worker_completions') = {} /\ ElementsOf(drained') = ElementsOf(worker_completions)
      BY <3>1 DEF ElementsOf
    <3>3. /\ Holdings' \subseteq Holdings
          /\ (ElementsOf(relaxed) \cup ElementsOf(results) \cup ElementsOf(delivered))'
             = ElementsOf(relaxed) \cup ElementsOf(results) \cup ElementsOf(delivered)
      <4>1. Ordered' = Ordered /\ Pushing' = Pushing BY <3>1 DEF Ordered, Pushing
      <4>2. /\ ElementsOf(relaxed)' = ElementsOf(relaxed) /\ ElementsOf(results)' = ElementsOf(results)
            /\ ElementsOf(delivered)' = ElementsOf(delivered)
        BY <3>1
      <4>3. QED BY <3>2, <4>1, <4>2 DEF Holdings
    <3>4. QED BY <3>3, SoundFrame
  <2>3. QED BY <2>1, <2>2
<1>2. CASE Process
  BY <1>2, SoundStays DEF holdVars, Process, mailbox, workers
<1>3. CASE Unregister
  <2> DEFINE c == Head(drained)
  <2>1. drained \in Seq(Completions) /\ drained # <<>> BY <1>3 DEF TypeInv, Unregister
  <2>2. c \in Completions /\ ElementsOf(drained) = ElementsOf(Tail(drained)) \cup {c}
    BY <2>1, TailCovers
  <2>3. c.sub \in Submissions /\ c.result \in Results /\ Completion(c.sub, c.result) = c
    BY <2>2 DEF Completions, Completion
  <2>4. Resolve(c.sub, c.result) /\ drained' = Tail(drained) BY <1>3 DEF Unregister
  <2>5. UNCHANGED <<worker_completions, results, delivered, wpc, answer>>
    BY <1>3 DEF Unregister, mailbox, workers
  <2> HIDE DEF c
  <2>6. Completion(c.sub, c.result) \in ElementsOf(drained) /\ ElementsOf(drained') \subseteq ElementsOf(drained)
    BY <2>2, <2>3, <2>4
  <2>7. QED BY <2>3, <2>4, <2>5, <2>6, SoundResolve
<1>4. ASSUME NEW s \in Submissions, Scan(s) PROVE SoundInv'
  <2>1. UNCHANGED <<worker_completions, drained, results, delivered, wpc, answer>>
    BY <1>4 DEF Scan, mailbox, workers
  <2>2. Sound(s, None)' /\ None \in Results /\ Timeout \in Results BY DEF Sound, Results
  <2>3. CASE UNCHANGED <<ordered, relaxed>>
    BY <2>1, <2>3, SoundStays DEF holdVars
  <2>4. CASE Resolve(s, None)
    BY <2>1, <2>2, <2>4, SoundResolve
  <2>5. CASE ~terminal[s] /\ Finish(s, "timeout") /\ Resolve(s, Timeout)
    BY <2>1, <2>2, <2>5, SoundTimeout, SoundResolve
  <2>6. QED BY <1>4, <2>3, <2>4, <2>5 DEF Scan, TimeOut
<1>5. QED BY <1>1, <1>2, <1>3, <1>4

LEMMA SoundLocked ==
    ASSUME TypeInv, StartInv, SoundInv, [Next]_vars,
           Deliver \/ DeliverOne \/ Delivered \/ Launch \/ LaunchDone
    PROVE  SoundInv'
<1>1. CASE Deliver \/ Delivered \/ LaunchDone
  BY <1>1, SoundStays DEF holdVars, Deliver, ExecutorExit, Delivered, LaunchDone, mailbox, workers
<1>2. CASE DeliverOne /\ DeliverRelaxed
  <2>1. /\ relaxed \in Seq(Completions) /\ relaxed # <<>> /\ results \in Seq(Completions)
        /\ results' = Append(results, Head(relaxed)) /\ relaxed' = Tail(relaxed)
        /\ UNCHANGED <<worker_completions, drained, delivered, ordered, wpc, answer>>
    BY <1>2 DEF TypeInv, DeliverOne, DeliverRelaxed, workers
  <2>2. Head(relaxed) \in Completions /\ ElementsOf(relaxed) = ElementsOf(Tail(relaxed)) \cup {Head(relaxed)}
    BY <2>1, TailCovers
  <2>3. ElementsOf(results') = ElementsOf(results) \cup {Head(relaxed)}
    BY <2>1, <2>2, AppendElements
  <2>4. Ordered' = Ordered /\ Pushing' = Pushing BY <2>1 DEF Ordered, Pushing
  <2>5. Holdings' \subseteq Holdings
    BY <2>1, <2>2, <2>3, <2>4 DEF Holdings
  <2>6. (ElementsOf(relaxed) \cup ElementsOf(results) \cup ElementsOf(delivered))'
           \subseteq ElementsOf(relaxed) \cup ElementsOf(results) \cup ElementsOf(delivered)
    BY <2>1, <2>2, <2>3
  <2>7. QED BY <2>5, <2>6, SoundFrame
<1>3. CASE DeliverOne /\ DeliverStrict
  <2> DEFINE s == accepted[next_delivery]
             c == Completion(s, ordered[s])
  <2>1. /\ s \in DOMAIN ordered /\ s \in Submissions /\ ordered[s] \in Results
    BY <1>3 DEF TypeInv, DeliverStrict, Due
  <2>2. /\ results' = IF ordered[s] = None THEN results ELSE Append(results, c)
        /\ ordered' = [t \in DOMAIN ordered \ {s} |-> ordered[t]] /\ relaxed' = relaxed
        /\ UNCHANGED <<worker_completions, drained, delivered, wpc, answer>>
    BY <1>3 DEF DeliverOne, DeliverStrict, workers
  <2>3. c \in Ordered /\ c \in Completions /\ c.result = ordered[s]
    BY <2>1 DEF Ordered, Completion, Completions
  <2> HIDE DEF s, c
  <2>4. results \in Seq(Completions) BY DEF TypeInv
  <2>5. ElementsOf(Append(results, c)) = ElementsOf(results) \cup {c} BY <2>3, <2>4, AppendElements
  <2>6. /\ ElementsOf(results') \subseteq ElementsOf(results) \cup {c}
        /\ \A d \in ElementsOf(results') : d \in ElementsOf(results) \/ d.result # None
    BY <2>2, <2>3, <2>5
  <2>7. Ordered' \subseteq Ordered BY <2>2 DEF Ordered
  <2>8. Pushing' = Pushing BY <2>2 DEF Pushing
  <2>9. Holdings' \subseteq Holdings
    BY <2>2, <2>3, <2>6, <2>7, <2>8 DEF Holdings
  <2>10. QED BY <2>2, <2>6, <2>9, SoundFrame
<1>4. CASE Launch
  <2>1. PICK s \in Submissions : s = Head(input) BY <1>4 DEF TypeInv, Launch
  <2>2. \/ Resolve(s, None) \/ UNCHANGED <<ordered, relaxed>>
        \/ ~terminal[s] /\ Finish(s, "timeout") /\ Resolve(s, Timeout)
    BY <1>4, <2>1 DEF Launch
  <2>3. UNCHANGED <<worker_completions, drained, results, delivered, wpc, answer>>
    BY <1>4 DEF Launch, workers
  <2>4. Sound(s, None)' /\ None \in Results /\ Timeout \in Results BY DEF Sound, Results
  <2>5. CASE UNCHANGED <<ordered, relaxed>>
    BY <2>3, <2>5, SoundStays DEF holdVars
  <2>6. CASE Resolve(s, None)
    BY <2>1, <2>3, <2>4, <2>6, SoundResolve
  <2>7. CASE ~terminal[s] /\ Finish(s, "timeout") /\ Resolve(s, Timeout)
    BY <2>1, <2>3, <2>4, <2>7, SoundTimeout, SoundResolve
  <2>8. QED BY <2>2, <2>5, <2>6, <2>7
<1>5. QED BY <1>1, <1>2, <1>3, <1>4 DEF DeliverOne

LEMMA SoundSpawn ==
    ASSUME TypeInv, StartInv, SoundInv, [Next]_vars,
           Wake \/ Spawned \/ (\E s \in Submissions : Spawn(s) \/ SpawnFails(s))
    PROVE  SoundInv'
<1>1. CASE Wake \/ Spawned
  BY <1>1, SoundStays DEF holdVars, Wake, Spawned, mailbox, workers
<1>2. ASSUME NEW s \in Submissions, Spawn(s) PROVE SoundInv'
  <2>1. /\ wpc' = [wpc EXCEPT ![s] = "attempt"]
        /\ UNCHANGED <<worker_completions, drained, relaxed, results, delivered, ordered, answer>>
    BY <1>2 DEF Spawn, mailbox
  <2>2. Pushing' \subseteq Pushing BY <2>1 DEF TypeInv, Pushing
  <2>3. /\ Holdings' \subseteq Holdings
        /\ (ElementsOf(relaxed) \cup ElementsOf(results) \cup ElementsOf(delivered))'
           = ElementsOf(relaxed) \cup ElementsOf(results) \cup ElementsOf(delivered)
    BY <2>1, <2>2 DEF Holdings, Ordered, ElementsOf
  <2>4. QED BY <2>3, SoundFrame
<1>3. ASSUME NEW s \in Submissions, SpawnFails(s) PROVE SoundInv'
  <2>0. PICK r \in Results : r = IF terminal[s] THEN None ELSE Response
    BY DEF Results
  <2>1. /\ Finish(s, "worker") /\ Push(s, r)
        /\ UNCHANGED <<drained, relaxed, results, delivered, ordered, wpc, answer>>
    BY <1>3, <2>0 DEF SpawnFails, workers
  <2>3. Sound(s, r)'
    <3>1. CASE terminal[s] BY <2>0, <3>1 DEF Sound
    <3>2. CASE ~terminal[s]
      <4>1. terminal'[s] /\ winner'[s] = "worker" BY <2>1, <3>2, FinishEffect
      <4>2. r = Response BY <2>0, <3>2
      <4>3. QED BY <4>1, <4>2 DEF Sound
    <3>3. QED BY <3>1, <3>2
  <2>4. Completion(s, r) \in Completions BY DEF Completion, Completions
  <2>5. ElementsOf(worker_completions') \subseteq ElementsOf(worker_completions) \cup {Completion(s, r)}
    BY <2>1, <2>4, AppendElements DEF TypeInv, Push
  <2>6. /\ Holdings' \subseteq Holdings \cup {Completion(s, r)}
        /\ (ElementsOf(relaxed) \cup ElementsOf(results) \cup ElementsOf(delivered))'
           = ElementsOf(relaxed) \cup ElementsOf(results) \cup ElementsOf(delivered)
    BY <2>1, <2>5 DEF Holdings, Ordered, Pushing, ElementsOf
  <2>7. QED BY <2>3, <2>6, SoundMoves
<1>4. QED BY <1>1, <1>2, <1>3

LEMMA SoundStop ==
    ASSUME TypeInv, StartInv, SoundInv, [Next]_vars, StopRequest \/ StopStep \/ Recv
    PROVE  SoundInv'
<1>1. CASE StopRequest \/ StopTake \/ StopNotify \/ StopReturn \/ (\E s \in Submissions : StopCancel(s))
  BY <1>1, SoundStays DEF holdVars, StopRequest, StopTake, StopNotify, StopReturn, StopCancel,
     mailbox, executor, workers
<1>2. CASE StopClear
  <2>1. /\ worker_completions' = <<>> /\ results' = <<>>
        /\ UNCHANGED <<drained, relaxed, delivered, ordered, wpc, answer>>
    BY <1>2 DEF StopClear, executor, workers
  <2>2. ElementsOf(worker_completions') = {} /\ ElementsOf(results') = {} BY <2>1 DEF ElementsOf
  <2>3. Ordered' = Ordered /\ Pushing' = Pushing BY <2>1 DEF Ordered, Pushing
  <2>4. Holdings' \subseteq Holdings BY <2>1, <2>2, <2>3 DEF Holdings
  <2>5. QED BY <2>1, <2>2, <2>4, SoundFrame
<1>3. CASE Recv
  <2>1. /\ results \in Seq(Completions) /\ results # <<>> /\ delivered \in Seq(Completions)
        /\ delivered' = Append(delivered, Head(results)) /\ results' = Tail(results)
        /\ UNCHANGED <<worker_completions, drained, relaxed, ordered, wpc, answer>>
    BY <1>3 DEF TypeInv, Recv, workers
  <2>2. Head(results) \in Completions /\ ElementsOf(results) = ElementsOf(Tail(results)) \cup {Head(results)}
    BY <2>1, TailCovers
  <2>3. ElementsOf(delivered') = ElementsOf(delivered) \cup {Head(results)}
    BY <2>1, <2>2, AppendElements
  <2>4. Ordered' = Ordered /\ Pushing' = Pushing BY <2>1 DEF Ordered, Pushing
  <2>5. Holdings' \subseteq Holdings
    BY <2>1, <2>2, <2>3, <2>4 DEF Holdings
  <2>6. (ElementsOf(relaxed) \cup ElementsOf(results) \cup ElementsOf(delivered))'
           \subseteq ElementsOf(relaxed) \cup ElementsOf(results) \cup ElementsOf(delivered)
    BY <2>1, <2>2, <2>3
  <2>7. QED BY <2>5, <2>6, SoundFrame
<1>4. QED BY <1>1, <1>2, <1>3 DEF StopStep

LEMMA SoundStep ==
    ASSUME TypeInv, StartInv, SoundInv, [Next]_vars
    PROVE  SoundInv'
<1>1. CASE UNCHANGED vars
  BY <1>1, SoundStays DEF holdVars, vars, mailbox, executor, workers
<1>2. ASSUME NEW s \in Submissions, CallerStep(s) PROVE SoundInv'
  BY <1>2, SoundStays DEF holdVars, CallerStep, Submit, Refuse, CancelMark, CancelFinish, Expire,
     mailbox, executor, workers
<1>3. CASE Next
  BY <1>2, <1>3, SoundWorker, SoundRound, SoundLocked, SoundSpawn, SoundStop
     DEF Next, ExecutorStep, SpuriousWakeup, TimerFires
<1>4. QED BY <1>1, <1>3

----------------------------------------------------------------------------
(* Strict streams deliver in the order of acceptance                       *)

\* What is earlier stays earlier, and what was handed over stays handed over.
LEMMA OrderStays ==
    ASSUME TypeInv, accepted' = accepted \/ (\E s \in Submissions : accepted' = Append(accepted, s)),
           next_delivery' \in {next_delivery, next_delivery + 1}
    PROVE  /\ \A s, t : Earlier(s, t) => Earlier(s, t)'
           /\ \A s : HandedOver(s) => HandedOver(s)'
<1>1. \A a \in DOMAIN accepted : a \in DOMAIN accepted' /\ accepted'[a] = accepted[a]
  <2>1. accepted \in Seq(Submissions) BY DEF TypeInv
  <2>2. \A s \in Submissions : \A a \in DOMAIN accepted :
           a \in DOMAIN Append(accepted, s) /\ Append(accepted, s)[a] = accepted[a]
    BY <2>1
  <2>3. CASE accepted' = accepted BY <2>3
  <2>4. QED BY <2>2, <2>3
<1>2. next_delivery \in Nat /\ DOMAIN accepted = 1..Len(accepted) /\ Len(accepted) \in Nat
  BY DEF TypeInv
<1>3. \A a \in DOMAIN accepted : a < next_delivery => a < next_delivery'
  BY <1>2
<1>4. QED BY <1>1, <1>3 DEF Earlier, HandedOver

\* A step that hands nothing over.
LEMMA StrictFrame ==
    ASSUME TypeInv, StrictInv, UNCHANGED <<ordering, delivered>>, results' \in {results, <<>>},
           accepted' = accepted \/ (\E s \in Submissions : accepted' = Append(accepted, s)),
           next_delivery' \in {next_delivery, next_delivery + 1},
           ordering = "Strict" => relaxed' = relaxed
    PROVE  StrictInv'
<1> SUFFICES ASSUME ordering = "Strict"
             PROVE  /\ relaxed' = <<>>
                    /\ \A s \in SubsOf(results') \cup SubsOf(delivered') : HandedOver(s)'
                    /\ \A i, j \in DOMAIN results' : i < j => Earlier(results[i].sub, results[j].sub)'
                    /\ \A i, j \in DOMAIN delivered' : i < j => Earlier(delivered[i].sub, delivered[j].sub)'
                    /\ \A s \in SubsOf(delivered'), t \in SubsOf(results') : Earlier(s, t)'
  BY DEF StrictInv
<1>1. /\ \A s, t : Earlier(s, t) => Earlier(s, t)'
      /\ \A s : HandedOver(s) => HandedOver(s)'
  BY OrderStays
<1>2. /\ relaxed = <<>>
      /\ \A s \in SubsOf(results) \cup SubsOf(delivered) : HandedOver(s)
      /\ \A i, j \in DOMAIN results : i < j => Earlier(results[i].sub, results[j].sub)
      /\ \A i, j \in DOMAIN delivered : i < j => Earlier(delivered[i].sub, delivered[j].sub)
      /\ \A s \in SubsOf(delivered), t \in SubsOf(results) : Earlier(s, t)
  BY DEF StrictInv
<1>3. CASE results' = results
  BY <1>1, <1>2, <1>3
<1>4. CASE results' = <<>>
  <2>1. SubsOf(results') = {} /\ DOMAIN results' = {} BY <1>4, SubsOfEmpty
  <2>2. QED BY <1>1, <1>2, <2>1
<1>5. QED BY <1>3, <1>4

LEMMA StrictDeliver ==
    ASSUME TypeInv, StrictInv, DeliverOne
    PROVE  StrictInv'
<1>1. CASE DeliverRelaxed
  <2>1. ordering # "Strict" BY <1>1 DEF StrictInv, DeliverRelaxed
  <2>2. QED BY <2>1 DEF StrictInv, DeliverOne, workers, fixed
<1>2. CASE DeliverStrict
  <2>1. PICK s \in Submissions : s = accepted[next_delivery]
    BY <1>2 DEF TypeInv, DeliverStrict, Due
  <2>2. PICK r \in Results : r = ordered[s]
    BY <1>2, <2>1 DEF TypeInv, DeliverStrict, Due
  <2>3. PICK c \in Completions : c = Completion(s, r) /\ c.sub = s
    <3>1. Completion(s, r) \in Completions /\ Completion(s, r).sub = s BY DEF Completion, Completions
    <3>2. QED BY <3>1
  <2>4. /\ ordering = "Strict" /\ next_delivery \in DOMAIN accepted /\ relaxed' = relaxed
        /\ next_delivery' = next_delivery + 1 /\ UNCHANGED <<ordering, accepted, delivered>>
        /\ results' = results \/ results' = Append(results, c)
    <3>1. /\ ordering = "Strict" /\ next_delivery <= Len(accepted) /\ relaxed' = relaxed
          /\ next_delivery' = next_delivery + 1
      BY <1>2 DEF DeliverStrict, Due
    <3>2. next_delivery \in DOMAIN accepted BY <3>1 DEF TypeInv
    <3>3. UNCHANGED <<ordering, accepted, delivered>> BY DEF DeliverOne, workers, fixed
    <3>4. results' = results \/ results' = Append(results, c)
      BY <1>2, <2>1, <2>2, <2>3 DEF DeliverStrict
    <3>5. QED BY <3>1, <3>2, <3>3, <3>4
  <2>5. CASE results' = results BY <2>4, <2>5, StrictFrame
  <2>6. CASE results' = Append(results, c)
    <3>1. /\ \A u, v : Earlier(u, v) => Earlier(u, v)'
          /\ \A u : HandedOver(u) => HandedOver(u)'
      BY <2>4, OrderStays
    <3>2. /\ relaxed = <<>>
          /\ \A u \in SubsOf(results) \cup SubsOf(delivered) : HandedOver(u)
          /\ \A i, j \in DOMAIN results : i < j => Earlier(results[i].sub, results[j].sub)
          /\ \A i, j \in DOMAIN delivered : i < j => Earlier(delivered[i].sub, delivered[j].sub)
          /\ \A u \in SubsOf(delivered), v \in SubsOf(results) : Earlier(u, v)
      BY <2>4 DEF StrictInv
    <3>3. HandedOver(s)'
      <4>1. next_delivery < next_delivery' BY <2>4 DEF TypeInv
      <4>2. QED BY <2>1, <2>4, <4>1 DEF HandedOver
    <3>4. \A u : HandedOver(u) => Earlier(u, s)'
      BY <2>1, <2>4 DEF HandedOver, Earlier
    <3>5. results \in Seq(Completions) BY DEF TypeInv
    <3>6. SubsOf(results') = SubsOf(results) \cup {s} BY <2>3, <2>6, <3>5, SubsOfAppend
    <3>7. /\ DOMAIN results = 1..Len(results) /\ Len(results) \in Nat
          /\ DOMAIN results' = 1..(Len(results) + 1) /\ results'[Len(results) + 1] = c
          /\ \A i \in DOMAIN results : results'[i] = results[i]
      BY <2>6, <3>5
    <3>8. ASSUME NEW i \in DOMAIN results', NEW j \in DOMAIN results', i < j
          PROVE  Earlier(results[i].sub, results[j].sub)'
      <4>1. i \in DOMAIN results BY <3>7, <3>8
      <4>2. CASE j \in DOMAIN results BY <3>1, <3>2, <3>7, <3>8, <4>1, <4>2
      <4>3. CASE j \notin DOMAIN results
        <5>1. j = Len(results) + 1 BY <3>7, <4>3
        <5>2. PICK u : u = results[i].sub OBVIOUS
        <5>3. HandedOver(u) BY <3>2, <4>1, <5>2 DEF SubsOf
        <5>4. Earlier(u, s)' BY <3>4, <5>3
        <5>5. results'[i].sub = u /\ results'[j].sub = s BY <2>3, <3>7, <4>1, <5>1, <5>2
        <5>6. QED BY <5>4, <5>5
      <4>4. QED BY <4>2, <4>3
    <3>9. \A u \in SubsOf(results') \cup SubsOf(delivered') : HandedOver(u)'
      BY <2>4, <3>1, <3>2, <3>3, <3>6
    <3>10. \A u \in SubsOf(delivered'), v \in SubsOf(results') : Earlier(u, v)'
      BY <2>4, <3>1, <3>2, <3>4, <3>6
    <3>11. \A i, j \in DOMAIN delivered' : i < j => Earlier(delivered[i].sub, delivered[j].sub)'
      BY <2>4, <3>1, <3>2
    <3>12. QED BY <2>4, <3>2, <3>8, <3>9, <3>10, <3>11 DEF StrictInv
  <2>7. QED BY <2>4, <2>5, <2>6
<1>3. QED BY <1>1, <1>2 DEF DeliverOne

LEMMA StrictRecv ==
    ASSUME TypeInv, StrictInv, Recv
    PROVE  StrictInv'
<1> SUFFICES ASSUME ordering = "Strict"
             PROVE  /\ relaxed' = <<>>
                    /\ \A s \in SubsOf(results') \cup SubsOf(delivered') : HandedOver(s)'
                    /\ \A i, j \in DOMAIN results' : i < j => Earlier(results[i].sub, results[j].sub)'
                    /\ \A i, j \in DOMAIN delivered' : i < j => Earlier(delivered[i].sub, delivered[j].sub)'
                    /\ \A s \in SubsOf(delivered'), t \in SubsOf(results') : Earlier(s, t)'
  BY DEF StrictInv, Recv, workers, fixed
<1>1. /\ relaxed = <<>>
      /\ \A s \in SubsOf(results) \cup SubsOf(delivered) : HandedOver(s)
      /\ \A i, j \in DOMAIN results : i < j => Earlier(results[i].sub, results[j].sub)
      /\ \A i, j \in DOMAIN delivered : i < j => Earlier(delivered[i].sub, delivered[j].sub)
      /\ \A s \in SubsOf(delivered), t \in SubsOf(results) : Earlier(s, t)
  BY DEF StrictInv
<1>2. PICK c \in Completions : c = Head(results)
  BY CompletionHead DEF TypeInv, Recv
<1>3. /\ results \in Seq(Completions) /\ results # <<>> /\ results' = Tail(results)
      /\ delivered \in Seq(Completions) /\ delivered' = Append(delivered, c)
      /\ UNCHANGED <<accepted, next_delivery, relaxed>>
  BY <1>2 DEF TypeInv, Recv
<1>4. /\ SubsOf(results) = SubsOf(results') \cup {c.sub}
      /\ SubsOf(delivered') = SubsOf(delivered) \cup {c.sub}
  BY <1>2, <1>3, SubsOfTail, SubsOfAppend
<1>5. /\ \A s, t : Earlier(s, t) <=> Earlier(s, t)'
      /\ \A s : HandedOver(s) <=> HandedOver(s)'
  BY <1>3 DEF Earlier, HandedOver
<1>6. /\ Len(results) \in Nat /\ Len(results) > 0 /\ DOMAIN results = 1..Len(results)
      /\ DOMAIN results' = 1..(Len(results) - 1) /\ c = results[1]
      /\ \A i \in 1..(Len(results) - 1) : results'[i] = results[i + 1] /\ i + 1 \in DOMAIN results /\ 1 < i + 1
  BY <1>2, <1>3
<1>7. \A t \in SubsOf(results') : Earlier(c.sub, t)
  <2>1. ASSUME NEW i \in DOMAIN results' PROVE Earlier(c.sub, results'[i].sub)
    <3>1. i + 1 \in DOMAIN results /\ 1 \in DOMAIN results /\ 1 < i + 1 /\ results'[i] = results[i + 1]
      BY <1>6
    <3>2. Earlier(results[1].sub, results[i + 1].sub) BY <1>1, <3>1
    <3>3. QED BY <1>6, <3>1, <3>2
  <2>2. QED BY <2>1 DEF SubsOf
<1>8. ASSUME NEW i \in DOMAIN results', NEW j \in DOMAIN results', i < j
      PROVE  Earlier(results[i].sub, results[j].sub)'
  <2>1. i + 1 \in DOMAIN results /\ j + 1 \in DOMAIN results /\ i + 1 < j + 1 BY <1>6, <1>8
  <2>2. PICK u, v : u = results[i + 1].sub /\ v = results[j + 1].sub OBVIOUS
  <2>3. Earlier(u, v) BY <1>1, <2>1, <2>2
  <2>4. results'[i].sub = u /\ results'[j].sub = v BY <1>6, <2>2
  <2>5. Earlier(u, v)' BY <1>5, <2>3
  <2>6. QED BY <2>4, <2>5
<1>9. /\ Len(delivered) \in Nat /\ DOMAIN delivered = 1..Len(delivered)
      /\ DOMAIN delivered' = 1..(Len(delivered) + 1) /\ delivered'[Len(delivered) + 1] = c
      /\ \A i \in DOMAIN delivered : delivered'[i] = delivered[i]
  BY <1>3
<1>10. ASSUME NEW i \in DOMAIN delivered', NEW j \in DOMAIN delivered', i < j
       PROVE  Earlier(delivered[i].sub, delivered[j].sub)'
  <2>1. i \in DOMAIN delivered BY <1>9, <1>10
  <2>2. PICK u, v : u = delivered'[i].sub /\ v = delivered'[j].sub OBVIOUS
  <2>3. CASE j \in DOMAIN delivered
    <3>1. Earlier(u, v) BY <1>1, <1>9, <1>10, <2>1, <2>2, <2>3
    <3>2. Earlier(u, v)' BY <1>5, <3>1
    <3>3. QED BY <2>2, <3>2
  <2>4. CASE j \notin DOMAIN delivered
    <3>1. j = Len(delivered) + 1 BY <1>9, <2>4
    <3>2. u \in SubsOf(delivered) /\ v = c.sub BY <1>9, <2>1, <2>2, <3>1 DEF SubsOf
    <3>3. Earlier(u, v) BY <1>1, <1>4, <3>2
    <3>4. Earlier(u, v)' BY <1>5, <3>3
    <3>5. QED BY <2>2, <3>4
  <2>5. QED BY <2>3, <2>4
<1>11. \A s \in SubsOf(delivered'), t \in SubsOf(results') : Earlier(s, t)'
  BY <1>1, <1>4, <1>5, <1>7
<1>12. \A s \in SubsOf(results') \cup SubsOf(delivered') : HandedOver(s)'
  BY <1>1, <1>4, <1>5
<1>13. QED BY <1>1, <1>3, <1>8, <1>10, <1>11, <1>12

LEMMA StrictStep ==
    ASSUME TypeInv, StrictInv, [Next]_vars
    PROVE  StrictInv'
<1>1. CASE UNCHANGED vars
  BY <1>1, StrictFrame DEF vars, mailbox, executor, workers, fixed
<1>2. ASSUME NEW s \in Submissions, CallerStep(s) \/ WorkerStep(s) \/ AdapterReturns(s) \/ AdapterHangs(s)
      PROVE  StrictInv'
  <2>1. /\ UNCHANGED <<ordering, delivered, results, next_delivery, relaxed>>
        /\ accepted' = accepted \/ accepted' = Append(accepted, s)
    BY <1>2 DEF CallerStep, Submit, Refuse, CancelMark, CancelFinish, Expire, WorkerStep, Attempt, WorkerFinish,
       WorkerPush, AdapterReturns, AdapterHangs, mailbox, executor, workers, fixed
  <2>2. QED BY <2>1, StrictFrame
<1>3. CASE StopRequest \/ StopStep
  <2>1. /\ UNCHANGED <<ordering, delivered, accepted, next_delivery, relaxed>>
        /\ results' \in {results, <<>>}
    BY <1>3 DEF StopRequest, StopStep, StopClear, StopTake, StopCancel, StopNotify, StopReturn,
       mailbox, executor, workers, fixed
  <2>2. QED BY <2>1, StrictFrame
<1>4. ASSUME ExecutorStep \/ Wake, ~DeliverOne PROVE StrictInv'
  <2>1. /\ UNCHANGED <<ordering, delivered, accepted, next_delivery, results>>
        /\ relaxed' = relaxed \/ \E s, r : Resolve(s, r)
    BY <1>4 DEF ExecutorStep, TimerFires, Wake, Drain, ExecutorExit, Process, Unregister, Scan, TimeOut,
       Deliver, Delivered, Launch, LaunchDone, Spawn, SpawnFails, Spawned, mailbox, workers, fixed
  <2>2. ordering = "Strict" => relaxed' = relaxed BY <2>1 DEF Resolve
  <2>3. QED BY <2>1, <2>2, StrictFrame
<1>5. CASE Next
  BY <1>2, <1>3, <1>4, <1>5, StrictDeliver, StrictRecv DEF Next, ExecutorStep, SpuriousWakeup
<1>6. QED BY <1>1, <1>5

----------------------------------------------------------------------------
(* Relaxed streams deliver every answer once                               *)

LEMMA AnswersEmpty == Answers(<<>>) = {} /\ AnsweredOnce(<<>>)
BY DEF Answers, AnsweredOnce

LEMMA AnswersAppend ==
    ASSUME NEW q \in Seq(Completions), NEW c \in Completions
    PROVE  /\ Answers(Append(q, c)) = Answers(q) \cup {s \in {c.sub} : c.result # None}
           /\ AnsweredOnce(q) /\ (c.result = None \/ c.sub \notin Answers(q)) => AnsweredOnce(Append(q, c))
<1>1. /\ DOMAIN Append(q, c) = 1..(Len(q) + 1) /\ DOMAIN q = 1..Len(q) /\ Len(q) \in Nat
      /\ \A i \in 1..Len(q) : Append(q, c)[i] = q[i]
      /\ Append(q, c)[Len(q) + 1] = c
  OBVIOUS
<1>2. /\ \A i \in 1..(Len(q) + 1) : i \in 1..Len(q) \/ i = Len(q) + 1
      /\ \A i \in 1..Len(q) : i \in 1..(Len(q) + 1) /\ Len(q) + 1 \in 1..(Len(q) + 1)
  BY <1>1
<1> DEFINE p == Append(q, c)
<1>3. Answers(p) \subseteq Answers(q) \cup {s \in {c.sub} : c.result # None}
  <2>1. ASSUME NEW i \in DOMAIN p, p[i].result # None
        PROVE  p[i].sub \in Answers(q) \cup {s \in {c.sub} : c.result # None}
    BY <1>1, <1>2, <2>1 DEF Answers
  <2> HIDE DEF p
  <2>2. QED BY <2>1 DEF Answers
<1>4. Answers(q) \subseteq Answers(p) BY <1>1, <1>2 DEF Answers
<1>5. c.result # None => c.sub \in Answers(p)
  <2>1. Len(q) + 1 \in DOMAIN p /\ p[Len(q) + 1] = c BY <1>1
  <2> HIDE DEF p
  <2>2. QED BY <2>1 DEF Answers
<1>6. ASSUME AnsweredOnce(q), c.result = None \/ c.sub \notin Answers(q) PROVE AnsweredOnce(p)
  BY <1>1, <1>2, <1>6 DEF AnsweredOnce, Answers
<1>7. QED BY <1>3, <1>4, <1>5, <1>6

LEMMA AnswersTail ==
    ASSUME NEW q \in Seq(Completions), q # <<>>, AnsweredOnce(q)
    PROVE  /\ Answers(Tail(q)) \subseteq Answers(q) /\ AnsweredOnce(Tail(q))
           /\ Head(q).result # None => Head(q).sub \in Answers(q) /\ Head(q).sub \notin Answers(Tail(q))
<1>1. /\ Len(q) \in Nat /\ Len(q) > 0 /\ DOMAIN q = 1..Len(q) /\ Head(q) = q[1]
      /\ DOMAIN Tail(q) = 1..(Len(q) - 1)
      /\ \A i \in 1..(Len(q) - 1) : Tail(q)[i] = q[i + 1]
  OBVIOUS
<1>2. \A i \in DOMAIN Tail(q) : i + 1 \in DOMAIN q /\ i + 1 # 1 /\ Tail(q)[i] = q[i + 1] BY <1>1
<1>3. Answers(Tail(q)) \subseteq Answers(q) BY <1>2 DEF Answers
<1>4. AnsweredOnce(Tail(q))
  <2>1. ASSUME NEW i \in DOMAIN Tail(q), NEW j \in DOMAIN Tail(q), Tail(q)[i].result # None,
               Tail(q)[j].result # None, Tail(q)[i].sub = Tail(q)[j].sub
        PROVE  i = j
    <3>1. i + 1 = j + 1 BY <1>2, <2>1 DEF AnsweredOnce
    <3>2. i \in Nat /\ j \in Nat BY <1>1
    <3>3. QED BY <3>1, <3>2
  <2>2. QED BY <2>1 DEF AnsweredOnce
<1>5. 1 \in DOMAIN q BY <1>1
<1>6. ASSUME Head(q).result # None PROVE Head(q).sub \in Answers(q) /\ Head(q).sub \notin Answers(Tail(q))
  <2>1. Head(q).sub \in Answers(q) BY <1>1, <1>5, <1>6 DEF Answers
  <2>2. ASSUME NEW i \in DOMAIN Tail(q), Tail(q)[i].result # None PROVE Tail(q)[i].sub # Head(q).sub
    BY <1>1, <1>2, <1>5, <1>6, <2>2 DEF AnsweredOnce
  <2>3. QED BY <2>1, <2>2 DEF Answers
<1>7. QED BY <1>3, <1>4, <1>6

\* Whoever has answered is terminal.
LEMMA AnswersAreTerminal ==
    ASSUME TypeInv, SoundInv, NEW s \in Submissions, ~terminal[s]
    PROVE  /\ s \notin Answers(delivered) \cup Answers(results) \cup Answers(relaxed)
                       \cup Answers(drained) \cup Answers(worker_completions)
           /\ wpc[s] = "push" => answer[s] = None
<1>1. \A c \in Holdings : c.sub = s => c.result = None BY DEF SoundInv, Sound
<1>2. \A q : ElementsOf(q) \subseteq Holdings => s \notin Answers(q)
  BY <1>1 DEF Answers, ElementsOf
<1>3. wpc[s] = "push" => Completion(s, answer[s]) \in Holdings BY DEF Holdings, Pushing
<1>4. Completion(s, answer[s]).sub = s /\ Completion(s, answer[s]).result = answer[s] BY DEF Completion
<1>5. /\ ElementsOf(delivered) \subseteq Holdings /\ ElementsOf(results) \subseteq Holdings
      /\ ElementsOf(relaxed) \subseteq Holdings /\ ElementsOf(drained) \subseteq Holdings
      /\ ElementsOf(worker_completions) \subseteq Holdings
  BY DEF Holdings
<1>6. QED BY <1>1, <1>2, <1>3, <1>4, <1>5

\* A step that only drops answers.
LEMMA AnswersFrame ==
    ASSUME OneAnswer,
           Answers(worker_completions') \subseteq Answers(worker_completions),
           AnsweredOnce(worker_completions'), UNCHANGED <<drained, relaxed, delivered>>,
           results' \in {results, <<>>},
           \A s \in Submissions : wpc'[s] = "push" /\ answer'[s] # None => wpc[s] = "push" /\ answer[s] # None
    PROVE  OneAnswer'
<1>1. AnsweredOnce(results') /\ Answers(results') \subseteq Answers(results)
  BY AnswersEmpty DEF OneAnswer
<1>2. QED BY <1>1 DEF OneAnswer

LEMMA AnswersCaller ==
    ASSUME TypeInv, OneAnswer,
           UNCHANGED <<worker_completions, drained, relaxed, delivered, results, wpc, answer>>
    PROVE  OneAnswer'
BY AnswersFrame DEF OneAnswer

\* Workers: an answer is new only if its worker is the winner.
LEMMA AnswersWorker ==
    ASSUME TypeInv, SoundInv, OneAnswer, NEW s \in Submissions,
           WorkerStep(s) \/ AdapterReturns(s) \/ AdapterHangs(s)
    PROVE  OneAnswer'
<1>1. CASE Attempt(s) \/ AdapterReturns(s)
  <2>1. /\ UNCHANGED <<worker_completions, drained, relaxed, results, delivered>>
        /\ \E label \in {"attempt", "calling", "finish"} : wpc' = [wpc EXCEPT ![s] = label]
        /\ \E a : answer' = [answer EXCEPT ![s] = a]
    BY <1>1 DEF Attempt, AdapterReturns, GiveUp, WorkerGoto, mailbox, executor
  <2>2. \A t \in Submissions : wpc'[t] = "push" => wpc[t] = "push" /\ answer'[t] = answer[t]
    BY <2>1 DEF TypeInv
  <2>3. QED BY <2>1, <2>2, AnswersFrame DEF OneAnswer
<1>2. CASE WorkerFinish(s)
  <2>1. /\ UNCHANGED <<worker_completions, drained, relaxed, results, delivered>>
        /\ wpc' = [wpc EXCEPT ![s] = "push"]
        /\ answer' = [answer EXCEPT ![s] = IF terminal[s] THEN None ELSE answer[s]]
    BY <1>2 DEF WorkerFinish, WorkerGoto, mailbox, executor
  <2>2. \A t \in Submissions : t # s => wpc'[t] = wpc[t] /\ answer'[t] = answer[t]
    BY <2>1 DEF TypeInv
  <2>3. answer'[s] # None => ~terminal[s] BY <2>1 DEF TypeInv
  <2>4. answer'[s] # None => s \notin Answers(delivered) \cup Answers(results) \cup Answers(relaxed)
                                      \cup Answers(drained) \cup Answers(worker_completions)
    BY <2>3, AnswersAreTerminal
  <2>5. QED BY <2>1, <2>2, <2>4 DEF OneAnswer
<1>3. CASE WorkerPush(s)
  <2> DEFINE c == Completion(s, answer[s])
  <2>1. /\ UNCHANGED <<drained, relaxed, results, delivered, answer>>
        /\ wpc[s] = "push" /\ wpc' = [wpc EXCEPT ![s] = "done"]
        /\ \/ worker_completions' = worker_completions
           \/ worker_completions' = Append(worker_completions, c)
    BY <1>3 DEF WorkerPush, Push
  <2>2. c \in Completions /\ c.sub = s /\ c.result = answer[s] BY DEF TypeInv, Completion, Completions
  <2> HIDE DEF c
  <2>3. worker_completions \in Seq(Completions) BY DEF TypeInv
  <2>4. answer[s] # None => s \notin Answers(delivered) \cup Answers(results) \cup Answers(relaxed)
                                     \cup Answers(drained) \cup Answers(worker_completions)
    BY <2>1 DEF OneAnswer
  <2>5. /\ \A t \in Answers(Append(worker_completions, c)) :
              t \in Answers(worker_completions) \/ (t = s /\ answer[s] # None)
        /\ AnsweredOnce(Append(worker_completions, c))
    <3>1. /\ Answers(Append(worker_completions, c))
                = Answers(worker_completions) \cup {u \in {c.sub} : c.result # None}
          /\ AnsweredOnce(worker_completions) /\ (c.result = None \/ c.sub \notin Answers(worker_completions))
                => AnsweredOnce(Append(worker_completions, c))
      BY <2>2, <2>3, AnswersAppend
    <3>2. QED BY <2>2, <2>4, <3>1 DEF OneAnswer
  <2>6. /\ \A t \in Answers(worker_completions') :
              t \in Answers(worker_completions) \/ (t = s /\ answer[s] # None)
        /\ AnsweredOnce(worker_completions')
    <3>1. CASE worker_completions' = worker_completions BY <3>1 DEF OneAnswer
    <3>2. QED BY <2>1, <2>5, <3>1
  <2>7. wpc'[s] = "done" /\ \A t \in Submissions : t # s => wpc'[t] = wpc[t] BY <2>1 DEF TypeInv
  <2>8. QED BY <2>1, <2>4, <2>6, <2>7 DEF OneAnswer
<1>4. CASE AdapterHangs(s)
  BY <1>4, AnswersCaller DEF AdapterHangs, mailbox, executor
<1>5. QED BY <1>1, <1>2, <1>3, <1>4 DEF WorkerStep

\* The executor resolves a request nobody has answered.
LEMMA AnswersResolve ==
    ASSUME TypeInv, OneAnswer, ordering = "Relaxed", NEW s \in Submissions, NEW r \in Results, Resolve(s, r),
           NEW w \in Seq(Completions), AnsweredOnce(w), Answers(w) \subseteq Answers(drained), drained' = w,
           r # None => /\ s \notin Answers(delivered) \cup Answers(results) \cup Answers(relaxed)
                                   \cup Answers(w) \cup Answers(worker_completions)
                       /\ ~(wpc[s] = "push" /\ answer[s] # None),
           UNCHANGED <<worker_completions, results, delivered, wpc, answer>>
    PROVE  OneAnswer'
<1> DEFINE c == Completion(s, r)
<1>1. c \in Completions /\ c.sub = s /\ c.result = r BY DEF Completion, Completions
<1>2. \/ relaxed' = relaxed
      \/ relaxed' = Append(relaxed, c) /\ r # None
  BY DEF Resolve
<1>3. relaxed \in Seq(Completions) BY DEF TypeInv
<1> HIDE DEF c
<1>4. /\ Answers(Append(relaxed, c)) = Answers(relaxed) \cup {u \in {c.sub} : c.result # None}
      /\ AnsweredOnce(relaxed) /\ (c.result = None \/ c.sub \notin Answers(relaxed))
            => AnsweredOnce(Append(relaxed, c))
  BY <1>1, <1>3, AnswersAppend
<1>5. /\ \A t \in Answers(relaxed') : t \in Answers(relaxed) \/ (t = s /\ r # None)
      /\ AnsweredOnce(relaxed')
  <2>1. CASE relaxed' = relaxed BY <2>1 DEF OneAnswer
  <2>2. CASE relaxed' = Append(relaxed, c) /\ r # None
    BY <1>1, <1>4, <2>2 DEF OneAnswer
  <2>3. QED BY <1>2, <2>1, <2>2
<1>6. QED BY <1>5 DEF OneAnswer

LEMMA AnswersRound ==
    ASSUME TypeInv, SoundInv, OneAnswer, ordering = "Relaxed",
           Drain \/ Process \/ Unregister \/ (\E s \in Submissions : Scan(s))
    PROVE  OneAnswer'
<1>1. CASE Drain
  <2>1. CASE ExecutorExit
    BY <2>1, AnswersCaller DEF ExecutorExit, mailbox, workers
  <2>2. CASE ~ExecutorExit
    <3>1. /\ drained' = worker_completions /\ worker_completions' = <<>>
          /\ UNCHANGED <<relaxed, results, delivered, wpc, answer>>
      BY <1>1, <2>2 DEF Drain, workers
    <3>2. Answers(worker_completions') = {} /\ AnsweredOnce(worker_completions') BY <3>1, AnswersEmpty
    <3>3. QED BY <3>1, <3>2 DEF OneAnswer
  <2>3. QED BY <2>1, <2>2
<1>2. CASE Process
  BY <1>2, AnswersCaller DEF Process, mailbox, workers
<1>3. CASE Unregister
  <2>1. drained \in Seq(Completions) /\ drained # <<>> BY <1>3 DEF TypeInv, Unregister
  <2>2. PICK s \in Submissions, r \in Results : s = Head(drained).sub /\ r = Head(drained).result
    BY <2>1, CompletionHead
  <2>3. PICK w \in Seq(Completions) : w = Tail(drained) BY <2>1, CompletionHead
  <2>4. AnsweredOnce(drained) BY DEF OneAnswer
  <2>5. /\ Answers(w) \subseteq Answers(drained) /\ AnsweredOnce(w)
        /\ r # None => s \in Answers(drained) /\ s \notin Answers(w)
    BY <2>1, <2>2, <2>3, <2>4, AnswersTail
  <2>6. /\ Resolve(s, r) /\ drained' = w
        /\ UNCHANGED <<worker_completions, results, delivered, wpc, answer>>
    BY <1>3, <2>2, <2>3 DEF Unregister, mailbox, workers
  <2>7. r # None => /\ s \notin Answers(delivered) \cup Answers(results) \cup Answers(relaxed)
                                   \cup Answers(w) \cup Answers(worker_completions)
                    /\ ~(wpc[s] = "push" /\ answer[s] # None)
    BY <2>5 DEF OneAnswer
  <2>8. QED BY <2>5, <2>6, <2>7, AnswersResolve
<1>4. ASSUME NEW s \in Submissions, Scan(s) PROVE OneAnswer'
  <2>1. UNCHANGED <<worker_completions, drained, results, delivered, wpc, answer>>
    BY <1>4 DEF Scan, mailbox, workers
  <2>2. None \in Results /\ Timeout \in Results BY DEF Results
  <2>3. PICK w \in Seq(Completions) : w = drained BY DEF TypeInv
  <2>4. Answers(w) \subseteq Answers(drained) /\ AnsweredOnce(w) /\ drained' = w
    BY <2>1, <2>3 DEF OneAnswer
  <2>5. CASE UNCHANGED <<ordered, relaxed>>
    BY <2>1, <2>5, AnswersCaller
  <2>6. CASE Resolve(s, None)
    BY <2>1, <2>2, <2>4, <2>6, AnswersResolve
  <2>7. CASE ~terminal[s] /\ Resolve(s, Timeout)
    BY <2>1, <2>2, <2>3, <2>4, <2>7, AnswersAreTerminal, AnswersResolve
  <2>8. QED BY <1>4, <2>5, <2>6, <2>7 DEF Scan, TimeOut
<1>5. QED BY <1>1, <1>2, <1>3, <1>4

LEMMA AnswersLocked ==
    ASSUME TypeInv, SoundInv, OneAnswer, ordering = "Relaxed",
           Deliver \/ DeliverOne \/ Delivered \/ Launch \/ LaunchDone
    PROVE  OneAnswer'
<1>1. CASE Deliver \/ Delivered \/ LaunchDone
  BY <1>1, AnswersCaller DEF Deliver, ExecutorExit, Delivered, LaunchDone, mailbox, workers
<1>2. CASE DeliverOne
  <2>1. PICK c \in Completions : c = Head(relaxed)
    BY <1>2, CompletionHead DEF TypeInv, DeliverOne, DeliverRelaxed, DeliverStrict, Due
  <2>2. /\ relaxed \in Seq(Completions) /\ relaxed # <<>> /\ results \in Seq(Completions)
        /\ results' = Append(results, c) /\ relaxed' = Tail(relaxed)
        /\ UNCHANGED <<worker_completions, drained, delivered, wpc, answer>>
    BY <1>2, <2>1 DEF TypeInv, DeliverOne, DeliverRelaxed, DeliverStrict, Due, workers
  <2>3. AnsweredOnce(relaxed) /\ AnsweredOnce(results) BY DEF OneAnswer
  <2>4. /\ Answers(relaxed') \subseteq Answers(relaxed) /\ AnsweredOnce(relaxed')
        /\ c.result # None => c.sub \in Answers(relaxed) /\ c.sub \notin Answers(relaxed')
    BY <2>1, <2>2, <2>3, AnswersTail
  <2>5. /\ Answers(results') = Answers(results) \cup {s \in {c.sub} : c.result # None}
        /\ (c.result = None \/ c.sub \notin Answers(results)) => AnsweredOnce(results')
    BY <2>2, <2>3, AnswersAppend
  <2>6. c.result # None => c.sub \notin Answers(results) BY <2>4 DEF OneAnswer
  <2>7. QED BY <2>2, <2>4, <2>5, <2>6 DEF OneAnswer
<1>3. CASE Launch
  <2>1. PICK s \in Submissions : s = Head(input) BY <1>3 DEF TypeInv, Launch
  <2>2. UNCHANGED <<worker_completions, drained, results, delivered, wpc, answer>>
    BY <1>3 DEF Launch, workers
  <2>3. None \in Results /\ Timeout \in Results BY DEF Results
  <2>4. PICK w \in Seq(Completions) : w = drained BY DEF TypeInv
  <2>5. Answers(w) \subseteq Answers(drained) /\ AnsweredOnce(w) /\ drained' = w
    BY <2>2, <2>4 DEF OneAnswer
  <2>6. CASE UNCHANGED <<ordered, relaxed>>
    BY <2>2, <2>6, AnswersCaller
  <2>7. CASE Resolve(s, None)
    BY <2>2, <2>3, <2>5, <2>7, AnswersResolve
  <2>8. CASE ~terminal[s] /\ Resolve(s, Timeout)
    BY <2>2, <2>3, <2>4, <2>5, <2>8, AnswersAreTerminal, AnswersResolve
  <2>9. QED BY <1>3, <2>1, <2>6, <2>7, <2>8 DEF Launch
<1>4. QED BY <1>1, <1>2, <1>3

LEMMA AnswersSpawn ==
    ASSUME TypeInv, SoundInv, OneAnswer, NEW s \in Submissions, Spawn(s) \/ SpawnFails(s)
    PROVE  OneAnswer'
<1>1. CASE Spawn(s)
  <2>1. /\ wpc' = [wpc EXCEPT ![s] = "attempt"]
        /\ UNCHANGED <<worker_completions, drained, relaxed, results, delivered, answer>>
    BY <1>1 DEF Spawn, mailbox
  <2>2. \A t \in Submissions : wpc'[t] = "push" => wpc[t] = "push" BY <2>1 DEF TypeInv
  <2>3. QED BY <2>1, <2>2, AnswersFrame DEF OneAnswer
<1>2. CASE SpawnFails(s)
  <2>1. PICK r \in Results : r = IF terminal[s] THEN None ELSE Response BY DEF Results
  <2>2. PICK c \in Completions : c = Completion(s, r) /\ c.sub = s /\ c.result = r
    <3>1. Completion(s, r) \in Completions /\ Completion(s, r).sub = s /\ Completion(s, r).result = r
      BY DEF Completion, Completions
    <3>2. QED BY <3>1
  <2>3. /\ worker_completions' = worker_completions \/ worker_completions' = Append(worker_completions, c)
        /\ UNCHANGED <<drained, relaxed, results, delivered, wpc, answer>>
    BY <1>2, <2>1, <2>2 DEF SpawnFails, Push, workers
  <2>4. r # None => /\ s \notin Answers(delivered) \cup Answers(results) \cup Answers(relaxed)
                                \cup Answers(drained) \cup Answers(worker_completions)
                    /\ wpc[s] = "push" => answer[s] = None
    BY <2>1, AnswersAreTerminal
  <2>5. worker_completions \in Seq(Completions) BY DEF TypeInv
  <2>6. /\ Answers(Append(worker_completions, c))
              = Answers(worker_completions) \cup {u \in {c.sub} : c.result # None}
        /\ AnsweredOnce(worker_completions) /\ (c.result = None \/ c.sub \notin Answers(worker_completions))
              => AnsweredOnce(Append(worker_completions, c))
    BY <2>5, AnswersAppend
  <2>7. /\ \A t \in Answers(worker_completions') : t \in Answers(worker_completions) \/ (t = s /\ r # None)
        /\ AnsweredOnce(worker_completions')
    <3>1. CASE worker_completions' = worker_completions BY <3>1 DEF OneAnswer
    <3>2. CASE worker_completions' = Append(worker_completions, c)
      BY <2>2, <2>4, <2>6, <3>2 DEF OneAnswer
    <3>3. QED BY <2>3, <3>1, <3>2
  <2>8. QED BY <2>3, <2>4, <2>7 DEF OneAnswer
<1>3. QED BY <1>1, <1>2

LEMMA AnswersStop ==
    ASSUME TypeInv, OneAnswer, StopRequest \/ StopStep \/ Recv
    PROVE  OneAnswer'
<1>1. CASE StopRequest \/ StopTake \/ StopNotify \/ StopReturn \/ (\E s \in Submissions : StopCancel(s))
  BY <1>1, AnswersCaller DEF StopRequest, StopTake, StopNotify, StopReturn, StopCancel,
     mailbox, executor, workers
<1>2. CASE StopClear
  <2>1. /\ worker_completions' = <<>> /\ results' = <<>>
        /\ UNCHANGED <<drained, relaxed, delivered, wpc, answer>>
    BY <1>2 DEF StopClear, executor, workers
  <2>2. QED BY <2>1, AnswersEmpty, AnswersFrame
<1>3. CASE Recv
  <2>1. PICK c \in Completions : c = Head(results)
    BY <1>3, CompletionHead DEF TypeInv, Recv
  <2>2. /\ results \in Seq(Completions) /\ results # <<>> /\ delivered \in Seq(Completions)
        /\ delivered' = Append(delivered, c) /\ results' = Tail(results)
        /\ UNCHANGED <<worker_completions, drained, relaxed, wpc, answer>>
    BY <1>3, <2>1 DEF TypeInv, Recv, workers
  <2>3. AnsweredOnce(delivered) /\ AnsweredOnce(results) BY DEF OneAnswer
  <2>4. /\ Answers(results') \subseteq Answers(results) /\ AnsweredOnce(results')
        /\ c.result # None => c.sub \in Answers(results) /\ c.sub \notin Answers(results')
    BY <2>1, <2>2, <2>3, AnswersTail
  <2>5. /\ Answers(delivered') = Answers(delivered) \cup {s \in {c.sub} : c.result # None}
        /\ (c.result = None \/ c.sub \notin Answers(delivered)) => AnsweredOnce(delivered')
    BY <2>2, <2>3, AnswersAppend
  <2>6. c.result # None => c.sub \notin Answers(delivered) BY <2>4 DEF OneAnswer
  <2>7. QED BY <2>2, <2>4, <2>5, <2>6 DEF OneAnswer
<1>4. QED BY <1>1, <1>2, <1>3 DEF StopStep

LEMMA RelaxedStep ==
    ASSUME TypeInv, SoundInv, RelaxedInv, [Next]_vars
    PROVE  RelaxedInv'
<1>1. UNCHANGED ordering
  BY DEF Next, vars, ExecutorStep, SpuriousWakeup, TimerFires, Wake, Drain, ExecutorExit, Process, Unregister, Scan,
     Deliver, DeliverOne, Delivered, Launch, LaunchDone, Spawn, SpawnFails, Spawned, Recv, StopRequest,
     StopStep, StopClear, StopTake, StopCancel, StopNotify, StopReturn, CallerStep, Submit, Refuse,
     CancelMark, CancelFinish, Expire, WorkerStep, Attempt, WorkerFinish, WorkerPush, AdapterReturns,
     AdapterHangs, workers, fixed
<1> SUFFICES ASSUME ordering = "Relaxed" PROVE OneAnswer' BY <1>1 DEF RelaxedInv
<1>2. OneAnswer BY DEF RelaxedInv
<1>3. CASE UNCHANGED vars
  BY <1>2, <1>3, AnswersCaller DEF vars, mailbox, executor, workers
<1>4. ASSUME NEW s \in Submissions, CallerStep(s) PROVE OneAnswer'
  BY <1>2, <1>4, AnswersCaller DEF CallerStep, Submit, Refuse, CancelMark, CancelFinish, Expire,
     mailbox, executor, workers
<1>5. CASE Wake \/ Spawned
  BY <1>2, <1>5, AnswersCaller DEF Wake, Spawned, mailbox, workers
<1>6. CASE Next
  BY <1>2, <1>4, <1>5, <1>6, AnswersWorker, AnswersRound, AnswersLocked, AnswersSpawn, AnswersStop
     DEF Next, ExecutorStep, SpuriousWakeup, TimerFires
<1>7. QED BY <1>3, <1>6

----------------------------------------------------------------------------
(* One result per request, the winner's, in its place                      *)

LEMMA SequenceOfAccepted ==
    ASSUME NoRepeats(accepted), NEW a \in DOMAIN accepted, NEW s, s = accepted[a]
    PROVE  SequenceOf(s) = a
<1>1. \E i \in DOMAIN accepted : accepted[i] = s OBVIOUS
<1>2. SequenceOf(s) \in DOMAIN accepted /\ accepted[SequenceOf(s)] = s
  BY <1>1 DEF SequenceOf
<1>3. QED BY <1>2 DEF NoRepeats

\* The caller's view: what it has received, then what waits for it.
LEMMA ReceivedAt ==
    ASSUME TypeInv, NEW i \in DOMAIN Received
    PROVE  /\ i \in Nat
           /\ \/ i <= Len(delivered) /\ i \in DOMAIN delivered /\ Received[i] = delivered[i]
              \/ /\ i > Len(delivered) /\ i - Len(delivered) \in DOMAIN results
                 /\ Received[i] = results[i - Len(delivered)]
<1>1. delivered \in Seq(Completions) /\ results \in Seq(Completions) BY DEF TypeInv
<1>2. /\ DOMAIN Received = 1..(Len(delivered) + Len(results))
      /\ DOMAIN delivered = 1..Len(delivered) /\ DOMAIN results = 1..Len(results)
      /\ Len(delivered) \in Nat /\ Len(results) \in Nat
      /\ \A k \in 1..(Len(delivered) + Len(results)) :
            Received[k] = IF k <= Len(delivered) THEN delivered[k] ELSE results[k - Len(delivered)]
  BY <1>1 DEF Received
<1>3. QED BY <1>2

LEMMA OnceInOrder ==
    ASSUME TypeInv, StartInv, SoundInv, StrictInv, RelaxedInv
    PROVE  DeliveredOnceInOrder
<1> SUFFICES ASSUME NEW i \in DOMAIN Received, NEW j \in DOMAIN Received, i < j
             PROVE  /\ Received[i].sub # Received[j].sub
                    /\ ordering = "Strict" => SequenceOf(Received[i].sub) < SequenceOf(Received[j].sub)
  BY DEF DeliveredOnceInOrder
<1>1. /\ i \in Nat /\ j \in Nat /\ Len(delivered) \in Nat
      /\ \/ i <= Len(delivered) /\ i \in DOMAIN delivered /\ Received[i] = delivered[i]
         \/ /\ i > Len(delivered) /\ i - Len(delivered) \in DOMAIN results
            /\ Received[i] = results[i - Len(delivered)]
      /\ \/ j <= Len(delivered) /\ j \in DOMAIN delivered /\ Received[j] = delivered[j]
         \/ /\ j > Len(delivered) /\ j - Len(delivered) \in DOMAIN results
            /\ Received[j] = results[j - Len(delivered)]
  <2>1. Len(delivered) \in Nat BY DEF TypeInv
  <2>2. QED BY <2>1, ReceivedAt, Zenon
<1>2. CASE ordering = "Strict"
  <2>1. /\ \A k, l \in DOMAIN results : k < l => Earlier(results[k].sub, results[l].sub)
        /\ \A k, l \in DOMAIN delivered : k < l => Earlier(delivered[k].sub, delivered[l].sub)
        /\ \A s \in SubsOf(delivered), t \in SubsOf(results) : Earlier(s, t)
    BY <1>2 DEF StrictInv
  <2>2. Earlier(Received[i].sub, Received[j].sub)
    <3>1. CASE j <= Len(delivered) BY <1>1, <2>1, <3>1
    <3>2. CASE i > Len(delivered)
      <4>1. i - Len(delivered) < j - Len(delivered) /\ j > Len(delivered) BY <1>1, <3>2
      <4>2. QED BY <1>1, <2>1, <3>2, <4>1
    <3>3. CASE i <= Len(delivered) /\ j > Len(delivered)
      <4>1. Received[i].sub \in SubsOf(delivered) /\ Received[j].sub \in SubsOf(results)
        BY <1>1, <3>3 DEF SubsOf
      <4>2. QED BY <2>1, <4>1
    <3>4. QED BY <1>1, <3>1, <3>2, <3>3
  <2>3. PICK a, b \in DOMAIN accepted : a < b /\ accepted[a] = Received[i].sub /\ accepted[b] = Received[j].sub
    BY <2>2 DEF Earlier
  <2>4. NoRepeats(accepted) /\ a \in Nat /\ b \in Nat BY SMTT(30) DEF StartInv, TypeInv
  <2>5. SequenceOf(Received[i].sub) = a /\ SequenceOf(Received[j].sub) = b
    BY <2>3, <2>4, SequenceOfAccepted
  <2>6. a # b BY <2>3, <2>4
  <2>7. QED BY <2>3, <2>5, <2>6
<1>3. CASE ordering = "Relaxed"
  <2>1. OneAnswer BY <1>3 DEF RelaxedInv
  <2>2. /\ \A k \in DOMAIN delivered : delivered[k].result # None
        /\ \A k \in DOMAIN results : results[k].result # None
    BY DEF SoundInv, ElementsOf
  <2>3. CASE j <= Len(delivered)
    <3>1. i \in DOMAIN delivered /\ j \in DOMAIN delivered /\ i # j BY <1>1, <2>3
    <3>2. delivered[i].sub # delivered[j].sub BY <2>1, <2>2, <3>1 DEF OneAnswer, AnsweredOnce
    <3>3. QED BY <1>1, <1>3, <2>3, <3>2
  <2>4. CASE i > Len(delivered)
    <3>1. i - Len(delivered) # j - Len(delivered) /\ j > Len(delivered) BY <1>1, <2>4
    <3>2. results[i - Len(delivered)].sub # results[j - Len(delivered)].sub
      BY <1>1, <2>1, <2>2, <2>4, <3>1 DEF OneAnswer, AnsweredOnce
    <3>3. QED BY <1>1, <1>3, <2>4, <3>1, <3>2
  <2>5. CASE i <= Len(delivered) /\ j > Len(delivered)
    <3>1. Received[i].sub \in Answers(delivered) /\ Received[j].sub \in Answers(results)
      BY <1>1, <2>2, <2>5 DEF Answers
    <3>2. QED BY <1>3, <2>1, <3>1 DEF OneAnswer
  <2>6. QED BY <1>1, <2>3, <2>4, <2>5
<1>4. QED BY <1>2, <1>3 DEF TypeInv

LEMMA WinnersOnly ==
    ASSUME TypeInv, SoundInv
    PROVE  WinnerDecides
<1>1. ASSUME NEW i \in DOMAIN Received
      PROVE  Sound(Received[i].sub, Received[i].result)
  <2>1. Received[i] \in ElementsOf(delivered) \cup ElementsOf(results)
    BY ReceivedAt DEF ElementsOf
  <2>2. QED BY <2>1 DEF SoundInv, Holdings
<1>2. QED BY <1>1 DEF WinnerDecides, Sound, ToSet

LEMMA InitDelivery == Init => StartInv /\ SoundInv /\ StrictInv /\ RelaxedInv
<1> SUFFICES ASSUME Init PROVE StartInv /\ SoundInv /\ StrictInv /\ RelaxedInv OBVIOUS
<1>1. /\ SubsOf(worker_completions) = {} /\ SubsOf(drained) = {} /\ SubsOf(results) = {}
      /\ SubsOf(delivered) = {}
  BY SubsOfEmpty DEF Init
<1>2. /\ ElementsOf(<<>>) = {} /\ NoRepeats(<<>>) BY DEF ElementsOf, NoRepeats
<1>3. StartInv BY <1>1, <1>2 DEF Init, StartInv, Pending
<1>4. SoundInv
  <2>1. Ordered = {} /\ Pushing = {} BY DEF Init, Ordered, Pushing
  <2>2. QED BY <1>2, <2>1 DEF Init, SoundInv, Holdings
<1>5. StrictInv BY <1>1 DEF Init, StrictInv
<1>6. OneAnswer BY AnswersEmpty DEF Init, OneAnswer
<1>7. QED BY <1>3, <1>4, <1>5, <1>6 DEF RelaxedInv

\* However answers, retries, deadlines, cancels and stop race, what the caller
\* receives for a request is the one result that the winner of its terminal
\* transition produced, and a strict stream hands them over in the order of
\* acceptance.
THEOREM DeliveryByTheWinner == Spec => []DeliveredByTheWinner
<1> DEFINE Inv == TypeInv /\ StartInv /\ SoundInv /\ StrictInv /\ RelaxedInv
<1>1. Init => Inv BY InitType, InitDelivery
<1>2. Inv /\ [Next]_vars => Inv'
  BY TypeStep, StartStep, SoundStep, StrictStep, RelaxedStep
<1>3. Inv => DeliveredByTheWinner
  BY OnceInOrder, WinnersOnly DEF DeliveredByTheWinner
<1>4. QED BY <1>1, <1>2, <1>3, PTL DEF Spec

----------------------------------------------------------------------------
(* The window                                                              *)

\* A queue has at least as many completions as submissions, and as many if
\* none occurs twice.
LEMMA SubsCount ==
    ASSUME NEW q \in Seq(Completions)
    PROVE  /\ IsFiniteSet(SubsOf(q)) /\ Cardinality(SubsOf(q)) <= Len(q)
           /\ SubsOnce(q) => Cardinality(SubsOf(q)) = Len(q)
<1> DEFINE f == [i \in 1..Len(q) |-> q[i].sub]
           T == SubsOf(q)
<1>1. Len(q) \in Nat /\ DOMAIN q = 1..Len(q) OBVIOUS
<1>2. T = {q[i].sub : i \in 1..Len(q)} BY <1>1 DEF SubsOf
<1>3. f \in [1..Len(q) -> T] /\ \A t \in T : \E i \in 1..Len(q) : f[i] = t BY <1>2
<1>4. f \in Surjection(1..Len(q), T)
  <2> HIDE DEF f, T
  <2>1. QED BY <1>3 DEF Surjection
<1>5. IsFiniteSet(1..Len(q)) /\ Cardinality(1..Len(q)) = Len(q) BY <1>1, UpToCount
<1>6. IsFiniteSet(T) /\ Cardinality(T) <= Cardinality(1..Len(q))
  <2> HIDE DEF f, T
  <2>1. QED BY <1>4, <1>5, FS_Surjection
<1>7. ASSUME SubsOnce(q) PROVE Cardinality(T) = Len(q)
  <2>1. \A i, j \in 1..Len(q) : f[i] = f[j] => i = j
    BY <1>1, <1>7 DEF SubsOnce
  <2>2. DOMAIN f = 1..Len(q) OBVIOUS
  <2> HIDE DEF f, T
  <2>3. f \in Bijection(1..Len(q), T)
    BY <1>3, <1>4, <2>1, <2>2 DEF Bijection, Injection, IsInjective
  <2>4. ExistsBijection(1..Len(q), T) BY <2>3 DEF ExistsBijection
  <2>5. QED BY <1>5, <2>4, FS_Bijection
<1>8. QED BY <1>5, <1>6, <1>7

LEMMA SubsOnceAppend ==
    ASSUME NEW q \in Seq(Completions), NEW c \in Completions, SubsOnce(q), c.sub \notin SubsOf(q)
    PROVE  SubsOnce(Append(q, c))
<1>1. /\ DOMAIN Append(q, c) = 1..(Len(q) + 1) /\ DOMAIN q = 1..Len(q) /\ Len(q) \in Nat
      /\ \A i \in 1..Len(q) : Append(q, c)[i] = q[i]
      /\ Append(q, c)[Len(q) + 1] = c
  OBVIOUS
<1>2. \A i \in 1..(Len(q) + 1) : i \in 1..Len(q) \/ i = Len(q) + 1 BY <1>1
<1>3. QED BY <1>1, <1>2 DEF SubsOnce, SubsOf

LEMMA SubsOnceTail ==
    ASSUME NEW q \in Seq(Completions), q # <<>>, SubsOnce(q)
    PROVE  SubsOnce(Tail(q)) /\ Head(q).sub \notin SubsOf(Tail(q))
<1>1. /\ Len(q) \in Nat /\ Len(q) > 0 /\ DOMAIN q = 1..Len(q) /\ Head(q) = q[1]
      /\ DOMAIN Tail(q) = 1..(Len(q) - 1)
      /\ \A i \in 1..(Len(q) - 1) : Tail(q)[i] = q[i + 1]
  OBVIOUS
<1>2. \A i \in DOMAIN Tail(q) : i + 1 \in DOMAIN q /\ i + 1 # 1 /\ Tail(q)[i] = q[i + 1] /\ i \in Nat
  BY <1>1
<1>3. ASSUME NEW i \in DOMAIN Tail(q), NEW j \in DOMAIN Tail(q), Tail(q)[i].sub = Tail(q)[j].sub
      PROVE  i = j
  <2>1. i + 1 = j + 1 BY <1>2, <1>3 DEF SubsOnce
  <2>2. QED BY <1>2, <2>1
<1>4. 1 \in DOMAIN q BY <1>1
<1>5. ASSUME NEW i \in DOMAIN Tail(q) PROVE Tail(q)[i].sub # Head(q).sub
  BY <1>1, <1>2, <1>4 DEF SubsOnce
<1>6. QED BY <1>3, <1>5 DEF SubsOnce, SubsOf

\* The window does not grow.
LEMMA WindowShrinks ==
    ASSUME WindowInv, Occupied' \subseteq Occupied
    PROVE  IsFiniteSet(Occupied') /\ Cardinality(Occupied') <= MaxInFlight
<1>1. IsFiniteSet(Occupied) /\ Cardinality(Occupied) <= MaxInFlight BY DEF WindowInv
<1>2. /\ IsFiniteSet(Occupied') /\ Cardinality(Occupied') <= Cardinality(Occupied)
  BY <1>1, FS_Subset
<1>3. Cardinality(Occupied) \in Nat /\ Cardinality(Occupied') \in Nat BY <1>1, <1>2, FS_CardinalityType
<1>4. QED BY <1>1, <1>2, <1>3

windowVars == <<worker_completions, drained, active, launches, scan, ordered, relaxed>>

\* A step that leaves the queues alone.
LEMMA WindowFrame ==
    ASSUME WindowInv, UNCHANGED <<worker_completions, drained, active, launches, scan, ordered, relaxed>>,
           epc' = epc \/ (epc = "wait" /\ epc' = "drain"),
           \A s \in Submissions : wpc'[s] \in {"attempt", "calling", "finish", "push"} =>
                                  wpc[s] \in {"attempt", "calling", "finish", "push"}
    PROVE  WindowInv'
<1>1. InHand' = InHand BY DEF InHand
<1>2. SubsOf(relaxed)' = SubsOf(relaxed) BY DEF SubsOf
<1>3. Occupied' = Occupied BY <1>1, <1>2 DEF Occupied
<1>4. IsFiniteSet(Occupied') /\ Cardinality(Occupied') <= MaxInFlight BY <1>3, WindowShrinks
<1>5. /\ SubsOf(worker_completions)' = SubsOf(worker_completions) /\ SubsOf(drained)' = SubsOf(drained)
      /\ SubsOnce(worker_completions)' /\ SubsOnce(drained)'
  BY DEF SubsOf, SubsOnce, WindowInv
<1>6. QED BY <1>1, <1>4, <1>5 DEF WindowInv

LEMMA WindowCaller ==
    ASSUME TypeInv, WindowInv, NEW s \in Submissions, CallerStep(s)
    PROVE  WindowInv'
BY WindowFrame DEF CallerStep, Submit, Refuse, CancelMark, CancelFinish, Expire, NotifyAll,
   mailbox, executor, workers

\* A completion joins the queue of the workers.
LEMMA WindowPush ==
    ASSUME TypeInv, StartInv, WindowInv, NEW s \in active, s \in Submissions,
           NEW r \in Results, Push(s, r),
           s \notin SubsOf(worker_completions) \cup SubsOf(drained)
    PROVE  /\ SubsOnce(worker_completions)' /\ SubsOf(worker_completions)' \cap SubsOf(drained) = {}
           /\ SubsOf(worker_completions)' \subseteq active
<1>1. PICK c \in Completions : c = Completion(s, r) /\ c.sub = s
  <2>1. Completion(s, r) \in Completions /\ Completion(s, r).sub = s BY DEF Completion, Completions
  <2>2. QED BY <2>1
<1>2. worker_completions' = worker_completions \/ worker_completions' = Append(worker_completions, c)
  BY <1>1 DEF Push
<1>3. worker_completions \in Seq(Completions) /\ SubsOnce(worker_completions) BY DEF TypeInv, WindowInv
<1>4. /\ SubsOf(Append(worker_completions, c)) = SubsOf(worker_completions) \cup {s}
      /\ SubsOnce(Append(worker_completions, c))
  BY <1>1, <1>3, SubsOfAppend, SubsOnceAppend
<1>5. SubsOnce(worker_completions') /\ SubsOf(worker_completions') \subseteq SubsOf(worker_completions) \cup {s}
  BY <1>2, <1>3, <1>4
<1>6. QED BY <1>5 DEF WindowInv

LEMMA WindowWorker ==
    ASSUME TypeInv, StartInv, WindowInv, NEW s \in Submissions,
           WorkerStep(s) \/ AdapterReturns(s) \/ AdapterHangs(s)
    PROVE  WindowInv'
<1>1. CASE Attempt(s) \/ AdapterReturns(s) \/ WorkerFinish(s)
  <2>1. /\ UNCHANGED windowVars /\ UNCHANGED epc /\ wpc[s] \in {"attempt", "calling", "finish"}
        /\ \E label : wpc' = [wpc EXCEPT ![s] = label]
    BY <1>1 DEF Attempt, AdapterReturns, WorkerFinish, GiveUp, WorkerGoto, mailbox, executor, windowVars
  <2>2. \A t \in Submissions : t # s => wpc'[t] = wpc[t] BY <2>1 DEF TypeInv
  <2>3. QED BY <2>1, <2>2, WindowFrame DEF windowVars
<1>2. CASE WorkerPush(s)
  <2>1. /\ UNCHANGED <<drained, active, launches, scan, ordered, relaxed>>
        /\ wpc[s] = "push" /\ wpc' = [wpc EXCEPT ![s] = "done"] /\ Push(s, answer[s])
        /\ epc' = epc \/ (epc = "wait" /\ epc' = "drain")
    BY <1>2 DEF WorkerPush, NotifyAll
  <2>2. s \in active /\ s \notin SubsOf(worker_completions) \cup SubsOf(drained) /\ answer[s] \in Results
    BY <2>1 DEF WindowInv, StartInv, TypeInv
  <2>3. /\ SubsOnce(worker_completions)' /\ SubsOf(worker_completions)' \cap SubsOf(drained) = {}
        /\ SubsOf(worker_completions)' \subseteq active
    BY <2>1, <2>2, WindowPush
  <2>4. InHand' = InHand /\ SubsOf(relaxed)' = SubsOf(relaxed) BY <2>1 DEF InHand, SubsOf
  <2>5. Occupied' = Occupied BY <2>1, <2>4 DEF Occupied
  <2>6. IsFiniteSet(Occupied') /\ Cardinality(Occupied') <= MaxInFlight BY <2>5, WindowShrinks
  <2>7. SubsOf(drained)' = SubsOf(drained) /\ SubsOnce(drained)' BY <2>1 DEF SubsOf, SubsOnce, WindowInv
  <2>8. \A t \in Submissions : wpc'[t] \in {"attempt", "calling", "finish", "push"} => t \in active'
    BY <2>1 DEF TypeInv, WindowInv
  <2>9. QED BY <2>1, <2>3, <2>4, <2>6, <2>7, <2>8 DEF WindowInv
<1>3. CASE AdapterHangs(s)
  BY <1>3, WindowFrame DEF AdapterHangs, mailbox, executor
<1>4. QED BY <1>1, <1>2, <1>3 DEF WorkerStep

\* The executor resolves a request that is in the window.
LEMMA ResolveOccupies ==
    ASSUME TypeInv, NEW s \in Submissions, NEW r \in Results, Resolve(s, r)
    PROVE  DOMAIN ordered' \cup SubsOf(relaxed') \subseteq DOMAIN ordered \cup SubsOf(relaxed) \cup {s}
<1>1. Completion(s, r) \in Completions /\ Completion(s, r).sub = s BY DEF Completion, Completions
<1>2. relaxed \in Seq(Completions) BY DEF TypeInv
<1>3. SubsOf(Append(relaxed, Completion(s, r))) = SubsOf(relaxed) \cup {s}
  BY <1>1, <1>2, SubsOfAppend
<1>4. relaxed' = relaxed \/ relaxed' = Append(relaxed, Completion(s, r)) BY DEF Resolve
<1>5. SubsOf(relaxed') \subseteq SubsOf(relaxed) \cup {s} BY <1>3, <1>4
<1>6. \/ ordered' = ordered
      \/ ordered' = [t \in DOMAIN ordered \cup {s} |-> IF t = s THEN r ELSE ordered[t]]
  BY DEF Resolve
<1>7. DOMAIN ordered' \subseteq DOMAIN ordered \cup {s} BY <1>6
<1>8. QED BY <1>5, <1>7

LEMMA WindowExit ==
    ASSUME TypeInv, WindowInv, ExecutorExit, epc = "drain" \/ (epc = "scan" /\ scan = {})
    PROVE  WindowInv'
<1>1. /\ UNCHANGED <<worker_completions, drained, active, launches, scan, ordered, relaxed, wpc>>
      /\ epc' = "done"
  BY DEF ExecutorExit, mailbox, workers
<1>2. InHand' = {} /\ InHand = {} BY <1>1 DEF InHand
<1>3. Occupied' \subseteq Occupied BY <1>1, <1>2 DEF Occupied
<1>4. IsFiniteSet(Occupied') /\ Cardinality(Occupied') <= MaxInFlight BY <1>3, WindowShrinks
<1>5. /\ SubsOf(worker_completions)' = SubsOf(worker_completions) /\ SubsOf(drained)' = SubsOf(drained)
      /\ SubsOnce(worker_completions)' /\ SubsOnce(drained)'
  BY <1>1 DEF SubsOf, SubsOnce, WindowInv
<1>6. QED BY <1>1, <1>2, <1>4, <1>5 DEF WindowInv

LEMMA WindowRound ==
    ASSUME TypeInv, StartInv, WindowInv,
           Drain \/ Process \/ Unregister \/ (\E s \in Submissions : Scan(s))
    PROVE  WindowInv'
<1>1. CASE Drain
  <2>1. CASE ExecutorExit BY <1>1, <2>1, WindowExit DEF Drain
  <2>2. CASE ~ExecutorExit
    <3>1. /\ drained' = worker_completions /\ worker_completions' = <<>> /\ epc' = "process" /\ epc = "drain"
          /\ UNCHANGED <<active, launches, scan, ordered, relaxed, wpc>>
      BY <1>1, <2>2 DEF Drain, workers
    <3>2. InHand' = {} /\ InHand = {} BY <3>1 DEF InHand
    <3>3. Occupied' = Occupied BY <3>1, <3>2 DEF Occupied
    <3>4. IsFiniteSet(Occupied') /\ Cardinality(Occupied') <= MaxInFlight BY <3>3, WindowShrinks
    <3>5. /\ SubsOf(worker_completions') = {} /\ SubsOf(drained') = SubsOf(worker_completions)
          /\ SubsOnce(worker_completions') /\ SubsOnce(drained')
      BY <3>1, SubsOfEmpty DEF SubsOnce, WindowInv
    <3>6. QED BY <3>1, <3>2, <3>4, <3>5 DEF WindowInv
  <2>3. QED BY <2>1, <2>2
<1>2. CASE Process
  <2>1. /\ UNCHANGED <<worker_completions, drained, launches, ordered, relaxed, wpc>> /\ epc = "process"
        /\ \/ drained # <<>> /\ active' = active \ {Head(drained).sub} /\ epc' = "unregister" /\ scan' = scan
           \/ drained = <<>> /\ scan' = active /\ epc' = "scan" /\ active' = active
    BY <1>2 DEF Process, mailbox, workers
  <2>2. InHand = {} /\ launches = {} /\ scan = {} BY <2>1 DEF InHand, WindowInv
  <2>3. /\ SubsOf(worker_completions)' = SubsOf(worker_completions) /\ SubsOf(drained)' = SubsOf(drained)
        /\ SubsOnce(worker_completions)' /\ SubsOnce(drained)'
    BY <2>1 DEF SubsOf, SubsOnce, WindowInv
  <2>4. CASE drained = <<>>
    <3>1. InHand' = {} BY <2>1, <2>4 DEF InHand
    <3>2. Occupied' = Occupied BY <2>1, <2>2, <2>4, <3>1 DEF Occupied
    <3>3. IsFiniteSet(Occupied') /\ Cardinality(Occupied') <= MaxInFlight BY <3>2, WindowShrinks
    <3>4. QED BY <2>1, <2>2, <2>3, <2>4, <3>1, <3>3 DEF WindowInv
  <2>5. CASE drained # <<>>
    <3>1. PICK h \in Submissions : h = Head(drained).sub BY <2>5, CompletionHead DEF TypeInv
    <3>2. h \in SubsOf(drained) BY <2>5, <3>1, SubsOfTail DEF TypeInv
    <3>3. h \in active /\ h \notin SubsOf(worker_completions) /\ wpc[h] \in {"none", "done"}
      BY <2>2, <3>2 DEF WindowInv, StartInv
    <3>4. active' = active \ {h} /\ InHand' = {h} /\ epc' = "unregister" /\ scan' = scan
      BY <2>1, <2>5, <3>1 DEF InHand
    <3>5. Occupied' \subseteq Occupied BY <2>1, <3>3, <3>4 DEF Occupied
    <3>6. IsFiniteSet(Occupied') /\ Cardinality(Occupied') <= MaxInFlight BY <3>5, WindowShrinks
    <3>7. QED BY <2>1, <2>2, <2>3, <2>5, <3>3, <3>4, <3>6 DEF WindowInv
  <2>6. QED BY <2>4, <2>5
<1>3. CASE Unregister
  <2>1. drained \in Seq(Completions) /\ drained # <<>> BY <1>3 DEF TypeInv, Unregister
  <2>2. PICK h \in Submissions, r \in Results : h = Head(drained).sub /\ r = Head(drained).result
    BY <2>1, CompletionHead
  <2>3. /\ UNCHANGED <<worker_completions, active, launches, scan, wpc>> /\ epc = "unregister" /\ epc' = "process"
        /\ Resolve(h, r) /\ drained' = Tail(drained)
    BY <1>3, <2>2 DEF Unregister, mailbox, workers
  <2>4. InHand = {h} /\ InHand' = {} BY <2>2, <2>3 DEF InHand
  <2>5. DOMAIN ordered' \cup SubsOf(relaxed') \subseteq DOMAIN ordered \cup SubsOf(relaxed) \cup {h}
    BY <2>3, ResolveOccupies
  <2>6. Occupied' \subseteq Occupied BY <2>3, <2>4, <2>5 DEF Occupied
  <2>7. IsFiniteSet(Occupied') /\ Cardinality(Occupied') <= MaxInFlight BY <2>6, WindowShrinks
  <2>8. SubsOnce(drained) BY DEF WindowInv
  <2>9. SubsOnce(drained') /\ SubsOf(drained') \subseteq SubsOf(drained) \ {h}
    BY <2>1, <2>2, <2>3, <2>8, SubsOfTail, SubsOnceTail
  <2>10. SubsOf(worker_completions)' = SubsOf(worker_completions) /\ SubsOnce(worker_completions)'
    BY <2>3 DEF SubsOf, SubsOnce, WindowInv
  <2>11. QED BY <2>3, <2>4, <2>7, <2>9, <2>10 DEF WindowInv
<1>4. ASSUME NEW s \in Submissions, Scan(s) PROVE WindowInv'
  <2>1. /\ UNCHANGED <<worker_completions, drained, active, launches, wpc, epc>> /\ epc = "scan"
        /\ s \in scan /\ scan' = scan \ {s}
        /\ UNCHANGED <<ordered, relaxed>> \/ (\E r \in Results : Resolve(s, r))
    BY <1>4 DEF Scan, TimeOut, Results, mailbox, workers
  <2>2. DOMAIN ordered' \cup SubsOf(relaxed') \subseteq DOMAIN ordered \cup SubsOf(relaxed) \cup {s}
    BY <2>1, ResolveOccupies
  <2>3. s \in active BY <2>1 DEF WindowInv
  <2>4. InHand' = InHand BY <2>1 DEF InHand
  <2>5. Occupied' \subseteq Occupied BY <2>1, <2>2, <2>3, <2>4 DEF Occupied
  <2>6. IsFiniteSet(Occupied') /\ Cardinality(Occupied') <= MaxInFlight BY <2>5, WindowShrinks
  <2>7. /\ SubsOf(worker_completions)' = SubsOf(worker_completions) /\ SubsOf(drained)' = SubsOf(drained)
        /\ SubsOnce(worker_completions)' /\ SubsOnce(drained)'
    BY <2>1 DEF SubsOf, SubsOnce, WindowInv
  <2>8. QED BY <2>1, <2>4, <2>6, <2>7 DEF WindowInv
<1>5. QED BY <1>1, <1>2, <1>3, <1>4

\* With the window open there is room for one more.
LEMMA WindowAdmits ==
    ASSUME TypeInv, WindowInv, WindowOpen, InHand = {}
    PROVE  Cardinality(Occupied) < MaxInFlight
<1> DEFINE A == active
           B == DOMAIN ordered \ active
           C == SubsOf(relaxed)
<1>1. IsFiniteSet(Occupied) BY DEF WindowInv
<1>2. A \cup B \cup C = Occupied BY DEF Occupied
<1>3. A \subseteq Occupied /\ B \subseteq Occupied /\ C \subseteq Occupied BY <1>2
<1>4. IsFiniteSet(A) /\ IsFiniteSet(B) /\ IsFiniteSet(C) BY <1>1, <1>3, FS_Subset
<1>5. relaxed \in Seq(Completions) /\ Len(relaxed) \in Nat BY DEF TypeInv
<1>6. Cardinality(C) <= Len(relaxed) BY <1>5, SubsCount
<1>7. Cardinality(A) + Cardinality(B) + Len(relaxed) < MaxInFlight BY DEF WindowOpen
<1> HIDE DEF A, B, C
<1>8. /\ IsFiniteSet(A \cup B) /\ Cardinality(A) \in Nat /\ Cardinality(B) \in Nat
      /\ Cardinality(A \cup B) \in Nat /\ Cardinality(A \cup B) <= Cardinality(A) + Cardinality(B)
  BY <1>4, UnionBound
<1>9. /\ Cardinality(C) \in Nat /\ Cardinality((A \cup B) \cup C) \in Nat
      /\ Cardinality((A \cup B) \cup C) <= Cardinality(A \cup B) + Cardinality(C)
  BY <1>4, <1>8, UnionBound
<1>10. Cardinality(Occupied) = Cardinality((A \cup B) \cup C) BY <1>2
<1>11. QED BY <1>5, <1>6, <1>7, <1>8, <1>9, <1>10

LEMMA WindowLocked ==
    ASSUME TypeInv, StartInv, WindowInv, Deliver \/ DeliverOne \/ Delivered \/ Launch \/ LaunchDone
    PROVE  WindowInv'
<1>1. CASE Deliver \/ Delivered \/ LaunchDone
  <2>1. CASE ExecutorExit /\ Deliver BY <2>1, WindowExit DEF Deliver
  <2>2. CASE ~(ExecutorExit /\ Deliver)
    <3>1. /\ UNCHANGED <<worker_completions, drained, active, launches, scan, ordered, relaxed, wpc>>
          /\ epc \in {"scan", "deliver", "launch"} /\ epc' \in {"deliver", "launch", "drain", "wait", "spawn"}
          /\ epc = "scan" => scan = {}
          /\ epc' \in {"drain", "wait", "deliver"} => launches = {} \/ epc = "scan"
          /\ epc' = "launch" => epc = "deliver"
      BY <1>1, <2>2 DEF Deliver, Delivered, LaunchDone, SleepOrContinue, mailbox, workers
    <3>2. InHand' = {} /\ InHand = {} BY <3>1 DEF InHand
    <3>3. Occupied' \subseteq Occupied BY <3>1, <3>2 DEF Occupied
    <3>4. IsFiniteSet(Occupied') /\ Cardinality(Occupied') <= MaxInFlight BY <3>3, WindowShrinks
    <3>5. /\ SubsOf(worker_completions)' = SubsOf(worker_completions) /\ SubsOf(drained)' = SubsOf(drained)
          /\ SubsOnce(worker_completions)' /\ SubsOnce(drained)'
      BY <3>1 DEF SubsOf, SubsOnce, WindowInv
    <3>6. QED BY <3>1, <3>2, <3>4, <3>5 DEF WindowInv
  <2>3. QED BY <2>1, <2>2
<1>2. CASE DeliverOne
  <2>1. UNCHANGED <<worker_completions, drained, active, launches, scan, wpc, epc>>
    BY <1>2 DEF DeliverOne, workers
  <2>2. SubsOf(relaxed') \subseteq SubsOf(relaxed) /\ DOMAIN ordered' \subseteq DOMAIN ordered
    <3>1. CASE DeliverRelaxed
      <4>1. SubsOf(Tail(relaxed)) \subseteq SubsOf(relaxed) BY <3>1, SubsOfTail DEF DeliverRelaxed, TypeInv
      <4>2. QED BY <3>1, <4>1 DEF DeliverRelaxed
    <3>2. CASE DeliverStrict BY <3>2 DEF DeliverStrict
    <3>3. QED BY <1>2, <3>1, <3>2 DEF DeliverOne
  <2>3. InHand' = InHand BY <2>1 DEF InHand
  <2>4. Occupied' \subseteq Occupied BY <2>1, <2>2, <2>3 DEF Occupied
  <2>5. IsFiniteSet(Occupied') /\ Cardinality(Occupied') <= MaxInFlight BY <2>4, WindowShrinks
  <2>6. /\ SubsOf(worker_completions)' = SubsOf(worker_completions) /\ SubsOf(drained)' = SubsOf(drained)
        /\ SubsOnce(worker_completions)' /\ SubsOnce(drained)'
    BY <2>1 DEF SubsOf, SubsOnce, WindowInv
  <2>7. QED BY <2>1, <2>3, <2>5, <2>6 DEF WindowInv
<1>3. CASE Launch
  <2>1. PICK s \in Submissions : s = Head(input) BY <1>3 DEF TypeInv, Launch
  <2>2. /\ UNCHANGED <<worker_completions, drained, scan, wpc, epc>> /\ epc = "launch" /\ WindowOpen
        /\ \/ active' = active /\ launches' = launches
           \/ active' = active \cup {s} /\ launches' = launches \cup {s}
        /\ UNCHANGED <<ordered, relaxed>> \/ (\E r \in Results : Resolve(s, r))
    BY <1>3, <2>1 DEF Launch, Results, workers
  <2>3. DOMAIN ordered' \cup SubsOf(relaxed') \subseteq DOMAIN ordered \cup SubsOf(relaxed) \cup {s}
    BY <2>2, ResolveOccupies
  <2>4. InHand = {} /\ InHand' = {} BY <2>2 DEF InHand
  <2>5. Occupied' \subseteq Occupied \cup {s} BY <2>2, <2>3, <2>4 DEF Occupied
  <2>6. Cardinality(Occupied) < MaxInFlight /\ IsFiniteSet(Occupied) BY <2>2, <2>4, WindowAdmits DEF WindowInv
  <2>7. /\ IsFiniteSet(Occupied \cup {s}) /\ Cardinality(Occupied) \in Nat
        /\ Cardinality(Occupied \cup {s}) <= Cardinality(Occupied) + 1
    BY <2>6, OneMore
  <2>8. IsFiniteSet(Occupied') /\ Cardinality(Occupied') <= Cardinality(Occupied \cup {s})
    BY <2>5, <2>7, FS_Subset
  <2>9. Cardinality(Occupied \cup {s}) \in Nat /\ Cardinality(Occupied') \in Nat
    BY <2>7, <2>8, FS_CardinalityType
  <2>10. Cardinality(Occupied') <= MaxInFlight BY <2>6, <2>7, <2>8, <2>9
  <2>11. /\ SubsOf(worker_completions)' = SubsOf(worker_completions) /\ SubsOf(drained)' = SubsOf(drained)
         /\ SubsOnce(worker_completions)' /\ SubsOnce(drained)'
    BY <2>2 DEF SubsOf, SubsOnce, WindowInv
  <2>12. QED BY <2>2, <2>4, <2>8, <2>10, <2>11 DEF WindowInv
<1>4. QED BY <1>1, <1>2, <1>3

LEMMA WindowSpawn ==
    ASSUME TypeInv, StartInv, WindowInv,
           Wake \/ Spawned \/ (\E s \in Submissions : Spawn(s) \/ SpawnFails(s))
    PROVE  WindowInv'
<1>1. CASE Wake
  BY <1>1, WindowFrame DEF Wake, mailbox, workers
<1>2. CASE Spawned
  <2>1. /\ UNCHANGED <<worker_completions, drained, active, launches, scan, ordered, relaxed, wpc>>
        /\ epc = "spawn" /\ epc' = "drain" /\ launches = {}
    BY <1>2 DEF Spawned, mailbox, workers
  <2>2. InHand' = {} /\ InHand = {} BY <2>1 DEF InHand
  <2>3. Occupied' \subseteq Occupied BY <2>1, <2>2 DEF Occupied
  <2>4. IsFiniteSet(Occupied') /\ Cardinality(Occupied') <= MaxInFlight BY <2>3, WindowShrinks
  <2>5. /\ SubsOf(worker_completions)' = SubsOf(worker_completions) /\ SubsOf(drained)' = SubsOf(drained)
        /\ SubsOnce(worker_completions)' /\ SubsOnce(drained)'
    BY <2>1 DEF SubsOf, SubsOnce, WindowInv
  <2>6. QED BY <2>1, <2>2, <2>4, <2>5 DEF WindowInv
<1>3. ASSUME NEW s \in Submissions, Spawn(s) \/ SpawnFails(s) PROVE WindowInv'
  <2>1. /\ UNCHANGED <<drained, active, scan, ordered, relaxed, epc>> /\ epc = "spawn"
        /\ s \in launches /\ launches' = launches \ {s}
        /\ wpc' = wpc \/ wpc' = [wpc EXCEPT ![s] = "attempt"]
        /\ UNCHANGED worker_completions \/ (\E r \in Results : Push(s, r))
    BY <1>3 DEF Spawn, SpawnFails, Results, mailbox, workers
  <2>2. s \in active /\ s \in Pending BY <2>1 DEF WindowInv, Pending
  <2>3. s \notin SubsOf(worker_completions) \cup SubsOf(drained) BY <2>2 DEF StartInv
  <2>4. /\ SubsOnce(worker_completions)' /\ SubsOf(worker_completions)' \cap SubsOf(drained) = {}
        /\ SubsOf(worker_completions)' \subseteq active
    <3>1. CASE UNCHANGED worker_completions BY <3>1 DEF WindowInv, SubsOf, SubsOnce
    <3>2. CASE \E r \in Results : Push(s, r) BY <2>2, <2>3, <3>2, WindowPush
    <3>3. QED BY <2>1, <3>1, <3>2
  <2>5. InHand' = InHand /\ SubsOf(relaxed)' = SubsOf(relaxed) BY <2>1 DEF InHand, SubsOf
  <2>6. Occupied' = Occupied BY <2>1, <2>5 DEF Occupied
  <2>7. IsFiniteSet(Occupied') /\ Cardinality(Occupied') <= MaxInFlight BY <2>6, WindowShrinks
  <2>8. SubsOf(drained)' = SubsOf(drained) /\ SubsOnce(drained)' BY <2>1 DEF SubsOf, SubsOnce, WindowInv
  <2>9. \A t \in Submissions : wpc'[t] \in {"attempt", "calling", "finish", "push"} => t \in active'
    BY <2>1, <2>2 DEF TypeInv, WindowInv
  <2>10. QED BY <2>1, <2>4, <2>5, <2>7, <2>8, <2>9 DEF WindowInv
<1>4. QED BY <1>1, <1>2, <1>3

LEMMA WindowStop ==
    ASSUME TypeInv, WindowInv, StopRequest \/ StopStep \/ Recv
    PROVE  WindowInv'
<1>1. CASE StopRequest \/ StopTake \/ StopNotify \/ StopReturn \/ Recv \/ (\E s \in Submissions : StopCancel(s))
  BY <1>1, WindowFrame DEF StopRequest, StopTake, StopNotify, StopReturn, StopCancel, Recv, NotifyAll,
     mailbox, executor, workers
<1>2. CASE StopClear
  <2>1. /\ worker_completions' = <<>>
        /\ UNCHANGED <<drained, active, launches, scan, ordered, relaxed, wpc, epc>>
    BY <1>2 DEF StopClear, executor, workers
  <2>2. SubsOf(worker_completions') = {} /\ SubsOnce(worker_completions') BY <2>1, SubsOfEmpty DEF SubsOnce
  <2>3. InHand' = InHand /\ SubsOf(relaxed)' = SubsOf(relaxed) BY <2>1 DEF InHand, SubsOf
  <2>4. Occupied' = Occupied BY <2>1, <2>3 DEF Occupied
  <2>5. IsFiniteSet(Occupied') /\ Cardinality(Occupied') <= MaxInFlight BY <2>4, WindowShrinks
  <2>6. SubsOf(drained)' = SubsOf(drained) /\ SubsOnce(drained)' BY <2>1 DEF SubsOf, SubsOnce, WindowInv
  <2>7. QED BY <2>1, <2>2, <2>3, <2>5, <2>6 DEF WindowInv
<1>3. QED BY <1>1, <1>2 DEF StopStep

LEMMA WindowStep ==
    ASSUME TypeInv, StartInv, WindowInv, [Next]_vars
    PROVE  WindowInv'
<1>1. CASE UNCHANGED vars
  BY <1>1, WindowFrame DEF vars, mailbox, executor, workers
<1>2. CASE Next
  BY <1>2, WindowCaller, WindowWorker, WindowRound, WindowLocked, WindowSpawn, WindowStop
     DEF Next, ExecutorStep, SpuriousWakeup, TimerFires
<1>3. QED BY <1>1, <1>2

----------------------------------------------------------------------------
(* The executor sleeps only when idle                                      *)

\* A step after which the executor neither launches nor sleeps.
LEMMA SleepAway ==
    ASSUME epc' \notin {"launch", "wait"}
    PROVE  SleepInv'
BY DEF SleepInv, SleepsOnlyWhenIdle

serviceVars == <<epc, progress, closed, input, worker_completions, results, relaxed, ordered, active,
                 next_delivery, ordering, accepted>>

\* A step that leaves what the executor serves alone.
LEMMA SleepFrame ==
    ASSUME SleepInv, UNCHANGED serviceVars
    PROVE  SleepInv'
<1>1. Deliverable' = Deliverable BY DEF serviceVars, Deliverable, Due, Room
<1>2. WindowOpen' = WindowOpen BY DEF serviceVars, WindowOpen
<1>3. QED BY <1>1, <1>2 DEF serviceVars, SleepInv, SleepsOnlyWhenIdle

LEMMA SleepCaller ==
    ASSUME TypeInv, SleepInv, NEW s \in Submissions, CallerStep(s)
    PROVE  SleepInv'
<1>1. CASE Submit(s)
  <2>1. epc' \notin {"launch", "wait"} BY <1>1 DEF Submit, Unlocked, NotifyAll
  <2>2. QED BY <2>1, SleepAway
<1>2. CASE CancelFinish(s)
  <2>1. CASE epc = "wait"
    <3>1. epc' \notin {"launch", "wait"} BY <1>2, <2>1 DEF CancelFinish, NotifyAll
    <3>2. QED BY <3>1, SleepAway
  <2>2. CASE epc # "wait"
    BY <1>2, <2>2, SleepFrame DEF serviceVars, CancelFinish, NotifyAll, mailbox, workers, fixed
  <2>3. QED BY <2>1, <2>2
<1>3. CASE Refuse(s) \/ CancelMark(s) \/ Expire(s)
  BY <1>3, SleepFrame DEF serviceVars, Refuse, CancelMark, Expire, mailbox, executor, workers, fixed
<1>4. QED BY <1>1, <1>2, <1>3 DEF CallerStep

LEMMA SleepWorker ==
    ASSUME TypeInv, SleepInv, NEW s \in Submissions,
           WorkerStep(s) \/ AdapterReturns(s) \/ AdapterHangs(s)
    PROVE  SleepInv'
<1>1. CASE WorkerPush(s)
  <2>1. CASE closed
    BY <1>1, <2>1, SleepFrame DEF serviceVars, WorkerPush, Push, fixed
  <2>2. CASE ~closed
    <3>1. epc' \notin {"launch", "wait"} BY <1>1, <2>2 DEF WorkerPush, Unlocked, NotifyAll
    <3>2. QED BY <3>1, SleepAway
  <2>3. QED BY <2>1, <2>2
<1>2. CASE Attempt(s) \/ WorkerFinish(s) \/ AdapterReturns(s) \/ AdapterHangs(s)
  BY <1>2, SleepFrame DEF serviceVars, Attempt, WorkerFinish, AdapterReturns, AdapterHangs, mailbox, executor, fixed
<1>3. QED BY <1>1, <1>2 DEF WorkerStep

LEMMA SleepExecutor ==
    ASSUME TypeInv, SleepInv, ExecutorStep \/ Wake
    PROVE  SleepInv'
<1>1. CASE Delivered
  <2>1. /\ ~Deliverable /\ epc' = "launch"
        /\ UNCHANGED <<results, relaxed, ordered, next_delivery, ordering, accepted>>
    BY <1>1 DEF Delivered, mailbox, workers, fixed
  <2>2. Deliverable' = Deliverable BY <2>1 DEF Deliverable, Due, Room
  <2>3. QED BY <2>1, <2>2 DEF SleepInv, SleepsOnlyWhenIdle
<1>2. CASE Launch
  <2>1. epc' = "launch" /\ progress' BY <1>2 DEF Launch
  <2>2. QED BY <2>1 DEF SleepInv, SleepsOnlyWhenIdle
<1>3. CASE LaunchDone
  <2>1. /\ epc = "launch" /\ epc' \in {"drain", "wait", "spawn"}
        /\ epc' = "wait" => worker_completions = <<>> /\ (~WindowOpen \/ input = <<>>) /\ ~progress
        /\ UNCHANGED <<closed, input, worker_completions, results, relaxed, ordered, active,
                       next_delivery, ordering, accepted>>
    BY <1>3 DEF LaunchDone, SleepOrContinue, mailbox, workers, fixed
  <2>2. Deliverable' = Deliverable /\ WindowOpen' = WindowOpen
    BY <2>1 DEF Deliverable, Due, Room, WindowOpen
  <2>3. epc' = "wait" => ~Deliverable BY <2>1 DEF SleepInv
  <2>4. QED BY <2>1, <2>2, <2>3 DEF SleepInv, SleepsOnlyWhenIdle
<1>4. CASE Drain \/ Process \/ Unregister \/ Deliver \/ DeliverOne \/ Spawned \/ Wake
           \/ (\E s \in Submissions : Scan(s) \/ Spawn(s) \/ SpawnFails(s))
  <2>1. epc' \notin {"launch", "wait"}
    BY <1>4 DEF Drain, ExecutorExit, Process, Unregister, Deliver, DeliverOne, Spawned, Wake, Scan, Spawn, SpawnFails
  <2>2. QED BY <2>1, SleepAway
<1>5. QED BY <1>1, <1>2, <1>3, <1>4 DEF ExecutorStep, TimerFires

LEMMA SleepStop ==
    ASSUME TypeInv, SleepInv, StopRequest \/ StopStep \/ Recv
    PROVE  SleepInv'
<1>1. CASE Recv
  <2>1. epc' \notin {"launch", "wait"} BY <1>1 DEF Recv, Unlocked, NotifyAll
  <2>2. QED BY <2>1, SleepAway
<1>2. CASE StopClear
  <2>1. epc' # "launch" /\ closed' BY <1>2 DEF StopClear, Unlocked, executor
  <2>2. QED BY <2>1 DEF SleepInv, SleepsOnlyWhenIdle
<1>3. CASE StopNotify
  <2>1. CASE epc = "wait"
    <3>1. epc' \notin {"launch", "wait"} BY <1>3, <2>1 DEF StopNotify, NotifyAll
    <3>2. QED BY <3>1, SleepAway
  <2>2. CASE epc # "wait"
    BY <1>3, <2>2, SleepFrame DEF serviceVars, StopNotify, NotifyAll, mailbox, workers, fixed
  <2>3. QED BY <2>1, <2>2
<1>4. CASE StopRequest \/ StopTake \/ StopReturn \/ (\E s \in Submissions : StopCancel(s))
  BY <1>4, SleepFrame DEF serviceVars, StopRequest, StopTake, StopReturn, StopCancel, mailbox, executor, workers, fixed
<1>5. QED BY <1>1, <1>2, <1>3, <1>4 DEF StopStep

LEMMA SleepStep ==
    ASSUME TypeInv, SleepInv, [Next]_vars
    PROVE  SleepInv'
<1>1. CASE UNCHANGED vars
  BY <1>1, SleepFrame DEF serviceVars, vars, mailbox, executor, workers, fixed
<1>2. CASE Next
  BY <1>2, SleepCaller, SleepWorker, SleepExecutor, SleepStop DEF Next, SpuriousWakeup
<1>3. QED BY <1>1, <1>2

LEMMA InitWindow == Init => WindowInv /\ SleepInv
<1> SUFFICES ASSUME Init PROVE WindowInv /\ SleepInv OBVIOUS
<1>1. SubsOf(worker_completions) = {} /\ SubsOf(drained) = {} /\ SubsOf(relaxed) = {}
  BY SubsOfEmpty DEF Init
<1>2. Occupied = {} BY <1>1 DEF Init, Occupied, InHand
<1>3. IsFiniteSet(Occupied) /\ Cardinality(Occupied) = 0 BY <1>2, FS_EmptySet
<1>4. SubsOnce(worker_completions) /\ SubsOnce(drained) BY DEF Init, SubsOnce
<1>5. WindowInv BY <1>1, <1>3, <1>4 DEF Init, WindowInv, InHand
<1>6. QED BY <1>5 DEF Init, SleepInv, SleepsOnlyWhenIdle

LEMMA TypesAreOK == TypeInv => TypeOK
<1> SUFFICES ASSUME TypeInv PROVE TypeOK OBVIOUS
<1>1. worker_completions \o drained \o results \o relaxed \in Seq(Completions)
  BY DEF TypeInv
<1>2. \A c \in ToSet(worker_completions \o drained \o results \o relaxed) : c \in Completions
  BY <1>1 DEF ToSet
<1>3. \A c \in Completions : IsCompletion(c)
  BY DEF Completions, Results, IsCompletion, Outcomes
<1>4. QED BY <1>2, <1>3 DEF TypeInv, TypeOK

LEMMA WindowBounds ==
    ASSUME TypeInv, SoundInv, StrictInv, RelaxedInv, WindowInv
    PROVE  WindowBoundsMemory
<1>1. IsFiniteSet(Occupied) /\ Cardinality(Occupied) <= MaxInFlight BY DEF WindowInv
<1>2. \A T \in SUBSET Occupied : Cardinality(T) <= MaxInFlight
  <2>1. SUFFICES ASSUME NEW T \in SUBSET Occupied PROVE Cardinality(T) <= MaxInFlight OBVIOUS
  <2>2. IsFiniteSet(T) /\ Cardinality(T) <= Cardinality(Occupied) BY <1>1, FS_Subset
  <2>3. Cardinality(T) \in Nat /\ Cardinality(Occupied) \in Nat BY <1>1, <2>2, FS_CardinalityType
  <2>4. QED BY <1>1, <2>2, <2>3
<1>3. /\ active \cup DOMAIN ordered \subseteq Occupied /\ SubsOf(relaxed) \subseteq Occupied
      /\ SubsOf(worker_completions) \subseteq Occupied
  BY DEF Occupied, WindowInv
<1>4. SubsOnce(relaxed)
  <2>1. CASE ordering = "Strict" BY <2>1 DEF StrictInv, SubsOnce
  <2>2. CASE ordering = "Relaxed"
    <3>1. \A i \in DOMAIN relaxed : relaxed[i].result # None BY DEF SoundInv, ElementsOf
    <3>2. AnsweredOnce(relaxed) BY <2>2 DEF RelaxedInv, OneAnswer
    <3>3. QED BY <3>1, <3>2 DEF SubsOnce, AnsweredOnce
  <2>3. QED BY <2>1, <2>2 DEF TypeInv
<1>5. relaxed \in Seq(Completions) /\ worker_completions \in Seq(Completions) /\ SubsOnce(worker_completions)
  BY DEF TypeInv, WindowInv
<1>6. /\ Cardinality(SubsOf(relaxed)) = Len(relaxed)
      /\ Cardinality(SubsOf(worker_completions)) = Len(worker_completions)
  BY <1>4, <1>5, SubsCount
<1>7. QED BY <1>2, <1>3, <1>6 DEF WindowBoundsMemory

\* Whatever the callers submit and the workers answer, what the executor has
\* taken in fits its window and the mailboxes their capacities, and it never
\* sleeps through a completion, a request it has room for, or a result it
\* could hand over.
THEOREM WindowServed == Spec => []WindowIsBoundedAndServed
<1> DEFINE Inv == /\ TypeInv /\ StartInv /\ SoundInv /\ StrictInv /\ RelaxedInv
                  /\ WindowInv /\ SleepInv
<1>1. Init => Inv BY InitType, InitDelivery, InitWindow
<1>2. Inv /\ [Next]_vars => Inv'
  BY TypeStep, StartStep, SoundStep, StrictStep, RelaxedStep, WindowStep, SleepStep
<1>3. Inv => WindowIsBoundedAndServed
  BY TypesAreOK, WindowBounds DEF WindowIsBoundedAndServed, SleepInv
<1>4. QED BY <1>1, <1>2, <1>3, PTL DEF Spec
=============================================================================
