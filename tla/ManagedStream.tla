--------------------------- MODULE ManagedStream ---------------------------
(***************************************************************************)
(* ManagedAsyncStream (crates/muxiva-core/src/managed_stream.rs): callers  *)
(* submit requests that carry an AdmissionLease, the session executor      *)
(* starts one worker thread per request in a bounded window, workers call  *)
(* the service adapter, and the executor routes their completions to the   *)
(* result mailbox.  Callers, workers, the executor, cancel and stop run    *)
(* concurrently.                                                           *)
(*                                                                         *)
(* A submission stands for its Envelope, its TerminalState and its worker. *)
(* Its sequence number is its position in accepted.  What the adapter      *)
(* answers (frames, a failure, retries exhausted) is one value, Response.  *)
(* TerminalState::finish is one step: nobody reads the lease between the   *)
(* swap of terminal and the release.  Requests of another session are      *)
(* refused before anything happens and are left out, as are the counters.  *)
(***************************************************************************)
EXTENDS Integers, Sequences, FiniteSets, SequencesExt

CONSTANTS
    Submissions, Ids, IdOf,   \* calls of try_submit and their RequestIds
    Orderings,                \* the DeliveryOrderings to consider
    InputCapacity, ResultCapacity, MaxInFlight,
    AttemptLimit,
    Cancellable,    \* submissions a caller may cancel
    Expiring,       \* submissions whose deadline may pass
    Stuck,          \* submissions whose adapter call may hang
    MayStop,        \* whether stop is called
    Spurious,       \* whether Condvar::wait may return without a reason
    Response, Timeout, None

ASSUME StreamAssumption ==
    /\ IdOf \in [Submissions -> Ids] /\ Orderings \subseteq {"Strict", "Relaxed"} /\ MayStop \in BOOLEAN
    /\ Spurious \in BOOLEAN
    /\ InputCapacity \in Nat \ {0} /\ ResultCapacity \in Nat \ {0}
    /\ MaxInFlight \in Nat \ {0} /\ AttemptLimit \in Nat \ {0}
    /\ Cancellable \cup Expiring \cup Stuck \subseteq Submissions
    /\ None \notin Submissions \cup {Response, Timeout} /\ Response # Timeout

VARIABLES
    \* MailboxState
    input, worker_completions, results, closed,
    registrations,   \* RequestId -> the submission registered last, or None
    ordering,        \* options.ordering
    lifecycle,       \* 0 running, 1 stopping, 2 stopped
    \* TerminalState
    cancelled, terminal, lease,
    marked,          \* submissions between the two steps of a cancel
    expired,         \* submissions whose deadline has passed
    \* the executor
    epc, drained, active, scan, ordered, relaxed, next_delivery, launches,
    progress, timer,
    \* the request workers
    wpc, attempt, answer,
    hung,            \* submissions whose adapter call will never return
    \* stop
    spc, to_cancel,
    \* histories
    accepted, winner, delivered

mailbox    == <<input, worker_completions, results, closed>>
terminals  == <<cancelled, terminal, lease, winner>>
executor   == <<epc, drained, active, scan, ordered, relaxed, next_delivery,
                launches, progress, timer>>
fixed      == <<ordering, hung>>   \* what most actions leave alone
workers    == <<wpc, attempt, answer, fixed>>
stopping   == <<lifecycle, spc, to_cancel>>
vars == <<mailbox, registrations, terminals, marked, expired, executor, workers,
          stopping, accepted, delivered>>

Init ==
    /\ input = <<>> /\ worker_completions = <<>> /\ results = <<>> /\ closed = FALSE
    /\ registrations = [i \in Ids |-> None] /\ lifecycle = 0
    /\ cancelled = [s \in Submissions |-> FALSE]
    /\ terminal = [s \in Submissions |-> FALSE]
    /\ lease = [s \in Submissions |-> "caller"]
    /\ marked = {} /\ expired = {}
    /\ epc = "drain" /\ drained = <<>> /\ active = {} /\ scan = {}
    /\ ordered = <<>> /\ relaxed = <<>> /\ next_delivery = 1
    /\ launches = {} /\ progress = FALSE /\ timer = {}
    /\ wpc = [s \in Submissions |-> "none"]
    /\ attempt = [s \in Submissions |-> 1]
    /\ answer = [s \in Submissions |-> None]
    /\ hung = {} /\ ordering \in Orderings
    /\ spc = "idle" /\ to_cancel = {}
    /\ accepted = <<>> /\ winner = [s \in Submissions |-> None] /\ delivered = <<>>

SequenceOf(s) == CHOOSE i \in DOMAIN accepted : accepted[i] = s
\* Some thread still owns the TerminalState, so its Weak can be upgraded.
Alive(s) == s \in ToSet(input) \cup active \cup launches \cup marked
            \/ wpc[s] \notin {"none", "done"}
\* A request with the same RequestId is registered.
Duplicate(s) == registrations[IdOf[s]] \in {t \in Submissions : Alive(t)}
\* The executor keeps the mailbox locked while it delivers and launches.
Unlocked == epc \notin {"deliver", "launch"}
\* changed.notify_all() releases the executor if it sleeps.
NotifyAll == /\ epc' = IF epc = "wait" THEN "drain" ELSE epc
             /\ timer' = IF epc = "wait" THEN {} ELSE timer

\* TerminalState::finish: the first caller wins and releases the lease.
Finish(s, who) ==
    /\ terminal' = [terminal EXCEPT ![s] = TRUE]
    /\ winner' = [winner EXCEPT ![s] = IF terminal[s] THEN @ ELSE who]
    /\ lease' = [lease EXCEPT ![s] = IF terminal[s] THEN @ ELSE "released"]

----------------------------------------------------------------------------
(* Callers                                                                 *)

\* try_submit; the early lifecycle test may have been passed before a stop.
Submit(s) ==
    /\ Unlocked /\ lease[s] = "caller"
    /\ ~closed /\ Len(input) < InputCapacity
    /\ ~Duplicate(s)
    /\ registrations' = [registrations EXCEPT ![IdOf[s]] = s]
    /\ input' = Append(input, s)
    /\ accepted' = Append(accepted, s)
    /\ lease' = [lease EXCEPT ![s] = "held"]
    /\ NotifyAll
    /\ UNCHANGED <<worker_completions, results, closed, cancelled, terminal, winner,
                   marked, expired, drained, active, scan, ordered, relaxed,
                   next_delivery, launches, progress, workers, stopping,
                   delivered>>

\* Stopping, MailboxFull or Cancelled: the request is dropped with its lease.
Refuse(s) ==
    /\ Unlocked /\ lease[s] = "caller"
    /\ \/ lifecycle # 0 \/ closed \/ Len(input) = InputCapacity
       \/ Duplicate(s)
    /\ lease' = [lease EXCEPT ![s] = "released"]
    /\ UNCHANGED <<mailbox, registrations, cancelled, terminal, winner, marked,
                   expired, executor, workers, stopping, accepted, delivered>>

\* cancel, first step: the registration is upgraded and cancelled stored.
CancelMark(s) ==
    /\ s \in Cancellable /\ registrations[IdOf[s]] = s /\ Alive(s) /\ ~cancelled[s]
    /\ cancelled' = [cancelled EXCEPT ![s] = TRUE]
    /\ marked' = marked \cup {s}
    /\ UNCHANGED <<mailbox, registrations, terminal, lease, winner, expired,
                   executor, workers, stopping, accepted, delivered>>

\* Second step: finish, then notify_all, without the mailbox lock.
CancelFinish(s) ==
    /\ s \in marked
    /\ marked' = marked \ {s}
    /\ Finish(s, "cancel")
    /\ NotifyAll
    /\ UNCHANGED <<mailbox, registrations, cancelled, expired, drained, active,
                   scan, ordered, relaxed, next_delivery, launches, progress, workers, stopping, accepted, delivered>>

\* try_recv, and recv_timeout once its wait is over.
Recv ==
    /\ Unlocked /\ results # <<>>
    /\ results' = Tail(results)
    /\ delivered' = Append(delivered, Head(results))
    /\ NotifyAll
    /\ UNCHANGED <<input, worker_completions, closed, registrations, terminals,
                   marked, expired, drained, active, scan, ordered, relaxed,
                   next_delivery, launches, progress, workers, stopping,
                   accepted>>

\* Time passes.
Expire(s) ==
    /\ s \in Expiring \ expired /\ lease[s] # "caller"
    /\ expired' = expired \cup {s}
    /\ UNCHANGED <<mailbox, registrations, terminals, marked, executor, workers,
                   stopping, accepted, delivered>>

----------------------------------------------------------------------------
(* stop: request_stop, also called when the last handle is dropped         *)

StopRequest ==
    /\ MayStop /\ spc = "idle" /\ lifecycle = 0
    /\ lifecycle' = 1 /\ spc' = "clear"
    /\ UNCHANGED <<mailbox, registrations, terminals, marked, expired, executor,
                   workers, to_cancel, accepted, delivered>>

\* The mailboxes are cleared; queued requests are dropped with their leases.
StopClear ==
    /\ spc = "clear" /\ Unlocked
    /\ spc' = "take"
    /\ closed' = TRUE
    /\ input' = <<>> /\ worker_completions' = <<>> /\ results' = <<>>
    /\ lease' = [s \in Submissions |->
                    IF s \in ToSet(input) \ marked THEN "released" ELSE lease[s]]
    /\ UNCHANGED <<registrations, cancelled, terminal, winner, marked, expired,
                   executor, workers, lifecycle, to_cancel, accepted, delivered>>

\* Mutant: only requests that no worker runs yet are cancelled.
StopTakeQueued ==
    /\ spc = "take"
    /\ spc' = "cancel"
    /\ to_cancel' = {s \in Submissions : registrations[IdOf[s]] = s /\ s \in launches}
    /\ registrations' = [i \in Ids |-> None]
    /\ UNCHANGED <<mailbox, terminals, marked, expired, executor, workers,
                   lifecycle, accepted, delivered>>

StopTake ==
    /\ spc = "take"
    /\ spc' = "cancel"
    /\ to_cancel' = {s \in Submissions : registrations[IdOf[s]] = s /\ Alive(s)}
    /\ registrations' = [i \in Ids |-> None]
    /\ UNCHANGED <<mailbox, terminals, marked, expired, executor, workers,
                   lifecycle, accepted, delivered>>

StopCancel(s) ==
    /\ spc = "cancel" /\ s \in to_cancel
    /\ to_cancel' = to_cancel \ {s}
    /\ cancelled' = [cancelled EXCEPT ![s] = TRUE]
    /\ Finish(s, "cancel")
    /\ UNCHANGED <<mailbox, registrations, marked, expired, executor, workers,
                   lifecycle, spc, accepted, delivered>>

StopNotify ==
    /\ spc = "cancel" /\ to_cancel = {}
    /\ spc' = "await"
    /\ NotifyAll
    /\ UNCHANGED <<mailbox, registrations, terminals, marked, expired, drained,
                   active, scan, ordered, relaxed, next_delivery, launches,
                   progress, workers, lifecycle, to_cancel, accepted,
                   delivered>>

\* executor_done was set: stop joins the executor and reports.
StopReturn ==
    /\ spc = "await" /\ lifecycle = 2
    /\ spc' = "returned"
    /\ UNCHANGED <<mailbox, registrations, terminals, marked, expired, executor,
                   workers, lifecycle, to_cancel, accepted, delivered>>

----------------------------------------------------------------------------
(* run_executor                                                            *)

Completion(s, r) == [sub |-> s, result |-> r]

\* A request is resolved: strictly ordered streams keep its result, or a
\* tombstone, until its turn; relaxed streams queue a result.
Resolve(s, r) ==
    /\ ordered' = IF ordering = "Strict" /\ SequenceOf(s) >= next_delivery /\ s \notin DOMAIN ordered
                  THEN [t \in DOMAIN ordered \cup {s} |-> IF t = s THEN r ELSE ordered[t]]
                  ELSE ordered
    /\ relaxed' = IF ordering = "Relaxed" /\ r # None THEN Append(relaxed, Completion(s, r))
                  ELSE relaxed

ExecutorExit ==
    /\ closed
    /\ epc' = "done" /\ lifecycle' = 2
    /\ UNCHANGED <<mailbox, registrations, terminals, marked, expired, drained,
                   active, scan, ordered, relaxed, next_delivery, launches,
                   progress, timer, workers, spc, to_cancel, accepted, delivered>>

\* The first lock: what the workers completed is taken out.
Drain ==
    /\ epc = "drain"
    /\ \/ ExecutorExit
       \/ /\ ~closed
          /\ drained' = worker_completions /\ worker_completions' = <<>>
          /\ progress' = (worker_completions # <<>>)
          /\ epc' = "process"
          /\ UNCHANGED <<input, results, closed, registrations, terminals, marked,
                         expired, active, scan, ordered, relaxed, next_delivery,
                         launches, timer, workers, stopping, accepted, delivered>>

\* active.remove drops the executor's hold on the request...
Process ==
    /\ epc = "process"
    /\ \/ /\ drained # <<>>
          /\ active' = active \ {Head(drained).sub}
          /\ epc' = "unregister" /\ UNCHANGED scan
       \/ /\ drained = <<>>
          /\ scan' = active
          /\ epc' = "scan" /\ UNCHANGED active
    /\ UNCHANGED <<mailbox, registrations, terminals, marked, expired, drained,
                   ordered, relaxed, next_delivery, launches, progress, timer,
                   workers, stopping, accepted, delivered>>

\* ... and remove_registration follows, by RequestId.
Unregister ==
    /\ epc = "unregister"
    /\ LET c == Head(drained)
       IN /\ registrations' = [registrations EXCEPT ![IdOf[c.sub]] = None]
          /\ Resolve(c.sub, c.result)
    /\ drained' = Tail(drained)
    /\ epc' = "process"
    /\ UNCHANGED <<mailbox, terminals, marked, expired, active, scan, next_delivery,
                   launches, progress, timer, workers, stopping, accepted, delivered>>

\* Mutant: a deadline is reported without winning the terminal transition.
ScanExpired(s) ==
    /\ Finish(s, "timeout")
    /\ Resolve(s, Timeout)

TimeOut(s) ==
    \/ ~terminal[s] /\ Finish(s, "timeout") /\ Resolve(s, Timeout)
    \/ terminal[s] /\ UNCHANGED <<terminal, winner, lease, ordered, relaxed>>

\* Active requests that were cancelled or whose deadline has passed.
Scan(s) ==
    /\ epc = "scan" /\ s \in scan
    /\ scan' = scan \ {s}
    /\ \/ cancelled[s] /\ Resolve(s, None) /\ UNCHANGED <<terminal, winner, lease>>
       \/ ~cancelled[s] /\ s \in expired /\ TimeOut(s)
       \/ /\ ~cancelled[s] /\ s \notin expired
          /\ UNCHANGED <<terminal, winner, lease, ordered, relaxed>>
    /\ UNCHANGED <<mailbox, registrations, cancelled, marked, expired, epc, drained,
                   active, next_delivery, launches, progress, timer, workers,
                   stopping, accepted, delivered>>

\* The second lock, kept until the executor sleeps or goes on to spawn.
Deliver ==
    /\ epc = "scan" /\ scan = {}
    /\ \/ ExecutorExit
       \/ /\ ~closed
          /\ epc' = "deliver"
          /\ UNCHANGED <<mailbox, registrations, terminals, marked, expired, drained,
                         active, scan, ordered, relaxed, next_delivery, launches,
                         progress, timer, workers, stopping, accepted, delivered>>

Room == Len(results) < ResultCapacity
\* The next request in the order of acceptance is resolved, and a result of it
\* has room; a tombstone needs none.
Due == /\ ordering = "Strict" /\ next_delivery <= Len(accepted)
       /\ accepted[next_delivery] \in DOMAIN ordered
       /\ ordered[accepted[next_delivery]] # None => Room
Deliverable == (relaxed # <<>> /\ Room) \/ Due

DeliverRelaxed ==
    /\ relaxed # <<>> /\ Room
    /\ results' = Append(results, Head(relaxed)) /\ relaxed' = Tail(relaxed)
    /\ UNCHANGED <<ordered, next_delivery>>

DeliverStrict ==
    /\ ~(relaxed # <<>> /\ Room) /\ Due
    /\ LET s == accepted[next_delivery]
       IN /\ results' = IF ordered[s] = None THEN results
                        ELSE Append(results, Completion(s, ordered[s]))
          /\ ordered' = [t \in DOMAIN ordered \ {s} |-> ordered[t]]
    /\ next_delivery' = next_delivery + 1 /\ UNCHANGED relaxed

\* One buffered result, or tombstone, is handed over.
DeliverOne ==
    /\ epc = "deliver" /\ (DeliverRelaxed \/ DeliverStrict)
    /\ progress' = TRUE
    /\ UNCHANGED <<input, worker_completions, closed, registrations, terminals, marked,
                   expired, epc, drained, active, scan, launches, timer, workers,
                   stopping, accepted, delivered>>

Delivered ==
    /\ epc = "deliver" /\ ~Deliverable
    /\ epc' = "launch"
    /\ UNCHANGED <<mailbox, registrations, terminals, marked, expired, drained, active,
                   scan, ordered, relaxed, next_delivery, launches, progress, timer,
                   workers, stopping, accepted, delivered>>

WindowOpen ==
    Cardinality(active) + Cardinality(DOMAIN ordered \ active) + Len(relaxed) < MaxInFlight

\* One queued request: cancelled, expired, or started.
Launch ==
    /\ epc = "launch" /\ WindowOpen /\ input # <<>>
    /\ input' = Tail(input) /\ progress' = TRUE
    /\ LET s == Head(input)
       IN \/ /\ cancelled[s] \/ s \in expired
             /\ IF cancelled[s]
                THEN Resolve(s, None) /\ UNCHANGED <<terminal, winner, lease>>
                ELSE /\ Finish(s, "timeout")
                     /\ Resolve(s, IF terminal[s] THEN None ELSE Timeout)
             /\ registrations' = [registrations EXCEPT ![IdOf[s]] = None]
             /\ UNCHANGED <<active, launches>>
          \/ /\ ~cancelled[s] /\ s \notin expired
             /\ active' = active \cup {s} /\ launches' = launches \cup {s}
             /\ UNCHANGED <<registrations, terminal, winner, lease, ordered, relaxed>>
    /\ UNCHANGED <<worker_completions, results, closed, cancelled, marked, expired,
                   epc, drained, scan, next_delivery, timer, workers, stopping,
                   accepted, delivered>>

\* Mutant: the executor does not look at the completions again.
SleepUnchecked ==
    /\ epc' = "wait"
    /\ timer' = {s \in active : ~terminal[s]}

\* A worker may have completed since the drain.
SleepOrContinue ==
    \/ worker_completions # <<>> /\ epc' = "drain" /\ UNCHANGED timer
    \/ /\ worker_completions = <<>>
       /\ epc' = "wait"
       /\ timer' = {s \in active : ~terminal[s]}

LaunchDone ==
    /\ epc = "launch" /\ (~WindowOpen \/ input = <<>>)
    /\ \/ launches = {} /\ ~progress /\ SleepOrContinue
       \/ (launches # {} \/ progress) /\ epc' = "spawn" /\ UNCHANGED timer
    /\ UNCHANGED <<mailbox, registrations, terminals, marked, expired, drained,
                   active, scan, ordered, relaxed, next_delivery, launches,
                   progress, workers, stopping, accepted, delivered>>

\* Condvar::wait returns: at the earliest deadline, or spuriously.
Wake ==
    /\ epc = "wait"
    /\ epc' = "drain" /\ timer' = {}
    /\ UNCHANGED <<mailbox, registrations, terminals, marked, expired, drained,
                   active, scan, ordered, relaxed, next_delivery, launches,
                   progress, workers, stopping, accepted, delivered>>
TimerFires == timer \cap expired # {} /\ Wake
SpuriousWakeup == Spurious /\ Wake

\* Mutant: the test of closed is the wrong way round.
PushWhenClosed(s, r) ==
    worker_completions' = IF closed THEN Append(worker_completions, Completion(s, r))
                          ELSE worker_completions

\* push_worker_completion, with the mailbox locked.
Push(s, r) ==
    worker_completions' = IF closed THEN worker_completions
                          ELSE Append(worker_completions, Completion(s, r))

Spawn(s) ==
    /\ epc = "spawn" /\ s \in launches
    /\ launches' = launches \ {s}
    /\ wpc' = [wpc EXCEPT ![s] = "attempt"]
    /\ UNCHANGED <<mailbox, registrations, terminals, marked, expired, epc, drained,
                   active, scan, ordered, relaxed, next_delivery, progress, timer,
                   attempt, answer, fixed, stopping, accepted, delivered>>

\* thread::Builder::spawn fails: the request fails without a worker.
SpawnFails(s) ==
    /\ epc = "spawn" /\ s \in launches
    /\ launches' = launches \ {s}
    /\ Finish(s, "worker")
    /\ Push(s, IF terminal[s] THEN None ELSE Response)
    /\ UNCHANGED <<input, results, closed, registrations, cancelled, marked, expired,
                   epc, drained, active, scan, ordered, relaxed, next_delivery,
                   progress, timer, workers, stopping, accepted, delivered>>

Spawned ==
    /\ epc = "spawn" /\ launches = {}
    /\ epc' = "drain"
    /\ UNCHANGED <<mailbox, registrations, terminals, marked, expired, drained,
                   active, scan, ordered, relaxed, next_delivery, launches,
                   progress, timer, workers, stopping, accepted, delivered>>

----------------------------------------------------------------------------
(* run_request                                                             *)

WorkerGoto(s, label, a) ==
    /\ wpc' = [wpc EXCEPT ![s] = label]
    /\ answer' = [answer EXCEPT ![s] = a]

\* The tests before and after every adapter call.
GiveUp(s) ==
    \/ cancelled[s] /\ WorkerGoto(s, "finish", None)
    \/ ~cancelled[s] /\ s \in expired /\ WorkerGoto(s, "finish", Timeout)

Attempt(s) ==
    /\ wpc[s] = "attempt"
    /\ \/ GiveUp(s)
       \/ ~cancelled[s] /\ s \notin expired /\ WorkerGoto(s, "calling", None)
    /\ UNCHANGED <<mailbox, registrations, terminals, marked, expired, executor,
                   attempt, fixed, stopping, accepted, delivered>>

AdapterReturns(s) ==
    /\ wpc[s] = "calling" /\ s \notin hung
    /\ \/ GiveUp(s) /\ UNCHANGED attempt
       \/ /\ ~cancelled[s] /\ s \notin expired
          /\ \/ WorkerGoto(s, "finish", Response) /\ UNCHANGED attempt
             \/ /\ attempt[s] < AttemptLimit
                /\ attempt' = [attempt EXCEPT ![s] = @ + 1]
                /\ WorkerGoto(s, "attempt", None)
    /\ UNCHANGED <<mailbox, registrations, terminals, marked, expired, executor,
                   fixed, stopping, accepted, delivered>>

\* The adapter blocks for ever.
AdapterHangs(s) ==
    /\ wpc[s] = "calling" /\ s \in Stuck \ hung
    /\ hung' = hung \cup {s}
    /\ UNCHANGED <<mailbox, registrations, terminals, marked, expired, executor,
                   wpc, attempt, answer, ordering, stopping, accepted, delivered>>

\* A late answer is discarded.
WorkerFinish(s) ==
    /\ wpc[s] = "finish"
    /\ Finish(s, "worker")
    /\ WorkerGoto(s, "push", IF terminal[s] THEN None ELSE answer[s])
    /\ UNCHANGED <<mailbox, registrations, cancelled, marked, expired, executor,
                   attempt, fixed, stopping, accepted, delivered>>

\* push_worker_completion
WorkerPush(s) ==
    /\ wpc[s] = "push" /\ Unlocked
    /\ Push(s, answer[s])
    /\ wpc' = [wpc EXCEPT ![s] = "done"]
    /\ IF closed THEN UNCHANGED <<epc, timer>> ELSE NotifyAll
    /\ UNCHANGED <<input, results, closed, registrations, terminals, marked, expired,
                   drained, active, scan, ordered, relaxed, next_delivery, launches,
                   progress, attempt, answer, fixed, stopping, accepted, delivered>>

----------------------------------------------------------------------------

ExecutorStep == \/ Drain \/ Process \/ Unregister \/ Deliver \/ DeliverOne \/ Delivered
                \/ Launch \/ LaunchDone \/ TimerFires \/ Spawned
                \/ \E s \in Submissions : Scan(s) \/ Spawn(s) \/ SpawnFails(s)
WorkerStep(s) == Attempt(s) \/ WorkerFinish(s) \/ WorkerPush(s)
StopStep == \/ StopClear \/ StopTake \/ StopNotify \/ StopReturn
            \/ \E s \in Submissions : StopCancel(s)
CallerStep(s) == \/ Submit(s) \/ Refuse(s) \/ CancelMark(s) \/ CancelFinish(s)
                 \/ Expire(s)

Next == \/ ExecutorStep \/ SpuriousWakeup \/ Recv \/ StopRequest \/ StopStep
        \/ \E s \in Submissions : CallerStep(s) \/ WorkerStep(s)
                                 \/ AdapterReturns(s) \/ AdapterHangs(s)

\* Threads are scheduled, time passes, the caller collects its results; an
\* adapter call returns unless it hangs.  Nobody has to submit or cancel.
Fairness ==
    /\ WF_vars(ExecutorStep) /\ WF_vars(StopStep) /\ WF_vars(Recv)
    /\ \A s \in Submissions : /\ WF_vars(WorkerStep(s)) /\ WF_vars(CancelFinish(s))
                              /\ WF_vars(Expire(s))
    /\ \A s \in Submissions : WF_vars(AdapterReturns(s))

Spec == Init /\ [][Next]_vars
FairSpec == Spec /\ Fairness

----------------------------------------------------------------------------
(* Properties                                                              *)

Outcomes == {Response, Timeout}
IsCompletion(c) == c.sub \in Submissions /\ c.result \in Outcomes \cup {None}

\* The mailboxes respect their capacities.
TypeOK ==
    /\ Len(input) <= InputCapacity /\ Len(results) <= ResultCapacity
    /\ \A c \in ToSet(worker_completions \o drained \o results \o relaxed) : IsCompletion(c)
    /\ registrations \in [Ids -> Submissions \cup {None}] /\ lifecycle \in 0..2
    /\ cancelled \in [Submissions -> BOOLEAN] /\ terminal \in [Submissions -> BOOLEAN]
    /\ lease \in [Submissions -> {"caller", "held", "released"}]
    /\ epc \in {"drain", "process", "unregister", "scan", "deliver", "launch", "wait",
               "spawn", "done"}
    /\ active \cup scan \cup launches \cup timer \cup marked \cup expired \subseteq Submissions
    /\ DOMAIN ordered \subseteq Submissions
    /\ wpc \in [Submissions -> {"none", "attempt", "calling", "finish", "push", "done"}]
    /\ attempt \in [Submissions -> 1..AttemptLimit]

\* "Bounded input, completion, strict-order, and result mailboxes": what the
\* executor has taken in and not yet handed over fits the in-flight window.
WindowBoundsMemory ==
    /\ Cardinality(active \cup DOMAIN ordered) <= MaxInFlight
    /\ Len(relaxed) <= MaxInFlight
    /\ Len(worker_completions) <= MaxInFlight

Received == delivered \o results

\* What the caller receives: every request at most once, and for a strict
\* stream in the order of acceptance.
DeliveredOnceInOrder ==
    \A i, j \in DOMAIN Received : i < j =>
        /\ Received[i].sub # Received[j].sub
        /\ ordering = "Strict" => SequenceOf(Received[i].sub) < SequenceOf(Received[j].sub)

\* "Cancellation and deadline expiry share one terminal winner": what is
\* received is what the winner of the terminal transition produced, never a
\* later answer, and nothing for a request that cancel won.
WinnerDecides ==
    \A c \in ToSet(Received) : /\ c.result = Response => winner[c.sub] = "worker"
                               /\ c.result = Timeout =>
                                     \/ winner[c.sub] = "timeout"
                                     \/ winner[c.sub] = "worker" /\ answer[c.sub] = Timeout

\* However answers, retries, deadlines and cancels race, the caller receives
\* one result for a request, the winner's, in its place.
DeliveredByTheWinner == DeliveredOnceInOrder /\ WinnerDecides

\* The executor never sleeps through something it was notified of: a
\* completion, a request it has room for, or a result it can hand over
\* ("Worker completions cannot be stranded in the executor's drain-to-sleep
\* transition").
SleepsOnlyWhenIdle ==
    (epc = "wait" /\ ~closed) =>
        /\ worker_completions = <<>>
        /\ WindowOpen => input = <<>>
        /\ ~Deliverable

\* The executor keeps no more than its window and mailboxes hold, and what
\* it keeps it serves: it sleeps with nothing it could do.
WindowIsBoundedAndServed == TypeOK /\ WindowBoundsMemory /\ SleepsOnlyWhenIdle

\* An admission lease that is still held has an owner who will release it.
HeldLeaseHasOwner == \A s \in Submissions : lease[s] = "held" => Alive(s)

\* stop "releases all admission leases" by the time it returns, also those of
\* requests whose adapter call is stuck; only a cancel that is in progress may
\* still be about to release its own.
StopReleasesLeases ==
    spc = "returned" => \A s \in Submissions \ marked : lease[s] # "held"

\* No admission lease leaks, neither while the stream runs nor behind stop.
LeasesAreReleased == HeldLeaseHasOwner /\ StopReleasesLeases

\* An accepted request is answered, unless it is cancelled, the stream is
\* stopped, or an adapter call hangs (and occupies the window).
EveryRequestAnswered ==
    \A s \in Submissions :
        (s \in ToSet(accepted)) ~> (\/ cancelled[s] \/ closed \/ hung # {}
                                    \/ \E c \in ToSet(delivered) : c.sub = s)

\* stop "waits only for the session executor (not blocked adapters)".
StopReturns == (spc # "idle") ~> (spc = "returned")

\* Requests and stop end, whatever the adapter does.
RequestsAndStopEnd == EveryRequestAnswered /\ StopReturns
=============================================================================
