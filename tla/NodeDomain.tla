------------------------------ MODULE NodeDomain ------------------------------
(***************************************************************************)
(* NodeExecutionDomain (crates/muxiva-node/src/domain.rs) with the         *)
(* JavaScript that drives it: TypeScriptTransformNode on the main thread   *)
(* (bindings/node/index.js) and the Worker's event loop (worker.mjs).      *)
(*                                                                         *)
(* Only the Worker's thread touches the driver, so its calls need not be   *)
(* split any further than the messages allow.  The ThreadsafeFunction      *)
(* holds 65536 calls, never fewer than the domain admits, and refuses      *)
(* nothing before the Worker ends.                                         *)
(***************************************************************************)
EXTENDS ForeignDriver

CONSTANT JsMaxInvokes    \* bound: invokes in a run

VARIABLES
    pending,      \* #pending: sequences whose promise is not settled
    mainClosed,   \* #closed
    closeDone,    \* the promise of close is settled
    jsNext,       \* #next
    toWorker,     \* messages to the Worker
    toMain,       \* messages and events to the main thread
    worker,       \* [pc, seq]: idle, dispatch, flush or dead
    tsfn,         \* calls the ThreadsafeFunction has queued
    responses,    \* keys of the responses map
    discarded,    \* history: sequences whose completion the driver refused
    posted        \* history: answers posted per sequence

jsHostVars == <<pending, mainClosed, closeDone, jsNext, toWorker, toMain, worker,
                tsfn, responses, discarded, posted>>

Capacity == CommandCapacity     \* one number bounds window, commands, completions
JsSequences == 1..JsMaxInvokes
WorkerIdle == [pc |-> "idle", seq |-> 0]
Answer(s) == [type |-> "answer", seq |-> s]
Post(messages, m) == Append(messages, m)
Answered(history, seqs) ==
    [s \in JsSequences |-> history[s] + IF s \in seqs THEN 1 ELSE 0]

\* The constructor: the default ordering, and one capacity for everything.
JsDriverInit == host = "node" /\ driver = NewDriver("Strict", Capacity)

JsHostInit ==
    /\ pending = {} /\ mainClosed = FALSE /\ closeDone = FALSE /\ jsNext = 1
    /\ toWorker = <<>> /\ toMain = <<>> /\ worker = WorkerIdle /\ tsfn = <<>>
    /\ responses = {} /\ discarded = {} /\ posted = [s \in JsSequences |-> 0]

----------------------------------------------------------------------------
(* The main thread                                                         *)

Send(kind) ==
    /\ jsNext <= JsMaxInvokes
    /\ jsNext' = jsNext + 1
    /\ pending' = pending \cup {jsNext}
    /\ toWorker' = IF worker.pc = "dead" THEN toWorker
                   ELSE Append(toWorker, [type |-> kind, seq |-> jsNext])
    /\ UNCHANGED <<driver, mainClosed, closeDone, toMain, worker, tsfn, responses,
                   discarded, posted>>

\* invoke of one of the lifecycle kinds, or of a kind the domain does not know.
JsInvoke ==
    /\ ~mainClosed /\ Cardinality(pending) < Capacity
    /\ \E kind \in {"invoke", "unknown"} : Send(kind)

JsClose ==
    /\ ~mainClosed
    /\ mainClosed' = TRUE
    /\ pending' = {}
    /\ toWorker' = IF worker.pc = "dead" THEN toWorker
                   ELSE Append(toWorker, [type |-> "close", seq |-> 0])
    /\ UNCHANGED <<driver, closeDone, jsNext, toMain, worker, tsfn, responses,
                   discarded, posted>>

\* The Worker's message, error and exit events.  close terminates the Worker.
MainMessage ==
    /\ toMain # <<>>
    /\ LET m == Head(toMain) IN
         /\ pending' = CASE m.type = "answer" -> pending \ {m.seq}
                         [] m.type = "error" -> {}
                         [] OTHER -> pending
         /\ closeDone' = (closeDone \/ m.type = "closed" \/ (m.type = "exit" /\ mainClosed))
         /\ worker' = IF m.type = "closed" THEN [pc |-> "dead", seq |-> 0] ELSE worker
    /\ toMain' = Tail(toMain)
    /\ UNCHANGED <<driver, mainClosed, jsNext, toWorker, tsfn, responses, discarded,
                   posted>>

----------------------------------------------------------------------------
(* The Worker: its message handler, dispatch and flush                     *)

\* An exception that nobody catches ends the Worker.
Dies ==
    /\ worker' = [pc |-> "dead", seq |-> 0]
    /\ toMain' = toMain \o <<[type |-> "error", seq |-> 0], [type |-> "exit", seq |-> 0]>>
    /\ UNCHANGED posted

WorkerClose ==
    /\ worker.pc = "idle" /\ toWorker # <<>> /\ Head(toWorker).type = "close"
    /\ BeginStop("STOPPED")
    /\ toMain' = Post(toMain, [type |-> "closed", seq |-> 0])
    /\ toWorker' = Tail(toWorker)
    /\ UNCHANGED <<pending, mainClosed, closeDone, jsNext, worker, tsfn, responses,
                   discarded, posted>>

\* submit up to the driver's answer: a refusal is posted, an error is thrown.
WorkerSubmit ==
    /\ worker.pc = "idle" /\ toWorker # <<>> /\ Head(toWorker).type # "close"
    /\ LET s == Head(toWorker).seq IN
         \/ /\ Head(toWorker).type = "unknown"
            /\ Dies
            /\ UNCHANGED driver
         \/ /\ Head(toWorker).type = "invoke"
            /\ \E outcome \in SubmitOutcome :
                 /\ TrySubmit(s, "Process", TRUE, outcome)
                 /\ \/ /\ outcome = "Accepted"
                       /\ worker' = [pc |-> "dispatch", seq |-> s]
                       /\ UNCHANGED <<toMain, posted>>
                    \/ /\ outcome \in {"Full", "Closed"}
                       /\ toMain' = Post(toMain, Answer(s))
                       /\ posted' = Answered(posted, {s})
                       /\ UNCHANGED worker
                    \/ /\ outcome \in {"DuplicateSequence", "StrictSequenceGap"}
                       /\ Dies
    /\ toWorker' = Tail(toWorker)
    /\ UNCHANGED <<pending, mainClosed, closeDone, jsNext, tsfn, responses, discarded>>

\* The rest of submit: the command is marked dispatched, then scheduled.
WorkerDispatch ==
    /\ worker.pc = "dispatch"
    /\ TryReceive(Control("Process", worker.seq))
    /\ tsfn' = Append(tsfn, worker.seq)
    /\ worker' = WorkerIdle
    /\ UNCHANGED <<pending, mainClosed, closeDone, jsNext, toWorker, toMain, responses,
                   discarded, posted>>

\* Mutant: fail keeps no response for the failed command.
WorkerHookSilentFailure ==
    /\ worker.pc = "idle" /\ tsfn # <<>>
    /\ \E r \in {"ok", "oversized", "throws"}, outcome \in CompletionOutcome :
         /\ TryComplete(Head(tsfn), IF r = "throws" THEN "failure" ELSE "success",
                        r # "oversized", outcome)
         /\ responses' = IF outcome = "Accepted" /\ r # "throws"
                         THEN responses \cup {Head(tsfn)} ELSE responses
         /\ discarded' = IF outcome = "Accepted" THEN discarded
                         ELSE discarded \cup {Head(tsfn)}
    /\ tsfn' = Tail(tsfn)
    /\ worker' = [pc |-> "flush", seq |-> 0]
    /\ UNCHANGED <<pending, mainClosed, closeDone, jsNext, toWorker, toMain, posted>>

\* dispatch: the hook runs and its outcome goes to complete or to fail.  A
\* response of complete is kept when the driver took it, one of fail always.
WorkerHook ==
    /\ worker.pc = "idle" /\ tsfn # <<>>
    /\ \E r \in {"ok", "oversized", "throws"}, outcome \in CompletionOutcome :
         /\ TryComplete(Head(tsfn), IF r = "throws" THEN "failure" ELSE "success",
                        r # "oversized", outcome)
         /\ responses' = IF outcome = "Accepted" \/ r = "throws"
                         THEN responses \cup {Head(tsfn)} ELSE responses
         /\ discarded' = IF outcome = "Accepted" THEN discarded
                         ELSE discarded \cup {Head(tsfn)}
    /\ tsfn' = Tail(tsfn)
    /\ worker' = [pc |-> "flush", seq |-> 0]
    /\ UNCHANGED <<pending, mainClosed, closeDone, jsNext, toWorker, toMain, posted>>

\* drain_completions: what can be taken, then, once, everything that is kept.
WorkerFlush ==
    /\ worker.pc = "flush"
    /\ \/ \E s \in JsSequences :
             /\ TryTakeCompletion(s)
             /\ toMain' = IF s \in responses THEN Post(toMain, Answer(s)) ELSE toMain
             /\ posted' = Answered(posted, {s} \cap responses)
             /\ responses' = responses \ {s}
             /\ UNCHANGED worker
       \/ /\ driver.ready = <<>> /\ TakeAbortReason
          /\ toMain' = toMain \o [i \in 1..Cardinality(responses) |->
                          Answer(SetToSortSeq(responses, LAMBDA a, b : a < b)[i])]
          /\ posted' = Answered(posted, responses)
          /\ responses' = {}
          /\ worker' = WorkerIdle
       \/ /\ driver.ready = <<>> /\ ~AbortAvailable
          /\ worker' = WorkerIdle
          /\ UNCHANGED <<driver, toMain, posted, responses>>
    /\ UNCHANGED <<pending, mainClosed, closeDone, jsNext, toWorker, tsfn, discarded>>

----------------------------------------------------------------------------

WorkerStep == WorkerClose \/ WorkerSubmit \/ WorkerDispatch \/ WorkerHook \/ WorkerFlush
JsNext ==
    /\ host = "node"
    /\ JsInvoke \/ JsClose \/ MainMessage \/ WorkerStep

\* Both event loops run; hooks are synchronous and return.
JsFair ==
    /\ WF_<<driver, jsHostVars>>(host = "node" /\ MainMessage)
    /\ WF_<<driver, jsHostVars>>(host = "node" /\ WorkerClose)
    /\ WF_<<driver, jsHostVars>>(host = "node" /\ (WorkerSubmit \/ WorkerDispatch))
    /\ WF_<<driver, jsHostVars>>(host = "node" /\ (WorkerHook \/ WorkerFlush))

----------------------------------------------------------------------------
(* Properties                                                              *)

JsTypeOK == host = "node" =>
    /\ DriverTypeOK(JsSequences, {"Process"})
    /\ pending \subseteq JsSequences /\ jsNext \in 1..(JsMaxInvokes + 1)
    /\ worker.pc \in {"idle", "dispatch", "flush", "dead"}
    /\ tsfn \in Seq(JsSequences) /\ responses \subseteq JsSequences

Underway ==
    {toWorker[i].seq : i \in DOMAIN toWorker} \cup {toMain[i].seq : i \in DOMAIN toMain}
    \cup {worker.seq} \cup ToSet(tsfn) \cup responses

\* No promise is lost: while the Worker lives, an unsettled invoke is on its way
\* through the two mailboxes, the ThreadsafeFunction or the kept responses,
\* unless the driver refused its completion (it was cancelled by the failure of
\* another one, or its output exceeds the byte budget).
InvokeNotLost ==
    worker.pc # "dead" => pending \subseteq Underway \cup discarded

\* "Failure seals the driver and is surfaced exactly once" (domain.rs): no
\* invoke is ever answered twice.
AnsweredAtMostOnce == \A s \in JsSequences : posted[s] <= 1

\* The main thread's window keeps the strict driver from ever refusing a
\* sequence: only an unknown kind makes the message handler throw.
OnlyUnknownKindKills ==
    \A s \in JsSequences : worker = [pc |-> "idle", seq |-> 0] /\ toWorker # <<>>
        /\ Head(toWorker) = [type |-> "invoke", seq |-> s] =>
           \/ driver.stopping
           \/ s \notin Live /\ ~IsGap(driver, s) /\ HasRoom(driver, TRUE)

\* Across main thread, Worker and driver, every invoke is answered once or is
\* still under way.
InvokesAreAnsweredOnce ==
    JsTypeOK /\ InvokeNotLost /\ AnsweredAtMostOnce /\ OnlyUnknownKindKills

\* close settles, unless the Worker had died before.
CloseSettles ==
    (mainClosed /\ worker.pc # "dead") ~> closeDone

\* Every invoke settles while nothing was discarded and the Worker lives.
InvokeSettles ==
    \A s \in JsSequences :
        s \in pending ~> (s \notin pending \/ worker.pc = "dead" \/ discarded # {})
=============================================================================
