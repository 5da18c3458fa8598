----------------------------- MODULE PythonDomain -----------------------------
(***************************************************************************)
(* PythonNodeExecutionDomain (crates/muxiva-python/src/domain.rs) and the  *)
(* NotificationBus subscriber that enqueues events into it                 *)
(* (subscription.rs): callers that submit one command each and poll for    *)
(* its result, the domain's own thread with its asyncio loop, close, drop. *)
(*                                                                         *)
(* Every call of the driver is a step of its own.  An input is a command   *)
(* that fits or does not fit the byte budget; a hook returns, returns too  *)
(* much, raises, or hangs.  A caller's deadline may pass at any poll.      *)
(***************************************************************************)
EXTENDS ForeignDriver

CONSTANTS
    Callers,        \* threads in submit / submit_blocking
    Subscribers,    \* bus threads in try_enqueue_event
    PyMaxCalls,     \* bound: calls of all threads together
    HookHangs       \* whether a hook may never return

VARIABLES
    next,        \* sequence: the next sequence number
    closed,      \* DomainState.closed
    terminal,    \* DomainState.terminal_callback_completed
    call,        \* [pc, seq, kind] of each caller
    calls,       \* calls made so far
    python,      \* [pc, cmd, result]: the domain thread
    closer,      \* pc of the thread in close
    crossed,     \* history: a caller took another caller's completion
    on_aborts    \* history: invocations of the node's on_abort, two at most counted

pyHostVars == <<next, closed, terminal, call, calls, python, closer, crossed,
                on_aborts>>

PyThreads == Callers \cup Subscribers
PyKinds(c) == IF c \in Subscribers THEN {"Event"} ELSE {"Process", "Finish", "Abort"}
TerminalKinds == {"Finish", "Abort"}
IdleCall == [pc |-> "idle", seq |-> -1, kind |-> None]
Receiving == [pc |-> "receive", cmd |-> Control(None, -1), result |-> None]
PySequences == 0..PyMaxCalls

\* PythonNodeExecutionDomain.new: max_in_flight must be 1.
PyDriverInit == host = "python" /\ \E o \in Ordering : driver = NewDriver(o, 1)

PyHostInit ==
    /\ next = 0 /\ closed = FALSE /\ terminal = FALSE
    /\ call = [c \in PyThreads |-> IdleCall]
    /\ calls = 0
    /\ python = Receiving
    /\ closer = "idle"
    /\ crossed = FALSE /\ on_aborts = 0

\* close holds the DomainState mutex while it seals the driver.
StateUnlocked == closer \notin {"graceful", "abort"}

----------------------------------------------------------------------------
(* submit, submit_blocking, try_enqueue_event                              *)

\* submit looks at `closed` first; a subscriber only has the driver.
CheckClosed(c) ==
    /\ call[c].pc = "idle" /\ calls < PyMaxCalls
    /\ calls' = calls + 1
    /\ \E kind \in PyKinds(c) :
          \/ /\ c \in Callers /\ closer # "dropped" /\ StateUnlocked
             /\ call' = IF closed THEN call
                        ELSE [call EXCEPT ![c] = [pc |-> "submit", seq |-> -1,
                                                  kind |-> kind]]
          \/ /\ c \in Subscribers
             /\ call' = [call EXCEPT ![c] = [pc |-> "submit", seq |-> -1,
                                             kind |-> kind]]
    /\ UNCHANGED <<driver, next, closed, terminal, python, closer, crossed, on_aborts>>

\* A call that failed.  The abort of a graph's instance (graph.rs) is marked as
\* the terminal callback whatever became of it.
GaveUp(c) ==
    {IdleCall} \cup (IF call[c].kind = "Abort" THEN {[call[c] EXCEPT !.pc = "mark"]} ELSE {})

\* With the sequence mutex held: only an accepted command uses its number up.
Submit(c) ==
    /\ call[c].pc = "submit"
    /\ \E fits \in Fits, outcome \in SubmitOutcome :
          /\ TrySubmit(next, call[c].kind, fits, outcome)
          /\ \/ /\ outcome = "Accepted"
                /\ next' = next + 1
                /\ call' = [call EXCEPT ![c].pc = "take", ![c].seq = next]
             \/ /\ outcome # "Accepted"
                /\ \E r \in GaveUp(c) : call' = [call EXCEPT ![c] = r]
                /\ UNCHANGED next
    /\ UNCHANGED <<closed, terminal, calls, python, closer, crossed, on_aborts>>

\* Success of finish or abort is remembered under the DomainState mutex.
Returned(c) ==
    IF call[c].kind \in TerminalKinds THEN [call[c] EXCEPT !.pc = "mark"] ELSE IdleCall

PollTake(c) ==
    /\ call[c].pc = "take"
    /\ \/ \E s \in PySequences :
             /\ TryTakeCompletion(s)
             /\ crossed' = (crossed \/ s # call[c].seq)
             /\ call' = [call EXCEPT ![c] = IF s = call[c].seq THEN Returned(c)
                                            ELSE IdleCall]
       \/ /\ driver.ready = <<>>
          /\ call' = [call EXCEPT ![c].pc = "abort"]
          /\ UNCHANGED <<driver, crossed>>
    /\ UNCHANGED <<next, closed, terminal, calls, python, closer, on_aborts>>

PollAbort(c) ==
    /\ call[c].pc = "abort"
    /\ \/ /\ TakeAbortReason
          /\ \E r \in GaveUp(c) : call' = [call EXCEPT ![c] = r]
       \/ /\ ~AbortAvailable
          /\ call' = [call EXCEPT ![c].pc = "deadline"]
          /\ UNCHANGED driver
    /\ UNCHANGED <<next, closed, terminal, calls, python, closer, crossed, on_aborts>>

\* The caller's deadline starts after its command's own, so a command that is
\* still live has expired with it.
PollDeadline(c) ==
    /\ call[c].pc = "deadline"
    /\ \/ /\ call' = [call EXCEPT ![c].pc = "take"]
          /\ UNCHANGED driver
       \/ /\ ExpireDeadlines({s \in Live : s <= call[c].seq})
          /\ \E r \in GaveUp(c) : call' = [call EXCEPT ![c] = r]
    /\ UNCHANGED <<next, closed, terminal, calls, python, closer, crossed, on_aborts>>

MarkTerminal(c) ==
    /\ call[c].pc = "mark" /\ StateUnlocked
    /\ terminal' = TRUE
    /\ call' = [call EXCEPT ![c] = IdleCall]
    /\ UNCHANGED <<driver, next, closed, calls, python, closer, crossed, on_aborts>>

----------------------------------------------------------------------------
(* run_domain                                                              *)

\* Stop ends the loop; Cancel is acknowledged; everything else is invoked.
Receive ==
    /\ python.pc = "receive"
    /\ \E c \in ToSet(driver.controls) \cup ToSet(driver.commands) :
          /\ TryReceive(c)
          /\ python' = [pc |-> CASE c.kind = "Stop" -> "done"
                                 [] c.kind = "Cancel" -> "ack"
                                 [] OTHER -> "invoke",
                        cmd |-> IF c.kind = "Stop" THEN Control(None, -1) ELSE c,
                        result |-> None]
    /\ UNCHANGED <<next, closed, terminal, call, calls, closer, crossed, on_aborts>>

Acknowledge ==
    /\ python.pc = "ack"
    /\ AcknowledgeCancel(python.cmd.sequence)
    /\ python' = Receiving
    /\ UNCHANGED <<next, closed, terminal, call, calls, closer, crossed, on_aborts>>

\* normalize_output, normalize_graph_output: what the hook returned becomes
\* frames on declared ports, or an error like one the hook raised itself.
NormalizedOutput == {"ok", "oversized", "raised"}

\* invoke: the node's hook of this command runs on the asyncio loop.
Invoke ==
    /\ python.pc = "invoke"
    /\ on_aborts' = IF python.cmd.kind = "Abort" /\ on_aborts < 2 THEN on_aborts + 1
                    ELSE on_aborts
    /\ \/ \E r \in NormalizedOutput :
             python' = [python EXCEPT !.pc = "complete", !.result = r]
       \/ HookHangs /\ python' = [python EXCEPT !.pc = "hung"]
    /\ UNCHANGED <<driver, next, closed, terminal, call, calls, closer, crossed>>

\* Mutant: a completion that does not fit is silently dropped.
CompleteIgnoringFull ==
    /\ python.pc = "complete"
    /\ \E outcome \in CompletionOutcome :
          /\ TryComplete(python.cmd.sequence,
                         IF python.result = "raised" THEN "failure" ELSE "success",
                         python.result # "oversized", outcome)
          /\ python' = Receiving
    /\ UNCHANGED <<next, closed, terminal, call, calls, closer, crossed, on_aborts>>

Complete ==
    /\ python.pc = "complete"
    /\ \E outcome \in CompletionOutcome :
          /\ TryComplete(python.cmd.sequence,
                         IF python.result = "raised" THEN "failure" ELSE "success",
                         python.result # "oversized", outcome)
          /\ python' = IF outcome = "Full" THEN [python EXCEPT !.pc = "overfull"]
                       ELSE Receiving
    /\ UNCHANGED <<next, closed, terminal, call, calls, closer, crossed, on_aborts>>

CompletionOverfull ==
    /\ python.pc = "overfull"
    /\ BeginStop("COMPLETION-FULL")
    /\ python' = Receiving
    /\ UNCHANGED <<next, closed, terminal, call, calls, closer, crossed, on_aborts>>

----------------------------------------------------------------------------
(* close, close_blocking and Drop                                          *)

Close ==
    /\ closer = "idle" /\ ~closed
    /\ closed' = TRUE
    /\ closer' = IF terminal THEN "graceful" ELSE "abort"
    /\ UNCHANGED <<driver, next, terminal, call, calls, python, crossed, on_aborts>>

CloseGracefully ==
    /\ closer = "graceful"
    /\ \/ BeginGracefulStop /\ closer' = "join"
       \/ /\ driver.stopping \/ Live # {}
          /\ closer' = "abort"
          /\ UNCHANGED driver
    /\ UNCHANGED <<next, closed, terminal, call, calls, python, crossed, on_aborts>>

CloseAborting ==
    /\ closer = "abort"
    /\ BeginStop("CANCELLED")
    /\ closer' = "join"
    /\ UNCHANGED <<next, closed, terminal, call, calls, python, crossed, on_aborts>>

\* done.recv_timeout: the thread ended, or the shutdown deadline passed.
CloseJoin ==
    /\ closer = "join"
    /\ closer' = IF python.pc = "done" THEN "joined" ELSE "timed_out"
    /\ UNCHANGED <<driver, next, closed, terminal, call, calls, python, crossed,
                   on_aborts>>

\* The last reference is gone: no method is running.
Drop ==
    /\ closer \in {"idle", "joined", "timed_out"}
    /\ \A c \in Callers : call[c].pc = "idle"
    /\ BeginStop("DROPPED")
    /\ closer' = "dropped"
    /\ UNCHANGED <<next, closed, terminal, call, calls, python, crossed, on_aborts>>

----------------------------------------------------------------------------

CallerStep(c) == \/ CheckClosed(c) \/ Submit(c) \/ PollTake(c) \/ PollAbort(c)
                 \/ PollDeadline(c) \/ MarkTerminal(c)
DomainStep == Receive \/ Acknowledge \/ Invoke \/ Complete \/ CompletionOverfull
CloserStep == Close \/ CloseGracefully \/ CloseAborting \/ CloseJoin \/ Drop

PyNext ==
    /\ host = "python"
    /\ (\E c \in PyThreads : CallerStep(c)) \/ DomainStep \/ CloserStep

\* Threads inside a call and the domain's loop are scheduled.  Nothing promises
\* that a deadline passes: a poll may always find it in the future.
PyFair ==
    /\ \A c \in PyThreads :
          WF_<<driver, pyHostVars>>(host = "python" /\ call[c].pc # "idle" /\ CallerStep(c))
    /\ WF_<<driver, pyHostVars>>(host = "python" /\ DomainStep)
    /\ WF_<<driver, pyHostVars>>(host = "python" /\ (CloseGracefully \/ CloseAborting))

----------------------------------------------------------------------------
(* Properties                                                              *)

PyTypeOK == host = "python" =>
    /\ DriverTypeOK(PySequences, {"Process", "Finish", "Abort", "Event"})
    /\ next \in PySequences /\ closed \in BOOLEAN /\ terminal \in BOOLEAN
    /\ \A c \in PyThreads : call[c].seq \in PySequences \cup {-1}

\* "unexpected completion sequence" (domain.rs) never happens, and a
\* subscriber, which does not even compare the sequences, never takes the
\* result of a caller.
NoCrossedCompletion == ~crossed

\* A cancelled command is never forgotten: its Cancel is on the way to the
\* domain thread, or that thread is busy with the command and will find out.
CancelReachesDomain ==
    \A s \in Live : host = "python" /\ driver.live[s].cancelled =>
        \/ Control("Cancel", s) \in ToSet(driver.controls)
        \/ python.pc \in {"invoke", "complete", "hung", "ack"} /\ python.cmd.sequence = s

\* When the domain's thread has ended nothing is live and nobody can be waiting
\* for a result: the abort reason is there for a caller that still polls.
DomainEndsDrained ==
    python.pc = "done" =>
        /\ Live = {} /\ driver.commands = <<>>
        /\ \A c \in PyThreads : call[c].pc \in {"take", "abort", "deadline"} =>
              driver.abort_reason # None

\* A graceful close runs no hook behind the terminal one: without an abort
\* reason nothing but Stop is sent to the domain.
GracefulStopIsQuiet ==
    host = "python" /\ driver.stopping /\ driver.abort_reason = None =>
        /\ Live = {} /\ python.pc \in {"receive", "done"}
        /\ \A i \in DOMAIN driver.controls : driver.controls[i].kind = "Stop"

\* However calls, events, deadlines, a failure and close interleave in the
\* driver: what waits to be taken is some live caller's own result, no
\* cancelled command is forgotten, and the end leaves nobody behind.
PythonCallsAreSound ==
    /\ PyTypeOK /\ ResultsAreLive /\ NoCrossedCompletion /\ CancelReachesDomain
    /\ DomainEndsDrained /\ GracefulStopIsQuiet

\* An admitted call returns by its result or by the abort reason; it does not
\* need its deadline, unless a hook hangs.
CallReturns ==
    \A c \in PyThreads :
        call[c].pc = "take" ~> call[c].pc = "idle" \/ python.pc = "hung"

\* "it calls on_abort at most once on every prepared Node"
\* (docs/design/05-concurrent-runtime-and-flow-control.md:176).
OnAbortAtMostOnce == on_aborts <= 1
=============================================================================
