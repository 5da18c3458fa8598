---------------------------- MODULE ForeignDriver ----------------------------
(***************************************************************************)
(* ForeignNodeDriver (crates/muxiva-core/src/foreign.rs): the bounded gate *)
(* between the core and a language runtime.  Every operation is one        *)
(* critical section over `driver`.  The host modules (PythonDomain,        *)
(* NodeDomain) call the operations; this module has no Next of its own.    *)
(*                                                                         *)
(* `accepting` and the StopToken change only together with `stopping`, in  *)
(* the same critical section, so `stopping` stands for the three.  Byte    *)
(* budgets are a Boolean `fits` of the item that asks for room; deadlines  *)
(* are a set of sequences that are found expired.                          *)
(***************************************************************************)
EXTENDS Integers, Sequences, FiniteSets, SequencesExt

CONSTANTS
    CommandCapacity,     \* config.command_capacity
    CompletionCapacity   \* config.completion_capacity

ASSUME DriverAssumption ==
    CommandCapacity \in Nat \ {0} /\ CompletionCapacity \in Nat \ {0}

VARIABLES
    host,                \* the language runtime that drives it: python or node
    driver               \* State, and the two settings that differ per host

None == "none"
Ordering == {"Strict", "Unordered"}
SubmitOutcome == {"Accepted", "Full", "Closed", "DuplicateSequence",
                  "StrictSequenceGap"}
CompletionOutcome == {"Accepted", "Full", "Closed", "LateDiscarded"}

LiveCommand == [dispatched: BOOLEAN, cancelled: BOOLEAN,
                completion_received: BOOLEAN]
Control(kind, sequence) == [kind |-> kind, sequence |-> sequence]

\* ForeignNodeDriver::new.  No strict sequence was seen yet: -1.
NewDriver(ordering, window) ==
    [ordering |-> ordering, max_in_flight |-> window,
     commands |-> <<>>, controls |-> <<>>, ready |-> <<>>, ordered |-> {},
     live |-> <<>>, strict_order |-> <<>>, last_strict_sequence |-> -1,
     stopping |-> FALSE, abort_reason |-> None, abort_taken |-> FALSE]

Live == DOMAIN driver.live
WithoutSequence(order, sequence) == SelectSeq(order, LAMBDA s : s # sequence)
Forget(live, sequence) == [s \in DOMAIN live \ {sequence} |-> live[s]]

----------------------------------------------------------------------------
(* try_submit                                                              *)

IsGap(d, sequence) ==
    /\ d.ordering = "Strict"
    /\ d.last_strict_sequence # -1
    /\ sequence # d.last_strict_sequence + 1

\* A strict driver records the sequence before it looks at the capacities.
Recorded(d, sequence) ==
    IF d.ordering = "Strict" THEN [d EXCEPT !.last_strict_sequence = sequence]
    ELSE d

\* fits, command_bytes and completion_bytes: whether an item fits what is left
\* of a byte budget.
Fits == BOOLEAN

HasRoom(d, fits) ==
    /\ Cardinality(DOMAIN d.live) # d.max_in_flight
    /\ Len(d.commands) # CommandCapacity
    /\ fits

Admitted(d, sequence, kind) ==
    [d EXCEPT
        !.commands = Append(@, Control(kind, sequence)),
        !.live = [s \in DOMAIN @ \cup {sequence} |->
                    IF s = sequence
                    THEN [dispatched |-> FALSE, cancelled |-> FALSE,
                          completion_received |-> FALSE]
                    ELSE @[s]],
        !.strict_order = IF d.ordering = "Strict" THEN Append(@, sequence) ELSE @]

TrySubmit(sequence, kind, fits, outcome) ==
    \/ /\ driver.stopping
       /\ outcome = "Closed"
       /\ UNCHANGED driver
    \/ /\ ~driver.stopping /\ sequence \in Live
       /\ outcome = "DuplicateSequence"
       /\ UNCHANGED driver
    \/ /\ ~driver.stopping /\ sequence \notin Live /\ IsGap(driver, sequence)
       /\ outcome = "StrictSequenceGap"
       /\ UNCHANGED driver
    \/ /\ ~driver.stopping /\ sequence \notin Live /\ ~IsGap(driver, sequence)
       /\ \/ /\ ~HasRoom(driver, fits)
             /\ outcome = "Full"
             /\ driver' = Recorded(driver, sequence)
          \/ /\ HasRoom(driver, fits)
             /\ outcome = "Accepted"
             /\ driver' = Admitted(Recorded(driver, sequence), sequence, kind)

----------------------------------------------------------------------------
(* fail_locked, and who calls it                                           *)

Cancels(sequences) ==
    LET ascending == SetToSortSeq(sequences, LAMBDA a, b : a < b)
    IN [i \in DOMAIN ascending |-> Control("Cancel", ascending[i])]

\* Mutant: the commands in flight are marked cancelled but no control is queued.
FailLockedSilently(d, reason) ==
    LET kept == {s \in DOMAIN d.live : d.live[s].dispatched}
    IN [d EXCEPT
          !.stopping = TRUE,
          !.abort_reason = IF @ = None THEN reason ELSE @,
          !.commands = SelectSeq(@, LAMBDA c : c.sequence \in kept),
          !.strict_order = SelectSeq(@, LAMBDA s : s \in kept),
          !.live = [s \in kept |-> [@[s] EXCEPT !.cancelled = TRUE]],
          !.controls = @ \o <<Control("Abort", -1), Control("Stop", -1)>>,
          !.ready = <<>>,
          !.ordered = {}]

\* The first reason stays.  Undispatched commands go, dispatched ones are
\* cancelled (once each), results that were not taken yet are dropped.  The
\* controls end with Abort and Stop, again at every call.
FailLocked(d, reason) ==
    LET kept == {s \in DOMAIN d.live : d.live[s].dispatched}
        fresh == {s \in kept : ~d.live[s].cancelled}
    IN [d EXCEPT
          !.stopping = TRUE,
          !.abort_reason = IF @ = None THEN reason ELSE @,
          !.commands = SelectSeq(@, LAMBDA c : c.sequence \in kept),
          !.strict_order = SelectSeq(@, LAMBDA s : s \in kept),
          !.live = [s \in kept |-> [@[s] EXCEPT !.cancelled = TRUE]],
          !.controls = @ \o Cancels(fresh) \o <<Control("Abort", -1), Control("Stop", -1)>>,
          !.ready = <<>>,
          !.ordered = {}]

\* expire_deadlines: nothing happens unless some live command is late.
ExpireDeadlines(expired) ==
    driver' = IF expired \cap Live = {} THEN driver
              ELSE FailLocked(driver, "DEADLINE")

\* begin_stop: only the first caller obtains authority.
BeginStop(reason) ==
    driver' = IF driver.stopping THEN driver ELSE FailLocked(driver, reason)

\* begin_graceful_stop returned true: an idle driver seals itself.
BeginGracefulStop ==
    /\ ~driver.stopping /\ Live = {}
    /\ driver' = [driver EXCEPT !.stopping = TRUE,
                                !.controls = Append(@, Control("Stop", -1))]

----------------------------------------------------------------------------
(* The foreign side: try_receive, try_complete, acknowledge_cancel         *)

\* try_receive returned command c: a control before ordinary work.
TryReceive(c) ==
    \/ /\ driver.controls # <<>>
       /\ c = Head(driver.controls)
       /\ driver' = [driver EXCEPT !.controls = Tail(@)]
    \/ /\ driver.controls = <<>> /\ driver.commands # <<>>
       /\ c = Head(driver.commands)
       /\ driver' = [driver EXCEPT
             !.commands = Tail(@),
             !.live = [s \in DOMAIN @ |->
                         IF s = c.sequence THEN [@[s] EXCEPT !.dispatched = TRUE]
                         ELSE @[s]]]

Removed(d, sequence) ==
    [d EXCEPT !.live = Forget(@, sequence),
              !.strict_order = WithoutSequence(@, sequence)]

\* promote_strict: the front of the order stays until its result is taken, so
\* at most one result is promoted at a time.
PromoteStrict(d) ==
    IF d.strict_order # <<>> /\ Head(d.strict_order) \in d.ordered
    THEN [d EXCEPT !.ordered = @ \ {Head(d.strict_order)},
                   !.ready = Append(@, Head(d.strict_order))]
    ELSE d

Released(d, sequence) ==
    IF d.ordering = "Strict"
    THEN PromoteStrict([d EXCEPT !.ordered = @ \cup {sequence}])
    ELSE [d EXCEPT !.ready = Append(@, sequence)]

TryComplete(sequence, kind, fits, outcome) ==
    \/ /\ sequence \notin Live
       /\ outcome = IF driver.stopping THEN "Closed" ELSE "LateDiscarded"
       /\ UNCHANGED driver
    \/ /\ sequence \in Live
       /\ driver.live[sequence].cancelled \/ driver.stopping
       /\ outcome = "LateDiscarded"
       /\ driver' = Removed(driver, sequence)
    \/ /\ sequence \in Live /\ ~driver.stopping
       /\ ~driver.live[sequence].cancelled
       /\ \/ /\ driver.live[sequence].completion_received
             /\ outcome = "LateDiscarded"
             /\ UNCHANGED driver
          \/ /\ ~driver.live[sequence].completion_received
             /\ kind = "failure"
             /\ outcome = "Accepted"
             /\ driver' = FailLocked(Removed(driver, sequence), "FAILURE")
          \/ /\ ~driver.live[sequence].completion_received
             /\ kind = "success"
             /\ \/ Len(driver.ready) + Cardinality(driver.ordered) = CompletionCapacity
                \/ ~fits
             /\ outcome = "Full"
             /\ UNCHANGED driver
          \/ /\ ~driver.live[sequence].completion_received
             /\ kind = "success"
             /\ Len(driver.ready) + Cardinality(driver.ordered) # CompletionCapacity
             /\ fits
             /\ outcome = "Accepted"
             /\ driver' = Released([driver EXCEPT
                                      !.live[sequence].completion_received = TRUE],
                                   sequence)

AcknowledgeCancel(sequence) ==
    driver' = IF sequence \in Live /\ driver.live[sequence].cancelled
              THEN Removed(driver, sequence) ELSE driver

----------------------------------------------------------------------------
(* The core side: try_take_completion, take_abort_reason                   *)

\* try_take_completion returned a completion of the given sequence.
TryTakeCompletion(sequence) ==
    /\ driver.ready # <<>>
    /\ sequence = Head(driver.ready)
    /\ LET d == Removed([driver EXCEPT !.ready = Tail(@)], sequence)
       IN driver' = IF d.ordering = "Strict" THEN PromoteStrict(d) ELSE d

AbortAvailable == driver.abort_reason # None /\ ~driver.abort_taken
TakeAbortReason == AbortAvailable /\ driver' = [driver EXCEPT !.abort_taken = TRUE]

----------------------------------------------------------------------------

DriverTypeOK(sequences, kinds) ==
    /\ driver.ordering \in Ordering
    /\ driver.commands \in Seq([kind: kinds, sequence: sequences])
    /\ driver.controls \in Seq([kind: {"Cancel", "Abort", "Stop"},
                                sequence: sequences \cup {-1}])
    /\ Len(driver.commands) <= CommandCapacity
    /\ Live \subseteq sequences
    /\ \A s \in Live : driver.live[s] \in LiveCommand
    /\ Cardinality(Live) <= driver.max_in_flight
    /\ driver.ready \in Seq(sequences) /\ driver.ordered \subseteq sequences
    /\ Len(driver.ready) + Cardinality(driver.ordered) <= CompletionCapacity
    /\ driver.strict_order \in Seq(sequences)
    /\ driver.stopping \in BOOLEAN /\ driver.abort_taken \in BOOLEAN

\* What waits to be taken is live, answered and not cancelled: nothing is
\* released twice, and nothing of a failed driver is released at all
\* ("discards late output", foreign.rs).
ResultsAreLive ==
    /\ \A s \in ToSet(driver.ready) \cup driver.ordered :
          /\ s \in Live
          /\ driver.live[s].completion_received /\ ~driver.live[s].cancelled
    /\ IsInjective(driver.ready)
    /\ ToSet(driver.ready) \cap driver.ordered = {}
    /\ driver.stopping => driver.ready = <<>> /\ driver.ordered = {}
=============================================================================
