-------------------------------- MODULE LlmNode --------------------------------
(***************************************************************************)
(* builtin.llm_openai_compatible (crates/muxiva-graph-json/src/builtins.rs).*)
(* Every prompt starts a worker thread that streams an answer into a       *)
(* channel; the Node empties the channel on timer ticks it schedules for   *)
(* itself.  A prompt or a Signal cancels the answer in progress: the old   *)
(* worker is detached, sees its flag at its next read, and what it still   *)
(* sends is told by its generation.                                        *)
(*                                                                         *)
(* A delta is its number in the answer.  The workers, the Node's callbacks *)
(* and the two reads of has_pending_work interleave.                       *)
(***************************************************************************)
EXTENDS Integers, Sequences, FiniteSets, SequencesExt

CONSTANTS
    MaxPrompts,     \* bound: prompts and cancellations
    MaxDeltas,      \* bound: deltas of an answer
    MaxResults,     \* max_results_per_wakeup
    HistoryTurns    \* history_turns

\* What the factory accepts.
LlmConfig == MaxResults \in 1..256 /\ HistoryTurns \in 0..32
ASSUME LlmConfigAssumption == LlmConfig

VARIABLES
    node,        \* [phase, budget, generation, worker, tick]
    stream,      \* the `stream` option
    requests,    \* generation -> [at, sent, next]: the workers
    stopFlags,   \* generations whose cancel flag is set
    channel,     \* results: [kind, generation, number]
    pending,     \* the AtomicUsize
    history,     \* generations of the answers kept
    spoken,      \* what was emitted: [kind, generation, number]
    taken        \* generations whose Done was taken

llmVars == <<node, stream, requests, stopFlags, channel, pending, history, spoken, taken>>

NoWorker == 0
LlmInit(streams) ==
    /\ node = [phase |-> "idle", budget |-> 0, generation |-> 0, worker |-> NoWorker, tick |-> FALSE]
    /\ stream \in streams /\ requests = <<>> /\ stopFlags = {} /\ channel = <<>> /\ pending = 0
    /\ history = <<>> /\ spoken = <<>> /\ taken = {}

Running(g) == g # NoWorker /\ requests[g].at # "done"
Result(kind, g, number) == [kind |-> kind, generation |-> g, number |-> number]

----------------------------------------------------------------------------
(* The Node                                                                *)

\* cancel_current, together with what the caller does to the Node.
CancelCurrent(changed) ==
    /\ node' = [changed EXCEPT !.generation = node.generation + 1]
    /\ stopFlags' = stopFlags \cup ({node.worker} \ {NoWorker})
    /\ pending' = pending - Len(channel) /\ channel' = <<>>

\* on_process with text: the old answer is cancelled, a worker spawned and a
\* tick scheduled; the callback ends with has_pending_work.
Prompt ==
    /\ node.phase = "idle" /\ node.generation < MaxPrompts
    /\ LET g == node.generation + 1 IN
       /\ CancelCurrent([node EXCEPT !.phase = "finished?", !.worker = g, !.tick = TRUE])
       /\ requests' = [h \in DOMAIN requests \cup {g} |->
                         IF h = g THEN [at |-> "request", sent |-> 0, next |-> "none"] ELSE requests[h]]
    /\ UNCHANGED <<stream, history, spoken, taken>>

\* on_signal; generations without a worker exist from here on.
CancelSignal ==
    /\ node.phase = "idle" /\ node.generation < MaxPrompts
    /\ CancelCurrent([node EXCEPT !.worker = NoWorker])
    /\ requests' = [h \in DOMAIN requests \cup {node.generation + 1} |->
                      IF h \in DOMAIN requests THEN requests[h]
                      ELSE [at |-> "done", sent |-> 0, next |-> "none"]]
    /\ UNCHANGED <<stream, history, spoken, taken>>

\* The tick the runtime was asked for.
Tick ==
    /\ node.phase = "idle" /\ node.tick
    /\ node' = [node EXCEPT !.phase = "drain", !.budget = MaxResults, !.tick = FALSE]
    /\ UNCHANGED <<stream, requests, stopFlags, channel, pending, history, spoken, taken>>


Current(r) == r.generation = node.generation

\* keep = history_turns * 2 of the answers.
Kept(answers) ==
    IF Len(answers) <= HistoryTurns * 2 THEN answers
    ELSE SubSeq(answers, Len(answers) - HistoryTurns * 2 + 1, Len(answers))

\* One round of drain.  A Done ends it, an Error fails the Node.
DrainOne ==
    /\ node.phase = "drain" /\ node.budget > 0 /\ channel # <<>>
    /\ LET r == Head(channel) IN
       /\ channel' = Tail(channel) /\ pending' = pending - 1
       /\ node' = [node EXCEPT !.budget = @ - 1,
                               !.phase = IF ~Current(r) \/ r.kind = "delta" THEN "drain"
                                         ELSE IF r.kind = "done" THEN "finished?" ELSE "failed"]
       /\ spoken' = IF Current(r) /\ (r.kind = "delta" \/ (r.kind = "done" /\ r.number > 0))
                    THEN Append(spoken, r) ELSE spoken
       /\ history' = IF Current(r) /\ r.kind = "done" /\ r.number > 0
                     THEN Kept(Append(history, r.generation)) ELSE history
       /\ taken' = IF Current(r) /\ r.kind = "done" THEN taken \cup {r.generation} ELSE taken
    /\ UNCHANGED <<stream, requests, stopFlags>>

DrainEnds ==
    /\ node.phase = "drain" /\ (node.budget = 0 \/ channel = <<>>)
    /\ node' = [node EXCEPT !.phase = "finished?"]
    /\ UNCHANGED <<stream, requests, stopFlags, channel, pending, history, spoken, taken>>

\* Mutant: pending is read before the worker is asked whether it has finished.
HasPendingWorkReversed ==
    /\ \/ /\ node.phase = "finished?"
          /\ node' = IF pending > 0 THEN [node EXCEPT !.phase = "idle", !.tick = TRUE]
                     ELSE [node EXCEPT !.phase = "pending?"]
       \/ /\ node.phase = "pending?"
          /\ node' = [node EXCEPT !.phase = "idle", !.tick = Running(node.worker)]
    /\ UNCHANGED <<stream, requests, stopFlags, channel, pending, history, spoken, taken>>

\* has_pending_work: is_finished, then pending; then the next tick.
HasPendingWork ==
    /\ \/ /\ node.phase = "finished?"
          /\ node' = IF Running(node.worker) THEN [node EXCEPT !.phase = "idle", !.tick = TRUE]
                     ELSE [node EXCEPT !.phase = "pending?"]
       \/ /\ node.phase = "pending?"
          /\ node' = [node EXCEPT !.phase = "idle", !.tick = @ \/ pending > 0]
    /\ UNCHANGED <<stream, requests, stopFlags, channel, pending, history, spoken, taken>>

\* on_finish, or on_abort after a failure.
End ==
    /\ node.phase \in {"idle", "failed"}
    /\ CancelCurrent([node EXCEPT !.phase = "ended", !.worker = NoWorker, !.tick = FALSE])
    /\ UNCHANGED <<stream, requests, history, spoken, taken>>

----------------------------------------------------------------------------
(* run_llm_request                                                         *)

Worker(g, worker) == requests' = [requests EXCEPT ![g] = worker]

\* What the worker will send next, after it has counted it.
Announce(g, kind) ==
    /\ pending' = pending + 1
    /\ Worker(g, [requests[g] EXCEPT !.at = "send", !.next = kind])
    /\ UNCHANGED <<node, stream, stopFlags, channel, history, spoken, taken>>

\* send_json: a response, or an error.
Respond(g) ==
    /\ requests[g].at = "request"
    /\ \/ Announce(g, "error")
       \/ /\ Worker(g, [requests[g] EXCEPT !.at = "read"])
          /\ UNCHANGED <<node, stream, stopFlags, channel, pending, history, spoken, taken>>

\* The head of the read loop, which a body read at once has not.
SeeCancel(g) ==
    /\ requests[g].at = "read" /\ stream /\ g \in stopFlags
    /\ Worker(g, [requests[g] EXCEPT !.at = "done"])
    /\ UNCHANGED <<node, stream, stopFlags, channel, pending, history, spoken, taken>>

\* read_line blocks after the flag was looked at: it may be set meanwhile.
StartRead(g) ==
    /\ requests[g].at = "read" /\ ~(stream /\ g \in stopFlags)
    /\ Worker(g, [requests[g] EXCEPT !.at = "line"])
    /\ UNCHANGED <<node, stream, stopFlags, channel, pending, history, spoken, taken>>

\* A delta; or the end, which a read error and a timeout look like too.
ReadLine(g) ==
    /\ requests[g].at = "line"
    /\ \/ requests[g].sent < (IF stream THEN MaxDeltas ELSE 1) /\ Announce(g, "delta")
       \/ Announce(g, "done")

Send(g) ==
    /\ requests[g].at = "send"
    /\ LET delta == requests[g].next = "delta"
           number == IF delta THEN requests[g].sent + 1 ELSE requests[g].sent
       IN /\ channel' = Append(channel, Result(requests[g].next, g, number))
          /\ Worker(g, [at |-> IF delta THEN "read" ELSE "done", sent |-> number, next |-> "none"])
    /\ UNCHANGED <<node, stream, stopFlags, pending, history, spoken, taken>>

WorkerStep(g) == Respond(g) \/ SeeCancel(g) \/ StartRead(g) \/ ReadLine(g) \/ Send(g)
NodeStep == Tick \/ DrainOne \/ DrainEnds \/ HasPendingWork
LlmNext ==
    \/ Prompt \/ CancelSignal \/ NodeStep \/ End
    \/ \E g \in DOMAIN requests : WorkerStep(g)

\* The Node's thread runs its callbacks and its due ticks, and a worker ends:
\* the agent's timeout_global bounds every read.
LlmFair ==
    /\ WF_llmVars(NodeStep)
    /\ \A g \in 1..MaxPrompts : WF_llmVars(g \in DOMAIN requests /\ WorkerStep(g))

----------------------------------------------------------------------------
(* Properties                                                              *)

LlmTypeOK ==
    /\ node.phase \in {"idle", "drain", "finished?", "pending?", "failed", "ended"}
    /\ node.generation \in 0..(MaxPrompts + 1) /\ node.budget \in 0..MaxResults
    /\ DOMAIN requests = 1..Cardinality(DOMAIN requests)
    /\ Len(history) <= 2 * HistoryTurns

\* pending counts the results in the channel and those about to be sent; it
\* covers the channel at any moment, so fetch_sub never wraps the counter.
PendingCoversChannel ==
    pending = Len(channel) + Cardinality({g \in DOMAIN requests : requests[g].at = "send"})

\* When the Node sleeps without a tick, the current answer has nothing more to
\* give: no worker that runs, no result of its generation in the channel.
NoForgottenResult ==
    node.phase = "idle" /\ ~node.tick =>
        ~Running(node.worker) /\ \A i \in DOMAIN channel : ~Current(channel[i])

\* The text of an answer comes out in order and without a gap; its completion
\* comes after all of its text; and once a prompt or a Signal has come, nothing
\* of an earlier answer is spoken.
AnswersInOrder ==
    \A i \in DOMAIN spoken :
        LET r == spoken[i]
            before == {j \in 1..(i - 1) : spoken[j].generation = r.generation}
            deltas == {j \in before : spoken[j].kind = "delta"}
        IN /\ \A j \in 1..(i - 1) : spoken[j].generation <= r.generation
           /\ deltas = before
           /\ Cardinality(deltas) = IF r.kind = "delta" THEN r.number - 1 ELSE r.number


\* A prompt is answered to its end, unless a later one or a Signal cancels it
\* or the Node fails or ends.
PromptsAreAnswered ==
    \A g \in 1..MaxPrompts :
        node.worker = g ~> (g \in taken \/ node.generation # g \/ node.phase \in {"failed", "ended"})
=============================================================================
