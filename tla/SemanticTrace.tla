----------------------------- MODULE SemanticTrace -----------------------------
(***************************************************************************)
(* SemanticTraceStore (crates/muxiva-studio/src/semantic_trace.rs): the    *)
(* text, Events and Signals every worker of a run reports are kept in      *)
(* order and grouped into turns.  A turn marker moves the entries that     *)
(* came before it but belong to its turn into the new group.               *)
(***************************************************************************)
EXTENDS Integers, Sequences, SequencesExt, FiniteSets, FiniteSetsExt

CONSTANTS
    TraceRuns,     \* runs, numbered in the order of their ids
    MAX_SESSIONS,  \* 4 in the code
    MAX_ENTRIES,   \* 10000 in the code
    MAX_BYTES,     \* MAX_SESSION_PAYLOAD_BYTES
    TraceIds,      \* trace ids and sequences of the frames
    MaxObserved    \* bound on the observations of a run

VARIABLES
    traces,        \* run -> TraceSession, for the runs kept
    activeRun,        \* active_run_id, 0 for None
    opening,       \* run whose start_session has set active_run_id but not inserted its session
    observer,      \* the run id an append has read from active_run_id, -1 when there is none under way
    seen           \* ghost: observations offered to each session

traceVars == <<traces, activeRun, opening, observer, seen>>

NewTrace == [status |-> "running", next |-> 0, bytes |-> 0, dropped |-> 0, markers |-> {}, turns |-> <<>>]

TraceInit ==
    /\ traces = <<>> /\ activeRun = 0 /\ opening = 0 /\ observer = -1
    /\ seen = [r \in 1..TraceRuns |-> 0]

-----------------------------------------------------------------------------
(* TraceSession::append *)

Turn(label, entries) == [label |-> label, entries |-> entries]

WithoutCarried(entries, at) == SubSeq(entries, 1, at)

\* The longest suffix of entries that share the marker's sequence or its trace.
SplitAt(entries, e) ==
    LET others == {i \in DOMAIN entries : entries[i].sequence # e.sequence /\ entries[i].trace # e.trace}
    IN Max(others \cup {0})

\* The turns after a new marker: the unmarked first group takes its label, or a turn is opened
\* with what it carries over.
WithTurn(turns, e) ==
    IF Len(turns) = 1 /\ turns[1].label = "flow" THEN <<[turns[1] EXCEPT !.label = "turn"]>>
    ELSE IF turns = <<>> THEN <<Turn("turn", <<>>)>>
    ELSE LET entries == Last(turns).entries
             at == SplitAt(entries, e)
         IN Append(Front(turns) \o <<[Last(turns) EXCEPT !.entries = WithoutCarried(@, at)]>>,
                   Turn("turn", SubSeq(entries, at + 1, Len(entries))))

NewMarker(s, marker) == marker # <<>> /\ marker \notin s.markers

TraceAppended(s, e, marker) ==
    IF s.next >= MAX_ENTRIES \/ s.bytes >= MAX_BYTES THEN [s EXCEPT !.dropped = @ + 1]
    ELSE LET opened == IF NewMarker(s, marker) THEN WithTurn(s.turns, e) ELSE s.turns
             turns == IF opened = <<>> THEN <<Turn("flow", <<>>)>> ELSE opened
             entry == [e EXCEPT !.ordinal = s.next + 1]
         IN [s EXCEPT !.next = @ + 1, !.bytes = @ + e.bytes,
                      !.markers = @ \cup ({marker} \ {<<>>}),
                      !.turns = Front(turns) \o <<[Last(turns) EXCEPT !.entries = Append(@, entry)]>>]

-----------------------------------------------------------------------------
(* The store.  Its two mutexes are taken one after the other. *)

StartActive ==
    /\ opening = 0 /\ activeRun < TraceRuns
    /\ activeRun' = activeRun + 1 /\ opening' = activeRun + 1 /\ UNCHANGED <<traces, observer, seen>>

\* The session is inserted and the smallest run ids beyond the limit are removed.
StartInsert ==
    /\ opening # 0 /\ opening' = 0
    /\ LET kept == DOMAIN traces \cup {opening}
           stay == {r \in kept : Cardinality({q \in kept : q >= r}) <= MAX_SESSIONS}
       IN traces' = [r \in stay |-> IF r = opening THEN NewTrace ELSE traces[r]]
    /\ UNCHANGED <<activeRun, observer, seen>>

FinishTrace(r) ==
    /\ r \in DOMAIN traces /\ traces' = [traces EXCEPT ![r].status = "completed"]
    /\ traces[r].status = "running" /\ UNCHANGED <<activeRun, opening, observer, seen>>

\* append: the active run id is read under one mutex, the entry is added under the other.
AppendReads == observer = -1 /\ activeRun # 0 /\ observer' = activeRun /\ UNCHANGED <<traces, activeRun, opening, seen>>

AppendAdds ==
    /\ observer # -1 /\ observer' = -1
    /\ IF observer \notin DOMAIN traces THEN UNCHANGED <<traces, seen>>
       ELSE /\ seen[observer] < MaxObserved
            /\ \E trace \in TraceIds, sequence \in TraceIds, bytes \in 0..1,
                  name \in {"text", "turn.started", "speech.started"}, output \in BOOLEAN :
                LET marker == IF output /\ name # "text" THEN <<name, sequence, trace>> ELSE <<>>
                    e == [ordinal |-> 0, sequence |-> sequence, trace |-> trace, bytes |-> bytes]
                IN traces' = [traces EXCEPT ![observer] = TraceAppended(@, e, marker)]
            /\ seen' = [seen EXCEPT ![observer] = @ + 1]
    /\ UNCHANGED <<activeRun, opening>>

TraceNext ==
    \/ StartActive \/ StartInsert \/ AppendReads \/ AppendAdds
    \/ \E r \in 1..TraceRuns : FinishTrace(r)

-----------------------------------------------------------------------------
(* Properties *)

Entries(s) == FlattenSeq([i \in DOMAIN s.turns |-> s.turns[i].entries])

\* Whatever is carried from turn to turn, the turns put one after another hold every entry
\* accepted, once and in the order of arrival, within the limit; the rest is counted as dropped.
TurnsPartitionTheTrace ==
    \A r \in DOMAIN traces :
        LET s == traces[r]
        IN /\ [i \in DOMAIN Entries(s) |-> Entries(s)[i].ordinal] = [i \in 1..s.next |-> i]
           /\ s.next + s.dropped = seen[r] /\ s.next <= MAX_ENTRIES
           /\ Cardinality(DOMAIN traces) <= MAX_SESSIONS

\* A marker reported at several ports of its Node opens one turn.
OneTurnPerMarker ==
    \A r \in DOMAIN traces : Len(traces[r].turns) <= Cardinality(traces[r].markers) + 1
=============================================================================
