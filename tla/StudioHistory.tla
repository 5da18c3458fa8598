---------------------------- MODULE StudioHistory ----------------------------
(***************************************************************************)
(* Studio's run numbers and observability history (crates/muxiva-studio    *)
(* src/lib.rs and src/observability.rs).  start_runtime, stop_runtime and  *)
(* runtime_snapshot_value hold the session mutex from end to end, so each  *)
(* is one step here; what they do to the media recordings is in            *)
(* StudioRuntime.  Samples are appended to a file and read back when       *)
(* Studio starts.  Time is not counted: an interval may or may not have    *)
(* passed.                                                                 *)
(***************************************************************************)
EXTENDS Integers, Sequences

CONSTANTS
    MaxSessions,         \* bound on the runs started
    MAX_HISTORY_SAMPLES, \* records kept in memory
    COMPACT_AT,          \* COMPACT_AT_BYTES, in lines
    COMPACT_TO_SAMPLES,
    MaxRestarts          \* bound on process restarts

ASSUME HistoryAssumption ==
    MAX_HISTORY_SAMPLES \in Nat \ {0} /\ COMPACT_AT \in Nat /\ COMPACT_TO_SAMPLES \in Nat

VARIABLES
    current,      \* the RuntimeSession in the session mutex, with the state of its Runtime
    next_session, \* the last session number given
    recording,    \* RecordingState
    records,      \* ObservabilityStore.records
    history,      \* the lines of history.jsonl
    exporting,    \* export threads alive
    launched,     \* ghost: runs started so far
    restarts      \* ghost: restarts so far

historyVars == <<current, next_session, recording, records, history, exporting, launched, restarts>>

NoRun == [run |-> 0, id |-> 0, state |-> "none", stop_requested |-> FALSE]
NotRecording == [run |-> 0, sampled |-> FALSE, terminal_saved |-> FALSE]
Torn == [run |-> 0, id |-> 0, status |-> "torn"]
Broken == [run |-> 0, id |-> 0, status |-> "broken"]

\* load_history keeps the lines that parse, the newest of them.
IsRecord(line) == line.run # 0
LastOf(s, n) == IF Len(s) > n THEN SubSeq(s, Len(s) - n + 1, Len(s)) ELSE s
Loaded == LastOf(SelectSeq(history, IsRecord), MAX_HISTORY_SAMPLES)

latest_session_id(loaded) ==
    IF loaded = <<>> THEN 0
    ELSE LET ids == {loaded[i].id : i \in DOMAIN loaded} IN CHOOSE n \in ids : \A m \in ids : m <= n

HistoryInit ==
    /\ current = NoRun /\ next_session = 0 /\ recording = NotRecording
    /\ records = <<>> /\ history = <<>> /\ exporting = 0 /\ launched = 0 /\ restarts = 0

-----------------------------------------------------------------------------
(* Snapshots and the history. *)

IsTerminal(status) == status \in {"completed", "aborted", "stopped"}

\* session_snapshot's status: what wait(0) says, relabelled after a stop request.
SnapshotStatus(s) ==
    CASE s.state = "running" -> IF s.stop_requested THEN "stopping" ELSE "running"
      [] s.state = "succeeded" -> "completed"
      [] s.state = "aborted" -> IF s.stop_requested THEN "stopped" ELSE "aborted"
      [] OTHER -> "idle"

Line(s) == [run |-> s.run, id |-> s.id, status |-> SnapshotStatus(s)]

\* append_record: the line lands after a torn one and is lost with it, or is appended; a long
\* file is rewritten with the newest records through a temporary file and a rename.
Appended(line) ==
    LET lines == IF history # <<>> /\ history[Len(history)] = Torn
                 THEN [history EXCEPT ![Len(history)] = Broken] ELSE Append(history, line)
    IN IF Len(lines) > COMPACT_AT THEN LastOf(LastOf(Append(records, line), MAX_HISTORY_SAMPLES), COMPACT_TO_SAMPLES)
       ELSE lines

\* maybe_export: at most one export thread; the interval may have passed or not.
MaybeExport == exporting' \in {exporting, IF exporting = 0 THEN 1 ELSE exporting}

Saved(saved, terminal) == saved \/ terminal

\* ObservabilityStore::observe: a new run is due at once; later samples every interval; a
\* terminal state once.
ObserveRun(s) ==
    LET terminal == IsTerminal(SnapshotStatus(s))
        state == IF recording.run = s.run THEN recording
                 ELSE [run |-> s.run, sampled |-> FALSE, terminal_saved |-> FALSE]
        save == /\ recording' = [state EXCEPT !.sampled = TRUE, !.terminal_saved = Saved(@, terminal)]
                /\ records' = LastOf(Append(records, Line(s)), MAX_HISTORY_SAMPLES)
                /\ history' \in {Appended(Line(s)), history}
                /\ MaybeExport
        skip == recording' = state /\ UNCHANGED <<records, history, exporting>>
    IN IF s.run = 0 THEN UNCHANGED <<recording, records, history, exporting>>
       ELSE \/ ~terminal /\ save
            \/ ~terminal /\ state.sampled /\ skip
            \/ terminal /\ ~state.terminal_saved /\ save
            \/ terminal /\ state.terminal_saved /\ skip

-----------------------------------------------------------------------------

\* start_runtime, past parsing and compilation: refused while a session is active; the number
\* is spent even when the Runtime does not start.
StartRun(ok) ==
    /\ current.state # "running" /\ launched < MaxSessions
    /\ launched' = launched + 1 /\ next_session' = next_session + 1
    /\ current' = IF ok THEN [NoRun EXCEPT !.run = launched', !.id = next_session', !.state = "running"]
                  ELSE current
    /\ IF ok THEN ObserveRun(current') ELSE UNCHANGED <<recording, records, history, exporting>>
    /\ UNCHANGED restarts

\* stop_runtime marks the session stopped even when its Runtime had already ended.
StopRun ==
    /\ current.run # 0 /\ current' = [current EXCEPT !.stop_requested = TRUE]
    /\ ObserveRun(current')
    /\ UNCHANGED <<next_session, launched, restarts>>

\* runtime_snapshot_value, for a request or the sampler.
SnapshotRun ==
    /\ current.run # 0 /\ ObserveRun(current)
    /\ UNCHANGED <<current, next_session, launched, restarts>>

RunEnded ==
    /\ current.state = "running"
    /\ \E end \in {"succeeded", "aborted"} : current' = [current EXCEPT !.state = end]
    /\ UNCHANGED <<next_session, recording, records, history, exporting, launched, restarts>>

ExportDone ==
    /\ exporting > 0 /\ exporting' = exporting - 1
    /\ UNCHANGED <<current, next_session, recording, records, history, launched, restarts>>

\* The process dies, perhaps in the middle of a line, and Studio starts again.
Restart ==
    /\ restarts < MaxRestarts /\ restarts' = restarts + 1
    /\ history' \in {history} \cup
           (IF current.run = 0 \/ (history # <<>> /\ history[Len(history)] = Torn) THEN {}
            ELSE {Append(history, Torn)})
    /\ current' = NoRun /\ exporting' = 0 /\ recording' = NotRecording
    /\ records' = Loaded /\ next_session' = latest_session_id(Loaded)
    /\ UNCHANGED launched

HistoryNext ==
    \/ \E ok \in BOOLEAN : StartRun(ok)
    \/ StopRun \/ SnapshotRun \/ RunEnded \/ ExportDone \/ Restart

-----------------------------------------------------------------------------
(* Properties. *)

\* Two different runs never appear in the history under one session number, across restarts
\* and lost or torn lines (latest_session_id, start_runtime).
SessionNumbersDistinguishRuns ==
    \A i, j \in DOMAIN records : records[i].id = records[j].id => records[i].run = records[j].run

\* The history holds at most one terminal record of a run, and it is its last, although a stop
\* after the end and both threads' snapshots observe the ended session (observe).
OneTerminalRecord ==
    \A i, j \in DOMAIN records :
        i < j /\ records[i].run = records[j].run => ~IsTerminal(records[i].status)

\* At most one export is in flight (OtlpExporter::maybe_export).
OneExport == exporting <= 1

=============================================================================
