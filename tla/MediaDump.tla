------------------------------ MODULE MediaDump ------------------------------
(***************************************************************************)
(* MediaDumpStore (crates/muxiva-studio/src/media_dump.rs): Runtime        *)
(* workers hand media frames to one writer thread over a bounded channel,  *)
(* the Studio threads open and close a recording per run and list what     *)
(* was recorded.  Two mutexes: active, and sessions (shared with the       *)
(* writer).  Lock holders are named where a thread waits while it holds    *)
(* one; other critical sections are single steps.                          *)
(***************************************************************************)
EXTENDS Integers, Sequences, FiniteSets

CONSTANTS
    MaxRuns,              \* bound on the runs started
    MaxFrames,            \* bound on the frames a run shows to its observer
    CAPTURE_QUEUE_FRAMES, \* slots of the writer's channel
    MAX_SESSION_FRAMES,   \* MAX_SESSION_BYTES, in frames
    RETAINED_SESSIONS

ASSUME MediaAssumption ==
    /\ MaxRuns \in Nat /\ MaxFrames \in Nat /\ MAX_SESSION_FRAMES \in Nat
    /\ CAPTURE_QUEUE_FRAMES \in Nat \ {0} /\ RETAINED_SESSIONS \in Nat \ {0}

VARIABLES
    active,       \* the recording being made: run and whether Finish was sent
    sessions,     \* run -> what the listing says of it
    queue,        \* the writer's channel
    writer,       \* the writer thread: its session and whether it must publish
    activeLock,   \* who holds the active mutex across a blocking send, or "free"
    sessionsLock, \* who holds the sessions mutex while it waits for active
    dirs,         \* directories of recordings on disk
    manifests,    \* run -> the manifest written on disk
    taken         \* ghost: run -> frames the channel accepted

mediaVars == <<active, sessions, queue, writer, activeLock, sessionsLock, dirs, manifests, taken>>

Runs == 1..MaxRuns
Status(state, frames) == [state |-> state, frames |-> frames]
NoWriter == [run |-> 0, status |-> Status("none", 0), error |-> FALSE, publish |-> <<>>]
Unset == <<>>

Newest(runs) == {r \in runs : Cardinality({q \in runs : q > r}) < RETAINED_SESSIONS}
Retain(listing) == [r \in Newest(DOMAIN listing) |-> listing[r]]
With(listing, r, status) == [q \in DOMAIN listing \cup {r} |-> IF q = r THEN status ELSE listing[q]]

\* load_sessions: the recordings that have a manifest, the newest of them.
Opened == Retain(manifests)

MediaInit ==
    /\ active = [run |-> 0, finished |-> TRUE] /\ sessions = Unset /\ queue = <<>>
    /\ writer = NoWriter /\ activeLock = "free" /\ sessionsLock = "free"
    /\ dirs = {} /\ manifests = Unset /\ taken = [r \in Runs |-> 0]

Room == Len(queue) < CAPTURE_QUEUE_FRAMES

-----------------------------------------------------------------------------
(* start_session, finish_session and status_json, step by step for a thread t. *)

Activate(run) ==
    /\ activeLock = "free"
    /\ active' = [run |-> run, finished |-> FALSE]
    /\ UNCHANGED <<sessions, queue, writer, activeLock, sessionsLock, dirs, manifests, taken>>

List(run) ==
    /\ sessionsLock = "free"
    /\ sessions' = Retain(With(sessions, run, Status("running", 0)))
    /\ UNCHANGED <<active, queue, writer, activeLock, sessionsLock, dirs, manifests, taken>>

\* A blocking send of Start; the caller holds neither mutex.
SendStart(run) ==
    /\ Room /\ queue' = Append(queue, [kind |-> "start", run |-> run])
    /\ UNCHANGED <<active, sessions, writer, activeLock, sessionsLock, dirs, manifests, taken>>

Finishes(run) == active.run = run /\ ~active.finished

\* finish_session marks the recording finished and then sends, holding active all the while.
MarkFinished(t, run) ==
    /\ activeLock = "free" /\ Finishes(run)
    /\ active' = [active EXCEPT !.finished = TRUE] /\ activeLock' = t
    /\ UNCHANGED <<sessions, queue, writer, sessionsLock, dirs, manifests, taken>>
SendFinish(t) ==
    /\ activeLock = t /\ Room
    /\ queue' = Append(queue, [kind |-> "finish", run |-> active.run])
    /\ activeLock' = "free"
    /\ UNCHANGED <<active, sessions, writer, sessionsLock, dirs, manifests, taken>>

\* status_json locks sessions, then active, and reads both.
LockSessions(t) ==
    /\ sessionsLock = "free" /\ sessionsLock' = t
    /\ UNCHANGED <<active, sessions, queue, writer, activeLock, dirs, manifests, taken>>
ReadStatus(t) ==
    /\ sessionsLock = t /\ activeLock = "free" /\ sessionsLock' = "free"
    /\ UNCHANGED <<active, sessions, queue, writer, activeLock, dirs, manifests, taken>>

\* observe_frame on a Runtime worker: a try_send; a full channel drops the frame.
Observe(run) ==
    /\ IF Room
       THEN /\ queue' = Append(queue, [kind |-> "capture", run |-> run])
            /\ taken' = [taken EXCEPT ![run] = @ + 1]
       ELSE UNCHANGED <<queue, taken>>
    /\ UNCHANGED <<active, sessions, writer, activeLock, sessionsLock, dirs, manifests>>

-----------------------------------------------------------------------------
(* writer_loop. *)

\* SessionWriter::finish: artifacts finalised (which may fail), then the manifest.
Finalised(w, ok) ==
    Status(IF w.error \/ ~ok THEN "completed-with-errors" ELSE "completed", w.status.frames)
Manifested(w, status) == IF w.run = 0 THEN manifests ELSE With(manifests, w.run, status)

Captured(w) == [w EXCEPT !.status.frames = @ + 1]

\* One command: Start finishes the recording before it, makes the directory (or marks the
\* run failed) and prunes old directories; Capture writes a frame within the byte limit;
\* Finish closes the recording it names.  What changed is published under sessions next.
WriterTakes ==
    /\ queue # <<>> /\ writer.publish = <<>> /\ queue' = Tail(queue)
    /\ LET command == Head(queue)
       IN \/ /\ command.kind = "start"
             /\ \E ok, created \in BOOLEAN :
                 LET ended == Finalised(writer, ok)
                     before == IF writer.run = 0 THEN <<>> ELSE <<[run |-> writer.run, status |-> ended]>>
                     after == IF created THEN <<>>
                              ELSE <<[run |-> command.run, status |-> Status("failed", 0)]>>
                 IN /\ writer' = [NoWriter EXCEPT
                            !.run = IF created THEN command.run ELSE 0,
                            !.status = IF created THEN Status("running", 0) ELSE @,
                            !.publish = before \o after]
                    /\ manifests' = [r \in DOMAIN Manifested(writer, ended) \cap
                                           Newest(dirs \cup IF created THEN {command.run} ELSE {})
                                        |-> Manifested(writer, ended)[r]]
             /\ dirs' = Newest(dirs \cup IF writer'.run = 0 THEN {} ELSE {command.run})
          \/ /\ command.kind = "capture" /\ writer.run = 0
             /\ UNCHANGED <<writer, dirs, manifests>>
          \/ /\ command.kind = "capture" /\ writer.run # 0
             /\ \E ok \in BOOLEAN :
                 LET w == IF writer.status.frames >= MAX_SESSION_FRAMES THEN writer
                          ELSE IF ok THEN Captured(writer) ELSE [writer EXCEPT !.error = TRUE]
                 IN writer' = [w EXCEPT !.publish = <<[run |-> w.run, status |-> w.status]>>]
             /\ UNCHANGED <<dirs, manifests>>
          \/ /\ command.kind = "finish" /\ writer.run # command.run
             /\ UNCHANGED <<writer, dirs, manifests>>
          \/ /\ command.kind = "finish" /\ writer.run = command.run
             /\ \E ok \in BOOLEAN :
                 LET ended == Finalised(writer, ok)
                 IN /\ writer' = [NoWriter EXCEPT !.publish = <<[run |-> command.run, status |-> ended]>>]
                    /\ manifests' = Manifested(writer, ended)
             /\ UNCHANGED dirs
    /\ UNCHANGED <<active, sessions, activeLock, sessionsLock, taken>>

\* publish inserts under the sessions mutex; the failed mark only if the run is still listed.
WriterPublishes ==
    /\ writer.publish # <<>> /\ sessionsLock = "free"
    /\ LET p == Head(writer.publish)
       IN sessions' = IF p.status.state = "failed" /\ p.run \notin DOMAIN sessions THEN sessions
                      ELSE With(sessions, p.run, p.status)
    /\ writer' = [writer EXCEPT !.publish = Tail(@)]
    /\ UNCHANGED <<active, queue, activeLock, sessionsLock, dirs, manifests, taken>>

\* The process dies and starts again on the same project directory.
MediaRestart ==
    /\ active' = [run |-> 0, finished |-> TRUE] /\ queue' = <<>> /\ writer' = NoWriter
    /\ sessions' = Opened /\ activeLock' = "free" /\ sessionsLock' = "free"
    /\ UNCHANGED <<dirs, manifests, taken>>

-----------------------------------------------------------------------------
\* A frame is written into the recording of the run that showed it, although the channel does
\* not name the run (Command::Capture): the next run is started only after the last has ended.
FramesUnderTheirRun ==
    queue # <<>> /\ Head(queue).kind = "capture" => writer.run \in {0, Head(queue).run}

\* A recording listed as completed without errors holds every frame the channel accepted for
\* its run, up to the byte limit: nothing arrives after Finish (finish_session, publish).
CompletedIsComplete ==
    \A r \in DOMAIN sessions :
        sessions[r].state = "completed"
            => sessions[r].frames = IF taken[r] < MAX_SESSION_FRAMES THEN taken[r] ELSE MAX_SESSION_FRAMES
=============================================================================
