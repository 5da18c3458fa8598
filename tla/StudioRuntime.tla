---------------------------- MODULE StudioRuntime ----------------------------
(***************************************************************************)
(* Studio's run control (crates/muxiva-studio/src/lib.rs) and the media    *)
(* recordings it opens and closes: one thread serves HTTP requests one     *)
(* after another, a sampler thread takes a snapshot every five seconds;    *)
(* start, stop and snapshots hold the session mutex from end to end.  The  *)
(* history a snapshot is recorded in is in StudioHistory.                  *)
(***************************************************************************)
EXTENDS MediaDump

VARIABLES
    session,      \* the RuntimeSession in the session mutex, and its Runtime
    sessionLock,  \* holder of the session mutex, or "free"
    thread,       \* http and sampler: what each is doing
    started,      \* ghost: runs started so far
    reopened      \* ghost: Studio was restarted

studioVars == <<mediaVars, session, sessionLock, thread, started, reopened>>
runVars == <<session, started, reopened>>

Threads == {"http", "sampler"}
NoSession == [run |-> 0, state |-> "none", frames |-> 0]
At(t, pc) == thread[t].pc = pc
Goto(t, pc) == thread' = [thread EXCEPT ![t].pc = pc]

StudioInit ==
    /\ MediaInit
    /\ session = NoSession /\ sessionLock = "free" /\ started = 0 /\ reopened = FALSE
    /\ thread = [t \in Threads |-> [pc |-> "idle", run |-> 0, failed |-> FALSE]]

Active(s) == s.state = "running"
Ended(s) == s.state = "ended"

-----------------------------------------------------------------------------
(* runtime_snapshot_value, on either thread. *)

TakeSnapshot(t) ==
    /\ At(t, "idle") /\ sessionLock = "free" /\ sessionLock' = t
    /\ thread' = [thread EXCEPT ![t] = [pc |-> IF Ended(session) THEN "finish" ELSE "status",
                                        run |-> session.run, failed |-> FALSE]]
    /\ UNCHANGED <<mediaVars, runVars>>

\* media_dumps.finish_session, also of a run whose Runtime failed to start.
FinishMedia(t) ==
    /\ At(t, "finish")
    /\ \/ MarkFinished(t, thread[t].run) /\ Goto(t, "send_finish")
       \/ /\ activeLock = "free" /\ ~Finishes(thread[t].run)
          /\ Goto(t, IF thread[t].failed THEN "refuse" ELSE "status") /\ UNCHANGED mediaVars
    /\ UNCHANGED <<runVars, sessionLock>>
FinishSent(t) ==
    /\ At(t, "send_finish") /\ SendFinish(t)
    /\ Goto(t, IF thread[t].failed THEN "refuse" ELSE "status")
    /\ UNCHANGED <<runVars, sessionLock>>

\* status_json; a request for the media listing alone ends here.
StatusLocks(t) ==
    /\ At(t, "status") \/ At(t, "media")
    /\ LockSessions(t) /\ Goto(t, IF At(t, "media") THEN "media_active" ELSE "status_active")
    /\ UNCHANGED <<runVars, sessionLock>>
StatusReads(t) ==
    /\ At(t, "status_active") \/ At(t, "media_active")
    /\ ReadStatus(t) /\ Goto(t, IF At(t, "media_active") THEN "idle" ELSE "observe")
    /\ UNCHANGED <<runVars, sessionLock>>

ObserveAndUnlock(t) ==
    /\ At(t, "observe") /\ sessionLock' = "free" /\ Goto(t, "idle")
    /\ UNCHANGED <<mediaVars, runVars>>

\* GET /api/v1/observability/media takes no session mutex.
MediaRequest ==
    /\ At("http", "idle") /\ Goto("http", "media")
    /\ UNCHANGED <<mediaVars, runVars, sessionLock>>

-----------------------------------------------------------------------------
(* start_runtime. *)

\* Past parsing and compilation: 409 when a session is active, else the next number.
StartRequest ==
    /\ At("http", "idle") /\ sessionLock = "free" /\ ~Active(session) /\ started < MaxRuns
    /\ sessionLock' = "http" /\ started' = started + 1
    /\ thread' = [thread EXCEPT !["http"] = [pc |-> "activate", run |-> started + 1, failed |-> FALSE]]
    /\ UNCHANGED <<mediaVars, session, reopened>>

StartMedia ==
    /\ \/ At("http", "activate") /\ Activate(thread["http"].run) /\ Goto("http", "list")
       \/ At("http", "list") /\ List(thread["http"].run) /\ Goto("http", "send_start")
       \/ At("http", "send_start") /\ SendStart(thread["http"].run) /\ Goto("http", "launch")
    /\ UNCHANGED <<runVars, sessionLock>>

\* The Runtime starts and its session is installed, or its start fails and the old stays.
Launch ==
    /\ At("http", "launch")
    /\ \/ /\ session' = [NoSession EXCEPT !.run = thread["http"].run, !.state = "running"]
          /\ Goto("http", "status")
       \/ /\ thread' = [thread EXCEPT !["http"].pc = "finish", !["http"].failed = TRUE]
          /\ UNCHANGED session
    /\ UNCHANGED <<mediaVars, started, reopened, sessionLock>>
StartRefused ==
    /\ At("http", "refuse") /\ sessionLock' = "free" /\ Goto("http", "idle")
    /\ UNCHANGED <<mediaVars, runVars>>

-----------------------------------------------------------------------------
(* The Runtime of the session, and restarts. *)

\* A media frame at a port; ignored while the dump switch (set_enabled) is off.
ShowFrame ==
    /\ Active(session) /\ session.frames < MaxFrames
    /\ session' = [session EXCEPT !.frames = @ + 1]
    /\ Observe(session.run) \/ UNCHANGED mediaVars
    /\ UNCHANGED <<started, reopened, sessionLock, thread>>

RuntimeEnds ==
    /\ Active(session)
    /\ session' = [session EXCEPT !.state = "ended"]
    /\ UNCHANGED <<mediaVars, started, reopened, sessionLock, thread>>

\* The process dies and Studio starts again.
Reopen ==
    /\ ~reopened /\ reopened' = TRUE /\ MediaRestart
    /\ session' = NoSession /\ sessionLock' = "free"
    /\ thread' = [t \in Threads |-> [pc |-> "idle", run |-> 0, failed |-> FALSE]]
    /\ UNCHANGED started

StudioStep(t) ==
    FinishMedia(t) \/ FinishSent(t) \/ StatusLocks(t) \/ StatusReads(t) \/ ObserveAndUnlock(t)
WriterStep ==
    (WriterTakes \/ WriterPublishes) /\ UNCHANGED <<runVars, sessionLock, thread>>

StudioNext ==
    \/ \E t \in Threads : TakeSnapshot(t) \/ StudioStep(t)
    \/ MediaRequest \/ StartRequest \/ StartMedia \/ Launch \/ StartRefused
    \/ ShowFrame \/ RuntimeEnds \/ WriterStep \/ Reopen
=============================================================================
