-------------------------------- MODULE DevHost --------------------------------
(***************************************************************************)
(* Studio's development hosts (crates/muxiva-studio/src/node_library.rs): *)
(* PythonDevNode and TypeScriptDevNode drive a child process over its      *)
(* stdin and stdout, one JSON line per message.  While the child processes *)
(* a frame it streams a line for every action of the node; then, as for    *)
(* every other command, it prints one reply.                               *)
(***************************************************************************)
EXTENDS Integers, Sequences, SequencesExt

CONSTANTS
    MaxCommands,   \* bound on the lifecycle calls before the last one
    MaxActions     \* bound on the actions of one hook

VARIABLES
    child,     \* [pc, cmd, op, acts]: the host process
    stdin,     \* command lines the child has not read
    stdout,    \* lines the Node has not read
    caller,    \* [pc, cmd, op]: the Node
    commands,  \* commands sent
    printed,   \* ghost: actions the child produced
    applied,   \* ghost: actions applied to the NodeContext, in order
    ran,       \* ghost: hooks the child ran to their end, [cmd, op]
    strayed    \* ghost: a call ended on a line other than its reply

devVars == <<child, stdin, stdout, caller, commands, printed, applied, ran, strayed>>

Kinds == {"emission", "event", "signal", "metric"}
HostLine(cmd, kind, acts) == [cmd |-> cmd, kind |-> kind, acts |-> acts]
Child(pc, cmd, op) == [pc |-> pc, cmd |-> cmd, op |-> op, acts |-> <<>>]

DevInit ==
    /\ child = Child("absent", 0, "none") /\ caller = [pc |-> "none", cmd |-> 0, op |-> "none"]
    /\ stdin = <<>> /\ stdout = <<>> /\ commands = 0 /\ printed = 0 /\ applied = <<>> /\ ran = {}
    /\ strayed = FALSE

-----------------------------------------------------------------------------
(* The child *)

Say(line) == stdout' = Append(stdout, line)

\* The package is imported before the ready line; importing it may print, or fail.
ChildStarts ==
    /\ child.pc = "starting"
    /\ \/ child' = Child("waiting", 0, "none") /\ Say(HostLine(0, "ready", <<>>))
       \/ child' = Child("waiting", 0, "none")
            /\ stdout' = stdout \o <<HostLine(0, "noise", <<>>), HostLine(0, "ready", <<>>)>>
       \/ child' = Child("exited", 0, "none") /\ UNCHANGED stdout
    /\ UNCHANGED <<stdin, caller, commands, printed, applied, ran, strayed>>

ChildTakes ==
    /\ child.pc = "waiting" /\ stdin # <<>>
    /\ child' = Child("running", Head(stdin).cmd, Head(stdin).op) /\ stdin' = Tail(stdin)
    /\ UNCHANGED <<stdout, caller, commands, printed, applied, ran, strayed>>

\* ctx.emit, publish_notification, emit_signal and the metrics: streamed by process, collected by
\* the other hooks.  The Node will refuse a bad one.
ChildActs ==
    /\ child.pc = "running" /\ child.op \in {"process", "signal"} /\ printed < MaxActions
    /\ \E kind \in Kinds, good \in BOOLEAN :
        LET act == [n |-> printed + 1, kind |-> kind, good |-> good]
        IN /\ printed' = printed + 1
           /\ IF child.op = "process"
              THEN Say(HostLine(child.cmd, "action", <<act>>)) /\ UNCHANGED child
              ELSE child' = [child EXCEPT !.acts = Append(@, act)] /\ UNCHANGED stdout
    /\ UNCHANGED <<stdin, caller, commands, applied, ran, strayed>>

\* The node writes to stdout itself.
ChildPrints ==
    /\ child.pc = "running" /\ child.acts = <<>> /\ printed < MaxActions
    /\ Say(HostLine(child.cmd, "noise", <<>>)) /\ printed' = printed + 1
    /\ UNCHANGED <<child, stdin, caller, commands, applied, ran, strayed>>

\* The reply, or what an exception becomes; leaving the interpreter is not caught.
ChildReplies ==
    /\ child.pc = "running"
    /\ \/ /\ Say(HostLine(child.cmd, "ok", child.acts)) /\ child' = Child("waiting", 0, "none")
          /\ ran' = ran \cup {[cmd |-> child.cmd, op |-> child.op]}
       \/ /\ Say(HostLine(child.cmd, "error", <<>>)) /\ child' = Child("waiting", 0, "none")
          /\ ran' = ran \cup {[cmd |-> child.cmd, op |-> child.op]}
       \/ child' = Child("exited", 0, "none") /\ UNCHANGED <<stdout, ran>>
    /\ UNCHANGED <<stdin, caller, commands, printed, applied, strayed>>

-----------------------------------------------------------------------------
(* The Node *)

Caller(pc) == caller' = [caller EXCEPT !.pc = pc]
Gone == child.pc \in {"exited", "killed"}
EndOfFile == Gone /\ stdout = <<>>

Spawn ==
    /\ caller.pc = "none" /\ Caller("ready") /\ child' = Child("starting", 0, "none")
    /\ UNCHANGED <<stdin, stdout, commands, printed, applied, ran, strayed>>

\* spawn: without the ready line the factory fails, and the child is left to itself.
ReadReady ==
    /\ caller.pc = "ready" /\ (stdout # <<>> \/ EndOfFile)
    /\ IF stdout # <<>> /\ Head(stdout).kind = "ready" THEN Caller("idle") ELSE Caller("refused")
    /\ stdout' = IF stdout = <<>> THEN stdout ELSE Tail(stdout)
    /\ UNCHANGED <<child, stdin, commands, printed, applied, ran, strayed>>

AfterSend(op) == "reading"

\* writeln and flush: the command is queued even when the child is busy; a closed pipe fails.
Send(op) ==
    /\ commands' = commands + 1
    /\ IF Gone
       THEN /\ caller' = [pc |-> IF op = "abort" THEN "last" ELSE "failed", cmd |-> commands + 1, op |-> op]
            /\ UNCHANGED stdin
       ELSE /\ caller' = [pc |-> AfterSend(op), cmd |-> commands + 1, op |-> op]
            /\ stdin' = Append(stdin, [cmd |-> commands + 1, op |-> op])
    /\ UNCHANGED <<child, stdout, printed, applied, ran, strayed>>

\* The runtime: prepare, then frames and Signals, then finish.
Lifecycle ==
    /\ caller.pc = "idle" /\ commands < MaxCommands
    /\ \E op \in {"prepare", "process", "signal", "finish"} :
        /\ (op = "prepare") = (caller.op = "none") /\ caller.op # "finish"
        /\ Send(op)

\* A failed hook, or another Node's failure, aborts the graph.
Abort == caller.pc \in {"idle", "failed"} /\ caller.op \notin {"none", "finish"} /\ Send("abort")

Streamed(line) == line.kind = "action"

\* apply_host_actions: all emissions, then events, Signals and metrics, up to the first refused.
Grouped(acts) ==
    SelectSeq(acts, LAMBDA a : a.kind = "emission") \o SelectSeq(acts, LAMBDA a : a.kind = "event")
    \o SelectSeq(acts, LAMBDA a : a.kind = "signal") \o SelectSeq(acts, LAMBDA a : a.kind = "metric")
Accepted(acts) ==
    LET bad == {i \in DOMAIN acts : ~acts[i].good}
    IN SelectSeq([i \in DOMAIN acts |-> [act |-> acts[i], keep |-> \A b \in bad : i < b]], LAMBDA a : a.keep)
Apply(line, acts) ==
    applied' = applied \o [i \in DOMAIN Accepted(acts) |->
                    [during |-> caller.cmd, of |-> line.cmd, n |-> Accepted(acts)[i].act.n, op |-> caller.op]]
AllGood(acts) == \A i \in DOMAIN acts : acts[i].good

Strays(line) ==
    strayed' = (strayed \/ line.kind = "noise" \/ (line.kind = "action" /\ ~AllGood(line.acts)))

\* on_process: lines are applied as they come, until a reply or the first error.
ReadProcess ==
    /\ caller.pc = "reading" /\ caller.op = "process" /\ stdout # <<>>
    /\ LET line == Head(stdout)
       IN IF Streamed(line)
          THEN /\ Apply(line, line.acts)
               /\ IF AllGood(line.acts) THEN UNCHANGED caller ELSE Caller("failed")
          ELSE /\ UNCHANGED applied
               /\ Caller(IF line.kind \in {"ok", "action"} THEN "idle" ELSE "failed")
    /\ stdout' = Tail(stdout) /\ Strays(Head(stdout))
    /\ UNCHANGED <<child, stdin, commands, printed, ran>>

\* call: one line is the answer, whatever it is.  on_abort ignores it; on_signal applies it.
ReadReply ==
    /\ caller.pc = "reading" /\ caller.op # "process" /\ stdout # <<>>
    /\ LET line == Head(stdout)
           acts == IF caller.op = "signal" /\ line.kind = "ok" THEN Grouped(line.acts) ELSE <<>>
       IN /\ Apply(line, acts)
          /\ Caller(IF caller.op = "abort" THEN "last"
                    ELSE IF line.kind = "ok" /\ AllGood(acts) THEN "idle" ELSE "failed")
    /\ stdout' = Tail(stdout) /\ Strays(Head(stdout))
    /\ UNCHANGED <<child, stdin, commands, printed, ran>>

ReadEndOfFile ==
    /\ caller.pc = "reading" /\ EndOfFile
    /\ Caller(IF caller.op = "abort" THEN "last" ELSE "failed")
    /\ UNCHANGED <<child, stdin, stdout, commands, printed, applied, ran, strayed>>

Killed == IF Gone THEN child ELSE Child("killed", 0, "none")

\* Drop: a close command nobody waits for, kill, wait.
Drop ==
    /\ caller.pc = "last" \/ (caller.pc = "idle" /\ caller.op \in {"none", "finish"})
       \/ (caller.pc = "failed" /\ caller.op \in {"prepare", "finish"})
    /\ child' = Killed /\ Caller("dropped")
    /\ UNCHANGED <<stdin, stdout, commands, printed, applied, ran, strayed>>

DevNext ==
    \/ ChildStarts \/ ChildTakes \/ ChildActs \/ ChildPrints \/ ChildReplies
    \/ Spawn \/ ReadReady \/ Lifecycle \/ Abort \/ ReadProcess \/ ReadReply \/ ReadEndOfFile \/ Drop

-----------------------------------------------------------------------------
(* Properties *)

\* Lines carry no command number: an action is applied to the context of the hook that made
\* it, and those streamed while processing in the order the node made them.
ActionsBelongToTheirHook ==
    /\ \A i \in DOMAIN applied : applied[i].during = applied[i].of
    /\ \A i, j \in DOMAIN applied :
        (i < j /\ applied[i].op = "process" /\ applied[j].op = "process") => applied[i].n < applied[j].n

\* Between two successful calls both pipes are empty and the child waits, so that the next
\* line read answers the next command.
QuietBetweenCalls == caller.pc = "idle" => stdin = <<>> /\ stdout = <<>> /\ child.pc = "waiting"

\* The process of a Node that was created is gone once the Node is dropped.
ChildDoesNotOutliveNode == caller.pc = "dropped" => Gone

\* The child's on_abort runs to its end before the child is killed, unless the child exited or a
\* call had ended on a line other than its reply: then on_abort reads what was left over, and
\* the kill that follows may cut the hook off.
AbortHookCompletes ==
    (caller.pc \in {"last", "dropped"} /\ caller.op = "abort" /\ child.pc # "exited" /\ ~strayed)
        => [cmd |-> caller.cmd, op |-> "abort"] \in ran

=============================================================================
