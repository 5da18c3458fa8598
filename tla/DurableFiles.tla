----------------------------- MODULE DurableFiles -----------------------------
(***************************************************************************)
(* How Studio replaces the files it keeps: save_graph                      *)
(* (crates/muxiva-studio/src/lib.rs), atomic_write for the two files of a  *)
(* node package, and write_dotenv for the connections                      *)
(* (node_library.rs).  Requests are served one at a time; the machine or   *)
(* the process may stop between any two steps.  After a power loss data    *)
(* that was not synced is lost, and a rename may be undone.                *)
(***************************************************************************)
EXTENDS Integers, Sequences

CONSTANTS
    MaxSaves,     \* bound on the save requests
    MaxCrashes    \* bound on the crashes

VARIABLES
    target,       \* path -> [value, synced, old]: the file under its name; old: what an undone rename restores
    temp,         \* path -> [value, synced, seq], seq 0 when there is no temporary file
    save,         \* [pc, kind, left, value]: the request being served
    sequence,     \* NEXT_FILE or NEXT_TEMP_FILE of this process
    memory,       \* ConnectionStore.values
    environment,  \* the process environment
    reply,        \* outcome of the last request, "none" before it is known
    saves, crashes

fileVars == <<target, temp, save, sequence, memory, environment, reply, saves, crashes>>

Kept == {"graph", "manifest", "code", "env"}
FilesOf(kind) ==
    CASE kind = "graph" -> <<"graph">> [] kind = "package" -> <<"manifest", "code">>
      [] kind = "connections" -> <<"env">>
NoSave == [pc |-> "idle", kind |-> "none", left |-> <<>>, value |-> 0]
Partial == -1   \* part of a document
NoTemp == [value |-> 0, synced |-> TRUE, seq |-> 0]

FilesInit ==
    /\ target = [f \in Kept |-> [value |-> 0, synced |-> TRUE, old |-> 0]]
    /\ temp = [f \in Kept |-> NoTemp] /\ save = NoSave /\ sequence = 1
    /\ memory = 0 /\ environment = 0 /\ reply = "none" /\ saves = 0 /\ crashes = 0

-----------------------------------------------------------------------------
(* Requests *)

\* PUT of the graph or of a package, past validation.  update_json changes the values first; a
\* field it refuses half way leaves the earlier ones changed and writes nothing.
Request(kind) ==
    /\ save.pc = "idle" /\ saves < MaxSaves /\ saves' = saves + 1
    /\ \/ /\ save' = [pc |-> "create", kind |-> kind, left |-> FilesOf(kind), value |-> saves + 1]
          /\ memory' = IF kind = "connections" THEN saves + 1 ELSE memory
          /\ reply' = "none"
       \/ /\ kind = "connections" /\ memory' = saves + 1 /\ reply' = "error" /\ UNCHANGED save
    /\ UNCHANGED <<target, temp, sequence, environment, crashes>>

Path == Head(save.left)

\* The names of the graph's and the connections' temporary files hold the process id; those of a
\* package only the counter, which starts again with the process.
Collides == Path \in {"manifest", "code"} /\ temp[Path].seq = sequence

\* The closure failed: the temporary file is removed and the request is answered.
Failed ==
    /\ temp' = [temp EXCEPT ![Path] = NoTemp] /\ save' = NoSave /\ reply' = "error"
    /\ UNCHANGED target

CreateTemp ==
    /\ save.pc = "create" /\ sequence' = sequence + 1
    /\ \/ Failed
       \/ /\ ~Collides /\ save' = [save EXCEPT !.pc = "write"]
          /\ temp' = [temp EXCEPT ![Path] = [value |-> Partial, synced |-> FALSE, seq |-> sequence]]
          /\ UNCHANGED <<reply, target>>
    /\ UNCHANGED <<memory, environment, saves, crashes>>

WriteTemp ==
    /\ save.pc = "write"
    /\ \/ Failed
       \/ /\ temp' = [temp EXCEPT ![Path].value = save.value] /\ save' = [save EXCEPT !.pc = "sync"]
          /\ UNCHANGED <<reply, target>>
    /\ UNCHANGED <<sequence, memory, environment, saves, crashes>>

\* Mutant: the data is left to the page cache.
NotSynced == FALSE
Synced == TRUE

SyncTemp ==
    /\ save.pc = "sync"
    /\ \/ Failed
       \/ /\ temp' = [temp EXCEPT ![Path].synced = Synced] /\ save' = [save EXCEPT !.pc = "rename"]
          /\ UNCHANGED <<reply, target>>
    /\ UNCHANGED <<sequence, memory, environment, saves, crashes>>

LastFile == Len(save.left) = 1

\* rename; the second file of a package follows.  The environment is set after write_dotenv.
Rename ==
    /\ save.pc = "rename"
    /\ \/ Failed /\ UNCHANGED environment
       \/ /\ target' = [target EXCEPT ![Path] = [value |-> temp[Path].value, synced |-> temp[Path].synced,
                                                  old |-> target[Path].value]]
          /\ temp' = [temp EXCEPT ![Path] = NoTemp]
          /\ environment' = IF Path = "env" THEN memory ELSE environment
          /\ IF LastFile
             THEN save' = NoSave /\ reply' = "ok"
             ELSE save' = [save EXCEPT !.pc = "create", !.left = Tail(@)] /\ UNCHANGED reply
    /\ UNCHANGED <<sequence, memory, saves, crashes>>

\* A stop of the process keeps the files; a power loss may tear what was not synced and undo a
\* rename.  The next Studio reads the .env file.
Crash ==
    /\ crashes < MaxCrashes /\ crashes' = crashes + 1
    /\ \E power \in BOOLEAN, undone \in SUBSET Kept :
        LET after(f) == IF f \in undone THEN target[f].old
                        ELSE IF target[f].synced THEN target[f].value ELSE Partial
        IN /\ ~power => undone = {}
           /\ target' = [f \in Kept |-> IF power THEN [value |-> after(f), synced |-> TRUE, old |-> after(f)]
                                         ELSE target[f]]
           /\ memory' = target'["env"].value /\ environment' = memory'
    /\ save' = NoSave /\ sequence' = 1 /\ reply' = "none"
    /\ UNCHANGED <<temp, saves>>

FilesNext ==
    \/ \E kind \in {"graph", "package", "connections"} : Request(kind)
    \/ CreateTemp \/ WriteTemp \/ SyncTemp \/ Rename \/ Crash

-----------------------------------------------------------------------------
(* Properties *)

\* Whatever stops between whichever steps, a file under its own name holds all of one document:
\* the one it held, the one a lost rename brings back, or the one being saved.
FilesStayWhole ==
    [][\A f \in Kept : \/ target'[f].value \in {target[f].value, target[f].old}
                       \/ save.pc = "rename" /\ f = Path /\ target'[f].value = save.value]_fileVars

\* A request answered with success left its document in every file it is made of, and the
\* connections in memory, on disk and in the environment agree.
ReplyTellsTheFiles ==
    [][reply' = "ok" /\ reply # "ok" =>
        /\ \A i \in DOMAIN FilesOf(save.kind) : target'[FilesOf(save.kind)[i]].value = save.value
        /\ save.kind = "connections" => memory' = environment' /\ target'["env"].value = memory']_fileVars

\* Neither a crash nor an error leaves a file or an answer that lies.
FilesSurviveCrashes == FilesStayWhole /\ ReplyTellsTheFiles
=============================================================================
