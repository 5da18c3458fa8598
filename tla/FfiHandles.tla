------------------------------ MODULE FfiHandles ------------------------------
(***************************************************************************)
(* The handle registry of the C ABI (crates/muxiva-ffi/src/handles.rs) and *)
(* the objects behind it: NodeRecord (bridge.rs) with its run admission    *)
(* and its release, and ExternalIngress (ingress.rs).  Several host        *)
(* threads call the exports of lib.rs at once.  A step ends where a lock   *)
(* is given back or an atomic is accessed.                                 *)
(*                                                                         *)
(* closed.store(Release) followed by active.load(Acquire) of another cell  *)
(* may be reordered: the store sits in its thread's buffer until Drain, or *)
(* until that thread takes a lock or does a read-modify-write.             *)
(***************************************************************************)
EXTENDS Integers, Sequences, FiniteSets, FiniteSetsExt, SequencesExt

CONSTANTS
    Hosts,        \* threads of the embedding program
    MaxObjects,   \* bound on the entries inserted in a behaviour
    ItemCapacity, \* IngressConfig.item_capacity
    ByteCapacity, \* IngressConfig.byte_capacity
    MaxNodes,     \* bound on the node records among them
    FrameSizes,   \* copied payload lengths
    MaxSubmits    \* bound on the submissions

ASSUME HandlesAssumption ==
    /\ IsFiniteSet(Hosts) /\ MaxObjects \in Nat
    /\ ItemCapacity \in Nat \ {0} /\ ByteCapacity \in Nat \ {0} /\ FrameSizes \subseteq Nat

VARIABLES
    uses,      \* the kinds of handle this embedding releases, and creates besides one Runtime and Session
    registry,  \* Registry.slots
    kinds,     \* object -> kind, in the order of creation
    node,      \* object -> NodeRecord atomics
    ingress,   \* object -> ExternalIngress
    call,      \* host -> the export it is in
    buffer,    \* host -> objects whose closed store it has not published
    issued,    \* ghost: tokens handed out, with the object meant and whether released
    destroyed, \* ghost: nodes whose destroy callback ran
    freed      \* ghost: nodes whose release returned OK

ffiVars == <<uses, registry, kinds, node, ingress, call, buffer, issued, destroyed, freed>>

Objects == 1..MaxObjects
None == [kind |-> "none", object |-> 0]
Idle == [pc |-> "idle", object |-> 0, token |-> <<0, 0>>, size |-> 0, before |-> {}]
NewRecord == [active |-> 0, running |-> FALSE, closed |-> FALSE]
NewIngress == [closed |-> FALSE, queue |-> <<>>, bytes |-> 0, accepted |-> 0, full |-> 0,
               closed_drops |-> 0, popped |-> 0]

HandlesInit ==
    /\ uses \in {{"node", "runtime"}, {"ingress"}, {"frame", "session"}}
    /\ registry = <<>> /\ kinds = <<>>
    /\ node = [o \in Objects |-> NewRecord]
    /\ ingress = [o \in Objects |-> NewIngress]
    /\ call = [h \in Hosts |-> Idle]
    /\ buffer = [h \in Hosts |-> {}]
    /\ issued = {} /\ destroyed = {} /\ freed = {}

-----------------------------------------------------------------------------
(* The registry, under its mutex. *)

Empty == {i \in DOMAIN registry : registry[i].entry = None}

NextGeneration(i) == IF i \in DOMAIN registry THEN registry[i].generation + 1 ELSE 1

Fresh == IF Empty = {} THEN Len(registry) + 1 ELSE CHOOSE i \in Empty : \A j \in Empty : i <= j
Token(i) == <<i, NextGeneration(i)>>
Filled(entry) ==
    LET slot == [generation |-> NextGeneration(Fresh), entry |-> entry,
                 retired |-> IF Fresh \in DOMAIN registry THEN registry[Fresh].retired ELSE 0]
    IN IF Fresh \in DOMAIN registry THEN [registry EXCEPT ![Fresh] = slot]
       ELSE Append(registry, slot)

\* What contains, node, ingress and release answer for a token of the wanted kind.
Lookup(token, kind) ==
    IF token[1] \notin DOMAIN registry \/ registry[token[1]].generation # token[2]
        THEN "INVALID_HANDLE"
    ELSE LET slot == registry[token[1]]
         IN IF slot.entry = None
            THEN IF slot.retired = token[2] THEN "CLOSED" ELSE "INVALID_HANDLE"
            ELSE IF slot.entry.kind = kind THEN "OK" ELSE "INVALID_HANDLE"

Behind(token) == registry[token[1]].entry.object
Taken(token) ==
    [registry EXCEPT ![token[1]] = [@ EXCEPT !.entry = None, !.retired = token[2]]]

\* insert: the first empty slot with the next generation, or a new slot.  The object is the
\* given one (a clone) or, with 0, a new one.
Insert(kind, object) ==
    LET o == IF object = 0 THEN Len(kinds) + 1 ELSE object
    IN /\ Len(kinds) < MaxObjects
       /\ kinds' = IF object = 0 THEN Append(kinds, kind) ELSE Append(kinds, "alias")
       /\ registry' = Filled([kind |-> kind, object |-> o])
       /\ issued' = issued \cup {[token |-> Token(Fresh), object |-> o, kind |-> kind, live |-> TRUE]}

Tokens == {e.token : e \in issued}

-----------------------------------------------------------------------------
(* Reference counts: an Arc in a slot, and one per call past its lookup. *)

Using(h) == call[h].object
Referenced(o, slots, calls) ==
    \/ \E i \in DOMAIN slots : slots[i].entry # None /\ slots[i].entry.object = o
    \/ \E h \in Hosts : calls[h].object = o

\* NodeRecord::drop runs the destroy callback when the last Arc goes away.
Dropped ==
    {o \in DOMAIN kinds : kinds[o] = "node" /\ ~ Referenced(o, registry', call')}

\* Every step: the records whose last Arc it dropped are destroyed.
Reclaim == destroyed' = destroyed \cup Dropped

CallAt(h, pc) == call' = [call EXCEPT ![h].pc = pc]
Return(h) == call' = [call EXCEPT ![h] = Idle]

\* Locks and read-modify-writes publish the thread's buffered stores.
PublishNode(h) ==
    [o \in Objects |-> IF o \in buffer[h] THEN [node[o] EXCEPT !.closed = TRUE] ELSE node[o]]
PublishIngress(h) ==
    [o \in Objects |-> IF o \in buffer[h] THEN [ingress[o] EXCEPT !.closed = TRUE] ELSE ingress[o]]
Fence(h) ==
    /\ node' = PublishNode(h) /\ ingress' = PublishIngress(h)
    /\ buffer' = [buffer EXCEPT ![h] = {}]
Drain(h) ==
    /\ buffer[h] # {} /\ Fence(h)
    /\ UNCHANGED <<uses, registry, kinds, call, issued, destroyed, freed>>

SeesClosed(h, o) == node[o].closed \/ ingress[o].closed \/ o \in buffer[h]

-----------------------------------------------------------------------------
(* Creation, and release of the kinds that need no admission. *)

\* runtime_create, node_create (vtable accepted) and frame_copy: one insert.
Create(h, kind) ==
    /\ call[h].pc = "idle" /\ kind \in {"runtime"} \cup (uses \cap {"node", "frame"})
    /\ kind = "runtime" => kind \notin ToSet(kinds)
    /\ kind = "node" => Len(SelectSeq(kinds, LAMBDA k : k = "node")) < MaxNodes
    /\ Insert(kind, 0) /\ Fence(h)
    /\ UNCHANGED <<uses, call, destroyed, freed>>

\* session_create and ingress_create look their parent up, give the lock back, then insert.
CreateUnder(h, token, parent) ==
    /\ call[h].pc = "idle" /\ token \in Tokens
    /\ IF parent = "session" THEN "ingress" \in uses
       ELSE uses \cap {"ingress", "session"} # {} /\ "session" \notin ToSet(kinds)
    /\ Lookup(token, parent) = "OK"
    /\ call' = [call EXCEPT ![h] = [Idle EXCEPT !.pc = "insert_" \o parent]] /\ Fence(h)
    /\ UNCHANGED <<uses, registry, kinds, issued, destroyed, freed>>

InsertUnder(h) ==
    /\ \/ call[h].pc = "insert_runtime" /\ Insert("session", 0)
       \/ call[h].pc = "insert_session" /\ Insert("ingress", 0)
    /\ Return(h) /\ Fence(h)
    /\ UNCHANGED <<uses, destroyed, freed>>

\* runtime_release, session_release, ingress_release and frame_release.
Release(h, token, kind) ==
    /\ call[h].pc = "idle" /\ token \in Tokens /\ Lookup(token, kind) = "OK"
    /\ kind \in uses \ {"node"}
    /\ registry' = Taken(token)
    /\ issued' = {IF e.token = token THEN [e EXCEPT !.live = FALSE] ELSE e : e \in issued}
    /\ Fence(h)
    /\ UNCHANGED <<uses, kinds, call, destroyed, freed>>

-----------------------------------------------------------------------------
(* Node runs and node_release. *)

InHooks == {h \in Hosts : call[h].pc = "hooks"}
Running(o) == {h \in InHooks : call[h].object = o}

\* run_text: the runtime is looked up, then the node, which is cloned out of the registry.
StartNodeRun(h, token) ==
    /\ call[h].pc = "idle" /\ token \in Tokens
    /\ \E r \in Tokens : Lookup(r, "runtime") = "OK"
    /\ Lookup(token, "node") = "OK"
    /\ call' = [call EXCEPT ![h] = [Idle EXCEPT !.pc = "begin", !.object = Behind(token), !.token = token]]
    /\ Fence(h)
    /\ UNCHANGED <<uses, registry, kinds, issued, destroyed, freed>>

BeginRun(h) ==
    /\ call[h].pc = "begin"
    /\ IF SeesClosed(h, Using(h)) THEN Return(h) ELSE CallAt(h, "cas")
    /\ UNCHANGED <<uses, registry, kinds, node, ingress, buffer, issued, freed>>
    /\ Reclaim

NotRunning(o) == ~node[o].running

\* running.compare_exchange(false, true): BUSY when another run has it.
Exchange(h) ==
    /\ call[h].pc = "cas"
    /\ \/ ~NotRunning(Using(h)) /\ Return(h) /\ Fence(h)
       \/ /\ NotRunning(Using(h)) /\ CallAt(h, "admit")
          /\ node' = [PublishNode(h) EXCEPT ![Using(h)].running = TRUE]
          /\ ingress' = PublishIngress(h) /\ buffer' = [buffer EXCEPT ![h] = {}]
    /\ UNCHANGED <<uses, registry, kinds, issued, freed>>
    /\ Reclaim

\* active.fetch_add(1).
CountRun(h) ==
    /\ call[h].pc = "admit" /\ CallAt(h, "recheck")
    /\ node' = [node EXCEPT ![Using(h)].active = @ + 1]
    /\ UNCHANGED <<uses, registry, kinds, ingress, buffer, issued, destroyed, freed>>


\* The second look at closed: the run is admitted, or the counts are taken back.
Admit(h) ==
    /\ call[h].pc = "recheck"
    /\ CallAt(h, IF SeesClosed(h, Using(h)) THEN "leave" ELSE "hooks")
    /\ UNCHANGED <<uses, registry, kinds, node, ingress, buffer, issued, destroyed, freed>>

\* The graph runner has called the hooks of ForeignNode: prepare, process, then finish or
\* abort; the runner and its nodes are dropped before the guard.
HooksDone(h) ==
    /\ call[h].pc = "hooks"
    /\ call' = [g \in Hosts |->
        IF g = h THEN [call[g] EXCEPT !.pc = "leave"] ELSE [call[g] EXCEPT !.before = @ \ {h}]]
    /\ UNCHANGED <<uses, registry, kinds, node, ingress, buffer, issued, destroyed, freed>>

\* RunGuard::drop, and the failed admission: active.fetch_sub(1), then running = false.
Leave(h) ==
    /\ call[h].pc = "leave" /\ CallAt(h, "left")
    /\ node' = [node EXCEPT ![Using(h)].active = @ - 1]
    /\ UNCHANGED <<uses, registry, kinds, ingress, buffer, issued, destroyed, freed>>
Left(h) ==
    /\ call[h].pc = "left" /\ Return(h)
    /\ node' = [node EXCEPT ![Using(h)].running = FALSE]
    /\ UNCHANGED <<uses, registry, kinds, ingress, buffer, issued, freed>>
    /\ Reclaim

\* node_release: the record is cloned out of the registry, then closed_if_idle, then release.
StartRelease(h, token) ==
    /\ call[h].pc = "idle" /\ token \in Tokens /\ Lookup(token, "node") = "OK"
    /\ call' = [call EXCEPT ![h] = [Idle EXCEPT !.pc = "close", !.object = Behind(token),
                                               !.token = token, !.before = Running(Behind(token))]]
    /\ Fence(h)
    /\ UNCHANGED <<uses, registry, kinds, issued, destroyed, freed>>

StoreClosed(h) ==
    /\ call[h].pc = "close" /\ CallAt(h, "look")
    /\ buffer' = [buffer EXCEPT ![h] = @ \cup {Using(h)}]
    /\ UNCHANGED <<uses, registry, kinds, node, ingress, issued, destroyed, freed>>

\* active.load() == 0, else BUSY: the record stays closed and registered.
CloseIfIdle(h) ==
    /\ call[h].pc = "look"
    /\ IF node[Using(h)].active = 0 THEN CallAt(h, "unregister") ELSE Return(h)
    /\ UNCHANGED <<uses, registry, kinds, node, ingress, buffer, issued, freed>>
    /\ Reclaim

\* handles::release, and the two Arcs this call holds are dropped outside the lock.
Unregister(h) ==
    /\ call[h].pc = "unregister"
    /\ IF Lookup(call[h].token, "node") = "OK"
       THEN /\ registry' = Taken(call[h].token)
            /\ issued' = {IF e.token = call[h].token THEN [e EXCEPT !.live = FALSE] ELSE e : e \in issued}
            /\ freed' = freed \cup {Using(h)}
       ELSE UNCHANGED <<registry, issued, freed>>
    /\ Return(h) /\ Fence(h) /\ Reclaim
    /\ UNCHANGED <<uses, kinds>>

-----------------------------------------------------------------------------
(* The external ingress. *)

Submissions ==
    MapThenSumSet(LAMBDA o : ingress[o].accepted + ingress[o].full + ingress[o].closed_drops, Objects)

\* The exports that clone the ingress out of the registry; try_submit gives up with
\* QUEUE_FULL when try_lock finds another thread inside, which changes nothing.
Enter(h, token, pc, size) ==
    /\ call[h].pc = "idle" /\ token \in Tokens /\ Lookup(token, "ingress") = "OK"
    /\ pc \in {"clone", "shut", "pop", "submit"}
    /\ IF pc = "submit" THEN Submissions < MaxSubmits ELSE size = 0
    /\ call' = [call EXCEPT ![h] = [Idle EXCEPT !.pc = pc, !.object = Behind(token), !.size = size]]
    /\ Fence(h)
    /\ UNCHANGED <<uses, registry, kinds, issued, destroyed, freed>>

Clone(h) ==
    /\ call[h].pc = "clone" /\ Insert("ingress", Using(h)) /\ Return(h) /\ Fence(h)
    /\ UNCHANGED <<uses, destroyed, freed>>

Close(h) ==
    /\ call[h].pc = "shut" /\ Return(h)
    /\ buffer' = [buffer EXCEPT ![h] = @ \cup {Using(h)}]
    /\ UNCHANGED <<uses, registry, kinds, node, ingress, issued, destroyed, freed>>

\* try_submit's first look at closed, before the queue lock.
Submit(h) ==
    /\ call[h].pc = "submit"
    /\ IF SeesClosed(h, Using(h))
       THEN Return(h) /\ ingress' = [ingress EXCEPT ![Using(h)].closed_drops = @ + 1]
       ELSE CallAt(h, "enqueue") /\ UNCHANGED ingress
    /\ UNCHANGED <<uses, registry, kinds, node, buffer, issued, destroyed, freed>>

QueueRoom(q, size) == Len(q.queue) < ItemCapacity /\ q.bytes + size <= ByteCapacity

Locked(h, o) ==
    [PublishIngress(h)[o] EXCEPT
        !.closed_drops = IF SeesClosed(h, o) THEN @ + 1 ELSE @,
        !.full = IF ~SeesClosed(h, o) /\ ~QueueRoom(ingress[o], call[h].size) THEN @ + 1 ELSE @]
Pushed(q, size) ==
    [q EXCEPT !.queue = Append(@, size), !.bytes = @ + size, !.accepted = @ + 1]

\* Under the queue lock: closed again, the two capacities, the push and its count.  A queue
\* lock held by another call counts as full.
Enqueue(h) ==
    LET o == Using(h)
    IN /\ call[h].pc = "enqueue" /\ Return(h)
       /\ \/ /\ ~SeesClosed(h, o) /\ QueueRoom(ingress[o], call[h].size)
             /\ ingress' = [PublishIngress(h) EXCEPT ![o] = Pushed(@, call[h].size)]
          \/ /\ SeesClosed(h, o) \/ ~QueueRoom(ingress[o], call[h].size)
             /\ ingress' = [PublishIngress(h) EXCEPT ![o] = Locked(h, o)]
          \/ /\ \E g \in Hosts \ {h} : call[g].object = o
             /\ ingress' = [ingress EXCEPT ![o].full = @ + 1]
       /\ node' = PublishNode(h) /\ buffer' = [buffer EXCEPT ![h] = {}]
       /\ UNCHANGED <<uses, registry, kinds, issued, destroyed, freed>>

Popped(q) == [q EXCEPT !.queue = Tail(@), !.bytes = @ - Head(q.queue), !.popped = @ + 1]

\* try_pop: BUSY when empty; otherwise the frame leaves the queue, then becomes a handle.
Pop(h) ==
    /\ call[h].pc = "pop"
    /\ IF ingress[Using(h)].queue = <<>>
       THEN Return(h) /\ Fence(h)
       ELSE /\ call' = [call EXCEPT ![h] = [Idle EXCEPT !.pc = "wrap"]]
            /\ ingress' = [PublishIngress(h) EXCEPT ![Using(h)] = Popped(@)]
            /\ node' = PublishNode(h) /\ buffer' = [buffer EXCEPT ![h] = {}]
    /\ UNCHANGED <<uses, registry, kinds, issued, destroyed, freed>>
Wrap(h) ==
    /\ call[h].pc = "wrap" /\ Insert("frame", 0) /\ Return(h) /\ Fence(h)
    /\ UNCHANGED <<uses, destroyed, freed>>

HandlesNext ==
    \E h \in Hosts :
        \/ Drain(h)
        \/ \E kind \in {"runtime", "node", "frame"} : Create(h, kind)
        \/ \E token \in Tokens :
            \/ \E parent \in {"runtime", "session"} : CreateUnder(h, token, parent)
            \/ \E kind \in {"runtime", "session", "ingress", "frame"} : Release(h, token, kind)
            \/ StartNodeRun(h, token) \/ StartRelease(h, token)
            \/ \E pc \in {"clone", "shut", "pop", "submit"}, size \in FrameSizes \cup {0} :
                   Enter(h, token, pc, size)
        \/ InsertUnder(h) \/ BeginRun(h) \/ Exchange(h) \/ CountRun(h) \/ Admit(h)
        \/ HooksDone(h) \/ Leave(h) \/ Left(h)
        \/ StoreClosed(h) \/ CloseIfIdle(h) \/ Unregister(h)
        \/ Clone(h) \/ Close(h) \/ Submit(h) \/ Enqueue(h) \/ Pop(h) \/ Wrap(h)

-----------------------------------------------------------------------------
(* Properties. *)

\* A handle means the object it was issued for as long as it lives, and nothing afterwards:
\* neither a released handle nor one of another kind is ever answered (handles.rs).
TokenMeansItsObject ==
    \A e \in issued :
        IF e.live
        THEN Lookup(e.token, e.kind) = "OK" /\ Behind(e.token) = e.object
        ELSE \A kind \in {"runtime", "session", "node", "ingress", "frame"} : Lookup(e.token, kind) # "OK"

\* The hooks of a node are never run by two host threads at once, and never after its
\* destroy callback (NodeRecord::begin_run and drop).
HooksRunAlone ==
    \A o \in DOMAIN kinds :
        /\ Cardinality(Running(o)) <= 1
        /\ o \in destroyed => Running(o) = {} /\ ~ Referenced(o, registry, call)

\* A release that goes ahead has no run in flight that was admitted before the release call
\* began (NodeRecord::close_if_idle).
ReleaseHonoursAdmittedRuns ==
    \A h \in Hosts : call[h].pc = "unregister" => call[h].before = {}

\* A run is not admitted any more once a release of its node returned OK, even to a thread that
\* had looked the node up before (the second look at closed in begin_run).
FreedNodeAdmitsNoRun ==
    [][\A h \in Hosts : Admit(h) /\ call'[h].pc = "hooks" => call[h].object \notin freed]_ffiVars

\* The ingress counters agree with its queue whenever they can be read, and neither capacity
\* is exceeded (ExternalIngress::stats).
IngressAccounts ==
    \A o \in Objects :
        LET q == ingress[o]
        IN /\ q.accepted = q.popped + Len(q.queue)
           /\ q.bytes = FoldSeq(LAMBDA size, sum : sum + size, 0, q.queue)
           /\ Len(q.queue) <= ItemCapacity /\ q.bytes <= ByteCapacity

\* No frame enters an ingress after its close is visible, although the check and the push
\* are two accesses (the second look at closed in try_submit).
ClosedIngressTakesNothing ==
    [][\A o \in Objects : ingress'[o].accepted # ingress[o].accepted => ~ingress[o].closed]_ffiVars

\* Whatever the hosts' threads do with their handles: no use after release, no hook beside
\* another, no counter that leaks.
HandlesAreSafe ==
    TokenMeansItsObject /\ HooksRunAlone /\ ReleaseHonoursAdmittedRuns /\ IngressAccounts
=============================================================================
