---------------------------- MODULE GraphServices ----------------------------
(***************************************************************************)
(* The services a running graph shares: the NotificationBus                *)
(* (crates/muxiva-core/src/notification_bus.rs) and the ResourceStore      *)
(* (resource.rs), and how the concurrent runtime takes them down: stop     *)
(* seals both at once, the coordinator runs the lifecycle hooks, then      *)
(* reaps the subscribers and releases the resources (concurrent.rs).       *)
(*                                                                         *)
(* An event is its number, all subscribers have its topic.  Every critical *)
(* section of the bus is a step; a handler's return and its panic differ   *)
(* in a counter only.                                                      *)
(***************************************************************************)
EXTENDS Integers, Sequences, FiniteSets, SequencesExt

CONSTANTS
    Subscriptions,   \* threads that subscribe once each, and their ids
    UserStops,       \* threads that call stop on the bus
    Coordinator,     \* the runtime's thread that calls stop at the end
    BusCapacity,     \* capacity of a mailbox
    MaxEvents,       \* bound: events published
    Keys             \* resource keys

\* The capacity is a NonZeroUsize.
ASSUME BusAssumption == BusCapacity \in Nat \ {0} /\ MaxEvents \in Nat

VARIABLES
    stopped,     \* BusState.stopped
    sub,         \* SubscriberWorker of each subscription, and its thread
    published,   \* events published so far
    stopper,     \* [pc, workers, unfinished] of each thread in stop
    store,       \* ResourceState: [stopped, entries]
    shutdown,    \* where the runtime is: running, sealing, cleanup, reaping, ended
    accepted,    \* history: events enqueued per subscription
    handled,     \* history: events handled per subscription
    atSeal       \* history: entries when the store was sealed

serviceVars == <<stopped, sub, published, stopper, store, shutdown, accepted,
                 handled, atSeal>>

StopThreads == UserStops \cup {Coordinator}
ResourceTypes == {"A", "B"}
Place == {"none", "spawned", "active", "retired", "taken", "rejected"}

ServicesInit ==
    /\ stopped = FALSE /\ published = 0 /\ shutdown = "running"
    /\ sub = [s \in Subscriptions |->
                [place |-> "none", mailbox |-> <<>>, handling |-> 0, done |-> FALSE]]
    /\ stopper = [t \in StopThreads |->
                    [pc |-> "idle", workers |-> {}, unfinished |-> {}]]
    /\ store = [stopped |-> FALSE, entries |-> <<>>]
    /\ accepted = [s \in Subscriptions |-> <<>>]
    /\ handled = [s \in Subscriptions |-> <<>>]
    /\ atSeal = <<>>

Active == {s \in Subscriptions : sub[s].place = "active"}
Connected(s) == sub[s].place \in {"spawned", "active"}     \* sender is Some

----------------------------------------------------------------------------
(* subscribe, publish, unsubscribe                                         *)

\* The worker's thread starts before the bus is locked.
Spawn(s) ==
    /\ sub[s].place = "none"
    /\ sub' = [sub EXCEPT ![s].place = "spawned"]
    /\ UNCHANGED <<stopped, published, stopper, store, shutdown, accepted, handled, atSeal>>

\* Mutant: the bus was asked whether it is stopped before the thread was spawned.
AdmitUnasked(s) ==
    /\ sub[s].place = "spawned"
    /\ sub' = [sub EXCEPT ![s].place = "active"]
    /\ UNCHANGED <<stopped, published, stopper, store, shutdown, accepted, handled, atSeal>>

Admit(s) ==
    /\ sub[s].place = "spawned"
    /\ sub' = [sub EXCEPT ![s].place = IF stopped THEN "rejected" ELSE "active"]
    /\ UNCHANGED <<stopped, published, stopper, store, shutdown, accepted, handled, atSeal>>

Enqueued == {s \in Active : Len(sub[s].mailbox) < BusCapacity}

\* try_send to every active worker of the topic; a full mailbox drops its copy.
Publish ==
    /\ ~stopped /\ published < MaxEvents
    /\ published' = published + 1
    /\ sub' = [s \in Subscriptions |->
                 IF s \in Enqueued
                 THEN [sub[s] EXCEPT !.mailbox = Append(@, published')] ELSE sub[s]]
    /\ accepted' = [s \in Subscriptions |->
                      IF s \in Enqueued THEN Append(accepted[s], published')
                      ELSE accepted[s]]
    /\ UNCHANGED <<stopped, stopper, store, shutdown, handled, atSeal>>

Unsubscribe(s) ==
    /\ sub[s].place = "active"
    /\ sub' = [sub EXCEPT ![s].place = "retired"]
    /\ UNCHANGED <<stopped, published, stopper, store, shutdown, accepted, handled, atSeal>>

----------------------------------------------------------------------------
(* The subscriber's thread                                                 *)

HandlerStart(s) ==
    /\ sub[s].mailbox # <<>> /\ sub[s].handling = 0
    /\ sub' = [sub EXCEPT ![s].handling = Head(sub[s].mailbox),
                          ![s].mailbox = Tail(@)]
    /\ UNCHANGED <<stopped, published, stopper, store, shutdown, accepted, handled, atSeal>>

\* The handler returned or panicked: both are counted and the loop goes on.
HandlerEnd(s) ==
    /\ sub[s].handling # 0
    /\ handled' = [handled EXCEPT ![s] = Append(@, sub[s].handling)]
    /\ sub' = [sub EXCEPT ![s].handling = 0]
    /\ UNCHANGED <<stopped, published, stopper, store, shutdown, accepted, atSeal>>

\* A disconnected receiver is drained before it ends the loop.
WorkerExit(s) ==
    /\ sub[s].place # "none" /\ ~Connected(s) /\ ~sub[s].done
    /\ sub[s].mailbox = <<>> /\ sub[s].handling = 0
    /\ sub' = [sub EXCEPT ![s].done = TRUE]
    /\ UNCHANGED <<stopped, published, stopper, store, shutdown, accepted, handled, atSeal>>

----------------------------------------------------------------------------
(* request_stop and stop                                                   *)

RequestStop ==
    /\ stopped' = TRUE
    /\ sub' = [s \in Subscriptions |->
                 IF s \in Active THEN [sub[s] EXCEPT !.place = "retired"] ELSE sub[s]]

\* stop, first critical section.  The coordinator comes here after its hooks.
StopRequested(t) ==
    /\ stopper[t].pc = "idle"
    /\ t = Coordinator => shutdown = "reaping"
    /\ RequestStop
    /\ stopper' = [stopper EXCEPT ![t].pc = "take"]
    /\ UNCHANGED <<published, store, shutdown, accepted, handled, atSeal>>

\* Mutant: only the workers that have ended are taken.
StopTakesEnded(t) ==
    /\ stopper[t].pc = "take"
    /\ LET taken == {s \in Subscriptions : sub[s].place = "retired" /\ sub[s].done} IN
         /\ stopper' = [stopper EXCEPT ![t].pc = "wait", ![t].workers = taken]
         /\ sub' = [s \in Subscriptions |->
                      IF sub[s].place = "retired"
                      THEN [sub[s] EXCEPT !.place = "taken"] ELSE sub[s]]
    /\ UNCHANGED <<stopped, published, store, shutdown, accepted, handled, atSeal>>

\* Second critical section: the retired workers are this thread's now.
StopTakes(t) ==
    /\ stopper[t].pc = "take"
    /\ LET taken == {s \in Subscriptions : sub[s].place = "retired"} IN
         /\ stopper' = [stopper EXCEPT ![t].pc = "wait", ![t].workers = taken]
         /\ sub' = [s \in Subscriptions |->
                      IF s \in taken THEN [sub[s] EXCEPT !.place = "taken"] ELSE sub[s]]
    /\ UNCHANGED <<stopped, published, store, shutdown, accepted, handled, atSeal>>

\* recv_timeout on one worker: it has ended, or the deadline passes first.
StopReaps(t, s) ==
    /\ stopper[t].pc = "wait" /\ s \in stopper[t].workers
    /\ \/ /\ sub[s].done
          /\ stopper' = [stopper EXCEPT ![t].workers = @ \ {s}]
       \/ stopper' = [stopper EXCEPT ![t].workers = @ \ {s}, ![t].unfinished = @ \cup {s}]
    /\ UNCHANGED <<stopped, sub, published, store, shutdown, accepted, handled, atSeal>>

StopReturns(t) ==
    /\ stopper[t].pc = "wait" /\ stopper[t].workers = {}
    /\ stopper' = [stopper EXCEPT ![t].pc = "returned"]
    /\ UNCHANGED <<stopped, sub, published, store, shutdown, accepted, handled, atSeal>>

----------------------------------------------------------------------------
(* ResourceStore                                                           *)

\* Callbacks of any Node insert; an insert replaces what the key held.
InsertResource(k, type) ==
    /\ ~store.stopped
    /\ store' = [store EXCEPT !.entries =
                    [key \in {k} \cup DOMAIN @ |-> IF key = k THEN type ELSE @[key]]]
    /\ UNCHANGED <<stopped, sub, published, stopper, shutdown, accepted, handled, atSeal>>

\* What get::<type>(k) answers.
GetResource(k, type) ==
    IF k \notin DOMAIN store.entries THEN "Missing"
    ELSE IF store.entries[k] # type THEN "TypeMismatch" ELSE "Ok"

Seal == store' = [store EXCEPT !.stopped = TRUE]

----------------------------------------------------------------------------
(* The runtime: stop, then the coordinator                                 *)

RuntimeStops ==
    /\ shutdown = "running"
    /\ RequestStop
    /\ shutdown' = "sealing"
    /\ UNCHANGED <<published, stopper, store, accepted, handled, atSeal>>

RuntimeSeals ==
    /\ shutdown = "sealing"
    /\ Seal
    /\ atSeal' = store.entries
    /\ shutdown' = "cleanup"
    /\ UNCHANGED <<stopped, sub, published, stopper, accepted, handled>>

\* The reverse lifecycle hooks have run; a graph that ends by itself was never
\* sealed.
CleanupDone ==
    /\ shutdown \in {"running", "cleanup"}
    /\ shutdown' = "reaping"
    /\ UNCHANGED <<stopped, sub, published, stopper, store, accepted, handled, atSeal>>

ReleaseResources ==
    /\ shutdown = "reaping" /\ stopper[Coordinator].pc = "returned"
    /\ store' = [stopped |-> TRUE, entries |-> <<>>]
    /\ shutdown' = "ended"
    /\ UNCHANGED <<stopped, sub, published, stopper, accepted, handled, atSeal>>

----------------------------------------------------------------------------

HandlerLoop(s) == HandlerStart(s) \/ WorkerExit(s)
StopStep(t) == StopTakes(t) \/ (\E s \in Subscriptions : StopReaps(t, s)) \/ StopReturns(t)
ServicesNext ==
    \/ \E s \in Subscriptions : Spawn(s) \/ Admit(s) \/ Unsubscribe(s) \/ HandlerLoop(s)
                                \/ HandlerEnd(s)
    \/ Publish
    \/ \E t \in StopThreads : StopRequested(t) \/ StopStep(t)
    \/ \E k \in Keys, type \in ResourceTypes : InsertResource(k, type)
    \/ RuntimeStops \/ RuntimeSeals \/ CleanupDone \/ ReleaseResources

ServicesSpec == ServicesInit /\ [][ServicesNext]_serviceVars

\* Threads run, and handlers return.
ServicesFair ==
    \A s \in Subscriptions :
        /\ WF_serviceVars(Admit(s))
        /\ WF_serviceVars(HandlerLoop(s))
        /\ WF_serviceVars(HandlerEnd(s))

----------------------------------------------------------------------------
(* Properties                                                              *)

ServicesTypeOK ==
    /\ stopped \in BOOLEAN /\ published \in 0..MaxEvents
    /\ \A s \in Subscriptions :
          /\ sub[s].place \in Place /\ sub[s].done \in BOOLEAN
          /\ Len(sub[s].mailbox) <= BusCapacity /\ sub[s].handling \in 0..MaxEvents
    /\ \A t \in StopThreads : stopper[t].unfinished \subseteq Subscriptions
    /\ DOMAIN store.entries \subseteq Keys

\* A subscriber handles what was enqueued for it, once and in order, whatever
\* happens to its subscription; nothing of it is lost but what a full mailbox
\* refused.
HandledInOrder ==
    \A s \in Subscriptions :
        accepted[s] = handled[s]
            \o (IF sub[s].handling = 0 THEN <<>> ELSE <<sub[s].handling>>) \o sub[s].mailbox

\* A stopped bus leaves no thread behind: every subscriber, also one that was
\* being subscribed meanwhile, drains its mailbox and ends, if its handlers
\* return.
BusThreadsEnd ==
    \A s \in Subscriptions : (stopped /\ sub[s].place # "none") ~> sub[s].done

\* "reports unfinished handlers rather than claiming to kill arbitrary user
\* code" (docs/design/06): a handler that still runs behind a stop is known to
\* one stop: reported by it, or still waited for.
NoHandlerForgotten ==
    \A s \in Subscriptions :
        sub[s].place = "taken" /\ ~sub[s].done =>
            \E t \in StopThreads : s \in stopper[t].workers \cup stopper[t].unfinished

\* "retains existing values for cleanup" (docs/design/06): every hook of the
\* cleanup finds what the graph had inserted, with its type.
CleanupFindsResources ==
    shutdown = "cleanup" \/ (shutdown = "reaping" /\ store.stopped) =>
        \A k \in DOMAIN atSeal : GetResource(k, atSeal[k]) = "Ok"

\* Subscribers that come, go, panic or hang while the graph stops: every
\* accepted event is handled, every handler known, and cleanup finds its
\* resources.
BusKeepsItsHandlers ==
    ServicesTypeOK /\ HandledInOrder /\ NoHandlerForgotten /\ CleanupFindsResources

=============================================================================
