------------------------- MODULE GraphServicesProofs -------------------------
(***************************************************************************)
(* Theorems about the NotificationBus and the ResourceStore of             *)
(* GraphServices, for every number of subscriptions, of threads that call  *)
(* stop, of events and of keys.                                            *)
(***************************************************************************)
EXTENDS GraphServices, SequenceTheorems, TLAPS

----------------------------------------------------------------------------
(* The inductive invariant                                                 *)

Events == 1..MaxEvents
Worker == [place : Place, mailbox : Seq(Events), handling : {0} \cup Events, done : BOOLEAN]
Stopper == [pc : {"idle", "take", "wait", "returned"},
            workers : SUBSET Subscriptions, unfinished : SUBSET Subscriptions]

BusTypes ==
    /\ stopped \in BOOLEAN /\ published \in 0..MaxEvents
    /\ sub \in [Subscriptions -> Worker]
    /\ \A s \in Subscriptions : Len(sub[s].mailbox) <= BusCapacity
    /\ stopper \in [StopThreads -> Stopper]
    /\ accepted \in [Subscriptions -> Seq(Events)]
    /\ handled \in [Subscriptions -> Seq(Events)]

\* A thread that has not yet taken the retired workers waits for none, so that
\* taking them forgets nobody.
FreshStops ==
    \A t \in StopThreads : stopper[t].pc \in {"idle", "take"} => stopper[t].workers = {}

\* The store is sealed by RuntimeSeals alone, and keeps what it held then until
\* it is released.
StoreTypes ==
    /\ store = [stopped |-> store.stopped, entries |-> store.entries]
    /\ store.stopped \in BOOLEAN
    /\ DOMAIN store.entries \subseteq Keys
SealedStore ==
    /\ shutdown \in {"running", "sealing"} => ~store.stopped
    /\ shutdown = "cleanup" => store.stopped
    /\ shutdown \in {"cleanup", "reaping"} /\ store.stopped => store.entries = atSeal

BusInv ==
    /\ BusTypes /\ HandledInOrder /\ FreshStops /\ NoHandlerForgotten
    /\ StoreTypes /\ SealedStore

----------------------------------------------------------------------------
(* Initial states                                                          *)

LEMMA ServicesInitially == ServicesInit => BusInv
<1> SUFFICES ASSUME ServicesInit PROVE BusInv
  OBVIOUS
<1> USE BusAssumption
<1>1. BusTypes
  <2>1. <<>> \in Seq(Events) /\ Len(<<>>) = 0 OBVIOUS
  <2>2. sub \in [Subscriptions -> Worker] BY <2>1 DEF ServicesInit, Worker, Place
  <2>3. stopper \in [StopThreads -> Stopper] BY DEF ServicesInit, Stopper
  <2>4. \A s \in Subscriptions : Len(sub[s].mailbox) <= BusCapacity
    BY <2>1 DEF ServicesInit
  <2>5. accepted \in [Subscriptions -> Seq(Events)] /\ handled \in [Subscriptions -> Seq(Events)]
    BY <2>1 DEF ServicesInit
  <2>6. stopped \in BOOLEAN BY Zenon DEF ServicesInit
  <2>7. published \in 0..MaxEvents BY DEF ServicesInit
  <2>8. QED BY <2>2, <2>3, <2>4, <2>5, <2>6, <2>7 DEF BusTypes
<1>2. HandledInOrder BY DEF ServicesInit, HandledInOrder
<1>3. FreshStops /\ NoHandlerForgotten BY DEF ServicesInit, FreshStops, NoHandlerForgotten
<1>4. StoreTypes /\ SealedStore BY DEF ServicesInit, StoreTypes, SealedStore
<1>5. QED BY <1>1, <1>2, <1>3, <1>4 DEF BusInv

----------------------------------------------------------------------------
(* What the steps leave alone                                              *)

storeVars == <<store, shutdown, atSeal>>

\* The steps of the bus leave the store alone.
LEMMA StoreRests ==
    ASSUME StoreTypes, SealedStore, UNCHANGED storeVars
    PROVE  StoreTypes' /\ SealedStore'
BY DEF StoreTypes, SealedStore, storeVars

\* A step that leaves mailboxes and handlers alone keeps the order of events.
LEMMA MailboxesRest ==
    ASSUME HandledInOrder, UNCHANGED <<accepted, handled>>,
           \A s \in Subscriptions : /\ sub'[s].mailbox = sub[s].mailbox
                                    /\ sub'[s].handling = sub[s].handling
    PROVE  HandledInOrder'
BY DEF HandledInOrder

\* No handler is forgotten by a step that takes no worker, revives none and
\* leaves the stopping threads alone.
LEMMA WorkersRest ==
    ASSUME NoHandlerForgotten, FreshStops, UNCHANGED stopper,
           \A s \in Subscriptions : /\ sub'[s].place = "taken" => sub[s].place = "taken"
                                    /\ sub[s].done => sub'[s].done
    PROVE  NoHandlerForgotten' /\ FreshStops'
BY DEF NoHandlerForgotten, FreshStops, StopThreads

\* Worker records with one field replaced.
LEMMA PlaceChanges ==
    ASSUME NEW w \in Worker, NEW place \in Place
    PROVE  /\ [w EXCEPT !.place = place] \in Worker
           /\ [w EXCEPT !.place = place].place = place
           /\ [w EXCEPT !.place = place].mailbox = w.mailbox
           /\ [w EXCEPT !.place = place].handling = w.handling
           /\ [w EXCEPT !.place = place].done = w.done
BY DEF Worker

----------------------------------------------------------------------------
(* subscribe, unsubscribe and stop move workers from place to place        *)

\* What the steps share that only move workers, none of them to "taken".
MovesPlaces ==
    /\ sub' = [s \in Subscriptions |-> sub'[s]] /\ UNCHANGED <<accepted, handled>>
    /\ \A s \in Subscriptions :
          \/ sub'[s] = sub[s]
          \/ \E p \in Place \ {"taken"} : sub'[s] = [sub[s] EXCEPT !.place = p]

LEMMA PlacesMove ==
    ASSUME BusInv, MovesPlaces
    PROVE  /\ sub' \in [Subscriptions -> Worker] /\ HandledInOrder'
           /\ \A s \in Subscriptions : /\ Len(sub'[s].mailbox) <= BusCapacity
                                       /\ sub'[s].done = sub[s].done
                                       /\ sub'[s].place = "taken" => sub[s].place = "taken"
<1> USE DEF BusInv
<1>1. \A s \in Subscriptions : sub[s] \in Worker BY DEF BusTypes
<1>2. ASSUME NEW s \in Subscriptions
      PROVE  /\ sub'[s] \in Worker /\ sub'[s].mailbox = sub[s].mailbox
             /\ sub'[s].handling = sub[s].handling /\ sub'[s].done = sub[s].done
             /\ sub'[s].place = "taken" => sub[s].place = "taken"
  <2>1. CASE sub'[s] = sub[s] BY <1>1, <2>1
  <2>2. CASE \E p \in Place \ {"taken"} : sub'[s] = [sub[s] EXCEPT !.place = p]
    <3>1. PICK p \in Place \ {"taken"} : sub'[s] = [sub[s] EXCEPT !.place = p] BY <2>2
    <3>2. QED BY <1>1, <3>1, PlaceChanges
  <2>3. QED BY <2>1, <2>2 DEF MovesPlaces
<1>3. sub' \in [Subscriptions -> Worker] BY <1>2 DEF MovesPlaces
<1>4. HandledInOrder' BY <1>2, MailboxesRest DEF MovesPlaces
<1>5. QED BY <1>2, <1>3, <1>4 DEF BusTypes

\* When such a step leaves the other threads and the store alone, all is well.
LEMMA PlacesOnlyMove ==
    ASSUME BusInv, MovesPlaces, stopped' \in BOOLEAN, UNCHANGED <<published, stopper>>
    PROVE  BusTypes' /\ HandledInOrder' /\ FreshStops' /\ NoHandlerForgotten'
<1>1. FreshStops' /\ NoHandlerForgotten' BY PlacesMove, WorkersRest DEF BusInv
<1>2. BusTypes' BY PlacesMove DEF BusInv, BusTypes, MovesPlaces
<1>3. QED BY <1>1, <1>2, PlacesMove

LEMMA SubscribeSteps ==
    ASSUME BusInv, NEW s \in Subscriptions, Spawn(s) \/ Admit(s) \/ Unsubscribe(s)
    PROVE  BusInv'
<1>0. sub \in [Subscriptions -> Worker] /\ stopped \in BOOLEAN BY DEF BusInv, BusTypes
<1>1. PICK p \in Place \ {"taken"} : sub' = [sub EXCEPT ![s].place = p]
  BY DEF Spawn, Admit, Unsubscribe, Place
<1>2. sub' = [r \in Subscriptions |-> sub'[r]] /\ sub'[s] = [sub[s] EXCEPT !.place = p]
      /\ \A r \in Subscriptions : r # s => sub'[r] = sub[r]
  BY <1>0, <1>1
<1>3. UNCHANGED <<published, stopper, storeVars, accepted, handled>> /\ stopped' \in BOOLEAN
  BY <1>0 DEF Spawn, Admit, Unsubscribe, storeVars
<1>4. MovesPlaces BY <1>1, <1>2, <1>3 DEF MovesPlaces
<1>5. QED BY <1>3, <1>4, PlacesOnlyMove, StoreRests DEF BusInv

\* request_stop retires every active worker.
LEMMA Retiring ==
    ASSUME BusInv, RequestStop, UNCHANGED <<accepted, handled>>
    PROVE  stopped' \in BOOLEAN /\ MovesPlaces
<1>1. sub' = [s \in Subscriptions |-> sub'[s]] BY DEF RequestStop
<1>2. "retired" \in Place \ {"taken"} BY DEF Place
<1>3. \A s \in Subscriptions : sub'[s] = sub[s] \/ sub'[s] = [sub[s] EXCEPT !.place = "retired"]
  BY DEF RequestStop
<1>4. stopped' \in BOOLEAN BY Zenon DEF RequestStop
<1>5. QED BY <1>1, <1>2, <1>3, <1>4 DEF MovesPlaces

----------------------------------------------------------------------------
(* stop                                                                    *)

LEMMA StopRequestedStep ==
    ASSUME BusInv, NEW t \in StopThreads, StopRequested(t)
    PROVE  BusInv'
<1>1. /\ RequestStop /\ UNCHANGED <<published, storeVars, accepted, handled>>
      /\ stopper[t].pc = "idle" /\ stopper' = [stopper EXCEPT ![t].pc = "take"]
  BY DEF StopRequested, storeVars
<1>2. stopped' \in BOOLEAN /\ MovesPlaces BY <1>1, Retiring
<1>3. /\ stopper \in [StopThreads -> Stopper] /\ stopper' \in [StopThreads -> Stopper]
      /\ \A r \in StopThreads : /\ stopper'[r].workers = stopper[r].workers
                                /\ stopper'[r].unfinished = stopper[r].unfinished
                                /\ r # t => stopper'[r] = stopper[r]
      /\ stopper'[t].pc = "take"
  BY <1>1 DEF BusInv, BusTypes, Stopper
<1>4. BusTypes' BY <1>1, <1>2, <1>3, PlacesMove DEF BusInv, BusTypes
<1>5. FreshStops' BY <1>1, <1>3 DEF BusInv, FreshStops
<1>6. NoHandlerForgotten'
  BY <1>2, <1>3, PlacesMove DEF BusInv, NoHandlerForgotten, StopThreads
<1>7. QED BY <1>1, <1>2, <1>4, <1>5, <1>6, PlacesMove, StoreRests DEF BusInv

\* The workers a thread takes are known to it from then on, and it had none
\* before whom it could forget.
LEMMA StopTakesStep ==
    ASSUME BusInv, NEW t \in StopThreads, StopTakes(t)
    PROVE  BusInv'
<1> DEFINE taken == {s \in Subscriptions : sub[s].place = "retired"}
<1>1. /\ UNCHANGED <<stopped, published, storeVars, accepted, handled>>
      /\ stopper[t].pc = "take"
      /\ stopper' = [stopper EXCEPT ![t].pc = "wait", ![t].workers = taken]
      /\ sub' = [s \in Subscriptions |->
                   IF s \in taken THEN [sub[s] EXCEPT !.place = "taken"] ELSE sub[s]]
  BY DEF StopTakes, storeVars
<1>2. /\ stopper' \in [StopThreads -> Stopper]
      /\ \A r \in StopThreads : r # t => stopper'[r] = stopper[r]
      /\ stopper'[t].pc = "wait" /\ stopper'[t].workers = taken
      /\ stopper'[t].unfinished = stopper[t].unfinished
  BY <1>1 DEF BusInv, BusTypes, Stopper
<1>3. ASSUME NEW s \in Subscriptions
      PROVE  /\ sub'[s] \in Worker /\ sub'[s].mailbox = sub[s].mailbox
             /\ sub'[s].handling = sub[s].handling /\ sub'[s].done = sub[s].done
             /\ s \notin taken => sub'[s] = sub[s]
  <2>1. sub[s] \in Worker /\ "taken" \in Place BY DEF BusInv, BusTypes, Place
  <2>2. sub'[s] = IF s \in taken THEN [sub[s] EXCEPT !.place = "taken"] ELSE sub[s] BY <1>1
  <2>3. QED BY <2>1, <2>2, PlaceChanges
<1>4. HandledInOrder' BY <1>1, <1>3, MailboxesRest DEF BusInv
<1>5. sub' \in [Subscriptions -> Worker]
  <2>1. sub' = [s \in Subscriptions |-> sub'[s]] BY <1>1
  <2>2. QED BY <1>3, <2>1
<1>6. BusTypes' BY <1>1, <1>2, <1>3, <1>5 DEF BusInv, BusTypes
<1>7. FreshStops' BY <1>2 DEF BusInv, FreshStops
<1>8. NoHandlerForgotten'
  <2> SUFFICES ASSUME NEW s \in Subscriptions, sub'[s].place = "taken", ~sub'[s].done
               PROVE  \E r \in StopThreads : s \in stopper'[r].workers \cup stopper'[r].unfinished
    BY DEF NoHandlerForgotten, StopThreads
  <2>1. CASE s \in taken BY <1>2, <2>1
  <2>2. CASE s \notin taken
    <3>1. sub[s].place = "taken" /\ ~sub[s].done BY <1>3, <2>2
    <3>2. PICK r \in StopThreads : s \in stopper[r].workers \cup stopper[r].unfinished
      BY <3>1 DEF BusInv, NoHandlerForgotten
    <3>3. stopper[t].workers = {} BY <1>1 DEF BusInv, FreshStops
    <3>4. QED BY <1>2, <3>2, <3>3
  <2>3. QED BY <2>1, <2>2
<1>9. QED BY <1>1, <1>4, <1>6, <1>7, <1>8, StoreRests DEF BusInv

LEMMA StopReapsStep ==
    ASSUME BusInv, NEW t \in StopThreads, NEW s \in Subscriptions, StopReaps(t, s)
    PROVE  BusInv'
<1>1. /\ UNCHANGED <<stopped, published, sub, storeVars, accepted, handled>>
      /\ stopper[t].pc = "wait"
      /\ \/ /\ sub[s].done
            /\ stopper' = [stopper EXCEPT ![t].workers = @ \ {s}]
         \/ stopper' = [stopper EXCEPT ![t].workers = @ \ {s}, ![t].unfinished = @ \cup {s}]
  BY DEF StopReaps, storeVars
<1>2. /\ stopper' \in [StopThreads -> Stopper]
      /\ \A r \in StopThreads : r # t => stopper'[r] = stopper[r]
      /\ stopper'[t].pc = "wait" /\ stopper'[t].workers = stopper[t].workers \ {s}
      /\ stopper'[t].unfinished \in {stopper[t].unfinished, stopper[t].unfinished \cup {s}}
      /\ sub[s].done \/ s \in stopper'[t].unfinished
  <2>1. stopper \in [StopThreads -> Stopper] BY DEF BusInv, BusTypes
  <2>2. CASE sub[s].done /\ stopper' = [stopper EXCEPT ![t].workers = @ \ {s}]
    BY <1>1, <2>1, <2>2 DEF Stopper
  <2>3. CASE stopper' = [stopper EXCEPT ![t].workers = @ \ {s}, ![t].unfinished = @ \cup {s}]
    BY <1>1, <2>1, <2>3 DEF Stopper
  <2>4. QED BY <1>1, <2>2, <2>3
<1>3. BusTypes' /\ HandledInOrder'
  BY <1>1, <1>2 DEF BusInv, BusTypes, HandledInOrder
<1>4. FreshStops' BY <1>2 DEF BusInv, FreshStops
<1>5. NoHandlerForgotten'
  <2> SUFFICES ASSUME NEW q \in Subscriptions, sub[q].place = "taken", ~sub[q].done
               PROVE  \E r \in StopThreads : q \in stopper'[r].workers \cup stopper'[r].unfinished
    BY <1>1 DEF NoHandlerForgotten, StopThreads
  <2>1. PICK r \in StopThreads : q \in stopper[r].workers \cup stopper[r].unfinished
    BY DEF BusInv, NoHandlerForgotten
  <2>2. CASE q = s BY <1>2, <2>2
  <2>3. CASE q # s BY <1>2, <2>1, <2>3
  <2>4. QED BY <2>2, <2>3
<1>6. QED BY <1>1, <1>3, <1>4, <1>5, StoreRests DEF BusInv

LEMMA StopReturnsStep ==
    ASSUME BusInv, NEW t \in StopThreads, StopReturns(t)
    PROVE  BusInv'
<1>1. /\ UNCHANGED <<stopped, published, sub, storeVars, accepted, handled>>
      /\ stopper' = [stopper EXCEPT ![t].pc = "returned"]
  BY DEF StopReturns, storeVars
<1>2. /\ stopper' \in [StopThreads -> Stopper]
      /\ \A r \in StopThreads : r # t => stopper'[r] = stopper[r]
      /\ stopper'[t].pc = "returned" /\ stopper'[t].workers = stopper[t].workers
      /\ stopper'[t].unfinished = stopper[t].unfinished
  BY <1>1 DEF BusInv, BusTypes, Stopper
<1>3. BusTypes' /\ HandledInOrder'
  BY <1>1, <1>2 DEF BusInv, BusTypes, HandledInOrder
<1>4. FreshStops' BY <1>2 DEF BusInv, FreshStops
<1>5. NoHandlerForgotten'
  <2>1. \A r \in StopThreads : /\ stopper'[r].workers = stopper[r].workers
                               /\ stopper'[r].unfinished = stopper[r].unfinished
    BY <1>2
  <2>2. QED BY <1>1, <2>1 DEF BusInv, NoHandlerForgotten, StopThreads
<1>6. QED BY <1>1, <1>3, <1>4, <1>5, StoreRests DEF BusInv

----------------------------------------------------------------------------
(* publish and the subscriber's thread                                     *)

\* An event moves along accepted = handled, handling, mailbox: it is enqueued,
LEMMA EventEnters ==
    ASSUME NEW h \in Seq(Events), NEW g \in Seq(Events), NEW m \in Seq(Events), NEW x \in Events
    PROVE  Append(h \o g \o m, x) = h \o g \o Append(m, x)
<1>0. h \o g \in Seq(Events) OBVIOUS
<1>1. PICK p \in Seq(Events) : p = h \o g BY <1>0, Zenon
<1>2. p \o m \in Seq(Events) /\ <<x>> \in Seq(Events) OBVIOUS
<1>3. Append(p \o m, x) = (p \o m) \o <<x>> BY <1>2, AppendIsConcat
<1>4. Append(m, x) = m \o <<x>> BY AppendIsConcat
<1>5. (p \o m) \o <<x>> = p \o (m \o <<x>>) BY <1>2, ConcatAssociative
<1>6. QED BY <1>1, <1>3, <1>4, <1>5

\* its handler is called,
LEMMA EventStarts ==
    ASSUME NEW h \in Seq(Events), NEW m \in Seq(Events), m # <<>>
    PROVE  h \o <<>> \o m = h \o <<Head(m)>> \o Tail(m)
<1>1. Head(m) \in Events /\ Tail(m) \in Seq(Events) /\ m = <<Head(m)>> \o Tail(m) OBVIOUS
<1>2. h \o (<<Head(m)>> \o Tail(m)) = (h \o <<Head(m)>>) \o Tail(m) BY <1>1
<1>3. h \o <<>> = h OBVIOUS
<1>4. QED BY <1>1, <1>2, <1>3

\* and has returned.
LEMMA EventEnds ==
    ASSUME NEW h \in Seq(Events), NEW m \in Seq(Events), NEW x \in Events
    PROVE  h \o <<x>> \o m = Append(h, x) \o <<>> \o m
<1>1. h \o <<x>> = Append(h, x) /\ Append(h, x) \o <<>> = Append(h, x) OBVIOUS
<1>2. QED BY <1>1

LEMMA PublishStep ==
    ASSUME BusInv, Publish
    PROVE  BusInv'
<1> USE BusAssumption
<1>0. UNCHANGED <<stopped, stopper, storeVars, handled>> BY DEF Publish, storeVars
<1>1. published' = published + 1 /\ published' \in Events /\ published' \in 0..MaxEvents
  BY DEF Publish, BusInv, BusTypes, Events
<1>2. ASSUME NEW s \in Subscriptions
      PROVE  /\ sub'[s] \in Worker /\ accepted'[s] \in Seq(Events)
             /\ Len(sub'[s].mailbox) <= BusCapacity
             /\ sub'[s].place = sub[s].place /\ sub'[s].done = sub[s].done
             /\ accepted'[s] = handled[s]
                  \o (IF sub'[s].handling = 0 THEN <<>> ELSE <<sub'[s].handling>>) \o sub'[s].mailbox
  <2>0. /\ sub[s] \in Worker /\ accepted[s] \in Seq(Events) /\ handled[s] \in Seq(Events)
        /\ Len(sub[s].mailbox) <= BusCapacity
        /\ accepted[s] = handled[s]
             \o (IF sub[s].handling = 0 THEN <<>> ELSE <<sub[s].handling>>) \o sub[s].mailbox
    BY DEF BusInv, BusTypes, HandledInOrder
  <2>1. CASE s \notin Enqueued
    <3>1. sub'[s] = sub[s] /\ accepted'[s] = accepted[s] BY <2>1 DEF Publish
    <3>2. QED BY <2>0, <3>1
  <2>2. CASE s \in Enqueued
    <3>1. /\ sub'[s] = [sub[s] EXCEPT !.mailbox = Append(@, published')]
          /\ accepted'[s] = Append(accepted[s], published')
          /\ Len(sub[s].mailbox) < BusCapacity
      BY <2>2 DEF Publish, Enqueued
    <3>2. /\ sub'[s].place = sub[s].place /\ sub'[s].done = sub[s].done
          /\ sub'[s].handling = sub[s].handling
          /\ sub'[s].mailbox = Append(sub[s].mailbox, published')
      BY <2>0, <3>1 DEF Worker
    <3>3. sub[s].mailbox \in Seq(Events) /\ sub[s].handling \in {0} \cup Events BY <2>0 DEF Worker
    <3>4. /\ Append(sub[s].mailbox, published') \in Seq(Events)
          /\ Len(Append(sub[s].mailbox, published')) = Len(sub[s].mailbox) + 1
          /\ Len(sub[s].mailbox) \in Nat
      BY <1>1, <3>3
    <3>5. sub'[s] \in Worker BY <2>0, <3>1, <3>4 DEF Worker
    <3>6. (IF sub[s].handling = 0 THEN <<>> ELSE <<sub[s].handling>>) \in Seq(Events) BY <3>3
    <3>7. Append(accepted[s], published') = handled[s]
             \o (IF sub[s].handling = 0 THEN <<>> ELSE <<sub[s].handling>>)
             \o Append(sub[s].mailbox, published')
      <4>1. PICK g \in Seq(Events) :
                g = (IF sub[s].handling = 0 THEN <<>> ELSE <<sub[s].handling>>)
        BY <3>6
      <4>2. Append(handled[s] \o g \o sub[s].mailbox, published')
              = handled[s] \o g \o Append(sub[s].mailbox, published')
        <5>1. handled[s] \in Seq(Events) BY <2>0
        <5>2. sub[s].mailbox \in Seq(Events) BY <3>3
        <5>3. published' \in Events BY <1>1
        <5>4. \A h, k, m \in Seq(Events), x \in Events :
                  Append(h \o k \o m, x) = h \o k \o Append(m, x)
          BY EventEnters
        <5>5. g \in Seq(Events) BY <4>1
        <5>6. QED BY ONLY <5>1, <5>2, <5>3, <5>4, <5>5, Zenon
      <4>3. accepted[s] = handled[s] \o g \o sub[s].mailbox BY <2>0, <4>1
      <4>4. QED BY <4>1, <4>2, <4>3
    <3>8. accepted'[s] \in Seq(Events) BY <1>1, <2>0, <3>1
    <3>9. Len(sub'[s].mailbox) <= BusCapacity BY <3>1, <3>2, <3>4
    <3>10. accepted'[s] = handled[s]
             \o (IF sub'[s].handling = 0 THEN <<>> ELSE <<sub'[s].handling>>) \o sub'[s].mailbox
      BY <3>1, <3>2, <3>7
    <3>11. QED BY <3>2, <3>5, <3>8, <3>9, <3>10
  <2>3. QED BY <2>1, <2>2
<1>3. sub' = [s \in Subscriptions |-> sub'[s]] /\ accepted' = [s \in Subscriptions |-> accepted'[s]]
  BY DEF Publish
<1>4. sub' \in [Subscriptions -> Worker] /\ accepted' \in [Subscriptions -> Seq(Events)]
  BY <1>2, <1>3
<1>5. BusTypes' BY <1>0, <1>1, <1>2, <1>4 DEF BusInv, BusTypes
<1>6. HandledInOrder' BY <1>0, <1>2 DEF HandledInOrder
<1>7. FreshStops' /\ NoHandlerForgotten' BY <1>0, <1>2, WorkersRest DEF BusInv
<1>8. QED BY <1>0, <1>5, <1>6, <1>7, StoreRests DEF BusInv

LEMMA HandlerStartStep ==
    ASSUME BusInv, NEW s \in Subscriptions, HandlerStart(s)
    PROVE  BusInv'
<1>0. UNCHANGED <<stopped, published, stopper, storeVars, accepted, handled>>
  BY DEF HandlerStart, storeVars
<1>1. /\ sub \in [Subscriptions -> Worker] /\ sub[s] \in Worker
      /\ sub[s].mailbox \in Seq(Events) /\ handled[s] \in Seq(Events)
      /\ sub[s].mailbox # <<>> /\ sub[s].handling = 0
      /\ sub' = [sub EXCEPT ![s].handling = Head(sub[s].mailbox), ![s].mailbox = Tail(@)]
      /\ Len(sub[s].mailbox) <= BusCapacity
  BY DEF HandlerStart, BusInv, BusTypes, Worker
<1>2. /\ Head(sub[s].mailbox) \in Events /\ Tail(sub[s].mailbox) \in Seq(Events)
      /\ Len(Tail(sub[s].mailbox)) <= BusCapacity /\ Head(sub[s].mailbox) # 0
  <2>1. Head(sub[s].mailbox) \in Events /\ Tail(sub[s].mailbox) \in Seq(Events) BY <1>1
  <2>2. Len(Tail(sub[s].mailbox)) = Len(sub[s].mailbox) - 1 /\ Len(sub[s].mailbox) \in Nat
    BY <1>1
  <2>3. QED BY <1>1, <2>1, <2>2, BusAssumption DEF Events
<1>3. /\ sub' \in [Subscriptions -> Worker]
      /\ sub'[s].handling = Head(sub[s].mailbox) /\ sub'[s].mailbox = Tail(sub[s].mailbox)
      /\ sub'[s].place = sub[s].place /\ sub'[s].done = sub[s].done
      /\ \A r \in Subscriptions : r # s => sub'[r] = sub[r]
  BY <1>1, <1>2 DEF Worker
<1>4. HandledInOrder'
  <2>1. accepted[s] = handled[s] \o <<>> \o sub[s].mailbox
    BY <1>1 DEF BusInv, HandledInOrder
  <2>2. accepted[s] = handled[s] \o <<Head(sub[s].mailbox)>> \o Tail(sub[s].mailbox)
    BY <1>1, <1>2, <2>1, EventStarts
  <2>3. accepted[s] = handled[s]
          \o (IF sub'[s].handling = 0 THEN <<>> ELSE <<sub'[s].handling>>) \o sub'[s].mailbox
    BY <1>2, <1>3, <2>2
  <2>4. QED BY <1>0, <1>3, <2>3 DEF BusInv, HandledInOrder
<1>5. BusTypes' BY <1>0, <1>2, <1>3 DEF BusInv, BusTypes
<1>6. FreshStops' /\ NoHandlerForgotten' BY <1>0, <1>3, WorkersRest DEF BusInv
<1>7. QED BY <1>0, <1>4, <1>5, <1>6, StoreRests DEF BusInv

LEMMA HandlerEndStep ==
    ASSUME BusInv, NEW s \in Subscriptions, HandlerEnd(s)
    PROVE  BusInv'
<1>0. UNCHANGED <<stopped, published, stopper, storeVars, accepted>>
  BY DEF HandlerEnd, storeVars
<1>1. /\ sub \in [Subscriptions -> Worker] /\ sub[s] \in Worker
      /\ sub[s].mailbox \in Seq(Events) /\ handled \in [Subscriptions -> Seq(Events)]
      /\ sub[s].handling # 0 /\ sub[s].handling \in Events
      /\ sub' = [sub EXCEPT ![s].handling = 0]
      /\ handled' = [handled EXCEPT ![s] = Append(@, sub[s].handling)]
  BY DEF HandlerEnd, BusInv, BusTypes, Worker
<1>2. /\ sub' \in [Subscriptions -> Worker]
      /\ sub'[s].handling = 0 /\ sub'[s].mailbox = sub[s].mailbox
      /\ sub'[s].place = sub[s].place /\ sub'[s].done = sub[s].done
      /\ \A r \in Subscriptions : r # s => sub'[r] = sub[r]
  BY <1>1 DEF Worker
<1>3. /\ handled' \in [Subscriptions -> Seq(Events)] /\ handled[s] \in Seq(Events)
      /\ handled'[s] = Append(handled[s], sub[s].handling)
      /\ \A r \in Subscriptions : r # s => handled'[r] = handled[r]
  BY <1>1
<1>4. HandledInOrder'
  <2>1. accepted[s] = handled[s] \o <<sub[s].handling>> \o sub[s].mailbox
    BY <1>1 DEF BusInv, HandledInOrder
  <2>2. accepted[s] = Append(handled[s], sub[s].handling) \o <<>> \o sub[s].mailbox
    <3>1. handled[s] \o <<sub[s].handling>> \o sub[s].mailbox
            = Append(handled[s], sub[s].handling) \o <<>> \o sub[s].mailbox
      BY <1>1, <1>3, EventEnds, ZenonT(30)
    <3>2. QED BY <2>1, <3>1
  <2>3. accepted[s] = handled'[s]
          \o (IF sub'[s].handling = 0 THEN <<>> ELSE <<sub'[s].handling>>) \o sub'[s].mailbox
    BY <1>2, <1>3, <2>2
  <2>4. QED BY <1>0, <1>2, <1>3, <2>3 DEF BusInv, HandledInOrder
<1>5. BusTypes' BY <1>0, <1>2, <1>3 DEF BusInv, BusTypes
<1>6. FreshStops' /\ NoHandlerForgotten' BY <1>0, <1>2, WorkersRest DEF BusInv
<1>7. QED BY <1>0, <1>4, <1>5, <1>6, StoreRests DEF BusInv

LEMMA WorkerExitStep ==
    ASSUME BusInv, NEW s \in Subscriptions, WorkerExit(s)
    PROVE  BusInv'
<1>0. UNCHANGED <<stopped, published, stopper, storeVars, accepted, handled>>
  BY DEF WorkerExit, storeVars
<1>1. sub \in [Subscriptions -> Worker] /\ sub' = [sub EXCEPT ![s].done = TRUE]
  BY DEF WorkerExit, BusInv, BusTypes
<1>2. /\ sub' \in [Subscriptions -> Worker]
      /\ sub'[s].handling = sub[s].handling /\ sub'[s].mailbox = sub[s].mailbox
      /\ sub'[s].place = sub[s].place /\ sub'[s].done
      /\ \A r \in Subscriptions : r # s => sub'[r] = sub[r]
  BY <1>1 DEF Worker
<1>3. HandledInOrder' BY <1>0, <1>2, MailboxesRest DEF BusInv
<1>4. BusTypes' BY <1>0, <1>2 DEF BusInv, BusTypes
<1>5. FreshStops' /\ NoHandlerForgotten' BY <1>0, <1>2, WorkersRest DEF BusInv
<1>6. QED BY <1>0, <1>3, <1>4, <1>5, StoreRests DEF BusInv

----------------------------------------------------------------------------
(* The store and the runtime                                               *)

LEMMA BusRests ==
    ASSUME BusInv, UNCHANGED <<stopped, sub, published, stopper, accepted, handled>>
    PROVE  BusTypes' /\ HandledInOrder' /\ FreshStops' /\ NoHandlerForgotten'
BY DEF BusInv, BusTypes, HandledInOrder, FreshStops, NoHandlerForgotten

LEMMA StoreSteps ==
    ASSUME BusInv,
           \/ \E k \in Keys, type \in ResourceTypes : InsertResource(k, type)
           \/ RuntimeSeals \/ CleanupDone \/ ReleaseResources
    PROVE  BusInv'
<1>1. UNCHANGED <<stopped, sub, published, stopper, accepted, handled>>
  BY DEF InsertResource, RuntimeSeals, CleanupDone, ReleaseResources
<1>2. StoreTypes /\ SealedStore BY DEF BusInv
<1>3. ASSUME \E k \in Keys, type \in ResourceTypes : InsertResource(k, type)
      PROVE  StoreTypes' /\ SealedStore'
  <2>1. PICK k \in Keys, type \in ResourceTypes : InsertResource(k, type) BY <1>3
  <2>2. ~store.stopped /\ UNCHANGED <<shutdown, atSeal>> BY <2>1 DEF InsertResource
  <2>3. store' = [stopped |-> store.stopped,
                  entries |-> [key \in {k} \cup DOMAIN store.entries |->
                                 IF key = k THEN type ELSE store.entries[key]]]
    BY <1>2, <2>1 DEF InsertResource, StoreTypes
  <2>4. store'.stopped = store.stopped /\ DOMAIN store'.entries = {k} \cup DOMAIN store.entries
    BY <2>3
  <2>5. QED BY <1>2, <2>2, <2>3, <2>4 DEF StoreTypes, SealedStore
<1>4. ASSUME RuntimeSeals PROVE StoreTypes' /\ SealedStore'
  <2>1. store' = [stopped |-> TRUE, entries |-> store.entries]
    BY <1>2, <1>4 DEF RuntimeSeals, Seal, StoreTypes
  <2>2. QED BY <1>2, <1>4, <2>1 DEF RuntimeSeals, StoreTypes, SealedStore
<1>5. ASSUME CleanupDone PROVE StoreTypes' /\ SealedStore'
  BY <1>2, <1>5 DEF CleanupDone, StoreTypes, SealedStore
<1>6. ASSUME ReleaseResources PROVE StoreTypes' /\ SealedStore'
  BY <1>2, <1>6 DEF ReleaseResources, StoreTypes, SealedStore
<1>7. QED BY <1>1, <1>3, <1>4, <1>5, <1>6, BusRests DEF BusInv

LEMMA RuntimeStopsStep ==
    ASSUME BusInv, RuntimeStops
    PROVE  BusInv'
<1>1. RequestStop /\ UNCHANGED <<published, stopper, store, accepted, handled, atSeal>>
  BY DEF RuntimeStops
<1>2. StoreTypes' /\ SealedStore' BY <1>1 DEF BusInv, RuntimeStops, StoreTypes, SealedStore
<1>3. QED BY <1>1, <1>2, Retiring, PlacesOnlyMove DEF BusInv

----------------------------------------------------------------------------
(* The theorem                                                             *)

\* BusInv is an invariant of the bus, the store and the runtime around them.
THEOREM ServicesInvariant == ServicesSpec => []BusInv
<1>1. BusInv /\ [ServicesNext]_serviceVars => BusInv'
  <2> SUFFICES ASSUME BusInv, [ServicesNext]_serviceVars PROVE BusInv'
    OBVIOUS
  <2>1. ASSUME NEW s \in Subscriptions,
               Spawn(s) \/ Admit(s) \/ Unsubscribe(s) \/ HandlerLoop(s) \/ HandlerEnd(s)
        PROVE  BusInv'
    BY <2>1, SubscribeSteps, HandlerStartStep, WorkerExitStep, HandlerEndStep DEF HandlerLoop
  <2>2. ASSUME NEW t \in StopThreads, StopRequested(t) \/ StopStep(t)
        PROVE  BusInv'
    BY <2>2, StopRequestedStep, StopTakesStep, StopReapsStep, StopReturnsStep DEF StopStep
  <2>3. CASE UNCHANGED serviceVars
    BY <2>3, BusRests, StoreRests DEF serviceVars, storeVars, BusInv
  <2>4. QED
    BY <2>1, <2>2, <2>3, PublishStep, StoreSteps, RuntimeStopsStep DEF ServicesNext
<1>2. QED BY <1>1, ServicesInitially, PTL DEF ServicesSpec

\* BusKeepsItsHandlers (NotificationBus::publish, subscribe and stop,
\* ResourceStore::seal): a subscriber handles the events enqueued for it once
\* and in order, whatever becomes of its subscription; a handler that is still
\* running when a stop takes its worker is waited for or reported by some stop;
\* and the cleanup hooks find the resources the graph had inserted.
THEOREM HandlersAreKept == ServicesSpec => []BusKeepsItsHandlers
<1>1. BusInv => BusKeepsItsHandlers
  <2> SUFFICES ASSUME BusInv PROVE BusKeepsItsHandlers
    OBVIOUS
  <2> USE DEF BusInv
  <2>1. ServicesTypeOK
    <3>1. ASSUME NEW s \in Subscriptions
          PROVE  /\ sub[s].place \in Place /\ sub[s].done \in BOOLEAN
                 /\ Len(sub[s].mailbox) <= BusCapacity /\ sub[s].handling \in 0..MaxEvents
      <4>1. sub[s] \in Worker /\ Len(sub[s].mailbox) <= BusCapacity BY DEF BusTypes
      <4>2. {0} \cup Events \subseteq 0..MaxEvents BY BusAssumption DEF Events
      <4>3. QED BY <4>1, <4>2 DEF Worker
    <3>2. \A t \in StopThreads : stopper[t].unfinished \subseteq Subscriptions
      BY DEF BusTypes, Stopper
    <3>3. QED BY <3>1, <3>2 DEF BusTypes, StoreTypes, ServicesTypeOK
  <2>2. CleanupFindsResources
    BY DEF SealedStore, CleanupFindsResources, GetResource
  <2>3. QED BY <2>1, <2>2 DEF BusKeepsItsHandlers
<1>2. QED BY <1>1, ServicesInvariant, PTL

=============================================================================
