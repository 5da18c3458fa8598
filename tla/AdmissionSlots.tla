---------------------------- MODULE AdmissionSlots ----------------------------
(***************************************************************************)
(* AdmissionSlots (crates/muxiva-core/src/admission.rs): a counted lease   *)
(* with a blocking acquire on a condition variable.  release wakes one     *)
(* waiter, close wakes all; try_acquire may take the slot a waiter was     *)
(* woken for.                                                              *)
(***************************************************************************)
EXTENDS Integers, FiniteSets

CONSTANTS
    Workers,    \* threads that acquire and release
    MaxSlots    \* State.max

ASSUME SlotsAssumption == IsFiniteSet(Workers) /\ MaxSlots \in Nat \ {0}

VARIABLES
    in_flight,   \* State.in_flight
    admClosed,   \* State.closed
    thread       \* idle, awake (in acquire, to look again), asleep, holding

slotVars == <<in_flight, admClosed, thread>>

At(pc) == {w \in Workers : thread[w] = pc}

SlotsInit ==
    in_flight = 0 /\ admClosed = FALSE /\ thread = [w \in Workers |-> "idle"]

\* One look inside acquire, at its start or after a wake-up.
Acquire(w) ==
    /\ thread[w] \in {"idle", "awake"}
    /\ \/ /\ admClosed
          /\ thread' = [thread EXCEPT ![w] = "idle"]
          /\ UNCHANGED in_flight
       \/ /\ ~admClosed /\ in_flight < MaxSlots
          /\ in_flight' = in_flight + 1
          /\ thread' = [thread EXCEPT ![w] = "holding"]
       \/ /\ ~admClosed /\ ~(in_flight < MaxSlots)
          /\ thread' = [thread EXCEPT ![w] = "asleep"]
          /\ UNCHANGED in_flight
    /\ UNCHANGED admClosed

TryAcquire(w) ==
    /\ thread[w] = "idle"
    /\ ~admClosed /\ in_flight # MaxSlots
    /\ in_flight' = in_flight + 1
    /\ thread' = [thread EXCEPT ![w] = "holding"]
    /\ UNCHANGED admClosed

\* Mutant: a waiter is woken only when every slot had been taken before.
ReleaseNotifyingWhenFull(w) ==
    /\ thread[w] = "holding"
    /\ in_flight' = in_flight - 1
    /\ IF At("asleep") = {} \/ in_flight # MaxSlots
       THEN thread' = [thread EXCEPT ![w] = "idle"]
       ELSE \E s \in At("asleep") :
               thread' = [thread EXCEPT ![w] = "idle", ![s] = "awake"]
    /\ UNCHANGED admClosed

\* release or drop of the lease: notify_one.
Release(w) ==
    /\ thread[w] = "holding"
    /\ in_flight' = in_flight - 1
    /\ IF At("asleep") = {} THEN thread' = [thread EXCEPT ![w] = "idle"]
       ELSE \E s \in At("asleep") :
               thread' = [thread EXCEPT ![w] = "idle", ![s] = "awake"]
    /\ UNCHANGED admClosed

CloseAdmission ==
    /\ admClosed' = TRUE
    /\ thread' = [w \in Workers |-> IF thread[w] = "asleep" THEN "awake" ELSE thread[w]]
    /\ UNCHANGED in_flight

\* The condition variable may return without a notification.
SpuriousWake(w) ==
    /\ thread[w] = "asleep"
    /\ thread' = [thread EXCEPT ![w] = "awake"]
    /\ UNCHANGED <<in_flight, admClosed>>

SlotsNext ==
    \/ \E w \in Workers : Acquire(w) \/ TryAcquire(w) \/ Release(w) \/ SpuriousWake(w)
    \/ CloseAdmission

SlotsSpec == SlotsInit /\ [][SlotsNext]_slotVars

----------------------------------------------------------------------------
(* Properties                                                              *)

SlotsTypeOK ==
    /\ in_flight \in 0..MaxSlots /\ admClosed \in BOOLEAN
    /\ thread \in [Workers -> {"idle", "awake", "asleep", "holding"}]

\* The debug assertion of release_inner, and the bound itself: the counter is
\* the number of leases that exist, so it neither leaks nor goes below zero.
LeasesAreCounted == in_flight = Cardinality(At("holding"))

\* No waiter sleeps beside a slot that nobody was woken for, and none sleeps
\* through close, although try_acquire may take the slot of a woken waiter.
NoSleepBesideFreeSlot ==
    At("asleep") # {} =>
        /\ ~admClosed
        /\ MaxSlots - in_flight <= Cardinality(At("awake"))

\* A bounded number of leases, every one of which is given back to somebody
\* who waits for it.
SlotsAreHandedOn == SlotsTypeOK /\ LeasesAreCounted /\ NoSleepBesideFreeSlot
=============================================================================
