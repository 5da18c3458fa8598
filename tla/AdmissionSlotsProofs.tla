------------------------ MODULE AdmissionSlotsProofs ------------------------
(***************************************************************************)
(* Theorems about AdmissionSlots, for every number of threads and slots.   *)
(***************************************************************************)
EXTENDS AdmissionSlots, CountingLemmas, TLAPS

\* The threads at a label can be counted, in this state and in the next.
LEMMA AtIsFinite ==
    ASSUME NEW pc
    PROVE  /\ IsFiniteSet(At(pc)) /\ Cardinality(At(pc)) \in Nat
           /\ IsFiniteSet(At(pc)') /\ Cardinality(At(pc)') \in Nat
<1>1. At(pc) \subseteq Workers /\ At(pc)' \subseteq Workers
  BY DEF At
<1>2. IsFiniteSet(At(pc)) /\ IsFiniteSet(At(pc)')
  BY <1>1, FS_Subset, SlotsAssumption
<1>3. QED BY <1>2, FS_CardinalityType

\* The number of threads at pc after one thread w has moved to label: what
\* acquire, try_acquire and a spurious wake-up share.
LEMMA OneMoves ==
    ASSUME SlotsTypeOK, NEW w \in Workers,
           NEW label \in {"idle", "awake", "asleep", "holding"},
           thread' = [thread EXCEPT ![w] = label],
           NEW pc
    PROVE  /\ thread' \in [Workers -> {"idle", "awake", "asleep", "holding"}]
           /\ thread[w] # pc /\ label = pc =>
                 Cardinality(At(pc)') = Cardinality(At(pc)) + 1
           /\ thread[w] = pc /\ label # pc =>
                 Cardinality(At(pc)') = Cardinality(At(pc)) - 1
           /\ (thread[w] = pc <=> label = pc) =>
                 Cardinality(At(pc)') = Cardinality(At(pc))
<1>1. \A v : v # w => (v \in At(pc)' <=> v \in At(pc))
  BY DEF SlotsTypeOK, At
<1>2. (w \in At(pc) <=> thread[w] = pc) /\ (w \in At(pc)' <=> label = pc)
  BY DEF SlotsTypeOK, At
<1>3. thread' \in [Workers -> {"idle", "awake", "asleep", "holding"}]
  BY DEF SlotsTypeOK
<1>4. QED BY <1>1, <1>2, <1>3, CountOneMove, AtIsFinite

\* One look inside acquire: a woken caller may leave the waiters only with a
\* slot, by going back to sleep beside no free slot, or because of close.
LEMMA AcquireStep ==
    ASSUME SlotsAreHandedOn, NEW w \in Workers, Acquire(w)
    PROVE  SlotsAreHandedOn'
<1> USE SlotsAssumption DEF SlotsAreHandedOn, LeasesAreCounted, NoSleepBesideFreeSlot
<1>0. Cardinality(At("awake")) \in Nat /\ Cardinality(At("awake")') \in Nat
      /\ Cardinality(At("holding")) \in Nat
  BY AtIsFinite
<1>1. CASE admClosed /\ thread' = [thread EXCEPT ![w] = "idle"] /\ UNCHANGED in_flight
  <2>1. LeasesAreCounted' BY <1>1, OneMoves DEF Acquire
  <2>2. At("asleep") = {}
    BY <1>1
  <2>3. At("asleep")' = {}
    BY <1>1, <2>2 DEF At, SlotsTypeOK
  <2>4. QED BY <1>1, <2>1, <2>3, OneMoves DEF Acquire, SlotsTypeOK
<1>2. CASE /\ ~admClosed /\ in_flight < MaxSlots /\ in_flight' = in_flight + 1
           /\ thread' = [thread EXCEPT ![w] = "holding"]
  <2>1. At("asleep")' = At("asleep")
    BY <1>2 DEF At, SlotsTypeOK, Acquire
  <2>2. Cardinality(At("holding")') = Cardinality(At("holding")) + 1
    BY <1>2, OneMoves DEF Acquire
  <2>3. Cardinality(At("awake")') >= Cardinality(At("awake")) - 1
    <3>1. CASE thread[w] = "awake"
      <4>1. Cardinality(At("awake")') = Cardinality(At("awake")) - 1
        BY <1>2, <3>1, OneMoves
      <4>2. QED BY <1>0, <4>1
    <3>2. CASE thread[w] = "idle"
      <4>1. Cardinality(At("awake")') = Cardinality(At("awake"))
        BY <1>2, <3>2, OneMoves
      <4>2. QED BY <1>0, <4>1
    <3>3. QED BY <3>1, <3>2 DEF Acquire
  <2>4. SlotsTypeOK'
    BY <1>2, OneMoves DEF SlotsTypeOK, Acquire
  <2>5. NoSleepBesideFreeSlot'
    BY <1>0, <1>2, <2>1, <2>3 DEF Acquire, SlotsTypeOK
  <2>6. QED BY <1>2, <2>2, <2>4, <2>5
<1>3. CASE /\ ~admClosed /\ ~(in_flight < MaxSlots) /\ UNCHANGED in_flight
           /\ thread' = [thread EXCEPT ![w] = "asleep"]
  <2>1. Cardinality(At("holding")') = Cardinality(At("holding"))
    BY <1>3, OneMoves DEF Acquire
  <2>2. SlotsTypeOK'
    BY <1>3, OneMoves DEF SlotsTypeOK, Acquire
  <2>3. NoSleepBesideFreeSlot'
    BY <1>0, <1>3 DEF Acquire, SlotsTypeOK
  <2>4. QED BY <1>3, <2>1, <2>2, <2>3
<1>4. QED BY <1>1, <1>2, <1>3 DEF Acquire

\* try_acquire takes a slot without having slept: the woken are as many.
LEMMA TryAcquireStep ==
    ASSUME SlotsAreHandedOn, NEW w \in Workers, TryAcquire(w)
    PROVE  SlotsAreHandedOn'
<1> USE SlotsAssumption DEF SlotsAreHandedOn, LeasesAreCounted, NoSleepBesideFreeSlot,
        TryAcquire
<1>1. Cardinality(At("awake")) \in Nat /\ Cardinality(At("holding")) \in Nat
  BY AtIsFinite
<1>2. At("asleep")' = At("asleep")
  BY DEF At, SlotsTypeOK
<1>3. Cardinality(At("holding")') = Cardinality(At("holding")) + 1
  BY OneMoves
<1>4. Cardinality(At("awake")') = Cardinality(At("awake"))
  BY OneMoves
<1>5. SlotsTypeOK'
  BY OneMoves DEF SlotsTypeOK
<1>6. NoSleepBesideFreeSlot'
  BY <1>1, <1>2, <1>4 DEF SlotsTypeOK
<1>7. QED BY <1>3, <1>5, <1>6

\* release wakes one sleeper, if there is one, for the slot it gives back.
LEMMA ReleaseStep ==
    ASSUME SlotsAreHandedOn, NEW w \in Workers, Release(w)
    PROVE  SlotsAreHandedOn'
<1> USE SlotsAssumption DEF SlotsAreHandedOn, LeasesAreCounted, NoSleepBesideFreeSlot
<1>0. /\ Cardinality(At("awake")) \in Nat /\ Cardinality(At("holding")) \in Nat
      /\ IsFiniteSet(At("awake")) /\ IsFiniteSet(At("holding"))
  BY AtIsFinite
<1>1. At("holding") # {} BY DEF At, Release
<1>2. Cardinality(At("holding")) # 0
  BY <1>0, <1>1, FS_EmptySet
<1>3. in_flight' \in 0..MaxSlots /\ in_flight' = in_flight - 1
  BY <1>0, <1>2 DEF Release, SlotsTypeOK
<1>4. CASE At("asleep") = {} /\ thread' = [thread EXCEPT ![w] = "idle"]
  <2>1. Cardinality(At("holding")') = Cardinality(At("holding")) - 1
    BY <1>4, OneMoves DEF Release
  <2>2. At("asleep")' = {} BY <1>4 DEF At, SlotsTypeOK
  <2>3. SlotsTypeOK' BY <1>3, <1>4, OneMoves DEF SlotsTypeOK, Release
  <2>4. QED BY <1>3, <2>1, <2>2, <2>3 DEF Release
<1>5. CASE \E s \in At("asleep") :
              thread' = [thread EXCEPT ![w] = "idle", ![s] = "awake"]
  <2>1. PICK s \in At("asleep") :
               thread' = [thread EXCEPT ![w] = "idle", ![s] = "awake"]
    BY <1>5
  <2>2. s \in Workers /\ s # w /\ thread[s] = "asleep" /\ thread[w] = "holding"
    BY DEF At, Release
  <2>3. \A v : v # w => (v \in At("holding")' <=> v \in At("holding"))
    BY <2>1, <2>2 DEF At, SlotsTypeOK
  <2>4. w \in At("holding") /\ w \notin At("holding")'
    BY <2>1, <2>2 DEF At, SlotsTypeOK
  <2>5. Cardinality(At("holding")') = Cardinality(At("holding")) - 1
    BY <1>0, <2>3, <2>4, CountOneMove
  <2>6. \A v : v # s => (v \in At("awake")' <=> v \in At("awake"))
    BY <2>1, <2>2 DEF At, SlotsTypeOK
  <2>7. s \notin At("awake") /\ s \in At("awake")'
    BY <2>1, <2>2 DEF At, SlotsTypeOK
  <2>8. Cardinality(At("awake")') = Cardinality(At("awake")) + 1
    BY <1>0, <2>6, <2>7, CountOneMove
  <2>9. SlotsTypeOK'
    BY <1>3, <2>1, <2>2 DEF SlotsTypeOK, Release
  <2>10. ~admClosed /\ MaxSlots - in_flight <= Cardinality(At("awake"))
    BY <2>1
  <2>11. QED BY <1>0, <1>3, <2>5, <2>8, <2>9, <2>10 DEF Release, SlotsTypeOK
<1>6. QED BY <1>4, <1>5 DEF Release

\* A waiter that wakes for no reason is one more that will look again.
LEMMA SpuriousWakeStep ==
    ASSUME SlotsAreHandedOn, NEW w \in Workers, SpuriousWake(w)
    PROVE  SlotsAreHandedOn'
<1> USE SlotsAssumption DEF SlotsAreHandedOn, LeasesAreCounted, NoSleepBesideFreeSlot,
        SpuriousWake
<1>1. Cardinality(At("awake")) \in Nat
  BY AtIsFinite
<1>2. w \in At("asleep") BY DEF At
<1>3. Cardinality(At("awake")') = Cardinality(At("awake")) + 1
  BY OneMoves
<1>4. Cardinality(At("holding")') = Cardinality(At("holding"))
  BY OneMoves
<1>5. SlotsTypeOK' BY OneMoves DEF SlotsTypeOK
<1>6. NoSleepBesideFreeSlot' BY <1>1, <1>2, <1>3 DEF SlotsTypeOK
<1>7. QED BY <1>4, <1>5, <1>6

\* close leaves nobody asleep and takes no lease away.
LEMMA CloseAdmissionStep ==
    ASSUME SlotsAreHandedOn, CloseAdmission
    PROVE  SlotsAreHandedOn'
<1> USE DEF SlotsAreHandedOn, CloseAdmission
<1>1. SlotsTypeOK' BY DEF SlotsTypeOK
<1>2. At("holding")' = At("holding") BY DEF At, SlotsTypeOK
<1>3. At("asleep")' = {} BY DEF At, SlotsTypeOK
<1>4. QED BY <1>1, <1>2, <1>3 DEF LeasesAreCounted, NoSleepBesideFreeSlot

\* The admission control of a node loses no lease and no wake-up: the counter
\* is the number of leases out, at most MaxSlots, and nobody sleeps beside a
\* free slot that no woken thread is about to look at, nor after close
\* (acquire, try_acquire, release_inner and close of admission.rs).
THEOREM SlotsAreHandedOnAlways == SlotsSpec => []SlotsAreHandedOn
<1>1. SlotsInit => SlotsAreHandedOn
  <2> SUFFICES ASSUME SlotsInit PROVE SlotsAreHandedOn OBVIOUS
  <2>1. At("holding") = {} /\ At("asleep") = {} BY DEF SlotsInit, At
  <2>2. Cardinality(At("holding")) = 0 BY <2>1, FS_EmptySet
  <2>3. SlotsTypeOK
    <3>1. admClosed \in BOOLEAN BY Zenon DEF SlotsInit
    <3>2. QED BY <3>1, SlotsAssumption DEF SlotsInit, SlotsTypeOK
  <2>4. LeasesAreCounted BY <2>2 DEF SlotsInit, LeasesAreCounted
  <2>5. QED BY <2>1, <2>3, <2>4 DEF SlotsAreHandedOn, NoSleepBesideFreeSlot
<1>2. SlotsAreHandedOn /\ [SlotsNext]_slotVars => SlotsAreHandedOn'
  <2> SUFFICES ASSUME SlotsAreHandedOn, [SlotsNext]_slotVars
               PROVE  SlotsAreHandedOn'
    OBVIOUS
  <2>1. CASE UNCHANGED slotVars
    BY <2>1 DEF slotVars, SlotsAreHandedOn, SlotsTypeOK, LeasesAreCounted,
                NoSleepBesideFreeSlot, At
  <2>2. QED BY <2>1, AcquireStep, TryAcquireStep, ReleaseStep, SpuriousWakeStep,
               CloseAdmissionStep DEF SlotsNext
<1>3. QED BY <1>1, <1>2, PTL DEF SlotsSpec
=============================================================================
