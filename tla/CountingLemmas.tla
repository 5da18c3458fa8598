--------------------------- MODULE CountingLemmas ---------------------------
(***************************************************************************)
(* How the size of a set follows its elements: facts that the proofs about *)
(* counters, queues and gates share.                                       *)
(***************************************************************************)
EXTENDS Integers, Sequences, FiniteSets, FiniteSetTheorems, SequenceTheorems,
        TLAPS

\* The size of a set that gains, loses or keeps one element.
LEMMA CountOneMove ==
    ASSUME NEW B, NEW A, IsFiniteSet(B), NEW w,
           \A v : v # w => (v \in A <=> v \in B)
    PROVE  /\ w \notin B /\ w \in A => Cardinality(A) = Cardinality(B) + 1
           /\ w \in B /\ w \notin A => Cardinality(A) = Cardinality(B) - 1
           /\ (w \in B <=> w \in A) => Cardinality(A) = Cardinality(B)
<1>1. CASE w \notin B /\ w \in A
  <2>1. A = B \cup {w} BY <1>1
  <2>2. QED BY <1>1, <2>1, FS_AddElement
<1>2. CASE w \in B /\ w \notin A
  <2>1. A = B \ {w} BY <1>2
  <2>2. QED BY <1>2, <2>1, FS_RemoveElement
<1>3. CASE w \in B <=> w \in A
  <2>1. A = B BY <1>3
  <2>2. QED BY <1>3, <2>1
<1>4. QED BY <1>1, <1>2, <1>3

\* The elements of a sequence, and that it holds none of them twice.
ElementsOf(s) == {s[i] : i \in DOMAIN s}
NoRepeats(s)  == \A i, j \in DOMAIN s : s[i] = s[j] => i = j

\* Adding a new element at the end.
LEMMA AppendElements ==
    ASSUME NEW S, NEW s \in Seq(S), NEW x \in S
    PROVE  /\ ElementsOf(Append(s, x)) = ElementsOf(s) \cup {x}
           /\ NoRepeats(s) /\ x \notin ElementsOf(s) => NoRepeats(Append(s, x))
<1>1. /\ Len(Append(s, x)) = Len(s) + 1 /\ DOMAIN Append(s, x) = 1..(Len(s) + 1)
      /\ DOMAIN s = 1..Len(s) /\ Len(s) \in Nat
      /\ \A i \in 1..Len(s) : Append(s, x)[i] = s[i]
      /\ Append(s, x)[Len(s) + 1] = x
  OBVIOUS
<1>2. \A i \in 1..(Len(s) + 1) : i \in 1..Len(s) \/ i = Len(s) + 1
  BY <1>1
<1>3. ElementsOf(Append(s, x)) = ElementsOf(s) \cup {x}
  BY <1>1, <1>2 DEF ElementsOf
<1>4. ASSUME NoRepeats(s), x \notin ElementsOf(s) PROVE NoRepeats(Append(s, x))
  BY <1>1, <1>2, <1>4 DEF NoRepeats, ElementsOf
<1>5. QED BY <1>3, <1>4

\* Taking the first element off.
LEMMA TailElements ==
    ASSUME NEW S, NEW s \in Seq(S), s # <<>>, NoRepeats(s)
    PROVE  /\ Head(s) \in ElementsOf(s) /\ NoRepeats(Tail(s))
           /\ ElementsOf(Tail(s)) = ElementsOf(s) \ {Head(s)}
<1>1. /\ Len(s) \in Nat /\ Len(s) > 0 /\ DOMAIN s = 1..Len(s) /\ Head(s) = s[1]
      /\ Len(Tail(s)) = Len(s) - 1 /\ DOMAIN Tail(s) = 1..(Len(s) - 1)
      /\ \A i \in 1..(Len(s) - 1) : Tail(s)[i] = s[i + 1]
  OBVIOUS
<1>2. Head(s) \in ElementsOf(s) BY <1>1 DEF ElementsOf
<1>3. NoRepeats(Tail(s))
  <2>1. ASSUME NEW i \in 1..(Len(s) - 1), NEW j \in 1..(Len(s) - 1),
               Tail(s)[i] = Tail(s)[j]
        PROVE  i = j
    <3>1. s[i + 1] = s[j + 1] /\ i + 1 \in DOMAIN s /\ j + 1 \in DOMAIN s
      BY <1>1, <2>1
    <3>2. i + 1 = j + 1 BY <3>1 DEF NoRepeats
    <3>3. QED BY <3>2
  <2>2. QED BY <1>1, <2>1 DEF NoRepeats
<1>4. ElementsOf(Tail(s)) \subseteq ElementsOf(s) \ {Head(s)}
  <2>1. ASSUME NEW i \in 1..(Len(s) - 1)
        PROVE  Tail(s)[i] \in ElementsOf(s) /\ Tail(s)[i] # Head(s)
    <3>1. i + 1 \in DOMAIN s /\ 1 \in DOMAIN s /\ i + 1 # 1 /\ Tail(s)[i] = s[i + 1]
      BY <1>1
    <3>2. QED BY <1>1, <3>1 DEF ElementsOf, NoRepeats
  <2>2. QED BY <1>1, <2>1 DEF ElementsOf
<1>5. ElementsOf(s) \ {Head(s)} \subseteq ElementsOf(Tail(s))
  <2>1. ASSUME NEW k \in 1..Len(s), s[k] # Head(s)
        PROVE  s[k] \in ElementsOf(Tail(s))
    <3>1. k - 1 \in 1..(Len(s) - 1) /\ (k - 1) + 1 = k BY <1>1, <2>1
    <3>2. Tail(s)[k - 1] = s[k] BY <1>1, <3>1
    <3>3. QED BY <1>1, <3>1, <3>2 DEF ElementsOf
  <2>2. QED BY <1>1, <2>1 DEF ElementsOf
<1>6. QED BY <1>2, <1>3, <1>4, <1>5

\* A sequence without repetitions has as many elements as it is long, also
\* when each is paired with a tag.
LEMMA TaggedElementsCount ==
    ASSUME NEW S, NEW s \in Seq(S), NoRepeats(s), NEW tag
    PROVE  LET T == {<<s[i], tag>> : i \in DOMAIN s}
           IN  IsFiniteSet(T) /\ Cardinality(T) = Len(s)
<1> DEFINE T == {<<s[i], tag>> : i \in DOMAIN s}
           f == [i \in 1..Len(s) |-> <<s[i], tag>>]
<1>1. Len(s) \in Nat /\ DOMAIN s = 1..Len(s)
  OBVIOUS
<1>2. IsFiniteSet(1..Len(s)) /\ Cardinality(1..Len(s)) = Len(s)
  BY <1>1, FS_Interval, SMTT(30)
<1>3. f \in Bijection(1..Len(s), T)
  <2>1. f \in [1..Len(s) -> T] BY <1>1
  <2>2. \A i, j \in 1..Len(s) : f[i] = f[j] => i = j
    BY <1>1 DEF NoRepeats
  <2>3. \A t \in T : \E i \in 1..Len(s) : f[i] = t
    BY <1>1
  <2>4. DOMAIN f = 1..Len(s) OBVIOUS
  <2>5. QED BY <2>1, <2>2, <2>3, <2>4 DEF Bijection, Injection, Surjection, IsInjective
<1>4. ExistsBijection(1..Len(s), T)
  BY <1>3 DEF ExistsBijection
<1>5. QED BY <1>2, <1>4, FS_Bijection

\* A sequence that continues another one by one element.
LEMMA OneLonger ==
    ASSUME NEW S, NEW s \in Seq(S), NEW r \in Seq(S), Len(r) = Len(s) + 1,
           \A i \in 1..Len(s) : r[i] = s[i]
    PROVE  r = Append(s, r[Len(s) + 1])
<1>1. r[Len(s) + 1] \in S OBVIOUS
<1>2. DEFINE q == Append(s, r[Len(s) + 1])
<1>3. q \in Seq(S) /\ Len(q) = Len(r) /\ q[Len(s) + 1] = r[Len(s) + 1]
      /\ \A i \in 1..Len(s) : q[i] = s[i]
  BY <1>1
<1>4. \A i \in 1..Len(r) : i \in 1..Len(s) \/ i = Len(s) + 1
  OBVIOUS
<1>5. \A i \in 1..Len(r) : r[i] = q[i] BY <1>3, <1>4
<1> HIDE DEF q
<1>6. r = q BY <1>3, <1>5, SeqEqual
<1>7. QED BY <1>6 DEF q

\* Taking the first element off, repeated or not.
LEMMA TailCovers ==
    ASSUME NEW S, NEW s \in Seq(S), s # <<>>
    PROVE  /\ Head(s) \in S /\ Tail(s) \in Seq(S) /\ ElementsOf(Tail(s)) \subseteq ElementsOf(s)
           /\ ElementsOf(s) = ElementsOf(Tail(s)) \cup {Head(s)}
<1>1. /\ Len(s) \in Nat /\ Len(s) > 0 /\ DOMAIN s = 1..Len(s) /\ Head(s) = s[1]
      /\ DOMAIN Tail(s) = 1..(Len(s) - 1) /\ Tail(s) \in Seq(S) /\ Head(s) \in S
      /\ \A i \in 1..(Len(s) - 1) : Tail(s)[i] = s[i + 1]
  OBVIOUS
<1>2. \A i \in 1..(Len(s) - 1) : i + 1 \in 1..Len(s) BY <1>1
<1>3. \A i \in 1..Len(s) : i = 1 \/ (i - 1 \in 1..(Len(s) - 1) /\ (i - 1) + 1 = i) BY <1>1
<1>4. ElementsOf(Tail(s)) \subseteq ElementsOf(s) BY <1>1, <1>2 DEF ElementsOf
<1>5. Head(s) \in ElementsOf(s) BY <1>1 DEF ElementsOf
<1>6. \A i \in 1..Len(s) : i = 1 \/ s[i] = Tail(s)[i - 1] BY <1>1, <1>3
<1>7. ASSUME NEW i \in 1..Len(s) PROVE s[i] \in ElementsOf(Tail(s)) \cup {Head(s)}
  <2>1. CASE i = 1 BY <1>1, <2>1
  <2>2. CASE i # 1
    <3>1. i - 1 \in DOMAIN Tail(s) /\ Tail(s)[i - 1] = s[i] BY <1>1, <1>3, <1>6, <2>2
    <3>2. QED BY <3>1 DEF ElementsOf
  <2>3. QED BY <2>1, <2>2
<1>8. ElementsOf(s) \subseteq ElementsOf(Tail(s)) \cup {Head(s)}
  BY <1>1, <1>7 DEF ElementsOf
<1>9. QED BY <1>1, <1>4, <1>5, <1>8

LEMMA UpToCount ==
    ASSUME NEW n \in Nat
    PROVE  IsFiniteSet(1..n) /\ Cardinality(1..n) = n
BY FS_Interval

\* A union is no larger than its parts.
LEMMA UnionBound ==
    ASSUME NEW A, NEW B, IsFiniteSet(A), IsFiniteSet(B)
    PROVE  /\ IsFiniteSet(A \cup B) /\ Cardinality(A) \in Nat /\ Cardinality(B) \in Nat
           /\ Cardinality(A \cup B) \in Nat
           /\ Cardinality(A \cup B) <= Cardinality(A) + Cardinality(B)
<1>1. /\ IsFiniteSet(A \cup B)
      /\ Cardinality(A \cup B) = Cardinality(A) + Cardinality(B) - Cardinality(A \cap B)
  BY FS_Union
<1>2. IsFiniteSet(A \cap B) BY FS_Intersection
<1>3. /\ Cardinality(A) \in Nat /\ Cardinality(B) \in Nat /\ Cardinality(A \cap B) \in Nat
      /\ Cardinality(A \cup B) \in Nat
  BY <1>1, <1>2, FS_CardinalityType
<1>4. QED BY <1>1, <1>3

LEMMA OneMore ==
    ASSUME NEW S, NEW x, IsFiniteSet(S)
    PROVE  /\ IsFiniteSet(S \cup {x}) /\ Cardinality(S) \in Nat /\ Cardinality(S \cup {x}) \in Nat
           /\ Cardinality(S \cup {x}) <= Cardinality(S) + 1
<1>1. /\ IsFiniteSet(S \cup {x})
      /\ Cardinality(S \cup {x}) = IF x \in S THEN Cardinality(S) ELSE Cardinality(S) + 1
  BY FS_AddElement
<1>2. Cardinality(S) \in Nat /\ Cardinality(S \cup {x}) \in Nat BY <1>1, FS_CardinalityType
<1>3. QED BY <1>1, <1>2

----------------------------------------------------------------------------
(* A sequence in two parts, from the second of which the first one grows   *)

\* The head of the second part becomes the end of the first.
LEMMA HeadMovesOver ==
    ASSUME NEW S, NEW p \in Seq(S), NEW w \in Seq(S), w # <<>>
    PROVE  Append(p, Head(w)) \o Tail(w) = p \o w
<1>1. Head(w) \in S /\ Tail(w) \in Seq(S) /\ w = <<Head(w)>> \o Tail(w) OBVIOUS
<1>2. <<Head(w)>> \in Seq(S) /\ Append(p, Head(w)) = p \o <<Head(w)>> BY <1>1
<1>3. (p \o <<Head(w)>>) \o Tail(w) = p \o (<<Head(w)>> \o Tail(w))
  BY <1>1, <1>2, ConcatAssociative
<1>4. QED BY <1>1, <1>2, <1>3

\* An element is added to the second part.
LEMMA AppendToSecond ==
    ASSUME NEW S, NEW p \in Seq(S), NEW w \in Seq(S), NEW x \in S
    PROVE  p \o Append(w, x) = Append(p \o w, x)
<1>1. p \o w \in Seq(S) /\ <<x>> \in Seq(S) OBVIOUS
<1>2. Append(p \o w, x) = (p \o w) \o <<x>> BY <1>1, AppendIsConcat
<1>3. Append(w, x) = w \o <<x>> BY AppendIsConcat
<1>4. (p \o w) \o <<x>> = p \o (w \o <<x>>) BY <1>1, ConcatAssociative
<1>5. QED BY <1>2, <1>3, <1>4

----------------------------------------------------------------------------
(* How often a sequence has an element of a set                            *)

PositionsOf(s, T) == {i \in DOMAIN s : s[i] \in T}
CountOf(s, T) == Cardinality(PositionsOf(s, T))

LEMMA CountOfAppend ==
    ASSUME NEW S, NEW s \in Seq(S), NEW x \in S, NEW T
    PROVE  /\ CountOf(s, T) \in Nat
           /\ x \in T => CountOf(Append(s, x), T) = CountOf(s, T) + 1
           /\ x \notin T => CountOf(Append(s, x), T) = CountOf(s, T)
<1>1. /\ Len(s) \in Nat /\ DOMAIN s = 1..Len(s) /\ DOMAIN Append(s, x) = 1..(Len(s) + 1)
      /\ \A i \in 1..Len(s) : Append(s, x)[i] = s[i]
      /\ Append(s, x)[Len(s) + 1] = x
  OBVIOUS
<1>2. IsFiniteSet(PositionsOf(s, T))
  <2>1. IsFiniteSet(1..Len(s)) BY <1>1, UpToCount
  <2>2. PositionsOf(s, T) \subseteq 1..Len(s) BY <1>1 DEF PositionsOf
  <2>3. QED BY <2>1, <2>2, FS_Subset
<1>3. CountOf(s, T) \in Nat BY <1>2, FS_CardinalityType DEF CountOf
<1>4. \A v : v # Len(s) + 1 => (v \in PositionsOf(Append(s, x), T) <=> v \in PositionsOf(s, T))
  BY <1>1 DEF PositionsOf
<1>5. Len(s) + 1 \notin PositionsOf(s, T) BY <1>1 DEF PositionsOf
<1>6. Len(s) + 1 \in PositionsOf(Append(s, x), T) <=> x \in T BY <1>1 DEF PositionsOf
<1>7. QED BY <1>2, <1>3, <1>4, <1>5, <1>6, CountOneMove DEF CountOf
=============================================================================
