--------------------------- MODULE SequenceLemmas ---------------------------
(***************************************************************************)
(* Facts about sequences and the sets of their positions that the proofs   *)
(* about the queues need and the library does not state.                   *)
(***************************************************************************)
EXTENDS Integers, Sequences, FiniteSets, Functions, FiniteSetTheorems, SequenceTheorems,
        WellFoundedInduction, TLAPS

(* A set of naturals that is not empty has a least element.                *)
LEMMA LeastElement ==
  ASSUME NEW K \in SUBSET Nat, K # {}
  PROVE  \E m \in K : \A k \in K : m <= k
<1> DEFINE T == {1..k : k \in K}
<1>1. T \subseteq FiniteSubsetsOf(Nat)
  <2> SUFFICES ASSUME NEW k \in K PROVE 1..k \in FiniteSubsetsOf(Nat)
    OBVIOUS
  <2>1. IsFiniteSet(1..k)
    BY FS_Interval
  <2> QED BY <2>1 DEF FiniteSubsetsOf
<1>2. PICK x \in T : \A y \in T : ~(<<y, x>> \in StrictSubsetOrdering(Nat))
  <2>1. T # {}
    OBVIOUS
  <2>2. IsWellFoundedOn(StrictSubsetOrdering(Nat), FiniteSubsetsOf(Nat))
    BY FS_StrictSubsetOrderingWellFounded
  <2> HIDE DEF T
  <2> QED BY <1>1, <2>1, <2>2, WFMin
<1>3. PICK m \in K : x = 1..m
  BY <1>2
<1>4. ASSUME NEW k \in K, k < m PROVE FALSE
  <2>1. 1..k \subseteq 1..m
    BY <1>4
  <2>2. m \in 1..m /\ m \notin 1..k
    BY <1>4
  <2>3. <<1..k, 1..m>> \in StrictSubsetOrdering(Nat)
    <3>1. <<1..k, 1..m>> \in (SUBSET Nat) \X (SUBSET Nat)
      OBVIOUS
    <3> DEFINE ss == <<1..k, 1..m>>
    <3>2. ss[1] = 1..k /\ ss[2] = 1..m
      OBVIOUS
    <3>3. ss[1] \subseteq ss[2] /\ ss[1] # ss[2]
      BY <2>1, <2>2, <3>2
    <3> QED BY <3>1, <3>3 DEF StrictSubsetOrdering
  <2>4. 1..k \in T
    OBVIOUS
  <2> QED BY <1>2, <1>3, <2>3, <2>4
<1> QED BY <1>4

(* Sets of positions are finite.                                           *)
LEMMA BoundedIsFinite ==
  ASSUME NEW m \in Nat, NEW K \in SUBSET (1..m)
  PROVE  IsFiniteSet(K) /\ Cardinality(K) \in Nat
<1>1. IsFiniteSet(1..m)
  BY FS_Interval
<1>2. IsFiniteSet(K)
  BY <1>1, FS_Subset
<1> QED BY <1>2, FS_CardinalityType

(* A set of positions with at least n elements has an n-th element: one    *)
(* with n of them up to it.                                                *)
LEMMA NthElement ==
  ASSUME NEW m \in Nat, NEW K \in SUBSET (1..m), NEW n \in 1..Cardinality(K)
  PROVE  \E i \in K : Cardinality(K \cap (1..i)) = n
<1>1. Cardinality(K) \in Nat /\ \A i \in 0..m : Cardinality(K \cap (1..i)) \in Nat
  <2>1. \A i \in 0..m : K \cap (1..i) \in SUBSET (1..m)
    OBVIOUS
  <2> QED BY <2>1, BoundedIsFinite
<1> DEFINE P == {i \in 0..m : n <= Cardinality(K \cap (1..i))}
<1>2. m \in P
  <2>1. K \cap (1..m) = K
    OBVIOUS
  <2> QED BY <1>1, <2>1
<1>3. PICK i \in P : \A k \in P : i <= k
  <2>1. P \subseteq 0..m
    OBVIOUS
  <2>2. P \in SUBSET Nat
    <3> HIDE DEF P
    <3> QED BY <2>1
  <2> HIDE DEF P
  <2> QED BY <1>2, <2>2, LeastElement
<1>4. i # 0
  <2>1. K \cap (1..0) = {}
    OBVIOUS
  <2> QED BY <2>1, FS_EmptySet, <1>3
<1>5. i - 1 \in 0..m /\ i-1 \notin P
  BY <1>3, <1>4
<1> DEFINE J == K \cap (1..(i-1))
<1>6. IsFiniteSet(J) /\ Cardinality(J) \in Nat /\ Cardinality(J) < n
  <2>1. J \in SUBSET (1..m)
    OBVIOUS
  <2>2. IsFiniteSet(J) /\ Cardinality(J) \in Nat
    <3> HIDE DEF J
    <3> QED BY <2>1, BoundedIsFinite
  <2> QED BY <2>2, <1>5
<1>7. CASE i \in K
  <2>1. K \cap (1..i) = J \cup {i} /\ i \notin J
    BY <1>3, <1>7, <1>4
  <2>2. Cardinality(K \cap (1..i)) = Cardinality(J) + 1
    <3> HIDE DEF J
    <3> QED BY <2>1, <1>6, FS_AddElement
  <2>3. n <= Cardinality(K \cap (1..i))
    BY <1>3
  <2>4. Cardinality(K \cap (1..i)) = n
    <3> HIDE DEF J, P
    <3> QED BY <2>2, <2>3, <1>6
  <2> QED BY <2>4, <1>7
<1>8. CASE i \notin K
  <2>1. K \cap (1..i) = J
    BY <1>3, <1>8, <1>4
  <2>2. n <= Cardinality(J)
    BY <2>1, <1>3
  <2>3. FALSE
    <3> HIDE DEF J, P
    <3> QED BY <2>2, <1>6
  <2> QED BY <2>3
<1> QED BY <1>7, <1>8

(* A sequence is its head before its tail.                                 *)
LEMMA HeadBeforeTail ==
  ASSUME NEW S, NEW q \in Seq(S), q # <<>>
  PROVE  /\ Head(q) \in S /\ Tail(q) \in Seq(S)
         /\ q = <<Head(q)>> \o Tail(q)
         /\ Range(q) = {Head(q)} \cup Range(Tail(q))
<1>1. Head(q) \in S /\ Tail(q) \in Seq(S) /\ Head(q) = q[1] /\ <<Head(q)>> \in Seq(S)
  BY HeadTailProperties
<1>2. Len(q) \in Nat /\ Len(q) # 0 /\ Len(Tail(q)) = Len(q) - 1 /\ Len(<<Head(q)>>) = 1
  BY HeadTailProperties
<1>3. \A i \in 1..Len(q) : q[i] = IF i <= 1 THEN <<Head(q)>>[i] ELSE Tail(q)[i - 1]
  <2> SUFFICES ASSUME NEW i \in 1..Len(q)
               PROVE  q[i] = IF i <= 1 THEN <<Head(q)>>[i] ELSE Tail(q)[i - 1]
    OBVIOUS
  <2>1. CASE i = 1
    BY <1>1, <2>1
  <2>2. CASE i # 1
    <3>1. i - 1 \in 1..Len(Tail(q)) /\ (i - 1) + 1 = i /\ ~(i <= 1)
      BY <1>2, <2>2
    <3>2. Tail(q)[i - 1] = q[(i - 1) + 1]
      BY <3>1, HeadTailProperties
    <3> QED BY <3>1, <3>2
  <2> QED BY <2>1, <2>2
<1>4. q = <<Head(q)>> \o Tail(q)
  <2>1. PICK h \in Seq(S) : h = <<Head(q)>>
    BY <1>1
  <2>2. PICK t \in Seq(S) : t = Tail(q)
    BY <1>1
  <2>3. /\ h \o t \in Seq(S) /\ Len(h \o t) = Len(h) + Len(t)
        /\ \A i \in 1..Len(h) + Len(t) : (h \o t)[i] = IF i <= Len(h) THEN h[i] ELSE t[i - Len(h)]
    BY ConcatProperties
  <2>4. Len(h \o t) = Len(q) /\ \A i \in 1..Len(q) : (h \o t)[i] = q[i]
    BY <1>2, <1>3, <2>1, <2>2, <2>3
  <2> QED BY <2>1, <2>2, <2>3, <2>4, SeqEqual
<1>5. Range(<<Head(q)>>) = {Head(q)}
  BY DEF Range
<1>6. Range(<<Head(q)>> \o Tail(q)) = Range(<<Head(q)>>) \cup Range(Tail(q))
  BY <1>1, RangeConcatenation
<1> QED BY <1>1, <1>4, <1>5, <1>6

(* Where the concatenation of two sequences repeats nothing, neither does  *)
(* one of them, and they share nothing.                                    *)
LEMMA InjectiveParts ==
  ASSUME NEW S, NEW p \in Seq(S), NEW r \in Seq(S)
  PROVE  IsInjective(p \o r) <=>
           IsInjective(p) /\ IsInjective(r) /\ Range(p) \cap Range(r) = {}
<1> DEFINE q == p \o r
<1>1. q \in Seq(S) /\ Len(q) = Len(p) + Len(r) /\ Len(p) \in Nat /\ Len(r) \in Nat
  BY ConcatProperties
<1>2. \A i \in 1..Len(p) : q[i] = p[i] /\ i \in 1..Len(q)
  BY <1>1
<1>3. \A i \in 1..Len(r) : q[Len(p) + i] = r[i] /\ Len(p) + i \in 1..Len(q)
  BY <1>1
<1>4. /\ DOMAIN p = 1..Len(p) /\ DOMAIN r = 1..Len(r) /\ DOMAIN q = 1..Len(q)
  BY <1>1
<1>5. ASSUME NEW i \in 1..Len(q), i \notin 1..Len(p)
      PROVE  i - Len(p) \in 1..Len(r) /\ q[i] = r[i - Len(p)]
  BY <1>1, <1>5
<1> HIDE DEF q
<1>6. ASSUME IsInjective(q)
      PROVE  IsInjective(p) /\ IsInjective(r) /\ Range(p) \cap Range(r) = {}
  <2>1. IsInjective(p)
    BY <1>2, <1>4, <1>6 DEF IsInjective
  <2>2. ASSUME NEW i \in 1..Len(r), NEW j \in 1..Len(r), r[i] = r[j] PROVE i = j
    <3>1. Len(p) + i = Len(p) + j
      BY <1>3, <1>4, <1>6, <2>2 DEF IsInjective
    <3> QED BY <1>1, <3>1
  <2>3. ASSUME NEW i \in 1..Len(p), NEW j \in 1..Len(r), p[i] = r[j] PROVE FALSE
    <3>1. i = Len(p) + j
      BY <1>2, <1>3, <1>4, <1>6, <2>3 DEF IsInjective
    <3> QED BY <1>1, <3>1
  <2> QED BY <1>4, <2>1, <2>2, <2>3 DEF IsInjective, Range
<1>7. ASSUME IsInjective(p), IsInjective(r), Range(p) \cap Range(r) = {}
      PROVE  IsInjective(q)
  <2> SUFFICES ASSUME NEW i \in 1..Len(q), NEW j \in 1..Len(q), q[i] = q[j] PROVE i = j
    BY <1>4 DEF IsInjective
  <2>1. CASE i \in 1..Len(p) /\ j \in 1..Len(p)
    BY <1>2, <1>4, <1>7, <2>1 DEF IsInjective
  <2>2. CASE i \notin 1..Len(p) /\ j \notin 1..Len(p)
    <3>1. i - Len(p) = j - Len(p)
      BY <1>4, <1>5, <1>7, <2>2 DEF IsInjective
    <3> QED BY <1>1, <3>1
  <2>3. ASSUME NEW k \in 1..Len(q), NEW l \in 1..Len(q), q[k] = q[l],
               k \in 1..Len(p), l \notin 1..Len(p)
        PROVE  FALSE
    <3>1. q[k] \in Range(p)
      BY <1>2, <1>4, <2>3 DEF Range
    <3>2. q[l] \in Range(r)
      BY <1>4, <1>5, <2>3 DEF Range
    <3> QED BY <1>7, <2>3, <3>1, <3>2
  <2> QED BY <2>1, <2>2, <2>3
<1> QED BY <1>6, <1>7 DEF q

(* What an element appended does to the elements.                          *)
LEMMA AppendElements ==
  ASSUME NEW S, NEW q \in Seq(S), NEW x \in S
  PROVE  /\ Append(q, x) \in Seq(S)
         /\ Range(Append(q, x)) = Range(q) \cup {x}
         /\ IsInjective(q) /\ x \notin Range(q) => IsInjective(Append(q, x))
<1>1. PICK h \in Seq(S) : h = <<x>>
  <2>1. <<x>> \in Seq(S)
    OBVIOUS
  <2> QED BY <2>1
<1>2. Range(h) = {x} /\ IsInjective(h)
  BY <1>1 DEF Range, IsInjective
<1>3. Append(q, x) = q \o h
  BY <1>1, AppendIsConcat
<1> QED BY <1>2, <1>3, RangeConcatenation, InjectiveParts, ConcatProperties

(* The handler returned: the head of the request queue is entered.         *)
LEMMA HeadRemoved ==
  ASSUME NEW S, NEW q \in Seq(S), q # <<>>, IsInjective(q)
  PROVE  /\ Head(q) \in S /\ Tail(q) \in Seq(S) /\ IsInjective(Tail(q))
         /\ Range(q) = {Head(q)} \cup Range(Tail(q))
         /\ Head(q) \notin Range(Tail(q))
<1>1. Head(q) \in S /\ Tail(q) \in Seq(S)
  BY HeadTailProperties
<1>2. PICK h \in Seq(S), v \in Seq(S) : h = <<Head(q)>> /\ v = Tail(q)
  <2>1. <<Head(q)>> \in Seq(S)
    BY <1>1
  <2> QED BY <1>1, <2>1
<1>3. q = h \o v
  BY <1>2, HeadBeforeTail
<1>4. Range(h) = {Head(q)}
  BY <1>2 DEF Range
<1>5. IsInjective(v) /\ Range(h) \cap Range(v) = {} /\ Range(q) = Range(h) \cup Range(v)
  BY <1>3, InjectiveParts, RangeConcatenation
<1> QED BY <1>1, <1>2, <1>4, <1>5

(* (The same, for the solver that cannot use more.)                        *)
LEMMA AppendRange ==
  ASSUME NEW S, NEW q \in Seq(S), NEW x \in S
  PROVE  Range(Append(q, x)) = Range(q) \cup {x}
  BY AppendElements

LEMMA AppendNonempty ==
  ASSUME NEW S, NEW q \in Seq(S), NEW x \in S
  PROVE  Append(q, x) # <<>>
<1>1. Len(Append(q, x)) = Len(q) + 1 /\ Len(q) \in Nat
  OBVIOUS
<1> QED BY <1>1

LEMMA ConcatNonempty ==
  ASSUME NEW S, NEW p \in Seq(S), NEW q \in Seq(S), q # <<>>
  PROVE  p \o q # <<>>
<1>1. Len(p) \in Nat /\ Len(q) \in Nat /\ Len(q) # 0 /\ Len(p \o q) = Len(p) + Len(q)
  OBVIOUS
<1>2. Len(p \o q) # 0
  BY <1>1
<1> QED BY <1>2

(* Sequences by their sets of elements.                                    *)
LEMMA EmptyRange ==
  ASSUME NEW S, NEW q \in Seq(S), Range(q) = {}
  PROVE  q = <<>>
<1>1. \A i \in DOMAIN q : q[i] \in Range(q)
  BY DEF Range
<1>2. DOMAIN q = 1..Len(q) /\ Len(q) \in Nat
  OBVIOUS
<1>3. 1 \notin 1..Len(q)
  BY <1>1, <1>2
<1> QED BY <1>2, <1>3

LEMMA OneInRange ==
  ASSUME NEW S, NEW q \in Seq(S), IsInjective(q), NEW x, Range(q) = {x}
  PROVE  q = <<x>>
<1>1. \A i \in 1..Len(q) : q[i] = x
  BY DEF Range
<1>2. \A i, j \in 1..Len(q) : q[i] = q[j] => i = j
  BY DEF IsInjective
<1>3. q # <<>>
  BY DEF Range
<1>4. PICK n \in Nat : n = Len(q)
  OBVIOUS
<1>5. n = 1
  <2>1. n # 0
    BY <1>3, <1>4
  <2>2. 1 \in 1..n /\ n \in 1..n
    BY <2>1
  <2>3. 1 = n
    BY <1>1, <1>2, <1>4, <2>2
  <2> QED BY <2>3
<1>6. Len(q) = 1 /\ q[1] = x
  BY <1>1, <1>4, <1>5
<1> QED BY <1>6

===============================================================================
