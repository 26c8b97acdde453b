----------------------------- MODULE OrderedProofs -----------------------------
(***************************************************************************)
(* What the proofs about lists rest on: induction over the numbers and     *)
(* over sequences, said of sets; the places of a sequence in their order,  *)
(* and what is picked there; and concatenation, hidden behind a word so    *)
(* that the provers compare lists by their elements.                       *)
(***************************************************************************)
EXTENDS Ordered, SequenceTheorems, FiniteSetTheorems, NaturalsInduction, WellFoundedInduction, TLAPS

(* What holds of 0, and of n + 1 once it holds of n, holds of all numbers. *)
LEMMA NatSet ==
  ASSUME NEW S, 0 \in S, \A n \in Nat : n \in S => n + 1 \in S
  PROVE  Nat \subseteq S
<1> DEFINE R == OpToRel(<, Nat)
<1> DEFINE T == Nat \ S
<1> SUFFICES ASSUME T # {} PROVE FALSE
  OBVIOUS
<1>1. IsWellFoundedOn(R, Nat)
  BY NatLessThanWellFounded
<1>2. PICK x \in T : \A y \in T : ~(<<y, x>> \in R)
  <2> HIDE DEF R
  <2>1. T \subseteq Nat
    OBVIOUS
  <2> HIDE DEF T
  <2>2. QED
    BY <1>1, <2>1, WFMin
<1>3. \A y \in T : ~(y < x)
  BY <1>2 DEF OpToRel
<1>4. x # 0 /\ x \in Nat
  OBVIOUS
<1>5. x - 1 \in Nat /\ x - 1 \in S
  BY <1>3, <1>4
<1>6. QED
  BY <1>4, <1>5

(* Every set of natural numbers that is not empty has a least element.     *)
LEMMA LeastNat ==
  ASSUME NEW S \in SUBSET Nat, S # {}
  PROVE  \E x \in S : \A y \in S : x <= y
<1> DEFINE B == {n \in Nat : \A y \in S : n <= y}
<1> SUFFICES ASSUME \A x \in S : \E y \in S : y < x PROVE FALSE
  OBVIOUS
<1>1. 0 \in B
  OBVIOUS
<1>2. ASSUME NEW n \in Nat, n \in B PROVE n + 1 \in B
  <2>1. n \notin S
    BY <1>2
  <2>2. QED
    BY <1>2, <2>1
<1>3. Nat \subseteq B
  <2> HIDE DEF B
  <2>1. QED
    BY <1>1, <1>2, NatSet
<1>4. PICK x \in S : TRUE
  OBVIOUS
<1>5. x + 1 \in B
  BY <1>3
<1>6. QED
  BY <1>5

(* The first k elements of an increasing list are k in number.             *)
LEMMA CountUpTo ==
  ASSUME NEW v \in Seq(Nat), Increasing(v), NEW k \in 0..Len(v)
  PROVE  /\ IsFiniteSet({v[i] : i \in 1..k})
         /\ Cardinality({v[i] : i \in 1..k}) = k
<1> DEFINE f == [i \in 1..k |-> v[i]]
<1>1. v \in [1..Len(v) -> Nat] /\ Len(v) \in Nat
  OBVIOUS
<1>2. \A i, j \in 1..k : i # j => v[i] # v[j]
  <2> SUFFICES ASSUME NEW i \in 1..k, NEW j \in 1..k, i # j PROVE v[i] # v[j]
    OBVIOUS
  <2>1. v[i] \in Nat /\ v[j] \in Nat /\ i \in DOMAIN v /\ j \in DOMAIN v
    BY <1>1
  <2>2. i < j \/ j < i
    BY <1>1
  <2>3. QED
    BY <2>1, <2>2 DEF Increasing
<1>3. f \in Bijection(1..k, {v[i] : i \in 1..k})
  <2>1. f \in [1..k -> {v[i] : i \in 1..k}]
    OBVIOUS
  <2>2. \A i, j \in 1..k : f[i] = f[j] => i = j
    BY <1>2
  <2>3. \A x \in {v[i] : i \in 1..k} : \E i \in 1..k : f[i] = x
    OBVIOUS
  <2> HIDE DEF f
  <2>4. QED
    BY <2>1, <2>2, <2>3 DEF Bijection, Injection, Surjection, IsInjective
<1>4. ExistsBijection(1..k, {v[i] : i \in 1..k})
  BY <1>3 DEF ExistsBijection
<1>5. k \in Nat
  BY <1>1
<1>6. QED
  BY <1>4, <1>5, FS_CountingElements, FS_NatBijection

(* An increasing list is the list of its elements.                         *)
LEMMA InOrderIs ==
  ASSUME NEW v \in Seq(Nat), Increasing(v)
  PROVE  InOrder({v[i] : i \in DOMAIN v}) = v
<1> DEFINE I == {v[i] : i \in DOMAIN v}
<1> DEFINE N(i) == Cardinality({j \in I : j <= i})
<1>1. v \in [1..Len(v) -> Nat] /\ Len(v) \in Nat /\ DOMAIN v = 1..Len(v)
  OBVIOUS
<1>2. Cardinality(I) = Len(v)
  <2>1. Len(v) \in 0..Len(v)
    BY <1>1
  <2>2. QED
    BY <1>1, <2>1, CountUpTo
<1>3. \A k \in 1..Len(v) : N(v[k]) = k
  <2> SUFFICES ASSUME NEW k \in 1..Len(v) PROVE N(v[k]) = k
    OBVIOUS
  <2>1. \A i \in 1..Len(v) : v[i] <= v[k] <=> i <= k
    <3> SUFFICES ASSUME NEW i \in 1..Len(v) PROVE v[i] <= v[k] <=> i <= k
      OBVIOUS
    <3>1. v[i] \in Nat /\ v[k] \in Nat /\ i \in DOMAIN v /\ k \in DOMAIN v
      BY <1>1
    <3>2. (i < k => v[i] < v[k]) /\ (k < i => v[k] < v[i])
      BY <3>1 DEF Increasing
    <3>3. QED
      BY <3>1, <3>2
  <2>2. {j \in I : j <= v[k]} = {v[i] : i \in 1..k}
    <3>1. \A i \in 1..k : i \in 1..Len(v) /\ i <= k
      BY <1>1
    <3>2. \A i \in 1..Len(v) : i <= k => i \in 1..k
      BY <1>1
    <3>3. QED
      BY <1>1, <2>1, <3>1, <3>2, Zenon
  <2>3. k \in 0..Len(v)
    BY <1>1
  <2>4. QED
    BY <2>2, <2>3, CountUpTo
<1>4. \A k \in 1..Len(v) : (CHOOSE i \in I : N(i) = k) = v[k]
  <2> SUFFICES ASSUME NEW k \in 1..Len(v) PROVE (CHOOSE i \in I : N(i) = k) = v[k]
    OBVIOUS
  <2>1. v[k] \in I /\ N(v[k]) = k
    BY <1>1, <1>3
  <2>2. \A i \in I : N(i) = k => i = v[k]
    BY <1>1, <1>3
  <2>3. QED
    <3> HIDE DEF N, I
    <3>1. QED
      BY <2>1, <2>2
<1>5. QED
  BY <1>1, <1>2, <1>4 DEF InOrder

(* Every set of the numbers up to n is that of an increasing list.         *)
LEMMA InOrderExists ==
  ASSUME NEW n \in Nat, NEW I \in SUBSET (1..n)
  PROVE  \E v \in Seq(Nat) : Increasing(v) /\ {v[i] : i \in DOMAIN v} = I
<1> DEFINE Listed(J) == \E v \in Seq(Nat) : Increasing(v) /\ {v[i] : i \in DOMAIN v} = J
<1> DEFINE S == {m \in Nat : \A J \in SUBSET (1..m) : Listed(J)}
<1>1. 0 \in S
  <2>1. Listed({})
    <3>1. <<>> \in Seq(Nat) /\ Increasing(<<>>) /\ {<<>>[i] : i \in DOMAIN <<>>} = {}
      BY DEF Increasing
    <3>2. QED
      BY <3>1
  <2>2. \A J \in SUBSET (1..0) : J = {}
    OBVIOUS
  <2> HIDE DEF Listed
  <2>3. QED
    BY <2>1, <2>2
<1>2. ASSUME NEW m \in Nat, m \in S PROVE m + 1 \in S
  <2> SUFFICES ASSUME NEW J \in SUBSET (1..(m + 1)) PROVE Listed(J)
    <3> HIDE DEF Listed
    <3>1. QED
      OBVIOUS
  <2>1. J \ {m + 1} \in SUBSET (1..m)
    OBVIOUS
  <2>2. PICK v \in Seq(Nat) : Increasing(v) /\ {v[i] : i \in DOMAIN v} = J \ {m + 1}
    BY <1>2, <2>1
  <2>3. CASE m + 1 \notin J
    BY <2>2, <2>3
  <2>4. CASE m + 1 \in J
    <3> DEFINE w == Append(v, m + 1)
    <3>1. v \in [1..Len(v) -> Nat] /\ Len(v) \in Nat
      OBVIOUS
    <3>2. w \in Seq(Nat) /\ DOMAIN w = 1..(Len(v) + 1) /\ w[Len(v) + 1] = m + 1
      <4>1. w \in Seq(Nat) /\ Len(w) = Len(v) + 1 /\ w[Len(v) + 1] = m + 1
        BY AppendProperties
      <4> HIDE DEF w
      <4>2. QED
        BY <4>1
    <3>3. \A i \in 1..Len(v) : w[i] = v[i] /\ v[i] \in 1..m
      <4>1. \A i \in 1..Len(v) : w[i] = v[i]
        BY AppendProperties
      <4>2. \A i \in 1..Len(v) : v[i] \in 1..m
        BY <3>1, <2>1, <2>2
      <4>3. QED
        BY <4>1, <4>2
    <3>4. Increasing(w)
      <4> SUFFICES ASSUME NEW i \in 1..(Len(v) + 1), NEW j \in 1..(Len(v) + 1), i < j
                   PROVE  w[i] < w[j]
        BY <3>2 DEF Increasing
      <4>1. i \in 1..Len(v) /\ w[i] = v[i] /\ v[i] \in 1..m
        BY <3>1, <3>3
      <4>2. CASE j = Len(v) + 1
        <5>1. w[j] = m + 1
          BY <4>2, <3>2
        <5> HIDE DEF w
        <5>2. QED
          BY <4>1, <5>1
      <4>3. CASE j \in 1..Len(v)
        <5>1. v[i] < v[j] /\ w[j] = v[j]
          BY <4>1, <4>3, <3>1, <3>3, <2>2 DEF Increasing
        <5> HIDE DEF w
        <5>2. QED
          BY <4>1, <5>1
      <4>4. QED
        BY <3>1, <4>2, <4>3
    <3>5. {w[i] : i \in DOMAIN w} = J
      <4>1. {w[i] : i \in DOMAIN w} = {w[i] : i \in 1..Len(v)} \cup {m + 1}
        <5>1. 1..(Len(v) + 1) = 1..Len(v) \cup {Len(v) + 1}
          BY <3>1
        <5>2. DOMAIN w = 1..(Len(v) + 1) /\ w[Len(v) + 1] = m + 1
          BY <3>2
        <5> HIDE DEF w
        <5>3. QED
          BY <5>1, <5>2
      <4>2. {w[i] : i \in 1..Len(v)} = {v[i] : i \in DOMAIN v}
        <5> HIDE DEF w
        <5>1. QED
          BY <3>1, <3>3
      <4> HIDE DEF w
      <4>3. QED
        BY <4>1, <4>2, <2>2, <2>4
    <3> HIDE DEF w
    <3>6. QED
      BY <3>2, <3>4, <3>5
  <2>5. QED
    BY <2>3, <2>4
<1>3. Nat \subseteq S
  <2> HIDE DEF S
  <2>1. QED
    BY <1>1, <1>2, NatSet
<1>4. QED
  BY <1>3

(* The list of a set of numbers is increasing and has its elements.        *)
LEMMA InOrderFacts ==
  ASSUME NEW n \in Nat, NEW I \in SUBSET (1..n)
  PROVE  /\ InOrder(I) \in Seq(Nat)
         /\ InOrder(I) \in Seq(I)
         /\ Increasing(InOrder(I))
         /\ {InOrder(I)[i] : i \in DOMAIN InOrder(I)} = I
         /\ IsFiniteSet(I)
         /\ Cardinality(I) \in Nat
         /\ Len(InOrder(I)) = Cardinality(I)
<1>1. PICK v \in Seq(Nat) : Increasing(v) /\ {v[i] : i \in DOMAIN v} = I
  BY InOrderExists
<1>2. InOrder(I) = v
  BY <1>1, InOrderIs
<1>3. v \in [1..Len(v) -> Nat] /\ Len(v) \in Nat
  OBVIOUS
<1>4. v \in Seq(I)
  BY <1>1, <1>3
<1>5. Len(v) \in 0..Len(v) /\ DOMAIN v = 1..Len(v)
  BY <1>3
<1>6. IsFiniteSet(I) /\ Cardinality(I) = Len(v)
  BY <1>1, <1>5, CountUpTo
<1>7. QED
  BY <1>1, <1>2, <1>3, <1>4, <1>6
-----------------------------------------------------------------------------
(* A sequence is a function on the numbers up to its length.               *)
LEMMA SeqIs ==
  ASSUME NEW S, NEW s \in Seq(S)
  PROVE  s \in [1..Len(s) -> S] /\ Len(s) \in Nat /\ DOMAIN s = 1..Len(s)
OBVIOUS

(* A function on the numbers up to n is a sequence.                        *)
LEMMA IsSeq ==
  ASSUME NEW S, NEW n \in Nat, NEW f \in [1..n -> S]
  PROVE  f \in Seq(S) /\ Len(f) = n /\ DOMAIN f = 1..n
OBVIOUS

(* Sequences of one length and with the same elements are the same.        *)
LEMMA SameSeq ==
  ASSUME NEW S, NEW T, NEW s \in Seq(S), NEW t \in Seq(T), Len(s) = Len(t),
         \A k \in 1..Len(s) : s[k] = t[k]
  PROVE  s = t
<1>1. s = [k \in 1..Len(s) |-> s[k]] /\ t = [k \in 1..Len(t) |-> t[k]]
  BY SeqIs
<1>2. QED
  BY <1>1

(* A concatenation, as one word that the provers need not look into.       *)
Joins(u, s, t) == u = s \o t

(* The elements of a concatenation.                                        *)
LEMMA JoinIs ==
  ASSUME NEW S, NEW s \in Seq(S), NEW t \in Seq(S), NEW u, Joins(u, s, t)
  PROVE  /\ u \in Seq(S) /\ Len(u) = Len(s) + Len(t)
         /\ DOMAIN u = 1..(Len(s) + Len(t)) /\ Len(s) \in Nat /\ Len(t) \in Nat
         /\ \A k \in 1..Len(s) : u[k] = s[k]
         /\ \A k \in 1..Len(t) : u[Len(s) + k] = t[k]
         /\ \A k \in 1..Len(u) :
              k \in 1..Len(s) \/ (k - Len(s) \in 1..Len(t) /\ Len(s) + (k - Len(s)) = k)
<1>1. /\ s \o t \in Seq(S) /\ Len(s \o t) = Len(s) + Len(t)
      /\ \A k \in 1..Len(s) : (s \o t)[k] = s[k]
      /\ \A k \in 1..Len(t) : (s \o t)[Len(s) + k] = t[k]
  OBVIOUS
<1>2. Len(s) \in Nat /\ Len(t) \in Nat
  OBVIOUS
<1>3. u = s \o t
  BY DEF Joins
<1>4. /\ u \in Seq(S) /\ Len(u) = Len(s) + Len(t)
      /\ \A k \in 1..Len(s) : u[k] = s[k]
      /\ \A k \in 1..Len(t) : u[Len(s) + k] = t[k]
  BY <1>1, <1>3, Zenon
<1>5. DOMAIN u = 1..(Len(s) + Len(t))
  BY <1>4, SeqIs
<1>6. \A k \in 1..(Len(s) + Len(t)) :
        k \in 1..Len(s) \/ (k - Len(s) \in 1..Len(t) /\ Len(s) + (k - Len(s)) = k)
  BY <1>2
<1>7. QED
  BY <1>2, <1>4, <1>5, <1>6

(* What has the length and the elements of a concatenation is one.         *)
LEMMA IsJoin ==
  ASSUME NEW S, NEW s \in Seq(S), NEW t \in Seq(S), NEW u \in Seq(S),
         Len(u) = Len(s) + Len(t),
         \A k \in 1..Len(s) : u[k] = s[k],
         \A k \in 1..Len(t) : u[Len(s) + k] = t[k]
  PROVE  Joins(u, s, t)
<1> DEFINE v == s \o t
<1>1. Joins(v, s, t)
  BY DEF Joins
<1> HIDE DEF v
<1>2. /\ v \in Seq(S) /\ Len(v) = Len(s) + Len(t)
      /\ \A k \in 1..Len(s) : v[k] = s[k]
      /\ \A k \in 1..Len(t) : v[Len(s) + k] = t[k]
      /\ \A k \in 1..Len(v) :
           k \in 1..Len(s) \/ (k - Len(s) \in 1..Len(t) /\ Len(s) + (k - Len(s)) = k)
  BY <1>1, JoinIs
<1>3. ASSUME NEW k \in 1..Len(v) PROVE u[k] = v[k]
  <2>1. CASE k \in 1..Len(s)
    BY <2>1, <1>2
  <2>2. CASE k \notin 1..Len(s)
    <3>1. k - Len(s) \in 1..Len(t) /\ Len(s) + (k - Len(s)) = k
      BY <2>2, <1>2
    <3>2. u[Len(s) + (k - Len(s))] = t[k - Len(s)] /\ v[Len(s) + (k - Len(s))] = t[k - Len(s)]
      BY <3>1, <1>2
    <3>3. QED
      BY <3>1, <3>2
  <2>3. QED
    BY <2>1, <2>2
<1>4. u = v
  BY <1>2, <1>3, SameSeq
<1>5. QED
  BY <1>1, <1>4

(* The same, with its domain.                                              *)
LEMMA InOrderList ==
  ASSUME NEW n \in Nat, NEW I \in SUBSET (1..n)
  PROVE  /\ InOrder(I) \in Seq(I) /\ InOrder(I) \in Seq(Nat)
         /\ InOrder(I) \in [1..Len(InOrder(I)) -> I]
         /\ Len(InOrder(I)) \in Nat /\ DOMAIN InOrder(I) = 1..Len(InOrder(I))
         /\ Len(InOrder(I)) = Cardinality(I)
         /\ Increasing(InOrder(I)) /\ {InOrder(I)[i] : i \in DOMAIN InOrder(I)} = I
<1>1. InOrder(I) \in Seq(I)
  BY InOrderFacts
<1>2. QED
  BY <1>1, SeqIs, InOrderFacts

(* There is one way only to list a set of numbers in their order.          *)
LEMMA InOrderUnique ==
  ASSUME NEW I, NEW v \in Seq(Nat), Increasing(v), I = {v[i] : i \in DOMAIN v}
  PROVE  InOrder(I) = v
BY InOrderIs

(* The numbers of two stretches are listed one stretch after the other.    *)
LEMMA InOrderConcat ==
  ASSUME NEW m \in Nat, NEW n \in Nat, NEW I \in SUBSET (1..m), NEW J \in SUBSET (1..n)
  PROVE  InOrder(I \cup {m + j : j \in J})
           = InOrder(I) \o [k \in 1..Len(InOrder(J)) |-> m + InOrder(J)[k]]
<1> DEFINE u == InOrder(I) v == InOrder(J)
<1> DEFINE w == u \o [k \in 1..Len(v) |-> m + v[k]]
<1>1. u \in [1..Len(u) -> I] /\ Len(u) \in Nat /\ Increasing(u) /\ {u[i] : i \in DOMAIN u} = I
      /\ u \in Seq(I) /\ DOMAIN u = 1..Len(u) /\ u \in Seq(Nat)
  BY InOrderList
<1>2. v \in [1..Len(v) -> J] /\ Len(v) \in Nat /\ Increasing(v) /\ {v[i] : i \in DOMAIN v} = J
      /\ v \in Seq(J) /\ DOMAIN v = 1..Len(v) /\ v \in Seq(Nat)
  BY InOrderList
<1> HIDE DEF u, v
<1> DEFINE z == [k \in 1..Len(v) |-> m + v[k]]
<1>3. z \in Seq(Nat) /\ Len(z) = Len(v) /\ \A k \in 1..Len(v) : z[k] = m + v[k]
  <2>1. z \in [1..Len(v) -> Nat]
    BY <1>2
  <2>2. \A k \in 1..Len(v) : z[k] = m + v[k]
    OBVIOUS
  <2> HIDE DEF z
  <2>3. QED
    BY <2>1, <2>2, <1>2, IsSeq
<1>4. u \in Seq(Nat)
  BY <1>1
<1>5. w = u \o z
  OBVIOUS
<1> HIDE DEF z, w
<1>6. /\ w \in Seq(Nat) /\ Len(w) = Len(u) + Len(v) /\ DOMAIN w = 1..(Len(u) + Len(v))
      /\ \A k \in 1..Len(u) : w[k] = u[k]
      /\ \A k \in 1..Len(v) : w[Len(u) + k] = z[k]
  <2>1. /\ u \o z \in Seq(Nat) /\ Len(u \o z) = Len(u) + Len(z)
        /\ \A k \in 1..Len(u) : (u \o z)[k] = u[k]
        /\ \A k \in 1..Len(z) : (u \o z)[Len(u) + k] = z[k]
    <3>1. u \in Seq(Nat) /\ z \in Seq(Nat)
      BY <1>1, <1>3
    <3>2. QED
      BY <3>1
  <2>2. DOMAIN w = 1..Len(w)
    BY <2>1, <1>5, SeqIs, Zenon
  <2>3. QED
    BY <2>1, <2>2, <1>3, <1>5, Zenon
<1>7. \A k \in 1..(Len(u) + Len(v)) :
        \/ k \in 1..Len(u) /\ w[k] = u[k] /\ u[k] \in I
        \/ k - Len(u) \in 1..Len(v) /\ w[k] = m + v[k - Len(u)] /\ v[k - Len(u)] \in J
  <2> SUFFICES ASSUME NEW k \in 1..(Len(u) + Len(v)), k \notin 1..Len(u)
               PROVE  k - Len(u) \in 1..Len(v) /\ w[k] = m + v[k - Len(u)]
                      /\ v[k - Len(u)] \in J
    BY <1>1, <1>6
  <2>1. k - Len(u) \in 1..Len(v) /\ Len(u) + (k - Len(u)) = k
    <3>1. Len(u) \in Nat /\ Len(v) \in Nat
      BY <1>1, <1>2
    <3>2. QED
      BY <3>1
  <2>2. w[k] = z[k - Len(u)]
    BY <2>1, <1>6
  <2>3. QED
    BY <2>1, <2>2, <1>2, <1>3
<1>8. Increasing(w)
  <2> SUFFICES ASSUME NEW i \in 1..(Len(u) + Len(v)), NEW j \in 1..(Len(u) + Len(v)), i < j
               PROVE  w[i] < w[j]
    BY <1>6 DEF Increasing
  <2>1. CASE j \in 1..Len(u)
    <3>1. i \in 1..Len(u)
      BY <1>1, <2>1
    <3>2. w[i] = u[i] /\ w[j] = u[j] /\ DOMAIN u = 1..Len(u)
      BY <1>1, <1>6, <2>1, <3>1
    <3>3. QED
      BY <3>1, <3>2, <2>1, <1>1 DEF Increasing
  <2>2. CASE i \in 1..Len(u) /\ j \notin 1..Len(u)
    <3>1. w[i] = u[i] /\ u[i] \in 1..m
      BY <1>1, <1>6, <2>2
    <3>2. w[j] = m + v[j - Len(u)] /\ v[j - Len(u)] \in 1..n
      BY <1>7, <2>2
    <3>3. QED
      BY <3>1, <3>2
  <2>3. CASE i \notin 1..Len(u)
    <3>1. j \notin 1..Len(u)
      BY <1>1, <2>3
    <3>2. w[i] = m + v[i - Len(u)] /\ v[i - Len(u)] \in 1..n /\ i - Len(u) \in 1..Len(v)
      BY <1>7, <2>3
    <3>3. w[j] = m + v[j - Len(u)] /\ v[j - Len(u)] \in 1..n /\ j - Len(u) \in 1..Len(v)
      BY <1>7, <3>1
    <3>4. i - Len(u) < j - Len(u) /\ DOMAIN v = 1..Len(v)
      BY <1>1, <1>2
    <3>5. v[i - Len(u)] < v[j - Len(u)]
      BY <3>2, <3>3, <3>4, <1>2 DEF Increasing
    <3>6. QED
      BY <3>2, <3>3, <3>5
  <2>4. QED
    BY <2>1, <2>2, <2>3
<1>9. I \cup {m + j : j \in J} = {w[k] : k \in DOMAIN w}
  <2>1. \A k \in DOMAIN w : w[k] \in I \cup {m + j : j \in J}
    BY <1>6, <1>7
  <2>2. ASSUME NEW x \in I PROVE \E k \in DOMAIN w : w[k] = x
    <3>1. PICK k \in 1..Len(u) : u[k] = x
      BY <1>1
    <3>2. k \in DOMAIN w
      BY <1>1, <1>2, <1>6
    <3>3. QED
      BY <3>1, <3>2, <1>6
  <2>3. ASSUME NEW j \in J PROVE \E k \in DOMAIN w : w[k] = m + j
    <3>1. PICK k \in 1..Len(v) : v[k] = j
      BY <1>2
    <3>2. Len(u) + k \in DOMAIN w
      BY <1>1, <1>2, <1>6
    <3>3. w[Len(u) + k] = z[k]
      BY <1>6
    <3>4. QED
      BY <3>1, <3>2, <3>3, <1>3
  <2>4. QED
    BY <2>1, <2>2, <2>3
<1>10. InOrder(I \cup {m + j : j \in J}) = w
  BY <1>6, <1>8, <1>9, InOrderUnique
<1>11. QED
  BY <1>10, <1>5 DEF u, v, z

(* The list of the numbers up to n is those numbers.                       *)
LEMMA InOrderAll ==
  ASSUME NEW n \in Nat
  PROVE  InOrder(1..n) = [i \in 1..n |-> i]
<1> DEFINE v == [i \in 1..n |-> i]
<1>1. v \in Seq(Nat) /\ DOMAIN v = 1..n
  OBVIOUS
<1>2. Increasing(v)
  BY DEF Increasing
<1>3. {v[i] : i \in DOMAIN v} = 1..n
  OBVIOUS
<1> HIDE DEF v
<1>4. InOrder(1..n) = v
  BY <1>1, <1>2, <1>3, InOrderUnique
<1>5. QED
  BY <1>4 DEF v

(* The list of no numbers is empty.                                        *)
LEMMA InOrderNone == InOrder({}) = <<>>
<1>1. <<>> \in Seq(Nat) /\ Increasing(<<>>) /\ {} = {<<>>[i] : i \in DOMAIN <<>>}
  BY DEF Increasing
<1>2. QED
  BY <1>1, InOrderUnique

(* The list of one number.                                                 *)
LEMMA InOrderOne ==
  ASSUME NEW n \in Nat
  PROVE  InOrder({n}) = <<n>>
<1>1. <<n>> \in Seq(Nat) /\ Increasing(<<n>>) /\ {n} = {<<n>>[i] : i \in DOMAIN <<n>>}
  BY DEF Increasing
<1>2. QED
  BY <1>1, InOrderUnique

(* A number greater than all the others comes last.                        *)
LEMMA InOrderAppend ==
  ASSUME NEW n \in Nat, NEW I \in SUBSET (1..n)
  PROVE  InOrder(I \cup {n + 1}) = Append(InOrder(I), n + 1)
<1>1. {1} \in SUBSET (1..1) /\ 1 \in Nat /\ {n + j : j \in {1}} = {n + 1}
  OBVIOUS
<1>2. InOrder({1}) = <<1>>
  BY InOrderOne
<1>3. InOrder(I \cup {n + j : j \in {1}})
        = InOrder(I) \o [k \in 1..Len(InOrder({1})) |-> n + InOrder({1})[k]]
  BY <1>1, InOrderConcat
<1>4. [k \in 1..Len(<<1>>) |-> n + <<1>>[k]] = <<n + 1>>
  OBVIOUS
<1>5. InOrder(I) \in Seq(Nat)
  BY InOrderList
<1>6. InOrder(I \cup {n + 1}) = InOrder(I) \o <<n + 1>>
  BY <1>1, <1>2, <1>3, <1>4
<1>7. InOrder(I) \o <<n + 1>> = Append(InOrder(I), n + 1)
  BY <1>5
<1>8. QED
  BY <1>6, <1>7

-----------------------------------------------------------------------------
(* What is picked out of a sequence.                                       *)
LEMMA PickedFacts ==
  ASSUME NEW S, NEW s \in Seq(S), NEW I \in SUBSET (1..Len(s))
  PROVE  /\ Picked(s, I) \in Seq(S)
         /\ Len(Picked(s, I)) = Cardinality(I) /\ Cardinality(I) \in Nat
         /\ {Picked(s, I)[k] : k \in DOMAIN Picked(s, I)} = {s[i] : i \in I}
<1>1. s \in [1..Len(s) -> S] /\ Len(s) \in Nat
  OBVIOUS
<1> DEFINE at == InOrder(I)
<1>2. at \in [1..Len(at) -> I] /\ Len(at) \in Nat /\ {at[k] : k \in DOMAIN at} = I
      /\ Len(at) = Cardinality(I) /\ DOMAIN at = 1..Len(at)
  BY <1>1, InOrderList
<1> HIDE DEF at
<1>3. Picked(s, I) = [k \in 1..Len(at) |-> s[at[k]]]
  BY <1>2 DEF Picked, at
<1>4. \A k \in 1..Len(at) : s[at[k]] \in S
  BY <1>1, <1>2
<1> DEFINE p == [k \in 1..Len(at) |-> s[at[k]]]
<1>5. p \in [1..Len(at) -> S]
  BY <1>4
<1>6. {p[k] : k \in 1..Len(at)} = {s[i] : i \in I}
  BY <1>2
<1> HIDE DEF p
<1>7. p \in Seq(S) /\ Len(p) = Len(at) /\ DOMAIN p = 1..Len(at)
  BY <1>2, <1>5, IsSeq
<1>8. Picked(s, I) = p
  BY <1>3 DEF p
<1>9. QED
  BY <1>2, <1>6, <1>7, <1>8

(* The places picked in a sequence and those picked in one behind it.      *)
Joined(I, J, m) == I \cup {m + j : j \in J}

(* What is picked out of a concatenation.                                  *)
LEMMA PickedConcat ==
  ASSUME NEW S, NEW s \in Seq(S), NEW t \in Seq(S),
         NEW I \in SUBSET (1..Len(s)), NEW J \in SUBSET (1..Len(t)), NEW v, Joins(v, s, t)
  PROVE  Joins(Picked(v, Joined(I, J, Len(s))), Picked(s, I), Picked(t, J))
<1> DEFINE u == s \o t
<1> DEFINE K == Joined(I, J, Len(s))
<1>1. s \in [1..Len(s) -> S] /\ Len(s) \in Nat /\ t \in [1..Len(t) -> S] /\ Len(t) \in Nat
  OBVIOUS
<1>0. K = I \cup {Len(s) + j : j \in J}
  BY DEF Joined
<1> HIDE DEF K
<1> DEFINE a == InOrder(I) b == InOrder(J)
<1>2. a \in [1..Len(a) -> I] /\ Len(a) \in Nat /\ a \in Seq(Nat) /\ DOMAIN a = 1..Len(a)
  BY <1>1, InOrderList
<1>3. b \in [1..Len(b) -> J] /\ Len(b) \in Nat /\ b \in Seq(Nat) /\ DOMAIN b = 1..Len(b)
  BY <1>1, InOrderList
<1> DEFINE c == [k \in 1..Len(b) |-> Len(s) + b[k]]
<1>4. InOrder(I \cup {Len(s) + j : j \in J}) = a \o c
  <2>1. Len(s) \in Nat /\ Len(t) \in Nat
    BY <1>1
  <2>2. QED
    BY <2>1, InOrderConcat
<1> HIDE DEF a, b
<1>5. c \in Seq(Nat) /\ Len(c) = Len(b) /\ \A k \in 1..Len(b) : c[k] = Len(s) + b[k]
  <2>1. c \in [1..Len(b) -> Nat] /\ \A k \in 1..Len(b) : c[k] = Len(s) + b[k]
    BY <1>1, <1>3
  <2> HIDE DEF c
  <2>2. QED
    BY <2>1, <1>3, IsSeq
<1> DEFINE d == a \o c
<1>6. /\ d \in Seq(Nat) /\ DOMAIN d = 1..(Len(a) + Len(b))
      /\ \A k \in 1..Len(a) : d[k] = a[k]
      /\ \A k \in 1..(Len(a) + Len(b)) : k > Len(a) => d[k] = c[k - Len(a)]
  <2> HIDE DEF c
  <2>0. /\ a \o c \in Seq(Nat) /\ Len(a \o c) = Len(a) + Len(c)
        /\ \A k \in 1..Len(a) : (a \o c)[k] = a[k]
        /\ \A k \in 1..Len(c) : (a \o c)[Len(a) + k] = c[k]
    <3>1. a \in Seq(Nat) /\ c \in Seq(Nat)
      BY <1>2, <1>5
    <3>2. QED
      BY <3>1
  <2>1. /\ d \in Seq(Nat) /\ Len(d) = Len(a) + Len(b)
        /\ \A k \in 1..Len(a) : d[k] = a[k]
        /\ \A k \in 1..Len(b) : d[Len(a) + k] = c[k]
    BY <2>0, <1>5, Zenon DEF d
  <2> HIDE DEF d
  <2>2. ASSUME NEW k \in 1..(Len(a) + Len(b)), k > Len(a) PROVE d[k] = c[k - Len(a)]
    <3>1. k - Len(a) \in 1..Len(b) /\ Len(a) + (k - Len(a)) = k
      BY <1>2, <1>3, <2>2
    <3>2. QED
      BY <2>1, <3>1
  <2>3. DOMAIN d = 1..(Len(a) + Len(b))
    BY <2>1, SeqIs
  <2>4. QED
    BY <2>1, <2>2, <2>3
<1> HIDE DEF c, d
<1> DEFINE p == Picked(s, I) q == Picked(t, J)
<1>7. p = [k \in 1..Len(a) |-> s[a[k]]] /\ q = [k \in 1..Len(b) |-> t[b[k]]]
  BY <1>2, <1>3 DEF Picked, a, b
<1>8. p \in Seq(S) /\ Len(p) = Len(a) /\ q \in Seq(S) /\ Len(q) = Len(b)
  <2>1. \A k \in 1..Len(a) : s[a[k]] \in S
    BY <1>1, <1>2
  <2>2. \A k \in 1..Len(b) : t[b[k]] \in S
    BY <1>1, <1>3
  <2> HIDE DEF p, q
  <2>3. QED
    BY <1>2, <1>3, <1>7, <2>1, <2>2
<1>9. Picked(u, K) = [k \in 1..(Len(a) + Len(b)) |-> u[d[k]]]
  BY <1>0, <1>4, <1>6 DEF Picked, d
<1>10. ASSUME NEW k \in 1..Len(a) PROVE u[d[k]] = s[a[k]]
  <2> DEFINE y == a[k]
  <2>1. y \in 1..Len(s) /\ d[k] = y
    BY <1>2, <1>6
  <2> HIDE DEF y
  <2>2. u[y] = s[y]
    BY <1>1, <2>1
  <2>3. QED
    BY <2>1, <2>2 DEF y
<1>11. ASSUME NEW k \in 1..(Len(a) + Len(b)), k > Len(a)
       PROVE  u[d[k]] = t[b[k - Len(a)]]
  <2>1. k - Len(a) \in 1..Len(b)
    BY <1>2, <1>3, <1>11
  <2>2. d[k] = Len(s) + b[k - Len(a)] /\ b[k - Len(a)] \in 1..Len(t)
    BY <1>3, <1>5, <1>6, <1>11, <2>1
  <2> DEFINE y == b[k - Len(a)]
  <2> HIDE DEF y
  <2>3. y \in 1..Len(t) /\ d[k] = Len(s) + y
    BY <2>2 DEF y
  <2>4. u[Len(s) + y] = t[y]
    BY <1>1, <2>3
  <2>5. QED
    BY <2>3, <2>4 DEF y
<1> HIDE DEF p, q
<1>12. /\ p \o q \in Seq(S) /\ Len(p \o q) = Len(p) + Len(q)
       /\ \A k \in 1..Len(p) : (p \o q)[k] = p[k]
       /\ \A k \in 1..Len(q) : (p \o q)[Len(p) + k] = q[k]
  <2>1. p \in Seq(S) /\ q \in Seq(S)
    BY <1>8
  <2>2. QED
    BY <2>1
<1> DEFINE z == [k \in 1..(Len(a) + Len(b)) |-> u[d[k]]]
<1>13. \A k \in 1..(Len(a) + Len(b)) : z[k] = (p \o q)[k]
  <2> SUFFICES ASSUME NEW k \in 1..(Len(a) + Len(b)) PROVE u[d[k]] = (p \o q)[k]
    OBVIOUS
  <2>1. CASE k <= Len(a)
    <3>1. k \in 1..Len(a)
      BY <1>2, <1>3, <2>1
    <3>2. (p \o q)[k] = p[k] /\ p[k] = s[a[k]]
      BY <3>1, <1>7, <1>8, <1>12
    <3>3. QED
      BY <3>1, <3>2, <1>10
  <2>2. CASE ~(k <= Len(a))
    <3>1. k > Len(a) /\ k - Len(a) \in 1..Len(b) /\ Len(a) + (k - Len(a)) = k
      BY <1>2, <1>3, <2>2
    <3> DEFINE y == k - Len(a)
    <3>2. y \in 1..Len(q) /\ Len(p) + y = k /\ q[y] = t[b[y]]
      BY <3>1, <1>7, <1>8
    <3>3. (p \o q)[k] = q[y]
      <4> HIDE DEF y
      <4>1. (p \o q)[Len(p) + y] = q[y]
        BY <3>2, <1>12, Zenon
      <4>2. QED
        BY <3>2, <4>1, Zenon
    <3>4. u[d[k]] = t[b[y]]
      BY <3>1, <1>11
    <3> HIDE DEF y
    <3>5. QED
      BY <3>2, <3>3, <3>4, Zenon
  <2>3. QED
    BY <2>1, <2>2
<1>14. p \o q = [k \in 1..(Len(a) + Len(b)) |-> (p \o q)[k]]
  <2> DEFINE e == p \o q
  <2> HIDE DEF e
  <2>1. e \in Seq(S) /\ Len(e) = Len(a) + Len(b)
    BY <1>8, <1>12, Zenon DEF e
  <2>2. e = [k \in 1..(Len(a) + Len(b)) |-> e[k]]
    BY <2>1, SeqIs
  <2>3. QED
    BY <2>2, Zenon DEF e
<1>15. z = [k \in 1..(Len(a) + Len(b)) |-> z[k]]
  OBVIOUS
<1>16. z = p \o q
  <2> HIDE DEF z
  <2>1. QED
    BY <1>13, <1>14, <1>15
<1>17. Picked(u, K) = Picked(s, I) \o Picked(t, J)
  BY <1>9, <1>16, Zenon DEF p, q, z, K
<1>18. u = v
  BY DEF Joins
<1>19. QED
  BY <1>17, <1>18, Zenon DEF Joins, K

(* All of a sequence is the sequence.                                      *)
LEMMA PickedAll ==
  ASSUME NEW S, NEW s \in Seq(S)
  PROVE  Picked(s, 1..Len(s)) = s
<1>1. s \in [1..Len(s) -> S] /\ Len(s) \in Nat
  OBVIOUS
<1>2. InOrder(1..Len(s)) = [i \in 1..Len(s) |-> i]
  BY <1>1, InOrderAll
<1>3. Picked(s, 1..Len(s)) = [k \in 1..Len(s) |-> s[k]]
  BY <1>2 DEF Picked
<1>4. QED
  BY <1>1, <1>3

(* Nothing picked is nothing.                                              *)
LEMMA PickedNone ==
  ASSUME NEW s
  PROVE  Picked(s, {}) = <<>>
BY InOrderNone DEF Picked

(* One more element is picked, or is not.                                  *)
LEMMA PickedOne ==
  ASSUME NEW e
  PROVE  Picked(<<e>>, {1}) = <<e>>
<1>1. InOrder({1}) = <<1>>
  BY InOrderOne
<1>2. QED
  BY <1>1 DEF Picked

(* What is put behind and not picked makes no difference.                  *)
LEMMA PickedNot ==
  ASSUME NEW S, NEW s \in Seq(S), NEW t \in Seq(S), NEW I \in SUBSET (1..Len(s)),
         NEW u, Joins(u, s, t)
  PROVE  Picked(u, I) = Picked(s, I)
<1> DEFINE p == Picked(s, I) none == {}
<1>1. p \in Seq(S)
  BY PickedFacts
<1>2. none \in SUBSET (1..Len(t)) /\ Joined(I, none, Len(s)) = I
  BY DEF Joined
<1>3. Picked(t, none) = <<>>
  BY PickedNone
<1> HIDE DEF p, none
<1>4. Joins(Picked(u, Joined(I, none, Len(s))), Picked(s, I), Picked(t, none))
  BY <1>2, PickedConcat
<1>5. Picked(u, I) = p \o <<>>
  BY <1>2, <1>3, <1>4, Zenon DEF Joins, p
<1>6. p \o <<>> = p
  BY <1>1
<1>7. QED
  BY <1>5, <1>6, Zenon DEF p

(* What is put behind and is picked comes behind.                          *)
LEMMA PickedToo ==
  ASSUME NEW S, NEW s \in Seq(S), NEW t \in Seq(S), NEW I \in SUBSET (1..Len(s)),
         NEW u, Joins(u, s, t)
  PROVE  Joins(Picked(u, Joined(I, 1..Len(t), Len(s))), Picked(s, I), t)
<1> DEFINE all == 1..Len(t)
<1>1. all \in SUBSET (1..Len(t))
  OBVIOUS
<1>2. Picked(t, all) = t
  BY PickedAll
<1> HIDE DEF all
<1>3. Joins(Picked(u, Joined(I, all, Len(s))), Picked(s, I), Picked(t, all))
  BY <1>1, PickedConcat
<1>4. QED
  BY <1>2, <1>3, Zenon DEF all

(* The same of one element.                                                *)
LEMMA PickedAppend ==
  ASSUME NEW S, NEW s \in Seq(S), NEW e \in S, NEW I \in SUBSET (1..Len(s))
  PROVE  /\ Picked(Append(s, e), I) = Picked(s, I)
         /\ Picked(Append(s, e), I \cup {Len(s) + 1}) = Append(Picked(s, I), e)
<1> DEFINE p == Picked(s, I) t == <<e>> u == Append(s, e)
<1>1. u = s \o t /\ t \in Seq(S) /\ Len(t) = 1 /\ Len(s) \in Nat
  OBVIOUS
<1>2. p \in Seq(S)
  BY PickedFacts
<1>3. Joins(u, s, t)
  BY <1>1, Zenon DEF Joins
<1>4. Joined(I, 1..Len(t), Len(s)) = I \cup {Len(s) + 1}
  BY <1>1 DEF Joined
<1> HIDE DEF t, u
<1>5. Picked(u, I) = Picked(s, I)
  BY <1>1, <1>3, PickedNot
<1>6. Joins(Picked(u, Joined(I, 1..Len(t), Len(s))), Picked(s, I), t)
  BY <1>1, <1>3, PickedToo
<1> HIDE DEF p
<1>7. p \o t = Append(p, e)
  BY <1>2 DEF t
<1>8. Picked(u, I \cup {Len(s) + 1}) = p \o t
  BY <1>4, <1>6, Zenon DEF Joins, p
<1>9. QED
  BY <1>5, <1>7, <1>8, Zenon DEF p, u

-----------------------------------------------------------------------------
(* What holds of the empty sequence, and of a sequence with one more       *)
(* element once it holds of the sequence, holds of all sequences.          *)
LEMMA SeqSet ==
  ASSUME NEW S, NEW T, <<>> \in T, \A s \in Seq(S), e \in S : s \in T => Append(s, e) \in T
  PROVE  Seq(S) \subseteq T
<1> DEFINE N == {n \in Nat : \A s \in Seq(S) : Len(s) = n => s \in T}
<1>1. 0 \in N
  <2>1. \A s \in Seq(S) : Len(s) = 0 => s = <<>>
    OBVIOUS
  <2>2. QED
    BY <2>1
<1>2. ASSUME NEW n \in Nat, n \in N PROVE n + 1 \in N
  <2> SUFFICES ASSUME NEW s \in Seq(S), Len(s) = n + 1 PROVE s \in T
    OBVIOUS
  <2>1. s = Append(SubSeq(s, 1, n), s[n + 1]) /\ SubSeq(s, 1, n) \in Seq(S)
        /\ Len(SubSeq(s, 1, n)) = n /\ s[n + 1] \in S
    OBVIOUS
  <2> DEFINE front == SubSeq(s, 1, n) last == s[n + 1]
  <2>2. front \in T
    BY <1>2, <2>1
  <2> HIDE DEF front, last
  <2>3. Append(front, last) \in T
    BY <2>1, <2>2 DEF front, last
  <2>4. QED
    BY <2>1, <2>3 DEF front, last
<1>3. Nat \subseteq N
  <2> HIDE DEF N
  <2>1. QED
    BY <1>1, <1>2, NatSet
<1>4. \A s \in Seq(S) : Len(s) \in Nat
  OBVIOUS
<1>5. QED
  BY <1>3, <1>4

(* A stretch of a sequence that gets one more element.                     *)
LEMMA SubSeqAppend ==
  ASSUME NEW S, NEW s \in Seq(S), NEW e \in S, NEW a \in Nat \ {0}, NEW b \in 0..Len(s)
  PROVE  /\ SubSeq(Append(s, e), a, b) = SubSeq(s, a, b)
         /\ SubSeq(s, a, b) \in Seq(S)
         /\ a <= Len(s) + 1 =>
              SubSeq(Append(s, e), a, Len(s) + 1) = Append(SubSeq(s, a, Len(s)), e)
<1>1. SubSeq(Append(s, e), a, b) = SubSeq(s, a, b)
  OBVIOUS
<1>2. SubSeq(s, a, b) \in Seq(S)
  OBVIOUS
<1>3. ASSUME a <= Len(s) + 1
      PROVE  SubSeq(Append(s, e), a, Len(s) + 1) = Append(SubSeq(s, a, Len(s)), e)
  <2> DEFINE p == Append(s, e) q == SubSeq(s, a, Len(s)) u == SubSeq(p, a, Len(s) + 1) v == Append(q, e)
  <2>1. /\ Len(s) \in Nat /\ p \in Seq(S) /\ Len(p) = Len(s) + 1
        /\ p[Len(s) + 1] = e /\ \A i \in 1..Len(s) : p[i] = s[i] /\ s[i] \in S
    BY AppendProperties
  <2>2. /\ q \in Seq(S) /\ Len(q) = Len(s) + 1 - a
        /\ \A i \in 1..(Len(s) + 1 - a) : q[i] = s[a + i - 1]
    <3>1. \A i \in a..Len(s) : s[i] \in S
      BY <2>1
    <3>2. /\ q \in Seq(S) /\ Len(q) = IF a <= Len(s) THEN Len(s) - a + 1 ELSE 0
          /\ \A i \in 1..(Len(s) - a + 1) : q[i] = s[a + i - 1]
      BY <2>1, <3>1, SubSeqProperties
    <3> HIDE DEF q
    <3>3. Len(s) - a + 1 = Len(s) + 1 - a
      BY <2>1
    <3>4. QED
      BY <1>3, <2>1, <3>2, <3>3
  <2> HIDE DEF p
  <2>3. /\ u \in Seq(S) /\ Len(u) = Len(s) + 2 - a
        /\ \A i \in 1..(Len(s) + 2 - a) : u[i] = p[a + i - 1]
    <3>1. \A i \in a..(Len(s) + 1) : p[i] \in S
      BY <2>1
    <3>2. /\ u \in Seq(S) /\ Len(u) = IF a <= Len(s) + 1 THEN (Len(s) + 1) - a + 1 ELSE 0
          /\ \A i \in 1..((Len(s) + 1) - a + 1) : u[i] = p[a + i - 1]
      BY <2>1, <3>1, SubSeqProperties
    <3> HIDE DEF u
    <3>3. (Len(s) + 1) - a + 1 = Len(s) + 2 - a
      BY <2>1
    <3>4. QED
      BY <1>3, <3>2, <3>3
  <2> HIDE DEF q, u
  <2>4. /\ v \in Seq(S) /\ Len(v) = Len(q) + 1 /\ v[Len(q) + 1] = e
        /\ \A i \in 1..Len(q) : v[i] = q[i]
    BY <2>2, AppendProperties
  <2> HIDE DEF v
  <2>5. Len(u) = Len(v) /\ Len(v) \in Nat
    <3>1. /\ Len(s) \in Nat /\ Len(q) = Len(s) + 1 - a
          /\ Len(u) = Len(s) + 2 - a /\ Len(v) = Len(q) + 1
      BY <2>1, <2>2, <2>3, <2>4
    <3>2. QED
      BY <1>3, <3>1
  <2>6. ASSUME NEW i \in 1..Len(u) PROVE u[i] = v[i]
    <3>1. CASE i \in 1..Len(q)
      <4>1. u[i] = p[a + i - 1] /\ v[i] = q[i] /\ q[i] = s[a + i - 1]
        BY <2>1, <2>2, <2>3, <2>4, <3>1
      <4>2. a + i - 1 \in 1..Len(s)
        BY <2>1, <2>2, <3>1
      <4>3. QED
        BY <2>1, <4>1, <4>2
    <3>2. CASE i = Len(q) + 1
      <4>0. Len(s) \in Nat /\ Len(q) = Len(s) + 1 - a
        BY <2>1, <2>2
      <4>1. Len(q) + 1 = Len(s) + 2 - a /\ i \in 1..(Len(s) + 2 - a)
        BY <1>3, <4>0, <3>2
      <4>2. u[i] = p[a + i - 1] /\ v[i] = e
        BY <2>3, <2>4, <3>2, <4>1
      <4>3. a + i - 1 = Len(s) + 1
        BY <1>3, <3>2, <4>0
      <4>4. p[Len(s) + 1] = e
        BY <2>1
      <4>5. QED
        BY <4>2, <4>3, <4>4, Zenon
    <3>3. i \in 1..Len(q) \/ i = Len(q) + 1
      <4>1. Len(s) \in Nat /\ Len(q) = Len(s) + 1 - a /\ Len(u) = Len(s) + 2 - a
        BY <2>1, <2>2, <2>3
      <4>2. QED
        BY <1>3, <4>1
    <3>4. QED
      BY <3>1, <3>2, <3>3
  <2>7. u = v
    <3>1. u \in Seq(S) /\ v \in Seq(S)
      BY <2>3, <2>4
    <3>2. QED
      BY <3>1, <2>5, <2>6, SameSeq, Zenon
  <2>8. QED
    BY <2>7 DEF u, v, p, q
<1>4. QED
  BY <1>1, <1>2, <1>3, Zenon

(* A sequence is what is before a place and what is behind it.             *)
LEMMA SubSeqSplit ==
  ASSUME NEW S, NEW s \in Seq(S), NEW n \in 0..Len(s)
  PROVE  /\ SubSeq(s, 1, n) \in Seq(S) /\ SubSeq(s, n + 1, Len(s)) \in Seq(S)
         /\ s = SubSeq(s, 1, n) \o SubSeq(s, n + 1, Len(s))
         /\ Len(SubSeq(s, 1, n)) = n
<1>1. Len(s) \in Nat /\ n \in Nat /\ n <= Len(s) /\ \A i \in 1..Len(s) : s[i] \in S
  OBVIOUS
<1>2. SubSeq(s, 1, n) \in Seq(S) /\ Len(SubSeq(s, 1, n)) = n
  OBVIOUS
<1>3. SubSeq(s, n + 1, Len(s)) \in Seq(S)
  BY <1>1, SubSeqProperties
<1>4. SubSeq(s, 1, n) \o SubSeq(s, n + 1, Len(s)) = SubSeq(s, 1, Len(s))
  <2>1. 1 \in 1..(Len(s) + 1) /\ n \in (1 - 1)..Len(s) /\ Len(s) \in n..Len(s)
    BY <1>1
  <2>2. QED
    BY <2>1, ConcatAdjacentSubSeq, Zenon
<1>5. SubSeq(s, 1, Len(s)) = s
  BY SubSeqFull
<1>6. QED
  BY <1>2, <1>3, <1>4, <1>5, Zenon

(* Rules of concatenation.                                                 *)
Associate(s, t, u) == (s \o t) \o u = s \o (t \o u)

LEMMA JoinsAssociate ==
  ASSUME NEW S, NEW s \in Seq(S), NEW t \in Seq(S), NEW u \in Seq(S)
  PROVE  Associate(s, t, u)
BY ConcatAssociative DEF Associate

LEMMA ConcatRules ==
  ASSUME NEW S, NEW s \in Seq(S), NEW t \in Seq(S), NEW u \in Seq(S), NEW e \in S
  PROVE  /\ (s \o t) \o u = s \o (t \o u)
         /\ s \o Append(t, e) = Append(s \o t, e)
         /\ s \o <<>> = s /\ <<>> \o s = s
         /\ SubSeq(s \o t, 1, Len(s)) = s
<1>1. (s \o t) \o u = s \o (t \o u)
  BY ConcatAssociative
<1>2. s \o Append(t, e) = Append(s \o t, e)
  OBVIOUS
<1>3. s \o <<>> = s /\ <<>> \o s = s
  OBVIOUS
<1>4. SubSeq(s \o t, 1, Len(s)) = s
  OBVIOUS
<1>5. QED
  BY <1>1, <1>2, <1>3, <1>4, Zenon

-----------------------------------------------------------------------------
(* The results of steps, one after the other.                              *)
Results(g, N, S, init, step) ==
  g \in [0..N -> S] /\ g[0] = init /\ \A n \in 1..N : g[n] = step[n][g[n - 1]]

(* Steps of any kind have their results.                                   *)
LEMMA StepsFrom ==
  ASSUME NEW N \in Nat, NEW S, NEW init \in S, NEW step \in [1..N -> [S -> S]]
  PROVE  \E g : Results(g, N, S, init, step)
<1> DEFINE Good(g, m) == /\ g \in [0..m -> S] /\ g[0] = init
                         /\ \A n \in 1..m : g[n] = step[n][g[n - 1]]
           I == {m \in Nat : m <= N => \E g : Good(g, m)}
<1>1. 0 \in I
  <2> DEFINE g == [n \in 0..0 |-> init]
  <2>1. Good(g, 0)
    OBVIOUS
  <2>2. QED
    BY <2>1
<1>2. ASSUME NEW m \in Nat, m \in I PROVE m + 1 \in I
  <2> SUFFICES ASSUME m + 1 <= N PROVE \E g : Good(g, m + 1)
    OBVIOUS
  <2>1. PICK g : Good(g, m)
    BY <1>2
  <2> DEFINE next == step[m + 1][g[m]]
             h == [n \in 0..(m + 1) |-> IF n = m + 1 THEN next ELSE g[n]]
  <2>2. next \in S
    <3>1. m + 1 \in 1..N /\ g[m] \in S
      BY <2>1
    <3>2. QED
      BY <3>1
  <2> HIDE DEF next
  <2>3. h \in [0..(m + 1) -> S] /\ h[m + 1] = next /\ \A n \in 0..m : h[n] = g[n]
    BY <2>1, <2>2
  <2> HIDE DEF h
  <2>4. h[0] = init
    BY <2>1, <2>3
  <2>5. ASSUME NEW n \in 1..(m + 1) PROVE h[n] = step[n][h[n - 1]]
    <3>1. CASE n = m + 1
      BY <2>3, <3>1 DEF next
    <3>2. CASE n \in 1..m
      <4>1. n - 1 \in 0..m /\ n \in 0..m /\ g[n] = step[n][g[n - 1]]
        BY <2>1, <3>2
      <4>2. QED
        BY <2>3, <4>1
    <3>3. QED
      BY <3>1, <3>2
  <2>6. QED
    BY <2>3, <2>4, <2>5
<1> HIDE DEF I
<1>3. Nat \subseteq I
  BY <1>1, <1>2, NatSet
<1>4. PICK g : Good(g, N)
  BY <1>3 DEF I
<1>5. Results(g, N, S, init, step)
  BY <1>4 DEF Results
<1>6. QED
  BY <1>5

(* What starts in a set and is led on in it stays in it.                   *)
LEMMA StepsStay ==
  ASSUME NEW N \in Nat, NEW S, NEW u, u[0] \in S,
         \A n \in 1..N : u[n - 1] \in S => u[n] \in S
  PROVE  \A n \in 0..N : u[n] \in S
<1> DEFINE I == {n \in Nat : n <= N => u[n] \in S}
<1>1. 0 \in I
  OBVIOUS
<1>2. ASSUME NEW n \in Nat, n \in I PROVE n + 1 \in I
  <2> SUFFICES ASSUME n + 1 <= N PROVE u[n + 1] \in S
    OBVIOUS
  <2>1. n + 1 \in 1..N /\ (n + 1) - 1 = n /\ u[n] \in S
    BY <1>2
  <2>2. QED
    BY <2>1
<1> HIDE DEF I
<1>3. Nat \subseteq I
  BY <1>1, <1>2, NatSet
<1>4. QED
  BY <1>3 DEF I

-----------------------------------------------------------------------------
(* What a recursive function over the places of a sequence computes.       *)
Fold(f, A, S, init, step) ==
  /\ f \in [Seq(A) -> S] /\ f[<<>>] = init
  /\ \A t \in Seq(A), a \in A : f[Append(t, a)] = step[f[t]][a]

LEMMA FoldExists ==
  ASSUME NEW A, NEW S, NEW init \in S, NEW step \in [S -> [A -> S]]
  PROVE  \E f : Fold(f, A, S, init, step)
<1> DEFINE steps(t) == [n \in 1..Len(t) |-> [s \in S |-> step[s][t[n]]]]
           Is(g, t) == Results(g, Len(t), S, init, steps(t))
           res(t) == CHOOSE g : Is(g, t)
           f == [t \in Seq(A) |-> res(t)[Len(t)]]
<1>1. ASSUME NEW t \in Seq(A) PROVE Is(res(t), t)
  <2>1. Len(t) \in Nat /\ steps(t) \in [1..Len(t) -> [S -> S]]
    OBVIOUS
  <2> HIDE DEF steps
  <2>2. \E g : Is(g, t)
    BY <2>1, StepsFrom
  <2> HIDE DEF Is
  <2>3. QED
    BY <2>2
<1>2. ASSUME NEW t \in Seq(A), NEW g, Is(g, t)
      PROVE  g \in [0..Len(t) -> S] /\ g[0] = init /\ \A n \in 1..Len(t) : g[n] = step[g[n - 1]][t[n]]
  <2>1. g \in [0..Len(t) -> S] /\ g[0] = init /\ \A n \in 1..Len(t) : g[n] = steps(t)[n][g[n - 1]]
    BY <1>2 DEF Results
  <2>2. ASSUME NEW n \in 1..Len(t) PROVE g[n] = step[g[n - 1]][t[n]]
    <3>1. n - 1 \in 0..Len(t)
      OBVIOUS
    <3>2. g[n - 1] \in S
      BY <2>1, <3>1
    <3>3. steps(t)[n][g[n - 1]] = step[g[n - 1]][t[n]]
      BY <3>2
    <3>4. QED
      BY <2>1, <3>3
  <2>3. QED
    BY <2>1, <2>2
<1> HIDE DEF res, Is, steps
<1>3. ASSUME NEW t \in Seq(A) PROVE f[t] = res(t)[Len(t)] /\ f[t] \in S
  <2>1. res(t) \in [0..Len(t) -> S] /\ Len(t) \in 0..Len(t)
    BY <1>1, <1>2
  <2>2. QED
    BY <2>1
<1>4. f \in [Seq(A) -> S]
  BY <1>3
<1>5. f[<<>>] = init
  <2>1. <<>> \in Seq(A) /\ Len(<<>>) = 0
    OBVIOUS
  <2>2. QED
    BY <1>1, <1>2, <1>3, <2>1
<1>6. ASSUME NEW t \in Seq(A), NEW a \in A PROVE f[Append(t, a)] = step[f[t]][a]
  <2> DEFINE s == Append(t, a)
             N == Len(t)
             g == res(t)
             h == res(s)
  <2>1. N \in Nat /\ s \in Seq(A) /\ Len(s) = N + 1 /\ s[N + 1] = a /\ \A i \in 1..N : s[i] = t[i]
    OBVIOUS
  <2> HIDE DEF s
  <2>2. g[0] = init /\ \A n \in 1..N : g[n] = step[g[n - 1]][t[n]]
    BY <1>1, <1>2
  <2>3. h[0] = init /\ \A n \in 1..(N + 1) : h[n] = step[h[n - 1]][s[n]]
    <3>1. Is(h, s)
      BY <1>1, <2>1
    <3>2. h[0] = init /\ \A n \in 1..Len(s) : h[n] = step[h[n - 1]][s[n]]
      <4> HIDE DEF h
      <4>1. QED
        BY <1>2, <2>1, <3>1
    <3>3. QED
      BY <2>1, <3>2
  <2> HIDE DEF g, h, N
  <2> DEFINE I == {n \in Nat : n <= N => h[n] = g[n]}
  <2>4. 0 \in I
    BY <2>2, <2>3
  <2>5. ASSUME NEW n \in Nat, n \in I PROVE n + 1 \in I
    <3> SUFFICES ASSUME n + 1 <= N PROVE h[n + 1] = g[n + 1]
      OBVIOUS
    <3>1. n + 1 \in 1..N /\ n + 1 \in 1..(N + 1) /\ (n + 1) - 1 = n /\ n <= N
      BY <2>1
    <3>2. h[n] = g[n]
      BY <2>5, <3>1
    <3>3. h[n + 1] = step[h[n]][s[n + 1]] /\ g[n + 1] = step[g[n]][t[n + 1]]
      BY <2>2, <2>3, <3>1
    <3>4. QED
      BY <2>1, <3>1, <3>2, <3>3
  <2> HIDE DEF I
  <2>6. N \in I
    BY <2>1, <2>4, <2>5, NatSet
  <2>7. h[N] = g[N]
    BY <2>1, <2>6 DEF I
  <2>8. h[N + 1] = step[h[N]][a]
    <3>1. N + 1 \in 1..(N + 1) /\ (N + 1) - 1 = N
      BY <2>1
    <3>2. QED
      BY <2>1, <2>3, <3>1
  <2>9. f[t] = g[N] /\ f[s] = h[N + 1]
    BY <1>3, <2>1 DEF g, h, N
  <2> HIDE DEF f
  <2>10. QED
    BY <2>7, <2>8, <2>9 DEF s
<1>7. Fold(f, A, S, init, step)
  <2> HIDE DEF f
  <2>1. QED
    BY <1>4, <1>5, <1>6 DEF Fold
<1>8. QED
  BY <1>7

(* Such a function, however it was chosen, ends with the fold.             *)
Follows(u, t, S, init, step) ==
  u[0] = init /\ \A n \in 1..Len(t) : u[n - 1] \in S => u[n] = step[u[n - 1]][t[n]]

LEMMA FoldComputes ==
  ASSUME NEW A, NEW S, NEW init \in S, NEW step \in [S -> [A -> S]],
         NEW f, Fold(f, A, S, init, step), NEW t \in Seq(A), NEW u, Follows(u, t, S, init, step)
  PROVE  u[Len(t)] = f[t]
<1> USE DEF Follows
<1> DEFINE N == Len(t)
           pre(n) == SubSeq(t, 1, n)
           I == {n \in Nat : n <= N => u[n] = f[pre(n)]}
<1>0. N \in Nat /\ pre(0) = <<>> /\ pre(N) = t
  OBVIOUS
<1>1. 0 \in I
  BY <1>0 DEF Fold
<1>2. ASSUME NEW n \in Nat, n \in I PROVE n + 1 \in I
  <2> SUFFICES ASSUME n + 1 <= N PROVE u[n + 1] = f[pre(n + 1)]
    OBVIOUS
  <2>1. n + 1 \in 1..N /\ (n + 1) - 1 = n /\ n <= N
    BY <1>0
  <2>2. pre(n) \in Seq(A) /\ t[n + 1] \in A /\ pre(n + 1) = Append(pre(n), t[n + 1])
    <3>1. n \in 0..N
      BY <2>1
    <3>2. pre(n) \in Seq(A) /\ t[n + 1] \in A
      BY <2>1
    <3>3. pre(n + 1) = Append(pre(n), t[n + 1])
      BY <2>1
    <3>4. QED
      BY <3>2, <3>3
  <2>3. u[n] = f[pre(n)]
    BY <1>2, <2>1
  <2> HIDE DEF pre, N
  <2>4. f[pre(n)] \in S /\ f[pre(n + 1)] = step[f[pre(n)]][t[n + 1]]
    BY <2>2 DEF Fold
  <2>5. u[n + 1] = step[u[n]][t[n + 1]]
    <3>1. u[(n + 1) - 1] \in S
      BY <2>1, <2>3, <2>4
    <3>2. u[n + 1] = step[u[(n + 1) - 1]][t[n + 1]]
      BY <2>1, <3>1 DEF N
    <3>3. QED
      BY <2>1, <3>2
  <2>6. QED
    BY <2>3, <2>4, <2>5
<1> HIDE DEF I
<1>3. N \in I
  BY <1>0, <1>1, <1>2, NatSet
<1>4. u[N] = f[pre(N)]
  BY <1>0, <1>3 DEF I
<1>5. QED
  BY <1>0, <1>4

(* And there is one.                                                       *)
Walks(u, t, S, init, step) ==
  u \in [0..Len(t) -> S] /\ u[0] = init /\ \A n \in 1..Len(t) : u[n] = step[u[n - 1]][t[n]]

LEMMA FoldPlaces ==
  ASSUME NEW A, NEW S, NEW init \in S, NEW step \in [S -> [A -> S]],
         NEW f, Fold(f, A, S, init, step), NEW t \in Seq(A)
  PROVE  \E u : Walks(u, t, S, init, step)
<1> DEFINE N == Len(t)
           pre(n) == SubSeq(t, 1, n)
           u == [n \in 0..N |-> f[pre(n)]]
<1>0. N \in Nat /\ pre(0) = <<>>
  OBVIOUS
<1>1. \A n \in 0..N : pre(n) \in Seq(A)
  OBVIOUS
<1>2. ASSUME NEW n \in 1..N
      PROVE  n - 1 \in 0..N /\ n \in 0..N /\ t[n] \in A /\ pre(n) = Append(pre(n - 1), t[n])
  <2>1. n - 1 \in 0..N /\ n \in 0..N /\ t[n] \in A
    BY <1>0
  <2>2. pre(n) = Append(pre(n - 1), t[n])
    BY <1>0
  <2>3. QED
    BY <2>1, <2>2
<1> HIDE DEF pre, N
<1>3. \A n \in 0..N : u[n] = f[pre(n)]
  OBVIOUS
<1>4. u \in [0..N -> S]
  BY <1>1 DEF Fold
<1>5. u[0] = init
  <2>1. 0 \in 0..N
    BY <1>0
  <2>2. QED
    BY <1>0, <1>3, <2>1 DEF Fold
<1>6. ASSUME NEW n \in 1..N PROVE u[n] = step[u[n - 1]][t[n]]
  <2> HIDE DEF u
  <2>1. f[pre(n)] = step[f[pre(n - 1)]][t[n]]
    BY <1>1, <1>2 DEF Fold
  <2>2. QED
    BY <1>2, <1>3, <2>1
<1> HIDE DEF u
<1>7. Walks(u, t, S, init, step)
  BY <1>4, <1>5, <1>6 DEF N, Walks
<1>8. QED
  BY <1>7

-----------------------------------------------------------------------------
(* The pieces of a sequence, one after the other.                          *)
LEMMA FlatFacts ==
  ASSUME NEW X
  PROVE  /\ Flat(<<>>) = <<>>
         /\ \A t \in Seq(Seq(X)) : Flat(t) \in Seq(X)
         /\ \A t \in Seq(Seq(X)), a \in Seq(X) : Flat(Append(t, a)) = Flat(t) \o a
<1> DEFINE A == Seq(X)
           step == [s \in A |-> [a \in A |-> s \o a]]
<1>0. <<>> \in A /\ step \in [A -> [A -> A]]
  OBVIOUS
<1>s. \A s, a \in A : step[s][a] = s \o a
  OBVIOUS
<1> HIDE DEF A, step
<1>1. PICK f : Fold(f, A, A, <<>>, step)
  BY <1>0, FoldExists
<1>2. ASSUME NEW t \in Seq(A) PROVE Flat(t) = f[t]
  <2> DEFINE N == Len(t)
             Rec(g) == [n \in 0..N |-> IF n = 0 THEN <<>> ELSE g[n - 1] \o t[n]]
             u == CHOOSE g : g = Rec(g)
  <2>0. N \in Nat /\ \A n \in 1..N : t[n] \in A
    OBVIOUS
  <2>p. PICK h : Walks(h, t, A, <<>>, step)
    BY <1>0, <1>1, FoldPlaces
  <2>1. h \in [0..N -> A] /\ h[0] = <<>> /\ \A n \in 1..N : h[n] = step[h[n - 1]][t[n]]
    BY <2>p DEF Walks
  <2>2. Flat(t) = u[N]
    BY DEF Flat
  <2> HIDE DEF N
  <2>3. h = Rec(h)
    <3>1. ASSUME NEW n \in 0..N, n # 0 PROVE h[n] = h[n - 1] \o t[n]
      <4>1. n \in 1..N /\ n - 1 \in 0..N
        BY <2>0, <3>1
      <4>2. h[n - 1] \in A /\ t[n] \in A /\ h[n] = step[h[n - 1]][t[n]]
        BY <2>0, <2>1, <4>1
      <4>3. QED
        BY <1>s, <4>2, Zenon
    <3>2. h = [n \in 0..N |-> h[n]] /\ h[0] = <<>>
      BY <2>1, Zenon
    <3>3. [n \in 0..N |-> h[n]] = Rec(h)
      BY <3>1, <3>2, ZenonT(60)
    <3>4. QED
      BY <3>2, <3>3, Zenon
  <2>4. u = Rec(u)
    BY <2>3, Zenon
  <2> HIDE DEF u
  <2>5. u[0] = <<>>
    BY <2>0, <2>4
  <2>6. ASSUME NEW n \in 1..N, u[n - 1] \in A PROVE u[n] = step[u[n - 1]][t[n]]
    <3>1. n \in 0..N /\ n # 0 /\ t[n] \in A
      BY <2>0
    <3>2. u[n] = u[n - 1] \o t[n]
      BY <2>4, <3>1
    <3>3. QED
      BY <1>s, <2>6, <3>1, <3>2
  <2>7. u[Len(t)] = f[t]
    <3>1. Follows(u, t, A, <<>>, step)
      BY <2>5, <2>6 DEF Follows, N
    <3>2. QED
      BY <1>0, <1>1, <3>1, FoldComputes
  <2>8. QED
    BY <2>2, <2>7 DEF N
<1>3. f[<<>>] = <<>> /\ \A t \in Seq(A) : f[t] \in A
  BY <1>1 DEF Fold
<1>4. \A t \in Seq(A), a \in A : f[Append(t, a)] = f[t] \o a
  <2>1. \A t \in Seq(A), a \in A : f[Append(t, a)] = step[f[t]][a]
    BY <1>1 DEF Fold
  <2>2. QED
    BY <1>s, <1>3, <2>1
<1>5. <<>> \in Seq(A) /\ \A t \in Seq(A), a \in A : Append(t, a) \in Seq(A)
  OBVIOUS
<1>6. QED
  BY <1>2, <1>3, <1>4, <1>5 DEF A

(* The elements of a sequence that are in a set, in their order.           *)
Among(s, P) == Picked(s, {i \in DOMAIN s : s[i] \in P})

(* A part of a sequence that is in a set, all of it or none.               *)
LEMMA AmongFacts ==
  ASSUME NEW S, NEW s \in Seq(S), NEW P
  PROVE  /\ Among(s, P) \in Seq(S)
         /\ (\A i \in 1..Len(s) : s[i] \in P) => Among(s, P) = s
         /\ (\A i \in 1..Len(s) : s[i] \notin P) => Among(s, P) = <<>>
<1> DEFINE I == {i \in DOMAIN s : s[i] \in P}
<1>1. DOMAIN s = 1..Len(s) /\ I \in SUBSET (1..Len(s)) /\ Among(s, P) = Picked(s, I)
  BY DEF Among
<1>2. (\A i \in 1..Len(s) : s[i] \in P) => I = 1..Len(s)
  BY <1>1
<1>3. (\A i \in 1..Len(s) : s[i] \notin P) => I = {}
  BY <1>1
<1> HIDE DEF I
<1>4. Picked(s, I) \in Seq(S)
  BY <1>1, PickedFacts
<1>5. QED
  BY <1>1, <1>2, <1>3, <1>4, PickedAll, PickedNone

AmongBoth(s, t, P) == Among(s \o t, P) = Among(s, P) \o Among(t, P)

(* What is in a set in a concatenation.                                    *)
LEMMA AmongJoin ==
  ASSUME NEW S, NEW s \in Seq(S), NEW t \in Seq(S), NEW P
  PROVE  AmongBoth(s, t, P)
<1> DEFINE u == s \o t
           I == {i \in DOMAIN s : s[i] \in P}
           J == {i \in DOMAIN t : t[i] \in P}
           K == {i \in DOMAIN u : u[i] \in P}
<1>0. Joins(u, s, t)
  BY Zenon DEF Joins
<1>1. /\ DOMAIN u = 1..(Len(s) + Len(t)) /\ Len(s) \in Nat /\ Len(t) \in Nat /\ Len(u) = Len(s) + Len(t)
      /\ \A k \in 1..Len(s) : u[k] = s[k]
      /\ \A k \in 1..Len(t) : u[Len(s) + k] = t[k]
      /\ \A k \in 1..Len(u) : k \in 1..Len(s) \/ (k - Len(s) \in 1..Len(t) /\ Len(s) + (k - Len(s)) = k)
  BY <1>0, JoinIs
<1>2. DOMAIN s = 1..Len(s) /\ DOMAIN t = 1..Len(t)
  OBVIOUS
<1> HIDE DEF u
<1>3. K = Joined(I, J, Len(s))
  <2>1. ASSUME NEW k \in K PROVE k \in Joined(I, J, Len(s))
    <3>1. k \in 1..Len(u) /\ u[k] \in P
      BY <1>1
    <3>2. CASE k \in 1..Len(s)
      BY <1>1, <1>2, <3>1, <3>2 DEF Joined
    <3>3. CASE k - Len(s) \in 1..Len(t) /\ Len(s) + (k - Len(s)) = k
      <4>1. PICK j \in 1..Len(t) : Len(s) + j = k
        BY <3>3
      <4>2. t[j] \in P
        BY <1>1, <3>1, <4>1
      <4>3. QED
        BY <1>2, <4>1, <4>2 DEF Joined
    <3>4. QED
      BY <1>1, <3>1, <3>2, <3>3
  <2>2. ASSUME NEW k \in I PROVE k \in K
    BY <1>1, <1>2
  <2>3. ASSUME NEW j \in J PROVE Len(s) + j \in K
    <3>1. j \in 1..Len(t) /\ u[Len(s) + j] \in P /\ Len(s) + j \in 1..(Len(s) + Len(t))
      BY <1>1, <1>2
    <3>2. QED
      BY <1>1, <3>1
  <2> HIDE DEF I, J, K
  <2>4. QED
    BY <2>1, <2>2, <2>3 DEF Joined
<1>4. I \in SUBSET (1..Len(s)) /\ J \in SUBSET (1..Len(t))
  BY <1>2
<1> DEFINE pu == Picked(u, K) ps == Picked(s, I) pt == Picked(t, J)
<1>6. Among(u, P) = pu /\ Among(s, P) = ps /\ Among(t, P) = pt
  BY DEF Among
<1> HIDE DEF I, J, K
<1>5. Joins(pu, ps, pt)
  BY <1>0, <1>3, <1>4, PickedConcat
<1> HIDE DEF pu, ps, pt
<1>7. QED
  BY <1>5, <1>6, Zenon DEF AmongBoth, Joins, u

(* What is in the set in a list of lists: nothing if there is nothing in   *)
(* any piece, or what is in the only piece that has something.             *)
Only(ss, P, j) == \A i \in DOMAIN ss : i # j => Among(ss[i], P) = <<>>

(* What is in a set in the pieces of a list, joined.                       *)
LEMMA AmongFlat ==
  ASSUME NEW S, NEW P, NEW ss \in Seq(Seq(S))
  PROVE  /\ Only(ss, P, 0) => Among(Flat(ss), P) = <<>>
         /\ \A j \in DOMAIN ss : Only(ss, P, j) => Among(Flat(ss), P) = Among(ss[j], P)
<1> DEFINE A == Seq(S)
           Fits(t) == /\ Only(t, P, 0) => Among(Flat(t), P) = <<>>
                      /\ \A j \in DOMAIN t : Only(t, P, j) => Among(Flat(t), P) = Among(t[j], P)
           G == {t \in Seq(A) : Fits(t)}
<1>0. /\ Flat(<<>>) = <<>>
      /\ \A t \in Seq(A) : Flat(t) \in A
      /\ \A t \in Seq(A), a \in A : Flat(Append(t, a)) = Flat(t) \o a
  BY FlatFacts
<1>e. <<>> \in A /\ <<>> \in Seq(A)
  OBVIOUS
<1>a. \A a \in A : Among(a, P) \in A
  BY AmongFacts
<1>n. \A a \in A : a \o <<>> = a /\ <<>> \o a = a
  OBVIOUS
<1>1. <<>> \in G
  <2>1. Among(<<>>, P) = <<>>
    <3>1. \A i \in 1..Len(<<>>) : <<>>[i] \notin P
      OBVIOUS
    <3>2. QED
      BY <1>e, <3>1, AmongFacts
  <2>2. DOMAIN <<>> = {}
    OBVIOUS
  <2>3. QED
    BY <1>0, <1>e, <2>1, <2>2
<1>2. ASSUME NEW t \in Seq(A), NEW a \in A, t \in G PROVE Append(t, a) \in G
  <2> DEFINE u == Append(t, a)
  <2>1. /\ u \in Seq(A) /\ DOMAIN u = 1..(Len(t) + 1) /\ Len(t) \in Nat /\ DOMAIN t = 1..Len(t)
        /\ u[Len(t) + 1] = a /\ \A i \in DOMAIN t : u[i] = t[i]
    OBVIOUS
  <2>2. Among(Flat(u), P) = Among(Flat(t), P) \o Among(a, P)
    <3>1. Flat(t) \in Seq(S) /\ a \in Seq(S) /\ Flat(u) = Flat(t) \o a
      BY <1>0
    <3>2. AmongBoth(Flat(t), a, P)
      BY <3>1, AmongJoin
    <3>3. QED
      BY <3>1, <3>2, Zenon DEF AmongBoth
  <2> HIDE DEF u
  <2>3. ASSUME NEW j, Only(u, P, j), j # Len(t) + 1 PROVE Only(t, P, j) /\ Among(a, P) = <<>>
    <3>1. \A i \in DOMAIN u : i # j => Among(u[i], P) = <<>>
      BY <2>3 DEF Only
    <3>2. Len(t) + 1 \in DOMAIN u /\ \A i \in DOMAIN t : i \in DOMAIN u
      BY <2>1
    <3>3. \A i \in DOMAIN t : i # j => Among(t[i], P) = <<>>
      BY <2>1, <3>1, <3>2
    <3>4. QED
      BY <2>1, <2>3, <3>1, <3>2, <3>3 DEF Only
  <2>4. ASSUME Only(u, P, Len(t) + 1) PROVE Only(t, P, 0)
    BY <2>1, <2>4 DEF Only
  <2>5. Among(Flat(t), P) \in A /\ Among(a, P) \in A
    BY <1>0, <1>a
  <2>6. Fits(t)
    BY <1>2
  <2>7. Only(u, P, 0) => Among(Flat(u), P) = <<>>
    <3> SUFFICES ASSUME Only(u, P, 0) PROVE Among(Flat(u), P) = <<>>
      OBVIOUS
    <3>1. Only(t, P, 0) /\ Among(a, P) = <<>>
      BY <2>1, <2>3
    <3>2. QED
      BY <1>e, <1>n, <2>2, <2>6, <3>1
  <2>8. ASSUME NEW j \in DOMAIN u, Only(u, P, j) PROVE Among(Flat(u), P) = Among(u[j], P)
    <3>1. CASE j = Len(t) + 1
      <4>1. Only(t, P, 0)
        BY <2>4, <2>8, <3>1
      <4>2. QED
        BY <1>n, <2>1, <2>2, <2>5, <2>6, <3>1, <4>1
    <3>2. CASE j # Len(t) + 1
      <4>1. j \in DOMAIN t
        BY <2>1, <3>2
      <4>2. Only(t, P, j) /\ Among(a, P) = <<>>
        BY <2>3, <2>8, <3>2
      <4>3. Among(Flat(t), P) = Among(t[j], P)
        BY <2>6, <4>1, <4>2
      <4>4. QED
        BY <1>n, <2>1, <2>2, <2>5, <4>1, <4>2, <4>3
    <3>3. QED
      BY <3>1, <3>2
  <2>9. QED
    BY <2>1, <2>7, <2>8 DEF u
<1> HIDE DEF A, G
<1>3. Seq(A) \subseteq G
  BY <1>1, <1>2, SeqSet
<1>4. QED
  BY <1>3 DEF A, G

(* When the first places are all picked, they come first.                  *)
LEMMA PickedFirst ==
  ASSUME NEW S, NEW s \in Seq(S), NEW I \in SUBSET (1..Len(s)), NEW k \in 1..Len(s), 1..k \subseteq I
  PROVE  k \in DOMAIN Picked(s, I) /\ Picked(s, I)[k] = s[k]
<1> DEFINE v == InOrder(I) w == [j \in 1..k |-> j]
<1>1. /\ v \in Seq(Nat) /\ Increasing(v) /\ {v[i] : i \in DOMAIN v} = I /\ v \in [1..Len(v) -> I]
      /\ Len(v) \in Nat /\ DOMAIN v = 1..Len(v) /\ Len(s) \in Nat
  <2>1. Len(s) \in Nat
    OBVIOUS
  <2>2. QED
    BY <2>1, InOrderList
<1>i. \A i, j \in DOMAIN v : v[i] \in Nat /\ (i < j => v[i] < v[j])
  BY <1>1 DEF Increasing
<1>2. DOMAIN Picked(s, I) = DOMAIN v /\ \A j \in DOMAIN v : Picked(s, I)[j] = s[v[j]]
  BY DEF Picked
<1> HIDE DEF v
<1>3. \A j \in Nat : j \in 1..k => j \in DOMAIN v /\ v[j] = j
  <2> DEFINE N == {n \in Nat : \A j \in 1..n : j <= k => j \in DOMAIN v /\ v[j] = j}
  <2>1. 0 \in N
    OBVIOUS
  <2>2. ASSUME NEW n \in Nat, n \in N PROVE n + 1 \in N
    <3>1. CASE n + 1 <= k
      <4>1. n + 1 \in I
        BY <3>1
      <4>2. PICK p \in DOMAIN v : v[p] = n + 1
        BY <1>1, <4>1
      <4>3. p >= n + 1
        <5>1. CASE p <= n
          <6>1. p \in 1..n /\ p <= k
            BY <1>1, <3>1, <5>1
          <6>2. v[p] = p
            BY <2>2, <6>1
          <6>3. QED
            BY <4>2, <5>1, <6>2, <1>1
        <5>2. QED
          BY <1>1, <5>1
      <4>4. n + 1 \in DOMAIN v
        BY <1>1, <4>3
      <4>5. v[n + 1] \in Nat /\ v[n + 1] <= n + 1
        <5>1. CASE p = n + 1
          BY <4>2, <5>1
        <5>2. CASE n + 1 < p
          <6>1. v[n + 1] \in Nat /\ (n + 1 < p => v[n + 1] < v[p])
            BY <1>i, <4>4
          <6>2. QED
            BY <4>2, <5>2, <6>1
        <5>3. p \in Nat
          BY <1>1
        <5>4. p = n + 1 \/ n + 1 < p
          BY <4>3, <5>3
        <5> DEFINE fits == v[n + 1] \in Nat /\ v[n + 1] <= n + 1
        <5> HIDE DEF fits
        <5>5. (p = n + 1 => fits) /\ (n + 1 < p => fits)
          BY <5>1, <5>2, Zenon DEF fits
        <5>6. QED
          BY <5>4, <5>5 DEF fits
      <4>6. v[n + 1] >= n + 1
        <5>1. CASE n = 0
          BY <1>1, <4>4, <5>1
        <5>2. CASE n # 0
          <6>1. n \in 1..n /\ n <= k
            BY <3>1, <5>2
          <6>2. n \in DOMAIN v /\ v[n] = n
            BY <2>2, <6>1
          <6>3. v[n] < v[n + 1]
            BY <1>i, <4>4, <6>2
          <6>4. QED
            BY <4>5, <6>2, <6>3
        <5>3. QED
          BY <5>1, <5>2
      <4>7. v[n + 1] = n + 1
        BY <4>5, <4>6
      <4>8. QED
        BY <2>2, <4>4, <4>7
    <3>2. CASE ~(n + 1 <= k)
      BY <2>2, <3>2
    <3>3. QED
      BY <3>1, <3>2
  <2> HIDE DEF N
  <2>3. Nat \subseteq N
    BY <2>1, <2>2, NatSet
  <2>4. QED
    BY <2>3 DEF N
<1>4. QED
  BY <1>2, <1>3
=============================================================================
