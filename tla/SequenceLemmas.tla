--------------------------- MODULE SequenceLemmas ---------------------------
(***************************************************************************)
(* Lemmas about numbers and sequences that the proofs of several           *)
(* components need.                                                        *)
(***************************************************************************)
EXTENDS Integers, Sequences, SequencesExt, SequenceTheorems, WellFoundedInduction, TLAPS

-----------------------------------------------------------------------------
(* Induction.  The least-number principle about a set, which stands in for *)
(* the induction theorems of the library: a property of all numbers holds  *)
(* if the set of its counterexamples has no least element.                 *)

Less == {ss \in Nat \X Nat : ss[1] < ss[2]}

(* A nonempty set of natural numbers has a least element. *)
LEMMA Least ==
    ASSUME NEW S \in SUBSET Nat, S # {}
    PROVE  \E n \in S : \A m \in S : n <= m
<1>1. IsWellFoundedOn(Less, Nat)
  BY NatLessThanWellFounded DEF OpToRel, Less
<1>2. PICK n \in S : \A m \in S : ~(<<m, n>> \in Less)
  BY <1>1, WFMin
<1>3. \A m \in Nat : m < n => <<m, n>> \in Less
  <2> TAKE m \in Nat
  <2>1. <<m, n>> \in Nat \X Nat /\ <<m, n>>[1] = m /\ <<m, n>>[2] = n
    OBVIOUS
  <2>2. QED
    BY <2>1 DEF Less
<1>4. \A m \in S : n <= m
  <2> SUFFICES ASSUME NEW m \in S PROVE n <= m
    OBVIOUS
  <2>1. n \in Nat /\ m \in Nat /\ ~(m < n)
    BY <1>2, <1>3
  <2>2. QED
    BY <2>1
<1>5. QED
  BY <1>4

(* One that is bounded has a greatest. *)
LEMMA Greatest ==
    ASSUME NEW n \in Nat, NEW S \in SUBSET (0..n), S # {}
    PROVE  \E m \in S : \A k \in S : k <= m
<1> DEFINE T == {n - k : k \in S}
<1>0. \A k \in S : n - k \in Nat
  OBVIOUS
<1>1. T \in SUBSET Nat /\ T # {}
  BY <1>0, Zenon
<1>2. PICK j \in T : \A i \in T : j <= i
  BY <1>1, Least
<1>3. PICK m \in S : j = n - m
  OBVIOUS
<1>4. ASSUME NEW k \in S PROVE k <= m
  <2>1. n - k \in T /\ k \in 0..n /\ m \in 0..n
    OBVIOUS
  <2>2. n - m <= n - k
    BY <1>2, <1>3, <2>1
  <2>3. QED
    BY <2>1, <2>2
<1>5. QED
  BY <1>4

(* Induction over 0..n, for a set. *)
LEMMA Climb ==
    ASSUME NEW n \in Nat, NEW S, 0 \in S,
           \A k \in 0..n : k + 1 \in 0..n /\ k \in S => k + 1 \in S
    PROVE  0..n \subseteq S
<1> DEFINE T == (0..n) \ S
<1>1. SUFFICES ASSUME T # {} PROVE FALSE
  OBVIOUS
<1>2. PICK m \in T : \A k \in T : m <= k
  <2>1. T \in SUBSET Nat
    OBVIOUS
  <2>2. QED
    BY <1>1, <2>1, Least
<1>3. m \in 1..n
  OBVIOUS
<1>4. m - 1 \in 0..n /\ (m - 1) + 1 = m /\ m - 1 \notin T
  BY <1>2, <1>3
<1>5. m \in S
  BY <1>3, <1>4
<1>6. QED
  BY <1>5

-----------------------------------------------------------------------------
(* FlattenSeq.                                                             *)

(* What the recursion of FlattenSeq computes: f[i] is the concatenation of *)
(* the first i items of q.                                                 *)
Joins(f, q) ==
    \A i \in 1..Len(q) : f[i] = IF i = 1 THEN q[1] ELSE f[i - 1] \o q[i]

(* The recursion has a solution. *)
LEMMA FlattenDef ==
    ASSUME NEW S, NEW q \in Seq(Seq(S)), q # << >>
    PROVE  \E f : Joins(f, q) /\ FlattenSeq(q) = f[Len(q)]
<1> DEFINE n == Len(q)
           Step(w, i) == IF i = 1 THEN q[i] ELSE w[i - 1] \o q[i]
           Good(w, m) == w = [i \in 1..m |-> Step(w, i)]
           T == {m \in 0..n : \E w : Good(w, m)}
<1>0. n \in Nat /\ n # 0
  BY EmptySeq
<1>1. 0 \in T
  <2> DEFINE v == [i \in 1..0 |-> 0]
  <2>1. Good(v, 0)
    OBVIOUS
  <2> HIDE DEF v, Good
  <2>2. (\E w : Good(w, 0)) /\ 0 \in 0..n
    BY <1>0, <2>1
  <2>3. QED
    BY <2>2
<1>2. ASSUME NEW m \in 0..n, m + 1 \in 0..n, m \in T
      PROVE  m + 1 \in T
  <2>1. PICK w : Good(w, m)
    BY <1>2
  <2> DEFINE v == [i \in 1..(m + 1) |-> IF i <= m THEN w[i] ELSE Step(w, m + 1)]
  <2>2. ASSUME NEW i \in 1..(m + 1) PROVE v[i] = Step(v, i)
    <3>1. CASE i \in 1..m
      <4>1. v[i] = w[i]
        BY <3>1
      <4>2. w[i] = Step(w, i)
        BY <2>1, <3>1
      <4>3. i # 1 => i - 1 \in 1..(m + 1) /\ i - 1 <= m
        BY <3>1
      <4>4. i # 1 => v[i - 1] = w[i - 1]
        BY <4>3
      <4>5. QED
        BY <4>1, <4>2, <4>4
    <3>2. CASE i = m + 1
      <4>1. v[i] = Step(w, m + 1) /\ (i # 1 => v[i - 1] = w[i - 1])
        BY <1>0, <3>2
      <4>2. QED
        BY <4>1, <3>2
    <3>3. QED
      BY <3>1, <3>2
  <2>3. Good(v, m + 1)
    BY <2>2
  <2> HIDE DEF v, Good
  <2>4. QED
    BY <2>3, <1>2
<1> HIDE DEF T, Good
<1>3. n \in T
  <2>1. 0..n \subseteq T
    BY <1>0, <1>1, <1>2, Climb
  <2>2. QED
    BY <1>0, <2>1
<1>4. \E w : Good(w, n)
  BY <1>3 DEF T
<1> DEFINE F == CHOOSE w : Good(w, n)
<1>5. Good(F, n)
  BY <1>4
<1>6. FlattenSeq(q) = F[n]
  BY <1>0 DEF FlattenSeq, Good
<1> HIDE DEF F
<1>7. Joins(F, q)
  BY <1>0, <1>5 DEF Joins, Good
<1>8. QED
  BY <1>6, <1>7

(* All of its values are sequences. *)
LEMMA JoinsType ==
    ASSUME NEW S, NEW q \in Seq(Seq(S)), NEW f, Joins(f, q)
    PROVE  \A i \in 1..Len(q) : f[i] \in Seq(S)
<1> DEFINE T == {0} \cup {i \in 1..Len(q) : f[i] \in Seq(S)}
<1>0. Len(q) \in Nat /\ \A i \in 1..Len(q) : q[i] \in Seq(S)
  OBVIOUS
<1>1. ASSUME NEW k \in 0..Len(q), k + 1 \in 0..Len(q), k \in T
      PROVE  k + 1 \in T
  <2>1. k + 1 \in 1..Len(q) /\ (k + 1) - 1 = k
    BY <1>0, <1>1
  <2>2. CASE k = 0
    BY <1>0, <2>1, <2>2 DEF Joins
  <2>3. CASE k # 0
    <3>0. k + 1 # 1
      BY <1>0, <2>3
    <3>1. f[k + 1] = f[k] \o q[k + 1]
      BY <2>1, <3>0 DEF Joins
    <3>2. f[k] \in Seq(S) /\ q[k + 1] \in Seq(S)
      BY <1>0, <1>1, <2>1, <2>3
    <3>3. f[k + 1] \in Seq(S)
      BY <3>1, <3>2, ConcatProperties
    <3>4. QED
      BY <2>1, <3>3
  <2>4. QED
    BY <2>2, <2>3
<1>2. 0..Len(q) \subseteq T
  <2>1. 0 \in T
    OBVIOUS
  <2> HIDE DEF T
  <2>2. QED
    BY <1>0, <1>1, <2>1, Climb
<1>3. QED
  BY <1>0, <1>2

(* The items of a queue, put one behind the other, are a sequence. *)
LEMMA FlattenType ==
    ASSUME NEW S, NEW q \in Seq(Seq(S))
    PROVE  FlattenSeq(q) \in Seq(S)
<1>1. CASE q = << >>
  BY <1>1 DEF FlattenSeq
<1>2. CASE q # << >>
  <2>1. PICK f : Joins(f, q) /\ FlattenSeq(q) = f[Len(q)]
    BY <1>2, FlattenDef
  <2>2. Len(q) \in 1..Len(q)
    BY <1>2, EmptySeq
  <2>3. QED
    BY <2>1, <2>2, JoinsType
<1>3. QED
  BY <1>1, <1>2

(* What a concatenation is, for the provers that do not know sequences. *)
LEMMA Cat ==
    ASSUME NEW S
    PROVE  /\ << >> \in Seq(S)
           /\ \A a, b \in Seq(S) : a \o b \in Seq(S)
           /\ \A a \in Seq(S) : a \o << >> = a /\ << >> \o a = a
           /\ \A a, b, c \in Seq(S) : (a \o b) \o c = a \o (b \o c)
BY EmptySeq, ConcatProperties, ConcatEmptySeq, ConcatAssociative

(* An empty queue holds nothing. *)
LEMMA FlattenEmpty == FlattenSeq(<< >>) = << >>
BY DEF FlattenSeq

(* Two solutions for queues with the same first items agree on them. *)
LEMMA JoinsSame ==
    ASSUME NEW p, NEW q, NEW f, NEW g, Joins(f, p), Joins(g, q),
           Len(p) \in Nat, Len(q) \in Nat, Len(p) <= Len(q),
           \A i \in 1..Len(p) : p[i] = q[i]
    PROVE  \A i \in 1..Len(p) : f[i] = g[i]
<1> DEFINE T == {0} \cup {i \in 1..Len(p) : f[i] = g[i]}
<1>0. Len(p) \in Nat /\ Len(q) \in Nat
  OBVIOUS
<1>1. ASSUME NEW k \in 0..Len(p), k + 1 \in 0..Len(p), k \in T
      PROVE  k + 1 \in T
  <2>1. k + 1 \in 1..Len(p) /\ k + 1 \in 1..Len(q) /\ (k + 1) - 1 = k
    BY <1>0, <1>1
  <2>2. /\ f[k + 1] = IF k + 1 = 1 THEN p[1] ELSE f[k] \o p[k + 1]
        /\ g[k + 1] = IF k + 1 = 1 THEN q[1] ELSE g[k] \o q[k + 1]
    BY <2>1 DEF Joins
  <2>3. k + 1 # 1 => f[k] = g[k]
    BY <1>1
  <2>4. QED
    BY <2>1, <2>2, <2>3
<1>2. 0..Len(p) \subseteq T
  <2>1. 0 \in T
    OBVIOUS
  <2> HIDE DEF T
  <2>2. QED
    BY <1>0, <1>1, <2>1, Climb
<1>3. ASSUME NEW i \in 1..Len(p) PROVE f[i] = g[i]
  <2>1. i \in 0..Len(p) /\ i # 0
    BY <1>0
  <2>2. i \in T
    BY <1>2, <2>1
  <2>3. QED
    BY <2>1, <2>2
<1>4. QED
  BY <1>3

(* An item that joins the queue comes last. *)
LEMMA FlattenAppend ==
    ASSUME NEW S, NEW q \in Seq(Seq(S)), NEW x \in Seq(S)
    PROVE  FlattenSeq(Append(q, x)) = FlattenSeq(q) \o x
<1> DEFINE r == Append(q, x)
<1>1. /\ r \in Seq(Seq(S)) /\ r # << >> /\ Len(r) = Len(q) + 1 /\ r[Len(q) + 1] = x
      /\ \A i \in 1..Len(q) : r[i] = q[i]
  BY AppendProperties
<1>2. Len(q) \in Nat
  OBVIOUS
<1> HIDE DEF r
<1>3. PICK g : Joins(g, r) /\ FlattenSeq(r) = g[Len(r)]
  BY <1>1, FlattenDef
<1>4. CASE q = << >>
  <2>1. Len(q) = 0 /\ FlattenSeq(q) = << >>
    BY <1>4, FlattenEmpty
  <2>2. FlattenSeq(r) = x
    BY <1>1, <1>3, <2>1 DEF Joins
  <2>3. << >> \o x = x
    BY ConcatEmptySeq
  <2>4. QED
    BY <2>1, <2>2, <2>3 DEF r
<1>5. CASE q # << >>
  <2>1. PICK f : Joins(f, q) /\ FlattenSeq(q) = f[Len(q)]
    BY <1>5, FlattenDef
  <2>2. Len(q) \in 1..Len(q)
    BY <1>5, EmptySeq
  <2>3. f[Len(q)] = g[Len(q)]
    <3>1. Len(q) <= Len(r) /\ \A i \in 1..Len(q) : q[i] = r[i]
      BY <1>1, <1>2
    <3>2. \A i \in 1..Len(q) : f[i] = g[i]
      <4>1. Len(q) \in Nat /\ Len(r) \in Nat /\ Joins(f, q) /\ Joins(g, r)
        BY <1>1, <1>3, <2>1
      <4>2. QED
        BY ONLY <3>1, <4>1, JoinsSame, SMTT(60)
    <3>3. QED
      BY <2>2, <3>2
  <2>4. Len(q) + 1 \in 1..Len(r) /\ (Len(q) + 1) - 1 = Len(q) /\ Len(q) + 1 # 1
    BY <1>1, <1>2, <2>2
  <2>5. g[Len(q) + 1] = g[Len(q)] \o r[Len(q) + 1]
    BY <1>3, <2>4 DEF Joins
  <2>6. QED
    BY <1>1, <1>3, <2>1, <2>3, <2>5 DEF r
<1>6. QED
  BY <1>4, <1>5

(* A queue of one item. *)
LEMMA FlattenOne ==
    ASSUME NEW S, NEW x \in Seq(S)
    PROVE  FlattenSeq(<<x>>) = x
<1>1. << >> \in Seq(Seq(S)) /\ Append(<< >>, x) = <<x>>
  OBVIOUS
<1>2. FlattenSeq(Append(<< >>, x)) = << >> \o x
  BY <1>1, FlattenAppend, FlattenEmpty
<1>3. QED
  BY <1>1, <1>2, ConcatEmptySeq

(* The first item of a queue comes first. *)
LEMMA FlattenTail ==
    ASSUME NEW S, NEW q \in Seq(Seq(S)), q # << >>
    PROVE  /\ Head(q) \in Seq(S) /\ Tail(q) \in Seq(Seq(S))
           /\ FlattenSeq(q) = Head(q) \o FlattenSeq(Tail(q))
<1> DEFINE r == Tail(q)
           h == Head(q)
<1>1. /\ r \in Seq(Seq(S)) /\ h \in Seq(S) /\ Len(r) = Len(q) - 1
      /\ \A i \in 1..Len(r) : r[i] = q[i + 1]
  BY HeadTailProperties
<1>2. Len(q) \in Nat /\ Len(r) \in Nat /\ Len(q) # 0 /\ q[1] = h
  BY <1>1, EmptySeq
<1> HIDE DEF r, h
<1>3. PICK f : Joins(f, q) /\ FlattenSeq(q) = f[Len(q)]
  BY FlattenDef
<1>4. f[1] = h
  BY <1>2, <1>3 DEF Joins
<1>5. CASE r = << >>
  <2>1. Len(q) = 1 /\ FlattenSeq(r) = << >>
    BY <1>1, <1>2, <1>5, FlattenEmpty
  <2>2. h \o << >> = h
    BY <1>1, ConcatEmptySeq
  <2>3. QED
    BY <1>1, <1>3, <1>4, <2>1, <2>2 DEF r, h
<1>6. CASE r # << >>
  <2>0. \A a, b, c \in Seq(S) : (a \o b) \o c = a \o (b \o c)
    BY Cat
  <2>1. PICK g : Joins(g, r) /\ FlattenSeq(r) = g[Len(r)]
    BY <1>1, <1>6, FlattenDef
  <2>2. \A i \in 1..Len(r) : g[i] \in Seq(S) /\ r[i] \in Seq(S)
    <3>1. \A i \in 1..Len(r) : r[i] \in Seq(S)
      BY <1>1
    <3>2. r \in Seq(Seq(S)) /\ Joins(g, r)
      BY <1>1, <2>1
    <3>3. \A i \in 1..Len(r) : g[i] \in Seq(S)
      BY ONLY <3>2, JoinsType
    <3>4. QED
      BY <3>1, <3>3
  <2> DEFINE T == {0} \cup {i \in 1..Len(r) : f[i + 1] = h \o g[i]}
  <2>3. ASSUME NEW k \in 0..Len(r), k + 1 \in 0..Len(r), k \in T
        PROVE  k + 1 \in T
    <3>1. /\ k + 1 \in 1..Len(r) /\ (k + 1) + 1 \in 1..Len(q) /\ (k + 1) + 1 # 1
          /\ ((k + 1) + 1) - 1 = k + 1 /\ (k + 1) - 1 = k
      BY <1>1, <1>2, <2>3
    <3>2. f[(k + 1) + 1] = f[k + 1] \o q[(k + 1) + 1]
      BY <1>3, <3>1 DEF Joins
    <3>3. q[(k + 1) + 1] = r[k + 1]
      BY <1>1, <3>1
    <3>4. CASE k = 0
      <4>1. g[k + 1] = r[k + 1] /\ f[k + 1] = h
        BY <1>4, <2>1, <3>1, <3>4 DEF Joins
      <4>2. QED
        BY <3>1, <3>2, <3>3, <4>1
    <3>5. CASE k # 0
      <4>0. k + 1 # 1
        BY <1>2, <3>5
      <4>1. g[k + 1] = g[k] \o r[k + 1]
        BY <2>1, <3>1, <4>0 DEF Joins
      <4>2. f[k + 1] = h \o g[k] /\ k \in 1..Len(r)
        BY <2>3, <3>5
      <4>3. (h \o g[k]) \o r[k + 1] = h \o (g[k] \o r[k + 1])
        <5>1. g[k] \in Seq(S) /\ r[k + 1] \in Seq(S)
          BY <2>2, <3>1, <4>2
        <5>2. QED
          BY <1>1, <2>0, <5>1, Zenon
      <4>4. f[(k + 1) + 1] = h \o g[k + 1]
        BY <3>2, <3>3, <4>1, <4>2, <4>3
      <4>5. QED
        BY <3>1, <4>4
    <3>6. QED
      BY <3>4, <3>5
  <2>4. 0..Len(r) \subseteq T
    <3>1. 0 \in T
      OBVIOUS
    <3> HIDE DEF T
    <3>2. QED
      BY <1>2, <2>3, <3>1, Climb
  <2>5. Len(r) \in 1..Len(r) /\ Len(r) + 1 = Len(q)
    BY <1>1, <1>2, <1>6, EmptySeq
  <2>6. f[Len(q)] = h \o g[Len(r)]
    <3>1. Len(r) \in 0..Len(r) /\ Len(r) # 0
      BY <1>2, <2>5
    <3>2. Len(r) \in T
      BY <2>4, <3>1
    <3>3. QED
      BY <2>5, <3>1, <3>2
  <2>7. QED
    BY <1>1, <1>3, <2>1, <2>6 DEF r, h
<1>7. QED
  BY <1>5, <1>6

=============================================================================
