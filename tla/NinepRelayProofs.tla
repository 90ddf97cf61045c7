--------------------------- MODULE NinepRelayProofs ---------------------------
(***************************************************************************)
(* Theorems about the way of 9P messages between the kernel and dispatch   *)
(* (NinepRelay), for any number of tags, any lengths of requests and       *)
(* responses, any size of a read and any capacities of the queues.         *)
(***************************************************************************)
EXTENDS NinepRelay, SequenceLemmas, FiniteSetTheorems, TLAPS

UnitOf(n) == Tags \X (1..n)

(* No unit is there twice. *)
Once(s) == \A i, j \in 1..Len(s) : s[i] = s[j] => i = j

(* There is something of the message of tag t. *)
Has(s, t) == \E i \in 1..Len(s) : s[i][1] = t

-----------------------------------------------------------------------------
(* Sequences of messages.                                                  *)

(* A message, unit by unit. *)
LEMMA MsgIs ==
    ASSUME NEW t \in Tags, NEW n \in Nat
    PROVE  /\ Msg(t, n) \in Seq(UnitOf(n)) /\ Len(Msg(t, n)) = n
           /\ \A k \in 1..n : Msg(t, n)[k] = <<t, k>>
<1>1. \A k \in 1..n : <<t, k>> \in UnitOf(n)
  BY DEF UnitOf
<1>2. Msg(t, n) \in [1..n -> UnitOf(n)]
  BY <1>1 DEF Msg
<1>3. Msg(t, n) \in Seq(UnitOf(n)) /\ Len(Msg(t, n)) = n
  BY <1>2
<1>4. QED
  BY <1>3 DEF Msg

(* A message behind whole messages: still whole messages. *)
LEMMA WholeAdd ==
    ASSUME NEW n \in Nat \ {0}, NEW s \in Seq(UnitOf(n)), Whole(s, n), NEW t \in Tags
    PROVE  s \o Msg(t, n) \in Seq(UnitOf(n)) /\ Whole(s \o Msg(t, n), n)
<1> DEFINE m == Msg(t, n)
           r == s \o m
<1>1. m \in Seq(UnitOf(n)) /\ Len(m) = n /\ \A k \in 1..n : m[k] = <<t, k>>
  BY MsgIs
<1> HIDE DEF m
<1>2. /\ r \in Seq(UnitOf(n)) /\ Len(r) = Len(s) + n
      /\ \A i \in 1..(Len(s) + n) : r[i] = IF i <= Len(s) THEN s[i] ELSE m[i - Len(s)]
  BY <1>1, ConcatProperties, ZenonT(60)
<1>3. Len(s) \in Nat /\ (Len(s) = 0 <=> s = << >>)
  BY EmptySeq
<1> HIDE DEF r
<1>4. r[Len(r)][2] = n
  <2>1. Len(r) \in 1..(Len(s) + n) /\ ~(Len(r) <= Len(s)) /\ Len(r) - Len(s) = n /\ n \in 1..n
    BY <1>2, <1>3
  <2>2. r[Len(r)] = m[n]
    BY <1>2, <2>1
  <2>3. QED
    BY <1>1, <2>1, <2>2
<1>5. r[1][2] = 1
  <2>1. 1 \in 1..(Len(s) + n) /\ 1 \in 1..n
    BY <1>3
  <2>2. CASE s = << >>
    <3>1. r[1] = m[1]
      BY <1>2, <1>3, <2>1, <2>2
    <3>2. QED
      BY <1>1, <2>1, <3>1
  <2>3. CASE s # << >>
    <3>1. r[1] = s[1]
      BY <1>2, <1>3, <2>1, <2>3
    <3>2. QED
      BY <2>3, <3>1 DEF Whole
  <2>4. QED
    BY <2>2, <2>3
<1>6. ASSUME NEW i \in 1..(Len(r) - 1) PROVE Follows(r[i], r[i + 1], n)
  <2>1. /\ i \in 1..(Len(s) + n) /\ i + 1 \in 1..(Len(s) + n)
        /\ i \in Nat /\ Len(r) = Len(s) + n
    BY <1>2, <1>3
  <2>2. CASE i < Len(s)
    <3>1. r[i] = s[i] /\ r[i + 1] = s[i + 1] /\ i \in 1..(Len(s) - 1) /\ s # << >>
      BY <1>2, <1>3, <2>1, <2>2
    <3>2. QED
      BY <3>1 DEF Whole
  <2>3. CASE i = Len(s)
    <3>1. r[i] = s[i] /\ r[i + 1] = m[1] /\ s # << >> /\ 1 \in 1..n
      BY <1>2, <1>3, <2>1, <2>3
    <3>2. s[i][2] = n /\ m[1][2] = 1
      BY <1>1, <2>3, <3>1 DEF Whole
    <3>3. QED
      BY <3>1, <3>2 DEF Follows
  <2>4. CASE i > Len(s)
    <3> DEFINE k == i - Len(s)
    <3>1. k \in 1..n /\ k + 1 \in 1..n /\ k # n /\ (i + 1) - Len(s) = k + 1
      BY <1>2, <1>3, <2>1, <2>4
    <3>2. r[i] = m[k] /\ r[i + 1] = m[(i + 1) - Len(s)]
      BY <1>2, <1>3, <2>1, <2>4
    <3> HIDE DEF k
    <3>3. r[i] = <<t, k>> /\ r[i + 1] = <<t, k + 1>>
      BY <1>1, <3>1, <3>2
    <3>4. QED
      BY <3>1, <3>3 DEF Follows
  <2>5. QED
    BY <1>3, <2>1, <2>2, <2>3, <2>4
<1>7. Whole(r, n)
  BY <1>4, <1>5, <1>6 DEF Whole
<1>8. QED
  BY <1>2, <1>7 DEF r, m

(* The first n units are one message. *)
LEMMA FirstMsg ==
    ASSUME NEW n \in Nat \ {0}, NEW s \in Seq(UnitOf(n)), Whole(s, n), Len(s) >= n
    PROVE  \A k \in 1..n : s[k] = <<s[1][1], k>>
<1> DEFINE T == {0} \cup {k \in 1..n : s[k] = <<s[1][1], k>>}
<1>0. Len(s) \in Nat /\ s # << >> /\ s[1] \in UnitOf(n) /\ s[1][2] = 1
  BY EmptySeq DEF Whole
<1>1. ASSUME NEW k \in 0..n, k + 1 \in 0..n, k \in T
      PROVE  k + 1 \in T
  <2>1. k + 1 \in 1..n /\ (k # 0 => k \in 1..(Len(s) - 1) /\ k # n)
    BY <1>0, <1>1
  <2>2. CASE k = 0
    <3>1. s[1] = <<s[1][1], s[1][2]>>
      BY <1>0 DEF UnitOf
    <3>2. QED
      BY <1>0, <2>1, <2>2, <3>1
  <2>3. CASE k # 0
    <3>1. s[k] = <<s[1][1], k>>
      BY <1>1, <2>3
    <3>2. Follows(s[k], s[k + 1], n)
      BY <1>0, <2>1, <2>3 DEF Whole
    <3>3. s[k + 1] = <<s[1][1], k + 1>>
      BY <2>1, <2>3, <3>1, <3>2 DEF Follows
    <3>4. QED
      BY <2>1, <3>3
  <2>4. QED
    BY <2>2, <2>3
<1>2. 0..n \subseteq T
  <2>1. 0 \in T
    OBVIOUS
  <2> HIDE DEF T
  <2>2. QED
    BY <1>1, <2>1, Climb
<1>3. ASSUME NEW k \in 1..n PROVE s[k] = <<s[1][1], k>>
  <2>1. k \in 0..n /\ k # 0
    OBVIOUS
  <2>2. k \in T
    BY <1>2, <2>1
  <2>3. QED
    BY <2>1, <2>2
<1>4. QED
  BY <1>3

(* Without its first message a sequence of whole messages still is one. *)
LEMMA WholeCut ==
    ASSUME NEW n \in Nat \ {0}, NEW m \in Seq(UnitOf(n)), NEW r \in Seq(UnitOf(n)),
           Len(m) = n, Whole(m \o r, n)
    PROVE  /\ Whole(r, n) /\ m[1][1] \in Tags
           /\ \A k \in 1..n : m[k] = <<m[1][1], k>>
<1> DEFINE s == m \o r
<1>1. /\ s \in Seq(UnitOf(n)) /\ Len(s) = n + Len(r)
      /\ \A i \in 1..(n + Len(r)) : s[i] = IF i <= n THEN m[i] ELSE r[i - n]
  BY ConcatProperties, ZenonT(60)
<1>2. Len(r) \in Nat /\ (Len(r) = 0 <=> r = << >>)
  BY EmptySeq
<1>3. Whole(s, n) /\ Len(s) >= n
  BY <1>1, <1>2
<1> HIDE DEF s
<1>4. \A k \in 1..n : s[k] = <<s[1][1], k>>
  BY <1>1, <1>3, FirstMsg
<1>5. \A k \in 1..n : s[k] = m[k]
  BY <1>1, <1>2
<1>6. 1 \in 1..n /\ n \in 1..n /\ s[n][2] = n /\ s # << >>
  <2>1. 1 \in 1..n /\ n \in 1..n
    OBVIOUS
  <2>2. s[n][2] = n
    BY <1>4, <2>1
  <2>3. s # << >>
    BY <1>1, <1>2, EmptySeq
  <2>4. QED
    BY <2>1, <2>2, <2>3
<1>7. \A k \in 1..n : m[k] = <<m[1][1], k>>
  BY <1>4, <1>5, <1>6
<1>8. m[1][1] \in Tags
  <2>1. m[1] \in UnitOf(n)
    BY <1>6
  <2>2. QED
    BY <2>1 DEF UnitOf
<1>9. ASSUME r # << >>
      PROVE  /\ r[1][2] = 1 /\ r[Len(r)][2] = n
             /\ \A i \in 1..(Len(r) - 1) : Follows(r[i], r[i + 1], n)
  <2>1. \A i \in 1..Len(r) : r[i] = s[i + n] /\ i + n \in 1..Len(s)
    <3> TAKE i \in 1..Len(r)
    <3>1. i + n \in 1..(n + Len(r)) /\ ~(i + n <= n) /\ (i + n) - n = i
      BY <1>2
    <3>2. QED
      BY <1>1, <3>1
  <2>2. 1 \in 1..Len(r) /\ Len(r) \in 1..Len(r) /\ n \in 1..(Len(s) - 1) /\ Len(r) + n = Len(s)
    BY <1>1, <1>2, <1>9
  <2>3. r[1][2] = 1
    <3>1. Follows(s[n], s[n + 1], n)
      BY <1>3, <1>6, <2>2 DEF Whole
    <3>2. r[1] = s[n + 1]
      BY <2>1, <2>2
    <3>3. QED
      BY <1>6, <3>1, <3>2 DEF Follows
  <2>4. r[Len(r)][2] = n
    <3>1. r[Len(r)] = s[Len(s)]
      BY <2>1, <2>2
    <3>2. QED
      BY <1>3, <1>6, <3>1 DEF Whole
  <2>5. ASSUME NEW i \in 1..(Len(r) - 1) PROVE Follows(r[i], r[i + 1], n)
    <3>1. /\ i \in 1..Len(r) /\ i + 1 \in 1..Len(r) /\ i + n \in 1..(Len(s) - 1)
          /\ (i + 1) + n = (i + n) + 1
      BY <1>1, <1>2
    <3>2. Follows(s[i + n], s[(i + n) + 1], n)
      BY <1>3, <1>6, <3>1 DEF Whole
    <3>3. r[i] = s[i + n] /\ r[i + 1] = s[(i + n) + 1]
      BY <2>1, <3>1
    <3>4. QED
      BY <3>2, <3>3
  <2>6. QED
    BY <2>3, <2>4, <2>5
<1>10. Whole(r, n)
  BY <1>9 DEF Whole
<1>11. QED
  BY <1>7, <1>8, <1>10

(* Whoever has something of a message has its beginning. *)
LEMMA HasFirst ==
    ASSUME NEW n \in Nat \ {0}, NEW s \in Seq(UnitOf(n)), Whole(s, n), NEW t, Has(s, t)
    PROVE  \E j \in 1..Len(s) : s[j] = <<t, 1>>
<1> DEFINE T == {j \in 1..Len(s) : s[j][1] = t}
<1>1. T \in SUBSET Nat /\ T # {}
  BY DEF Has
<1>2. PICK j \in T : \A i \in T : j <= i
  BY <1>1, Least
<1>3. j \in 1..Len(s) /\ s[j][1] = t /\ s[j] \in UnitOf(n) /\ Len(s) \in Nat /\ s # << >>
  BY EmptySeq
<1>4. s[j] = <<t, s[j][2]>>
  BY <1>3 DEF UnitOf
<1>5. s[j][2] = 1
  <2>1. CASE j = 1
    BY <1>3, <2>1 DEF Whole
  <2>2. CASE j # 1
    <3>1. j - 1 \in 1..(Len(s) - 1) /\ (j - 1) + 1 = j /\ j - 1 \in 1..Len(s) /\ ~(j <= j - 1)
      BY <1>3, <2>2
    <3>2. Follows(s[j - 1], s[j], n)
      BY <1>3, <3>1 DEF Whole
    <3>3. s[j - 1][1] # t
      BY <1>2, <3>1
    <3>4. s[j - 1][2] # n => s[j][1] = s[j - 1][1]
      BY <3>2 DEF Follows
    <3>5. QED
      BY <1>3, <3>2, <3>3, <3>4 DEF Follows
  <2>3. QED
    BY <2>1, <2>2
<1>6. QED
  BY <1>3, <1>4, <1>5

(* The message of a tag that has none yet can be added. *)
LEMMA OnceAdd ==
    ASSUME NEW n \in Nat \ {0}, NEW s \in Seq(UnitOf(n)), Once(s), NEW t \in Tags, ~Has(s, t)
    PROVE  /\ Once(s \o Msg(t, n)) /\ Has(s \o Msg(t, n), t)
           /\ \A u \in Tags \ {t} : Has(s \o Msg(t, n), u) <=> Has(s, u)
<1> DEFINE m == Msg(t, n)
           r == s \o m
<1>1. m \in Seq(UnitOf(n)) /\ Len(m) = n /\ \A k \in 1..n : m[k] = <<t, k>>
  BY MsgIs
<1> HIDE DEF m
<1>2. /\ r \in Seq(UnitOf(n)) /\ Len(r) = Len(s) + n
      /\ \A i \in 1..(Len(s) + n) : r[i] = IF i <= Len(s) THEN s[i] ELSE m[i - Len(s)]
  BY <1>1, ConcatProperties, ZenonT(60)
<1>3. Len(s) \in Nat
  OBVIOUS
<1> HIDE DEF r
<1>4. \A i \in 1..Len(s) : i \in 1..Len(r) /\ r[i] = s[i] /\ r[i][1] # t
  <2> TAKE i \in 1..Len(s)
  <2>1. i \in 1..(Len(s) + n) /\ i <= Len(s)
    BY <1>3
  <2>2. QED
    BY <1>2, <2>1 DEF Has
<1>5. \A i \in 1..Len(r) : i \notin 1..Len(s) => i - Len(s) \in 1..n /\ r[i] = <<t, i - Len(s)>>
  <2> TAKE i \in 1..Len(r)
  <2> SUFFICES ASSUME i \notin 1..Len(s)
               PROVE  i - Len(s) \in 1..n /\ r[i] = <<t, i - Len(s)>>
    OBVIOUS
  <2>1. i \in 1..(Len(s) + n) /\ ~(i <= Len(s)) /\ i - Len(s) \in 1..n
    BY <1>2, <1>3
  <2>2. r[i] = m[i - Len(s)]
    BY <1>2, <2>1
  <2>3. QED
    BY <1>1, <2>1, <2>2
<1>6. Once(r)
  <2> SUFFICES ASSUME NEW i \in 1..Len(r), NEW j \in 1..Len(r), r[i] = r[j]
               PROVE  i = j
    BY DEF Once
  <2>1. CASE i \in 1..Len(s) /\ j \in 1..Len(s)
    BY <1>4, <2>1 DEF Once
  <2>2. CASE i \in 1..Len(s) /\ j \notin 1..Len(s)
    <3>1. r[i][1] # t /\ r[j][1] = t
      BY <1>4, <1>5, <2>2
    <3>2. QED
      BY <3>1
  <2>3. CASE i \notin 1..Len(s) /\ j \in 1..Len(s)
    <3>1. r[j][1] # t /\ r[i][1] = t
      BY <1>4, <1>5, <2>3
    <3>2. QED
      BY <3>1
  <2>4. CASE i \notin 1..Len(s) /\ j \notin 1..Len(s)
    <3>1. r[i] = <<t, i - Len(s)>> /\ r[j] = <<t, j - Len(s)>>
      BY <1>5, <2>4
    <3>a. \A k : <<t, k>>[2] = k
      OBVIOUS
    <3>2. r[i][2] = i - Len(s) /\ r[j][2] = j - Len(s)
      BY <3>1, <3>a, Zenon
    <3>3. QED
      BY <1>2, <1>3, <3>2
  <2>5. QED
    BY <2>1, <2>2, <2>3, <2>4
<1>7. Has(r, t)
  <2>1. Len(r) \in 1..Len(r) /\ Len(r) \notin 1..Len(s)
    BY <1>2, <1>3
  <2>2. r[Len(r)][1] = t
    BY <1>5, <2>1
  <2>3. QED
    BY <2>1, <2>2 DEF Has
<1>8. ASSUME NEW u \in Tags \ {t} PROVE Has(r, u) <=> Has(s, u)
  <2>1. ASSUME Has(r, u) PROVE Has(s, u)
    <3>1. PICK i \in 1..Len(r) : r[i][1] = u
      BY <2>1 DEF Has
    <3>2. i \in 1..Len(s)
      BY <1>5, <3>1
    <3>3. QED
      BY <1>4, <3>1, <3>2 DEF Has
  <2>2. ASSUME Has(s, u) PROVE Has(r, u)
    <3>1. PICK i \in 1..Len(s) : s[i][1] = u
      BY <2>2 DEF Has
    <3>2. QED
      BY <1>4, <3>1 DEF Has
  <2>3. QED
    BY <2>1, <2>2
<1>9. QED
  BY <1>6, <1>7, <1>8 DEF r, m

(* When a message is taken away there is nothing left of its tag. *)
LEMMA OnceCut ==
    ASSUME NEW n \in Nat \ {0}, NEW m \in Seq(UnitOf(n)), NEW r \in Seq(UnitOf(n)),
           Len(m) = n, Once(m \o r), NEW t, \A k \in 1..n : m[k] = <<t, k>>
    PROVE  /\ Once(r) /\ Has(m \o r, t) /\ ~Has(r, t)
           /\ \A u \in Tags \ {t} : Has(m \o r, u) <=> Has(r, u)
<1> DEFINE s == m \o r
<1>1. /\ s \in Seq(UnitOf(n)) /\ Len(s) = n + Len(r)
      /\ \A i \in 1..(n + Len(r)) : s[i] = IF i <= n THEN m[i] ELSE r[i - n]
  BY ConcatProperties, ZenonT(60)
<1>2. Len(r) \in Nat /\ Once(s)
  OBVIOUS
<1> HIDE DEF s
<1>3. \A i \in 1..Len(r) : r[i] = s[i + n] /\ i + n \in 1..Len(s)
  <2> TAKE i \in 1..Len(r)
  <2>1. i + n \in 1..(n + Len(r)) /\ ~(i + n <= n) /\ (i + n) - n = i
    BY <1>2
  <2>2. QED
    BY <1>1, <2>1
<1>4. \A k \in 1..n : k \in 1..Len(s) /\ s[k] = <<t, k>>
  <2> TAKE k \in 1..n
  <2>1. k \in 1..(n + Len(r)) /\ k <= n
    BY <1>2
  <2>2. QED
    BY <1>1, <2>1
<1>5. Once(r)
  <2> SUFFICES ASSUME NEW i \in 1..Len(r), NEW j \in 1..Len(r), r[i] = r[j]
               PROVE  i = j
    BY DEF Once
  <2>1. i + n = j + n
    BY <1>2, <1>3 DEF Once
  <2>2. QED
    BY <1>2, <2>1
<1>6. ~Has(r, t)
  <2> SUFFICES ASSUME NEW i \in 1..Len(r), r[i][1] = t PROVE FALSE
    BY DEF Has
  <2>1. r[i] \in UnitOf(n)
    OBVIOUS
  <2>2. r[i] = <<t, r[i][2]>> /\ r[i][2] \in 1..n
    BY <2>1 DEF UnitOf
  <2>3. s[i + n] = s[r[i][2]] /\ i + n \in 1..Len(s) /\ r[i][2] \in 1..Len(s)
    BY <1>3, <1>4, <2>2
  <2>4. i + n = r[i][2]
    BY <1>2, <2>3 DEF Once
  <2>5. QED
    BY <1>2, <2>2, <2>4
<1>7. Has(s, t)
  <2>1. 1 \in 1..n
    OBVIOUS
  <2>2. 1 \in 1..Len(s) /\ s[1][1] = t
    BY <1>4, <2>1
  <2>3. QED
    BY <2>2 DEF Has
<1>8. ASSUME NEW u \in Tags \ {t} PROVE Has(s, u) <=> Has(r, u)
  <2>1. ASSUME Has(s, u) PROVE Has(r, u)
    <3>1. PICK i \in 1..Len(s) : s[i][1] = u
      BY <2>1 DEF Has
    <3>2. i \notin 1..n
      BY <1>4, <3>1
    <3>3. i - n \in 1..Len(r) /\ (i - n) + n = i
      BY <1>1, <1>2, <3>1, <3>2
    <3>4. r[i - n][1] = u
      BY <1>3, <3>1, <3>3
    <3>5. QED
      BY <3>3, <3>4 DEF Has
  <2>2. ASSUME Has(r, u) PROVE Has(s, u)
    <3>1. PICK i \in 1..Len(r) : r[i][1] = u
      BY <2>2 DEF Has
    <3>2. QED
      BY <1>3, <3>1 DEF Has
  <2>3. QED
    BY <2>1, <2>2
<1>9. QED
  BY <1>5, <1>6, <1>7, <1>8 DEF s

(* What is there may begin with any unit, or with the first of a message. *)
Begun(n) == {s \in Seq(UnitOf(n)) : s # << >> => s[1][2] = 1}

(* A message behind messages that have lost their ends. *)
LEMMA EndsCutAdd ==
    ASSUME NEW n \in Nat \ {0}, NEW s \in Seq(UnitOf(n)), EndsCut(s), NEW t \in Tags
    PROVE  EndsCut(s \o Msg(t, n))
<1> DEFINE m == Msg(t, n)
           r == s \o m
<1>1. m \in Seq(UnitOf(n)) /\ Len(m) = n /\ \A k \in 1..n : m[k] = <<t, k>>
  BY MsgIs
<1> HIDE DEF m
<1>2. /\ r \in Seq(UnitOf(n)) /\ Len(r) = Len(s) + n
      /\ \A i \in 1..(Len(s) + n) : r[i] = IF i <= Len(s) THEN s[i] ELSE m[i - Len(s)]
  BY <1>1, ConcatProperties, ZenonT(60)
<1>3. Len(s) \in Nat
  OBVIOUS
<1> HIDE DEF r
<1>4. ASSUME NEW i \in 1..(Len(r) - 1)
      PROVE  r[i + 1][2] = 1 \/ r[i + 1] = <<r[i][1], r[i][2] + 1>>
  <2>1. i \in Nat /\ i \in 1..(Len(s) + n) /\ i + 1 \in 1..(Len(s) + n)
    BY <1>2, <1>3
  <2>2. CASE i < Len(s)
    <3>1. r[i] = s[i] /\ r[i + 1] = s[i + 1] /\ i \in 1..(Len(s) - 1)
      BY <1>2, <1>3, <2>1, <2>2
    <3>2. QED
      BY <3>1 DEF EndsCut
  <2>3. CASE i = Len(s)
    <3>1. r[i + 1] = m[1] /\ 1 \in 1..n
      BY <1>2, <1>3, <2>1, <2>3
    <3>2. QED
      BY <1>1, <3>1
  <2>4. CASE i > Len(s)
    <3> DEFINE k == i - Len(s)
    <3>1. k \in 1..n /\ k + 1 \in 1..n /\ (i + 1) - Len(s) = k + 1
      BY <1>2, <1>3, <2>1, <2>4
    <3>2. r[i] = m[k] /\ r[i + 1] = m[(i + 1) - Len(s)]
      BY <1>2, <1>3, <2>1, <2>4
    <3> HIDE DEF k
    <3>3. r[i] = <<t, k>> /\ r[i + 1] = <<t, k + 1>>
      BY <1>1, <3>1, <3>2
    <3>4. QED
      BY <3>3
  <2>5. QED
    BY <1>3, <2>1, <2>2, <2>3, <2>4
<1>5. QED
  BY <1>4 DEF EndsCut, r, m

(* Something in the middle is lost, before the beginning of a message. *)
LEMMA EndsCutLose ==
    ASSUME NEW n \in Nat, NEW p \in Seq(UnitOf(n)), NEW y \in Seq(UnitOf(n)),
           NEW q \in Begun(n), EndsCut((p \o y) \o q)
    PROVE  EndsCut(p \o q)
<1> DEFINE s == (p \o y) \o q
           py == p \o y
           r == p \o q
<1>0. q \in Seq(UnitOf(n)) /\ (q # << >> => q[1][2] = 1)
  BY DEF Begun
<1>1. /\ py \in Seq(UnitOf(n)) /\ Len(py) = Len(p) + Len(y)
      /\ \A i \in 1..(Len(p) + Len(y)) : py[i] = IF i <= Len(p) THEN p[i] ELSE y[i - Len(p)]
  BY ConcatProperties, ZenonT(60)
<1>2. /\ s \in Seq(UnitOf(n)) /\ Len(s) = Len(py) + Len(q)
      /\ \A i \in 1..(Len(py) + Len(q)) : s[i] = IF i <= Len(py) THEN py[i] ELSE q[i - Len(py)]
  <2>1. \A u \in Seq(UnitOf(n)) : \A v \in Seq(UnitOf(n)) :
           /\ u \o v \in Seq(UnitOf(n)) /\ Len(u \o v) = Len(u) + Len(v)
           /\ \A i \in 1..(Len(u) + Len(v)) : (u \o v)[i] = IF i <= Len(u) THEN u[i] ELSE v[i - Len(u)]
    BY ConcatProperties, Zenon
  <2>2. py \in Seq(UnitOf(n)) /\ q \in Seq(UnitOf(n)) /\ s = py \o q
    BY <1>0, <1>1
  <2> HIDE DEF s, py
  <2>3. QED
    BY <2>1, <2>2, ZenonT(60)
<1>3. /\ r \in Seq(UnitOf(n)) /\ Len(r) = Len(p) + Len(q)
      /\ \A i \in 1..(Len(p) + Len(q)) : r[i] = IF i <= Len(p) THEN p[i] ELSE q[i - Len(p)]
  BY <1>0, ConcatProperties, ZenonT(60)
<1>4. Len(p) \in Nat /\ Len(y) \in Nat /\ Len(q) \in Nat /\ EndsCut(s)
  BY <1>0
<1> HIDE DEF s, py, r
<1>5. ASSUME NEW i \in 1..(Len(r) - 1)
      PROVE  r[i + 1][2] = 1 \/ r[i + 1] = <<r[i][1], r[i][2] + 1>>
  <2>1. i \in Nat /\ i \in 1..(Len(p) + Len(q)) /\ i + 1 \in 1..(Len(p) + Len(q))
    BY <1>3, <1>4
  <2>2. CASE i < Len(p)
    <3>1. r[i] = p[i] /\ r[i + 1] = p[i + 1]
      BY <1>3, <1>4, <2>1, <2>2
    <3>2. py[i] = p[i] /\ py[i + 1] = p[i + 1]
      BY <1>1, <1>4, <2>1, <2>2
    <3>3. s[i] = py[i] /\ s[i + 1] = py[i + 1] /\ i \in 1..(Len(s) - 1)
      BY <1>1, <1>2, <1>4, <2>1, <2>2
    <3>4. QED
      BY <1>4, <3>1, <3>2, <3>3 DEF EndsCut
  <2>3. CASE i = Len(p)
    <3>1. r[i + 1] = q[1] /\ q # << >>
      BY <1>0, <1>3, <1>4, <2>1, <2>3, EmptySeq
    <3>2. QED
      BY <1>0, <3>1
  <2>4. CASE i > Len(p)
    <3> DEFINE j == i + Len(y)
    <3>1. /\ j \in 1..(Len(s) - 1) /\ j \in 1..(Len(py) + Len(q)) /\ j + 1 \in 1..(Len(py) + Len(q))
          /\ ~(j <= Len(py)) /\ ~(j + 1 <= Len(py))
          /\ j - Len(py) = i - Len(p) /\ (j + 1) - Len(py) = (i + 1) - Len(p)
      BY <1>1, <1>2, <1>3, <1>4, <2>1, <2>4
    <3> HIDE DEF j
    <3>2. s[j] = q[i - Len(p)] /\ s[j + 1] = q[(i + 1) - Len(p)]
      BY <1>2, <3>1
    <3>3. r[i] = q[i - Len(p)] /\ r[i + 1] = q[(i + 1) - Len(p)]
      BY <1>3, <1>4, <2>1, <2>4
    <3>4. QED
      BY <1>4, <3>1, <3>2, <3>3 DEF EndsCut
  <2>5. QED
    BY <1>4, <2>1, <2>2, <2>3, <2>4
<1>6. QED
  BY <1>5 DEF EndsCut, r

(* The beginning is taken away. *)
LEMMA EndsCutRest ==
    ASSUME NEW n \in Nat, NEW m \in Seq(UnitOf(n)), NEW r \in Seq(UnitOf(n)), EndsCut(m \o r)
    PROVE  EndsCut(r)
<1> DEFINE s == m \o r
<1>1. /\ s \in Seq(UnitOf(n)) /\ Len(s) = Len(m) + Len(r)
      /\ \A i \in 1..(Len(m) + Len(r)) : s[i] = IF i <= Len(m) THEN m[i] ELSE r[i - Len(m)]
  BY ConcatProperties, ZenonT(60)
<1>2. Len(m) \in Nat /\ Len(r) \in Nat /\ EndsCut(s)
  OBVIOUS
<1> HIDE DEF s
<1>3. ASSUME NEW i \in 1..(Len(r) - 1)
      PROVE  r[i + 1][2] = 1 \/ r[i + 1] = <<r[i][1], r[i][2] + 1>>
  <2> DEFINE j == i + Len(m)
  <2>1. /\ j \in 1..(Len(s) - 1) /\ j \in 1..(Len(m) + Len(r)) /\ j + 1 \in 1..(Len(m) + Len(r))
        /\ ~(j <= Len(m)) /\ ~(j + 1 <= Len(m)) /\ j - Len(m) = i /\ (j + 1) - Len(m) = i + 1
    BY <1>1, <1>2
  <2> HIDE DEF j
  <2>2. s[j] = r[i] /\ s[j + 1] = r[i + 1]
    BY <1>1, <2>1
  <2>3. QED
    BY <1>2, <2>1, <2>2 DEF EndsCut
<1>4. QED
  BY <1>3 DEF EndsCut

(* Two that begin with a message, one behind the other, and a queue of     *)
(* such items.                                                             *)
LEMMA BegunCat ==
    ASSUME NEW n \in Nat, NEW a \in Begun(n), NEW b \in Begun(n)
    PROVE  a \o b \in Begun(n)
<1>1. a \in Seq(UnitOf(n)) /\ b \in Seq(UnitOf(n))
  BY DEF Begun
<1>2. a \o b \in Seq(UnitOf(n))
  BY <1>1, Cat
<1>3. CASE a = << >>
  <2>1. a \o b = b
    BY <1>1, <1>3, Cat
  <2>2. QED
    BY <2>1
<1>4. CASE a # << >>
  <2>1. 1 \in 1..Len(a) /\ Len(a) \in Nat /\ Len(b) \in Nat
    BY <1>1, <1>4, EmptySeq
  <2>2. (a \o b)[1] = a[1]
    BY <1>1, <2>1, ConcatProperties
  <2>3. QED
    BY <1>2, <1>4, <2>2 DEF Begun
<1>5. QED
  BY <1>3, <1>4

LEMMA BegunFlatten ==
    ASSUME NEW n \in Nat, NEW q \in Seq(Begun(n))
    PROVE  FlattenSeq(q) \in Begun(n)
<1>0. q \in Seq(Seq(UnitOf(n))) /\ Len(q) \in Nat /\ \A i \in 1..Len(q) : q[i] \in Begun(n)
  <2>1. Begun(n) \subseteq Seq(UnitOf(n))
    BY DEF Begun
  <2>2. QED
    BY <2>1
<1>1. CASE q = << >>
  BY <1>1, FlattenEmpty, Cat DEF Begun
<1>2. CASE q # << >>
  <2>1. PICK f : Joins(f, q) /\ FlattenSeq(q) = f[Len(q)]
    BY <1>0, <1>2, FlattenDef
  <2> DEFINE T == {0} \cup {i \in 1..Len(q) : f[i] \in Begun(n)}
  <2>2. ASSUME NEW k \in 0..Len(q), k + 1 \in 0..Len(q), k \in T
        PROVE  k + 1 \in T
    <3>1. k + 1 \in 1..Len(q) /\ (k + 1) - 1 = k
      BY <1>0, <2>2
    <3>a. f[k + 1] = IF k + 1 = 1 THEN q[1] ELSE f[k] \o q[k + 1]
      BY <2>1, <3>1 DEF Joins
    <3>2. CASE k = 0
      <4>1. k + 1 = 1
        BY <3>2
      <4>2. f[k + 1] = q[1] /\ 1 \in 1..Len(q)
        BY <3>1, <3>a, <4>1
      <4>3. f[k + 1] \in Begun(n)
        BY <1>0, <4>2
      <4>4. QED
        BY <3>1, <4>3
    <3>3. CASE k # 0
      <4>0. k + 1 # 1
        BY <2>2, <3>3
      <4>1. f[k + 1] = f[k] \o q[k + 1]
        BY <3>a, <4>0
      <4>2. f[k] \in Begun(n) /\ q[k + 1] \in Begun(n)
        BY <1>0, <2>2, <3>1, <3>3
      <4>3. f[k + 1] \in Begun(n)
        BY <4>1, <4>2, BegunCat
      <4>4. QED
        BY <3>1, <4>3
    <3>4. QED
      BY <3>2, <3>3
  <2>3. 0..Len(q) \subseteq T
    <3>1. 0 \in T
      OBVIOUS
    <3> HIDE DEF T
    <3>2. QED
      BY <1>0, <2>2, <3>1, Climb
  <2>4. Len(q) \in 0..Len(q) /\ Len(q) # 0
    BY <1>0, <1>2, EmptySeq
  <2>5. Len(q) \in T
    BY <2>3, <2>4
  <2>6. QED
    BY <2>1, <2>4, <2>5
<1>3. QED
  BY <1>1, <1>2

(* The smaller and the larger of two numbers. *)
LEMMA MinIs ==
    ASSUME NEW a \in Int, NEW b \in Int
    PROVE  Min({a, b}) = IF a <= b THEN a ELSE b
BY DEF Min

LEMMA MaxIs ==
    ASSUME NEW a \in Int, NEW b \in Int
    PROVE  Max({a, b}) = IF a >= b THEN a ELSE b
BY DEF Max

-----------------------------------------------------------------------------
(* Moving data along a chain of queues.                                    *)

(* Two neighbours, behind p, exchange data: the first, which is empty,     *)
(* takes the beginning of the second ...                                   *)
LEMMA PassToEmpty ==
    ASSUME NEW S
    PROVE  \A p, x, y \in Seq(S) : (p \o << >>) \o (x \o y) = (p \o x) \o y
<1> TAKE p, x, y \in Seq(S)
<1>1. \A a, b, c \in Seq(S) : (a \o b) \o c = a \o (b \o c)
  BY Cat
<1>2. p \o << >> = p
  BY Cat
<1>3. (p \o x) \o y = p \o (x \o y)
  BY <1>1, Zenon
<1>4. QED
  BY <1>2, <1>3, Zenon

(* ... or all of it. *)
LEMMA PassAll ==
    ASSUME NEW S
    PROVE  \A p, u, x \in Seq(S) : (p \o u) \o x = (p \o (u \o x)) \o << >>
<1> TAKE p, u, x \in Seq(S)
<1>1. \A a, b, c \in Seq(S) : (a \o b) \o c = a \o (b \o c)
  BY Cat
<1>2. \A a, b \in Seq(S) : a \o b \in Seq(S)
  BY Cat
<1>3. \A a \in Seq(S) : a \o << >> = a
  BY Cat
<1>4. (p \o u) \o x = p \o (u \o x)
  BY <1>1, Zenon
<1>5. p \o (u \o x) \in Seq(S)
  BY <1>2, Zenon
<1>6. (p \o (u \o x)) \o << >> = p \o (u \o x)
  BY <1>3, <1>5, Zenon
<1>7. QED
  BY <1>4, <1>6, Zenon

(* A sequence is cut in two. *)
LEMMA Cut ==
    ASSUME NEW S, NEW s \in Seq(S), NEW n \in Nat, n <= Len(s)
    PROVE  /\ SubSeq(s, 1, n) \in Seq(S) /\ Len(SubSeq(s, 1, n)) = n
           /\ SubSeq(s, n + 1, Len(s)) \in Seq(S)
           /\ SubSeq(s, 1, n) \o SubSeq(s, n + 1, Len(s)) = s
<1>1. Len(s) \in Nat /\ \A i \in 1..Len(s) : s[i] \in S
  BY LenProperties
<1>2. SubSeq(s, 1, n) \in Seq(S) /\ Len(SubSeq(s, 1, n)) = n
  <2>1. \A i \in 1..n : s[i] \in S
    BY <1>1
  <2>2. /\ SubSeq(s, 1, n) \in Seq(S)
        /\ Len(SubSeq(s, 1, n)) = IF 1 <= n THEN n - 1 + 1 ELSE 0
    BY <2>1, SubSeqProperties
  <2>3. QED
    BY <2>2
<1>3. SubSeq(s, n + 1, Len(s)) \in Seq(S)
  <2>1. \A i \in (n + 1)..Len(s) : s[i] \in S
    BY <1>1
  <2>2. n + 1 \in Int /\ Len(s) \in Int
    BY <1>1
  <2>3. QED
    BY <2>1, <2>2, SubSeqProperties
<1>4. 1 \in 1..(Len(s) + 1) /\ n \in (1 - 1)..Len(s) /\ Len(s) \in n..Len(s)
  BY <1>1
<1>5. SubSeq(s, 1, n) \o SubSeq(s, n + 1, Len(s)) = SubSeq(s, 1, Len(s))
  BY <1>4, ConcatAdjacentSubSeq
<1>6. SubSeq(s, 1, Len(s)) = s
  BY SubSeqFull
<1>7. QED
  BY <1>2, <1>3, <1>5, <1>6, Zenon

(* The first unit of a queue. *)
LEMMA HeadFirst ==
    ASSUME NEW S, NEW s \in Seq(S), s # << >>
    PROVE  Head(s) \in S /\ <<Head(s)>> \in Seq(S) /\ Tail(s) \in Seq(S) /\ <<Head(s)>> \o Tail(s) = s
<1>1. Head(s) \in S /\ Tail(s) \in Seq(S) /\ Len(s) \in Nat \ {0}
  BY HeadTailProperties, EmptySeq
<1>2. 1 <= Len(s) /\ 1 \in Nat
  BY <1>1
<1>3. SubSeq(s, 1, 1) \o SubSeq(s, 1 + 1, Len(s)) = s
  BY <1>2, Cut
<1>4. Tail(s) = SubSeq(s, 2, Len(s)) /\ Head(s) = s[1]
  OBVIOUS
<1>5. SubSeq(s, 1, 1) = <<s[1]>>
  <2>1. SubSeq(s, 1, 1) \in Seq(S) /\ Len(SubSeq(s, 1, 1)) = 1
    BY <1>2, Cut
  <2>2. SubSeq(s, 1, 1)[1] = s[1]
    BY <1>1
  <2>3. <<s[1]>> \in Seq(S) /\ Len(<<s[1]>>) = 1 /\ <<s[1]>>[1] = s[1]
    BY <1>1, <1>4
  <2>4. \A i \in 1..1 : SubSeq(s, 1, 1)[i] = <<s[1]>>[i]
    BY <2>2, <2>3
  <2>5. QED
    BY <2>1, <2>3, <2>4, SeqEqual
<1>6. <<s[1]>> \in Seq(S)
  BY <1>1, <1>4
<1>7. QED
  BY <1>1, <1>3, <1>4, <1>5, <1>6

-----------------------------------------------------------------------------
(* Types, finer than TypeOK: which units travel in which direction, and    *)
(* what the relay holds.                                                   *)

Req == UnitOf(ReqLen)
Resp == UnitOf(RespLen)

CtlType ==
    /\ tag \in [Tags -> {"idle", "sent"}]
    /\ sock \in {"listening", "connected", "closed", "expired"}
    /\ disp \in {"read", "done"} /\ jobs \subseteq Tags
    /\ conn \in BOOLEAN /\ cut \in BOOLEAN

RelayType ==
    /\ relay \in [pc : {"accept", "select", "send", "write", "done"}, buf : Seq(Req) \cup Seq(Resp)]
    /\ relay.pc = "send" => relay.buf \in Seq(Req)
    /\ relay.pc = "write" => relay.buf \in Seq(Resp)
    /\ relay.pc \notin {"send", "write"} => relay.buf = << >>

UpType ==
    /\ up \in Seq(Req) /\ item \in Seq(Req) /\ rbuf \in Seq(Req)
    /\ chan \in Seq(Seq(Req)) /\ upnet \in Seq(Seq(Req))
    /\ Len(chan) <= ChanCap /\ Len(upnet) <= NetCap

DownType ==
    /\ kbuf \in Seq(Resp) /\ down \in Seq(Resp)
    /\ dnchan \in Seq(Seq(Resp)) /\ dnnet \in Seq(Seq(Resp))
    /\ Len(down) <= SockCap /\ Len(dnchan) <= 1 /\ Len(dnnet) <= NetCap
    /\ Len(kbuf) < RespLen

Types == CtlType /\ RelayType /\ UpType /\ DownType

(* The finer types imply the invariant of the run. *)
LEMMA TypesTypeOK == ASSUME Types PROVE TypeOK
<1>1. \A n \in {ReqLen, RespLen} : UnitOf(n) \subseteq Unit
  <2>1. ReqLen \in Nat /\ RespLen \in Nat
    BY BoundAssumption
  <2>2. Max({ReqLen, RespLen}) \in Nat /\ ReqLen <= Max({ReqLen, RespLen}) /\ RespLen <= Max({ReqLen, RespLen})
    BY <2>1, MaxIs
  <2>3. \A n \in {ReqLen, RespLen} : 1..n \subseteq 1..Max({ReqLen, RespLen})
    BY <2>1, <2>2
  <2>4. QED
    BY <2>3 DEF UnitOf, Unit
<1>2. Seq(Req) \subseteq Seq(Unit) /\ Seq(Resp) \subseteq Seq(Unit)
  BY <1>1 DEF Req, Resp
<1>3. \A s \in {kbuf, up, down, relay.buf, item, rbuf} : s \in Seq(Unit)
  BY <1>2 DEF Types, UpType, DownType, RelayType
<1>4. \A q \in {chan, upnet, dnchan, dnnet} : \A i \in DOMAIN q : q[i] \in Seq(Unit)
  <2>1. \A q \in Seq(Seq(Req)) \cup Seq(Seq(Resp)) : \A i \in DOMAIN q : q[i] \in Seq(Unit)
    <3> SUFFICES ASSUME NEW q \in Seq(Seq(Req)) \cup Seq(Seq(Resp)), NEW i \in DOMAIN q
                 PROVE  q[i] \in Seq(Unit)
      OBVIOUS
    <3>1. q[i] \in Seq(Req) \cup Seq(Resp)
      OBVIOUS
    <3>2. QED
      BY <1>2, <3>1
  <2>2. QED
    BY <2>1 DEF Types, UpType, DownType
<1>5. relay.pc \in {"accept", "select", "send", "write", "done"}
  BY DEF Types, RelayType
<1>6. QED
  BY <1>3, <1>4, <1>5 DEF Types, CtlType, UpType, DownType, TypeOK

LEMMA TypesInit == ASSUME Init PROVE Types
<1>1. \A S : << >> \in Seq(S) /\ Len(<< >>) = 0
  BY EmptySeq
<1>2. UpType
  BY <1>1, BoundAssumption DEF Init, UpType
<1>3. DownType
  BY <1>1, BoundAssumption DEF Init, DownType
<1>4. RelayType
  BY <1>1 DEF Init, RelayType
<1>5. CtlType
  BY DEF Init, CtlType
<1>6. QED
  BY <1>2, <1>3, <1>4, <1>5 DEF Types

(* A unit's tag. *)
LEMMA UnitTag ==
    ASSUME NEW n, NEW s \in Seq(UnitOf(n)), s # << >>
    PROVE  s[1] \in UnitOf(n) /\ s[1][1] \in Tags
<1>1. s[1] \in UnitOf(n)
  BY EmptySeq
<1>2. QED
  BY <1>1 DEF UnitOf

(* Every step keeps the types and the bounds of the queues. *)
LEMMA TypesStep == ASSUME Types, [Next]_vars PROVE Types'
<1> USE DEF Types
<1>0. \A S : << >> \in Seq(S) /\ Len(<< >>) = 0
  BY EmptySeq
<1>a. /\ ReqLen \in Nat \ {0} /\ RespLen \in Nat \ {0} /\ Chunk \in Nat \ {0}
      /\ ChanCap \in Nat \ {0} /\ NetCap \in Nat \ {0} /\ SockCap \in Nat \ {0}
  BY BoundAssumption
<1>1. CASE UNCHANGED vars
  BY <1>1 DEF vars, CtlType, RelayType, UpType, DownType
<1>2. CASE Accept \/ AcceptTimesOut \/ KernelCloses
  BY <1>2 DEF Accept, AcceptTimesOut, KernelCloses, upvars, dnvars, CtlType, RelayType, UpType, DownType
<1>3. ASSUME NEW t \in Tags, KernelSends(t) PROVE Types'
  <2>1. Msg(t, ReqLen) \in Seq(Req)
    BY <1>a, MsgIs DEF Req
  <2>2. up' \in Seq(Req)
    BY <1>3, <2>1, ConcatProperties DEF KernelSends, UpType
  <2>3. UpType' /\ DownType'
    BY <1>3, <2>2 DEF KernelSends, dnvars, UpType, DownType
  <2>4. CtlType'
    BY <1>3 DEF KernelSends, CtlType
  <2>5. RelayType'
    BY <1>3 DEF KernelSends, RelayType
  <2>6. QED
    BY <2>3, <2>4, <2>5
<1>4. CASE KernelReads
  <2> DEFINE b == Append(kbuf, Head(down))
  <2>1. /\ Head(down) \in Resp /\ Tail(down) \in Seq(Resp) /\ Len(Tail(down)) = Len(down) - 1
    BY <1>4, HeadTailProperties DEF KernelReads, DownType
  <2>2. b \in Seq(Resp) /\ b # << >>
    BY <2>1, AppendProperties DEF DownType
  <2>3. b[1][1] \in Tags
    BY <2>2, UnitTag DEF Resp
  <2>4. CtlType'
    BY <1>4, <2>3 DEF KernelReads, CtlType
  <2>5. RelayType' /\ UpType'
    BY <1>4 DEF KernelReads, upvars, RelayType, UpType
  <2>6. kbuf' \in Seq(Resp) /\ Len(kbuf') < RespLen
    <3>1. kbuf' = IF Len(b) < RespLen THEN b ELSE << >>
      BY <1>4 DEF KernelReads
    <3> HIDE DEF b
    <3>2. QED
      BY <1>0, <1>a, <2>2, <3>1
  <2>7. DownType'
    BY <1>4, <1>a, <2>1, <2>6 DEF KernelReads, DownType
  <2>8. QED
    BY <2>4, <2>5, <2>7
<1>5. CASE RelayGetsStream \/ RelayAtEof \/ RelayInputEnds
  <2>1. RelayType'
    BY <1>5 DEF RelayGetsStream, RelayAtEof, RelayInputEnds, RelayType
  <2>2. CtlType' /\ UpType' /\ DownType'
    BY <1>5 DEF RelayGetsStream, RelayAtEof, RelayInputEnds, upvars, dnvars, CtlType, UpType, DownType
  <2>3. QED
    BY <2>1, <2>2
<1>6. ASSUME NEW n \in 1..Chunk, RelayReads(n) PROVE Types'
  <2>1. SubSeq(up, 1, n) \in Seq(Req) /\ SubSeq(up, n + 1, Len(up)) \in Seq(Req)
    BY <1>6, <1>a, Cut DEF RelayReads, UpType
  <2>2. RelayType'
    BY <1>6, <2>1 DEF RelayReads, RelayType
  <2>3. CtlType' /\ UpType' /\ DownType'
    BY <1>6, <2>1 DEF RelayReads, dnvars, CtlType, UpType, DownType
  <2>4. QED
    BY <2>2, <2>3
<1>7. CASE RelaySends
  <2>1. RelayType'
    <3>1. relay' = [pc |-> "select", buf |-> << >>] \/ relay' = [pc |-> "done", buf |-> << >>]
      BY <1>7 DEF RelaySends
    <3>2. relay'.buf = << >> /\ relay'.pc \in {"select", "done"}
      BY <3>1
    <3>3. << >> \in Seq(Req) \cup Seq(Resp)
      BY <1>0, Zenon
    <3>a. \A B : << >> \in B => relay' \in [pc : {"accept", "select", "send", "write", "done"}, buf : B]
      BY <3>1
    <3>4. relay' \in [pc : {"accept", "select", "send", "write", "done"}, buf : Seq(Req) \cup Seq(Resp)]
      BY <3>3, <3>a, Zenon
    <3>5. QED
      BY <3>2, <3>4 DEF RelayType
  <2>2. CtlType' /\ DownType'
    BY <1>7 DEF RelaySends, dnvars, CtlType, DownType
  <2>3. chan' \in Seq(Seq(Req)) /\ Len(chan') <= ChanCap
    <3>1. chan \in Seq(Seq(Req)) /\ relay.buf \in Seq(Req) /\ Len(chan) <= ChanCap
      BY <1>7 DEF RelaySends, RelayType, UpType
    <3>2. Append(chan, relay.buf) \in Seq(Seq(Req)) /\ Len(Append(chan, relay.buf)) = Len(chan) + 1
      BY <3>1, AppendProperties
    <3>3. (chan' = Append(chan, relay.buf) /\ Len(chan) < ChanCap) \/ chan' = chan
      BY <1>7 DEF RelaySends
    <3>4. Len(chan) \in Nat
      BY <3>1
    <3>5. CASE chan' = Append(chan, relay.buf) /\ Len(chan) < ChanCap
      <4>1. chan' \in Seq(Seq(Req)) /\ Len(chan') = Len(chan) + 1
        BY <3>2, <3>5, Zenon
      <4>2. QED
        BY <1>a, <3>4, <3>5, <4>1
    <3>6. QED
      BY <3>1, <3>3, <3>5
  <2>4. UpType'
    BY <1>7, <2>3 DEF RelaySends, UpType
  <2>5. QED
    BY <2>1, <2>2, <2>4
<1>8. CASE RelayTakes
  <2>1. /\ Head(dnnet) \in Seq(Resp) /\ Tail(dnnet) \in Seq(Seq(Resp)) /\ Len(Tail(dnnet)) = Len(dnnet) - 1
    BY <1>8, HeadTailProperties DEF RelayTakes, DownType
  <2>2. RelayType'
    BY <1>8, <2>1 DEF RelayTakes, RelayType
  <2>3. CtlType' /\ UpType'
    BY <1>8 DEF RelayTakes, upvars, CtlType, UpType
  <2>4. DownType'
    BY <1>8, <1>a, <2>1 DEF RelayTakes, DownType
  <2>5. QED
    BY <2>2, <2>3, <2>4
<1>9. CASE RelayWrites
  <2>1. RelayType'
    <3>1. relay' = [pc |-> "select", buf |-> << >>] \/ relay' = [pc |-> "done", buf |-> << >>]
      BY <1>9 DEF RelayWrites
    <3>2. relay'.buf = << >> /\ relay'.pc \in {"select", "done"}
      BY <3>1
    <3>3. << >> \in Seq(Req) \cup Seq(Resp)
      BY <1>0, Zenon
    <3>a. \A B : << >> \in B => relay' \in [pc : {"accept", "select", "send", "write", "done"}, buf : B]
      BY <3>1
    <3>4. relay' \in [pc : {"accept", "select", "send", "write", "done"}, buf : Seq(Req) \cup Seq(Resp)]
      BY <3>3, <3>a, Zenon
    <3>5. QED
      BY <3>2, <3>4 DEF RelayType
  <2>2. CtlType' /\ UpType'
    BY <1>9 DEF RelayWrites, upvars, CtlType, UpType
  <2>3. down' \in Seq(Resp) /\ Len(down') <= SockCap
    <3>1. CASE sock = "connected" /\ Len(down) < SockCap
      <4> DEFINE k == Min({Len(relay.buf), SockCap - Len(down)})
                 x == SubSeq(relay.buf, 1, k)
      <4>1. relay.buf \in Seq(Resp) /\ down \in Seq(Resp)
        BY <1>9 DEF RelayWrites, RelayType, DownType
      <4>2. Len(relay.buf) \in Nat /\ Len(down) \in Nat
        BY <4>1
      <4>3. k \in Nat /\ k <= Len(relay.buf) /\ k <= SockCap - Len(down)
        <5>1. SockCap - Len(down) \in Nat
          BY <1>a, <3>1, <4>2
        <5>2. k = IF Len(relay.buf) <= SockCap - Len(down) THEN Len(relay.buf) ELSE SockCap - Len(down)
          BY <4>2, <5>1, MinIs
        <5> HIDE DEF k
        <5>3. QED
          BY <4>2, <5>1, <5>2
      <4> HIDE DEF k
      <4>4. x \in Seq(Resp) /\ Len(x) = k
        BY <4>1, <4>3, Cut
      <4>5. down' = down \o x
        BY <1>9, <3>1 DEF RelayWrites, k
      <4> HIDE DEF x
      <4>6. down' \in Seq(Resp) /\ Len(down') = Len(down) + k
        BY <4>1, <4>4, <4>5, ConcatProperties
      <4>7. QED
        BY <1>a, <4>2, <4>3, <4>6
    <3>2. CASE ~(sock = "connected" /\ Len(down) < SockCap)
      BY <1>9, <3>2 DEF RelayWrites, DownType
    <3>3. QED
      BY <3>1, <3>2
  <2>4. DownType'
    BY <1>9, <2>3 DEF RelayWrites, DownType
  <2>5. QED
    BY <2>1, <2>2, <2>4
<1>10. CASE TransmitUp
  <2>1. /\ Head(chan) \in Seq(Req) /\ Tail(chan) \in Seq(Seq(Req)) /\ Len(Tail(chan)) = Len(chan) - 1
    BY <1>10, HeadTailProperties DEF TransmitUp, UpType
  <2>2. upnet' \in Seq(Seq(Req)) /\ Len(upnet') <= NetCap
    BY <1>10, <1>a, <2>1, AppendProperties DEF TransmitUp, UpType
  <2>3. UpType'
    BY <1>10, <1>a, <2>1, <2>2 DEF TransmitUp, UpType
  <2>4. CtlType' /\ RelayType' /\ DownType'
    BY <1>10 DEF TransmitUp, dnvars, CtlType, RelayType, DownType
  <2>5. QED
    BY <2>3, <2>4
<1>11. CASE TransmitDown
  <2>1. /\ Head(dnchan) \in Seq(Resp) /\ Tail(dnchan) \in Seq(Seq(Resp)) /\ Len(Tail(dnchan)) = Len(dnchan) - 1
    BY <1>11, HeadTailProperties DEF TransmitDown, DownType
  <2>2. dnnet' \in Seq(Seq(Resp)) /\ Len(dnnet') <= NetCap
    BY <1>11, <1>a, <2>1, AppendProperties DEF TransmitDown, DownType
  <2>3. DownType'
    BY <1>11, <1>a, <2>1, <2>2 DEF TransmitDown, DownType
  <2>4. CtlType' /\ RelayType' /\ UpType'
    BY <1>11 DEF TransmitDown, upvars, CtlType, RelayType, UpType
  <2>5. QED
    BY <2>3, <2>4
<1>12. CASE Disconnect
  <2>1. UpType'
    BY <1>12, <1>0, <1>a DEF Disconnect, UpType
  <2>2. DownType'
    BY <1>12, <1>0, <1>a DEF Disconnect, DownType
  <2>3. CtlType' /\ RelayType'
    BY <1>12 DEF Disconnect, CtlType, RelayType
  <2>4. QED
    BY <2>1, <2>2, <2>3
<1>13. ASSUME NEW n \in 1..Chunk, DispatchReads(n) PROVE Types'
  <2>1. ASSUME item # << >>, n <= Len(item)
        PROVE  /\ SubSeq(item, 1, n) \in Seq(Req) /\ SubSeq(item, n + 1, Len(item)) \in Seq(Req)
               /\ rbuf \o SubSeq(item, 1, n) \in Seq(Req)
    <3>1. SubSeq(item, 1, n) \in Seq(Req) /\ SubSeq(item, n + 1, Len(item)) \in Seq(Req)
      BY <1>a, <2>1, Cut DEF UpType
    <3>2. QED
      BY <3>1, ConcatProperties DEF UpType
  <2>2. ASSUME upnet # << >>, n <= Len(Head(upnet))
        PROVE  /\ SubSeq(Head(upnet), 1, n) \in Seq(Req)
               /\ SubSeq(Head(upnet), n + 1, Len(Head(upnet))) \in Seq(Req)
               /\ rbuf \o SubSeq(Head(upnet), 1, n) \in Seq(Req)
               /\ Tail(upnet) \in Seq(Seq(Req)) /\ Len(Tail(upnet)) = Len(upnet) - 1
    <3>0. Head(upnet) \in Seq(Req) /\ Tail(upnet) \in Seq(Seq(Req)) /\ Len(Tail(upnet)) = Len(upnet) - 1
      BY <2>2, HeadTailProperties DEF UpType
    <3>1. SubSeq(Head(upnet), 1, n) \in Seq(Req) /\ SubSeq(Head(upnet), n + 1, Len(Head(upnet))) \in Seq(Req)
      BY <1>a, <2>2, <3>0, Cut
    <3>2. QED
      BY <3>0, <3>1, ConcatProperties DEF UpType
  <2>3. UpType'
    <3>1. CASE item # << >> /\ n <= Len(item) /\ UNCHANGED upnet
               /\ item' = SubSeq(item, n + 1, Len(item)) /\ rbuf' = rbuf \o SubSeq(item, 1, n)
      BY <1>13, <2>1, <3>1 DEF DispatchReads, UpType
    <3>2. CASE upnet # << >> /\ n <= Len(Head(upnet)) /\ upnet' = Tail(upnet)
               /\ item' = SubSeq(Head(upnet), n + 1, Len(Head(upnet)))
               /\ rbuf' = rbuf \o SubSeq(Head(upnet), 1, n)
      <4>1. upnet' \in Seq(Seq(Req)) /\ Len(upnet') <= NetCap
        BY <1>a, <2>2, <3>2 DEF UpType
      <4>2. item' \in Seq(Req) /\ rbuf' \in Seq(Req)
        BY <2>2, <3>2
      <4>3. QED
        BY <1>13, <4>1, <4>2 DEF DispatchReads, UpType
    <3>3. QED
      BY <1>13, <3>1, <3>2 DEF DispatchReads
  <2>4. CtlType' /\ RelayType' /\ DownType'
    BY <1>13 DEF DispatchReads, dnvars, CtlType, RelayType, DownType
  <2>5. QED
    BY <2>3, <2>4
<1>14. CASE DispatchSpawns
  <2>1. rbuf \in Seq(Req) /\ ReqLen <= Len(rbuf) /\ rbuf # << >>
    BY <1>14, <1>a DEF DispatchSpawns, UpType
  <2>2. SubSeq(rbuf, ReqLen + 1, Len(rbuf)) \in Seq(Req)
    BY <1>a, <2>1, Cut
  <2>3. rbuf[1][1] \in Tags
    BY <2>1, UnitTag DEF Req
  <2>4. CtlType'
    BY <1>14, <2>3 DEF DispatchSpawns, CtlType
  <2>5. UpType'
    BY <1>14, <2>2 DEF DispatchSpawns, UpType
  <2>6. RelayType' /\ DownType'
    BY <1>14 DEF DispatchSpawns, dnvars, RelayType, DownType
  <2>7. QED
    BY <2>4, <2>5, <2>6
<1>15. CASE DispatchEnds
  BY <1>15 DEF DispatchEnds, upvars, dnvars, CtlType, RelayType, UpType, DownType
<1>16. ASSUME NEW t \in Tags, TaskReplies(t) PROVE Types'
  <2>1. <<Msg(t, RespLen)>> \in Seq(Seq(Resp)) /\ Len(<<Msg(t, RespLen)>>) = 1
    BY <1>a, MsgIs DEF Resp
  <2>2. DownType'
    BY <1>16, <2>1 DEF TaskReplies, DownType
  <2>3. CtlType' /\ RelayType' /\ UpType'
    BY <1>16 DEF TaskReplies, upvars, CtlType, RelayType, UpType
  <2>4. QED
    BY <2>2, <2>3
<1>17. ASSUME NEW t \in Tags, TaskPanics(t) PROVE Types'
  BY <1>17 DEF TaskPanics, upvars, dnvars, CtlType, RelayType, UpType, DownType
<1>18. CASE RelayFails
  <2>1. RelayType'
    <3>1. relay' = [pc |-> "done", buf |-> << >>]
      BY <1>18 DEF RelayFails
    <3>2. relay'.buf = << >> /\ relay'.pc = "done"
      BY <3>1
    <3>3. << >> \in Seq(Req) \cup Seq(Resp)
      BY <1>0, Zenon
    <3>a. \A B : << >> \in B => relay' \in [pc : {"accept", "select", "send", "write", "done"}, buf : B]
      BY <3>1
    <3>4. relay' \in [pc : {"accept", "select", "send", "write", "done"}, buf : Seq(Req) \cup Seq(Resp)]
      BY <3>3, <3>a, Zenon
    <3>5. QED
      BY <3>2, <3>4 DEF RelayType
  <2>2. CtlType' /\ UpType' /\ DownType'
    BY <1>18 DEF RelayFails, upvars, dnvars, CtlType, UpType, DownType
  <2>3. QED
    BY <2>1, <2>2
<1>19. CASE DispatchFails
  BY <1>19 DEF DispatchFails, upvars, dnvars, CtlType, RelayType, UpType, DownType
<1>20. QED
  BY <1>1, <1>2, <1>3, <1>4, <1>5, <1>6, <1>7, <1>8, <1>9, <1>10, <1>11, <1>12, <1>13,
     <1>14, <1>15, <1>16, <1>17, <1>18, <1>19 DEF Next, KernelStep, RelayStep, DispatchStep

-----------------------------------------------------------------------------
(* What a step does to the messages that are on their way.                 *)

(* Every item on its way to the relay begins with a message. *)
BegunItems == dnchan \in Seq(Begun(RespLen)) /\ dnnet \in Seq(Begun(RespLen))

(* A write is short: what it leaves is lost. *)
Loses ==
    /\ cut'
    /\ \E p, y \in Seq(Resp), q \in Begun(RespLen) :
          Responses = (p \o y) \o q /\ Responses' = p \o q

(* Data moves, but not the whole. *)
Stays == UNCHANGED <<tag, jobs>> /\ Requests' = Requests /\ (Responses' = Responses \/ Loses)

(* The kernel sends a request. *)
Asks(t) ==
    /\ tag[t] = "idle" /\ tag' = [tag EXCEPT ![t] = "sent"]
    /\ Requests' = Requests \o Msg(t, ReqLen)
    /\ UNCHANGED jobs /\ Responses' = Responses

(* dispatch takes the oldest request. *)
Starts ==
    /\ \E m \in Seq(Req) :
          Len(m) = ReqLen /\ Requests = m \o Requests' /\ jobs' = jobs \cup {m[1][1]}
    /\ UNCHANGED tag /\ Responses' = Responses

(* A task of dispatch answers. *)
Replies(t) ==
    /\ t \in jobs /\ jobs' = jobs \ {t}
    /\ Responses' = Responses \o Msg(t, RespLen)
    /\ UNCHANGED tag /\ Requests' = Requests

(* The kernel has the oldest response. *)
Receives ==
    /\ \E m \in Seq(Resp) :
          /\ Len(m) = RespLen /\ Responses = m \o Responses'
          /\ tag' = [tag EXCEPT ![m[1][1]] = "idle"]
    /\ UNCHANGED jobs /\ Requests' = Requests

(* The parts of Requests and Responses. *)
LEMMA Parts ==
    ASSUME Types
    PROVE  /\ FlattenSeq(upnet) \in Seq(Req) /\ FlattenSeq(chan) \in Seq(Req)
           /\ Held("send") \in Seq(Req) /\ Requests \in Seq(Req)
           /\ FlattenSeq(dnnet) \in Seq(Resp) /\ FlattenSeq(dnchan) \in Seq(Resp)
           /\ Held("write") \in Seq(Resp) /\ Responses \in Seq(Resp)
<1>1. FlattenSeq(upnet) \in Seq(Req) /\ FlattenSeq(chan) \in Seq(Req)
  BY FlattenType DEF Types, UpType
<1>2. FlattenSeq(dnnet) \in Seq(Resp) /\ FlattenSeq(dnchan) \in Seq(Resp)
  BY FlattenType DEF Types, DownType
<1>3. Held("send") \in Seq(Req) /\ Held("write") \in Seq(Resp)
  BY EmptySeq DEF Types, RelayType, Held
<1>4. Requests \in Seq(Req)
  <2>1. \A a, b \in Seq(Req) : a \o b \in Seq(Req)
    BY Cat
  <2>2. QED
    BY <1>1, <1>3, <2>1, Zenon DEF Types, UpType, Requests
<1>5. Responses \in Seq(Resp)
  <2>1. \A a, b \in Seq(Resp) : a \o b \in Seq(Resp)
    BY Cat
  <2>2. QED
    BY <1>2, <1>3, <2>1, Zenon DEF Types, DownType, Responses
<1>6. QED
  BY <1>1, <1>2, <1>3, <1>4, <1>5

(* One queue after the other in each direction: a message is added at the  *)
(* end, taken from the beginning, and in between it is passed on.          *)
LEMMA Flow ==
    ASSUME Types, BegunItems, [Next]_vars, Live'
    PROVE  Live /\ (Stays \/ Starts \/ Receives \/ \E t \in Tags : Asks(t) \/ Replies(t))
<1> DEFINE Goal == Live /\ (Stays \/ Starts \/ Receives \/ \E t \in Tags : Asks(t) \/ Replies(t))
           Fu == FlattenSeq(upnet)
           Fc == FlattenSeq(chan)
           Hs == Held("send")
           Hw == Held("write")
           Fn == FlattenSeq(dnnet)
           Fd == FlattenSeq(dnchan)
<1>a. /\ Fu \in Seq(Req) /\ Fc \in Seq(Req) /\ Hs \in Seq(Req) /\ Requests \in Seq(Req)
      /\ Fn \in Seq(Resp) /\ Fd \in Seq(Resp) /\ Hw \in Seq(Resp) /\ Responses \in Seq(Resp)
  BY Parts
<1>b. /\ up \in Seq(Req) /\ item \in Seq(Req) /\ rbuf \in Seq(Req)
      /\ chan \in Seq(Seq(Req)) /\ upnet \in Seq(Seq(Req))
      /\ kbuf \in Seq(Resp) /\ down \in Seq(Resp)
      /\ dnchan \in Seq(Seq(Resp)) /\ dnnet \in Seq(Seq(Resp))
      /\ Len(kbuf) < RespLen
  BY DEF Types, UpType, DownType
<1>c. /\ ReqLen \in Nat \ {0} /\ RespLen \in Nat \ {0} /\ Chunk \in Nat \ {0} /\ SockCap \in Nat \ {0}
  BY BoundAssumption
<1>d. conn' = TRUE /\ relay'.pc # "done" /\ conn \in BOOLEAN
  BY DEF Live, Types, CtlType
<1>e1. \A S : << >> \in Seq(S) /\ \A a, b \in Seq(S) : a \o b \in Seq(S)
  BY Cat
<1>e2. \A S : \A a \in Seq(S) : a \o << >> = a /\ << >> \o a = a
  BY Cat
<1>e3. \A a, b, c \in Seq(Req) : (a \o b) \o c = a \o (b \o c)
  BY Cat
<1>e4. \A a, b, c \in Seq(Resp) : (a \o b) \o c = a \o (b \o c)
  BY Cat
<1>s1. \A p, x, y \in Seq(Req) : (p \o << >>) \o (x \o y) = (p \o x) \o y
  BY PassToEmpty
<1>s2. \A p, u, x \in Seq(Req) : (p \o u) \o x = (p \o (u \o x)) \o << >>
  BY PassAll
<1>t1. \A p, x, y \in Seq(Resp) : (p \o << >>) \o (x \o y) = (p \o x) \o y
  BY PassToEmpty
<1>t2. \A p, u, x \in Seq(Resp) : (p \o u) \o x = (p \o (u \o x)) \o << >>
  BY PassAll
<1>m1. Fu \in Seq(Req)
  BY <1>a, Zenon
<1>m2. Fc \in Seq(Req)
  BY <1>a, Zenon
<1>m3. Hs \in Seq(Req)
  BY <1>a, Zenon
<1>m4. Hw \in Seq(Resp)
  BY <1>a, Zenon
<1>m5. Fn \in Seq(Resp)
  BY <1>a, Zenon
<1>m6. Fd \in Seq(Resp)
  BY <1>a, Zenon
<1>m7. up \in Seq(Req)
  BY <1>b, Zenon
<1>m8. rbuf \in Seq(Req)
  BY <1>b, Zenon
<1>m9. kbuf \in Seq(Resp) /\ down \in Seq(Resp)
  BY <1>b, Zenon
<1>f. Requests = ((((rbuf \o item) \o Fu) \o Fc) \o Hs) \o up
  BY DEF Requests
<1>g. Requests' = ((((rbuf' \o item') \o Fu') \o Fc') \o Hs') \o up'
  BY DEF Requests
<1>h. Responses = (((kbuf \o down) \o Hw) \o Fn) \o Fd
  BY DEF Responses
<1>i. Responses' = (((kbuf' \o down') \o Hw') \o Fn') \o Fd'
  BY DEF Responses
<1>j. ASSUME UNCHANGED <<rbuf, item, upnet, chan, up>>, Hs' = Hs PROVE Requests' = Requests
  BY <1>j, <1>f, <1>g, Zenon
<1>k. ASSUME UNCHANGED <<kbuf, down, dnnet, dnchan>>, Hw' = Hw PROVE Responses' = Responses
  BY <1>k, <1>h, <1>i, Zenon
<1>1. CASE UNCHANGED vars
  <2>1. Live /\ UNCHANGED <<tag, jobs>>
    BY <1>1 DEF vars, Live
  <2>2. Requests' = Requests /\ Responses' = Responses
    BY <1>1, <1>j, <1>k DEF vars, Held
  <2>3. QED
    BY <2>1, <2>2 DEF Stays
<1>2. CASE Accept \/ AcceptTimesOut \/ KernelCloses
  <2>1. Live /\ UNCHANGED <<tag, jobs>>
    BY <1>2, <1>d DEF Accept, AcceptTimesOut, KernelCloses, Live
  <2>2. Requests' = Requests /\ Responses' = Responses
    BY <1>2, <1>j, <1>k DEF Accept, AcceptTimesOut, KernelCloses, upvars, dnvars, Held
  <2>3. QED
    BY <2>1, <2>2 DEF Stays
<1>3. ASSUME NEW t \in Tags, KernelSends(t) PROVE Goal
  <2> DEFINE m == Msg(t, ReqLen)
             q == (((rbuf \o item) \o Fu) \o Fc) \o Hs
  <2>1. Live /\ UNCHANGED jobs /\ tag[t] = "idle" /\ tag' = [tag EXCEPT ![t] = "sent"]
    BY <1>3, <1>d DEF KernelSends, Live
  <2>2. Responses' = Responses
    BY <1>3, <1>k DEF KernelSends, dnvars, Held
  <2>3. m \in Seq(Req) /\ q \in Seq(Req)
    <3>1. m \in Seq(Req)
      BY <1>c, MsgIs DEF Req
    <3>2. QED
      BY <1>a, <1>b, <1>e1, <3>1, Zenon
  <2>4. Requests' = q \o (up \o m) /\ Requests = q \o up
    BY <1>3, <1>f, <1>g DEF KernelSends, Held
  <2>5. Requests' = Requests \o m
    <3> HIDE DEF q, m
    <3>1. (q \o up) \o m = q \o (up \o m)
      BY <1>m7, <1>e3, <2>3, Zenon
    <3>2. QED
      BY <2>4, <3>1, Zenon
  <2>6. QED
    BY <2>1, <2>2, <2>5 DEF Asks
<1>4. CASE KernelReads
  <2> DEFINE h == <<Head(down)>>
             b == kbuf \o h
             r == (Hw \o Fn) \o Fd
  <2>1. /\ h \in Seq(Resp) /\ Tail(down) \in Seq(Resp) /\ down = h \o Tail(down)
        /\ Append(kbuf, Head(down)) = b /\ b \in Seq(Resp) /\ Len(b) = Len(kbuf) + 1
    <3>1. /\ Head(down) \in Resp /\ h \in Seq(Resp) /\ Tail(down) \in Seq(Resp)
          /\ h \o Tail(down) = down
      BY <1>4, <1>b, HeadFirst DEF KernelReads
    <3>2. Append(kbuf, Head(down)) = b
      BY <1>b, <3>1, AppendIsConcat
    <3>3. b \in Seq(Resp) /\ Len(b) = Len(kbuf) + Len(h) /\ Len(h) = 1
      BY <1>b, <3>1, ConcatProperties
    <3>4. QED
      BY <3>1, <3>2, <3>3, Zenon
  <2> HIDE DEF h
  <2>2. Live /\ Requests' = Requests /\ UNCHANGED jobs
    BY <1>4, <1>d, <1>j DEF KernelReads, upvars, Held, Live
  <2>3. Hw' = Hw /\ Fn' = Fn /\ Fd' = Fd /\ down' = Tail(down)
    BY <1>4 DEF KernelReads, Held
  <2>4. Responses = ((((kbuf \o (h \o Tail(down))) \o Hw) \o Fn) \o Fd)
    BY <1>h, <2>1, Zenon
  <2>5. kbuf \o (h \o Tail(down)) = b \o Tail(down)
    <3>1. (kbuf \o h) \o Tail(down) = kbuf \o (h \o Tail(down))
      <4>1. h \in Seq(Resp) /\ Tail(down) \in Seq(Resp)
        BY <2>1, Zenon
      <4>2. QED
        BY <1>m9, <1>e4, <4>1, Zenon
    <3>2. QED
      BY <3>1, Zenon
  <2>6. Responses = ((((b \o Tail(down)) \o Hw) \o Fn) \o Fd)
    BY <2>4, <2>5, Zenon
  <2> HIDE DEF b
  <2>7. CASE Len(b) < RespLen
    <3>1. kbuf' = b /\ UNCHANGED tag
      BY <1>4, <2>1, <2>7 DEF KernelReads
    <3>2. Responses' = Responses
      BY <1>i, <2>3, <2>6, <3>1, Zenon
    <3>3. QED
      BY <2>2, <3>1, <3>2 DEF Stays
  <2>8. CASE ~(Len(b) < RespLen)
    <3>1. kbuf' = << >> /\ tag' = [tag EXCEPT ![b[1][1]] = "idle"]
      BY <1>4, <2>1, <2>8 DEF KernelReads
    <3>2. Len(b) = RespLen
      <4>1. Len(kbuf) \in Nat
        BY <1>b
      <4>2. Len(b) = Len(kbuf) + 1 /\ Len(kbuf) < RespLen
        BY <1>b, <2>1, Zenon
      <4>3. QED
        BY <1>c, <2>8, <4>1, <4>2
    <3>3. Responses' = ((Tail(down) \o Hw) \o Fn) \o Fd
      <4>1. Responses' = (((<< >> \o Tail(down)) \o Hw) \o Fn) \o Fd
        BY <1>i, <2>3, <3>1, Zenon
      <4>2. << >> \o Tail(down) = Tail(down)
        BY <1>e2, <2>1, Zenon
      <4>3. QED
        BY <4>1, <4>2, Zenon
    <3>4. Responses = b \o Responses'
      <4> DEFINE a == Tail(down) \o Hw
                 c == a \o Fn
      <4>0. b \in Seq(Resp) /\ Tail(down) \in Seq(Resp)
        BY <2>1, Zenon
      <4>b. b \in Seq(Resp)
        BY <4>0, Zenon
      <4>a. a \in Seq(Resp)
        BY <1>a, <1>e1, <4>0, Zenon
      <4>1. (b \o Tail(down)) \o Hw = b \o a
        BY <1>m4, <1>e4, <4>0, Zenon
      <4> HIDE DEF a
      <4>c. c \in Seq(Resp)
        BY <1>a, <1>e1, <4>a, Zenon
      <4>2. (b \o a) \o Fn = b \o c
        BY <1>m5, <1>e4, <4>b, <4>a, Zenon
      <4> HIDE DEF c
      <4>3. (b \o c) \o Fd = b \o (c \o Fd)
        BY <1>m6, <1>e4, <4>b, <4>c, Zenon
      <4>4. QED
        BY <2>6, <3>3, <4>1, <4>2, <4>3, Zenon DEF a, c
    <3>5. QED
      BY <2>1, <2>2, <3>1, <3>2, <3>4 DEF Receives
  <2>9. QED
    BY <2>7, <2>8
<1>5. CASE RelayGetsStream
  <2>1. Live /\ UNCHANGED <<tag, jobs>>
    BY <1>5, <1>d DEF RelayGetsStream, Live
  <2>2. Hs' = Hs /\ Hw' = Hw
    BY <1>5 DEF RelayGetsStream, Held, Types, RelayType
  <2>3. Requests' = Requests /\ Responses' = Responses
    BY <1>5, <1>j, <1>k, <2>2 DEF RelayGetsStream, upvars, dnvars
  <2>4. QED
    BY <2>1, <2>3 DEF Stays
<1>6. CASE RelayAtEof \/ RelayInputEnds \/ Disconnect
  BY <1>6, <1>d DEF RelayAtEof, RelayInputEnds, Disconnect, Types, RelayType
<1>7. ASSUME NEW n \in 1..Chunk, RelayReads(n) PROVE Goal
  <2> DEFINE x == SubSeq(up, 1, n)
             y == SubSeq(up, n + 1, Len(up))
             q == ((rbuf \o item) \o Fu) \o Fc
  <2>1. x \in Seq(Req) /\ y \in Seq(Req) /\ x \o y = up
    <3>1. n \in Nat /\ n <= Len(up) /\ up \in Seq(Req)
      BY <1>7, <1>b, <1>c DEF RelayReads
    <3>2. QED
      BY <3>1, Cut
  <2>2. Live /\ UNCHANGED <<tag, jobs>>
    BY <1>7, <1>d DEF RelayReads, Live
  <2>3. Hs = << >> /\ Hs' = x /\ Hw' = Hw /\ up' = y
    BY <1>7 DEF RelayReads, Held
  <2>4. Responses' = Responses
    BY <1>7, <1>k, <2>3 DEF RelayReads, dnvars
  <2>5. q \in Seq(Req)
    BY <1>a, <1>b, <1>e1, Zenon
  <2>6. Requests = (q \o << >>) \o up /\ Requests' = (q \o x) \o y
    <3>1. UNCHANGED <<rbuf, item, upnet, chan>>
      BY <1>7 DEF RelayReads
    <3> HIDE DEF x, y
    <3>2. QED
      BY <3>1, <1>f, <1>g, <2>3, Zenon
  <2>8. Requests' = Requests
    <3> HIDE DEF x, y, q
    <3>1. (q \o << >>) \o (x \o y) = (q \o x) \o y
      <4>1. x \in Seq(Req) /\ y \in Seq(Req)
        BY <2>1, Zenon
      <4>2. QED
        BY <1>s1, <2>5, <4>1, Zenon
    <3>2. QED
      BY <2>1, <2>6, <3>1, Zenon
  <2>9. QED
    BY <2>2, <2>4, <2>8 DEF Stays
<1>8. CASE RelaySends
  <2> DEFINE q == (rbuf \o item) \o Fu
  <2>1. conn /\ relay.pc = "send" /\ chan' = Append(chan, relay.buf) /\ relay' = [pc |-> "select", buf |-> << >>]
    BY <1>8, <1>d DEF RelaySends
  <2>2. Live /\ UNCHANGED <<tag, jobs>>
    BY <1>8, <2>1 DEF RelaySends, Live
  <2>3. Hs = relay.buf /\ Hs' = << >> /\ Hw' = Hw
    BY <2>1 DEF Held
  <2>4. Responses' = Responses
    BY <1>8, <1>k, <2>3 DEF RelaySends, dnvars
  <2>5. Fc' = Fc \o Hs
    BY <1>a, <1>b, <2>1, <2>3, FlattenAppend
  <2>6. q \in Seq(Req) /\ Fc \o Hs \in Seq(Req)
    BY <1>a, <1>b, <1>e1, Zenon
  <2>7. Requests = ((q \o Fc) \o Hs) \o up /\ Requests' = ((q \o (Fc \o Hs)) \o << >>) \o up
    <3>1. UNCHANGED <<rbuf, item, upnet, up>>
      BY <1>8 DEF RelaySends
    <3>2. QED
      BY <3>1, <1>f, <1>g, <2>3, <2>5, Zenon
  <2>9. (q \o Fc) \o Hs = (q \o (Fc \o Hs)) \o << >>
    <3> HIDE DEF q, Fc, Hs
    <3>1. QED
      <4>1. q \in Seq(Req)
        BY <2>6, Zenon
      <4>2. QED
        BY <1>m2, <1>m3, <1>s2, <4>1, Zenon
  <2>10. Requests' = Requests
    BY <2>7, <2>9, Zenon
  <2>11. QED
    BY <2>2, <2>4, <2>10 DEF Stays
<1>9. CASE RelayTakes
  <2> DEFINE h == Head(dnnet)
             Ft == FlattenSeq(Tail(dnnet))
             q == kbuf \o down
  <2>1. h \in Seq(Resp) /\ Tail(dnnet) \in Seq(Seq(Resp)) /\ Fn = h \o Ft
    BY <1>9, <1>b, FlattenTail DEF RelayTakes
  <2>2. Ft \in Seq(Resp)
    BY <2>1, FlattenType
  <2>3. Live /\ UNCHANGED <<tag, jobs>>
    BY <1>9, <1>d DEF RelayTakes, Live
  <2>4. Hs' = Hs /\ Hw = << >> /\ Hw' = h /\ Fn' = Ft
    BY <1>9 DEF RelayTakes, Held
  <2>5. Requests' = Requests
    BY <1>9, <1>j, <2>4 DEF RelayTakes, upvars
  <2>6. Responses = ((q \o << >>) \o Fn) \o Fd /\ Responses' = ((q \o h) \o Ft) \o Fd
    <3>1. UNCHANGED <<kbuf, down, dnchan>>
      BY <1>9 DEF RelayTakes
    <3> HIDE DEF h
    <3>2. QED
      BY <3>1, <1>h, <1>i, <2>4, Zenon
  <2>7. q \in Seq(Resp)
    BY <1>b, <1>e1, Zenon
  <2>8. (q \o << >>) \o Fn = (q \o h) \o Ft
    <3> HIDE DEF q, h, Ft, Fn
    <3>1. (q \o << >>) \o (h \o Ft) = (q \o h) \o Ft
      <4>1. h \in Seq(Resp)
        BY <2>1, Zenon
      <4>2. QED
        BY <1>t1, <2>2, <2>7, <4>1, Zenon
    <3>2. QED
      BY <2>1, <3>1, Zenon
  <2>9. Responses' = Responses
    BY <2>6, <2>8, Zenon
  <2>10. QED
    BY <2>3, <2>5, <2>9 DEF Stays
<1>10. CASE RelayWrites
  <2>1. /\ relay.pc = "write" /\ sock = "connected" /\ Len(down) < SockCap
        /\ down' = down \o SubSeq(relay.buf, 1, Min({Len(relay.buf), SockCap - Len(down)}))
        /\ relay' = [pc |-> "select", buf |-> << >>]
    <3>1. relay' # [pc |-> "done", buf |-> << >>]
      BY <1>d
    <3>2. QED
      BY <1>10, <3>1, Zenon DEF RelayWrites
  <2>2. Live /\ UNCHANGED <<tag, jobs>>
    BY <1>10, <1>d, <2>1 DEF RelayWrites, Live
  <2>3. Hs' = Hs /\ Hw = relay.buf /\ Hw' = << >>
    BY <2>1 DEF Held
  <2>4. Requests' = Requests
    BY <1>10, <1>j, <2>3 DEF RelayWrites, upvars
  <2>a. Len(Hw) \in Nat /\ Len(down) \in Nat
    <3>1. Hw \in Seq(Resp) /\ down \in Seq(Resp)
      BY <1>a, <1>b, Zenon
    <3> HIDE DEF Hw
    <3>2. QED
      BY <3>1, LenProperties
  <2>b. SockCap - Len(down) \in Nat
    BY <1>c, <2>1, <2>a
  <2>c. UNCHANGED <<kbuf, dnnet, dnchan>>
    BY <1>10 DEF RelayWrites
  <2>5. ASSUME Len(Hw) <= SockCap - Len(down) PROVE Responses' = Responses
    <3>1. Min({Len(Hw), SockCap - Len(down)}) = Len(Hw)
      BY <2>5, <2>a, <2>b, MinIs
    <3>2. down' = down \o Hw
      <4>1. SubSeq(Hw, 1, Len(Hw)) = Hw
        BY <1>a, SubSeqFull
      <4>2. down' = down \o SubSeq(Hw, 1, Len(Hw))
        BY <2>1, <2>3, <3>1, Zenon
      <4>3. QED
        BY <4>1, <4>2, Zenon
    <3>3. (kbuf \o down) \o Hw = (kbuf \o (down \o Hw)) \o << >>
      <4> HIDE DEF Hw
      <4>1. QED
        BY <1>m4, <1>m9, <1>t2, Zenon
    <3>4. QED
      BY <1>h, <1>i, <2>3, <2>c, <3>2, <3>3, Zenon
  <2>6. ASSUME ~(Len(Hw) <= SockCap - Len(down)) PROVE Loses
    <3> DEFINE k == SockCap - Len(down)
               x == SubSeq(Hw, 1, k)
               y == SubSeq(Hw, k + 1, Len(Hw))
               p == (kbuf \o down) \o x
               q == Fn \o Fd
    <3>1. k \in Nat /\ k <= Len(Hw) /\ Min({Len(Hw), k}) = k
      BY <2>6, <2>a, <2>b, MinIs
    <3>2. cut'
      <4>1. Len(relay.buf) > SockCap - Len(down)
        BY <2>3, <2>6, <2>a, <2>b
      <4>2. cut' = (cut \/ Len(relay.buf) > SockCap - Len(down))
        BY <1>10, <2>1 DEF RelayWrites
      <4>3. QED
        BY <4>1, <4>2, Zenon
    <3>3. down' = down \o x
      BY <2>1, <2>3, <3>1, Zenon
    <3> HIDE DEF k
    <3>4. x \in Seq(Resp) /\ y \in Seq(Resp) /\ x \o y = Hw
      <4> HIDE DEF Hw
      <4>1. QED
        BY <1>m4, <3>1, Cut
    <3> HIDE DEF x, y
    <3>5. q \in Begun(RespLen)
      <4>1. Fn \in Begun(RespLen) /\ Fd \in Begun(RespLen)
        BY <1>c, BegunFlatten DEF BegunItems
      <4> HIDE DEF Fn, Fd
      <4>2. QED
        BY <1>c, <4>1, BegunCat
    <3>6. p \in Seq(Resp)
      BY <1>e1, <1>m9, <3>4, Zenon
    <3>7. Responses = (p \o y) \o q
      <4> HIDE DEF Hw, Fn, Fd
      <4>1. kbuf \o down \in Seq(Resp)
        BY <1>e1, <1>m9, Zenon
      <4>2. p \o y = (kbuf \o down) \o Hw
        BY <1>e4, <3>4, <4>1, Zenon
      <4>3. p \o y \in Seq(Resp)
        BY <1>e1, <3>4, <3>6, Zenon
      <4>4. ((p \o y) \o Fn) \o Fd = (p \o y) \o (Fn \o Fd)
        BY <1>e4, <1>m5, <1>m6, <4>3, Zenon
      <4>5. QED
        BY <1>h, <4>2, <4>4, Zenon
    <3>8. Responses' = p \o q
      <4>1. Responses' = (((kbuf \o (down \o x)) \o << >>) \o Fn) \o Fd
        BY <1>i, <2>3, <2>c, <3>3, Zenon
      <4> HIDE DEF Hw, Fn, Fd
      <4>2. p = (kbuf \o (down \o x)) \o << >>
        BY <1>m9, <1>t2, <3>4, Zenon
      <4>3. (p \o Fn) \o Fd = p \o (Fn \o Fd)
        BY <1>e4, <1>m5, <1>m6, <3>6, Zenon
      <4>4. QED
        BY <4>1, <4>2, <4>3, Zenon
    <3> HIDE DEF p, q
    <3>9. QED
      BY <3>2, <3>4, <3>5, <3>6, <3>7, <3>8 DEF Loses
  <2>7. QED
    BY <2>2, <2>4, <2>5, <2>6 DEF Stays
<1>11. CASE TransmitUp
  <2> DEFINE h == Head(chan)
             Ft == FlattenSeq(Tail(chan))
             q == rbuf \o item
  <2>1. h \in Seq(Req) /\ Tail(chan) \in Seq(Seq(Req)) /\ Fc = h \o Ft
    BY <1>11, <1>b, FlattenTail DEF TransmitUp
  <2>2. Ft \in Seq(Req)
    BY <2>1, FlattenType
  <2>3. Live /\ UNCHANGED <<tag, jobs>>
    BY <1>11, <1>d DEF TransmitUp, Live
  <2>4. Hs' = Hs /\ Hw' = Hw /\ Fc' = Ft /\ upnet' = Append(upnet, h)
    BY <1>11 DEF TransmitUp, Held
  <2>5. Responses' = Responses
    BY <1>11, <1>k, <2>4 DEF TransmitUp, dnvars
  <2>6. Fu' = Fu \o h
    <3> HIDE DEF h
    <3>1. QED
      BY <1>b, <2>1, <2>4, FlattenAppend
  <2>7. /\ Requests = (((q \o Fu) \o Fc) \o Hs) \o up
        /\ Requests' = (((q \o (Fu \o h)) \o Ft) \o Hs) \o up
    <3>1. UNCHANGED <<rbuf, item, up>>
      BY <1>11 DEF TransmitUp
    <3> HIDE DEF h
    <3>2. QED
      BY <3>1, <1>f, <1>g, <2>4, <2>6, Zenon
  <2>8. q \in Seq(Req)
    BY <1>a, <1>b, <1>e1, Zenon
  <2>9. (q \o Fu) \o Fc = (q \o (Fu \o h)) \o Ft
    <3> HIDE DEF q, h, Ft, Fu, Fc
    <3>1. (q \o Fu) \o (h \o Ft) = (q \o (Fu \o h)) \o Ft
      <4>1. h \in Seq(Req)
        BY <2>1, Zenon
      <4>2. q \o Fu \in Seq(Req)
        BY <1>e1, <1>m1, <2>8, Zenon
      <4>3. (q \o Fu) \o h = q \o (Fu \o h)
        BY <1>e3, <1>m1, <2>8, <4>1, Zenon
      <4> DEFINE r == q \o Fu
      <4> HIDE DEF r
      <4>4. (r \o h) \o Ft = r \o (h \o Ft)
        <5>1. r \in Seq(Req)
          BY <4>2 DEF r
        <5>2. QED
          BY <1>e3, <2>2, <4>1, <5>1, Zenon
      <4>5. QED
        BY <4>3, <4>4, Zenon DEF r
    <3>2. QED
      BY <2>1, <3>1, Zenon
  <2>10. Requests' = Requests
    BY <2>7, <2>9, Zenon
  <2>11. QED
    BY <2>3, <2>5, <2>10 DEF Stays
<1>12. CASE TransmitDown
  <2> DEFINE h == Head(dnchan)
             Ft == FlattenSeq(Tail(dnchan))
             q == (kbuf \o down) \o Hw
  <2>1. h \in Seq(Resp) /\ Tail(dnchan) \in Seq(Seq(Resp)) /\ Fd = h \o Ft
    BY <1>12, <1>b, FlattenTail DEF TransmitDown
  <2>2. Ft \in Seq(Resp)
    BY <2>1, FlattenType
  <2>3. Live /\ UNCHANGED <<tag, jobs>>
    BY <1>12, <1>d DEF TransmitDown, Live
  <2>4. Hs' = Hs /\ Hw' = Hw /\ Fd' = Ft /\ dnnet' = Append(dnnet, h)
    BY <1>12 DEF TransmitDown, Held
  <2>5. Requests' = Requests
    BY <1>12, <1>j, <2>4 DEF TransmitDown, upvars
  <2>6. Fn' = Fn \o h
    <3> HIDE DEF h
    <3>1. QED
      BY <1>b, <2>1, <2>4, FlattenAppend
  <2>7. Responses = (q \o Fn) \o Fd /\ Responses' = (q \o (Fn \o h)) \o Ft
    <3>1. UNCHANGED <<kbuf, down>>
      BY <1>12 DEF TransmitDown
    <3> HIDE DEF h
    <3>2. QED
      BY <3>1, <1>h, <1>i, <2>4, <2>6, Zenon
  <2>8. q \in Seq(Resp)
    BY <1>a, <1>b, <1>e1, Zenon
  <2>9. (q \o Fn) \o Fd = (q \o (Fn \o h)) \o Ft
    <3> HIDE DEF q, h, Ft, Fn, Fd
    <3>1. (q \o Fn) \o (h \o Ft) = (q \o (Fn \o h)) \o Ft
      <4>1. h \in Seq(Resp)
        BY <2>1, Zenon
      <4>2. q \o Fn \in Seq(Resp)
        BY <1>e1, <1>m5, <2>8, Zenon
      <4>3. (q \o Fn) \o h = q \o (Fn \o h)
        BY <1>e4, <1>m5, <2>8, <4>1, Zenon
      <4> DEFINE r == q \o Fn
      <4> HIDE DEF r
      <4>4. (r \o h) \o Ft = r \o (h \o Ft)
        <5>1. r \in Seq(Resp)
          BY <4>2 DEF r
        <5>2. QED
          BY <1>e4, <2>2, <4>1, <5>1, Zenon
      <4>5. QED
        BY <4>3, <4>4, Zenon DEF r
    <3>2. QED
      BY <2>1, <3>1, Zenon
  <2>10. Responses' = Responses
    BY <2>7, <2>9, Zenon
  <2>11. QED
    BY <2>3, <2>5, <2>10 DEF Stays
<1>13. ASSUME NEW n \in 1..Chunk, DispatchReads(n) PROVE Goal
  <2>1. Live /\ UNCHANGED <<tag, jobs, chan, up>> /\ Hs' = Hs /\ Hw' = Hw
    BY <1>13, <1>d DEF DispatchReads, Live, Held
  <2>2. Responses' = Responses
    BY <1>13, <1>k, <2>1 DEF DispatchReads, dnvars
  <2>3. SUFFICES (rbuf' \o item') \o Fu' = (rbuf \o item) \o Fu
    <3>1. ASSUME (rbuf' \o item') \o Fu' = (rbuf \o item) \o Fu PROVE Requests' = Requests
      BY <3>1, <1>f, <1>g, <2>1, Zenon
    <3>2. QED
      BY <2>1, <2>2, <3>1 DEF Stays
  <2>4. CASE /\ n <= Len(item) /\ item' = SubSeq(item, n + 1, Len(item))
             /\ rbuf' = rbuf \o SubSeq(item, 1, n) /\ UNCHANGED upnet
    <3> DEFINE x == SubSeq(item, 1, n)
               y == SubSeq(item, n + 1, Len(item))
    <3>1. x \in Seq(Req) /\ y \in Seq(Req) /\ x \o y = item
      <4>1. n \in Nat /\ n <= Len(item) /\ item \in Seq(Req)
        BY <1>b, <1>c, <2>4
      <4>2. QED
        BY <4>1, Cut
    <3> HIDE DEF x, y
    <3>x. x \in Seq(Req) /\ y \in Seq(Req)
      BY <3>1, Zenon
    <3>2. (rbuf \o x) \o y = rbuf \o item
      <4>1. (rbuf \o x) \o y = rbuf \o (x \o y)
        BY <1>m8, <1>e3, <3>x, Zenon
      <4>2. QED
        BY <3>1, <4>1, Zenon
    <3>3. QED
      BY <2>4, <3>2 DEF x, y
  <2>5. CASE /\ item = << >> /\ upnet # << >> /\ n <= Len(Head(upnet))
             /\ item' = SubSeq(Head(upnet), n + 1, Len(Head(upnet)))
             /\ rbuf' = rbuf \o SubSeq(Head(upnet), 1, n) /\ upnet' = Tail(upnet)
    <3> DEFINE h == Head(upnet)
               x == SubSeq(h, 1, n)
               y == SubSeq(h, n + 1, Len(h))
               Ft == FlattenSeq(Tail(upnet))
    <3>1. h \in Seq(Req) /\ Tail(upnet) \in Seq(Seq(Req)) /\ Fu = h \o Ft
      BY <1>b, <2>5, FlattenTail
    <3>2. Ft \in Seq(Req)
      BY <3>1, FlattenType
    <3>3. x \in Seq(Req) /\ y \in Seq(Req) /\ x \o y = h
      <4>1. n \in Nat /\ n <= Len(h)
        BY <1>c, <2>5
      <4> HIDE DEF h
      <4>2. QED
        BY <3>1, <4>1, Cut
    <3>4. rbuf' = rbuf \o x /\ item' = y /\ Fu' = Ft /\ item = << >>
      BY <2>5
    <3> HIDE DEF x, y, h, Ft
    <3>x. x \in Seq(Req) /\ y \in Seq(Req)
      BY <3>3, Zenon
    <3>h. h \in Seq(Req)
      BY <3>1, Zenon
    <3>5. rbuf \o item = rbuf
      BY <1>b, <1>e2, <3>4, Zenon
    <3>6. (rbuf \o x) \o y = rbuf \o h
      <4>1. (rbuf \o x) \o y = rbuf \o (x \o y)
        BY <1>m8, <1>e3, <3>x, Zenon
      <4>2. QED
        BY <3>3, <4>1, Zenon
    <3>7. (rbuf \o h) \o Ft = rbuf \o Fu
      <4>1. (rbuf \o h) \o Ft = rbuf \o (h \o Ft)
        BY <1>m8, <1>e3, <3>2, <3>h, Zenon
      <4>2. QED
        BY <3>1, <4>1, Zenon
    <3>8. QED
      BY <3>4, <3>5, <3>6, <3>7, Zenon
  <2>6. QED
    BY <1>13, <2>4, <2>5 DEF DispatchReads
<1>14. CASE DispatchSpawns
  <2> DEFINE m == SubSeq(rbuf, 1, ReqLen)
             y == SubSeq(rbuf, ReqLen + 1, Len(rbuf))
  <2>1. /\ m \in Seq(Req) /\ Len(m) = ReqLen /\ y \in Seq(Req) /\ m \o y = rbuf
    BY <1>14, <1>b, <1>c, Cut DEF DispatchSpawns
  <2>2. m[1] = rbuf[1]
    BY <1>14, <1>b, <1>c DEF DispatchSpawns
  <2>3. /\ Live /\ UNCHANGED <<tag, item, upnet, chan, up>> /\ Hs' = Hs /\ Hw' = Hw
        /\ rbuf' = y /\ jobs' = jobs \cup {m[1][1]}
    <3>1. Live /\ UNCHANGED <<tag, item, upnet, chan, up>> /\ Hs' = Hs /\ Hw' = Hw
      BY <1>14, <1>d DEF DispatchSpawns, Live, Held
    <3>2. rbuf' = y /\ jobs' = jobs \cup {rbuf[1][1]}
      BY <1>14 DEF DispatchSpawns
    <3> HIDE DEF m, y
    <3>3. QED
      BY <2>2, <3>1, <3>2, Zenon
  <2>4. Responses' = Responses
    BY <1>14, <1>k, <2>3 DEF DispatchSpawns, dnvars
  <2> HIDE DEF m, y
  <2>5. Requests' = ((((y \o item) \o Fu) \o Fc) \o Hs) \o up
    BY <1>g, <2>3, Zenon
  <2>6. Requests = m \o Requests'
    <3> DEFINE a == y \o item
               c == a \o Fu
               d == c \o Fc
               e == d \o Hs
    <3>0. m \in Seq(Req)
      BY <2>1, Zenon
    <3>y. y \in Seq(Req)
      BY <2>1, Zenon
    <3>z. item \in Seq(Req) /\ up \in Seq(Req)
      BY <1>b, Zenon
    <3>a. a \in Seq(Req)
      BY <1>e1, <3>z, <3>y, Zenon
    <3>1. (m \o y) \o item = m \o a
      BY <1>e3, <3>z, <3>0, <3>y, Zenon
    <3> HIDE DEF a
    <3>c. c \in Seq(Req)
      BY <1>e1, <1>m1, <3>a, Zenon
    <3>2. (m \o a) \o Fu = m \o c
      BY <1>e3, <1>m1, <3>0, <3>a, Zenon
    <3> HIDE DEF c
    <3>d. d \in Seq(Req)
      BY <1>e1, <1>m2, <3>c, Zenon
    <3>3. (m \o c) \o Fc = m \o d
      BY <1>e3, <1>m2, <3>0, <3>c, Zenon
    <3> HIDE DEF d
    <3>e. e \in Seq(Req)
      BY <1>e1, <1>m3, <3>d, Zenon
    <3>4. (m \o d) \o Hs = m \o e
      BY <1>e3, <1>m3, <3>0, <3>d, Zenon
    <3> HIDE DEF e
    <3>5. (m \o e) \o up = m \o (e \o up)
      BY <1>e3, <3>z, <3>0, <3>e, Zenon
    <3>6. Requests = (((((m \o y) \o item) \o Fu) \o Fc) \o Hs) \o up
      BY <1>f, <2>1, Zenon
    <3>7. QED
      BY <2>5, <3>1, <3>2, <3>3, <3>4, <3>5, <3>6, Zenon DEF a, c, d, e
  <2>7. QED
    BY <2>1, <2>3, <2>4, <2>6 DEF Starts
<1>15. CASE DispatchEnds
  <2>1. Live /\ UNCHANGED <<tag, jobs>>
    BY <1>15, <1>d DEF DispatchEnds, Live
  <2>2. Requests' = Requests /\ Responses' = Responses
    BY <1>15, <1>j, <1>k DEF DispatchEnds, upvars, dnvars, Held
  <2>3. QED
    BY <2>1, <2>2 DEF Stays
<1>16. ASSUME NEW t \in Tags, TaskReplies(t) PROVE Goal
  <2> DEFINE m == Msg(t, RespLen)
             q == ((kbuf \o down) \o Hw) \o Fn
  <2>1. Live /\ UNCHANGED tag /\ t \in jobs /\ jobs' = jobs \ {t}
    BY <1>16, <1>d DEF TaskReplies, Live
  <2>2. Requests' = Requests
    BY <1>16, <1>j DEF TaskReplies, upvars, Held
  <2>3. m \in Seq(Resp)
    BY <1>c, MsgIs DEF Resp
  <2> HIDE DEF m
  <2>4. Fd = << >> /\ Fd' = m
    <3>1. dnchan = << >> /\ dnchan' = <<m>>
      BY <1>16 DEF TaskReplies, m
    <3>2. FlattenSeq(<<m>>) = m
      BY <2>3, FlattenOne
    <3>3. QED
      BY <3>1, <3>2, FlattenEmpty, Zenon
  <2>5. Hw' = Hw /\ UNCHANGED <<kbuf, down, dnnet>>
    BY <1>16 DEF TaskReplies, Held
  <2>6. q \in Seq(Resp)
    BY <1>a, <1>b, <1>e1, Zenon
  <2>7. Responses = q \o << >> /\ Responses' = q \o m
    BY <1>h, <1>i, <2>4, <2>5, Zenon
  <2>8. Responses = q
    BY <1>e2, <2>6, <2>7, Zenon
  <2>9. Responses' = Responses \o m
    BY <2>7, <2>8, Zenon
  <2>10. QED
    BY <2>1, <2>2, <2>9 DEF Replies, m
<1>17. ASSUME NEW t \in Tags, TaskPanics(t) PROVE Goal
  BY <1>17, <1>d DEF TaskPanics
<1>18. CASE RelayFails
  BY <1>18, <1>d DEF RelayFails
<1>19. CASE DispatchFails
  <2>1. Live /\ UNCHANGED <<tag, jobs>>
    BY <1>19, <1>d DEF DispatchFails, Live
  <2>2. Requests' = Requests /\ Responses' = Responses
    BY <1>19, <1>j, <1>k DEF DispatchFails, upvars, dnvars, Held
  <2>3. QED
    BY <2>1, <2>2 DEF Stays
<1>20. QED
  BY <1>1, <1>2, <1>3, <1>4, <1>5, <1>6, <1>7, <1>8, <1>9, <1>10, <1>11, <1>12, <1>13,
     <1>14, <1>15, <1>16, <1>17, <1>18, <1>19 DEF Next, KernelStep, RelayStep, DispatchStep

(* Tasks send whole responses, which nothing cuts before the relay has     *)
(* them.                                                                   *)
LEMMA BegunStep == ASSUME Types, BegunItems, [Next]_vars PROVE BegunItems'
<1> DEFINE B == Begun(RespLen)
<1>a. dnchan \in Seq(B) /\ dnnet \in Seq(B) /\ RespLen \in Nat \ {0}
  BY BoundAssumption DEF BegunItems
<1>b. \A S : \A q \in Seq(S) : q # << >> => Head(q) \in S /\ Tail(q) \in Seq(S)
  OBVIOUS
<1>c. \A S : << >> \in Seq(S) /\ \A q \in Seq(S) : \A x \in S : Append(q, x) \in Seq(S)
  OBVIOUS
<1>d. \A t \in Tags : <<Msg(t, RespLen)>> \in Seq(B)
  <2> TAKE t \in Tags
  <2>1. Msg(t, RespLen) \in Seq(UnitOf(RespLen)) /\ Msg(t, RespLen)[1] = <<t, 1>>
    BY <1>a, MsgIs
  <2>2. Msg(t, RespLen) \in B
    BY <2>1 DEF Begun
  <2> HIDE DEF B
  <2>3. QED
    BY <2>2
<1> SUFFICES dnchan' \in Seq(B) /\ dnnet' \in Seq(B)
  BY DEF BegunItems
<1> HIDE DEF B
<1>1. CASE UNCHANGED <<dnchan, dnnet>>
  BY <1>1, <1>a
<1>2. CASE RelayTakes
  BY <1>2, <1>a, <1>b DEF RelayTakes
<1>3. CASE TransmitDown
  BY <1>3, <1>a, <1>b, <1>c DEF TransmitDown
<1>4. CASE Disconnect
  BY <1>4, <1>c DEF Disconnect
<1>5. ASSUME NEW t \in Tags, TaskReplies(t) PROVE dnchan' \in Seq(B) /\ dnnet' \in Seq(B)
  BY <1>5, <1>a, <1>d DEF TaskReplies
<1>6. ASSUME KernelStep \/ Accept \/ AcceptTimesOut \/ RelayFails
      PROVE  UNCHANGED <<dnchan, dnnet>>
  BY <1>6 DEF KernelStep, KernelReads, KernelCloses, KernelSends, Accept, AcceptTimesOut,
              RelayFails, dnvars
<1>7. ASSUME RelayStep, ~RelayTakes PROVE UNCHANGED <<dnchan, dnnet>>
  BY <1>7 DEF RelayStep, RelayGetsStream, RelayAtEof, RelaySends, RelayInputEnds, RelayWrites,
              RelayReads, dnvars
<1>8. ASSUME DispatchStep \/ DispatchFails \/ TransmitUp \/ \E t \in Tags : TaskPanics(t)
      PROVE  UNCHANGED <<dnchan, dnnet>>
  BY <1>8 DEF DispatchStep, DispatchSpawns, DispatchEnds, DispatchReads, DispatchFails,
              TransmitUp, TaskPanics, dnvars
<1>9. QED
  BY <1>1, <1>2, <1>3, <1>4, <1>5, <1>6, <1>7, <1>8 DEF Next, vars

(* What has been cut stays cut. *)
LEMMA CutStays == ASSUME [Next]_vars, cut PROVE cut'
BY DEF Next, vars, KernelStep, KernelReads, KernelCloses, KernelSends, Accept, AcceptTimesOut,
       RelayFails, RelayStep, RelayGetsStream, RelayAtEof, RelaySends, RelayTakes, RelayInputEnds,
       RelayWrites, RelayReads, DispatchStep, DispatchSpawns, DispatchEnds, DispatchReads,
       DispatchFails, TransmitUp, TransmitDown, Disconnect, TaskReplies, TaskPanics

(* At first nothing is on its way. *)
LEMMA FlowInit == ASSUME Init PROVE Requests = << >> /\ Responses = << >>
<1>1. << >> \o << >> = << >>
  BY Cat
<1>2. Held("send") = << >> /\ Held("write") = << >>
  BY DEF Init, Held
<1>3. Requests = ((((<< >> \o << >>) \o << >>) \o << >>) \o << >>) \o << >>
  BY <1>2, FlattenEmpty, Zenon DEF Init, Requests
<1>4. Responses = (((<< >> \o << >>) \o << >>) \o << >>) \o << >>
  BY <1>2, FlattenEmpty, Zenon DEF Init, Responses
<1>5. QED
  BY <1>1, <1>3, <1>4, Zenon

LEMMA BegunInit == ASSUME Init PROVE BegunItems
BY EmptySeq DEF Init, BegunItems

-----------------------------------------------------------------------------
(* Theorems.                                                               *)

(* Whatever the kernel, the relay, the transport and dispatch do, the      *)
(* queues of the relay (server.rs, ninep_forward) and of SenderWriter and  *)
(* StreamReader (client.rs) stay within their capacities.                  *)
THEOREM TypeCorrect == Spec => []TypeOK
<1>1. Spec => []Types
  <2>1. Init => Types
    BY TypesInit
  <2>2. Types /\ [Next]_vars => Types'
    BY TypesStep
  <2>3. QED
    BY <2>1, <2>2, PTL DEF Spec
<1>2. Types => TypeOK
  BY TypesTypeOK
<1>3. QED
  BY <1>1, <1>2, PTL

LEMMA RequestsStep ==
    ASSUME Types, BegunItems, RequestsWhole, [Next]_vars
    PROVE  RequestsWhole'
<1> SUFFICES ASSUME Live' PROVE Whole(Requests, ReqLen)'
  BY DEF RequestsWhole
<1>1. Types' /\ ReqLen \in Nat \ {0}
  BY TypesStep, BoundAssumption
<1>2. Requests \in Seq(UnitOf(ReqLen)) /\ Requests' \in Seq(UnitOf(ReqLen))
  <2>1. Requests \in Seq(Req) /\ (Requests \in Seq(Req))'
    BY <1>1, Parts, PTL
  <2>2. QED
    BY <2>1 DEF Req
<1>3. Live /\ (Stays \/ Starts \/ Receives \/ \E t \in Tags : Asks(t) \/ Replies(t))
  BY Flow
<1>4. Whole(Requests, ReqLen)
  BY <1>3 DEF RequestsWhole
<1>5. CASE Requests' = Requests
  BY <1>4, <1>5
<1>6. ASSUME NEW t \in Tags, Asks(t) PROVE Whole(Requests, ReqLen)'
  <2>1. Whole(Requests \o Msg(t, ReqLen), ReqLen)
    BY <1>1, <1>2, <1>4, WholeAdd
  <2>2. QED
    BY <1>6, <2>1 DEF Asks
<1>7. CASE Starts
  <2>1. PICK m \in Seq(Req) : Len(m) = ReqLen /\ Requests = m \o Requests'
    BY <1>7 DEF Starts
  <2>2. QED
    BY <1>1, <1>2, <1>4, <2>1, WholeCut DEF Req
<1>8. QED
  BY <1>3, <1>5, <1>6, <1>7 DEF Stays, Receives, Replies

(* Reading 128 bytes at a time and passing them on through a channel, a    *)
(* gRPC stream and StreamReader loses, repeats and mixes no byte of the    *)
(* kernel's requests, at any capacities.                                   *)
THEOREM RequestsRight == Spec => []RequestsWhole
<1>1. Init => Types /\ BegunItems /\ RequestsWhole
  BY TypesInit, BegunInit, FlowInit DEF RequestsWhole, Whole
<1>2. Types /\ BegunItems /\ RequestsWhole /\ [Next]_vars => (Types /\ BegunItems /\ RequestsWhole)'
  BY TypesStep, BegunStep, RequestsStep
<1>3. QED
  BY <1>1, <1>2, PTL DEF Spec

-----------------------------------------------------------------------------
(* The way back.  writer.write writes as much as the socket has room for;  *)
(* what does not fit is lost.                                              *)

EndsInv == Live => EndsCut(Responses)

LEMMA EndsStep ==
    ASSUME Types, BegunItems, EndsInv, [Next]_vars
    PROVE  EndsInv'
<1> SUFFICES ASSUME Live' PROVE EndsCut(Responses')
  BY DEF EndsInv, EndsCut
<1>1. Types' /\ RespLen \in Nat \ {0}
  BY TypesStep, BoundAssumption
<1>2. Responses \in Seq(UnitOf(RespLen)) /\ Responses' \in Seq(UnitOf(RespLen))
  <2>1. Responses \in Seq(Resp) /\ (Responses \in Seq(Resp))'
    BY <1>1, Parts, PTL
  <2>2. QED
    BY <2>1 DEF Resp
<1>3. Live /\ (Stays \/ Starts \/ Receives \/ \E t \in Tags : Asks(t) \/ Replies(t))
  BY Flow
<1>4. EndsCut(Responses)
  BY <1>3 DEF EndsInv
<1>5. CASE Responses' = Responses
  BY <1>4, <1>5
<1>6. CASE Loses
  <2>1. PICK p \in Seq(Resp), y \in Seq(Resp), q \in Begun(RespLen) :
           Responses = (p \o y) \o q /\ Responses' = p \o q
    BY <1>6 DEF Loses
  <2>2. EndsCut((p \o y) \o q)
    BY <1>4, <2>1
  <2>3. EndsCut(p \o q)
    BY <1>1, <2>2, EndsCutLose DEF Resp
  <2>4. QED
    BY <2>1, <2>3
<1>7. CASE Receives
  <2>1. PICK m \in Seq(Resp) : Responses = m \o Responses'
    BY <1>7 DEF Receives
  <2> DEFINE r == Responses'
  <2>2. r \in Seq(UnitOf(RespLen)) /\ m \in Seq(UnitOf(RespLen)) /\ Responses = m \o r
    BY <1>2, <2>1 DEF Resp
  <2> HIDE DEF r
  <2>3. EndsCut(m \o r)
    BY <1>4, <2>2
  <2>4. EndsCut(r)
    BY <1>1, <2>2, <2>3, EndsCutRest
  <2>5. QED
    BY <2>4 DEF r
<1>8. ASSUME NEW t \in Tags, Replies(t) PROVE EndsCut(Responses')
  <2>1. Responses' = Responses \o Msg(t, RespLen)
    BY <1>8 DEF Replies
  <2>2. EndsCut(Responses \o Msg(t, RespLen))
    BY <1>1, <1>2, <1>4, EndsCutAdd
  <2>3. QED
    BY <2>1, <2>2
<1>9. QED
  BY <1>3, <1>5, <1>6, <1>7, <1>8 DEF Stays, Starts, Asks

(* Where the request of a tag is: nowhere, or in one place. *)
Placed(t) ==
    /\ tag[t] = "sent" <=> Has(Requests, t) \/ t \in jobs \/ Has(Responses, t)
    /\ Has(Requests, t) => t \notin jobs /\ ~Has(Responses, t)
    /\ t \in jobs => ~Has(Responses, t)

OnceInv ==
    Live /\ ~cut =>
        /\ Once(Requests) /\ Once(Responses) /\ Whole(Responses, RespLen)
        /\ \A t \in Tags : Placed(t)

RelayIInv == Types /\ BegunItems /\ RequestsWhole /\ EndsInv /\ OnceInv

LEMMA OnceStep ==
    ASSUME Types, BegunItems, RequestsWhole, OnceInv, [Next]_vars
    PROVE  OnceInv'
<1> SUFFICES ASSUME Live', ~cut'
             PROVE  /\ Once(Requests') /\ Once(Responses') /\ Whole(Responses', RespLen)
                    /\ \A t \in Tags : Placed(t)'
  BY DEF OnceInv
<1>1. Types' /\ ReqLen \in Nat \ {0} /\ RespLen \in Nat \ {0}
  BY TypesStep, BoundAssumption
<1>2. /\ Requests \in Seq(UnitOf(ReqLen)) /\ Requests' \in Seq(UnitOf(ReqLen))
      /\ Responses \in Seq(UnitOf(RespLen)) /\ Responses' \in Seq(UnitOf(RespLen))
  <2>1. /\ Requests \in Seq(Req) /\ (Requests \in Seq(Req))'
        /\ Responses \in Seq(Resp) /\ (Responses \in Seq(Resp))'
    BY <1>1, Parts, PTL
  <2>2. QED
    BY <2>1 DEF Req, Resp
<1>3. Live /\ (Stays \/ Starts \/ Receives \/ \E t \in Tags : Asks(t) \/ Replies(t))
  BY Flow
<1>0. ~cut
  BY CutStays
<1>4. /\ Whole(Requests, ReqLen) /\ Whole(Responses, RespLen) /\ Once(Requests) /\ Once(Responses)
      /\ \A t \in Tags : Placed(t)
  BY <1>0, <1>3 DEF RequestsWhole, OnceInv
<1>5. Stays => Responses' = Responses
  BY DEF Stays, Loses
<1>6. tag \in [Tags -> {"idle", "sent"}]
  BY DEF Types, CtlType
<1>7. CASE Stays
  <2>1. UNCHANGED <<tag, jobs>> /\ Requests' = Requests /\ Responses' = Responses
    BY <1>5, <1>7 DEF Stays
  <2>2. QED
    BY <1>4, <2>1 DEF Placed
<1>8. CASE Starts
  <2>1. PICK m \in Seq(Req) : Len(m) = ReqLen /\ Requests = m \o Requests' /\ jobs' = jobs \cup {m[1][1]}
    BY <1>8 DEF Starts
  <2>2. UNCHANGED tag /\ Responses' = Responses
    BY <1>8 DEF Starts
  <2> DEFINE t == m[1][1]
  <2>3. t \in Tags /\ \A k \in 1..ReqLen : m[k] = <<t, k>>
    BY <1>1, <1>2, <1>4, <2>1, WholeCut DEF Req
  <2> HIDE DEF t
  <2>4. /\ Once(Requests') /\ Has(Requests, t) /\ ~Has(Requests', t)
        /\ \A u \in Tags \ {t} : Has(Requests, u) <=> Has(Requests', u)
    <3> DEFINE r == Requests'
    <3>1. m \in Seq(UnitOf(ReqLen)) /\ Len(m) = ReqLen /\ r \in Seq(UnitOf(ReqLen)) /\ Requests = m \o r
      BY <1>2, <2>1 DEF Req
    <3> HIDE DEF r
    <3>2. Once(m \o r)
      BY <1>4, <3>1
    <3>3. /\ Once(r) /\ Has(m \o r, t) /\ ~Has(r, t)
          /\ \A u \in Tags \ {t} : Has(m \o r, u) <=> Has(r, u)
      BY <1>1, <2>3, <3>1, <3>2, OnceCut
    <3>4. QED
      BY <3>1, <3>3 DEF r
  <2>5. jobs' = jobs \cup {t}
    BY <2>1 DEF t
  <2>6. \A u \in Tags : Placed(u)'
    BY <1>4, <2>2, <2>3, <2>4, <2>5 DEF Placed
  <2>7. QED
    BY <1>4, <2>2, <2>4, <2>6
<1>9. CASE Receives
  <2>1. PICK m \in Seq(Resp) : /\ Len(m) = RespLen /\ Responses = m \o Responses'
                               /\ tag' = [tag EXCEPT ![m[1][1]] = "idle"]
    BY <1>9 DEF Receives
  <2>2. UNCHANGED jobs /\ Requests' = Requests
    BY <1>9 DEF Receives
  <2> DEFINE t == m[1][1]
  <2>3. t \in Tags /\ Whole(Responses', RespLen) /\ \A k \in 1..RespLen : m[k] = <<t, k>>
    BY <1>1, <1>2, <1>4, <2>1, WholeCut DEF Resp
  <2> HIDE DEF t
  <2>4. /\ Once(Responses') /\ Has(Responses, t) /\ ~Has(Responses', t)
        /\ \A u \in Tags \ {t} : Has(Responses, u) <=> Has(Responses', u)
    <3> DEFINE r == Responses'
    <3>1. m \in Seq(UnitOf(RespLen)) /\ Len(m) = RespLen /\ r \in Seq(UnitOf(RespLen)) /\ Responses = m \o r
      BY <1>2, <2>1 DEF Resp
    <3> HIDE DEF r
    <3>2. Once(m \o r)
      BY <1>4, <3>1
    <3>3. /\ Once(r) /\ Has(m \o r, t) /\ ~Has(r, t)
          /\ \A u \in Tags \ {t} : Has(m \o r, u) <=> Has(r, u)
      BY <1>1, <2>3, <3>1, <3>2, OnceCut
    <3>4. QED
      BY <3>1, <3>3 DEF r
  <2>5. tag'[t] = "idle" /\ \A u \in Tags \ {t} : tag'[u] = tag[u]
    BY <1>6, <2>1, <2>3 DEF t
  <2>6. \A u \in Tags : Placed(u)'
    BY <1>4, <2>2, <2>3, <2>4, <2>5 DEF Placed
  <2>7. QED
    BY <1>4, <2>2, <2>3, <2>4, <2>6
<1>10. ASSUME NEW t \in Tags, Asks(t)
       PROVE  /\ Once(Requests') /\ Once(Responses') /\ Whole(Responses', RespLen)
              /\ \A u \in Tags : Placed(u)'
  <2>1. /\ tag[t] = "idle" /\ tag' = [tag EXCEPT ![t] = "sent"] /\ UNCHANGED jobs
        /\ Requests' = Requests \o Msg(t, ReqLen) /\ Responses' = Responses
    BY <1>10 DEF Asks
  <2>2. ~Has(Requests, t) /\ t \notin jobs /\ ~Has(Responses, t)
    BY <1>4, <2>1 DEF Placed
  <2>3. /\ Once(Requests') /\ Has(Requests', t)
        /\ \A u \in Tags \ {t} : Has(Requests', u) <=> Has(Requests, u)
    BY <1>1, <1>2, <1>4, <2>1, <2>2, OnceAdd
  <2>4. tag'[t] = "sent" /\ \A u \in Tags \ {t} : tag'[u] = tag[u]
    BY <1>6, <2>1
  <2>5. \A u \in Tags : Placed(u)'
    BY <1>4, <2>1, <2>2, <2>3, <2>4 DEF Placed
  <2>6. QED
    BY <1>4, <2>1, <2>3, <2>5
<1>11. ASSUME NEW t \in Tags, Replies(t)
       PROVE  /\ Once(Requests') /\ Once(Responses') /\ Whole(Responses', RespLen)
              /\ \A u \in Tags : Placed(u)'
  <2>1. /\ t \in jobs /\ jobs' = jobs \ {t} /\ UNCHANGED tag
        /\ Responses' = Responses \o Msg(t, RespLen) /\ Requests' = Requests
    BY <1>11 DEF Replies
  <2>2. ~Has(Requests, t) /\ ~Has(Responses, t)
    BY <1>4, <2>1 DEF Placed
  <2>3. /\ Once(Responses') /\ Has(Responses', t)
        /\ \A u \in Tags \ {t} : Has(Responses', u) <=> Has(Responses, u)
    BY <1>1, <1>2, <1>4, <2>1, <2>2, OnceAdd
  <2>4. Whole(Responses', RespLen)
    BY <1>1, <1>2, <1>4, <2>1, WholeAdd
  <2>5. \A u \in Tags : Placed(u)'
    BY <1>4, <2>1, <2>2, <2>3 DEF Placed
  <2>6. QED
    BY <1>4, <2>1, <2>3, <2>4, <2>5
<1>12. QED
  BY <1>3, <1>7, <1>8, <1>9, <1>10, <1>11

LEMMA RelayIInvHolds == Spec => []RelayIInv
<1>1. Init => RelayIInv
  <2> SUFFICES ASSUME Init PROVE RelayIInv
    OBVIOUS
  <2>1. Types /\ Requests = << >> /\ Responses = << >>
    BY TypesInit, FlowInit
  <2>2. \A t : ~Has(<< >>, t)
    BY DEF Has
  <2>3. \A t \in Tags : Placed(t)
    BY <2>1, <2>2 DEF Init, Placed
  <2>4. Once(<< >>) /\ Whole(<< >>, ReqLen) /\ Whole(<< >>, RespLen) /\ EndsCut(<< >>)
    BY DEF Once, Whole, EndsCut
  <2>5. BegunItems
    BY BegunInit
  <2>6. QED
    BY <2>1, <2>3, <2>4, <2>5 DEF RelayIInv, RequestsWhole, EndsInv, OnceInv
<1>2. RelayIInv /\ [Next]_vars => RelayIInv'
  BY TypesStep, BegunStep, RequestsStep, EndsStep, OnceStep DEF RelayIInv
<1>3. QED
  BY <1>1, <1>2, PTL DEF Spec

(* The beginning of a message is there once, or not at all. *)
LEMMA BeginsCount ==
    ASSUME NEW n \in Nat \ {0}, NEW s \in Seq(UnitOf(n)), Whole(s, n), Once(s), NEW t \in Tags
    PROVE  Cardinality(Begins(s, t)) = IF Has(s, t) THEN 1 ELSE 0
<1>1. CASE Has(s, t)
  <2>1. PICK j \in 1..Len(s) : s[j] = <<t, 1>>
    BY <1>1, HasFirst
  <2>2. Begins(s, t) = {j}
    BY <2>1 DEF Begins, Once
  <2>3. QED
    BY <1>1, <2>2, FS_Singleton
<1>2. CASE ~Has(s, t)
  <2>1. \A i \in DOMAIN s : s[i] # <<t, 1>>
    BY <1>2 DEF Has
  <2>2. Begins(s, t) = {}
    BY <2>1 DEF Begins
  <2>3. QED
    BY <1>2, <2>2, FS_EmptySet
<1>3. QED
  BY <1>1, <1>2

LEMMA RelayIInvImplies == ASSUME RelayIInv PROVE RelayInv /\ OnlyEndsLost
<1>1. TypeOK /\ RequestsWhole /\ OnlyEndsLost
  BY TypesTypeOK DEF RelayIInv, EndsInv, OnceInv, OnlyEndsLost
<1>2. AnsweredOnce
  <2> SUFFICES ASSUME Live, ~cut, NEW t \in Tags
               PROVE  Cardinality(Begins(Requests, t)) + Cardinality(Begins(Responses, t))
                      + (IF t \in jobs THEN 1 ELSE 0) = IF tag[t] = "sent" THEN 1 ELSE 0
    BY DEF AnsweredOnce
  <2>1. /\ Requests \in Seq(UnitOf(ReqLen)) /\ Responses \in Seq(UnitOf(RespLen))
        /\ ReqLen \in Nat \ {0} /\ RespLen \in Nat \ {0}
    BY Parts, BoundAssumption DEF RelayIInv, Req, Resp
  <2>2. /\ Whole(Requests, ReqLen) /\ Whole(Responses, RespLen)
        /\ Once(Requests) /\ Once(Responses) /\ Placed(t)
    BY DEF RelayIInv, RequestsWhole, OnceInv
  <2>3. Cardinality(Begins(Requests, t)) = IF Has(Requests, t) THEN 1 ELSE 0
    BY <2>1, <2>2, BeginsCount
  <2>4. Cardinality(Begins(Responses, t)) = IF Has(Responses, t) THEN 1 ELSE 0
    BY <2>1, <2>2, BeginsCount
  <2>5. QED
    BY <2>2, <2>3, <2>4 DEF Placed
<1>3. QED
  BY <1>1, <1>2 DEF RelayInv

(* Until a write is short each request that the kernel waits for is in one *)
(* place only: on its way, with a task of dispatch, or answered and on its *)
(* way back.                                                               *)
THEOREM RelayRight == Spec => []RelayInv
<1>1. Spec => []RelayIInv
  BY RelayIInvHolds
<1>2. RelayIInv => RelayInv
  BY RelayIInvImplies
<1>3. QED
  BY <1>1, <1>2, PTL

(* The relay (server.rs:385) writes each item with one write and does not  *)
(* look at how much was written.  What that loses are ends of responses,   *)
(* at any capacities: the rest reaches the kernel in order, neither mixed  *)
(* nor repeated, and until a write is short nothing is lost.  The run      *)
(* ninep_relay_short shows the loss.                                       *)
THEOREM ResponsesRight == Spec => []OnlyEndsLost
<1>1. Spec => []RelayIInv
  BY RelayIInvHolds
<1>2. RelayIInv => OnlyEndsLost
  BY RelayIInvImplies
<1>3. QED
  BY <1>1, <1>2, PTL
=============================================================================
