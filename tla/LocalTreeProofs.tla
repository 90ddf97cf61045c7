--------------------------- MODULE LocalTreeProofs ---------------------------
(***************************************************************************)
(* Lemmas about LocalTree: what a path names, and what the system calls    *)
(* change of it.                                                           *)
(***************************************************************************)
EXTENDS LocalTree, SequenceLemmas, TLAPS

EntryRec == [name: Names, ino: Inos]

(* No two entries of a directory have the same name.                       *)
Distinct(es) == \A j, k \in 1..Len(es) : es[j].name = es[k].name => j = k
DistinctNames == \A i \in Inos : Distinct(dir[i])

(* The tree of the local machine.                                          *)
TreeInv ==
    /\ dir \in [Inos -> Seq(EntryRec)]
    /\ kind \in [Inos -> {"dir", "file", "free"}]
    /\ \A i \in Inos : kind[i] # "dir" => dir[i] = << >>
    /\ DistinctNames

-----------------------------------------------------------------------------
(* Paths.                                                                  *)

(* The recursion of Through has a solution: it is what it says. *)
LEMMA ThroughDef ==
    ASSUME NEW D, NEW p, Len(p) \in Nat
    PROVE  /\ Through(D, p)[0] = Root
           /\ \A k \in 1..Len(p) : Through(D, p)[k] = Child(D, Through(D, p)[k - 1], p[k])
<1> DEFINE n == Len(p)
           At0(w, k) == IF k = 0 THEN Root ELSE Child(D, w[k - 1], p[k])
           Good(w, m) == w = [k \in 0..m |-> At0(w, k)]
           S == {m \in 0..n : \E w : Good(w, m)}
<1>1. 0 \in S
  <2> DEFINE v == [k \in 0..0 |-> Root]
  <2>1. Good(v, 0)
    OBVIOUS
  <2> HIDE DEF v, Good
  <2>2. (\E w : Good(w, 0)) /\ 0 \in 0..n
    BY <2>1
  <2>3. QED
    BY <2>2
<1>2. ASSUME NEW m \in 0..n, m + 1 \in 0..n, m \in S
      PROVE  m + 1 \in S
  <2>1. PICK w : Good(w, m)
    BY <1>2
  <2> DEFINE v == [k \in 0..(m + 1) |-> IF k <= m THEN w[k] ELSE Child(D, w[m], p[m + 1])]
  <2>2. ASSUME NEW k \in 0..(m + 1) PROVE v[k] = At0(v, k)
    <3>1. CASE k = 0
      BY <2>1, <3>1
    <3>2. CASE k \in 1..m
      <4>1. v[k] = w[k] /\ v[k - 1] = w[k - 1] /\ w[k] = At0(w, k)
        BY <2>1, <3>2
      <4>2. QED
        BY <4>1, <3>2
    <3>3. CASE k = m + 1
      <4>1. v[k] = Child(D, w[m], p[m + 1]) /\ v[k - 1] = w[m]
        BY <3>3
      <4>2. QED
        BY <4>1, <3>3
    <3>4. QED
      BY <3>1, <3>2, <3>3
  <2>3. Good(v, m + 1)
    BY <2>2
  <2>4. QED
    BY <2>3, <1>2
<1>3. n \in S
  BY <1>1, <1>2, Climb
<1>4. \E w : Good(w, n)
  BY <1>3
<1>5. Through(D, p) = CHOOSE w : Good(w, n)
  BY DEF Through
<1>6. Good(Through(D, p), n)
  BY <1>4, <1>5
<1>7. QED
  BY <1>6

(* How far a path goes depends on its beginning only. *)
LEMMA ThroughPrefix ==
    ASSUME NEW D, NEW N, NEW p \in Seq(N), NEW q \in Seq(N), Len(q) <= Len(p),
           \A k \in 1..Len(q) : q[k] = p[k]
    PROVE  \A k \in 0..Len(q) : Through(D, q)[k] = Through(D, p)[k]
<1> DEFINE S == {k \in 0..Len(q) : Through(D, q)[k] = Through(D, p)[k]}
<1>0. Len(q) \in Nat /\ Len(p) \in Nat
  OBVIOUS
<1>1. 0 \in S
  BY <1>0, ThroughDef
<1>2. ASSUME NEW k \in 0..Len(q), k + 1 \in 0..Len(q), k \in S
      PROVE  k + 1 \in S
  <2>1. k + 1 \in 1..Len(q) /\ k + 1 \in 1..Len(p) /\ (k + 1) - 1 = k
    BY <1>0, <1>2
  <2>2. /\ Through(D, q)[k + 1] = Child(D, Through(D, q)[k], q[k + 1])
        /\ Through(D, p)[k + 1] = Child(D, Through(D, p)[k], p[k + 1])
    BY <1>0, <2>1, ThroughDef
  <2>3. QED
    BY <1>2, <2>1, <2>2
<1>3. 0..Len(q) \subseteq S
  BY <1>0, <1>1, <1>2, Climb
<1>4. QED
  BY <1>3

(* A path that has left the tree stays out of it. *)
LEMMA ThroughLost ==
    ASSUME NEW D, NEW N, NEW p \in Seq(N), NEW k \in 0..Len(p),
           Through(D, p)[Len(p)] # NoIno
    PROVE  Through(D, p)[k] # NoIno
<1> DEFINE n == Len(p) - k
           S == {j \in 0..n : Through(D, p)[k + j] = NoIno}
<1>0. Len(p) \in Nat /\ n \in Nat /\ k + n = Len(p) /\ k + 0 = k
  OBVIOUS
<1>1. SUFFICES ASSUME Through(D, p)[k] = NoIno PROVE FALSE
  OBVIOUS
<1>2. 0 \in S
  BY <1>0, <1>1
<1>3. ASSUME NEW j \in 0..n, j + 1 \in 0..n, j \in S
      PROVE  j + 1 \in S
  <2>1. k + (j + 1) \in 1..Len(p) /\ (k + (j + 1)) - 1 = k + j
    BY <1>0, <1>3
  <2>2. Through(D, p)[k + (j + 1)] = Child(D, Through(D, p)[k + j], p[k + (j + 1)])
    BY <1>0, <2>1, ThroughDef
  <2>3. Through(D, p)[k + j] = NoIno
    BY <1>3
  <2>4. Through(D, p)[k + (j + 1)] = NoIno
    BY <2>2, <2>3 DEF Child
  <2>5. QED
    BY <1>3, <2>4
<1>4. n \in S
  <2> HIDE DEF S, n
  <2>1. 0..n \subseteq S
    BY <1>0, <1>2, <1>3, Climb
  <2>2. QED
    BY <1>0, <2>1
<1>5. QED
  BY <1>0, <1>4

-----------------------------------------------------------------------------
(* Directories.                                                            *)

(* The index of a name is that of its first entry. *)
LEMMA IndexFirst ==
    ASSUME NEW es \in Seq(EntryRec), NEW n
    PROVE  /\ IndexIn(es, n) \in 0..Len(es)
           /\ IndexIn(es, n) # 0 =>
                 /\ es[IndexIn(es, n)].name = n
                 /\ \A j \in 1..(IndexIn(es, n) - 1) : es[j].name # n
           /\ IndexIn(es, n) = 0 => \A j \in 1..Len(es) : es[j].name # n
<1> DEFINE I == {j \in 1..Len(es) : es[j].name = n}
<1>1. IndexIn(es, n) = IF I # {} THEN Min(I) ELSE 0
  BY DEF IndexIn, SelectInSeq
<1>2. CASE I = {}
  BY <1>1, <1>2
<1>3. CASE I # {}
  <2>1. I \in SUBSET Nat
    OBVIOUS
  <2>2. \E i \in I : \A j \in I : i <= j
    BY <1>3, <2>1, Least
  <2>3. Min(I) \in I /\ \A j \in I : Min(I) <= j
    BY <2>2 DEF Min
  <2>4. PICK i \in I : i = IndexIn(es, n) /\ \A j \in I : i <= j
    BY <1>1, <1>3, <2>3
  <2>5. i \in 1..Len(es) /\ es[i].name = n /\ Len(es) \in Nat
    OBVIOUS
  <2>6. \A j \in 1..(i - 1) : es[j].name # n
    BY <2>4, <2>5
  <2>7. QED
    BY <2>4, <2>5, <2>6
<1>4. QED
  BY <1>2, <1>3

(* The first entry of a name is at its index. *)
LEMMA IndexIs ==
    ASSUME NEW es \in Seq(EntryRec), NEW n, NEW i \in 1..Len(es),
           es[i].name = n, \A j \in 1..(i - 1) : es[j].name # n
    PROVE  IndexIn(es, n) = i
<1>1. Len(es) \in Nat
  OBVIOUS
<1>2. IndexIn(es, n) \in 1..Len(es) /\ es[IndexIn(es, n)].name = n
  BY <1>1, IndexFirst
<1>3. ~(IndexIn(es, n) < i) /\ ~(i < IndexIn(es, n))
  BY <1>1, <1>2, IndexFirst
<1>4. QED
  BY <1>1, <1>2, <1>3

(* What a name stands for among the entries of a directory.                *)
Named(es, n) == IF IndexIn(es, n) = 0 THEN NoIno ELSE es[IndexIn(es, n)].ino

(* Two directories in which the first entries of a name are the same. *)
LEMMA NamedSame ==
    ASSUME NEW es \in Seq(EntryRec), NEW fs \in Seq(EntryRec), NEW n,
           \/ /\ \A j \in 1..Len(es) : es[j].name # n
              /\ \A j \in 1..Len(fs) : fs[j].name # n
           \/ \E i \in 1..Len(es), j \in 1..Len(fs) :
                 /\ es[i].name = n /\ fs[j].name = n /\ es[i].ino = fs[j].ino
                 /\ \A k \in 1..(i - 1) : es[k].name # n
                 /\ \A k \in 1..(j - 1) : fs[k].name # n
    PROVE  Named(fs, n) = Named(es, n)
<1>0. Len(es) \in Nat /\ Len(fs) \in Nat
  OBVIOUS
<1>1. CASE /\ \A j \in 1..Len(es) : es[j].name # n
           /\ \A j \in 1..Len(fs) : fs[j].name # n
  <2>1. IndexIn(es, n) = 0 /\ IndexIn(fs, n) = 0
    BY <1>0, <1>1, IndexFirst
  <2>2. QED
    BY <2>1 DEF Named
<1>2. ASSUME NEW i \in 1..Len(es), NEW j \in 1..Len(fs),
             es[i].name = n, fs[j].name = n, es[i].ino = fs[j].ino,
             \A k \in 1..(i - 1) : es[k].name # n,
             \A k \in 1..(j - 1) : fs[k].name # n
      PROVE  Named(fs, n) = Named(es, n)
  <2>1. IndexIn(es, n) = i /\ IndexIn(fs, n) = j
    BY <1>2, IndexIs
  <2>2. i # 0 /\ j # 0
    OBVIOUS
  <2>3. QED
    BY <1>2, <2>1, <2>2 DEF Named
<1>3. QED
  BY <1>1, <1>2

(* An entry of another name may be put anywhere. *)
LEMMA NamedInsert ==
    ASSUME NEW es \in Seq(EntryRec), NEW k \in 1..(Len(es) + 1), NEW e \in EntryRec
    PROVE  /\ InsertAt(es, k, e) \in Seq(EntryRec)
           /\ \A n : n # e.name => Named(InsertAt(es, k, e), n) = Named(es, n)
           /\ IndexIn(es, e.name) = 0 =>
                 /\ Named(InsertAt(es, k, e), e.name) = e.ino
                 /\ Distinct(es) => Distinct(InsertAt(es, k, e))
<1>0. Len(es) \in Nat /\ k \in Nat
  OBVIOUS
<1>1. PICK fs : fs = InsertAt(es, k, e)
  OBVIOUS
<1>2. /\ fs \in Seq(EntryRec) /\ Len(fs) = Len(es) + 1
      /\ \A j \in 1..Len(fs) : fs[j] = IF j < k THEN es[j] ELSE IF j = k THEN e ELSE es[j - 1]
  <2>1. /\ SubSeq(es, 1, k - 1) \in Seq(EntryRec) /\ Len(SubSeq(es, 1, k - 1)) = k - 1
        /\ \A j \in 1..(k - 1) : SubSeq(es, 1, k - 1)[j] = es[j]
    BY <1>0, SubSeqProperties
  <2>2. /\ SubSeq(es, k, Len(es)) \in Seq(EntryRec)
        /\ Len(SubSeq(es, k, Len(es))) = Len(es) - k + 1
        /\ \A j \in 1..(Len(es) - k + 1) : SubSeq(es, k, Len(es))[j] = es[k + j - 1]
    BY <1>0, SubSeqProperties
  <2> DEFINE a == SubSeq(es, 1, k - 1)
             c == SubSeq(es, k, Len(es))
             b == a \o <<e>>
  <2> HIDE DEF a, c
  <2>3. /\ b \in Seq(EntryRec) /\ Len(b) = k
        /\ \A j \in 1..k : b[j] = IF j < k THEN es[j] ELSE e
    <3>1. <<e>> \in Seq(EntryRec) /\ Len(<<e>>) = 1 /\ <<e>>[1] = e
      OBVIOUS
    <3>2. a \in Seq(EntryRec) /\ Len(a) = k - 1 /\ \A j \in 1..(k - 1) : a[j] = es[j]
      BY <2>1 DEF a
    <3>3. /\ b \in Seq(EntryRec) /\ Len(b) = (k - 1) + 1
          /\ \A j \in 1..((k - 1) + 1) : b[j] = IF j <= k - 1 THEN a[j] ELSE <<e>>[j - (k - 1)]
      BY <1>0, <3>1, <3>2, ConcatProperties
    <3> HIDE DEF b
    <3>4. b[k] = e
      <4>1. k \in 1..((k - 1) + 1) /\ ~(k <= k - 1) /\ k - (k - 1) = 1
        BY <1>0
      <4>2. b[k] = <<e>>[1]
        BY <3>3, <4>1
      <4>3. QED
        BY <3>1, <4>2
    <3>5. \A j \in 1..k : j < k => b[j] = es[j]
      BY <1>0, <3>2, <3>3
    <3>6. \A j \in 1..k : j < k \/ j = k
      BY <1>0
    <3>7. QED
      BY <1>0, <3>3, <3>4, <3>5, <3>6
  <2> HIDE DEF b
  <2>4. /\ b \o c \in Seq(EntryRec) /\ Len(b \o c) = Len(es) + 1
        /\ \A j \in 1..(Len(es) + 1) : (b \o c)[j] = IF j <= k THEN b[j] ELSE c[j - k]
    BY <1>0, <2>2, <2>3 DEF c
  <2>5. \A j \in (k + 1)..(Len(es) + 1) : c[j - k] = es[j - 1]
    BY <1>0, <2>2 DEF c
  <2>6. fs = b \o c
    BY <1>1 DEF InsertAt, a, b, c
  <2>7. ASSUME NEW j \in 1..(Len(es) + 1)
        PROVE  fs[j] = IF j < k THEN es[j] ELSE IF j = k THEN e ELSE es[j - 1]
    <3>1. CASE j <= k
      BY <1>0, <2>3, <2>4, <2>6, <3>1
    <3>2. CASE j > k
      BY <1>0, <2>4, <2>5, <2>6, <3>2
    <3>3. QED
      BY <1>0, <3>1, <3>2
  <2>8. QED
    BY <2>4, <2>6, <2>7
<1>2a. /\ \A j \in 1..(k - 1) : j \in 1..Len(es) /\ fs[j] = es[j]
       /\ fs[k] = e /\ k \in 1..Len(fs)
       /\ \A j \in (k + 1)..Len(fs) : j - 1 \in 1..Len(es) /\ fs[j] = es[j - 1]
       /\ \A j \in 1..Len(fs) : j \in 1..(k - 1) \/ j = k \/ j \in (k + 1)..Len(fs)
  BY <1>0, <1>2
<1>3. ASSUME NEW n, n # e.name
      PROVE  Named(fs, n) = Named(es, n)
  <2> DEFINE i == IndexIn(es, n)
  <2>1. CASE i = 0
    <3>1. \A j \in 1..Len(es) : es[j].name # n
      BY <2>1, IndexFirst
    <3>2. \A j \in 1..Len(fs) : fs[j].name # n
      BY <1>2a, <1>3, <3>1
    <3>3. QED
      BY <1>2, <3>1, <3>2, NamedSame
  <2>2. CASE i # 0
    <3>1. i \in 1..Len(es) /\ es[i].name = n /\ \A j \in 1..(i - 1) : es[j].name # n
      BY <2>2, <1>0, IndexFirst
    <3> DEFINE h == IF i < k THEN i ELSE i + 1
    <3> HIDE DEF i
    <3>2. /\ h \in 1..Len(fs) /\ fs[h] = es[i]
          /\ \A j \in 1..(h - 1) : fs[j].name # n
      <4>1. CASE i < k
        BY <1>0, <1>2, <1>2a, <3>1, <4>1
      <4>2. CASE ~(i < k)
        <5>1. h = i + 1 /\ h \in (k + 1)..Len(fs) /\ h - 1 = i
          BY <1>0, <1>2, <3>1, <4>2
        <5>2. \A j \in 1..(h - 1) :
                 j \in 1..(k - 1) \/ j = k \/ (j \in (k + 1)..Len(fs) /\ j - 1 \in 1..(i - 1))
          BY <1>0, <1>2, <3>1, <5>1
        <5>3. \A j \in 1..(k - 1) : j \in 1..(i - 1)
          BY <1>0, <3>1, <4>2
        <5>4. ASSUME NEW j \in 1..(h - 1) PROVE fs[j].name # n
          <6>1. CASE j \in 1..(k - 1)
            BY <1>2a, <3>1, <5>3, <6>1
          <6>2. CASE j = k
            BY <1>2a, <1>3, <6>2
          <6>3. CASE j \in (k + 1)..Len(fs) /\ j - 1 \in 1..(i - 1)
            BY <1>2a, <3>1, <6>3
          <6>4. QED
            BY <5>2, <6>1, <6>2, <6>3
        <5>5. h \in 1..Len(fs) /\ fs[h] = es[i]
          BY <1>0, <1>2, <1>2a, <5>1
        <5>6. QED
          BY <5>4, <5>5
      <4>3. QED
        BY <4>1, <4>2
    <3> HIDE DEF h
    <3>3. QED
      <4>1. fs[h].name = n /\ es[i].ino = fs[h].ino
        BY <3>1, <3>2
      <4>2. \E x \in 1..Len(es), y \in 1..Len(fs) :
               /\ es[x].name = n /\ fs[y].name = n /\ es[x].ino = fs[y].ino
               /\ \A z \in 1..(x - 1) : es[z].name # n
               /\ \A z \in 1..(y - 1) : fs[z].name # n
        BY <3>1, <3>2, <4>1
      <4>3. QED
        BY <1>2, <4>2, NamedSame
  <2>3. QED
    BY <2>1, <2>2
<1>4. ASSUME IndexIn(es, e.name) = 0
      PROVE  Named(fs, e.name) = e.ino
  <2>1. \A j \in 1..Len(es) : es[j].name # e.name
    BY <1>4, IndexFirst
  <2>2. k \in 1..Len(fs) /\ fs[k] = e /\ \A j \in 1..(k - 1) : fs[j].name # e.name
    BY <1>0, <1>2, <2>1
  <2>3. IndexIn(fs, e.name) = k
    BY <1>2, <2>2, IndexIs
  <2>4. QED
    BY <1>0, <2>2, <2>3 DEF Named
<1>5. ASSUME IndexIn(es, e.name) = 0, Distinct(es)
      PROVE  Distinct(fs)
  <2>1. \A j \in 1..Len(es) : es[j].name # e.name
    BY <1>5, IndexFirst
  <2> SUFFICES ASSUME NEW i \in 1..Len(fs), NEW j \in 1..Len(fs), i < j,
                      fs[i].name = fs[j].name
               PROVE  FALSE
    BY <1>2 DEF Distinct
  <2>2. Len(fs) \in Nat /\ i \in Nat /\ j \in Nat
    BY <1>2
  <2>3. CASE j < k
    <3>1. i \in 1..Len(es) /\ j \in 1..Len(es) /\ fs[i] = es[i] /\ fs[j] = es[j] /\ i # j
      BY <1>0, <1>2, <2>2, <2>3
    <3>2. QED
      BY <1>5, <3>1 DEF Distinct
  <2>4. CASE j = k
    <3>1. i \in 1..Len(es) /\ fs[i] = es[i] /\ fs[j] = e
      BY <1>0, <1>2, <2>2, <2>4
    <3>2. QED
      BY <2>1, <3>1
  <2>5. CASE j > k /\ i < k
    <3>1. i \in 1..Len(es) /\ j - 1 \in 1..Len(es) /\ fs[i] = es[i] /\ fs[j] = es[j - 1] /\ i # j - 1
      BY <1>0, <1>2, <2>2, <2>5
    <3>2. QED
      BY <1>5, <3>1 DEF Distinct
  <2>6. CASE j > k /\ i = k
    <3>1. j - 1 \in 1..Len(es) /\ fs[j] = es[j - 1] /\ fs[i] = e
      BY <1>0, <1>2, <2>2, <2>6
    <3>2. QED
      BY <2>1, <3>1
  <2>7. CASE i > k
    <3>1. /\ i - 1 \in 1..Len(es) /\ j - 1 \in 1..Len(es) /\ fs[i] = es[i - 1] /\ fs[j] = es[j - 1]
          /\ i - 1 # j - 1
      BY <1>0, <1>2, <2>2, <2>7
    <3>2. QED
      BY <1>5, <3>1 DEF Distinct
  <2>8. QED
    BY <1>0, <2>2, <2>3, <2>4, <2>5, <2>6, <2>7
<1>6. QED
  BY <1>1, <1>2, <1>3, <1>4, <1>5

(* The first entry of a name may be taken away without harm to the others. *)
LEMMA NamedRemove ==
    ASSUME NEW es \in Seq(EntryRec), NEW m, IndexIn(es, m) # 0
    PROVE  /\ RemoveAt(es, IndexIn(es, m)) \in Seq(EntryRec)
           /\ \A n : n # m => Named(RemoveAt(es, IndexIn(es, m)), n) = Named(es, n)
           /\ Distinct(es) => Distinct(RemoveAt(es, IndexIn(es, m)))
<1> DEFINE k == IndexIn(es, m)
<1>0. Len(es) \in Nat /\ k \in 1..Len(es) /\ es[k].name = m
  BY IndexFirst
<1> HIDE DEF k
<1>1. PICK fs : fs = RemoveAt(es, k)
  OBVIOUS
<1>2. /\ fs \in Seq(EntryRec) /\ Len(fs) = Len(es) - 1
      /\ \A j \in 1..Len(fs) : fs[j] = IF j < k THEN es[j] ELSE es[j + 1]
  <2> DEFINE a == SubSeq(es, 1, k - 1)
             c == SubSeq(es, k + 1, Len(es))
  <2>1. /\ a \in Seq(EntryRec) /\ Len(a) = k - 1
        /\ \A j \in 1..(k - 1) : a[j] = es[j]
    BY <1>0, SubSeqProperties
  <2>2. /\ c \in Seq(EntryRec) /\ Len(c) = Len(es) - k
        /\ \A j \in 1..(Len(es) - k) : c[j] = es[k + j]
    BY <1>0, SubSeqProperties
  <2> HIDE DEF a, c
  <2>4. /\ a \o c \in Seq(EntryRec) /\ Len(a \o c) = Len(es) - 1
        /\ \A j \in 1..(Len(es) - 1) : (a \o c)[j] = IF j < k THEN a[j] ELSE c[j - (k - 1)]
    <3>1. /\ a \o c \in Seq(EntryRec) /\ Len(a \o c) = Len(a) + Len(c)
          /\ \A j \in 1..(Len(a) + Len(c)) :
                (a \o c)[j] = IF j <= Len(a) THEN a[j] ELSE c[j - Len(a)]
      BY <2>1, <2>2, ConcatProperties
    <3>2. Len(a) = k - 1 /\ Len(a) + Len(c) = Len(es) - 1 /\ k \in Nat
      BY <1>0, <2>1, <2>2
    <3>3. ASSUME NEW j \in 1..(Len(es) - 1)
          PROVE  (a \o c)[j] = IF j < k THEN a[j] ELSE c[j - (k - 1)]
      <4>1. (a \o c)[j] = IF j <= k - 1 THEN a[j] ELSE c[j - (k - 1)]
        BY <3>1, <3>2
      <4>2. j <= k - 1 <=> j < k
        BY <1>0, <3>2
      <4>3. QED
        BY <4>1, <4>2
    <3>4. QED
      BY <3>1, <3>2, <3>3
  <2>5. \A j \in k..(Len(es) - 1) : c[j - (k - 1)] = es[j + 1]
    BY <1>0, <2>2
  <2>6. fs = a \o c
    BY <1>1 DEF RemoveAt, a, c
  <2>7. ASSUME NEW j \in 1..(Len(es) - 1)
        PROVE  fs[j] = IF j < k THEN es[j] ELSE es[j + 1]
    <3>1. CASE j < k
      BY <1>0, <2>1, <2>4, <2>6, <3>1
    <3>2. CASE ~(j < k)
      BY <1>0, <2>4, <2>5, <2>6, <3>2
    <3>3. QED
      BY <3>1, <3>2
  <2>8. QED
    BY <2>4, <2>6, <2>7
<1>3. ASSUME NEW n, n # m
      PROVE  Named(fs, n) = Named(es, n)
  <2> DEFINE i == IndexIn(es, n)
  <2>1. CASE i = 0
    <3>1. \A j \in 1..Len(es) : es[j].name # n
      BY <2>1, IndexFirst
    <3>2. \A j \in 1..Len(fs) : fs[j].name # n
      BY <1>0, <1>2, <1>3, <3>1
    <3>3. QED
      BY <1>2, <3>1, <3>2, NamedSame
  <2>2. CASE i # 0
    <3>1. i \in 1..Len(es) /\ es[i].name = n /\ \A j \in 1..(i - 1) : es[j].name # n
      BY <2>2, <1>0, IndexFirst
    <3> DEFINE h == IF i < k THEN i ELSE i - 1
    <3> HIDE DEF i
    <3>2. i # k
      BY <1>0, <1>3, <3>1
    <3>3. /\ h \in 1..Len(fs) /\ fs[h] = es[i]
          /\ \A j \in 1..(h - 1) : fs[j].name # n
      <4>0. Len(es) \in Nat /\ k \in Nat /\ i \in Nat /\ Len(fs) = Len(es) - 1
        BY <1>0, <1>2, <3>1
      <4>1. CASE i < k
        <5>1. h = i
          BY <4>1
        <5>2. i \in 1..(Len(es) - 1)
          BY <1>0, <3>1, <4>0, <4>1
        <5>3. fs[i] = es[i]
          BY <1>2, <4>1, <5>2
        <5>4. ASSUME NEW j \in 1..(i - 1) PROVE fs[j].name # n
          <6>1. j \in 1..(Len(es) - 1) /\ j < k
            BY <4>0, <4>1, <5>2
          <6>2. fs[j] = es[j]
            BY <1>2, <6>1
          <6>3. QED
            BY <3>1, <6>2
        <5>5. QED
          BY <4>0, <5>1, <5>2, <5>3, <5>4
      <4>2. CASE ~(i < k)
        <5>1. h = i - 1
          BY <4>2
        <5>2. i - 1 \in 1..(Len(es) - 1) /\ ~(i - 1 < k) /\ (i - 1) + 1 = i
          BY <1>0, <3>1, <3>2, <4>0, <4>2
        <5>3. fs[i - 1] = es[i]
          BY <1>2, <5>2
        <5>4. ASSUME NEW j \in 1..((i - 1) - 1) PROVE fs[j].name # n
          <6>1. /\ j \in 1..(Len(es) - 1) /\ j \in 1..(i - 1)
                /\ j + 1 \in 1..(i - 1)
            BY <4>0, <5>2
          <6>2. fs[j] = es[j] \/ fs[j] = es[j + 1]
            BY <1>2, <6>1
          <6>3. QED
            BY <3>1, <6>1, <6>2
        <5>5. QED
          BY <4>0, <5>1, <5>2, <5>3, <5>4
      <4>3. QED
        BY <4>1, <4>2
    <3> HIDE DEF h
    <3>4. QED
      <4>1. fs[h].name = n /\ es[i].ino = fs[h].ino
        BY <3>1, <3>3
      <4>2. \E x \in 1..Len(es), y \in 1..Len(fs) :
               /\ es[x].name = n /\ fs[y].name = n /\ es[x].ino = fs[y].ino
               /\ \A z \in 1..(x - 1) : es[z].name # n
               /\ \A z \in 1..(y - 1) : fs[z].name # n
        BY <3>1, <3>3, <4>1
      <4>3. QED
        BY <1>2, <4>2, NamedSame
  <2>3. QED
    BY <2>1, <2>2
<1>5. ASSUME Distinct(es) PROVE Distinct(fs)
  <2> SUFFICES ASSUME NEW i \in 1..Len(fs), NEW j \in 1..Len(fs), i < j,
                      fs[i].name = fs[j].name
               PROVE  FALSE
    BY <1>2 DEF Distinct
  <2> DEFINE from(x) == IF x < k THEN x ELSE x + 1
  <2>1. from(i) \in 1..Len(es) /\ from(j) \in 1..Len(es) /\ from(i) # from(j)
    BY <1>0, <1>2
  <2>2. fs[i] = es[from(i)] /\ fs[j] = es[from(j)]
    BY <1>2
  <2> HIDE DEF from
  <2>3. QED
    BY <1>5, <2>1, <2>2 DEF Distinct
<1>6. QED
  BY <1>1, <1>2, <1>3, <1>5 DEF k

(* The first entry of a name may be replaced by another of that name. *)
LEMMA NamedReplace ==
    ASSUME NEW es \in Seq(EntryRec), NEW e \in EntryRec, IndexIn(es, e.name) # 0
    PROVE  /\ [es EXCEPT ![IndexIn(es, e.name)] = e] \in Seq(EntryRec)
           /\ \A n : n # e.name =>
                 Named([es EXCEPT ![IndexIn(es, e.name)] = e], n) = Named(es, n)
           /\ IndexIn([es EXCEPT ![IndexIn(es, e.name)] = e], e.name) # 0
           /\ Distinct(es) => Distinct([es EXCEPT ![IndexIn(es, e.name)] = e])
<1> DEFINE k == IndexIn(es, e.name)
<1>0. Len(es) \in Nat /\ k \in 1..Len(es) /\ es[k].name = e.name
  BY IndexFirst
<1> HIDE DEF k
<1>1. PICK fs : fs = [es EXCEPT ![k] = e]
  OBVIOUS
<1>2. /\ fs \in Seq(EntryRec) /\ Len(fs) = Len(es)
      /\ \A j \in 1..Len(fs) : fs[j] = IF j = k THEN e ELSE es[j]
  BY <1>0, <1>1, ExceptSeq
<1>3. ASSUME NEW n, n # e.name
      PROVE  Named(fs, n) = Named(es, n)
  <2> DEFINE i == IndexIn(es, n)
  <2>1. CASE i = 0
    <3>1. \A j \in 1..Len(es) : es[j].name # n
      BY <2>1, IndexFirst
    <3>2. \A j \in 1..Len(fs) : fs[j].name # n
      BY <1>0, <1>2, <1>3, <3>1
    <3>3. QED
      BY <1>2, <3>1, <3>2, NamedSame
  <2>2. CASE i # 0
    <3>1. i \in 1..Len(es) /\ es[i].name = n /\ \A j \in 1..(i - 1) : es[j].name # n
      BY <2>2, <1>0, IndexFirst
    <3> HIDE DEF i
    <3>2. i # k
      BY <1>0, <1>3, <3>1
    <3>3. /\ i \in 1..Len(fs) /\ fs[i] = es[i]
          /\ \A j \in 1..(i - 1) : fs[j].name # n
      BY <1>0, <1>2, <1>3, <3>1, <3>2
    <3>4. QED
      BY <1>2, <3>1, <3>3, NamedSame
  <2>3. QED
    BY <2>1, <2>2
<1>4. IndexIn(fs, e.name) # 0
  <2>1. k \in 1..Len(fs) /\ fs[k].name = e.name
    BY <1>0, <1>2
  <2>2. QED
    BY <1>2, <2>1, IndexFirst
<1>5. ASSUME Distinct(es) PROVE Distinct(fs)
  <2>1. \A j \in 1..Len(es) : fs[j].name = es[j].name
    BY <1>0, <1>2
  <2>2. QED
    BY <1>2, <1>5, <2>1 DEF Distinct
<1>6. QED
  BY <1>1, <1>2, <1>3, <1>4, <1>5 DEF k

-----------------------------------------------------------------------------
(* The tree.                                                               *)

TreeOf == [Inos -> Seq(EntryRec)]

(* What a name stands for in a directory. *)
LEMMA ChildNamed ==
    ASSUME NEW D, NEW d, NEW n
    PROVE  Child(D, d, n) = IF d = NoIno THEN NoIno ELSE Named(D[d], n)
BY DEF Child, Named

(* It is an inode, or there is none. *)
LEMMA ChildType ==
    ASSUME NEW D \in TreeOf, NEW d \in Inos \cup {NoIno}, NEW n
    PROVE  Child(D, d, n) \in Inos \cup {NoIno}
<1>1. CASE d = NoIno
  BY <1>1, ChildNamed
<1>2. CASE d # NoIno
  <2>1. D[d] \in Seq(EntryRec)
    BY <1>2 DEF TreeOf
  <2>2. PICK es \in Seq(EntryRec) : es = D[d]
    BY <2>1
  <2>3. IndexIn(es, n) # 0 => IndexIn(es, n) \in 1..Len(es) /\ es[IndexIn(es, n)] \in EntryRec
    BY IndexFirst
  <2>4. Named(es, n) \in Inos \cup {NoIno}
    BY <2>3 DEF Named, EntryRec
  <2>5. QED
    BY <1>2, <2>2, <2>4, ChildNamed
<1>3. QED
  BY <1>1, <1>2

(* So does a path go through inodes. *)
LEMMA ThroughType ==
    ASSUME NEW D \in TreeOf, NEW N, NEW p \in Seq(N)
    PROVE  /\ \A k \in 0..Len(p) : Through(D, p)[k] \in Inos \cup {NoIno}
           /\ ResolveIn(D, p) \in Inos \cup {NoIno}
<1> DEFINE S == {k \in 0..Len(p) : Through(D, p)[k] \in Inos \cup {NoIno}}
<1>0. Len(p) \in Nat
  OBVIOUS
<1>1. 0 \in S
  BY <1>0, ThroughDef, TreeAssumption
<1>2. ASSUME NEW k \in 0..Len(p), k + 1 \in 0..Len(p), k \in S
      PROVE  k + 1 \in S
  <2>1. k + 1 \in 1..Len(p) /\ (k + 1) - 1 = k
    BY <1>0, <1>2
  <2>2. Through(D, p)[k + 1] = Child(D, Through(D, p)[k], p[k + 1])
    BY <1>0, <2>1, ThroughDef
  <2>3. QED
    BY <1>2, <2>2, ChildType
<1>3. 0..Len(p) \subseteq S
  BY <1>0, <1>1, <1>2, Climb
<1>4. QED
  BY <1>0, <1>3 DEF ResolveIn

(* The entries on a path. *)
LEMMA EdgesAre ==
    ASSUME NEW N, NEW p \in Seq(N)
    PROVE  /\ Edges(p) = {<<Through(dir, p)[k - 1], p[k]>> : k \in 1..Len(p)}
           /\ p # << >> => Entry(p) = <<Through(dir, p)[Len(p) - 1], p[Len(p)]>>
           /\ p # << >> => Parent(p) = Through(dir, p)[Len(p) - 1]
<1>0. Len(p) \in Nat /\ DOMAIN p = 1..Len(p)
  OBVIOUS
<1>1. ASSUME NEW q \in Seq(N), q # << >>, Len(q) <= Len(p), \A k \in 1..Len(q) : q[k] = p[k]
      PROVE  /\ Parent(q) = Through(dir, p)[Len(q) - 1]
             /\ Entry(q) = <<Through(dir, p)[Len(q) - 1], p[Len(q)]>>
  <2>1. Len(q) \in Nat /\ Len(q) # 0 /\ Len(q) - 1 \in 0..Len(p)
    BY <1>0, <1>1
  <2>2. /\ Front(q) \in Seq(N) /\ Len(Front(q)) = Len(q) - 1
        /\ \A k \in 1..(Len(q) - 1) : Front(q)[k] = q[k]
    <3> DEFINE m == Len(q) - 1
    <3>1. m \in Nat /\ m <= Len(q)
      BY <2>1
    <3> HIDE DEF m
    <3>2. /\ SubSeq(q, 1, m) \in Seq(N) /\ Len(SubSeq(q, 1, m)) = m
          /\ \A k \in 1..m : SubSeq(q, 1, m)[k] = q[k]
      BY <2>1, <3>1, SubSeqProperties
    <3>3. QED
      BY <3>1, <3>2 DEF Front, m
  <2>3. Through(dir, Front(q))[Len(q) - 1] = Through(dir, p)[Len(q) - 1]
    <3>1. Len(q) - 1 \in 0..Len(Front(q)) /\ Len(Front(q)) <= Len(p)
      BY <1>0, <1>1, <2>1, <2>2
    <3>2. \A k \in 1..Len(Front(q)) : Front(q)[k] = p[k]
      BY <1>1, <2>1, <2>2
    <3>3. QED
      BY <2>2, <3>1, <3>2, ThroughPrefix
  <2>4. Parent(q) = Through(dir, p)[Len(q) - 1]
    BY <2>2, <2>3 DEF Parent, Resolve, ResolveIn
  <2>5. Last(q) = p[Len(q)]
    BY <1>1, <2>1 DEF Last
  <2>6. QED
    BY <2>4, <2>5 DEF Entry
<1>2. ASSUME NEW k \in 1..Len(p)
      PROVE  Entry(SubSeq(p, 1, k)) = <<Through(dir, p)[k - 1], p[k]>>
  <2>1. /\ SubSeq(p, 1, k) \in Seq(N) /\ Len(SubSeq(p, 1, k)) = k
        /\ \A j \in 1..k : SubSeq(p, 1, k)[j] = p[j]
    BY <1>0, SubSeqProperties
  <2>2. PICK q \in Seq(N) : q = SubSeq(p, 1, k)
    BY <2>1
  <2>3. Len(q) = k /\ k <= Len(p) /\ q # << >> /\ \A j \in 1..Len(q) : q[j] = p[j]
    BY <1>0, <2>1, <2>2
  <2>4. QED
    BY <1>1, <2>2, <2>3
<1>3. Edges(p) = {<<Through(dir, p)[k - 1], p[k]>> : k \in 1..Len(p)}
  BY <1>0, <1>2 DEF Edges
<1>4. QED
  BY <1>0, <1>1, <1>3

(* Names outside of C stand for the same.                                  *)
Agree(E, C) ==
    \A d \in Inos : \A n : <<d, n>> \notin C => Child(E, d, n) = Child(dir, d, n)

(* A path on which no entry has changed names the same. *)
LEMMA Stable ==
    ASSUME dir \in TreeOf, NEW E, NEW C, Agree(E, C), NEW N, NEW p \in Seq(N),
           Edges(p) \cap C = {}
    PROVE  /\ \A k \in 0..Len(p) : Through(E, p)[k] = Through(dir, p)[k]
           /\ ResolveIn(E, p) = Resolve(p)
<1> DEFINE S == {k \in 0..Len(p) : Through(E, p)[k] = Through(dir, p)[k]}
<1>0. Len(p) \in Nat
  OBVIOUS
<1>1. 0 \in S
  BY <1>0, ThroughDef
<1>2. ASSUME NEW k \in 0..Len(p), k + 1 \in 0..Len(p), k \in S
      PROVE  k + 1 \in S
  <2>1. k + 1 \in 1..Len(p) /\ (k + 1) - 1 = k
    BY <1>0, <1>2
  <2> DEFINE x == Through(dir, p)[k]
             n == p[k + 1]
  <2>2. Through(E, p)[k + 1] = Child(E, x, n) /\ Through(dir, p)[k + 1] = Child(dir, x, n)
    BY <1>0, <1>2, <2>1, ThroughDef
  <2>3. <<x, n>> \in Edges(p)
    BY <2>1, EdgesAre
  <2>4. x \in Inos \cup {NoIno}
    BY ThroughType
  <2> HIDE DEF x, n
  <2>5. Child(E, x, n) = Child(dir, x, n)
    <3>1. CASE x = NoIno
      BY <3>1, ChildNamed
    <3>2. CASE x \in Inos
      BY <2>3, <3>2 DEF Agree
    <3>3. QED
      BY <2>4, <3>1, <3>2
  <2>6. QED
    BY <1>2, <2>2, <2>5
<1>3. 0..Len(p) \subseteq S
  BY <1>0, <1>1, <1>2, Climb
<1>4. QED
  BY <1>0, <1>3 DEF Resolve, ResolveIn

(* The last step of a path. *)
LEMMA LastStep ==
    ASSUME NEW D, NEW N, NEW p \in Seq(N), p # << >>
    PROVE  /\ Front(p) \in Seq(N) /\ Last(p) \in N
           /\ Len(Front(p)) = Len(p) - 1
           /\ \A k \in 1..(Len(p) - 1) : Front(p)[k] = p[k]
           /\ ResolveIn(D, p) = Child(D, ResolveIn(D, Front(p)), Last(p))
<1> DEFINE m == Len(p) - 1
<1>1. Len(p) \in Nat /\ m \in Nat /\ m <= Len(p) /\ Len(p) \in 1..Len(p)
  OBVIOUS
<1>2. Last(p) \in N /\ Last(p) = p[Len(p)]
  BY <1>1 DEF Last
<1> HIDE DEF m
<1>3. /\ Front(p) \in Seq(N) /\ Len(Front(p)) = m
      /\ \A k \in 1..m : Front(p)[k] = p[k]
  <2>1. /\ SubSeq(p, 1, m) \in Seq(N) /\ Len(SubSeq(p, 1, m)) = m
        /\ \A k \in 1..m : SubSeq(p, 1, m)[k] = p[k]
    BY <1>1, SubSeqProperties
  <2>2. QED
    BY <2>1 DEF Front, m
<1>4. Through(D, Front(p))[m] = Through(D, p)[m]
  <2>1. m \in 0..Len(Front(p)) /\ Len(Front(p)) <= Len(p)
    BY <1>1, <1>3
  <2>2. QED
    BY <1>3, <2>1, ThroughPrefix
<1>5. Through(D, p)[Len(p)] = Child(D, Through(D, p)[m], p[Len(p)])
  BY <1>1, ThroughDef DEF m
<1>6. QED
  BY <1>2, <1>3, <1>4, <1>5 DEF ResolveIn, m

(* There is a least inode that is free, if there is one. *)
LEMMA FreshFree ==
    ASSUME Unused # {}
    PROVE  Fresh \in Inos /\ kind[Fresh] = "free"
<1>1. Unused \in SUBSET Nat
  BY TreeAssumption DEF Unused
<1>2. \E i \in Unused : \A j \in Unused : i <= j
  BY <1>1, Least
<1>3. Fresh \in Unused
  BY <1>2 DEF Fresh
<1>4. QED
  BY <1>3 DEF Unused

(* An entry is made: its path names the new inode, and no other entry has  *)
(* changed.                                                                *)
LEMMA Made ==
    ASSUME TreeInv, NEW p \in Seq(Names), p # << >>, IsDir(Parent(p)), Resolve(p) = NoIno,
           NEW as \in {"dir", "file"}, MakeEntry(p, as)
    PROVE  /\ TreeInv' /\ Fresh \in Inos
           /\ Agree(dir', {Entry(p)}) /\ Resolve(p)' = Fresh
<1> DEFINE d == Parent(p)
           n == Last(p)
           e == [name |-> n, ino |-> Fresh]
<1>0. dir \in TreeOf
  BY DEF TreeInv, TreeOf
<1>1. /\ Front(p) \in Seq(Names) /\ n \in Names
      /\ Len(Front(p)) = Len(p) - 1
      /\ \A k \in 1..(Len(p) - 1) : Front(p)[k] = p[k]
      /\ NoIno = Child(dir, d, n)
      /\ Resolve(p)' = Child(dir', ResolveIn(dir', Front(p)), n)
  BY LastStep DEF Resolve, Parent
<1>2. d \in Inos /\ kind[d] = "dir" /\ d = Resolve(Front(p)) /\ d # NoIno
  <2>1. d \in Inos \cup {NoIno}
    BY <1>0, <1>1, ThroughType DEF Parent, Resolve
  <2>2. QED
    BY <2>1 DEF IsDir, Parent
<1>3. Fresh \in Inos /\ kind[Fresh] = "free" /\ kind' = [kind EXCEPT ![Fresh] = as]
  BY FreshFree DEF MakeEntry
<1>4. PICK k \in 1..(Len(dir[d]) + 1) : dir' = [dir EXCEPT ![d] = InsertAt(dir[d], k, e)]
  BY DEF MakeEntry, Places
<1>5. e \in EntryRec /\ dir[d] \in Seq(EntryRec) /\ e.name = n /\ e.ino = Fresh
  BY <1>1, <1>2, <1>3 DEF EntryRec, TreeInv
<1> HIDE DEF d, n, e
<1>6. IndexIn(dir[d], n) = 0
  <2>1. Named(dir[d], n) = NoIno
    BY <1>1, <1>2, ChildNamed
  <2>2. IndexIn(dir[d], n) # 0 => dir[d][IndexIn(dir[d], n)] \in EntryRec
    BY <1>5, IndexFirst
  <2>3. QED
    BY <2>1, <2>2, TreeAssumption DEF Named, EntryRec
<1>7. PICK fs : fs = InsertAt(dir[d], k, e)
  OBVIOUS
<1>8. /\ fs \in Seq(EntryRec) /\ Named(fs, n) = Fresh
      /\ \A m : m # n => Named(fs, m) = Named(dir[d], m)
      /\ Distinct(fs)
  <2>1. PICK es \in Seq(EntryRec) : es = dir[d]
    BY <1>5
  <2>2. k \in 1..(Len(es) + 1) /\ fs = InsertAt(es, k, e) /\ IndexIn(es, e.name) = 0
    BY <1>5, <1>6, <1>7, <2>1
  <2>3. PICK x \in EntryRec : x = e
    BY <1>5
  <2>4. /\ InsertAt(es, k, x) \in Seq(EntryRec)
        /\ \A m : m # x.name => Named(InsertAt(es, k, x), m) = Named(es, m)
        /\ Named(InsertAt(es, k, x), x.name) = x.ino
        /\ Distinct(es) => Distinct(InsertAt(es, k, x))
    BY <1>5, <2>2, <2>3, NamedInsert
  <2>4a. Distinct(es)
    BY <1>2, <2>1 DEF TreeInv, DistinctNames
  <2>5. QED
    BY <1>5, <2>1, <2>2, <2>3, <2>4, <2>4a
<1>9. dir' = [dir EXCEPT ![d] = fs]
  BY <1>4, <1>7
<1>10. dir'[d] = fs /\ dir' \in TreeOf /\ \A i \in Inos \ {d} : dir'[i] = dir[i]
  BY <1>0, <1>2, <1>8, <1>9 DEF TreeOf
<1>11. TreeInv'
  <2>1. kind' \in [Inos -> {"dir", "file", "free"}]
    BY <1>3 DEF TreeInv
  <2>2. ASSUME NEW i \in Inos, kind'[i] # "dir" PROVE dir'[i] = << >>
    <3>1. i # d
      BY <1>2, <1>3, <2>2 DEF TreeInv
    <3>2. kind[i] # "dir"
      BY <1>3, <2>2 DEF TreeInv
    <3>3. QED
      BY <1>10, <3>1, <3>2 DEF TreeInv
  <2>3. DistinctNames'
    BY <1>8, <1>10 DEF TreeInv, DistinctNames
  <2>4. QED
    BY <1>10, <2>1, <2>2, <2>3 DEF TreeInv, TreeOf
<1>12. Entry(p) = <<d, n>>
  BY DEF Entry, d, n
<1>13. ASSUME NEW c \in Inos, NEW m, <<c, m>> # <<d, n>>
       PROVE  Child(dir', c, m) = Child(dir, c, m)
  <2>1. Named(dir'[c], m) = Named(dir[c], m)
    BY <1>8, <1>10, <1>13
  <2>2. QED
    BY <2>1, ChildNamed
<1>14. Agree(dir', {Entry(p)})
  BY <1>12, <1>13 DEF Agree
<1>15. ResolveIn(dir', Front(p)) = d
  <2>1. Edges(Front(p)) \cap {Entry(p)} = {}
    <3>1. SUFFICES ASSUME NEW j \in 1..Len(Front(p)),
                          <<Through(dir, Front(p))[j - 1], Front(p)[j]>> = <<d, n>>
                   PROVE  FALSE
      BY <1>1, <1>12, EdgesAre
    <3>2. Len(Front(p)) \in Nat /\ j \in 0..Len(Front(p))
      BY <1>1
    <3>3. Through(dir, Front(p))[j] = NoIno
      <4>1. Through(dir, Front(p))[j]
              = Child(dir, Through(dir, Front(p))[j - 1], Front(p)[j])
        BY <3>2, ThroughDef
      <4>2. Through(dir, Front(p))[j - 1] = d /\ Front(p)[j] = n
        BY <3>1
      <4>3. QED
        BY <1>1, <4>1, <4>2
    <3>4. Through(dir, Front(p))[Len(Front(p))] # NoIno
      BY <1>2 DEF Resolve, ResolveIn
    <3>5. QED
      BY <1>1, <3>2, <3>3, <3>4, ThroughLost
  <2>2. QED
    BY <1>0, <1>1, <1>2, <1>14, <2>1, Stable
<1>16. Resolve(p)' = Fresh
  BY <1>1, <1>2, <1>8, <1>10, <1>15, ChildNamed
<1>17. QED
  BY <1>3, <1>11, <1>14, <1>16

(* An entry is removed, and no other has changed. *)
LEMMA Dropped ==
    ASSUME TreeInv, NEW p \in Seq(Names), p # << >>, Resolve(p) # NoIno, DropEntry(p)
    PROVE  TreeInv' /\ Agree(dir', {Entry(p)})
<1> DEFINE d == Parent(p)
           n == Last(p)
<1>0. dir \in TreeOf
  BY DEF TreeInv, TreeOf
<1>1. Front(p) \in Seq(Names) /\ Child(dir, d, n) # NoIno
  BY LastStep DEF Resolve, Parent
<1>2. d \in Inos
  <2>1. d \in Inos \cup {NoIno}
    BY <1>0, <1>1, ThroughType DEF Parent, Resolve
  <2>2. QED
    BY <1>1, <2>1, ChildNamed
<1>3. dir' = [dir EXCEPT ![d] = RemoveAt(dir[d], IndexIn(dir[d], n))] /\ kind' = kind
  BY DEF DropEntry
<1> HIDE DEF d, n
<1>4. dir[d] \in Seq(EntryRec) /\ IndexIn(dir[d], n) # 0
  BY <1>0, <1>1, <1>2 DEF Child, TreeOf
<1>5. PICK fs : fs = RemoveAt(dir[d], IndexIn(dir[d], n))
  OBVIOUS
<1>6. /\ fs \in Seq(EntryRec) /\ \A m : m # n => Named(fs, m) = Named(dir[d], m)
      /\ Distinct(fs)
  BY <1>2, <1>4, <1>5, NamedRemove DEF TreeInv, DistinctNames
<1>7. dir'[d] = fs /\ dir' \in TreeOf /\ \A i \in Inos \ {d} : dir'[i] = dir[i]
  BY <1>0, <1>2, <1>3, <1>5, <1>6 DEF TreeOf
<1>8. TreeInv'
  <2>1. dir[d] # << >>
    BY <1>4, IndexFirst
  <2>2. kind[d] = "dir"
    BY <1>2, <2>1 DEF TreeInv
  <2>3. DistinctNames'
    BY <1>6, <1>7 DEF TreeInv, DistinctNames
  <2>4. QED
    BY <1>3, <1>7, <2>2, <2>3 DEF TreeInv, TreeOf
<1>9. ASSUME NEW c \in Inos, NEW m, <<c, m>> # <<d, n>>
      PROVE  Child(dir', c, m) = Child(dir, c, m)
  <2>1. Named(dir'[c], m) = Named(dir[c], m)
    BY <1>6, <1>7, <1>9
  <2>2. QED
    BY <2>1, ChildNamed
<1>10. Entry(p) = <<d, n>>
  BY DEF Entry, d, n
<1>11. QED
  BY <1>8, <1>9, <1>10 DEF Agree

(* An entry is moved, and none but the old and the new one has changed. *)
LEMMA Renamed ==
    ASSUME TreeInv, NEW p \in Seq(Names), p # << >>, NEW q \in Seq(Names), q # << >>,
           MayRename(p, q), RenameEntry(p, q)
    PROVE  /\ TreeInv'
           /\ p = q => dir' = dir
           /\ Agree(dir', {Entry(p), Entry(q)})
<1> DEFINE c == Parent(p)
           d == Parent(q)
           m == Last(p)
           n == Last(q)
           e == [name |-> n, ino |-> Resolve(p)]
<1>0. dir \in TreeOf
  BY DEF TreeInv, TreeOf
<1>1. /\ Front(p) \in Seq(Names) /\ Front(q) \in Seq(Names) /\ n \in Names
      /\ Resolve(p) = Child(dir, c, m) /\ Resolve(q) = Child(dir, d, n)
  BY LastStep DEF Resolve, Parent
<1>2. c \in Inos \cup {NoIno} /\ d \in Inos \cup {NoIno} /\ Resolve(p) \in Inos \cup {NoIno}
  BY <1>0, <1>1, ThroughType DEF Parent, Resolve
<1>3. /\ c \in Inos /\ d \in Inos /\ kind[d] = "dir"
      /\ Resolve(p) \in Inos /\ Resolve(p) # NoIno
  BY <1>1, <1>2, ChildNamed DEF MayRename, IsDir
<1>4. e \in EntryRec /\ e.name = n
  BY <1>1, <1>3 DEF EntryRec
<1>5. Entry(p) = <<c, m>> /\ Entry(q) = <<d, n>>
  BY DEF Entry
<1>6. kind' = kind
  BY DEF RenameEntry
<1>7. CASE p = q
  <2>1. dir' = dir
    BY <1>7 DEF RenameEntry
  <2>2. QED
    BY <1>6, <2>1 DEF TreeInv, DistinctNames, Agree
<1>8. CASE p # q
  <2> DEFINE into(es, k) == IF Resolve(q) = NoIno THEN InsertAt(es, k, e)
                            ELSE [es EXCEPT ![IndexIn(es, n)] = e]
  <2>1. PICK k \in 1..(Len(dir[d]) + 1) :
          dir' = [[dir EXCEPT ![d] = into(dir[d], k)]
                    EXCEPT ![c] = RemoveAt(@, IndexIn(@, m))]
    BY <1>8 DEF RenameEntry, Places
  <2>2. PICK es \in Seq(EntryRec) : es = dir[d]
    BY <1>0, <1>3 DEF TreeOf
  <2>3. PICK fs : fs = into(es, k)
    OBVIOUS
  <2>4. PICK x \in EntryRec : x = e
    BY <1>4
  <2> HIDE DEF c, d, m, n, e
  <2>5. Resolve(q) = Named(es, n)
    BY <1>1, <1>3, <2>2, TreeAssumption, ChildNamed
  <2>6. Resolve(q) = NoIno => IndexIn(es, n) = 0
    <3>1. IndexIn(es, n) # 0 => es[IndexIn(es, n)] \in EntryRec
      BY IndexFirst
    <3>2. QED
      BY <2>5, <3>1, TreeAssumption DEF Named, EntryRec
  <2>7. Resolve(q) # NoIno => IndexIn(es, n) # 0
    BY <2>5 DEF Named
  <2>7a. Distinct(es)
    BY <1>3, <2>2 DEF TreeInv, DistinctNames
  <2>8. /\ fs \in Seq(EntryRec) /\ IndexIn(fs, n) # 0 /\ Distinct(fs)
        /\ \A o : o # n => Named(fs, o) = Named(es, o)
    <3>1. CASE Resolve(q) = NoIno
      <4>1. fs = InsertAt(es, k, x) /\ IndexIn(es, x.name) = 0 /\ k \in 1..(Len(es) + 1)
        BY <1>4, <2>2, <2>3, <2>4, <2>6, <3>1
      <4>2. /\ InsertAt(es, k, x) \in Seq(EntryRec)
            /\ \A o : o # x.name => Named(InsertAt(es, k, x), o) = Named(es, o)
            /\ Named(InsertAt(es, k, x), x.name) = x.ino /\ Distinct(InsertAt(es, k, x))
        BY <2>7a, <4>1, NamedInsert
      <4>3. x.ino # NoIno
        BY TreeAssumption DEF EntryRec
      <4>4. IndexIn(fs, x.name) # 0
        BY <4>1, <4>2, <4>3 DEF Named
      <4>5. QED
        BY <1>4, <2>4, <4>1, <4>2, <4>4
    <3>2. CASE Resolve(q) # NoIno
      <4>1. fs = [es EXCEPT ![IndexIn(es, x.name)] = x] /\ IndexIn(es, x.name) # 0
        BY <1>4, <2>3, <2>4, <2>7, <3>2
      <4>2. /\ [es EXCEPT ![IndexIn(es, x.name)] = x] \in Seq(EntryRec)
            /\ \A o : o # x.name =>
                  Named([es EXCEPT ![IndexIn(es, x.name)] = x], o) = Named(es, o)
            /\ IndexIn([es EXCEPT ![IndexIn(es, x.name)] = x], x.name) # 0
            /\ Distinct([es EXCEPT ![IndexIn(es, x.name)] = x])
        BY <2>7a, <4>1, NamedReplace
      <4>3. x.name = n
        BY <1>4, <2>4
      <4>4. QED
        BY <4>1, <4>2, <4>3
    <3>3. QED
      BY <3>1, <3>2
  <2>9. PICK E : E = [dir EXCEPT ![d] = fs]
    OBVIOUS
  <2>10. E[d] = fs /\ E \in TreeOf /\ \A i \in Inos \ {d} : E[i] = dir[i]
    BY <1>0, <1>3, <2>8, <2>9 DEF TreeOf
  <2>11. PICK gs \in Seq(EntryRec) : gs = E[c]
    BY <1>3, <2>10 DEF TreeOf
  <2>12. IndexIn(gs, m) # 0
    <3>1. Named(dir[c], m) # NoIno
      BY <1>1, <1>3, TreeAssumption, ChildNamed
    <3>2. CASE c = d /\ m = n
      BY <2>8, <2>10, <2>11, <3>2
    <3>3. CASE c = d /\ m # n
      <4>1. Named(gs, m) # NoIno
        BY <2>2, <2>8, <2>10, <2>11, <3>1, <3>3
      <4>2. QED
        BY <4>1 DEF Named
    <3>4. CASE c # d
      <4>1. Named(gs, m) # NoIno
        BY <1>3, <2>10, <2>11, <3>1, <3>4
      <4>2. QED
        BY <4>1 DEF Named
    <3>5. QED
      BY <3>2, <3>3, <3>4
  <2>13. PICK hs : hs = RemoveAt(gs, IndexIn(gs, m))
    OBVIOUS
  <2>13a. Distinct(gs)
    BY <1>3, <2>8, <2>10, <2>11 DEF TreeInv, DistinctNames
  <2>14. /\ hs \in Seq(EntryRec) /\ \A o : o # m => Named(hs, o) = Named(gs, o)
         /\ Distinct(hs)
    BY <2>12, <2>13, <2>13a, NamedRemove
  <2>15. dir' = [E EXCEPT ![c] = hs]
    BY <2>1, <2>2, <2>3, <2>9, <2>11, <2>13
  <2>16. dir'[c] = hs /\ dir' \in TreeOf /\ \A i \in Inos \ {c} : dir'[i] = E[i]
    BY <1>3, <2>10, <2>14, <2>15 DEF TreeOf
  <2>17. ASSUME NEW b \in Inos, NEW o, <<b, o>> # <<c, m>>, <<b, o>> # <<d, n>>
         PROVE  Child(dir', b, o) = Child(dir, b, o)
    <3>1. Named(E[b], o) = Named(dir[b], o)
      BY <2>2, <2>8, <2>10, <2>17
    <3>2. Named(dir'[b], o) = Named(E[b], o)
      BY <2>11, <2>14, <2>16, <2>17
    <3>3. QED
      BY <3>1, <3>2, ChildNamed
  <2>18. Agree(dir', {Entry(p), Entry(q)})
    BY <1>5, <2>17 DEF Agree
  <2>19. TreeInv'
    <3>1. kind[c] = "dir"
      <4>1. CASE c = d
        BY <1>3, <4>1
      <4>2. CASE c # d
        <5>1. gs = dir[c] /\ gs # << >>
          BY <1>3, <2>10, <2>11, <2>12, <4>2, IndexFirst
        <5>2. QED
          BY <1>3, <5>1 DEF TreeInv
      <4>3. QED
        BY <4>1, <4>2
    <3>2. \A i \in Inos : kind'[i] # "dir" => dir'[i] = << >>
      <4> SUFFICES ASSUME NEW i \in Inos, kind'[i] # "dir" PROVE dir'[i] = << >>
        OBVIOUS
      <4>1. i # c /\ i # d /\ kind[i] # "dir"
        BY <1>3, <1>6, <3>1
      <4>2. dir'[i] = dir[i]
        BY <2>10, <2>16, <4>1
      <4>3. QED
        BY <4>1, <4>2 DEF TreeInv
    <3>3. DistinctNames'
      BY <2>8, <2>10, <2>14, <2>16 DEF TreeInv, DistinctNames
    <3>4. QED
      BY <1>6, <2>16, <3>2, <3>3 DEF TreeInv, TreeOf
  <2>20. QED
    BY <1>8, <2>18, <2>19
<1>9. QED
  BY <1>7, <1>8
=============================================================================
