--------------------------- MODULE PageListProofs ---------------------------
(***************************************************************************)
(* Proofs about PageList, for every number of rows, page capacity, budget  *)
(* and history: what PageList::verify_integrity and Screen::assert_        *)
(* integrity check holds in every state, the scrollbar lands where it is   *)
(* dragged, and tracked pins stay on their rows.                           *)
(*                                                                         *)
(* The argument.  A list has a layout: numbers A[i] of rows above its pages *)
(* and the sequence R of its rows, which Above, AllRows and Offset compute  *)
(* by folds.  The layout is unique, so an operation is understood once the  *)
(* layout of what it makes is given.  A list is Good when its pages are     *)
(* well-formed, no row is there twice, each pin is valid, the viewport's    *)
(* cached offset is exact and the viewport is not below the active area.    *)
(* Each operation makes a good list of a good one, and in it every pin is   *)
(* on the row that it was on unless the row is gone (Kept).                 *)
(***************************************************************************)
EXTENDS PageList, FiniteSets, SequenceTheorems, TLAPS

PageType == [id : Nat, serial : Nat, size : Nat, rows : Seq(Nat)]
PinType == [page : Nat, y : Nat, garbage : BOOLEAN]

(* The parts of a page.                                                    *)
LEMMA PageAt ==
    ASSUME NEW pp \in Seq(PageType), NEW i \in 1 .. Len(pp)
    PROVE  /\ pp[i] \in PageType
           /\ pp[i].id \in Nat /\ pp[i].serial \in Nat /\ pp[i].size \in Nat
           /\ pp[i].rows \in Seq(Nat) /\ Len(pp[i].rows) \in Nat
  <1>1. pp[i] \in PageType
    BY ElementOfSeq
  <1>2. pp[i].rows \in Seq(Nat) /\ pp[i].id \in Nat /\ pp[i].serial \in Nat /\ pp[i].size \in Nat
    BY <1>1 DEF PageType
  <1> QED BY <1>1, <1>2

(* Two sequences one after the other.                                      *)
LEMMA ConcatAt ==
    ASSUME NEW S, NEW q \in Seq(S), NEW r \in Seq(S), NEW w, w = q \o r
    PROVE  /\ w \in Seq(S) /\ Len(w) = Len(q) + Len(r)
           /\ \A x \in 1 .. Len(q) : w[x] = q[x]
           /\ \A x \in 1 .. Len(r) : w[Len(q) + x] = r[x]
  OBVIOUS

ConcatIs(q, r, w) ==
    /\ w \in Seq(Nat) /\ Len(w) = Len(q) + Len(r)
    /\ \A x \in 1 .. Len(q) : w[x] = q[x]
    /\ \A x \in 1 .. Len(r) : w[Len(q) + x] = r[x]

(* The same, for rows, as one fact.                                        *)
LEMMA RowsConcat == \A q, r \in Seq(Nat) : \A w : w = q \o r => ConcatIs(q, r, w)
  BY ConcatAt DEF ConcatIs

Always(c, a) == TRUE
Sums == INSTANCE FoldFacts WITH Step <- Plus, Inv <- Always
Joins == INSTANCE FoldFacts WITH Step <- RowsJoined, Inv <- Always

(* Sum is the fold that FoldFacts is about.                                *)
LEMMA SumFolds == \A base, input : FoldLeft(Plus, base, input) = Sums!Fold(base, input)
  BY Zenon DEF FoldLeft, Sums!FoldLeft, MapThenFoldSet, Sums!MapThenFoldSet,
     Max, Sums!Max, Sums!Fold

(* So is the joining of the rows of the pages.                             *)
LEMMA JoinFolds == \A base, input : FoldLeft(RowsJoined, base, input) = Joins!Fold(base, input)
  BY Zenon DEF FoldLeft, Joins!FoldLeft, MapThenFoldSet, Joins!MapThenFoldSet,
     Max, Joins!Max, Joins!Fold

(* A sum over a longer prefix has one more summand.                        *)
LEMMA SumStep ==
    ASSUME NEW h \in Seq(Nat), NEW i \in 1 .. Len(h)
    PROVE  Sum(SubSeq(h, 1, i)) = Sum(SubSeq(h, 1, i - 1)) + h[i]
  <1>1. SubSeq(h, 1, i) = SubSeq(h, 1, i - 1) \o <<h[i]>>
    <2>1. 1 \in 1 .. Len(h) /\ i \in 1 .. Len(h)
      OBVIOUS
    <2> QED BY <2>1, SubSeqRecursiveSecond, Z3
  <1>2. SubSeq(h, 1, i - 1) \in Seq(Nat) /\ <<h[i]>> \in Seq(Nat)
    OBVIOUS
  <1>3. Sums!Fold(0, SubSeq(h, 1, i - 1) \o <<h[i]>>)
          = Sums!Fold(Sums!Fold(0, SubSeq(h, 1, i - 1)), <<h[i]>>)
    BY <1>2, Sums!FoldConcat
  <1>4. Sums!Fold(Sums!Fold(0, SubSeq(h, 1, i - 1)), <<h[i]>>)
          = Plus(Sums!Fold(0, SubSeq(h, 1, i - 1)), h[i])
    BY Sums!FoldOne
  <1> QED BY <1>1, <1>3, <1>4, SumFolds DEF Sum, Plus

(* Nothing sums up to 0.                                                   *)
LEMMA SumEmpty == Sum(<<>>) = 0
  BY SumFolds, Sums!FoldEmpty DEF Sum

(* So do the rows of a longer prefix of pages.                             *)
Rowed(pp, i) == FoldLeft(RowsJoined, <<>>, SubSeq(pp, 1, i))

(* The rows of a prefix of the pages are those of a shorter one and a page. *)
LEMMA JoinStep ==
    ASSUME NEW pp \in Seq(PageType), NEW i \in 1 .. Len(pp)
    PROVE  Rowed(pp, i) = Rowed(pp, i - 1) \o pp[i].rows
  <1>1. SubSeq(pp, 1, i) = SubSeq(pp, 1, i - 1) \o <<pp[i]>>
    <2>1. 1 \in 1 .. Len(pp) /\ i \in 1 .. Len(pp)
      OBVIOUS
    <2> QED BY <2>1, SubSeqRecursiveSecond, Z3
  <1>2. SubSeq(pp, 1, i - 1) \in Seq(PageType) /\ <<pp[i]>> \in Seq(PageType)
    OBVIOUS
  <1>3. Joins!Fold(<<>>, SubSeq(pp, 1, i - 1) \o <<pp[i]>>)
          = Joins!Fold(Joins!Fold(<<>>, SubSeq(pp, 1, i - 1)), <<pp[i]>>)
    BY <1>2, Joins!FoldConcat
  <1>4. Joins!Fold(Joins!Fold(<<>>, SubSeq(pp, 1, i - 1)), <<pp[i]>>)
          = RowsJoined(Joins!Fold(<<>>, SubSeq(pp, 1, i - 1)), pp[i])
    BY Joins!FoldOne
  <1> QED BY <1>1, <1>3, <1>4, JoinFolds DEF Rowed, RowsJoined

-----------------------------------------------------------------------------
(* The layout of a list: A[i] rows are above page i, the rows are R.       *)
Steps(A, pp) ==
    /\ A \in [1 .. Len(pp) + 1 -> Nat]
    /\ A[1] = 0
    /\ \A i \in 1 .. Len(pp) : A[i + 1] = A[i] + Len(pp[i].rows)

Contents(A, R, pp, n) == \A i \in 1 .. n : \A j \in 1 .. Len(pp[i].rows) : R[A[i] + j] = pp[i].rows[j]

Laid(A, R, pp) ==
    /\ Steps(A, pp)
    /\ R \in Seq(Nat) /\ Len(R) = A[Len(pp) + 1]
    /\ Contents(A, R, pp, Len(pp))

(* What there is above a page and what is on it are numbers.               *)
LEMMA StepsAt ==
    ASSUME NEW pp \in Seq(PageType), NEW A, Steps(A, pp)
    PROVE  /\ Len(pp) \in Nat
           /\ \A i \in 1 .. Len(pp) + 1 : A[i] \in Nat
           /\ \A i \in 1 .. Len(pp) : /\ i \in 1 .. Len(pp) + 1 /\ i + 1 \in 1 .. Len(pp) + 1
                                       /\ A[i] \in Nat /\ A[i + 1] \in Nat
                                       /\ Len(pp[i].rows) \in Nat
                                       /\ A[i + 1] = A[i] + Len(pp[i].rows)
           /\ 1 \in 1 .. Len(pp) + 1 /\ Len(pp) + 1 \in 1 .. Len(pp) + 1 /\ A[1] = 0
  <1>1. Len(pp) \in Nat
    OBVIOUS
  <1>2. \A i \in 1 .. Len(pp) : i \in 1 .. Len(pp) + 1 /\ i + 1 \in 1 .. Len(pp) + 1
    BY <1>1
  <1> QED BY <1>1, <1>2, PageAt, SMTT(30) DEF Steps

(* A later page begins below an earlier one.                               *)
LEMMA Climbs ==
    ASSUME NEW pp \in Seq(PageType), NEW A, Steps(A, pp),
           NEW i \in 1 .. Len(pp), NEW j \in 1 .. Len(pp) + 1, i < j
    PROVE  A[i] + Len(pp[i].rows) <= A[j]
  <1> DEFINE S == {k \in Nat : i + 1 + k <= Len(pp) + 1 => A[i + 1] <= A[i + 1 + k]}
  <1>1. 0 \in S
    BY DEF Steps
  <1>2. ASSUME NEW k \in S PROVE k + 1 \in S
    <2>1. CASE i + 1 + k + 1 <= Len(pp) + 1
      <3>1. k \in Nat /\ i + 1 + k \in 1 .. Len(pp)
        BY <2>1
      <3>2. A[i + 1] <= A[i + 1 + k]
        BY <3>1
      <3>3. pp[i + 1 + k].rows \in Seq(Nat)
        BY <3>1, PageAt
      <3>4. A[i + 1 + k + 1] = A[i + 1 + k] + Len(pp[i + 1 + k].rows)
        BY <3>1 DEF Steps
      <3>5. A[i + 1] \in Nat /\ A[i + 1 + k] \in Nat
        BY <3>1 DEF Steps
      <3> QED BY <3>1, <3>2, <3>3, <3>4, <3>5
    <2> QED BY <2>1
  <1>3. S = Nat
    <2> HIDE DEF S
    <2>1. S \subseteq Nat
      BY DEF S
    <2> QED BY <1>1, <1>2, <2>1, Sums!NatSetInduction
  <1>4. j - i - 1 \in S
    <2>1. j - i - 1 \in Nat
      OBVIOUS
    <2> HIDE DEF S
    <2> QED BY <1>3, <2>1
  <1>5. i + 1 + (j - i - 1) = j
    OBVIOUS
  <1>6. A[i + 1] <= A[j]
    BY <1>4, <1>5
  <1> QED BY <1>6 DEF Steps

(* Every row is on a page, and on one only.                                *)
LEMMA RowFound ==
    ASSUME NEW pp \in Seq(PageType), NEW A, Steps(A, pp), NEW k \in Nat, k < A[Len(pp) + 1]
    PROVE  \E i \in 1 .. Len(pp) : A[i] <= k /\ k < A[i + 1]
  <1> DEFINE S == {m \in Nat : m \in 1 .. Len(pp) /\ k < A[m + 1]}
  <1>0. Len(pp) \in Nat
    OBVIOUS
  <1>1. Len(pp) \in S
    BY <1>0 DEF Steps
  <1>2. S \subseteq Nat /\ S # {}
    BY <1>1
  <1>3. \E n \in S : \A m \in S : n <= m
    <2> HIDE DEF S
    <2> QED BY <1>2, Sums!LeastExists
  <1>4. PICK n \in S : \A m \in S : n <= m
    BY <1>3
  <1>5. A[n] <= k
    <2>1. CASE n = 1
      BY <2>1 DEF Steps
    <2>2. CASE n # 1
      <3>1. n - 1 \in 1 .. Len(pp) /\ n - 1 \notin S
        <4>1. n \in Nat /\ n \in 1 .. Len(pp) /\ n - 1 \in 1 .. Len(pp) /\ ~(n <= n - 1)
          BY <2>2, <1>0
        <4> HIDE DEF S
        <4> QED BY <1>4, <4>1
      <3>2. ~(k < A[n])
        <4>1. (n - 1) + 1 = n
          BY <1>4
        <4> QED BY <3>1, <4>1, <1>0
      <3>3. A[n] \in Nat
        BY <1>4 DEF Steps
      <3> QED BY <3>2, <3>3
    <2> QED BY <2>1, <2>2
  <1> QED BY <1>4, <1>5

(* It is on one page only.                                                 *)
LEMMA RowFoundOnce ==
    ASSUME NEW pp \in Seq(PageType), NEW A, Steps(A, pp), NEW k \in Nat,
           NEW i \in 1 .. Len(pp), NEW j \in 1 .. Len(pp),
           A[i] <= k /\ k < A[i + 1], A[j] <= k /\ k < A[j + 1]
    PROVE  i = j
  <1>1. A[i + 1] = A[i] + Len(pp[i].rows) /\ A[j + 1] = A[j] + Len(pp[j].rows)
    BY DEF Steps
  <1>2. A[i] \in Nat /\ A[j] \in Nat /\ A[i + 1] \in Nat /\ A[j + 1] \in Nat
    BY StepsAt
  <1>3. i < j => A[i + 1] <= A[j]
    BY <1>1, Climbs
  <1>4. j < i => A[j + 1] <= A[i]
    BY <1>1, Climbs
  <1> QED BY <1>2, <1>3, <1>4

(* The contents of one page more.                                          *)
LEMMA ContentsStep ==
    ASSUME NEW pp \in Seq(PageType), NEW A, Steps(A, pp),
           NEW k \in Nat, NEW m, m = k + 1, m \in 1 .. Len(pp),
           NEW q \in Seq(Nat), Len(q) = A[m], Contents(A, q, pp, k),
           NEW w, w = q \o pp[m].rows
    PROVE  w \in Seq(Nat) /\ Len(w) = A[m + 1] /\ Contents(A, w, pp, m)
  <1>0. pp[m].rows \in Seq(Nat) /\ Len(pp[m].rows) \in Nat
    BY PageAt
  <1>1. PICK r : r = pp[m].rows /\ r \in Seq(Nat) /\ Len(r) \in Nat
    BY <1>0
  <1>2. A[m] \in Nat /\ A[m + 1] = A[m] + Len(r)
    BY <1>1, StepsAt
  <1>3. w = q \o r
    BY <1>1
  <1>4. /\ w \in Seq(Nat) /\ Len(w) = Len(q) + Len(r)
        /\ \A x \in 1 .. Len(q) : w[x] = q[x]
        /\ \A x \in 1 .. Len(r) : w[Len(q) + x] = r[x]
    <2>1. r \in Seq(Nat)
      BY <1>1
    <2>2. ConcatIs(q, r, w)
      BY <1>3, <2>1, RowsConcat, Zenon
    <2> QED BY <2>2, Zenon DEF ConcatIs
  <1>5. ASSUME NEW i \in 1 .. m, NEW j \in 1 .. Len(pp[i].rows)
        PROVE  w[A[i] + j] = pp[i].rows[j]
    <2>1. CASE i # m
      <3>1. i \in 1 .. k /\ i \in 1 .. Len(pp) /\ m \in 1 .. Len(pp) + 1 /\ i < m
        BY <2>1
      <3>2. A[i] + Len(pp[i].rows) <= A[m]
        BY <3>1, Climbs
      <3>3. A[i] \in Nat /\ Len(pp[i].rows) \in Nat
        BY <3>1, StepsAt
      <3> DEFINE a == A[i]
                 b == Len(pp[i].rows)
      <3>4. q[a + j] = pp[i].rows[j]
        BY <3>1 DEF Contents
      <3>5. j \in 1 .. b /\ b \in Nat /\ a \in Nat /\ a + b <= Len(q)
        BY <3>2, <3>3
      <3> HIDE DEF a, b
      <3>6. a + j \in 1 .. Len(q)
        BY <3>5
      <3>7. w[a + j] = q[a + j]
        BY <3>6, <1>4
      <3> QED BY <3>4, <3>7 DEF a
    <2>2. CASE i = m
      BY <1>1, <1>4, <1>2, <2>2
    <2> QED BY <2>1, <2>2
  <1> QED BY <1>2, <1>4, <1>5 DEF Contents

(* The rows above the pages and the rows of a list are laid out.           *)
LEMMA LaidIs ==
    ASSUME NEW l, l.pages \in Seq(PageType)
    PROVE  Laid([i \in 1 .. Len(l.pages) + 1 |-> Above(l, i)], AllRows(l), l.pages)
  <1> DEFINE pp == l.pages
             n == Len(pp)
             h == Heights(l)
             A == [i \in 1 .. n + 1 |-> Above(l, i)]
  <1>1. n \in Nat /\ DOMAIN pp = 1 .. n /\ \A i \in 1 .. n : pp[i] \in PageType /\ pp[i].rows \in Seq(Nat) /\ Len(pp[i].rows) \in Nat
    BY PageAt
  <1>2. h \in Seq(Nat) /\ Len(h) = n /\ \A i \in 1 .. n : h[i] = Len(pp[i].rows)
    BY <1>1 DEF Heights
  <1>3. Above(l, 1) = 0
    <2>1. SubSeq(h, 1, 0) = <<>>
      BY <1>2
    <2>2. 1 - 1 = 0
      OBVIOUS
    <2> HIDE DEF h
    <2> QED BY <2>1, <2>2, SumEmpty DEF Above, h
  <1>4. ASSUME NEW i \in 1 .. n PROVE Above(l, i + 1) = Above(l, i) + Len(pp[i].rows)
    <2>1. Above(l, i + 1) = Sum(SubSeq(h, 1, i)) /\ Above(l, i) = Sum(SubSeq(h, 1, i - 1))
      BY DEF Above
    <2> HIDE DEF h
    <2> QED BY <1>2, <2>1, SumStep
  <1>5. ASSUME NEW m \in 1 .. n + 1 PROVE Above(l, m) \in Nat
    <2> DEFINE S == {k \in Nat : k + 1 <= n + 1 => Above(l, k + 1) \in Nat}
    <2>1. 0 \in S
      BY <1>3
    <2>2. ASSUME NEW k \in S PROVE k + 1 \in S
      <3>1. CASE k + 1 <= n
        <4>1. k \in Nat /\ k + 1 \in 1 .. n
          BY <3>1
        <4>2. Above(l, (k + 1) + 1) = Above(l, k + 1) + Len(pp[k + 1].rows)
          BY <1>4, <4>1
        <4> QED BY <1>1, <3>1, <4>1, <4>2
      <3> QED BY <3>1, <1>1
    <2>3. S = Nat
      <3> HIDE DEF S
      <3>1. S \subseteq Nat
        BY DEF S
      <3> QED BY <2>1, <2>2, <3>1, Sums!NatSetInduction
    <2>4. m - 1 \in S
      <3>1. m - 1 \in Nat
        BY <1>1
      <3> HIDE DEF S
      <3> QED BY <2>3, <3>1
    <2>5. (m - 1) + 1 = m
      BY <1>1
    <2> QED BY <2>4, <2>5, <1>1
  <1>6. Steps(A, pp)
    <2>1. A \in [1 .. Len(pp) + 1 -> Nat]
      BY <1>5
    <2>2. A[1] = 0
      BY <1>1, <1>3
    <2>3. ASSUME NEW i \in 1 .. Len(pp) PROVE A[i + 1] = A[i] + Len(pp[i].rows)
      BY <1>1, <1>4
    <2> QED BY <2>1, <2>2, <2>3 DEF Steps
  <1> DEFINE W == [k \in 0 .. n |-> Rowed(pp, k)]
  <1>13. W[0] = <<>>
    <2>1. SubSeq(pp, 1, 0) = <<>>
      BY <1>1
    <2>2. 0 \in 0 .. n
      BY <1>1
    <2>3. Rowed(pp, 0) = <<>>
      BY <2>1, JoinFolds, Joins!FoldEmpty DEF Rowed
    <2> QED BY <2>2, <2>3
  <1>14. ASSUME NEW k \in Nat, k + 1 \in 1 .. n PROVE W[k + 1] = W[k] \o pp[k + 1].rows
    <2>1. k \in 0 .. n /\ k + 1 \in 0 .. n /\ (k + 1) - 1 = k /\ k + 1 \in 1 .. Len(pp)
      BY <1>1, <1>14
    <2>2. Rowed(pp, k + 1) = Rowed(pp, (k + 1) - 1) \o pp[k + 1].rows
      BY <2>1, JoinStep
    <2>3. Rowed(pp, (k + 1) - 1) = Rowed(pp, k)
      BY <2>1
    <2> QED BY <2>1, <2>2, <2>3
  <1>15. W[n] = AllRows(l)
    <2>1. SubSeq(pp, 1, n) = pp
      BY <1>1
    <2>2. n \in 0 .. n
      BY <1>1
    <2> QED BY <2>1, <2>2 DEF Rowed, AllRows
  <1> HIDE DEF W
  <1> DEFINE T == {k \in Nat : k <= n => /\ W[k] \in Seq(Nat) /\ Len(W[k]) = A[k + 1]
                                         /\ Contents(A, W[k], pp, k)}
  <1>7. 0 \in T
    <2>2. W[0] = <<>>
      BY <1>13
    <2>3. A[1] = 0
      BY <1>6 DEF Steps
    <2>4. W[0] \in Seq(Nat) /\ Len(W[0]) = 0
      BY <2>2
    <2>5. Contents(A, W[0], pp, 0)
      BY DEF Contents
    <2>6. 0 + 1 = 1
      OBVIOUS
    <2> HIDE DEF A
    <2> QED BY <2>3, <2>4, <2>5, <2>6
  <1>8. ASSUME NEW k \in T PROVE k + 1 \in T
    <2>1. CASE k + 1 <= n
      <3>1. k \in Nat /\ k + 1 \in 1 .. n /\ k <= n /\ (k + 1) - 1 = k
        BY <1>1, <2>1
      <3>2. W[k] \in Seq(Nat) /\ Len(W[k]) = A[k + 1] /\ Contents(A, W[k], pp, k)
        BY <3>1
      <3>3. W[k + 1] = W[k] \o pp[k + 1].rows
        BY <3>1, <1>14
      <3> HIDE DEF A, pp, n
      <3>4. k + 1 \in 1 .. Len(pp) /\ pp \in Seq(PageType)
        BY <3>1 DEF n, pp
      <3>5. /\ W[k + 1] \in Seq(Nat) /\ Len(W[k + 1]) = A[k + 1 + 1]
            /\ Contents(A, W[k + 1], pp, k + 1)
        BY <1>6, <3>1, <3>2, <3>3, <3>4, ContentsStep, ZenonT(40)
      <3> QED BY <3>1, <3>5
    <2> QED BY <2>1, <1>1
  <1>9. T = Nat
    <2> HIDE DEF T
    <2>1. T \subseteq Nat
      BY DEF T
    <2> QED BY <1>7, <1>8, <2>1, Sums!NatSetInduction
  <1>10. W[n] \in Seq(Nat) /\ Len(W[n]) = A[n + 1] /\ Contents(A, W[n], pp, n)
    <2>1. n \in T
      BY <1>1, <1>9
    <2> HIDE DEF A
    <2> QED BY <2>1, <1>1
  <1>11. W[n] = AllRows(l)
    BY <1>15
  <1> HIDE DEF A
  <1>12. Laid(A, AllRows(l), pp)
    BY <1>6, <1>10, <1>11 DEF Laid
  <1> QED BY <1>12 DEF A

(* There is no other layout.                                               *)
LEMMA StepsUnique ==
    ASSUME NEW pp \in Seq(PageType), NEW A, Steps(A, pp), NEW B, Steps(B, pp)
    PROVE  \A i \in 1 .. Len(pp) + 1 : A[i] = B[i]
  <1> DEFINE S == {k \in Nat : k + 1 <= Len(pp) + 1 => A[k + 1] = B[k + 1]}
  <1>1. 0 \in S
    BY DEF Steps
  <1>2. ASSUME NEW k \in S PROVE k + 1 \in S
    <2>1. CASE k + 1 + 1 <= Len(pp) + 1
      <3>1. k \in Nat /\ k + 1 \in 1 .. Len(pp)
        BY <2>1
      <3>2. A[k + 1] = B[k + 1]
        BY <3>1
      <3>3. A[k + 1 + 1] = A[k + 1] + Len(pp[k + 1].rows) /\ B[k + 1 + 1] = B[k + 1] + Len(pp[k + 1].rows)
        BY <3>1 DEF Steps
      <3> QED BY <3>1, <3>2, <3>3
    <2> QED BY <2>1
  <1>3. S = Nat
    <2> HIDE DEF S
    <2>1. S \subseteq Nat
      BY DEF S
    <2> QED BY <1>1, <1>2, <2>1, Sums!NatSetInduction
  <1> SUFFICES ASSUME NEW i \in 1 .. Len(pp) + 1 PROVE A[i] = B[i]
    OBVIOUS
  <1>4. i - 1 \in S
    <2>1. i - 1 \in Nat
      OBVIOUS
    <2> HIDE DEF S
    <2> QED BY <1>3, <2>1
  <1>5. (i - 1) + 1 = i
    OBVIOUS
  <1> QED BY <1>4, <1>5

(* Above and AllRows are the layout, whichever way it was found.           *)
LEMMA LaidOut ==
    ASSUME NEW l, l.pages \in Seq(PageType), NEW A, NEW R, Laid(A, R, l.pages)
    PROVE  /\ \A i \in 1 .. Len(l.pages) + 1 : Above(l, i) = A[i]
           /\ AllRows(l) = R
  <1> DEFINE pp == l.pages
             n == Len(pp)
             B == [i \in 1 .. n + 1 |-> Above(l, i)]
             Q == AllRows(l)
  <1>1. Laid(B, Q, pp)
    BY LaidIs
  <1>2. \A i \in 1 .. n + 1 : A[i] = B[i]
    BY <1>1, StepsUnique DEF Laid
  <1>3. \A i \in 1 .. n + 1 : B[i] = Above(l, i)
    OBVIOUS
  <1> HIDE DEF B, Q
  <1>4. n \in Nat /\ R \in Seq(Nat) /\ Q \in Seq(Nat) /\ Len(R) = A[n + 1] /\ Len(Q) = A[n + 1]
    <2>1. A[n + 1] = B[n + 1]
      BY <1>2, StepsAt DEF Laid
    <2> QED BY <1>1, <2>1 DEF Laid
  <1>5. ASSUME NEW x \in 1 .. Len(R) PROVE R[x] = Q[x]
    <2>1. x - 1 \in Nat /\ x - 1 < A[n + 1]
      BY <1>4
    <2>2. PICK i \in 1 .. n : A[i] <= x - 1 /\ x - 1 < A[i + 1]
      BY <2>1, RowFound DEF Laid
    <2>3. A[i] \in Nat /\ A[i + 1] = A[i] + Len(pp[i].rows) /\ B[i] = A[i]
      BY <1>2 DEF Laid, Steps
    <2>4. Len(pp[i].rows) \in Nat
      BY PageAt
    <2>5. x - A[i] \in 1 .. Len(pp[i].rows) /\ A[i] + (x - A[i]) = x
      <3>1. x \in Nat
        BY <1>4
      <3> HIDE DEF pp, n
      <3> QED BY <3>1, <2>2, <2>3, <2>4
    <2>6. R[A[i] + (x - A[i])] = pp[i].rows[x - A[i]]
      BY <2>5 DEF Laid, Contents
    <2>7. Q[A[i] + (x - A[i])] = pp[i].rows[x - A[i]]
      BY <1>1, <2>3, <2>5 DEF Laid, Contents
    <2> QED BY <2>5, <2>6, <2>7
  <1>6. R = Q
    BY <1>4, <1>5, SeqEqual
  <1> QED BY <1>2, <1>3, <1>6 DEF Q

(* Every list has a layout.                                                *)
LEMMA LaidExists ==
    ASSUME NEW l, l.pages \in Seq(PageType)
    PROVE  \E A : Laid(A, AllRows(l), l.pages) /\ \A i \in 1 .. Len(l.pages) + 1 : A[i] = Above(l, i)
  <1> DEFINE A == [i \in 1 .. Len(l.pages) + 1 |-> Above(l, i)]
  <1>1. Laid(A, AllRows(l), l.pages)
    BY LaidIs
  <1>2. \A i \in 1 .. Len(l.pages) + 1 : A[i] = Above(l, i)
    OBVIOUS
  <1> HIDE DEF A
  <1> QED BY <1>1, <1>2

PagesOK(pp) ==
    /\ pp \in Seq(PageType) /\ Len(pp) >= 1
    /\ \A i \in 1 .. Len(pp) : Len(pp[i].rows) \in 1 .. RowCap
    /\ \A i, j \in 1 .. Len(pp) : pp[i].id = pp[j].id => i = j

(* A pin is on page i.                                                     *)
On(pp, pin, i) == i \in 1 .. Len(pp) /\ pp[i].id = pin.page /\ pin.y < Len(pp[i].rows)

(* Heights is the number of rows of each page.                             *)
LEMMA HeightsIs ==
    ASSUME NEW l, l.pages \in Seq(PageType)
    PROVE  /\ DOMAIN l.pages = 1 .. Len(l.pages)
           /\ \A i \in 1 .. Len(l.pages) : Heights(l)[i] = Len(l.pages[i].rows)
  <1>1. DOMAIN l.pages = 1 .. Len(l.pages)
    OBVIOUS
  <1> QED BY <1>1, Zenon DEF Heights

(* A pin is valid when it is on a page.                                    *)
LEMMA ValidIs ==
    ASSUME NEW l, l.pages \in Seq(PageType), NEW pin
    PROVE  Valid(l, pin) <=> \E i : On(l.pages, pin, i)
  BY HeightsIs, Zenon DEF Valid, On

(* Index finds the page of an id.                                          *)
LEMMA IndexIs ==
    ASSUME NEW l, PagesOK(l.pages), NEW i \in 1 .. Len(l.pages), NEW id, id = l.pages[i].id
    PROVE  Index(l, id) = i
  <1>1. l.pages \in Seq(PageType) /\ \A j \in 1 .. Len(l.pages) : l.pages[j].id = id => j = i
    BY DEF PagesOK
  <1>2. DOMAIN l.pages = 1 .. Len(l.pages)
    BY <1>1, HeightsIs, Zenon
  <1> QED BY <1>1, <1>2, Zenon DEF Index

(* Above counts the rows above a page.                                     *)
LEMMA AboveIs ==
    ASSUME NEW l, l.pages \in Seq(PageType), NEW A, NEW R, Laid(A, R, l.pages), NEW i \in 1 .. Len(l.pages) + 1
    PROVE  Above(l, i) = A[i]
  BY LaidOut, Zenon

(* The offset of a pin: within the list, within its page, on its row.      *)
LEMMA PinOn ==
    ASSUME NEW l, PagesOK(l.pages), NEW A, NEW R, Laid(A, R, l.pages),
           NEW pin, pin.y \in Nat, NEW i, On(l.pages, pin, i)
    PROVE  /\ Offset(l, pin) = A[i] + pin.y
           /\ Offset(l, pin) \in Nat /\ Offset(l, pin) < Len(R)
           /\ A[i] <= Offset(l, pin) /\ Offset(l, pin) < A[i + 1]
           /\ R[Offset(l, pin) + 1] = l.pages[i].rows[pin.y + 1]
  <1> DEFINE pp == l.pages
  <1>1. i \in 1 .. Len(pp) /\ pp[i].id = pin.page /\ pin.y < Len(pp[i].rows)
    BY DEF On
  <1>2. pp \in Seq(PageType)
    BY DEF PagesOK
  <1>3. Index(l, pin.page) = i
    BY <1>1, IndexIs, Zenon
  <1>4. Steps(A, pp) /\ Len(R) = A[Len(pp) + 1] /\ Contents(A, R, pp, Len(pp))
    BY DEF Laid
  <1>5. i \in 1 .. Len(pp) + 1 /\ A[i] \in Nat /\ A[i + 1] \in Nat /\ Len(pp[i].rows) \in Nat /\ A[i + 1] = A[i] + Len(pp[i].rows)
        /\ A[Len(pp) + 1] \in Nat
    BY <1>1, <1>2, <1>4, StepsAt
  <1>6. Offset(l, pin) = A[i] + pin.y
    <2>1. Above(l, i) = A[i]
      BY <1>2, <1>5, AboveIs
    <2> QED BY <1>3, <2>1, Zenon DEF Offset
  <1>7. A[i + 1] <= A[Len(pp) + 1]
    <2>1. CASE i = Len(pp)
      BY <2>1, <1>5
    <2>2. CASE i # Len(pp)
      <3>1. Len(pp) + 1 \in 1 .. Len(pp) + 1 /\ i < Len(pp) + 1
        BY <1>1, <1>2
      <3> QED BY <1>1, <1>2, <1>4, <1>5, <3>1, Climbs
    <2> QED BY <2>1, <2>2
  <1>8. R[A[i] + (pin.y + 1)] = pp[i].rows[pin.y + 1]
    <2>1. pin.y + 1 \in 1 .. Len(pp[i].rows)
      BY <1>1, <1>5
    <2> QED BY <1>1, <1>4, <2>1 DEF Contents
  <1>9. A[i] + (pin.y + 1) = A[i] + pin.y + 1
    BY <1>5
  <1>10. /\ A[i] + pin.y \in Nat /\ A[i] + pin.y < A[Len(pp) + 1]
         /\ A[i] <= A[i] + pin.y /\ A[i] + pin.y < A[i + 1]
    <2>1. PICK a \in Nat, b \in Nat, c \in Nat, h \in Nat, q \in Nat :
            a = A[i] /\ b = A[i + 1] /\ c = A[Len(pp) + 1] /\ h = Len(pp[i].rows) /\ q = pin.y
      BY <1>5, Zenon
    <2>2. b = a + h /\ q < h /\ b <= c
      BY <1>1, <1>5, <1>7, <2>1, Zenon
    <2>3. a + q \in Nat /\ a + q < c /\ a <= a + q /\ a + q < b
      BY <2>2
    <2> QED BY <2>1, <2>3, Zenon
  <1>11. R[A[i] + pin.y + 1] = pp[i].rows[pin.y + 1]
    BY <1>8, <1>9, Zenon
  <1>12. A[i] + pin.y < Len(R)
    BY <1>10, <1>4, Zenon
  <1> QED BY <1>6, <1>10, <1>11, <1>12, Zenon

(* The same without the row.                                               *)
LEMMA OffsetIs ==
    ASSUME NEW l, PagesOK(l.pages), NEW A, NEW R, Laid(A, R, l.pages),
           NEW pin, pin.y \in Nat, NEW i, On(l.pages, pin, i)
    PROVE  /\ Offset(l, pin) = A[i] + pin.y
           /\ Offset(l, pin) \in Nat /\ Offset(l, pin) < Len(R)
           /\ A[i] <= Offset(l, pin) /\ Offset(l, pin) < A[i + 1]
  BY PinOn

SameRow(R, k, rows, j) == R[k + 1] = rows[j + 1]

(* The row at the offset of a pin is the one the pin points at.            *)
LEMMA RowIs ==
    ASSUME NEW l, PagesOK(l.pages), NEW A, NEW R, Laid(A, R, l.pages),
           NEW pin, pin.y \in Nat, NEW i, On(l.pages, pin, i)
    PROVE  SameRow(R, Offset(l, pin), l.pages[i].rows, pin.y)
  BY PinOn DEF SameRow

(* PinAt points at the page that holds the offset.                         *)
LEMMA PinAtIs ==
    ASSUME NEW l, PagesOK(l.pages), NEW A, NEW R, Laid(A, R, l.pages),
           NEW k \in Nat, NEW i \in 1 .. Len(l.pages), A[i] <= k, k < A[i + 1]
    PROVE  /\ PinAt(l, k) = Pin(l.pages[i].id, k - A[i])
           /\ On(l.pages, PinAt(l, k), i)
           /\ PinAt(l, k) \in PinType
           /\ PinAt(l, k).y = k - A[i] /\ PinAt(l, k).page = l.pages[i].id /\ PinAt(l, k).garbage = FALSE
  <1> DEFINE pp == l.pages
             InPage(j) == k \in Above(l, j) .. Above(l, j + 1) - 1
  <1>1. pp \in Seq(PageType) /\ Steps(A, pp)
    BY DEF PagesOK, Laid
  <1>2. ASSUME NEW j \in 1 .. Len(pp) PROVE InPage(j) <=> A[j] <= k /\ k < A[j + 1]
    <2>1. j \in 1 .. Len(pp) + 1 /\ j + 1 \in 1 .. Len(pp) + 1 /\ A[j] \in Nat /\ A[j + 1] \in Nat
      BY <1>1, StepsAt
    <2>2. Above(l, j) = A[j] /\ Above(l, j + 1) = A[j + 1]
      BY <1>1, <2>1, AboveIs
    <2> QED BY <2>1, <2>2
  <1>3. \A j \in 1 .. Len(pp) : InPage(j) <=> j = i
    BY <1>1, <1>2, RowFoundOnce
  <1>4. DOMAIN pp = 1 .. Len(pp)
    BY <1>1, HeightsIs
  <1> HIDE DEF InPage
  <1>5. (CHOOSE j \in 1 .. Len(pp) : InPage(j)) = i
    BY <1>3, Zenon
  <1>6. (CHOOSE j \in DOMAIN l.pages : k \in Above(l, j) .. Above(l, j + 1) - 1) = i
    BY <1>4, <1>5, Zenon DEF InPage
  <1>7. Above(l, i) = A[i]
    <2>1. i \in 1 .. Len(pp) + 1
      BY <1>1, StepsAt
    <2> QED BY <1>1, <2>1, AboveIs
  <1>8. PinAt(l, k) = Pin(l.pages[i].id, k - A[i])
    BY <1>6, <1>7, Zenon DEF PinAt
  <1>9. A[i] \in Nat /\ A[i + 1] = A[i] + Len(pp[i].rows) /\ pp[i].id \in Nat /\ Len(pp[i].rows) \in Nat
    BY <1>1, StepsAt, PageAt
  <1>10. k - A[i] \in Nat /\ k - A[i] < Len(pp[i].rows)
    <2>1. PICK a \in Nat, b \in Nat : a = A[i] /\ b = Len(pp[i].rows)
      BY <1>9, Zenon
    <2>2. a <= k /\ k < a + b
      BY <1>9, <2>1, Zenon
    <2>3. k - a \in Nat /\ k - a < b
      BY <2>2
    <2> QED BY <2>1, <2>3, Zenon
  <1>11. Pin(pp[i].id, k - A[i]) \in PinType
    BY <1>9, <1>10 DEF Pin, PinType
  <1>12. Pin(pp[i].id, k - A[i]).y = k - A[i] /\ Pin(pp[i].id, k - A[i]).page = pp[i].id /\ Pin(pp[i].id, k - A[i]).garbage = FALSE
    BY DEF Pin
  <1>13. On(pp, Pin(pp[i].id, k - A[i]), i)
    BY <1>10, <1>12 DEF On
  <1> HIDE DEF pp
  <1> QED BY <1>8, <1>11, <1>12, <1>13, Zenon DEF pp

(* The pin at an offset is on that row.                                    *)
LEMMA PinAtGood ==
    ASSUME NEW l, PagesOK(l.pages), NEW k \in Nat, k < Len(AllRows(l))
    PROVE  /\ PinAt(l, k) \in PinType /\ PinAt(l, k).garbage = FALSE
           /\ Valid(l, PinAt(l, k))
           /\ Offset(l, PinAt(l, k)) = k
  <1>1. l.pages \in Seq(PageType)
    BY DEF PagesOK
  <1>2. PICK A : Laid(A, AllRows(l), l.pages)
    BY <1>1, LaidExists, Zenon
  <1>3. Steps(A, l.pages) /\ k < A[Len(l.pages) + 1]
    BY <1>2 DEF Laid
  <1>4. PICK i \in 1 .. Len(l.pages) : A[i] <= k /\ k < A[i + 1]
    BY <1>1, <1>3, RowFound, Zenon
  <1>5. /\ On(l.pages, PinAt(l, k), i)
        /\ PinAt(l, k) \in PinType
        /\ PinAt(l, k).y = k - A[i] /\ PinAt(l, k).garbage = FALSE
    BY <1>2, <1>4, PinAtIs, Zenon
  <1>6. PinAt(l, k).y \in Nat
    BY <1>5 DEF PinType
  <1>7. Offset(l, PinAt(l, k)) = A[i] + PinAt(l, k).y
    BY <1>2, <1>5, <1>6, OffsetIs, ZenonT(40)
  <1>8. A[i] \in Nat
    BY <1>1, <1>3, StepsAt
  <1>9. A[i] + (k - A[i]) = k
    BY <1>8
  <1>10. Offset(l, PinAt(l, k)) = k
    BY <1>5, <1>7, <1>9
  <1> QED BY <1>1, <1>5, <1>10, ValidIs, Zenon

(* The offset of a valid pin is within the list.                           *)
LEMMA ValidOffset ==
    ASSUME NEW l, PagesOK(l.pages), NEW pin \in PinType, Valid(l, pin)
    PROVE  Offset(l, pin) \in Nat /\ Offset(l, pin) < Len(AllRows(l))
  <1>1. l.pages \in Seq(PageType) /\ pin.y \in Nat
    BY DEF PagesOK, PinType
  <1>2. PICK A : Laid(A, AllRows(l), l.pages)
    BY <1>1, LaidExists, Zenon
  <1>3. PICK i : On(l.pages, pin, i)
    BY <1>1, ValidIs, Zenon
  <1> QED BY <1>1, <1>2, <1>3, OffsetIs, Zenon

ViewportType == {"active", "top", "pin"}
CacheType == Nat \cup {None}
PinsType == [Pins -> PinType]
ListType ==
    [pages : Seq(PageType), serial : Nat, serialMin : Nat, nextId : Nat, born : Nat, total : Nat,
     pins : PinsType, viewport : ViewportType, cache : CacheType]

(* A pin is on the row r.                                                  *)
Holds(pp, pin, r) == \E i : On(pp, pin, i) /\ pp[i].rows[pin.y + 1] = r

(* No row is there twice, and none is newer than b.                        *)
OnceEach(R, b) ==
    /\ \A i \in 1 .. Len(R) : R[i] <= b
    /\ \A i, j \in 1 .. Len(R) : R[i] = R[j] => i = j

CacheExact(l) == l.viewport = "pin" => l.cache \in {None, Offset(l, l.pins["viewport"])}

Sound(l) ==
    /\ l \in ListType
    /\ PagesOK(l.pages)
    /\ \A i \in 1 .. Len(l.pages) : l.pages[i].id < l.nextId
    /\ l.total = Len(AllRows(l))
    /\ OnceEach(AllRows(l), l.born)
    /\ \A p \in Pins : Valid(l, l.pins[p])
    /\ CacheExact(l)

High(l, n) == l.viewport = "pin" => Offset(l, l.pins["viewport"]) <= n

Good(l) == Sound(l) /\ l.total >= Rows /\ High(l, l.total - Rows)

(* The parts of a list.                                                    *)
LEMMA ListParts ==
    ASSUME NEW l \in ListType
    PROVE  /\ l.pages \in Seq(PageType) /\ l.serial \in Nat /\ l.serialMin \in Nat /\ l.nextId \in Nat
           /\ l.born \in Nat /\ l.total \in Nat /\ l.pins \in [Pins -> PinType]
           /\ l.viewport \in {"active", "top", "pin"} /\ l.cache \in Nat \cup {None}
           /\ l.pins \in PinsType /\ l.viewport \in ViewportType /\ l.cache \in CacheType
           /\ \A p \in Pins : /\ l.pins[p] \in PinType /\ l.pins[p].y \in Nat
                              /\ l.pins[p].page \in Nat /\ l.pins[p].garbage \in BOOLEAN
  BY DEF ListType, PinType, PinsType, ViewportType, CacheType

(* The rows of a list are a sequence of numbers.                           *)
LEMMA RowsType ==
    ASSUME NEW l, l.pages \in Seq(PageType)
    PROVE  AllRows(l) \in Seq(Nat) /\ Len(AllRows(l)) \in Nat
  <1>1. PICK A : Laid(A, AllRows(l), l.pages)
    BY LaidExists, Zenon
  <1>2. AllRows(l) \in Seq(Nat)
    BY <1>1 DEF Laid
  <1> QED BY <1>2

(* A valid pin holds the row at its offset.                                *)
LEMMA PinRow ==
    ASSUME NEW l, PagesOK(l.pages), NEW pin \in PinType, Valid(l, pin)
    PROVE  /\ Offset(l, pin) \in Nat /\ Offset(l, pin) < Len(AllRows(l))
           /\ Holds(l.pages, pin, AllRows(l)[Offset(l, pin) + 1])
  <1>1. l.pages \in Seq(PageType) /\ pin.y \in Nat
    BY DEF PagesOK, PinType
  <1>2. PICK A : Laid(A, AllRows(l), l.pages)
    BY <1>1, LaidExists, Zenon
  <1>3. PICK i : On(l.pages, pin, i)
    BY <1>1, ValidIs, Zenon
  <1>4. AllRows(l)[Offset(l, pin) + 1] = l.pages[i].rows[pin.y + 1]
    <2>1. SameRow(AllRows(l), Offset(l, pin), l.pages[i].rows, pin.y)
      BY <1>1, <1>2, <1>3, RowIs, Zenon
    <2> QED BY <1>3, <2>1, Zenon DEF SameRow
  <1> QED BY <1>3, <1>4, ValidOffset, Zenon DEF Holds

(* A pin that holds a row of the list is at the offset of that row.        *)
LEMMA HoldsOffset ==
    ASSUME NEW l, PagesOK(l.pages), NEW b, OnceEach(AllRows(l), b), NEW pin \in PinType,
           NEW r, Holds(l.pages, pin, r), NEW k \in Nat, k < Len(AllRows(l)), AllRows(l)[k + 1] = r
    PROVE  Valid(l, pin) /\ Offset(l, pin) = k
  <1>1. l.pages \in Seq(PageType) /\ pin.y \in Nat
    BY DEF PagesOK, PinType
  <1>2. PICK A : Laid(A, AllRows(l), l.pages)
    BY <1>1, LaidExists, Zenon
  <1>3. PICK i : On(l.pages, pin, i) /\ l.pages[i].rows[pin.y + 1] = r
    BY Zenon DEF Holds
  <1>4. Valid(l, pin)
    BY <1>1, <1>3, ValidIs, Zenon
  <1>5. Offset(l, pin) \in Nat /\ Offset(l, pin) < Len(AllRows(l))
    BY <1>4, ValidOffset, Zenon
  <1>6. AllRows(l)[Offset(l, pin) + 1] = r
    <2>1. SameRow(AllRows(l), Offset(l, pin), l.pages[i].rows, pin.y)
      BY <1>1, <1>2, <1>3, RowIs, Zenon
    <2> QED BY <1>3, <2>1, Zenon DEF SameRow
  <1>7. Len(AllRows(l)) \in Nat
    BY <1>1, RowsType
  <1>8. PICK m \in Nat, n \in Nat : m = Offset(l, pin) /\ n = Len(AllRows(l))
    BY <1>5, <1>7
  <1>9. m + 1 \in 1 .. n /\ k + 1 \in 1 .. n
    BY <1>5, <1>8
  <1>10. m + 1 = k + 1
    BY <1>6, <1>8, <1>9, Zenon DEF OnceEach
  <1> QED BY <1>4, <1>8, <1>10

(* The same, with the rows under a name.                                   *)
LEMMA HoldsOffsetIn ==
    ASSUME NEW l, PagesOK(l.pages), NEW S, S = AllRows(l), NEW b, OnceEach(S, b), NEW pin \in PinType,
           NEW r, Holds(l.pages, pin, r), NEW k \in Nat, k < Len(S), S[k + 1] = r
    PROVE  Valid(l, pin) /\ Offset(l, pin) = k
  BY HoldsOffset, Zenon

(* The rows a tracked pin is on.                                           *)
LEMMA Tracked ==
    ASSUME NEW l, Sound(l), NEW p \in Pins
    PROVE  /\ l.pins[p] \in PinType /\ Valid(l, l.pins[p])
           /\ Offset(l, l.pins[p]) \in Nat /\ Offset(l, l.pins[p]) < Len(AllRows(l))
           /\ RowOf(l, p) = AllRows(l)[Offset(l, l.pins[p]) + 1]
           /\ Holds(l.pages, l.pins[p], RowOf(l, p))
  <1>1. l.pins[p] \in PinType /\ Valid(l, l.pins[p]) /\ PagesOK(l.pages)
    BY ListParts DEF Sound
  <1>2. RowOf(l, p) = AllRows(l)[Offset(l, l.pins[p]) + 1]
    BY DEF RowOf
  <1> QED BY <1>1, <1>2, PinRow, Zenon

-----------------------------------------------------------------------------
(* Pins stay on their rows from one list to the next.                      *)
Kept(l, m) ==
    /\ l.born <= m.born
    /\ \A r \in ToSet(AllRows(m)) : r \in ToSet(AllRows(l)) \/ r > l.born
    /\ \A p \in Pins : RowOf(l, p) \in ToSet(AllRows(m)) => RowOf(m, p) = RowOf(l, p)

(* The rows as a set.                                                      *)
LEMMA RowsSet ==
    ASSUME NEW R \in Seq(Nat)
    PROVE  \A r : r \in ToSet(R) <=> \E i \in 1 .. Len(R) : R[i] = r
  BY DEF ToSet

(* A tracked pin is on a row that is in the list and not newer than the last one. *)
LEMMA RowKnown ==
    ASSUME NEW l, Sound(l), NEW p \in Pins
    PROVE  RowOf(l, p) \in ToSet(AllRows(l)) /\ RowOf(l, p) <= l.born /\ RowOf(l, p) \in Nat
  <1>1. l.pages \in Seq(PageType) /\ AllRows(l) \in Seq(Nat) /\ Len(AllRows(l)) \in Nat
    BY RowsType DEF Sound, PagesOK
  <1>2. PICK k \in Nat : k < Len(AllRows(l)) /\ RowOf(l, p) = AllRows(l)[k + 1]
    BY Tracked, Zenon
  <1>3. k + 1 \in 1 .. Len(AllRows(l))
    BY <1>1, <1>2
  <1>4. AllRows(l)[k + 1] <= l.born
    BY <1>3, Zenon DEF Sound, OnceEach
  <1>5. AllRows(l)[k + 1] \in Nat
    BY <1>1, <1>3
  <1> QED BY <1>1, <1>2, <1>3, <1>4, <1>5, RowsSet, Zenon

(* In the same list every pin is on its row.                               *)
LEMMA KeptSame ==
    ASSUME NEW l, Sound(l)
    PROVE  Kept(l, l)
  BY ListParts DEF Kept, Sound

(* Pins that stay on their rows twice stay on them: no row comes back.     *)
LEMMA KeptOn ==
    ASSUME NEW l, Sound(l), NEW m, Sound(m), NEW o, Sound(o), Kept(l, m), Kept(m, o)
    PROVE  Kept(l, o)
  <1>1. l.born \in Nat /\ m.born \in Nat /\ o.born \in Nat
    BY ListParts DEF Sound
  <1>2. l.born <= m.born /\ m.born <= o.born
    BY DEF Kept
  <1>3. l.born <= o.born
    BY <1>1, <1>2
  <1>4. ASSUME NEW r \in ToSet(AllRows(o)) PROVE r \in ToSet(AllRows(l)) \/ r > l.born
    <2>1. r \in Nat
      <3>1. AllRows(o) \in Seq(Nat)
        BY ListParts, RowsType DEF Sound
      <3>2. PICK i \in 1 .. Len(AllRows(o)) : AllRows(o)[i] = r
        BY <3>1, <1>4, RowsSet, Zenon
      <3> QED BY <3>1, <3>2
    <2>2. r \in ToSet(AllRows(m)) \/ r > m.born
      BY <1>4, Zenon DEF Kept
    <2>3. CASE r \in ToSet(AllRows(m))
      BY <2>3, Zenon DEF Kept
    <2>4. CASE r > m.born
      BY <1>1, <1>2, <2>1, <2>4
    <2> QED BY <2>2, <2>3, <2>4
  <1>5. ASSUME NEW p \in Pins, RowOf(l, p) \in ToSet(AllRows(o)) PROVE RowOf(o, p) = RowOf(l, p)
    <2>1. RowOf(l, p) <= l.born /\ RowOf(l, p) \in Nat
      BY RowKnown
    <2>2. ~(RowOf(l, p) > m.born)
      BY <1>1, <1>2, <2>1
    <2>3. RowOf(l, p) \in ToSet(AllRows(m))
      BY <1>5, <2>2, Zenon DEF Kept
    <2>4. RowOf(m, p) = RowOf(l, p)
      BY <2>3, Zenon DEF Kept
    <2> QED BY <1>5, <2>4, Zenon DEF Kept
  <1> QED BY <1>3, <1>4, <1>5 DEF Kept

(* The j-th row of page i is a row of the list.                            *)
CellIs(R, a, j, rows) ==
    a \in Nat /\ j \in Nat /\ a + j \in 1 .. Len(R) /\ Len(R) \in Nat /\ R[a + j] = rows[j]

(* A row of a page is the row of the list at the page's offset and its own. *)
LEMMA Cell ==
    ASSUME NEW pp \in Seq(PageType), NEW A, NEW R, Laid(A, R, pp),
           NEW i \in 1 .. Len(pp), NEW j \in 1 .. Len(pp[i].rows), NEW a, a = A[i]
    PROVE  CellIs(R, a, j, pp[i].rows)
  <1>1. Steps(A, pp) /\ R \in Seq(Nat) /\ Len(R) = A[Len(pp) + 1]
    BY DEF Laid
  <1>2. PICK h \in Nat : h = Len(pp[i].rows)
    BY PageAt
  <1>3. a \in Nat /\ j \in Nat /\ A[i + 1] = a + h
    BY <1>1, <1>2, StepsAt
  <1>4. Len(R) \in Nat /\ a + h <= Len(R)
    <2>1. Len(R) \in Nat
      BY <1>1
    <2>2. CASE i = Len(pp)
      BY <1>1, <1>3, <2>1, <2>2
    <2>3. CASE i # Len(pp)
      <3>1. Len(pp) + 1 \in 1 .. Len(pp) + 1 /\ i < Len(pp) + 1
        BY <2>3
      <3>2. A[i] + Len(pp[i].rows) <= A[Len(pp) + 1]
        BY <1>1, <3>1, Climbs
      <3> QED BY <1>1, <1>2, <2>1, <3>2
    <2> QED BY <2>2, <2>3
  <1>5. a + j \in 1 .. Len(R)
    BY <1>2, <1>3, <1>4
  <1>6. R[a + j] = pp[i].rows[j]
    BY Zenon DEF Laid, Contents
  <1> QED BY <1>3, <1>4, <1>5, <1>6 DEF CellIs

(* What is in a sequence with one more element.                            *)
LEMMA AppendAt ==
    ASSUME NEW R \in Seq(Nat), NEW r \in Nat
    PROVE  /\ Append(R, r) \in Seq(Nat) /\ Len(Append(R, r)) = Len(R) + 1 /\ Len(R) \in Nat
           /\ \A k \in 1 .. Len(R) : Append(R, r)[k] = R[k]
           /\ Append(R, r)[Len(R) + 1] = r
  OBVIOUS

Extended(pp, qq, n, r) ==
    /\ Len(pp) = n /\ Len(qq) = n /\ n >= 1
    /\ \A i \in 1 .. n - 1 : qq[i] = pp[i]
    /\ qq[n].id = pp[n].id
    /\ qq[n].rows = Append(pp[n].rows, r)

Added(pp, qq, n, r) ==
    /\ Len(pp) = n /\ Len(qq) = n + 1
    /\ \A i \in 1 .. n : qq[i] = pp[i]
    /\ qq[n + 1].rows = <<r>>

(* One more row at the end of the last page is one more at the end of the list. *)
LEMMA ExtendedLaid ==
    ASSUME NEW pp \in Seq(PageType), NEW qq \in Seq(PageType), NEW n \in Nat, NEW r \in Nat,
           Extended(pp, qq, n, r), NEW A, NEW R, Laid(A, R, pp)
    PROVE  \E B : Laid(B, Append(R, r), qq)
  <1> DEFINE B == [i \in 1 .. n + 1 |-> IF i = n + 1 THEN A[n + 1] + 1 ELSE A[i]]
             S == Append(R, r)
  <1>1. /\ Len(pp) = n /\ Len(qq) = n /\ n >= 1
        /\ \A i \in 1 .. n - 1 : qq[i] = pp[i]
        /\ qq[n].rows = Append(pp[n].rows, r)
    BY DEF Extended
  <1>2. Steps(A, pp) /\ R \in Seq(Nat) /\ Len(R) = A[n + 1] /\ Len(R) \in Nat
    BY <1>1 DEF Laid
  <1>3. S \in Seq(Nat) /\ Len(S) = Len(R) + 1 /\ (\A k \in 1 .. Len(R) : S[k] = R[k]) /\ S[Len(R) + 1] = r
    BY <1>2, AppendAt
  <1>4. \A i \in 1 .. n + 1 : A[i] \in Nat
    BY <1>1, <1>2, StepsAt
  <1>5. PICK h \in Nat : h = Len(pp[n].rows) /\ Len(qq[n].rows) = h + 1 /\ A[n + 1] = A[n] + h
    <2>1. n \in 1 .. Len(pp)
      BY <1>1
    <2>2. pp[n].rows \in Seq(Nat) /\ Len(pp[n].rows) \in Nat
      BY <2>1, PageAt
    <2>3. A[n + 1] = A[n] + Len(pp[n].rows)
      BY <1>2, <2>1, StepsAt
    <2> QED BY <1>1, <2>2, <2>3, AppendAt
  <1>6. \A i \in 1 .. n : A[i + 1] = A[i] + Len(pp[i].rows)
    <2>1. Len(pp) = n
      BY <1>1
    <2> QED BY <1>2, <2>1, StepsAt
  <1>7. Steps(B, qq)
    <2>1. B \in [1 .. n + 1 -> Nat]
      BY <1>4
    <2>2. B[1] = 0
      BY <1>1, <1>2, StepsAt
    <2>4. B[n + 1] = A[n + 1] + 1 /\ \A i \in 1 .. n : B[i] = A[i]
      OBVIOUS
    <2> HIDE DEF B
    <2>3. ASSUME NEW i \in 1 .. n PROVE B[i + 1] = B[i] + Len(qq[i].rows)
      <3>0. PICK a \in Nat, b \in Nat : a = A[n] /\ b = A[n + 1]
        BY <1>1, <1>4
      <3>1. CASE i = n
        <4>1. n \in 1 .. n /\ b = a + h
          BY <1>1, <1>5, <3>0
        <4>2. B[n + 1] = b + 1 /\ B[n] = a /\ Len(qq[n].rows) = h + 1
          BY <1>5, <2>4, <3>0, <4>1, Zenon
        <4>3. b + 1 = a + (h + 1)
          BY <4>1
        <4> QED BY <3>1, <4>2, <4>3, Zenon
      <3>2. CASE i # n
        <4>1. i \in 1 .. n - 1 /\ i + 1 \in 1 .. n
          BY <3>2
        <4>2. B[i + 1] = A[i + 1] /\ B[i] = A[i] /\ qq[i] = pp[i]
          BY <1>1, <2>4, <4>1
        <4> QED BY <1>6, <4>2, Zenon
      <3> QED BY <3>1, <3>2
    <2> QED BY <1>1, <2>1, <2>2, <2>3 DEF Steps
  <1>8. Len(S) = B[n + 1]
    BY <1>2, <1>3
  <1>9. ASSUME NEW i \in 1 .. n, NEW j \in 1 .. Len(qq[i].rows) PROVE S[B[i] + j] = qq[i].rows[j]
    <2>1. PICK a \in Nat : a = A[i] /\ a = B[i]
      BY <1>4
    <2> HIDE DEF S, B
    <2>2. CASE j \in 1 .. Len(pp[i].rows)
      <3>1. a + j \in 1 .. Len(R) /\ R[a + j] = pp[i].rows[j]
        <4>1. CellIs(R, a, j, pp[i].rows)
          BY <1>1, <2>1, <2>2, Cell, Zenon
        <4> QED BY <4>1 DEF CellIs
      <3>2. S[a + j] = R[a + j]
        BY <1>3, <3>1
      <3>3. qq[i].rows[j] = pp[i].rows[j]
        <4>1. CASE i = n
          <5>1. n \in 1 .. Len(pp)
            BY <1>1
          <5>2. pp[n].rows \in Seq(Nat)
            BY <5>1, PageAt
          <5>3. Append(pp[n].rows, r)[j] = pp[n].rows[j]
            BY <2>2, <4>1, <5>2, AppendAt
          <5> QED BY <1>1, <4>1, <5>3, Zenon
        <4>2. CASE i # n
          <5>1. i \in 1 .. n - 1
            BY <4>2
          <5> QED BY <1>1, <5>1, Zenon
        <4> QED BY <4>1, <4>2
      <3> QED BY <2>1, <3>1, <3>2, <3>3, Zenon
    <2>3. CASE j \notin 1 .. Len(pp[i].rows)
      <3>1. i = n /\ j = h + 1
        <4>1. CASE i = n
          BY <1>5, <2>3, <4>1, SMTT(30)
        <4>2. CASE i # n
          <5>1. i \in 1 .. n - 1
            BY <4>2
          <5> QED BY <1>1, <2>3, <5>1
        <4> QED BY <4>1, <4>2
      <3>2. a + j = Len(R) + 1
        <4>1. Len(R) = a + h
          BY <1>2, <1>5, <2>1, <3>1, Zenon
        <4> QED BY <3>1, <4>1
      <3>3. S[a + j] = r
        BY <1>3, <3>2, Zenon
      <3>4. qq[n].rows[h + 1] = r
        <4>1. n \in 1 .. Len(pp)
          BY <1>1
        <4>2. pp[n].rows \in Seq(Nat)
          BY <4>1, PageAt
        <4>3. Append(pp[n].rows, r)[Len(pp[n].rows) + 1] = r
          BY <4>2, AppendAt
        <4> QED BY <1>1, <1>5, <4>3, Zenon
      <3> QED BY <2>1, <3>1, <3>3, <3>4, Zenon
    <2> QED BY <2>2, <2>3
  <1> HIDE DEF S, B
  <1>10. Laid(B, S, qq)
    BY <1>1, <1>3, <1>7, <1>8, <1>9 DEF Laid, Contents
  <1> QED BY <1>10 DEF S

(* So is a page with one row.                                              *)
LEMMA AddedLaid ==
    ASSUME NEW pp \in Seq(PageType), NEW qq \in Seq(PageType), NEW n \in Nat, NEW r \in Nat,
           Added(pp, qq, n, r), NEW A, NEW R, Laid(A, R, pp)
    PROVE  \E B : Laid(B, Append(R, r), qq)
  <1> DEFINE B == [i \in 1 .. n + 2 |-> IF i = n + 2 THEN A[n + 1] + 1 ELSE A[i]]
             S == Append(R, r)
  <1>1. /\ Len(pp) = n /\ Len(qq) = n + 1
        /\ \A i \in 1 .. n : qq[i] = pp[i]
        /\ qq[n + 1].rows = <<r>>
    BY DEF Added
  <1>2. Steps(A, pp) /\ R \in Seq(Nat) /\ Len(R) = A[n + 1] /\ Len(R) \in Nat
    BY <1>1 DEF Laid
  <1>3. S \in Seq(Nat) /\ Len(S) = Len(R) + 1 /\ (\A k \in 1 .. Len(R) : S[k] = R[k]) /\ S[Len(R) + 1] = r
    BY <1>2, AppendAt
  <1>4. \A i \in 1 .. n + 1 : A[i] \in Nat
    BY <1>1, <1>2, StepsAt
  <1>5. \A i \in 1 .. n : A[i + 1] = A[i] + Len(pp[i].rows)
    BY <1>1, <1>2, StepsAt
  <1>6. Len(qq[n + 1].rows) = 1
    BY <1>1
  <1>7. Steps(B, qq)
    <2>1. B \in [1 .. (n + 1) + 1 -> Nat]
      BY <1>4
    <2>2. B[1] = 0
      BY <1>1, <1>2, StepsAt
    <2>4. B[n + 2] = A[n + 1] + 1 /\ \A i \in 1 .. n + 1 : B[i] = A[i]
      OBVIOUS
    <2> HIDE DEF B
    <2>3. ASSUME NEW i \in 1 .. n + 1 PROVE B[i + 1] = B[i] + Len(qq[i].rows)
      <3>1. CASE i = n + 1
        <4>1. i + 1 = n + 2 /\ n + 1 \in 1 .. n + 1
          BY <3>1
        <4> QED BY <1>6, <2>4, <3>1, <4>1, Zenon
      <3>2. CASE i # n + 1
        <4>1. i \in 1 .. n /\ i + 1 \in 1 .. n + 1
          BY <3>2
        <4>2. B[i + 1] = A[i + 1] /\ B[i] = A[i] /\ qq[i] = pp[i]
          BY <1>1, <2>4, <4>1
        <4> QED BY <1>5, <4>1, <4>2, Zenon
      <3> QED BY <3>1, <3>2
    <2> QED BY <1>1, <2>1, <2>2, <2>3 DEF Steps
  <1>8. Len(S) = B[(n + 1) + 1]
    BY <1>2, <1>3
  <1>9. ASSUME NEW i \in 1 .. n + 1, NEW j \in 1 .. Len(qq[i].rows) PROVE S[B[i] + j] = qq[i].rows[j]
    <2>1. PICK a \in Nat : a = A[i] /\ a = B[i]
      BY <1>4
    <2> HIDE DEF S, B
    <2>2. CASE i # n + 1
      <3>0. i \in 1 .. n
        BY <2>2
      <3>1. qq[i] = pp[i]
        BY <1>1, <3>0
      <3>2. j \in 1 .. Len(pp[i].rows) /\ i \in 1 .. Len(pp)
        BY <1>1, <3>0, <3>1, Zenon
      <3>3. a + j \in 1 .. Len(R) /\ R[a + j] = pp[i].rows[j]
        <4>1. CellIs(R, a, j, pp[i].rows)
          BY <2>1, <3>2, Cell, Zenon
        <4> QED BY <4>1 DEF CellIs
      <3>4. S[a + j] = R[a + j]
        BY <1>3, <3>3
      <3> QED BY <2>1, <3>1, <3>3, <3>4, Zenon
    <2>3. CASE i = n + 1
      <3>1. j = 1
        <4>1. j \in 1 .. 1
          BY <1>6, <2>3, Zenon
        <4> QED BY <4>1
      <3>2. a + j = Len(R) + 1
        BY <1>2, <2>1, <2>3, <3>1
      <3>3. S[a + j] = r
        BY <1>3, <3>2, Zenon
      <3>4. qq[n + 1].rows[1] = r
        BY <1>1
      <3> QED BY <2>1, <2>3, <3>1, <3>3, <3>4, Zenon
    <2> QED BY <2>2, <2>3
  <1> HIDE DEF S, B
  <1>10. Laid(B, S, qq)
    BY <1>1, <1>3, <1>7, <1>8, <1>9 DEF Laid, Contents
  <1> QED BY <1>10 DEF S

(* What is left of a sequence without its first h elements.                *)
LEMMA SubSeqAt ==
    ASSUME NEW R \in Seq(Nat), NEW h \in Nat, h <= Len(R)
    PROVE  /\ SubSeq(R, h + 1, Len(R)) \in Seq(Nat)
           /\ Len(SubSeq(R, h + 1, Len(R))) = Len(R) - h
           /\ \A k \in 1 .. Len(R) - h : SubSeq(R, h + 1, Len(R))[k] = R[h + k]
  BY SMTT(30)

(* The pages from f on, of which the first has lost its rows above offset h. *)
Lost(A, f, h, i) == IF i = 1 THEN h - A[f] ELSE 0

Trimmed(A, pp, qq, f, n, h) ==
    /\ Len(pp) = n /\ f \in 1 .. n /\ Len(qq) = n - f + 1
    /\ h \in Nat /\ A[f] <= h /\ h < A[f + 1]
    /\ \A i \in 1 .. n - f + 1 :
          /\ Len(qq[i].rows) = Len(pp[f + i - 1].rows) - Lost(A, f, h, i)
          /\ \A j \in 1 .. Len(qq[i].rows) :
                qq[i].rows[j] = pp[f + i - 1].rows[Lost(A, f, h, i) + j]

(* Without the pages before f and the first rows of f the list is a suffix of what it was. *)
LEMMA TrimmedLaid ==
    ASSUME NEW pp \in Seq(PageType), NEW qq \in Seq(PageType), NEW n \in Nat, NEW f, NEW h, NEW A, NEW R,
           Laid(A, R, pp), Trimmed(A, pp, qq, f, n, h)
    PROVE  \E B : Laid(B, SubSeq(R, h + 1, Len(R)), qq)
  <1> DEFINE m == n - f + 1
             B == [i \in 1 .. m + 1 |-> IF i = 1 THEN 0 ELSE A[f + i - 1] - h]
             S == SubSeq(R, h + 1, Len(R))
  <1>1. Len(pp) = n /\ f \in 1 .. n /\ Len(qq) = m /\ m \in Nat /\ m >= 1 /\ h \in Nat /\ f \in Nat
    BY DEF Trimmed
  <1>2. A[f] <= h /\ h < A[f + 1]
    BY DEF Trimmed
  <1>3. ASSUME NEW i \in 1 .. m
        PROVE  /\ Len(qq[i].rows) = Len(pp[f + i - 1].rows) - Lost(A, f, h, i)
               /\ \A j \in 1 .. Len(qq[i].rows) : qq[i].rows[j] = pp[f + i - 1].rows[Lost(A, f, h, i) + j]
    BY DEF Trimmed
  <1>4. Steps(A, pp) /\ R \in Seq(Nat) /\ Len(R) = A[n + 1] /\ Len(R) \in Nat
    BY <1>1 DEF Laid
  <1>5. \A i \in 1 .. n + 1 : A[i] \in Nat
    BY <1>1, <1>4, StepsAt
  <1>6. \A i \in 1 .. n : A[i + 1] = A[i] + Len(pp[i].rows) /\ Len(pp[i].rows) \in Nat
    <2>1. Len(pp) = n
      BY <1>1
    <2> QED BY <1>4, <2>1, StepsAt
  <1>7. ASSUME NEW i \in f + 1 .. n + 1 PROVE h < A[i]
    <2>0. f + 1 \in 1 .. n + 1 /\ i \in 1 .. n + 1
      BY <1>1
    <2>1. CASE i = f + 1
      BY <1>2, <2>1
    <2>2. CASE i # f + 1
      <3>1. f + 1 \in 1 .. Len(pp) /\ i \in 1 .. Len(pp) + 1 /\ f + 1 < i
        BY <1>1, <2>2
      <3>2. A[f + 1] + Len(pp[f + 1].rows) <= A[i]
        BY <1>4, <3>1, Climbs
      <3>3. PICK a \in Nat, b \in Nat, c \in Nat : a = A[f + 1] /\ b = A[i] /\ c = Len(pp[f + 1].rows)
        BY <1>1, <1>5, <1>6, <2>0, <3>1, Zenon
      <3>4. h < b
        <4>1. h < a /\ a + c <= b
          BY <1>2, <3>2, <3>3, Zenon
        <4> QED BY <1>1, <4>1
      <3> QED BY <3>3, <3>4
    <2> QED BY <2>1, <2>2
  <1>8. B[1] = 0 /\ \A i \in 2 .. m + 1 : B[i] = A[f + i - 1] - h /\ f + i - 1 \in f + 1 .. n + 1
    BY <1>1
  <1>9. B \in [1 .. m + 1 -> Nat]
    <2>1. ASSUME NEW i \in 2 .. m + 1 PROVE A[f + i - 1] - h \in Nat
      <3>1. f + i - 1 \in f + 1 .. n + 1 /\ f + i - 1 \in 1 .. n + 1
        BY <1>1, <1>8
      <3>2. h < A[f + i - 1] /\ A[f + i - 1] \in Nat
        BY <1>5, <1>7, <3>1
      <3> QED BY <1>1, <3>2
    <2> QED BY <2>1
  <1> HIDE DEF B
  <1>10. ASSUME NEW i \in 1 .. m PROVE B[i] + h = A[f + i - 1] + Lost(A, f, h, i) /\ B[i] \in Nat
    <2>0. B[i] \in Nat
      <3>1. i \in 1 .. m + 1
        BY <1>1
      <3> QED BY <1>9, <3>1
    <2>1. CASE i = 1
      <3>1. f + i - 1 = f /\ B[i] = 0 /\ Lost(A, f, h, i) = h - A[f] /\ A[f] \in Nat
        BY <1>1, <1>5, <1>8, <2>1 DEF Lost
      <3>2. 0 + h = A[f] + (h - A[f])
        BY <1>1, <3>1
      <3> QED BY <2>0, <3>1, <3>2, Zenon
    <2>2. CASE i # 1
      <3>1. i \in 2 .. m + 1 /\ Lost(A, f, h, i) = 0 /\ f + i - 1 \in 1 .. n + 1
        BY <1>1, <2>2 DEF Lost
      <3>2. B[i] = A[f + i - 1] - h /\ A[f + i - 1] \in Nat
        BY <1>5, <1>8, <3>1
      <3>3. (A[f + i - 1] - h) + h = A[f + i - 1] + 0
        BY <1>1, <3>2
      <3> QED BY <2>0, <3>1, <3>2, <3>3, Zenon
    <2> QED BY <2>1, <2>2
  <1>11. Steps(B, qq)
    <2>1. ASSUME NEW i \in 1 .. m PROVE B[i + 1] = B[i] + Len(qq[i].rows)
      <3>1. f + i - 1 \in 1 .. n /\ i + 1 \in 2 .. m + 1 /\ f + (i + 1) - 1 = (f + i - 1) + 1
        BY <1>1
      <3>2. B[i + 1] = A[(f + i - 1) + 1] - h
        BY <1>8, <3>1, Zenon
      <3>3. PICK a \in Nat, b \in Nat, c \in Nat, d \in Nat, e \in Int :
              /\ a = A[f + i - 1] /\ b = A[(f + i - 1) + 1] /\ c = Len(pp[f + i - 1].rows)
              /\ d = Len(qq[i].rows) /\ e = Lost(A, f, h, i)
        <4>1. i \in 1 .. Len(qq) /\ (f + i - 1) + 1 \in 1 .. n + 1 /\ f + i - 1 \in 1 .. n + 1
          BY <1>1, <3>1
        <4>2. Len(qq[i].rows) \in Nat
          BY <4>1, PageAt
        <4>3. Lost(A, f, h, i) \in Int
          <5>1. A[f] \in Nat
            BY <1>1, <1>5
          <5> QED BY <1>1, <5>1 DEF Lost
        <4> QED BY <1>5, <1>6, <3>1, <4>1, <4>2, <4>3, Zenon
      <3>4. b = a + c /\ d = c - e /\ B[i] + h = a + e /\ B[i] \in Nat
        BY <1>3, <1>6, <1>10, <3>1, <3>3, Zenon
      <3>5. PICK g \in Nat : g = B[i]
        BY <3>4
      <3>6. e = g + h - a
        <4>2. e \in Int /\ g + h = a + e
          BY <3>3, <3>4, <3>5, Zenon
        <4> QED BY <1>1, <4>2
      <3>7. b - h = g + d
        BY <1>1, <3>4, <3>6
      <3> QED BY <3>2, <3>3, <3>5, <3>7, Zenon
    <2> QED BY <1>1, <1>8, <1>9, <2>1 DEF Steps
  <1>12. h < Len(R)
    <2>1. n + 1 \in f + 1 .. n + 1
      BY <1>1
    <2> QED BY <1>4, <1>7, <2>1
  <1>13. S \in Seq(Nat) /\ Len(S) = Len(R) - h /\ \A k \in 1 .. Len(R) - h : S[k] = R[h + k]
    BY <1>1, <1>4, <1>12, SubSeqAt
  <1>14. Len(S) = B[m + 1]
    <2>1. m + 1 \in 2 .. m + 1 /\ f + (m + 1) - 1 = n + 1
      BY <1>1
    <2> QED BY <1>4, <1>8, <1>13, <2>1, Zenon
  <1> HIDE DEF S
  <1>15. ASSUME NEW i \in 1 .. m, NEW j \in 1 .. Len(qq[i].rows) PROVE S[B[i] + j] = qq[i].rows[j]
    <2>1. f + i - 1 \in 1 .. Len(pp) /\ f + i - 1 \in 1 .. n /\ f + i - 1 \in 1 .. n + 1 /\ i \in 1 .. Len(qq)
      BY <1>1
    <2>2. PICK a \in Nat, c \in Nat, d \in Nat, e \in Nat, g \in Nat :
              /\ a = A[f + i - 1] /\ c = Len(pp[f + i - 1].rows)
              /\ d = Len(qq[i].rows) /\ e = Lost(A, f, h, i) /\ g = B[i]
      <3>1. Len(qq[i].rows) \in Nat
        BY <2>1, PageAt
      <3>2. Lost(A, f, h, i) \in Nat
        <4>1. A[f] \in Nat
          BY <1>1, <1>5
        <4> QED BY <1>1, <1>2, <4>1 DEF Lost
      <3> QED BY <1>5, <1>6, <1>10, <2>1, <3>1, <3>2, Zenon
    <2>3. d = c - e /\ g + h = a + e /\ j \in 1 .. d
      BY <1>3, <1>10, <2>2, Zenon
    <2>4. e + j \in 1 .. c
      BY <2>3
    <2>5. CellIs(R, a, e + j, pp[f + i - 1].rows)
      BY <2>1, <2>2, <2>4, Cell, Zenon
    <2>6. R[a + (e + j)] = pp[f + i - 1].rows[e + j] /\ a + (e + j) \in 1 .. Len(R)
      BY <2>5 DEF CellIs
    <2>7. a + (e + j) = h + (g + j) /\ g + j \in 1 .. Len(R) - h
      <3>1. a + (e + j) = h + (g + j) /\ g + j \in Nat /\ g + j >= 1
        BY <1>1, <2>3
      <3>2. PICK q \in Nat : q = g + j
        BY <3>1
      <3>3. h + q <= Len(R)
        BY <2>6, <3>1, <3>2
      <3>4. q \in 1 .. Len(R) - h
        BY <1>1, <1>4, <3>1, <3>2, <3>3
      <3> QED BY <3>1, <3>2, <3>4
    <2>8. S[g + j] = R[h + (g + j)]
      BY <1>13, <2>7, Zenon
    <2>9. qq[i].rows[j] = pp[f + i - 1].rows[e + j]
      BY <1>3, <2>2, Zenon
    <2> QED BY <2>2, <2>6, <2>7, <2>8, <2>9, Zenon
  <1>16. Laid(B, S, qq)
    BY <1>1, <1>11, <1>13, <1>14, <1>15, Zenon DEF Laid, Contents
  <1> QED BY <1>16 DEF S

-----------------------------------------------------------------------------
(* The pages hold the same rows.                                           *)
LEMMA SameLaid ==
    ASSUME NEW pp, NEW qq, Len(qq) = Len(pp), \A i \in 1 .. Len(pp) : qq[i].rows = pp[i].rows,
           NEW A, NEW R, Laid(A, R, pp)
    PROVE  Laid(A, R, qq)
  BY Zenon DEF Laid, Steps, Contents

(* They hold as many other rows.                                           *)
LEMMA OtherLaid ==
    ASSUME NEW pp \in Seq(PageType), NEW qq, Len(qq) = Len(pp),
           NEW A, NEW R, Laid(A, R, pp), NEW S \in Seq(Nat), Len(S) = Len(R),
           \A i \in 1 .. Len(pp) : qq[i].rows = SubSeq(S, A[i] + 1, A[i + 1])
    PROVE  Laid(A, S, qq) /\ \A i \in 1 .. Len(pp) : Len(qq[i].rows) = Len(pp[i].rows)
  <1>1. Steps(A, pp) /\ Len(S) = A[Len(pp) + 1] /\ Len(S) \in Nat
    BY DEF Laid
  <1>2. ASSUME NEW i \in 1 .. Len(pp)
        PROVE  /\ Len(qq[i].rows) = Len(pp[i].rows)
               /\ \A j \in 1 .. Len(qq[i].rows) : S[A[i] + j] = qq[i].rows[j]
    <2>1. PICK a \in Nat, b \in Nat, c \in Nat : a = A[i] /\ b = A[i + 1] /\ c = Len(pp[i].rows)
      BY <1>1, StepsAt, Zenon
    <2>2. b = a + c
      BY <1>1, <2>1, StepsAt, Zenon
    <2>3. b <= Len(S)
      <3>1. CASE i = Len(pp)
        BY <1>1, <2>1, <3>1
      <3>2. CASE i # Len(pp)
        <4>1. Len(pp) + 1 \in 1 .. Len(pp) + 1 /\ i < Len(pp) + 1
          BY <3>2
        <4>2. A[i] + Len(pp[i].rows) <= A[Len(pp) + 1]
          BY <1>1, <4>1, Climbs
        <4> QED BY <1>1, <2>1, <2>2, <4>2
      <3> QED BY <3>1, <3>2
    <2>4. PICK q : q = SubSeq(S, a + 1, b)
      OBVIOUS
    <2>5. Len(q) = c /\ \A j \in 1 .. c : q[j] = S[a + j]
      BY <1>1, <2>2, <2>3, <2>4
    <2>6. qq[i].rows = q
      BY <2>1, <2>4, Zenon
    <2> QED BY <2>1, <2>5, <2>6, Zenon
  <1>3. Steps(A, qq)
    BY <1>1, <1>2, Zenon DEF Steps
  <1>4. Contents(A, S, qq, Len(qq))
    BY <1>2, Zenon DEF Contents
  <1> QED BY <1>1, <1>2, <1>3, <1>4, Zenon DEF Laid

Parted(pp, qq, i, c, n) ==
    /\ Len(pp) = n /\ i \in 1 .. n /\ c \in Nat /\ c <= Len(pp[i].rows) /\ Len(qq) = n + 1
    /\ \A j \in 1 .. i - 1 : qq[j].rows = pp[j].rows
    /\ \A j \in i + 1 .. n : qq[j + 1].rows = pp[j].rows
    /\ qq[i].rows = SubSeq(pp[i].rows, 1, c)
    /\ qq[i + 1].rows = SubSeq(pp[i].rows, c + 1, Len(pp[i].rows))

(* The two parts of a sequence that is cut.                                *)
LEMMA PartsAt ==
    ASSUME NEW r \in Seq(Nat), NEW c \in Nat, c <= Len(r)
    PROVE  /\ SubSeq(r, 1, c) \in Seq(Nat) /\ Len(SubSeq(r, 1, c)) = c
           /\ SubSeq(r, c + 1, Len(r)) \in Seq(Nat) /\ Len(SubSeq(r, c + 1, Len(r))) = Len(r) - c
           /\ \A j \in 1 .. c : SubSeq(r, 1, c)[j] = r[j]
           /\ \A j \in 1 .. Len(r) - c : SubSeq(r, c + 1, Len(r))[j] = r[c + j]
  BY SMTT(30)

(* A page that is split in two holds the same rows.                        *)
LEMMA PartedLaid ==
    ASSUME NEW pp \in Seq(PageType), NEW qq \in Seq(PageType), NEW n \in Nat, NEW i, NEW c, NEW A, NEW R,
           Laid(A, R, pp), Parted(pp, qq, i, c, n)
    PROVE  \E B : Laid(B, R, qq)
  <1> DEFINE B == [j \in 1 .. n + 2 |-> IF j <= i THEN A[j] ELSE IF j = i + 1 THEN A[i] + c ELSE A[j - 1]]
  <1>1. Len(pp) = n /\ i \in 1 .. n /\ c \in Nat /\ Len(qq) = n + 1
    BY DEF Parted
  <1>2. \A j \in 1 .. i - 1 : qq[j].rows = pp[j].rows
    BY DEF Parted
  <1>3. \A j \in i + 1 .. n : qq[j + 1].rows = pp[j].rows
    BY DEF Parted
  <1>4. PICK r \in Seq(Nat) : r = pp[i].rows
    BY <1>1, PageAt
  <1>5. /\ c <= Len(r) /\ Len(r) \in Nat
        /\ Len(qq[i].rows) = c /\ Len(qq[i + 1].rows) = Len(r) - c
        /\ \A j \in 1 .. c : qq[i].rows[j] = r[j]
        /\ \A j \in 1 .. Len(r) - c : qq[i + 1].rows[j] = r[c + j]
    <2>1. c <= Len(r) /\ qq[i].rows = SubSeq(r, 1, c) /\ qq[i + 1].rows = SubSeq(r, c + 1, Len(r))
      BY <1>4, Zenon DEF Parted
    <2> QED BY <1>1, <2>1, PartsAt
  <1>6. Steps(A, pp) /\ R \in Seq(Nat) /\ Len(R) = A[n + 1]
    BY <1>1 DEF Laid
  <1>7. \A j \in 1 .. n + 1 : A[j] \in Nat
    BY <1>1, <1>6, StepsAt
  <1>8. \A j \in 1 .. n : A[j + 1] = A[j] + Len(pp[j].rows)
    <2>1. Len(pp) = n
      BY <1>1
    <2> QED BY <1>6, <2>1, StepsAt
  <1>9. /\ B \in [1 .. (n + 1) + 1 -> Nat]
        /\ \A j \in 1 .. i : B[j] = A[j]
        /\ B[i + 1] = A[i] + c
        /\ \A j \in i + 1 .. n + 1 : B[j + 1] = A[j]
    BY <1>1, <1>7
  <1> HIDE DEF B
  <1>10. PICK a \in Nat : a = A[i] /\ A[i + 1] = a + Len(r)
    BY <1>1, <1>4, <1>7, <1>8
  <1>11. Steps(B, qq)
    <2>1. ASSUME NEW j \in 1 .. n + 1 PROVE B[j + 1] = B[j] + Len(qq[j].rows)
      <3>1. CASE j < i
        <4>1. j \in 1 .. i - 1 /\ j \in 1 .. i /\ j + 1 \in 1 .. i /\ j \in 1 .. n
          BY <1>1, <3>1
        <4> QED BY <1>2, <1>8, <1>9, <4>1, Zenon
      <3>2. CASE j = i
        <4>1. i \in 1 .. i
          BY <1>1
        <4> QED BY <1>5, <1>9, <3>2, <4>1, Zenon
      <3>3. CASE j = i + 1
        <4>1. i + 1 \in i + 1 .. n + 1
          BY <1>1
        <4>2. B[i + 1] = a + c /\ B[(i + 1) + 1] = a + Len(r)
          BY <1>9, <1>10, <4>1, Zenon
        <4>3. a + Len(r) = (a + c) + (Len(r) - c)
          BY <1>1, <1>5
        <4> QED BY <1>5, <3>3, <4>2, <4>3, Zenon
      <3>4. CASE j > i + 1
        <4>1. PICK k : k = j - 1
          OBVIOUS
        <4>2. k + 1 = j /\ k \in i + 1 .. n /\ k \in i + 1 .. n + 1 /\ k + 1 \in i + 1 .. n + 1 /\ k \in 1 .. n
          BY <1>1, <3>4, <4>1
        <4>3. B[k + 1] = A[k] /\ B[(k + 1) + 1] = A[k + 1] /\ qq[k + 1].rows = pp[k].rows
          BY <1>3, <1>9, <4>2, Zenon
        <4> QED BY <1>8, <4>2, <4>3, Zenon
      <3> QED BY <1>1, <3>1, <3>2, <3>3, <3>4
    <2>2. B[1] = 0
      <3>1. 1 \in 1 .. i
        BY <1>1
      <3> QED BY <1>6, <1>9, <3>1, StepsAt
    <2> QED BY <1>1, <1>9, <2>1, <2>2 DEF Steps
  <1>12. Len(R) = B[(n + 1) + 1]
    <2>1. n + 1 \in i + 1 .. n + 1
      BY <1>1
    <2> QED BY <1>6, <1>9, <2>1, Zenon
  <1>13. ASSUME NEW j \in 1 .. n + 1, NEW x \in 1 .. Len(qq[j].rows) PROVE R[B[j] + x] = qq[j].rows[x]
    <2>1. CASE j < i
      <3>1. j \in 1 .. i - 1 /\ j \in 1 .. i /\ j \in 1 .. Len(pp)
        BY <1>1, <2>1
      <3>2. B[j] = A[j] /\ qq[j].rows = pp[j].rows
        BY <1>2, <1>9, <3>1, Zenon
      <3> QED BY <3>1, <3>2, Zenon DEF Laid, Contents
    <2>2. CASE j = i
      <3>1. i \in 1 .. i /\ i \in 1 .. Len(pp)
        BY <1>1
      <3>2. x \in 1 .. c /\ qq[j].rows[x] = r[x] /\ B[j] = A[i]
        BY <1>5, <1>9, <2>2, <3>1, Zenon
      <3>3. x \in 1 .. Len(pp[i].rows)
        BY <1>1, <1>4, <1>5, <3>2
      <3> QED BY <1>4, <3>1, <3>2, <3>3, Zenon DEF Laid, Contents
    <2>3. CASE j = i + 1
      <3>1. i \in 1 .. Len(pp)
        BY <1>1
      <3>2. x \in 1 .. Len(r) - c /\ qq[j].rows[x] = r[c + x] /\ B[j] = a + c
        BY <1>5, <1>9, <1>10, <2>3, <3>1, Zenon
      <3>3. c + x \in 1 .. Len(r) /\ a + (c + x) = (a + c) + x
        BY <1>1, <1>5, <3>2
      <3>4. c + x \in 1 .. Len(pp[i].rows)
        BY <1>4, <3>3, Zenon
      <3>5. CellIs(R, a, c + x, pp[i].rows)
        BY <1>10, <3>1, <3>4, Cell, Zenon
      <3>6. R[a + (c + x)] = r[c + x]
        BY <1>4, <3>5 DEF CellIs
      <3> QED BY <3>2, <3>3, <3>6, Zenon
    <2>4. CASE j > i + 1
      <3>1. PICK k : k = j - 1
        OBVIOUS
      <3>2. k + 1 = j /\ k \in i + 1 .. n /\ k \in i + 1 .. n + 1 /\ k \in 1 .. Len(pp)
        BY <1>1, <2>4, <3>1
      <3>3. B[k + 1] = A[k] /\ qq[k + 1].rows = pp[k].rows
        BY <1>3, <1>9, <3>2, Zenon
      <3> QED BY <3>2, <3>3, Zenon DEF Laid, Contents
    <2> QED BY <1>1, <2>1, <2>2, <2>3, <2>4
  <1>14. Laid(B, R, qq)
    BY <1>1, <1>6, <1>11, <1>12, <1>13, Zenon DEF Laid, Contents
  <1> QED BY <1>14

-----------------------------------------------------------------------------
(* The first pages.                                                        *)
PageCount == (Rows + RowCap - 1) \div RowCap
Height(i) == IF i < PageCount THEN RowCap ELSE Rows - RowCap * (PageCount - 1)

(* What a quotient is.                                                     *)
LEMMA Quotient ==
    ASSUME NEW c \in Nat \ {0}, NEW x \in Nat, NEW n, n = x \div c
    PROVE  n \in Nat /\ c * n <= x /\ x < c * n + c
  OBVIOUS

(* The arithmetic of a product with a constant, which the solver takes as given. *)
LEMMA Product ==
    ASSUME NEW c \in Nat, NEW n \in Int
    PROVE  c * n \in Int /\ c * (n - 1) = c * n - c /\ (n \in Nat => c * n \in Nat)
  OBVIOUS

(* The first pages hold Rows rows, the last of them at least one.          *)
LEMMA PageCountIs ==
    /\ PageCount \in Nat /\ PageCount >= 1
    /\ RowCap * (PageCount - 1) \in Nat
    /\ RowCap * (PageCount - 1) < Rows
    /\ Rows - RowCap * (PageCount - 1) <= RowCap
  <1>1. Rows \in Nat /\ Rows >= 2 /\ RowCap \in Nat \ {0}
    BY SizeAssumption
  <1>2. PICK x \in Nat : x = Rows + RowCap - 1
    BY <1>1
  <1>3. PageCount = x \div RowCap
    BY <1>2 DEF PageCount
  <1>4. PageCount \in Nat /\ RowCap * PageCount <= x /\ x < RowCap * PageCount + RowCap
    BY <1>1, <1>3, Quotient
  <1>5. RowCap * PageCount \in Int /\ RowCap * (PageCount - 1) = RowCap * PageCount - RowCap
    BY <1>1, <1>4, Product
  <1>6. PageCount # 0
    <2>1. SUFFICES ASSUME PageCount = 0 PROVE FALSE
      OBVIOUS
    <2>2. RowCap * 0 = 0
      BY <1>1
    <2>3. x < RowCap
      BY <1>1, <1>4, <2>1, <2>2
    <2> QED BY <1>1, <1>2, <2>3
  <1>7. PageCount - 1 \in Nat
    BY <1>4, <1>6
  <1>8. RowCap * (PageCount - 1) \in Nat
    BY <1>1, <1>7, Product
  <1> QED BY <1>1, <1>2, <1>4, <1>5, <1>6, <1>8

(* How many rows one of them holds, and that the next one begins there.    *)
LEMMA HeightIs ==
    ASSUME NEW i \in 1 .. PageCount
    PROVE  /\ Height(i) \in 1 .. RowCap /\ RowCap * (i - 1) \in Nat
           /\ RowCap * (i - 1) + Height(i) = (IF i < PageCount THEN RowCap * ((i + 1) - 1) ELSE Rows)
  <1>1. Rows \in Nat /\ RowCap \in Nat /\ RowCap >= 1
    BY SizeAssumption
  <1>2. i \in Nat /\ i - 1 \in Nat /\ PageCount \in Nat
    BY PageCountIs
  <1>3. RowCap * (i - 1) \in Nat /\ RowCap * (i - 1) = RowCap * i - RowCap /\ RowCap * i \in Nat
    BY <1>1, <1>2, Product
  <1>4. (i + 1) - 1 = i
    BY <1>2
  <1>5. CASE i < PageCount
    BY <1>1, <1>3, <1>4, <1>5 DEF Height
  <1>6. CASE ~(i < PageCount)
    <2>1. i = PageCount
      BY <1>2, <1>6
    <2>2. RowCap * (i - 1) < Rows /\ Rows - RowCap * (i - 1) <= RowCap
      BY <2>1, PageCountIs
    <2>3. Height(i) = Rows - RowCap * (i - 1)
      BY <2>1, <1>6 DEF Height
    <2> QED BY <1>1, <1>3, <1>6, <2>2, <2>3
  <1> QED BY <1>5, <1>6

FirstAt(pp, id, born, i) ==
    /\ pp[i].id = id + i
    /\ Len(pp[i].rows) = Height(i)
    /\ \A j \in 1 .. Height(i) : pp[i].rows[j] = born + RowCap * (i - 1) + j

(* init_pages makes that many pages with those rows.                       *)
LEMMA FirstPagesAre ==
    ASSUME NEW id \in Nat, NEW serial \in Nat, NEW born \in Nat, NEW pp, pp = FirstPages(id, serial, born)
    PROVE  /\ pp \in Seq(PageType) /\ Len(pp) = PageCount
           /\ \A i \in 1 .. PageCount : FirstAt(pp, id, born, i)
  <1> DEFINE Row(i) == [j \in 1 .. Height(i) |-> born + RowCap * (i - 1) + j]
  <1>1. pp = [i \in 1 .. PageCount |-> Page(id + i, serial + i - 1, 1, Row(i))]
    BY Zenon DEF FirstPages, PageCount, Height
  <1>2. PageCount \in Nat
    BY PageCountIs
  <1>3. ASSUME NEW i \in 1 .. PageCount
        PROVE  /\ Row(i) \in Seq(Nat) /\ Len(Row(i)) = Height(i)
               /\ \A j \in 1 .. Height(i) : Row(i)[j] = born + RowCap * (i - 1) + j
    <2>1. PICK h \in Nat, b \in Nat : h = Height(i) /\ b = RowCap * (i - 1)
      <3>1. Height(i) \in Nat
        BY HeightIs, SizeAssumption
      <3> QED BY <3>1, HeightIs
    <2>2. PICK w : w = [j \in 1 .. h |-> born + b + j]
      OBVIOUS
    <2>3. w = Row(i)
      BY <2>1, <2>2, Zenon
    <2>4. w \in Seq(Nat) /\ Len(w) = h /\ \A j \in 1 .. h : w[j] = born + b + j
      BY <2>2
    <2> HIDE DEF Row
    <2> QED BY <2>1, <2>3, <2>4, Zenon
  <1> HIDE DEF Row
  <1>4. ASSUME NEW i \in 1 .. PageCount
        PROVE  LET p == Page(id + i, serial + i - 1, 1, Row(i))
               IN  p \in PageType /\ p.id = id + i /\ p.rows = Row(i)
    <2>1. id + i \in Nat /\ serial + i - 1 \in Nat
      BY <1>2
    <2> QED BY <1>3, <2>1 DEF Page, PageType
  <1>5. pp \in [1 .. PageCount -> PageType]
    BY <1>1, <1>4, Zenon
  <1>6. pp \in Seq(PageType) /\ Len(pp) = PageCount
    BY <1>2, <1>5
  <1>7. \A i \in 1 .. PageCount : pp[i].id = id + i /\ pp[i].rows = Row(i)
    BY <1>1, <1>4, Zenon
  <1> QED BY <1>3, <1>6, <1>7, Zenon DEF FirstAt

(* They are well-formed pages, and a pin may point at their first row.     *)
LEMMA FirstPagesOK ==
    ASSUME NEW id \in Nat, NEW serial \in Nat, NEW born \in Nat, NEW pp, pp = FirstPages(id, serial, born)
    PROVE  /\ PagesOK(pp)
           /\ \A i \in 1 .. Len(pp) : pp[i].id <= id + PageCount
           /\ On(pp, [page |-> id + 1, y |-> 0, garbage |-> TRUE], 1)
  <1>1. pp \in Seq(PageType) /\ Len(pp) = PageCount
    BY FirstPagesAre
  <1>2. \A i \in 1 .. PageCount : pp[i].id = id + i /\ Len(pp[i].rows) = Height(i)
    <2>1. \A i \in 1 .. PageCount : FirstAt(pp, id, born, i)
      BY FirstPagesAre, Zenon
    <2> QED BY <2>1, Zenon DEF FirstAt
  <1>3. PageCount \in Nat /\ PageCount >= 1
    BY PageCountIs
  <1>4. \A i \in 1 .. PageCount : Height(i) \in 1 .. RowCap
    BY HeightIs
  <1>5. \A i \in 1 .. PageCount : pp[i].id <= id + PageCount
    BY <1>2, <1>3
  <1>6. \A i, j \in 1 .. PageCount : pp[i].id = pp[j].id => i = j
    <2> SUFFICES ASSUME NEW i \in 1 .. PageCount, NEW j \in 1 .. PageCount, pp[i].id = pp[j].id PROVE i = j
      OBVIOUS
    <2>1. id + i = id + j
      BY <1>2, Zenon
    <2> QED BY <1>3, <2>1
  <1>7. On(pp, [page |-> id + 1, y |-> 0, garbage |-> TRUE], 1)
    <2>1. 1 \in 1 .. PageCount /\ pp[1].id = id + 1 /\ Len(pp[1].rows) = Height(1) /\ Height(1) \in 1 .. RowCap
      BY <1>2, <1>3, <1>4
    <2>2. PICK h \in 1 .. RowCap : h = Len(pp[1].rows)
      BY <2>1
    <2>3. 0 < h
      BY SizeAssumption
    <2> QED BY <1>1, <2>1, <2>2, <2>3 DEF On
  <1>8. \A i \in 1 .. PageCount : Len(pp[i].rows) \in 1 .. RowCap
    BY <1>2, <1>4, Zenon
  <1> QED BY <1>1, <1>3, <1>5, <1>6, <1>7, <1>8 DEF PagesOK

(* Their rows are the next Rows new ones, in order.                        *)
LEMMA FirstLaid ==
    ASSUME NEW id \in Nat, NEW serial \in Nat, NEW born \in Nat, NEW pp, pp = FirstPages(id, serial, born)
    PROVE  \E B : Laid(B, [x \in 1 .. Rows |-> born + x], pp)
  <1> DEFINE n == PageCount
             B == [i \in 1 .. n + 1 |-> IF i <= n THEN RowCap * (i - 1) ELSE Rows]
             R == [x \in 1 .. Rows |-> born + x]
  <1>1. pp \in Seq(PageType) /\ Len(pp) = n
    BY FirstPagesAre
  <1>2. \A i \in 1 .. n : /\ Len(pp[i].rows) = Height(i)
                          /\ \A j \in 1 .. Height(i) : pp[i].rows[j] = born + RowCap * (i - 1) + j
    <2>1. \A i \in 1 .. PageCount : FirstAt(pp, id, born, i)
      BY FirstPagesAre, Zenon
    <2> QED BY <2>1, Zenon DEF FirstAt
  <1>3. n \in Nat /\ n >= 1 /\ Rows \in Nat /\ RowCap \in Nat
    BY PageCountIs, SizeAssumption
  <1> HIDE DEF n
  <1>4. ASSUME NEW i \in 1 .. n PROVE Height(i) \in Nat /\ RowCap * (i - 1) \in Nat
                                      /\ RowCap * (i - 1) + Height(i) = (IF i < n THEN RowCap * ((i + 1) - 1) ELSE Rows)
    BY <1>3, HeightIs DEF n
  <1>5. ASSUME NEW i \in 1 .. n
        PROVE  /\ B[i] = RowCap * (i - 1) /\ B[i + 1] = RowCap * (i - 1) + Height(i)
    <2>1. B[i] = RowCap * (i - 1)
      BY <1>3
    <2>2. CASE i < n
      <3>1. B[i + 1] = RowCap * ((i + 1) - 1)
        BY <1>3, <2>2
      <3> QED BY <1>4, <2>1, <2>2, <3>1, Zenon
    <2>3. CASE ~(i < n)
      <3>1. B[i + 1] = Rows
        BY <1>3, <2>3
      <3> QED BY <1>4, <2>1, <2>3, <3>1, Zenon
    <2> QED BY <2>2, <2>3
  <1>6. B \in [1 .. n + 1 -> Nat]
    <2>1. ASSUME NEW i \in 1 .. n + 1, i <= n PROVE RowCap * (i - 1) \in Nat
      <3>1. i \in 1 .. n
        BY <1>3, <2>1
      <3> QED BY <1>4, <3>1
    <2> QED BY <1>3, <2>1
  <1>7. B[1] = 0 /\ B[n + 1] = Rows
    <2>1. RowCap * (1 - 1) = 0
      BY <1>3
    <2> QED BY <1>3, <2>1
  <1> HIDE DEF B
  <1>8. Steps(B, pp)
    BY <1>1, <1>2, <1>5, <1>6, <1>7, Zenon DEF Steps
  <1>9. R \in Seq(Nat) /\ Len(R) = Rows /\ \A x \in 1 .. Rows : R[x] = born + x
    BY <1>3
  <1> HIDE DEF R
  <1>10. \A i \in 1 .. n + 1 : B[i] \in Nat
    BY <1>6
  <1>11. ASSUME NEW i \in 1 .. n, NEW j \in 1 .. Len(pp[i].rows) PROVE R[B[i] + j] = pp[i].rows[j]
    <2>1. i \in 1 .. Len(pp) /\ i \in 1 .. n + 1 /\ i + 1 \in 1 .. n + 1
      BY <1>1, <1>3
    <2>2. PICK b \in Nat, h \in Nat, c \in Nat : b = B[i] /\ h = Height(i) /\ c = B[i + 1]
      BY <1>4, <1>10, <2>1
    <2>3. c = b + h /\ b = RowCap * (i - 1) /\ j \in 1 .. h
      BY <1>2, <1>5, <2>2, Zenon
    <2>4. c <= Rows
      <3>1. CASE i = n
        BY <1>7, <2>2, <3>1
      <3>2. CASE i # n
        <4>1. i + 1 \in 1 .. Len(pp) /\ n + 1 \in 1 .. Len(pp) + 1 /\ i + 1 < n + 1
          BY <1>1, <1>3, <3>2
        <4>2. B[i + 1] + Len(pp[i + 1].rows) <= B[n + 1]
          BY <1>1, <1>8, <4>1, Climbs
        <4>3. Len(pp[i + 1].rows) \in Nat
          BY <1>1, <4>1, PageAt
        <4>4. PICK d \in Nat : d = Len(pp[i + 1].rows)
          BY <4>3
        <4>5. c + d <= Rows
          BY <1>7, <2>2, <4>2, <4>4, Zenon
        <4> QED BY <1>3, <4>5
      <3> QED BY <3>1, <3>2
    <2>5. b + j \in 1 .. Rows
      BY <1>3, <2>3, <2>4
    <2>6. R[b + j] = born + (b + j)
      BY <1>9, <2>5, Zenon
    <2>7. pp[i].rows[j] = born + b + j
      BY <1>2, <2>2, <2>3, Zenon
    <2>8. born + (b + j) = born + b + j
      BY <2>3
    <2> QED BY <2>2, <2>6, <2>7, <2>8, Zenon
  <1>12. Laid(B, R, pp)
    BY <1>1, <1>7, <1>8, <1>9, <1>11, Zenon DEF Laid, Contents
  <1> QED BY <1>12 DEF R

(* AllRows is what a layout says.                                          *)
LEMMA AllRowsIs ==
    ASSUME NEW l, l.pages \in Seq(PageType), NEW R, \E B : Laid(B, R, l.pages)
    PROVE  AllRows(l) = R
  BY LaidOut, Zenon

(* Rows, pins and offsets depend on the pages alone.                       *)
LEMMA SamePages ==
    ASSUME NEW l, NEW m, m.pages = l.pages
    PROVE  /\ AllRows(m) = AllRows(l)
           /\ \A pin : (Valid(m, pin) <=> Valid(l, pin)) /\ Offset(m, pin) = Offset(l, pin)
           /\ \A k : PinAt(m, k) = PinAt(l, k)
  <1>1. Heights(m) = Heights(l) /\ AllRows(m) = AllRows(l)
    BY Zenon DEF Heights, AllRows
  <1>2. \A i : Above(m, i) = Above(l, i)
    BY <1>1, Zenon DEF Above
  <1>3. \A id : Index(m, id) = Index(l, id)
    BY Zenon DEF Index
  <1>4. \A pin : Valid(m, pin) <=> Valid(l, pin)
    BY <1>1, Zenon DEF Valid
  <1>5. \A pin : Offset(m, pin) = Offset(l, pin)
    BY <1>2, <1>3, Zenon DEF Offset
  <1>6. \A k : PinAt(m, k) = PinAt(l, k)
    BY <1>2, Zenon DEF PinAt
  <1> QED BY <1>1, <1>4, <1>5, <1>6

(* A list with new pages and counters is a list.                           *)
LEMMA TypedGrown ==
    ASSUME NEW l \in ListType, NEW pages \in Seq(PageType), NEW serial \in Nat, NEW serialMin \in Nat, NEW nextId \in Nat, NEW born \in Nat, NEW total \in Nat
    PROVE  [l EXCEPT !.pages = pages, !.serial = serial, !.serialMin = serialMin, !.nextId = nextId, !.born = born, !.total = total] \in ListType
  BY DEF ListType

(* So is one with other pins and another viewport.                         *)
LEMMA TypedPins ==
    ASSUME NEW l \in ListType, NEW pins \in PinsType, NEW viewport \in ViewportType, NEW cache \in CacheType
    PROVE  [l EXCEPT !.pins = pins, !.viewport = viewport, !.cache = cache] \in ListType
  BY DEF ListType

(* So is one with other pages, pins and viewport.                          *)
LEMMA TypedErased ==
    ASSUME NEW l \in ListType, NEW pages \in Seq(PageType), NEW born \in Nat, NEW pins \in PinsType, NEW viewport \in ViewportType, NEW cache \in CacheType
    PROVE  [l EXCEPT !.pages = pages, !.born = born, !.pins = pins, !.viewport = viewport, !.cache = cache] \in ListType
  BY DEF ListType

(* So is one with fewer rows.                                              *)
LEMMA TypedPruned ==
    ASSUME NEW l \in ListType, NEW pages \in Seq(PageType), NEW total \in Nat, NEW pins \in PinsType, NEW viewport \in ViewportType, NEW cache \in CacheType
    PROVE  [l EXCEPT !.pages = pages, !.total = total, !.pins = pins, !.viewport = viewport, !.cache = cache] \in ListType
  BY DEF ListType

(* So is one with a page in the place of another.                          *)
LEMMA TypedCloned ==
    ASSUME NEW l \in ListType, NEW pages \in Seq(PageType), NEW serial \in Nat, NEW nextId \in Nat, NEW pins \in PinsType
    PROVE  [l EXCEPT !.pages = pages, !.serial = serial, !.nextId = nextId, !.pins = pins] \in ListType
  BY DEF ListType

(* So is one without its history.                                          *)
LEMMA TypedHistory ==
    ASSUME NEW l \in ListType, NEW pages \in Seq(PageType), NEW total \in Nat, NEW serialMin \in Nat, NEW pins \in PinsType
    PROVE  [l EXCEPT !.pages = pages, !.total = total, !.serialMin = serialMin, !.pins = pins] \in ListType
  BY DEF ListType

Longer(l, m) ==
    /\ m \in ListType /\ PagesOK(m.pages)
    /\ \A i \in 1 .. Len(m.pages) : m.pages[i].id < m.nextId
    /\ AllRows(m) = Append(AllRows(l), l.born + 1)
    /\ m.total = l.total + 1 /\ m.born = l.born + 1
    /\ m.pins = l.pins /\ m.viewport = l.viewport /\ m.cache = l.cache
    /\ \A pin \in PinType : \A r : Holds(l.pages, pin, r) => Holds(m.pages, pin, r)

(* With a new row at the end no row is there twice.                        *)
LEMMA OnceAppend ==
    ASSUME NEW R \in Seq(Nat), NEW b \in Nat, OnceEach(R, b)
    PROVE  OnceEach(Append(R, b + 1), b + 1)
  <1> DEFINE S == Append(R, b + 1)
  <1>1. Len(R) \in Nat /\ Len(S) = Len(R) + 1 /\ S[Len(R) + 1] = b + 1 /\ \A k \in 1 .. Len(R) : S[k] = R[k]
    BY AppendAt
  <1>2. \A k \in 1 .. Len(R) : R[k] \in Nat
    OBVIOUS
  <1> HIDE DEF S
  <1>3. ASSUME NEW i \in 1 .. Len(S) PROVE (i \in 1 .. Len(R) /\ S[i] = R[i] /\ S[i] <= b) \/ (i = Len(R) + 1 /\ S[i] = b + 1)
    BY <1>1 DEF OnceEach
  <1>4. ASSUME NEW i \in 1 .. Len(S) PROVE S[i] <= b + 1
    <2>1. CASE i \in 1 .. Len(R) /\ S[i] = R[i] /\ S[i] <= b
      BY <1>2, <2>1
    <2>2. CASE S[i] = b + 1
      BY <2>2
    <2> QED BY <1>3, <2>1, <2>2
  <1>5. ASSUME NEW i \in 1 .. Len(S), NEW j \in 1 .. Len(S), S[i] = S[j] PROVE i = j
    <2>0. ~(b + 1 <= b)
      OBVIOUS
    <2>1. CASE i \in 1 .. Len(R) /\ S[i] = R[i] /\ S[i] <= b
      <3>1. ~(S[j] = b + 1)
        BY <1>5, <2>0, <2>1
      <3>2. j \in 1 .. Len(R) /\ S[j] = R[j]
        BY <1>3, <3>1
      <3> QED BY <1>5, <2>1, <3>2, Zenon DEF OnceEach
    <2>2. CASE i = Len(R) + 1 /\ S[i] = b + 1
      <3>1. ~(S[j] <= b)
        BY <1>5, <2>0, <2>2, Zenon
      <3> QED BY <1>3, <2>2, <3>1, Zenon
    <2> QED BY <1>3, <2>1, <2>2
  <1> QED BY <1>4, <1>5 DEF S, OnceEach

(* A list with a new row at the end is sound, and all pins are where they were. *)
LEMMA LongerGood ==
    ASSUME NEW l, Sound(l), NEW m, Longer(l, m)
    PROVE  /\ Sound(m) /\ Kept(l, m)
           /\ Len(AllRows(m)) = Len(AllRows(l)) + 1
           /\ \A p \in Pins : Offset(m, m.pins[p]) = Offset(l, l.pins[p])
  <1>1. /\ m \in ListType /\ PagesOK(m.pages)
        /\ AllRows(m) = Append(AllRows(l), l.born + 1)
        /\ m.total = l.total + 1 /\ m.born = l.born + 1
        /\ m.pins = l.pins /\ m.viewport = l.viewport /\ m.cache = l.cache
    BY DEF Longer
  <1>2. /\ l \in ListType /\ l.born \in Nat /\ l.total \in Nat /\ AllRows(l) \in Seq(Nat) /\ Len(AllRows(l)) \in Nat
        /\ l.total = Len(AllRows(l)) /\ OnceEach(AllRows(l), l.born)
    BY ListParts, RowsType DEF Sound
  <1> DEFINE R == AllRows(l)
             S == AllRows(m)
  <1>3. S \in Seq(Nat) /\ Len(S) = Len(R) + 1 /\ S[Len(R) + 1] = l.born + 1 /\ \A k \in 1 .. Len(R) : S[k] = R[k]
    BY <1>1, <1>2, AppendAt
  <1>4. OnceEach(S, m.born)
    BY <1>1, <1>2, OnceAppend
  <1>5. ASSUME NEW p \in Pins
        PROVE  Valid(m, m.pins[p]) /\ Offset(m, m.pins[p]) = Offset(l, l.pins[p]) /\ RowOf(m, p) = RowOf(l, p)
    <2> HIDE DEF R, S
    <2>1. PICK k \in Nat : k = Offset(l, l.pins[p])
      BY Tracked
    <2>2. k < Len(R) /\ RowOf(l, p) = R[k + 1] /\ l.pins[p] \in PinType /\ Holds(l.pages, l.pins[p], RowOf(l, p))
      BY <2>1, Tracked, Zenon DEF R
    <2>3. k + 1 \in 1 .. Len(R) /\ k < Len(S)
      BY <1>2, <1>3, <2>2 DEF R
    <2>4. S[k + 1] = RowOf(l, p)
      BY <1>3, <2>2, <2>3, Zenon
    <2>5. Holds(m.pages, m.pins[p], RowOf(l, p))
      BY <1>1, <2>2, Zenon DEF Longer
    <2>6. Valid(m, m.pins[p]) /\ Offset(m, m.pins[p]) = k
      <3>1. m.pins[p] \in PinType
        BY <1>1, <2>2
      <3> QED BY <1>1, <1>4, <2>3, <2>4, <2>5, <3>1, HoldsOffset, Zenon DEF S
    <2>7. RowOf(m, p) = S[k + 1]
      BY <2>6, Zenon DEF S, RowOf
    <2> QED BY <2>1, <2>4, <2>6, <2>7, Zenon
  <1> HIDE DEF R, S
  <1>6. CacheExact(m)
    <2>1. "viewport" \in Pins
      BY DEF Pins
    <2>2. CacheExact(l)
      BY DEF Sound
    <2> QED BY <1>1, <1>5, <2>1, <2>2, Zenon DEF CacheExact
  <1>7. Sound(m)
    <2>1. m.total = Len(S)
      BY <1>1, <1>2, <1>3 DEF R
    <2>2. \A i \in 1 .. Len(m.pages) : m.pages[i].id < m.nextId
      BY DEF Longer
    <2> QED BY <1>1, <1>4, <1>5, <1>6, <2>1, <2>2, Zenon DEF Sound, S
  <1>8. Kept(l, m)
    <2>1. l.born <= m.born
      BY <1>1, <1>2
    <2>2. ASSUME NEW r \in ToSet(S) PROVE r \in ToSet(R) \/ r > l.born
      <3>1. PICK i \in 1 .. Len(S) : S[i] = r
        BY <1>3, <2>2, RowsSet, Zenon
      <3>2. CASE i \in 1 .. Len(R)
        <4>1. R[i] = r
          BY <1>3, <3>1, <3>2, Zenon
        <4> QED BY <1>2, <3>2, <4>1, RowsSet, Zenon DEF R
      <3>3. CASE i = Len(R) + 1
        <4>1. r = l.born + 1
          BY <1>3, <3>1, <3>3, Zenon
        <4> QED BY <1>2, <4>1
      <3> QED BY <1>2, <1>3, <3>2, <3>3 DEF R
    <2> QED BY <1>5, <2>1, <2>2, Zenon DEF Kept, R, S
  <1> QED BY <1>3, <1>5, <1>7, <1>8 DEF R, S

(* Page k of qq begins with page i of pp.                                  *)
Begins(pp, i, qq, k) ==
    /\ k \in 1 .. Len(qq) /\ qq[k].id = pp[i].id
    /\ Len(pp[i].rows) <= Len(qq[k].rows)
    /\ \A j \in 1 .. Len(pp[i].rows) : qq[k].rows[j] = pp[i].rows[j]

(* A pin holds its row as long as the page begins with what was on it.     *)
LEMMA HoldsMore ==
    ASSUME NEW pp \in Seq(PageType), NEW qq \in Seq(PageType), NEW pin \in PinType, NEW r, Holds(pp, pin, r),
           \A i \in 1 .. Len(pp) : pp[i].id = pin.page => \E k : Begins(pp, i, qq, k)
    PROVE  Holds(qq, pin, r)
  <1>1. PICK i : On(pp, pin, i) /\ pp[i].rows[pin.y + 1] = r
    BY Zenon DEF Holds
  <1>2. i \in 1 .. Len(pp) /\ pp[i].id = pin.page /\ pin.y < Len(pp[i].rows)
    BY <1>1 DEF On
  <1>3. PICK k : Begins(pp, i, qq, k)
    BY <1>2, Zenon
  <1>4. k \in 1 .. Len(qq) /\ qq[k].id = pin.page
    BY <1>2, <1>3, Zenon DEF Begins
  <1>5. PICK a \in Nat, b \in Nat, q \in Nat : a = Len(pp[i].rows) /\ b = Len(qq[k].rows) /\ q = pin.y
    <2>1. Len(pp[i].rows) \in Nat /\ Len(qq[k].rows) \in Nat
      BY <1>2, <1>4, PageAt
    <2>2. pin.y \in Nat
      BY DEF PinType
    <2> QED BY <2>1, <2>2
  <1>6. a <= b /\ q < a
    BY <1>2, <1>3, <1>5, Zenon DEF Begins
  <1>7. q < b /\ q + 1 \in 1 .. a
    BY <1>6
  <1>8. qq[k].rows[q + 1] = r
    BY <1>1, <1>3, <1>5, <1>7, Zenon DEF Begins
  <1>9. On(qq, pin, k)
    BY <1>4, <1>5, <1>7, Zenon DEF On
  <1> QED BY <1>5, <1>8, <1>9, Zenon DEF Holds

AddOK(pp, qq, id, r) ==
    /\ PagesOK(qq) /\ Added(pp, qq, Len(pp), r)
    /\ \A i \in 1 .. Len(qq) : qq[i].id = id \/ \E k \in 1 .. Len(pp) : qq[i].id = pp[k].id
    /\ \A pin \in PinType : \A w : Holds(pp, pin, w) => Holds(qq, pin, w)

(* A page with an unused id at the end.                                    *)
LEMMA AddedPages ==
    ASSUME NEW pp, PagesOK(pp), NEW id \in Nat, \A i \in 1 .. Len(pp) : pp[i].id # id,
           NEW serial \in Nat, NEW r \in Nat, NEW qq, qq = Append(pp, Page(id, serial, 1, <<r>>))
    PROVE  AddOK(pp, qq, id, r)
  <1> DEFINE n == Len(pp)
             page == Page(id, serial, 1, <<r>>)
  <1>1. pp \in Seq(PageType) /\ n \in Nat /\ n >= 1
    BY DEF PagesOK
  <1>2. page \in PageType /\ page.id = id /\ page.rows = <<r>> /\ Len(page.rows) = 1
    BY DEF Page, PageType
  <1> HIDE DEF page
  <1>3. qq \in Seq(PageType) /\ Len(qq) = n + 1 /\ qq[n + 1] = page /\ \A i \in 1 .. n : qq[i] = pp[i]
    BY <1>1, <1>2 DEF page
  <1>4. ASSUME NEW i \in 1 .. Len(qq) PROVE i \in 1 .. n \/ i = n + 1
    BY <1>1, <1>3
  <1>5. \A i \in 1 .. Len(qq) : Len(qq[i].rows) \in 1 .. RowCap
    <2>1. 1 \in 1 .. RowCap
      BY SizeAssumption
    <2> TAKE i \in 1 .. Len(qq)
    <2>2. CASE i \in 1 .. n
      <3>1. Len(pp[i].rows) \in 1 .. RowCap /\ qq[i] = pp[i]
        BY <1>3, <2>2, Zenon DEF PagesOK
      <3> QED BY <3>1, Zenon
    <2>3. CASE i = n + 1
      <3>1. Len(qq[i].rows) = 1
        BY <1>2, <1>3, <2>3, Zenon
      <3> QED BY <2>1, <3>1, Zenon
    <2> QED BY <1>4, <2>2, <2>3, Zenon
  <1>6. ASSUME NEW i \in 1 .. Len(qq), NEW j \in 1 .. Len(qq), qq[i].id = qq[j].id PROVE i = j
    BY <1>2, <1>3, <1>4, <1>6, Zenon DEF PagesOK
  <1>7. PagesOK(qq)
    <2>1. Len(qq) >= 1
      BY <1>1, <1>3
    <2> QED BY <1>3, <1>5, <1>6, <2>1 DEF PagesOK
  <1>8. Added(pp, qq, n, r)
    BY <1>2, <1>3 DEF Added
  <1>9. ASSUME NEW i \in 1 .. n PROVE Begins(pp, i, qq, i)
    <2>1. i \in 1 .. Len(qq)
      BY <1>1, <1>3
    <2>2. Len(pp[i].rows) \in Nat
      BY <1>1, PageAt
    <2>3. Len(pp[i].rows) <= Len(pp[i].rows)
      BY <2>2
    <2> QED BY <1>3, <2>1, <2>3, Zenon DEF Begins
  <1>10. ASSUME NEW pin \in PinType, NEW w, Holds(pp, pin, w) PROVE Holds(qq, pin, w)
    BY <1>1, <1>3, <1>9, <1>10, HoldsMore, Zenon
  <1>11. \A i \in 1 .. Len(qq) : qq[i].id = id \/ \E k \in 1 .. Len(pp) : qq[i].id = pp[k].id
    BY <1>2, <1>3, <1>4, Zenon
  <1> QED BY <1>7, <1>8, <1>10, <1>11 DEF AddOK

(* Its row is the last one.                                                *)
LEMMA AddedRows ==
    ASSUME NEW l, PagesOK(l.pages), NEW m, PagesOK(m.pages), NEW r \in Nat,
           Added(l.pages, m.pages, Len(l.pages), r)
    PROVE  AllRows(m) = Append(AllRows(l), r)
  <1>1. l.pages \in Seq(PageType) /\ m.pages \in Seq(PageType) /\ Len(l.pages) \in Nat
    BY DEF PagesOK
  <1>2. PICK A : Laid(A, AllRows(l), l.pages)
    BY <1>1, LaidExists, Zenon
  <1>3. \E B : Laid(B, Append(AllRows(l), r), m.pages)
    BY <1>1, <1>2, AddedLaid, Zenon
  <1> QED BY <1>1, <1>3, AllRowsIs, Zenon

(* create_page and append: the list is longer by a new row.                *)
LEMMA AllocLonger ==
    ASSUME NEW l, Sound(l)
    PROVE  Longer(l, Alloc(l))
  <1> DEFINE m == Alloc(l)
  <1>1. l \in ListType /\ PagesOK(l.pages) /\ \A i \in 1 .. Len(l.pages) : l.pages[i].id < l.nextId
    BY DEF Sound
  <1>2. /\ l.pages \in Seq(PageType) /\ l.serial \in Nat /\ l.nextId \in Nat /\ l.born \in Nat /\ l.total \in Nat
    BY <1>1, ListParts
  <1>3. PICK r \in Nat : r = l.born + 1
    BY <1>2
  <1>4. m.pages = Append(l.pages, Page(l.nextId, l.serial, 1, <<r>>))
    BY <1>1, <1>3 DEF Alloc, Fresh, ListType
  <1>5. /\ m.nextId = l.nextId + 1 /\ m.total = l.total + 1 /\ m.born = l.born + 1
        /\ m.pins = l.pins /\ m.viewport = l.viewport /\ m.cache = l.cache
    BY <1>1 DEF Alloc, ListType
  <1>6. \A i \in 1 .. Len(l.pages) : l.pages[i].id # l.nextId
    <2> TAKE i \in 1 .. Len(l.pages)
    <2>1. l.pages[i].id < l.nextId /\ l.pages[i].id \in Nat
      BY <1>1, <1>2, PageAt
    <2> QED BY <1>2, <2>1
  <1> HIDE DEF m
  <1>7. /\ PagesOK(m.pages) /\ Added(l.pages, m.pages, Len(l.pages), r)
        /\ \A i \in 1 .. Len(m.pages) : m.pages[i].id = l.nextId \/ \E k \in 1 .. Len(l.pages) : m.pages[i].id = l.pages[k].id
        /\ \A pin \in PinType : \A w : Holds(l.pages, pin, w) => Holds(m.pages, pin, w)
    <2>1. AddOK(l.pages, m.pages, l.nextId, r)
      BY <1>1, <1>2, <1>4, <1>6, AddedPages, Zenon
    <2> QED BY <2>1, Zenon DEF AddOK
  <1>8. m \in ListType
    <2>1. PICK q \in Seq(PageType) : q = m.pages
      BY <1>7 DEF PagesOK
    <2>2. PICK a \in Nat, b \in Nat, c \in Nat, d \in Nat, s \in Nat :
            a = l.nextId + 1 /\ b = l.serial + 1 /\ c = l.born + 1 /\ d = l.total + 1 /\ s = l.serialMin
      <3>1. l.nextId + 1 \in Nat /\ l.serial + 1 \in Nat /\ l.born + 1 \in Nat /\ l.total + 1 \in Nat
        BY <1>2
      <3>2. l.serialMin \in Nat
        BY <1>1, ListParts
      <3> QED BY <3>1, <3>2, Zenon
    <2>3. m = [l EXCEPT !.pages = q, !.serial = b, !.serialMin = s, !.nextId = a, !.born = c, !.total = d]
      BY <1>1, <1>3, <1>4, <2>1, <2>2 DEF m, Alloc, Fresh, ListType
    <2> QED BY <1>1, <2>3, TypedGrown
  <1>9. ASSUME NEW i \in 1 .. Len(m.pages) PROVE m.pages[i].id < m.nextId
    <2>1. CASE m.pages[i].id = l.nextId
      BY <1>2, <1>5, <2>1
    <2>2. ASSUME NEW k \in 1 .. Len(l.pages), m.pages[i].id = l.pages[k].id PROVE m.pages[i].id < m.nextId
      <3>1. l.pages[k].id < l.nextId /\ l.pages[k].id \in Nat
        BY <1>1, <1>2, PageAt
      <3> QED BY <1>2, <1>5, <2>2, <3>1
    <2> QED BY <1>7, <2>1, <2>2
  <1>10. AllRows(m) = Append(AllRows(l), r)
    BY <1>1, <1>7, AddedRows, Zenon
  <1>11. Longer(l, m)
    BY <1>3, <1>5, <1>7, <1>8, <1>9, <1>10, Zenon DEF Longer
  <1> QED BY <1>11 DEF m

(* The same with the page that was pruned.                                 *)
LEMMA ReuseLonger ==
    ASSUME NEW l, Sound(l), NEW page \in PageType, page.id < l.nextId,
           \A i \in 1 .. Len(l.pages) : l.pages[i].id # page.id
    PROVE  Longer(l, Reuse(l, page))
  <1> DEFINE m == Reuse(l, page)
  <1>0. page.id \in Nat /\ page.serial \in Nat
    BY DEF PageType
  <1>1. l \in ListType /\ PagesOK(l.pages) /\ \A i \in 1 .. Len(l.pages) : l.pages[i].id < l.nextId
    BY DEF Sound
  <1>2. /\ l.pages \in Seq(PageType) /\ l.serial \in Nat /\ l.nextId \in Nat /\ l.born \in Nat /\ l.total \in Nat
    BY <1>1, ListParts
  <1>3. PICK r \in Nat : r = l.born + 1
    BY <1>2
  <1>4. m.pages = Append(l.pages, Page(page.id, l.serial, 1, <<r>>))
    BY <1>1, <1>3 DEF Reuse, Fresh, ListType
  <1>5. /\ m.nextId = l.nextId /\ m.total = l.total + 1 /\ m.born = l.born + 1
        /\ m.pins = l.pins /\ m.viewport = l.viewport /\ m.cache = l.cache
    BY <1>1 DEF Reuse, ListType
  <1> HIDE DEF m
  <1>7. /\ PagesOK(m.pages) /\ Added(l.pages, m.pages, Len(l.pages), r)
        /\ \A i \in 1 .. Len(m.pages) : m.pages[i].id = page.id \/ \E k \in 1 .. Len(l.pages) : m.pages[i].id = l.pages[k].id
        /\ \A pin \in PinType : \A w : Holds(l.pages, pin, w) => Holds(m.pages, pin, w)
    <2>1. AddOK(l.pages, m.pages, page.id, r)
      BY <1>0, <1>1, <1>2, <1>4, AddedPages, Zenon
    <2> QED BY <2>1, Zenon DEF AddOK
  <1>8. m \in ListType
    <2>1. PICK q \in Seq(PageType) : q = m.pages
      BY <1>7 DEF PagesOK
    <2>2. PICK a \in Nat, b \in Nat, c \in Nat, d \in Nat, s \in Nat :
            a = l.nextId /\ b = l.serial + 1 /\ c = l.born + 1 /\ d = l.total + 1 /\ s = page.serial + 1
      <3>1. l.serial + 1 \in Nat /\ l.born + 1 \in Nat /\ l.total + 1 \in Nat /\ page.serial + 1 \in Nat
        BY <1>0, <1>2
      <3> QED BY <1>2, <3>1, Zenon
    <2>3. m = [l EXCEPT !.pages = q, !.serial = b, !.serialMin = s, !.nextId = a, !.born = c, !.total = d]
      BY <1>1, <1>3, <1>4, <2>1, <2>2 DEF m, Reuse, Fresh, ListType
    <2> QED BY <1>1, <2>3, TypedGrown
  <1>9. \A i \in 1 .. Len(m.pages) : m.pages[i].id < m.nextId
    BY <1>1, <1>5, <1>7, Zenon
  <1>10. AllRows(m) = Append(AllRows(l), r)
    BY <1>1, <1>7, AddedRows, Zenon
  <1>11. Longer(l, m)
    BY <1>3, <1>5, <1>7, <1>8, <1>9, <1>10, Zenon DEF Longer
  <1> QED BY <1>11 DEF m

SetIs(S, q, n, x, w) ==
    w \in Seq(S) /\ Len(w) = Len(q) /\ w[n] = x /\ \A i \in 1 .. Len(q) : i # n => w[i] = q[i]

(* A sequence with one element replaced.                                   *)
LEMMA SetAt ==
    ASSUME NEW S, NEW q \in Seq(S), NEW n \in 1 .. Len(q), NEW x \in S
    PROVE  SetIs(S, q, n, x, [q EXCEPT ![n] = x])
  BY DEF SetIs

(* A row added to the last page: the list is longer by it.                 *)
LEMMA ExtendLonger ==
    ASSUME NEW l, Sound(l), Len(Last(l.pages).rows) < RowCap
    PROVE  Longer(l, Extend(l))
  <1> DEFINE m == Extend(l)
             pp == l.pages
             n == Len(pp)
  <1>1. l \in ListType /\ PagesOK(pp) /\ \A i \in 1 .. n : pp[i].id < l.nextId
    BY DEF Sound
  <1>2. /\ pp \in Seq(PageType) /\ l.serial \in Nat /\ l.serialMin \in Nat /\ l.nextId \in Nat
        /\ l.born \in Nat /\ l.total \in Nat
    BY <1>1, ListParts
  <1>3. PICK r \in Nat : r = l.born + 1
    BY <1>2
  <1>4. n \in Nat /\ n >= 1 /\ n \in 1 .. n /\ Len(pp[n].rows) < RowCap
    BY <1>1 DEF PagesOK, Last
  <1> DEFINE page == [pp[n] EXCEPT !.rows = Append(pp[n].rows, r)]
  <1>5. pp[n] \in PageType /\ pp[n].rows \in Seq(Nat) /\ Len(pp[n].rows) \in Nat
    BY <1>2, <1>4, PageAt
  <1>6. PICK rows \in Seq(Nat) : rows = Append(pp[n].rows, r) /\ Len(rows) = Len(pp[n].rows) + 1
            /\ \A j \in 1 .. Len(pp[n].rows) : rows[j] = pp[n].rows[j]
    BY <1>5, AppendAt
  <1>7. page \in PageType /\ page.id = pp[n].id /\ page.rows = rows
    BY <1>5, <1>6 DEF PageType
  <1>8. m.pages = [pp EXCEPT ![n] = page]
    BY <1>1, <1>3 DEF Extend, Fresh, ListType
  <1>9. /\ m.nextId = l.nextId /\ m.total = l.total + 1 /\ m.born = l.born + 1
        /\ m.pins = l.pins /\ m.viewport = l.viewport /\ m.cache = l.cache
    BY <1>1 DEF Extend, ListType
  <1> HIDE DEF page
  <1>10. PICK qq : qq = m.pages /\ qq \in Seq(PageType) /\ Len(qq) = n /\ qq[n] = page /\ \A i \in 1 .. n : i # n => qq[i] = pp[i]
    <2>1. SetIs(PageType, pp, n, page, m.pages)
      <3>1. SetIs(PageType, pp, n, page, [pp EXCEPT ![n] = page])
        BY <1>2, <1>4, <1>7, SetAt
      <3> QED BY <1>8, <3>1, Zenon
    <2> QED BY <2>1, Zenon DEF SetIs
  <1> HIDE DEF m
  <1>11. ASSUME NEW i \in 1 .. n PROVE Len(qq[i].rows) \in 1 .. RowCap /\ qq[i].id = pp[i].id
    <2>1. CASE i = n
      <3>1. Len(rows) \in 1 .. RowCap
        BY <1>4, <1>5, <1>6, SizeAssumption
      <3> QED BY <1>7, <1>10, <2>1, <3>1
    <2>2. CASE i # n
      BY <1>1, <1>10, <2>2, Zenon DEF PagesOK
    <2> QED BY <2>1, <2>2
  <1>12. PagesOK(m.pages)
    <2>1. \A i, j \in 1 .. n : qq[i].id = qq[j].id => i = j
      BY <1>1, <1>11, Zenon DEF PagesOK
    <2>2. \A i \in 1 .. n : Len(qq[i].rows) \in 1 .. RowCap
      BY <1>11
    <2> HIDE DEF n
    <2> QED BY <1>4, <1>10, <2>1, <2>2 DEF PagesOK
  <1>13. ASSUME NEW i \in 1 .. n PROVE Begins(pp, i, qq, i)
    <2>1. CASE i = n
      <3>1. Len(pp[n].rows) <= Len(rows)
        BY <1>5, <1>6
      <3> QED BY <1>6, <1>7, <1>10, <2>1, <3>1, Zenon DEF Begins
    <2>2. CASE i # n
      <3>1. Len(pp[i].rows) \in Nat
        BY <1>2, PageAt
      <3>2. Len(pp[i].rows) <= Len(pp[i].rows)
        BY <3>1
      <3> QED BY <1>10, <2>2, <3>2, Zenon DEF Begins
    <2> QED BY <2>1, <2>2
  <1>14. ASSUME NEW pin \in PinType, NEW w, Holds(pp, pin, w) PROVE Holds(qq, pin, w)
    BY <1>2, <1>10, <1>13, <1>14, HoldsMore, Zenon
  <1>15. AllRows(m) = Append(AllRows(l), r)
    <2>1. PICK A : Laid(A, AllRows(l), pp)
      BY <1>2, LaidExists, Zenon
    <2>2. Extended(pp, qq, n, r)
      <3>1. \A i \in 1 .. n - 1 : qq[i] = pp[i]
        BY <1>4, <1>10
      <3> QED BY <1>4, <1>6, <1>7, <1>10, <3>1, Zenon DEF Extended
    <2>3. \E B : Laid(B, Append(AllRows(l), r), qq)
      BY <1>2, <1>4, <1>10, <2>1, <2>2, ExtendedLaid, Zenon
    <2> QED BY <1>10, <2>3, AllRowsIs, Zenon
  <1>16. m \in ListType
    <2>2. PICK a \in Nat, b \in Nat, c \in Nat, d \in Nat, s \in Nat :
            a = l.nextId /\ b = l.serial /\ c = l.born + 1 /\ d = l.total + 1 /\ s = l.serialMin
      <3>1. l.born + 1 \in Nat /\ l.total + 1 \in Nat
        BY <1>2
      <3> QED BY <1>2, <3>1, Zenon
    <2>3. m = [l EXCEPT !.pages = qq, !.serial = b, !.serialMin = s, !.nextId = a, !.born = c, !.total = d]
      BY <1>1, <1>3, <1>8, <1>10, <2>2 DEF m, page, Extend, Fresh, ListType
    <2>4. qq \in Seq(PageType)
      BY <1>10
    <2> QED BY <1>1, <2>3, <2>4, TypedGrown
  <1>17. \A i \in 1 .. Len(m.pages) : m.pages[i].id < m.nextId
    BY <1>1, <1>9, <1>10, <1>11, Zenon
  <1>18. Longer(l, m)
    BY <1>3, <1>9, <1>10, <1>12, <1>14, <1>15, <1>16, <1>17, Zenon DEF Longer
  <1> QED BY <1>18 DEF m

-----------------------------------------------------------------------------
(* The first page goes.                                                    *)
TailOK(pp, qq) ==
    /\ PagesOK(qq) /\ Len(qq) \in Nat /\ Len(qq) + 1 = Len(pp)
    /\ \A i \in 1 .. Len(qq) : i + 1 \in 1 .. Len(pp) /\ qq[i] = pp[i + 1]
    /\ \A i \in 1 .. Len(qq) : qq[i].id # pp[1].id

(* The pages without the first are well-formed.                            *)
LEMMA TailPages ==
    ASSUME NEW pp, PagesOK(pp), Len(pp) > 1, NEW qq, qq = Tail(pp)
    PROVE  TailOK(pp, qq)
  <1>1. pp \in Seq(PageType) /\ Len(pp) \in Nat
    BY DEF PagesOK
  <1>2. qq \in Seq(PageType) /\ Len(qq) \in Nat /\ Len(qq) + 1 = Len(pp) /\ Len(qq) >= 1
        /\ \A i \in 1 .. Len(qq) : i + 1 \in 1 .. Len(pp) /\ qq[i] = pp[i + 1]
    BY <1>1
  <1>3. \A i \in 1 .. Len(qq) : Len(qq[i].rows) \in 1 .. RowCap
    BY <1>2, Zenon DEF PagesOK
  <1>4. \A i, j \in 1 .. Len(qq) : qq[i].id = qq[j].id => i = j
    <2> SUFFICES ASSUME NEW i \in 1 .. Len(qq), NEW j \in 1 .. Len(qq), qq[i].id = qq[j].id PROVE i = j
      OBVIOUS
    <2>1. i + 1 = j + 1
      BY <1>2, Zenon DEF PagesOK
    <2> QED BY <1>2, <2>1
  <1>5. \A i \in 1 .. Len(qq) : qq[i].id # pp[1].id
    <2> SUFFICES ASSUME NEW i \in 1 .. Len(qq), qq[i].id = pp[1].id PROVE FALSE
      OBVIOUS
    <2>1. 1 \in 1 .. Len(pp)
      BY <1>1
    <2>2. i + 1 = 1
      BY <1>2, <2>1, Zenon DEF PagesOK
    <2> QED BY <2>2
  <1> QED BY <1>2, <1>3, <1>4, <1>5, Zenon DEF PagesOK, TailOK

(* The rows without those of the first page begin with the first of the second. *)
LEMMA TailRows ==
    ASSUME NEW l, PagesOK(l.pages), Len(l.pages) > 1, NEW m, m.pages = Tail(l.pages),
           NEW h, h = Len(l.pages[1].rows)
    PROVE  /\ h \in Nat /\ h < Len(AllRows(l))
           /\ AllRows(m) = SubSeq(AllRows(l), h + 1, Len(AllRows(l)))
           /\ AllRows(l)[h + 1] = l.pages[2].rows[1]
  <1> DEFINE pp == l.pages
             n == Len(pp)
  <1>1. pp \in Seq(PageType) /\ n \in Nat /\ n > 1
    BY DEF PagesOK
  <1>2. PICK qq : qq = m.pages
    OBVIOUS
  <1>3. /\ PagesOK(qq) /\ Len(qq) + 1 = n /\ Len(qq) \in Nat
        /\ \A i \in 1 .. Len(qq) : i + 1 \in 1 .. n /\ qq[i] = pp[i + 1]
    BY <1>2, TailPages, ZenonT(40) DEF TailOK
  <1>4. PICK A : Laid(A, AllRows(l), pp)
    BY <1>1, LaidExists, Zenon
  <1>5. Steps(A, pp)
    BY <1>4 DEF Laid
  <1>6. h \in Nat /\ 1 \in 1 .. n /\ 2 \in 1 .. n /\ A[2] = h
    <2>1. 1 \in 1 .. n /\ 2 \in 1 .. n /\ 1 + 1 = 2
      BY <1>1
    <2>2. h \in Nat
      BY <1>1, <2>1, PageAt
    <2>3. A[1] = 0 /\ A[2] = A[1] + h
      BY <1>5, <2>1, Zenon DEF Steps
    <2>4. 0 + h = h
      BY <2>2
    <2> QED BY <2>1, <2>2, <2>3, <2>4, Zenon
  <1>7. PICK g \in Nat : g = Len(pp[2].rows) /\ g >= 1
    <2>1. Len(pp[2].rows) \in 1 .. RowCap
      BY <1>6, Zenon DEF PagesOK
    <2> QED BY <2>1, SizeAssumption
  <1>8. A[2 + 1] = h + g
    <2>1. A[2 + 1] = A[2] + Len(pp[2].rows)
      BY <1>5, <1>6, Zenon DEF Steps
    <2> QED BY <1>6, <1>7, <2>1, Zenon
  <1>9. \A i : Lost(A, 2, h, i) = 0
    BY <1>6 DEF Lost
  <1> HIDE DEF pp
  <1>10. Trimmed(A, pp, qq, 2, n, h)
    <2>1. Len(qq) = n - 2 + 1
      BY <1>1, <1>3
    <2>2. A[2] <= h /\ h < A[2 + 1]
      <3>1. h <= h /\ h < h + g
        <4>1. h \in Nat /\ g >= 1
          BY <1>6, <1>7
        <4> QED BY <4>1
      <3> QED BY <1>6, <1>8, <3>1, Zenon
    <2>3. ASSUME NEW i \in 1 .. n - 2 + 1
          PROVE  /\ Len(qq[i].rows) = Len(pp[2 + i - 1].rows) - Lost(A, 2, h, i)
                 /\ \A j \in 1 .. Len(qq[i].rows) : qq[i].rows[j] = pp[2 + i - 1].rows[Lost(A, 2, h, i) + j]
      <3>1. i \in 1 .. Len(qq) /\ 2 + i - 1 = i + 1
        BY <1>1, <2>1
      <3>2. qq[i] = pp[i + 1] /\ i + 1 \in 1 .. Len(pp)
        BY <1>3, <3>1
      <3>3. PICK q : q = pp[2 + i - 1].rows /\ q = qq[i].rows /\ Len(q) \in Nat
        BY <1>1, <3>1, <3>2, PageAt
      <3>4. Len(q) = Len(q) - 0 /\ \A j \in 1 .. Len(q) : 0 + j = j
        BY <3>3
      <3> QED BY <1>9, <3>3, <3>4, Zenon
    <2> QED BY <1>6, <2>1, <2>2, <2>3, Zenon DEF Trimmed
  <1>11. AllRows(m) = SubSeq(AllRows(l), h + 1, Len(AllRows(l)))
    <2>1. qq \in Seq(PageType)
      BY <1>3 DEF PagesOK
    <2>2. \E B : Laid(B, SubSeq(AllRows(l), h + 1, Len(AllRows(l))), qq)
      BY <1>1, <1>4, <1>10, <2>1, TrimmedLaid, Zenon DEF pp
    <2> QED BY <1>2, <2>1, <2>2, AllRowsIs, Zenon
  <1>12. CellIs(AllRows(l), h, 1, pp[2].rows)
    <2>1. 1 \in 1 .. Len(pp[2].rows)
      BY <1>7
    <2> QED BY <1>1, <1>4, <1>6, <2>1, Cell, Zenon
  <1>13. h + 1 \in 1 .. Len(AllRows(l)) /\ Len(AllRows(l)) \in Nat /\ AllRows(l)[h + 1] = pp[2].rows[1]
    BY <1>12 DEF CellIs
  <1>14. h < Len(AllRows(l))
    BY <1>6, <1>13
  <1> QED BY <1>6, <1>11, <1>13, <1>14 DEF pp

OnceTailIs(R, b, h, S) ==
    /\ S \in Seq(Nat) /\ Len(S) = Len(R) - h /\ OnceEach(S, b)
    /\ \A k \in Nat : h <= k /\ k < Len(R) => S[(k - h) + 1] = R[k + 1]
    /\ \A r \in ToSet(S) : r \in ToSet(R)
    /\ \A k \in Nat : k < h => R[k + 1] \notin ToSet(S)

(* The rows from h on: each once, and those above are not among them.      *)
LEMMA OnceTail ==
    ASSUME NEW R \in Seq(Nat), NEW b, OnceEach(R, b), NEW h \in Nat, h <= Len(R),
           NEW S, S = SubSeq(R, h + 1, Len(R))
    PROVE  OnceTailIs(R, b, h, S)
  <1>1. Len(R) \in Nat /\ S \in Seq(Nat) /\ Len(S) = Len(R) - h /\ \A k \in 1 .. Len(R) - h : S[k] = R[h + k]
    BY SubSeqAt
  <1>2. ASSUME NEW i \in 1 .. Len(S) PROVE i \in Nat /\ h + i \in 1 .. Len(R) /\ S[i] = R[h + i]
    <2>1. i \in 1 .. Len(R) - h
      BY <1>1
    <2>2. h + i \in 1 .. Len(R) /\ i \in Nat
      BY <1>1, <2>1
    <2> QED BY <1>1, <2>1, <2>2, Zenon
  <1>3. \A i \in 1 .. Len(S) : S[i] <= b
    BY <1>2, Zenon DEF OnceEach
  <1>4. ASSUME NEW i \in 1 .. Len(S), NEW j \in 1 .. Len(S), S[i] = S[j] PROVE i = j
    <2>1. h + i = h + j
      BY <1>2, <1>4, Zenon DEF OnceEach
    <2> QED BY <1>2, <2>1
  <1>5. ASSUME NEW k \in Nat, h <= k, k < Len(R) PROVE S[(k - h) + 1] = R[k + 1]
    <2>1. (k - h) + 1 \in 1 .. Len(R) - h /\ h + ((k - h) + 1) = k + 1
      BY <1>1, <1>5
    <2> QED BY <1>1, <2>1, Zenon
  <1>6. ASSUME NEW r \in ToSet(S) PROVE r \in ToSet(R)
    <2>1. PICK i \in 1 .. Len(S) : S[i] = r
      BY <1>1, <1>6, RowsSet, Zenon
    <2> QED BY <1>2, <2>1, RowsSet, Zenon
  <1>7. ASSUME NEW k \in Nat, k < h, R[k + 1] \in ToSet(S) PROVE FALSE
    <2>1. PICK i \in 1 .. Len(S) : S[i] = R[k + 1]
      BY <1>1, <1>7, RowsSet, Zenon
    <2>2. k + 1 \in 1 .. Len(R)
      BY <1>1, <1>7
    <2>3. h + i = k + 1
      BY <1>2, <2>1, <2>2, Zenon DEF OnceEach
    <2> QED BY <1>2, <1>7, <2>3
  <1> QED BY <1>1, <1>3, <1>4, <1>5, <1>6, <1>7 DEF OnceEach, OnceTailIs

PinIs(pin, id, k) == pin \in PinType /\ pin.page = id /\ pin.y = k

(* A pin that is made.                                                     *)
LEMMA PinTyped ==
    ASSUME NEW id \in Nat, NEW k \in Nat, NEW b \in BOOLEAN, NEW pin, pin = [Pin(id, k) EXCEPT !.garbage = b]
    PROVE  PinIs(pin, id, k)
  BY DEF Pin, PinType, PinIs

(* A pin after the rows above offset h are gone.                           *)
Moved(l, m, p, h) ==
    \/ h <= Offset(l, l.pins[p]) /\ m.pins[p] = l.pins[p] /\ Offset(m, m.pins[p]) = Offset(l, l.pins[p]) - h
    \/ Offset(l, l.pins[p]) < h /\ Offset(m, m.pins[p]) = 0

Shorter(l, m, h) ==
    /\ Sound(m) /\ Kept(l, m)
    /\ h \in Nat /\ h < Len(AllRows(l)) /\ Len(AllRows(m)) = Len(AllRows(l)) - h
    /\ m.born = l.born /\ m.nextId = l.nextId
    /\ m.viewport = "pin" => l.viewport = "pin"
    /\ \A p \in Pins : Moved(l, m, p, h)

(* A pin is above the second page when it is on the first.                 *)
LEMMA PinBelow ==
    ASSUME NEW l, PagesOK(l.pages), Len(l.pages) > 1, NEW pin \in PinType, Valid(l, pin),
           NEW h, h = Len(l.pages[1].rows)
    PROVE  /\ pin.page = l.pages[1].id => Offset(l, pin) < h
           /\ pin.page # l.pages[1].id => h <= Offset(l, pin)
  <1>1. l.pages \in Seq(PageType) /\ pin.y \in Nat /\ 1 \in 1 .. Len(l.pages) /\ h \in Nat
    <2>1. l.pages \in Seq(PageType) /\ pin.y \in Nat
      BY DEF PagesOK, PinType
    <2>2. 1 \in 1 .. Len(l.pages)
      BY <2>1
    <2> QED BY <2>1, <2>2, PageAt
  <1>2. PICK A : Laid(A, AllRows(l), l.pages)
    BY <1>1, LaidExists, Zenon
  <1>3. PICK i : On(l.pages, pin, i)
    BY <1>1, ValidIs, Zenon
  <1>4. Offset(l, pin) \in Nat /\ A[i] <= Offset(l, pin) /\ Offset(l, pin) < A[i + 1]
    BY <1>1, <1>2, <1>3, OffsetIs, Zenon
  <1>5. i \in 1 .. Len(l.pages) /\ l.pages[i].id = pin.page
    BY <1>3 DEF On
  <1>6. Steps(A, l.pages)
    BY <1>2 DEF Laid
  <1>7. A[1] = 0 /\ A[1 + 1] = h
    <2>1. A[1] = 0 /\ A[1 + 1] = A[1] + h
      BY <1>1, <1>6, Zenon DEF Steps
    <2>2. 0 + h = h
      BY <1>1
    <2> QED BY <2>1, <2>2, Zenon
  <1>8. ASSUME pin.page = l.pages[1].id PROVE Offset(l, pin) < h
    <2>1. i = 1
      BY <1>1, <1>5, <1>8, Zenon DEF PagesOK
    <2> QED BY <1>4, <1>7, <2>1, Zenon
  <1>9. ASSUME pin.page # l.pages[1].id PROVE h <= Offset(l, pin)
    <2>1. i \in 1 .. Len(l.pages) + 1 /\ 1 < i
      BY <1>5, <1>9
    <2>2. A[1] + Len(l.pages[1].rows) <= A[i]
      BY <1>1, <1>6, <2>1, Climbs
    <2>3. A[i] \in Nat
      BY <1>1, <1>6, <2>1, StepsAt
    <2>4. PICK a \in Nat, k \in Nat : a = A[i] /\ k = Offset(l, pin)
      BY <1>4, <2>3
    <2>5. 0 + h <= a /\ a <= k
      BY <1>4, <1>7, <2>2, <2>4, Zenon
    <2>6. h <= k
      BY <1>1, <2>5
    <2> QED BY <2>4, <2>6
  <1> QED BY <1>8, <1>9

Pruned(l, m, h) ==
    /\ m.pages = Tail(l.pages) /\ m.total = l.total - h /\ m.born = l.born /\ m.nextId = l.nextId
    /\ m.viewport = (IF l.viewport = "pin" /\ l.cache # None /\ l.cache < h THEN "top" ELSE l.viewport)
    /\ m.cache = (IF l.viewport = "pin" /\ l.cache # None /\ l.cache >= h THEN l.cache - h ELSE l.cache)
    /\ m.pins = [p \in Pins |-> IF l.pins[p].page = l.pages[1].id
                                THEN [Pin(l.pages[2].id, 0) EXCEPT !.garbage = (p # "viewport")]
                                ELSE l.pins[p]]
    /\ m = [l EXCEPT !.pages = m.pages, !.total = m.total, !.pins = m.pins,
                     !.viewport = m.viewport, !.cache = m.cache]

(* What grow_prune does to the list.                                       *)
LEMMA PruneFields ==
    ASSUME NEW l \in ListType, Len(l.pages) > 1, NEW m, m = Prune(l), NEW h, h = Len(l.pages[1].rows)
    PROVE  Pruned(l, m, h)
  <1>1. l.pages \in Seq(PageType)
    BY ListParts
  <1>2. Head(l.pages) = l.pages[1]
    BY <1>1
  <1>3. PICK counted \in BOOLEAN : counted = (l.viewport = "pin" /\ l.cache # None)
    OBVIOUS
  <1> DEFINE pages == Tail(l.pages)
             total == l.total - h
             pins == [p \in Pins |-> IF l.pins[p].page = l.pages[1].id
                                THEN [Pin(l.pages[2].id, 0) EXCEPT !.garbage = (p # "viewport")]
                                ELSE l.pins[p]]
             viewport == IF counted /\ l.cache < h THEN "top" ELSE l.viewport
             cache == IF counted /\ l.cache >= h THEN l.cache - h ELSE l.cache
  <1>4. m = [l EXCEPT !.pages = pages, !.total = total, !.pins = pins, !.viewport = viewport, !.cache = cache]
    BY <1>2, <1>3, Zenon DEF Prune
  <1> HIDE DEF pages, total, pins, viewport, cache
  <1>5. /\ m.pages = pages /\ m.total = total /\ m.pins = pins /\ m.viewport = viewport /\ m.cache = cache
        /\ m.born = l.born /\ m.nextId = l.nextId
    BY <1>4 DEF ListType
  <1>6. m = [l EXCEPT !.pages = m.pages, !.total = m.total, !.pins = m.pins, !.viewport = m.viewport, !.cache = m.cache]
    BY <1>4, <1>5
  <1>7. /\ viewport = (IF l.viewport = "pin" /\ l.cache # None /\ l.cache < h THEN "top" ELSE l.viewport)
        /\ cache = (IF l.viewport = "pin" /\ l.cache # None /\ l.cache >= h THEN l.cache - h ELSE l.cache)
    BY <1>3 DEF viewport, cache
  <1> QED BY <1>5, <1>6, <1>7, Zenon DEF Pruned, pages, total, pins

(* After grow_prune the list is sound and shorter by a page; the other pins moved up by its rows. *)
LEMMA PruneShorter ==
    ASSUME NEW l, Sound(l), Len(l.pages) > 1, NEW m, m = Prune(l), NEW h, h = Len(l.pages[1].rows)
    PROVE  /\ Shorter(l, m, h)
           /\ \A i \in 1 .. Len(m.pages) : m.pages[i].id # l.pages[1].id
  <1>1. /\ l \in ListType /\ PagesOK(l.pages) /\ \A i \in 1 .. Len(l.pages) : l.pages[i].id < l.nextId
    BY DEF Sound
  <1>2. /\ l.pages \in Seq(PageType) /\ l.total \in Nat /\ l.born \in Nat /\ AllRows(l) \in Seq(Nat)
        /\ l.total = Len(AllRows(l)) /\ OnceEach(AllRows(l), l.born) /\ l.cache \in Nat \cup {None}
        /\ l.viewport \in {"active", "top", "pin"}
    BY <1>1, ListParts, RowsType DEF Sound
  <1>0. Pruned(l, m, h)
    BY <1>1, PruneFields, Zenon
  <1>3. /\ m.pages = Tail(l.pages) /\ m.total = l.total - h /\ m.born = l.born /\ m.nextId = l.nextId
        /\ m.viewport = (IF l.viewport = "pin" /\ l.cache # None /\ l.cache < h THEN "top" ELSE l.viewport)
        /\ m.cache = (IF l.viewport = "pin" /\ l.cache # None /\ l.cache >= h THEN l.cache - h ELSE l.cache)
    BY <1>0, Zenon DEF Pruned
  <1>4. /\ PagesOK(m.pages) /\ Len(m.pages) \in Nat /\ Len(m.pages) + 1 = Len(l.pages)
        /\ \A i \in 1 .. Len(m.pages) : i + 1 \in 1 .. Len(l.pages) /\ m.pages[i] = l.pages[i + 1]
        /\ \A i \in 1 .. Len(m.pages) : m.pages[i].id # l.pages[1].id
    <2>1. TailOK(l.pages, m.pages)
      BY <1>1, <1>3, TailPages, Zenon
    <2> QED BY <2>1, Zenon DEF TailOK
  <1>5. /\ h \in Nat /\ h < Len(AllRows(l))
        /\ AllRows(m) = SubSeq(AllRows(l), h + 1, Len(AllRows(l)))
        /\ AllRows(l)[h + 1] = l.pages[2].rows[1]
    BY <1>1, <1>3, TailRows
  <1> DEFINE R == AllRows(l)
             S == AllRows(m)
  <1>6. /\ S \in Seq(Nat) /\ Len(S) = Len(R) - h /\ OnceEach(S, l.born)
        /\ \A k \in Nat : h <= k /\ k < Len(R) => S[(k - h) + 1] = R[k + 1]
        /\ \A r \in ToSet(S) : r \in ToSet(R)
        /\ \A k \in Nat : k < h => R[k + 1] \notin ToSet(S)
    <2>1. h <= Len(R) /\ Len(R) \in Nat
      BY <1>2, <1>5
    <2>2. OnceTailIs(R, l.born, h, S)
      BY <1>2, <1>5, <2>1, OnceTail
    <2> QED BY <2>2, Zenon DEF OnceTailIs
  <1>7. ASSUME NEW p \in Pins, l.pins[p].page # l.pages[1].id
        PROVE  /\ m.pins[p] \in PinType /\ Valid(m, m.pins[p]) /\ Moved(l, m, p, h) /\ RowOf(m, p) = RowOf(l, p)
               /\ h <= Offset(l, l.pins[p])
    <2>1. m.pins[p] = l.pins[p]
      BY <1>0, <1>7 DEF Pruned
    <2>2. PICK k \in Nat : k = Offset(l, l.pins[p])
      BY Tracked
    <2> HIDE DEF R, S
    <2>3. k < Len(R) /\ RowOf(l, p) = R[k + 1] /\ l.pins[p] \in PinType /\ Valid(l, l.pins[p]) /\ Holds(l.pages, l.pins[p], RowOf(l, p))
      BY <2>2, Tracked, Zenon DEF R
    <2>4. h <= k
      BY <1>1, <1>7, <2>2, <2>3, PinBelow, Zenon
    <2>5. S[(k - h) + 1] = RowOf(l, p)
      BY <1>6, <2>3, <2>4, Zenon
    <2>6. Holds(m.pages, l.pins[p], RowOf(l, p))
      <3>1. m.pages \in Seq(PageType)
        BY <1>4 DEF PagesOK
      <3>2. ASSUME NEW i \in 1 .. Len(l.pages), l.pages[i].id = l.pins[p].page PROVE \E j : Begins(l.pages, i, m.pages, j)
        <4>1. i # 1
          BY <1>7, <3>2
        <4>2. PICK j : j = i - 1
          OBVIOUS
        <4>3. j \in 1 .. Len(m.pages) /\ j + 1 = i
          BY <1>4, <4>1, <4>2
        <4>4. m.pages[j] = l.pages[i]
          BY <1>4, <4>3, Zenon
        <4>5. Len(l.pages[i].rows) \in Nat
          BY <1>2, PageAt
        <4>6. Len(l.pages[i].rows) <= Len(l.pages[i].rows)
          BY <4>5
        <4>7. Begins(l.pages, i, m.pages, j)
          BY <4>3, <4>4, <4>6, Zenon DEF Begins
        <4> QED BY <4>7
      <3> QED BY <1>2, <2>3, <3>1, <3>2, HoldsMore, Zenon
    <2>7. k - h \in Nat /\ k - h < Len(S)
      BY <1>2, <1>5, <1>6, <2>3, <2>4 DEF R
    <2>8. Valid(m, l.pins[p]) /\ Offset(m, l.pins[p]) = k - h
      <3>1. S = AllRows(m)
        BY DEF S
      <3>2. OnceEach(S, l.born)
        BY <1>6, Zenon
      <3> QED BY <1>4, <2>3, <2>5, <2>6, <2>7, <3>1, <3>2, HoldsOffsetIn, ZenonT(40)
    <2>9. RowOf(m, p) = S[(k - h) + 1]
      BY <2>1, <2>8, Zenon DEF S, RowOf
    <2> QED BY <2>1, <2>2, <2>3, <2>4, <2>5, <2>8, <2>9, Zenon DEF Moved
  <1>8. ASSUME NEW p \in Pins, l.pins[p].page = l.pages[1].id
        PROVE  /\ m.pins[p] \in PinType /\ Valid(m, m.pins[p]) /\ Moved(l, m, p, h)
               /\ RowOf(l, p) \notin ToSet(S) /\ Offset(l, l.pins[p]) < h
    <2>1. PICK b \in BOOLEAN : m.pins[p] = [Pin(l.pages[2].id, 0) EXCEPT !.garbage = b]
      BY <1>0, <1>8 DEF Pruned
    <2>2. PICK k \in Nat : k = Offset(l, l.pins[p])
      BY Tracked
    <2> HIDE DEF R, S
    <2>3. k < Len(R) /\ RowOf(l, p) = R[k + 1] /\ l.pins[p] \in PinType /\ Valid(l, l.pins[p])
      BY <2>2, Tracked, Zenon DEF R
    <2>4. k < h
      BY <1>1, <1>8, <2>2, <2>3, PinBelow, Zenon
    <2>5. 1 \in 1 .. Len(m.pages) /\ 2 \in 1 .. Len(l.pages) /\ 1 + 1 = 2
      BY <1>4
    <2>6. m.pages[1] = l.pages[2] /\ l.pages[2].id \in Nat
      BY <1>2, <1>4, <2>5, PageAt
    <2>7. m.pins[p] \in PinType /\ m.pins[p].page = l.pages[2].id /\ m.pins[p].y = 0
      <3>1. 0 \in Nat
        OBVIOUS
      <3>2. PinIs(m.pins[p], l.pages[2].id, 0)
        BY <2>1, <2>6, <3>1, PinTyped, Zenon
      <3> QED BY <3>2, Zenon DEF PinIs
    <2>8. On(m.pages, m.pins[p], 1)
      <3>1. Len(m.pages[1].rows) \in 1 .. RowCap
        BY <1>4, <2>5, Zenon DEF PagesOK
      <3>2. 0 < Len(m.pages[1].rows)
        BY <3>1, SizeAssumption
      <3> QED BY <2>5, <2>6, <2>7, <3>2, Zenon DEF On
    <2>9. S[0 + 1] = R[h + 1] /\ 0 < Len(S)
      <3>1. h <= h /\ (h - h) + 1 = 0 + 1 /\ 0 < Len(S)
        BY <1>2, <1>5, <1>6 DEF R
      <3> QED BY <1>5, <1>6, <3>1, Zenon DEF R
    <2>10. Holds(m.pages, m.pins[p], S[0 + 1])
      <3>1. 0 + 1 = 1
        OBVIOUS
      <3>2. m.pages[1].rows[m.pins[p].y + 1] = S[0 + 1]
        BY <1>5, <2>6, <2>7, <2>9, <3>1, Zenon DEF R
      <3> QED BY <2>8, <3>2, Zenon DEF Holds
    <2>11. Valid(m, m.pins[p]) /\ Offset(m, m.pins[p]) = 0
      <3>1. PICK z \in Nat : z = 0
        OBVIOUS
      <3>2. S = AllRows(m)
        BY DEF S
      <3>3. OnceEach(S, l.born) /\ PagesOK(m.pages) /\ m.pins[p] \in PinType
        BY <1>4, <1>6, <2>7, Zenon
      <3>4. PICK r, w : r = S[z + 1] /\ w = m.pins[p]
        OBVIOUS
      <3>5. z < Len(S) /\ S[z + 1] = r /\ Holds(m.pages, w, r) /\ w \in PinType
        BY <2>9, <2>10, <3>1, <3>3, <3>4, Zenon
      <3>6. Valid(m, w) /\ Offset(m, w) = z
        BY <3>2, <3>3, <3>5, HoldsOffsetIn
      <3> QED BY <3>1, <3>4, <3>6, Zenon
    <2>12. RowOf(l, p) \notin ToSet(S)
      BY <1>6, <2>3, <2>4, Zenon
    <2> QED BY <2>2, <2>4, <2>7, <2>11, <2>12, Zenon DEF Moved
  <1> HIDE DEF R, S
  <1>9. Kept(l, m)
    <2>1. l.born <= m.born
      BY <1>2, <1>3
    <2>2. \A p \in Pins : RowOf(l, p) \in ToSet(S) => RowOf(m, p) = RowOf(l, p)
      BY <1>7, <1>8, Zenon
    <2> QED BY <1>6, <2>1, <2>2, Zenon DEF Kept, R, S
  <1>10. ASSUME m.viewport = "pin" PROVE l.viewport = "pin" /\ m.cache \in {None, Offset(m, m.pins["viewport"])} /\ m.cache \in Nat \cup {None}
    <2>1. l.viewport = "pin" /\ ~(l.cache # None /\ l.cache < h)
      BY <1>3, <1>10
    <2>2. l.cache \in {None, Offset(l, l.pins["viewport"])} /\ "viewport" \in Pins
      BY <2>1, Zenon DEF Sound, CacheExact, Pins
    <2>3. CASE l.cache = None
      <3>1. m.cache = None
        BY <1>3, <2>3, Zenon
      <3> QED BY <2>1, <3>1
    <2>4. CASE l.cache # None
      <3>1. PICK c \in Nat : c = l.cache
        BY <1>2, <2>4
      <3>2. c = Offset(l, l.pins["viewport"]) /\ h <= c /\ m.cache = c - h
        BY <1>3, <1>5, <2>1, <2>2, <2>4, <3>1
      <3>3. ~(c < h)
        BY <1>5, <3>2
      <3>4. Moved(l, m, "viewport", h)
        BY <1>7, <1>8, <2>2, Zenon
      <3>5. Offset(m, m.pins["viewport"]) = c - h
        BY <3>2, <3>3, <3>4, Zenon DEF Moved
      <3>6. c - h \in Nat
        BY <1>5, <3>2
      <3> QED BY <2>1, <3>2, <3>5, <3>6
    <2> QED BY <2>1, <2>3, <2>4
  <1>11. m.cache \in Nat \cup {None} /\ m.viewport \in {"active", "top", "pin"}
    <2>1. CASE l.viewport = "pin" /\ l.cache # None /\ l.cache >= h
      <3>1. l.cache \in Nat /\ l.cache - h \in Nat
        BY <1>2, <1>5, <2>1
      <3> QED BY <1>2, <1>3, <2>1, <3>1
    <2>2. CASE ~(l.viewport = "pin" /\ l.cache # None /\ l.cache >= h)
      BY <1>2, <1>3, <2>2
    <2> QED BY <2>1, <2>2
  <1>12. m \in ListType
    <2>1. m = [l EXCEPT !.pages = m.pages, !.total = m.total, !.pins = m.pins, !.viewport = m.viewport, !.cache = m.cache]
      BY <1>0, Zenon DEF Pruned
    <2>2. m.pages \in Seq(PageType)
      BY <1>4 DEF PagesOK
    <2>3. m.total \in Nat
      BY <1>2, <1>3, <1>5
    <2>4. m.pins \in PinsType
      <3>1. \A p \in Pins : m.pins[p] \in PinType
        BY <1>7, <1>8
      <3>2. m.pins = [p \in Pins |-> m.pins[p]]
        BY <1>0 DEF Pruned
      <3> QED BY <3>1, <3>2 DEF PinsType
    <2>5. PICK q \in Seq(PageType), t \in Nat, w \in PinsType, v \in ViewportType, c \in CacheType :
             q = m.pages /\ t = m.total /\ w = m.pins /\ v = m.viewport /\ c = m.cache
      BY <1>11, <2>2, <2>3, <2>4, Zenon DEF ViewportType, CacheType
    <2>6. m = [l EXCEPT !.pages = q, !.total = t, !.pins = w, !.viewport = v, !.cache = c]
      BY <2>1, <2>5, Zenon
    <2>7. [l EXCEPT !.pages = q, !.total = t, !.pins = w, !.viewport = v, !.cache = c] \in ListType
      BY <1>1, TypedPruned
    <2> QED BY <2>6, <2>7, Zenon
  <1>13. Sound(m)
    <2>1. m.total = Len(S)
      BY <1>2, <1>3, <1>6 DEF R
    <2>2. \A i \in 1 .. Len(m.pages) : m.pages[i].id < m.nextId
      BY <1>1, <1>3, <1>4, Zenon
    <2>3. \A p \in Pins : Valid(m, m.pins[p])
      BY <1>7, <1>8, Zenon
    <2>4. OnceEach(S, m.born)
      BY <1>3, <1>6, Zenon
    <2> QED BY <1>4, <1>10, <1>12, <2>1, <2>2, <2>3, <2>4, Zenon DEF Sound, CacheExact, S
  <1>14. \A p \in Pins : Moved(l, m, p, h)
    BY <1>7, <1>8, Zenon
  <1>15. Shorter(l, m, h)
    BY <1>3, <1>5, <1>6, <1>9, <1>10, <1>13, <1>14, Zenon DEF Shorter, R, S
  <1> QED BY <1>4, <1>15

Grown(l, m, h) ==
    /\ Good(m) /\ Kept(l, m)
    /\ h \in Nat /\ h + Rows <= Len(AllRows(l)) + 1
    /\ Len(AllRows(m)) = Len(AllRows(l)) + 1 - h
    /\ \A p \in Pins : Moved(l, m, p, h)

(* The sizes of a sound list.                                              *)
LEMMA SoundSizes ==
    ASSUME NEW l, Sound(l)
    PROVE  /\ l \in ListType /\ l.total \in Nat /\ l.total = Len(AllRows(l)) /\ Len(AllRows(l)) \in Nat
           /\ l.pages \in Seq(PageType) /\ PagesOK(l.pages) /\ AllRows(l) \in Seq(Nat)
           /\ l.born \in Nat /\ l.nextId \in Nat /\ l.serial \in Nat
           /\ Rows \in Nat /\ Rows >= 2
  BY ListParts, RowsType, SizeAssumption DEF Sound

(* A list that was not pruned is shorter by no row.                        *)
LEMMA ShorterSame ==
    ASSUME NEW l, Good(l)
    PROVE  Shorter(l, l, 0)
  <1>1. Sound(l) /\ l.total >= Rows
    BY DEF Good
  <1>2. 0 < Len(AllRows(l)) /\ Len(AllRows(l)) = Len(AllRows(l)) - 0
    BY <1>1, SoundSizes
  <1>3. ASSUME NEW p \in Pins PROVE Moved(l, l, p, 0)
    <2>1. Offset(l, l.pins[p]) \in Nat
      BY <1>1, Tracked
    <2>2. 0 <= Offset(l, l.pins[p]) /\ Offset(l, l.pins[p]) = Offset(l, l.pins[p]) - 0
      BY <2>1
    <2> QED BY <2>2, Zenon DEF Moved
  <1>4. Kept(l, l)
    BY <1>1, KeptSame
  <1> QED BY <1>1, <1>2, <1>3, <1>4 DEF Shorter

(* Pruned or not and then longer: the list has grown.                      *)
LEMMA GrownBy ==
    ASSUME NEW l, Good(l), NEW t, NEW h, Shorter(l, t, h), NEW m, Longer(t, m),
           h + Rows <= Len(AllRows(l)) + 1
    PROVE  Grown(l, m, h)
  <1>1. Sound(l) /\ l.total >= Rows /\ High(l, l.total - Rows)
    BY DEF Good
  <1>2. /\ Sound(t) /\ Kept(l, t) /\ h \in Nat /\ h < Len(AllRows(l))
        /\ Len(AllRows(t)) = Len(AllRows(l)) - h
    BY Zenon DEF Shorter
  <1>3. /\ Sound(m) /\ Kept(t, m) /\ Len(AllRows(m)) = Len(AllRows(t)) + 1
        /\ \A p \in Pins : Offset(m, m.pins[p]) = Offset(t, t.pins[p])
    BY <1>2, LongerGood, Zenon
  <1>4. m.pins = t.pins /\ m.viewport = t.viewport
    BY Zenon DEF Longer
  <1>5. Kept(l, m)
    BY <1>1, <1>2, <1>3, KeptOn, Zenon
  <1>6. PICK n \in Nat, k \in Nat, j \in Nat : n = Len(AllRows(l)) /\ j = Len(AllRows(t)) /\ k = Len(AllRows(m))
    BY <1>1, <1>2, <1>3, SoundSizes
  <1>7. j = n - h /\ k = j + 1 /\ h + Rows <= n + 1 /\ h < n
    BY <1>2, <1>3, <1>6, Zenon
  <1>8. k = n + 1 - h /\ k >= Rows
    BY <1>1, <1>2, <1>7, SoundSizes
  <1>9. ASSUME NEW p \in Pins PROVE Moved(l, m, p, h)
    <2>1. Moved(l, t, p, h)
      BY Zenon DEF Shorter
    <2> QED BY <1>3, <1>4, <2>1, Zenon DEF Moved
  <1>10. High(m, m.total - Rows)
    <2> SUFFICES ASSUME m.viewport = "pin" PROVE Offset(m, m.pins["viewport"]) <= m.total - Rows
      BY DEF High
    <2>1. l.viewport = "pin" /\ "viewport" \in Pins
      BY <1>4, Zenon DEF Shorter, Pins
    <2>2. Offset(l, l.pins["viewport"]) <= l.total - Rows
      BY <1>1, <2>1, Zenon DEF High
    <2>3. m.total = k /\ l.total = n
      BY <1>1, <1>3, <1>6, SoundSizes
    <2>4. PICK a \in Nat, b \in Nat : a = Offset(l, l.pins["viewport"]) /\ b = Offset(m, m.pins["viewport"])
      BY <1>1, <1>3, <2>1, Tracked, Zenon
    <2>5. (h <= a /\ b = a - h) \/ (a < h /\ b = 0)
      BY <1>9, <2>1, <2>4, Zenon DEF Moved
    <2>6. a <= n - Rows
      BY <2>2, <2>3, <2>4, Zenon
    <2>7. b <= k - Rows
      BY <1>2, <1>8, <2>5, <2>6, SizeAssumption
    <2> QED BY <2>3, <2>4, <2>7, Zenon
  <1>11. Good(m)
    <2>1. m.total >= Rows
      BY <1>3, <1>6, <1>8, SoundSizes
    <2> QED BY <1>3, <1>10, <2>1 DEF Good
  <1> QED BY <1>2, <1>5, <1>6, <1>7, <1>8, <1>9, <1>11, Zenon DEF Grown

(* grow keeps the list good, whichever of its ways it takes, and the pins on their rows. *)
LEMMA GrowGood ==
    ASSUME NEW l, Good(l)
    PROVE  \E h \in Nat : Grown(l, Grow(l), h)
  <1>1. Sound(l) /\ l.total >= Rows
    BY DEF Good
  <1>2. 0 + Rows <= Len(AllRows(l)) + 1
    BY <1>1, SoundSizes
  <1>3. CASE Len(Last(l.pages).rows) < RowCap
    <2>1. Grow(l) = Extend(l)
      BY <1>3, Zenon DEF Grow
    <2>2. Longer(l, Grow(l))
      BY <1>1, <1>3, <2>1, ExtendLonger
    <2>3. Grown(l, Grow(l), 0)
      BY <1>2, <2>2, ShorterSame, GrownBy, Zenon
    <2> QED BY <2>3
  <1>4. CASE ~(Len(Last(l.pages).rows) < RowCap) /\ ~Prunable(l)
    <2>1. Grow(l) = Alloc(l)
      BY <1>4, Zenon DEF Grow
    <2>2. Longer(l, Grow(l))
      BY <1>1, <2>1, AllocLonger
    <2>3. Grown(l, Grow(l), 0)
      BY <1>2, <2>2, ShorterSame, GrownBy, Zenon
    <2> QED BY <2>3
  <1>5. CASE ~(Len(Last(l.pages).rows) < RowCap) /\ Prunable(l)
    <2>1. Len(l.pages) > 1 /\ l.total - Heights(l)[1] + 1 >= Rows
      BY <1>5, Zenon DEF Prunable
    <2>2. PICK t : t = Prune(l)
      OBVIOUS
    <2>3. 1 \in 1 .. Len(l.pages) /\ l.pages \in Seq(PageType)
      BY <1>1, <2>1, SoundSizes
    <2>4. PICK h \in Nat : h = Len(l.pages[1].rows) /\ h = Heights(l)[1]
      BY <2>3, PageAt, HeightsIs
    <2>5. Shorter(l, t, h) /\ \A i \in 1 .. Len(t.pages) : t.pages[i].id # l.pages[1].id
      BY <1>1, <2>1, <2>2, <2>4, PruneShorter, Zenon
    <2>6. h + Rows <= Len(AllRows(l)) + 1
      <3>1. l.total - h + 1 >= Rows
        BY <2>1, <2>4, Zenon
      <3> QED BY <1>1, <3>1, SoundSizes
    <2>7. Sound(t) /\ t.nextId = l.nextId
      BY <2>5, Zenon DEF Shorter
    <2>8. Head(l.pages) = l.pages[1] /\ l.pages[1] \in PageType
      BY <2>1, <2>3, PageAt
    <2>9. l.pages[1].id < t.nextId
      BY <1>1, <2>3, <2>7, Zenon DEF Sound
    <2>10. Longer(t, Alloc(t))
      BY <2>7, AllocLonger, Zenon
    <2>11. Longer(t, Reuse(t, l.pages[1]))
      BY <2>5, <2>7, <2>8, <2>9, ReuseLonger, Zenon
    <2>12. Grow(l) = Alloc(t) \/ Grow(l) = Reuse(t, l.pages[1])
      BY <1>5, <2>2, <2>8, Zenon DEF Grow
    <2>13. Longer(t, Grow(l))
      BY <2>10, <2>11, <2>12, Zenon
    <2>14. Grown(l, Grow(l), h)
      BY <2>5, <2>6, <2>13, GrownBy, Zenon
    <2> QED BY <2>14
  <1> QED BY <1>3, <1>4, <1>5

(* Only the pins, the viewport and its cache change.                       *)
Viewed(l, m) ==
    /\ Good(m)
    /\ m.pages = l.pages /\ m.total = l.total /\ m.born = l.born

Shows(m, k) == m.viewport = "pin" /\ m.cache \in {None, k} /\ Offset(m, m.pins["viewport"]) = k

Repin(l, pins, viewport, cache) == [l EXCEPT !.pins = pins, !.viewport = viewport, !.cache = cache]

CanShow(l, pins, viewport, cache) ==
    /\ pins \in PinsType /\ viewport \in ViewportType /\ cache \in CacheType
    /\ \A p \in Pins : Valid(l, pins[p])
    /\ viewport = "pin" => /\ cache \in {None, Offset(l, pins["viewport"])}
                           /\ Offset(l, pins["viewport"]) <= l.total - Rows

Repins(l, m, pins, viewport, cache) ==
    Viewed(l, m) /\ m.pins = pins /\ m.viewport = viewport /\ m.cache = cache

(* With pins that are valid and a cache that is exact a good list stays good. *)
LEMMA Repinned ==
    ASSUME NEW l, Good(l), NEW pins, NEW viewport, NEW cache, CanShow(l, pins, viewport, cache),
           NEW m, m = Repin(l, pins, viewport, cache)
    PROVE  Repins(l, m, pins, viewport, cache)
  <1>0. /\ pins \in PinsType /\ viewport \in ViewportType /\ cache \in CacheType
        /\ \A p \in Pins : Valid(l, pins[p])
        /\ viewport = "pin" => /\ cache \in {None, Offset(l, pins["viewport"])}
                               /\ Offset(l, pins["viewport"]) <= l.total - Rows
    BY Zenon DEF CanShow
  <1>1. Sound(l) /\ l \in ListType /\ l.total >= Rows
    BY DEF Good, Sound
  <1>2. m \in ListType
    BY <1>0, <1>1, TypedPins DEF Repin
  <1>3. /\ m.pages = l.pages /\ m.total = l.total /\ m.born = l.born /\ m.nextId = l.nextId
        /\ m.pins = pins /\ m.viewport = viewport /\ m.cache = cache
    BY <1>1 DEF ListType, Repin
  <1>4. /\ AllRows(m) = AllRows(l)
        /\ \A pin : (Valid(m, pin) <=> Valid(l, pin)) /\ Offset(m, pin) = Offset(l, pin)
    BY <1>3, SamePages, Zenon
  <1>5. CacheExact(m)
    BY <1>0, <1>3, <1>4, Zenon DEF CacheExact
  <1>6. Sound(m)
    BY <1>0, <1>1, <1>2, <1>3, <1>4, <1>5, Zenon DEF Sound
  <1>7. High(m, m.total - Rows)
    BY <1>0, <1>3, <1>4, Zenon DEF High
  <1> QED BY <1>1, <1>3, <1>6, <1>7, Zenon DEF Viewed, Good, Repins

(* The list itself shows the same pages.                                   *)
LEMMA ViewedSelf ==
    ASSUME NEW l, Good(l)
    PROVE  Viewed(l, l)
  BY Zenon DEF Viewed

OnePin(l, p, pin) == [l.pins EXCEPT ![p] = pin]
PinsAre(l, p, pin, pins) ==
    /\ pins \in PinsType /\ pins[p] = pin
    /\ \A q \in Pins : Valid(l, pins[q]) /\ (q # p => pins[q] = l.pins[q])

(* The pins with one of them replaced.                                     *)
LEMMA PinsSet ==
    ASSUME NEW l, Sound(l), NEW p \in Pins, NEW pin \in PinType, Valid(l, pin),
           NEW pins, pins = OnePin(l, p, pin)
    PROVE  PinsAre(l, p, pin, pins)
  <1>1. l.pins \in [Pins -> PinType] /\ \A q \in Pins : Valid(l, l.pins[q])
    BY ListParts DEF Sound
  <1>2. pins \in [Pins -> PinType] /\ pins[p] = pin /\ \A q \in Pins : q # p => pins[q] = l.pins[q]
    BY <1>1 DEF OnePin
  <1> QED BY <1>1, <1>2, Zenon DEF PinsType, PinsAre

PutPin(l, p, pin) == [l EXCEPT !.pins[p] = pin]
PinPutIs(l, m, p, pin) ==
    /\ Viewed(l, m) /\ m.pins[p] = pin /\ m.viewport = l.viewport /\ m.cache = l.cache
    /\ \A q \in Pins : q # p => m.pins[q] = l.pins[q]

(* A pin other than the viewport's may be put on any row.                  *)
LEMMA PutPinIs ==
    ASSUME NEW l, Good(l), NEW p \in Pins, p # "viewport", NEW pin \in PinType, Valid(l, pin)
    PROVE  PinPutIs(l, PutPin(l, p, pin), p, pin)
  <1>0. PICK m : m = PutPin(l, p, pin)
    OBVIOUS
  <1>1. Sound(l) /\ l \in ListType /\ CacheExact(l) /\ High(l, l.total - Rows) /\ "viewport" \in Pins
    BY DEF Good, Sound, Pins
  <1>2. PICK pins : pins = OnePin(l, p, pin)
    OBVIOUS
  <1>3. /\ pins \in PinsType /\ pins[p] = pin
        /\ \A q \in Pins : Valid(l, pins[q]) /\ (q # p => pins[q] = l.pins[q])
    <2>1. PinsAre(l, p, pin, pins)
      BY <1>1, <1>2, PinsSet, Zenon
    <2> QED BY <2>1, Zenon DEF PinsAre
  <1>4. PICK v \in ViewportType, c \in CacheType : v = l.viewport /\ c = l.cache
    BY <1>1, ListParts, Zenon
  <1>5. m = Repin(l, pins, v, c)
    BY <1>0, <1>1, <1>2, <1>4 DEF ListType, Repin, OnePin, PutPin
  <1>6. v = "pin" => /\ c \in {None, Offset(l, pins["viewport"])}
                     /\ Offset(l, pins["viewport"]) <= l.total - Rows
    BY <1>1, <1>3, <1>4, Zenon DEF CacheExact, High
  <1>7. Viewed(l, m) /\ m.pins = pins /\ m.viewport = v /\ m.cache = c
    <2>1. CanShow(l, pins, v, c)
      BY <1>3, <1>4, <1>6, Zenon DEF CanShow
    <2>90. Repins(l, m, pins, v, c)
      BY <1>5, <2>1, Repinned, Zenon
    <2> QED BY <2>90, Zenon DEF Repins
  <1> QED BY <1>0, <1>3, <1>4, <1>7, Zenon DEF PinPutIs

ViewOn(l, k, c) == [l EXCEPT !.viewport = "pin", !.pins["viewport"] = PinAt(l, k), !.cache = c]

(* A viewport pinned to a row that is not below the top of the active area. *)
LEMMA ViewAt ==
    ASSUME NEW l, Good(l), NEW k \in Nat, k <= l.total - Rows, NEW c, c \in {None, k},
           NEW m, m = ViewOn(l, k, c)
    PROVE  Viewed(l, m) /\ Shows(m, k) /\ m.cache = c
  <1>1. Sound(l) /\ l \in ListType /\ "viewport" \in Pins /\ PagesOK(l.pages)
    BY DEF Good, Sound, Pins
  <1>2. k < Len(AllRows(l))
    BY <1>1, SoundSizes
  <1>3. PinAt(l, k) \in PinType /\ Valid(l, PinAt(l, k)) /\ Offset(l, PinAt(l, k)) = k
    BY <1>1, <1>2, PinAtGood, Zenon
  <1>4. PICK pin \in PinType : pin = PinAt(l, k)
    BY <1>3
  <1>5. PICK pins : pins = OnePin(l, "viewport", pin)
    OBVIOUS
  <1>6. pins \in PinsType /\ pins["viewport"] = pin /\ \A q \in Pins : Valid(l, pins[q])
    <2>1. PinsAre(l, "viewport", pin, pins)
      BY <1>1, <1>3, <1>4, <1>5, PinsSet, Zenon
    <2> QED BY <2>1, Zenon DEF PinsAre
  <1>7. PICK v \in ViewportType, d \in CacheType : v = "pin" /\ d = c
    BY DEF ViewportType, CacheType
  <1>8. m = Repin(l, pins, v, d)
    BY <1>1, <1>4, <1>5, <1>7 DEF ListType, Repin, OnePin, ViewOn
  <1>9. Viewed(l, m) /\ m.pins = pins /\ m.viewport = v /\ m.cache = d
    <2>1. CanShow(l, pins, v, d)
      BY <1>3, <1>4, <1>6, <1>7, Zenon DEF CanShow
    <2>90. Repins(l, m, pins, v, d)
      BY <1>8, <2>1, Repinned, Zenon
    <2> QED BY <2>90, Zenon DEF Repins
  <1>10. Offset(m, pin) = Offset(l, pin)
    BY <1>9, SamePages, Zenon DEF Viewed
  <1> QED BY <1>3, <1>4, <1>6, <1>7, <1>9, <1>10, Zenon DEF Shows

(* Scrolling to the active area changes no page.                           *)
LEMMA ToActiveViewed ==
    ASSUME NEW l, Good(l)
    PROVE  Viewed(l, ToActive(l)) /\ ToActive(l).viewport = "active" /\ ToActive(l).pins = l.pins
  <1>1. Sound(l) /\ l \in ListType /\ \A q \in Pins : Valid(l, l.pins[q])
    BY DEF Good, Sound
  <1>2. PICK pins \in PinsType, v \in ViewportType, c \in CacheType : pins = l.pins /\ v = "active" /\ c = l.cache
    BY <1>1, ListParts DEF ViewportType
  <1>3. ToActive(l) = Repin(l, pins, v, c)
    BY <1>1, <1>2 DEF ToActive, ListType, Repin
  <1>4. v # "pin"
    BY <1>2
  <1>5. CanShow(l, pins, v, c)
    BY <1>1, <1>2, <1>4, Zenon DEF CanShow
  <1>90. Repins(l, ToActive(l), pins, v, c)
    BY <1>3, <1>5, Repinned, Zenon
  <1> QED BY <1>2, <1>90, Zenon DEF Repins

(* Nor does scrolling to the top.                                          *)
LEMMA ToTopViewed ==
    ASSUME NEW l, Good(l)
    PROVE  Viewed(l, ToTop(l)) /\ ToTop(l).viewport = "top" /\ ToTop(l).pins = l.pins
  <1>1. Sound(l) /\ l \in ListType /\ \A q \in Pins : Valid(l, l.pins[q])
    BY DEF Good, Sound
  <1>2. PICK pins \in PinsType, v \in ViewportType, c \in CacheType : pins = l.pins /\ v = "top" /\ c = l.cache
    BY <1>1, ListParts DEF ViewportType
  <1>3. ToTop(l) = Repin(l, pins, v, c)
    BY <1>1, <1>2 DEF ToTop, ListType, Repin
  <1>4. v # "pin"
    BY <1>2
  <1>5. CanShow(l, pins, v, c)
    BY <1>1, <1>2, <1>4, Zenon DEF CanShow
  <1>90. Repins(l, ToTop(l), pins, v, c)
    BY <1>3, <1>5, Repinned, Zenon
  <1> QED BY <1>2, <1>90, Zenon DEF Repins

(* Where the active area begins.                                           *)
LEMMA ActiveTopIs ==
    ASSUME NEW l, Good(l)
    PROVE  /\ ActiveTop(l) = l.total - Rows /\ ActiveTop(l) \in Nat
           /\ ActiveTop(l) < Len(AllRows(l)) /\ ActiveTop(l) + Rows = Len(AllRows(l))
  BY SoundSizes DEF Good, ActiveTop

(* The viewport's pin is not below the top of the active area.            *)
LEMMA ViewportPin ==
    ASSUME NEW l, Good(l), l.viewport = "pin"
    PROVE  /\ Offset(l, l.pins["viewport"]) \in Nat /\ Offset(l, l.pins["viewport"]) <= ActiveTop(l)
           /\ l.cache \in {None, Offset(l, l.pins["viewport"])}
           /\ l.cache \in Nat \cup {None}
  <1>1. Sound(l) /\ High(l, l.total - Rows) /\ "viewport" \in Pins
    BY DEF Good, Pins
  <1>2. Offset(l, l.pins["viewport"]) \in Nat
    BY <1>1, Tracked, Zenon
  <1>3. ActiveTop(l) = l.total - Rows
    BY ActiveTopIs, Zenon
  <1>4. CacheExact(l) /\ l.cache \in Nat \cup {None}
    BY <1>1, ListParts DEF Sound
  <1> QED BY <1>1, <1>2, <1>3, <1>4, Zenon DEF High, CacheExact

(* Scroll::Pin keeps the list good.                                        *)
LEMMA ScrollPinViewed ==
    ASSUME NEW l, Good(l), NEW k \in Nat
    PROVE  Viewed(l, ScrollPin(l, k))
  <1>1. CASE k >= ActiveTop(l)
    BY <1>1, ToActiveViewed, Zenon DEF ScrollPin
  <1>2. CASE ~(k >= ActiveTop(l)) /\ k = 0
    BY <1>2, ToTopViewed, Zenon DEF ScrollPin
  <1>3. CASE ~(k >= ActiveTop(l)) /\ k # 0
    <2>1. k <= l.total - Rows
      BY <1>3, ActiveTopIs
    <2>2. None \in {None, k}
      OBVIOUS
    <2>3. ScrollPin(l, k) = ViewOn(l, k, None)
      BY <1>3, Zenon DEF ScrollPin, ViewOn
    <2> QED BY <2>1, <2>2, <2>3, ViewAt, Zenon
  <1> QED BY <1>1, <1>2, <1>3

Lands(l, n, k) == k = Offset(l, l.pins["viewport"]) + n /\ k < ActiveTop(l)

(* A viewport that moves by n from a row that is n above row k.            *)
LEMMA ScrollPinnedViewed ==
    ASSUME NEW l, Good(l), l.viewport = "pin", NEW n \in Int, NEW m, m = ScrollPinned(l, n)
    PROVE  /\ Viewed(l, m)
           /\ \A k \in Nat : Lands(l, n, k) => Shows(m, k) /\ (l.cache # None => m.cache # None)
  <1>1. PICK a \in Nat : a = Offset(l, l.pins["viewport"])
    BY ViewportPin
  <1>2. PICK x \in Nat : x = ActiveTop(l) /\ x = l.total - Rows
    BY ActiveTopIs
  <1>3. a <= x /\ l.cache \in {None, a} /\ l \in ListType
    BY <1>1, <1>2, ViewportPin DEF Good, Sound
  <1> DEFINE t == [l EXCEPT !.pins["viewport"] = PinAt(l, a + n), !.cache = IF @ = None THEN None ELSE @ + n]
  <1>4. m = IF n < 0 THEN (IF a + n >= 0 THEN t ELSE ToTop(l)) ELSE IF a + n >= x THEN ToActive(l) ELSE t
    BY <1>1, <1>2, Zenon DEF ScrollPinned
  <1>5. ASSUME a + n \in Nat, a + n <= x PROVE Viewed(l, t) /\ Shows(t, a + n) /\ (l.cache # None => t.cache # None)
    <2>1. PICK k \in Nat : k = a + n
      BY <1>5
    <2>2. PICK c : c = IF l.cache = None THEN None ELSE l.cache + n
      OBVIOUS
    <2>3. c \in {None, k} /\ (l.cache # None => c # None)
      BY <1>3, <2>1, <2>2 DEF None
    <2>4. t = ViewOn(l, k, c)
      BY <1>3, <2>1, <2>2 DEF ListType, ViewOn
    <2>5. k <= l.total - Rows
      BY <1>2, <1>5, <2>1
    <2> HIDE DEF t
    <2> QED BY <2>1, <2>3, <2>4, <2>5, ViewAt, Zenon
  <1> HIDE DEF t
  <1>6. Viewed(l, m)
    <2>1. CASE n < 0 /\ a + n >= 0
      <3>1. a + n \in Nat /\ a + n <= x
        BY <1>3, <2>1
      <3> QED BY <1>4, <1>5, <2>1, <3>1, Zenon
    <2>2. CASE n < 0 /\ ~(a + n >= 0)
      BY <1>4, <2>2, ToTopViewed, Zenon
    <2>3. CASE ~(n < 0) /\ a + n >= x
      BY <1>4, <2>3, ToActiveViewed, Zenon
    <2>4. CASE ~(n < 0) /\ ~(a + n >= x)
      <3>1. a + n \in Nat /\ a + n <= x
        BY <1>3, <2>4
      <3> QED BY <1>4, <1>5, <2>4, <3>1, Zenon
    <2> QED BY <2>1, <2>2, <2>3, <2>4
  <1>7. ASSUME NEW k \in Nat, k = a + n, k < x PROVE Shows(m, k) /\ (l.cache # None => m.cache # None)
    <2>1. m = t
      BY <1>4, <1>7
    <2>2. a + n \in Nat /\ a + n <= x
      BY <1>7
    <2> QED BY <1>5, <1>7, <2>1, <2>2, Zenon
  <1> QED BY <1>1, <1>2, <1>6, <1>7, Zenon DEF Lands

(* The top of the viewport is not below that of the active area.           *)
LEMMA TopLeftIs ==
    ASSUME NEW l, Good(l)
    PROVE  TopLeft(l) \in Nat /\ TopLeft(l) <= ActiveTop(l)
  <1>1. l.viewport \in {"active", "top", "pin"}
    BY ListParts DEF Good, Sound
  <1>2. CASE l.viewport = "active"
    BY <1>2, ActiveTopIs DEF TopLeft
  <1>3. CASE l.viewport = "top"
    BY <1>3, ActiveTopIs DEF TopLeft
  <1>4. CASE l.viewport = "pin"
    BY <1>4, ViewportPin DEF TopLeft
  <1> QED BY <1>1, <1>2, <1>3, <1>4

(* Scroll::DeltaRow keeps the list good, for any amount.                   *)
LEMMA ScrollDeltaViewed ==
    ASSUME NEW l, Good(l), NEW n \in Int
    PROVE  Viewed(l, ScrollDelta(l, n))
  <1>1. l.viewport \in {"active", "top", "pin"}
    BY ListParts DEF Good, Sound
  <1>2. PICK x \in Nat : x = TopLeft(l)
    BY TopLeftIs
  <1>3. CASE n = 0
    <2>1. ScrollDelta(l, n) = l
      BY <1>3 DEF ScrollDelta
    <2> QED BY <2>1, ViewedSelf
  <1>4. CASE n # 0 /\ l.viewport = "pin"
    <2>1. ScrollDelta(l, n) = ScrollPinned(l, n)
      BY <1>4 DEF ScrollDelta
    <2> QED BY <1>4, <2>1, ScrollPinnedViewed, Zenon
  <1>5. CASE n # 0 /\ l.viewport = "top" /\ n < 0
    <2>1. ScrollDelta(l, n) = l
      BY <1>5 DEF ScrollDelta
    <2> QED BY <2>1, ViewedSelf
  <1>6. CASE n # 0 /\ l.viewport = "active" /\ n > 0
    <2>1. ScrollDelta(l, n) = l
      BY <1>6 DEF ScrollDelta
    <2> QED BY <2>1, ViewedSelf
  <1>7. CASE n # 0 /\ l.viewport # "pin" /\ ~(l.viewport = "top" /\ n < 0) /\ ~(l.viewport = "active" /\ n > 0)
    <2>1. PICK k \in Nat : k = IF x + n < 0 THEN 0 ELSE x + n
      OBVIOUS
    <2>2. ScrollDelta(l, n) = ScrollPin(l, k)
      BY <1>2, <1>7, <2>1 DEF ScrollDelta
    <2> QED BY <2>2, ScrollPinViewed, Zenon
  <1> QED BY <1>1, <1>3, <1>4, <1>5, <1>6, <1>7

(* The slider is put on row n: the viewport shows row n and is said to.    *)
LEMMA ScrollRowViewed ==
    ASSUME NEW l, Good(l), NEW n \in Nat, NEW m, m = ScrollRow(l, n)
    PROVE  Viewed(l, m) /\ (n <= l.total - Rows => TopLeft(m) = n /\ ShownOffset(m) = n)
  <1>1. PICK x \in Nat : x = l.total - Rows /\ x = ActiveTop(l)
    BY ActiveTopIs
  <1>2. ASSUME Shows(m, n), m.cache # None PROVE TopLeft(m) = n /\ ShownOffset(m) = n
    <2>1. m.viewport = "pin" /\ m.cache = n /\ Offset(m, m.pins["viewport"]) = n
      BY <1>2, Zenon DEF Shows
    <2>2. Scrollbar(m) = m
      BY <1>2, Zenon DEF Scrollbar
    <2> QED BY <2>1, <2>2 DEF TopLeft, ShownOffset
  <1>3. CASE n = 0
    <2>1. m = ToTop(l)
      BY <1>3, Zenon DEF ScrollRow
    <2>2. Viewed(l, m) /\ m.viewport = "top"
      BY <2>1, ToTopViewed
    <2> QED BY <1>3, <2>2 DEF TopLeft, ShownOffset
  <1>4. CASE n # 0 /\ n >= x
    <2>1. m = ToActive(l)
      BY <1>1, <1>4, Zenon DEF ScrollRow
    <2>2. Viewed(l, m) /\ m.viewport = "active"
      BY <2>1, ToActiveViewed
    <2>3. m.total = l.total /\ Good(m)
      BY <2>2 DEF Viewed
    <2>4. ActiveTop(m) = x /\ m.total - Rows = x
      BY <1>1, <2>3, ActiveTopIs
    <2>5. n <= x => n = x
      BY <1>4
    <2> QED BY <1>1, <2>2, <2>4, <2>5 DEF TopLeft, ShownOffset
  <1>5. CASE n # 0 /\ ~(n >= x) /\ l.viewport = "pin" /\ l.cache # None
    <2>1. PICK a \in Nat : a = l.cache /\ a = Offset(l, l.pins["viewport"])
      BY <1>5, ViewportPin
    <2>2. m = ScrollDelta(l, n - a)
      BY <1>1, <1>5, <2>1, Zenon DEF ScrollRow
    <2>3. PICK d \in Int : d = n - a
      OBVIOUS
    <2>4. Viewed(l, m)
      BY <2>2, <2>3, ScrollDeltaViewed, Zenon
    <2>5. CASE d = 0
      <3>1. m = l
        BY <2>2, <2>3, <2>5 DEF ScrollDelta
      <3>2. n = a
        BY <2>3, <2>5
      <3>3. Shows(m, n)
        BY <1>5, <2>1, <3>1, <3>2 DEF Shows
      <3> QED BY <1>2, <1>5, <2>4, <3>1, <3>3, Zenon
    <2>6. CASE d # 0
      <3>1. m = ScrollPinned(l, d)
        BY <1>5, <2>2, <2>3, <2>6 DEF ScrollDelta
      <3>2. n = a + d /\ n < x
        BY <1>5, <2>3
      <3>3. Shows(m, n) /\ m.cache # None
        <4>1. Lands(l, d, n)
          BY <1>1, <2>1, <3>2, Zenon DEF Lands
        <4> QED BY <1>5, <3>1, <4>1, ScrollPinnedViewed, Zenon
      <3> QED BY <1>2, <2>4, <3>3, Zenon
    <2> QED BY <2>5, <2>6
  <1>6. CASE n # 0 /\ ~(n >= x) /\ ~(l.viewport = "pin" /\ l.cache # None)
    <2>1. m = [l EXCEPT !.viewport = "pin", !.cache = n, !.pins["viewport"] = PinAt(l, n)]
      BY <1>1, <1>6, Zenon DEF ScrollRow
    <2>2. m = ViewOn(l, n, n)
      <3>1. l \in ListType
        BY DEF Good, Sound
      <3> QED BY <2>1, <3>1 DEF ListType, ViewOn
    <2>3. n <= l.total - Rows /\ n \in {None, n} /\ n # None
      BY <1>1, <1>6 DEF None
    <2>4. Viewed(l, m) /\ Shows(m, n) /\ m.cache = n
      BY <2>2, <2>3, ViewAt, Zenon
    <2> QED BY <1>2, <2>3, <2>4, Zenon
  <1> QED BY <1>1, <1>3, <1>4, <1>5, <1>6

(* Reading the scrollbar keeps the list good: what it caches is exact.     *)
LEMMA ScrollbarViewed ==
    ASSUME NEW l, Good(l)
    PROVE  Viewed(l, Scrollbar(l)) /\ Scrollbar(l).pins = l.pins
  <1>1. CASE ~(l.viewport = "pin" /\ l.cache = None)
    BY <1>1, ViewedSelf, Zenon DEF Scrollbar
  <1>2. CASE l.viewport = "pin" /\ l.cache = None
    <2>1. Sound(l) /\ l \in ListType /\ \A q \in Pins : Valid(l, l.pins[q])
      BY DEF Good, Sound
    <2>2. PICK a \in Nat : a = Offset(l, l.pins["viewport"]) /\ a <= ActiveTop(l)
      BY <1>2, ViewportPin
    <2>3. TopLeft(l) = a /\ a <= l.total - Rows
      BY <1>2, <2>2, ActiveTopIs DEF TopLeft
    <2>4. PICK pins \in PinsType, v \in ViewportType, c \in CacheType : pins = l.pins /\ v = l.viewport /\ c = a
      BY <2>1, ListParts DEF CacheType
    <2>5. Scrollbar(l) = Repin(l, pins, v, c)
      BY <1>2, <2>1, <2>3, <2>4 DEF Scrollbar, ListType, Repin
    <2>6. c \in {None, a}
      BY <2>4
    <2>7. CanShow(l, pins, v, c)
      BY <2>1, <2>2, <2>3, <2>4, <2>6, Zenon DEF CanShow
    <2>90. Repins(l, Scrollbar(l), pins, v, c)
      BY <2>5, <2>7, Repinned, Zenon
    <2> QED BY <2>4, <2>90, Zenon DEF Repins
  <1> QED BY <1>1, <1>2

(* A sound list of which the cached offset is not looked at.               *)
Loose(l) ==
    /\ l \in ListType
    /\ PagesOK(l.pages)
    /\ \A i \in 1 .. Len(l.pages) : l.pages[i].id < l.nextId
    /\ l.total = Len(AllRows(l)) /\ l.total >= Rows
    /\ OnceEach(AllRows(l), l.born)
    /\ \A p \in Pins : Valid(l, l.pins[p])

(* A loose list with an exact cache is good.                               *)
LEMMA LooseRepinned ==
    ASSUME NEW l, Loose(l), NEW pins, NEW viewport, NEW cache, CanShow(l, pins, viewport, cache),
           NEW m, m = Repin(l, pins, viewport, cache)
    PROVE  Repins(l, m, pins, viewport, cache)
  <1>0. /\ pins \in PinsType /\ viewport \in ViewportType /\ cache \in CacheType
        /\ \A p \in Pins : Valid(l, pins[p])
        /\ viewport = "pin" => /\ cache \in {None, Offset(l, pins["viewport"])}
                               /\ Offset(l, pins["viewport"]) <= l.total - Rows
    BY Zenon DEF CanShow
  <1>1. l \in ListType
    BY DEF Loose
  <1>2. m \in ListType
    BY <1>0, <1>1, TypedPins DEF Repin
  <1>3. /\ m.pages = l.pages /\ m.total = l.total /\ m.born = l.born /\ m.nextId = l.nextId
        /\ m.pins = pins /\ m.viewport = viewport /\ m.cache = cache
    BY <1>1 DEF ListType, Repin
  <1>4. /\ AllRows(m) = AllRows(l)
        /\ \A pin : (Valid(m, pin) <=> Valid(l, pin)) /\ Offset(m, pin) = Offset(l, pin)
    BY <1>3, SamePages, Zenon
  <1>5. CacheExact(m)
    BY <1>0, <1>3, <1>4, Zenon DEF CacheExact
  <1>6. Sound(m)
    BY <1>0, <1>1, <1>2, <1>3, <1>4, <1>5, Zenon DEF Sound, Loose
  <1>7. High(m, m.total - Rows)
    BY <1>0, <1>3, <1>4, Zenon DEF High
  <1>8. m.total >= Rows
    BY <1>3, Zenon DEF Loose
  <1> QED BY <1>3, <1>6, <1>7, <1>8, Zenon DEF Viewed, Good, Repins

(* The sizes of a loose list.                                              *)
LEMMA LooseSizes ==
    ASSUME NEW l, Loose(l)
    PROVE  /\ l.total \in Nat /\ l.total = Len(AllRows(l)) /\ Len(AllRows(l)) \in Nat
           /\ l.pages \in Seq(PageType) /\ PagesOK(l.pages) /\ AllRows(l) \in Seq(Nat)
           /\ l.born \in Nat /\ l.nextId \in Nat /\ l.serial \in Nat
           /\ Rows \in Nat /\ Rows >= 2
           /\ ActiveTop(l) = l.total - Rows /\ ActiveTop(l) \in Nat
           /\ l.pins \in PinsType /\ l.viewport \in ViewportType /\ l.cache \in CacheType
  BY ListParts, RowsType, SizeAssumption DEF Loose, ActiveTop

(* A good list is loose.                                                   *)
LEMMA GoodLoose ==
    ASSUME NEW l, Good(l)
    PROVE  Loose(l)
  BY Zenon DEF Good, Sound, Loose

(* What the cached offset says once removed rows are gone above the viewport. *)
CacheAfter(l, removed) ==
    l.viewport = "pin" => \/ l.cache = None \/ l.cache < removed
                          \/ l.cache = Offset(l, l.pins["viewport"]) + removed

FixupOK(l, m) ==
    /\ Good(m) /\ m.pages = l.pages /\ m.total = l.total /\ m.born = l.born /\ m.pins = l.pins

(* fixup_viewport makes a loose list good, if the cache was exact before rows were removed. *)
LEMMA FixupGood ==
    ASSUME NEW l, Loose(l), NEW removed \in Nat, CacheAfter(l, removed),
           NEW m, m = FixupViewport(l, removed)
    PROVE  FixupOK(l, m)
  <1>1. l \in ListType /\ \A p \in Pins : Valid(l, l.pins[p])
    BY DEF Loose
  <1>2. PICK pins \in PinsType, v \in ViewportType, c \in CacheType :
            pins = l.pins /\ v = l.viewport /\ c = l.cache
    BY LooseSizes, Zenon
  <1>3. v \in {"active", "top", "pin"} /\ c \in Nat \cup {None}
    BY DEF ViewportType, CacheType
  <1>4. ASSUME NEW w \in {"active", "top"}, m = [l EXCEPT !.viewport = w] PROVE FixupOK(l, m)
    <2>1. m = Repin(l, pins, w, c)
      BY <1>1, <1>2, <1>4 DEF Repin, ListType
    <2>2. w \in ViewportType /\ w # "pin"
      BY DEF ViewportType
    <2>3. CanShow(l, pins, w, c)
      BY <1>1, <1>2, <2>2, Zenon DEF CanShow
    <2>4. Repins(l, m, pins, w, c)
      BY <2>1, <2>3, LooseRepinned, Zenon
    <2> QED BY <1>2, <2>4, Zenon DEF Repins, Viewed, FixupOK
  <1>5. ASSUME NEW d \in CacheType, m = [l EXCEPT !.cache = d],
               v = "pin" => d \in {None, Offset(l, pins["viewport"])} /\ Offset(l, pins["viewport"]) <= l.total - Rows
        PROVE  FixupOK(l, m)
    <2>1. m = Repin(l, pins, v, d)
      BY <1>1, <1>2, <1>5 DEF Repin, ListType
    <2>2. CanShow(l, pins, v, d)
      BY <1>1, <1>2, <1>5, Zenon DEF CanShow
    <2>3. Repins(l, m, pins, v, d)
      BY <2>1, <2>2, LooseRepinned, Zenon
    <2> QED BY <1>2, <2>3, Zenon DEF Repins, Viewed, FixupOK
  <1>6. l = [l EXCEPT !.cache = c]
    BY <1>1, <1>2 DEF ListType
  <1>7. CASE v = "active"
    <2>1. m = l
      BY <1>2, <1>7 DEF FixupViewport
    <2>2. v # "pin"
      BY <1>7
    <2> QED BY <1>5, <1>6, <2>1, <2>2, Zenon
  <1>8. CASE v = "top"
    <2>1. m = (IF ActiveTop(l) = 0 THEN ToActive(l) ELSE l)
      BY <1>2, <1>8 DEF FixupViewport
    <2>2. CASE ActiveTop(l) = 0
      <3>1. m = [l EXCEPT !.viewport = "active"]
        BY <2>1, <2>2, Zenon DEF ToActive
      <3>2. "active" \in {"active", "top"}
        OBVIOUS
      <3> QED BY <1>4, <3>1, <3>2, Zenon
    <2>3. CASE ActiveTop(l) # 0
      <3>1. m = l /\ v # "pin"
        BY <1>8, <2>1, <2>3
      <3> QED BY <1>5, <1>6, <3>1, Zenon
    <2> QED BY <2>2, <2>3
  <1>9. CASE v = "pin"
    <2>1. "viewport" \in Pins
      BY DEF Pins
    <2>2. PICK o \in Nat : o = Offset(l, l.pins["viewport"])
      <3>1. l.pins["viewport"] \in PinType
        BY <1>2, <2>1 DEF PinsType
      <3> QED BY <1>1, <2>1, <3>1, LooseSizes, ValidOffset, Zenon
    <2>3. m = IF IsActive(l, l.pins["viewport"]) THEN ToActive(l)
              ELSE IF c = None THEN l
              ELSE IF c < removed THEN ToTop(l) ELSE [l EXCEPT !.cache = c - removed]
      BY <1>1, <1>2, <1>9 DEF FixupViewport, ListType
    <2>4. c = None \/ c < removed \/ c = o + removed
      BY <1>2, <1>9, <2>2, Zenon DEF CacheAfter
    <2>5. CASE IsActive(l, l.pins["viewport"])
      <3>1. m = [l EXCEPT !.viewport = "active"]
        BY <2>3, <2>5, Zenon DEF ToActive
      <3>2. "active" \in {"active", "top"}
        OBVIOUS
      <3> QED BY <1>4, <3>1, <3>2, Zenon
    <2>6. CASE ~IsActive(l, l.pins["viewport"])
      <3>1. o <= l.total - Rows
        <4>1. ~(o >= ActiveTop(l))
          BY <2>2, <2>6, Zenon DEF IsActive
        <4> QED BY <4>1, LooseSizes
      <3>2. CASE c = None
        <4>1. m = l
          BY <2>3, <2>6, <3>2, Zenon
        <4> QED BY <1>2, <1>5, <1>6, <2>2, <3>1, <3>2, <4>1, Zenon
      <3>3. CASE c # None /\ c < removed
        <4>1. m = [l EXCEPT !.viewport = "top"]
          BY <2>3, <2>6, <3>3, Zenon DEF ToTop
        <4>2. "top" \in {"active", "top"}
          OBVIOUS
        <4> QED BY <1>4, <4>1, <4>2, Zenon
      <3>4. CASE c # None /\ ~(c < removed)
        <4>1. c = o + removed
          BY <2>4, <3>4
        <4>2. PICK d \in CacheType : d = c - removed /\ d = o
          BY <4>1 DEF CacheType
        <4>3. m = [l EXCEPT !.cache = d]
          BY <2>3, <2>6, <3>4, <4>2, Zenon
        <4> QED BY <1>2, <1>5, <2>2, <3>1, <4>2, <4>3, Zenon
      <3> QED BY <3>2, <3>3, <3>4
    <2> QED BY <2>5, <2>6
  <1> QED BY <1>3, <1>7, <1>8, <1>9

(* Garbage or not, a pin is where it is.                                   *)
LEMMA GarbageFree ==
    ASSUME NEW l, NEW pin \in PinType, NEW g \in BOOLEAN, NEW q, q = [pin EXCEPT !.garbage = g]
    PROVE  /\ q \in PinType /\ q.page = pin.page /\ q.y = pin.y
           /\ (Valid(l, q) <=> Valid(l, pin)) /\ Offset(l, q) = Offset(l, pin)
  <1>1. q \in PinType /\ q.page = pin.page /\ q.y = pin.y
    BY DEF PinType
  <1> QED BY <1>1, Zenon DEF Valid, Offset

-----------------------------------------------------------------------------
(* The pages hold other rows.                                              *)
RowsAre(l, m, S) ==
    /\ PagesOK(m.pages) /\ AllRows(m) = S
    /\ Len(m.pages) = Len(l.pages)
    /\ \A i \in 1 .. Len(l.pages) : m.pages[i].id = l.pages[i].id
    /\ \A pin \in PinType : (Valid(m, pin) <=> Valid(l, pin)) /\ (Valid(l, pin) => Offset(m, pin) = Offset(l, pin))

RowsOf(l, S, i) == SubSeq(S, Above(l, i) + 1, Above(l, i + 1))

OffsetAt(l, pin, A, i) == Offset(l, pin) = A[i] + pin.y

(* The offset of a pin, as one fact.                                       *)
LEMMA OffsetsAt ==
    ASSUME NEW l, PagesOK(l.pages), NEW A, NEW R, Laid(A, R, l.pages),
           NEW pin, pin.y \in Nat, NEW i, On(l.pages, pin, i)
    PROVE  OffsetAt(l, pin, A, i)
  BY OffsetIs DEF OffsetAt

(* The pages with other rows hold them, and offsets are what they were.    *)
LEMMA WithRowsAre ==
    ASSUME NEW l, PagesOK(l.pages), l \in ListType, NEW S \in Seq(Nat), Len(S) = Len(AllRows(l)),
           NEW m, m.pages = WithRows(l, S).pages
    PROVE  RowsAre(l, m, S)
  <1> DEFINE pp == l.pages
             qq == [i \in DOMAIN pp |-> [pp[i] EXCEPT !.rows = RowsOf(l, S, i)]]
  <1>1. pp \in Seq(PageType) /\ DOMAIN pp = 1 .. Len(pp) /\ Len(pp) \in Nat
    BY HeightsIs DEF PagesOK
  <1>2. m.pages = qq
    BY DEF WithRows, ListType, RowsOf
  <1>3. PICK A : Laid(A, AllRows(l), pp)
    BY <1>1, LaidExists, Zenon
  <1>4. ASSUME NEW i \in 1 .. Len(pp)
        PROVE  RowsOf(l, S, i) = SubSeq(S, A[i] + 1, A[i + 1]) /\ RowsOf(l, S, i) \in Seq(Nat)
    <2>1. i \in 1 .. Len(pp) + 1 /\ i + 1 \in 1 .. Len(pp) + 1 /\ A[i] \in Nat /\ A[i + 1] \in Nat
      BY <1>1, <1>3, StepsAt DEF Laid
    <2>2. RowsOf(l, S, i) = SubSeq(S, A[i] + 1, A[i + 1])
      BY <1>1, <1>3, <2>1, AboveIs, Zenon DEF RowsOf
    <2>3. A[i + 1] <= Len(S)
      <3>1. Steps(A, pp) /\ Len(S) = A[Len(pp) + 1]
        BY <1>3 DEF Laid
      <3>2. CASE i = Len(pp)
        BY <2>1, <3>1, <3>2
      <3>3. CASE i # Len(pp)
        <4>1. i \in 1 .. Len(pp) /\ Len(pp) + 1 \in 1 .. Len(pp) + 1 /\ i < Len(pp) + 1
          BY <1>1, <3>3
        <4>2. A[i] + Len(pp[i].rows) <= A[Len(pp) + 1]
          BY <1>1, <3>1, <4>1, Climbs
        <4>3. A[i + 1] = A[i] + Len(pp[i].rows)
          BY <1>1, <3>1, StepsAt
        <4> QED BY <3>1, <4>2, <4>3, Zenon
      <3> QED BY <3>2, <3>3
    <2>4. PICK a \in Nat, b \in Nat : a = A[i] /\ b = A[i + 1]
      BY <2>1
    <2>5. SubSeq(S, a + 1, b) \in Seq(Nat)
      <3>1. b <= Len(S)
        BY <2>3, <2>4, Zenon
      <3> QED BY <3>1
    <2> QED BY <2>2, <2>4, <2>5, Zenon
  <1>5. ASSUME NEW i \in 1 .. Len(pp)
        PROVE  qq[i] \in PageType /\ qq[i].id = pp[i].id /\ qq[i].rows = RowsOf(l, S, i)
    <2>1. pp[i] \in PageType
      BY <1>1, PageAt
    <2>2. qq[i] = [pp[i] EXCEPT !.rows = RowsOf(l, S, i)]
      BY <1>1, Zenon
    <2>3. PICK w \in Seq(Nat) : w = RowsOf(l, S, i)
      BY <1>4
    <2> QED BY <2>1, <2>2, <2>3 DEF PageType
  <1>6. qq \in Seq(PageType) /\ Len(qq) = Len(pp)
    <2>1. qq = [i \in 1 .. Len(pp) |-> qq[i]]
      BY <1>1
    <2> HIDE DEF qq
    <2>2. PICK n \in Nat : n = Len(pp)
      BY <1>1
    <2>3. qq \in [1 .. n -> PageType]
      BY <1>5, <2>1, <2>2
    <2>4. qq \in Seq(PageType) /\ Len(qq) = n
      BY <2>3
    <2> QED BY <2>2, <2>4
  <1> HIDE DEF qq
  <1>7. Laid(A, S, qq) /\ \A i \in 1 .. Len(pp) : Len(qq[i].rows) = Len(pp[i].rows)
    <2>1. \A i \in 1 .. Len(pp) : qq[i].rows = SubSeq(S, A[i] + 1, A[i + 1])
      BY <1>4, <1>5, Zenon
    <2> QED BY <1>1, <1>3, <1>6, <2>1, OtherLaid
  <1>8. AllRows(m) = S
    BY <1>2, <1>6, <1>7, AllRowsIs, Zenon
  <1>9. PagesOK(qq)
    BY <1>5, <1>6, <1>7, Zenon DEF PagesOK
  <1>10. ASSUME NEW pin \in PinType
         PROVE  (Valid(m, pin) <=> Valid(l, pin)) /\ (Valid(l, pin) => Offset(m, pin) = Offset(l, pin))
    <2>1. \A i : On(qq, pin, i) <=> On(pp, pin, i)
      BY <1>5, <1>6, <1>7, Zenon DEF On
    <2>2. Valid(m, pin) <=> Valid(l, pin)
      BY <1>1, <1>2, <1>6, <2>1, ValidIs, Zenon
    <2>3. ASSUME Valid(l, pin) PROVE Offset(m, pin) = Offset(l, pin)
      <3>1. pin.y \in Nat
        BY DEF PinType
      <3>2. PICK i : On(pp, pin, i)
        BY <1>1, <2>3, ValidIs, Zenon
      <3>3. OffsetAt(l, pin, A, i)
        BY <1>3, <3>1, <3>2, OffsetsAt, Zenon
      <3>4. OffsetAt(m, pin, A, i)
        <4>1. PagesOK(m.pages) /\ Laid(A, S, m.pages) /\ On(m.pages, pin, i)
          BY <1>2, <1>7, <1>9, <2>1, <3>2, Zenon
        <4> QED BY <3>1, <4>1, OffsetsAt, Zenon
      <3> QED BY <3>3, <3>4, Zenon DEF OffsetAt
    <2> QED BY <2>2, <2>3
  <1> QED BY <1>2, <1>5, <1>6, <1>8, <1>9, <1>10, Zenon DEF RowsAre

(* The rows in another order, one of them replaced by a new one.           *)
Rearranged(R, S, g, e, b, c) ==
    /\ S \in Seq(Nat) /\ Len(S) = Len(R)
    /\ \A i \in 1 .. Len(R) : i # e => g[i] \in 1 .. Len(R) /\ S[i] = R[g[i]]
    /\ \A i, j \in 1 .. Len(R) : i # e /\ j # e /\ g[i] = g[j] => i = j
    /\ b <= c /\ (e \in 1 .. Len(R) => S[e] = c /\ b < c)

(* In another order each row is still there once.                          *)
LEMMA RearrangedOnce ==
    ASSUME NEW R \in Seq(Nat), NEW b \in Nat, NEW c \in Nat, OnceEach(R, b), NEW S, NEW g, NEW e, Rearranged(R, S, g, e, b, c)
    PROVE  /\ OnceEach(S, c)
           /\ \A r \in ToSet(S) : r \in ToSet(R) \/ r > b
  <1>1. /\ S \in Seq(Nat) /\ Len(S) = Len(R) /\ Len(R) \in Nat
        /\ \A i \in 1 .. Len(R) : i # e => g[i] \in 1 .. Len(R) /\ S[i] = R[g[i]]
        /\ \A i, j \in 1 .. Len(R) : i # e /\ j # e /\ g[i] = g[j] => i = j
        /\ b <= c /\ (e \in 1 .. Len(R) => S[e] = c /\ b < c)
    BY DEF Rearranged
  <1>2. ASSUME NEW i \in 1 .. Len(R), i # e PROVE S[i] \in Nat /\ S[i] <= b /\ S[i] <= c /\ S[i] \in ToSet(R)
    <2>1. g[i] \in 1 .. Len(R) /\ S[i] = R[g[i]]
      BY <1>1, <1>2, Zenon
    <2>2. PICK x \in 1 .. Len(R) : x = g[i]
      BY <2>1
    <2>3. S[i] \in Nat /\ S[i] <= b
      BY <2>1, <2>2 DEF OnceEach
    <2>4. S[i] \in ToSet(R)
      BY <2>1, RowsSet, Zenon
    <2> QED BY <1>1, <2>3, <2>4
  <1>3. ASSUME NEW i \in 1 .. Len(R) PROVE S[i] <= c /\ (S[i] \in ToSet(R) \/ S[i] > b)
    <2>1. CASE i = e
      BY <1>1, <2>1
    <2>2. CASE i # e
      BY <1>2, <2>2
    <2> QED BY <2>1, <2>2
  <1>4. ASSUME NEW i \in 1 .. Len(R), NEW j \in 1 .. Len(R), S[i] = S[j] PROVE i = j
    <2>1. CASE i # e /\ j # e
      <3>1. g[i] = g[j]
        BY <1>1, <1>4, <2>1, ZenonT(40) DEF OnceEach
      <3> QED BY <1>1, <2>1, <3>1, Zenon
    <2>2. CASE i = e /\ j # e
      <3>1. S[i] = c /\ b < c /\ S[j] <= b /\ S[j] \in Nat
        BY <1>1, <1>2, <2>2
      <3> QED BY <1>4, <3>1
    <2>3. CASE i # e /\ j = e
      <3>1. S[j] = c /\ b < c /\ S[i] <= b /\ S[i] \in Nat
        BY <1>1, <1>2, <2>3
      <3> QED BY <1>4, <3>1
    <2> QED BY <2>1, <2>2, <2>3
  <1>5. ASSUME NEW r \in ToSet(S) PROVE r \in ToSet(R) \/ r > b
    <2>1. PICK i \in 1 .. Len(R) : S[i] = r
      BY <1>1, <1>5, RowsSet, Zenon
    <2> QED BY <1>3, <2>1, Zenon
  <1> QED BY <1>1, <1>3, <1>4, <1>5, Zenon DEF OnceEach

(* A row is taken out and put in elsewhere.                                *)
RemovedIs(R, k, w) ==
    /\ w \in Seq(Nat) /\ Len(w) = Len(R) - 1
    /\ \A i \in 1 .. Len(R) - 1 : w[i] = IF i < k THEN R[i] ELSE R[i + 1]

(* What RemoveAt leaves.                                                   *)
LEMMA Removed ==
    ASSUME NEW R \in Seq(Nat), NEW k \in 1 .. Len(R)
    PROVE  RemovedIs(R, k, RemoveAt(R, k))
  <1>1. Len(R) \in Nat /\ k - 1 \in Nat /\ k \in Nat /\ k - 1 <= Len(R) /\ k <= Len(R)
    OBVIOUS
  <1>2. PICK u : u = SubSeq(R, 1, k - 1)
    OBVIOUS
  <1>3. PICK v : v = SubSeq(R, k + 1, Len(R))
    OBVIOUS
  <1>4. u \in Seq(Nat) /\ Len(u) = k - 1 /\ \A i \in 1 .. k - 1 : u[i] = R[i]
    BY <1>1, <1>2, PartsAt
  <1>5. v \in Seq(Nat) /\ Len(v) = Len(R) - k /\ \A i \in 1 .. Len(R) - k : v[i] = R[k + i]
    BY <1>1, <1>3, PartsAt
  <1>6. RemoveAt(R, k) = u \o v
    BY <1>2, <1>3 DEF RemoveAt
  <1>7. PICK w : w = u \o v
    OBVIOUS
  <1>8. /\ w \in Seq(Nat) /\ Len(w) = Len(u) + Len(v)
        /\ \A i \in 1 .. Len(u) : w[i] = u[i]
        /\ \A i \in 1 .. Len(v) : w[Len(u) + i] = v[i]
    <2>1. ConcatIs(u, v, w)
      BY <1>4, <1>5, <1>7, RowsConcat, Zenon
    <2> QED BY <2>1, Zenon DEF ConcatIs
  <1>9. Len(w) = Len(R) - 1
    BY <1>1, <1>4, <1>5, <1>8
  <1>10. ASSUME NEW i \in 1 .. Len(R) - 1 PROVE w[i] = IF i < k THEN R[i] ELSE R[i + 1]
    <2>1. CASE i < k
      <3>1. i \in 1 .. k - 1 /\ i \in 1 .. Len(u)
        BY <1>1, <1>4, <2>1
      <3> QED BY <1>4, <1>8, <2>1, <3>1, Zenon
    <2>2. CASE ~(i < k)
      <3>1. /\ i - Len(u) \in 1 .. Len(v) /\ i - Len(u) \in 1 .. Len(R) - k
            /\ k + (i - Len(u)) = i + 1 /\ Len(u) + (i - Len(u)) = i
        BY <1>1, <1>4, <1>5, <2>2
      <3>2. w[i] = v[i - Len(u)]
        BY <1>8, <3>1, Zenon
      <3>3. v[i - Len(u)] = R[i + 1]
        BY <1>5, <3>1, Zenon
      <3> QED BY <2>2, <3>2, <3>3, Zenon
    <2> QED BY <2>1, <2>2
  <1> QED BY <1>6, <1>7, <1>8, <1>9, <1>10, Zenon DEF RemovedIs

InsertedIs(R, k, r, w) ==
    /\ w \in Seq(Nat) /\ Len(w) = Len(R) + 1
    /\ \A i \in 1 .. Len(R) + 1 : w[i] = IF i < k THEN R[i] ELSE IF i = k THEN r ELSE R[i - 1]

(* What InsertAt makes.                                                    *)
LEMMA Inserted ==
    ASSUME NEW R \in Seq(Nat), NEW k \in 1 .. Len(R) + 1, NEW r \in Nat
    PROVE  InsertedIs(R, k, r, InsertAt(R, k, r))
  <1>1. Len(R) \in Nat /\ k - 1 \in Nat /\ k \in Nat /\ k - 1 <= Len(R) /\ (k - 1) + 1 = k
    OBVIOUS
  <1>2. PICK u : u = SubSeq(R, 1, k - 1)
    OBVIOUS
  <1>3. PICK v : v = SubSeq(R, k, Len(R))
    OBVIOUS
  <1>4. /\ u \in Seq(Nat) /\ Len(u) = k - 1 /\ \A i \in 1 .. k - 1 : u[i] = R[i]
        /\ v \in Seq(Nat) /\ Len(v) = Len(R) - (k - 1) /\ \A i \in 1 .. Len(R) - (k - 1) : v[i] = R[(k - 1) + i]
    <2>1. PICK c \in Nat : c = k - 1 /\ c + 1 = k /\ c <= Len(R)
      BY <1>1
    <2>2. u = SubSeq(R, 1, c) /\ v = SubSeq(R, c + 1, Len(R))
      BY <1>2, <1>3, <2>1
    <2>3. /\ u \in Seq(Nat) /\ Len(u) = c /\ \A i \in 1 .. c : u[i] = R[i]
          /\ v \in Seq(Nat) /\ Len(v) = Len(R) - c /\ \A i \in 1 .. Len(R) - c : v[i] = R[c + i]
      BY <2>1, <2>2, PartsAt
    <2> QED BY <2>1, <2>3
  <1>5. PICK z : z = u \o <<r>>
    OBVIOUS
  <1>6. z \in Seq(Nat) /\ Len(z) = k /\ \A i \in 1 .. k : z[i] = IF i < k THEN u[i] ELSE r
    BY <1>1, <1>4, <1>5, SMTT(30)
  <1>7. InsertAt(R, k, r) = z \o v
    BY <1>2, <1>3, <1>5 DEF InsertAt
  <1>8. PICK w : w = z \o v
    OBVIOUS
  <1>9. /\ w \in Seq(Nat) /\ Len(w) = Len(z) + Len(v)
        /\ \A i \in 1 .. Len(z) : w[i] = z[i]
        /\ \A i \in 1 .. Len(v) : w[Len(z) + i] = v[i]
    <2>1. ConcatIs(z, v, w)
      BY <1>4, <1>6, <1>8, RowsConcat, Zenon
    <2> QED BY <2>1, Zenon DEF ConcatIs
  <1>10. Len(w) = Len(R) + 1
    BY <1>1, <1>4, <1>6, <1>9
  <1>11. ASSUME NEW i \in 1 .. Len(R) + 1 PROVE w[i] = IF i < k THEN R[i] ELSE IF i = k THEN r ELSE R[i - 1]
    <2>1. CASE i < k
      <3>1. i \in 1 .. k - 1 /\ i \in 1 .. Len(z) /\ i \in 1 .. k
        BY <1>1, <1>6, <2>1
      <3> QED BY <1>4, <1>6, <1>9, <2>1, <3>1, Zenon
    <2>2. CASE i = k
      <3>1. i \in 1 .. Len(z) /\ i \in 1 .. k /\ ~(i < k)
        BY <1>1, <1>6, <2>2
      <3> QED BY <1>6, <1>9, <2>2, <3>1, Zenon
    <2>3. CASE i > k
      <3>1. /\ i - Len(z) \in 1 .. Len(v) /\ i - Len(z) \in 1 .. Len(R) - (k - 1)
            /\ (k - 1) + (i - Len(z)) = i - 1 /\ Len(z) + (i - Len(z)) = i /\ ~(i < k) /\ i # k
        BY <1>1, <1>4, <1>6, <2>3
      <3>2. w[i] = v[i - Len(z)]
        BY <1>9, <3>1, Zenon
      <3>3. v[i - Len(z)] = R[i - 1]
        BY <1>4, <3>1, Zenon
      <3> QED BY <3>1, <3>2, <3>3, Zenon
    <2>4. i < k \/ i = k \/ i > k
      BY <1>1
    <2> QED BY <2>1, <2>2, <2>3, <2>4
  <1> QED BY <1>7, <1>8, <1>9, <1>10, <1>11, Zenon DEF InsertedIs

(* Where the row at i of the rotated rows comes from.                      *)
From(k, j, i) ==
    IF i = j + 1 THEN k + 1
    ELSE IF i < j + 1 THEN IF i < k + 1 THEN i ELSE i + 1
    ELSE IF i - 1 < k + 1 THEN i - 1 ELSE i

RotatedIs(R, k, j, w) ==
    /\ w \in Seq(Nat) /\ Len(w) = Len(R)
    /\ \A i \in 1 .. Len(R) : From(k, j, i) \in 1 .. Len(R) /\ w[i] = R[From(k, j, i)]

(* Each row of the rotated rows comes from where From says.                *)
LEMMA RotatedAre ==
    ASSUME NEW R \in Seq(Nat), NEW k \in Nat, k < Len(R), NEW j \in Nat, j < Len(R)
    PROVE  RotatedIs(R, k, j, Rotated(R, k, j))
  <1>1. Len(R) \in Nat /\ k + 1 \in 1 .. Len(R) /\ R[k + 1] \in Nat
    OBVIOUS
  <1>2. PICK w : w = RemoveAt(R, k + 1)
    OBVIOUS
  <1>3. RemovedIs(R, k + 1, w)
    BY <1>1, <1>2, Removed, Zenon
  <1>4. /\ w \in Seq(Nat) /\ Len(w) = Len(R) - 1
        /\ \A i \in 1 .. Len(R) - 1 : w[i] = IF i < k + 1 THEN R[i] ELSE R[i + 1]
    BY <1>3, Zenon DEF RemovedIs
  <1>5. PICK x : x = Rotated(R, k, j)
    OBVIOUS
  <1>6. j + 1 \in 1 .. Len(w) + 1
    BY <1>1, <1>4
  <1>7. InsertedIs(w, j + 1, R[k + 1], x)
    BY <1>1, <1>2, <1>4, <1>5, <1>6, Inserted, Zenon DEF Rotated
  <1>8. /\ x \in Seq(Nat) /\ Len(x) = Len(w) + 1
        /\ \A i \in 1 .. Len(w) + 1 : x[i] = IF i < j + 1 THEN w[i] ELSE IF i = j + 1 THEN R[k + 1] ELSE w[i - 1]
    BY <1>7, Zenon DEF InsertedIs
  <1>9. Len(x) = Len(R) /\ Len(w) + 1 = Len(R)
    BY <1>1, <1>4, <1>8
  <1>10. ASSUME NEW i \in 1 .. Len(R) PROVE From(k, j, i) \in 1 .. Len(R) /\ x[i] = R[From(k, j, i)]
    <2>0. i \in 1 .. Len(w) + 1
      BY <1>9
    <2>1. CASE i = j + 1
      <3>1. From(k, j, i) = k + 1
        BY <2>1, Zenon DEF From
      <3>2. x[i] = R[k + 1]
        BY <1>8, <2>0, <2>1
      <3> QED BY <1>1, <3>1, <3>2, Zenon
    <2>2. CASE i < j + 1
      <3>1. i \in 1 .. Len(R) - 1 /\ i # j + 1
        BY <1>1, <2>2
      <3>2. x[i] = w[i]
        BY <1>8, <2>0, <2>2, Zenon
      <3>3. w[i] = IF i < k + 1 THEN R[i] ELSE R[i + 1]
        BY <1>4, <3>1, Zenon
      <3>4. From(k, j, i) = IF i < k + 1 THEN i ELSE i + 1
        BY <2>2, <3>1, Zenon DEF From
      <3>5. i + 1 \in 1 .. Len(R)
        BY <1>1, <3>1
      <3> QED BY <3>2, <3>3, <3>4, <3>5, Zenon
    <2>3. CASE i > j + 1
      <3>1. i - 1 \in 1 .. Len(R) - 1 /\ i # j + 1 /\ ~(i < j + 1) /\ (i - 1) + 1 = i
        BY <1>1, <2>3
      <3>2. x[i] = w[i - 1]
        BY <1>8, <2>0, <3>1, Zenon
      <3>3. w[i - 1] = IF i - 1 < k + 1 THEN R[i - 1] ELSE R[(i - 1) + 1]
        BY <1>4, <3>1, Zenon
      <3>4. From(k, j, i) = IF i - 1 < k + 1 THEN i - 1 ELSE i
        BY <3>1, Zenon DEF From
      <3>5. i - 1 \in 1 .. Len(R)
        BY <1>1, <3>1
      <3> QED BY <3>1, <3>2, <3>3, <3>4, <3>5, Zenon
    <2>4. i = j + 1 \/ i < j + 1 \/ i > j + 1
      OBVIOUS
    <2> QED BY <2>1, <2>2, <2>3, <2>4, Zenon
  <1> QED BY <1>5, <1>8, <1>9, <1>10, Zenon DEF RotatedIs

(* No two come from the same place.                                        *)
LEMMA FromOnce ==
    ASSUME NEW k \in Nat, NEW j \in Nat, NEW a \in Nat, NEW b \in Nat, From(k, j, a) = From(k, j, b)
    PROVE  a = b
  BY DEF From

RaisedIs(l, pin, q, o) ==
    /\ q \in PinType /\ Valid(l, q) /\ o \in Nat /\ Offset(l, pin) = o + 1 /\ Offset(l, q) = o

(* A pin that is moved up is on the row above.                             *)
LEMMA RaisedUp ==
    ASSUME NEW l, PagesOK(l.pages), NEW pin \in PinType, Valid(l, pin), Offset(l, pin) > 0
    PROVE  \E o : RaisedIs(l, pin, Raised(l, pin), o)
  <1>1. Offset(l, pin) \in Nat /\ Offset(l, pin) < Len(AllRows(l)) /\ Len(AllRows(l)) \in Nat
    BY ValidOffset, RowsType DEF PagesOK
  <1>2. PICK o \in Nat : o = Offset(l, pin) - 1 /\ Offset(l, pin) = o + 1 /\ o < Len(AllRows(l))
    BY <1>1
  <1>3. PinAt(l, o) \in PinType /\ Valid(l, PinAt(l, o)) /\ Offset(l, PinAt(l, o)) = o
    BY <1>2, PinAtGood, Zenon
  <1>4. PICK w \in PinType, g \in BOOLEAN : w = PinAt(l, o) /\ g = pin.garbage
    BY <1>3 DEF PinType
  <1>5. PICK q : q = [w EXCEPT !.garbage = g]
    OBVIOUS
  <1>6. Raised(l, pin) = q
    BY <1>2, <1>4, <1>5, Zenon DEF Raised
  <1>7. q \in PinType /\ Valid(l, q) /\ Offset(l, q) = o
    BY <1>3, <1>4, <1>5, GarbageFree
  <1>8. RaisedIs(l, pin, q, o)
    BY <1>2, <1>7 DEF RaisedIs
  <1> QED BY <1>6, <1>8

Rewrites(l, m, S, c) ==
    /\ m \in ListType /\ m.pages = WithRows(l, S).pages
    /\ m.nextId = l.nextId /\ m.total = l.total /\ m.born = c
    /\ \A p \in Pins : Valid(l, m.pins[p])

(* A pin that is not moved is at the same offset.                          *)
Stays(l, m) == \A pin \in PinType : Valid(l, pin) => Valid(m, pin) /\ Offset(m, pin) = Offset(l, pin)

Rewritten(l, m, S) ==
    /\ Loose(m) /\ AllRows(m) = S /\ m.total = l.total /\ Stays(l, m)
    /\ \A p \in Pins : Offset(m, m.pins[p]) = Offset(l, m.pins[p])
    /\ l.born <= m.born
    /\ \A r \in ToSet(S) : r \in ToSet(AllRows(l)) \/ r > l.born

(* A list whose rows are put in another order, one of them replaced, is loose. *)
LEMMA RewriteLoose ==
    ASSUME NEW l, Loose(l), NEW S, NEW g, NEW e, NEW c \in Nat, Rearranged(AllRows(l), S, g, e, l.born, c),
           NEW m, Rewrites(l, m, S, c)
    PROVE  Rewritten(l, m, S)
  <1>1. /\ m \in ListType /\ m.pages = WithRows(l, S).pages
        /\ m.nextId = l.nextId /\ m.total = l.total /\ m.born = c
        /\ \A p \in Pins : Valid(l, m.pins[p])
    BY DEF Rewrites
  <1>2. /\ PagesOK(l.pages) /\ l \in ListType /\ OnceEach(AllRows(l), l.born) /\ AllRows(l) \in Seq(Nat)
        /\ l.born \in Nat /\ l.total = Len(AllRows(l)) /\ l.total >= Rows
        /\ \A i \in 1 .. Len(l.pages) : l.pages[i].id < l.nextId
    BY LooseSizes DEF Loose
  <1>3. S \in Seq(Nat) /\ Len(S) = Len(AllRows(l)) /\ l.born <= c
    BY DEF Rearranged
  <1>4. RowsAre(l, m, S)
    BY <1>1, <1>2, <1>3, WithRowsAre, Zenon
  <1>5. /\ PagesOK(m.pages) /\ AllRows(m) = S
        /\ Len(m.pages) = Len(l.pages)
        /\ \A i \in 1 .. Len(l.pages) : m.pages[i].id = l.pages[i].id
        /\ \A pin \in PinType : (Valid(m, pin) <=> Valid(l, pin)) /\ (Valid(l, pin) => Offset(m, pin) = Offset(l, pin))
    BY <1>4, Zenon DEF RowsAre
  <1>6. OnceEach(S, c) /\ \A r \in ToSet(S) : r \in ToSet(AllRows(l)) \/ r > l.born
    BY <1>2, RearrangedOnce, Zenon
  <1>7. \A p \in Pins : m.pins[p] \in PinType
    BY <1>1, ListParts
  <1>8. Loose(m)
    BY <1>1, <1>2, <1>3, <1>5, <1>6, <1>7, Zenon DEF Loose
  <1> QED BY <1>1, <1>3, <1>5, <1>6, <1>7, <1>8, Zenon DEF Rewritten, Stays

(* Where a row came from, its pin came from.                               *)
Traced(l, m, g, e) ==
    \A p \in Pins : \A i \in 1 .. Len(AllRows(l)) :
        i # e /\ g[i] = Offset(l, l.pins[p]) + 1 => Offset(m, m.pins[p]) + 1 = i

(* When pins move with the rows they stay on them.                         *)
LEMMA TracedKept ==
    ASSUME NEW l, Good(l), NEW S, NEW g, NEW e, NEW c \in Nat, Rearranged(AllRows(l), S, g, e, l.born, c),
           NEW m, Rewritten(l, m, S), Traced(l, m, g, e)
    PROVE  Kept(l, m)
  <1>1. Sound(l) /\ AllRows(l) \in Seq(Nat) /\ l.born \in Nat /\ OnceEach(AllRows(l), l.born)
    BY SoundSizes DEF Good, Sound
  <1> DEFINE R == AllRows(l)
  <1>2. /\ S \in Seq(Nat) /\ Len(S) = Len(R)
        /\ \A i \in 1 .. Len(R) : i # e => g[i] \in 1 .. Len(R) /\ S[i] = R[g[i]]
        /\ (e \in 1 .. Len(R) => S[e] = c /\ l.born < c)
    BY DEF Rearranged
  <1>3. AllRows(m) = S
    BY DEF Rewritten
  <1>4. ASSUME NEW p \in Pins, RowOf(l, p) \in ToSet(S) PROVE RowOf(m, p) = RowOf(l, p)
    <2>1. PICK k \in Nat : k = Offset(l, l.pins[p]) /\ k < Len(R) /\ RowOf(l, p) = R[k + 1]
      BY <1>1, Tracked, Zenon
    <2>2. PICK i \in 1 .. Len(R) : S[i] = RowOf(l, p)
      <3>1. \E i \in 1 .. Len(S) : S[i] = RowOf(l, p)
        BY <1>2, <1>4, RowsSet, Zenon
      <3> QED BY <1>2, <3>1
    <2>3. PICK x \in 1 .. Len(R) : x = k + 1
      BY <1>1, <2>1
    <2> HIDE DEF R
    <2>4. R[x] = RowOf(l, p) /\ R[x] <= l.born /\ R[x] \in Nat
      <3>1. R[x] = RowOf(l, p)
        BY <2>1, <2>3, Zenon
      <3>2. R[x] <= l.born
        BY <1>1, Zenon DEF R, OnceEach
      <3>3. R[x] \in Nat
        BY <1>1 DEF R
      <3> QED BY <3>1, <3>2, <3>3
    <2>5. i # e
      BY <1>1, <1>2, <2>2, <2>4
    <2>6. g[i] = x
      <3>1. g[i] \in 1 .. Len(R) /\ R[g[i]] = R[x]
        BY <1>2, <2>2, <2>4, <2>5, Zenon
      <3> QED BY <1>1, <3>1, Zenon DEF OnceEach, R
    <2>7. Offset(m, m.pins[p]) + 1 = i
      BY <2>1, <2>3, <2>5, <2>6, Zenon DEF Traced, R
    <2> QED BY <1>3, <2>2, <2>7, Zenon DEF RowOf
  <1> QED BY <1>3, <1>4, Zenon DEF Kept, Rewritten

-----------------------------------------------------------------------------
(* EraseRow: every row but the first moves up.                             *)
Lifted(R, f) == Append(Tail(R), f)
LiftedFrom(R) == [i \in 1 .. Len(R) |-> i + 1]

(* Without the first row and with a new one at the end.                    *)
LEMMA LiftedIs ==
    ASSUME NEW R \in Seq(Nat), Len(R) >= 1, NEW b \in Nat
    PROVE  Rearranged(R, Lifted(R, b + 1), LiftedFrom(R), Len(R), b, b + 1)
  <1>1. PICK t : t = Tail(R)
    OBVIOUS
  <1>2. t \in Seq(Nat) /\ Len(t) = Len(R) - 1 /\ Len(R) \in Nat /\ \A i \in 1 .. Len(R) - 1 : t[i] = R[i + 1]
    BY <1>1
  <1>3. PICK S : S = Append(t, b + 1)
    OBVIOUS
  <1>4. S \in Seq(Nat) /\ Len(S) = Len(t) + 1 /\ (\A i \in 1 .. Len(t) : S[i] = t[i]) /\ S[Len(t) + 1] = b + 1
    <2>1. b + 1 \in Nat
      OBVIOUS
    <2> QED BY <1>2, <1>3, <2>1, AppendAt
  <1>5. Len(S) = Len(R) /\ Len(t) + 1 = Len(R)
    BY <1>2, <1>4
  <1>6. ASSUME NEW i \in 1 .. Len(R), i # Len(R) PROVE LiftedFrom(R)[i] = i + 1 /\ i + 1 \in 1 .. Len(R) /\ S[i] = R[i + 1]
    <2>1. i \in 1 .. Len(t) /\ i \in 1 .. Len(R) - 1 /\ i + 1 \in 1 .. Len(R)
      BY <1>2, <1>6
    <2>2. S[i] = R[i + 1]
      BY <1>2, <1>4, <2>1, Zenon
    <2> QED BY <2>1, <2>2, Zenon DEF LiftedFrom
  <1>7. ASSUME NEW i \in 1 .. Len(R), NEW j \in 1 .. Len(R), i # Len(R), j # Len(R), LiftedFrom(R)[i] = LiftedFrom(R)[j] PROVE i = j
    <2>1. i + 1 = j + 1
      BY <1>6, <1>7, Zenon
    <2> QED BY <2>1
  <1>8. b <= b + 1 /\ b < b + 1
    OBVIOUS
  <1>9. S[Len(R)] = b + 1
    BY <1>4, <1>5, Zenon
  <1>10. Lifted(R, b + 1) = S
    BY <1>1, <1>3, Zenon DEF Lifted
  <1> QED BY <1>4, <1>5, <1>6, <1>7, <1>8, <1>9, <1>10, Zenon DEF Rearranged

(* What EraseRow makes of the list before the viewport is put right.       *)
RaisedPin(l, pin) == IF Offset(l, pin) > 0 THEN Raised(l, pin) ELSE pin
Erased(l) ==
    [l EXCEPT !.pages = WithRows(l, Lifted(AllRows(l), Fresh(l))).pages, !.born = l.born + 1,
              !.pins = [p \in Pins |-> RaisedPin(l, l.pins[p])]]

(* erase_row at the top: the rows and pins go up, then the viewport is put right. *)
LEMMA EraseRowIs ==
    ASSUME NEW l \in ListType
    PROVE  EraseRow(l) = FixupViewport(Erased(l), 1)
  <1>1. PICK q : q = WithRows(l, Append(Tail(AllRows(l)), Fresh(l))).pages
    OBVIOUS
  <1>2. WithRows(l, Append(Tail(AllRows(l)), Fresh(l))) = [l EXCEPT !.pages = q]
    BY <1>1 DEF WithRows, ListType
  <1>3. PICK t : t = [l EXCEPT !.pages = q]
    OBVIOUS
  <1>4. EraseRow(l) = FixupViewport([t EXCEPT !.born = t.born + 1,
            !.pins = [p \in Pins |-> IF Offset(l, t.pins[p]) > 0 THEN Raised(l, t.pins[p]) ELSE t.pins[p]]], 1)
    BY <1>2, <1>3, Zenon DEF EraseRow
  <1>5. t.born = l.born /\ t.pins = l.pins
    BY <1>3 DEF ListType
  <1>6. PICK ps : ps = [p \in Pins |-> IF Offset(l, l.pins[p]) > 0 THEN Raised(l, l.pins[p]) ELSE l.pins[p]]
    OBVIOUS
  <1>7. [t EXCEPT !.born = l.born + 1, !.pins = ps] = [l EXCEPT !.pages = q, !.born = l.born + 1, !.pins = ps]
    BY <1>3 DEF ListType
  <1>8. Erased(l) = [l EXCEPT !.pages = q, !.born = l.born + 1, !.pins = ps]
    BY <1>1, <1>6, Zenon DEF Erased, Lifted, RaisedPin
  <1>9. EraseRow(l) = FixupViewport([t EXCEPT !.born = l.born + 1, !.pins = ps], 1)
    BY <1>4, <1>5, <1>6, Zenon
  <1> QED BY <1>7, <1>8, <1>9, Zenon

(* What the first of these does.                                           *)
LEMMA ErasedFields ==
    ASSUME NEW l \in ListType, NEW m, m = Erased(l)
    PROVE  /\ m.pages = WithRows(l, Lifted(AllRows(l), Fresh(l))).pages /\ m.born = l.born + 1
           /\ m.pins = [p \in Pins |-> RaisedPin(l, l.pins[p])]
           /\ m.nextId = l.nextId /\ m.total = l.total /\ m.viewport = l.viewport /\ m.cache = l.cache
  <1>1. PICK q : q = WithRows(l, Lifted(AllRows(l), Fresh(l))).pages
    OBVIOUS
  <1>2. PICK ps : ps = [p \in Pins |-> RaisedPin(l, l.pins[p])]
    OBVIOUS
  <1>3. m = [l EXCEPT !.pages = q, !.born = l.born + 1, !.pins = ps]
    BY <1>1, <1>2, Zenon DEF Erased
  <1>4. /\ m.pages = q /\ m.born = l.born + 1 /\ m.pins = ps
        /\ m.nextId = l.nextId /\ m.total = l.total /\ m.viewport = l.viewport /\ m.cache = l.cache
    BY <1>3 DEF ListType
  <1> QED BY <1>1, <1>2, <1>4, Zenon

(* The pages with other rows are pages.                                    *)
LEMMA PageCells ==
    ASSUME NEW l, l \in ListType, PagesOK(l.pages), NEW S \in Seq(Nat), Len(S) = Len(AllRows(l))
    PROVE  WithRows(l, S).pages \in Seq(PageType)
  <1>1. PICK m : m = WithRows(l, S)
    OBVIOUS
  <1>2. RowsAre(l, m, S)
    BY <1>1, WithRowsAre, Zenon
  <1> QED BY <1>1, <1>2 DEF RowsAre, PagesOK

(* Where the pin is after EraseRow.                                        *)
UpOrTop(l, pin, q) ==
    /\ q \in PinType /\ Valid(l, q)
    /\ \/ Offset(l, pin) = 0 /\ Offset(l, q) = 0
       \/ \E o \in Nat : Offset(l, pin) = o + 1 /\ Offset(l, q) = o

(* A pin goes up by one row unless it is on the first.                     *)
LEMMA RaisedPinIs ==
    ASSUME NEW l, PagesOK(l.pages), NEW pin \in PinType, Valid(l, pin)
    PROVE  UpOrTop(l, pin, RaisedPin(l, pin))
  <1>1. PICK a \in Nat : a = Offset(l, pin)
    BY ValidOffset
  <1>2. CASE a > 0
    <2>1. RaisedPin(l, pin) = Raised(l, pin)
      BY <1>1, <1>2, Zenon DEF RaisedPin
    <2>2. PICK o : RaisedIs(l, pin, Raised(l, pin), o)
      BY <1>1, <1>2, RaisedUp, Zenon
    <2> QED BY <2>1, <2>2, Zenon DEF RaisedIs, UpOrTop
  <1>3. CASE ~(a > 0)
    <2>1. RaisedPin(l, pin) = pin
      BY <1>1, <1>3, Zenon DEF RaisedPin
    <2>2. a = 0
      BY <1>3
    <2> QED BY <1>1, <2>1, <2>2, Zenon DEF UpOrTop
  <1> QED BY <1>2, <1>3

(* The rows and pins go up together.                                       *)
LEMMA ErasedRewritten ==
    ASSUME NEW l, Good(l), NEW m, m = Erased(l)
    PROVE  Rewritten(l, m, Lifted(AllRows(l), l.born + 1)) /\ Kept(l, m) /\ CacheAfter(m, 1)
           /\ m.viewport = l.viewport
  <1> DEFINE R == AllRows(l)
             b == l.born
             S == Lifted(R, b + 1)
  <1>1. Loose(l) /\ l \in ListType /\ PagesOK(l.pages) /\ R \in Seq(Nat) /\ Len(R) >= 1 /\ b \in Nat /\ b + 1 \in Nat
        /\ Len(R) \in Nat
    BY GoodLoose, SoundSizes DEF Good, Sound
  <1>2. Rearranged(R, S, LiftedFrom(R), Len(R), b, b + 1)
    BY <1>1, LiftedIs
  <1>3. /\ m.pages = WithRows(l, S).pages /\ m.born = b + 1
        /\ m.pins = [p \in Pins |-> RaisedPin(l, l.pins[p])]
        /\ m.nextId = l.nextId /\ m.total = l.total /\ m.viewport = l.viewport /\ m.cache = l.cache
    BY <1>1, ErasedFields, Zenon DEF Fresh
  <1> HIDE DEF S, R, b
  <1>4. ASSUME NEW p \in Pins
        PROVE  /\ m.pins[p] \in PinType /\ Valid(l, m.pins[p])
               /\ \/ Offset(l, l.pins[p]) = 0 /\ Offset(l, m.pins[p]) = 0
                  \/ \E o \in Nat : Offset(l, l.pins[p]) = o + 1 /\ Offset(l, m.pins[p]) = o
    <2>1. m.pins[p] = RaisedPin(l, l.pins[p])
      BY <1>3
    <2>2. l.pins[p] \in PinType /\ Valid(l, l.pins[p])
      BY <1>1, ListParts DEF Loose
    <2>3. UpOrTop(l, l.pins[p], RaisedPin(l, l.pins[p]))
      BY <1>1, <2>2, RaisedPinIs, Zenon
    <2> QED BY <2>1, <2>3, Zenon DEF UpOrTop
  <1>5. m \in ListType
    <2>1. S \in Seq(Nat) /\ Len(S) = Len(R)
      BY <1>2, Zenon DEF Rearranged
    <2>2. WithRows(l, S).pages \in Seq(PageType)
      BY <1>1, <2>1, PageCells, Zenon DEF R
    <2>3. m.pins \in PinsType
      BY <1>3, <1>4 DEF PinsType
    <2>4. PICK q \in Seq(PageType), n \in Nat, ps \in PinsType, v \in ViewportType, c \in CacheType :
            q = WithRows(l, S).pages /\ n = b + 1 /\ ps = m.pins /\ v = l.viewport /\ c = l.cache
      BY <1>1, <2>2, <2>3, ListParts, Zenon
    <2>5. m = [l EXCEPT !.pages = q, !.born = n, !.pins = ps]
      BY <1>3, <2>4, Zenon DEF Erased, S, R, b, Fresh
    <2>6. m = [l EXCEPT !.pages = q, !.born = n, !.pins = ps, !.viewport = v, !.cache = c]
      BY <1>1, <2>4, <2>5 DEF ListType
    <2>7. [l EXCEPT !.pages = q, !.born = n, !.pins = ps, !.viewport = v, !.cache = c] \in ListType
      BY <1>1, TypedErased
    <2> QED BY <2>6, <2>7, Zenon
  <1>6. Rewrites(l, m, S, b + 1)
    BY <1>3, <1>4, <1>5, Zenon DEF Rewrites
  <1>7. Rewritten(l, m, S)
    BY <1>1, <1>2, <1>6, RewriteLoose, Zenon DEF R, b
  <1>8. \A p \in Pins : Offset(m, m.pins[p]) = Offset(l, m.pins[p])
    BY <1>7, Zenon DEF Rewritten
  <1>9. Traced(l, m, LiftedFrom(R), Len(R))
    <2> SUFFICES ASSUME NEW p \in Pins, NEW i \in 1 .. Len(R), i # Len(R), LiftedFrom(R)[i] = Offset(l, l.pins[p]) + 1
                 PROVE  Offset(m, m.pins[p]) + 1 = i
      BY Zenon DEF Traced, R
    <2>1. i + 1 = Offset(l, l.pins[p]) + 1
      BY Zenon DEF LiftedFrom
    <2>2. PICK a \in Nat, o \in Nat : a = Offset(l, l.pins[p]) /\ o = Offset(m, m.pins[p]) /\ ((a = 0 /\ o = 0) \/ a = o + 1)
      <3>1. 0 \in Nat /\ \A o \in Nat : o + 1 \in Nat
        OBVIOUS
      <3> QED BY <1>4, <1>8, <3>1, Zenon
    <2>3. i + 1 = a + 1
      BY <2>1, <2>2, Zenon
    <2>4. o + 1 = i
      BY <1>1, <2>2, <2>3
    <2> QED BY <2>2, <2>4, Zenon
  <1>10. Kept(l, m)
    BY <1>1, <1>2, <1>7, <1>9, TracedKept, Zenon DEF R, b
  <1>11. CacheAfter(m, 1)
    <2> SUFFICES ASSUME m.viewport = "pin" PROVE m.cache = None \/ m.cache < 1 \/ m.cache = Offset(m, m.pins["viewport"]) + 1
      BY Zenon DEF CacheAfter
    <2>1. l.viewport = "pin" /\ "viewport" \in Pins
      BY <1>3, Zenon DEF Pins
    <2>2. m.cache \in {None, Offset(l, l.pins["viewport"])}
      BY <1>3, <2>1, ViewportPin, Zenon
    <2>3. \/ Offset(l, l.pins["viewport"]) = 0
          \/ \E o \in Nat : Offset(l, l.pins["viewport"]) = o + 1 /\ Offset(m, m.pins["viewport"]) = o
      BY <1>4, <1>8, <2>1, Zenon
    <2>4. CASE m.cache = 0
      BY <2>4
    <2>5. CASE \E o \in Nat : m.cache = o + 1 /\ Offset(m, m.pins["viewport"]) = o
      BY <2>5, Zenon
    <2> QED BY <2>2, <2>3, <2>4, <2>5, Zenon
  <1> QED BY <1>3, <1>7, <1>10, <1>11, Zenon DEF S, R, b

(* EraseRow keeps the list good, its pins on their rows and its size.     *)
LEMMA EraseRowGood ==
    ASSUME NEW l, Good(l), NEW m, m = EraseRow(l)
    PROVE  Good(m) /\ Kept(l, m) /\ m.total = l.total /\ Stays(l, m)
  <1>1. l \in ListType
    BY DEF Good, Sound
  <1>2. PICK t : t = Erased(l)
    OBVIOUS
  <1>3. Rewritten(l, t, Lifted(AllRows(l), l.born + 1)) /\ Kept(l, t) /\ CacheAfter(t, 1)
    BY <1>2, ErasedRewritten
  <1>4. Loose(t) /\ t.total = l.total
    BY <1>3, Zenon DEF Rewritten
  <1>5. m = FixupViewport(t, 1)
    BY <1>1, <1>2, EraseRowIs, Zenon
  <1>6. FixupOK(t, m)
    <2>1. 1 \in Nat
      OBVIOUS
    <2> QED BY <1>3, <1>4, <1>5, <2>1, FixupGood, Zenon
  <1>7. Good(m) /\ m.pages = t.pages /\ m.total = t.total /\ m.born = t.born /\ m.pins = t.pins
    BY <1>6, Zenon DEF FixupOK
  <1>8. Kept(l, m)
    <2>1. AllRows(m) = AllRows(t) /\ \A p \in Pins : RowOf(m, p) = RowOf(t, p)
      BY <1>7, SamePages, ZenonT(40) DEF RowOf
    <2> QED BY <1>3, <1>7, <2>1, Zenon DEF Kept
  <1>9. Stays(l, m)
    <2>1. Stays(l, t)
      BY <1>3, Zenon DEF Rewritten
    <2>2. \A pin : (Valid(m, pin) <=> Valid(t, pin)) /\ Offset(m, pin) = Offset(t, pin)
      BY <1>7, SamePages, Zenon
    <2> QED BY <2>1, <2>2, Zenon DEF Stays
  <1> QED BY <1>4, <1>7, <1>8, <1>9, Zenon

(* Rows moved within the list.                                             *)
RotatedFrom(R, k, j) == [i \in 1 .. Len(R) |-> From(k, j, i)]

(* Rotating puts the rows in another order.                                *)
LEMMA RotatedRows ==
    ASSUME NEW R \in Seq(Nat), NEW k \in Nat, k < Len(R), NEW j \in Nat, j < Len(R), NEW b \in Nat
    PROVE  Rearranged(R, Rotated(R, k, j), RotatedFrom(R, k, j), 0, b, b)
  <1>1. PICK w : w = Rotated(R, k, j)
    OBVIOUS
  <1>2. RotatedIs(R, k, j, w)
    BY <1>1, RotatedAre, Zenon
  <1>3. /\ w \in Seq(Nat) /\ Len(w) = Len(R)
        /\ \A i \in 1 .. Len(R) : From(k, j, i) \in 1 .. Len(R) /\ w[i] = R[From(k, j, i)]
    BY <1>2, Zenon DEF RotatedIs
  <1>4. \A i \in 1 .. Len(R) : RotatedFrom(R, k, j)[i] = From(k, j, i) /\ i \in Nat
    BY DEF RotatedFrom
  <1>5. b <= b /\ ~(0 \in 1 .. Len(R))
    OBVIOUS
  <1>6. \A x, z \in 1 .. Len(R) : RotatedFrom(R, k, j)[x] = RotatedFrom(R, k, j)[z] => x = z
    <2> SUFFICES ASSUME NEW x \in 1 .. Len(R), NEW z \in 1 .. Len(R), RotatedFrom(R, k, j)[x] = RotatedFrom(R, k, j)[z]
                 PROVE  x = z
      OBVIOUS
    <2>1. From(k, j, x) = From(k, j, z) /\ x \in Nat /\ z \in Nat
      BY <1>4, Zenon
    <2> QED BY <2>1, FromOnce, Zenon
  <1> QED BY <1>1, <1>3, <1>4, <1>5, <1>6, Zenon DEF Rearranged

Blanked(R, k, b) == [R EXCEPT ![k + 1] = b + 1]

(* So does rotating when one of them is replaced by a new one.             *)
LEMMA BlankedRows ==
    ASSUME NEW R \in Seq(Nat), NEW k \in Nat, k < Len(R), NEW j \in Nat, j < Len(R), NEW b \in Nat
    PROVE  Rearranged(R, Rotated(Blanked(R, k, b), k, j), RotatedFrom(R, k, j), j + 1, b, b + 1)
  <1>1. PICK x \in 1 .. Len(R) : x = k + 1
    OBVIOUS
  <1>2. PICK V : V = Blanked(R, k, b)
    OBVIOUS
  <1>3. V \in Seq(Nat) /\ Len(V) = Len(R) /\ V[x] = b + 1 /\ \A i \in 1 .. Len(R) : i # x => V[i] = R[i]
    <2>1. b + 1 \in Nat
      OBVIOUS
    <2>2. SetIs(Nat, R, x, b + 1, [R EXCEPT ![x] = b + 1])
      BY <1>1, <2>1, SetAt
    <2>3. V = [R EXCEPT ![x] = b + 1]
      BY <1>1, <1>2, Zenon DEF Blanked
    <2> QED BY <2>2, <2>3, Zenon DEF SetIs
  <1>4. Rearranged(V, Rotated(V, k, j), RotatedFrom(V, k, j), 0, b, b)
    BY <1>3, RotatedRows
  <1>5. PICK S : S = Rotated(V, k, j)
    OBVIOUS
  <1>6. PICK g : g = RotatedFrom(R, k, j)
    OBVIOUS
  <1>7. g = RotatedFrom(V, k, j)
    BY <1>3, <1>6, Zenon DEF RotatedFrom
  <1>8. ~(0 \in 1 .. Len(R)) /\ \A i \in 1 .. Len(R) : i # 0 /\ i \in Nat
    OBVIOUS
  <1>9. /\ S \in Seq(Nat) /\ Len(S) = Len(R)
        /\ \A i \in 1 .. Len(R) : g[i] \in 1 .. Len(R) /\ S[i] = V[g[i]]
        /\ \A i, z \in 1 .. Len(R) : g[i] = g[z] => i = z
    BY <1>3, <1>4, <1>5, <1>7, <1>8, Zenon DEF Rearranged
  <1>10. j + 1 \in 1 .. Len(R)
    OBVIOUS
  <1>11. g[j + 1] = x
    <2>1. From(k, j, j + 1) = x
      BY <1>1, Zenon DEF From
    <2> QED BY <1>6, <1>10, <2>1, Zenon DEF RotatedFrom
  <1>12. S[j + 1] = b + 1
    BY <1>3, <1>9, <1>10, <1>11, Zenon
  <1>13. ASSUME NEW i \in 1 .. Len(R), i # j + 1 PROVE S[i] = R[g[i]]
    <2>1. g[i] # x
      BY <1>9, <1>10, <1>11, <1>13, Zenon
    <2> QED BY <1>3, <1>9, <2>1, Zenon
  <1>14. b <= b + 1 /\ b < b + 1
    OBVIOUS
  <1> QED BY <1>2, <1>5, <1>6, <1>9, <1>12, <1>13, <1>14, Zenon DEF Rearranged

-----------------------------------------------------------------------------
(* The region's pins.                                                      *)
Moves(l, k, limit, pin) == Offset(l, pin) \in k .. k + limit /\ ~(Offset(l, pin) = k /\ pin.y = 0)
ShiftedPin(l, k, limit, pin) == IF Moves(l, k, limit, pin) THEN Raised(l, pin) ELSE pin

(* A pin is at least as far down as it is within its page.                 *)
LEMMA OffsetLeast ==
    ASSUME NEW l, PagesOK(l.pages), NEW pin \in PinType, Valid(l, pin)
    PROVE  pin.y <= Offset(l, pin)
  <1>1. l.pages \in Seq(PageType) /\ pin.y \in Nat
    BY DEF PagesOK, PinType
  <1>2. PICK A : Laid(A, AllRows(l), l.pages)
    BY <1>1, LaidExists, Zenon
  <1>3. PICK i : On(l.pages, pin, i)
    BY <1>1, ValidIs, Zenon
  <1>4. OffsetAt(l, pin, A, i)
    BY <1>1, <1>2, <1>3, OffsetsAt, Zenon
  <1>5. A[i] \in Nat
    BY <1>1, <1>2, <1>3, StepsAt DEF On, Laid
  <1> QED BY <1>1, <1>4, <1>5 DEF OffsetAt

ShiftIs(l, k, limit, pin, q) ==
    /\ q \in PinType /\ Valid(l, q)
    /\ \/ /\ Moves(l, k, limit, pin)
          /\ \E o \in Nat : Offset(l, pin) = o + 1 /\ Offset(l, q) = o
       \/ /\ ~Moves(l, k, limit, pin) /\ q = pin

(* Where shift_tracked_pins_region_up leaves a pin.                        *)
LEMMA ShiftedPinIs ==
    ASSUME NEW l, PagesOK(l.pages), NEW k \in Nat, NEW limit \in Nat, NEW pin \in PinType, Valid(l, pin)
    PROVE  ShiftIs(l, k, limit, pin, ShiftedPin(l, k, limit, pin))
  <1>1. PICK a \in Nat : a = Offset(l, pin) /\ pin.y <= a /\ pin.y \in Nat
    BY ValidOffset, OffsetLeast DEF PinType
  <1>2. CASE Moves(l, k, limit, pin)
    <2>1. a \in k .. k + limit /\ ~(a = k /\ pin.y = 0)
      BY <1>1, <1>2, Zenon DEF Moves
    <2>2. a > 0
      BY <1>1, <2>1
    <2>3. PICK o : RaisedIs(l, pin, Raised(l, pin), o)
      BY <1>1, <2>2, RaisedUp, Zenon
    <2>4. ShiftedPin(l, k, limit, pin) = Raised(l, pin)
      BY <1>2, Zenon DEF ShiftedPin
    <2> QED BY <1>2, <2>3, <2>4, Zenon DEF RaisedIs, ShiftIs
  <1>3. CASE ~Moves(l, k, limit, pin)
    BY <1>3, Zenon DEF ShiftedPin, ShiftIs
  <1> QED BY <1>2, <1>3

Region(l, k, limit) == Rotated(Blanked(AllRows(l), k, l.born), k, k + limit)
MovedCache(l, k, limit) ==
    IF l.viewport = "pin" /\ l.cache # None /\ Moves(l, k, limit, l.pins["viewport"]) THEN l.cache - 1 ELSE l.cache
ShiftedPins(l, k, limit) == [p \in Pins |-> ShiftedPin(l, k, limit, l.pins[p])]

Bounded(l, k, limit) ==
    [l EXCEPT !.pages = WithRows(l, Region(l, k, limit)).pages, !.born = l.born + 1,
              !.pins = ShiftedPins(l, k, limit), !.cache = MovedCache(l, k, limit)]

(* What erase_row_bounded does to the list.                                *)
LEMMA EraseRowBoundedIs ==
    ASSUME NEW l \in ListType, NEW k \in Nat, NEW limit \in Nat
    PROVE  EraseRowBounded(l, k, limit) = Bounded(l, k, limit)
  <1>0. PICK q, n, ps, c : /\ q = WithRows(l, Region(l, k, limit)).pages /\ n = l.born + 1
                           /\ ps = ShiftedPins(l, k, limit) /\ c = MovedCache(l, k, limit)
    OBVIOUS
  <1>1. WithRows(l, Region(l, k, limit)) = [l EXCEPT !.pages = q]
    BY <1>0 DEF WithRows, ListType
  <1>2. PICK t : t = [l EXCEPT !.pages = q]
    OBVIOUS
  <1>3. t.born = l.born /\ t.pins = l.pins /\ t.cache = l.cache
    BY <1>2 DEF ListType
  <1>4. EraseRowBounded(l, k, limit) =
           [t EXCEPT !.born = t.born + 1,
                  !.pins = [p \in Pins |-> IF Moves(l, k, limit, l.pins[p]) THEN Raised(l, t.pins[p]) ELSE t.pins[p]],
                  !.cache = IF l.viewport = "pin" /\ t.cache # None /\ Moves(l, k, limit, l.pins["viewport"])
                            THEN t.cache - 1 ELSE t.cache]
    BY <1>1, <1>2, Zenon DEF EraseRowBounded, Region, Blanked, Fresh, Moves
  <1>5. EraseRowBounded(l, k, limit) = [t EXCEPT !.born = n, !.pins = ps, !.cache = c]
    BY <1>0, <1>3, <1>4, Zenon DEF ShiftedPins, ShiftedPin, MovedCache
  <1>6. [t EXCEPT !.born = n, !.pins = ps, !.cache = c] = [l EXCEPT !.pages = q, !.born = n, !.pins = ps, !.cache = c]
    BY <1>2 DEF ListType
  <1> QED BY <1>0, <1>5, <1>6, Zenon DEF Bounded

(* erase_row_bounded keeps the list good, its pins on their rows and its size. *)
LEMMA EraseRowBoundedGood ==
    ASSUME NEW l, Good(l), NEW k \in Nat, NEW limit \in Nat, k + limit < Len(AllRows(l)),
           NEW m, m = EraseRowBounded(l, k, limit)
    PROVE  Good(m) /\ Kept(l, m) /\ m.total = l.total /\ Stays(l, m)
  <1> DEFINE R == AllRows(l)
             b == l.born
             j == k + limit
             S == Region(l, k, limit)
             g == RotatedFrom(R, k, j)
  <1>1. /\ Loose(l) /\ l \in ListType /\ PagesOK(l.pages) /\ R \in Seq(Nat) /\ Len(R) \in Nat
        /\ b \in Nat /\ b + 1 \in Nat /\ l.total \in Nat
        /\ \A p \in Pins : l.pins[p] \in PinType /\ Valid(l, l.pins[p])
    BY GoodLoose, SoundSizes, ListParts DEF Good, Sound
  <1>2. Rearranged(R, S, g, j + 1, b, b + 1)
    <2>1. k < Len(R) /\ j < Len(R) /\ j \in Nat
      BY <1>1
    <2> QED BY <1>1, <2>1, BlankedRows, Zenon DEF Region
  <1>3. PICK q, n, ps, c : /\ q = WithRows(l, S).pages /\ n = b + 1 /\ ps = ShiftedPins(l, k, limit)
                           /\ c = MovedCache(l, k, limit)
    OBVIOUS
  <1>4. m = [l EXCEPT !.pages = q, !.born = n, !.pins = ps, !.cache = c]
    <2>1. EraseRowBounded(l, k, limit) = Bounded(l, k, limit)
      BY <1>1, EraseRowBoundedIs, Zenon
    <2> QED BY <1>3, <2>1, Zenon DEF Bounded
  <1>5. /\ m.pages = q /\ m.born = n /\ m.pins = ps /\ m.cache = c
        /\ m.nextId = l.nextId /\ m.total = l.total /\ m.viewport = l.viewport
    BY <1>1, <1>4 DEF ListType
  <1>6. ASSUME NEW p \in Pins PROVE ShiftIs(l, k, limit, l.pins[p], m.pins[p])
    <2>1. m.pins[p] = ShiftedPin(l, k, limit, l.pins[p])
      BY <1>3, <1>5 DEF ShiftedPins
    <2> QED BY <1>1, <2>1, ShiftedPinIs, Zenon
  <1> HIDE DEF S, R, b, g, j
  <1>7. \A p \in Pins : m.pins[p] \in PinType /\ Valid(l, m.pins[p])
    BY <1>6, Zenon DEF ShiftIs
  <1>8. ASSUME l.viewport = "pin"
        PROVE  \E a \in Nat, o \in Nat :
                 /\ a = Offset(l, l.pins["viewport"]) /\ o = Offset(l, m.pins["viewport"])
                 /\ a <= l.total - Rows /\ o <= a
                 /\ c \in {None, o} /\ c \in Nat \cup {None}
    <2>1. PICK a \in Nat : a = Offset(l, l.pins["viewport"]) /\ a <= l.total - Rows /\ l.cache \in {None, a}
      BY <1>8, ViewportPin, ActiveTopIs
    <2>2. ShiftIs(l, k, limit, l.pins["viewport"], m.pins["viewport"])
      BY <1>6 DEF Pins
    <2>3. CASE Moves(l, k, limit, l.pins["viewport"])
      <3>1. PICK o \in Nat : a = o + 1 /\ o = Offset(l, m.pins["viewport"])
        BY <2>1, <2>2, <2>3, Zenon DEF ShiftIs
      <3>2. c = IF l.cache # None THEN l.cache - 1 ELSE l.cache
        BY <1>3, <1>8, <2>3, Zenon DEF MovedCache
      <3>3. c \in {None, o} /\ o <= a
        BY <2>1, <3>1, <3>2
      <3> QED BY <2>1, <3>1, <3>3
    <2>4. CASE ~Moves(l, k, limit, l.pins["viewport"])
      <3>1. m.pins["viewport"] = l.pins["viewport"]
        BY <2>2, <2>4, Zenon DEF ShiftIs
      <3>2. c = l.cache
        BY <1>3, <2>4, Zenon DEF MovedCache
      <3> QED BY <2>1, <3>1, <3>2
    <2> QED BY <2>3, <2>4
  <1>9. m \in ListType
    <2>1. S \in Seq(Nat) /\ Len(S) = Len(R)
      BY <1>2, Zenon DEF Rearranged
    <2>2. q \in Seq(PageType)
      BY <1>1, <1>3, <2>1, PageCells, Zenon DEF R
    <2>3. ps \in PinsType
      BY <1>3, <1>5, <1>7 DEF PinsType, ShiftedPins
    <2>4. c \in CacheType
      <3>1. CASE l.viewport = "pin"
        BY <1>8, <3>1 DEF CacheType
      <3>2. CASE l.viewport # "pin"
        BY <1>1, <1>3, <3>2, ListParts DEF MovedCache
      <3> QED BY <3>1, <3>2
    <2>5. PICK x \in Seq(PageType), y1 \in Nat, w \in PinsType, v \in ViewportType, d \in CacheType :
            x = q /\ y1 = n /\ w = ps /\ v = l.viewport /\ d = c
      BY <1>1, <1>3, <2>2, <2>3, <2>4, ListParts, Zenon DEF b
    <2>6. m = [l EXCEPT !.pages = x, !.born = y1, !.pins = w, !.viewport = v, !.cache = d]
      BY <1>1, <1>4, <2>5 DEF ListType
    <2>7. [l EXCEPT !.pages = x, !.born = y1, !.pins = w, !.viewport = v, !.cache = d] \in ListType
      BY <1>1, TypedErased
    <2> QED BY <2>6, <2>7, Zenon
  <1>10. Rewrites(l, m, S, b + 1)
    BY <1>3, <1>5, <1>7, <1>9, Zenon DEF Rewrites
  <1>11. Rewritten(l, m, S)
    BY <1>1, <1>2, <1>10, RewriteLoose, Zenon DEF R, b
  <1>12. /\ \A p \in Pins : Offset(m, m.pins[p]) = Offset(l, m.pins[p])
         /\ Loose(m) /\ Stays(l, m)
    BY <1>11, Zenon DEF Rewritten
  <1>13. Good(m)
    <2>1. "viewport" \in Pins
      BY DEF Pins
    <2>2. CacheExact(m)
      BY <1>5, <1>8, <1>12, <2>1, Zenon DEF CacheExact
    <2>3. High(m, m.total - Rows)
      <3> SUFFICES ASSUME m.viewport = "pin" PROVE Offset(m, m.pins["viewport"]) <= m.total - Rows
        BY Zenon DEF High
      <3>1. PICK a \in Nat, o \in Nat : o = Offset(m, m.pins["viewport"]) /\ a <= l.total - Rows /\ o <= a
        BY <1>5, <1>8, <1>12, <2>1, Zenon
      <3>2. o <= l.total - Rows
        BY <1>1, <3>1, SizeAssumption
      <3> QED BY <1>5, <3>1, <3>2, Zenon
    <2> QED BY <1>12, <2>2, <2>3, Zenon DEF Good, Sound, Loose
  <1>14. Traced(l, m, g, j + 1)
    <2> SUFFICES ASSUME NEW p \in Pins, NEW i \in 1 .. Len(R), i # j + 1, g[i] = Offset(l, l.pins[p]) + 1
                 PROVE  Offset(m, m.pins[p]) + 1 = i
      BY Zenon DEF Traced, R
    <2>1. PICK a \in Nat, o \in Nat : a = Offset(l, l.pins[p]) /\ o = Offset(m, m.pins[p])
      <3>1. Sound(l) /\ Sound(m)
        BY <1>13 DEF Good
      <3> QED BY <3>1, Tracked, Zenon
    <2>2. From(k, j, i) = a + 1
      BY <2>1, Zenon DEF g, RotatedFrom
    <2>3. (a \in k .. j /\ ~(a = k /\ l.pins[p].y = 0) /\ a = o + 1) \/ (~(a \in k .. j /\ ~(a = k /\ l.pins[p].y = 0)) /\ o = a)
      <3>1. ShiftIs(l, k, limit, l.pins[p], m.pins[p])
        BY <1>6
      <3> QED BY <1>12, <2>1, <3>1, Zenon DEF ShiftIs, Moves, j
    <2>4. a # k
      BY <2>2 DEF From
    <2>5. (k < a /\ a <= j /\ a = o + 1) \/ (~(k < a /\ a <= j) /\ o = a)
      BY <2>3, <2>4 DEF j
    <2>6. o + 1 = i
      BY <2>2, <2>5 DEF From, j
    <2> QED BY <2>1, <2>6, Zenon
  <1>15. Kept(l, m)
    BY <1>1, <1>2, <1>11, <1>14, TracedKept, Zenon DEF R, b
  <1> QED BY <1>5, <1>12, <1>13, <1>15, Zenon

(* A row is brought up from the end, no pin moves.                         *)
LEMMA RotatedGood ==
    ASSUME NEW l, Good(l), NEW k \in Nat, k < Len(AllRows(l)), NEW j \in Nat, j < Len(AllRows(l)),
           NEW m, m = WithRows(l, Rotated(AllRows(l), k, j))
    PROVE  /\ Good(m) /\ m.total = l.total /\ Stays(l, m)
           /\ AllRows(m) = Rotated(AllRows(l), k, j) /\ m.pins = l.pins
  <1> DEFINE R == AllRows(l)
             S == Rotated(R, k, j)
  <1>1. /\ Loose(l) /\ l \in ListType /\ PagesOK(l.pages) /\ R \in Seq(Nat) /\ Len(R) \in Nat /\ l.born \in Nat
        /\ l.total \in Nat /\ \A p \in Pins : l.pins[p] \in PinType /\ Valid(l, l.pins[p])
    BY GoodLoose, SoundSizes, ListParts DEF Good, Sound
  <1>2. PICK g : Rearranged(R, S, g, 0, l.born, l.born)
    BY <1>1, RotatedRows, Zenon
  <1> HIDE DEF S, R
  <1>3. PICK q : q = WithRows(l, S).pages
    OBVIOUS
  <1>4. m = [l EXCEPT !.pages = q]
    BY <1>1, <1>3 DEF WithRows, ListType, R, S
  <1>5. /\ m.pages = q /\ m.born = l.born /\ m.pins = l.pins /\ m.cache = l.cache
        /\ m.nextId = l.nextId /\ m.total = l.total /\ m.viewport = l.viewport
    BY <1>1, <1>4 DEF ListType
  <1>6. m \in ListType
    <2>1. S \in Seq(Nat) /\ Len(S) = Len(R)
      BY <1>2, Zenon DEF Rearranged
    <2>2. q \in Seq(PageType)
      BY <1>1, <1>3, <2>1, PageCells, Zenon DEF R
    <2> QED BY <1>1, <1>4, <2>2 DEF ListType
  <1>7. Rewrites(l, m, S, l.born)
    BY <1>1, <1>3, <1>5, <1>6, Zenon DEF Rewrites
  <1>8. Rewritten(l, m, S)
    BY <1>1, <1>2, <1>7, RewriteLoose, Zenon DEF R
  <1>9. /\ \A p \in Pins : Offset(m, m.pins[p]) = Offset(l, m.pins[p])
        /\ Loose(m) /\ Stays(l, m) /\ AllRows(m) = S
    BY <1>8, Zenon DEF Rewritten
  <1>10. Good(m)
    <2>1. "viewport" \in Pins /\ CacheExact(l) /\ High(l, l.total - Rows)
      BY DEF Pins, Good, Sound
    <2>2. CacheExact(m) /\ High(m, m.total - Rows)
      BY <1>5, <1>9, <2>1, Zenon DEF CacheExact, High
    <2> QED BY <1>9, <2>2, Zenon DEF Good, Sound, Loose
  <1> QED BY <1>5, <1>9, <1>10 DEF S, R

-----------------------------------------------------------------------------
(* EraseHistory.                                                           *)
TrimAt(pp, f, w) == [SubSeq(pp, f, Len(pp)) EXCEPT ![1].rows = SubSeq(@, w + 1, Len(@))]

TrimOK(pp, qq, f, w) ==
    /\ PagesOK(qq) /\ Len(qq) = Len(pp) - f + 1
    /\ \A i \in 1 .. Len(pp) - f + 1 : f + i - 1 \in 1 .. Len(pp) /\ qq[i].id = pp[f + i - 1].id
    /\ qq[1].rows = SubSeq(pp[f].rows, w + 1, Len(pp[f].rows))
    /\ \A i \in 1 .. Len(pp) - f + 1 : i # 1 => qq[i].rows = pp[f + i - 1].rows

(* What is left of the pages when the history goes.                        *)
LEMMA TrimmedPages ==
    ASSUME NEW pp, PagesOK(pp), NEW f \in 1 .. Len(pp), NEW w \in Nat, w < Len(pp[f].rows),
           NEW qq, qq = TrimAt(pp, f, w)
    PROVE  TrimOK(pp, qq, f, w)
  <1>1. pp \in Seq(PageType) /\ Len(pp) \in Nat /\ f \in Nat
    BY DEF PagesOK
  <1>2. PICK n \in Nat : n = Len(pp) - f + 1 /\ n >= 1
    BY <1>1
  <1>3. PICK s : s = SubSeq(pp, f, Len(pp))
    OBVIOUS
  <1>4. s \in Seq(PageType) /\ Len(s) = n /\ \A i \in 1 .. n : f + i - 1 \in 1 .. Len(pp) /\ s[i] = pp[f + i - 1]
    BY <1>1, <1>2, <1>3
  <1>5. s[1] = pp[f] /\ pp[f] \in PageType /\ 1 \in 1 .. Len(s) /\ 1 \in 1 .. n
    <2>1. 1 \in 1 .. n /\ f + 1 - 1 = f
      BY <1>1, <1>2
    <2> QED BY <1>1, <1>4, <2>1, PageAt
  <1>6. PICK rows : rows = SubSeq(pp[f].rows, w + 1, Len(pp[f].rows))
    OBVIOUS
  <1>7. pp[f].rows \in Seq(Nat) /\ Len(pp[f].rows) \in 1 .. RowCap /\ pp[f].id \in Nat
    BY <1>5 DEF PagesOK, PageType
  <1>8. rows \in Seq(Nat) /\ Len(rows) = Len(pp[f].rows) - w
    <2>1. w <= Len(pp[f].rows)
      BY <1>7
    <2> QED BY <1>6, <1>7, <2>1, SubSeqAt
  <1>9. Len(rows) \in 1 .. RowCap
    BY <1>7, <1>8, SizeAssumption
  <1>10. PICK page : page = [pp[f] EXCEPT !.rows = rows]
    OBVIOUS
  <1>11. page \in PageType /\ page.id = pp[f].id /\ page.rows = rows
    BY <1>5, <1>8, <1>10 DEF PageType
  <1>12. qq = [s EXCEPT ![1] = page]
    BY <1>3, <1>5, <1>6, <1>10 DEF TrimAt
  <1>13. SetIs(PageType, s, 1, page, [s EXCEPT ![1] = page])
    BY <1>4, <1>5, <1>11, SetAt
  <1>14. qq \in Seq(PageType) /\ Len(qq) = n /\ qq[1] = page /\ \A i \in 1 .. n : i # 1 => qq[i] = s[i]
    BY <1>4, <1>12, <1>13, Zenon DEF SetIs
  <1>15. ASSUME NEW i \in 1 .. n
         PROVE  /\ f + i - 1 \in 1 .. Len(pp) /\ qq[i].id = pp[f + i - 1].id
                /\ Len(qq[i].rows) \in 1 .. RowCap
                /\ (i # 1 => qq[i].rows = pp[f + i - 1].rows)
    <2>1. f + i - 1 \in 1 .. Len(pp) /\ s[i] = pp[f + i - 1]
      BY <1>4
    <2>2. CASE i = 1
      <3>1. qq[i] = page /\ s[i] = pp[f]
        BY <1>5, <1>14, <2>2, Zenon
      <3> QED BY <1>9, <1>11, <2>1, <2>2, <3>1, Zenon
    <2>3. CASE i # 1
      <3>1. qq[i] = s[i]
        BY <1>14, <2>3
      <3> QED BY <2>1, <3>1, Zenon DEF PagesOK
    <2> QED BY <2>2, <2>3
  <1>16. ASSUME NEW i \in 1 .. n, NEW j \in 1 .. n, qq[i].id = qq[j].id PROVE i = j
    <2>1. PICK x \in 1 .. Len(pp), z \in 1 .. Len(pp) :
             /\ x = f + i - 1 /\ z = f + j - 1 /\ qq[i].id = pp[x].id /\ qq[j].id = pp[z].id
      BY <1>15, Zenon
    <2>2. x = z
      BY <1>16, <2>1, Zenon DEF PagesOK
    <2>3. f + i - 1 = f + j - 1
      BY <2>1, <2>2, Zenon
    <2> QED BY <1>1, <2>3
  <1>17. PagesOK(qq)
    BY <1>2, <1>14, <1>15, <1>16, Zenon DEF PagesOK
  <1> QED BY <1>2, <1>6, <1>11, <1>14, <1>15, <1>17, Zenon DEF TrimOK

SuffixIs(r, h, w) == Len(w) = Len(r) - h /\ \A k \in 1 .. Len(r) - h : w[k] = r[h + k]

(* What is left of a sequence without its first h elements, as one fact.   *)
LEMMA Suffix ==
    ASSUME NEW r \in Seq(Nat), NEW h \in Nat, h <= Len(r)
    PROVE  SuffixIs(r, h, SubSeq(r, h + 1, Len(r)))
  BY SMTT(30) DEF SuffixIs

(* The rows that are left are those of the active area.                    *)
LEMMA TrimmedRows ==
    ASSUME NEW l, PagesOK(l.pages), NEW A, Laid(A, AllRows(l), l.pages), NEW f \in 1 .. Len(l.pages),
           NEW h \in Nat, NEW w \in Nat, A[f] <= h, h < A[f + 1], w = h - A[f],
           NEW m, TrimOK(l.pages, m.pages, f, w)
    PROVE  AllRows(m) = SubSeq(AllRows(l), h + 1, Len(AllRows(l)))
  <1> DEFINE pp == l.pages
             qq == m.pages
  <1>1. pp \in Seq(PageType) /\ Len(pp) \in Nat /\ Steps(A, pp)
    BY DEF PagesOK, Laid
  <1>2. PICK n \in Nat : n = Len(pp)
    BY <1>1
  <1>3. /\ qq \in Seq(PageType) /\ Len(qq) = n - f + 1
        /\ \A i \in 1 .. n - f + 1 : f + i - 1 \in 1 .. n
        /\ qq[1].rows = SubSeq(pp[f].rows, w + 1, Len(pp[f].rows))
        /\ \A i \in 1 .. n - f + 1 : i # 1 => qq[i].rows = pp[f + i - 1].rows
    BY <1>2, Zenon DEF TrimOK, PagesOK
  <1>4. PICK a \in Nat, c \in Nat : a = A[f] /\ c = Len(pp[f].rows) /\ A[f + 1] = a + c /\ pp[f].rows \in Seq(Nat)
    BY <1>1, StepsAt, PageAt, SMTT(30)
  <1>5. w = h - a /\ w < c /\ a <= h
    <2>1. a <= h /\ h < a + c /\ w = h - a
      BY <1>4, Zenon
    <2> QED BY <2>1
  <1>6. Lost(A, f, h, 1) = w /\ \A i \in 1 .. n - f + 1 : i # 1 => Lost(A, f, h, i) = 0
    BY DEF Lost
  <1>7. f + 1 - 1 = f /\ 1 \in 1 .. n - f + 1 /\ f \in 1 .. n
    BY <1>1, <1>2
  <1> HIDE DEF pp, qq
  <1>8. ASSUME NEW i \in 1 .. n - f + 1
        PROVE  /\ Len(qq[i].rows) = Len(pp[f + i - 1].rows) - Lost(A, f, h, i)
               /\ \A j \in 1 .. Len(qq[i].rows) : qq[i].rows[j] = pp[f + i - 1].rows[Lost(A, f, h, i) + j]
    <2>1. CASE i = 1
      <3>1. PICK x \in Seq(Nat) : x = pp[f].rows
        BY <1>4 DEF pp
      <3>2. PICK z : z = qq[1].rows /\ z = SubSeq(x, w + 1, Len(x))
        BY <1>3, <3>1, Zenon
      <3>3. w <= Len(x)
        <4>1. Len(x) = c
          BY <1>4, <3>1, Zenon DEF pp
        <4> QED BY <1>5, <4>1
      <3>4. Len(z) = Len(x) - w /\ \A j \in 1 .. Len(x) - w : z[j] = x[w + j]
        <4>1. SuffixIs(x, w, z)
          BY <3>2, <3>3, Suffix, Zenon
        <4> QED BY <4>1, Zenon DEF SuffixIs
      <3>5. pp[f + i - 1].rows = x /\ qq[i].rows = z /\ Lost(A, f, h, i) = w
        BY <1>6, <1>7, <2>1, <3>1, <3>2, Zenon
      <3> QED BY <3>4, <3>5, Zenon
    <2>2. CASE i # 1
      <3>1. qq[i].rows = pp[f + i - 1].rows /\ Lost(A, f, h, i) = 0 /\ f + i - 1 \in 1 .. n
        BY <1>3, <1>6, <2>2, Zenon
      <3>2. Len(pp[f + i - 1].rows) \in Nat
        BY <1>1, <1>2, <3>1, PageAt DEF pp
      <3>3. Len(pp[f + i - 1].rows) - 0 = Len(pp[f + i - 1].rows) /\ \A j \in 1 .. Len(pp[f + i - 1].rows) : 0 + j = j
        BY <3>2
      <3> QED BY <3>1, <3>3, Zenon
    <2> QED BY <2>1, <2>2
  <1>9. Trimmed(A, pp, qq, f, n, h)
    BY <1>2, <1>3, <1>7, <1>8, Zenon DEF Trimmed, pp
  <1>10. \E B : Laid(B, SubSeq(AllRows(l), h + 1, Len(AllRows(l))), qq)
    BY <1>1, <1>3, <1>9, TrimmedLaid, Zenon DEF pp
  <1> QED BY <1>3, <1>10, AllRowsIs, Zenon DEF qq

(* What EraseHistory makes of the list, h rows shorter, before the viewport *)
(* is put right.                                                           *)
Cut(l, pages, h, sm) == [l EXCEPT !.pages = pages, !.total = @ - h, !.serialMin = sm]
CutPin(l, t, h, pin) == [PinAt(t, IF Offset(l, pin) >= h THEN Offset(l, pin) - h ELSE 0) EXCEPT !.garbage = pin.garbage]
CutPins(l, t, h) == [t EXCEPT !.pins = [p \in Pins |-> CutPin(l, t, h, l.pins[p])]]

CutFrom(l, h, f, w) ==
    LET pages == [SubSeq(l.pages, f, Len(l.pages)) EXCEPT ![1].rows = SubSeq(@, w + 1, Len(@))]
        t == [l EXCEPT !.pages = pages, !.total = @ - h,
                       !.serialMin = IF f > 1 THEN pages[1].serial ELSE @]
    IN  CutPins(l, t, h)

Historic(l, f, w, pages, h, sm) ==
    /\ f \in 1 .. Len(l.pages) /\ w \in Nat /\ w < Len(l.pages[f].rows)
    /\ pages = TrimAt(l.pages, f, w)
    /\ sm \in Nat
    /\ EraseHistory(l) = FixupViewport(CutPins(l, Cut(l, pages, h, sm), h), h)
    /\ \E A : Laid(A, AllRows(l), l.pages) /\ A[f] <= h /\ h < A[f + 1] /\ w = h - A[f]

(* What erase_rows over the history does to the list.                      *)
LEMMA EraseHistoryIs ==
    ASSUME NEW l, Good(l), NEW h \in Nat, h = ActiveTop(l)
    PROVE  \E f, w, pages, sm : Historic(l, f, w, pages, h, sm)
  <1>1. /\ PagesOK(l.pages) /\ l \in ListType /\ l.pages \in Seq(PageType) /\ h < Len(AllRows(l))
        /\ l.serialMin \in Nat
    BY ListParts, ActiveTopIs DEF Good, Sound, PagesOK
  <1>2. PICK A : Laid(A, AllRows(l), l.pages)
    BY <1>1, LaidExists, Zenon
  <1>3. Steps(A, l.pages) /\ h < A[Len(l.pages) + 1]
    BY <1>1, <1>2 DEF Laid
  <1>4. PICK f \in 1 .. Len(l.pages) : A[f] <= h /\ h < A[f + 1]
    BY <1>1, <1>3, RowFound, Zenon
  <1>5. PinAt(l, h).page = l.pages[f].id
    BY <1>1, <1>2, <1>4, PinAtIs, Zenon
  <1>6. Index(l, PinAt(l, h).page) = f
    BY <1>1, <1>5, IndexIs, Zenon
  <1>7. f \in 1 .. Len(l.pages) + 1 /\ A[f] \in Nat /\ A[f + 1] = A[f] + Len(l.pages[f].rows) /\ Len(l.pages[f].rows) \in Nat
    BY <1>1, <1>3, StepsAt
  <1>8. Above(l, f) = A[f]
    BY <1>1, <1>2, <1>7, AboveIs
  <1>9. PICK w \in Nat : w = h - A[f] /\ w < Len(l.pages[f].rows)
    <2>1. PICK a \in Nat, c \in Nat : a = A[f] /\ c = Len(l.pages[f].rows)
      BY <1>7
    <2>2. a <= h /\ h < a + c
      BY <1>4, <1>7, <2>1, Zenon
    <2>3. h - a \in Nat /\ h - a < c
      BY <2>2
    <2> QED BY <2>1, <2>3, Zenon
  <1>10. PICK pages : pages = TrimAt(l.pages, f, w)
    OBVIOUS
  <1>11. TrimOK(l.pages, pages, f, w)
    BY <1>1, <1>9, <1>10, TrimmedPages, Zenon
  <1>12. pages[1].serial \in Nat
    <2>1. pages \in Seq(PageType) /\ 1 \in 1 .. Len(pages)
      BY <1>11 DEF TrimOK, PagesOK
    <2> QED BY <2>1, PageAt DEF PageType
  <1>13. PICK sm \in Nat : sm = IF f > 1 THEN pages[1].serial ELSE l.serialMin
    BY <1>1, <1>12
  <1>14. EraseHistory(l) = FixupViewport(CutPins(l, Cut(l, pages, h, sm), h), h)
    <2>1. EraseHistory(l) = FixupViewport(CutFrom(l, ActiveTop(l), Index(l, PinAt(l, ActiveTop(l)).page),
                                  ActiveTop(l) - Above(l, Index(l, PinAt(l, ActiveTop(l)).page))), ActiveTop(l))
      BY Zenon DEF EraseHistory, CutFrom, CutPins, CutPin
    <2>2. EraseHistory(l) = FixupViewport(CutFrom(l, h, f, w), h)
      BY <1>6, <1>8, <1>9, <2>1, Zenon
    <2>3. CutFrom(l, h, f, w) = CutPins(l, [l EXCEPT !.pages = pages, !.total = l.total - h, !.serialMin = sm], h)
      <3>1. CutFrom(l, h, f, w) = CutPins(l, [l EXCEPT !.pages = TrimAt(l.pages, f, w), !.total = l.total - h,
                      !.serialMin = IF f > 1 THEN TrimAt(l.pages, f, w)[1].serial ELSE l.serialMin], h)
        BY Zenon DEF CutFrom, TrimAt
      <3> QED BY <1>10, <1>13, <3>1, Zenon
    <2>4. Cut(l, pages, h, sm) = [l EXCEPT !.pages = pages, !.total = l.total - h, !.serialMin = sm]
      BY Zenon DEF Cut
    <2> QED BY <2>2, <2>3, <2>4, Zenon
  <1>15. Historic(l, f, w, pages, h, sm)
    BY <1>2, <1>4, <1>9, <1>10, <1>14, Zenon DEF Historic
  <1> QED BY <1>15

(* The list without its history, the pins where they were.                 *)
CutOK(l, t, h) ==
    /\ t \in ListType /\ PagesOK(t.pages)
    /\ \A i \in 1 .. Len(t.pages) : t.pages[i].id < t.nextId
    /\ AllRows(t) = SubSeq(AllRows(l), h + 1, Len(AllRows(l)))
    /\ t.total = l.total - h /\ t.born = l.born
    /\ t.pins = l.pins /\ t.viewport = l.viewport /\ t.cache = l.cache

(* The pages without the history are well-formed and hold the active area. *)
LEMMA CutIs ==
    ASSUME NEW l, Good(l), NEW h \in Nat, h = ActiveTop(l), NEW f, NEW w, NEW pages, NEW sm, Historic(l, f, w, pages, h, sm),
           NEW t, t = Cut(l, pages, h, sm)
    PROVE  CutOK(l, t, h)
  <1>1. /\ f \in 1 .. Len(l.pages) /\ w \in Nat /\ w < Len(l.pages[f].rows)
        /\ pages = TrimAt(l.pages, f, w) /\ sm \in Nat
    BY Zenon DEF Historic
  <1>2. PICK A : Laid(A, AllRows(l), l.pages) /\ A[f] <= h /\ h < A[f + 1] /\ w = h - A[f]
    BY Zenon DEF Historic
  <1>3. /\ PagesOK(l.pages) /\ l \in ListType /\ \A i \in 1 .. Len(l.pages) : l.pages[i].id < l.nextId
        /\ l.total \in Nat /\ h <= l.total /\ h \in Nat
    BY SoundSizes, ActiveTopIs DEF Good, Sound
  <1>4. TrimOK(l.pages, pages, f, w)
    BY <1>1, <1>3, TrimmedPages, Zenon
  <1>5. PICK q \in Seq(PageType), n \in Nat, s \in Nat, ps \in PinsType : q = pages /\ n = l.total - h /\ s = sm /\ ps = l.pins
    <2>1. pages \in Seq(PageType)
      BY <1>4 DEF TrimOK, PagesOK
    <2>2. l.total - h \in Nat
      BY <1>3
    <2> QED BY <1>1, <1>3, <2>1, <2>2, ListParts, Zenon
  <1>6. t = [l EXCEPT !.pages = q, !.total = n, !.serialMin = s, !.pins = ps]
    BY <1>3, <1>5 DEF Cut, ListType
  <1>7. t \in ListType
    <2>1. [l EXCEPT !.pages = q, !.total = n, !.serialMin = s, !.pins = ps] \in ListType
      BY <1>3, TypedHistory
    <2> QED BY <1>6, <2>1, Zenon
  <1>8. /\ t.pages = pages /\ t.total = l.total - h /\ t.born = l.born /\ t.nextId = l.nextId
        /\ t.pins = l.pins /\ t.viewport = l.viewport /\ t.cache = l.cache
    BY <1>3, <1>5, <1>6 DEF ListType
  <1>9. TrimOK(l.pages, t.pages, f, w)
    BY <1>4, <1>8, Zenon
  <1>10. AllRows(t) = SubSeq(AllRows(l), h + 1, Len(AllRows(l)))
    BY <1>1, <1>2, <1>3, <1>9, TrimmedRows, SMTT(30)
  <1>11. /\ PagesOK(t.pages) /\ Len(t.pages) = Len(l.pages) - f + 1
         /\ \A i \in 1 .. Len(l.pages) - f + 1 : f + i - 1 \in 1 .. Len(l.pages) /\ t.pages[i].id = l.pages[f + i - 1].id
    BY <1>9, Zenon DEF TrimOK
  <1>12. \A i \in 1 .. Len(t.pages) : t.pages[i].id < t.nextId
    BY <1>3, <1>8, <1>11, Zenon
  <1> QED BY <1>7, <1>8, <1>10, <1>11, <1>12, Zenon DEF CutOK

\* The offset j that the cut of h rows gives to the offset k.
CutTo(k, h, j) == (k >= h => j = k - h) /\ (k < h => j = 0)

CutReady(l, t, h, k, pin, j) ==
    /\ PagesOK(t.pages) /\ h \in Nat /\ k \in Nat /\ j \in Nat /\ pin \in PinType
    /\ k = Offset(l, pin) /\ j < Len(AllRows(t)) /\ CutTo(k, h, j)

SetTo(t, pin, j) == pin \in PinType /\ Valid(t, pin) /\ Offset(t, pin) = j

(* Where a pin is put: on its row, or on the first one left.               *)
LEMMA CutPinIs ==
    ASSUME NEW l, NEW t, NEW h, NEW k, NEW pin, NEW j, CutReady(l, t, h, k, pin, j)
    PROVE  SetTo(t, CutPin(l, t, h, pin), j)
  <1> DEFINE q == CutPin(l, t, h, pin)
  <1>0. /\ PagesOK(t.pages) /\ h \in Nat /\ k \in Nat /\ j \in Nat /\ pin \in PinType
        /\ k = Offset(l, pin) /\ j < Len(AllRows(t)) /\ CutTo(k, h, j)
    BY Zenon DEF CutReady
  <1>1. j = IF k >= h THEN k - h ELSE 0
    BY <1>0 DEF CutTo
  <1>2. PinAt(t, j) \in PinType /\ Valid(t, PinAt(t, j)) /\ Offset(t, PinAt(t, j)) = j
    BY <1>0, PinAtGood, Zenon
  <1>3. PICK w \in PinType, g \in BOOLEAN : w = PinAt(t, j) /\ g = pin.garbage
    BY <1>0, <1>2 DEF PinType
  <1>4. q = [w EXCEPT !.garbage = g]
    BY <1>0, <1>1, <1>3, Zenon DEF CutPin
  <1> HIDE DEF q
  <1>5. q \in PinType /\ Valid(t, q) /\ Offset(t, q) = j
    BY <1>2, <1>3, <1>4, GarbageFree
  <1> QED BY <1>5, Zenon DEF q, SetTo

(* Erasing the history keeps the list good and on their rows the pins that were below it. *)
LEMMA EraseHistoryGood ==
    ASSUME NEW l, Good(l), NEW m, m = EraseHistory(l)
    PROVE  Good(m) /\ Kept(l, m)
  <1>1. PICK h \in Nat : h = ActiveTop(l)
    BY ActiveTopIs
  <1>2. PICK f, w, pages, sm : Historic(l, f, w, pages, h, sm)
    BY <1>1, EraseHistoryIs, Zenon
  <1>3. PICK t : t = Cut(l, pages, h, sm)
    OBVIOUS
  <1>4. CutOK(l, t, h)
    BY <1>1, <1>2, <1>3, CutIs, Zenon
  <1> DEFINE R == AllRows(l)
             S == AllRows(t)
  <1>5. /\ t \in ListType /\ PagesOK(t.pages)
        /\ \A i \in 1 .. Len(t.pages) : t.pages[i].id < t.nextId
        /\ S = SubSeq(R, h + 1, Len(R))
        /\ t.total = l.total - h /\ t.born = l.born
        /\ t.pins = l.pins /\ t.viewport = l.viewport /\ t.cache = l.cache
    BY <1>4, Zenon DEF CutOK
  <1>6. /\ Sound(l) /\ R \in Seq(Nat) /\ Len(R) \in Nat /\ h + Rows = Len(R) /\ l.total = Len(R) /\ h <= Len(R)
        /\ OnceEach(R, l.born) /\ l.born \in Nat
    BY <1>1, SoundSizes, ActiveTopIs DEF Good, Sound
  <1>7. /\ S \in Seq(Nat) /\ Len(S) = Len(R) - h /\ OnceEach(S, l.born)
        /\ \A k \in Nat : h <= k /\ k < Len(R) => S[(k - h) + 1] = R[k + 1]
        /\ \A r \in ToSet(S) : r \in ToSet(R)
        /\ \A k \in Nat : k < h => R[k + 1] \notin ToSet(S)
    <2>1. OnceTailIs(R, l.born, h, S)
      BY <1>5, <1>6, OnceTail
    <2> QED BY <2>1, Zenon DEF OnceTailIs
  <1>8. Len(S) = Rows /\ t.total = Rows
    <2>1. PICK a \in Nat, b \in Nat : a = Len(R) /\ b = l.total
      BY <1>6, Zenon
    <2>2. Rows \in Nat /\ h + Rows = a /\ b = a
      BY <1>6, <2>1, SizeAssumption
    <2>3. Len(S) = a - h /\ t.total = b - h
      BY <1>5, <1>7, <2>1, Zenon
    <2> QED BY <2>2, <2>3
  <1>9. PICK u : u = CutPins(l, t, h)
    OBVIOUS
  <1>10. /\ u.pages = t.pages /\ u.total = t.total /\ u.born = l.born /\ u.nextId = t.nextId
         /\ u.viewport = l.viewport /\ u.cache = l.cache
         /\ u.pins = [p \in Pins |-> CutPin(l, t, h, l.pins[p])]
    BY <1>5, <1>9 DEF CutPins, ListType
  <1> HIDE DEF R, S
  <1>11. ASSUME NEW p \in Pins
         PROVE  \E k \in Nat, j \in Nat :
                  /\ k = Offset(l, l.pins[p]) /\ k < Len(R) /\ RowOf(l, p) = R[k + 1]
                  /\ CutTo(k, h, j) /\ j < Len(S)
                  /\ u.pins[p] \in PinType /\ Valid(t, u.pins[p]) /\ Offset(t, u.pins[p]) = j
    <2>1. PICK k \in Nat : k = Offset(l, l.pins[p]) /\ k < Len(R) /\ RowOf(l, p) = R[k + 1] /\ l.pins[p] \in PinType
      BY <1>6, Tracked, Zenon DEF R
    <2>2. PICK j \in Nat : (k >= h => j = k - h) /\ (k < h => j = 0) /\ j < Len(S)
      <3>1. CASE k >= h
        <4>1. PICK a \in Nat : a = Len(R)
          BY <1>6, Zenon
        <4>2. PICK c : c = Len(S)
          OBVIOUS
        <4>3. k < a /\ c = a - h /\ h <= k
          BY <1>7, <2>1, <3>1, <4>1, <4>2
        <4>4. k - h \in Nat /\ k - h < c
          BY <4>3
        <4>5. k - h < Len(S)
          BY <4>4, <4>2, Zenon
        <4> QED BY <3>1, <4>4, <4>5
      <3>2. CASE k < h
        <4>1. 0 < Len(S)
          BY <1>8, SizeAssumption
        <4> QED BY <3>2, <4>1
      <3> QED BY <3>1, <3>2
    <2>3. u.pins[p] = CutPin(l, t, h, l.pins[p])
      BY <1>10
    <2>10. CutTo(k, h, j)
      BY <2>2 DEF CutTo
    <2>4. u.pins[p] \in PinType /\ Valid(t, u.pins[p]) /\ Offset(t, u.pins[p]) = j
      <3>1. j < Len(AllRows(t)) /\ PagesOK(t.pages)
        BY <1>5, <2>2, Zenon DEF S
      <3>2. CutReady(l, t, h, k, l.pins[p], j)
        BY <1>1, <2>1, <2>2, <2>10, <3>1, Zenon DEF CutReady
      <3>3. SetTo(t, CutPin(l, t, h, l.pins[p]), j)
        BY <3>2, CutPinIs, Zenon
      <3> QED BY <2>3, <3>3, Zenon DEF SetTo
    <2> QED BY <2>1, <2>2, <2>4, <2>10, Zenon
  <1>12. /\ AllRows(u) = S
         /\ \A pin : (Valid(u, pin) <=> Valid(t, pin)) /\ Offset(u, pin) = Offset(t, pin)
    BY <1>10, SamePages, Zenon DEF S
  <1>13. u \in ListType
    <2>1. u.pins \in PinsType
      BY <1>10, <1>11 DEF PinsType
    <2>2. PICK ps \in PinsType, v \in ViewportType, c \in CacheType : ps = u.pins /\ v = t.viewport /\ c = t.cache
      BY <1>5, <2>1, ListParts, Zenon
    <2>3. u = [t EXCEPT !.pins = ps]
      BY <1>9, <1>10, <2>2, Zenon DEF CutPins
    <2>4. u = [t EXCEPT !.pins = ps, !.viewport = v, !.cache = c]
      BY <1>5, <2>2, <2>3 DEF ListType
    <2>5. [t EXCEPT !.pins = ps, !.viewport = v, !.cache = c] \in ListType
      BY <1>5, TypedPins
    <2> QED BY <2>4, <2>5, Zenon
  <1>14. Loose(u)
    <2>1. u.total = Len(S) /\ u.total >= Rows
      BY <1>8, <1>10, SizeAssumption
    <2> QED BY <1>5, <1>7, <1>10, <1>11, <1>12, <1>13, <2>1, Zenon DEF Loose
  <1>15. CacheAfter(u, h)
    <2> SUFFICES ASSUME u.viewport = "pin" PROVE u.cache = None \/ u.cache < h \/ u.cache = Offset(u, u.pins["viewport"]) + h
      BY Zenon DEF CacheAfter
    <2>1. l.viewport = "pin" /\ "viewport" \in Pins
      BY <1>10, Zenon DEF Pins
    <2>2. PICK k \in Nat, j \in Nat :
            /\ k = Offset(l, l.pins["viewport"]) /\ CutTo(k, h, j) /\ Offset(u, u.pins["viewport"]) = j
      BY <1>11, <1>12, <2>1, Zenon
    <2>3. u.cache \in {None, k}
      BY <1>10, <2>1, <2>2, ViewportPin, Zenon
    <2>4. k < h \/ k = j + h
      <3>1. CutTo(k, h, j)
        BY <2>2, Zenon
      <3> QED BY <2>2, <1>1, <3>1 DEF CutTo
    <2> QED BY <2>2, <2>3, <2>4, Zenon
  <1>16. m = FixupViewport(u, h)
    BY <1>2, <1>3, <1>9, Zenon DEF Historic
  <1>17. FixupOK(u, m)
    BY <1>14, <1>15, <1>16, FixupGood, Zenon
  <1>18. Good(m) /\ m.pages = u.pages /\ m.total = u.total /\ m.born = u.born /\ m.pins = u.pins
    BY <1>17, Zenon DEF FixupOK
  <1>19. AllRows(m) = S /\ \A p \in Pins : RowOf(m, p) = RowOf(u, p)
    BY <1>12, <1>18, SamePages, Zenon DEF RowOf
  <1>20. ASSUME NEW p \in Pins, RowOf(l, p) \in ToSet(S) PROVE RowOf(m, p) = RowOf(l, p)
    <2>1. PICK k \in Nat, j \in Nat :
            /\ k < Len(R) /\ RowOf(l, p) = R[k + 1]
            /\ CutTo(k, h, j) /\ Offset(u, u.pins[p]) = j
      BY <1>11, <1>12, Zenon
    <2>2. ~(k < h)
      BY <1>7, <1>20, <2>1, Zenon
    <2>3. h <= k /\ j = k - h
      BY <2>1, <2>2, <1>1 DEF CutTo
    <2>4. RowOf(u, p) = S[(k - h) + 1]
      BY <1>12, <2>1, <2>3, Zenon DEF RowOf
    <2> QED BY <1>7, <1>19, <2>1, <2>3, <2>4, Zenon
  <1>21. Kept(l, m)
    <2>1. l.born <= m.born
      BY <1>6, <1>10, <1>18
    <2> QED BY <1>7, <1>19, <1>20, <2>1, Zenon DEF Kept, R
  <1> QED BY <1>18, <1>21

(* The rows are in other pages, each pin is on the row it was on.          *)
Reseated(l, m) ==
    /\ m \in ListType /\ PagesOK(m.pages)
    /\ \A i \in 1 .. Len(m.pages) : m.pages[i].id < m.nextId
    /\ AllRows(m) = AllRows(l)
    /\ m.total = l.total /\ m.born = l.born /\ m.viewport = l.viewport /\ m.cache = l.cache
    /\ \A p \in Pins : \A r : Holds(l.pages, l.pins[p], r) => Holds(m.pages, m.pins[p], r)

Unmoved(l, m) ==
    /\ Good(m) /\ Kept(l, m) /\ m.total = l.total
    /\ \A p \in Pins : Offset(m, m.pins[p]) = Offset(l, l.pins[p])

(* The list itself.                                                        *)
LEMMA UnmovedSame ==
    ASSUME NEW l, Good(l)
    PROVE  Unmoved(l, l)
  BY KeptSame DEF Good, Unmoved

(* When each pin holds the row that it held nothing else has changed.      *)
LEMMA ReseatedGood ==
    ASSUME NEW l, Good(l), NEW m, Reseated(l, m)
    PROVE  Unmoved(l, m)
  <1>1. /\ Sound(l) /\ l.total >= Rows /\ High(l, l.total - Rows) /\ CacheExact(l)
        /\ l.total = Len(AllRows(l)) /\ OnceEach(AllRows(l), l.born) /\ l.born \in Nat
        /\ AllRows(l) \in Seq(Nat)
    BY SoundSizes DEF Good, Sound
  <1>2. /\ m \in ListType /\ PagesOK(m.pages)
        /\ \A i \in 1 .. Len(m.pages) : m.pages[i].id < m.nextId
        /\ AllRows(m) = AllRows(l)
        /\ m.total = l.total /\ m.born = l.born /\ m.viewport = l.viewport /\ m.cache = l.cache
        /\ \A p \in Pins : \A r : Holds(l.pages, l.pins[p], r) => Holds(m.pages, m.pins[p], r)
    BY Zenon DEF Reseated
  <1>3. \A p \in Pins : m.pins[p] \in PinType
    BY <1>2, ListParts, Zenon
  <1>4. ASSUME NEW p \in Pins
        PROVE  /\ Valid(m, m.pins[p]) /\ Offset(m, m.pins[p]) = Offset(l, l.pins[p])
               /\ RowOf(m, p) = RowOf(l, p)
    <2>1. PICK k \in Nat : k = Offset(l, l.pins[p]) /\ k < Len(AllRows(l)) /\ RowOf(l, p) = AllRows(l)[k + 1]
                           /\ Holds(l.pages, l.pins[p], RowOf(l, p))
      BY <1>1, Tracked, Zenon
    <2>2. Holds(m.pages, m.pins[p], RowOf(l, p)) /\ k < Len(AllRows(m)) /\ AllRows(m)[k + 1] = RowOf(l, p)
      BY <1>2, <2>1, Zenon
    <2>3. OnceEach(AllRows(m), l.born)
      BY <1>1, <1>2, Zenon
    <2>4. Valid(m, m.pins[p]) /\ Offset(m, m.pins[p]) = k
      BY <1>2, <1>3, <2>1, <2>2, <2>3, HoldsOffset, Zenon
    <2> QED BY <1>2, <2>1, <2>4, Zenon DEF RowOf
  <1>5. CacheExact(m) /\ High(m, m.total - Rows)
    <2>1. "viewport" \in Pins
      BY DEF Pins
    <2> QED BY <1>1, <1>2, <1>4, <2>1, Zenon DEF CacheExact, High
  <1>6. Sound(m) /\ m.total >= Rows
    BY <1>1, <1>2, <1>4, <1>5, Zenon DEF Sound
  <1>7. Kept(l, m)
    <2>1. l.born <= m.born
      BY <1>1, <1>2
    <2> QED BY <1>2, <1>4, <2>1, Zenon DEF Kept
  <1> QED BY <1>2, <1>4, <1>5, <1>6, <1>7, Zenon DEF Unmoved, Good

-----------------------------------------------------------------------------
(* increase_capacity.                                                      *)
ClonedTo(l, i, id, new) ==
    [l EXCEPT !.pages[i] = new, !.nextId = @ + 1, !.serial = @ + 1,
              !.pins = [p \in Pins |-> IF @[p].page = id THEN [@[p] EXCEPT !.page = new.id] ELSE @[p]]]
Renamed(pin, from, to) == IF pin.page = from THEN [pin EXCEPT !.page = to] ELSE pin
Larger(l, i, larger) ==
    [l.pages[i] EXCEPT !.id = l.nextId, !.serial = l.serial,
                       !.size = IF larger THEN 2 * l.pages[i].size ELSE l.pages[i].size]
Enlarged(l, i, larger) ==
    [l EXCEPT !.pages = [l.pages EXCEPT ![i] = Larger(l, i, larger)],
              !.serial = l.serial + 1, !.nextId = l.nextId + 1,
              !.pins = [p \in Pins |-> Renamed(l.pins[p], l.pages[i].id, l.nextId)]]

(* What increase_capacity does to the list.                                *)
LEMMA IncreaseCapacityIs ==
    ASSUME NEW l \in ListType, PagesOK(l.pages), NEW i \in 1 .. Len(l.pages), NEW larger \in BOOLEAN
    PROVE  IncreaseCapacity(l, l.pages[i].id, larger) = Enlarged(l, i, larger)
  <1>1. Index(l, l.pages[i].id) = i
    BY IndexIs, Zenon
  <1>2. l.pages[i] \in PageType
    BY PageAt DEF PagesOK
  <1>3. Larger(l, i, larger).id = l.nextId
    BY <1>2 DEF Larger, PageType
  <1>4. PICK id : id = l.pages[i].id
    OBVIOUS
  <1>5. [l.pages[i] EXCEPT !.id = l.nextId, !.serial = l.serial, !.size = IF larger THEN 2 * @ ELSE @] = Larger(l, i, larger)
    BY <1>2 DEF Larger, PageType
  <1>6. IncreaseCapacity(l, id, larger) = ClonedTo(l, i, id, Larger(l, i, larger))
    <2>1. IncreaseCapacity(l, id, larger) = ClonedTo(l, Index(l, id), id,
              [l.pages[Index(l, id)] EXCEPT !.id = l.nextId, !.serial = l.serial, !.size = IF larger THEN 2 * @ ELSE @])
      BY Zenon DEF IncreaseCapacity, ClonedTo
    <2> QED BY <1>1, <1>4, <1>5, <2>1, Zenon
  <1>7. IncreaseCapacity(l, id, larger) =
            [l EXCEPT !.pages[i] = Larger(l, i, larger), !.nextId = @ + 1, !.serial = @ + 1,
                      !.pins = [p \in Pins |-> Renamed(l.pins[p], id, l.nextId)]]
    BY <1>3, <1>6, Zenon DEF Renamed, ClonedTo
  <1>8. PICK x : x = Larger(l, i, larger)
    OBVIOUS
  <1>9. PICK ps : ps = [p \in Pins |-> Renamed(l.pins[p], id, l.nextId)]
    OBVIOUS
  <1>10. IncreaseCapacity(l, id, larger) = [l EXCEPT !.pages[i] = x, !.nextId = @ + 1, !.serial = @ + 1, !.pins = ps]
    BY <1>7, <1>8, <1>9, Zenon
  <1>11. [l EXCEPT !.pages[i] = x, !.nextId = @ + 1, !.serial = @ + 1, !.pins = ps]
            = [l EXCEPT !.pages = [l.pages EXCEPT ![i] = x], !.serial = l.serial + 1, !.nextId = l.nextId + 1, !.pins = ps]
    BY DEF ListType
  <1> QED BY <1>4, <1>8, <1>9, <1>10, <1>11, Zenon DEF Enlarged

PinRenamed(pin, from, to, q) ==
    /\ q \in PinType /\ q.y = pin.y
    /\ pin.page = from => q.page = to
    /\ pin.page # from => q = pin

(* A pin on the page follows it to its new id.                             *)
LEMMA RenamedIs ==
    ASSUME NEW pin \in PinType, NEW from \in Nat, NEW to \in Nat
    PROVE  PinRenamed(pin, from, to, Renamed(pin, from, to))
  BY DEF PinRenamed, Renamed, PinType

(* A page of another id and size is a page.                                *)
LEMMA TypedPage ==
    ASSUME NEW x \in PageType, NEW id \in Nat, NEW serial \in Nat, NEW size \in Nat
    PROVE  [x EXCEPT !.id = id, !.serial = serial, !.size = size] \in PageType
  BY DEF PageType

(* increase_capacity moves no row and no pin.                              *)
LEMMA IncreaseCapacityUnmoved ==
    ASSUME NEW l, Good(l), NEW pin \in PinType, Valid(l, pin), NEW larger \in BOOLEAN,
           NEW m, m = IncreaseCapacity(l, pin.page, larger)
    PROVE  Unmoved(l, m)
  <1> DEFINE pp == l.pages
  <1>1. /\ Sound(l) /\ l \in ListType /\ PagesOK(pp) /\ pp \in Seq(PageType) /\ Len(pp) \in Nat /\ Len(pp) >= 1
        /\ l.nextId \in Nat /\ l.serial \in Nat
        /\ \A i \in 1 .. Len(pp) : pp[i].id < l.nextId
        /\ \A i \in 1 .. Len(pp) : Len(pp[i].rows) \in 1 .. RowCap
    BY SoundSizes DEF Good, Sound, PagesOK
  <1>2. PICK i : On(pp, pin, i)
    BY <1>1, ValidIs, Zenon
  <1>3. i \in 1 .. Len(pp) /\ pp[i].id = pin.page
    BY <1>2, Zenon DEF On
  <1>4. m = Enlarged(l, i, larger)
    BY <1>1, <1>3, IncreaseCapacityIs, Zenon
  <1>5. PICK x \in PageType : x = Larger(l, i, larger) /\ x.id = l.nextId /\ x.rows = pp[i].rows
    <2>1. pp[i] \in PageType
      BY <1>1, <1>3, PageAt
    <2>2. l.nextId \in Nat /\ l.serial \in Nat
      BY <1>1, Zenon
    <2>3. Larger(l, i, larger) \in PageType
      <3>1. PICK c \in Nat : c = IF larger THEN 2 * pp[i].size ELSE pp[i].size
        <4>1. pp[i].size \in Nat
          BY <2>1 DEF PageType
        <4> QED BY <4>1
      <3>2. [pp[i] EXCEPT !.id = l.nextId, !.serial = l.serial, !.size = c] \in PageType
        BY <2>1, <2>2, TypedPage
      <3> QED BY <3>1, <3>2, Zenon DEF Larger
    <2>4. Larger(l, i, larger).id = l.nextId /\ Larger(l, i, larger).rows = pp[i].rows
      BY <2>1 DEF Larger, PageType
    <2> QED BY <2>3, <2>4
  <1>6. PICK qq : qq = [pp EXCEPT ![i] = x]
    OBVIOUS
  <1>7. /\ qq \in Seq(PageType) /\ Len(qq) = Len(pp) /\ qq[i] = x
        /\ \A k \in 1 .. Len(pp) : k # i => qq[k] = pp[k]
    <2>1. SetIs(PageType, pp, i, x, [pp EXCEPT ![i] = x])
      BY <1>1, <1>3, SetAt, Zenon
    <2> QED BY <1>6, <2>1, Zenon DEF SetIs
  <1>8. \A k \in 1 .. Len(pp) : qq[k].rows = pp[k].rows
    BY <1>5, <1>7, Zenon
  <1>9. \A p \in Pins : l.pins[p] \in PinType
    BY <1>1, ListParts, Zenon
  <1>10. pp[i].id \in Nat
    BY <1>1, <1>3, PageAt
  <1>11. PICK ps \in PinsType : ps = [p \in Pins |-> Renamed(l.pins[p], pp[i].id, l.nextId)]
    <2>1. \A p \in Pins : Renamed(l.pins[p], pp[i].id, l.nextId) \in PinType
      BY <1>1, <1>9, <1>10, RenamedIs, Zenon DEF PinRenamed
    <2> QED BY <2>1 DEF PinsType
  <1>12. PICK a \in Nat, b \in Nat : a = l.serial + 1 /\ b = l.nextId + 1
    <2>1. l.nextId \in Nat /\ l.serial \in Nat
      BY <1>1, Zenon
    <2> QED BY <2>1
  <1>13. m = [l EXCEPT !.pages = qq, !.serial = a, !.nextId = b, !.pins = ps]
    BY <1>4, <1>5, <1>6, <1>11, <1>12, Zenon DEF Enlarged
  <1>14. m \in ListType
    <2>1. [l EXCEPT !.pages = qq, !.serial = a, !.nextId = b, !.pins = ps] \in ListType
      BY <1>1, <1>7, TypedCloned
    <2> QED BY <1>13, <2>1, Zenon
  <1>15. /\ m.pages = qq /\ m.nextId = b /\ m.pins = ps /\ m.total = l.total /\ m.born = l.born
         /\ m.viewport = l.viewport /\ m.cache = l.cache
    BY <1>1, <1>13 DEF ListType
  <1> HIDE DEF pp
  <1>16. \A k \in 1 .. Len(pp) : k # i => qq[k].id = pp[k].id /\ qq[k].id # l.nextId
    <2> SUFFICES ASSUME NEW k \in 1 .. Len(pp), k # i PROVE qq[k].id = pp[k].id /\ pp[k].id # l.nextId
      BY Zenon
    <2>1. pp[k].id \in Nat /\ pp[k].id < l.nextId
      BY <1>1, PageAt
    <2> QED BY <1>1, <1>7, <2>1
  <1>17. PagesOK(qq)
    <2>1. \A k \in 1 .. Len(qq) : Len(qq[k].rows) \in 1 .. RowCap
      BY <1>1, <1>7, <1>8, Zenon
    <2>2. ASSUME NEW j \in 1 .. Len(qq), NEW k \in 1 .. Len(qq), qq[j].id = qq[k].id PROVE j = k
      <3>1. qq[i].id = l.nextId
        BY <1>5, <1>7, Zenon
      <3>2. CASE j = i
        BY <1>7, <1>16, <2>2, <3>1, <3>2, Zenon
      <3>3. CASE k = i
        BY <1>7, <1>16, <2>2, <3>1, <3>3, Zenon
      <3>4. CASE j # i /\ k # i
        <4>1. pp[j].id = pp[k].id
          BY <1>7, <1>16, <2>2, <3>4, Zenon
        <4> QED BY <1>1, <1>7, <4>1, Zenon DEF PagesOK
      <3> QED BY <3>2, <3>3, <3>4, Zenon
    <2>3. Len(qq) >= 1
      BY <1>1, <1>7
    <2> QED BY <1>7, <2>1, <2>2, <2>3, Zenon DEF PagesOK
  <1>18. \A k \in 1 .. Len(m.pages) : m.pages[k].id < m.nextId
    <2> SUFFICES ASSUME NEW k \in 1 .. Len(pp) PROVE qq[k].id < b
      BY <1>7, <1>15, Zenon
    <2>1. pp[k].id \in Nat /\ pp[k].id < l.nextId
      BY <1>1, PageAt
    <2>2. CASE k = i
      <3>1. qq[k].id = l.nextId
        BY <1>5, <1>7, <2>2, Zenon
      <3> QED BY <1>1, <1>12, <3>1
    <2>3. CASE k # i
      <3>1. qq[k].id = pp[k].id
        BY <1>16, <2>3, Zenon
      <3> QED BY <1>1, <1>12, <2>1, <3>1
    <2> QED BY <2>2, <2>3
  <1>19. AllRows(m) = AllRows(l)
    <2>1. PICK A : Laid(A, AllRows(l), pp)
      BY <1>1, LaidExists, Zenon DEF pp
    <2>2. Laid(A, AllRows(l), m.pages)
      BY <1>7, <1>8, <1>15, <2>1, SameLaid, Zenon
    <2>3. m.pages \in Seq(PageType)
      BY <1>7, <1>15, Zenon
    <2> QED BY <2>2, <2>3, AllRowsIs, Zenon
  <1>20. ASSUME NEW p \in Pins, NEW r, Holds(l.pages, l.pins[p], r) PROVE Holds(m.pages, m.pins[p], r)
    <2>1. PICK k : On(pp, l.pins[p], k) /\ pp[k].rows[l.pins[p].y + 1] = r
      BY <1>20, Zenon DEF Holds, pp
    <2>2. k \in 1 .. Len(pp) /\ pp[k].id = l.pins[p].page /\ l.pins[p].y < Len(pp[k].rows)
      BY <2>1, Zenon DEF On
    <2>3. m.pins[p] = Renamed(l.pins[p], pp[i].id, l.nextId)
      BY <1>11, <1>15, Zenon
    <2>4. /\ m.pins[p].y = l.pins[p].y
          /\ l.pins[p].page = pp[i].id => m.pins[p].page = l.nextId
          /\ l.pins[p].page # pp[i].id => m.pins[p] = l.pins[p]
      <3>1. PinRenamed(l.pins[p], pp[i].id, l.nextId, Renamed(l.pins[p], pp[i].id, l.nextId))
        BY <1>1, <1>9, <1>10, RenamedIs, Zenon
      <3> QED BY <2>3, <3>1, Zenon DEF PinRenamed
    <2>5. qq[k].id = m.pins[p].page
      <3>1. CASE k = i
        BY <1>5, <1>7, <2>2, <2>4, <3>1, Zenon
      <3>2. CASE k # i
        <4>1. pp[k].id # pp[i].id
          BY <1>1, <1>3, <2>2, <3>2, Zenon DEF PagesOK
        <4> QED BY <1>16, <2>2, <2>4, <3>2, <4>1, Zenon
      <3> QED BY <3>1, <3>2
    <2>6. qq[k].rows = pp[k].rows
      BY <1>8, <2>2, Zenon
    <2>7. On(qq, m.pins[p], k) /\ qq[k].rows[m.pins[p].y + 1] = r
      BY <1>7, <2>1, <2>2, <2>4, <2>5, <2>6, Zenon DEF On
    <2> QED BY <1>15, <2>7, Zenon DEF Holds
  <1>21. Reseated(l, m)
    BY <1>14, <1>15, <1>17, <1>18, <1>19, <1>20, Zenon DEF Reseated
  <1> QED BY <1>21, ReseatedGood, Zenon

(* split.                                                                  *)
SplitSeq(q, i, x, new, w) ==
    /\ w \in Seq(PageType) /\ Len(w) = Len(q) + 1
    /\ \A j \in 1 .. i - 1 : w[j] = q[j]
    /\ w[i] = x /\ w[i + 1] = new
    /\ \A j \in i + 1 .. Len(q) : w[j + 1] = q[j]

(* The two parts of a sequence that is cut, for any elements.              *)
LEMMA SeqParts ==
    ASSUME NEW S, NEW r \in Seq(S), NEW c \in Nat, c <= Len(r)
    PROVE  /\ SubSeq(r, 1, c) \in Seq(S) /\ Len(SubSeq(r, 1, c)) = c
           /\ SubSeq(r, c + 1, Len(r)) \in Seq(S) /\ Len(SubSeq(r, c + 1, Len(r))) = Len(r) - c
           /\ \A j \in 1 .. c : SubSeq(r, 1, c)[j] = r[j]
           /\ \A j \in 1 .. Len(r) - c : SubSeq(r, c + 1, Len(r))[j] = r[c + j]
  OBVIOUS

PagesConcatIs(q, r, w) ==
    /\ w \in Seq(PageType) /\ Len(w) = Len(q) + Len(r)
    /\ \A j \in 1 .. Len(q) : w[j] = q[j]
    /\ \A j \in 1 .. Len(r) : w[Len(q) + j] = r[j]

(* Pages after pages.                                                      *)
LEMMA PagesConcat ==
    ASSUME NEW q \in Seq(PageType), NEW r \in Seq(PageType)
    PROVE  PagesConcatIs(q, r, q \o r)
  BY DEF PagesConcatIs

(* A page replaced and another one put in after it.                        *)
LEMMA SplitSeqIs ==
    ASSUME NEW q \in Seq(PageType), NEW i \in 1 .. Len(q), NEW x \in PageType, NEW new \in PageType,
           NEW w, w = InsertAt([q EXCEPT ![i] = x], i + 1, new)
    PROVE  SplitSeq(q, i, x, new, w)
  <1>1. PICK z : z = [q EXCEPT ![i] = x]
    OBVIOUS
  <1>2. z \in Seq(PageType) /\ Len(z) = Len(q) /\ z[i] = x /\ \A j \in 1 .. Len(q) : j # i => z[j] = q[j]
    <2>1. SetIs(PageType, q, i, x, z)
      BY <1>1, SetAt, Zenon
    <2> QED BY <2>1, Zenon DEF SetIs
  <1>3. i \in Nat /\ i <= Len(z) /\ Len(z) \in Nat /\ i >= 1
    BY <1>2
  <1>4. PICK u, v : u = SubSeq(z, 1, i) /\ v = SubSeq(z, i + 1, Len(z))
    OBVIOUS
  <1>5. /\ u \in Seq(PageType) /\ Len(u) = i /\ \A j \in 1 .. i : u[j] = z[j]
        /\ v \in Seq(PageType) /\ Len(v) = Len(z) - i /\ \A j \in 1 .. Len(z) - i : v[j] = z[i + j]
    BY <1>2, <1>3, <1>4, SeqParts
  <1>6. w = (u \o <<new>>) \o v
    <2>1. (i + 1) - 1 = i
      BY <1>3
    <2>2. w = SubSeq(z, 1, (i + 1) - 1) \o <<new>> \o SubSeq(z, i + 1, Len(z))
      BY <1>1, Zenon DEF InsertAt
    <2> QED BY <1>4, <2>1, <2>2, Zenon
  <1>7. PICK b : b = u \o <<new>>
    OBVIOUS
  <1>8. b \in Seq(PageType) /\ Len(b) = i + 1 /\ b[i + 1] = new /\ \A j \in 1 .. i : b[j] = u[j]
    <2>1. <<new>> \in Seq(PageType) /\ Len(<<new>>) = 1 /\ <<new>>[1] = new /\ 1 \in 1 .. 1
      OBVIOUS
    <2>2. PICK o : o = <<new>>
      OBVIOUS
    <2>3. /\ b \in Seq(PageType) /\ Len(b) = Len(u) + Len(o)
          /\ \A j \in 1 .. Len(u) : b[j] = u[j]
          /\ \A j \in 1 .. Len(o) : b[Len(u) + j] = o[j]
      BY <1>5, <1>7, <2>1, <2>2, ConcatAt
    <2>4. Len(o) = 1 /\ o[1] = new
      BY <2>1, <2>2
    <2> QED BY <1>5, <2>3, <2>4
  <1>9. w \in Seq(PageType) /\ Len(w) = Len(b) + Len(v) /\ (\A j \in 1 .. Len(b) : w[j] = b[j])
        /\ \A j \in 1 .. Len(v) : w[Len(b) + j] = v[j]
    <2>1. w = b \o v
      BY <1>6, <1>7, Zenon
    <2>2. b \in Seq(PageType) /\ v \in Seq(PageType)
      BY <1>5, <1>8, Zenon
    <2>3. PagesConcatIs(b, v, w)
      BY <2>1, <2>2, PagesConcat, Zenon
    <2> QED BY <2>3, Zenon DEF PagesConcatIs
  <1>10. Len(w) = Len(q) + 1
    BY <1>2, <1>3, <1>5, <1>8, <1>9
  <1>11. ASSUME NEW j \in 1 .. i - 1 PROVE w[j] = q[j]
    <2>1. j \in 1 .. Len(b) /\ j \in 1 .. i /\ j \in 1 .. Len(q) /\ j # i
      BY <1>2, <1>3, <1>8
    <2> QED BY <1>2, <1>5, <1>8, <1>9, <2>1, ZenonT(40)
  <1>12. w[i] = x /\ w[i + 1] = new
    <2>1. i \in 1 .. Len(b) /\ i \in 1 .. i /\ i + 1 \in 1 .. Len(b)
      BY <1>3, <1>8
    <2> QED BY <1>2, <1>5, <1>8, <1>9, <2>1, Zenon
  <1>13. ASSUME NEW j \in i + 1 .. Len(q) PROVE w[j + 1] = q[j]
    <2>1. PICK k \in 1 .. Len(v) : k = j - i
      BY <1>2, <1>3, <1>5
    <2>2. w[Len(b) + k] = v[k] /\ v[k] = z[i + k]
      <3>1. k \in 1 .. Len(z) - i
        BY <1>5, <2>1
      <3> QED BY <1>5, <1>9, <3>1, Zenon
    <2>3. Len(b) + k = j + 1 /\ i + k = j /\ j \in 1 .. Len(q) /\ j # i
      BY <1>2, <1>3, <1>8, <2>1
    <2> QED BY <1>2, <2>2, <2>3, Zenon
  <1> QED BY <1>9, <1>10, <1>11, <1>12, <1>13, Zenon DEF SplitSeq

-----------------------------------------------------------------------------
Lower(l, i, c) == Page(l.nextId, l.serial, l.pages[i].size, SubSeq(l.pages[i].rows, c + 1, Len(l.pages[i].rows)))
Upper(l, i, c) == [l.pages[i] EXCEPT !.rows = SubSeq(l.pages[i].rows, 1, c)]
Resettled(l, i, c, pin) ==
    IF pin.page = l.pages[i].id /\ pin.y >= c THEN [pin EXCEPT !.page = l.nextId, !.y = pin.y - c] ELSE pin
Halved(l, i, c) ==
    [l EXCEPT !.pages = InsertAt([l.pages EXCEPT ![i] = Upper(l, i, c)], i + 1, Lower(l, i, c)),
              !.serial = l.serial + 1, !.nextId = l.nextId + 1,
              !.pins = [p \in Pins |-> Resettled(l, i, c, l.pins[p])]]

HalvedBy(l, i, x, new, ps) ==
    [l EXCEPT !.pages = InsertAt([l.pages EXCEPT ![i] = x], i + 1, new), !.nextId = @ + 1, !.serial = @ + 1, !.pins = ps]

HalvedAt(l, i, pin, new) ==
    HalvedBy(l, i, [l.pages[i] EXCEPT !.rows = SubSeq(l.pages[i].rows, 1, pin.y)], new,
             [p \in Pins |-> IF l.pins[p].page = pin.page /\ l.pins[p].y >= pin.y
                             THEN [l.pins[p] EXCEPT !.page = new.id, !.y = l.pins[p].y - pin.y] ELSE l.pins[p]])

SplitCases(l, i, pin, m) ==
    \/ m = l
    \/ pin.y > 0 /\ m = Halved(l, i, pin.y)

(* What split does to the list: nothing, or one page becomes two.          *)
LEMMA SplitIs ==
    ASSUME NEW l \in ListType, PagesOK(l.pages), NEW pin \in PinType, NEW i, On(l.pages, pin, i)
    PROVE  SplitCases(l, i, pin, Split(l, pin))
  <1>1. i \in 1 .. Len(l.pages) /\ l.pages[i].id = pin.page /\ pin.y < Len(l.pages[i].rows) /\ pin.y \in Nat
    BY DEF On, PinType
  <1>2. Index(l, pin.page) = i
    BY <1>1, IndexIs, Zenon
  <1>3. PICK new : new = Lower(l, i, pin.y)
    OBVIOUS
  <1>4. new.id = l.nextId
    BY <1>3 DEF Lower, Page
  <1>5. Split(l, pin) = IF pin.y = 0 \/ Len(l.pages[i].rows) <= 1 THEN l ELSE HalvedAt(l, i, pin, new)
    <2>1. Split(l, pin) = IF pin.y = 0 \/ Len(l.pages[Index(l, pin.page)].rows) <= 1 THEN l
                          ELSE HalvedAt(l, Index(l, pin.page), pin,
                                 Page(l.nextId, l.serial, l.pages[Index(l, pin.page)].size,
                                   SubSeq(l.pages[Index(l, pin.page)].rows, pin.y + 1, Len(l.pages[Index(l, pin.page)].rows))))
      BY Zenon DEF Split, HalvedAt, HalvedBy
    <2> QED BY <1>2, <1>3, <2>1, Zenon DEF Lower
  <1>6. HalvedAt(l, i, pin, new) = Halved(l, i, pin.y)
    <2>1. PICK x : x = Upper(l, i, pin.y)
      OBVIOUS
    <2>2. PICK ps : ps = [p \in Pins |-> Resettled(l, i, pin.y, l.pins[p])]
      OBVIOUS
    <2>3. PICK c : c = pin.y
      OBVIOUS
    <2>4. HalvedAt(l, i, pin, new) = HalvedBy(l, i, x, new, ps)
      <3>1. x = [l.pages[i] EXCEPT !.rows = SubSeq(l.pages[i].rows, 1, pin.y)]
        BY <2>1, Zenon DEF Upper
      <3>2. ps = [p \in Pins |-> IF l.pins[p].page = pin.page /\ l.pins[p].y >= pin.y
                                 THEN [l.pins[p] EXCEPT !.page = new.id, !.y = l.pins[p].y - pin.y] ELSE l.pins[p]]
        BY <1>1, <1>4, <2>2, Zenon DEF Resettled
      <3> QED BY <3>1, <3>2, Zenon DEF HalvedAt
    <2>5. HalvedBy(l, i, x, new, ps)
            = [l EXCEPT !.pages = InsertAt([l.pages EXCEPT ![i] = x], i + 1, new),
                        !.serial = l.serial + 1, !.nextId = l.nextId + 1, !.pins = ps]
      BY DEF ListType, HalvedBy
    <2> QED BY <1>3, <2>1, <2>2, <2>4, <2>5, Zenon DEF Halved
  <1>7. pin.y # 0 => pin.y > 0
    BY <1>1
  <1> QED BY <1>5, <1>6, <1>7, Zenon DEF SplitCases

PinResettled(l, i, c, pin, q) ==
    /\ q \in PinType
    /\ pin.page = l.pages[i].id /\ pin.y >= c =>
          q.page = l.nextId /\ \E j \in Nat : pin.y = c + j /\ q.y = j
    /\ ~(pin.page = l.pages[i].id /\ pin.y >= c) => q = pin

(* A pin with another page and row is a pin.                               *)
LEMMA PinPut ==
    ASSUME NEW pin \in PinType, NEW id \in Nat, NEW j \in Nat
    PROVE  PinIs([pin EXCEPT !.page = id, !.y = j], id, j)
  BY DEF PinType, PinIs

(* A pin below the cut follows its row to the new page.                    *)
LEMMA ResettledIs ==
    ASSUME NEW l, l.nextId \in Nat, NEW i, NEW c \in Nat, NEW pin \in PinType
    PROVE  PinResettled(l, i, c, pin, Resettled(l, i, c, pin))
  <1>1. CASE pin.page = l.pages[i].id /\ pin.y >= c
    <2>1. PICK j \in Nat : j = pin.y - c /\ pin.y = c + j
      BY <1>1 DEF PinType
    <2>2. PICK q : q = [pin EXCEPT !.page = l.nextId, !.y = j]
      OBVIOUS
    <2>5. PinIs([pin EXCEPT !.page = l.nextId, !.y = j], l.nextId, j)
      BY <2>1, PinPut
    <2>3. q \in PinType /\ q.page = l.nextId /\ q.y = j
      BY <2>2, <2>5, Zenon DEF PinIs
    <2>4. Resettled(l, i, c, pin) = q
      BY <1>1, <2>1, <2>2, Zenon DEF Resettled
    <2> QED BY <1>1, <2>1, <2>3, <2>4, Zenon DEF PinResettled
  <1>2. CASE ~(pin.page = l.pages[i].id /\ pin.y >= c)
    <2>1. Resettled(l, i, c, pin) = pin
      BY <1>2, Zenon DEF Resettled
    <2> QED BY <1>2, <2>1, Zenon DEF PinResettled
  <1> QED BY <1>1, <1>2

\* Where the page k of a list split at its page i is.
Shifted(k, i, j) == (k <= i /\ j = k) \/ (k > i /\ j = k + 1)

\* What the pages of the list split at the row c of page i are.
HalvesOK(l, i, c, qq) ==
    /\ PagesOK(qq) /\ Len(qq) = Len(l.pages) + 1
    /\ Parted(l.pages, qq, i, c, Len(l.pages))
    /\ \A k \in 1 .. Len(l.pages) : \A j \in Nat : Shifted(k, i, j) => j \in 1 .. Len(qq) /\ qq[j].id = l.pages[k].id
    /\ qq[i + 1].id = l.nextId
    /\ \A j \in 1 .. Len(qq) : j = i + 1 \/ \E k \in 1 .. Len(l.pages) : Shifted(k, i, j)

(* The pages after a split are well-formed: the ids differ and none is empty. *)
LEMMA HalvesAre ==
    ASSUME NEW l, Good(l), NEW i \in 1 .. Len(l.pages), NEW c \in Nat, c > 0, c < Len(l.pages[i].rows),
           NEW qq, qq = InsertAt([l.pages EXCEPT ![i] = Upper(l, i, c)], i + 1, Lower(l, i, c))
    PROVE  HalvesOK(l, i, c, qq)
  <1> DEFINE pp == l.pages
             n == Len(pp)
  <1>1. /\ l \in ListType /\ PagesOK(pp) /\ pp \in Seq(PageType) /\ n \in Nat /\ n >= 1
        /\ l.nextId \in Nat /\ l.serial \in Nat
        /\ \A k \in 1 .. n : pp[k].id < l.nextId
        /\ \A k \in 1 .. n : Len(pp[k].rows) \in 1 .. RowCap
    BY SoundSizes, SMTT(30) DEF Good, Sound, PagesOK
  <1>2. pp[i] \in PageType /\ pp[i].rows \in Seq(Nat) /\ pp[i].size \in Nat /\ Len(pp[i].rows) \in Nat
    BY <1>1, PageAt
  <1>3. PICK u, v : u = SubSeq(pp[i].rows, 1, c) /\ v = SubSeq(pp[i].rows, c + 1, Len(pp[i].rows))
    OBVIOUS
  <1>4. c <= Len(pp[i].rows)
    BY <1>2
  <1>5. u \in Seq(Nat) /\ Len(u) = c /\ v \in Seq(Nat) /\ Len(v) = Len(pp[i].rows) - c
    BY <1>2, <1>3, <1>4, PartsAt
  <1>6. PICK x \in PageType : x = Upper(l, i, c) /\ x.id = pp[i].id /\ x.rows = u
    <2>1. [pp[i] EXCEPT !.rows = u] \in PageType /\ [pp[i] EXCEPT !.rows = u].id = pp[i].id
          /\ [pp[i] EXCEPT !.rows = u].rows = u
      BY <1>2, <1>5 DEF PageType
    <2> QED BY <1>3, <2>1, Zenon DEF Upper
  <1>7. PICK new \in PageType : new = Lower(l, i, c) /\ new.id = l.nextId /\ new.rows = v
    <2>1. Lower(l, i, c) = [id |-> l.nextId, serial |-> l.serial, size |-> pp[i].size, rows |-> v]
      BY <1>3, Zenon DEF Lower, Page
    <2>2. l.nextId \in Nat /\ l.serial \in Nat
      BY <1>1, Zenon
    <2>3. [id |-> l.nextId, serial |-> l.serial, size |-> pp[i].size, rows |-> v] \in PageType
      BY <1>2, <1>5, <2>2 DEF PageType
    <2>4. Lower(l, i, c).id = l.nextId /\ Lower(l, i, c).rows = v
      BY <2>1
    <2> QED BY <2>1, <2>3, <2>4, Zenon
  <1>8. SplitSeq(pp, i, x, new, qq)
    BY <1>1, <1>6, <1>7, SplitSeqIs, Zenon
  <1>9. /\ qq \in Seq(PageType) /\ Len(qq) = n + 1
        /\ \A j \in 1 .. i - 1 : qq[j] = pp[j]
        /\ qq[i] = x /\ qq[i + 1] = new
        /\ \A j \in i + 1 .. n : qq[j + 1] = pp[j]
    BY <1>8, Zenon DEF SplitSeq
  <1>10. Parted(pp, qq, i, c, n)
    BY <1>3, <1>4, <1>6, <1>7, <1>9, Zenon DEF Parted
  <1> HIDE DEF pp, n
  <1>11. i \in 1 .. n /\ i \in Nat
    BY <1>1 DEF n, pp
  <1>12. ASSUME NEW k \in 1 .. n, NEW j \in Nat, Shifted(k, i, j)
         PROVE  j \in 1 .. Len(qq) /\ qq[j].id = pp[k].id /\ (k # i => qq[j].rows = pp[k].rows)
    <2>1. CASE k < i
      <3>1. j = k /\ k \in 1 .. i - 1 /\ j \in 1 .. n + 1
        BY <1>1, <1>11, <1>12, <2>1 DEF Shifted
      <3> QED BY <1>9, <3>1, Zenon
    <2>2. CASE k = i
      <3>1. j = i /\ j \in 1 .. n + 1
        BY <1>1, <1>11, <1>12, <2>2 DEF Shifted
      <3> QED BY <1>6, <1>9, <2>2, <3>1, Zenon
    <2>3. CASE k > i
      <3>1. j = k + 1 /\ k \in i + 1 .. n /\ j \in 1 .. n + 1
        BY <1>1, <1>11, <1>12, <2>3 DEF Shifted
      <3> QED BY <1>9, <3>1, Zenon
    <2> QED BY <1>11, <2>1, <2>2, <2>3
  <1>13. ASSUME NEW j \in 1 .. n + 1, j # i + 1 PROVE \E k \in 1 .. n : Shifted(k, i, j)
    <2>1. CASE j <= i
      <3>1. j \in 1 .. n /\ Shifted(j, i, j)
        BY <1>1, <1>11, <2>1 DEF Shifted
      <3> QED BY <3>1
    <2>2. CASE j > i
      <3>1. PICK k \in 1 .. n : j = k + 1 /\ k > i
        BY <1>1, <1>11, <1>13, <2>2
      <3>2. Shifted(k, i, j)
        BY <3>1 DEF Shifted
      <3> QED BY <3>2
    <2> QED BY <1>11, <2>1, <2>2
  <1>14. ASSUME NEW j \in 1 .. Len(qq) PROVE Len(qq[j].rows) \in 1 .. RowCap
    <2>1. Len(pp[i].rows) \in 1 .. RowCap /\ RowCap \in Nat
      BY <1>1, <1>11, SizeAssumption
    <2>2. CASE j = i + 1
      <3>1. Len(qq[j].rows) = Len(pp[i].rows) - c
        BY <1>5, <1>7, <1>9, <2>2, Zenon
      <3>2. c < Len(pp[i].rows)
        BY DEF pp
      <3> QED BY <2>1, <3>1, <3>2
    <2>3. CASE j # i + 1
      <3>1. PICK k \in 1 .. n : Shifted(k, i, j)
        BY <1>9, <1>13, <2>3, Zenon
      <3>2. j \in Nat
        BY <1>1, <1>9
      <3>3. CASE k = i
        <4>1. j = i
          BY <1>11, <3>1, <3>3 DEF Shifted
        <4>2. Len(qq[j].rows) = c
          BY <1>5, <1>6, <1>9, <4>1, Zenon
        <4>3. c < Len(pp[i].rows)
          BY DEF pp
        <4> QED BY <2>1, <4>2, <4>3
      <3>4. CASE k # i
        BY <1>1, <1>12, <3>1, <3>2, <3>4, Zenon
      <3> QED BY <3>3, <3>4
    <2> QED BY <2>2, <2>3
  <1>15. \A k \in 1 .. n : pp[k].id # l.nextId
    <2> SUFFICES ASSUME NEW k \in 1 .. n PROVE pp[k].id # l.nextId
      OBVIOUS
    <2>1. pp[k].id \in Nat
      BY <1>1, PageAt DEF n
    <2>2. pp[k].id < l.nextId /\ l.nextId \in Nat
      BY <1>1, Zenon
    <2> QED BY <2>1, <2>2
  <1>16. qq[i + 1].id = l.nextId
    BY <1>7, <1>9, Zenon
  <1>17. ASSUME NEW j \in 1 .. Len(qq), NEW h \in 1 .. Len(qq), qq[j].id = qq[h].id PROVE j = h
    <2>1. j \in 1 .. n + 1 /\ h \in 1 .. n + 1 /\ j \in Nat /\ h \in Nat
      BY <1>1, <1>9
    <2>2. \A o \in 1 .. n + 1 : o \in Nat /\ o # i + 1 => \E k \in 1 .. n : Shifted(k, i, o) /\ qq[o].id = pp[k].id
      BY <1>12, <1>13, Zenon
    <2>3. CASE j = i + 1
      BY <1>15, <1>16, <1>17, <2>1, <2>2, <2>3, Zenon
    <2>4. CASE h = i + 1
      BY <1>15, <1>16, <1>17, <2>1, <2>2, <2>4, Zenon
    <2>5. CASE j # i + 1 /\ h # i + 1
      <3>1. PICK k \in 1 .. n : Shifted(k, i, j) /\ qq[j].id = pp[k].id
        BY <2>1, <2>2, <2>5, Zenon
      <3>2. PICK o \in 1 .. n : Shifted(o, i, h) /\ qq[h].id = pp[o].id
        BY <2>1, <2>2, <2>5, Zenon
      <3>3. k = o
        BY <1>1, <1>17, <3>1, <3>2, Zenon DEF PagesOK, n
      <3> QED BY <1>11, <2>1, <3>1, <3>2, <3>3 DEF Shifted
    <2> QED BY <2>3, <2>4, <2>5, Zenon
  <1>18. PagesOK(qq)
    <2>1. Len(qq) >= 1
      BY <1>1, <1>9
    <2> QED BY <1>9, <1>14, <1>17, <2>1, Zenon DEF PagesOK
  <1>19. \A j \in 1 .. Len(qq) : j = i + 1 \/ \E k \in 1 .. n : Shifted(k, i, j)
    BY <1>9, <1>13, Zenon
  <1> QED BY <1>9, <1>10, <1>12, <1>16, <1>18, <1>19, Zenon DEF HalvesOK, n, pp

(* Cutting a page in two moves no row and no pin.                          *)
LEMMA HalvedUnmoved ==
    ASSUME NEW l, Good(l), NEW i \in 1 .. Len(l.pages), NEW c \in Nat, c > 0, c < Len(l.pages[i].rows),
           NEW m, m = Halved(l, i, c)
    PROVE  Unmoved(l, m)
  <1> DEFINE pp == l.pages
             n == Len(pp)
  <1>1. /\ Sound(l) /\ l \in ListType /\ PagesOK(pp) /\ pp \in Seq(PageType) /\ n \in Nat /\ n >= 1
        /\ l.nextId \in Nat /\ l.serial \in Nat
        /\ \A k \in 1 .. n : pp[k].id < l.nextId
    BY SoundSizes DEF Good, Sound, PagesOK
  <1>2. PICK qq : qq = InsertAt([pp EXCEPT ![i] = Upper(l, i, c)], i + 1, Lower(l, i, c))
    OBVIOUS
  <1>3. HalvesOK(l, i, c, qq)
    BY <1>2, HalvesAre, Zenon
  <1>4. /\ PagesOK(qq) /\ Len(qq) = n + 1 /\ Parted(pp, qq, i, c, n)
        /\ \A k \in 1 .. n : \A j \in Nat : Shifted(k, i, j) => j \in 1 .. Len(qq) /\ qq[j].id = pp[k].id
        /\ qq[i + 1].id = l.nextId
        /\ \A j \in 1 .. Len(qq) : j = i + 1 \/ \E k \in 1 .. n : Shifted(k, i, j)
    BY <1>3, Zenon DEF HalvesOK
  <1>5. qq \in Seq(PageType)
    BY <1>4, Zenon DEF PagesOK
  <1>6. \A p \in Pins : l.pins[p] \in PinType
    BY <1>1, ListParts, Zenon
  <1>7. \A p \in Pins : PinResettled(l, i, c, l.pins[p], Resettled(l, i, c, l.pins[p]))
    BY <1>1, <1>6, ResettledIs, Zenon
  <1>8. PICK ps \in PinsType : ps = [p \in Pins |-> Resettled(l, i, c, l.pins[p])]
    <2>1. \A p \in Pins : Resettled(l, i, c, l.pins[p]) \in PinType
      BY <1>7, Zenon DEF PinResettled
    <2> QED BY <2>1 DEF PinsType
  <1>9. PICK a \in Nat, b \in Nat : a = l.serial + 1 /\ b = l.nextId + 1
    <2>1. l.nextId \in Nat /\ l.serial \in Nat
      BY <1>1, Zenon
    <2> QED BY <2>1
  <1>10. m = [l EXCEPT !.pages = qq, !.serial = a, !.nextId = b, !.pins = ps]
    BY <1>2, <1>8, <1>9, Zenon DEF Halved
  <1>11. m \in ListType
    <2>1. [l EXCEPT !.pages = qq, !.serial = a, !.nextId = b, !.pins = ps] \in ListType
      BY <1>1, <1>5, TypedCloned
    <2> QED BY <1>10, <2>1, Zenon
  <1>12. /\ m.pages = qq /\ m.nextId = b /\ m.pins = ps /\ m.total = l.total /\ m.born = l.born
         /\ m.viewport = l.viewport /\ m.cache = l.cache
    BY <1>1, <1>10 DEF ListType
  <1>13. \A p \in Pins : PinResettled(l, i, c, l.pins[p], m.pins[p])
    BY <1>7, <1>8, <1>12, Zenon
  <1> HIDE DEF n, pp
  <1>14. i \in 1 .. n /\ i \in Nat
    BY <1>1 DEF n, pp
  <1>15. \A j \in 1 .. Len(m.pages) : m.pages[j].id < m.nextId
    <2> SUFFICES ASSUME NEW j \in 1 .. Len(qq) PROVE qq[j].id < b
      BY <1>12, Zenon
    <2>0. l.nextId \in Nat
      BY <1>1, Zenon
    <2>1. CASE j = i + 1
      <3>1. qq[j].id = l.nextId
        BY <1>4, <2>1, Zenon
      <3> QED BY <1>9, <2>0, <3>1
    <2>2. CASE j # i + 1
      <3>1. PICK k \in 1 .. n : Shifted(k, i, j)
        BY <1>4, <2>2, Zenon
      <3>2. j \in Nat
        BY <1>1, <1>4
      <3>3. qq[j].id = pp[k].id /\ pp[k].id < l.nextId
        BY <1>1, <1>4, <3>1, <3>2, Zenon
      <3>4. pp[k].id \in Nat
        BY <1>1, PageAt DEF n
      <3> QED BY <1>9, <2>0, <3>3, <3>4
    <2> QED BY <2>1, <2>2
  <1>16. AllRows(m) = AllRows(l)
    <2>1. PICK A : Laid(A, AllRows(l), pp)
      BY <1>1, LaidExists, Zenon DEF pp
    <2>2. \E B : Laid(B, AllRows(l), qq)
      BY <1>1, <1>4, <1>5, <2>1, PartedLaid, Zenon
    <2> QED BY <1>5, <1>12, <2>2, AllRowsIs, Zenon
  <1>17. /\ c <= Len(pp[i].rows) /\ qq[i].rows = SubSeq(pp[i].rows, 1, c)
         /\ qq[i + 1].rows = SubSeq(pp[i].rows, c + 1, Len(pp[i].rows))
         /\ \A j \in 1 .. i - 1 : qq[j].rows = pp[j].rows
         /\ \A j \in i + 1 .. n : qq[j + 1].rows = pp[j].rows
    BY <1>4, Zenon DEF Parted
  <1>18. /\ pp[i].rows \in Seq(Nat) /\ Len(pp[i].rows) \in Nat
         /\ Len(qq[i].rows) = c /\ Len(qq[i + 1].rows) = Len(pp[i].rows) - c
         /\ \A j \in 1 .. c : qq[i].rows[j] = pp[i].rows[j]
         /\ \A j \in 1 .. Len(pp[i].rows) - c : qq[i + 1].rows[j] = pp[i].rows[c + j]
    <2>1. pp[i].rows \in Seq(Nat) /\ Len(pp[i].rows) \in Nat
      BY <1>1, <1>14, PageAt DEF n
    <2>2. PICK u, v : u = SubSeq(pp[i].rows, 1, c) /\ v = SubSeq(pp[i].rows, c + 1, Len(pp[i].rows))
      OBVIOUS
    <2>3. /\ Len(u) = c /\ Len(v) = Len(pp[i].rows) - c
          /\ \A j \in 1 .. c : u[j] = pp[i].rows[j]
          /\ \A j \in 1 .. Len(pp[i].rows) - c : v[j] = pp[i].rows[c + j]
      BY <1>17, <2>1, <2>2, PartsAt
    <2> QED BY <1>17, <2>1, <2>2, <2>3, Zenon
  <1>19. ASSUME NEW p \in Pins, NEW r, Holds(l.pages, l.pins[p], r) PROVE Holds(m.pages, m.pins[p], r)
    <2>1. PICK k : On(pp, l.pins[p], k) /\ pp[k].rows[l.pins[p].y + 1] = r
      BY <1>19, Zenon DEF Holds, pp
    <2>2. k \in 1 .. n /\ pp[k].id = l.pins[p].page /\ l.pins[p].y < Len(pp[k].rows)
      BY <2>1, Zenon DEF On, n
    <2>3. /\ l.pins[p].page = pp[i].id /\ l.pins[p].y >= c =>
                 m.pins[p].page = l.nextId /\ \E j \in Nat : l.pins[p].y = c + j /\ m.pins[p].y = j
          /\ ~(l.pins[p].page = pp[i].id /\ l.pins[p].y >= c) => m.pins[p] = l.pins[p]
      BY <1>13, Zenon DEF PinResettled, pp
    <2>4. PICK w \in Nat : w = l.pins[p].y
      BY <1>6 DEF PinType
    <2>5. l.pins[p].page = pp[i].id <=> k = i
      <3>1. l.pins[p].page = pp[i].id => k = i
        BY <1>1, <1>14, <2>2, Zenon DEF PagesOK, n
      <3> QED BY <2>2, <3>1, Zenon
    <2>6. CASE k = i /\ w >= c
      <3>1. m.pins[p].page = l.nextId /\ \E j \in Nat : w = c + j /\ m.pins[p].y = j
        BY <2>3, <2>4, <2>5, <2>6, Zenon
      <3>2. PICK j \in Nat : w = c + j /\ m.pins[p].y = j
        BY <3>1, Zenon
      <3>3. w < Len(pp[i].rows)
        BY <2>2, <2>4, <2>6, Zenon
      <3>4. j < Len(qq[i + 1].rows) /\ j + 1 \in 1 .. Len(pp[i].rows) - c /\ c + (j + 1) = w + 1
        BY <1>18, <3>2, <3>3
      <3>5. qq[i + 1].rows[j + 1] = pp[i].rows[w + 1]
        <4>1. PICK o : o = j + 1 /\ o \in 1 .. Len(pp[i].rows) - c /\ c + o = w + 1
          BY <3>4
        <4>2. qq[i + 1].rows[o] = pp[i].rows[c + o]
          BY <1>18, <4>1, Zenon
        <4> QED BY <4>1, <4>2, Zenon
      <3>6. pp[i].rows[w + 1] = r
        BY <2>1, <2>4, <2>6, Zenon
      <3>7. i + 1 \in 1 .. Len(qq)
        BY <1>1, <1>4, <1>14
      <3>8. On(qq, m.pins[p], i + 1) /\ qq[i + 1].rows[m.pins[p].y + 1] = r
        BY <1>4, <3>1, <3>2, <3>4, <3>5, <3>6, <3>7, Zenon DEF On
      <3> QED BY <1>12, <3>8, Zenon DEF Holds
    <2>7. CASE ~(k = i /\ w >= c)
      <3>1. m.pins[p] = l.pins[p]
        BY <2>3, <2>4, <2>5, <2>7, Zenon
      <3>2. PICK j \in Nat : Shifted(k, i, j)
        <4>1. k \in Nat
          BY <1>1, <2>2
        <4>2. CASE k <= i
          <5>1. Shifted(k, i, k)
            BY <4>2 DEF Shifted
          <5> QED BY <4>1, <5>1
        <4>3. CASE k > i
          <5>1. Shifted(k, i, k + 1) /\ k + 1 \in Nat
            BY <4>1, <4>3 DEF Shifted
          <5> QED BY <5>1
        <4> QED BY <1>14, <4>1, <4>2, <4>3
      <3>3. j \in 1 .. Len(qq) /\ qq[j].id = pp[k].id
        BY <1>4, <2>2, <3>2, Zenon
      <3>4. w < Len(qq[j].rows) /\ qq[j].rows[w + 1] = pp[k].rows[w + 1]
        <4>1. CASE k = i
          <5>1. j = i /\ w < c /\ w + 1 \in 1 .. c
            BY <1>14, <2>7, <3>2, <4>1 DEF Shifted
          <5> QED BY <1>18, <4>1, <5>1, Zenon
        <4>2. CASE k < i
          <5>1. j = k /\ k \in 1 .. i - 1
            BY <1>1, <1>14, <2>2, <3>2, <4>2 DEF Shifted
          <5> QED BY <1>17, <2>2, <2>4, <5>1, Zenon
        <4>3. CASE k > i
          <5>1. j = k + 1 /\ k \in i + 1 .. n
            BY <1>1, <1>14, <2>2, <3>2, <4>3 DEF Shifted
          <5> QED BY <1>17, <2>2, <2>4, <5>1, Zenon
        <4>4. k \in Nat
          BY <1>1, <2>2
        <4> QED BY <1>14, <4>1, <4>2, <4>3, <4>4
      <3>5. On(qq, m.pins[p], j) /\ qq[j].rows[m.pins[p].y + 1] = r
        BY <2>1, <2>2, <2>4, <3>1, <3>3, <3>4, Zenon DEF On
      <3> QED BY <1>12, <3>5, Zenon DEF Holds
    <2> QED BY <2>6, <2>7
  <1>20. Reseated(l, m)
    BY <1>4, <1>11, <1>12, <1>15, <1>16, <1>19, Zenon DEF Reseated
  <1> QED BY <1>20, ReseatedGood, Zenon

(* Nor does split, whether it cuts or not.                                 *)
LEMMA SplitUnmoved ==
    ASSUME NEW l, Good(l), NEW pin \in PinType, Valid(l, pin)
    PROVE  Unmoved(l, Split(l, pin))
  <1>1. l \in ListType /\ PagesOK(l.pages) /\ l.pages \in Seq(PageType)
    BY SoundSizes DEF Good
  <1>2. PICK i : On(l.pages, pin, i)
    BY <1>1, ValidIs, Zenon
  <1>3. SplitCases(l, i, pin, Split(l, pin))
    BY <1>1, <1>2, SplitIs, Zenon
  <1>4. CASE Split(l, pin) = l
    BY <1>4, UnmovedSame, Zenon
  <1>5. CASE pin.y > 0 /\ Split(l, pin) = Halved(l, i, pin.y)
    <2>1. pin.y \in Nat
      BY DEF PinType
    <2>2. i \in 1 .. Len(l.pages) /\ pin.y < Len(l.pages[i].rows)
      BY <1>2, Zenon DEF On
    <2> QED BY <1>5, <2>1, <2>2, HalvedUnmoved, Zenon
  <1> QED BY <1>3, <1>4, <1>5, Zenon DEF SplitCases

(* The list of a screen that has just been made or reset.                  *)
NewRows(born) == [x \in 1 .. Rows |-> born + x]

Starting(m, id, serial, born) ==
    /\ id \in Nat /\ serial \in Nat /\ born \in Nat
    /\ m \in ListType /\ m.pages = FirstPages(id, serial, born)
    /\ id + PageCount < m.nextId /\ m.total = Rows /\ m.born = born + Rows
    /\ m.viewport = "active"
    /\ \A p \in Pins : m.pins[p].page = id + 1 /\ m.pins[p].y = 0

Started(m, born) ==
    /\ Good(m) /\ AllRows(m) = NewRows(born)
    /\ \A p \in Pins : Offset(m, m.pins[p]) = 0

(* The rows of a new list are there once and newer than any before.        *)
LEMMA NewRowsOnce ==
    ASSUME NEW born \in Nat
    PROVE  /\ NewRows(born) \in Seq(Nat) /\ Len(NewRows(born)) = Rows
           /\ OnceEach(NewRows(born), born + Rows)
           /\ \A r \in ToSet(NewRows(born)) : r > born
  <1>1. Rows \in Nat
    BY SizeAssumption
  <1>2. PICK R : R = NewRows(born)
    OBVIOUS
  <1>3. R \in [1 .. Rows -> Nat] /\ \A x \in 1 .. Rows : R[x] = born + x
    BY <1>1, <1>2 DEF NewRows
  <1>4. R \in Seq(Nat) /\ Len(R) = Rows
    BY <1>1, <1>3
  <1>5. OnceEach(R, born + Rows)
    BY <1>1, <1>3, <1>4 DEF OnceEach
  <1>6. ASSUME NEW r \in ToSet(R) PROVE r > born
    <2>1. PICK i \in 1 .. Len(R) : R[i] = r
      BY <1>4, RowsSet, Zenon
    <2> QED BY <1>1, <1>3, <1>4, <2>1
  <1> QED BY <1>2, <1>4, <1>5, <1>6

(* The first pages with all pins on their first row are a good list.       *)
LEMMA StartGood ==
    ASSUME NEW m, NEW id, NEW serial, NEW born, Starting(m, id, serial, born)
    PROVE  Started(m, born)
  <1>1. /\ id \in Nat /\ serial \in Nat /\ born \in Nat
        /\ m \in ListType /\ m.pages = FirstPages(id, serial, born)
        /\ id + PageCount < m.nextId /\ m.total = Rows /\ m.born = born + Rows
        /\ m.viewport = "active"
        /\ \A p \in Pins : m.pins[p].page = id + 1 /\ m.pins[p].y = 0
    BY Zenon DEF Starting
  <1>2. PICK pp : pp = m.pages
    OBVIOUS
  <1>3. PICK top : top = [page |-> id + 1, y |-> 0, garbage |-> TRUE]
    OBVIOUS
  <1>4. /\ PagesOK(pp)
        /\ \A i \in 1 .. Len(pp) : pp[i].id <= id + PageCount
        /\ On(pp, top, 1)
    <2>1. pp = FirstPages(id, serial, born)
      BY <1>1, <1>2, Zenon
    <2> QED BY <1>1, <1>3, <2>1, FirstPagesOK
  <1>5. pp \in Seq(PageType) /\ 1 \in 1 .. Len(pp) /\ pp[1].id = id + 1 /\ 0 < Len(pp[1].rows)
    <2>1. pp \in Seq(PageType) /\ 1 \in 1 .. Len(pp) /\ pp[1].id = top.page /\ top.y < Len(pp[1].rows)
      BY <1>4, Zenon DEF PagesOK, On
    <2>2. top.page = id + 1 /\ top.y = 0
      BY <1>3
    <2> QED BY <2>1, <2>2, Zenon
  <1>6. AllRows(m) = NewRows(born)
    <2>1. \E B : Laid(B, NewRows(born), pp)
      <3>1. \E B : Laid(B, [x \in 1 .. Rows |-> born + x], pp)
        BY <1>1, <1>2, FirstLaid
      <3> QED BY <3>1, Zenon DEF NewRows
    <2> QED BY <1>2, <1>5, <2>1, AllRowsIs, Zenon
  <1>7. PICK A : Laid(A, AllRows(m), m.pages)
    BY <1>2, <1>5, LaidExists, Zenon
  <1>8. A[1] = 0
    BY <1>7, Zenon DEF Laid, Steps
  <1>9. \A p \in Pins : m.pins[p] \in PinType /\ m.pins[p].y \in Nat
    BY <1>1, ListParts, Zenon
  <1>10. ASSUME NEW p \in Pins PROVE Valid(m, m.pins[p]) /\ Offset(m, m.pins[p]) = 0
    <2>1. On(m.pages, m.pins[p], 1)
      BY <1>1, <1>2, <1>5, Zenon DEF On
    <2>2. Valid(m, m.pins[p])
      BY <1>2, <1>5, <2>1, ValidIs, Zenon
    <2>3. PagesOK(m.pages)
      BY <1>2, <1>4, Zenon
    <2>4. OffsetAt(m, m.pins[p], A, 1)
      BY <1>7, <1>9, <2>1, <2>3, OffsetsAt, Zenon
    <2>5. Offset(m, m.pins[p]) = A[1] + m.pins[p].y /\ m.pins[p].y = 0
      BY <1>1, <2>4, Zenon DEF OffsetAt
    <2> QED BY <1>8, <2>2, <2>5
  <1>11. \A i \in 1 .. Len(m.pages) : m.pages[i].id < m.nextId
    <2> SUFFICES ASSUME NEW i \in 1 .. Len(pp) PROVE pp[i].id < m.nextId
      BY <1>2, Zenon
    <2>1. pp[i].id \in Nat /\ m.nextId \in Nat /\ PageCount \in Nat
      BY <1>1, <1>5, PageAt, ListParts, PageCountIs
    <2>2. pp[i].id <= id + PageCount /\ id + PageCount < m.nextId
      BY <1>1, <1>4, Zenon
    <2> QED BY <1>1, <2>1, <2>2
  <1>12. Len(AllRows(m)) = Rows /\ OnceEach(AllRows(m), m.born)
    BY <1>1, <1>6, NewRowsOnce
  <1>13. CacheExact(m) /\ High(m, m.total - Rows)
    BY <1>1 DEF CacheExact, High
  <1>14. m.total = Len(AllRows(m)) /\ m.total >= Rows
    BY <1>1, <1>12, SizeAssumption
  <1>15. PagesOK(m.pages)
    BY <1>2, <1>4, Zenon
  <1>16. Sound(m)
    BY <1>1, <1>10, <1>11, <1>12, <1>13, <1>14, <1>15, Zenon DEF Sound
  <1> QED BY <1>6, <1>10, <1>13, <1>14, <1>16, Zenon DEF Started, Good

TopPin(id, p) == IF p = "viewport" THEN Pin(id + 1, 0) ELSE [Pin(id + 1, 0) EXCEPT !.garbage = TRUE]

(* The pins after a reset.                                                 *)
LEMMA TopPinIs ==
    ASSUME NEW id \in Nat, NEW p
    PROVE  TopPin(id, p) \in PinType /\ TopPin(id, p).page = id + 1 /\ TopPin(id, p).y = 0
  <1>1. PICK k \in Nat : k = id + 1
    OBVIOUS
  <1>2. PinIs([Pin(k, 0) EXCEPT !.garbage = TRUE], k, 0)
    BY PinTyped
  <1>3. Pin(k, 0) \in PinType /\ Pin(k, 0).page = k /\ Pin(k, 0).y = 0
    BY DEF Pin, PinType
  <1>4. TopPin(id, p) = IF p = "viewport" THEN Pin(k, 0) ELSE [Pin(k, 0) EXCEPT !.garbage = TRUE]
    BY <1>1, Zenon DEF TopPin
  <1> QED BY <1>1, <1>2, <1>3, <1>4, Zenon DEF PinIs

(* The list after a reset is a list.                                       *)
LEMMA TypedReset ==
    ASSUME NEW l \in ListType, NEW pages \in Seq(PageType), NEW serialMin \in Nat, NEW serial \in Nat, NEW nextId \in Nat,
           NEW born \in Nat, NEW total \in Nat, NEW pins \in PinsType, NEW viewport \in ViewportType
    PROVE  [l EXCEPT !.pages = pages, !.serialMin = serialMin, !.serial = serial, !.nextId = nextId, !.born = born,
                     !.total = total, !.pins = pins, !.viewport = viewport] \in ListType
  BY DEF ListType

(* reset makes a good list in which no earlier row is left.                *)
LEMMA ResetGood ==
    ASSUME NEW l, Good(l), NEW m, m = Reset(l)
    PROVE  Started(m, l.born) /\ Kept(l, m)
  <1>1. Sound(l) /\ l \in ListType /\ l.nextId \in Nat /\ l.serial \in Nat /\ l.born \in Nat
    BY SoundSizes DEF Good
  <1>2. PICK n \in Nat : n = PageCount
    BY PageCountIs
  <1>3. PICK pp : pp = FirstPages(l.nextId, l.serial, l.born)
    OBVIOUS
  <1>4. pp \in Seq(PageType)
    <2>1. PagesOK(pp)
      BY <1>1, <1>3, FirstPagesOK
    <2> QED BY <2>1 DEF PagesOK
  <1>5. PICK ps \in PinsType : ps = [p \in Pins |-> TopPin(l.nextId, p)]
    <2>1. \A p \in Pins : TopPin(l.nextId, p) \in PinType
      BY <1>1, TopPinIs
    <2> QED BY <2>1 DEF PinsType
  <1>6. PICK a \in Nat, b \in Nat, c \in Nat, d \in Nat :
          a = l.serial + n /\ b = l.nextId + n + 1 /\ c = l.born + Rows /\ d = Rows
    BY <1>1, SizeAssumption
  <1>7. PICK v \in ViewportType : v = "active"
    BY DEF ViewportType
  <1>8. m = [l EXCEPT !.pages = pp, !.serialMin = l.serial, !.serial = a, !.nextId = b, !.born = c, !.total = d,
                      !.pins = ps, !.viewport = v]
    <2>1. ps = [p \in Pins |-> IF p = "viewport" THEN Pin([Pin(l.nextId + 1, 0) EXCEPT !.garbage = TRUE].page, 0)
                               ELSE [Pin(l.nextId + 1, 0) EXCEPT !.garbage = TRUE]]
      BY <1>1, <1>5 DEF TopPin, Pin
    <2>2. m = [l EXCEPT !.pages = pp, !.serialMin = l.serial, !.serial = l.serial + n,
                  !.nextId = l.nextId + n + 1, !.born = l.born + Rows, !.total = Rows,
                  !.pins = ps, !.viewport = "active"]
      BY <1>2, <1>3, <2>1, Zenon DEF Reset, PageCount
    <2> QED BY <1>6, <1>7, <2>2, Zenon
  <1>9. m \in ListType
    <2>1. [l EXCEPT !.pages = pp, !.serialMin = l.serial, !.serial = a, !.nextId = b, !.born = c, !.total = d,
                      !.pins = ps, !.viewport = v] \in ListType
      <3>1. l.serial \in Nat /\ l \in ListType
        BY <1>1, Zenon
      <3> QED BY <1>4, <3>1, TypedReset, ZenonT(40)
    <2> QED BY <1>8, <2>1, Zenon
  <1>10. m.pages = pp /\ m.nextId = b /\ m.born = c /\ m.total = d /\ m.pins = ps /\ m.viewport = v
    BY <1>1, <1>8 DEF ListType
  <1>11. \A p \in Pins : m.pins[p].page = l.nextId + 1 /\ m.pins[p].y = 0
    BY <1>1, <1>5, <1>10, TopPinIs
  <1>12. Starting(m, l.nextId, l.serial, l.born)
    <2>1. l.nextId + PageCount < m.nextId
      BY <1>1, <1>2, <1>6, <1>10
    <2> QED BY <1>1, <1>3, <1>6, <1>7, <1>9, <1>10, <1>11, <2>1, Zenon DEF Starting
  <1>13. Started(m, l.born)
    BY <1>12, StartGood, Zenon
  <1>14. \A r \in ToSet(AllRows(m)) : r > l.born
    BY <1>1, <1>13, NewRowsOnce DEF Started
  <1>15. \A p \in Pins : RowOf(l, p) \notin ToSet(AllRows(m))
    <2> SUFFICES ASSUME NEW p \in Pins, RowOf(l, p) \in ToSet(AllRows(m)) PROVE FALSE
      BY Zenon
    <2>1. RowOf(l, p) <= l.born /\ RowOf(l, p) \in Nat
      BY <1>1, RowKnown
    <2>2. RowOf(l, p) > l.born
      BY <1>14
    <2> QED BY <1>1, <2>1, <2>2
  <1>16. l.born <= m.born
    BY <1>1, <1>6, <1>10, SizeAssumption
  <1> QED BY <1>13, <1>14, <1>15, <1>16, Zenon DEF Kept

(* The list of a new screen is good.                                       *)
LEMMA NewListGood == Started(NewList, 0)
  <1>1. PICK m : m = NewList
    OBVIOUS
  <1>2. PICK pp : pp = FirstPages(0, 0, 0)
    OBVIOUS
  <1>3. pp \in Seq(PageType) /\ Len(pp) = PageCount
    BY <1>2, FirstPagesAre
  <1>4. PICK ps \in PinsType : ps = [p \in Pins |-> Pin(1, 0)]
    BY DEF Pin, PinType, PinsType
  <1>5. PICK n \in Nat : n = PageCount
    BY PageCountIs
  <1>6. m = [pages |-> pp, serial |-> n, serialMin |-> 0, nextId |-> n + 1, born |-> Rows, total |-> Rows,
             pins |-> ps, viewport |-> "active", cache |-> None]
    BY <1>1, <1>2, <1>3, <1>4, <1>5, Zenon DEF NewList
  <1>7. m \in ListType
    BY <1>3, <1>4, <1>5, <1>6, SizeAssumption DEF ListType, ViewportType, CacheType
  <1>8. \A p \in Pins : m.pins[p].page = 0 + 1 /\ m.pins[p].y = 0
    BY <1>4, <1>6 DEF Pin
  <1>9. m.born = 0 + Rows /\ 0 + PageCount < m.nextId
    BY <1>5, <1>6, SizeAssumption
  <1>10. m.pages = FirstPages(0, 0, 0) /\ m.total = Rows /\ m.viewport = "active" /\ 0 \in Nat
    BY <1>2, <1>6
  <1>11. Starting(m, 0, 0, 0)
    BY <1>7, <1>8, <1>9, <1>10, Zenon DEF Starting
  <1> QED BY <1>1, <1>11, StartGood, Zenon

(* Lines are printed, rows are grown.                                      *)
GoodKept(c, a) == Good(a) /\ Kept(c, a)
GoodOnly(c, a) == Good(a)
Grows == INSTANCE FoldFacts WITH Step <- GrowOn, Inv <- GoodKept
Prints == INSTANCE FoldFacts WITH Step <- PrintedOn, Inv <- GoodOnly

(* Growing by several rows is the fold that FoldFacts is about.            *)
LEMMA GrowFolds == \A base, input : FoldLeft(GrowOn, base, input) = Grows!Fold(base, input)
  BY Zenon DEF FoldLeft, Grows!FoldLeft, MapThenFoldSet, Grows!MapThenFoldSet,
     Max, Grows!Max, Grows!Fold

(* So is printing several lines.                                           *)
LEMMA PrintFolds == \A base, input : FoldLeft(PrintedOn, base, input) = Prints!Fold(base, input)
  BY Zenon DEF FoldLeft, Prints!FoldLeft, MapThenFoldSet, Prints!MapThenFoldSet,
     Max, Prints!Max, Prints!Fold

(* What is folded over.                                                    *)
LEMMA TimesIs ==
    ASSUME NEW n \in Nat
    PROVE  Times(n) \in Seq(Nat)
  BY DEF Times

(* One more row.                                                           *)
LEMMA GrowKept ==
    ASSUME NEW c, Good(c), NEW a, GoodKept(c, a)
    PROVE  GoodKept(c, Grow(a))
  <1>1. Good(a) /\ Kept(c, a)
    BY Zenon DEF GoodKept
  <1>2. PICK h \in Nat : Grown(a, Grow(a), h)
    BY <1>1, GrowGood, Zenon
  <1>3. Good(Grow(a)) /\ Kept(a, Grow(a))
    BY <1>2, Zenon DEF Grown
  <1>4. Sound(c) /\ Sound(a) /\ Sound(Grow(a))
    BY <1>1, <1>3, Zenon DEF Good
  <1> QED BY <1>1, <1>3, <1>4, KeptOn, Zenon DEF GoodKept

(* Any number of rows: the list stays good and its pins on their rows.     *)
LEMMA ClearedGood ==
    ASSUME NEW l, Good(l), NEW n \in Nat
    PROVE  GoodKept(l, FoldLeft(GrowOn, l, Times(n)))
  <1>1. GoodKept(l, l)
    BY KeptSame, Zenon DEF Good, GoodKept
  <1>2. \A a : \A x \in Nat : GoodKept(l, a) => GoodKept(l, GrowOn(a, x))
    BY GrowKept, Zenon DEF GrowOn
  <1>3. Times(n) \in Seq(Nat)
    BY TimesIs
  <1>4. GoodKept(l, Grows!Fold(l, Times(n)))
    BY <1>1, <1>2, <1>3, Grows!FoldKeeps, Zenon
  <1> QED BY <1>4, GrowFolds, Zenon

(* The cursor put on the last row.                                         *)
LEMMA BottomPin ==
    ASSUME NEW l, Good(l), NEW m, m = [l EXCEPT !.pins["cursor"] = PinAt(l, ActiveTop(l) + Rows - 1)]
    PROVE  Good(m) /\ ActiveTop(m) = ActiveTop(l) /\ Offset(m, m.pins["cursor"]) = ActiveTop(m) + Rows - 1
  <1>1. /\ ActiveTop(l) \in Nat /\ ActiveTop(l) + Rows = Len(AllRows(l)) /\ Rows \in Nat /\ Rows >= 2
        /\ PagesOK(l.pages)
    BY ActiveTopIs, SizeAssumption DEF Good, Sound
  <1>2. PICK k \in Nat : k = ActiveTop(l) + Rows - 1 /\ k < Len(AllRows(l))
    BY <1>1
  <1>3. PICK pin \in PinType : pin = PinAt(l, k) /\ Valid(l, pin) /\ Offset(l, pin) = k
    BY <1>1, <1>2, PinAtGood, Zenon
  <1>4. "cursor" \in Pins /\ "cursor" # "viewport"
    BY DEF Pins
  <1>5. m = [l EXCEPT !.pins["cursor"] = pin]
    BY <1>2, <1>3, Zenon
  <1>6. Viewed(l, m) /\ m.pins["cursor"] = pin
    <2>1. m = PutPin(l, "cursor", pin)
      BY <1>5, Zenon DEF PutPin
    <2>2. PinPutIs(l, PutPin(l, "cursor", pin), "cursor", pin)
      BY <1>3, <1>4, PutPinIs, Zenon
    <2> QED BY <2>1, <2>2, Zenon DEF PinPutIs
  <1>7. Good(m) /\ m.pages = l.pages
    BY <1>6, Zenon DEF Viewed
  <1>8. AllRows(m) = AllRows(l) /\ Offset(m, pin) = Offset(l, pin)
    BY <1>7, SamePages, Zenon
  <1>9. ActiveTop(m) = ActiveTop(l)
    BY <1>8, Zenon DEF ActiveTop
  <1> QED BY <1>2, <1>3, <1>6, <1>7, <1>8, <1>9, Zenon

(* A screen on which any number of lines was printed has a good list.      *)
LEMMA PrintedGood ==
    ASSUME NEW n \in Nat
    PROVE  Good(FoldLeft(PrintedOn, NewList, Times(n)))
  <1>1. GoodOnly(0, NewList)
    BY NewListGood, Zenon DEF Started, GoodOnly
  <1>2. ASSUME NEW a, NEW x \in Nat, GoodOnly(0, a) PROVE GoodOnly(0, PrintedOn(a, x))
    <2>1. PICK h \in Nat : Grown(a, Grow(a), h)
      BY <1>2, GrowGood, Zenon DEF GoodOnly
    <2>2. Good(Grow(a))
      BY <2>1, Zenon DEF Grown
    <2>3. Good(PrintedOn(a, x))
      BY <2>2, BottomPin, Zenon DEF PrintedOn
    <2> QED BY <2>3, Zenon DEF GoodOnly
  <1>3. Times(n) \in Seq(Nat)
    BY TimesIs
  <1>4. GoodOnly(0, Prints!Fold(NewList, Times(n)))
    BY <1>1, <1>2, <1>3, Prints!FoldKeeps, Zenon
  <1> QED BY <1>4, PrintFolds, Zenon DEF GoodOnly

(* The invariant.                                                          *)
IInv == Good(list) /\ CursorOnItsRow /\ y \in 0 .. Rows - 1

\* The list l with the cursor's pin at pin, on the line cy, is one that the
\* screen may have.
Settled(l, pin, cy) ==
    /\ Good(l) /\ pin \in PinType /\ Valid(l, pin)
    /\ cy \in 0 .. Rows - 1 /\ Offset(l, pin) = ActiveTop(l) + cy

(* A settled list that becomes the screen's satisfies the invariant.       *)
LEMMA Becoming ==
    ASSUME NEW l, NEW pin, NEW cy, Settled(l, pin, cy), Becomes(l, pin, cy)
    PROVE  IInv' /\ PinPutIs(l, list', "cursor", pin)
  <1>1. /\ Good(l) /\ pin \in PinType /\ Valid(l, pin)
        /\ cy \in 0 .. Rows - 1 /\ Offset(l, pin) = ActiveTop(l) + cy
    BY Zenon DEF Settled
  <1>2. list' = PutPin(l, "cursor", pin) /\ y' = cy
    BY Zenon DEF Becomes, PutPin
  <1>3. "cursor" \in Pins /\ "cursor" # "viewport"
    BY DEF Pins
  <1>4. PinPutIs(l, PutPin(l, "cursor", pin), "cursor", pin)
    BY <1>1, <1>3, PutPinIs, Zenon
  <1>5. PinPutIs(l, list', "cursor", pin)
    BY <1>2, <1>4, Zenon
  <1>6. Good(list') /\ list'.pages = l.pages /\ list'.pins["cursor"] = pin
    BY <1>5, Zenon DEF PinPutIs, Viewed
  <1>7. AllRows(list') = AllRows(l) /\ Offset(list', pin) = Offset(l, pin)
    BY <1>6, SamePages, Zenon
  <1>8. ActiveTop(list') = ActiveTop(l)
    BY <1>7, Zenon DEF ActiveTop
  <1>9. (CursorOnItsRow)'
    BY <1>1, <1>2, <1>6, <1>7, <1>8, Zenon DEF CursorOnItsRow, CursorPin
  <1> QED BY <1>1, <1>2, <1>5, <1>6, <1>9, Zenon DEF IInv

(* Where the cursor is.                                                    *)
LEMMA CursorIs ==
    ASSUME IInv
    PROVE  /\ Good(list) /\ CursorPin \in PinType /\ Valid(list, CursorPin)
           /\ Offset(list, CursorPin) \in Nat /\ Offset(list, CursorPin) < Len(AllRows(list))
           /\ Offset(list, CursorPin) = ActiveTop(list) + y /\ y \in Nat /\ y < Rows
           /\ ActiveTop(list) \in Nat /\ ActiveTop(list) + Rows = Len(AllRows(list))
           /\ Rows \in Nat /\ Rows >= 2
  <1>1. Good(list) /\ Sound(list)
    BY DEF IInv, Good
  <1>2. "cursor" \in Pins
    BY DEF Pins
  <1>3. /\ list.pins["cursor"] \in PinType /\ Valid(list, list.pins["cursor"])
        /\ Offset(list, list.pins["cursor"]) \in Nat /\ Offset(list, list.pins["cursor"]) < Len(AllRows(list))
    BY <1>1, <1>2, Tracked, Zenon
  <1>4. ActiveTop(list) \in Nat /\ ActiveTop(list) + Rows = Len(AllRows(list))
    BY <1>1, ActiveTopIs
  <1>5. Offset(list, CursorPin) = ActiveTop(list) + y /\ y \in 0 .. Rows - 1
    BY DEF IInv, CursorOnItsRow
  <1>6. Rows \in Nat /\ Rows >= 2
    BY SizeAssumption
  <1>7. y \in Nat /\ y < Rows
    BY <1>5, <1>6
  <1> QED BY <1>1, <1>3, <1>4, <1>5, <1>6, <1>7, Zenon DEF CursorPin

(* A list whose pages are those of the screen's: the cursor stays.         *)
LEMMA ViewedSettled ==
    ASSUME IInv, NEW m, Viewed(list, m)
    PROVE  Settled(m, CursorPin, y)
  <1>1. /\ CursorPin \in PinType /\ Valid(list, CursorPin)
        /\ Offset(list, CursorPin) = ActiveTop(list) + y /\ y \in 0 .. Rows - 1
    BY CursorIs DEF IInv
  <1>2. Good(m) /\ m.pages = list.pages
    BY Zenon DEF Viewed
  <1>3. AllRows(m) = AllRows(list) /\ (Valid(m, CursorPin) <=> Valid(list, CursorPin))
        /\ Offset(m, CursorPin) = Offset(list, CursorPin)
    BY <1>2, SamePages, Zenon
  <1>4. ActiveTop(m) = ActiveTop(list)
    BY <1>3, Zenon DEF ActiveTop
  <1> QED BY <1>1, <1>2, <1>3, <1>4, Zenon DEF Settled

(* A list as long as the screen's whose pins keep their offsets.           *)
LEMMA SameSettled ==
    ASSUME IInv, NEW m, Good(m), m.total = list.total, NEW pin \in PinType, Valid(m, pin),
           Offset(m, pin) = Offset(list, CursorPin)
    PROVE  Settled(m, pin, y)
  <1>1. Offset(list, CursorPin) = ActiveTop(list) + y /\ y \in 0 .. Rows - 1 /\ Good(list)
    BY CursorIs DEF IInv
  <1>2. ActiveTop(m) = m.total - Rows /\ ActiveTop(list) = list.total - Rows
    BY <1>1, ActiveTopIs
  <1>3. ActiveTop(m) = ActiveTop(list)
    BY <1>2
  <1> QED BY <1>1, <1>3, Zenon DEF Settled

(* What cursor_reload makes of a list.                                     *)
Reloads(l) == \E pin, cy : Settled(l, pin, cy) /\ Becomes(l, pin, cy)

(* cursor_reload settles any good list.                                    *)
LEMMA ReloadedSettled ==
    ASSUME NEW l, Good(l), Reloaded(l)
    PROVE  Reloads(l)
  <1>1. /\ Sound(l) /\ PagesOK(l.pages) /\ "cursor" \in Pins
        /\ ActiveTop(l) \in Nat /\ ActiveTop(l) < Len(AllRows(l)) /\ ActiveTop(l) + Rows = Len(AllRows(l))
    BY ActiveTopIs DEF Good, Sound, Pins
  <1>2. PICK pin \in PinType : pin = l.pins["cursor"] /\ Valid(l, pin) /\ Offset(l, pin) \in Nat /\ Offset(l, pin) < Len(AllRows(l))
    BY <1>1, Tracked, Zenon
  <1>3. PICK o \in Nat, t \in Nat : o = Offset(l, pin) /\ t = ActiveTop(l)
    BY <1>1, <1>2, Zenon
  <1>4. o < t + Rows /\ Rows \in Nat /\ Rows >= 2
    BY <1>1, <1>2, <1>3, SizeAssumption
  <1>5. CASE IsActive(l, pin)
    <2>1. Becomes(l, pin, Offset(l, pin) - ActiveTop(l))
      BY <1>2, <1>5, Zenon DEF Reloaded
    <2>2. o >= t
      BY <1>3, <1>5, Zenon DEF IsActive
    <2>3. PICK c \in 0 .. Rows - 1 : c = o - t /\ o = t + c
      BY <1>4, <2>2
    <2>4. Settled(l, pin, c)
      BY <1>2, <1>3, <2>3, Zenon DEF Settled
    <2>5. Becomes(l, pin, c)
      BY <1>3, <2>1, <2>3, Zenon
    <2> QED BY <2>4, <2>5, Zenon DEF Reloads
  <1>6. CASE ~IsActive(l, pin)
    <2>1. Becomes(l, PinAt(l, t), 0)
      BY <1>2, <1>3, <1>6, Zenon DEF Reloaded
    <2>2. PinAt(l, t) \in PinType /\ Valid(l, PinAt(l, t)) /\ Offset(l, PinAt(l, t)) = t
      BY <1>1, <1>3, PinAtGood, Zenon
    <2>3. 0 \in 0 .. Rows - 1 /\ t = t + 0
      BY <1>4
    <2>4. Offset(l, PinAt(l, t)) = ActiveTop(l) + 0
      BY <1>3, <2>2, <2>3, Zenon
    <2>5. Settled(l, PinAt(l, t), 0)
      BY <2>2, <2>3, <2>4, Zenon DEF Settled
    <2> QED BY <2>1, <2>5, Zenon DEF Reloads
  <1> QED BY <1>5, <1>6

(* What an operation does: the list that it makes becomes the screen's, and *)
(* the pins followed their rows in it.                                      *)
Settles == \E l, pin, cy : Settled(l, pin, cy) /\ Becomes(l, pin, cy)
Yields == \E l, pin, cy : Settled(l, pin, cy) /\ Becomes(l, pin, cy) /\ Kept(list, l)

(* An operation that reloads the cursor in a good list.                    *)
LEMMA ReloadYields ==
    ASSUME NEW l, Good(l), Reloaded(l), Kept(list, l)
    PROVE  Yields
  BY ReloadedSettled, Zenon DEF Reloads, Yields

(* The cursor moves to another line.                                       *)
LEMMA MoveYields ==
    ASSUME IInv, NEW to \in 0 .. Rows - 1, CursorMove(to)
    PROVE  Yields
  <1>1. /\ Good(list) /\ Offset(list, CursorPin) = ActiveTop(list) + y /\ y \in Nat
        /\ ActiveTop(list) \in Nat /\ ActiveTop(list) + Rows = Len(AllRows(list)) /\ Rows \in Nat
        /\ PagesOK(list.pages)
    BY CursorIs DEF Good, Sound
  <1>2. PICK k \in Nat : k = Offset(list, CursorPin) + to - y /\ k = ActiveTop(list) + to /\ k < Len(AllRows(list))
    <2>1. ActiveTop(list) + to \in Nat /\ ActiveTop(list) + to < Len(AllRows(list))
      BY <1>1
    <2>2. ActiveTop(list) + to = Offset(list, CursorPin) + to - y
      BY <1>1
    <2> QED BY <2>1, <2>2
  <1>3. PinAt(list, k) \in PinType /\ Valid(list, PinAt(list, k)) /\ Offset(list, PinAt(list, k)) = k
    BY <1>1, <1>2, PinAtGood, Zenon
  <1>4. Settled(list, PinAt(list, k), to)
    BY <1>1, <1>2, <1>3, Zenon DEF Settled
  <1>5. Becomes(list, PinAt(list, k), to)
    BY <1>2, Zenon DEF CursorMove
  <1>6. Kept(list, list)
    BY <1>1, KeptSame, Zenon DEF Good
  <1> QED BY <1>4, <1>5, <1>6, Zenon DEF Yields

(* The bottom line: with a scrollback the list has grown by one row and    *)
(* lost h at its top, and the cursor is one row further down.              *)
LEMMA DownYields ==
    ASSUME IInv, CursorDownScroll
    PROVE  Yields
  <1>1. /\ Good(list) /\ CursorPin \in PinType /\ Valid(list, CursorPin)
        /\ Offset(list, CursorPin) = ActiveTop(list) + y /\ y \in Nat /\ y \in 0 .. Rows - 1
        /\ ActiveTop(list) \in Nat /\ ActiveTop(list) + Rows = Len(AllRows(list)) /\ Rows \in Nat /\ Rows >= 2
    BY CursorIs DEF IInv
  <1>2. CASE ~scrollback
    <2>1. PICK m : m = EraseRow(list)
      OBVIOUS
    <2>2. Good(m) /\ Kept(list, m) /\ m.total = list.total /\ Stays(list, m)
      BY <1>1, <2>1, EraseRowGood, Zenon
    <2>3. Valid(m, CursorPin) /\ Offset(m, CursorPin) = Offset(list, CursorPin)
      BY <1>1, <2>2, Zenon DEF Stays
    <2>4. Settled(m, CursorPin, y)
      BY <1>1, <2>2, <2>3, SameSettled, Zenon
    <2>5. Becomes(m, CursorPin, y)
      BY <1>2, <2>1, Zenon DEF CursorDownScroll
    <2> QED BY <2>2, <2>4, <2>5, Zenon DEF Yields
  <1>3. CASE scrollback
    <2>1. PICK g : g = Grow(list)
      OBVIOUS
    <2>2. PICK h \in Nat : Grown(list, g, h)
      BY <1>1, <2>1, GrowGood, Zenon
    <2>3. /\ Good(g) /\ Kept(list, g) /\ h + Rows <= Len(AllRows(list)) + 1
          /\ Len(AllRows(g)) = Len(AllRows(list)) + 1 - h
          /\ \A p \in Pins : Moved(list, g, p, h)
      BY <2>2, Zenon DEF Grown
    <2>4. "cursor" \in Pins
      BY DEF Pins
    <2>5. Moved(list, g, "cursor", h)
      BY <2>3, <2>4, Zenon
    <2>6. ActiveTop(g) + Rows = Len(AllRows(g)) /\ ActiveTop(g) \in Nat /\ PagesOK(g.pages)
      BY <2>3, ActiveTopIs DEF Good, Sound
    <2>7. y = Rows - 1 /\ Offset(list, CursorPin) = Len(AllRows(list)) - 1 /\ Len(AllRows(list)) \in Nat
      <3>1. y = Rows - 1
        BY DEF CursorDownScroll
      <3> QED BY <1>1, <3>1
    <2>8. h <= Offset(list, CursorPin)
      BY <1>1, <2>3, <2>7
    <2>9. g.pins["cursor"] = CursorPin /\ Offset(g, g.pins["cursor"]) = Offset(list, CursorPin) - h
      <3>1. h <= Offset(list, list.pins["cursor"])
        BY <2>8 DEF CursorPin
      <3>2. ~(Offset(list, list.pins["cursor"]) < h)
        BY <1>1, <2>7, <3>1 DEF CursorPin
      <3> QED BY <2>5, <3>2, Zenon DEF Moved, CursorPin
    <2>10. PICK k \in Nat : k = Offset(g, g.pins["cursor"]) + 1 /\ k = ActiveTop(g) + y /\ k < Len(AllRows(g))
      <3>1. PICK o \in Nat, n \in Nat, t \in Nat : o = Offset(list, CursorPin) /\ n = Len(AllRows(list)) /\ t = ActiveTop(g)
        BY <1>1, <2>6, <2>7
      <3>2. Offset(g, g.pins["cursor"]) = o - h /\ o = n - 1 /\ h <= o /\ t + Rows = n + 1 - h
        BY <2>3, <2>6, <2>7, <2>8, <2>9, <3>1, Zenon
      <3>3. (o - h) + 1 \in Nat /\ (o - h) + 1 = t + y /\ (o - h) + 1 < n + 1 - h
        BY <1>1, <2>7, <3>2
      <3> QED BY <2>3, <3>1, <3>2, <3>3, Zenon
    <2>11. PinAt(g, k) \in PinType /\ Valid(g, PinAt(g, k)) /\ Offset(g, PinAt(g, k)) = k
      BY <2>6, <2>10, PinAtGood, Zenon
    <2>12. Settled(g, PinAt(g, k), y)
      BY <1>1, <2>3, <2>10, <2>11, Zenon DEF Settled
    <2>13. Becomes(g, PinAt(g, k), y)
      BY <1>3, <2>1, <2>9, <2>10, Zenon DEF CursorDownScroll
    <2> QED BY <2>3, <2>12, <2>13, Zenon DEF Yields
  <1> QED BY <1>2, <1>3

RotatedOK(l, m) == Good(m) /\ m.total = l.total /\ Stays(l, m) /\ m.pins = l.pins
RewrittenOK(l, m) == Good(m) /\ Kept(l, m) /\ m.total = l.total /\ Stays(l, m)
Within(l, k, limit) == Good(l) /\ k \in Nat /\ limit \in Nat /\ k + limit < Len(AllRows(l))

(* A row brought up from the end, as one fact.                             *)
LEMMA RotatedKeeps ==
    ASSUME NEW l, Good(l), NEW k \in Nat, k < Len(AllRows(l)), NEW j \in Nat, j < Len(AllRows(l))
    PROVE  /\ RotatedOK(l, WithRows(l, Rotated(AllRows(l), k, j)))
           /\ RotatedIs(AllRows(l), k, j, AllRows(WithRows(l, Rotated(AllRows(l), k, j))))
  <1>1. PICK m : m = WithRows(l, Rotated(AllRows(l), k, j))
    OBVIOUS
  <1>2. /\ Good(m) /\ m.total = l.total /\ Stays(l, m) /\ m.pins = l.pins
        /\ AllRows(m) = Rotated(AllRows(l), k, j)
    BY <1>1, RotatedGood
  <1>3. AllRows(l) \in Seq(Nat)
    BY SoundSizes DEF Good
  <1>4. RotatedIs(AllRows(l), k, j, AllRows(m))
    BY <1>2, <1>3, RotatedAre, Zenon
  <1> QED BY <1>1, <1>2, <1>4, Zenon DEF RotatedOK

(* A pin above the row that is brought up stays on its row, and no other rows *)
(* come in.                                                                *)
LEMMA RotatedAbove ==
    ASSUME NEW l, Good(l), NEW m, RotatedOK(l, m),
           NEW k \in Nat, k < Len(AllRows(l)), NEW j \in Nat, j <= k,
           RotatedIs(AllRows(l), k, j, AllRows(m))
    PROVE  /\ ToSet(AllRows(m)) \subseteq ToSet(AllRows(l))
           /\ \A p \in Pins : Offset(l, l.pins[p]) < j => RowOf(m, p) = RowOf(l, p)
  <1>1. PICK R, w : R = AllRows(l) /\ w = AllRows(m)
    OBVIOUS
  <1>2. /\ R \in Seq(Nat) /\ w \in Seq(Nat) /\ Len(w) = Len(R) /\ Len(R) \in Nat
        /\ \A i \in 1 .. Len(R) : From(k, j, i) \in 1 .. Len(R) /\ w[i] = R[From(k, j, i)]
    <2>1. R \in Seq(Nat) /\ Len(R) \in Nat
      BY <1>1, SoundSizes DEF Good
    <2> QED BY <1>1, <2>1, Zenon DEF RotatedIs
  <1>3. ASSUME NEW r \in ToSet(w) PROVE r \in ToSet(R)
    <2>1. PICK i \in 1 .. Len(w) : w[i] = r
      BY <1>2, RowsSet, Zenon
    <2>2. From(k, j, i) \in 1 .. Len(R) /\ R[From(k, j, i)] = r
      BY <1>2, <2>1, Zenon
    <2> QED BY <1>2, <2>2, RowsSet, Zenon
  <1>4. ASSUME NEW p \in Pins, Offset(l, l.pins[p]) < j PROVE RowOf(m, p) = RowOf(l, p)
    <2>1. /\ l.pins[p] \in PinType /\ Valid(l, l.pins[p]) /\ Offset(l, l.pins[p]) \in Nat
          /\ Offset(l, l.pins[p]) < Len(R)
      BY <1>1, Tracked, Zenon DEF Good
    <2>2. PICK o \in Nat : o = Offset(l, l.pins[p])
      BY <2>1
    <2>3. Offset(m, m.pins[p]) = o
      <3>1. PICK pin : pin = l.pins[p]
        OBVIOUS
      <3>2. m.pins[p] = pin /\ pin \in PinType /\ Valid(l, pin) /\ Offset(l, pin) = o
        BY <2>1, <2>2, <3>1, Zenon DEF RotatedOK
      <3>3. Offset(m, pin) = Offset(l, pin)
        BY <3>2, Zenon DEF RotatedOK, Stays
      <3> QED BY <3>2, <3>3, Zenon
    <2>4. o + 1 \in 1 .. Len(R) /\ From(k, j, o + 1) = o + 1
      BY <1>2, <1>4, <2>1, <2>2 DEF From
    <2>5. w[o + 1] = R[o + 1]
      BY <1>2, <2>4, Zenon
    <2> QED BY <1>1, <2>2, <2>3, <2>5, Zenon DEF RowOf
  <1> QED BY <1>1, <1>3, <1>4, Zenon

(* A region scrolled up, as one fact.                                      *)
LEMMA RegionKeeps ==
    ASSUME NEW l, NEW k, NEW limit, Within(l, k, limit)
    PROVE  RewrittenOK(l, EraseRowBounded(l, k, limit))
  <1>1. PICK m : m = EraseRowBounded(l, k, limit)
    OBVIOUS
  <1>2. Good(l) /\ k \in Nat /\ limit \in Nat /\ k + limit < Len(AllRows(l))
    BY Zenon DEF Within
  <1>3. Good(m) /\ Kept(l, m) /\ m.total = l.total /\ Stays(l, m)
    BY <1>1, <1>2, EraseRowBoundedGood
  <1> QED BY <1>1, <1>3, Zenon DEF RewrittenOK

(* The rows of the pins that are not below the cursor are kept.            *)
KeptAbove(m) ==
    \A p \in Pins : Offset(list, list.pins[p]) <= Offset(list, CursorPin) =>
        (RowOf(list, p) \in ToSet(AllRows(m)) => RowOf(m, p) = RowOf(list, p))

AboveYields == \E l, pin, cy : Settled(l, pin, cy) /\ Becomes(l, pin, cy) /\ KeptAbove(l)

(* cursor_scroll_above: the cursor is below the row that it was on.        *)
LEMMA AboveSettles ==
    ASSUME IInv, CursorScrollAbove
    PROVE  AboveYields
  <1>1. /\ Good(list) /\ Offset(list, CursorPin) = ActiveTop(list) + y /\ y \in Nat /\ y \in 0 .. Rows - 1
        /\ ActiveTop(list) \in Nat /\ ActiveTop(list) + Rows = Len(AllRows(list)) /\ Rows \in Nat /\ Rows >= 2
    BY CursorIs DEF IInv
  <1>2. PICK g : g = Grow(list)
    OBVIOUS
  <1>3. PICK h \in Nat : Grown(list, g, h)
    BY <1>1, <1>2, GrowGood, Zenon
  <1>4. /\ Good(g) /\ h + Rows <= Len(AllRows(list)) + 1
        /\ Len(AllRows(g)) = Len(AllRows(list)) + 1 - h
        /\ \A p \in Pins : Moved(list, g, p, h)
    BY <1>3, Zenon DEF Grown
  <1>5. Moved(list, g, "cursor", h)
    <2>1. "cursor" \in Pins
      BY DEF Pins
    <2> QED BY <1>4, <2>1, Zenon
  <1>6. ActiveTop(g) + Rows = Len(AllRows(g)) /\ ActiveTop(g) \in Nat /\ PagesOK(g.pages) /\ Len(AllRows(g)) \in Nat
    BY <1>4, ActiveTopIs, SoundSizes DEF Good, Sound
  <1>7. y >= 1 /\ y <= Rows - 2
    BY <1>1 DEF CursorScrollAbove
  <1>8. PICK o \in Nat, n \in Nat, t \in Nat :
          o = Offset(list, CursorPin) /\ n = Len(AllRows(list)) /\ t = ActiveTop(g)
    BY <1>1, <1>6
  <1>9. o + Rows = n + y /\ h + Rows <= n + 1 /\ t + Rows = n + 1 - h
    <2>1. PICK a \in Nat : a = ActiveTop(list) /\ o = a + y /\ a + Rows = n
      BY <1>1, <1>8, Zenon
    <2>2. h + Rows <= n + 1 /\ t + Rows = n + 1 - h
      BY <1>4, <1>6, <1>8, Zenon
    <2> QED BY <1>1, <2>1, <2>2
  <1>10. h <= o /\ ~(o < h)
    BY <1>1, <1>7, <1>9
  <1>11. Offset(g, g.pins["cursor"]) = o - h
    BY <1>5, <1>8, <1>10, Zenon DEF Moved, CursorPin
  <1>12. PICK k \in Nat : k = Offset(g, g.pins["cursor"]) + 1 /\ k = t + y /\ k < Len(AllRows(g))
    <2>1. (o - h) + 1 \in Nat /\ (o - h) + 1 = t + y /\ (o - h) + 1 < n + 1 - h
      BY <1>1, <1>7, <1>9, <1>10
    <2> QED BY <1>4, <1>8, <1>11, <2>1, Zenon
  <1>13. PICK j \in Nat : j = Len(AllRows(g)) - 1 /\ j < Len(AllRows(g))
    <2>1. PICK n2 \in Nat : n2 = Len(AllRows(g)) /\ k < n2
      BY <1>6, <1>12, Zenon
    <2>2. n2 - 1 \in Nat /\ n2 - 1 < n2
      BY <2>1
    <2> QED BY <2>1, <2>2, Zenon
  <1>14. PICK m : m = WithRows(g, Rotated(AllRows(g), j, k))
    OBVIOUS
  <1>15. /\ Good(m) /\ m.total = g.total /\ Stays(g, m) /\ RotatedOK(g, m)
         /\ RotatedIs(AllRows(g), j, k, AllRows(m))
    <2>1. /\ RotatedOK(g, WithRows(g, Rotated(AllRows(g), j, k)))
          /\ RotatedIs(AllRows(g), j, k, AllRows(WithRows(g, Rotated(AllRows(g), j, k))))
      BY <1>4, <1>12, <1>13, RotatedKeeps, Zenon
    <2> QED BY <1>14, <2>1, Zenon DEF RotatedOK
  <1>16. PinAt(g, k) \in PinType /\ Valid(g, PinAt(g, k)) /\ Offset(g, PinAt(g, k)) = k
    BY <1>6, <1>12, PinAtGood, Zenon
  <1>17. Valid(m, PinAt(g, k)) /\ Offset(m, PinAt(g, k)) = k
    BY <1>15, <1>16, Zenon DEF Stays
  <1>18. ActiveTop(m) = t
    <2>1. ActiveTop(m) = m.total - Rows /\ ActiveTop(g) = g.total - Rows
      BY <1>4, <1>15, ActiveTopIs
    <2> QED BY <1>8, <1>15, <2>1
  <1>19. Settled(m, PinAt(g, k), y)
    BY <1>1, <1>12, <1>15, <1>16, <1>17, <1>18, Zenon DEF Settled
  <1>20. Becomes(m, PinAt(g, k), y)
    BY <1>2, <1>12, <1>13, <1>14, Zenon DEF CursorScrollAbove
  <1>21. KeptAbove(m)
    <2>1. k <= j
      <3>1. PICK n2 \in Nat : n2 = Len(AllRows(g))
        BY <1>6
      <3> QED BY <1>12, <1>13, <3>1
    <2>2. /\ ToSet(AllRows(m)) \subseteq ToSet(AllRows(g))
          /\ \A p \in Pins : Offset(g, g.pins[p]) < k => RowOf(m, p) = RowOf(g, p)
      BY <1>4, <1>13, <1>15, <2>1, RotatedAbove, Zenon
    <2>3. ASSUME NEW p \in Pins, Offset(list, list.pins[p]) <= Offset(list, CursorPin)
          PROVE  Offset(g, g.pins[p]) < k
      <3>1. Offset(list, list.pins[p]) \in Nat /\ Moved(list, g, p, h)
        BY <1>1, <1>4, Tracked, Zenon DEF Good
      <3>2. PICK q \in Nat : q = Offset(list, list.pins[p])
        BY <3>1
      <3>3. k = (o - h) + 1 /\ q <= o /\ 0 < k
        BY <1>8, <1>10, <1>11, <1>12, <2>3, <3>2
      <3>4. CASE h <= q /\ Offset(g, g.pins[p]) = q - h
        BY <1>8, <3>3, <3>4
      <3>5. CASE Offset(g, g.pins[p]) = 0
        BY <3>3, <3>5
      <3> QED BY <3>1, <3>2, <3>4, <3>5, Zenon DEF Moved
    <2>4. Kept(list, g)
      BY <1>3, Zenon DEF Grown
    <2> QED BY <2>2, <2>3, <2>4, Zenon DEF KeptAbove, Kept
  <1> QED BY <1>19, <1>20, <1>21, Zenon DEF AboveYields

(* cursor_scroll_region_up: the cursor stays.                              *)
LEMMA RegionYields ==
    ASSUME IInv, NEW limit \in 1 .. Rows - 1, CursorScrollRegionUp(limit)
    PROVE  Yields
  <1>1. /\ Good(list) /\ CursorPin \in PinType /\ Valid(list, CursorPin)
        /\ Offset(list, CursorPin) = ActiveTop(list) + y /\ y \in Nat /\ ActiveTop(list) \in Nat
        /\ Offset(list, CursorPin) < Len(AllRows(list)) /\ Rows \in Nat
    BY CursorIs
  <1>2. limit <= y /\ limit \in Nat
    BY <1>1 DEF CursorScrollRegionUp
  <1>3. PICK k \in Nat : k = Offset(list, CursorPin) - limit /\ k + limit < Len(AllRows(list))
    <2>1. PICK o \in Nat : o = Offset(list, CursorPin)
      BY <1>1
    <2>2. limit <= o
      BY <1>1, <1>2, <2>1
    <2>3. o - limit \in Nat /\ (o - limit) + limit = o
      BY <1>2, <2>1, <2>2
    <2> QED BY <1>1, <2>1, <2>3
  <1>4. PICK m : m = EraseRowBounded(list, k, limit)
    OBVIOUS
  <1>5. Good(m) /\ Kept(list, m) /\ m.total = list.total /\ Stays(list, m)
    <2>1. Within(list, k, limit)
      BY <1>1, <1>2, <1>3, Zenon DEF Within
    <2>2. RewrittenOK(list, EraseRowBounded(list, k, limit))
      BY <2>1, RegionKeeps, Zenon
    <2> QED BY <1>4, <2>2, Zenon DEF RewrittenOK
  <1>6. Valid(m, CursorPin) /\ Offset(m, CursorPin) = Offset(list, CursorPin)
    BY <1>1, <1>5, Zenon DEF Stays
  <1>7. Settled(m, CursorPin, y)
    BY <1>1, <1>5, <1>6, SameSettled, Zenon
  <1>8. Becomes(m, CursorPin, y)
    BY <1>3, <1>4, Zenon DEF CursorScrollRegionUp
  <1> QED BY <1>5, <1>7, <1>8, Zenon DEF Yields

(* scroll_clear.                                                           *)
LEMMA ClearYields ==
    ASSUME IInv, NEW n \in 1 .. Rows, ScrollClear(n)
    PROVE  Yields
  <1>1. Good(list) /\ n \in Nat
    BY SizeAssumption DEF IInv
  <1>2. GoodKept(list, FoldLeft(GrowOn, list, Times(n)))
    BY <1>1, ClearedGood, Zenon
  <1>3. Reloaded(FoldLeft(GrowOn, list, Times(n)))
    BY Zenon DEF ScrollClear
  <1> QED BY <1>2, <1>3, ReloadYields, Zenon DEF GoodKept

(* The scrollback is erased.                                               *)
LEMMA ErasedYields ==
    ASSUME IInv, EraseScrollback
    PROVE  Yields
  <1>1. Good(EraseHistory(list)) /\ Kept(list, EraseHistory(list))
    BY EraseHistoryGood, Zenon DEF IInv
  <1> QED BY <1>1, ReloadYields, Zenon DEF EraseScrollback

(* The cursor's page gets another capacity.                                *)
LEMMA CapacityYields ==
    ASSUME IInv, NEW larger \in BOOLEAN, ChangeCapacity(larger)
    PROVE  Yields
  <1>1. Good(list) /\ CursorPin \in PinType /\ Valid(list, CursorPin)
    BY CursorIs
  <1>2. Unmoved(list, IncreaseCapacity(list, CursorPin.page, larger))
    BY <1>1, IncreaseCapacityUnmoved, Zenon
  <1> QED BY <1>2, ReloadYields, Zenon DEF ChangeCapacity, Unmoved

(* The cursor's page is split, at the cursor or below it.                  *)
LEMMA SplitYields ==
    ASSUME IInv, NEW below \in BOOLEAN, SplitForCapacity(below)
    PROVE  Yields
  <1>1. /\ Good(list) /\ CursorPin \in PinType /\ Valid(list, CursorPin) /\ PagesOK(list.pages)
        /\ Offset(list, CursorPin) \in Nat /\ Offset(list, CursorPin) < Len(AllRows(list))
    BY CursorIs DEF Good, Sound
  <1>2. PICK at : at = IF below /\ ~(Offset(list, CursorPin) = Len(AllRows(list)) - 1)
                       THEN PinAt(list, Offset(list, CursorPin) + 1) ELSE CursorPin
    OBVIOUS
  <1>3. at \in PinType /\ Valid(list, at)
    <2>1. CASE Offset(list, CursorPin) = Len(AllRows(list)) - 1
      BY <1>1, <1>2, <2>1, Zenon
    <2>2. CASE Offset(list, CursorPin) # Len(AllRows(list)) - 1
      <3>1. Len(AllRows(list)) \in Nat
        BY <1>1, SoundSizes DEF Good
      <3>2. PICK k \in Nat : k = Offset(list, CursorPin) + 1 /\ k < Len(AllRows(list))
        BY <1>1, <2>2, <3>1
      <3>3. PinAt(list, k) \in PinType /\ Valid(list, PinAt(list, k))
        BY <1>1, <3>2, PinAtGood, Zenon
      <3> QED BY <1>1, <1>2, <3>2, <3>3, Zenon
    <2> QED BY <2>1, <2>2
  <1>4. PICK m : m = Split(list, at)
    OBVIOUS
  <1>5. Unmoved(list, m)
    BY <1>1, <1>3, <1>4, SplitUnmoved, Zenon
  <1>6. /\ Good(m) /\ Kept(list, m) /\ m.total = list.total
        /\ \A p \in Pins : Offset(m, m.pins[p]) = Offset(list, list.pins[p])
    BY <1>5, Zenon DEF Unmoved
  <1>7. "cursor" \in Pins
    BY DEF Pins
  <1>8. /\ m.pins["cursor"] \in PinType /\ Valid(m, m.pins["cursor"])
        /\ Offset(m, m.pins["cursor"]) = Offset(list, CursorPin)
    BY <1>6, <1>7, Tracked, Zenon DEF Good, CursorPin
  <1>9. Settled(m, m.pins["cursor"], y)
    BY <1>6, <1>8, SameSettled, Zenon
  <1>10. Becomes(m, m.pins["cursor"], y)
    BY <1>2, <1>4, Zenon DEF SplitForCapacity
  <1> QED BY <1>6, <1>9, <1>10, Zenon DEF Yields

(* The screen is reset.                                                    *)
LEMMA ResetYields ==
    ASSUME IInv, FullReset
    PROVE  Yields
  <1>1. PICK m : m = Reset(list)
    OBVIOUS
  <1>2. Started(m, list.born) /\ Kept(list, m)
    BY <1>1, ResetGood, Zenon DEF IInv
  <1>3. "cursor" \in Pins
    BY DEF Pins
  <1>4. Good(m) /\ AllRows(m) = NewRows(list.born) /\ Offset(m, m.pins["cursor"]) = 0
    BY <1>2, <1>3, Zenon DEF Started
  <1>5. m.pins["cursor"] \in PinType /\ Valid(m, m.pins["cursor"])
    BY <1>3, <1>4, Tracked, Zenon DEF Good
  <1>6. ActiveTop(m) = 0
    <2>1. list.born \in Nat /\ Rows \in Nat
      BY SoundSizes, SizeAssumption DEF IInv, Good
    <2>2. Len(AllRows(m)) = Rows
      BY <1>4, <2>1, NewRowsOnce
    <2> QED BY <2>1, <2>2 DEF ActiveTop
  <1>7. 0 \in 0 .. Rows - 1 /\ 0 = 0 + 0
    BY SizeAssumption
  <1>8. Settled(m, m.pins["cursor"], 0)
    BY <1>4, <1>5, <1>6, <1>7, Zenon DEF Settled
  <1>9. Becomes(m, m.pins["cursor"], 0)
    BY <1>1, Zenon DEF FullReset
  <1> QED BY <1>2, <1>8, <1>9, Zenon DEF Yields

(* What the program prints, erases or splits, but for cursor_scroll_above. *)
LEMMA OutputYields ==
    ASSUME IInv, Output
    PROVE  CursorScrollAbove \/ Yields
  <1>1. CASE \E to \in 0 .. Rows - 1 : CursorMove(to)
    BY <1>1, MoveYields, Zenon
  <1>2. CASE CursorDownScroll
    BY <1>2, DownYields, Zenon
  <1>3. CASE \E limit \in 1 .. Rows - 1 : CursorScrollRegionUp(limit)
    BY <1>3, RegionYields, Zenon
  <1>4. CASE \E n \in 1 .. Rows : ScrollClear(n)
    BY <1>4, ClearYields, Zenon
  <1>5. CASE EraseScrollback
    BY <1>5, ErasedYields, Zenon
  <1>6. CASE \E larger \in BOOLEAN : ChangeCapacity(larger)
    BY <1>6, CapacityYields, Zenon
  <1>7. CASE \E below \in BOOLEAN : SplitForCapacity(below)
    BY <1>7, SplitYields, Zenon
  <1>8. CASE FullReset
    BY <1>8, ResetYields, Zenon
  <1> QED BY <1>1, <1>2, <1>3, <1>4, <1>5, <1>6, <1>7, <1>8, Zenon DEF Output

(* A scrolled viewport leaves the cursor alone.                            *)
LEMMA ScrolledSettles ==
    ASSUME IInv, NEW m, Viewed(list, m), Scrolled(m)
    PROVE  Settles
  <1>1. Viewed(list, ToActive(list))
    BY ToActiveViewed, Zenon DEF IInv
  <1>2. PICK o : o = IF scrollback THEN m ELSE ToActive(list)
    OBVIOUS
  <1>3. Viewed(list, o)
    BY <1>1, <1>2, Zenon
  <1>4. Settled(o, CursorPin, y)
    BY <1>3, ViewedSettled, Zenon
  <1>5. Becomes(o, CursorPin, y)
    BY <1>2, Zenon DEF Scrolled
  <1> QED BY <1>4, <1>5, Zenon DEF Settles

(* Screen::scroll, in each of its forms.                                   *)
LEMMA ScrollSettles ==
    ASSUME IInv, Scroll
    PROVE  Settles
  <1>1. Good(list) /\ Len(AllRows(list)) \in Nat
    BY SoundSizes DEF IInv, Good
  <1>2. CASE Scrolled(ToActive(list))
    BY <1>1, <1>2, ToActiveViewed, ScrolledSettles, Zenon
  <1>3. CASE Scrolled(ToTop(list))
    BY <1>1, <1>3, ToTopViewed, ScrolledSettles, Zenon
  <1>4. ASSUME NEW k \in 0 .. Len(AllRows(list)) - 1, Scrolled(ScrollPin(list, k)) \/ Scrolled(ScrollRow(list, k))
        PROVE  Settles
    <2>1. k \in Nat
      BY <1>1
    <2>2. Viewed(list, ScrollPin(list, k))
      BY <1>1, <2>1, ScrollPinViewed, Zenon
    <2>3. Viewed(list, ScrollRow(list, k))
      <3>1. PICK m : m = ScrollRow(list, k)
        OBVIOUS
      <3>2. Viewed(list, m)
        BY <1>1, <2>1, <3>1, ScrollRowViewed
      <3> QED BY <3>1, <3>2, Zenon
    <2> QED BY <1>4, <2>2, <2>3, ScrolledSettles, Zenon
  <1>5. ASSUME NEW n \in Deltas, Scrolled(ScrollDelta(list, n)) PROVE Settles
    <2>1. n \in Int
      BY SizeAssumption
    <2>2. Viewed(list, ScrollDelta(list, n))
      BY <1>1, <2>1, ScrollDeltaViewed, Zenon
    <2> QED BY <1>5, <2>2, ScrolledSettles, Zenon
  <1> QED BY <1>2, <1>3, <1>4, <1>5, Zenon DEF Scroll

(* The scrollbar is read.                                                  *)
LEMMA ScrollbarSettles ==
    ASSUME IInv, ReadScrollbar
    PROVE  Settles
  <1>1. PICK o : o = IF scrollback THEN Scrollbar(list) ELSE list
    OBVIOUS
  <1>2. Viewed(list, o)
    BY <1>1, ScrollbarViewed, ViewedSelf, Zenon DEF IInv
  <1>3. Settled(o, CursorPin, y)
    BY <1>2, ViewedSettled, Zenon
  <1>4. Becomes(o, CursorPin, y)
    BY <1>1, Zenon DEF ReadScrollbar
  <1> QED BY <1>3, <1>4, Zenon DEF Settles

(* A selection is made elsewhere.                                          *)
LEMMA MarkSettles ==
    ASSUME IInv, Mark
    PROVE  Settles
  <1>1. Good(list) /\ PagesOK(list.pages) /\ Len(AllRows(list)) \in Nat
    BY SoundSizes DEF IInv, Good
  <1>2. PICK k \in 0 .. Len(AllRows(list)) - 1 :
          Becomes([list EXCEPT !.pins["mark"] = PinAt(list, k)], CursorPin, y)
    BY Zenon DEF Mark
  <1>3. k \in Nat /\ k < Len(AllRows(list))
    BY <1>1
  <1>4. PinAt(list, k) \in PinType /\ Valid(list, PinAt(list, k))
    BY <1>1, <1>3, PinAtGood, Zenon
  <1>5. "mark" \in Pins /\ "mark" # "viewport"
    BY DEF Pins
  <1>6. PinPutIs(list, PutPin(list, "mark", PinAt(list, k)), "mark", PinAt(list, k))
    BY <1>1, <1>4, <1>5, PutPinIs, Zenon
  <1>7. Viewed(list, PutPin(list, "mark", PinAt(list, k)))
    BY <1>6, Zenon DEF PinPutIs
  <1>8. Settled(PutPin(list, "mark", PinAt(list, k)), CursorPin, y)
    BY <1>7, ViewedSettled, Zenon
  <1>9. Becomes(PutPin(list, "mark", PinAt(list, k)), CursorPin, y)
    BY <1>2, Zenon DEF PutPin
  <1> QED BY <1>8, <1>9, Zenon DEF Settles

-----------------------------------------------------------------------------
(* A new screen, with any number of lines printed, satisfies the invariant. *)
THEOREM InitIInv == Init => IInv
  <1> SUFFICES ASSUME Init PROVE IInv
    OBVIOUS
  <1>1. PICK n \in IF scrollback THEN Histories ELSE {0} :
          list = [FoldLeft(PrintedOn, NewList, Times(n)) EXCEPT !.pins["cursor"] =
                    PinAt(FoldLeft(PrintedOn, NewList, Times(n)), ActiveTop(FoldLeft(PrintedOn, NewList, Times(n))) + Rows - 1)]
    BY Zenon DEF Init
  <1>2. n \in Nat
    BY SizeAssumption
  <1>3. PICK l : l = FoldLeft(PrintedOn, NewList, Times(n))
    OBVIOUS
  <1>4. Good(l)
    BY <1>2, <1>3, PrintedGood, Zenon
  <1>5. list = [l EXCEPT !.pins["cursor"] = PinAt(l, ActiveTop(l) + Rows - 1)]
    BY <1>1, <1>3, Zenon
  <1>6. Good(list) /\ Offset(list, list.pins["cursor"]) = ActiveTop(list) + Rows - 1 /\ ActiveTop(list) \in Nat
    <2>1. Good(list) /\ Offset(list, list.pins["cursor"]) = ActiveTop(list) + Rows - 1
      BY <1>4, <1>5, BottomPin
    <2> QED BY <2>1, ActiveTopIs
  <1>7. y = Rows - 1 /\ y \in 0 .. Rows - 1 /\ Rows \in Nat
    BY SizeAssumption DEF Init
  <1>8. ActiveTop(list) + Rows - 1 = ActiveTop(list) + y
    BY <1>6, <1>7
  <1> QED BY <1>6, <1>7, <1>8, Zenon DEF IInv, CursorOnItsRow, CursorPin

(* Every step keeps the invariant: one case for each operation of the screen. *)
THEOREM StepIInv == IInv /\ [Next]_vars => IInv'
  <1> SUFFICES ASSUME IInv, [Next]_vars PROVE IInv'
    OBVIOUS
  <1>1. ASSUME Settles PROVE IInv'
    BY <1>1, Becoming, Zenon DEF Settles
  <1>2. ASSUME Yields PROVE IInv'
    BY <1>1, <1>2, Zenon DEF Yields, Settles
  <1>3. CASE CursorScrollAbove
    <2>1. AboveYields
      BY <1>3, AboveSettles, Zenon
    <2> QED BY <1>1, <2>1, Zenon DEF AboveYields, Settles
  <1>4. CASE Scroll
    BY <1>1, <1>4, ScrollSettles, Zenon
  <1>5. CASE ReadScrollbar
    BY <1>1, <1>5, ScrollbarSettles, Zenon
  <1>6. CASE Mark
    BY <1>1, <1>6, MarkSettles, Zenon
  <1>7. CASE UNCHANGED vars
    BY <1>7 DEF vars, IInv, CursorOnItsRow, CursorPin
  <1> QED BY <1>2, <1>3, <1>4, <1>5, <1>6, <1>7, OutputYields, Zenon DEF Next

(* So the invariant holds in every state of every behaviour.               *)
THEOREM SpecIInv == Spec => []IInv
  BY InitIInv, StepIInv, PTL DEF Spec

(* The invariant has all that verify_integrity and assert_integrity ask for. *)
LEMMA IntegrityHolds == IInv => Integrity
  <1> SUFFICES ASSUME IInv PROVE Integrity
    OBVIOUS
  <1>1. Good(list) /\ Sound(list) /\ PagesOK(list.pages) /\ list.pages \in Seq(PageType)
    BY SoundSizes DEF IInv, Good
  <1>2. TypeOK
    <2>1. list.total = Len(AllRows(list)) /\ list.total >= Rows /\ \A p \in Pins : Valid(list, list.pins[p])
      BY <1>1, Zenon DEF Good, Sound
    <2>2. \A i \in DOMAIN list.pages : Heights(list)[i] \in 1 .. RowCap
      BY <1>1, HeightsIs, Zenon DEF PagesOK
    <2> QED BY <2>1, <2>2, Zenon DEF TypeOK, IInv
  <1>3. ViewportExact
    BY <1>1, ViewportPin DEF ViewportExact
  <1> QED BY <1>2, <1>3, Zenon DEF Integrity, IInv

(* PageList::verify_integrity and Screen::assert_integrity never fail: rows are *)
(* counted, pages filled within their bounds, tracked pins on rows that exist, a *)
(* cached viewport offset exact, the cursor's pin on the cursor's line.    *)
THEOREM ListIntegrity == Spec => []Integrity
  BY SpecIInv, IntegrityHolds, PTL

(* With an exact cache the slider lands.                                   *)
LEMMA ScrollRowHolds == IInv => ScrollRowLands
  <1> SUFFICES ASSUME IInv, NEW n \in 0 .. list.total - Rows
               PROVE  TopLeft(ScrollRow(list, n)) = n /\ ShownOffset(ScrollRow(list, n)) = n
    BY Zenon DEF ScrollRowLands
  <1>1. Good(list) /\ list.total \in Nat /\ Rows \in Nat
    BY SoundSizes, SizeAssumption DEF IInv, Good
  <1>2. n \in Nat /\ n <= list.total - Rows
    BY <1>1
  <1>3. PICK m : m = ScrollRow(list, n)
    OBVIOUS
  <1>4. TopLeft(m) = n /\ ShownOffset(m) = n
    BY <1>1, <1>2, <1>3, ScrollRowViewed
  <1> QED BY <1>3, <1>4, Zenon

(* Dragging the scrollbar to a row always shows that row, and says so.     *)
THEOREM DragLands == Spec => []ScrollRowLands
  BY SpecIInv, ScrollRowHolds, PTL

(* A pin of the list l that is on its row is on it in the screen's list.   *)
LEMMA PutFollows ==
    ASSUME NEW l, NEW pin, NEW cy, Settled(l, pin, cy), Becomes(l, pin, cy),
           NEW p \in Pins, p # "cursor",
           RowOf(list, p) \in ToSet(AllRows(l)) => RowOf(l, p) = RowOf(list, p)
    PROVE  Follows(p)
  <1>1. PinPutIs(l, list', "cursor", pin)
    BY Becoming, Zenon
  <1>2. list'.pages = l.pages /\ \A q \in Pins : q # "cursor" => list'.pins[q] = l.pins[q]
    BY <1>1, Zenon DEF PinPutIs, Viewed
  <1>3. AllRows(list') = AllRows(l) /\ \A q : Offset(list', q) = Offset(l, q)
    BY <1>2, SamePages, Zenon
  <1>4. RowOf(list', p) = RowOf(l, p)
    BY <1>2, <1>3, Zenon DEF RowOf
  <1> QED BY <1>3, <1>4, Zenon DEF Follows

(* The two pins that the program does not move stay on their rows.         *)
LEMMA OutputFollows ==
    ASSUME IInv, Output
    PROVE  /\ TurnedUnder("mark") \/ Follows("mark")
           /\ list.viewport = "pin" => Follows("viewport")
  <1>1. "mark" \in Pins /\ "mark" # "cursor" /\ "viewport" \in Pins /\ "viewport" # "cursor"
    BY DEF Pins
  <1>2. CASE Yields
    <2>1. PICK l, pin, cy : Settled(l, pin, cy) /\ Becomes(l, pin, cy) /\ Kept(list, l)
      BY <1>2, Zenon DEF Yields
    <2>2. \A p \in Pins : RowOf(list, p) \in ToSet(AllRows(l)) => RowOf(l, p) = RowOf(list, p)
      BY <2>1, Zenon DEF Kept
    <2> QED BY <1>1, <2>1, <2>2, PutFollows, Zenon
  <1>3. CASE CursorScrollAbove
    <2>1. PICK l, pin, cy : Settled(l, pin, cy) /\ Becomes(l, pin, cy) /\ KeptAbove(l)
      BY <1>3, AboveSettles, Zenon DEF AboveYields
    <2>2. ASSUME NEW p \in Pins, p # "cursor", Offset(list, list.pins[p]) <= Offset(list, CursorPin)
          PROVE  Follows(p)
      BY <2>1, <2>2, PutFollows, Zenon DEF KeptAbove
    <2>3. /\ Good(list) /\ Offset(list, CursorPin) = ActiveTop(list) + y /\ y \in Nat
          /\ ActiveTop(list) \in Nat
      BY CursorIs
    <2>4. Offset(list, list.pins["mark"]) \in Nat
      BY <1>1, <2>3, Tracked, Zenon DEF Good
    <2>5. TurnedUnder("mark") \/ Follows("mark")
      <3>1. \/ Offset(list, list.pins["mark"]) <= Offset(list, CursorPin)
            \/ Offset(list, list.pins["mark"]) > Offset(list, CursorPin)
        BY <2>3, <2>4
      <3> QED BY <1>1, <1>3, <2>2, <3>1, Zenon DEF TurnedUnder
    <2>6. ASSUME list.viewport = "pin" PROVE Follows("viewport")
      <3>1. /\ Offset(list, list.pins["viewport"]) \in Nat
            /\ Offset(list, list.pins["viewport"]) <= ActiveTop(list)
        BY <2>3, <2>6, ViewportPin
      <3>2. Offset(list, list.pins["viewport"]) <= Offset(list, CursorPin)
        BY <2>3, <3>1
      <3> QED BY <1>1, <2>2, <3>2, Zenon
    <2> QED BY <2>5, <2>6, Zenon
  <1> QED BY <1>2, <1>3, OutputYields, Zenon

(* A selection or a viewport that is scrolled back stays on its row, for as long *)
(* as the row is there, through any output but one: pruning, erasing, scrolling a *)
(* region, cloning and splitting pages move its pin with it.  The one left out is *)
(* a line feed in a region anchored at the top, for pins below the cursor.  *)
THEOREM PinsFollow == Spec => PinsFollowRows
  <1>1. IInv => [list' # list /\ Output =>
                    /\ TurnedUnder("mark") \/ Follows("mark")
                    /\ list.viewport = "pin" => Follows("viewport")]_vars
    BY OutputFollows, Zenon
  <1> QED BY <1>1, SpecIInv, PTL DEF PinsFollowRows

=============================================================================
