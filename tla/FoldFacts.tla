------------------------------ MODULE FoldFacts ------------------------------
(***************************************************************************)
(* What a fold over a sequence does, proved once for any step.  The models *)
(* iterate with FoldLeft of the community modules; a proof about one of    *)
(* those steps instantiates this module with it:                           *)
(*    Calls == INSTANCE FoldFacts WITH Step <- Call, Inv <- Good           *)
(* so that induction over the sequence need not be repeated.               *)
(***************************************************************************)
EXTENDS Integers, Sequences, SequencesExt, WellFoundedInduction, TLAPS

CONSTANTS
    Step(_, _),  \* from what was accumulated and an element to what is next
    Inv(_, _)    \* of something fixed: what the accumulated value always satisfies

(* Induction over the natural numbers for a set, which needs no operator   *)
(* parameter: the least number outside S would have a predecessor in S.    *)
LEMMA NatSetInduction ==
    ASSUME NEW S, S \subseteq Nat, 0 \in S, \A n \in S : n + 1 \in S
    PROVE  S = Nat
  <1> DEFINE R == OpToRel(<, Nat)
  <1>1. SUFFICES ASSUME Nat \ S # {} PROVE FALSE
    OBVIOUS
  <1>2. IsWellFoundedOn(R, Nat)
    BY NatLessThanWellFounded
  <1>3. \A x, y \in Nat : x < y => <<x, y>> \in R
    BY DEF OpToRel
  <1>4. Nat \ S \subseteq Nat
    OBVIOUS
  <1> HIDE DEF R
  <1>5. PICK x \in Nat \ S : \A y \in Nat \ S : ~(<<y, x>> \in R)
    BY <1>1, <1>2, <1>4, WFMin
  <1>6. x # 0 /\ x - 1 \in Nat /\ x - 1 < x
    BY <1>5
  <1>7. x - 1 \in S
    BY <1>3, <1>5, <1>6
  <1> QED BY <1>5, <1>6, <1>7

(* A set of natural numbers with a member has a least one.                 *)
LEMMA LeastExists ==
    ASSUME NEW S, S \subseteq Nat, S # {}
    PROVE  \E n \in S : \A m \in S : n <= m
  <1> DEFINE R == OpToRel(<, Nat)
  <1>1. IsWellFoundedOn(R, Nat)
    BY NatLessThanWellFounded
  <1>2. \A x, y \in Nat : x < y => <<x, y>> \in R
    BY DEF OpToRel
  <1> HIDE DEF R
  <1>3. PICK n \in S : \A m \in S : ~(<<m, n>> \in R)
    BY <1>1, WFMin
  <1>4. ASSUME NEW m \in S PROVE n <= m
    <2>1. n \in Nat /\ m \in Nat
      OBVIOUS
    <2>2. ~(m < n)
      BY <1>2, <1>3, <2>1
    <2> QED BY <2>1, <2>2
  <1> QED BY <1>4

-----------------------------------------------------------------------------
(* FoldLeft is defined by a function on the sets of indices; this is the   *)
(* equation that function satisfies, with the largest index taken last.    *)
Fold(base, s) == FoldLeft(Step, base, s)

Folds(base, s, f, T) ==
    IF T = {} THEN base ELSE LET x == Max(T) IN Step(f[T \ {x}], s[x])
IsFold(base, s, f, D) == f = [T \in SUBSET D |-> Folds(base, s, f, T)]

LEMMA FoldExpanded ==
    ASSUME NEW base, NEW s
    PROVE  Fold(base, s) =
             (CHOOSE f : f = [T \in SUBSET DOMAIN s |->
                IF T = {} THEN base
                ELSE LET x == Max(T) IN Step(f[T \ {x}], s[x])])[DOMAIN s]
  BY Zenon DEF Fold, FoldLeft, MapThenFoldSet

LEMMA MaxOfInterval ==
    ASSUME NEW n \in Nat, NEW T \in SUBSET (1 .. n + 1), n + 1 \in T
    PROVE  Max(T) = n + 1
  <1>1. /\ n + 1 \in T
        /\ \A y \in T : n + 1 >= y
    OBVIOUS
  <1>2. Max(T) \in T /\ \A y \in T : Max(T) >= y
    BY <1>1, Zenon DEF Max
  <1> HIDE DEF Max
  <1>3. Max(T) \in 1 .. n + 1 /\ Max(T) >= n + 1
    BY <1>1, <1>2
  <1> QED BY <1>3

(* There is such a function, however long the sequence.                    *)
LEMMA FoldExists ==
    ASSUME NEW base, NEW s, NEW n \in Nat
    PROVE  \E f : IsFold(base, s, f, 1 .. n)
  <1> DEFINE S == {k \in Nat : \E f : IsFold(base, s, f, 1 .. k)}
  <1>1. 0 \in S
    <2> DEFINE f == [T \in SUBSET (1 .. 0) |-> base]
    <2>1. \A T \in SUBSET (1 .. 0) : T = {}
      OBVIOUS
    <2> HIDE DEF f
    <2>2. \A T \in SUBSET (1 .. 0) : Folds(base, s, f, T) = base
      BY <2>1 DEF Folds
    <2>3. IsFold(base, s, f, 1 .. 0)
      BY <2>2 DEF f, IsFold
    <2> QED BY <2>3
  <1>2. ASSUME NEW k \in S PROVE k + 1 \in S
    <2>1. k \in Nat
      OBVIOUS
    <2>2. PICK g : IsFold(base, s, g, 1 .. k)
      OBVIOUS
    <2> DEFINE f == [T \in SUBSET (1 .. k + 1) |->
                       IF k + 1 \in T THEN Step(g[T \ {k + 1}], s[k + 1]) ELSE g[T]]
    <2>3. ASSUME NEW T \in SUBSET (1 .. k + 1)
          PROVE  f[T] = Folds(base, s, f, T)
      <3>1. CASE k + 1 \in T
        <4>1. Max(T) = k + 1 /\ T # {}
          BY <2>1, <3>1, MaxOfInterval
        <4>2. T \ {k + 1} \in SUBSET (1 .. k + 1) /\ k + 1 \notin T \ {k + 1}
          OBVIOUS
        <4>3. f[T \ {k + 1}] = g[T \ {k + 1}]
          BY <4>2
        <4>4. f[T] = Step(g[T \ {k + 1}], s[k + 1])
          BY <3>1
        <4> HIDE DEF f
        <4> QED BY <4>1, <4>3, <4>4 DEF Folds
      <3>2. CASE k + 1 \notin T
        <4>1. T \in SUBSET (1 .. k)
          BY <2>1, <3>2
        <4>2. f[T] = g[T]
          BY <3>2
        <4>3. g[T] = Folds(base, s, g, T)
          BY <2>2, <4>1 DEF IsFold
        <4>4. CASE T = {}
          BY <4>2, <4>3, <4>4 DEF Folds
        <4>5. CASE T # {}
          <5>1. \A x : f[T \ {x}] = g[T \ {x}]
            BY <3>2, <2>1
          <5> HIDE DEF f
          <5> QED BY <5>1, <4>2, <4>3, <4>5 DEF Folds
        <4> QED BY <4>4, <4>5
      <3> QED BY <3>1, <3>2
    <2>4. f = [T \in SUBSET (1 .. k + 1) |-> f[T]]
      OBVIOUS
    <2> HIDE DEF f
    <2>5. IsFold(base, s, f, 1 .. k + 1)
      BY <2>3, <2>4 DEF IsFold
    <2> QED BY <2>1, <2>5
  <1>3. S = Nat
    <2>1. S \subseteq Nat
      OBVIOUS
    <2> HIDE DEF S
    <2> QED BY <1>1, <1>2, <2>1, NatSetInduction
  <1> QED BY <1>3

-----------------------------------------------------------------------------
(* A fold goes through the values acc[0], acc[1], ...: it begins with the  *)
(* base and each element takes one value to the next.                      *)
LEMMA Folded ==
    ASSUME NEW base, NEW D, NEW s \in Seq(D)
    PROVE  \E acc : /\ DOMAIN acc = 0 .. Len(s)
                    /\ acc[0] = base
                    /\ \A k \in 1 .. Len(s) : acc[k] = Step(acc[k - 1], s[k])
                    /\ Fold(base, s) = acc[Len(s)]
  <1> DEFINE f == CHOOSE i : IsFold(base, s, i, 1 .. Len(s))
             acc == [k \in 0 .. Len(s) |-> f[1 .. k]]
  <1>1. Len(s) \in Nat /\ DOMAIN s = 1 .. Len(s)
    OBVIOUS
  <1>2. IsFold(base, s, f, 1 .. Len(s))
    BY <1>1, FoldExists
  <1>3. Fold(base, s) = f[1 .. Len(s)]
    <2>1. Fold(base, s) =
            (CHOOSE i : i = [T \in SUBSET DOMAIN s |->
               IF T = {} THEN base
               ELSE LET x == Max(T) IN Step(i[T \ {x}], s[x])])[DOMAIN s]
      BY FoldExpanded
    <2> QED BY <2>1, <1>1, Zenon DEF IsFold, Folds
  <1> HIDE DEF f
  <1>4. \A T \in SUBSET (1 .. Len(s)) : f[T] = Folds(base, s, f, T)
    BY <1>2 DEF IsFold
  <1>5. acc[0] = base
    <2>1. 1 .. 0 = {} /\ {} \in SUBSET (1 .. Len(s)) /\ 0 \in 0 .. Len(s)
      BY <1>1
    <2> QED BY <2>1, <1>4 DEF Folds
  <1>6. ASSUME NEW k \in 1 .. Len(s) PROVE acc[k] = Step(acc[k - 1], s[k])
    <2>1. k - 1 \in Nat /\ k = (k - 1) + 1 /\ k - 1 \in 0 .. Len(s) /\ k \in 0 .. Len(s)
      BY <1>1
    <2>2. 1 .. k \in SUBSET (1 .. Len(s)) /\ k \in 1 .. k /\ (1 .. k) \ {k} = 1 .. k - 1
      BY <1>1
    <2>3. Max(1 .. k) = k
      BY <2>1, <2>2, MaxOfInterval
    <2>4. f[1 .. k] = Step(f[1 .. k - 1], s[k])
      BY <1>4, <2>2, <2>3 DEF Folds
    <2> QED BY <2>1, <2>4
  <1>7. acc[Len(s)] = Fold(base, s) /\ DOMAIN acc = 0 .. Len(s)
    BY <1>1, <1>3
  <1> HIDE DEF acc
  <1> QED BY <1>5, <1>6, <1>7

(* Those values are the only ones, so a fold can be taken apart.           *)
Runs(base, s, acc, n) ==
    acc[0] = base /\ \A k \in 1 .. n : acc[k] = Step(acc[k - 1], s[k])

LEMMA RunsUnique ==
    ASSUME NEW base, NEW s, NEW t, NEW f, NEW g, NEW n \in Nat,
           Runs(base, s, f, n), Runs(base, t, g, n), \A k \in 1 .. n : s[k] = t[k]
    PROVE  f[n] = g[n]
  <1> DEFINE S == {k \in Nat : k <= n => f[k] = g[k]}
  <1>1. 0 \in S
    BY DEF Runs
  <1>2. ASSUME NEW k \in S PROVE k + 1 \in S
    <2>1. CASE k + 1 <= n
      <3>1. k \in Nat /\ k <= n /\ k + 1 \in 1 .. n /\ (k + 1) - 1 = k
        BY <2>1
      <3>2. f[k + 1] = Step(f[k], s[k + 1]) /\ g[k + 1] = Step(g[k], t[k + 1])
        BY <3>1 DEF Runs
      <3>3. f[k] = g[k] /\ s[k + 1] = t[k + 1]
        BY <3>1
      <3> QED BY <3>1, <3>2, <3>3
    <2>2. CASE ~(k + 1 <= n)
      BY <2>2
    <2> QED BY <2>1, <2>2
  <1>3. S = Nat
    <2>1. S \subseteq Nat
      OBVIOUS
    <2> HIDE DEF S
    <2> QED BY <1>1, <1>2, <2>1, NatSetInduction
  <1> QED BY <1>3

LEMMA FoldEmpty ==
    ASSUME NEW base
    PROVE  Fold(base, <<>>) = base
  <1>1. <<>> \in Seq({}) /\ Len(<<>>) = 0
    OBVIOUS
  <1>2. \E acc : /\ DOMAIN acc = 0 .. Len(<<>>)
                 /\ acc[0] = base
                 /\ \A k \in 1 .. Len(<<>>) : acc[k] = Step(acc[k - 1], <<>>[k])
                 /\ Fold(base, <<>>) = acc[Len(<<>>)]
    BY <1>1, Folded
  <1> QED BY <1>1, <1>2

LEMMA FoldOne ==
    ASSUME NEW base, NEW x
    PROVE  Fold(base, <<x>>) = Step(base, x)
  <1> DEFINE s == <<x>>
  <1>1. s \in Seq({x}) /\ Len(s) = 1 /\ s[1] = x
    OBVIOUS
  <1> HIDE DEF s
  <1>2. PICK acc : /\ acc[0] = base
                   /\ \A k \in 1 .. Len(s) : acc[k] = Step(acc[k - 1], s[k])
                   /\ Fold(base, s) = acc[Len(s)]
    BY <1>1, Folded
  <1>3. acc[1] = Step(acc[1 - 1], s[1])
    BY <1>1, <1>2
  <1>4. 1 - 1 = 0
    OBVIOUS
  <1>5. Fold(base, s) = Step(base, x)
    BY <1>1, <1>2, <1>3, <1>4
  <1> QED BY <1>5 DEF s

LEMMA FoldConcat ==
    ASSUME NEW D, NEW s \in Seq(D), NEW t \in Seq(D), NEW base
    PROVE  Fold(base, s \o t) = Fold(Fold(base, s), t)
  <1> DEFINE m == Len(s)
             n == Len(t)
             u == s \o t
             mid == Fold(base, s)
  <1>1. /\ m \in Nat /\ n \in Nat /\ u \in Seq(D) /\ Len(u) = m + n
        /\ \A k \in 1 .. m : u[k] = s[k]
        /\ \A k \in 1 .. n : u[m + k] = t[k]
    OBVIOUS
  <1>u. u \in Seq(D)
    OBVIOUS
  <1> HIDE DEF u, m, n, mid
  <1>2. PICK acc : Runs(base, u, acc, Len(u)) /\ Fold(base, u) = acc[Len(u)]
    <2>1. \E acc : /\ DOMAIN acc = 0 .. Len(u)
                   /\ acc[0] = base
                   /\ \A k \in 1 .. Len(u) : acc[k] = Step(acc[k - 1], u[k])
                   /\ Fold(base, u) = acc[Len(u)]
      BY <1>u, Folded
    <2> QED BY <2>1 DEF Runs
  <1>3. PICK f : Runs(base, s, f, m) /\ mid = f[m]
    <2>1. \E f : /\ DOMAIN f = 0 .. Len(s)
                 /\ f[0] = base
                 /\ \A k \in 1 .. Len(s) : f[k] = Step(f[k - 1], s[k])
                 /\ Fold(base, s) = f[Len(s)]
      BY Folded
    <2> QED BY <2>1 DEF Runs, m, mid
  <1>4. acc[m] = mid
    <2>1. Runs(base, u, acc, m)
      BY <1>1, <1>2 DEF Runs
    <2> QED BY <1>1, <1>3, <2>1, RunsUnique
  <1>5. PICK g : Runs(mid, t, g, n) /\ Fold(mid, t) = g[n]
    <2>1. \E g : /\ DOMAIN g = 0 .. Len(t)
                 /\ g[0] = mid
                 /\ \A k \in 1 .. Len(t) : g[k] = Step(g[k - 1], t[k])
                 /\ Fold(mid, t) = g[Len(t)]
      BY Folded
    <2> QED BY <2>1 DEF Runs, n
  <1>6. Runs(mid, t, [k \in 0 .. n |-> acc[m + k]], n)
    <2> DEFINE h == [k \in 0 .. n |-> acc[m + k]]
    <2>1. h[0] = mid
      BY <1>1, <1>4
    <2>2. ASSUME NEW k \in 1 .. n PROVE h[k] = Step(h[k - 1], t[k])
      <3>1. /\ k \in 0 .. n /\ k - 1 \in 0 .. n /\ m + k \in 1 .. Len(u)
            /\ (m + k) - 1 = m + (k - 1)
        BY <1>1
      <3>2. acc[m + k] = Step(acc[m + (k - 1)], u[m + k])
        BY <1>2, <3>1 DEF Runs
      <3> QED BY <1>1, <3>1, <3>2
    <2> HIDE DEF h
    <2> QED BY <2>1, <2>2 DEF h, Runs
  <1>7. [k \in 0 .. n |-> acc[m + k]][n] = g[n]
    <2> DEFINE h == [k \in 0 .. n |-> acc[m + k]]
    <2>1. Runs(mid, t, h, n)
      BY <1>6
    <2> HIDE DEF h
    <2>2. h[n] = g[n]
      BY <1>1, <1>5, <2>1, RunsUnique
    <2> QED BY <2>2 DEF h
  <1>8. acc[m + n] = g[n]
    BY <1>1, <1>7
  <1>9. Fold(base, u) = Fold(mid, t)
    BY <1>1, <1>2, <1>5, <1>8
  <1> QED BY <1>9 DEF u, mid

(* What the base satisfies and every step keeps, the fold satisfies.       *)
LEMMA FoldKeeps ==
    ASSUME NEW D, NEW s \in Seq(D), NEW base, NEW c, Inv(c, base),
           \A a : \A x \in D : Inv(c, a) => Inv(c, Step(a, x))
    PROVE  Inv(c, Fold(base, s))
  <1>1. PICK acc : /\ DOMAIN acc = 0 .. Len(s)
                   /\ acc[0] = base
                   /\ \A k \in 1 .. Len(s) : acc[k] = Step(acc[k - 1], s[k])
                   /\ Fold(base, s) = acc[Len(s)]
    BY Folded
  <1> DEFINE S == {k \in Nat : k <= Len(s) => Inv(c, acc[k])}
  <1>2. Len(s) \in Nat /\ DOMAIN s = 1 .. Len(s)
    OBVIOUS
  <1>3. 0 \in S
    BY <1>1
  <1>4. ASSUME NEW k \in S PROVE k + 1 \in S
    <2>1. CASE k + 1 <= Len(s)
      <3>1. k \in Nat /\ k <= Len(s) /\ k + 1 \in 1 .. Len(s) /\ (k + 1) - 1 = k
        BY <1>2, <2>1
      <3>2. Inv(c, acc[k]) /\ s[k + 1] \in D
        BY <3>1
      <3>3. acc[k + 1] = Step(acc[k], s[k + 1])
        BY <1>1, <3>1
      <3>4. Inv(c, Step(acc[k], s[k + 1]))
        BY <3>2
      <3> QED BY <3>1, <3>3, <3>4
    <2>2. CASE ~(k + 1 <= Len(s))
      BY <2>2
    <2> QED BY <2>1, <2>2
  <1>5. S = Nat
    <2>1. S \subseteq Nat
      OBVIOUS
    <2> HIDE DEF S
    <2> QED BY <1>3, <1>4, <2>1, NatSetInduction
  <1>6. Len(s) \in S
    BY <1>2, <1>5
  <1> QED BY <1>1, <1>6

(* The same, where what the accumulated value satisfies depends on how many *)
(* elements were taken: Inv is given both.                                 *)
LEMMA FoldReaches ==
    ASSUME NEW D, NEW s \in Seq(D), NEW base, NEW c, Inv(c, <<0, base>>),
           \A a : \A k \in 1 .. Len(s) :
             Inv(c, <<k - 1, a>>) => Inv(c, <<k, Step(a, s[k])>>)
    PROVE  Inv(c, <<Len(s), Fold(base, s)>>)
  <1>1. PICK acc : /\ DOMAIN acc = 0 .. Len(s)
                   /\ acc[0] = base
                   /\ \A k \in 1 .. Len(s) : acc[k] = Step(acc[k - 1], s[k])
                   /\ Fold(base, s) = acc[Len(s)]
    BY Folded
  <1> DEFINE S == {k \in Nat : k <= Len(s) => Inv(c, <<k, acc[k]>>)}
  <1>2. Len(s) \in Nat
    OBVIOUS
  <1>3. 0 \in S
    BY <1>1
  <1>4. ASSUME NEW k \in S PROVE k + 1 \in S
    <2>1. CASE k + 1 <= Len(s)
      <3>1. k \in Nat /\ k <= Len(s) /\ k + 1 \in 1 .. Len(s) /\ (k + 1) - 1 = k
        BY <1>2, <2>1
      <3>2. Inv(c, <<(k + 1) - 1, acc[k]>>)
        BY <3>1
      <3>3. acc[k + 1] = Step(acc[k], s[k + 1])
        BY <1>1, <3>1
      <3>4. Inv(c, <<k + 1, Step(acc[k], s[k + 1])>>)
        BY <3>1, <3>2, Zenon
      <3> QED BY <3>1, <3>3, <3>4
    <2>2. CASE ~(k + 1 <= Len(s))
      BY <2>2
    <2> QED BY <2>1, <2>2
  <1>5. S = Nat
    <2>1. S \subseteq Nat
      OBVIOUS
    <2> HIDE DEF S
    <2> QED BY <1>3, <1>4, <2>1, NatSetInduction
  <1>6. Len(s) \in S
    BY <1>2, <1>5
  <1> QED BY <1>1, <1>6

(* A relation that every step keeps between two accumulators holds between *)
(* the two folds.                                                          *)
LEMMA FoldRelates ==
    ASSUME NEW D, NEW s \in Seq(D), NEW a, NEW b, NEW c, Inv(c, <<a, b>>),
           \A u, v : \A x \in D : Inv(c, <<u, v>>) => Inv(c, <<Step(u, x), Step(v, x)>>)
    PROVE  Inv(c, <<Fold(a, s), Fold(b, s)>>)
  <1>1. PICK f : /\ DOMAIN f = 0 .. Len(s)
                 /\ f[0] = a
                 /\ \A k \in 1 .. Len(s) : f[k] = Step(f[k - 1], s[k])
                 /\ Fold(a, s) = f[Len(s)]
    BY Folded
  <1>2. PICK g : /\ DOMAIN g = 0 .. Len(s)
                 /\ g[0] = b
                 /\ \A k \in 1 .. Len(s) : g[k] = Step(g[k - 1], s[k])
                 /\ Fold(b, s) = g[Len(s)]
    BY Folded
  <1> DEFINE S == {k \in Nat : k <= Len(s) => Inv(c, <<f[k], g[k]>>)}
  <1>3. 0 \in S
    BY <1>1, <1>2
  <1>4. ASSUME NEW k \in S PROVE k + 1 \in S
    <2>1. CASE k + 1 <= Len(s)
      <3>1. k \in Nat /\ k + 1 \in 1 .. Len(s) /\ (k + 1) - 1 = k /\ Inv(c, <<f[k], g[k]>>)
        BY <1>4, <2>1
      <3>2. s[k + 1] \in D
        BY <3>1
      <3>3. f[k + 1] = Step(f[k], s[k + 1]) /\ g[k + 1] = Step(g[k], s[k + 1])
        BY <1>1, <1>2, <3>1
      <3>4. Inv(c, <<f[k + 1], g[k + 1]>>)
        BY <3>1, <3>2, <3>3
      <3> QED BY <3>1, <3>4
    <2>2. CASE ~(k + 1 <= Len(s))
      BY <1>4, <2>2
    <2> QED BY <2>1, <2>2
  <1>5. Len(s) \in S
    <2>1. S \subseteq Nat
      OBVIOUS
    <2> HIDE DEF S
    <2>2. S = Nat
      BY <1>3, <1>4, <2>1, NatSetInduction
    <2> QED BY <2>2
  <1> QED BY <1>1, <1>2, <1>5

=============================================================================
