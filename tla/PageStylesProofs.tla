--------------------------- MODULE PageStylesProofs ---------------------------
(***************************************************************************)
(* Proofs about PageStyles, and with it RefCountedSet, for any values, any *)
(* hash functions, any capacities and any number of cells: the table, the  *)
(* items and the statistics of a set always describe each other, every     *)
(* cell and the cursor keep the style they were given, and every item      *)
(* counts exactly its users.                                               *)
(*                                                                         *)
(* From the bottom up: the arithmetic of the probes; a set that is Sound;  *)
(* what placing, taking out and committing an item do to it; insertion and *)
(* deletion; a set that is Whole, ids included, and the operations; the    *)
(* cells and the cursor; the actions.                                      *)
(***************************************************************************)
EXTENDS PageStyles, FiniteSetTheorems, TLAPS

Numbers == INSTANCE FoldFacts WITH Step <- Richer, Inv <- Richer

-----------------------------------------------------------------------------
(* Arithmetic of the buckets.                                              *)

(* Every number is so many times n and a rest.                             *)
LEMMA Rest ==
    ASSUME NEW x \in Nat, NEW n \in Nat, n > 0
    PROVE  \E q \in Nat, r \in 0 .. n - 1 : x = n * q + r
  <1> DEFINE S == {y \in Nat : \E q \in Nat, r \in 0 .. n - 1 : y = n * q + r}
  <1>1. 0 \in S
    <2>1. 0 = n * 0 + 0 /\ 0 \in 0 .. n - 1
      OBVIOUS
    <2> QED BY <2>1
  <1>2. ASSUME NEW y \in S PROVE y + 1 \in S
    <2>1. PICK q \in Nat, r \in 0 .. n - 1 : y = n * q + r
      OBVIOUS
    <2>2. CASE r + 1 < n
      <3>1. y + 1 = n * q + (r + 1) /\ r + 1 \in 0 .. n - 1 /\ y + 1 \in Nat
        BY <2>1, <2>2
      <3> QED BY <3>1
    <2>3. CASE r + 1 = n
      <3>1. y + 1 = n * (q + 1) + 0 /\ q + 1 \in Nat /\ 0 \in 0 .. n - 1 /\ y + 1 \in Nat
        BY <2>1, <2>3
      <3> QED BY <3>1
    <2> QED BY <2>2, <2>3
  <1>3. S = Nat
    <2>1. S \subseteq Nat
      OBVIOUS
    <2> HIDE DEF S
    <2> QED BY <1>1, <1>2, <2>1, Numbers!NatSetInduction
  <1> QED BY <1>3

(* The rest is what % gives.                                               *)
LEMMA RestIs ==
    ASSUME NEW n \in Nat, n > 0, NEW q \in Nat, NEW r \in 0 .. n - 1
    PROVE  (n * q + r) % n = r
  OBVIOUS

LEMMA RestRange ==
    ASSUME NEW x \in Nat, NEW n \in Nat, n > 0
    PROVE  x % n \in 0 .. n - 1
  OBVIOUS

(* The bucket k places behind bucket a.                                    *)
Behind(n, a, k) == IF a + k < n THEN a + k ELSE a + k - n

(* Probes go round the table.                                              *)
LEMMA Around ==
    ASSUME NEW n \in Nat, n > 0, NEW x \in Nat, NEW k \in 0 .. n - 1
    PROVE  (x + k) % n = Behind(n, x % n, k)
  <1>1. PICK q \in Nat, r \in 0 .. n - 1 : x = n * q + r
    BY Rest
  <1>2. x % n = r
    BY <1>1, RestIs
  <1>3. CASE r + k < n
    <2>1. x + k = n * q + (r + k) /\ r + k \in 0 .. n - 1
      BY <1>1, <1>3
    <2>2. (n * q + (r + k)) % n = r + k
      BY <2>1, RestIs
    <2> QED BY <1>2, <1>3, <2>1, <2>2 DEF Behind
  <1>4. CASE r + k >= n
    <2>1. x + k = n * (q + 1) + (r + k - n) /\ r + k - n \in 0 .. n - 1 /\ q + 1 \in Nat
      BY <1>1, <1>4
    <2>2. (n * (q + 1) + (r + k - n)) % n = r + k - n
      BY <2>1, RestIs
    <2> QED BY <1>2, <1>4, <2>1, <2>2 DEF Behind
  <1> QED BY <1>3, <1>4

LEMMA AroundBucket ==
    ASSUME NEW n \in Nat, n > 0, NEW a \in 0 .. n - 1, NEW k \in 0 .. n - 1
    PROVE  (a + k) % n = Behind(n, a, k) /\ Behind(n, a, k) \in 0 .. n - 1
  <1>1. a % n = a
    <2>1. a = n * 0 + a /\ 0 \in Nat
      OBVIOUS
    <2>2. (n * 0 + a) % n = a
      BY <2>1, RestIs
    <2> QED BY <2>1, <2>2
  <1>2. (a + k) % n = Behind(n, a % n, k)
    <2>1. a \in Nat
      OBVIOUS
    <2> QED BY <2>1, Around, Zenon
  <1> QED BY <1>1, <1>2 DEF Behind

(* One place on is one place on, wherever the counting began.              *)
LEMMA OneOn ==
    ASSUME NEW n \in Nat, n > 0, NEW x \in Nat, NEW a \in 0 .. n - 1
    PROVE  /\ a = x % n => (x + 1) % n = (a + 1) % n
           /\ (x + 1) % n = (a + 1) % n => a = x % n
  <1>1. CASE n = 1
    <2>1. \A y \in Nat : y % 1 = 0
      BY RestRange
    <2> QED BY <1>1, <2>1
  <1>2. CASE n > 1
    <2>0. 1 \in 0 .. n - 1
      BY <1>2
    <2>1. (x + 1) % n = Behind(n, x % n, 1) /\ (a + 1) % n = Behind(n, a, 1)
      BY <2>0, Around, AroundBucket, Zenon
    <2>2. x % n \in 0 .. n - 1
      BY RestRange
    <2> QED BY <2>1, <2>2 DEF Behind
  <1> QED BY <1>1, <1>2

-----------------------------------------------------------------------------
(* A set is Sound for a hash function when its table and its items         *)
(* describe each other, whatever their reference counts are.               *)

Item == [value : Values \cup {"none"}, bucket : Int, psl : Nat, ref : Nat]
Buckets(s) == 0 .. s.tableCap - 1

Shape(s) ==
    s \in [tableCap : Nat, table : [Buckets(s) -> Nat],
           items : [1 .. ItemsCap(s.tableCap) - 1 -> Item],
           stats : [0 .. PslLen - 1 -> Int], maxPsl : 0 .. PslLen - 1,
           living : Int, nextId : Nat]

Stored(s, id) == s.items[id].bucket # NoBucket

(* An item in the table is where its hash and its distance say.            *)
InPlace(s, hf, id) ==
    LET it == s.items[id]
    IN  /\ it.bucket \in Buckets(s) /\ s.table[it.bucket] = id
        /\ it.value \in Values /\ it.bucket = Bucket(s, hf[it.value], it.psl)
        /\ it.psl <= s.maxPsl

ItemsOK(s, hf) ==
    \A id \in Ids(s) : IF Stored(s, id) THEN InPlace(s, hf, id) ELSE s.items[id] = EmptyItem

Refers(s, b) == s.table[b] # 0 => s.table[b] \in Ids(s) /\ s.items[s.table[b]].bucket = b

AtPsl(s, q) == {id \in Ids(s) : Stored(s, id) /\ s.items[id].psl = q}
StatsOK(s) == \A q \in 0 .. PslLen - 1 : s.stats[q] = Cardinality(AtPsl(s, q))

Sound(s, hf) ==
    /\ Shape(s) /\ ItemsOK(s, hf) /\ StatsOK(s)
    /\ \A b \in Buckets(s) : Refers(s, b)

(* Sound but for bucket p, which is about to be given away.                *)
SoundBut(s, hf, p) ==
    /\ Shape(s) /\ ItemsOK(s, hf) /\ StatsOK(s) /\ p \in Buckets(s)
    /\ \A b \in Buckets(s) \ {p} : Refers(s, b)
    /\ \A id \in Ids(s) : s.items[id].bucket # p

HashFunctions == [Values -> Nat]

LEMMA EmptyIs == /\ EmptyItem \in Item /\ EmptyItem.bucket = NoBucket /\ EmptyItem.ref = 0
                 /\ EmptyItem.psl = 0 /\ NoBucket = -1
  BY DEF EmptyItem, Item, NoBucket

(* There are fewer items than buckets.                                     *)
LEMMA CapIs ==
    ASSUME NEW n \in Nat
    PROVE  /\ ItemsCap(n) \in Nat
           /\ n = 0 => ItemsCap(n) = 0
           /\ n > 0 => ItemsCap(n) < n
  BY DEF ItemsCap

LEMMA ShapeIs ==
    ASSUME NEW s, Shape(s)
    PROVE  /\ s.tableCap \in Nat /\ TableCap(s) = s.tableCap
           /\ Ids(s) = 1 .. ItemsCap(s.tableCap) - 1
           /\ s.table \in [Buckets(s) -> Nat] /\ s.items \in [Ids(s) -> Item]
           /\ s.stats \in [0 .. PslLen - 1 -> Int]
           /\ s.maxPsl \in 0 .. PslLen - 1 /\ s.living \in Int /\ s.nextId \in Nat
           /\ Ids(s) \subseteq Nat \ {0}
           /\ Ids(s) # {} => s.tableCap > 0
           /\ PslLen \in Nat /\ PslLen > 0
  <1>1. s.items \in [1 .. ItemsCap(s.tableCap) - 1 -> Item] /\ s.tableCap \in Nat
    BY DEF Shape
  <1>2. Ids(s) = 1 .. ItemsCap(s.tableCap) - 1
    BY <1>1 DEF Ids
  <1>3. Ids(s) # {} => s.tableCap > 0
    BY <1>1, <1>2, CapIs
  <1>4. PslLen \in Nat /\ PslLen > 0
    BY CapacityAssumption
  <1>5. Ids(s) \subseteq Nat \ {0}
    BY <1>2
  <1> QED BY <1>1, <1>2, <1>3, <1>4, <1>5 DEF Shape, TableCap

(* The ids are finitely many, and so are those of a set of them.           *)
LEMMA IdsFinite ==
    ASSUME NEW s, Shape(s), NEW S, S \subseteq Ids(s)
    PROVE  IsFiniteSet(S) /\ Cardinality(S) \in Nat
  <1>1. 1 \in Int /\ ItemsCap(s.tableCap) - 1 \in Int /\ Ids(s) = 1 .. ItemsCap(s.tableCap) - 1
    BY ShapeIs, CapIs
  <1>2. IsFiniteSet(Ids(s))
    BY <1>1, FS_Interval
  <1> QED BY <1>2, FS_Subset, FS_CardinalityType

LEMMA BucketIs ==
    ASSUME NEW s, Shape(s), s.tableCap > 0, NEW x \in Nat, NEW k \in Nat
    PROVE  /\ Bucket(s, x, k) \in Buckets(s)
           /\ Bucket(s, x, k) = (x + k) % s.tableCap
  <1>1. s.tableCap \in Nat /\ TableCap(s) = s.tableCap /\ x + k \in Nat
    BY ShapeIs
  <1>2. (x + k) % s.tableCap \in 0 .. s.tableCap - 1
    BY <1>1, RestRange
  <1> QED BY <1>1, <1>2 DEF Bucket, Buckets

(* Less than a whole round apart, two probes are of two buckets.           *)
LEMMA BucketsDiffer ==
    ASSUME NEW s, Shape(s), NEW x \in Nat, NEW i \in Buckets(s), NEW k \in Buckets(s),
           Bucket(s, x, i) = Bucket(s, x, k)
    PROVE  i = k
  <1> DEFINE n == s.tableCap
  <1>1. n \in Nat /\ n > 0 /\ i \in 0 .. n - 1 /\ k \in 0 .. n - 1
    BY ShapeIs DEF Buckets
  <1> HIDE DEF n
  <1>2. x % n \in 0 .. n - 1
    BY <1>1, RestRange
  <1>3. (x + i) % n = Behind(n, x % n, i) /\ (x + k) % n = Behind(n, x % n, k)
    BY <1>1, Around, Zenon
  <1>4. i \in Nat /\ k \in Nat
    BY <1>1
  <1>5. Behind(n, x % n, i) = Behind(n, x % n, k)
    BY <1>1, <1>3, <1>4, BucketIs DEF n
  <1> QED BY <1>1, <1>2, <1>5 DEF Behind

(* Not every bucket is taken: of all but one in a row, among which some id *)
(* is not, one is empty.                                                   *)
LEMMA Room ==
    ASSUME NEW s, NEW hf, Sound(s, hf), NEW id \in Ids(s), NEW x \in Nat,
           \A e \in 0 .. s.tableCap - 2 : s.table[Bucket(s, x, e)] # id
    PROVE  \E e \in 0 .. s.tableCap - 2 : s.table[Bucket(s, x, e)] = 0
  <1> DEFINE n == s.tableCap
             S == 0 .. n - 2
             T == Ids(s) \ {id}
             f == [e \in S |-> s.table[Bucket(s, x, e)]]
  <1>0. Shape(s) /\ \A b \in Buckets(s) : Refers(s, b)
    BY DEF Sound
  <1>1. /\ n \in Nat /\ n > 0 /\ ItemsCap(n) \in Nat /\ ItemsCap(n) < n
        /\ Ids(s) = 1 .. ItemsCap(n) - 1 /\ Buckets(s) = 0 .. n - 1
    BY <1>0, ShapeIs, CapIs DEF Buckets
  <1> SUFFICES ASSUME \A e \in S : s.table[Bucket(s, x, e)] # 0
               PROVE  FALSE
    OBVIOUS
  <1>2. \A e \in S : e \in Nat /\ e \in Buckets(s) /\ Bucket(s, x, e) \in Buckets(s)
    <2>1. \A e \in S : e \in Nat /\ e \in Buckets(s)
      BY <1>1
    <2> HIDE DEF S
    <2> QED BY <1>0, <1>1, <2>1, BucketIs, Zenon
  <1>3. f \in [S -> T]
    BY <1>0, <1>2 DEF Refers
  <1>4. IsFiniteSet(S) /\ Cardinality(S) = n - 1
    <2>1. 0 \in Int /\ n - 2 \in Int
      BY <1>1
    <2>2. IsFiniteSet(S) /\ Cardinality(S) = IF 0 > n - 2 THEN 0 ELSE (n - 2) - 0 + 1
      BY <2>1, FS_Interval
    <2> QED BY <1>1, <2>2
  <1>5. IsFiniteSet(T) /\ Cardinality(T) < n - 1
    <2>1. 1 \in Int /\ ItemsCap(n) - 1 \in Int
      BY <1>1
    <2>2. /\ IsFiniteSet(Ids(s))
          /\ Cardinality(Ids(s)) = IF 1 > ItemsCap(n) - 1 THEN 0 ELSE (ItemsCap(n) - 1) - 1 + 1
      BY <1>1, <2>1, FS_Interval
    <2>3. IsFiniteSet(T) /\ Cardinality(T) = Cardinality(Ids(s)) - 1
      BY <2>2, FS_RemoveElement
    <2>4. 1 <= ItemsCap(n) - 1
      BY <1>1
    <2> QED BY <1>1, <2>2, <2>3, <2>4
  <1> HIDE DEF f, S, T
  <1>6. PICK y \in S, z \in S : y # z /\ f[y] = f[z]
    BY <1>3, <1>4, <1>5, FS_PigeonHole
  <1>7. s.table[Bucket(s, x, y)] = s.table[Bucket(s, x, z)]
    BY <1>6 DEF f
  <1>8. Bucket(s, x, y) = Bucket(s, x, z)
    BY <1>0, <1>2, <1>7 DEF Refers
  <1> QED BY <1>0, <1>2, <1>6, <1>8, BucketsDiffer

(* A set is a record, whatever its parts are taken from.                   *)
Record(table, items, stats, psls) ==
    [tableCap : Nat, table : table, items : items, stats : stats, maxPsl : psls,
     living : Int, nextId : Nat]

LEMMA ShapeOf ==
    ASSUME NEW s, Shape(s), NEW t, t.tableCap = s.tableCap
    PROVE  /\ s \in Record([Buckets(s) -> Nat], [Ids(s) -> Item], [0 .. PslLen - 1 -> Int],
                           0 .. PslLen - 1)
           /\ t \in Record([Buckets(s) -> Nat], [Ids(s) -> Item], [0 .. PslLen - 1 -> Int],
                           0 .. PslLen - 1) => Shape(t)
  <1>1. Ids(s) = 1 .. ItemsCap(s.tableCap) - 1
    BY ShapeIs
  <1>2. Buckets(t) = Buckets(s)
    BY DEF Buckets
  <1> QED BY <1>1, <1>2 DEF Shape, Record

(* The larger of two numbers.                                              *)
LEMMA MaxOfTwo ==
    ASSUME NEW a \in Nat, NEW b \in Nat
    PROVE  Max({a, b}) \in {a, b} /\ Max({a, b}) >= a /\ Max({a, b}) >= b
  <1>1. \E m \in {a, b} : \A y \in {a, b} : m >= y
    <2>1. CASE a >= b
      BY <2>1
    <2>2. CASE b >= a
      BY <2>2
    <2> QED BY <2>1, <2>2
  <1>2. Max({a, b}) \in {a, b} /\ \A y \in {a, b} : Max({a, b}) >= y
    BY <1>1, Zenon DEF Max
  <1> QED BY <1>2

-----------------------------------------------------------------------------
(* Placing an item, taking one out, giving one another id.                 *)

LEMMA PlacedIs ==
    ASSUME NEW s, Shape(s), NEW p \in Buckets(s), NEW id \in Ids(s), NEW held \in Item,
           held.psl < PslLen
    PROVE  LET t == Placed(s, p, held, id) IN
           /\ t.tableCap = s.tableCap /\ t.living = s.living /\ t.nextId = s.nextId
           /\ t.table = [s.table EXCEPT ![p] = id]
           /\ t.items = [s.items EXCEPT ![id] = [held EXCEPT !.bucket = p]]
           /\ t.stats = [s.stats EXCEPT ![held.psl] = @ + 1]
           /\ t.maxPsl >= s.maxPsl /\ t.maxPsl >= held.psl
           /\ Shape(t)
  <1> DEFINE t == Placed(s, p, held, id)
             m == Max({s.maxPsl, held.psl})
             T == [Buckets(s) -> Nat]
             I == [Ids(s) -> Item]
             S == [0 .. PslLen - 1 -> Int]
             P == 0 .. PslLen - 1
  <1>1. /\ s.maxPsl \in Nat /\ held.psl \in Nat /\ held.psl \in P
        /\ s.maxPsl \in P /\ PslLen \in Nat
    BY ShapeIs DEF Item
  <1>2. m \in P /\ m >= s.maxPsl /\ m >= held.psl
    BY <1>1, MaxOfTwo
  <1> HIDE DEF m
  <1>3. [s.table EXCEPT ![p] = id] \in T
    <2>1. id \in Nat /\ s.table \in T
      BY ShapeIs
    <2> QED BY <2>1
  <1>4. [s.items EXCEPT ![id] = [held EXCEPT !.bucket = p]] \in I
    <2>1. p \in Int /\ s.items \in I
      BY ShapeIs DEF Buckets
    <2>2. [held EXCEPT !.bucket = p] \in Item
      BY <2>1 DEF Item
    <2> QED BY <2>1, <2>2
  <1>5. [s.stats EXCEPT ![held.psl] = @ + 1] \in S
    <2>1. s.stats \in S
      BY ShapeIs
    <2> QED BY <1>1, <2>1
  <1>6. s \in Record(T, I, S, P)
    BY ShapeOf
  <1> HIDE DEF T, I, S, P
  <1>7. t \in Record(T, I, S, P)
    BY <1>2, <1>3, <1>4, <1>5, <1>6 DEF Placed, m, Record
  <1>8. /\ t.tableCap = s.tableCap /\ t.living = s.living /\ t.nextId = s.nextId
        /\ t.table = [s.table EXCEPT ![p] = id]
        /\ t.items = [s.items EXCEPT ![id] = [held EXCEPT !.bucket = p]]
        /\ t.stats = [s.stats EXCEPT ![held.psl] = @ + 1]
        /\ t.maxPsl = m
    BY <1>6 DEF Placed, Record, m
  <1> HIDE DEF t
  <1>9. Shape(t)
    BY <1>7, <1>8, ShapeOf DEF T, I, S, P
  <1> QED BY <1>2, <1>8, <1>9 DEF t

LEMMA TakenOutIs ==
    ASSUME NEW s, Shape(s), NEW id \in Ids(s), s.items[id].psl < PslLen
    PROVE  LET t == TakenOut(s, id) IN
           /\ t.tableCap = s.tableCap /\ t.living = s.living /\ t.nextId = s.nextId
           /\ t.table = s.table /\ t.maxPsl = s.maxPsl
           /\ t.items = [s.items EXCEPT ![id] = EmptyItem]
           /\ t.stats = [s.stats EXCEPT ![s.items[id].psl] = @ - 1]
           /\ Shape(t)
  <1> DEFINE t == TakenOut(s, id)
             T == [Buckets(s) -> Nat]
             I == [Ids(s) -> Item]
             S == [0 .. PslLen - 1 -> Int]
             P == 0 .. PslLen - 1
  <1>1. [s.items EXCEPT ![id] = EmptyItem] \in I
    BY ShapeIs, EmptyIs
  <1>2. [s.stats EXCEPT ![s.items[id].psl] = @ - 1] \in S
    <2>1. s.stats \in S /\ s.items[id].psl \in P
      BY ShapeIs DEF Item
    <2>2. s.stats[s.items[id].psl] \in Int
      BY <2>1
    <2>3. s.stats[s.items[id].psl] - 1 \in Int
      BY <2>2
    <2> QED BY <2>1, <2>3
  <1>3. s \in Record(T, I, S, P)
    BY ShapeOf
  <1> HIDE DEF T, I, S, P
  <1>4. t \in Record(T, I, S, P)
    BY <1>1, <1>2, <1>3 DEF TakenOut, Record
  <1>5. /\ t.tableCap = s.tableCap /\ t.living = s.living /\ t.nextId = s.nextId
        /\ t.table = s.table /\ t.maxPsl = s.maxPsl
        /\ t.items = [s.items EXCEPT ![id] = EmptyItem]
        /\ t.stats = [s.stats EXCEPT ![s.items[id].psl] = @ - 1]
    BY <1>3 DEF TakenOut, Record
  <1> HIDE DEF t
  <1>6. Shape(t)
    BY <1>4, <1>5, ShapeOf DEF T, I, S, P
  <1> QED BY <1>5, <1>6 DEF t

LEMMA CommitIs ==
    ASSUME NEW s, Shape(s), NEW newId \in Ids(s), NEW chosen \in Ids(s), newId # chosen,
           s.items[newId].bucket \in Buckets(s)
    PROVE  LET t == Commit(s, newId, chosen) IN
           /\ t.tableCap = s.tableCap /\ t.living = s.living /\ t.nextId = s.nextId
           /\ t.stats = s.stats /\ t.maxPsl = s.maxPsl
           /\ t.table = [s.table EXCEPT ![s.items[newId].bucket] = chosen]
           /\ t.items = [s.items EXCEPT ![chosen] = s.items[newId], ![newId] = EmptyItem]
           /\ Shape(t)
  <1> DEFINE t == Commit(s, newId, chosen)
             T == [Buckets(s) -> Nat]
             I == [Ids(s) -> Item]
             S == [0 .. PslLen - 1 -> Int]
             P == 0 .. PslLen - 1
  <1>1. [s.table EXCEPT ![s.items[newId].bucket] = chosen] \in T
    BY ShapeIs
  <1>2. [s.items EXCEPT ![chosen] = s.items[newId], ![newId] = EmptyItem] \in I
    BY ShapeIs, EmptyIs
  <1>3. s \in Record(T, I, S, P)
    BY ShapeOf
  <1> HIDE DEF T, I, S, P
  <1>4. t \in Record(T, I, S, P)
    BY <1>1, <1>2, <1>3 DEF Commit, Record
  <1>5. /\ t.tableCap = s.tableCap /\ t.living = s.living /\ t.nextId = s.nextId
        /\ t.stats = s.stats /\ t.maxPsl = s.maxPsl
        /\ t.table = [s.table EXCEPT ![s.items[newId].bucket] = chosen]
        /\ t.items = [s.items EXCEPT ![chosen] = s.items[newId], ![newId] = EmptyItem]
    BY <1>3 DEF Commit, Record
  <1> HIDE DEF t
  <1>6. Shape(t)
    BY <1>4, <1>5, ShapeOf DEF T, I, S, P
  <1> QED BY <1>5, <1>6 DEF t

-----------------------------------------------------------------------------
(* What these do to the statistics.                                        *)

LEMMA CountOut ==
    ASSUME NEW s, Shape(s), NEW t, Ids(t) = Ids(s), NEW id \in Ids(s), Stored(s, id),
           t.items = [s.items EXCEPT ![id] = EmptyItem], NEW q
    PROVE  Cardinality(AtPsl(t, q)) =
             IF q = s.items[id].psl THEN Cardinality(AtPsl(s, q)) - 1
                                    ELSE Cardinality(AtPsl(s, q))
  <1>1. IsFiniteSet(AtPsl(s, q))
    BY IdsFinite DEF AtPsl
  <1>2. AtPsl(t, q) = AtPsl(s, q) \ {id}
    BY ShapeIs, EmptyIs DEF AtPsl, Stored
  <1>3. id \in AtPsl(s, q) <=> q = s.items[id].psl
    BY DEF AtPsl
  <1> QED BY <1>1, <1>2, <1>3, FS_RemoveElement

LEMMA CountIn ==
    ASSUME NEW s, Shape(s), NEW t, Ids(t) = Ids(s), NEW id \in Ids(s), ~Stored(s, id),
           NEW held \in Item, NEW p \in Buckets(s),
           t.items = [s.items EXCEPT ![id] = [held EXCEPT !.bucket = p]], NEW q
    PROVE  Cardinality(AtPsl(t, q)) =
             IF q = held.psl THEN Cardinality(AtPsl(s, q)) + 1 ELSE Cardinality(AtPsl(s, q))
  <1>1. IsFiniteSet(AtPsl(s, q))
    BY IdsFinite DEF AtPsl
  <1>2. p # NoBucket
    BY EmptyIs, ShapeIs DEF Buckets
  <1>3. /\ t.items[id].bucket = p /\ t.items[id].psl = held.psl
        /\ \A j \in Ids(s) : j # id => t.items[j] = s.items[j]
    BY ShapeIs DEF Item
  <1>4. AtPsl(t, q) = IF q = held.psl THEN AtPsl(s, q) \cup {id} ELSE AtPsl(s, q)
    BY <1>2, <1>3 DEF AtPsl, Stored
  <1>5. id \notin AtPsl(s, q)
    BY DEF AtPsl
  <1> QED BY <1>1, <1>4, <1>5, FS_AddElement

LEMMA CountMoved ==
    ASSUME NEW s, Shape(s), NEW t, Ids(t) = Ids(s), NEW a \in Ids(s), NEW b \in Ids(s),
           Stored(s, a), ~Stored(s, b),
           t.items = [s.items EXCEPT ![b] = s.items[a], ![a] = EmptyItem], NEW q
    PROVE  Cardinality(AtPsl(t, q)) = Cardinality(AtPsl(s, q))
  <1>1. IsFiniteSet(AtPsl(s, q)) /\ Cardinality(AtPsl(s, q)) \in Nat
    BY IdsFinite DEF AtPsl
  <1>2. /\ t.items[a] = EmptyItem /\ t.items[b] = s.items[a] /\ a # b
        /\ \A j \in Ids(s) : j # a /\ j # b => t.items[j] = s.items[j]
    BY ShapeIs
  <1>3. /\ a \in AtPsl(s, q) <=> q = s.items[a].psl
        /\ b \notin AtPsl(s, q) /\ b \notin AtPsl(s, q) \ {a}
    BY DEF AtPsl
  <1>4. AtPsl(t, q) = IF q = s.items[a].psl THEN (AtPsl(s, q) \ {a}) \cup {b} ELSE AtPsl(s, q)
    BY <1>2, EmptyIs DEF AtPsl, Stored
  <1>5. CASE q = s.items[a].psl
    <2>1. IsFiniteSet(AtPsl(s, q) \ {a})
          /\ Cardinality(AtPsl(s, q) \ {a}) = Cardinality(AtPsl(s, q)) - 1
      BY <1>1, <1>3, <1>5, FS_RemoveElement
    <2>2. Cardinality((AtPsl(s, q) \ {a}) \cup {b}) = Cardinality(AtPsl(s, q) \ {a}) + 1
      BY <1>3, <2>1, FS_AddElement
    <2> QED BY <1>1, <1>4, <1>5, <2>1, <2>2
  <1> QED BY <1>4, <1>5

-----------------------------------------------------------------------------
(* ... and that a set stays sound.                                         *)

LEMMA StoredIs ==
    ASSUME NEW s, NEW hf, Shape(s), ItemsOK(s, hf), NEW id \in Ids(s), Stored(s, id)
    PROVE  /\ s.items[id] \in Item /\ InPlace(s, hf, id)
           /\ s.items[id].bucket \in Buckets(s) /\ s.table[s.items[id].bucket] = id
           /\ s.items[id].value \in Values /\ s.items[id].psl < PslLen
           /\ s.items[id].psl \in Nat
  <1>1. InPlace(s, hf, id) /\ s.items[id] \in Item
    BY ShapeIs DEF ItemsOK
  <1>2. s.items[id].psl < PslLen /\ s.items[id].psl \in Nat
    BY <1>1, ShapeIs DEF InPlace, Item
  <1> QED BY <1>1, <1>2 DEF InPlace

LEMMA TakenOutSound ==
    ASSUME NEW s, NEW hf, Sound(s, hf), NEW id \in Ids(s), Stored(s, id)
    PROVE  SoundBut(TakenOut(s, id), hf, s.items[id].bucket)
  <1> DEFINE t == TakenOut(s, id)
             p == s.items[id].bucket
  <1>0. /\ Shape(s) /\ ItemsOK(s, hf) /\ StatsOK(s)
        /\ \A b \in Buckets(s) : Refers(s, b)
    BY DEF Sound
  <1>1. /\ p \in Buckets(s) /\ s.table[p] = id /\ s.items[id].psl < PslLen
        /\ s.items[id].psl \in Nat
    BY <1>0, StoredIs
  <1>2. /\ t.tableCap = s.tableCap /\ t.table = s.table /\ t.maxPsl = s.maxPsl
        /\ t.items = [s.items EXCEPT ![id] = EmptyItem]
        /\ t.stats = [s.stats EXCEPT ![s.items[id].psl] = @ - 1]
        /\ Shape(t)
    BY <1>0, <1>1, TakenOutIs, ZenonT(30)
  <1> HIDE DEF t, p
  <1>3. Ids(t) = Ids(s) /\ Buckets(t) = Buckets(s) /\ TableCap(t) = TableCap(s)
    BY <1>0, <1>2, ShapeIs DEF Buckets
  <1>4. t.items[id] = EmptyItem /\ \A j \in Ids(s) : j # id => t.items[j] = s.items[j]
    BY <1>0, <1>2, ShapeIs
  <1>5. ItemsOK(t, hf)
    BY <1>0, <1>2, <1>3, <1>4, EmptyIs DEF ItemsOK, InPlace, Stored, Bucket
  <1>6. StatsOK(t)
    <2> SUFFICES ASSUME NEW q \in 0 .. PslLen - 1 PROVE t.stats[q] = Cardinality(AtPsl(t, q))
      BY DEF StatsOK
    <2>1. Cardinality(AtPsl(t, q)) =
            IF q = s.items[id].psl THEN Cardinality(AtPsl(s, q)) - 1
                                   ELSE Cardinality(AtPsl(s, q))
      BY <1>0, <1>2, <1>3, CountOut
    <2>2. s.stats[q] = Cardinality(AtPsl(s, q)) /\ s.stats \in [0 .. PslLen - 1 -> Int]
      BY <1>0, ShapeIs DEF StatsOK
    <2>3. t.stats[q] = IF q = s.items[id].psl THEN s.stats[q] - 1 ELSE s.stats[q]
      BY <1>2, <2>2
    <2> QED BY <2>1, <2>2, <2>3
  <1>7. \A b \in Buckets(t) \ {p} : Refers(t, b)
    <2> SUFFICES ASSUME NEW b \in Buckets(s), b # p PROVE Refers(t, b)
      BY <1>3
    <2>1. Refers(s, b)
      BY <1>0
    <2>2. s.table[b] # id
      BY <2>1, <1>0, ShapeIs DEF Refers, p
    <2> QED BY <1>2, <1>3, <1>4, <2>1, <2>2 DEF Refers
  <1>8. \A j \in Ids(t) : t.items[j].bucket # p
    <2> SUFFICES ASSUME NEW j \in Ids(s), t.items[j].bucket = p PROVE FALSE
      BY <1>3
    <2>1. j # id
      BY <1>1, <1>4, EmptyIs, <1>0, ShapeIs DEF Buckets
    <2>2. s.items[j].bucket = p /\ Stored(s, j)
      BY <1>1, <1>4, <2>1, EmptyIs, <1>0, ShapeIs DEF Buckets, Stored
    <2>3. s.table[p] = j
      BY <1>0, <2>2, StoredIs
    <2> QED BY <1>1, <2>1, <2>3
  <1> QED BY <1>1, <1>2, <1>3, <1>5, <1>6, <1>7, <1>8 DEF SoundBut, t, p

LEMMA HoleSound ==
    ASSUME NEW s, NEW hf, Sound(s, hf), NEW p \in Buckets(s), s.table[p] = 0
    PROVE  SoundBut(s, hf, p)
  <1>1. ASSUME NEW j \in Ids(s) PROVE s.items[j].bucket # p
    <2>1. CASE ~Stored(s, j)
      BY <2>1, EmptyIs, ShapeIs DEF Stored, Buckets, Sound
    <2>2. CASE Stored(s, j)
      <3>1. s.table[s.items[j].bucket] = j /\ j # 0
        BY <2>2, StoredIs, ShapeIs DEF Sound
      <3> QED BY <3>1
    <2> QED BY <2>1, <2>2
  <1> QED BY <1>1 DEF Sound, SoundBut

LEMMA PlacedSound ==
    ASSUME NEW s, NEW hf, NEW p, SoundBut(s, hf, p), NEW id \in Ids(s), ~Stored(s, id),
           NEW held \in Item, held.value \in Values, held.psl < PslLen,
           p = Bucket(s, hf[held.value], held.psl)
    PROVE  Sound(Placed(s, p, held, id), hf)
  <1> DEFINE t == Placed(s, p, held, id)
  <1>0. /\ Shape(s) /\ ItemsOK(s, hf) /\ StatsOK(s) /\ p \in Buckets(s)
        /\ \A b \in Buckets(s) \ {p} : Refers(s, b)
        /\ \A j \in Ids(s) : s.items[j].bucket # p
    BY DEF SoundBut
  <1>2. /\ t.tableCap = s.tableCap
        /\ t.table = [s.table EXCEPT ![p] = id]
        /\ t.items = [s.items EXCEPT ![id] = [held EXCEPT !.bucket = p]]
        /\ t.stats = [s.stats EXCEPT ![held.psl] = @ + 1]
        /\ t.maxPsl >= s.maxPsl /\ t.maxPsl >= held.psl
        /\ Shape(t)
    BY <1>0, PlacedIs, SMTT(30)
  <1> HIDE DEF t
  <1>3. Ids(t) = Ids(s) /\ Buckets(t) = Buckets(s) /\ TableCap(t) = TableCap(s)
    BY <1>0, <1>2, ShapeIs DEF Buckets
  <1>4. /\ t.items[id].bucket = p /\ t.items[id].psl = held.psl
        /\ t.items[id].value = held.value
        /\ \A j \in Ids(s) : j # id => t.items[j] = s.items[j]
        /\ t.table[p] = id /\ \A b \in Buckets(s) : b # p => t.table[b] = s.table[b]
    BY <1>0, <1>2, ShapeIs, SMTT(30) DEF Item
  <1>5. ItemsOK(t, hf)
    <2> SUFFICES ASSUME NEW j \in Ids(s)
                 PROVE  IF Stored(t, j) THEN InPlace(t, hf, j) ELSE t.items[j] = EmptyItem
      BY <1>3 DEF ItemsOK
    <2>1. CASE j = id
      <3>1. InPlace(t, hf, id)
        BY <1>0, <1>2, <1>3, <1>4 DEF InPlace, Bucket
      <3>2. Stored(t, id)
        BY <1>0, <1>4, EmptyIs, ShapeIs DEF Stored, Buckets
      <3> QED BY <2>1, <3>1, <3>2
    <2>2. CASE j # id /\ Stored(s, j)
      <3>1. InPlace(s, hf, j) /\ s.items[j].bucket # p /\ t.items[j] = s.items[j]
        BY <1>0, <1>4, <2>2 DEF ItemsOK
      <3>2. InPlace(t, hf, j)
        <4>1. s.items[j].psl <= t.maxPsl
          BY <1>0, <1>2, <2>2, <3>1, ShapeIs, StoredIs DEF InPlace
        <4> QED BY <1>3, <1>4, <3>1, <4>1 DEF InPlace, Bucket
      <3> QED BY <2>2, <3>1, <3>2 DEF Stored
    <2>3. CASE j # id /\ ~Stored(s, j)
      BY <1>0, <1>4, <2>3 DEF ItemsOK, Stored
    <2> QED BY <2>1, <2>2, <2>3
  <1>6. StatsOK(t)
    <2> SUFFICES ASSUME NEW q \in 0 .. PslLen - 1 PROVE t.stats[q] = Cardinality(AtPsl(t, q))
      BY DEF StatsOK
    <2>1. Cardinality(AtPsl(t, q)) =
            IF q = held.psl THEN Cardinality(AtPsl(s, q)) + 1 ELSE Cardinality(AtPsl(s, q))
      BY <1>0, <1>2, <1>3, CountIn
    <2>2. s.stats[q] = Cardinality(AtPsl(s, q)) /\ s.stats \in [0 .. PslLen - 1 -> Int]
      BY <1>0, ShapeIs DEF StatsOK
    <2>3. t.stats[q] = IF q = held.psl THEN s.stats[q] + 1 ELSE s.stats[q]
      BY <1>2, <2>2
    <2> QED BY <2>1, <2>2, <2>3
  <1>7. \A b \in Buckets(t) : Refers(t, b)
    <2> SUFFICES ASSUME NEW b \in Buckets(s) PROVE Refers(t, b)
      BY <1>3
    <2>1. CASE b = p
      BY <1>3, <1>4, <2>1 DEF Refers
    <2>2. CASE b # p
      <3>1. Refers(s, b) /\ t.table[b] = s.table[b]
        BY <1>0, <1>4, <2>2
      <3>2. s.table[b] # 0 => s.table[b] # id
        BY <1>0, <3>1, EmptyIs, ShapeIs DEF Refers, Stored, Buckets
      <3> QED BY <1>3, <1>4, <3>1, <3>2 DEF Refers
    <2> QED BY <2>1, <2>2
  <1> QED BY <1>2, <1>5, <1>6, <1>7 DEF Sound, t

LEMMA CommitSound ==
    ASSUME NEW s, NEW hf, Sound(s, hf), NEW a \in Ids(s), NEW c \in Ids(s), a # c,
           Stored(s, a), ~Stored(s, c)
    PROVE  Sound(Commit(s, a, c), hf)
  <1> DEFINE t == Commit(s, a, c)
             p == s.items[a].bucket
  <1>0. /\ Shape(s) /\ ItemsOK(s, hf) /\ StatsOK(s)
        /\ \A b \in Buckets(s) : Refers(s, b)
    BY DEF Sound
  <1>1. p \in Buckets(s) /\ s.table[p] = a
    BY <1>0, StoredIs
  <1>2. /\ t.tableCap = s.tableCap /\ t.stats = s.stats /\ t.maxPsl = s.maxPsl
        /\ t.table = [s.table EXCEPT ![p] = c]
        /\ t.items = [s.items EXCEPT ![c] = s.items[a], ![a] = EmptyItem]
        /\ Shape(t)
    BY <1>0, <1>1, CommitIs
  <1> HIDE DEF t
  <1>3. Ids(t) = Ids(s) /\ Buckets(t) = Buckets(s) /\ TableCap(t) = TableCap(s)
    BY <1>0, <1>2, ShapeIs DEF Buckets
  <1>4. /\ t.items[a] = EmptyItem /\ t.items[c] = s.items[a]
        /\ \A j \in Ids(s) : j # a /\ j # c => t.items[j] = s.items[j]
        /\ t.table[p] = c /\ \A b \in Buckets(s) : b # p => t.table[b] = s.table[b]
    BY <1>0, <1>1, <1>2, ShapeIs
  <1>5. ItemsOK(t, hf)
    <2> SUFFICES ASSUME NEW j \in Ids(s)
                 PROVE  IF Stored(t, j) THEN InPlace(t, hf, j) ELSE t.items[j] = EmptyItem
      BY <1>3 DEF ItemsOK
    <2>1. CASE j = a
      BY <1>4, <2>1, EmptyIs DEF Stored
    <2>2. CASE j = c
      <3>1. InPlace(s, hf, a)
        BY <1>0, StoredIs
      <3>2. InPlace(t, hf, c) /\ Stored(t, c)
        BY <1>2, <1>3, <1>4, <3>1 DEF InPlace, Bucket, p, Stored
      <3> QED BY <2>2, <3>2
    <2>3. CASE j # a /\ j # c
      <3>1. t.items[j] = s.items[j]
        BY <1>4, <2>3
      <3>2. CASE Stored(s, j)
        <4>1. InPlace(s, hf, j) /\ s.items[j].bucket # p
          BY <1>0, <1>1, <2>3, <3>2, StoredIs
        <4> QED BY <1>2, <1>3, <1>4, <3>1, <3>2, <4>1 DEF InPlace, Bucket, Stored
      <3>3. CASE ~Stored(s, j)
        BY <1>0, <3>1, <3>3 DEF ItemsOK, Stored
      <3> QED BY <3>2, <3>3
    <2> QED BY <2>1, <2>2, <2>3
  <1>6. StatsOK(t)
    <2> SUFFICES ASSUME NEW q \in 0 .. PslLen - 1 PROVE t.stats[q] = Cardinality(AtPsl(t, q))
      BY DEF StatsOK
    <2>1. Cardinality(AtPsl(t, q)) = Cardinality(AtPsl(s, q))
      BY <1>0, <1>2, <1>3, CountMoved
    <2> QED BY <1>0, <1>2, <2>1 DEF StatsOK
  <1>7. \A b \in Buckets(t) : Refers(t, b)
    <2> SUFFICES ASSUME NEW b \in Buckets(s) PROVE Refers(t, b)
      BY <1>3
    <2>1. CASE b = p
      BY <1>3, <1>4, <2>1 DEF Refers, p
    <2>2. CASE b # p
      <3>1. Refers(s, b) /\ t.table[b] = s.table[b]
        BY <1>0, <1>4, <2>2
      <3>2. s.table[b] # 0 => s.table[b] # a /\ s.table[b] # c
        BY <2>2, <3>1, <1>0, ShapeIs, EmptyIs DEF Refers, Stored, Buckets, p
      <3> QED BY <1>3, <1>4, <3>1, <3>2 DEF Refers
    <2> QED BY <2>1, <2>2
  <1> QED BY <1>2, <1>5, <1>6, <1>7 DEF Sound, t

-----------------------------------------------------------------------------
(* Insertion: what the loop of probes keeps.                               *)

(* Two ways to one bucket lead on to one bucket.                           *)
LEMMA BucketNext ==
    ASSUME NEW s, Shape(s), s.tableCap > 0, NEW x \in Nat, NEW i \in Nat,
           NEW y \in Nat, NEW k \in Nat, Bucket(s, x, i) = Bucket(s, y, k)
    PROVE  Bucket(s, x, i + 1) = Bucket(s, y, k + 1)
  <1> DEFINE n == s.tableCap
             a == Bucket(s, x, i)
  <1>1. n \in Nat /\ n > 0 /\ TableCap(s) = n /\ x + i \in Nat /\ y + k \in Nat
    BY ShapeIs
  <1>2. a \in 0 .. n - 1 /\ a = (x + i) % n /\ a = (y + k) % n
    BY BucketIs DEF Buckets
  <1> HIDE DEF n, a
  <1>3. ((x + i) + 1) % n = (a + 1) % n /\ ((y + k) + 1) % n = (a + 1) % n
    BY <1>1, <1>2, OneOn, Zenon
  <1>4. x + (i + 1) = (x + i) + 1 /\ y + (k + 1) = (y + k) + 1
    OBVIOUS
  <1> QED BY <1>1, <1>3, <1>4, Zenon DEF Bucket

(* The set with the new value's item in place of one or of none: "there"   *)
(* is 0 or the id of the item that gives up bucket p.                      *)
Given(t, p, there, held, id) ==
    Placed(IF there = 0 THEN t ELSE TakenOut(t, there), p, held, id)

GivenIs(t, hf, p, there, held, id, u) ==
    /\ Sound(u, hf) /\ u.tableCap = t.tableCap /\ u.living = t.living
    /\ u.nextId = t.nextId
    /\ there # 0 => there \in Ids(t) /\ Stored(t, there) /\ there # id
    /\ there # 0 => u.items[there] = EmptyItem
    /\ u.items[id].bucket = p /\ u.items[id].value = held.value
    /\ u.items[id].psl = held.psl /\ u.items[id].ref = held.ref
    /\ \A j \in Ids(t) : j # id /\ j # there => u.items[j] = t.items[j]
    /\ u.table[p] = id /\ \A b \in Buckets(t) : b # p => u.table[b] = t.table[b]

LEMMA GivenSound ==
    ASSUME NEW t, NEW hf, Sound(t, hf), NEW p \in Buckets(t), NEW there, there = t.table[p],
           NEW id \in Ids(t), ~Stored(t, id),
           NEW held \in Item, held.value \in Values, held.psl < PslLen,
           p = Bucket(t, hf[held.value], held.psl),
           NEW u, u = Given(t, p, there, held, id)
    PROVE  GivenIs(t, hf, p, there, held, id, u)
  <1> DEFINE w == IF there = 0 THEN t ELSE TakenOut(t, there)
  <1>0. Shape(t) /\ ItemsOK(t, hf) /\ Refers(t, p)
    BY DEF Sound
  <1>1. there # 0 => /\ there \in Ids(t) /\ t.items[there].bucket = p /\ Stored(t, there)
                     /\ there # id /\ t.items[there].psl < PslLen
    <2>1. there # 0 => there \in Ids(t) /\ t.items[there].bucket = p
      BY <1>0 DEF Refers
    <2>2. p # NoBucket
      BY <1>0, ShapeIs, EmptyIs DEF Buckets
    <2>3. there # 0 => Stored(t, there)
      BY <2>1, <2>2 DEF Stored
    <2>4. there # 0 => t.items[there].psl < PslLen
      BY <1>0, <2>1, <2>3, StoredIs
    <2> QED BY <2>1, <2>3, <2>4
  <1>2. /\ SoundBut(w, hf, p) /\ w.tableCap = t.tableCap /\ w.table = t.table
        /\ w.living = t.living /\ w.nextId = t.nextId
        /\ there # 0 => w.items = [t.items EXCEPT ![there] = EmptyItem]
        /\ there = 0 => w.items = t.items
    <2>1. CASE there = 0
      BY <2>1, HoleSound
    <2>2. CASE there # 0
      <3>1. SoundBut(TakenOut(t, there), hf, t.items[there].bucket)
        BY <2>2, <1>1, TakenOutSound, Zenon
      <3>2. /\ TakenOut(t, there).tableCap = t.tableCap /\ TakenOut(t, there).table = t.table
            /\ TakenOut(t, there).living = t.living /\ TakenOut(t, there).nextId = t.nextId
            /\ TakenOut(t, there).items = [t.items EXCEPT ![there] = EmptyItem]
        BY <2>2, <1>0, <1>1, TakenOutIs, ZenonT(30)
      <3> QED BY <2>2, <1>1, <3>1, <3>2
    <2> QED BY <2>1, <2>2
  <1> HIDE DEF w
  <1>3. /\ Shape(w) /\ Ids(w) = Ids(t) /\ Buckets(w) = Buckets(t)
        /\ Bucket(w, hf[held.value], held.psl) = p /\ ~Stored(w, id)
    <2>1. Shape(w)
      BY <1>2 DEF SoundBut
    <2>2. Ids(w) = Ids(t) /\ TableCap(w) = TableCap(t)
      BY <1>0, <1>2, <2>1, ShapeIs
    <2>3. ~Stored(w, id)
      BY <1>0, <1>1, <1>2, ShapeIs DEF Stored
    <2> QED BY <1>2, <2>1, <2>2, <2>3 DEF Buckets, Bucket
  <1>4. Sound(Placed(w, p, held, id), hf)
    BY <1>2, <1>3, PlacedSound
  <1>5. /\ u.tableCap = w.tableCap /\ u.living = w.living /\ u.nextId = w.nextId
        /\ u.table = [w.table EXCEPT ![p] = id]
        /\ u.items = [w.items EXCEPT ![id] = [held EXCEPT !.bucket = p]]
    <2>1. p \in Buckets(w) /\ id \in Ids(w) /\ u = Placed(w, p, held, id)
      BY <1>3 DEF Given, w
    <2>2. Shape(w) /\ p \in Buckets(w) /\ id \in Ids(w) /\ held \in Item /\ held.psl < PslLen
      BY <1>3, <2>1
    <2>3. PICK v : v = w
      OBVIOUS
    <2> DEFINE z == Placed(v, p, held, id)
    <2>4. Shape(v) /\ p \in Buckets(v) /\ id \in Ids(v)
      BY <2>2, <2>3, Zenon
    <2>5. /\ z.tableCap = v.tableCap /\ z.living = v.living /\ z.nextId = v.nextId
          /\ z.table = [v.table EXCEPT ![p] = id]
          /\ z.items = [v.items EXCEPT ![id] = [held EXCEPT !.bucket = p]]
      <3>1. /\ z.tableCap = v.tableCap /\ z.living = v.living /\ z.nextId = v.nextId
            /\ z.table = [v.table EXCEPT ![p] = id]
            /\ z.items = [v.items EXCEPT ![id] = [held EXCEPT !.bucket = p]]
            /\ z.stats = [v.stats EXCEPT ![held.psl] = @ + 1]
            /\ z.maxPsl >= v.maxPsl /\ z.maxPsl >= held.psl
            /\ Shape(z)
        BY <2>2, <2>4, PlacedIs
      <3> QED BY <3>1
    <2> QED BY <2>1, <2>3, <2>5, Zenon
  <1>6. Sound(u, hf)
    BY <1>4 DEF Given, w
  <1>7. /\ w.items \in [Ids(t) -> Item] /\ t.items \in [Ids(t) -> Item]
        /\ t.table \in [Buckets(t) -> Nat]
    BY <1>0, <1>3, ShapeIs
  <1>8. /\ u.items[id] = [held EXCEPT !.bucket = p]
        /\ \A j \in Ids(t) : j # id => u.items[j] = w.items[j]
        /\ u.table[p] = id /\ \A b \in Buckets(t) : b # p => u.table[b] = t.table[b]
    BY <1>2, <1>5, <1>7
  <1>9. /\ u.items[id].bucket = p /\ u.items[id].value = held.value
        /\ u.items[id].psl = held.psl /\ u.items[id].ref = held.ref
    BY <1>8 DEF Item
  <1>10. /\ there # 0 => w.items[there] = EmptyItem
         /\ \A j \in Ids(t) : j # there => w.items[j] = t.items[j]
    BY <1>1, <1>2, <1>7
  <1>11. there # 0 => u.items[there] = EmptyItem
    BY <1>1, <1>8, <1>10
  <1>12. \A j \in Ids(t) : j # id /\ j # there => u.items[j] = t.items[j]
    BY <1>8, <1>10
  <1> QED BY <1>1, <1>2, <1>5, <1>6, <1>8, <1>9, <1>11, <1>12, ZenonT(30) DEF GivenIs

(* What concerns the values and the counts: "from" is the set before the   *)
(* insertion, t the set now.  No other item's count is changed, no living  *)
(* item's value, and nothing else comes to be stored.                      *)
KeptItem(from, t, j) ==
    /\ t.items[j].ref = from.items[j].ref
    /\ from.items[j].ref > 0 => t.items[j].value = from.items[j].value
    /\ Stored(t, j) => Stored(from, j)

(* The new item is stored under id.                                        *)
NewAt(t, id, value) ==
    Stored(t, id) /\ t.items[id].value = value /\ t.items[id].ref = 0

(* "given" is what the insertion was given: the set, the hash function, the *)
(* value, the new id, and the probe that is known to find an empty bucket. *)
ProbeAt(given, i) == Bucket(given.from, given.hf[given.value], i)

(* The item on its way, which is not in the table: the new one or one that *)
(* gave up its bucket.                                                     *)
Holding(given, i, at) ==
    LET t == at.set IN
    /\ at.id \in Ids(t) /\ ~Stored(t, at.id)
    /\ at.held \in Item /\ at.held.value \in Values /\ at.held.psl < PslLen
    /\ Bucket(t, given.hf[at.held.value], at.held.psl) = ProbeAt(given, i)
    /\ IF at.id = given.newId
       THEN at.held.value = given.value /\ at.held.ref = 0
       ELSE /\ at.held.value = given.from.items[at.id].value
            /\ at.held.ref = given.from.items[at.id].ref
            /\ Stored(given.from, at.id)
            /\ NewAt(t, given.newId, given.value)

(* What is ahead was not touched: there is an empty bucket, and no item is *)
(* as far from home as it may be.                                          *)
Ahead(given, i, at) ==
    LET t == at.set IN
    /\ given.hole >= i /\ t.table[ProbeAt(given, given.hole)] = 0
    /\ \A k \in i .. given.from.tableCap - 2 :
         LET there == t.table[ProbeAt(given, k)]
         IN  /\ there # 0 => t.items[there].psl < PslLen - 1
             /\ there # given.newId

Going(given, i, at) ==
    /\ Holding(given, i, at) /\ Ahead(given, i, at) /\ at.chosen = given.newId
    /\ \A j \in Ids(given.from) : j # at.id /\ j # given.newId => KeptItem(given.from, at.set, j)

Landed(given, at) ==
    /\ NewAt(at.set, given.newId, given.value)
    /\ \A j \in Ids(given.from) : j # given.newId => KeptItem(given.from, at.set, j)
    /\ at.chosen \in Ids(given.from)
    /\ \/ at.chosen = given.newId
       \/ at.chosen < given.newId /\ ~Stored(at.set, at.chosen)

ProbeInv(given, x) ==
    LET i == x[1]
        at == x[2]
    IN  /\ Sound(at.set, given.hf) /\ at.set.tableCap = given.from.tableCap
        /\ at.set.living = given.from.living /\ at.set.nextId = given.from.nextId
        /\ at \in [set : {at.set}, held : {at.held}, id : {at.id}, hash : {given.hf[given.value]},
                   newId : {given.newId}, chosen : {at.chosen}, done : BOOLEAN]
        /\ IF at.done THEN Landed(given, at) ELSE Going(given, i, at)

(* What an insertion may be given.                                         *)
Insertion(given) ==
    /\ Sound(given.from, given.hf) /\ given.hf \in HashFunctions /\ given.value \in Values
    /\ given.newId \in Ids(given.from) /\ ~Stored(given.from, given.newId)
    /\ given.hole \in 0 .. given.from.tableCap - 2

LEMMA ProbeFacts ==
    ASSUME NEW given, Insertion(given), NEW i \in 0 .. given.from.tableCap - 2, NEW at,
           ProbeInv(given, <<i, at>>), ~at.done
    PROVE  /\ Shape(at.set) /\ Ids(at.set) = Ids(given.from) /\ Buckets(at.set) = Buckets(given.from)
           /\ TableCap(at.set) = TableCap(given.from)
           /\ given.from.tableCap \in Nat /\ given.from.tableCap > 0
           /\ given.hf[given.value] \in Nat
           /\ Bucket(at.set, at.hash, i) = ProbeAt(given, i)
           /\ ProbeAt(given, i) \in Buckets(at.set)
           /\ \A k \in 0 .. given.from.tableCap - 2 :
                ProbeAt(given, k) \in Buckets(at.set) /\ (k # i => ProbeAt(given, k) # ProbeAt(given, i))
  <1> DEFINE s == given.from
             x == given.hf[given.value]
  <1>1. Shape(s) /\ Shape(at.set) /\ at.set.tableCap = s.tableCap /\ at.hash = x
    BY DEF Insertion, ProbeInv, Sound
  <1>2. /\ Ids(at.set) = Ids(s) /\ Buckets(at.set) = Buckets(s) /\ TableCap(at.set) = TableCap(s)
        /\ s.tableCap \in Nat
    BY <1>1, ShapeIs DEF Buckets
  <1>3. x \in Nat
    BY DEF Insertion, HashFunctions
  <1>4. s.tableCap > 0
    BY <1>2
  <1>5. \A k \in 0 .. s.tableCap - 2 : k \in Nat /\ k \in Buckets(s)
    BY <1>2 DEF Buckets
  <1> HIDE DEF s, x
  <1>6. \A k \in 0 .. s.tableCap - 2 : ProbeAt(given, k) \in Buckets(s)
    BY <1>1, <1>3, <1>4, <1>5, BucketIs DEF ProbeAt, s, x
  <1>7. Bucket(at.set, at.hash, i) = ProbeAt(given, i)
    BY <1>1, <1>2 DEF ProbeAt, Bucket, s, x
  <1>8. \A k \in 0 .. s.tableCap - 2 : k # i => ProbeAt(given, k) # ProbeAt(given, i)
    BY <1>1, <1>3, <1>5, BucketsDiffer DEF ProbeAt, s, x
  <1> QED BY <1>1, <1>2, <1>3, <1>4, <1>6, <1>7, <1>8 DEF s, x

(* The held item was given the bucket of "there": u is the set then.       *)
LEMMA GivenKeeps ==
    ASSUME NEW given, Insertion(given), NEW i \in 0 .. given.from.tableCap - 2, NEW at,
           ProbeInv(given, <<i, at>>), ~at.done,
           NEW p, p = ProbeAt(given, i), NEW there, there = at.set.table[p],
           NEW u, u = Given(at.set, p, there, at.held, at.id)
    PROVE  /\ Sound(u, given.hf) /\ u.tableCap = at.set.tableCap /\ u.living = at.set.living
           /\ u.nextId = at.set.nextId
           /\ there # 0 => /\ there \in Ids(at.set) /\ Stored(at.set, there) /\ there # at.id
                           /\ ~Stored(u, there) /\ u.items[there].ref = 0
                           /\ there # given.newId
           /\ NewAt(u, given.newId, given.value)
           /\ \A j \in Ids(given.from) : j # there /\ j # given.newId => KeptItem(given.from, u, j)
           /\ \A b \in Buckets(at.set) : b # p => u.table[b] = at.set.table[b]
           /\ \A j \in Ids(at.set) : j # at.id /\ j # there => u.items[j] = at.set.items[j]
           /\ u.table[p] = at.id
  <1> DEFINE t == at.set
             id == at.id
             held == at.held
  <1>0. Sound(t, given.hf) /\ Holding(given, i, at) /\ Ahead(given, i, at) /\ Going(given, i, at)
    BY DEF ProbeInv, Going
  <1>1. /\ id \in Ids(t) /\ ~Stored(t, id) /\ held \in Item /\ held.value \in Values
        /\ held.psl < PslLen /\ p = Bucket(t, given.hf[held.value], held.psl)
    BY <1>0 DEF Holding
  <1>2. /\ p \in Buckets(t) /\ Ids(t) = Ids(given.from) /\ Shape(t)
    BY ProbeFacts
  <1>3. /\ Sound(u, given.hf) /\ u.tableCap = t.tableCap /\ u.living = t.living
        /\ u.nextId = t.nextId
        /\ there # 0 => there \in Ids(t) /\ Stored(t, there) /\ there # id
        /\ there # 0 => u.items[there] = EmptyItem
        /\ u.items[id].bucket = p /\ u.items[id].value = held.value
        /\ u.items[id].psl = held.psl /\ u.items[id].ref = held.ref
        /\ \A j \in Ids(t) : j # id /\ j # there => u.items[j] = t.items[j]
        /\ u.table[p] = id /\ \A b \in Buckets(t) : b # p => u.table[b] = t.table[b]
    <2> DEFINE hf == given.hf
    <2>1. /\ Sound(t, hf) /\ p \in Buckets(t) /\ there = t.table[p] /\ id \in Ids(t)
          /\ ~Stored(t, id) /\ held \in Item /\ held.value \in Values /\ held.psl < PslLen
          /\ p = Bucket(t, hf[held.value], held.psl) /\ u = Given(t, p, there, held, id)
      BY <1>0, <1>1, <1>2
    <2> HIDE DEF t, id, held, hf
    <2>2. GivenIs(t, hf, p, there, held, id, u)
      BY <2>1, GivenSound
    <2> QED BY <2>2, Zenon DEF GivenIs, t, id, held, hf
  <1>4. there # given.newId
    BY <1>0 DEF Ahead
  <1>5. Stored(u, id)
    <2>1. t.tableCap \in Nat
      BY <1>2, ShapeIs
    <2>2. p # NoBucket
      BY <1>2, <2>1 DEF Buckets, NoBucket
    <2>3. u.items[id].bucket = p
      BY <1>3
    <2> QED BY <2>2, <2>3 DEF Stored
  <1>6. NewAt(u, given.newId, given.value)
    <2>1. CASE id = given.newId
      BY <1>0, <1>3, <1>5, <2>1 DEF Holding, NewAt
    <2>2. CASE id # given.newId
      <3>1. NewAt(t, given.newId, given.value) /\ given.newId \in Ids(t)
        BY <1>0, <1>2, <2>2 DEF Holding, Insertion
      <3>2. u.items[given.newId] = t.items[given.newId]
        BY <1>3, <1>4, <2>2, <3>1
      <3> QED BY <3>1, <3>2 DEF NewAt, Stored
    <2> QED BY <2>1, <2>2
  <1>7. ASSUME NEW j \in Ids(given.from), j # there, j # given.newId
        PROVE  KeptItem(given.from, u, j)
    <2>1. CASE j = id
      BY <1>0, <1>3, <1>7, <2>1 DEF Holding, KeptItem
    <2>2. CASE j # id
      <3>1. KeptItem(given.from, t, j) /\ u.items[j] = t.items[j]
        BY <1>0, <1>2, <1>3, <1>7, <2>2 DEF Going
      <3> QED BY <3>1 DEF KeptItem, Stored
    <2> QED BY <2>1, <2>2
  <1>8. there # 0 => ~Stored(u, there) /\ u.items[there].ref = 0
    BY <1>3, EmptyIs DEF Stored
  <1> QED BY <1>3, <1>4, <1>6, <1>7, <1>8

LEMMA ProbeKeeps ==
    ASSUME NEW given, Insertion(given), NEW i \in 0 .. given.from.tableCap - 2, NEW at,
           ProbeInv(given, <<i, at>>)
    PROVE  ProbeInv(given, <<i + 1, Probe(at, i)>>)
  <1> DEFINE t == at.set
             n == given.from.tableCap
             p == ProbeAt(given, i)
             there == t.table[p]
             resident == t.items[there]
             u == Given(t, p, there, at.held, at.id)
  <1>0. /\ Sound(t, given.hf) /\ t.tableCap = n
        /\ t.living = given.from.living /\ t.nextId = given.from.nextId
        /\ at \in [set : {at.set}, held : {at.held}, id : {at.id}, hash : {given.hf[given.value]},
                   newId : {given.newId}, chosen : {at.chosen}, done : BOOLEAN]
        /\ IF at.done THEN Landed(given, at) ELSE Going(given, i, at)
    BY DEF ProbeInv
  <1>1. CASE at.done
    <2>1. Probe(at, i) = at
      BY <1>1 DEF Probe
    <2> QED BY <1>0, <1>1, <2>1 DEF ProbeInv
  <1>2. CASE ~at.done
    <2>1. /\ Shape(t) /\ Ids(t) = Ids(given.from) /\ Buckets(t) = Buckets(given.from)
          /\ TableCap(t) = TableCap(given.from) /\ n \in Nat /\ n > 0
          /\ given.hf[given.value] \in Nat /\ Bucket(t, at.hash, i) = p /\ p \in Buckets(t)
          /\ \A k \in 0 .. n - 2 : ProbeAt(given, k) \in Buckets(t) /\ (k # i => ProbeAt(given, k) # p)
      BY <1>2, ProbeFacts
    <2>2. /\ Sound(u, given.hf) /\ u.tableCap = t.tableCap /\ u.living = t.living
          /\ u.nextId = t.nextId
          /\ there # 0 => /\ there \in Ids(t) /\ Stored(t, there) /\ there # at.id
                          /\ ~Stored(u, there) /\ u.items[there].ref = 0
                          /\ there # given.newId
          /\ NewAt(u, given.newId, given.value)
          /\ \A j \in Ids(given.from) : j # there /\ j # given.newId => KeptItem(given.from, u, j)
          /\ \A b \in Buckets(t) : b # p => u.table[b] = t.table[b]
          /\ \A j \in Ids(t) : j # at.id /\ j # there => u.items[j] = t.items[j]
          /\ u.table[p] = at.id
      BY <1>2, GivenKeeps
    <2>3. Holding(given, i, at) /\ Ahead(given, i, at) /\ at.chosen = given.newId
          /\ \A j \in Ids(given.from) : j # at.id /\ j # given.newId => KeptItem(given.from, t, j)
      BY <1>0, <1>2 DEF Going
    <2>4. CASE there = 0
      <3>1. Probe(at, i) = [at EXCEPT !.set = u, !.done = TRUE]
        BY <1>2, <2>1, <2>4 DEF Probe, Given
      <3> DEFINE w == Probe(at, i)
      <3> HIDE DEF u
      <3>2. /\ w.set = u /\ w.done = TRUE /\ w.chosen = at.chosen
            /\ w \in [set : {w.set}, held : {w.held}, id : {w.id}, hash : {given.hf[given.value]},
                      newId : {given.newId}, chosen : {w.chosen}, done : BOOLEAN]
        BY <1>0, <3>1
      <3> HIDE DEF w
      <3>3. Landed(given, w)
        <4>1. \A j \in Ids(given.from) : j # there
          BY <2>1, <2>4, ShapeIs
        <4>2. given.newId \in Ids(given.from)
          BY DEF Insertion
        <4>3. \A j \in Ids(given.from) : j # given.newId => KeptItem(given.from, u, j)
          BY <2>2, <4>1
        <4> QED BY <2>2, <2>3, <3>2, <4>2, <4>3, Zenon DEF Landed
      <3>4. ProbeInv(given, <<i + 1, w>>)
        BY <1>0, <2>2, <3>2, <3>3 DEF ProbeInv
      <3> QED BY <3>4 DEF w
    <2>5. CASE there # 0 /\ resident.ref = 0
      <3>1. Probe(at, i) = [at EXCEPT !.set = u, !.done = TRUE,
                                      !.chosen = IF there < at.newId THEN there ELSE @]
        BY <1>2, <2>1, <2>5 DEF Probe, Given
      <3> DEFINE w == Probe(at, i)
      <3> HIDE DEF u, there
      <3>2. /\ w.set = u /\ w.done = TRUE
            /\ w.chosen = IF there < given.newId THEN there ELSE given.newId
            /\ w \in [set : {w.set}, held : {w.held}, id : {w.id}, hash : {given.hf[given.value]},
                      newId : {given.newId}, chosen : {w.chosen}, done : BOOLEAN]
        BY <1>0, <2>3, <3>1
      <3> HIDE DEF w
      <3>3. Landed(given, w)
        <4>1. KeptItem(given.from, u, there)
          <5>1. KeptItem(given.from, t, there)
            BY <2>1, <2>2, <2>3, <2>5
          <5> QED BY <2>2, <2>5, <5>1 DEF KeptItem
        <4>2. given.newId \in Ids(given.from) /\ there \in Ids(given.from)
          BY <2>1, <2>2, <2>5 DEF Insertion
        <4>3. \A j \in Ids(given.from) : j # given.newId => KeptItem(given.from, u, j)
          BY <2>2, <4>1
        <4>4. there < given.newId => w.chosen = there
          BY <3>2
        <4>5. ~(there < given.newId) => w.chosen = given.newId
          BY <3>2
        <4>6. w.set = u /\ NewAt(u, given.newId, given.value) /\ ~Stored(u, there)
          BY <2>2, <2>5, <3>2
        <4> QED BY <4>2, <4>3, <4>4, <4>5, <4>6, Zenon DEF Landed
      <3>4. ProbeInv(given, <<i + 1, w>>)
        BY <1>0, <2>2, <3>2, <3>3 DEF ProbeInv
      <3> QED BY <3>4 DEF w
    <2>6. CASE there # 0 /\ resident.ref # 0
      <3>1. /\ given.hole >= i + 1 /\ i + 1 <= n - 2 /\ given.hole \in Nat
            /\ resident \in Item /\ resident.psl < PslLen - 1 /\ resident.psl \in Nat
            /\ PslLen \in Nat /\ resident.ref > 0 /\ resident.value \in Values
            /\ given.hole \in 0 .. n - 2
        <4>1. given.hole # i /\ given.hole >= i
          BY <2>3, <2>6 DEF Ahead
        <4>2. given.hole \in 0 .. n - 2 /\ n \in Nat
          BY <2>1 DEF Insertion
        <4>3. resident.psl < PslLen - 1
          <5>1. i \in i .. n - 2
            BY <4>2
          <5> QED BY <2>3, <2>6, <5>1 DEF Ahead
        <4>4. resident \in Item /\ resident.value \in Values /\ PslLen \in Nat
          BY <1>0, <2>1, <2>2, <2>6, StoredIs, ShapeIs DEF Sound
        <4>5. resident.ref > 0 /\ resident.psl \in Nat
          BY <2>6, <4>4 DEF Item
        <4> QED BY <4>1, <4>2, <4>3, <4>4, <4>5
      <3>2. ProbeAt(given, i + 1) = Bucket(t, given.hf[given.value], i + 1)
        BY <2>1 DEF ProbeAt, Bucket
      <3>3. p = Bucket(t, given.hf[given.value], i) /\ i \in Nat
        BY <2>1 DEF ProbeAt, Bucket
      <3>4. CASE Richer(resident, at.held)
        <4> DEFINE h == Poorer(resident)
        <4>1. Probe(at, i) = [at EXCEPT !.set = u, !.held = h, !.id = there]
          BY <1>2, <2>1, <2>6, <3>4 DEF Probe, Given
        <4>2. h \in Item /\ h.psl = resident.psl + 1 /\ h.value = resident.value
              /\ h.ref = resident.ref
          BY <3>1 DEF Poorer, Item
        <4> DEFINE w == Probe(at, i)
        <4>3. /\ w.set = u /\ w.done = FALSE /\ w.held = h /\ w.id = there
              /\ w.chosen = at.chosen
              /\ w \in [set : {w.set}, held : {w.held}, id : {w.id}, hash : {given.hf[given.value]},
                        newId : {given.newId}, chosen : {w.chosen}, done : BOOLEAN]
          <5> HIDE DEF u, there, h
          <5> QED BY <1>0, <1>2, <4>1
        <4>4. Ids(u) = Ids(t) /\ Buckets(u) = Buckets(t) /\ TableCap(u) = TableCap(t)
          BY <2>1, <2>2, ShapeIs DEF Sound, Buckets
        <4> HIDE DEF u, w, h
        <4>5. Bucket(u, given.hf[h.value], h.psl) = ProbeAt(given, i + 1)
          <5>1. InPlace(t, given.hf, there) /\ resident.bucket = p
            BY <1>0, <2>1, <2>2, <2>6, StoredIs DEF Sound, Refers
          <5>2. p = Bucket(t, given.hf[resident.value], resident.psl)
            BY <5>1 DEF InPlace
          <5>3. given.hf[resident.value] \in Nat
            BY <3>1 DEF Insertion, HashFunctions
          <5>4. Bucket(t, given.hf[resident.value], resident.psl + 1)
                  = Bucket(t, given.hf[given.value], i + 1)
            <6> DEFINE y == given.hf[resident.value]
                       k == resident.psl
                       x == given.hf[given.value]
            <6>1. /\ x \in Nat /\ y \in Nat /\ k \in Nat /\ i \in Nat /\ Shape(t) /\ t.tableCap > 0
                  /\ Bucket(t, x, i) = Bucket(t, y, k)
              BY <1>0, <2>1, <3>1, <3>3, <5>2, <5>3
            <6> HIDE DEF x, y, k, t
            <6>2. Bucket(t, x, i + 1) = Bucket(t, y, k + 1)
              BY <6>1, BucketNext
            <6> QED BY <6>2 DEF x, y, k, t
          <5> QED BY <3>2, <4>2, <4>4, <5>4 DEF Bucket
        <4>6. KeptItem(given.from, t, there)
          BY <2>1, <2>2, <2>3, <2>6
        <4>7. Holding(given, i + 1, w)
          <5>1. h.psl < PslLen /\ h.value \in Values
            BY <3>1, <4>2
          <5>2. there \in Ids(u) /\ ~Stored(u, there) /\ there # given.newId
            BY <2>2, <2>6, <4>4
          <5>3. h.ref = given.from.items[there].ref /\ h.value = given.from.items[there].value
            BY <3>1, <4>2, <4>6 DEF KeptItem
          <5>4. Stored(given.from, there) /\ NewAt(u, given.newId, given.value)
            BY <2>2, <2>6, <4>6 DEF KeptItem
          <5> QED BY <4>2, <4>3, <4>5, <5>1, <5>2, <5>3, <5>4, Zenon DEF Holding
        <4>8. Ahead(given, i + 1, w)
          <5>1. \A k \in i + 1 .. n - 2 : k \in i .. n - 2 /\ k \in 0 .. n - 2 /\ k # i
            OBVIOUS
          <5>2. ASSUME NEW k \in i + 1 .. n - 2
                PROVE  /\ u.table[ProbeAt(given, k)] = t.table[ProbeAt(given, k)]
                       /\ u.table[ProbeAt(given, k)] # given.newId
                       /\ u.table[ProbeAt(given, k)] # 0 =>
                            u.items[u.table[ProbeAt(given, k)]].psl < PslLen - 1
            <6> DEFINE c == ProbeAt(given, k)
                       j == t.table[c]
            <6>1. c \in Buckets(t) /\ c # p
              BY <2>1, <5>1
            <6>2. u.table[c] = j
              BY <2>2, <6>1
            <6>3. j # given.newId /\ (j # 0 => t.items[j].psl < PslLen - 1)
              BY <2>3, <5>1 DEF Ahead
            <6>4. j # 0 => j \in Ids(t) /\ Stored(t, j) /\ j # there
              <7>1. j # 0 => j \in Ids(t) /\ t.items[j].bucket = c
                BY <1>0, <6>1 DEF Sound, Refers
              <7>2. resident.bucket = p /\ c # NoBucket
                BY <1>0, <2>1, <2>6, <6>1, ShapeIs, EmptyIs DEF Sound, Refers, Buckets
              <7> QED BY <6>1, <7>1, <7>2 DEF Stored
            <6>5. j # 0 => u.items[j] = t.items[j]
              BY <2>2, <2>3, <6>4 DEF Holding
            <6> QED BY <6>2, <6>3, <6>5
          <5>3. u.table[ProbeAt(given, given.hole)] = 0
            <6>1. t.table[ProbeAt(given, given.hole)] = 0
              BY <2>3 DEF Ahead
            <6>2. given.hole \in i + 1 .. n - 2
              BY <3>1
            <6> QED BY <5>2, <6>1, <6>2
          <5> QED BY <3>1, <4>3, <5>2, <5>3 DEF Ahead
        <4>9. Going(given, i + 1, w)
          BY <2>2, <2>3, <4>3, <4>7, <4>8 DEF Going
        <4>10. ProbeInv(given, <<i + 1, w>>)
          BY <1>0, <2>2, <4>3, <4>9 DEF ProbeInv
        <4> QED BY <4>10 DEF w
      <3>5. CASE ~Richer(resident, at.held)
        <4> DEFINE h == Poorer(at.held)
        <4>1. Probe(at, i) = [at EXCEPT !.held = h]
          BY <1>2, <2>1, <2>6, <3>5 DEF Probe, Given
        <4>2. at.held \in Item /\ at.held.psl \in Nat /\ at.held.value \in Values
          BY <2>3 DEF Holding, Item
        <4>3. h \in Item /\ h.psl = at.held.psl + 1 /\ h.value = at.held.value
              /\ h.ref = at.held.ref
          BY <4>2 DEF Poorer, Item
        <4>4. h.psl < PslLen
          BY <3>1, <3>5, <4>2, <4>3 DEF Richer
        <4> DEFINE w == Probe(at, i)
        <4>5. /\ w.set = t /\ w.done = FALSE /\ w.held = h /\ w.id = at.id
              /\ w.chosen = at.chosen
              /\ w \in [set : {w.set}, held : {w.held}, id : {w.id}, hash : {given.hf[given.value]},
                        newId : {given.newId}, chosen : {w.chosen}, done : BOOLEAN]
          <5> HIDE DEF h
          <5> QED BY <1>0, <1>2, <4>1
        <4> HIDE DEF w, h
        <4>6. Bucket(t, given.hf[h.value], h.psl) = ProbeAt(given, i + 1)
          <5>1. Bucket(t, given.hf[at.held.value], at.held.psl) = p
            BY <2>3 DEF Holding
          <5>2. given.hf[at.held.value] \in Nat
            BY <4>2 DEF Insertion, HashFunctions
          <5>3. Bucket(t, given.hf[at.held.value], at.held.psl + 1)
                  = Bucket(t, given.hf[given.value], i + 1)
            BY <1>0, <2>1, <3>3, <4>2, <5>1, <5>2, BucketNext
          <5> QED BY <3>2, <4>3, <5>3
        <4>7. Holding(given, i + 1, w)
          BY <2>3, <4>3, <4>4, <4>5, <4>6 DEF Holding
        <4>8. Ahead(given, i + 1, w)
          <5>1. \A k \in i + 1 .. n - 2 : k \in i .. n - 2
            OBVIOUS
          <5> QED BY <2>3, <3>1, <4>5, <5>1 DEF Ahead
        <4>9. Going(given, i + 1, w)
          BY <2>3, <4>5, <4>7, <4>8 DEF Going
        <4>10. ProbeInv(given, <<i + 1, w>>)
          BY <1>0, <4>5, <4>9 DEF ProbeInv
        <4> QED BY <4>10 DEF w
      <3> QED BY <3>4, <3>5
    <2> QED BY <2>4, <2>5, <2>6
  <1> QED BY <1>1, <1>2

Probes == INSTANCE FoldFacts WITH Step <- Probe, Inv <- ProbeInv

LEMMA ProbeFolds == \A base, turns : FoldLeft(Probe, base, turns) = Probes!Fold(base, turns)
  BY Zenon DEF FoldLeft, Probes!FoldLeft, MapThenFoldSet, Probes!MapThenFoldSet,
     Max, Probes!Max, Probes!Fold

(* What inserting a value into the set "from" promises of the set t it     *)
(* makes and of the id it gives the value: nobody used the id.             *)
InsertedAs(from, hf, value, newId, t, id) ==
    /\ Sound(t, hf) /\ t.tableCap = from.tableCap
    /\ t.living = from.living /\ t.nextId = from.nextId
    /\ id \in Ids(from) /\ id <= newId /\ from.items[id].ref = 0
    /\ NewAt(t, id, value)
    /\ \A j \in Ids(from) : j # id => KeptItem(from, t, j)

(* An item that is not in the table is the empty one.                      *)
LEMMA NotStored ==
    ASSUME NEW s, NEW hf, Sound(s, hf), NEW id \in Ids(s), ~Stored(s, id)
    PROVE  s.items[id] = EmptyItem /\ s.items[id].ref = 0
  BY EmptyIs DEF Sound, ItemsOK

(* The guard of insertion: no item is as far from home as it may be.       *)
LEMMA TailFree ==
    ASSUME NEW s, NEW hf, Sound(s, hf), ~TailUsed(s), NEW id \in Ids(s), Stored(s, id)
    PROVE  s.items[id].psl < PslLen - 1
  <1>1. /\ Shape(s) /\ ItemsOK(s, hf) /\ PslLen \in Nat /\ PslLen > 0
        /\ s.items[id].psl \in Nat /\ s.items[id].psl < PslLen
    BY ShapeIs, StoredIs DEF Sound
  <1>2. PslLen - 1 \in 0 .. PslLen - 1
    BY <1>1
  <1>3. s.stats[PslLen - 1] = Cardinality(AtPsl(s, PslLen - 1))
    BY <1>2 DEF Sound, StatsOK
  <1>4. IsFiniteSet(AtPsl(s, PslLen - 1)) /\ Cardinality(AtPsl(s, PslLen - 1)) \in Nat
    BY <1>1, IdsFinite DEF AtPsl
  <1>5. Cardinality(AtPsl(s, PslLen - 1)) = 0
    BY <1>3, <1>4 DEF TailUsed
  <1>6. AtPsl(s, PslLen - 1) = {}
    BY <1>4, <1>5, FS_EmptySet
  <1>7. s.items[id].psl # PslLen - 1
    BY <1>6 DEF AtPsl
  <1> QED BY <1>1, <1>7

LEMMA ProbedLands ==
    ASSUME NEW s, NEW hf \in HashFunctions, Sound(s, hf), NEW value \in Values,
           NEW newId \in Ids(s), ~Stored(s, newId), ~TailUsed(s)
    PROVE  LET at == Probed(s, value, hf[value], newId) IN
           /\ Sound(at.set, hf) /\ at.set.tableCap = s.tableCap
           /\ at.set.living = s.living /\ at.set.nextId = s.nextId
           /\ NewAt(at.set, newId, value)
           /\ \A j \in Ids(s) : j # newId => KeptItem(s, at.set, j)
           /\ at.chosen \in Ids(s)
           /\ at.chosen = newId \/ (at.chosen < newId /\ ~Stored(at.set, at.chosen))
  <1> DEFINE n == s.tableCap
             x == hf[value]
             turns == [k \in 1 .. n - 1 |-> k - 1]
             held == [EmptyItem EXCEPT !.value = value]
             base == [set |-> s, held |-> held, id |-> newId,
                      hash |-> x, newId |-> newId, chosen |-> newId, done |-> FALSE]
  <1>1. Shape(s) /\ n \in Nat /\ n > 0 /\ TableCap(s) = n /\ x \in Nat /\ newId # 0
        /\ PslLen \in Nat /\ PslLen > 0
    BY ShapeIs DEF Sound, HashFunctions
  <1>2. \A e \in 0 .. n - 2 : e \in Nat /\ Bucket(s, x, e) \in Buckets(s)
    <2>1. \A e \in 0 .. n - 2 : e \in Nat
      OBVIOUS
    <2> HIDE DEF n, x
    <2> QED BY <1>1, <2>1, BucketIs DEF n
  <1>3. \A e \in 0 .. n - 2 : LET there == s.table[Bucket(s, x, e)] IN
          there # 0 => there \in Ids(s) /\ Stored(s, there) /\ s.items[there].psl < PslLen - 1
    <2> SUFFICES ASSUME NEW e \in 0 .. n - 2, s.table[Bucket(s, x, e)] # 0
                 PROVE  LET there == s.table[Bucket(s, x, e)] IN
                        there \in Ids(s) /\ Stored(s, there) /\ s.items[there].psl < PslLen - 1
      OBVIOUS
    <2> DEFINE b == Bucket(s, x, e)
    <2>1. b \in Buckets(s) /\ s.table[b] # 0
      BY <1>2
    <2> HIDE DEF b
    <2>2. s.table[b] \in Ids(s) /\ s.items[s.table[b]].bucket = b
      BY <2>1 DEF Sound, Refers
    <2>3. Stored(s, s.table[b])
      BY <1>1, <2>1, <2>2, EmptyIs DEF Stored, Buckets
    <2>4. s.items[s.table[b]].psl < PslLen - 1
      BY <2>2, <2>3, TailFree
    <2> QED BY <2>2, <2>3, <2>4 DEF b
  <1>4. \A e \in 0 .. n - 2 : s.table[Bucket(s, x, e)] # newId
    BY <1>1, <1>3
  <1>5. PICK hole \in 0 .. n - 2 : s.table[Bucket(s, x, hole)] = 0
    BY <1>1, <1>4, Room
  <1>6. PICK given : given = [from |-> s, hf |-> hf, value |-> value, newId |-> newId,
                              hole |-> hole]
    OBVIOUS
  <1>7. /\ given.from = s /\ given.hf = hf /\ given.value = value /\ given.newId = newId
        /\ given.hole = hole
    BY <1>6
  <1>8. Insertion(given)
    BY <1>7 DEF Insertion
  <1>9. /\ held \in Item /\ held.value = value /\ held.psl = 0 /\ held.ref = 0
    BY EmptyIs DEF Item
  <1>10. ProbeInv(given, <<0, base>>)
    <2> HIDE DEF held, x
    <2>1. /\ base.set = s /\ base.held = held /\ base.id = newId /\ base.hash = x
          /\ base.newId = newId /\ base.chosen = newId /\ base.done = FALSE
          /\ base \in [set : {s}, held : {held}, id : {newId}, hash : {x},
                       newId : {newId}, chosen : {newId}, done : BOOLEAN]
      OBVIOUS
    <2> HIDE DEF base
    <2>2. x = given.hf[given.value]
      BY <1>7 DEF x
    <2>3. Holding(given, 0, base)
      <3>1. Bucket(s, hf[value], 0) = ProbeAt(given, 0)
        BY <1>7 DEF ProbeAt
      <3>2. held.psl < PslLen
        BY <1>1, <1>9
      <3> QED BY <1>7, <1>9, <2>1, <3>1, <3>2 DEF Holding
    <2>4. Ahead(given, 0, base)
      <3>1. \A k \in 0 .. n - 2 : ProbeAt(given, k) = Bucket(s, x, k)
        BY <1>7 DEF ProbeAt, x
      <3> QED BY <1>3, <1>4, <1>5, <1>7, <2>1, <3>1 DEF Ahead
    <2>5. \A j \in Ids(s) : KeptItem(s, s, j)
      BY DEF KeptItem
    <2>6. Going(given, 0, base)
      BY <1>7, <2>1, <2>3, <2>4, <2>5 DEF Going
    <2>7. PICK y : y = <<0, base>>
      OBVIOUS
    <2>8. y[1] = 0 /\ y[2] = base
      BY <2>7
    <2>9. ProbeInv(given, y)
      BY <1>7, <2>1, <2>2, <2>6, <2>8 DEF ProbeInv
    <2> QED BY <2>7, <2>9
  <1> HIDE DEF base
  <1>11. /\ turns \in Seq(Nat) /\ Len(turns) = n - 1
         /\ \A k \in 1 .. Len(turns) : turns[k] = k - 1 /\ k - 1 \in 0 .. n - 2 /\ (k - 1) + 1 = k
    BY <1>1
  <1> HIDE DEF turns
  <1>12. \A at : \A k \in 1 .. Len(turns) :
           ProbeInv(given, <<k - 1, at>>) => ProbeInv(given, <<k, Probe(at, turns[k])>>)
    <2> SUFFICES ASSUME NEW at, NEW k \in 1 .. Len(turns), ProbeInv(given, <<k - 1, at>>)
                 PROVE  ProbeInv(given, <<k, Probe(at, turns[k])>>)
      OBVIOUS
    <2>1. PICK i : i = k - 1
      OBVIOUS
    <2>2. i \in 0 .. given.from.tableCap - 2 /\ turns[k] = i /\ i + 1 = k
      BY <1>7, <1>11, <2>1
    <2>3. ProbeInv(given, <<i + 1, Probe(at, i)>>)
      BY <1>8, <2>1, <2>2, ProbeKeeps
    <2> QED BY <2>2, <2>3
  <1> DEFINE at == Probes!Fold(base, turns)
  <1>13. ProbeInv(given, <<Len(turns), at>>)
    BY <1>10, <1>11, <1>12, Probes!FoldReaches
  <1>14. Probed(s, value, hf[value], newId) = at
    BY <1>1, ProbeFolds DEF Probed, base, turns
  <1> HIDE DEF at
  <1>15. ~at.done => FALSE
    <2> SUFFICES ASSUME ~at.done PROVE FALSE
      OBVIOUS
    <2>1. Going(given, Len(turns), at)
      BY <1>13 DEF ProbeInv
    <2>2. given.hole >= Len(turns)
      BY <2>1 DEF Going, Ahead
    <2> QED BY <1>1, <1>5, <1>7, <1>11, <2>2
  <1>16. Landed(given, at) /\ Sound(at.set, hf) /\ at.set.tableCap = s.tableCap
         /\ at.set.living = s.living /\ at.set.nextId = s.nextId
    BY <1>7, <1>13, <1>15 DEF ProbeInv
  <1> QED BY <1>7, <1>14, <1>16 DEF Landed

LEMMA InsertSound ==
    ASSUME NEW s, NEW hf \in HashFunctions, Sound(s, hf), NEW value \in Values,
           NEW newId \in Ids(s), ~Stored(s, newId), ~TailUsed(s)
    PROVE  LET ins == Insert(s, value, hf[value], newId)
           IN  InsertedAs(s, hf, value, newId, ins.set, ins.id)
  <1>1. PICK at : at = Probed(s, value, hf[value], newId)
    OBVIOUS
  <1>2. /\ Sound(at.set, hf) /\ at.set.tableCap = s.tableCap
        /\ at.set.living = s.living /\ at.set.nextId = s.nextId
        /\ NewAt(at.set, newId, value)
        /\ \A j \in Ids(s) : j # newId => KeptItem(s, at.set, j)
        /\ at.chosen \in Ids(s)
        /\ at.chosen = newId \/ (at.chosen < newId /\ ~Stored(at.set, at.chosen))
    BY <1>1, ProbedLands
  <1> DEFINE ins == Insert(s, value, hf[value], newId)
             u == Commit(at.set, newId, at.chosen)
  <1>3. ins.set = u /\ ins.id = at.chosen
    BY <1>1 DEF Insert
  <1> HIDE DEF ins, u
  <1>4. Shape(s) /\ Shape(at.set) /\ Ids(at.set) = Ids(s) /\ newId \in Nat
    BY <1>2, ShapeIs DEF Sound
  <1>5. s.items[newId].ref = 0
    BY NotStored
  <1>6. CASE at.chosen = newId
    <2>1. u = at.set
      BY <1>6 DEF Commit, u
    <2> QED BY <1>2, <1>3, <1>4, <1>5, <1>6, <2>1 DEF InsertedAs, ins
  <1>7. CASE at.chosen # newId
    <2>1. PICK c, t : c = at.chosen /\ t = at.set
      OBVIOUS
    <2>2. /\ c \in Ids(t) /\ newId \in Ids(t) /\ c # newId /\ c < newId /\ ~Stored(t, c)
          /\ Sound(t, hf) /\ Stored(t, newId) /\ Shape(t) /\ u = Commit(t, newId, c)
      BY <1>2, <1>4, <1>7, <2>1 DEF NewAt, u
    <2>3. Sound(u, hf)
      BY <2>2, CommitSound
    <2>4. t.items[newId].bucket \in Buckets(t)
      BY <2>2, StoredIs DEF Sound
    <2>5. /\ u.tableCap = t.tableCap /\ u.living = t.living /\ u.nextId = t.nextId
          /\ u.items = [t.items EXCEPT ![c] = t.items[newId], ![newId] = EmptyItem]
      <3> DEFINE v == Commit(t, newId, c)
      <3>1. /\ v.tableCap = t.tableCap /\ v.living = t.living /\ v.nextId = t.nextId
            /\ v.stats = t.stats /\ v.maxPsl = t.maxPsl
            /\ v.table = [t.table EXCEPT ![t.items[newId].bucket] = c]
            /\ v.items = [t.items EXCEPT ![c] = t.items[newId], ![newId] = EmptyItem]
            /\ Shape(v)
        BY <2>2, <2>4, CommitIs
      <3> HIDE DEF v
      <3> QED BY <2>2, <3>1 DEF v
    <2>6. /\ u.items[c] = t.items[newId] /\ u.items[newId] = EmptyItem
          /\ \A j \in Ids(s) : j # c /\ j # newId => u.items[j] = t.items[j]
      <3>1. t.items \in [Ids(t) -> Item]
        BY <2>2, ShapeIs
      <3> QED BY <1>4, <2>1, <2>2, <2>5, <3>1
    <2>7. NewAt(u, c, value)
      BY <1>2, <2>1, <2>6 DEF NewAt, Stored
    <2>8. s.items[c].ref = 0
      <3>1. t.items[c].ref = 0
        BY <2>2, NotStored
      <3> QED BY <1>2, <2>1, <2>2, <3>1 DEF KeptItem
    <2>9. ASSUME NEW j \in Ids(s), j # c PROVE KeptItem(s, u, j)
      <3>1. CASE j = newId
        BY <1>5, <2>6, <3>1, EmptyIs DEF KeptItem, Stored
      <3>2. CASE j # newId
        BY <1>2, <2>1, <2>6, <2>9, <3>2 DEF KeptItem, Stored
      <3> QED BY <3>1, <3>2
    <2>10. c \in Ids(s) /\ c <= newId
      <3>1. c \in Ids(s) /\ Ids(s) \subseteq Nat
        BY <1>2, <1>4, <2>1, ShapeIs
      <3> QED BY <1>4, <2>2, <3>1
    <2>11. /\ u.tableCap = s.tableCap /\ u.living = s.living /\ u.nextId = s.nextId
           /\ ins.set = u /\ ins.id = c
      BY <1>2, <1>3, <2>1, <2>5
    <2>12. InsertedAs(s, hf, value, newId, u, c)
      BY <2>3, <2>7, <2>8, <2>9, <2>10, <2>11, Zenon DEF InsertedAs
    <2> QED BY <2>11, <2>12 DEF ins
  <1> QED BY <1>6, <1>7

-----------------------------------------------------------------------------
(* Deletion: the parts of delete_item by name.                             *)

Way(s, id, k) == Bucket(s, s.items[id].bucket, k)
Mover(s, id, k) == s.table[Way(s, id, k)]
Moves(s, id, k) == Mover(s, id, k) # 0 /\ s.items[Mover(s, id, k)].psl > 0
RunOf(s, id) == Min({k \in 0 .. TableCap(s) - 1 : ~Moves(s, id, k + 1)})
Movers(s, id, r) == {Mover(s, id, k) : k \in 1 .. r}
Places(s, id, r) ==
    [j \in Movers(s, id, r) |-> CHOOSE k \in 1 .. r : Mover(s, id, k) = j]
ItemsWithout(s, id, at) ==
    [j \in Ids(s) |->
       IF j = id THEN EmptyItem
       ELSE IF j \in DOMAIN at
       THEN [s.items[j] EXCEPT !.bucket = Way(s, id, at[j] - 1), !.psl = @ - 1]
       ELSE s.items[j]]
MovedAt(s, at, q) == {j \in DOMAIN at : s.items[j].psl = q}
StatsWithout(s, id, at) ==
    [q \in DOMAIN s.stats |->
       s.stats[q] - (IF q = s.items[id].psl THEN 1 ELSE 0)
                  - Cardinality(MovedAt(s, at, q)) + Cardinality(MovedAt(s, at, q + 1))]
TableWithout(s, id, r) ==
    [c \in DOMAIN s.table |->
       IF c = Way(s, id, r) THEN 0
       ELSE IF \E k \in 0 .. r - 1 : c = Way(s, id, k)
       THEN s.table[(c + 1) % TableCap(s)] ELSE s.table[c]]
FarWithout(s, id, at) ==
    Max({0} \cup {q \in 1 .. s.maxPsl : StatsWithout(s, id, at)[q] > 0})
Without(s, id, r, at) ==
    [s EXCEPT !.items = ItemsWithout(s, id, at), !.table = TableWithout(s, id, r),
              !.stats = StatsWithout(s, id, at), !.maxPsl = FarWithout(s, id, at)]

LEMMA DeleteIsWithout ==
    ASSUME NEW s, NEW id, Stored(s, id)
    PROVE  DeleteItem(s, id) = Without(s, id, RunOf(s, id), Places(s, id, RunOf(s, id)))
  <1>1. s.items[id].bucket # NoBucket
    BY DEF Stored
  <1> QED BY <1>1, Zenon DEF DeleteItem, Without, RunOf, Places, Movers, Mover, Moves, Way, Bucket,
             ItemsWithout, StatsWithout, TableWithout, FarWithout, MovedAt

(* The run ends before it comes round: some bucket on the way is empty.    *)
LEMMA RunIs ==
    ASSUME NEW s, NEW hf, Sound(s, hf), NEW id \in Ids(s), Stored(s, id)
    PROVE  /\ RunOf(s, id) \in 0 .. s.tableCap - 2
           /\ \A k \in 1 .. RunOf(s, id) : Moves(s, id, k)
  <1> DEFINE n == s.tableCap
             x == s.items[id].bucket
             S == {k \in 0 .. TableCap(s) - 1 : ~Moves(s, id, k + 1)}
  <1>1. /\ Shape(s) /\ n \in Nat /\ n > 0 /\ TableCap(s) = n /\ Buckets(s) = 0 .. n - 1
        /\ x \in Buckets(s) /\ x \in Nat /\ s.table[x] = id /\ id # 0
        /\ \A b \in Buckets(s) : Refers(s, b)
    BY ShapeIs, StoredIs DEF Sound, Buckets
  <1>2. ASSUME NEW e \in 0 .. n - 2
        PROVE  /\ Bucket(s, x + 1, e) = Way(s, id, e + 1)
               /\ s.table[Bucket(s, x + 1, e)] # id
    <2>1. /\ e \in Nat /\ e + 1 \in Buckets(s) /\ 0 \in Buckets(s) /\ e + 1 # 0
          /\ e \in Buckets(s) /\ e + 1 \in Nat
      BY <1>1
    <2> HIDE DEF x
    <2>2. Bucket(s, x + 1, e) = Way(s, id, e + 1)
      <3>1. (x + 1) + e = x + (e + 1)
        BY <1>1, <2>1
      <3> QED BY <3>1, Zenon DEF Bucket, Way, x
    <2>3. Bucket(s, x, 0) = x
      <3>1. Bucket(s, x, 0) = Behind(n, x, 0)
        <4>1. x \in 0 .. n - 1 /\ 0 \in 0 .. n - 1 /\ x + 0 = x
          BY <1>1
        <4>2. (x + 0) % n = Behind(n, x, 0)
          BY <1>1, <4>1, AroundBucket, Zenon
        <4> QED BY <1>1, <4>2 DEF Bucket
      <3> QED BY <1>1, <3>1 DEF Behind
    <2>4. Bucket(s, x, e + 1) # x
      BY <1>1, <2>1, <2>3, BucketsDiffer
    <2>5. Bucket(s, x, e + 1) \in Buckets(s)
      BY <1>1, <2>1, BucketIs
    <2>6. s.table[Bucket(s, x, e + 1)] # id
      BY <1>1, <2>4, <2>5 DEF Refers, x
    <2> QED BY <2>2, <2>6 DEF Way, x
  <1>3. PICK e \in 0 .. n - 2 : s.table[Bucket(s, x + 1, e)] = 0
    <2>1. x + 1 \in Nat
      BY <1>1
    <2> HIDE DEF x
    <2>2. \A f \in 0 .. s.tableCap - 2 : s.table[Bucket(s, x + 1, f)] # id
      BY <1>2
    <2> QED BY <2>1, <2>2, Room
  <1>4. e \in S
    <2>1. e \in 0 .. TableCap(s) - 1
      BY <1>1
    <2>2. Mover(s, id, e + 1) = 0
      BY <1>2, <1>3 DEF Mover
    <2> QED BY <2>1, <2>2 DEF Moves
  <1>5. S \subseteq Nat
    OBVIOUS
  <1> HIDE DEF S
  <1>6. \E m \in S : \A k \in S : m <= k
    BY <1>4, <1>5, Numbers!LeastExists
  <1>7. RunOf(s, id) = Min(S)
    BY DEF RunOf, S
  <1>8. Min(S) \in S /\ \A k \in S : Min(S) <= k
    BY <1>6, Zenon DEF Min
  <1> DEFINE r == Min(S)
  <1> HIDE DEF r
  <1>9. r \in S /\ r <= e /\ \A k \in S : r <= k
    BY <1>4, <1>8 DEF r
  <1>10. r \in 0 .. n - 2 /\ n \in Nat
    <2>1. r \in Nat /\ e \in 0 .. n - 2
      BY <1>5, <1>9
    <2> QED BY <1>1, <1>9, <2>1
  <1>11. ASSUME NEW k \in 1 .. r PROVE Moves(s, id, k)
    <2>1. k - 1 \in 0 .. n - 1 /\ (k - 1) + 1 = k /\ ~(r <= k - 1)
      BY <1>10
    <2>2. k - 1 \notin S
      BY <1>9, <2>1
    <2> QED BY <1>1, <2>1, <2>2 DEF S
  <1> QED BY <1>7, <1>10, <1>11 DEF r

(* The items of the run, where they are and where they go.                 *)
LEMMA WayIs ==
    ASSUME NEW s, NEW hf, Sound(s, hf), NEW id \in Ids(s), Stored(s, id),
           NEW r \in 0 .. s.tableCap - 2, \A k \in 1 .. r : Moves(s, id, k)
    PROVE  /\ Way(s, id, 0) = s.items[id].bucket
           /\ \A k \in 0 .. r : Way(s, id, k) \in Buckets(s)
           /\ \A k, l \in 0 .. r : Way(s, id, k) = Way(s, id, l) => k = l
           /\ \A k \in 0 .. r - 1 : (Way(s, id, k) + 1) % TableCap(s) = Way(s, id, k + 1)
           /\ \A k \in 1 .. r : LET j == Mover(s, id, k) IN
                /\ j \in Ids(s) /\ j # id /\ Stored(s, j) /\ s.items[j].bucket = Way(s, id, k)
                /\ s.items[j].psl > 0 /\ s.items[j].psl < PslLen /\ s.items[j].value \in Values
  <1> DEFINE n == s.tableCap
             x == s.items[id].bucket
  <1>1. /\ Shape(s) /\ n \in Nat /\ n > 0 /\ TableCap(s) = n /\ Buckets(s) = 0 .. n - 1
        /\ x \in Buckets(s) /\ x \in Nat /\ s.table[x] = id /\ id # 0
        /\ \A b \in Buckets(s) : Refers(s, b)
    BY ShapeIs, StoredIs DEF Sound, Buckets
  <1>2. \A k \in 0 .. r : k \in Nat /\ k \in Buckets(s) /\ Way(s, id, k) = Bucket(s, x, k)
    BY <1>1 DEF Way
  <1> HIDE DEF x
  <1>3. Way(s, id, 0) = x
    <2>1. x \in 0 .. n - 1 /\ 0 \in 0 .. n - 1 /\ 0 \in 0 .. r
      BY <1>1
    <2>2. (x + 0) % n = Behind(n, x, 0)
      BY <1>1, <2>1, AroundBucket, Zenon
    <2> QED BY <1>1, <1>2, <2>1, <2>2 DEF Bucket, Behind
  <1>4. \A k \in 0 .. r : Way(s, id, k) \in Buckets(s)
    BY <1>1, <1>2, BucketIs
  <1>5. \A k, l \in 0 .. r : Way(s, id, k) = Way(s, id, l) => k = l
    BY <1>1, <1>2, BucketsDiffer
  <1>6. ASSUME NEW k \in 0 .. r - 1
        PROVE  (Way(s, id, k) + 1) % TableCap(s) = Way(s, id, k + 1)
    <2>1. k \in 0 .. r /\ k + 1 \in 0 .. r /\ k \in Nat /\ x + k \in Nat
      BY <1>1
    <2>2. Way(s, id, k) \in 0 .. n - 1 /\ Way(s, id, k) = (x + k) % n
      BY <1>1, <1>2, <1>4, <2>1, BucketIs
    <2>3. ((x + k) + 1) % n = (Way(s, id, k) + 1) % n
      BY <1>1, <2>1, <2>2, OneOn
    <2>4. (x + k) + 1 = x + (k + 1)
      BY <1>1, <2>1
    <2> QED BY <1>1, <1>2, <2>1, <2>3, <2>4 DEF Bucket
  <1>7. ASSUME NEW k \in 1 .. r
        PROVE  LET j == Mover(s, id, k) IN
               /\ j \in Ids(s) /\ j # id /\ Stored(s, j) /\ s.items[j].bucket = Way(s, id, k)
               /\ s.items[j].psl > 0 /\ s.items[j].psl < PslLen /\ s.items[j].value \in Values
    <2> DEFINE j == Mover(s, id, k)
    <2>1. k \in 0 .. r /\ 0 \in 0 .. r /\ k # 0
      BY <1>1
    <2>2. j = s.table[Way(s, id, k)] /\ j # 0 /\ s.items[j].psl > 0
      BY DEF Moves, Mover
    <2> HIDE DEF j
    <2>3. j \in Ids(s) /\ s.items[j].bucket = Way(s, id, k)
      BY <1>1, <1>4, <2>1, <2>2 DEF Refers
    <2>4. j # id
      BY <1>3, <1>5, <2>1, <2>3 DEF x
    <2>5. Stored(s, j)
      BY <1>1, <1>4, <2>1, <2>3, EmptyIs DEF Stored
    <2>6. s.items[j].psl < PslLen /\ s.items[j].value \in Values
      BY <1>1, <2>3, <2>5, StoredIs DEF Sound
    <2> QED BY <2>2, <2>3, <2>4, <2>5, <2>6 DEF j
  <1> QED BY <1>3, <1>4, <1>5, <1>6, <1>7 DEF x

(* A bounded set of numbers has a largest one.                             *)
LEMMA MaxIs ==
    ASSUME NEW n \in Nat, NEW S, S \subseteq 0 .. n, S # {}
    PROVE  Max(S) \in S /\ \A y \in S : y <= Max(S)
  <1> DEFINE T == {z \in 0 .. n : n - z \in S}
  <1>1. T \subseteq Nat /\ T # {}
    <2>1. PICK y \in S : y \in 0 .. n
      OBVIOUS
    <2>2. n - y \in 0 .. n /\ n - (n - y) = y
      BY <2>1
    <2>3. n - y \in T
      BY <2>2
    <2>4. T \subseteq 0 .. n
      OBVIOUS
    <2> HIDE DEF T
    <2> QED BY <2>3, <2>4
  <1> HIDE DEF T
  <1>2. PICK m \in T : \A z \in T : m <= z
    BY <1>1, Numbers!LeastExists
  <1>3. PICK x \in S : x = n - m
    BY DEF T
  <1>4. ASSUME NEW y \in S PROVE x >= y
    <2>1. y \in 0 .. n /\ n - y \in 0 .. n /\ n - (n - y) = y
      OBVIOUS
    <2>2. n - y \in T /\ m \in 0 .. n
      BY <2>1 DEF T
    <2>3. m <= n - y
      BY <1>2, <2>2
    <2> QED BY <1>3, <2>1, <2>2, <2>3
  <1>5. Max(S) \in S /\ \A y \in S : Max(S) >= y
    BY <1>4, Zenon DEF Max
  <1>6. ASSUME NEW y \in S PROVE y <= Max(S)
    <2>1. PICK z : z = Max(S)
      OBVIOUS
    <2>2. z \in 0 .. n /\ y \in 0 .. n /\ z >= y
      BY <1>5, <2>1
    <2> QED BY <2>1, <2>2
  <1> QED BY <1>5, <1>6

(* A deletion that has its run: r is the run's length, at where its items  *)
(* were.                                                                   *)
Running(s, hf, id, r, at) ==
    /\ Sound(s, hf) /\ id \in Ids(s) /\ Stored(s, id)
    /\ r \in 0 .. s.tableCap - 2 /\ \A k \in 1 .. r : Moves(s, id, k)
    /\ DOMAIN at = Movers(s, id, r) /\ \A k \in 1 .. r : at[Mover(s, id, k)] = k

LEMMA RunningNow ==
    ASSUME NEW s, NEW hf, Sound(s, hf), NEW id \in Ids(s), Stored(s, id)
    PROVE  Running(s, hf, id, RunOf(s, id), Places(s, id, RunOf(s, id)))
  <1> DEFINE r == RunOf(s, id)
             at == Places(s, id, r)
  <1>1. r \in 0 .. s.tableCap - 2 /\ \A k \in 1 .. r : Moves(s, id, k)
    BY RunIs
  <1> HIDE DEF r
  <1>2. DOMAIN at = Movers(s, id, r)
    BY DEF Places
  <1>3. ASSUME NEW k \in 1 .. r PROVE at[Mover(s, id, k)] = k
    <2>1. Mover(s, id, k) \in Movers(s, id, r)
      BY DEF Movers
    <2>2. at[Mover(s, id, k)] = CHOOSE l \in 1 .. r : Mover(s, id, l) = Mover(s, id, k)
      BY <2>1 DEF Places
    <2>3. ASSUME NEW l \in 1 .. r, Mover(s, id, l) = Mover(s, id, k) PROVE l = k
      <3>1. Way(s, id, l) = Way(s, id, k)
        <4>1. s.items[Mover(s, id, k)].bucket = Way(s, id, k)
              /\ s.items[Mover(s, id, l)].bucket = Way(s, id, l)
          BY <1>1, WayIs
        <4> QED BY <2>3, <4>1
      <3>2. k \in 0 .. r /\ l \in 0 .. r
        BY <1>1
      <3> QED BY <1>1, <3>1, <3>2, WayIs
    <2> QED BY <2>2, <2>3
  <1> HIDE DEF at
  <1> QED BY <1>1, <1>2, <1>3 DEF Running, r, at

LEMMA WithoutIs ==
    ASSUME NEW s, NEW hf, NEW id, NEW r, NEW at, Running(s, hf, id, r, at)
    PROVE  LET t == Without(s, id, r, at) IN
           /\ t.tableCap = s.tableCap /\ t.living = s.living /\ t.nextId = s.nextId
           /\ t.items = ItemsWithout(s, id, at) /\ t.table = TableWithout(s, id, r)
           /\ t.stats = StatsWithout(s, id, at)
           /\ \A q \in 1 .. s.maxPsl : t.stats[q] > 0 => q <= t.maxPsl
           /\ DOMAIN at \subseteq Ids(s) \ {id}
           /\ \A j \in DOMAIN at : \E k \in 1 .. r : j = Mover(s, id, k) /\ at[j] = k
           /\ Shape(t)
  <1> DEFINE t == Without(s, id, r, at)
             m == FarWithout(s, id, at)
             T == [Buckets(s) -> Nat]
             I == [Ids(s) -> Item]
             S == [0 .. PslLen - 1 -> Int]
             P == 0 .. PslLen - 1
  <1>0. /\ Sound(s, hf) /\ id \in Ids(s) /\ Stored(s, id) /\ Shape(s)
        /\ r \in 0 .. s.tableCap - 2 /\ \A k \in 1 .. r : Moves(s, id, k)
        /\ DOMAIN at = Movers(s, id, r) /\ \A k \in 1 .. r : at[Mover(s, id, k)] = k
    BY DEF Running, Sound
  <1>1. \A j \in DOMAIN at : \E k \in 1 .. r : j = Mover(s, id, k) /\ at[j] = k
    BY <1>0 DEF Movers
  <1>2. \A k \in 1 .. r : LET j == Mover(s, id, k) IN
                /\ j \in Ids(s) /\ j # id /\ Stored(s, j) /\ s.items[j].bucket = Way(s, id, k)
                /\ s.items[j].psl > 0 /\ s.items[j].psl < PslLen /\ s.items[j].value \in Values
    BY <1>0, WayIs
  <1>3. DOMAIN at \subseteq Ids(s) \ {id}
    BY <1>1, <1>2
  <1>4. \A k \in 0 .. r : Way(s, id, k) \in Buckets(s) /\ Way(s, id, k) \in Int
    BY <1>0, WayIs DEF Buckets
  <1>5. ItemsWithout(s, id, at) \in I
    <2> SUFFICES ASSUME NEW j \in Ids(s), j # id, j \in DOMAIN at
                 PROVE  [s.items[j] EXCEPT !.bucket = Way(s, id, at[j] - 1), !.psl = @ - 1] \in Item
      <3>1. s.items \in [Ids(s) -> Item]
        BY <1>0, ShapeIs
      <3>2. \A i \in Ids(s) : s.items[i] \in Item
        BY <3>1
      <3>3. EmptyItem \in Item
        BY EmptyIs
      <3> HIDE DEF Item
      <3>4. ASSUME \A j \in Ids(s) \ {id} : j \in DOMAIN at =>
                [s.items[j] EXCEPT !.bucket = Way(s, id, at[j] - 1), !.psl = @ - 1] \in Item
            PROVE  \A j \in Ids(s) :
                     (IF j = id THEN EmptyItem
                      ELSE IF j \in DOMAIN at
                      THEN [s.items[j] EXCEPT !.bucket = Way(s, id, at[j] - 1), !.psl = @ - 1]
                      ELSE s.items[j]) \in Item
        BY <3>2, <3>3, <3>4, Zenon
      <3> QED BY <3>4, Zenon DEF ItemsWithout
    <2>1. PICK k \in 1 .. r : j = Mover(s, id, k) /\ at[j] = k
      BY <1>1
    <2>2. k - 1 \in 0 .. r
      BY <1>0
    <2>3. Way(s, id, k - 1) \in Int
      BY <1>4, <2>2
    <2>4. s.items[j] \in Item /\ s.items[j].psl > 0
      BY <1>0, <1>2, <2>1, ShapeIs
    <2>5. s.items[j].psl - 1 \in Nat
      BY <2>4 DEF Item
    <2> QED BY <2>1, <2>3, <2>4, <2>5 DEF Item
  <1>6. TableWithout(s, id, r) \in T
    <2>1. s.table \in T /\ DOMAIN s.table = Buckets(s)
      BY <1>0, ShapeIs
    <2>2. ASSUME NEW c \in Buckets(s), NEW k \in 0 .. r - 1, c = Way(s, id, k)
          PROVE  s.table[(c + 1) % TableCap(s)] \in Nat
      <3>1. (c + 1) % TableCap(s) = Way(s, id, k + 1)
        BY <1>0, <2>2, WayIs
      <3>2. k + 1 \in 0 .. r
        BY <1>0
      <3> QED BY <1>4, <2>1, <3>1, <3>2
    <2> QED BY <2>1, <2>2 DEF TableWithout
  <1>7. StatsWithout(s, id, at) \in S
    <2>1. s.stats \in S
      BY <1>0, ShapeIs
    <2>2. \A q : Cardinality(MovedAt(s, at, q)) \in Nat
      BY <1>0, <1>3, IdsFinite DEF MovedAt
    <2>3. \A q \in P : s.stats[q] \in Int
      BY <2>1
    <2> QED BY <2>1, <2>2, <2>3 DEF StatsWithout
  <1>8. m \in P /\ \A q \in 1 .. s.maxPsl : StatsWithout(s, id, at)[q] > 0 => q <= m
    <2> DEFINE X == {0} \cup {q \in 1 .. s.maxPsl : StatsWithout(s, id, at)[q] > 0}
    <2>1. s.maxPsl \in Nat /\ s.maxPsl \in P /\ PslLen \in Nat
      BY <1>0, ShapeIs
    <2>2. X \subseteq 0 .. s.maxPsl /\ X # {}
      BY <2>1
    <2>3. m = Max(X)
      BY DEF FarWithout
    <2>4. \A q \in 1 .. s.maxPsl : StatsWithout(s, id, at)[q] > 0 => q \in X
      OBVIOUS
    <2> HIDE DEF X, m
    <2>5. Max(X) \in X /\ \A y \in X : y <= Max(X)
      BY <2>1, <2>2, MaxIs
    <2>6. m \in 0 .. s.maxPsl
      BY <2>2, <2>3, <2>5
    <2> QED BY <2>1, <2>3, <2>4, <2>5, <2>6
  <1>9. s \in Record(T, I, S, P)
    BY <1>0, ShapeOf
  <1> HIDE DEF T, I, S, P, m
  <1>10. t \in Record(T, I, S, P)
    BY <1>5, <1>6, <1>7, <1>8, <1>9 DEF Without, Record, m
  <1>11. /\ t.tableCap = s.tableCap /\ t.living = s.living /\ t.nextId = s.nextId
         /\ t.items = ItemsWithout(s, id, at) /\ t.table = TableWithout(s, id, r)
         /\ t.stats = StatsWithout(s, id, at) /\ t.maxPsl = m
    BY <1>9 DEF Without, Record, m
  <1> HIDE DEF t
  <1>12. Shape(t)
    BY <1>0, <1>10, <1>11, ShapeOf DEF T, I, S, P
  <1> QED BY <1>1, <1>3, <1>8, <1>11, <1>12 DEF t

(* The same steps back from one bucket lead to one bucket.                 *)
LEMMA BucketPrevious ==
    ASSUME NEW s, Shape(s), s.tableCap > 0, NEW x \in Nat, NEW i \in Nat,
           NEW y \in Nat, NEW k \in Nat, Bucket(s, x, i + 1) = Bucket(s, y, k + 1)
    PROVE  Bucket(s, x, i) = Bucket(s, y, k)
  <1> DEFINE n == s.tableCap
             a == Bucket(s, x, i)
  <1>1. n \in Nat /\ n > 0 /\ TableCap(s) = n /\ x + i \in Nat /\ y + k \in Nat
    BY ShapeIs
  <1>2. a \in 0 .. n - 1 /\ a = (x + i) % n
    BY BucketIs DEF Buckets
  <1>3. x + (i + 1) = (x + i) + 1 /\ y + (k + 1) = (y + k) + 1
    OBVIOUS
  <1>4. ((x + i) + 1) % n = ((y + k) + 1) % n
    BY <1>1, <1>3, Zenon DEF Bucket
  <1> HIDE DEF n, a
  <1>5. ((x + i) + 1) % n = (a + 1) % n
    BY <1>1, <1>2, OneOn, Zenon
  <1>6. PICK z \in Nat : z = y + k
    BY <1>1
  <1>7. (z + 1) % n = (a + 1) % n
    BY <1>4, <1>5, <1>6, Zenon
  <1>8. a = z % n
    BY <1>1, <1>2, <1>7, OneOn, Zenon
  <1> QED BY <1>1, <1>6, <1>8, Zenon DEF Bucket, a

(* What deletion does to the other items: their counts and values stay.    *)
LEMMA WithoutItems ==
    ASSUME NEW s, NEW hf, NEW id, NEW r, NEW at, Running(s, hf, id, r, at),
           NEW t, t = Without(s, id, r, at)
    PROVE  /\ t.items[id] = EmptyItem
           /\ \A j \in Ids(s) \ {id} :
                /\ j \notin DOMAIN at => t.items[j] = s.items[j]
                /\ j \in DOMAIN at => /\ t.items[j].bucket = Way(s, id, at[j] - 1)
                                      /\ t.items[j].psl = s.items[j].psl - 1
                /\ t.items[j].ref = s.items[j].ref /\ t.items[j].value = s.items[j].value
                /\ Stored(t, j) <=> Stored(s, j)
  <1>0. /\ Sound(s, hf) /\ id \in Ids(s) /\ Stored(s, id) /\ Shape(s)
        /\ r \in 0 .. s.tableCap - 2 /\ \A k \in 1 .. r : Moves(s, id, k)
        /\ s.items \in [Ids(s) -> Item]
    BY ShapeIs DEF Running, Sound
  <1>1. t.items = ItemsWithout(s, id, at)
        /\ \A j \in DOMAIN at : \E k \in 1 .. r : j = Mover(s, id, k) /\ at[j] = k
    BY WithoutIs
  <1>2. t.items[id] = EmptyItem
    BY <1>0, <1>1 DEF ItemsWithout
  <1>3. ASSUME NEW j \in Ids(s) \ {id}, j \notin DOMAIN at
        PROVE  t.items[j] = s.items[j]
    BY <1>0, <1>1, <1>3 DEF ItemsWithout
  <1>4. ASSUME NEW j \in Ids(s) \ {id}, j \in DOMAIN at
        PROVE  /\ t.items[j].bucket = Way(s, id, at[j] - 1)
               /\ t.items[j].psl = s.items[j].psl - 1
               /\ t.items[j].ref = s.items[j].ref /\ t.items[j].value = s.items[j].value
               /\ Stored(t, j) /\ Stored(s, j)
    <2>1. t.items[j] = [s.items[j] EXCEPT !.bucket = Way(s, id, at[j] - 1), !.psl = @ - 1]
      BY <1>0, <1>1, <1>4 DEF ItemsWithout
    <2>2. s.items[j] \in Item
      BY <1>0
    <2>3. /\ t.items[j].bucket = Way(s, id, at[j] - 1)
          /\ t.items[j].psl = s.items[j].psl - 1
          /\ t.items[j].ref = s.items[j].ref /\ t.items[j].value = s.items[j].value
      BY <2>1, <2>2 DEF Item
    <2>4. PICK k \in 1 .. r : j = Mover(s, id, k) /\ at[j] = k
      BY <1>1, <1>4
    <2>5. Stored(s, j)
      BY <1>0, <2>4, WayIs
    <2>6. Stored(t, j)
      <3>1. k - 1 \in 0 .. r
        BY <1>0
      <3>2. Way(s, id, k - 1) \in Buckets(s)
        BY <1>0, <3>1, WayIs
      <3>3. Way(s, id, k - 1) # NoBucket
        BY <1>0, <3>2, EmptyIs, ShapeIs DEF Buckets
      <3> QED BY <2>3, <2>4, <3>3 DEF Stored
    <2> QED BY <2>3, <2>5, <2>6
  <1>5. ASSUME NEW j \in Ids(s) \ {id}
        PROVE  /\ j \notin DOMAIN at => t.items[j] = s.items[j]
               /\ j \in DOMAIN at => /\ t.items[j].bucket = Way(s, id, at[j] - 1)
                                     /\ t.items[j].psl = s.items[j].psl - 1
               /\ t.items[j].ref = s.items[j].ref /\ t.items[j].value = s.items[j].value
               /\ Stored(t, j) <=> Stored(s, j)
    <2>1. CASE j \in DOMAIN at
      BY <1>4, <2>1
    <2>2. CASE j \notin DOMAIN at
      BY <1>3, <2>2 DEF Stored
    <2> QED BY <2>1, <2>2
  <1> QED BY <1>2, <1>5

LEMMA WithoutStats ==
    ASSUME NEW s, NEW hf, NEW id, NEW r, NEW at, Running(s, hf, id, r, at),
           NEW t, t = Without(s, id, r, at)
    PROVE  StatsOK(t)
  <1>0. /\ Sound(s, hf) /\ id \in Ids(s) /\ Stored(s, id) /\ Shape(s)
        /\ r \in 0 .. s.tableCap - 2 /\ \A k \in 1 .. r : Moves(s, id, k)
    BY DEF Running, Sound
  <1>1. /\ t.tableCap = s.tableCap /\ t.stats = StatsWithout(s, id, at)
        /\ DOMAIN at \subseteq Ids(s) \ {id} /\ Shape(t)
        /\ \A j \in DOMAIN at : \E k \in 1 .. r : j = Mover(s, id, k) /\ at[j] = k
    BY WithoutIs
  <1>2. Ids(t) = Ids(s)
    BY <1>0, <1>1, ShapeIs
  <1>3. /\ t.items[id] = EmptyItem
        /\ \A j \in Ids(s) \ {id} :
             /\ j \notin DOMAIN at => t.items[j] = s.items[j]
             /\ j \in DOMAIN at => t.items[j].psl = s.items[j].psl - 1
             /\ Stored(t, j) <=> Stored(s, j)
    BY WithoutItems
  <1>4. \A j \in DOMAIN at : Stored(s, j)
    BY <1>0, <1>1, WayIs
  <1>5. \A j \in Ids(s) : s.items[j].psl \in Nat
    BY <1>0, ShapeIs DEF Item
  <1> SUFFICES ASSUME NEW q \in 0 .. PslLen - 1 PROVE t.stats[q] = Cardinality(AtPsl(t, q))
    BY DEF StatsOK
  <1> DEFINE A == AtPsl(s, q)
             X == IF q = s.items[id].psl THEN {id} ELSE {}
             D == MovedAt(s, at, q)
             E == MovedAt(s, at, q + 1)
  <1>6. q \in Nat
    OBVIOUS
  <1>7. AtPsl(t, q) = (A \ (X \cup D)) \cup E
    <2>1. ASSUME NEW j \in Ids(s) PROVE j \in AtPsl(t, q) <=> j \in (A \ (X \cup D)) \cup E
      <3>1. CASE j = id
        BY <1>1, <1>2, <1>3, <3>1, EmptyIs DEF AtPsl, Stored, MovedAt
      <3>2. CASE j # id /\ j \in DOMAIN at
        <4>1. j \in AtPsl(t, q) <=> s.items[j].psl - 1 = q
          BY <1>2, <1>3, <1>4, <3>2 DEF AtPsl
        <4>2. s.items[j].psl - 1 = q <=> s.items[j].psl = q + 1
          BY <1>5, <1>6
        <4>3. j \in E <=> s.items[j].psl = q + 1
          BY <3>2 DEF MovedAt
        <4>4. j \notin A \ (X \cup D)
          BY <3>2 DEF AtPsl, MovedAt
        <4> QED BY <4>1, <4>2, <4>3, <4>4
      <3>3. CASE j # id /\ j \notin DOMAIN at
        BY <1>2, <1>3, <3>3 DEF AtPsl, Stored, MovedAt
      <3> QED BY <3>1, <3>2, <3>3
    <2>2. AtPsl(t, q) \subseteq Ids(s) /\ (A \ (X \cup D)) \cup E \subseteq Ids(s)
      BY <1>1, <1>2 DEF AtPsl, MovedAt
    <2> QED BY <2>1, <2>2
  <1>8. /\ X \subseteq A /\ D \subseteq A /\ X \cap D = {} /\ (A \ (X \cup D)) \cap E = {}
    BY <1>0, <1>1, <1>4, <1>6 DEF AtPsl, MovedAt
  <1>9. /\ IsFiniteSet(A) /\ IsFiniteSet(D) /\ IsFiniteSet(E) /\ IsFiniteSet(X)
        /\ Cardinality(A) \in Nat /\ Cardinality(D) \in Nat /\ Cardinality(E) \in Nat
    <2>1. A \subseteq Ids(s) /\ D \subseteq Ids(s) /\ E \subseteq Ids(s) /\ X \subseteq Ids(s)
      BY <1>0, <1>1 DEF AtPsl, MovedAt
    <2> HIDE DEF A, D, E, X
    <2> QED BY <1>0, <2>1, IdsFinite
  <1>10. Cardinality(X) = IF q = s.items[id].psl THEN 1 ELSE 0
    BY FS_Singleton, FS_EmptySet
  <1>11. t.stats[q] = s.stats[q] - (IF q = s.items[id].psl THEN 1 ELSE 0)
                                 - Cardinality(D) + Cardinality(E)
    <2>1. DOMAIN s.stats = 0 .. PslLen - 1
      BY <1>0, ShapeIs
    <2> QED BY <1>1, <2>1 DEF StatsWithout
  <1>12. s.stats[q] = Cardinality(A)
    BY <1>0 DEF Sound, StatsOK
  <1> HIDE DEF A, X, D, E
  <1> DEFINE B == X \cup D
             C == A \ B
  <1>13. IsFiniteSet(B) /\ Cardinality(B) = Cardinality(X) + Cardinality(D)
    <2>1. IsFiniteSet(B) /\ Cardinality(B) = Cardinality(X) + Cardinality(D) - Cardinality(X \cap D)
      BY <1>9, FS_Union
    <2>2. Cardinality(X \cap D) = 0
      BY <1>8, FS_EmptySet
    <2>3. Cardinality(X) \in Nat
      BY <1>10
    <2> QED BY <1>9, <2>1, <2>2, <2>3
  <1>14. IsFiniteSet(C) /\ Cardinality(C) = Cardinality(A) - Cardinality(B)
    <2>1. IsFiniteSet(C) /\ Cardinality(C) = Cardinality(A) - Cardinality(A \cap B)
      BY <1>9, FS_Difference
    <2>2. A \cap B = B
      BY <1>8
    <2> QED BY <2>1, <2>2
  <1>15. Cardinality(C \cup E) = Cardinality(C) + Cardinality(E)
    <2>1. Cardinality(C \cup E) = Cardinality(C) + Cardinality(E) - Cardinality(C \cap E)
      BY <1>9, <1>14, FS_Union
    <2>2. Cardinality(C \cap E) = 0
      BY <1>8, FS_EmptySet
    <2>3. Cardinality(C) \in Nat
      BY <1>14, FS_CardinalityType
    <2> QED BY <1>9, <2>1, <2>2, <2>3
  <1>16. Cardinality(AtPsl(t, q)) = Cardinality(C \cup E)
    BY <1>7
  <1>17. Cardinality(X) \in Nat
    BY <1>10
  <1> HIDE DEF B, C
  <1> QED BY <1>9, <1>10, <1>11, <1>12, <1>13, <1>14, <1>15, <1>16, <1>17

(* The table without the item: the run has moved up by one bucket.         *)
LEMMA WithoutTable ==
    ASSUME NEW s, NEW hf, NEW id, NEW r, NEW at, Running(s, hf, id, r, at),
           NEW t, t = Without(s, id, r, at)
    PROVE  /\ t.table[Way(s, id, r)] = 0
           /\ \A k \in 0 .. r - 1 : t.table[Way(s, id, k)] = Mover(s, id, k + 1)
           /\ \A b \in Buckets(s) :
                (\A k \in 0 .. r : b # Way(s, id, k)) => t.table[b] = s.table[b]
  <1>0. /\ Sound(s, hf) /\ id \in Ids(s) /\ Stored(s, id) /\ Shape(s)
        /\ r \in 0 .. s.tableCap - 2 /\ \A k \in 1 .. r : Moves(s, id, k)
        /\ DOMAIN s.table = Buckets(s)
    BY ShapeIs DEF Running, Sound
  <1>1. t.table = TableWithout(s, id, r)
    BY WithoutIs
  <1>2. \A k \in 0 .. r : Way(s, id, k) \in Buckets(s)
    BY <1>0, WayIs
  <1>3. r \in 0 .. r /\ \A k \in 0 .. r - 1 : k \in 0 .. r /\ k # r
    BY <1>0
  <1>4. t.table[Way(s, id, r)] = 0
    BY <1>0, <1>1, <1>2, <1>3 DEF TableWithout
  <1>5. ASSUME NEW k \in 0 .. r - 1
        PROVE  t.table[Way(s, id, k)] = Mover(s, id, k + 1)
    <2>1. Way(s, id, k) # Way(s, id, r) /\ Way(s, id, k) \in Buckets(s)
      BY <1>0, <1>2, <1>3, WayIs
    <2>2. t.table[Way(s, id, k)] = s.table[(Way(s, id, k) + 1) % TableCap(s)]
      BY <1>0, <1>1, <2>1 DEF TableWithout
    <2>3. (Way(s, id, k) + 1) % TableCap(s) = Way(s, id, k + 1)
      BY <1>0, WayIs
    <2> QED BY <2>2, <2>3 DEF Mover
  <1>6. ASSUME NEW b \in Buckets(s), \A k \in 0 .. r : b # Way(s, id, k)
        PROVE  t.table[b] = s.table[b]
    BY <1>0, <1>1, <1>3, <1>6 DEF TableWithout
  <1> QED BY <1>4, <1>5, <1>6

LEMMA WithoutSound ==
    ASSUME NEW s, NEW hf \in HashFunctions, NEW id, NEW r, NEW at, Running(s, hf, id, r, at),
           NEW t, t = Without(s, id, r, at)
    PROVE  Sound(t, hf)
  <1>0. /\ Sound(s, hf) /\ id \in Ids(s) /\ Stored(s, id) /\ Shape(s) /\ ItemsOK(s, hf)
        /\ r \in 0 .. s.tableCap - 2 /\ \A k \in 1 .. r : Moves(s, id, k)
        /\ \A b \in Buckets(s) : Refers(s, b)
    BY DEF Running, Sound
  <1>1. /\ t.tableCap = s.tableCap /\ Shape(t) /\ t.stats = StatsWithout(s, id, at)
        /\ \A q \in 1 .. s.maxPsl : t.stats[q] > 0 => q <= t.maxPsl
        /\ DOMAIN at = Movers(s, id, r) /\ \A k \in 1 .. r : at[Mover(s, id, k)] = k
        /\ \A j \in DOMAIN at : \E k \in 1 .. r : j = Mover(s, id, k) /\ at[j] = k
        /\ \A k \in 1 .. r : Mover(s, id, k) \in DOMAIN at
    BY WithoutIs DEF Running, Movers
  <1>2. Ids(t) = Ids(s) /\ Buckets(t) = Buckets(s) /\ TableCap(t) = TableCap(s)
    BY <1>0, <1>1, ShapeIs DEF Buckets
  <1>3. /\ t.items[id] = EmptyItem
        /\ \A j \in Ids(s) \ {id} :
             /\ j \notin DOMAIN at => t.items[j] = s.items[j]
             /\ j \in DOMAIN at => /\ t.items[j].bucket = Way(s, id, at[j] - 1)
                                   /\ t.items[j].psl = s.items[j].psl - 1
             /\ t.items[j].ref = s.items[j].ref /\ t.items[j].value = s.items[j].value
             /\ Stored(t, j) <=> Stored(s, j)
    BY WithoutItems
  <1>4. /\ t.table[Way(s, id, r)] = 0
        /\ \A k \in 0 .. r - 1 : t.table[Way(s, id, k)] = Mover(s, id, k + 1)
        /\ \A b \in Buckets(s) :
             (\A k \in 0 .. r : b # Way(s, id, k)) => t.table[b] = s.table[b]
    BY WithoutTable
  <1>5. /\ Way(s, id, 0) = s.items[id].bucket
        /\ \A k \in 0 .. r : Way(s, id, k) \in Buckets(s)
        /\ \A k, l \in 0 .. r : Way(s, id, k) = Way(s, id, l) => k = l
        /\ \A k \in 1 .. r : LET j == Mover(s, id, k) IN
             /\ j \in Ids(s) /\ j # id /\ Stored(s, j) /\ s.items[j].bucket = Way(s, id, k)
             /\ s.items[j].psl > 0 /\ s.items[j].psl < PslLen /\ s.items[j].value \in Values
    BY <1>0, WayIs
  <1>6. StatsOK(t)
    BY WithoutStats
  <1>7. ASSUME NEW j \in Ids(s), Stored(t, j), t.items[j].psl <= s.maxPsl
        PROVE  t.items[j].psl <= t.maxPsl
    <2> DEFINE q == t.items[j].psl
    <2>1. /\ q \in Nat /\ s.maxPsl \in 0 .. PslLen - 1 /\ PslLen \in Nat /\ t.maxPsl \in Nat
          /\ s.maxPsl \in Nat /\ q <= s.maxPsl
      BY <1>0, <1>1, <1>2, <1>7, ShapeIs DEF Item
    <2>2. j \in AtPsl(t, q)
      BY <1>2, <1>7 DEF AtPsl
    <2> HIDE DEF q
    <2>3. CASE q = 0
      BY <2>1, <2>3 DEF q
    <2>4. CASE q > 0
      <3>1. q \in 1 .. s.maxPsl /\ q \in 0 .. PslLen - 1
        BY <2>1, <2>4
      <3>2. IsFiniteSet(AtPsl(t, q)) /\ Cardinality(AtPsl(t, q)) \in Nat
        <4>1. AtPsl(t, q) \subseteq Ids(t)
          BY DEF AtPsl
        <4> QED BY <1>1, <4>1, IdsFinite
      <3>3. Cardinality(AtPsl(t, q)) # 0
        BY <2>2, <3>2, FS_EmptySet
      <3>4. t.stats[q] > 0
        BY <1>6, <3>1, <3>2, <3>3 DEF StatsOK
      <3> QED BY <1>1, <3>1, <3>4 DEF q
    <2> QED BY <2>1, <2>3, <2>4
  <1>8. ItemsOK(t, hf)
    <2> SUFFICES ASSUME NEW j \in Ids(s)
                 PROVE  IF Stored(t, j) THEN InPlace(t, hf, j) ELSE t.items[j] = EmptyItem
      BY <1>2 DEF ItemsOK
    <2>1. CASE j = id
      BY <1>3, <2>1, EmptyIs DEF Stored
    <2>2. CASE j # id /\ j \in DOMAIN at
      <3>1. PICK k \in 1 .. r : j = Mover(s, id, k) /\ at[j] = k
        BY <1>1, <2>2
      <3>2. /\ Stored(s, j) /\ s.items[j].bucket = Way(s, id, k)
            /\ s.items[j].psl > 0 /\ s.items[j].psl < PslLen /\ s.items[j].value \in Values
            /\ InPlace(s, hf, j) /\ s.items[j].psl \in Nat
        BY <1>0, <1>5, <3>1, StoredIs
      <3>3. k - 1 \in 0 .. r - 1 /\ k - 1 \in 0 .. r /\ (k - 1) + 1 = k /\ k - 1 \in Nat
        BY <1>0
      <3>4. /\ t.items[j].bucket = Way(s, id, k - 1) /\ t.items[j].psl = s.items[j].psl - 1
            /\ t.items[j].value = s.items[j].value /\ Stored(t, j)
        BY <1>3, <2>2, <3>1, <3>2
      <3>5. t.table[Way(s, id, k - 1)] = j /\ Way(s, id, k - 1) \in Buckets(t)
        BY <1>2, <1>4, <1>5, <3>1, <3>3
      <3>6. Way(s, id, k - 1) = Bucket(s, hf[s.items[j].value], s.items[j].psl - 1)
        <4> DEFINE x == s.items[id].bucket
                   y == hf[s.items[j].value]
                   q == s.items[j].psl - 1
        <4>1. x \in Nat
          BY <1>0, StoredIs DEF Buckets
        <4>2. y \in Nat
          BY <3>2 DEF HashFunctions
        <4>3. q \in Nat /\ q + 1 = s.items[j].psl
          BY <3>2
        <4>4. Bucket(s, x, (k - 1) + 1) = Bucket(s, y, q + 1)
          BY <3>2, <3>3, <4>3 DEF InPlace, Way
        <4>5. s.tableCap > 0
          BY <1>0, ShapeIs
        <4> HIDE DEF x, y, q
        <4>6. Bucket(s, x, k - 1) = Bucket(s, y, q)
          BY <1>0, <3>3, <4>1, <4>2, <4>3, <4>4, <4>5, BucketPrevious
        <4> QED BY <4>6 DEF Way, x, y, q
      <3>7. s.items[j].psl <= s.maxPsl /\ s.maxPsl \in Nat
        BY <1>0, <3>2, ShapeIs DEF InPlace
      <3>8. t.items[j].psl <= t.maxPsl
        BY <1>7, <3>2, <3>4, <3>7
      <3>9. t.items[j].bucket = Bucket(t, hf[t.items[j].value], t.items[j].psl)
        BY <1>2, <3>4, <3>6 DEF Bucket
      <3> QED BY <3>2, <3>4, <3>5, <3>8, <3>9 DEF InPlace
    <2>3. CASE j # id /\ j \notin DOMAIN at /\ Stored(s, j)
      <3>1. t.items[j] = s.items[j] /\ InPlace(s, hf, j) /\ Stored(t, j)
        BY <1>0, <1>3, <2>3, StoredIs
      <3>2. \A k \in 0 .. r : s.items[j].bucket # Way(s, id, k)
        <4> SUFFICES ASSUME NEW k \in 0 .. r, s.items[j].bucket = Way(s, id, k) PROVE FALSE
          OBVIOUS
        <4>1. s.table[Way(s, id, k)] = j
          BY <3>1 DEF InPlace
        <4>2. CASE k = 0
          BY <1>0, <1>5, <2>3, <4>1, <4>2, StoredIs
        <4>3. CASE k # 0
          <5>1. k \in 1 .. r
            BY <1>0, <4>3
          <5>2. Mover(s, id, k) = j
            BY <4>1 DEF Mover
          <5> QED BY <1>1, <2>3, <5>1, <5>2
        <4> QED BY <4>2, <4>3
      <3>3. t.table[s.items[j].bucket] = j
        BY <1>4, <3>1, <3>2 DEF InPlace
      <3>4. t.items[j].psl <= t.maxPsl
        BY <1>7, <3>1 DEF InPlace
      <3> QED BY <1>2, <3>1, <3>3, <3>4 DEF InPlace, Bucket
    <2>4. CASE j # id /\ j \notin DOMAIN at /\ ~Stored(s, j)
      BY <1>0, <1>3, <2>4 DEF ItemsOK
    <2> QED BY <2>1, <2>2, <2>3, <2>4
  <1>9. ASSUME NEW b \in Buckets(s) PROVE Refers(t, b)
    <2>1. CASE b = Way(s, id, r)
      BY <1>4, <2>1 DEF Refers
    <2>2. CASE \E k \in 0 .. r - 1 : b = Way(s, id, k)
      <3>1. PICK k \in 0 .. r - 1 : b = Way(s, id, k)
        BY <2>2
      <3>2. k + 1 \in 1 .. r /\ (k + 1) - 1 = k
        BY <1>0
      <3>3. t.table[b] = Mover(s, id, k + 1)
        BY <1>4, <3>1
      <3>4. /\ Mover(s, id, k + 1) \in Ids(s) /\ Mover(s, id, k + 1) # id
            /\ Mover(s, id, k + 1) \in DOMAIN at /\ at[Mover(s, id, k + 1)] = k + 1
        BY <1>1, <1>5, <3>2
      <3>5. t.items[Mover(s, id, k + 1)].bucket = Way(s, id, k)
        BY <1>3, <3>2, <3>4
      <3> QED BY <1>2, <3>1, <3>3, <3>4, <3>5 DEF Refers
    <2>3. CASE \A k \in 0 .. r : b # Way(s, id, k)
      <3>1. t.table[b] = s.table[b] /\ Refers(s, b)
        BY <1>0, <1>4, <2>3
      <3>2. ASSUME s.table[b] # 0
            PROVE  s.table[b] \in Ids(s) \ {id} /\ s.table[b] \notin DOMAIN at
        <4>1. s.table[b] \in Ids(s) /\ s.items[s.table[b]].bucket = b
          BY <3>1, <3>2 DEF Refers
        <4>2. s.table[b] # id
          <5>1. 0 \in 0 .. r
            BY <1>0
          <5> QED BY <1>5, <2>3, <4>1, <5>1
        <4>3. ASSUME s.table[b] \in DOMAIN at PROVE FALSE
          <5>1. PICK k \in 1 .. r : s.table[b] = Mover(s, id, k)
            BY <1>1, <4>3
          <5>2. b = Way(s, id, k) /\ k \in 0 .. r
            BY <1>0, <1>5, <4>1, <5>1
          <5> QED BY <2>3, <5>2
        <4> QED BY <4>1, <4>2, <4>3
      <3>3. s.table[b] # 0 => t.items[s.table[b]] = s.items[s.table[b]]
        BY <1>3, <3>2
      <3> QED BY <1>2, <3>1, <3>3 DEF Refers
    <2>4. r \in Nat
      BY <1>0
    <2>5. \A k \in 0 .. r : k = r \/ k \in 0 .. r - 1
      BY <2>4
    <2> QED BY <2>1, <2>2, <2>3, <2>5
  <1> QED BY <1>1, <1>2, <1>6, <1>8, <1>9 DEF Sound

(* Deletion frees the id and leaves every other item's value and count.    *)
DeletedFrom(s, hf, id, t) ==
    /\ Sound(t, hf) /\ t.tableCap = s.tableCap /\ t.living = s.living /\ t.nextId = s.nextId
    /\ t.items[id].ref = IF Stored(s, id) THEN 0 ELSE s.items[id].ref
    /\ ~Stored(t, id)
    /\ \A j \in Ids(s) \ {id} : /\ t.items[j].ref = s.items[j].ref
                                /\ t.items[j].value = s.items[j].value
                                /\ Stored(t, j) <=> Stored(s, j)

LEMMA DeleteSound ==
    ASSUME NEW s, NEW hf \in HashFunctions, Sound(s, hf), NEW id \in Ids(s)
    PROVE  DeletedFrom(s, hf, id, DeleteItem(s, id))
  <1>1. CASE ~Stored(s, id)
    <2>1. DeleteItem(s, id) = s
      BY <1>1, Zenon DEF DeleteItem, Stored
    <2> QED BY <1>1, <2>1 DEF DeletedFrom
  <1>2. CASE Stored(s, id)
    <2>1. PICK r, at, t : /\ r = RunOf(s, id) /\ at = Places(s, id, r)
                          /\ t = Without(s, id, r, at)
      OBVIOUS
    <2>2. Running(s, hf, id, r, at)
      BY <1>2, <2>1, RunningNow
    <2>3. Sound(t, hf)
      BY <2>1, <2>2, WithoutSound
    <2>4. t.tableCap = s.tableCap /\ t.living = s.living /\ t.nextId = s.nextId
      BY <2>1, <2>2, WithoutIs
    <2>5. /\ t.items[id] = EmptyItem
          /\ \A j \in Ids(s) \ {id} :
               /\ j \notin DOMAIN at => t.items[j] = s.items[j]
               /\ j \in DOMAIN at => /\ t.items[j].bucket = Way(s, id, at[j] - 1)
                                     /\ t.items[j].psl = s.items[j].psl - 1
               /\ t.items[j].ref = s.items[j].ref /\ t.items[j].value = s.items[j].value
               /\ Stored(t, j) <=> Stored(s, j)
      BY <2>1, <2>2, WithoutItems
    <2>6. t = DeleteItem(s, id)
      BY <1>2, <2>1, DeleteIsWithout
    <2>7. DeletedFrom(s, hf, id, t)
      BY <1>2, <2>3, <2>4, <2>5, EmptyIs DEF DeletedFrom, Stored
    <2> QED BY <2>6, <2>7
  <1> QED BY <1>1, <1>2

-----------------------------------------------------------------------------
(* The operations on a whole set, ids included.                            *)

(* A sound set whose ids from nextId on are free.                          *)
Whole(s, hf) ==
    /\ Sound(s, hf) /\ s.nextId > 0 /\ 1 .. s.nextId - 1 \subseteq Ids(s)
    /\ \A id \in Ids(s) : id >= s.nextId => ~Stored(s, id)

(* Only the ids' counts, the number of living items and the next id are    *)
(* other than they were.                                                   *)
SameTable(s, t) ==
    /\ t.tableCap = s.tableCap /\ t.table = s.table /\ t.stats = s.stats /\ t.maxPsl = s.maxPsl
    /\ \A j \in Ids(s) : /\ t.items[j].bucket = s.items[j].bucket
                         /\ t.items[j].psl = s.items[j].psl
                         /\ t.items[j].value = s.items[j].value
                         /\ ~Stored(s, j) => t.items[j] = s.items[j]

LEMMA SameTableSound ==
    ASSUME NEW s, NEW hf, Sound(s, hf), NEW t, Shape(t), SameTable(s, t)
    PROVE  /\ Sound(t, hf) /\ Ids(t) = Ids(s)
           /\ \A j \in Ids(s) : Stored(t, j) <=> Stored(s, j)
  <1>1. Shape(s) /\ ItemsOK(s, hf) /\ StatsOK(s) /\ \A b \in Buckets(s) : Refers(s, b)
    BY DEF Sound
  <1>2. /\ t.tableCap = s.tableCap /\ t.table = s.table /\ t.stats = s.stats
        /\ t.maxPsl = s.maxPsl
        /\ Ids(t) = Ids(s) /\ Buckets(t) = Buckets(s) /\ TableCap(t) = TableCap(s)
    BY <1>1, ShapeIs DEF SameTable, Buckets
  <1>3. \A j \in Ids(s) : Stored(t, j) <=> Stored(s, j)
    BY DEF SameTable, Stored
  <1>4. ItemsOK(t, hf)
    <2> SUFFICES ASSUME NEW j \in Ids(s)
                 PROVE  IF Stored(t, j) THEN InPlace(t, hf, j) ELSE t.items[j] = EmptyItem
      BY <1>2 DEF ItemsOK
    <2>1. CASE Stored(s, j)
      <3>1. InPlace(s, hf, j)
        BY <1>1, <2>1 DEF ItemsOK
      <3> QED BY <1>2, <1>3, <2>1, <3>1 DEF InPlace, Bucket, SameTable
    <2>2. CASE ~Stored(s, j)
      BY <1>1, <1>3, <2>2 DEF ItemsOK, SameTable
    <2> QED BY <2>1, <2>2
  <1>5. \A q : AtPsl(t, q) = AtPsl(s, q)
    BY <1>2, <1>3 DEF AtPsl, SameTable
  <1>6. StatsOK(t)
    BY <1>1, <1>2, <1>5 DEF StatsOK
  <1>7. \A b \in Buckets(t) : Refers(t, b)
    BY <1>1, <1>2 DEF Refers, SameTable
  <1> QED BY <1>2, <1>3, <1>4, <1>6, <1>7 DEF Sound

LEMMA SameTableWhole ==
    ASSUME NEW s, NEW hf, Whole(s, hf), NEW t, Shape(t), SameTable(s, t), t.nextId = s.nextId
    PROVE  Whole(t, hf)
  BY SameTableSound DEF Whole

(* The count of one id and the number of living items are changed.         *)
Counted(s, id, n, living) == [s EXCEPT !.items[id].ref = n, !.living = living]

LEMMA CountedIs ==
    ASSUME NEW s, Shape(s), NEW id \in Ids(s), Stored(s, id), NEW n \in Nat, NEW living \in Int,
           NEW t, t = Counted(s, id, n, living)
    PROVE  /\ Shape(t) /\ SameTable(s, t) /\ t.nextId = s.nextId
           /\ t.items[id].ref = n /\ \A j \in Ids(s) : j # id => t.items[j] = s.items[j]
  <1> DEFINE T == [Buckets(s) -> Nat]
             I == [Ids(s) -> Item]
             S == [0 .. PslLen - 1 -> Int]
             P == 0 .. PslLen - 1
  <1>1. s.items \in I
    BY ShapeIs
  <1>2. [s.items[id] EXCEPT !.ref = n] \in Item
    BY <1>1 DEF Item
  <1>3. [s.items EXCEPT ![id] = [s.items[id] EXCEPT !.ref = n]] \in I
    BY <1>1, <1>2
  <1>4. s \in Record(T, I, S, P)
    BY ShapeOf
  <1>5. t = [s EXCEPT !.items = [s.items EXCEPT ![id] = [s.items[id] EXCEPT !.ref = n]],
                      !.living = living]
    <2> HIDE DEF T, I, S, P
    <2> QED BY <1>4 DEF Counted, Record
  <1> DEFINE items == [s.items EXCEPT ![id] = [s.items[id] EXCEPT !.ref = n]]
  <1>6. /\ items[id].bucket = s.items[id].bucket /\ items[id].psl = s.items[id].psl
        /\ items[id].value = s.items[id].value /\ items[id].ref = n
        /\ \A j \in Ids(s) : j # id => items[j] = s.items[j]
    <2>1. /\ items[id] = [s.items[id] EXCEPT !.ref = n]
          /\ \A j \in Ids(s) : j # id => items[j] = s.items[j]
      BY <1>1
    <2>2. s.items[id] \in Item
      BY <1>1
    <2> HIDE DEF items
    <2> QED BY <2>1, <2>2 DEF Item
  <1>7. items \in I
    BY <1>3
  <1> HIDE DEF T, I, S, P, items
  <1>8. t = [s EXCEPT !.items = items, !.living = living]
    BY <1>5 DEF items
  <1>9. t \in Record(T, I, S, P)
    BY <1>4, <1>7, <1>8 DEF Record
  <1>10. /\ t.tableCap = s.tableCap /\ t.table = s.table /\ t.stats = s.stats
         /\ t.maxPsl = s.maxPsl /\ t.nextId = s.nextId /\ t.items = items
    BY <1>4, <1>8 DEF Record
  <1>11. Shape(t)
    BY <1>9, <1>10, ShapeOf DEF T, I, S, P
  <1>12. SameTable(s, t)
    BY <1>6, <1>10 DEF SameTable, Stored
  <1> QED BY <1>6, <1>10, <1>11, <1>12

LEMMA NextIdIs ==
    ASSUME NEW s, Shape(s), NEW n \in Nat, NEW t, t = [s EXCEPT !.nextId = n]
    PROVE  /\ Shape(t) /\ SameTable(s, t) /\ t.nextId = n /\ t.items = s.items
           /\ t.living = s.living
  <1> DEFINE T == [Buckets(s) -> Nat]
             I == [Ids(s) -> Item]
             S == [0 .. PslLen - 1 -> Int]
             P == 0 .. PslLen - 1
  <1>1. s \in Record(T, I, S, P)
    BY ShapeOf
  <1> HIDE DEF T, I, S, P
  <1>2. t \in Record(T, I, S, P)
    BY <1>1 DEF Record
  <1>3. /\ t.tableCap = s.tableCap /\ t.table = s.table /\ t.stats = s.stats
        /\ t.maxPsl = s.maxPsl /\ t.nextId = n /\ t.items = s.items /\ t.living = s.living
    BY <1>1 DEF Record
  <1>4. Shape(t)
    BY <1>2, <1>3, ShapeOf DEF T, I, S, P
  <1> QED BY <1>3, <1>4 DEF SameTable

(* Other items keep their counts, and living ones their values.            *)
Keeps(s, t) ==
    /\ t.tableCap = s.tableCap
    /\ \A j \in Ids(s) : /\ t.items[j].ref = s.items[j].ref
                         /\ s.items[j].ref > 0 => t.items[j].value = s.items[j].value

(* An item with users is in the table, under an id that was given out.     *)
LEMMA UsedIs ==
    ASSUME NEW s, NEW hf, Whole(s, hf), NEW id \in Ids(s), s.items[id].ref > 0
    PROVE  Stored(s, id) /\ id \in 1 .. s.nextId - 1 /\ s.items[id].value \in Values
  <1>1. Sound(s, hf) /\ Shape(s) /\ ItemsOK(s, hf)
    BY DEF Whole, Sound
  <1>2. Stored(s, id)
    BY <1>1, NotStored
  <1>3. id \in Nat /\ id # 0 /\ s.nextId \in Nat
    BY <1>1, ShapeIs
  <1>4. id < s.nextId
    BY <1>2, <1>3 DEF Whole
  <1> QED BY <1>1, <1>2, <1>3, <1>4, StoredIs

(* What is looked up and found is a living item of that value.             *)
LEMMA LookupIs ==
    ASSUME NEW s, NEW hf \in HashFunctions, Sound(s, hf), NEW value \in Values,
           NEW id, id = Lookup(s, value, hf[value]), id # 0
    PROVE  id \in Ids(s) /\ s.items[id].ref > 0 /\ s.items[id].value = value
  <1> DEFINE at(i) == s.table[Bucket(s, hf[value], i)]
             stops == {i \in 0 .. s.maxPsl : at(i) = 0 \/ s.items[at(i)].psl < i}
             hits == {i \in 0 .. s.maxPsl : /\ at(i) # 0 /\ s.items[at(i)].psl = i
                                            /\ s.items[at(i)].ref > 0
                                            /\ s.items[at(i)].value = value}
             found == {i \in hits : \A j \in stops : i < j}
  <1>1. id = IF TableCap(s) = 0 \/ found = {} THEN 0 ELSE at(Min(found))
    BY DEF Lookup
  <1>2. TableCap(s) # 0 /\ found # {} /\ id = at(Min(found))
    BY <1>1
  <1>3. Shape(s) /\ s.tableCap \in Nat /\ s.tableCap > 0 /\ s.maxPsl \in Nat /\ hf[value] \in Nat
    <2> HIDE DEF at, stops, hits, found
    <2>1. Shape(s)
      BY DEF Sound
    <2>2. s.tableCap \in Nat /\ TableCap(s) = s.tableCap /\ s.maxPsl \in 0 .. PslLen - 1
      BY <2>1, ShapeIs
    <2>3. hf[value] \in Nat
      BY DEF HashFunctions
    <2> QED BY <1>2, <2>1, <2>2, <2>3
  <1>4. found \subseteq Nat
    BY <1>3
  <1>5. \A i \in found : at(i) = id => id # 0 /\ s.items[id].ref > 0 /\ s.items[id].value = value
    OBVIOUS
  <1> HIDE DEF found
  <1>6. \E m \in found : \A k \in found : m <= k
    BY <1>2, <1>4, Numbers!LeastExists
  <1>7. Min(found) \in found
    BY <1>6, Zenon DEF Min
  <1>8. PICK i \in found : at(i) = id
    BY <1>2, <1>7
  <1>9. Bucket(s, hf[value], i) \in Buckets(s)
    BY <1>3, <1>4, BucketIs
  <1>10. id \in Ids(s)
    BY <1>8, <1>9 DEF Sound, Refers
  <1> QED BY <1>5, <1>8, <1>10

(* A use or a release is a change of one count.                            *)
UsedMore(s, id, more) == [Use(s, id) EXCEPT !.living = @ + more]

LEMMA UseIs ==
    ASSUME NEW s, NEW hf, Whole(s, hf), NEW id \in Ids(s), Stored(s, id), NEW more \in {0, 1},
           NEW t, t = UsedMore(s, id, more)
    PROVE  /\ Whole(t, hf) /\ t.tableCap = s.tableCap
           /\ t.items[id].ref = s.items[id].ref + 1 /\ t.items[id].value = s.items[id].value
           /\ \A j \in Ids(s) : j # id => t.items[j] = s.items[j]
  <1>1. Sound(s, hf) /\ Shape(s)
    BY DEF Whole, Sound
  <1>2. s.items[id].ref + 1 \in Nat /\ s.living + more \in Int
    <2>1. s.items[id] \in Item
      BY <1>1, ShapeIs
    <2>2. s.items[id].ref \in Nat /\ s.living \in Int
      BY <1>1, <2>1, ShapeIs DEF Item
    <2> QED BY <2>2
  <1>3. t = Counted(s, id, s.items[id].ref + 1, s.living + more)
    <2>1. /\ s \in Record([Buckets(s) -> Nat], [Ids(s) -> Item], [0 .. PslLen - 1 -> Int],
                          0 .. PslLen - 1)
          /\ s.items \in [Ids(s) -> Item]
      BY <1>1, ShapeOf, ShapeIs
    <2> DEFINE T == [Buckets(s) -> Nat]
               S == [0 .. PslLen - 1 -> Int]
               P == 0 .. PslLen - 1
               I == [Ids(s) -> Item]
    <2>2. s \in Record(T, I, S, P)
      BY <2>1
    <2> HIDE DEF T, S, P, I
    <2> QED BY <2>2 DEF Use, Counted, Record, UsedMore
  <1>4. /\ Shape(t) /\ SameTable(s, t) /\ t.nextId = s.nextId
        /\ t.items[id].ref = s.items[id].ref + 1
        /\ \A j \in Ids(s) : j # id => t.items[j] = s.items[j]
    <2>1. PICK n \in Nat, living \in Int : n = s.items[id].ref + 1 /\ living = s.living + more
      BY <1>2
    <2>2. t = Counted(s, id, n, living)
      BY <1>3, <2>1
    <2>3. /\ Shape(t) /\ SameTable(s, t) /\ t.nextId = s.nextId
          /\ t.items[id].ref = n /\ \A j \in Ids(s) : j # id => t.items[j] = s.items[j]
      BY <1>1, <2>2, CountedIs
    <2> QED BY <2>1, <2>3
  <1>5. Whole(t, hf)
    BY <1>4, SameTableWhole
  <1> QED BY <1>4, <1>5 DEF SameTable

LEMMA UseOnlyIs ==
    ASSUME NEW s, NEW hf, Whole(s, hf), NEW id \in Ids(s), Stored(s, id),
           NEW t, t = Use(s, id)
    PROVE  /\ Whole(t, hf) /\ t.tableCap = s.tableCap
           /\ t.items[id].ref = s.items[id].ref + 1 /\ t.items[id].value = s.items[id].value
           /\ \A j \in Ids(s) : j # id => t.items[j] = s.items[j]
  <1>1. Shape(s)
    BY DEF Whole, Sound
  <1>2. t = UsedMore(s, id, 0)
    <2> DEFINE T == [Buckets(s) -> Nat]
               S == [0 .. PslLen - 1 -> Int]
               P == 0 .. PslLen - 1
               I == [Ids(s) -> Item]
    <2>1. s \in Record(T, I, S, P)
      BY <1>1, ShapeOf
    <2> HIDE DEF T, S, P, I
    <2>2. s.living + 0 = s.living
      BY <2>1 DEF Record
    <2> QED BY <2>1, <2>2 DEF Use, Record, UsedMore
  <1>3. PICK more \in {0, 1} : more = 0
    OBVIOUS
  <1>4. t = UsedMore(s, id, more)
    BY <1>2, <1>3
  <1> QED BY <1>4, UseIs

LEMMA ReleaseIs ==
    ASSUME NEW s, NEW hf, Whole(s, hf), NEW id \in Ids(s), s.items[id].ref > 0,
           NEW t, t = Release(s, id, 1)
    PROVE  /\ Whole(t, hf) /\ t.tableCap = s.tableCap
           /\ t.items[id].ref = s.items[id].ref - 1 /\ t.items[id].value = s.items[id].value
           /\ \A j \in Ids(s) : j # id => t.items[j] = s.items[j]
  <1>1. Sound(s, hf) /\ Shape(s) /\ Stored(s, id)
    BY UsedIs DEF Whole, Sound
  <1>2. s.items[id].ref - 1 \in Nat /\ s.living - 1 \in Int /\ s.living \in Int
    <2>1. s.items[id] \in Item
      BY <1>1, ShapeIs
    <2>2. s.items[id].ref \in Nat /\ s.living \in Int
      BY <1>1, <2>1, ShapeIs DEF Item
    <2> QED BY <2>2
  <1>3. \E living \in Int : t = Counted(s, id, s.items[id].ref - 1, living)
    <2> DEFINE T == [Buckets(s) -> Nat]
               S == [0 .. PslLen - 1 -> Int]
               P == 0 .. PslLen - 1
               I == [Ids(s) -> Item]
    <2>1. s \in Record(T, I, S, P)
      BY <1>1, ShapeOf
    <2> HIDE DEF T, S, P, I
    <2> DEFINE u == [s EXCEPT !.items[id].ref = @ - 1]
    <2>2. t = IF u.items[id].ref = 0 THEN [u EXCEPT !.living = @ - 1] ELSE u
      BY Zenon DEF Release
    <2>3. u = Counted(s, id, s.items[id].ref - 1, s.living)
      BY <2>1 DEF Counted, Record
    <2>4. [u EXCEPT !.living = @ - 1] = Counted(s, id, s.items[id].ref - 1, s.living - 1)
      BY <2>1 DEF Counted, Record
    <2> HIDE DEF u
    <2> QED BY <1>2, <2>2, <2>3, <2>4
  <1>4. PICK living \in Int : t = Counted(s, id, s.items[id].ref - 1, living)
    BY <1>3
  <1>5. /\ Shape(t) /\ SameTable(s, t) /\ t.nextId = s.nextId
        /\ t.items[id].ref = s.items[id].ref - 1
        /\ \A j \in Ids(s) : j # id => t.items[j] = s.items[j]
    BY <1>1, <1>2, <1>4, CountedIs
  <1>6. Whole(t, hf)
    BY <1>5, SameTableWhole
  <1> QED BY <1>5, <1>6 DEF SameTable

(* Trimming: after k deletions the last k ids that were given out are free. *)
Trimming(given, x) ==
    LET s == given.from
        t == x[2]
    IN  /\ Sound(t, given.hf) /\ Keeps(s, t) /\ t.nextId = s.nextId
        /\ \A j \in Ids(s) : /\ Stored(t, j) => Stored(s, j)
                             /\ j >= s.nextId - x[1] => ~Stored(t, j)

Trims == INSTANCE FoldFacts WITH Step <- DeleteItem, Inv <- Trimming

LEMMA TrimFolds == \A base, ids : FoldLeft(DeleteItem, base, ids) = Trims!Fold(base, ids)
  BY Zenon DEF FoldLeft, Trims!FoldLeft, MapThenFoldSet, Trims!MapThenFoldSet,
     Max, Trims!Max, Trims!Fold

LEMMA TrimSound ==
    ASSUME NEW s, NEW hf \in HashFunctions, Whole(s, hf), NEW t, t = TrimDead(s)
    PROVE  Whole(t, hf) /\ Keeps(s, t)
  <1> DEFINE living == {id \in 1 .. s.nextId - 1 : s.items[id].ref > 0}
             last == Max({0} \cup living)
             m == s.nextId - 1 - last
             up == [k \in 1 .. m |-> last + k]
             dead == Reverse(up)
             u == Trims!Fold(s, dead)
  <1>1. /\ Sound(s, hf) /\ Shape(s) /\ s.nextId \in Nat /\ s.nextId > 0
        /\ 1 .. s.nextId - 1 \subseteq Ids(s) /\ Ids(s) \subseteq Nat \ {0}
        /\ \A id \in Ids(s) : id >= s.nextId => ~Stored(s, id)
        /\ s.items \in [Ids(s) -> Item]
    BY ShapeIs DEF Whole, Sound
  <1>2. /\ last \in 0 .. s.nextId - 1
        /\ \A id \in 1 .. s.nextId - 1 : id > last => s.items[id].ref = 0
    <2> DEFINE X == {0} \cup living
    <2>1. X \subseteq 0 .. s.nextId - 1 /\ X # {} /\ s.nextId - 1 \in Nat
      BY <1>1
    <2>2. \A id \in 1 .. s.nextId - 1 : s.items[id].ref > 0 => id \in X
      OBVIOUS
    <2>3. last = Max(X)
      OBVIOUS
    <2> HIDE DEF X, last
    <2>4. Max(X) \in X /\ \A y \in X : y <= Max(X)
      BY <2>1, MaxIs
    <2>5. last \in 0 .. s.nextId - 1
      BY <2>1, <2>3, <2>4
    <2>6. ASSUME NEW id \in 1 .. s.nextId - 1, id > last PROVE s.items[id].ref = 0
      <3>1. s.items[id].ref \in Nat
        BY <1>1 DEF Item
      <3>2. ~(s.items[id].ref > 0)
        BY <2>2, <2>3, <2>4, <2>5, <2>6
      <3> QED BY <3>1, <3>2
    <2> QED BY <2>5, <2>6
  <1> HIDE DEF last, living
  <1>3. m \in Nat /\ last \in Nat /\ m = s.nextId - 1 - last
    BY <1>1, <1>2
  <1> HIDE DEF m
  <1>4. up \in Seq(Nat) /\ Len(up) = m /\ \A k \in 1 .. m : up[k] = last + k
    BY <1>3
  <1> HIDE DEF up
  <1>5. /\ dead \in Seq(Nat) /\ Len(dead) = m
        /\ \A k \in 1 .. m : dead[k] = s.nextId - k /\ dead[k] > last /\ dead[k] \in 1 .. s.nextId - 1
    <2>1. dead = [k \in 1 .. m |-> up[(m - k) + 1]]
      BY <1>4 DEF Reverse
    <2>2. \A k \in 1 .. m : (m - k) + 1 \in 1 .. m
      BY <1>3
    <2>3. \A k \in 1 .. m : up[(m - k) + 1] = last + ((m - k) + 1)
      BY <1>4, <2>2
    <2>4. \A k \in 1 .. m : last + ((m - k) + 1) = s.nextId - k /\ s.nextId - k > last
                            /\ s.nextId - k \in 1 .. s.nextId - 1 /\ s.nextId - k \in Nat
      BY <1>1, <1>3
    <2> HIDE DEF dead
    <2>5. \A k \in 1 .. m : dead[k] = s.nextId - k
      BY <2>1, <2>3, <2>4
    <2>6. dead \in Seq(Nat) /\ Len(dead) = m
      <3>1. dead \in [1 .. m -> Nat]
        BY <2>1, <2>3, <2>4
      <3> QED BY <1>3, <3>1
    <2> QED BY <2>4, <2>5, <2>6
  <1> HIDE DEF dead
  <1>6. PICK given : given = [from |-> s, hf |-> hf]
    OBVIOUS
  <1>7. given.from = s /\ given.hf = hf
    BY <1>6
  <1>8. Trimming(given, <<0, s>>)
    <2>1. PICK x : x = <<0, s>>
      OBVIOUS
    <2>2. x[1] = 0 /\ x[2] = s /\ s.nextId - x[1] = s.nextId
      BY <1>1, <2>1
    <2>3. Keeps(s, s)
      BY DEF Keeps
    <2>4. Trimming(given, x)
      BY <1>1, <1>7, <2>2, <2>3 DEF Trimming
    <2> QED BY <2>1, <2>4
  <1>9. ASSUME NEW a, NEW k \in 1 .. Len(dead), Trimming(given, <<k - 1, a>>)
        PROVE  Trimming(given, <<k, DeleteItem(a, dead[k])>>)
    <2>1. PICK id, b : id = dead[k] /\ b = DeleteItem(a, id)
      OBVIOUS
    <2>2. /\ id = s.nextId - k /\ id > last /\ id \in 1 .. s.nextId - 1 /\ id \in Ids(s)
          /\ k \in Nat
      BY <1>1, <1>5, <2>1
    <2>3. /\ Sound(a, hf) /\ Keeps(s, a) /\ a.nextId = s.nextId
          /\ \A j \in Ids(s) : /\ Stored(a, j) => Stored(s, j)
                               /\ j >= s.nextId - (k - 1) => ~Stored(a, j)
      <3>1. PICK x : x = <<k - 1, a>>
        OBVIOUS
      <3>2. x[1] = k - 1 /\ x[2] = a /\ Trimming(given, x)
        BY <1>9, <3>1
      <3> QED BY <1>7, <3>2 DEF Trimming
    <2>4. Ids(a) = Ids(s)
      BY <1>1, <2>3, ShapeIs DEF Keeps, Sound
    <2>5. DeletedFrom(a, hf, id, b)
      BY <2>1, <2>2, <2>3, <2>4, DeleteSound
    <2>6. s.items[id].ref = 0 /\ a.items[id].ref = 0
      BY <1>2, <2>2, <2>3 DEF Keeps
    <2>7. Keeps(s, b)
      <3>1. b.tableCap = s.tableCap
        BY <2>3, <2>5 DEF DeletedFrom, Keeps
      <3>2. ASSUME NEW j \in Ids(s)
            PROVE  /\ b.items[j].ref = s.items[j].ref
                   /\ s.items[j].ref > 0 => b.items[j].value = s.items[j].value
        <4>1. CASE j = id
          BY <2>5, <2>6, <4>1 DEF DeletedFrom
        <4>2. CASE j # id
          BY <2>3, <2>4, <2>5, <4>2 DEF DeletedFrom, Keeps
        <4> QED BY <4>1, <4>2
      <3> QED BY <3>1, <3>2 DEF Keeps
    <2>8. ASSUME NEW j \in Ids(s)
          PROVE  /\ Stored(b, j) => Stored(s, j)
                 /\ j >= s.nextId - k => ~Stored(b, j)
      <3>1. CASE j = id
        BY <2>5, <3>1 DEF DeletedFrom
      <3>2. CASE j # id
        <4>1. Stored(b, j) <=> Stored(a, j)
          BY <2>4, <2>5, <3>2 DEF DeletedFrom
        <4>2. j >= s.nextId - k => j >= s.nextId - (k - 1)
          BY <1>1, <2>2, <3>2
        <4> QED BY <2>3, <4>1, <4>2
      <3> QED BY <3>1, <3>2
    <2>9. Sound(b, hf) /\ b.nextId = s.nextId
      BY <2>3, <2>5 DEF DeletedFrom
    <2>10. PICK x : x = <<k, b>>
      OBVIOUS
    <2>11. x[1] = k /\ x[2] = b
      BY <2>10
    <2>12. Trimming(given, x)
      BY <1>7, <2>7, <2>8, <2>9, <2>11 DEF Trimming
    <2> QED BY <2>1, <2>10, <2>12
  <1>10. Trimming(given, <<Len(dead), u>>)
    <2>1. \A a : \A k \in 1 .. Len(dead) :
            Trimming(given, <<k - 1, a>>) => Trimming(given, <<k, DeleteItem(a, dead[k])>>)
      BY <1>9
    <2> QED BY <1>5, <1>8, <2>1, Trims!FoldReaches
  <1> HIDE DEF u
  <1>11. /\ Sound(u, hf) /\ Keeps(s, u) /\ u.nextId = s.nextId
         /\ \A j \in Ids(s) : /\ Stored(u, j) => Stored(s, j)
                              /\ j >= s.nextId - m => ~Stored(u, j)
    <2>1. PICK x : x = <<m, u>>
      OBVIOUS
    <2>2. x[1] = m /\ x[2] = u /\ Trimming(given, x)
      BY <1>5, <1>10, <2>1
    <2> QED BY <1>7, <2>2 DEF Trimming
  <1>12. t = [u EXCEPT !.nextId = last + 1]
    <2>1. FoldLeft(DeleteItem, s, dead) = u
      BY TrimFolds DEF u
    <2>2. TrimDead(s) = [FoldLeft(DeleteItem, s, dead) EXCEPT !.nextId = last + 1]
      BY Zenon DEF TrimDead, dead, up, m, last, living
    <2> QED BY <2>1, <2>2
  <1>13. /\ Shape(t) /\ SameTable(u, t) /\ t.nextId = last + 1 /\ t.items = u.items
    BY <1>3, <1>11, <1>12, NextIdIs DEF Sound
  <1>14. Sound(t, hf) /\ Ids(t) = Ids(u) /\ t.tableCap = u.tableCap
    BY <1>11, <1>13, SameTableSound DEF SameTable
  <1>15. Ids(u) = Ids(s)
    BY <1>1, <1>11, ShapeIs DEF Keeps, Sound
  <1>16. Whole(t, hf)
    <2>1. t.nextId > 0 /\ 1 .. t.nextId - 1 \subseteq Ids(t)
      BY <1>1, <1>2, <1>13, <1>14, <1>15
    <2>2. ASSUME NEW id \in Ids(t), id >= t.nextId PROVE ~Stored(t, id)
      <3>1. id >= s.nextId - m
        BY <1>1, <1>3, <1>13, <1>14, <1>15, <2>2
      <3> QED BY <1>11, <1>13, <1>14, <1>15, <3>1 DEF Stored
    <2> QED BY <1>14, <2>1, <2>2 DEF Whole
  <1>17. Keeps(s, t)
    BY <1>11, <1>13, <1>14 DEF Keeps
  <1> QED BY <1>16, <1>17

(* Deletion brings no item to the end of the statistics.                   *)
LEMMA DeleteTail ==
    ASSUME NEW s, NEW hf \in HashFunctions, Sound(s, hf), NEW id \in Ids(s), ~TailUsed(s)
    PROVE  ~TailUsed(DeleteItem(s, id))
  <1>1. CASE ~Stored(s, id)
    <2>1. DeleteItem(s, id) = s
      BY <1>1, Zenon DEF DeleteItem, Stored
    <2> QED BY <2>1
  <1>2. CASE Stored(s, id)
    <2>1. PICK r, at, t : /\ r = RunOf(s, id) /\ at = Places(s, id, r)
                          /\ t = Without(s, id, r, at)
      OBVIOUS
    <2>2. Running(s, hf, id, r, at)
      BY <1>2, <2>1, RunningNow
    <2>3. StatsOK(t) /\ t.tableCap = s.tableCap /\ Shape(t)
      BY <2>1, <2>2, WithoutStats, WithoutIs
    <2>4. /\ t.items[id] = EmptyItem
          /\ \A j \in Ids(s) \ {id} :
               /\ j \notin DOMAIN at => t.items[j] = s.items[j]
               /\ j \in DOMAIN at => /\ t.items[j].bucket = Way(s, id, at[j] - 1)
                                     /\ t.items[j].psl = s.items[j].psl - 1
               /\ t.items[j].ref = s.items[j].ref /\ t.items[j].value = s.items[j].value
               /\ Stored(t, j) <=> Stored(s, j)
      BY <2>1, <2>2, WithoutItems
    <2>5. Shape(s) /\ Ids(t) = Ids(s) /\ PslLen \in Nat /\ PslLen > 0
      BY <2>3, ShapeIs DEF Sound
    <2>6. AtPsl(t, PslLen - 1) = {}
      <3> SUFFICES ASSUME NEW j \in Ids(s), Stored(t, j), t.items[j].psl = PslLen - 1
                   PROVE  FALSE
        BY <2>5 DEF AtPsl
      <3>1. j # id
        BY <2>4, EmptyIs DEF Stored
      <3>2. Stored(s, j) /\ s.items[j].psl < PslLen - 1 /\ s.items[j].psl \in Nat
        BY <2>4, <3>1, TailFree, StoredIs DEF Sound
      <3>3. t.items[j].psl = s.items[j].psl \/ t.items[j].psl = s.items[j].psl - 1
        BY <2>4, <3>1
      <3> QED BY <2>5, <3>2, <3>3
    <2>7. t.stats[PslLen - 1] = 0
      <3>1. PslLen - 1 \in 0 .. PslLen - 1
        BY <2>5
      <3> QED BY <2>3, <2>6, <3>1, FS_EmptySet DEF StatsOK
    <2>8. t = DeleteItem(s, id)
      BY <1>2, <2>1, DeleteIsWithout
    <2> QED BY <2>7, <2>8 DEF TailUsed
  <1> QED BY <1>1, <1>2

(* What every addition promises: the id it gives, if any, has the value    *)
(* and one user more; no other id's users are changed, and no used value.  *)
Added(s, hf, value, added) ==
    LET t == added.set IN
    /\ Whole(t, hf) /\ t.tableCap = s.tableCap
    /\ \A j \in Ids(s) : /\ j # added.id => t.items[j].ref = s.items[j].ref
                         /\ s.items[j].ref > 0 => t.items[j].value = s.items[j].value
    /\ IF added.error = "none"
       THEN /\ added.id \in Ids(s) /\ t.items[added.id].value = value
            /\ t.items[added.id].ref = s.items[added.id].ref + 1
       ELSE added.id = 0

LEMMA AddedAfter ==
    ASSUME NEW s, NEW t, NEW hf, Keeps(s, t), Shape(s), Shape(t), NEW value, NEW added,
           Added(t, hf, value, added)
    PROVE  Added(s, hf, value, added)
  <1>1. Ids(t) = Ids(s) /\ t.tableCap = s.tableCap
    BY ShapeIs DEF Keeps
  <1>2. /\ \A j \in Ids(s) : /\ t.items[j].ref = s.items[j].ref
                             /\ s.items[j].ref > 0 => t.items[j].value = s.items[j].value
    BY DEF Keeps
  <1> QED BY <1>1, <1>2 DEF Added

LEMMA FailedIs ==
    ASSUME NEW s, NEW hf, Whole(s, hf), NEW value, NEW error, error # "none"
    PROVE  Added(s, hf, value, Failed(s, error))
  <1>1. /\ Failed(s, error).set = s /\ Failed(s, error).id = 0
        /\ Failed(s, error).error = error
    BY DEF Failed
  <1> QED BY <1>1 DEF Added

LEMMA FoundIs ==
    ASSUME NEW s, NEW hf, Whole(s, hf), NEW value, NEW id \in Ids(s), s.items[id].ref > 0,
           s.items[id].value = value
    PROVE  Added(s, hf, value, Found(s, id)) /\ Added(s, hf, value, Born(s, id))
  <1>1. Stored(s, id)
    BY UsedIs
  <1>2. PICK t : t = Use(s, id)
    OBVIOUS
  <1>3. PICK u : u = UsedMore(s, id, 1)
    OBVIOUS
  <1>4. /\ Whole(t, hf) /\ t.tableCap = s.tableCap
        /\ t.items[id].ref = s.items[id].ref + 1 /\ t.items[id].value = s.items[id].value
        /\ \A j \in Ids(s) : j # id => t.items[j] = s.items[j]
    BY <1>1, <1>2, UseOnlyIs
  <1>5. PICK more \in {0, 1} : more = 1
    OBVIOUS
  <1>6. /\ Whole(u, hf) /\ u.tableCap = s.tableCap
        /\ u.items[id].ref = s.items[id].ref + 1 /\ u.items[id].value = s.items[id].value
        /\ \A j \in Ids(s) : j # id => u.items[j] = s.items[j]
    BY <1>1, <1>3, <1>5, UseIs
  <1>7. /\ Found(s, id).set = t /\ Found(s, id).id = id /\ Found(s, id).error = "none"
        /\ Born(s, id).set = u /\ Born(s, id).id = id /\ Born(s, id).error = "none"
    BY <1>2, <1>3 DEF Found, Born, UsedMore
  <1>8. Added(s, hf, value, Found(s, id))
    BY <1>4, <1>7 DEF Added
  <1>9. Added(s, hf, value, Born(s, id))
    BY <1>6, <1>7 DEF Added
  <1> QED BY <1>8, <1>9

(* A value that was inserted and is used now.                              *)
LEMMA BornIs ==
    ASSUME NEW s, NEW hf, Whole(s, hf), NEW value, NEW newId \in Ids(s), newId <= s.nextId,
           NEW t, NEW id, InsertedAs(s, hf, value, newId, t, id),
           NEW u, Sound(u, hf), u.tableCap = t.tableCap, u.items = t.items,
           u.nextId \in Nat, u.nextId >= s.nextId, id < u.nextId,
           1 .. u.nextId - 1 \subseteq Ids(s)
    PROVE  Added(s, hf, value, Born(u, id))
  <1>1. /\ Shape(s) /\ Shape(t) /\ Shape(u) /\ Sound(t, hf) /\ t.tableCap = s.tableCap
        /\ s.nextId > 0 /\ s.nextId \in Nat
        /\ \A j \in Ids(s) : j >= s.nextId => ~Stored(s, j)
    BY ShapeIs DEF Whole, Sound, InsertedAs
  <1>2. Ids(t) = Ids(s) /\ Ids(u) = Ids(s) /\ Ids(s) \subseteq Nat \ {0}
    BY <1>1, ShapeIs
  <1>3. /\ id \in Ids(s) /\ s.items[id].ref = 0 /\ NewAt(t, id, value)
        /\ \A j \in Ids(s) : j # id => KeptItem(s, t, j)
    BY DEF InsertedAs
  <1>4. Whole(u, hf)
    <2>1. ASSUME NEW j \in Ids(u), j >= u.nextId PROVE ~Stored(u, j)
      <3>1. j # id /\ j >= s.nextId /\ j \in Ids(s)
        BY <1>1, <1>2, <1>3, <2>1
      <3>2. ~Stored(t, j)
        BY <1>1, <1>3, <3>1 DEF KeptItem
      <3> QED BY <3>2 DEF Stored
    <2>2. u.nextId > 0
      BY <1>1
    <2> QED BY <1>2, <2>1, <2>2 DEF Whole
  <1>5. Stored(u, id) /\ u.items[id].ref = 0 /\ u.items[id].value = value
    BY <1>3 DEF NewAt, Stored
  <1>6. PICK w : w = UsedMore(u, id, 1)
    OBVIOUS
  <1>7. PICK more \in {0, 1} : more = 1
    OBVIOUS
  <1>8. /\ Whole(w, hf) /\ w.tableCap = u.tableCap
        /\ w.items[id].ref = u.items[id].ref + 1 /\ w.items[id].value = u.items[id].value
        /\ \A j \in Ids(u) : j # id => w.items[j] = u.items[j]
    BY <1>2, <1>3, <1>4, <1>5, <1>6, <1>7, UseIs
  <1>9. Born(u, id).set = w /\ Born(u, id).id = id /\ Born(u, id).error = "none"
    BY <1>6 DEF Born, UsedMore
  <1>10. ASSUME NEW j \in Ids(s)
         PROVE  /\ j # id => w.items[j].ref = s.items[j].ref
                /\ s.items[j].ref > 0 => w.items[j].value = s.items[j].value
    <2>1. CASE j = id
      BY <1>3, <2>1
    <2>2. CASE j # id
      BY <1>2, <1>3, <1>8, <2>2 DEF KeptItem
    <2> QED BY <2>1, <2>2
  <1>11. w.tableCap = s.tableCap
    BY <1>1, <1>8
  <1>12. w.items[id].ref = s.items[id].ref + 1 /\ w.items[id].value = value
    BY <1>3, <1>5, <1>8
  <1> QED BY <1>3, <1>8, <1>9, <1>10, <1>11, <1>12 DEF Added

LEMMA AddTrimmedSound ==
    ASSUME NEW s, NEW hf \in HashFunctions, Whole(s, hf), NEW value \in Values
    PROVE  Added(s, hf, value, AddTrimmed(s, value, hf[value]))
  <1> DEFINE h == hf[value]
  <1>1. PICK id : id = Lookup(s, value, h)
    OBVIOUS
  <1>2. PICK ins : ins = Insert(s, value, h, s.nextId)
    OBVIOUS
  <1>3. AddTrimmed(s, value, h) =
          IF id # 0 THEN Found(s, id)
          ELSE IF TailUsed(s) THEN Failed(s, "OutOfMemory")
          ELSE IF s.nextId \notin Ids(s) THEN Failed(s, Full(s))
          ELSE Inserted(ins.set, ins)
    BY <1>1, <1>2, Zenon DEF AddTrimmed
  <1>4. Sound(s, hf) /\ Shape(s) /\ s.nextId \in Nat /\ s.nextId > 0
    BY ShapeIs DEF Whole, Sound
  <1>5. CASE id # 0
    <2>1. id \in Ids(s) /\ s.items[id].ref > 0 /\ s.items[id].value = value
      BY <1>1, <1>4, <1>5, LookupIs
    <2>2. Added(s, hf, value, Found(s, id))
      BY <2>1, FoundIs
    <2> QED BY <1>3, <1>5, <2>2
  <1>6. CASE id = 0 /\ TailUsed(s)
    <2>1. Added(s, hf, value, Failed(s, "OutOfMemory"))
      BY FailedIs
    <2> QED BY <1>3, <1>6, <2>1
  <1>7. CASE id = 0 /\ ~TailUsed(s) /\ s.nextId \notin Ids(s)
    <2>1. Full(s) # "none"
      BY DEF Full
    <2>2. Added(s, hf, value, Failed(s, Full(s)))
      BY <2>1, FailedIs
    <2> QED BY <1>3, <1>7, <2>2
  <1>8. CASE id = 0 /\ ~TailUsed(s) /\ s.nextId \in Ids(s)
    <2>1. ~Stored(s, s.nextId)
      BY <1>4, <1>8 DEF Whole
    <2>2. PICK t, c, n : t = ins.set /\ c = ins.id /\ n = IF c = t.nextId THEN t.nextId + 1 ELSE t.nextId
      OBVIOUS
    <2>3. InsertedAs(s, hf, value, s.nextId, t, c)
      BY <1>2, <1>4, <1>8, <2>1, <2>2, InsertSound
    <2>4. /\ Sound(t, hf) /\ Shape(t) /\ t.nextId = s.nextId /\ t.tableCap = s.tableCap
          /\ c \in Ids(s) /\ c <= s.nextId
      BY <2>3 DEF InsertedAs, Sound
    <2>5. PICK u : u = [t EXCEPT !.nextId = n]
      OBVIOUS
    <2>6. AddTrimmed(s, value, h) = Born(u, c)
      <3> DEFINE T == [Buckets(t) -> Nat]
                 S == [0 .. PslLen - 1 -> Int]
                 P == 0 .. PslLen - 1
                 I == [Ids(t) -> Item]
      <3>1. t \in Record(T, I, S, P)
        BY <2>4, ShapeOf
      <3> HIDE DEF T, S, P, I
      <3>2. u = [t EXCEPT !.nextId = IF c = @ THEN @ + 1 ELSE @]
        BY <2>2, <2>5, <3>1 DEF Record
      <3>3. Inserted(ins.set, ins) = Born(u, c)
        BY <2>2, <3>2, Zenon DEF Inserted
      <3> QED BY <1>3, <1>8, <3>3
    <2>7. /\ n \in Nat /\ n >= s.nextId /\ c < n /\ 1 .. n - 1 \subseteq Ids(s)
      <3>1. c \in Nat /\ 1 .. s.nextId - 1 \subseteq Ids(s)
        BY <1>4, <2>4, ShapeIs DEF Whole
      <3>2. CASE c = s.nextId
        BY <1>4, <1>8, <2>2, <2>4, <3>1, <3>2
      <3>3. CASE c # s.nextId
        BY <1>4, <2>2, <2>4, <3>1, <3>3
      <3> QED BY <3>2, <3>3
    <2>8. /\ Shape(u) /\ SameTable(t, u) /\ u.nextId = n /\ u.items = t.items
      BY <2>4, <2>5, <2>7, NextIdIs
    <2>9. Sound(u, hf) /\ u.tableCap = t.tableCap
      BY <2>4, <2>8, SameTableSound DEF SameTable
    <2>10. Added(s, hf, value, Born(u, c))
      <3>1. PICK newId \in Ids(s) : newId = s.nextId
        BY <1>8
      <3>2. newId <= s.nextId /\ InsertedAs(s, hf, value, newId, t, c)
        BY <1>4, <2>3, <3>1
      <3> QED BY <2>7, <2>8, <2>9, <3>2, BornIs
    <2> QED BY <2>6, <2>10
  <1> QED BY <1>5, <1>6, <1>7, <1>8

LEMMA AddSound ==
    ASSUME NEW s, NEW hf \in HashFunctions, Whole(s, hf), NEW value \in Values
    PROVE  Added(s, hf, value, Add(s, value, hf[value]))
  <1>1. PICK t : t = TrimDead(s)
    OBVIOUS
  <1>2. Whole(t, hf) /\ Keeps(s, t)
    BY <1>1, TrimSound
  <1>3. Added(t, hf, value, AddTrimmed(t, value, hf[value]))
    BY <1>2, AddTrimmedSound
  <1>4. Add(s, value, hf[value]) = AddTrimmed(t, value, hf[value])
    BY <1>1 DEF Add
  <1>5. Shape(s) /\ Shape(t)
    BY <1>2 DEF Whole, Sound
  <1> QED BY <1>2, <1>3, <1>4, <1>5, AddedAfter

LEMMA ReusedSound ==
    ASSUME NEW s, NEW hf \in HashFunctions, Whole(s, hf), NEW value \in Values,
           NEW id \in Ids(s), id < s.nextId, s.items[id].ref = 0, ~TailUsed(s)
    PROVE  Added(s, hf, value, Reused(DeleteItem(s, id), value, hf[value], id))
  <1> DEFINE h == hf[value]
  <1>1. PICK t : t = DeleteItem(s, id)
    OBVIOUS
  <1>2. /\ Sound(s, hf) /\ Shape(s) /\ s.nextId \in Nat /\ s.nextId > 0 /\ Ids(s) \subseteq Nat
        /\ 1 .. s.nextId - 1 \subseteq Ids(s)
    BY ShapeIs DEF Whole, Sound
  <1>3. DeletedFrom(s, hf, id, t) /\ ~TailUsed(t)
    BY <1>1, <1>2, DeleteSound, DeleteTail
  <1>4. /\ Sound(t, hf) /\ Shape(t) /\ Ids(t) = Ids(s) /\ t.nextId = s.nextId
        /\ t.tableCap = s.tableCap /\ ~Stored(t, id)
    BY <1>2, <1>3, ShapeIs DEF DeletedFrom, Sound
  <1>5. Keeps(s, t)
    <2> SUFFICES ASSUME NEW j \in Ids(s)
                 PROVE  /\ t.items[j].ref = s.items[j].ref
                        /\ s.items[j].ref > 0 => t.items[j].value = s.items[j].value
      BY <1>4 DEF Keeps
    <2>1. CASE j = id
      BY <1>3, <2>1 DEF DeletedFrom
    <2>2. CASE j # id
      BY <1>3, <2>2 DEF DeletedFrom
    <2> QED BY <2>1, <2>2
  <1>6. Whole(t, hf)
    <2>1. ASSUME NEW j \in Ids(t), j >= t.nextId PROVE ~Stored(t, j)
      <3>1. CASE j = id
        BY <1>4, <3>1
      <3>2. CASE j # id
        BY <1>3, <1>4, <2>1, <3>2 DEF DeletedFrom, Whole
      <3> QED BY <3>1, <3>2
    <2> QED BY <1>2, <1>4, <2>1 DEF Whole
  <1>7. Added(t, hf, value, Reused(t, value, h, id))
    <2>1. PICK there : there = Lookup(t, value, h)
      OBVIOUS
    <2>2. PICK ins : ins = Insert(t, value, h, id)
      OBVIOUS
    <2>3. Reused(t, value, h, id) = IF there # 0 THEN Born(t, there) ELSE Born(ins.set, ins.id)
      BY <2>1, <2>2, Zenon DEF Reused
    <2>4. CASE there # 0
      <3>1. there \in Ids(t) /\ t.items[there].ref > 0 /\ t.items[there].value = value
        BY <1>4, <2>1, <2>4, LookupIs
      <3>2. Added(t, hf, value, Born(t, there))
        BY <1>6, <3>1, FoundIs
      <3> QED BY <2>3, <2>4, <3>2
    <2>5. CASE there = 0
      <3>1. PICK u, c : u = ins.set /\ c = ins.id
        OBVIOUS
      <3>2. InsertedAs(t, hf, value, id, u, c)
        BY <1>3, <1>4, <2>2, <3>1, InsertSound
      <3>3. /\ Sound(u, hf) /\ u.nextId = t.nextId /\ c \in Ids(t) /\ c <= id
        BY <3>2 DEF InsertedAs
      <3>4. /\ u.nextId \in Nat /\ u.nextId >= t.nextId /\ c < u.nextId
            /\ 1 .. u.nextId - 1 \subseteq Ids(t) /\ id <= t.nextId /\ id \in Ids(t)
        BY <1>2, <1>4, <3>3
      <3>5. Added(t, hf, value, Born(u, c))
        BY <1>6, <3>2, <3>3, <3>4, BornIs
      <3> QED BY <2>3, <2>5, <3>1, <3>5
    <2> QED BY <2>4, <2>5
  <1>8. Added(s, hf, value, Reused(t, value, h, id))
    BY <1>2, <1>4, <1>5, <1>7, AddedAfter
  <1> QED BY <1>1, <1>8

LEMMA AddWithIdSound ==
    ASSUME NEW s, NEW hf \in HashFunctions, Whole(s, hf), NEW value \in Values,
           NEW id \in Nat \ {0}
    PROVE  Added(s, hf, value, AddWithId(s, value, hf[value], id))
  <1> DEFINE h == hf[value]
  <1>1. /\ Shape(s) /\ s.nextId \in Nat /\ s.items \in [Ids(s) -> Item]
        /\ 1 .. s.nextId - 1 \subseteq Ids(s)
    BY ShapeIs DEF Whole, Sound
  <1>2. CASE id >= s.nextId \/ (s.items[id].ref > 0 /\ s.items[id].value # value)
    <2>1. AddWithId(s, value, h, id) = Add(s, value, h)
      BY <1>2, Zenon DEF AddWithId
    <2> QED BY <2>1, AddSound
  <1>3. CASE ~(id >= s.nextId \/ (s.items[id].ref > 0 /\ s.items[id].value # value))
    <2>1. id \in Ids(s) /\ id < s.nextId
      BY <1>1, <1>3
    <2>2. s.items[id].ref \in Nat
      BY <1>1, <2>1 DEF Item
    <2>3. AddWithId(s, value, h, id) =
            IF s.items[id].ref > 0 THEN Found(s, id)
            ELSE IF TailUsed(s) THEN Failed(s, "OutOfMemory")
            ELSE Reused(DeleteItem(s, id), value, h, id)
      BY <1>3, Zenon DEF AddWithId
    <2>4. CASE s.items[id].ref > 0
      <3>1. Added(s, hf, value, Found(s, id))
        BY <1>3, <2>1, <2>4, FoundIs
      <3> QED BY <2>3, <2>4, <3>1
    <2>5. CASE ~(s.items[id].ref > 0) /\ TailUsed(s)
      <3>1. Added(s, hf, value, Failed(s, "OutOfMemory"))
        BY FailedIs
      <3> QED BY <2>3, <2>5, <3>1
    <2>6. CASE ~(s.items[id].ref > 0) /\ ~TailUsed(s)
      <3>1. s.items[id].ref = 0
        BY <2>2, <2>6
      <3>2. Added(s, hf, value, Reused(DeleteItem(s, id), value, h, id))
        BY <2>1, <2>6, <3>1, ReusedSound
      <3> QED BY <2>3, <2>6, <3>2
    <2> QED BY <2>4, <2>5, <2>6
  <1> QED BY <1>2, <1>3

-----------------------------------------------------------------------------
(* The users of the styles: the cells and the cursor.                      *)

CellsOf(cs, id) == {c \in Cells : cs[c] = id}
Users(cs, cur, id) == Cardinality(CellsOf(cs, id)) + (IF cur = id THEN 1 ELSE 0)

(* A user has no style and shows the default, or has one and shows it.     *)
Shows(s, id, style) ==
    IF id = 0 THEN style = Default ELSE id \in Ids(s) /\ s.items[id].value = style

Styled(s, hf, cs, sh, cur, pn) ==
    /\ Whole(s, hf) /\ cs \in [Cells -> Nat] /\ DOMAIN sh = Cells /\ cur \in Nat
    /\ \A c \in Cells : Shows(s, cs[c], sh[c])
    /\ Shows(s, cur, pn)
    /\ \A id \in Ids(s) : s.items[id].ref = Users(cs, cur, id)

LEMMA CellsFinite ==
    ASSUME NEW S, S \subseteq Cells
    PROVE  IsFiniteSet(S) /\ Cardinality(S) \in Nat
  <1>1. IsFiniteSet(Cells)
    BY CellsAssumption, FS_Interval DEF Cells
  <1> QED BY <1>1, FS_Subset, FS_CardinalityType

(* One cell takes another id, or is given another style.                   *)
With(f, c, x) == [f EXCEPT ![c] = x]

LEMMA WithIs ==
    ASSUME NEW f, NEW c \in DOMAIN f, NEW x
    PROVE  /\ DOMAIN With(f, c, x) = DOMAIN f /\ With(f, c, x)[c] = x
           /\ \A d \in DOMAIN f : d # c => With(f, c, x)[d] = f[d]
  BY DEF With

LEMMA CellsChanged ==
    ASSUME NEW cs \in [Cells -> Nat], NEW c \in Cells, NEW b \in Nat,
           NEW ds, ds = With(cs, c, b)
    PROVE  /\ ds \in [Cells -> Nat] /\ ds[c] = b /\ \A d \in Cells : d # c => ds[d] = cs[d]
           /\ \A id : Cardinality(CellsOf(ds, id)) =
                         Cardinality(CellsOf(cs, id)) - (IF cs[c] = id THEN 1 ELSE 0)
                                                      + (IF b = id THEN 1 ELSE 0)
  <1>1. ds \in [Cells -> Nat] /\ ds[c] = b /\ \A d \in Cells : d # c => ds[d] = cs[d]
    BY DEF With
  <1>2. ASSUME NEW id
        PROVE  Cardinality(CellsOf(ds, id)) =
                 Cardinality(CellsOf(cs, id)) - (IF cs[c] = id THEN 1 ELSE 0)
                                              + (IF b = id THEN 1 ELSE 0)
    <2> DEFINE A == CellsOf(cs, id)
               D == A \ {c}
    <2>2. IsFiniteSet(A) /\ Cardinality(A) \in Nat
      BY CellsFinite DEF CellsOf
    <2>3. CellsOf(ds, id) = IF b = id THEN D \cup {c} ELSE D
      BY <1>1 DEF CellsOf
    <2>4. c \in A <=> cs[c] = id
      BY DEF CellsOf
    <2>5. IsFiniteSet(D) /\ Cardinality(D) = IF c \in A THEN Cardinality(A) - 1 ELSE Cardinality(A)
      BY <2>2, FS_RemoveElement
    <2>6. Cardinality(D \cup {c}) = Cardinality(D) + 1
      <3>1. c \notin D
        OBVIOUS
      <3> HIDE DEF D
      <3> QED BY <2>5, <3>1, FS_AddElement
    <2>7. Cardinality(D) \in Nat
      BY <2>5, FS_CardinalityType
    <2> HIDE DEF A, D
    <2>8. CASE b = id /\ cs[c] = id
      BY <2>2, <2>3, <2>4, <2>5, <2>6, <2>7, <2>8 DEF A
    <2>9. CASE b = id /\ cs[c] # id
      BY <2>2, <2>3, <2>4, <2>5, <2>6, <2>7, <2>9 DEF A
    <2>10. CASE b # id /\ cs[c] = id
      BY <2>2, <2>3, <2>4, <2>5, <2>6, <2>7, <2>10 DEF A
    <2>11. CASE b # id /\ cs[c] # id
      BY <2>2, <2>3, <2>4, <2>5, <2>6, <2>7, <2>11 DEF A
    <2> QED BY <2>8, <2>9, <2>10, <2>11
  <1> QED BY <1>1, <1>2, Zenon

(* A user's style is in use.                                               *)
LEMMA UserCounts ==
    ASSUME NEW s, NEW hf, NEW cs, NEW sh, NEW cur, NEW pn, Styled(s, hf, cs, sh, cur, pn)
    PROVE  /\ \A c \in Cells : cs[c] # 0 => cs[c] \in Ids(s) /\ s.items[cs[c]].ref > 0
           /\ cur # 0 => cur \in Ids(s) /\ s.items[cur].ref > 0
           /\ \A id : Cardinality(CellsOf(cs, id)) \in Nat
  <1>1. \A id : CellsOf(cs, id) \subseteq Cells
    BY DEF CellsOf
  <1>2. \A id : IsFiniteSet(CellsOf(cs, id)) /\ Cardinality(CellsOf(cs, id)) \in Nat
    BY <1>1, CellsFinite
  <1>3. ASSUME NEW c \in Cells, cs[c] # 0 PROVE cs[c] \in Ids(s) /\ s.items[cs[c]].ref > 0
    <2>1. PICK id : id = cs[c]
      OBVIOUS
    <2>2. id \in Ids(s) /\ s.items[id].ref = Users(cs, cur, id)
      BY <1>3, <2>1 DEF Styled, Shows
    <2>3. Cardinality(CellsOf(cs, id)) # 0
      <3>1. c \in CellsOf(cs, id)
        BY <2>1 DEF CellsOf
      <3> QED BY <1>2, <3>1, FS_EmptySet
    <2>4. Users(cs, cur, id) > 0
      BY <1>2, <2>3 DEF Users
    <2> QED BY <2>1, <2>2, <2>4
  <1>4. ASSUME cur # 0 PROVE cur \in Ids(s) /\ s.items[cur].ref > 0
    <2>1. cur \in Ids(s) /\ s.items[cur].ref = Users(cs, cur, cur)
      BY <1>4 DEF Styled, Shows
    <2>2. Users(cs, cur, cur) > 0
      BY <1>2 DEF Users
    <2> QED BY <2>1, <2>2
  <1> QED BY <1>2, <1>3, <1>4

(* Used values stay, so that whoever shows one shows it still.             *)
LEMMA ShowsStill ==
    ASSUME NEW s, NEW t, Ids(t) = Ids(s), NEW id, NEW style, Shows(s, id, style),
           id # 0 => t.items[id].value = s.items[id].value
    PROVE  Shows(t, id, style)
  BY DEF Shows

(* A cell gives up its style.                                              *)
LEMMA CellReleased ==
    ASSUME NEW s, NEW hf, NEW cs, NEW sh, NEW cur, NEW pn, Styled(s, hf, cs, sh, cur, pn),
           NEW c \in Cells, NEW t, t = ReleaseOne(s, cs[c])
    PROVE  /\ Styled(t, hf, With(cs, c, 0), With(sh, c, Default), cur, pn)
           /\ t.tableCap = s.tableCap
  <1> DEFINE ds == With(cs, c, 0)
             dh == With(sh, c, Default)
  <1>1. /\ Whole(s, hf) /\ Shape(s) /\ cs \in [Cells -> Nat] /\ DOMAIN sh = Cells /\ cur \in Nat
        /\ \A d \in Cells : Shows(s, cs[d], sh[d])
        /\ Shows(s, cur, pn) /\ Ids(s) \subseteq Nat \ {0}
        /\ \A id \in Ids(s) : s.items[id].ref = Users(cs, cur, id)
    BY ShapeIs DEF Styled, Whole, Sound
  <1>2. /\ ds \in [Cells -> Nat] /\ ds[c] = 0 /\ \A d \in Cells : d # c => ds[d] = cs[d]
        /\ \A id : Cardinality(CellsOf(ds, id)) =
                     Cardinality(CellsOf(cs, id)) - (IF cs[c] = id THEN 1 ELSE 0)
                                                  + (IF 0 = id THEN 1 ELSE 0)
    <2>1. PICK b \in Nat : b = 0
      BY <1>1
    <2>2. ds = With(cs, c, b) /\ cs \in [Cells -> Nat]
      BY <1>1, <2>1
    <2> HIDE DEF ds
    <2>3. /\ ds \in [Cells -> Nat] /\ ds[c] = b /\ \A d \in Cells : d # c => ds[d] = cs[d]
          /\ \A id : Cardinality(CellsOf(ds, id)) =
                       Cardinality(CellsOf(cs, id)) - (IF cs[c] = id THEN 1 ELSE 0)
                                                    + (IF b = id THEN 1 ELSE 0)
      BY <2>2, CellsChanged
    <2> QED BY <2>1, <2>3
  <1>3. DOMAIN dh = Cells /\ dh[c] = Default /\ \A d \in Cells : d # c => dh[d] = sh[d]
    BY <1>1, WithIs
  <1>4. /\ \A d \in Cells : cs[d] # 0 => cs[d] \in Ids(s) /\ s.items[cs[d]].ref > 0
        /\ cur # 0 => cur \in Ids(s) /\ s.items[cur].ref > 0
        /\ \A id : Cardinality(CellsOf(cs, id)) \in Nat
    BY UserCounts
  <1> HIDE DEF ds, dh
  <1>5. /\ Whole(t, hf) /\ t.tableCap = s.tableCap
        /\ \A id \in Ids(s) : /\ t.items[id].value = s.items[id].value
                              /\ t.items[id].ref = s.items[id].ref - (IF cs[c] = id THEN 1 ELSE 0)
    <2>1. CASE cs[c] = 0
      <3>1. t = s
        BY <2>1 DEF ReleaseOne
      <3>2. \A id \in Ids(s) : id # cs[c] /\ s.items[id].ref \in Int
        BY <1>1, <1>4, <2>1 DEF Users
      <3>3. \A id \in Ids(s) : s.items[id].ref = s.items[id].ref - (IF cs[c] = id THEN 1 ELSE 0)
        BY <3>2
      <3> QED BY <1>1, <3>1, <3>3
    <2>2. CASE cs[c] # 0
      <3>1. PICK a : a = cs[c]
        OBVIOUS
      <3>2. a \in Ids(s) /\ s.items[a].ref > 0 /\ t = Release(s, a, 1)
        BY <1>4, <2>2, <3>1 DEF ReleaseOne
      <3>3. /\ Whole(t, hf) /\ t.tableCap = s.tableCap
            /\ t.items[a].ref = s.items[a].ref - 1 /\ t.items[a].value = s.items[a].value
            /\ \A j \in Ids(s) : j # a => t.items[j] = s.items[j]
        BY <1>1, <3>2, ReleaseIs
      <3>4. ASSUME NEW id \in Ids(s)
            PROVE  /\ t.items[id].value = s.items[id].value
                   /\ t.items[id].ref = s.items[id].ref - (IF a = id THEN 1 ELSE 0)
        <4>1. s.items[id].ref \in Int
          BY <1>1, <1>4 DEF Users
        <4>2. CASE id = a
          BY <3>3, <4>2
        <4>3. CASE id # a
          BY <3>3, <4>1, <4>3
        <4> QED BY <4>2, <4>3
      <3> QED BY <3>1, <3>3, <3>4
    <2> QED BY <2>1, <2>2
  <1>6. Ids(t) = Ids(s)
    BY <1>1, <1>5, ShapeIs DEF Whole, Sound
  <1>7. ASSUME NEW d \in Cells PROVE Shows(t, ds[d], dh[d])
    <2>1. CASE d = c
      BY <1>2, <1>3, <2>1 DEF Shows
    <2>2. CASE d # c
      <3>1. cs[d] # 0 => t.items[cs[d]].value = s.items[cs[d]].value
        BY <1>4, <1>5
      <3>2. Shows(t, cs[d], sh[d])
        BY <1>1, <1>6, <3>1, ShowsStill
      <3> QED BY <1>2, <1>3, <2>2, <3>2
    <2> QED BY <2>1, <2>2
  <1>8. Shows(t, cur, pn)
    <2>1. cur # 0 => t.items[cur].value = s.items[cur].value
      BY <1>4, <1>5
    <2> QED BY <1>1, <1>6, <2>1, ShowsStill
  <1>9. ASSUME NEW id \in Ids(t) PROVE t.items[id].ref = Users(ds, cur, id)
    <2>1. id # 0 /\ id \in Ids(s) /\ Cardinality(CellsOf(cs, id)) \in Nat
      BY <1>1, <1>4, <1>6
    <2>2. t.items[id].ref = Users(cs, cur, id) - (IF cs[c] = id THEN 1 ELSE 0)
      BY <1>1, <1>5, <2>1
    <2>3. Cardinality(CellsOf(ds, id)) =
            Cardinality(CellsOf(cs, id)) - (IF cs[c] = id THEN 1 ELSE 0)
      BY <1>2, <2>1
    <2> QED BY <2>1, <2>2, <2>3 DEF Users
  <1>10. Styled(t, hf, ds, dh, cur, pn)
    BY <1>1, <1>2, <1>3, <1>5, <1>7, <1>8, <1>9 DEF Styled
  <1> QED BY <1>5, <1>10 DEF ds, dh

(* So does the cursor.                                                     *)
LEMMA CursorReleased ==
    ASSUME NEW s, NEW hf, NEW cs, NEW sh, NEW cur, NEW pn, Styled(s, hf, cs, sh, cur, pn),
           NEW t, t = ReleaseOne(s, cur)
    PROVE  Styled(t, hf, cs, sh, 0, Default) /\ t.tableCap = s.tableCap
  <1>1. /\ Whole(s, hf) /\ Shape(s) /\ cs \in [Cells -> Nat] /\ DOMAIN sh = Cells /\ cur \in Nat
        /\ \A d \in Cells : Shows(s, cs[d], sh[d])
        /\ Shows(s, cur, pn) /\ Ids(s) \subseteq Nat \ {0}
        /\ \A id \in Ids(s) : s.items[id].ref = Users(cs, cur, id)
    BY ShapeIs DEF Styled, Whole, Sound
  <1>2. /\ \A d \in Cells : cs[d] # 0 => cs[d] \in Ids(s) /\ s.items[cs[d]].ref > 0
        /\ cur # 0 => cur \in Ids(s) /\ s.items[cur].ref > 0
        /\ \A id : Cardinality(CellsOf(cs, id)) \in Nat
    BY UserCounts
  <1>3. /\ Whole(t, hf) /\ t.tableCap = s.tableCap
        /\ \A id \in Ids(s) : /\ t.items[id].value = s.items[id].value
                              /\ t.items[id].ref = Users(cs, 0, id)
    <2>1. CASE cur = 0
      <3>1. t = s
        BY <2>1 DEF ReleaseOne
      <3> QED BY <1>1, <2>1, <3>1
    <2>2. CASE cur # 0
      <3>1. cur \in Ids(s) /\ s.items[cur].ref > 0 /\ t = Release(s, cur, 1)
        BY <1>2, <2>2 DEF ReleaseOne
      <3>2. /\ Whole(t, hf) /\ t.tableCap = s.tableCap
            /\ t.items[cur].ref = s.items[cur].ref - 1 /\ t.items[cur].value = s.items[cur].value
            /\ \A j \in Ids(s) : j # cur => t.items[j] = s.items[j]
        BY <1>1, <3>1, ReleaseIs
      <3>3. ASSUME NEW id \in Ids(s)
            PROVE  /\ t.items[id].value = s.items[id].value
                   /\ t.items[id].ref = Users(cs, 0, id)
        <4>1. id # 0 /\ Cardinality(CellsOf(cs, id)) \in Nat /\ s.items[id].ref = Users(cs, cur, id)
          BY <1>1, <1>2
        <4>2. CASE id = cur
          BY <3>2, <4>1, <4>2 DEF Users
        <4>3. CASE id # cur
          BY <3>2, <4>1, <4>3 DEF Users
        <4> QED BY <4>2, <4>3
      <3> QED BY <3>2, <3>3
    <2> QED BY <2>1, <2>2
  <1>4. Ids(t) = Ids(s)
    BY <1>1, <1>3, ShapeIs DEF Whole, Sound
  <1>5. ASSUME NEW d \in Cells PROVE Shows(t, cs[d], sh[d])
    <2>1. cs[d] # 0 => t.items[cs[d]].value = s.items[cs[d]].value
      BY <1>2, <1>3
    <2> QED BY <1>1, <1>4, <2>1, ShowsStill
  <1>6. Shows(t, 0, Default)
    BY DEF Shows
  <1> QED BY <1>1, <1>3, <1>4, <1>5, <1>6 DEF Styled

(* A cell without style takes the cursor's.                                *)
LEMMA CellTakes ==
    ASSUME NEW s, NEW hf, NEW cs, NEW sh, NEW cur, NEW pn, Styled(s, hf, cs, sh, cur, pn),
           NEW c \in Cells, cs[c] = 0, NEW t, t = UseOne(s, cur)
    PROVE  Styled(t, hf, With(cs, c, cur), With(sh, c, pn), cur, pn)
  <1> DEFINE ds == With(cs, c, cur)
             dh == With(sh, c, pn)
  <1>1. /\ Whole(s, hf) /\ Shape(s) /\ cs \in [Cells -> Nat] /\ DOMAIN sh = Cells /\ cur \in Nat
        /\ \A d \in Cells : Shows(s, cs[d], sh[d])
        /\ Shows(s, cur, pn) /\ Ids(s) \subseteq Nat \ {0}
        /\ \A id \in Ids(s) : s.items[id].ref = Users(cs, cur, id)
    BY ShapeIs DEF Styled, Whole, Sound
  <1>2. /\ ds \in [Cells -> Nat] /\ ds[c] = cur /\ \A d \in Cells : d # c => ds[d] = cs[d]
        /\ \A id : Cardinality(CellsOf(ds, id)) =
                     Cardinality(CellsOf(cs, id)) - (IF cs[c] = id THEN 1 ELSE 0)
                                                  + (IF cur = id THEN 1 ELSE 0)
    <2>1. PICK b \in Nat : b = cur
      BY <1>1
    <2>2. ds = With(cs, c, b) /\ cs \in [Cells -> Nat]
      BY <1>1, <2>1
    <2> HIDE DEF ds
    <2>3. /\ ds \in [Cells -> Nat] /\ ds[c] = b /\ \A d \in Cells : d # c => ds[d] = cs[d]
          /\ \A id : Cardinality(CellsOf(ds, id)) =
                       Cardinality(CellsOf(cs, id)) - (IF cs[c] = id THEN 1 ELSE 0)
                                                    + (IF b = id THEN 1 ELSE 0)
      BY <2>2, CellsChanged
    <2> QED BY <2>1, <2>3
  <1>3. DOMAIN dh = Cells /\ dh[c] = pn /\ \A d \in Cells : d # c => dh[d] = sh[d]
    BY <1>1, WithIs
  <1>4. /\ \A d \in Cells : cs[d] # 0 => cs[d] \in Ids(s) /\ s.items[cs[d]].ref > 0
        /\ cur # 0 => cur \in Ids(s) /\ s.items[cur].ref > 0
        /\ \A id : Cardinality(CellsOf(cs, id)) \in Nat
    BY UserCounts
  <1> HIDE DEF ds, dh
  <1>5. /\ Whole(t, hf) /\ t.tableCap = s.tableCap
        /\ \A id \in Ids(s) : /\ t.items[id].value = s.items[id].value
                              /\ t.items[id].ref = s.items[id].ref + (IF cur = id THEN 1 ELSE 0)
    <2>0. \A id \in Ids(s) : s.items[id].ref \in Int /\ id # 0
      BY <1>1, <1>4 DEF Users
    <2>1. CASE cur = 0
      <3>1. t = s
        BY <2>1 DEF UseOne
      <3>2. \A id \in Ids(s) : s.items[id].ref = s.items[id].ref + (IF cur = id THEN 1 ELSE 0)
        BY <2>0, <2>1
      <3> QED BY <1>1, <3>1, <3>2
    <2>2. CASE cur # 0
      <3>1. cur \in Ids(s) /\ s.items[cur].ref > 0 /\ t = Use(s, cur)
        BY <1>4, <2>2 DEF UseOne
      <3>2. Stored(s, cur)
        BY <1>1, <3>1, UsedIs
      <3>3. /\ Whole(t, hf) /\ t.tableCap = s.tableCap
            /\ t.items[cur].ref = s.items[cur].ref + 1 /\ t.items[cur].value = s.items[cur].value
            /\ \A j \in Ids(s) : j # cur => t.items[j] = s.items[j]
        BY <1>1, <3>1, <3>2, UseOnlyIs
      <3>4. ASSUME NEW id \in Ids(s)
            PROVE  /\ t.items[id].value = s.items[id].value
                   /\ t.items[id].ref = s.items[id].ref + (IF cur = id THEN 1 ELSE 0)
        <4>1. CASE id = cur
          BY <3>3, <4>1
        <4>2. CASE id # cur
          BY <2>0, <3>3, <4>2
        <4> QED BY <4>1, <4>2
      <3> QED BY <3>3, <3>4
    <2> QED BY <2>1, <2>2
  <1>6. Ids(t) = Ids(s)
    BY <1>1, <1>5, ShapeIs DEF Whole, Sound
  <1>7. Shows(t, cur, pn)
    <2>1. cur # 0 => t.items[cur].value = s.items[cur].value
      BY <1>4, <1>5
    <2> QED BY <1>1, <1>6, <2>1, ShowsStill
  <1>8. ASSUME NEW d \in Cells PROVE Shows(t, ds[d], dh[d])
    <2>1. CASE d = c
      BY <1>2, <1>3, <1>7, <2>1
    <2>2. CASE d # c
      <3>1. cs[d] # 0 => t.items[cs[d]].value = s.items[cs[d]].value
        BY <1>4, <1>5
      <3>2. Shows(t, cs[d], sh[d])
        BY <1>1, <1>6, <3>1, ShowsStill
      <3> QED BY <1>2, <1>3, <2>2, <3>2
    <2> QED BY <2>1, <2>2
  <1>9. ASSUME NEW id \in Ids(t) PROVE t.items[id].ref = Users(ds, cur, id)
    <2>1. id # 0 /\ id \in Ids(s) /\ Cardinality(CellsOf(cs, id)) \in Nat
      BY <1>1, <1>4, <1>6
    <2>2. t.items[id].ref = Users(cs, cur, id) + (IF cur = id THEN 1 ELSE 0)
      BY <1>1, <1>5, <2>1
    <2>3. Cardinality(CellsOf(ds, id)) =
            Cardinality(CellsOf(cs, id)) + (IF cur = id THEN 1 ELSE 0)
      BY <1>2, <2>1
    <2> QED BY <2>1, <2>2, <2>3 DEF Users
  <1>10. Styled(t, hf, ds, dh, cur, pn)
    BY <1>1, <1>2, <1>3, <1>5, <1>7, <1>8, <1>9 DEF Styled
  <1> QED BY <1>10 DEF ds, dh

(* What adding a value changes for the users there are: nothing.           *)
LEMMA AddedKeeps ==
    ASSUME NEW s, NEW hf, NEW cs, NEW sh, NEW cur, NEW pn, Styled(s, hf, cs, sh, cur, pn),
           NEW v, NEW added, Added(s, hf, v, added), NEW t, t = added.set,
           NEW a, a = added.id, NEW w, w = IF added.error = "none" THEN v ELSE Default
    PROVE  /\ Whole(t, hf) /\ t.tableCap = s.tableCap /\ Ids(t) = Ids(s) /\ a \in Nat
           /\ \A c \in Cells : Shows(t, cs[c], sh[c])
           /\ Shows(t, cur, pn) /\ Shows(t, a, w)
           /\ \A id \in Ids(s) : /\ t.items[id].ref = s.items[id].ref + (IF a = id THEN 1 ELSE 0)
                                 /\ s.items[id].ref \in Nat /\ id # 0
  <1>1. /\ Whole(s, hf) /\ Shape(s)
        /\ \A d \in Cells : Shows(s, cs[d], sh[d])
        /\ Shows(s, cur, pn) /\ Ids(s) \subseteq Nat \ {0} /\ s.items \in [Ids(s) -> Item]
    BY ShapeIs DEF Styled, Whole, Sound
  <1>2. /\ \A d \in Cells : cs[d] # 0 => cs[d] \in Ids(s) /\ s.items[cs[d]].ref > 0
        /\ cur # 0 => cur \in Ids(s) /\ s.items[cur].ref > 0
    BY UserCounts
  <1>3. /\ Whole(t, hf) /\ t.tableCap = s.tableCap
        /\ \A j \in Ids(s) : /\ j # a => t.items[j].ref = s.items[j].ref
                             /\ s.items[j].ref > 0 => t.items[j].value = s.items[j].value
        /\ IF added.error = "none"
           THEN /\ a \in Ids(s) /\ t.items[a].value = v
                /\ t.items[a].ref = s.items[a].ref + 1
           ELSE a = 0
    BY DEF Added
  <1>4. Ids(t) = Ids(s)
    BY <1>1, <1>3, ShapeIs DEF Whole, Sound
  <1>5. a \in Nat /\ Shows(t, a, w)
    BY <1>1, <1>3, <1>4 DEF Shows
  <1>6. ASSUME NEW d \in Cells PROVE Shows(t, cs[d], sh[d])
    <2>1. cs[d] # 0 => t.items[cs[d]].value = s.items[cs[d]].value
      BY <1>2, <1>3
    <2> QED BY <1>1, <1>4, <2>1, ShowsStill
  <1>7. Shows(t, cur, pn)
    <2>1. cur # 0 => t.items[cur].value = s.items[cur].value
      BY <1>2, <1>3
    <2> QED BY <1>1, <1>4, <2>1, ShowsStill
  <1>8. ASSUME NEW id \in Ids(s)
        PROVE  /\ t.items[id].ref = s.items[id].ref + (IF a = id THEN 1 ELSE 0)
               /\ s.items[id].ref \in Nat /\ id # 0
    <2>1. s.items[id].ref \in Nat /\ id # 0
      <3>1. s.items[id] \in Item
        BY <1>1
      <3> QED BY <1>1, <3>1 DEF Item
    <2>2. CASE a = id
      BY <1>3, <2>1, <2>2
    <2>3. CASE a # id
      BY <1>3, <2>1, <2>3
    <2> QED BY <2>1, <2>2, <2>3
  <1> QED BY <1>3, <1>4, <1>5, <1>6, <1>7, <1>8

(* A cell without style is given one.                                      *)
LEMMA CellAdded ==
    ASSUME NEW s, NEW hf, NEW cs, NEW sh, NEW cur, NEW pn, Styled(s, hf, cs, sh, cur, pn),
           NEW c \in Cells, cs[c] = 0,
           NEW v, NEW added, Added(s, hf, v, added), NEW t, t = added.set,
           NEW a, a = added.id, NEW w, w = IF added.error = "none" THEN v ELSE Default
    PROVE  Styled(t, hf, With(cs, c, a), With(sh, c, w), cur, pn) /\ t.tableCap = s.tableCap
  <1> DEFINE ds == With(cs, c, a)
             dh == With(sh, c, w)
  <1>1. /\ cs \in [Cells -> Nat] /\ DOMAIN sh = Cells /\ cur \in Nat
        /\ \A id \in Ids(s) : s.items[id].ref = Users(cs, cur, id)
    BY DEF Styled
  <1>2. /\ Whole(t, hf) /\ t.tableCap = s.tableCap /\ Ids(t) = Ids(s) /\ a \in Nat
        /\ \A d \in Cells : Shows(t, cs[d], sh[d])
        /\ Shows(t, cur, pn) /\ Shows(t, a, w)
        /\ \A id \in Ids(s) : /\ t.items[id].ref = s.items[id].ref + (IF a = id THEN 1 ELSE 0)
                              /\ s.items[id].ref \in Nat /\ id # 0
    BY AddedKeeps
  <1>3. /\ ds \in [Cells -> Nat] /\ ds[c] = a /\ \A d \in Cells : d # c => ds[d] = cs[d]
        /\ \A id : Cardinality(CellsOf(ds, id)) =
                     Cardinality(CellsOf(cs, id)) - (IF cs[c] = id THEN 1 ELSE 0)
                                                  + (IF a = id THEN 1 ELSE 0)
    <2>1. PICK b \in Nat : b = a
      BY <1>2
    <2>2. ds = With(cs, c, b) /\ cs \in [Cells -> Nat]
      BY <1>1, <2>1
    <2> HIDE DEF ds
    <2>3. /\ ds \in [Cells -> Nat] /\ ds[c] = b /\ \A d \in Cells : d # c => ds[d] = cs[d]
          /\ \A id : Cardinality(CellsOf(ds, id)) =
                       Cardinality(CellsOf(cs, id)) - (IF cs[c] = id THEN 1 ELSE 0)
                                                    + (IF b = id THEN 1 ELSE 0)
      BY <2>2, CellsChanged
    <2> QED BY <2>1, <2>3
  <1>4. DOMAIN dh = Cells /\ dh[c] = w /\ \A d \in Cells : d # c => dh[d] = sh[d]
    BY <1>1, WithIs
  <1>5. \A id : Cardinality(CellsOf(cs, id)) \in Nat
    BY UserCounts
  <1> HIDE DEF ds, dh
  <1>6. ASSUME NEW d \in Cells PROVE Shows(t, ds[d], dh[d])
    <2>1. CASE d = c
      BY <1>2, <1>3, <1>4, <2>1
    <2>2. CASE d # c
      BY <1>2, <1>3, <1>4, <2>2
    <2> QED BY <2>1, <2>2
  <1>7. ASSUME NEW id \in Ids(t) PROVE t.items[id].ref = Users(ds, cur, id)
    <2>1. id # 0 /\ id \in Ids(s) /\ Cardinality(CellsOf(cs, id)) \in Nat
      BY <1>2, <1>5
    <2>2. t.items[id].ref = Users(cs, cur, id) + (IF a = id THEN 1 ELSE 0)
      BY <1>1, <1>2, <2>1
    <2>3. Cardinality(CellsOf(ds, id)) = Cardinality(CellsOf(cs, id)) + (IF a = id THEN 1 ELSE 0)
      BY <1>3, <2>1
    <2> QED BY <2>1, <2>2, <2>3 DEF Users
  <1>8. Styled(t, hf, ds, dh, cur, pn)
    BY <1>1, <1>2, <1>3, <1>4, <1>6, <1>7 DEF Styled
  <1> QED BY <1>2, <1>8 DEF ds, dh

(* The cursor without style is given one.                                  *)
LEMMA CursorAdded ==
    ASSUME NEW s, NEW hf, NEW cs, NEW sh, Styled(s, hf, cs, sh, 0, Default),
           NEW v, NEW added, Added(s, hf, v, added), NEW t, t = added.set,
           NEW a, a = added.id, NEW w, w = IF added.error = "none" THEN v ELSE Default
    PROVE  Styled(t, hf, cs, sh, a, w)
  <1>1. /\ cs \in [Cells -> Nat] /\ DOMAIN sh = Cells
        /\ \A id \in Ids(s) : s.items[id].ref = Users(cs, 0, id)
    BY DEF Styled
  <1>2. /\ Whole(t, hf) /\ Ids(t) = Ids(s) /\ a \in Nat
        /\ \A d \in Cells : Shows(t, cs[d], sh[d])
        /\ Shows(t, a, w)
        /\ \A id \in Ids(s) : /\ t.items[id].ref = s.items[id].ref + (IF a = id THEN 1 ELSE 0)
                              /\ s.items[id].ref \in Nat /\ id # 0
    BY AddedKeeps
  <1>3. \A id : Cardinality(CellsOf(cs, id)) \in Nat
    BY UserCounts
  <1>4. ASSUME NEW id \in Ids(t) PROVE t.items[id].ref = Users(cs, a, id)
    <2>1. id # 0 /\ id \in Ids(s) /\ Cardinality(CellsOf(cs, id)) \in Nat
      BY <1>2, <1>3
    <2>2. t.items[id].ref = Users(cs, 0, id) + (IF a = id THEN 1 ELSE 0)
      BY <1>1, <1>2, <2>1
    <2> QED BY <2>1, <2>2 DEF Users
  <1> QED BY <1>1, <1>2, <1>4 DEF Styled

(* The set of a new page: no items, no users.                              *)
LEMMA EmptySetWhole ==
    ASSUME NEW n \in Nat, NEW hf, NEW s, s = EmptySet(n)
    PROVE  /\ Whole(s, hf) /\ s.tableCap = n
           /\ \A id \in Ids(s) : s.items[id].ref = 0
  <1> DEFINE table == [b \in 0 .. n - 1 |-> 0]
             items == [id \in 1 .. ItemsCap(n) - 1 |-> EmptyItem]
             stats == [psl \in 0 .. PslLen - 1 |-> 0]
  <1>1. /\ table \in [0 .. n - 1 -> Nat] /\ items \in [1 .. ItemsCap(n) - 1 -> Item]
        /\ stats \in [0 .. PslLen - 1 -> Int]
        /\ \A b \in 0 .. n - 1 : table[b] = 0
        /\ \A id \in 1 .. ItemsCap(n) - 1 : items[id] = EmptyItem
        /\ \A q \in 0 .. PslLen - 1 : stats[q] = 0
    BY EmptyIs
  <1>2. s = [tableCap |-> n, table |-> table, items |-> items, stats |-> stats,
             maxPsl |-> 0, living |-> 0, nextId |-> 1]
    BY DEF EmptySet
  <1>3. DOMAIN items = 1 .. ItemsCap(n) - 1
    OBVIOUS
  <1> HIDE DEF table, items, stats
  <1>4. /\ s.tableCap = n /\ s.table = table /\ s.items = items /\ s.stats = stats
        /\ s.nextId = 1 /\ Ids(s) = 1 .. ItemsCap(n) - 1
    BY <1>2, <1>3 DEF Ids
  <1>5. Shape(s)
    <2>1. 0 \in 0 .. PslLen - 1
      BY CapacityAssumption
    <2>2. table \in [Buckets(s) -> Nat] /\ items \in [1 .. ItemsCap(s.tableCap) - 1 -> Item]
      BY <1>1, <1>4 DEF Buckets
    <2> QED BY <1>1, <1>2, <2>1, <2>2 DEF Shape
  <1>6. \A id \in Ids(s) : s.items[id] = EmptyItem /\ ~Stored(s, id)
    BY <1>1, <1>4, EmptyIs DEF Stored
  <1>7. StatsOK(s)
    <2>1. \A q : AtPsl(s, q) = {}
      BY <1>6 DEF AtPsl
    <2> QED BY <1>1, <1>4, <2>1, FS_EmptySet DEF StatsOK
  <1>8. ItemsOK(s, hf) /\ \A b \in Buckets(s) : Refers(s, b)
    BY <1>1, <1>4, <1>6 DEF ItemsOK, Refers, Buckets
  <1>9. 1 .. s.nextId - 1 = {} /\ s.nextId > 0
    BY <1>4
  <1> QED BY <1>4, <1>5, <1>6, <1>7, <1>8, <1>9, EmptyIs DEF Whole, Sound

(* A page whose cells and cursor have no style.                            *)
LEMMA EmptyStyled ==
    ASSUME NEW n \in Nat, NEW hf, NEW s, s = EmptySet(n),
           NEW cs, cs = [c \in Cells |-> 0], NEW sh, sh = [c \in Cells |-> Default]
    PROVE  Styled(s, hf, cs, sh, 0, Default) /\ s.tableCap = n
  <1>1. /\ Whole(s, hf) /\ s.tableCap = n /\ Shape(s)
        /\ \A id \in Ids(s) : s.items[id].ref = 0 /\ id # 0
    BY EmptySetWhole, ShapeIs DEF Whole, Sound
  <1>2. cs \in [Cells -> Nat] /\ DOMAIN sh = Cells /\ \A c \in Cells : Shows(s, cs[c], sh[c])
    BY DEF Shows
  <1>3. ASSUME NEW id \in Ids(s) PROVE s.items[id].ref = Users(cs, 0, id)
    <2>1. CellsOf(cs, id) = {}
      BY <1>1 DEF CellsOf
    <2>2. Cardinality(CellsOf(cs, id)) = 0
      BY <2>1, FS_EmptySet
    <2> QED BY <1>1, <2>2 DEF Users
  <1>4. Shows(s, 0, Default)
    BY DEF Shows
  <1> QED BY <1>1, <1>2, <1>3, <1>4 DEF Styled


-----------------------------------------------------------------------------
(* Cloning: after k cells the new page holds what those cells showed, and  *)
(* the others still have their ids of the old one.                         *)
Upto(k, f, none) == [c \in Cells |-> IF c <= k THEN f[c] ELSE none]

Cloning(given, x) ==
    LET acc == x[2]
    IN  /\ acc = [source |-> given.from, set |-> acc.set, ids |-> acc.ids, failed |-> acc.failed]
        /\ acc.ids \in [Cells -> Nat]
        /\ \A c \in Cells : c > x[1] => acc.ids[c] = given.cells[c]
        /\ \/ acc.failed
           \/ /\ acc.failed = FALSE
              /\ Styled(acc.set, given.hf, Upto(x[1], acc.ids, 0),
                        Upto(x[1], given.shown, Default), 0, Default)

Clones == INSTANCE FoldFacts WITH Step <- CopyOn, Inv <- Cloning

LEMMA CloneFolds == \A base, order : FoldLeft(CopyOn, base, order) = Clones!Fold(base, order)
  BY Zenon DEF FoldLeft, Clones!FoldLeft, MapThenFoldSet, Clones!MapThenFoldSet,
     Max, Clones!Max, Clones!Fold

(* A cell that keeps no style is passed over.                              *)
LEMMA UptoSame ==
    ASSUME NEW f, NEW none, NEW k \in Cells, f[k] = none
    PROVE  Upto(k, f, none) = Upto(k - 1, f, none)
  <1>1. CellCount \in Nat
    BY CellsAssumption
  <1>2. ASSUME NEW c \in Cells
        PROVE  (IF c <= k THEN f[c] ELSE none) = (IF c <= k - 1 THEN f[c] ELSE none)
    BY <1>1 DEF Cells
  <1> QED BY <1>2 DEF Upto

(* A cell that is given one comes next.                                    *)
LEMMA UptoWith ==
    ASSUME NEW f, NEW g, NEW none, NEW k \in Cells, NEW x, g[k] = x,
           \A c \in Cells : c # k => g[c] = f[c]
    PROVE  /\ With(Upto(k - 1, f, none), k, x) = Upto(k, g, none)
           /\ Upto(k - 1, f, none)[k] = none
  <1>1. CellCount \in Nat
    BY CellsAssumption
  <1>2. \A c \in Cells : (c <= k <=> c = k \/ c <= k - 1) /\ ~(k <= k - 1)
    BY <1>1 DEF Cells
  <1>3. Upto(k - 1, f, none)[k] = none
    BY <1>2 DEF Upto
  <1>4. With(Upto(k - 1, f, none), k, x) =
          [c \in Cells |-> IF c = k THEN x ELSE IF c <= k - 1 THEN f[c] ELSE none]
    BY DEF With, Upto
  <1>5. ASSUME NEW c \in Cells
        PROVE  (IF c = k THEN x ELSE IF c <= k - 1 THEN f[c] ELSE none) =
                 (IF c <= k THEN g[c] ELSE none)
    BY <1>2
  <1>6. Upto(k, g, none) =
          [c \in Cells |-> IF c = k THEN x ELSE IF c <= k - 1 THEN f[c] ELSE none]
    BY <1>5 DEF Upto
  <1> QED BY <1>3, <1>4, <1>6

(* One cell is copied.                                                     *)
LEMMA CopyOnKeeps ==
    ASSUME NEW given, given.hf = hash, hash \in HashFunctions,
           Styled(given.from, hash, given.cells, given.shown, 0, Default),
           NEW k \in Cells, NEW acc, Cloning(given, <<k - 1, acc>>)
    PROVE  Cloning(given, <<k, CopyOn(acc, k)>>)
  <1> DEFINE s == given.from
             cs == given.cells
             sh == given.shown
             ids == acc.ids
  <1>1. /\ acc = [source |-> s, set |-> acc.set, ids |-> ids, failed |-> acc.failed]
        /\ ids \in [Cells -> Nat]
        /\ \A c \in Cells : c > k - 1 => ids[c] = cs[c]
        /\ \/ acc.failed
           \/ /\ acc.failed = FALSE
              /\ Styled(acc.set, hash, Upto(k - 1, ids, 0), Upto(k - 1, sh, Default), 0, Default)
    BY DEF Cloning
  <1>2. /\ CellCount \in Nat /\ Cells \subseteq Int /\ k > k - 1
        /\ \A c \in Cells : c > k => c > k - 1
    BY CellsAssumption DEF Cells
  <1>3. ids[k] = cs[k]
    BY <1>1, <1>2
  <1>4. CASE acc.failed
    <2>1. CopyOn(acc, k) = acc
      BY <1>4 DEF CopyOn
    <2>2. <<k, acc>>[1] = k /\ <<k, acc>>[2] = acc
      OBVIOUS
    <2> QED BY <1>1, <1>2, <1>4, <2>1, <2>2 DEF Cloning
  <1>5. CASE ~acc.failed /\ ids[k] = 0
    <2>1. CopyOn(acc, k) = acc
      BY <1>5 DEF CopyOn
    <2>2. <<k, acc>>[1] = k /\ <<k, acc>>[2] = acc
      OBVIOUS
    <2>3. sh[k] = Default
      BY <1>3, <1>5 DEF Styled, Shows
    <2>4. Upto(k, ids, 0) = Upto(k - 1, ids, 0) /\ Upto(k, sh, Default) = Upto(k - 1, sh, Default)
      BY <1>5, <2>3, UptoSame
    <2> QED BY <1>1, <1>2, <1>5, <2>1, <2>2, <2>4 DEF Cloning
  <1>6. CASE ~acc.failed /\ ids[k] # 0
    <2>1. PICK a, v, u, added : /\ a = ids[k] /\ v = s.items[a].value /\ u = acc.set
                                /\ added = AddAs(u, v, a)
      OBVIOUS
    <2>2. PICK b, w, us, ss : /\ b = added.id /\ w = (IF added.error = "none" THEN v ELSE Default)
                              /\ us = Upto(k - 1, ids, 0) /\ ss = Upto(k - 1, sh, Default)
      OBVIOUS
    <2>3. a \in Ids(s) /\ s.items[a].ref > 0 /\ a # 0
      BY <1>3, <1>6, <2>1, UserCounts
    <2>4. a \in Nat \ {0} /\ v \in Values /\ v = sh[k]
      <3>1. Whole(s, hash) /\ Shows(s, a, sh[k])
        BY <1>3, <2>1 DEF Styled
      <3>2. v \in Values
        BY <2>1, <2>3, <3>1, UsedIs
      <3> QED BY <1>1, <2>1, <2>3, <3>1, <3>2 DEF Shows
    <2>5. Styled(u, hash, us, ss, 0, Default)
      BY <1>1, <1>6, <2>1, <2>2
    <2>6. Added(u, hash, v, added)
      <3>1. Whole(u, hash)
        BY <2>5 DEF Styled
      <3>2. Added(u, hash, v, AddWithId(u, v, hash[v], a))
        BY <2>4, <3>1, AddWithIdSound
      <3> QED BY <2>1, <3>2 DEF AddAs
    <2>7. us[k] = 0
      <3>1. ~(k <= k - 1)
        BY <1>2
      <3> QED BY <2>2, <3>1 DEF Upto
    <2>8. PICK t : t = added.set
      OBVIOUS
    <2>9. /\ Styled(t, hash, With(us, k, b), With(ss, k, w), 0, Default)
          /\ b \in Nat
      <3>1. Styled(t, hash, With(us, k, b), With(ss, k, w), 0, Default)
        BY <2>2, <2>5, <2>6, <2>7, <2>8, CellAdded
      <3>2. b \in Nat
        BY <2>2, <2>5, <2>6, <2>8, AddedKeeps
      <3> QED BY <3>1, <3>2
    <2>10. PICK new : new = CopyOn(acc, k)
      OBVIOUS
    <2>11. new = [source |-> s, set |-> t, ids |-> With(ids, k, b),
                  failed |-> added.error # "none"]
      <3>1. new = Copied(acc, added, k)
        BY <1>1, <1>6, <2>1, <2>10 DEF CopyOn
      <3>2. PICK x, f : x = acc.set /\ f = acc.failed
        OBVIOUS
      <3>3. acc = [source |-> s, set |-> x, ids |-> ids, failed |-> f]
        BY <1>1, <3>2
      <3> HIDE DEF s, ids
      <3> QED BY <2>2, <2>8, <3>1, <3>3 DEF Copied, With
    <2>12. /\ With(ids, k, b) \in [Cells -> Nat] /\ With(ids, k, b)[k] = b
           /\ \A c \in Cells : c # k => With(ids, k, b)[c] = ids[c]
      BY <1>1, <2>9 DEF With
    <2>13. \A c \in Cells : c > k => With(ids, k, b)[c] = cs[c]
      BY <1>1, <1>2, <2>12
    <2>14. With(us, k, b) = Upto(k, With(ids, k, b), 0)
      BY <2>2, <2>12, UptoWith
    <2>15. ~(added.error # "none") => With(ss, k, w) = Upto(k, sh, Default)
      BY <2>2, <2>4, UptoWith
    <2>16. <<k, new>>[1] = k /\ <<k, new>>[2] = new
      OBVIOUS
    <2>17. Cloning(given, <<k, new>>)
      <3>1. /\ new.set = t /\ new.ids = With(ids, k, b) /\ new.failed = (added.error # "none")
            /\ new = [source |-> s, set |-> new.set, ids |-> new.ids, failed |-> new.failed]
        BY <2>11
      <3>2. \/ new.failed
            \/ /\ new.failed = FALSE
               /\ Styled(new.set, hash, Upto(k, new.ids, 0), Upto(k, sh, Default), 0, Default)
        BY <2>9, <2>14, <2>15, <3>1
      <3> QED BY <2>12, <2>13, <2>16, <3>1, <3>2 DEF Cloning
    <2> QED BY <2>10, <2>17
  <1> QED BY <1>4, <1>5, <1>6

(* What cells show is what matters of it.                                  *)
LEMMA SameShown ==
    ASSUME NEW s, NEW hf, NEW cs, NEW ds, NEW sh, NEW dh, NEW cur, NEW pn,
           Styled(s, hf, cs, sh, cur, pn), DOMAIN dh = Cells, \A c \in Cells : dh[c] = sh[c],
           ds = cs
    PROVE  Styled(s, hf, ds, dh, cur, pn)
  BY DEF Styled

(* A clone that does not fail shows what the page showed.                  *)
LEMMA CloneSound ==
    ASSUME NEW s, NEW cs, NEW sh, hash \in HashFunctions, Styled(s, hash, cs, sh, 0, Default),
           NEW n \in Nat, NEW clone, clone = Cloned(s, cs, n), ~clone.failed
    PROVE  Styled(clone.set, hash, clone.ids, sh, 0, Default)
  <1>1. PICK given : given = [from |-> s, hf |-> hash, cells |-> cs, shown |-> sh]
    OBVIOUS
  <1>2. given.from = s /\ given.hf = hash /\ given.cells = cs /\ given.shown = sh
    BY <1>1
  <1>3. PICK new : new = EmptySet(n)
    OBVIOUS
  <1>4. PICK base : base = [source |-> s, set |-> new, ids |-> cs, failed |-> FALSE]
    OBVIOUS
  <1>5. PICK order : order = [c \in Cells |-> c]
    OBVIOUS
  <1>6. order \in Seq(Cells) /\ Len(order) = CellCount /\ \A k \in Cells : order[k] = k
    BY <1>5, CellsAssumption DEF Cells
  <1>7. Cloning(given, <<0, base>>)
    <2>1. \A c \in Cells : ~(c <= 0)
      BY CellsAssumption DEF Cells
    <2>2. Upto(0, cs, 0) = [c \in Cells |-> 0] /\ Upto(0, sh, Default) = [c \in Cells |-> Default]
      BY <2>1 DEF Upto
    <2>3. Styled(new, hash, Upto(0, cs, 0), Upto(0, sh, Default), 0, Default)
      BY <1>3, <2>2, EmptyStyled
    <2>4. /\ base.set = new /\ base.ids = cs /\ base.failed = FALSE
          /\ base = [source |-> s, set |-> base.set, ids |-> base.ids, failed |-> base.failed]
      BY <1>4
    <2>5. <<0, base>>[1] = 0 /\ <<0, base>>[2] = base
      OBVIOUS
    <2>6. cs \in [Cells -> Nat]
      BY DEF Styled
    <2> QED BY <1>2, <2>3, <2>4, <2>5, <2>6 DEF Cloning
  <1>8. ASSUME NEW acc, NEW k \in 1 .. Len(order), Cloning(given, <<k - 1, acc>>)
        PROVE  Cloning(given, <<k, CopyOn(acc, order[k])>>)
    <2>1. k \in Cells /\ order[k] = k
      BY <1>6 DEF Cells
    <2>2. Cloning(given, <<k, CopyOn(acc, k)>>)
      BY <1>2, <1>8, <2>1, CopyOnKeeps
    <2> QED BY <2>1, <2>2
  <1>9. Cloning(given, <<Len(order), Clones!Fold(base, order)>>)
    BY <1>6, <1>7, <1>8, Clones!FoldReaches
  <1>10. clone = Clones!Fold(base, order)
    BY <1>3, <1>4, <1>5, CloneFolds, Zenon DEF Cloned
  <1>11. Cloning(given, <<CellCount, clone>>)
    BY <1>6, <1>9, <1>10
  <1>12. <<CellCount, clone>>[1] = CellCount /\ <<CellCount, clone>>[2] = clone
    OBVIOUS
  <1>13. /\ clone.ids \in [Cells -> Nat]
         /\ Styled(clone.set, hash, Upto(CellCount, clone.ids, 0),
                   Upto(CellCount, sh, Default), 0, Default)
    BY <1>2, <1>11, <1>12 DEF Cloning
  <1>14. \A c \in Cells : c <= CellCount
    BY CellsAssumption DEF Cells
  <1>15. Upto(CellCount, clone.ids, 0) = clone.ids
    BY <1>13, <1>14 DEF Upto
  <1>16. \A c \in Cells : sh[c] = Upto(CellCount, sh, Default)[c]
    BY <1>14 DEF Upto
  <1>17. DOMAIN sh = Cells
    BY DEF Styled
  <1> QED BY <1>13, <1>15, <1>16, <1>17, SameShown


(* Cells are cleared: every id loses as many users as it had among them.   *)
HowMany(D, cs, id) == Cardinality({c \in D : cs[c] = id})
ItemsCleared(s, D, cs) ==
    [id \in Ids(s) |-> [s.items[id] EXCEPT !.ref = @ - HowMany(D, cs, id)]]
Cleared(s, D, cs, living) == [s EXCEPT !.items = ItemsCleared(s, D, cs), !.living = living]
Blank(f, D, none) == [c \in Cells |-> IF c \in D THEN none ELSE f[c]]

LEMMA ClearedCounts ==
    ASSUME NEW cs \in [Cells -> Nat], NEW D, D \subseteq Cells, NEW id, id # 0
    PROVE  /\ HowMany(D, cs, id) \in Nat
           /\ Cardinality(CellsOf(Blank(cs, D, 0), id)) \in Nat
           /\ Cardinality(CellsOf(Blank(cs, D, 0), id)) =
                Cardinality(CellsOf(cs, id)) - HowMany(D, cs, id)
  <1> DEFINE A == CellsOf(cs, id)
             B == {c \in D : cs[c] = id}
             C == CellsOf(Blank(cs, D, 0), id)
  <1>1. A \subseteq Cells /\ B \subseteq Cells /\ C \subseteq Cells
    BY DEF CellsOf
  <1>2. C = A \ B /\ A \cap B = B
    BY DEF CellsOf, Blank
  <1>3. HowMany(D, cs, id) = Cardinality(B)
    BY DEF HowMany
  <1> HIDE DEF A, B, C
  <1>4. IsFiniteSet(A) /\ Cardinality(B) \in Nat /\ Cardinality(C) \in Nat
    BY <1>1, CellsFinite
  <1>5. Cardinality(C) = Cardinality(A) - Cardinality(B)
    BY <1>2, <1>4, FS_Difference
  <1> QED BY <1>3, <1>4, <1>5 DEF A, C

LEMMA ClearedSound ==
    ASSUME NEW s, NEW hf, NEW cs, NEW sh, NEW cur, NEW pn, Styled(s, hf, cs, sh, cur, pn),
           NEW D, D \subseteq Cells, NEW living \in Int,
           NEW t, t = Cleared(s, D, cs, living)
    PROVE  Styled(t, hf, Blank(cs, D, 0), Blank(sh, D, Default), cur, pn)
  <1> DEFINE ds == Blank(cs, D, 0)
             dh == Blank(sh, D, Default)
             items == ItemsCleared(s, D, cs)
             T == [Buckets(s) -> Nat]
             I == [Ids(s) -> Item]
             S == [0 .. PslLen - 1 -> Int]
             P == 0 .. PslLen - 1
  <1>1. /\ Whole(s, hf) /\ Shape(s) /\ ItemsOK(s, hf) /\ cs \in [Cells -> Nat]
        /\ DOMAIN sh = Cells /\ cur \in Nat
        /\ \A d \in Cells : Shows(s, cs[d], sh[d])
        /\ Shows(s, cur, pn) /\ Ids(s) \subseteq Nat \ {0} /\ s.items \in I
        /\ \A id \in Ids(s) : s.items[id].ref = Users(cs, cur, id)
    BY ShapeIs DEF Styled, Whole, Sound
  <1>2. ASSUME NEW id \in Ids(s)
        PROVE  /\ HowMany(D, cs, id) \in Nat
               /\ Cardinality(CellsOf(ds, id)) \in Nat
               /\ s.items[id].ref - HowMany(D, cs, id) = Users(ds, cur, id)
               /\ s.items[id].ref - HowMany(D, cs, id) \in Nat
    <2>1. id # 0 /\ s.items[id].ref = Users(cs, cur, id)
      BY <1>1
    <2>2. /\ HowMany(D, cs, id) \in Nat
          /\ Cardinality(CellsOf(ds, id)) \in Nat
          /\ Cardinality(CellsOf(ds, id)) = Cardinality(CellsOf(cs, id)) - HowMany(D, cs, id)
      BY <1>1, <2>1, ClearedCounts
    <2>3. Cardinality(CellsOf(cs, id)) \in Nat
      BY UserCounts
    <2> HIDE DEF ds
    <2> QED BY <2>1, <2>2, <2>3 DEF Users
  <1>3. ASSUME NEW id \in Ids(s)
        PROVE  /\ items[id] \in Item
               /\ items[id].bucket = s.items[id].bucket /\ items[id].psl = s.items[id].psl
               /\ items[id].value = s.items[id].value
               /\ items[id].ref = s.items[id].ref - HowMany(D, cs, id)
               /\ HowMany(D, cs, id) = 0 => items[id] = s.items[id]
    <2>1. PICK it, n : it = s.items[id] /\ n = HowMany(D, cs, id)
      OBVIOUS
    <2>2. items[id] = [it EXCEPT !.ref = it.ref - n]
      BY <2>1 DEF ItemsCleared
    <2>3. it \in Item /\ n \in Nat /\ it.ref - n \in Nat
      BY <1>1, <1>2, <2>1
    <2> HIDE DEF items
    <2>4. n = 0 => it.ref - n = it.ref
      BY <2>3 DEF Item
    <2> QED BY <2>1, <2>2, <2>3, <2>4 DEF Item
  <1>4. items \in I
    <2>1. DOMAIN items = Ids(s) /\ items = [id \in Ids(s) |-> items[id]]
      BY DEF ItemsCleared
    <2> HIDE DEF items
    <2> QED BY <1>3, <2>1
  <1>5. s \in Record(T, I, S, P)
    BY <1>1, ShapeOf
  <1>6. t = [s EXCEPT !.items = items, !.living = living]
    BY DEF Cleared
  <1> HIDE DEF T, I, S, P, items, ds, dh
  <1>7. /\ t.tableCap = s.tableCap /\ t.table = s.table /\ t.stats = s.stats
        /\ t.maxPsl = s.maxPsl /\ t.nextId = s.nextId /\ t.items = items
        /\ t \in Record(T, I, S, P)
    BY <1>4, <1>5, <1>6 DEF Record
  <1>8. Shape(t)
    BY <1>1, <1>7, ShapeOf DEF T, I, S, P
  <1>9. SameTable(s, t)
    <2>1. ASSUME NEW j \in Ids(s), ~Stored(s, j) PROVE items[j] = s.items[j]
      <3>1. s.items[j].ref = 0
        BY <1>1, <2>1, EmptyIs DEF ItemsOK
      <3>2. HowMany(D, cs, j) = 0
        BY <1>2, <3>1
      <3> QED BY <1>3, <3>2
    <2> QED BY <1>3, <1>7, <2>1 DEF SameTable
  <1>10. Whole(t, hf) /\ Ids(t) = Ids(s)
    BY <1>1, <1>7, <1>8, <1>9, SameTableWhole, ShapeIs
  <1>11. \A id \in Ids(s) : /\ t.items[id].value = s.items[id].value
                            /\ t.items[id].ref = Users(ds, cur, id)
    BY <1>2, <1>3, <1>7
  <1>12. /\ \A d \in Cells : cs[d] # 0 => cs[d] \in Ids(s)
         /\ cur # 0 => cur \in Ids(s)
    BY UserCounts
  <1>13. ASSUME NEW d \in Cells PROVE Shows(t, ds[d], dh[d])
    <2>1. CASE d \in D
      <3>1. ds[d] = 0 /\ dh[d] = Default
        BY <2>1 DEF ds, dh, Blank
      <3> QED BY <3>1 DEF Shows
    <2>2. CASE d \notin D
      <3>1. ds[d] = cs[d] /\ dh[d] = sh[d]
        BY <2>2 DEF ds, dh, Blank
      <3>2. cs[d] # 0 => t.items[cs[d]].value = s.items[cs[d]].value
        BY <1>11, <1>12
      <3>3. Shows(t, cs[d], sh[d])
        BY <1>1, <1>10, <3>2, ShowsStill
      <3> QED BY <3>1, <3>3
    <2> QED BY <2>1, <2>2
  <1>14. Shows(t, cur, pn)
    <2>1. cur # 0 => t.items[cur].value = s.items[cur].value
      BY <1>11, <1>12
    <2> QED BY <1>1, <1>10, <2>1, ShowsStill
  <1>15. ds \in [Cells -> Nat] /\ DOMAIN dh = Cells
    BY <1>1 DEF ds, dh, Blank
  <1>16. Styled(t, hf, ds, dh, cur, pn)
    BY <1>1, <1>10, <1>11, <1>13, <1>14, <1>15 DEF Styled
  <1> QED BY <1>16 DEF ds, dh


-----------------------------------------------------------------------------
(* The inductive invariant, and the steps that keep it.  TableIntact alone *)
(* is not inductive: that an insertion ends before the table does, and     *)
(* that no held item gets too far from home, follows from what the items   *)
(* and the statistics say of every bucket; StylesKept alone is not either: *)
(* that an id which is reaped or renumbered has no users needs the table.  *)

PenShown == IF panicked THEN Default ELSE pen

IInv ==
    /\ hash \in Hashes /\ Styled(set, hash, cells, shown, cursor, PenShown)
    /\ pen \in Values \cup {Default} /\ panicked \in BOOLEAN /\ (panicked => cursor = 0)

(* While the program runs the pen is what the cursor shows.                *)
LEMMA PenIsShown ==
    ASSUME IInv, Edit
    PROVE  /\ hash \in HashFunctions /\ hash \in Hashes /\ pen \in Values \cup {Default}
           /\ panicked = FALSE
           /\ Styled(set, hash, cells, shown, cursor, pen)
  <1>1. panicked = FALSE
    BY DEF IInv, Edit
  <1>2. PenShown = pen
    BY <1>1 DEF PenShown
  <1> QED BY <1>1, <1>2, HashesAssumption DEF IInv, HashFunctions

(* The invariant after a step that does not panic.                         *)
LEMMA StillRunning ==
    ASSUME IInv, hash' = hash, panicked' = FALSE, pen' \in Values \cup {Default},
           Styled(set', hash, cells', shown', cursor', pen')
    PROVE  IInv'
  <1>1. PenShown' = pen'
    BY DEF PenShown
  <1> QED BY <1>1 DEF IInv

(* A new page satisfies the invariant: an empty set and no styles.         *)
THEOREM InitIInv == StylesInit => IInv
  <1> SUFFICES ASSUME StylesInit PROVE IInv
    OBVIOUS
  <1>1. PICK n \in Nat : set = EmptySet(n)
    BY CapacityAssumption DEF StylesInit
  <1>2. /\ cells = [c \in Cells |-> 0] /\ shown = [c \in Cells |-> Default]
        /\ cursor = 0 /\ pen = Default /\ hash \in Hashes /\ panicked = FALSE
    BY DEF StylesInit
  <1>3. PICK s, cs, sh : s = set /\ cs = cells /\ sh = shown
    OBVIOUS
  <1>4. Styled(s, hash, cs, sh, 0, Default)
    BY <1>1, <1>2, <1>3, EmptyStyled
  <1>5. PenShown = Default
    BY <1>2 DEF PenShown
  <1> QED BY <1>2, <1>3, <1>4, <1>5 DEF IInv

(* What an update leaves: the cells show what they did, and the cursor the *)
(* style that was asked for, or none.                                      *)
PageShows(page, sh, v) ==
    /\ Styled(page.set, hash, page.cells, sh, page.id,
              IF page.answer = "done" THEN v ELSE Default)
    /\ page.answer # "done" => page.id = 0
    /\ page.answer \in {"done", "error", "panic", "split"}

LEMMA PageIs ==
    ASSUME NEW s, NEW ids, NEW id, NEW answer, NEW page, page = Updated(s, ids, id, answer)
    PROVE  page.set = s /\ page.cells = ids /\ page.id = id /\ page.answer = answer
  BY DEF Updated

(* Nothing is done to the page and the cursor has no style.                *)
LEMMA PageWithout ==
    ASSUME NEW s, NEW cs, NEW sh, Styled(s, hash, cs, sh, 0, Default),
           NEW answer \in {"done", "error", "panic", "split"},
           NEW v, answer = "done" => v = Default,
           NEW page, page = Updated(s, cs, 0, answer)
    PROVE  PageShows(page, sh, v)
  <1>1. page.set = s /\ page.cells = cs /\ page.id = 0 /\ page.answer = answer
    BY PageIs
  <1> QED BY <1>1 DEF PageShows

(* The cursor takes the style that was added.                              *)
LEMMA TriedKeeps ==
    ASSUME NEW s, NEW cs, NEW sh, Styled(s, hash, cs, sh, 0, Default),
           NEW v, NEW added, Added(s, hash, v, added), NEW page, page = Tried(added, cs)
    PROVE  PageShows(page, sh, v)
  <1>1. PICK t, a, w : /\ t = added.set /\ a = added.id
                       /\ w = (IF added.error = "none" THEN v ELSE Default)
    OBVIOUS
  <1>2. PICK answer : answer = IF added.error = "none" THEN "done" ELSE "error"
    OBVIOUS
  <1>3. Styled(t, hash, cs, sh, a, w)
    <2>1. PICK hf : hf = hash
      OBVIOUS
    <2> QED BY <1>1, <2>1, CursorAdded
  <1>4. page.set = t /\ page.cells = cs /\ page.id = a /\ page.answer = answer
    BY <1>1, <1>2, PageIs DEF Tried
  <1>5. w = IF page.answer = "done" THEN v ELSE Default
    BY <1>1, <1>2, <1>4
  <1>6. page.answer # "done" => page.id = 0
    BY <1>1, <1>2, <1>4 DEF Added
  <1>7. page.answer \in {"done", "error", "panic", "split"}
    BY <1>2, <1>4
  <1> QED BY <1>3, <1>4, <1>5, <1>6, <1>7 DEF PageShows

(* The style is interned: at once, in a clone, or not at all.              *)
LEMMA UpdateKeeps ==
    ASSUME NEW s, NEW cs, NEW sh, Styled(s, hash, cs, sh, 0, Default), hash \in HashFunctions,
           NEW v \in Values \cup {Default}, NEW page, page = ManualStyleUpdate(s, cs, v)
    PROVE  PageShows(page, sh, v)
  <1>1. CASE v = Default
    <2>1. page = Updated(s, cs, 0, "done")
      BY <1>1 DEF ManualStyleUpdate
    <2> QED BY <1>1, <2>1, PageWithout
  <1>2. CASE v # Default
    <2>1. PICK first : first = Add(s, v, hash[v])
      OBVIOUS
    <2>2. page = Intern(first, cs, v) /\ v \in Values
      BY <1>2, <2>1 DEF ManualStyleUpdate
    <2>3. Added(s, hash, v, first)
      <3>1. Whole(s, hash)
        BY DEF Styled
      <3> QED BY <2>1, <2>2, <3>1, AddSound
    <2>4. CASE first.error = "none"
      <3>1. page = Tried(first, cs)
        BY <2>2, <2>4 DEF Intern
      <3> QED BY <2>3, <3>1, TriedKeeps
    <2>5. CASE first.error # "none"
      <3>1. PICK t, n, clone : /\ t = first.set /\ n = Enlarged(first)
                               /\ clone = Cloned(t, cs, n)
        OBVIOUS
      <3>2. Styled(t, hash, cs, sh, 0, Default)
        <4>1. PICK a, w : /\ a = first.id
                          /\ w = (IF first.error = "none" THEN v ELSE Default)
          OBVIOUS
        <4>2. PICK hf : hf = hash
          OBVIOUS
        <4>3. Styled(t, hf, cs, sh, a, w)
          BY <2>3, <3>1, <4>1, <4>2, CursorAdded
        <4>4. a = 0 /\ w = Default
          BY <2>3, <2>5, <4>1 DEF Added
        <4> QED BY <4>2, <4>3, <4>4
      <3>3. n \in Nat
        <4>1. t.tableCap \in Nat /\ TableCap(t) = t.tableCap
          BY <3>2, ShapeIs DEF Styled, Whole, Sound
        <4> QED BY <3>1, <4>1, CapacityAssumption DEF Enlarged
      <3>4. CASE n > LastTable
        <4>1. page = Updated(t, cs, 0, "split")
          BY <2>2, <2>5, <3>1, <3>4 DEF Intern
        <4> QED BY <3>2, <4>1, PageWithout
      <3>5. CASE ~(n > LastTable) /\ clone.failed
        <4>1. page = Updated(t, cs, 0, "panic")
          BY <2>2, <2>5, <3>1, <3>5 DEF Intern, Again
        <4> QED BY <3>2, <4>1, PageWithout
      <3>6. CASE ~(n > LastTable) /\ ~clone.failed
        <4>1. PICK u, ids, added : /\ u = clone.set /\ ids = clone.ids
                                   /\ added = Add(u, v, hash[v])
          OBVIOUS
        <4>2. page = Tried(added, ids)
          BY <2>2, <2>5, <3>1, <3>6, <4>1 DEF Intern, Again
        <4>3. Styled(u, hash, ids, sh, 0, Default)
          <5>1. Styled(clone.set, hash, clone.ids, sh, 0, Default)
            BY <3>1, <3>2, <3>3, <3>6, CloneSound
          <5> QED BY <4>1, <5>1
        <4>4. Added(u, hash, v, added)
          <5>1. Whole(u, hash)
            BY <4>3 DEF Styled
          <5> QED BY <2>2, <4>1, <5>1, AddSound
        <4> QED BY <4>2, <4>3, <4>4, TriedKeeps
      <3> QED BY <3>4, <3>5, <3>6
    <2> QED BY <2>4, <2>5
  <1> QED BY <1>1, <1>2

(* The cursor's page is what the update left.                              *)
LEMMA BecomeKeeps ==
    ASSUME IInv, NEW page, NEW v \in Values \cup {Default}, PageShows(page, shown, v),
           page.answer # "error", Become(page, v), shown' = shown, hash' = hash
    PROVE  IInv'
  <1>1. PICK t, cs, a, w : /\ t = page.set /\ cs = page.cells /\ a = page.id
                           /\ w = IF page.answer = "done" THEN v ELSE Default
    OBVIOUS
  <1>2. /\ set' = t /\ cells' = cs /\ cursor' = a /\ pen' = v
        /\ panicked' = (page.answer = "panic") /\ page.answer # "split"
    BY <1>1 DEF Become
  <1>3. Styled(t, hash, cs, shown, a, w) /\ (page.answer # "done" => a = 0)
    BY <1>1 DEF PageShows
  <1>4. panicked' \in BOOLEAN /\ (panicked' => a = 0)
    BY <1>2, <1>3
  <1>5. PenShown' = IF page.answer = "panic" THEN Default ELSE v
    BY <1>2 DEF PenShown
  <1>6. CASE page.answer = "done"
    BY <1>1, <1>2, <1>3, <1>4, <1>5, <1>6 DEF IInv
  <1>7. CASE page.answer = "panic"
    BY <1>1, <1>2, <1>3, <1>4, <1>5, <1>7 DEF IInv
  <1>8. page.answer \in {"done", "panic"}
    BY <1>2 DEF PageShows
  <1> QED BY <1>6, <1>7, <1>8

LEMMA SetStyleKeeps ==
    ASSUME IInv, NEW v \in Values \cup {Default}, NEW old \in Values \cup {Default},
           SetStyle(v, old)
    PROVE  IInv'
  <1>1. PICK freed : freed = ReleaseOne(set, cursor)
    OBVIOUS
  <1>2. Edit /\ shown' = shown /\ hash' = hash
    BY DEF SetStyle
  <1>3. hash \in HashFunctions
    BY <1>2, PenIsShown
  <1>4. PICK cs, sh : cs = cells /\ sh = shown
    OBVIOUS
  <1>5. Styled(freed, hash, cs, sh, 0, Default)
    <2>1. PICK s, hf, cur, pn : s = set /\ hf = hash /\ cur = cursor /\ pn = pen
      OBVIOUS
    <2>2. Styled(s, hf, cs, sh, cur, pn) /\ freed = ReleaseOne(s, cur)
      BY <1>1, <1>2, <1>4, <2>1, PenIsShown
    <2>3. Styled(freed, hf, cs, sh, 0, Default)
      BY <2>2, CursorReleased
    <2> QED BY <2>1, <2>3
  <1>6. PICK page : page = ManualStyleUpdate(freed, cs, v)
    OBVIOUS
  <1>7. PageShows(page, sh, v)
    BY <1>3, <1>5, <1>6, UpdateKeeps
  <1>8. TryStyle(page, v, old)
    BY <1>1, <1>4, <1>6 DEF SetStyle
  <1>9. CASE page.answer # "error"
    <2>1. Become(page, v)
      BY <1>8, <1>9 DEF TryStyle
    <2> QED BY <1>2, <1>4, <1>7, <1>9, <2>1, BecomeKeeps
  <1>10. CASE page.answer = "error"
    <2>1. PICK t, ds : t = page.set /\ ds = page.cells
      OBVIOUS
    <2>2. Styled(t, hash, ds, sh, 0, Default)
      BY <1>7, <1>10, <2>1 DEF PageShows
    <2>3. PICK second : second = ManualStyleUpdate(t, ds, old)
      OBVIOUS
    <2>4. PageShows(second, sh, old)
      BY <1>3, <2>2, <2>3, UpdateKeeps
    <2>5. Revert(second, old)
      BY <1>8, <1>10, <2>1, <2>3 DEF TryStyle
    <2>6. CASE second.answer # "error"
      <3>1. Become(second, old)
        BY <2>5, <2>6 DEF Revert
      <3> QED BY <1>2, <1>4, <2>4, <2>6, <3>1, BecomeKeeps
    <2>7. CASE second.answer = "error"
      <3>1. PICK u, es : u = second.set /\ es = second.cells
        OBVIOUS
      <3>2. Styled(u, hash, es, sh, 0, Default)
        BY <2>4, <2>7, <3>1 DEF PageShows
      <3>3. PICK last : last = Updated(u, es, 0, "done")
        OBVIOUS
      <3>4. PageShows(last, sh, Default) /\ last.answer = "done"
        BY <3>2, <3>3, PageWithout, PageIs
      <3>5. Become(last, Default)
        BY <2>5, <2>7, <3>1, <3>3 DEF Revert
      <3> QED BY <1>2, <1>4, <3>4, <3>5, BecomeKeeps
    <2> QED BY <2>6, <2>7
  <1> QED BY <1>9, <1>10

LEMMA WithTwice ==
    ASSUME NEW f, NEW c, NEW x, NEW y
    PROVE  With(With(f, c, x), c, y) = With(f, c, y)
  BY DEF With

LEMMA PrintCellKeeps ==
    ASSUME IInv, NEW c \in Cells, PrintStyled(c)
    PROVE  IInv'
  <1>1. PICK s, hf, cs, sh, cur, pn : /\ s = set /\ hf = hash /\ cs = cells
                                      /\ sh = shown /\ cur = cursor /\ pn = pen
    OBVIOUS
  <1>2. Styled(s, hf, cs, sh, cur, pn) /\ pn \in Values \cup {Default}
    BY <1>1, PenIsShown DEF PrintStyled
  <1>3. PICK t : t = set'
    OBVIOUS
  <1>4. /\ t = IF cs[c] = cur THEN s ELSE UseOne(ReleaseOne(s, cs[c]), cur)
        /\ cells' = With(cs, c, cur) /\ shown' = With(sh, c, pn)
        /\ cursor' = cur /\ pen' = pn /\ hash' = hf
    BY <1>1, <1>3 DEF PrintStyled, With
  <1>5. Styled(t, hf, With(cs, c, cur), With(sh, c, pn), cur, pn)
    <2>1. CASE cs[c] = cur
      <3>1. /\ cs \in [Cells -> Nat] /\ DOMAIN sh = Cells /\ Shows(s, cs[c], sh[c])
            /\ Shows(s, cur, pn)
        BY <1>2 DEF Styled
      <3>2. sh[c] = pn
        BY <2>1, <3>1 DEF Shows
      <3>3. With(cs, c, cur) = cs
        BY <2>1, <3>1 DEF With
      <3>4. DOMAIN With(sh, c, pn) = Cells /\ \A d \in Cells : With(sh, c, pn)[d] = sh[d]
        BY <3>1, <3>2, WithIs
      <3>5. t = s
        BY <1>4, <2>1
      <3> QED BY <1>2, <3>3, <3>4, <3>5, SameShown
    <2>2. CASE cs[c] # cur
      <3>1. PICK u : u = ReleaseOne(s, cs[c])
        OBVIOUS
      <3>2. t = UseOne(u, cur)
        BY <1>4, <2>2, <3>1
      <3>3. PICK ds, dh : ds = With(cs, c, 0) /\ dh = With(sh, c, Default)
        OBVIOUS
      <3>4. Styled(u, hf, ds, dh, cur, pn)
        BY <1>2, <3>1, <3>3, CellReleased
      <3>5. ds[c] = 0
        <4>1. cs \in [Cells -> Nat]
          BY <1>2 DEF Styled
        <4> QED BY <3>3, <4>1 DEF With
      <3>6. Styled(t, hf, With(ds, c, cur), With(dh, c, pn), cur, pn)
        BY <3>2, <3>4, <3>5, CellTakes
      <3>7. With(ds, c, cur) = With(cs, c, cur) /\ With(dh, c, pn) = With(sh, c, pn)
        BY <3>3, WithTwice
      <3> QED BY <3>6, <3>7
    <2> QED BY <2>1, <2>2
  <1>6. panicked' = FALSE
    BY PenIsShown DEF PrintStyled
  <1> QED BY <1>2, <1>3, <1>4, <1>5, <1>1, <1>6, StillRunning

LEMMA ClearCellsKeeps ==
    ASSUME IInv, NEW first \in Cells, NEW last \in Cells, ClearCells(first, last)
    PROVE  IInv'
  <1>1. PICK s, hf, cs, sh, cur, pn : /\ s = set /\ hf = hash /\ cs = cells
                                      /\ sh = shown /\ cur = cursor /\ pn = pen
    OBVIOUS
  <1>2. Styled(s, hf, cs, sh, cur, pn) /\ pn \in Values \cup {Default}
    BY <1>1, PenIsShown DEF ClearCells
  <1>3. PICK D : D = first .. last
    OBVIOUS
  <1>4. D \subseteq Cells
    BY <1>3, CellsAssumption DEF Cells
  <1> DEFINE items == ItemsCleared(s, D, cs)
             died == {id \in Ids(s) : s.items[id].ref > 0 /\ items[id].ref = 0}
  <1>5. PICK living : living = s.living - Cardinality(died)
    OBVIOUS
  <1>6. living \in Int
    <2>1. Shape(s) /\ s.living \in Int
      BY <1>2, ShapeIs DEF Styled, Whole, Sound
    <2>2. died \subseteq Ids(s)
      OBVIOUS
    <2> HIDE DEF died
    <2>3. Cardinality(died) \in Nat
      BY <2>1, <2>2, IdsFinite
    <2> QED BY <1>5, <2>1, <2>3
  <1>7. PICK t : t = set'
    OBVIOUS
  <1>8. t = Cleared(s, D, cs, living)
    <2>1. set' = [set EXCEPT !.items = items, !.living = @ - Cardinality(died)]
      BY <1>1, <1>3 DEF ClearCells, ItemsCleared, HowMany
    <2>2. s.living = set.living
      BY <1>1
    <2> HIDE DEF died
    <2>3. t = [s EXCEPT !.items = items, !.living = s.living - Cardinality(died)]
      BY <1>1, <1>7, <2>1
    <2> HIDE DEF items
    <2> QED BY <1>5, <2>3 DEF Cleared, items
  <1>9. /\ cells' = Blank(cs, D, 0) /\ shown' = Blank(sh, D, Default)
        /\ cursor' = cur /\ pen' = pn /\ hash' = hf
    BY <1>1, <1>3 DEF ClearCells, Blank
  <1>10. Styled(t, hf, Blank(cs, D, 0), Blank(sh, D, Default), cur, pn)
    BY <1>2, <1>4, <1>6, <1>8, ClearedSound
  <1>11. panicked' = FALSE
    BY PenIsShown DEF ClearCells
  <1> QED BY <1>2, <1>7, <1>9, <1>10, <1>1, <1>11, StillRunning

LEMMA CopyCellKeeps ==
    ASSUME IInv, NEW c \in Cells, NEW v \in Values, NEW id \in SourceIds, CopyCell(c, v, id)
    PROVE  IInv'
  <1>1. PICK s, hf, cs, sh, cur, pn : /\ s = set /\ hf = hash /\ cs = cells
                                      /\ sh = shown /\ cur = cursor /\ pn = pen
    OBVIOUS
  <1>2. Styled(s, hf, cs, sh, cur, pn) /\ hf \in HashFunctions /\ pn \in Values \cup {Default}
    BY <1>1, PenIsShown DEF CopyCell
  <1>3. PICK u, added : u = ReleaseOne(s, cs[c]) /\ added = AddWithId(u, v, hf[v], id)
    OBVIOUS
  <1>4. PICK t, a, w : /\ t = added.set /\ a = added.id
                       /\ w = (IF added.error = "none" THEN v ELSE Default)
    OBVIOUS
  <1>5. /\ set' = t /\ cells' = With(cs, c, a) /\ shown' = With(sh, c, w)
        /\ cursor' = cur /\ pen' = pn /\ hash' = hf
    BY <1>1, <1>3, <1>4 DEF CopyCell, Take, AddAs, With
  <1>6. PICK ds, dh : ds = With(cs, c, 0) /\ dh = With(sh, c, Default)
    OBVIOUS
  <1>7. Styled(u, hf, ds, dh, cur, pn)
    BY <1>2, <1>3, <1>6, CellReleased
  <1>8. ds[c] = 0
    <2>1. cs \in [Cells -> Nat]
      BY <1>2 DEF Styled
    <2> QED BY <1>6, <2>1 DEF With
  <1>9. Added(u, hf, v, added)
    <2>1. Whole(u, hf)
      BY <1>7 DEF Styled
    <2>2. id \in Nat \ {0}
      BY CellsAssumption
    <2> QED BY <1>2, <1>3, <2>1, <2>2, AddWithIdSound
  <1>10. Styled(t, hf, With(ds, c, a), With(dh, c, w), cur, pn)
    BY <1>4, <1>7, <1>8, <1>9, CellAdded
  <1>11. With(ds, c, a) = With(cs, c, a) /\ With(dh, c, w) = With(sh, c, w)
    BY <1>6, WithTwice
  <1>12. panicked' = FALSE
    BY PenIsShown DEF CopyCell
  <1> QED BY <1>2, <1>5, <1>10, <1>11, <1>1, <1>12, StillRunning

(* Setting a style, printing, clearing and copying cells all keep it.      *)
THEOREM StepIInv == IInv /\ [StylesNext]_stylesVars => IInv'
  <1> SUFFICES ASSUME IInv, [StylesNext]_stylesVars PROVE IInv'
    OBVIOUS
  <1>1. ASSUME NEW v \in Values \cup {Default}, SetAttribute(v) \/ RestorePen(v)
        PROVE  IInv'
    <2>1. pen \in Values \cup {Default} /\ Default \in Values \cup {Default}
      BY DEF IInv
    <2>2. \E old \in Values \cup {Default} : SetStyle(v, old)
      BY <1>1, <2>1, Zenon DEF SetAttribute, RestorePen
    <2> QED BY <2>2, SetStyleKeeps
  <1>2. ASSUME NEW c \in Cells, PrintStyled(c) PROVE IInv'
    BY <1>2, PrintCellKeeps
  <1>3. ASSUME NEW first \in Cells, NEW last \in Cells, ClearCells(first, last) PROVE IInv'
    BY <1>3, ClearCellsKeeps
  <1>4. ASSUME NEW c \in Cells, NEW v \in Values, NEW id \in SourceIds, CopyCell(c, v, id)
        PROVE  IInv'
    BY <1>4, CopyCellKeeps
  <1>5. ASSUME UNCHANGED stylesVars PROVE IInv'
    BY <1>5 DEF stylesVars, IInv, PenShown
  <1> QED BY <1>1, <1>2, <1>3, <1>4, <1>5, Zenon DEF StylesNext

(* The set of a page's styles is Whole at all times, and counts its users. *)
THEOREM SpecIInv == StylesSpec => []IInv
  BY InitIInv, StepIInv, PTL DEF StylesSpec

-----------------------------------------------------------------------------
(* What the runs check.                                                    *)

LEMMA TypeHolds == IInv => StylesTypeOK
  <1> SUFFICES ASSUME IInv PROVE StylesTypeOK
    OBVIOUS
  <1>1. PICK s, hf, cs, sh, cur, pn : /\ s = set /\ hf = hash /\ cs = cells
                                      /\ sh = shown /\ cur = cursor /\ pn = PenShown
    OBVIOUS
  <1>2. Styled(s, hf, cs, sh, cur, pn)
    BY <1>1 DEF IInv
  <1>3. /\ Whole(s, hf) /\ Sound(s, hf) /\ Shape(s) /\ ItemsOK(s, hf)
        /\ cs \in [Cells -> Nat] /\ cur \in Nat
        /\ s.nextId \in Nat /\ s.nextId > 0 /\ s.maxPsl \in 0 .. PslLen - 1 /\ PslLen \in Nat
        /\ Ids(s) \subseteq Nat \ {0} /\ s.items \in [Ids(s) -> Item]
        /\ s.table \in [Buckets(s) -> Nat]
    BY <1>2, ShapeIs DEF Styled, Whole, Sound
  <1>4. /\ \A c \in Cells : cs[c] # 0 => cs[c] \in Ids(s) /\ s.items[cs[c]].ref > 0
        /\ cur # 0 => cur \in Ids(s) /\ s.items[cur].ref > 0
    BY <1>2, UserCounts
  <1>5. \A id \in Ids(s) : s.items[id].ref > 0 => id \in 1 .. s.nextId - 1
    BY <1>3, UsedIs
  <1>6. 0 \in 0 .. s.nextId - 1 /\ 1 .. s.nextId - 1 \subseteq 0 .. s.nextId - 1
    BY <1>3
  <1>7. cur \in 0 .. s.nextId - 1
    BY <1>4, <1>5, <1>6
  <1>8. \A c \in Cells : cs[c] \in 0 .. s.nextId - 1
    BY <1>4, <1>5, <1>6
  <1>9. ASSUME NEW id \in Ids(s) PROVE s.items[id].psl \in 0 .. PslLen - 1
    <2>1. CASE Stored(s, id)
      <3>1. s.items[id].psl \in Nat /\ s.items[id].psl <= s.maxPsl
        BY <1>3, <2>1 DEF ItemsOK, InPlace, Item
      <3> QED BY <1>3, <3>1
    <2>2. CASE ~Stored(s, id)
      <3>1. s.items[id].psl = 0
        BY <1>3, <2>2, EmptyIs DEF ItemsOK
      <3> QED BY <1>3, <3>1, CapacityAssumption
    <2> QED BY <2>1, <2>2
  <1>10. ASSUME NEW b \in DOMAIN s.table PROVE s.table[b] \in 0 .. s.nextId - 1
    <2>1. b \in Buckets(s)
      BY <1>3
    <2>2. CASE s.table[b] = 0
      BY <1>6, <2>2
    <2>3. CASE s.table[b] # 0
      <3>1. PICK id : id = s.table[b]
        OBVIOUS
      <3>2. id \in Ids(s) /\ s.items[id].bucket = b
        BY <1>3, <2>1, <2>3, <3>1 DEF Sound, Refers
      <3>3. Stored(s, id)
        BY <2>1, <3>2, EmptyIs DEF Stored, Buckets
      <3>4. ~(id >= s.nextId) /\ id \in Nat
        BY <1>3, <3>2, <3>3 DEF Whole
      <3> QED BY <1>3, <3>1, <3>4
    <2> QED BY <2>2, <2>3
  <1> QED BY <1>1, <1>7, <1>8, <1>9, <1>10 DEF StylesTypeOK

LEMMA ConsistentHolds == IInv => TableConsistent
  <1> SUFFICES ASSUME IInv PROVE TableConsistent
    OBVIOUS
  <1>1. PICK s, hf : s = set /\ hf = hash
    OBVIOUS
  <1>2. /\ Whole(s, hf) /\ Sound(s, hf) /\ Shape(s) /\ ItemsOK(s, hf) /\ StatsOK(s)
        /\ s.nextId \in Nat /\ Ids(s) \subseteq Nat \ {0}
        /\ s.table \in [Buckets(s) -> Nat] /\ DOMAIN s.stats = 0 .. PslLen - 1
        /\ s.items \in [Ids(s) -> Item]
    BY <1>1, ShapeIs DEF IInv, Styled, Whole, Sound
  <1>3. InTable = {id \in Ids(s) : Stored(s, id)} /\ Living = {id \in Ids(s) : s.items[id].ref > 0}
    BY <1>1 DEF InTable, Living, Stored
  <1>4. ASSUME NEW id \in InTable
        PROVE  /\ s.table[s.items[id].bucket] = id
               /\ s.items[id].bucket = Bucket(s, hf[s.items[id].value], s.items[id].psl)
               /\ s.items[id].psl <= s.maxPsl
    BY <1>2, <1>3, <1>4 DEF ItemsOK, InPlace
  <1>5. ASSUME NEW b \in DOMAIN s.table, s.table[b] # 0
        PROVE  s.items[s.table[b]].bucket = b
    BY <1>2, <1>5 DEF Sound, Refers
  <1>6. ASSUME NEW psl \in DOMAIN s.stats
        PROVE  s.stats[psl] = Cardinality({id \in InTable : s.items[id].psl = psl})
    <2>1. {id \in InTable : s.items[id].psl = psl} = AtPsl(s, psl)
      BY <1>3 DEF AtPsl
    <2> QED BY <1>2, <2>1 DEF StatsOK
  <1>7. Living \subseteq InTable
    BY <1>2, <1>3, UsedIs
  <1>8. \A id \in InTable : id < s.nextId
    BY <1>2, <1>3 DEF Whole
  <1> QED BY <1>1, <1>4, <1>5, <1>6, <1>7, <1>8 DEF TableConsistent

(* Table, items and statistics of a page's styles always describe each     *)
(* other, whatever was added, freed, reaped, renumbered or cloned.         *)
THEOREM TableAlwaysIntact == StylesSpec => []TableIntact
  <1>1. IInv => TableIntact
    BY TypeHolds, ConsistentHolds DEF TableIntact
  <1> QED BY <1>1, SpecIInv, PTL

(* Every cell keeps the style it was given, the cursor its own, and every  *)
(* item counts exactly its users.                                          *)
THEOREM StylesAlwaysKept == StylesSpec => []StylesKept
  <1>1. IInv => StylesKept
    <2> SUFFICES ASSUME IInv PROVE StylesKept
      OBVIOUS
    <2>1. /\ \A c \in Cells : Shows(set, cells[c], shown[c])
          /\ Shows(set, cursor, PenShown)
          /\ (panicked => cursor = 0) /\ panicked \in BOOLEAN
          /\ \A id \in Ids(set) : set.items[id].ref = Users(cells, cursor, id)
      BY DEF IInv, Styled
    <2>2. \A id \in Ids(set) : Users(cells, cursor, id) = Holders(id)
      BY DEF Users, CellsOf, Holders
    <2> QED BY <2>1, <2>2 DEF Shows, StylesKept, PenShown
  <1> QED BY <1>1, SpecIInv, PTL
=============================================================================
