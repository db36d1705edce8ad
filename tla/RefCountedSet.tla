---------------------------- MODULE RefCountedSet ----------------------------
(***************************************************************************)
(* The reference-counted, deduplicating set of a page:                     *)
(* qwertty-term-vt/src/page/ref_set.rs.  A hash table in Robin Hood order  *)
(* maps a value's hash to the id of its item; an item whose count drops to *)
(* zero stays in the table, dead, until an insertion wants its bucket or   *)
(* its id.  The operators take the set as a record and return a new one.   *)
(***************************************************************************)
EXTENDS Integers, Sequences, FiniteSetsExt, SequencesExt

CONSTANTS
    Values,   \* the values to be stored
    PslLen    \* PSL_STATS_LEN

NoBucket == -1
EmptyItem == [value |-> "none", bucket |-> NoBucket, psl |-> 0, ref |-> 0]

\* Layout: 0.8125 of the table's buckets may be used, id 0 is reserved.
ItemsCap(tableCap) == (13 * tableCap) \div 16

EmptySet(tableCap) ==
    [tableCap |-> tableCap,
     table |-> [b \in 0 .. tableCap - 1 |-> 0],
     items |-> [id \in 1 .. ItemsCap(tableCap) - 1 |-> EmptyItem],
     stats |-> [psl \in 0 .. PslLen - 1 |-> 0],
     maxPsl |-> 0, living |-> 0, nextId |-> 1]

TableCap(s) == s.tableCap
Ids(s) == DOMAIN s.items
Bucket(s, hash, i) == (hash + i) % TableCap(s)

\* lookup: the first probe that hits; an empty bucket or an item nearer to its
\* home than the probe is to the value's ends the search.  A set of no capacity
\* has no table to be probed.
Lookup(s, value, hash) ==
    LET id(i) == s.table[Bucket(s, hash, i)]
        item(i) == s.items[id(i)]
        stops == {i \in 0 .. s.maxPsl : id(i) = 0 \/ item(i).psl < i}
        hits == {i \in 0 .. s.maxPsl : /\ id(i) # 0
                                       /\ item(i).psl = i
                                       /\ item(i).ref > 0
                                       /\ item(i).value = value}
        found == {i \in hits : \A j \in stops : i < j}
    IN  IF TableCap(s) = 0 \/ found = {} THEN 0 ELSE id(Min(found))

\* delete_item: the items behind the hole that are not at home move up by one.
DeleteItem(s, id) ==
    LET item == s.items[id]
        b(k) == (item.bucket + k) % TableCap(s)
        moves(k) == s.table[b(k)] # 0 /\ s.items[s.table[b(k)]].psl > 0
        run == Min({k \in 0 .. TableCap(s) - 1 : ~moves(k + 1)})
        at == [j \in {s.table[b(k)] : k \in 1 .. run} |->
                  CHOOSE k \in 1 .. run : s.table[b(k)] = j]
        items == [j \in Ids(s) |->
                    IF j = id THEN EmptyItem
                    ELSE IF j \in DOMAIN at
                    THEN [s.items[j] EXCEPT !.bucket = b(at[j] - 1), !.psl = @ - 1]
                    ELSE s.items[j]]
        moved(psl) == Cardinality({j \in DOMAIN at : s.items[j].psl = psl})
        stats == [psl \in DOMAIN s.stats |->
                    s.stats[psl] - (IF psl = item.psl THEN 1 ELSE 0)
                                 - moved(psl) + moved(psl + 1)]
        table == [c \in DOMAIN s.table |->
                    IF c = b(run) THEN 0
                    ELSE IF \E k \in 0 .. run - 1 : c = b(k)
                    THEN s.table[(c + 1) % TableCap(s)] ELSE s.table[c]]
    IN  IF item.bucket = NoBucket THEN s
        ELSE [s EXCEPT !.items = items, !.table = table, !.stats = stats,
                       !.maxPsl = Max({0} \cup {psl \in 1 .. s.maxPsl : stats[psl] > 0})]

-----------------------------------------------------------------------------
(* insert.  "held" is the item on its way and "id" its id; it is in no     *)
(* bucket until it is placed.  A new item is kept under newId until its id *)
(* is chosen.                                                              *)

Placed(s, p, held, id) ==
    [s EXCEPT !.table[p] = id, !.items[id] = [held EXCEPT !.bucket = p],
              !.stats[held.psl] = @ + 1, !.maxPsl = Max({@, held.psl})]

(* Mutant of TakenOut: the statistics still count the item. *)
TakenOutCounted(s, id) == [s EXCEPT !.items[id] = EmptyItem]

\* The item gives up its bucket: it is dead, or richer than the one held.
TakenOut(s, id) ==
    [s EXCEPT !.stats[s.items[id].psl] = @ - 1, !.items[id] = EmptyItem]

\* The new item moves from newId to the id that was chosen.
Commit(s, newId, chosen) ==
    IF newId = chosen THEN s
    ELSE [s EXCEPT !.table[s.items[newId].bucket] = chosen,
                   !.items[chosen] = s.items[newId], !.items[newId] = EmptyItem]

\* Whether the held item takes the resident's bucket.
Richer(resident, held) ==
    \/ resident.psl < held.psl
    \/ resident.psl = held.psl /\ resident.ref < held.ref

Poorer(item) == [item EXCEPT !.psl = @ + 1]

\* One turn of the loop: the i-th bucket from the new value's home.
Probe(at, i) ==
    LET p == Bucket(at.set, at.hash, i)
        there == at.set.table[p]
        resident == at.set.items[there]
        Instead == Placed(TakenOut(at.set, there), p, at.held, at.id)
    IN  IF at.done THEN at
        ELSE IF there = 0
        THEN [at EXCEPT !.set = Placed(at.set, p, at.held, at.id), !.done = TRUE]
        ELSE IF resident.ref = 0
        THEN [at EXCEPT !.set = Instead, !.done = TRUE,
                        !.chosen = IF there < at.newId THEN there ELSE @]
        ELSE IF Richer(resident, at.held)
        THEN [at EXCEPT !.set = Instead, !.held = Poorer(resident), !.id = there]
        ELSE [at EXCEPT !.held = Poorer(@)]

Probed(s, value, hash, newId) ==
    FoldLeft(Probe, [set |-> s, held |-> [EmptyItem EXCEPT !.value = value], id |-> newId,
                     hash |-> hash, newId |-> newId, chosen |-> newId, done |-> FALSE],
             [k \in 1 .. TableCap(s) - 1 |-> k - 1])

Insert(s, value, hash, newId) ==
    LET at == Probed(s, value, hash, newId)
    IN  [set |-> Commit(at.set, newId, at.chosen), id |-> at.chosen]

-----------------------------------------------------------------------------
(* The operations.                                                         *)

Use(s, id) == [s EXCEPT !.items[id].ref = @ + 1]

Release(s, id, n) ==
    LET t == [s EXCEPT !.items[id].ref = @ - n]
    IN  IF t.items[id].ref = 0 THEN [t EXCEPT !.living = @ - 1] ELSE t

\* Dead items at the end of the id space give their ids back.
TrimDead(s) ==
    LET last == Max({0} \cup {id \in 1 .. s.nextId - 1 : s.items[id].ref > 0})
        dead == Reverse([k \in 1 .. s.nextId - 1 - last |-> last + k])
    IN  [FoldLeft(DeleteItem, s, dead) EXCEPT !.nextId = last + 1]

(* Mutant of TailUsed: the guard looks past the end of the statistics. *)
TailUsedNever(s) == FALSE

\* The guard against crafted hashes: an item is as far from home as it may be.
TailUsed(s) == s.stats[PslLen - 1] > 0

(* Mutant of RehashThreshold: rounded up instead of truncated. *)
RehashThresholdUp(s) == (9 * (Cardinality(Ids(s)) + 1) + 9) \div 10

RehashThreshold(s) == (9 * (Cardinality(Ids(s)) + 1)) \div 10

Full(s) ==
    IF s.living < RehashThreshold(s) THEN "NeedsRehash" ELSE "OutOfMemory"

Failed(s, error) == [set |-> s, id |-> 0, error |-> error]
Found(s, id) == [set |-> Use(s, id), id |-> id, error |-> "none"]
Born(s, id) == [set |-> [Use(s, id) EXCEPT !.living = @ + 1], id |-> id, error |-> "none"]

Inserted(s, ins) == Born([s EXCEPT !.nextId = IF ins.id = @ THEN @ + 1 ELSE @], ins.id)

AddTrimmed(s, value, hash) ==
    LET id == Lookup(s, value, hash)
        ins == Insert(s, value, hash, s.nextId)
    IN  IF id # 0 THEN Found(s, id)
        ELSE IF TailUsed(s) THEN Failed(s, "OutOfMemory")
        ELSE IF s.nextId \notin Ids(s) THEN Failed(s, Full(s))
        ELSE Inserted(ins.set, ins)

Add(s, value, hash) == AddTrimmed(TrimDead(s), value, hash)

\* add_with_id: the caller would like "id".  A dead id is freed and given to the
\* value, unless the value is found in the set after all.
Reused(s, value, hash, id) ==
    LET there == Lookup(s, value, hash)
        ins == Insert(s, value, hash, id)
    IN  IF there # 0 THEN Born(s, there) ELSE Born(ins.set, ins.id)

AddWithId(s, value, hash, id) ==
    IF id >= s.nextId \/ (s.items[id].ref > 0 /\ s.items[id].value # value)
    THEN Add(s, value, hash)
    ELSE IF s.items[id].ref > 0 THEN Found(s, id)
    ELSE IF TailUsed(s) THEN Failed(s, "OutOfMemory")
    ELSE Reused(DeleteItem(s, id), value, hash, id)

=============================================================================
