----------------------------- MODULE PageStyles -----------------------------
(***************************************************************************)
(* The styles of a page and their users: the set of page/ref_set.rs with   *)
(* the cells and the cursor that hold references into it.  The cursor's    *)
(* style is interned by Screen::manual_style_update, which replaces a page *)
(* whose set is full by a clone (PageList::increase_capacity); cells take  *)
(* the cursor's style when they are printed and are copied from other      *)
(* pages by Page::clone_partial_row_from.                                  *)
(***************************************************************************)
EXTENDS RefCountedSet

CONSTANTS
    CellCount,  \* the number of cells of the page
    Hashes,     \* the hash functions: Values -> Nat
    SourceIds,  \* the ids that cells of other pages have
    FirstTables,\* the styles capacities a page may begin with
    StandardTable, \* the capacity that replaces none at all
    LastTable,  \* the capacity at which the page is as large as it may be
    MaxEdits    \* bound on the number of operations

ASSUME CapacityAssumption ==
    /\ FirstTables \subseteq Nat /\ StandardTable \in Nat /\ LastTable \in Nat
    /\ PslLen \in Nat \ {0}
ASSUME CellsAssumption == CellCount \in Nat /\ SourceIds \subseteq Nat \ {0}
ASSUME HashesAssumption == Hashes \subseteq [Values -> Nat]

VARIABLES
    set,     \* Page::styles
    cells,   \* the style id of every cell, 0 for the default style
    cursor,  \* Cursor::style_id
    shown,   \* history: the style each cell was given
    pen,     \* Cursor::style
    hash,    \* the hash function
    panicked,\* a clone failed, and the program has stopped
    edits

stylesVars == <<set, cells, cursor, shown, pen, hash, panicked, edits>>

Default == "default"
Cells == 1 .. CellCount

StylesInit ==
    /\ \E capacity \in FirstTables : set = EmptySet(capacity)
    /\ cells = [c \in Cells |-> 0]
    /\ cursor = 0
    /\ shown = [c \in Cells |-> Default]
    /\ pen = Default
    /\ hash \in Hashes
    /\ panicked = FALSE
    /\ edits = 0

Edit == ~panicked /\ edits < MaxEdits /\ edits' = edits + 1

ReleaseOne(s, id) == IF id = 0 THEN s ELSE Release(s, id, 1)
UseOne(s, id) == IF id = 0 THEN s ELSE Use(s, id)

AddAs(s, v, id) == AddWithId(s, v, hash[v], id)

(* Mutant of Copied: a cell keeps the id it had although it was given another. *)
CopiedKeepsId(acc, added, c) ==
    [acc EXCEPT !.set = added.set, !.failed = added.error # "none"]

Copied(acc, added, c) ==
    [acc EXCEPT !.set = added.set, !.failed = added.error # "none", !.ids[c] = added.id]

\* A styled cell adds its style again, asking for the id it had.
CopyOn(acc, c) ==
    IF acc.failed \/ acc.ids[c] = 0 THEN acc
    ELSE Copied(acc, AddAs(acc.set, acc.source.items[acc.ids[c]].value, acc.ids[c]), c)

\* Page::clone_from into a new page, in the order of the cells.  "failed" when a
\* style cannot be added.
Cloned(s, ids, tableCap) ==
    FoldLeft(CopyOn, [source |-> s, set |-> EmptySet(tableCap), ids |-> ids, failed |-> FALSE],
             [c \in Cells |-> c])

\* The capacity of the page that replaces a full one.
Enlarged(first) ==
    IF first.error = "NeedsRehash" THEN TableCap(first.set)
    ELSE IF TableCap(first.set) = 0 THEN StandardTable ELSE 2 * TableCap(first.set)

\* What manual_style_update leaves behind: the page and the cursor's id, and
\* whether it was "done" or an "error", stopped the program ("panic"), or would
\* go on by splitting a page that is as large as it may be ("split").
Updated(s, ids, id, answer) == [set |-> s, cells |-> ids, id |-> id, answer |-> answer]

Tried(added, ids) ==
    Updated(added.set, ids, added.id, IF added.error = "none" THEN "done" ELSE "error")

\* A clone that fails is not an error but a panic, which leaves the old page.
Again(first, ids, clone, v) ==
    IF clone.failed THEN Updated(first.set, ids, 0, "panic")
    ELSE Tried(Add(clone.set, v, hash[v]), clone.ids)

\* A full set is cloned and the style tried once more.
Intern(first, ids, v) ==
    IF first.error = "none" THEN Tried(first, ids)
    ELSE IF Enlarged(first) > LastTable THEN Updated(first.set, ids, 0, "split")
    ELSE Again(first, ids, Cloned(first.set, ids, Enlarged(first)), v)

\* The cursor holds no reference any more.
ManualStyleUpdate(s, ids, v) ==
    IF v = Default THEN Updated(s, ids, 0, "done") ELSE Intern(Add(s, v, hash[v]), ids, v)

\* Splitting the page is not modelled.
Become(page, v) ==
    /\ page.answer # "split"
    /\ set' = page.set /\ cells' = page.cells /\ cursor' = page.id
    /\ pen' = v
    /\ panicked' = (page.answer = "panic")

\* The update could not be done: back to the style "old", and to none if that
\* cannot be done either.
Revert(second, old) ==
    IF second.answer = "error" THEN Become(Updated(second.set, second.cells, 0, "done"), Default)
    ELSE Become(second, old)

TryStyle(page, v, old) ==
    IF page.answer = "error" THEN Revert(ManualStyleUpdate(page.set, page.cells, old), old)
    ELSE Become(page, v)

\* The old style goes first.
SetStyle(v, old) ==
    /\ Edit
    /\ TryStyle(ManualStyleUpdate(ReleaseOne(set, cursor), cells, v), v, old)
    /\ UNCHANGED <<shown, hash>>

\* Terminal::set_attribute; a style that does not change is left alone.
SetAttribute(v) == v # pen /\ SetStyle(v, pen)

\* Terminal::restore_cursor: a saved style, or none.
RestorePen(v) == SetStyle(v, Default)

\* print_cell: the references of the cell and of its new style.
PrintStyled(c) ==
    /\ Edit
    /\ set' = IF cells[c] = cursor THEN set
              ELSE UseOne(ReleaseOne(set, cells[c]), cursor)
    /\ cells' = [cells EXCEPT ![c] = cursor]
    /\ shown' = [shown EXCEPT ![c] = pen]
    /\ UNCHANGED <<cursor, pen, hash, panicked>>

\* Page::clear_cells: neighbours of one style are released together.
ClearCells(first, last) ==
    LET cleared(id) == Cardinality({c \in first .. last : cells[c] = id})
        items == [id \in Ids(set) |-> [set.items[id] EXCEPT !.ref = @ - cleared(id)]]
        died == {id \in Ids(set) : set.items[id].ref > 0 /\ items[id].ref = 0}
    IN  /\ Edit
        /\ set' = [set EXCEPT !.items = items, !.living = @ - Cardinality(died)]
        /\ cells' = [c \in Cells |-> IF c \in first .. last THEN 0 ELSE cells[c]]
        /\ shown' = [c \in Cells |-> IF c \in first .. last THEN Default ELSE shown[c]]
        /\ UNCHANGED <<cursor, pen, hash, panicked>>

\* clone_partial_row_from: the cell of another page whose style v has the given
\* id there.  When it cannot be added the cell keeps the default style.
Take(added, c, v) ==
    /\ set' = added.set
    /\ cells' = [cells EXCEPT ![c] = added.id]
    /\ shown' = [shown EXCEPT ![c] = IF added.error = "none" THEN v ELSE Default]

CopyCell(c, v, id) ==
    /\ Edit
    /\ Take(AddAs(ReleaseOne(set, cells[c]), v, id), c, v)
    /\ UNCHANGED <<cursor, pen, hash, panicked>>

StylesNext ==
    \/ \E v \in Values \cup {Default} : SetAttribute(v) \/ RestorePen(v)
    \/ \E c \in Cells : PrintStyled(c)
    \/ \E first, last \in Cells : first <= last /\ ClearCells(first, last)
    \/ \E c \in Cells, v \in Values, id \in SourceIds : CopyCell(c, v, id)

StylesSpec == StylesInit /\ [][StylesNext]_stylesVars

-----------------------------------------------------------------------------
(* What must hold.                                                         *)

Holders(id) == Cardinality({c \in Cells : cells[c] = id}) + (IF cursor = id THEN 1 ELSE 0)
InTable == {id \in Ids(set) : set.items[id].bucket # NoBucket}
Living == {id \in Ids(set) : set.items[id].ref > 0}

\* No item is ever further from its home than the statistics can say
\* (psl_stats is indexed by the distance), and ids stay in range.
StylesTypeOK ==
    /\ cursor \in 0 .. set.nextId - 1
    /\ \A c \in Cells : cells[c] \in 0 .. set.nextId - 1
    /\ \A id \in Ids(set) : set.items[id].psl \in 0 .. PslLen - 1
    /\ \A b \in DOMAIN set.table : set.table[b] \in 0 .. set.nextId - 1

\* Table and items describe each other: an item is where its bucket says, as far
\* from its home as its psl says; the statistics count the items; no living
\* item is out of the table, and the ids from next_id on are free.
TableConsistent ==
    /\ \A id \in InTable :
         LET it == set.items[id]
         IN  /\ set.table[it.bucket] = id
             /\ it.bucket = Bucket(set, hash[it.value], it.psl)
             /\ it.psl <= set.maxPsl
    /\ \A b \in DOMAIN set.table : set.table[b] # 0 => set.items[set.table[b]].bucket = b
    /\ \A psl \in DOMAIN set.stats :
         set.stats[psl] = Cardinality({id \in InTable : set.items[id].psl = psl})
    /\ Living \subseteq InTable
    /\ \A id \in InTable : id < set.nextId

\* Both at once: what lookup, delete_item and the tail guard rely on.
TableIntact == StylesTypeOK /\ TableConsistent

\* Every cell shows the style it was given and the cursor its own, whatever was
\* reaped, renumbered, cloned or reverted; and an item counts exactly its users.
\* A panic leaves a cursor that has a style and no id; nobody prints with it.
StylesKept ==
    /\ \A c \in Cells : IF cells[c] = 0 THEN shown[c] = Default
                        ELSE set.items[cells[c]].value = shown[c]
    /\ IF cursor = 0 THEN pen = Default \/ panicked ELSE set.items[cursor].value = pen
    /\ \A id \in Ids(set) : set.items[id].ref = Holders(id)

\* A rehash that does not fail frees an id whenever the set asks for one, so that
\* the single retry finds room; unless the guard against crafted hashes refuses
\* it, or the clone fails, which CloneSucceeds is about.
RetryWorks(clone, v) ==
    clone.failed \/ TailUsed(TrimDead(clone.set)) \/ Add(clone.set, v, hash[v]).error = "none"
Helps(first, v) ==
    first.error = "NeedsRehash" => RetryWorks(Cloned(first.set, cells, TableCap(set)), v)
RehashHelps == \A v \in Values : Helps(Add(ReleaseOne(set, cursor), v, hash[v]), v)

\* What pagelist/ops.rs:282 expects: "increase_capacity clone should not fail".
\* The code breaks it: the clone adds the styles in the order of the cells, and
\* the guard at page/ref_set.rs:310 may refuse one that the old page had taken.
CloneSucceeds == ~panicked

=============================================================================
