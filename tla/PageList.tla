------------------------------ MODULE PageList ------------------------------
(***************************************************************************)
(* The pages of a screen and its scrollback: qwertty-term-vt/src/pagelist  *)
(* (mod.rs, ops.rs, pin.rs, resize.rs) with the calls that screen/mod.rs   *)
(* makes.  A page holds at most RowCap rows; rows are added at the end of  *)
(* the last page, and when the pages take more than the budget the first   *)
(* one is pruned.  Tracked pins (the cursor's, the viewport's and another, *)
(* "mark", which stands for a selection, an image or a search) are moved   *)
(* by every operation; the viewport's distance from the top is cached.     *)
(*                                                                         *)
(* A row is an identity: what is in it is left out, and so are columns.    *)
(* Not modelled: resizing and reflow, cloning, jumps between prompts.      *)
(***************************************************************************)
EXTENDS Integers, Sequences, SequencesExt

CONSTANTS
    Rows,        \* rows of the screen
    RowCap,      \* rows a page can hold
    MaxPages,    \* max_size, in pages of the standard size
    Scrollbacks, \* kinds of screen: FALSE for the alternate one, explicit_max_size = 0
    Histories,   \* numbers of lines printed before the first step
    Deltas,      \* amounts of Scroll::DeltaRow
    MaxSteps     \* bound on the number of operations

ASSUME SizeAssumption ==
    /\ Rows \in Nat \ {0, 1} /\ RowCap \in Nat \ {0}
    /\ MaxPages * RowCap >= Rows + RowCap     \* min_max_size
    /\ Scrollbacks \subseteq BOOLEAN
    /\ Histories \subseteq Nat /\ Deltas \subseteq Int

VARIABLES
    scrollback, \* ~no_scrollback, fixed when the screen is made
    list,       \* the PageList, a record
    y,          \* Cursor::y
    steps

vars == <<scrollback, list, y, steps>>

Pins == {"cursor", "viewport", "mark"}
None == -1

-----------------------------------------------------------------------------
(* Pages, rows and pins.  A row is also known by its offset from the top.  *)

Page(id, serial, size, rows) ==
    [id |-> id, serial |-> serial, size |-> size, rows |-> rows]
Pin(id, row) == [page |-> id, y |-> row, garbage |-> FALSE]

Plus(a, n) == a + n
Sum(ns) == FoldLeft(Plus, 0, ns)
RowsJoined(rows, page) == rows \o page.rows
AllRows(l) == FoldLeft(RowsJoined, <<>>, l.pages)
Heights(l) == [i \in DOMAIN l.pages |-> Len(l.pages[i].rows)]
TotalSize(l) == Sum([i \in DOMAIN l.pages |-> l.pages[i].size])
Index(l, id) == CHOOSE i \in DOMAIN l.pages : l.pages[i].id = id
Above(l, i) == Sum(SubSeq(Heights(l), 1, i - 1))

\* pin_is_valid
Valid(l, pin) ==
    \E i \in DOMAIN l.pages : l.pages[i].id = pin.page /\ pin.y < Heights(l)[i]

Offset(l, pin) == Above(l, Index(l, pin.page)) + pin.y

\* The pin at an offset: Pin::down from the top.
PinAt(l, k) ==
    LET i == CHOOSE i \in DOMAIN l.pages : k \in Above(l, i) .. Above(l, i + 1) - 1
    IN  Pin(l.pages[i].id, k - Above(l, i))

\* The list with the same pages holding other rows.
WithRows(l, rows) ==
    [l EXCEPT !.pages = [i \in DOMAIN @ |->
        [@[i] EXCEPT !.rows = SubSeq(rows, Above(l, i) + 1, Above(l, i + 1))]]]

\* The rows with the one at offset k moved to offset j.
Rotated(rows, k, j) == InsertAt(RemoveAt(rows, k + 1), j + 1, rows[k + 1])

\* get_top_left of the active area and of the viewport.
ActiveTop(l) == Len(AllRows(l)) - Rows
IsActive(l, pin) == Offset(l, pin) >= ActiveTop(l)
TopLeft(l) == CASE l.viewport = "active" -> ActiveTop(l)
                [] l.viewport = "top" -> 0
                [] l.viewport = "pin" -> Offset(l, l.pins["viewport"])

-----------------------------------------------------------------------------
(* Growing and pruning.                                                    *)

\* Every new row is another one.
Fresh(l) == l.born + 1

Extend(l) ==
    [l EXCEPT !.pages[Len(l.pages)].rows = Append(@, Fresh(l)),
              !.born = @ + 1, !.total = @ + 1]

\* create_page and append, with one row.
Alloc(l) ==
    [l EXCEPT !.pages = Append(@, Page(l.nextId, l.serial, 1, <<Fresh(l)>>)),
              !.nextId = @ + 1, !.serial = @ + 1, !.born = @ + 1, !.total = @ + 1]

Prunable(l) ==
    /\ Len(l.pages) > 1
    /\ TotalSize(l) + 1 > MaxPages
    /\ l.total - Heights(l)[1] + 1 >= Rows

(* Mutant of Prune: the cached offset of the viewport is kept. *)
PruneKeepsCache(l) ==
    LET first == Head(l.pages)
        moved(p) == [Pin(l.pages[2].id, 0) EXCEPT !.garbage = (p # "viewport")]
    IN  [l EXCEPT !.pages = Tail(@),
                  !.total = @ - Len(first.rows),
                  !.pins = [p \in Pins |-> IF @[p].page = first.id THEN moved(p) ELSE @[p]]]

\* grow_prune without the reuse of the page: pins on it go to the new first row.
Prune(l) ==
    LET first == Head(l.pages)
        n == Len(first.rows)
        counted == l.viewport = "pin" /\ l.cache # None
        moved(p) == [Pin(l.pages[2].id, 0) EXCEPT !.garbage = (p # "viewport")]
    IN  [l EXCEPT !.pages = Tail(@),
                  !.total = @ - n,
                  !.pins = [p \in Pins |-> IF @[p].page = first.id THEN moved(p) ELSE @[p]],
                  !.viewport = IF counted /\ l.cache < n THEN "top" ELSE @,
                  !.cache = IF counted /\ l.cache >= n THEN @ - n ELSE @]

(* Mutant of Reuse: the row of the page used again is not counted. *)
ReuseUncounted(l, page) ==
    [l EXCEPT !.pages = Append(@, Page(page.id, l.serial, 1, <<Fresh(l)>>)),
              !.serialMin = page.serial + 1,
              !.serial = @ + 1, !.born = @ + 1]

\* The pruned page becomes the last one, unless it is larger than a standard one.
Reuse(l, page) ==
    [l EXCEPT !.pages = Append(@, Page(page.id, l.serial, 1, <<Fresh(l)>>)),
              !.serialMin = page.serial + 1,
              !.serial = @ + 1, !.born = @ + 1, !.total = @ + 1]

Grow(l) ==
    IF Len(Last(l.pages).rows) < RowCap THEN Extend(l)
    ELSE IF ~Prunable(l) THEN Alloc(l)
    ELSE IF Head(l.pages).size > 1 THEN Alloc(Prune(l))
    ELSE Reuse(Prune(l), Head(l.pages))

\* init_pages
FirstPages(id, serial, born) ==
    LET n == (Rows + RowCap - 1) \div RowCap
        height(i) == IF i < n THEN RowCap ELSE Rows - RowCap * (n - 1)
    IN  [i \in 1 .. n |-> Page(id + i, serial + i - 1, 1,
            [j \in 1 .. height(i) |-> born + RowCap * (i - 1) + j])]

-----------------------------------------------------------------------------
(* Scrolling the viewport.                                                 *)

ToActive(l) == [l EXCEPT !.viewport = "active"]
ToTop(l) == [l EXCEPT !.viewport = "top"]

\* Scroll::Pin, and the end of the slow path of scroll_delta_row.
ScrollPin(l, k) ==
    IF k >= ActiveTop(l) THEN ToActive(l)
    ELSE IF k = 0 THEN ToTop(l)
    ELSE [l EXCEPT !.viewport = "pin", !.pins["viewport"] = PinAt(l, k), !.cache = None]

(* Mutant of ScrollPinned: the cached offset does not move with the pin. *)
ScrollPinnedStale(l, n) ==
    LET k == Offset(l, l.pins["viewport"]) + n
        t == [l EXCEPT !.pins["viewport"] = PinAt(l, k)]
    IN  IF n < 0 THEN (IF k >= 0 THEN t ELSE ToTop(l))
        ELSE IF k >= ActiveTop(l) THEN ToActive(l) ELSE t

\* A pinned viewport moves with its cache.
ScrollPinned(l, n) ==
    LET k == Offset(l, l.pins["viewport"]) + n
        t == [l EXCEPT !.pins["viewport"] = PinAt(l, k),
                       !.cache = IF @ = None THEN None ELSE @ + n]
    IN  IF n < 0 THEN (IF k >= 0 THEN t ELSE ToTop(l))
        ELSE IF k >= ActiveTop(l) THEN ToActive(l) ELSE t

ScrollDelta(l, n) ==
    LET k == TopLeft(l) + n
    IN  CASE n = 0 -> l
          [] l.viewport = "pin" /\ n # 0 -> ScrollPinned(l, n)
          [] l.viewport = "top" /\ n < 0 -> l
          [] l.viewport = "active" /\ n > 0 -> l
          [] OTHER -> ScrollPin(l, IF k < 0 THEN 0 ELSE k)

ScrollRow(l, n) ==
    IF n = 0 THEN ToTop(l)
    ELSE IF n >= l.total - Rows THEN ToActive(l)
    ELSE IF l.viewport = "pin" /\ l.cache # None THEN ScrollDelta(l, n - l.cache)
    ELSE [l EXCEPT !.viewport = "pin", !.cache = n, !.pins["viewport"] = PinAt(l, n)]

\* viewport_row_offset, which fills the cache.
Scrollbar(l) ==
    IF l.viewport = "pin" /\ l.cache = None THEN [l EXCEPT !.cache = TopLeft(l)] ELSE l

\* What the scrollbar shows.
ShownOffset(l) ==
    CASE l.viewport = "top" -> 0
      [] l.viewport = "active" -> l.total - Rows
      [] l.viewport = "pin" -> Scrollbar(l).cache

-----------------------------------------------------------------------------
(* Erasing.                                                                *)

FixupViewport(l, removed) ==
    CASE l.viewport = "active" -> l
      [] l.viewport = "top" -> IF ActiveTop(l) = 0 THEN ToActive(l) ELSE l
      [] l.viewport = "pin" ->
           IF IsActive(l, l.pins["viewport"]) THEN ToActive(l)
           ELSE IF l.cache = None THEN l
           ELSE IF l.cache < removed THEN ToTop(l) ELSE [l EXCEPT !.cache = @ - removed]

\* erase_rows over the history: whole pages go, and the rows of the page that
\* the active area begins on; pins there are put on the first row left.
EraseHistory(l) ==
    LET h == ActiveTop(l)
        first == Index(l, PinAt(l, h).page)
        within == h - Above(l, first)
        pages == [SubSeq(l.pages, first, Len(l.pages))
                    EXCEPT ![1].rows = SubSeq(@, within + 1, Len(@))]
        t == [l EXCEPT !.pages = pages, !.total = @ - h,
                       !.serialMin = IF first > 1 THEN pages[1].serial ELSE @]
        moved(p) == LET k == Offset(l, l.pins[p])
                    IN  [PinAt(t, IF k >= h THEN k - h ELSE 0)
                            EXCEPT !.garbage = l.pins[p].garbage]
    IN  FixupViewport([t EXCEPT !.pins = [p \in Pins |-> moved(p)]], h)

\* A pin that an operation moves up by one row.
Raised(l, pin) == [PinAt(l, Offset(l, pin) - 1) EXCEPT !.garbage = pin.garbage]

\* erase_row at the top of the list: every other row moves up and a blank one
\* comes in at the end.
EraseRow(l) ==
    LET t == WithRows(l, Append(Tail(AllRows(l)), Fresh(l)))
    IN  FixupViewport([t EXCEPT !.born = @ + 1,
            !.pins = [p \in Pins |-> IF Offset(l, @[p]) > 0 THEN Raised(l, @[p]) ELSE @[p]]], 1)

(* Mutant of EraseRowBounded: a pin on the last row of the region stays. *)
EraseRowBoundedShort(l, k, limit) ==
    LET blank == [AllRows(l) EXCEPT ![k + 1] = Fresh(l)]
        moves(p) == LET o == Offset(l, l.pins[p])
                    IN  o \in k .. k + limit - 1 /\ ~(o = k /\ l.pins[p].y = 0)
        t == WithRows(l, Rotated(blank, k, k + limit))
    IN  [t EXCEPT !.born = @ + 1,
                  !.pins = [p \in Pins |-> IF moves(p) THEN Raised(l, @[p]) ELSE @[p]],
                  !.cache = IF l.viewport = "pin" /\ @ # None /\ moves("viewport")
                            THEN @ - 1 ELSE @]

\* erase_row_bounded and shift_tracked_pins_region_up: of the rows k .. k + limit
\* the first is erased, the others move up and a blank one comes in below.  A pin
\* there moves up too, unless it is on the first row of its page and k is.
EraseRowBounded(l, k, limit) ==
    LET rows == AllRows(l)
        blank == [rows EXCEPT ![k + 1] = Fresh(l)]
        moves(p) == LET o == Offset(l, l.pins[p])
                    IN  o \in k .. k + limit /\ ~(o = k /\ l.pins[p].y = 0)
        t == WithRows(l, Rotated(blank, k, k + limit))
    IN  [t EXCEPT !.born = @ + 1,
                  !.pins = [p \in Pins |-> IF moves(p) THEN Raised(l, @[p]) ELSE @[p]],
                  !.cache = IF l.viewport = "pin" /\ @ # None /\ moves("viewport")
                            THEN @ - 1 ELSE @]

-----------------------------------------------------------------------------
(* Replacing and splitting pages.                                          *)

\* increase_capacity: a clone takes the page's place, twice as large or not.
IncreaseCapacity(l, id, larger) ==
    LET i == Index(l, id)
        new == [l.pages[i] EXCEPT !.id = l.nextId, !.serial = l.serial,
                                  !.size = IF larger THEN 2 * @ ELSE @]
    IN  [l EXCEPT !.pages[i] = new, !.nextId = @ + 1, !.serial = @ + 1,
                  !.pins = [p \in Pins |->
                      IF @[p].page = id THEN [@[p] EXCEPT !.page = new.id] ELSE @[p]]]

\* split: the rows from the pin's on move to a new page.
Split(l, pin) ==
    LET i == Index(l, pin.page)
        old == l.pages[i]
        new == Page(l.nextId, l.serial, old.size, SubSeq(old.rows, pin.y + 1, Len(old.rows)))
        kept == [old EXCEPT !.rows = SubSeq(old.rows, 1, pin.y)]
        moved(q) == IF q.page = pin.page /\ q.y >= pin.y
                    THEN [q EXCEPT !.page = new.id, !.y = q.y - pin.y] ELSE q
    IN  IF pin.y = 0 \/ Len(old.rows) <= 1 THEN l
        ELSE [l EXCEPT !.pages = InsertAt([l.pages EXCEPT ![i] = kept], i + 1, new),
                       !.nextId = @ + 1, !.serial = @ + 1,
                       !.pins = [p \in Pins |-> moved(l.pins[p])]]

\* reset: all pins go to the first row, the viewport's is not garbage.
Reset(l) ==
    LET n == (Rows + RowCap - 1) \div RowCap
        pin == [Pin(l.nextId + 1, 0) EXCEPT !.garbage = TRUE]
    IN  [l EXCEPT !.pages = FirstPages(l.nextId, l.serial, l.born),
                  !.serialMin = l.serial, !.serial = @ + n,
                  !.nextId = @ + n + 1, !.born = @ + Rows, !.total = Rows,
                  !.pins = [p \in Pins |-> IF p = "viewport" THEN Pin(pin.page, 0) ELSE pin],
                  !.viewport = "active"]

-----------------------------------------------------------------------------
(* The screen's operations.                                                *)

\* A line is printed, a row is grown; the second argument counts them.
PrintedOn(l, n) == [Grow(l) EXCEPT !.pins["cursor"] = PinAt(Grow(l), ActiveTop(Grow(l)) + Rows - 1)]
GrowOn(l, n) == Grow(l)
Times(n) == [i \in 1 .. n |-> i]

NewList ==
    LET pages == FirstPages(0, 0, 0)
        n == Len(pages)
    IN  [pages |-> pages, serial |-> n, serialMin |-> 0, nextId |-> n + 1,
         born |-> Rows, total |-> Rows,
         pins |-> [p \in Pins |-> Pin(1, 0)],
         viewport |-> "active", cache |-> None]

Init ==
    /\ scrollback \in Scrollbacks
    /\ \E n \in IF scrollback THEN Histories ELSE {0} :
         LET l == FoldLeft(PrintedOn, NewList, Times(n))
         IN  list = [l EXCEPT !.pins["cursor"] = PinAt(l, ActiveTop(l) + Rows - 1)]
    /\ y = Rows - 1
    /\ steps = 0

Step == steps < MaxSteps /\ steps' = steps + 1 /\ UNCHANGED scrollback
CursorPin == list.pins["cursor"]

\* The list l becomes the screen's, the cursor's pin is put where it says.
Becomes(l, pin, cy) ==
    /\ Step
    /\ list' = [l EXCEPT !.pins["cursor"] = pin]
    /\ y' = cy

(* Mutant of Reloaded: the cursor's line is not looked up again. *)
ReloadedNot(l) == Becomes(l, l.pins["cursor"], y)

\* cursor_reload: the cursor's line is where its pin is, if that is active.
Reloaded(l) ==
    LET pin == l.pins["cursor"]
    IN  IF IsActive(l, pin) THEN Becomes(l, pin, Offset(l, pin) - ActiveTop(l))
        ELSE Becomes(l, PinAt(l, ActiveTop(l)), 0)

CursorMove(to) ==
    to # y /\ Becomes(list, PinAt(list, Offset(list, CursorPin) + to - y), to)

\* cursor_down_scroll: with scrollback the list grows, and unless the cursor's
\* page was pruned its pin goes down; without, the first row is erased.
CursorDownScroll ==
    LET g == Grow(list)
        pin == g.pins["cursor"]
    IN  /\ y = Rows - 1
        /\ IF ~scrollback THEN Becomes(EraseRow(list), CursorPin, y)
           ELSE IF pin.page = CursorPin.page
           THEN Becomes(g, PinAt(g, Offset(g, pin) + 1), y)
           ELSE Becomes(g, pin, y)

\* cursor_scroll_above: the list grows and the new row is brought up to below
\* the cursor.
CursorScrollAbove ==
    LET g == Grow(list)
        k == Offset(g, g.pins["cursor"]) + 1
        rows == AllRows(g)
    IN  /\ scrollback
        /\ y \in 1 .. Rows - 2
        /\ Becomes(WithRows(g, Rotated(rows, Len(rows) - 1, k)), PinAt(g, k), y)

\* cursor_scroll_region_up: the cursor stays on the blank row.
CursorScrollRegionUp(limit) ==
    LET k == Offset(list, CursorPin)
    IN  limit <= y /\ Becomes(EraseRowBounded(list, k - limit, limit), CursorPin, y)

ScrollClear(n) ==
    scrollback /\ Reloaded(FoldLeft(GrowOn, list, Times(n)))

EraseScrollback == Reloaded(EraseHistory(list))

ChangeCapacity(larger) == Reloaded(IncreaseCapacity(list, CursorPin.page, larger))

\* split_for_capacity: at the cursor's row or at the one below.
SplitForCapacity(below) ==
    LET last == Offset(list, CursorPin) = Len(AllRows(list)) - 1
        at == IF below /\ ~last THEN PinAt(list, Offset(list, CursorPin) + 1) ELSE CursorPin
        l == Split(list, at)
    IN  Becomes(l, l.pins["cursor"], y)

FullReset == LET l == Reset(list) IN Becomes(l, l.pins["cursor"], 0)

Output ==
    \/ \E to \in 0 .. Rows - 1 : CursorMove(to)
    \/ CursorDownScroll
    \/ CursorScrollAbove
    \/ \E limit \in 1 .. Rows - 1 : CursorScrollRegionUp(limit)
    \/ \E n \in 1 .. Rows : ScrollClear(n)
    \/ EraseScrollback
    \/ \E larger \in BOOLEAN : ChangeCapacity(larger)
    \/ \E below \in BOOLEAN : SplitForCapacity(below)
    \/ FullReset

\* Screen::scroll, and the scrollbar of the user interface.
Scrolled(l) ==
    Becomes(IF scrollback THEN l ELSE ToActive(list), CursorPin, y)

Scroll ==
    \/ Scrolled(ToActive(list))
    \/ Scrolled(ToTop(list))
    \/ \E k \in 0 .. Len(AllRows(list)) - 1 : \/ Scrolled(ScrollPin(list, k))
                                              \/ Scrolled(ScrollRow(list, k))
    \/ \E n \in Deltas : Scrolled(ScrollDelta(list, n))

ReadScrollbar ==
    Becomes(IF scrollback THEN Scrollbar(list) ELSE list, CursorPin, y)

\* untrack_pin and track_pin: a selection is made elsewhere.
Mark ==
    \E k \in 0 .. Len(AllRows(list)) - 1 :
        Becomes([list EXCEPT !.pins["mark"] = PinAt(list, k)], CursorPin, y)

Next == Output \/ Scroll \/ ReadScrollbar \/ Mark

Spec == Init /\ [][Next]_vars

-----------------------------------------------------------------------------
(* What must hold: PageList::verify_integrity, Screen::assert_integrity and *)
(* what a pin and a scrollbar are for.                                      *)

\* The rows are counted, no page is empty or too full, and every tracked pin is
\* on a row that exists (TotalRowsMismatch, TrackedPinInvalid).
TypeOK ==
    /\ list.total = Len(AllRows(list)) /\ list.total >= Rows
    /\ \A i \in DOMAIN list.pages : Heights(list)[i] \in 1 .. RowCap
    /\ \A p \in Pins : Valid(list, list.pins[p])
    /\ y \in 0 .. Rows - 1

\* The cached distance of a pinned viewport from the top is its distance
\* (ViewportPinOffsetMismatch), and Rows rows can be shown from it
\* (ViewportPinInsufficientRows): it is not below the top of the active area.
ViewportExact ==
    list.viewport = "pin" =>
        LET k == Offset(list, list.pins["viewport"])
        IN  list.cache \in {None, k} /\ k <= ActiveTop(list)

\* The cursor's pin and its line say the same: "cursor pin outside active area".
CursorOnItsRow == Offset(list, CursorPin) = ActiveTop(list) + y

\* All three at once: what the code asserts after every operation.
Integrity == TypeOK /\ ViewportExact /\ CursorOnItsRow

RowOf(l, p) == AllRows(l)[Offset(l, l.pins[p]) + 1]
Follows(p) ==
    RowOf(list, p) \in ToSet(AllRows(list')) => RowOf(list', p) = RowOf(list, p)

\* Where cursor_scroll_above (screen/mod.rs:1059) turns the rows under a pin.
TurnedUnder(p) == CursorScrollAbove /\ Offset(list, list.pins[p]) > Offset(list, CursorPin)

\* Through what the program prints, erases or splits, a tracked pin stays on its
\* row as long as there is that row, and so does a viewport the user has scrolled
\* back.  Left out is a pin below the cursor when a line feed scrolls a region
\* that is anchored at the top: PinsAlwaysFollow is about that.
PinsFollowRows ==
    [][list' # list /\ Output =>
        /\ TurnedUnder("mark") \/ Follows("mark")
        /\ list.viewport = "pin" => Follows("viewport")]_vars

\* What pagelist/pin.rs:10-12 says: a tracked pin is updated on every mutating
\* operation.  The code breaks it in cursor_scroll_above, which moves the rows
\* below the cursor and no pin but the cursor's.
PinsAlwaysFollow == [][Output => Follows("mark")]_vars

\* Dragging the scrollbar to a row shows that row, whatever was cached.
ScrollRowLands ==
    scrollback => \A n \in 0 .. list.total - Rows :
        LET l == ScrollRow(list, n) IN TopLeft(l) = n /\ ShownOffset(l) = n

\* PageSerialInvalid: no page is older than the oldest that may be there.
SerialsValid == \A i \in DOMAIN list.pages : list.pages[i].serial >= list.serialMin

=============================================================================
