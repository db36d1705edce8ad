------------------------------ MODULE Terminal ------------------------------
(***************************************************************************)
(* The screen of the terminal engine: qwertty-term-vt/src/terminal/mod.rs, *)
(* terminal/print.rs, terminal/screen_set.rs and the part of screen/mod.rs *)
(* they call.  A screen is a grid of cells, a cursor and a saved cursor;   *)
(* the margins and the modes belong to the terminal and are shared by the  *)
(* primary and the alternate screen.                                       *)
(*                                                                         *)
(* A cell keeps what the operations tell apart: which character it shows,  *)
(* whether it is half of a wide character (or the filler that a wide       *)
(* character left behind at the end of a wrapped row), and whether it is   *)
(* protected.  Colours, styles, hyperlinks, combining characters (mode     *)
(* 2027 is off), semantic prompts, charsets, tab stops, dirty bits and the *)
(* rows of the scrollback are left out.                                    *)
(***************************************************************************)
EXTENDS Integers, Sequences, SequencesExt

CONSTANTS
    Rows, Cols,     \* size of the grid
    NarrowChars,    \* characters of width 1
    WideChars,      \* characters of width 2
    Runs,           \* the runs of characters the stream hands to print_slice
    SlowRuns,       \* runs printed one character at a time (REP, print_string)
    Counts,         \* the counts of the operations that take one
    VertMargins,    \* the <<top, bottom>> requests of DECSTBM, 1-based
    HorizMargins,   \* the <<left, right>> requests of DECSLRM, 1-based
    ModeChanges,    \* the modes an application sets and resets
    Starts,         \* modes, margins and printed text of the initial states
    MaxSteps        \* bound on the number of operations

ASSUME SizeAssumption == Rows \in Nat \ {0} /\ Cols \in Nat \ {0, 1}
ASSUME CharsAssumption ==
    /\ NarrowChars \cap WideChars = {}
    /\ "none" \notin NarrowChars \cup WideChars
    /\ Runs \cup SlowRuns \subseteq Seq(NarrowChars \cup WideChars)
ASSUME ArgumentAssumption ==
    /\ Counts \subseteq Nat
    /\ VertMargins \cup HorizMargins \subseteq Nat \X Nat

VARIABLES
    screens,  \* screen.primary, screen.alternate: a screen, or NoScreen
    active,   \* ScreenSet::active_key
    region,   \* Terminal::scrolling_region
    modes,    \* the modes that are set
    steps,    \* number of operations performed
    entered   \* history: the primary screen when mode 1049 was last entered

vars == <<screens, active, region, modes, steps, entered>>

-----------------------------------------------------------------------------
(* Cells, rows and screens.                                                *)

Columns == 0 .. Cols - 1
Lines == 0 .. Rows - 1
Modes == {"wraparound", "insert", "origin", "margins", "reverse",
          "reverse_ext", "linefeed"}

Cell(text, wide, prot) == [text |-> text, wide |-> wide, prot |-> prot]
Blank == Cell("none", "narrow", FALSE)
Row(cell) == [cells |-> [x \in Columns |-> cell], wrap |-> FALSE, cont |-> FALSE]
BlankRow == Row(Blank)

\* SavedCursor, without style and charset.
HomeCursor == [x |-> 0, y |-> 0, pending |-> FALSE, prot |-> FALSE,
               origin |-> FALSE]

NewScreen(scrollback) ==
    [rows |-> [y \in Lines |-> BlankRow], x |-> 0, y |-> 0, pending |-> FALSE,
     prot |-> FALSE, pmode |-> "off", saved |-> HomeCursor,
     scrollback |-> scrollback]
NoScreen == [rows |-> <<>>]

Regions == {reg \in [top : Lines, bottom : Lines, left : Columns, right : Columns] :
              reg.top <= reg.bottom /\ reg.left < reg.right}
ASSUME ModesAssumption ==
    /\ ModeChanges \subseteq Modes
    /\ \A start \in Starts : /\ start.modes \subseteq Modes
                             /\ start.region \in Regions
                             /\ start.text \in Seq(NarrowChars \cup WideChars)

FullRegion == [top |-> 0, bottom |-> Rows - 1, left |-> 0, right |-> Cols - 1]

Width(c) == IF c \in WideChars THEN 2 ELSE 1
Least(a, b) == IF a < b THEN a ELSE b
Most(a, b) == IF a < b THEN b ELSE a
AtLeastOne(n) == Most(n, 1)

FullWidth == region.left = 0 /\ region.right = Cols - 1
InRegion(s) == /\ s.y \in region.top .. region.bottom
               /\ s.x \in region.left .. region.right

\* The row with the cells [l, e) blank: clear_cells, the flags of the row stay.
Filled(r, l, e) ==
    [r EXCEPT !.cells = [x \in Columns |-> IF x \in l .. e - 1 THEN Blank ELSE @[x]]]

\* clear_unprotected_cells: only the cells that are not protected.
FilledUnprotected(r, l, e) ==
    [r EXCEPT !.cells = [x \in Columns |->
        IF x \in l .. e - 1 /\ ~@[x].prot THEN Blank ELSE @[x]]]

Fill(s, y, l, e) == [s EXCEPT !.rows[y] = Filled(@, l, e)]
CellAt(s) == s.rows[s.y].cells[s.x]
Put(s, cell) == [s EXCEPT !.rows[s.y].cells[s.x] = cell]
SetWrap(s, b) == [s EXCEPT !.rows[s.y].wrap = b]
Unpended(s) == [s EXCEPT !.pending = FALSE]
At(s, x, y) == [s EXCEPT !.x = x, !.y = y]
Right(s, n) == [s EXCEPT !.x = @ + n]

\* The row with a filler at its end turned into an ordinary blank.
WithoutHead(r) ==
    IF r.cells[Cols - 1].wide = "head"
    THEN [r EXCEPT !.cells[Cols - 1].wide = "narrow"] ELSE r

-----------------------------------------------------------------------------
(* Moving the cursor.                                                      *)

CursorUp(s, n) ==
    LET room == IF s.y >= region.top THEN s.y - region.top ELSE s.y
    IN  Unpended(At(s, s.x, s.y - Least(room, AtLeastOne(n))))

CursorDown(s, n) ==
    LET room == IF s.y <= region.bottom THEN region.bottom - s.y
                                        ELSE Rows - s.y - 1
    IN  Unpended(At(s, s.x, s.y + Least(room, AtLeastOne(n))))

(* Mutant of CursorRight: outside the margins the cursor runs off the screen. *)
CursorRightUnbounded(s, n) ==
    LET room == IF s.x <= region.right THEN region.right - s.x ELSE Cols - s.x
    IN  Unpended(Right(s, Least(room, AtLeastOne(n))))

CursorRight(s, n) ==
    LET room == IF s.x <= region.right THEN region.right - s.x
                                       ELSE Cols - s.x - 1
    IN  Unpended(Right(s, Least(room, AtLeastOne(n))))

\* A turn of cursor_left's loop in the reverse-wrap modes, with b.todo columns
\* to go: to the left margin at most, then to the end of the line above.
ReverseWrap(b, turn) ==
    LET extended == "reverse_ext" \in modes
        amount == Least(b.s.x - b.margin, b.todo)
        t == Right(b.s, -amount)
        left == b.todo - amount
        above == IF t.y = region.top THEN region.bottom ELSE t.y - 1
        blocked == IF t.y = region.top THEN ~extended
                   ELSE t.y = 0 \/ (~extended /\ ~t.rows[t.y - 1].wrap)
    IN  IF b.todo = 0 THEN b
        ELSE IF left = 0 \/ blocked THEN [b EXCEPT !.s = t, !.todo = 0]
        ELSE [b EXCEPT !.s = At(t, region.right, above), !.todo = left - 1]

Turns(n) == [i \in 1 .. n |-> i]

CursorLeft(s, n) ==
    LET wraps == "wraparound" \in modes /\ modes \cap {"reverse", "reverse_ext"} # {}
        extended == "reverse_ext" \in modes
        leftMargin == IF s.x < region.left THEN 0 ELSE region.left
        todo == AtLeastOne(n) - (IF s.pending THEN 1 ELSE 0)
    IN  IF ~wraps
        THEN Unpended(Right(s, -Least(AtLeastOne(n), s.x)))
        ELSE IF s.x = leftMargin /\ ~extended /\ s.y <= region.top
        THEN Unpended(At(s, leftMargin, region.top))
        ELSE FoldLeft(ReverseWrap,
                      [s |-> Unpended(s), todo |-> todo, margin |-> leftMargin],
                      Turns(todo)).s

\* Origin mode and the margins are arguments: the setters call it with the new.
SetCursorPos(s, reg, origin, row, col) ==
    LET x0 == IF origin THEN reg.left ELSE 0
        y0 == IF origin THEN reg.top ELSE 0
        xmax == IF origin THEN reg.right + 1 ELSE Cols
        ymax == IF origin THEN reg.bottom + 1 ELSE Rows
    IN  Unpended(At(s, Least(xmax, AtLeastOne(col) + x0) - 1,
                       Least(ymax, AtLeastOne(row) + y0) - 1))

CarriageReturn(s) ==
    Unpended(At(s, IF "origin" \in modes \/ s.x >= region.left
                   THEN region.left ELSE 0, s.y))

SaveCursor(s) ==
    [s EXCEPT !.saved = [x |-> s.x, y |-> s.y, pending |-> s.pending,
                         prot |-> s.prot, origin |-> "origin" \in modes]]

RestoreCursor(s) ==
    [At(s, Least(s.saved.x, Cols - 1), Least(s.saved.y, Rows - 1))
        EXCEPT !.pending = s.saved.pending, !.prot = s.saved.prot]

ModesAfterRestore(s) ==
    IF s.saved.origin THEN modes \cup {"origin"} ELSE modes \ {"origin"}

-----------------------------------------------------------------------------
(* Inserting and deleting lines.                                           *)

(* Mutant of WillBeShifted: only the left margin is looked at. *)
WillBeShiftedLeftOnly(r) ==
    LET straddles == r.cells[region.left].wide = "tail"
    IN  [WithoutHead(r) EXCEPT !.cells = [x \in Columns |->
            IF straddles /\ x \in {region.left - 1, region.left} THEN Blank ELSE @[x]]]

\* row_will_be_shifted: wide characters that straddle a margin are blanked,
\* and a filler at the end is, when the wide character after it may move.
WillBeShifted(r) ==
    LET headless == IF region.right = Cols - 1 \/ region.left < 2
                    THEN WithoutHead(r) ELSE r
        L == region.left
        R == region.right
        straddlesLeft == headless.cells[L].wide = "tail"
        straddlesRight == headless.cells[R].wide = "wide"
        Halved(c) == [c EXCEPT !.wide = "narrow"]
        Emptied(c) == [c EXCEPT !.wide = "narrow", !.text = "none"]
    IN  [headless EXCEPT !.cells = [x \in Columns |->
            IF straddlesLeft /\ x = L - 1 THEN Emptied(@[x])
            ELSE IF straddlesLeft /\ x = L THEN Halved(@[x])
            ELSE IF straddlesRight /\ x = R THEN Emptied(@[x])
            ELSE IF straddlesRight /\ x = R + 1 THEN Halved(@[x])
            ELSE @[x]]]

Unwrapped(r) == [r EXCEPT !.wrap = FALSE, !.cont = FALSE]

(* Mutant of WithSegment: the cell at the right margin stays behind. *)
WithSegmentShort(r, src) ==
    [r EXCEPT !.cells = [x \in Columns |->
        IF x \in region.left .. region.right - 1 THEN src.cells[x] ELSE @[x]]]

\* The row whose cells between the margins come from src (move_cells).
WithSegment(r, src) ==
    [r EXCEPT !.cells = [x \in Columns |->
        IF x \in region.left .. region.right THEN src.cells[x] ELSE @[x]]]

(* Mutant of Cleared: the whole line is cleared, not the part between the margins. *)
ClearedWhole(r) == Filled(r, 0, Cols)

Cleared(r) == Filled(r, region.left, region.right + 1)

\* The lines first .. region.bottom after each took the contents of the line
\* "by" below it; a line with no source in the range is cleared.  A full-width line
\* moves whole and loses its wrap flags, and so does the line it displaces
\* ("touched"); otherwise only the cells between the margins move.
Shifted(s, first, by, touched) ==
    LET fixed(y) == WillBeShifted(s.rows[y])
    IN  [s EXCEPT !.rows = [y \in Lines |->
            IF y \notin first .. region.bottom THEN s.rows[y]
            ELSE IF y + by \in first .. region.bottom
            THEN IF FullWidth THEN Unwrapped(fixed(y + by))
                              ELSE WithSegment(fixed(y), fixed(y + by))
            ELSE IF FullWidth /\ y \in touched THEN Unwrapped(Cleared(fixed(y)))
            ELSE Cleared(fixed(y))]]

InsertLines(s, n) ==
    IF n = 0 \/ ~InRegion(s) THEN s
    ELSE LET rem == region.bottom - s.y + 1
             adj == Least(n, rem)
             t == Shifted(s, s.y, -adj, s.y .. s.y + rem - adj - 1)
         IN  Unpended(At(t, region.left, s.y))

DeleteLines(s, n) ==
    IF n = 0 \/ ~InRegion(s) THEN s
    ELSE LET rem == region.bottom - s.y + 1
             adj == Least(n, rem)
             t == Shifted(s, s.y, adj, s.y + adj .. region.bottom)
         IN  Unpended(At(t, region.left, s.y))

\* Runs an operation with the cursor elsewhere, then puts the cursor back.
Restored(s, t) == [At(t, s.x, s.y) EXCEPT !.pending = s.pending]

ScrollDown(s, n) ==
    Restored(s, InsertLines(At(s, region.left, region.top), n))

-----------------------------------------------------------------------------
(* Scrolling.                                                              *)

\* The lines top .. bottom move up by one and "last" comes in below.
RolledUp(s, top, bottom, last) ==
    [s EXCEPT !.rows = [y \in Lines |->
        IF y \in top .. bottom - 1 THEN @[y + 1]
        ELSE IF y = bottom THEN last ELSE @[y]]]

\* With scrollback the page list grows a row; without it, the first row is
\* cleared and becomes the last: its cells are blank, its flags are not.
CursorDownScroll(s) ==
    RolledUp(s, 0, Rows - 1,
             IF s.scrollback THEN BlankRow ELSE Filled(s.rows[0], 0, Cols))

CursorScrollAbove(s) ==
    IF s.y = Rows - 1 THEN CursorDownScroll(s) ELSE RolledUp(s, 0, s.y, BlankRow)

ScrollAboveAgain(s, turn) == CursorScrollAbove(s)

\* The region's top row, cleared, is rotated down to the cursor's row.
CursorScrollRegionUp(s) ==
    RolledUp(s, region.top, s.y, Filled(s.rows[region.top], 0, Cols))

ScrollUp(s, n) ==
    IF region.top = 0 /\ FullWidth /\ (s.scrollback \/ region.bottom = Rows - 1)
    THEN LET times == Least(n, region.bottom + 1)
             go == At(s, 0, region.bottom)
         IN  Restored(s, FoldLeft(ScrollAboveAgain, go, Turns(times)))
    ELSE Restored(s, DeleteLines(At(s, region.left, region.top), n))

Index(s) ==
    LET t == Unpended(s)
        inside == s.y \in region.top .. region.bottom
        scrolls == s.y = region.bottom /\ s.x \in region.left .. region.right
    IN  IF ~inside THEN (IF s.y < Rows - 1 THEN At(t, s.x, s.y + 1) ELSE t)
        ELSE IF scrolls
        THEN IF region.top = 0 /\ FullWidth /\ (s.scrollback \/ region.bottom = 0)
             THEN CursorScrollAbove(t)
             ELSE IF ~FullWidth THEN ScrollUp(t, 1)
             ELSE CursorScrollRegionUp(t)
        ELSE IF s.y < region.bottom THEN At(t, s.x, s.y + 1) ELSE t

ReverseIndex(s) ==
    IF s.y # region.top \/ s.x \notin region.left .. region.right
    THEN CursorUp(s, 1) ELSE ScrollDown(s, 1)

LineFeed(s) ==
    IF "linefeed" \in modes THEN CarriageReturn(Index(s)) ELSE Index(s)

-----------------------------------------------------------------------------
(* Inserting, deleting and erasing cells.                                  *)

InsertBlanks(s0, n) ==
    LET s == Unpended(s0)
        x == s.x
        rem == region.right - x + 1
        adj == Least(n, rem)
        end == x + rem - adj - 1        \* the last cell that stays in the row
        Without(r, at, l, e) == IF r.cells[at].wide = "wide" THEN Filled(r, l, e) ELSE r
        r0 == s.rows[s.y]
        r1 == IF r0.cells[x].wide = "tail" THEN Filled(r0, x - 1, x + 1) ELSE r0
        r2 == Without(r1, region.right, region.right, region.right + 2)
        r3 == IF rem > adj THEN Without(r2, end, end, end + 2) ELSE r2
        r4 == [r3 EXCEPT !.cells = [i \in Columns |->
                IF i \in x + adj .. region.right THEN @[i - adj] ELSE @[i]]]
    IN  IF n = 0 \/ x \notin region.left .. region.right THEN s
        ELSE [s EXCEPT !.rows[s.y] = Filled(r4, x, x + adj)]

ResetWrap(s) ==
    IF ~s.rows[s.y].wrap THEN Unpended(s)
    ELSE LET t == SetWrap(Unpended(s), FALSE)
             u == IF s.y + 1 \in Lines
                  THEN [t EXCEPT !.rows[s.y + 1].cont = FALSE] ELSE t
         IN  IF u.rows[s.y].cells[Cols - 1].wide = "head"
             THEN Fill(u, s.y, Cols - 1, Cols) ELSE u

HasHead(s, y) == y \in Lines /\ s.rows[y].cells[Cols - 1].wide = "head"

SplitCellBoundary(s, x) ==
    LET r == s.rows[s.y]
        clearsHead == x \in {0, 1} /\ r.cont /\ r.cells[0].wide = "wide"
                      /\ HasHead(s, s.y - 1)
        t == IF clearsHead THEN Fill(s, s.y - 1, Cols - 1, Cols) ELSE s
    IN  IF x = Cols
        THEN IF r.wrap /\ HasHead(s, s.y) THEN Fill(s, s.y, Cols - 1, Cols) ELSE s
        ELSE IF x > 0 /\ r.cells[x - 1].wide = "wide"
        THEN Fill(t, s.y, x - 1, x + 1) ELSE t

DeleteChars(s, n) ==
    IF n = 0 \/ s.x \notin region.left .. region.right THEN s
    ELSE LET count == Least(n, region.right - s.x + 1)
             t == SplitCellBoundary(SplitCellBoundary(SplitCellBoundary(
                      s, s.x), s.x + count), region.right + 1)
             kept == s.x .. region.right - count
             cells == [i \in Columns |-> t.rows[s.y].cells[IF i \in kept THEN i + count ELSE i]]
             u == [t EXCEPT !.rows[s.y].cells = cells]
         IN  ResetWrap(Fill(u, s.y, region.right - count + 1, region.right + 1))

EraseCells(s, protected, l, e) ==
    [s EXCEPT !.rows[s.y] = IF protected THEN FilledUnprotected(@, l, e)
                                         ELSE Filled(@, l, e)]

EraseChars(s, n) ==
    LET remaining == Cols - s.x
        asked == Least(remaining, AtLeastOne(n))
        splits == asked # remaining /\ s.rows[s.y].cells[s.x + asked - 1].wide = "wide"
        count == IF splits THEN asked + 1 ELSE asked
        t == SplitCellBoundary(SplitCellBoundary(s, s.x), s.x + count)
    IN  EraseCells(ResetWrap(t), s.pmode = "iso", s.x, s.x + count)

EraseProtected(s, req) == s.pmode = "iso" \/ req

EraseLine(s, mode, req) ==
    LET p == EraseProtected(s, req)
    IN  CASE mode = "right" ->
               LET from == IF s.x > 0 /\ CellAt(s).wide = "tail" THEN s.x - 1 ELSE s.x
               IN  EraseCells(ResetWrap(s), p, from, Cols)
          [] mode = "left" ->
               LET to == IF CellAt(s).wide = "wide" THEN s.x + 1 ELSE s.x
               IN  EraseCells(Unpended(s), p, 0, to + 1)
          [] mode = "complete" -> EraseCells(Unpended(s), p, 0, Cols)

\* clear_rows: an unprotected row is reset, flags and all.
ClearRows(s, ys, protected) ==
    [s EXCEPT !.rows = [y \in Lines |->
        IF y \notin ys THEN @[y]
        ELSE IF protected THEN FilledUnprotected(@[y], 0, Cols) ELSE BlankRow]]

EraseDisplay(s, mode, req) ==
    LET p == EraseProtected(s, req)
    IN  CASE mode = "complete" -> Unpended(ClearRows(s, Lines, p))
          [] mode = "below" -> ClearRows(EraseLine(s, "right", req), s.y + 1 .. Rows - 1, p)
          [] mode = "above" -> ClearRows(EraseLine(s, "left", req), 0 .. s.y - 1, p)

-----------------------------------------------------------------------------
(* Printing.                                                               *)

RightLimit(s) == IF s.x > region.right THEN Cols ELSE region.right + 1

ClearStaleSpacerHead(s) ==
    IF s.y = 0 \/ s.x > 1 THEN s ELSE [s EXCEPT !.rows[s.y - 1] = WithoutHead(@)]

\* The other half of the wide character a new cell overwrites.
FixWide(s, wide) ==
    IF CellAt(s).wide = wide THEN s
    ELSE CASE CellAt(s).wide = "wide" /\ s.x < Cols - 1 ->
                ClearStaleSpacerHead(Fill(s, s.y, s.x + 1, s.x + 2))
           [] CellAt(s).wide = "tail" ->
                ClearStaleSpacerHead(Fill(s, s.y, s.x - 1, s.x))
           [] OTHER -> s

PrintCell(s, c, wide) == Put(FixWide(s, wide), Cell(c, wide, s.prot))

PrintWrap(s) ==
    LET mark == s.x = Cols - 1
        t == Index(IF mark THEN SetWrap(s, TRUE) ELSE s)
        u == At(t, region.left, t.y)
    IN  IF mark THEN [u EXCEPT !.rows[u.y].cont = TRUE] ELSE u

\* The cell that a wide character does not fit in, and the wrap after it.
PrintNoRoom(s, limit) ==
    PrintWrap(IF limit = Cols THEN PrintCell(SetWrap(s, TRUE), "none", "head")
                              ELSE PrintCell(s, "none", "narrow"))

Advance(s, limit) ==
    IF s.x = limit - 1 THEN [s EXCEPT !.pending = TRUE] ELSE Right(s, 1)

Wrapped(s) == IF s.pending /\ "wraparound" \in modes THEN PrintWrap(s) ELSE s
Opened(s, c) ==
    IF "insert" \in modes /\ s.x + Width(c) < Cols THEN InsertBlanks(s, Width(c)) ELSE s

Written(s, c, limit) ==
    LET noRoom == s.x = limit - 1
        t == IF noRoom THEN PrintNoRoom(s, limit) ELSE s
    IN  IF Width(c) = 1 THEN Advance(PrintCell(s, c, "narrow"), limit)
        ELSE IF limit - region.left <= 1 THEN Advance(PrintCell(s, "none", "narrow"), limit)
        ELSE IF noRoom /\ "wraparound" \notin modes THEN s
        ELSE Advance(PrintCell(Right(PrintCell(t, c, "wide"), 1), "none", "tail"), limit)

\* print: the right limit is the one of the position before the wrap.
PrintChar(s, c) == Written(Opened(Wrapped(s), c), c, RightLimit(s))

PrintEach(s, run) == FoldLeft(PrintChar, s, run)

\* print_slice_fast and print_slice_fill.  A batch is the longest prefix of
\* characters of one width; it is written row by row into cells that are all
\* narrow, and the first cell that is not sends the next character to print.
SameWidth(run) == SelectInSeq(run, LAMBDA c : Width(c) # Width(run[1]))
BatchLength(run) == IF SameWidth(run) = 0 THEN Len(run) ELSE SameWidth(run) - 1

\* The number of cells from the cursor on, at most n, that are simple.
Simple(s, n) ==
    LET stop == SelectInSeq([i \in 1 .. n |-> s.rows[s.y].cells[s.x + i - 1]],
                            LAMBDA c : c.wide # "narrow")
    IN  IF stop = 0 THEN n ELSE stop - 1

(* Mutant of FillCells: a row that is filled to the limit leaves no pending wrap. *)
FillCellsNotPending(s, run, count, limit) ==
    LET w == Width(run[1])
        last == s.x + count * w - 1
        new(x) == LET i == x - s.x
                  IN  IF i % w = 0
                      THEN Cell(run[i \div w + 1], IF w = 2 THEN "wide" ELSE "narrow", s.prot)
                      ELSE Cell("none", "tail", s.prot)
        t == [s EXCEPT !.rows[s.y].cells =
                [x \in Columns |-> IF x \in s.x .. last THEN new(x) ELSE @[x]]]
    IN  At(t, Least(last + 1, limit - 1), s.y)

\* The batch's next characters written at the cursor, which moves behind them.
FillCells(s, run, count, limit) ==
    LET w == Width(run[1])
        last == s.x + count * w - 1
        new(x) == LET i == x - s.x
                  IN  IF i % w = 0
                      THEN Cell(run[i \div w + 1], IF w = 2 THEN "wide" ELSE "narrow", s.prot)
                      ELSE Cell("none", "tail", s.prot)
        t == [s EXCEPT !.rows[s.y].cells =
                [x \in Columns |-> IF x \in s.x .. last THEN new(x) ELSE @[x]]]
    IN  IF last + 1 >= limit THEN [At(t, last, s.y) EXCEPT !.pending = TRUE]
        ELSE At(t, last + 1, s.y)

\* The screen and the characters that are left after a turn of the loop, and
\* whether print has to take over.  A wide character with one column of room
\* wraps first and is written by the next turn.
FillRow(s, batch) ==
    LET w == Width(batch[1])
        limit == RightLimit(s)
        avail == limit - s.x
        count == Least(avail \div w, Len(batch))
        written == Simple(s, count * w) \div w
        stop == [s |-> s, left |-> batch, stop |-> TRUE]
    IN  IF w = 2 /\ limit - region.left <= 1 THEN stop
        ELSE IF w = 2 /\ avail = 1
        THEN IF CellAt(s).wide # "narrow" THEN stop
             ELSE [stop EXCEPT !.s = PrintNoRoom(s, limit), !.stop = FALSE]
        ELSE IF written = 0 THEN stop
        ELSE [s |-> FillCells(s, batch, written, limit),
              left |-> SubSeq(batch, written + 1, Len(batch)),
              stop |-> written < count]

FillOn(r, turn) ==
    IF r.left = <<>> \/ r.stop THEN r
    ELSE FillRow(IF r.s.pending THEN PrintWrap(r.s) ELSE r.s, r.left)

PrintSliceFill(s, batch) ==
    FoldLeft(FillOn, [s |-> s, left |-> batch, stop |-> FALSE], batch \o batch)

Consumed(filled, n) == [s |-> filled.s, consumed |-> n - Len(filled.left)]

PrintSliceFast(s, run) ==
    IF "insert" \in modes \/ "wraparound" \notin modes
    THEN [s |-> s, consumed |-> 0]
    ELSE Consumed(PrintSliceFill(s, SubSeq(run, 1, BatchLength(run))), BatchLength(run))

\* A turn of print_slice's loop: as much as goes in a batch, or else one
\* character through print.
PrintRest(fast, run) ==
    IF fast.consumed > 0
    THEN [s |-> fast.s, rest |-> SubSeq(run, fast.consumed + 1, Len(run))]
    ELSE [s |-> PrintChar(fast.s, Head(run)), rest |-> Tail(run)]

PrintOn(r, turn) ==
    IF r.rest = <<>> THEN r ELSE PrintRest(PrintSliceFast(r.s, r.rest), r.rest)

PrintSlice(s, run) == FoldLeft(PrintOn, [s |-> s, rest |-> run], run).s

-----------------------------------------------------------------------------
(* The terminal: two screens, the margins and the modes.                   *)

Screen == screens[active]

\* A session that has set modes and margins and then printed something.
Init ==
    /\ active = "primary"
    /\ \E start \in Starts :
         /\ modes = start.modes
         /\ region = start.region
         /\ screens = [primary |-> PrintEach(NewScreen(TRUE), start.text),
                       alternate |-> NoScreen]
    /\ steps = 0
    /\ entered = NoScreen

Step == steps < MaxSteps /\ steps' = steps + 1

\* An operation of the active screen alone.  Writing to the primary screen ends
\* the history of the last entry into the alternate one.
Becomes(s) ==
    /\ Step
    /\ screens' = [screens EXCEPT ![active] = s]
    /\ entered' = IF active = "primary" THEN NoScreen ELSE entered

Pure(s) == Becomes(s) /\ UNCHANGED <<active, region, modes>>

PrintRun(run) == Pure(PrintSlice(Screen, run))
PrintSlow(run) == Pure(PrintEach(Screen, run))

Move ==
    \/ Pure(CarriageReturn(Screen))
    \/ \E n \in Counts : \/ Pure(CursorUp(Screen, n))
                         \/ Pure(CursorDown(Screen, n))
                         \/ Pure(CursorRight(Screen, n))
                         \/ Pure(CursorLeft(Screen, n))

Position(row, col) ==
    Pure(SetCursorPos(Screen, region, "origin" \in modes, row, col))

Feed == \/ Pure(Index(Screen))
        \/ Pure(LineFeed(Screen))
        \/ Pure(ReverseIndex(Screen))

ScrollLines ==
    \E n \in Counts : \/ Pure(InsertLines(Screen, n))
                      \/ Pure(DeleteLines(Screen, n))
                      \/ Pure(ScrollUp(Screen, n))
                      \/ Pure(ScrollDown(Screen, n))

EditCells ==
    \E n \in Counts : \/ Pure(InsertBlanks(Screen, n))
                      \/ Pure(DeleteChars(Screen, n))
                      \/ Pure(EraseChars(Screen, n))

Erase ==
    \E req \in BOOLEAN :
        \/ \E m \in {"right", "left", "complete"} : Pure(EraseLine(Screen, m, req))
        \/ \E m \in {"below", "above", "complete"} : Pure(EraseDisplay(Screen, m, req))

\* set_protected_mode: pmode is never put back to off.
SetProtectedMode(m) ==
    Pure(IF m = "off" THEN [Screen EXCEPT !.prot = FALSE]
                      ELSE [Screen EXCEPT !.prot = TRUE, !.pmode = m])

SaveCursorOp == Pure(SaveCursor(Screen))

RestoreCursorOp ==
    /\ Becomes(RestoreCursor(Screen))
    /\ modes' = ModesAfterRestore(Screen)
    /\ UNCHANGED <<active, region>>

SetRegion(reg) ==
    /\ region' = reg
    /\ Becomes(SetCursorPos(Screen, reg, "origin" \in modes, 1, 1))
    /\ UNCHANGED <<active, modes>>

SetTopAndBottomMargin(top, bottom) ==
    LET b == IF bottom = 0 THEN Rows ELSE Least(bottom, Rows)
        t == AtLeastOne(top)
    IN  t < b /\ SetRegion([region EXCEPT !.top = t - 1, !.bottom = b - 1])

SetLeftAndRightMargin(left, right) ==
    LET r == IF right = 0 THEN Cols ELSE Least(right, Cols)
        l == AtLeastOne(left)
    IN  /\ "margins" \in modes
        /\ l < r
        /\ SetRegion([region EXCEPT !.left = l - 1, !.right = r - 1])

\* SM and RM with the side effects of apply_mode_side_effects.
SetMode(m, on) ==
    LET set == IF on THEN modes \cup {m} ELSE modes \ {m}
    IN  /\ modes' = set
        /\ region' = IF m = "margins" /\ ~on
                     THEN [region EXCEPT !.left = 0, !.right = Cols - 1] ELSE region
        /\ Becomes(IF m = "origin" THEN SetCursorPos(Screen, region, on, 1, 1) ELSE Screen)
        /\ UNCHANGED active

\* decaln: margins and origin mode are reset, every cell becomes an E.
Decaln ==
    /\ region' = FullRegion
    /\ modes' = modes \ {"origin"}
    /\ \E c \in NarrowChars :
         Becomes(Unpended([At(Screen, 0, 0) EXCEPT
                   !.rows = [y \in Lines |-> Row(Cell(c, "narrow", FALSE))]]))
    /\ UNCHANGED active

\* cursor_copy: position, pending wrap and protection of the other cursor.
CursorCopy(s, from) ==
    [At(s, from.x, from.y) EXCEPT !.pending = from.pending, !.prot = from.prot]

GetInit(key) ==
    IF screens[key] = NoScreen THEN NewScreen(FALSE) ELSE screens[key]

\* switch_screen_mode for 47 and 1047, enabled.
EnterAlternate ==
    /\ Step
    /\ active' = "alternate"
    /\ screens' = [screens EXCEPT !.alternate =
         IF active = "primary" THEN CursorCopy(GetInit("alternate"), screens.primary) ELSE @]
    /\ entered' = NoScreen
    /\ UNCHANGED <<region, modes>>

\* 47 and 1047, disabled; 1047 clears the alternate screen first.
LeaveAlternate(clears) ==
    LET alt == IF clears THEN EraseDisplay(Screen, "complete", FALSE) ELSE Screen
    IN  /\ Step
        /\ active' = "primary"
        /\ screens' =
             IF active = "primary" THEN screens
             ELSE [primary |-> CursorCopy(screens.primary, alt), alternate |-> alt]
        /\ entered' = NoScreen
        /\ UNCHANGED <<region, modes>>

(* Mutant of Enter1049: the alternate screen is cleared before the switch. *)
Enter1049ClearsFirst ==
    LET saved == EraseDisplay(SaveCursor(Screen), "complete", FALSE)
        fresh == IF active = "primary" THEN GetInit("alternate") ELSE saved
    IN  /\ Step
        /\ active' = "alternate"
        /\ screens' = IF active = "primary"
                      THEN [primary |-> saved, alternate |-> CursorCopy(fresh, saved)]
                      ELSE [screens EXCEPT !.alternate = fresh]
        /\ entered' = IF active = "primary" THEN SaveCursor(Screen) ELSE entered
        /\ UNCHANGED <<region, modes>>

\* 1049, enabled: the cursor is saved, the alternate screen is cleared.
Enter1049 ==
    LET saved == SaveCursor(Screen)
        fresh == EraseDisplay(IF active = "primary" THEN GetInit("alternate") ELSE saved,
                              "complete", FALSE)
    IN  /\ Step
        /\ active' = "alternate"
        /\ screens' = IF active = "primary"
                      THEN [primary |-> saved, alternate |-> CursorCopy(fresh, saved)]
                      ELSE [screens EXCEPT !.alternate = fresh]
        /\ entered' = IF active = "primary" THEN saved ELSE entered
        /\ UNCHANGED <<region, modes>>

\* 1049, disabled: the primary screen's saved cursor is restored.
Leave1049 ==
    /\ Step
    /\ active' = "primary"
    /\ screens' = [screens EXCEPT !.primary = RestoreCursor(@)]
    /\ modes' = ModesAfterRestore(screens.primary)
    /\ entered' = NoScreen
    /\ UNCHANGED region

\* RIS.  Screen::reset leaves protected_mode as it was.
FullReset ==
    /\ Step
    /\ active' = "primary"
    /\ screens' = [primary |-> [NewScreen(TRUE) EXCEPT !.pmode = screens.primary.pmode],
                   alternate |-> NoScreen]
    /\ region' = FullRegion
    /\ modes' = {"wraparound"}
    /\ entered' = NoScreen

Next ==
    \/ \E run \in Runs : PrintRun(run)
    \/ \E run \in SlowRuns : PrintSlow(run)
    \/ Move
    \/ \E row \in 1 .. Rows, col \in 1 .. Cols : Position(row, col)
    \/ Feed \/ ScrollLines \/ EditCells \/ Erase
    \/ \E m \in {"off", "iso", "dec"} : SetProtectedMode(m)
    \/ SaveCursorOp \/ RestoreCursorOp
    \/ \E m \in VertMargins : SetTopAndBottomMargin(m[1], m[2])
    \/ \E m \in HorizMargins : SetLeftAndRightMargin(m[1], m[2])
    \/ \E m \in ModeChanges : \E on \in BOOLEAN : SetMode(m, on)
    \/ Decaln
    \/ EnterAlternate
    \/ \E clears \in BOOLEAN : LeaveAlternate(clears)
    \/ Enter1049 \/ Leave1049
    \/ FullReset

Spec == Init /\ [][Next]_vars

-----------------------------------------------------------------------------
(* What must hold.                                                         *)

Live == {k \in {"primary", "alternate"} : screens[k] # NoScreen}

\* The cursor is inside the grid, the margins enclose at least one cell (two
\* columns), and the active screen exists.
TypeOK ==
    /\ active \in Live
    /\ modes \subseteq Modes
    /\ region \in Regions
    /\ \A k \in Live : /\ screens[k].x \in Columns
                       /\ screens[k].y \in Lines
                       /\ DOMAIN screens[k].rows = Lines

\* No operation cuts a wide character in two (Page::verify_integrity): a tail
\* follows its wide half, a wide half has its tail, and a filler stands only in
\* the last column of a row that wraps.
WideIntact ==
    \A k \in Live : \A y \in Lines : \A x \in Columns :
        LET r == screens[k].rows[y]
        IN  /\ r.cells[x].wide = "tail" => x > 0 /\ r.cells[x - 1].wide = "wide"
            /\ r.cells[x].wide = "wide" => x + 1 \in Columns /\ r.cells[x + 1].wide = "tail"
            /\ r.cells[x].wide = "head" => x = Cols - 1 /\ r.wrap

\* Both at once: no operation leaves a cursor, a margin or a character that the
\* next operation could not work with.
ScreenIntact == TypeOK /\ WideIntact

\* The row-filling batch leaves the screen that printing one by one would have,
\* unless a wrap takes the cursor from the right of the margins to margins that a
\* wide character fills (see SliceIsPrint).
MatchesPrint(run) == PrintSlice(Screen, run) = PrintEach(Screen, run)
SliceMatchesPrint ==
    \/ Screen.x > region.right /\ region.right = region.left + 1
    \/ \A run \in Runs : MatchesPrint(run)

\* "Semantically identical to calling print for each codepoint in order", from
\* wherever the cursor is.
SliceIsPrint == \A run \in Runs : MatchesPrint(run)

\* A scroll, or an insertion or deletion of lines, changes nothing outside the
\* margins, except that a wide character cut by a margin, and the filler at the
\* end of a row, become blanks there.
Blanked(c, d) == c.wide # "narrow" /\ d = [c EXCEPT !.wide = "narrow", !.text = "none"]
ScrollKeepsOutside ==
    [][Feed \/ ScrollLines =>
        \A y \in Lines, x \in Columns :
            \/ y \in region.top .. region.bottom /\ x \in region.left .. region.right
            \/ Screen'.rows[y].cells[x] = Screen.rows[y].cells[x]
            \/ /\ x \in {region.left - 1, region.right + 1, Cols - 1}
               /\ Blanked(Screen.rows[y].cells[x], Screen'.rows[y].cells[x])]_vars

\* Deleting the lines just inserted puts every line that was not pushed out of
\* the region back: cells moved between the margins, whole characters at them.
DeleteUndoesInsert ==
    \A n \in Counts :
        n > 0 /\ InRegion(Screen) =>
            LET t == DeleteLines(InsertLines(Screen, n), n)
            IN  \A y \in Screen.y .. region.bottom - n :
                    t.rows[y].cells = WillBeShifted(Screen.rows[y]).cells

\* Leaving mode 1049 gives back the primary screen, the cursor, its pending wrap
\* and origin mode as they were on entry, whatever ran on the alternate screen.
Leave1049Restores ==
    [][Leave1049 /\ entered # NoScreen =>
        /\ screens'.primary = entered
        /\ "origin" \in modes' <=> entered.saved.origin]_vars

=============================================================================
