---------------------------- MODULE TerminalProofs ----------------------------
(***************************************************************************)
(* Terminal: what every operation leaves of a screen, for every size of    *)
(* the grid, every set of characters and every sequence of operations.     *)
(*                                                                         *)
(* A row is Whole when its wide characters are, and a screen is Good when  *)
(* its rows are whole and its cursors inside the grid.  The lemmas follow  *)
(* the operators of Terminal: first rows, then the operations of a screen, *)
(* then the actions.                                                       *)
(***************************************************************************)
EXTENDS Terminal, TLAPS

Texts == NarrowChars \cup WideChars \cup {"none"}
(* Only the first half of a wide character and a narrow cell show anything. *)
Cells == {c \in [text : Texts, wide : {"narrow", "wide", "tail", "head"}, prot : BOOLEAN] :
            c.wide \in {"tail", "head"} => c.text = "none"}
CellRows == [Columns -> Cells]
RowSet == [cells : CellRows, wrap : BOOLEAN, cont : BOOLEAN]

(* The halves of a wide character are together, and equally protected, and a *)
(* filler is at the end.                                                     *)
WholeCells(f) ==
    \A x \in Columns :
        /\ f[x].wide = "tail" => x > 0 /\ f[x - 1].wide = "wide" /\ f[x - 1].prot = f[x].prot
        /\ f[x].wide = "wide" => x + 1 \in Columns /\ f[x + 1].wide = "tail"
        /\ f[x].wide = "head" => x = Cols - 1

Whole(r) ==
    /\ r \in RowSet
    /\ WholeCells(r.cells)
    /\ r.cells[Cols - 1].wide = "head" => r.wrap

(* No wide character is across the boundary to the left of column x.        *)
Uncut(f, x) == x \in Columns => f[x].wide # "tail"

(* The columns of the grid, the first, the second and the last among them.  *)
LEMMA ColumnsIs == /\ Columns = 0 .. Cols - 1 /\ 0 \in Columns /\ Cols - 1 \in Columns
                   /\ 1 \in Columns
                   /\ Columns \subseteq Nat /\ Cols \in Nat /\ Cols >= 2
                   /\ \A x \in Columns : x \in Nat /\ x < Cols
  BY SizeAssumption DEF Columns

(* The lines of the grid, the first and the last among them.                *)
LEMMA LinesIs == /\ Lines = 0 .. Rows - 1 /\ 0 \in Lines /\ Rows - 1 \in Lines
                 /\ Lines \subseteq Nat /\ Rows \in Nat /\ Rows >= 1
                 /\ \A y \in Lines : y \in Nat /\ y < Rows
  BY SizeAssumption DEF Lines

(* The blank cell is a narrow cell that shows nothing and is not protected. *)
LEMMA BlankIs == /\ Blank \in Cells /\ Blank.wide = "narrow" /\ Blank.prot = FALSE
                 /\ Blank.text = "none"
  BY DEF Blank, Cell, Cells, Texts

(* What Cell builds is a cell, with the parts it is given.                  *)
LEMMA CellIs ==
    ASSUME NEW t \in Texts, NEW w \in {"narrow", "wide", "tail", "head"}, NEW p \in BOOLEAN,
           w \in {"tail", "head"} => t = "none"
    PROVE  /\ Cell(t, w, p) \in Cells /\ Cell(t, w, p).wide = w
           /\ Cell(t, w, p).prot = p /\ Cell(t, w, p).text = t
  BY DEF Cell, Cells

(* The parts of the cells of a row.                                         *)
LEMMA CellsAre ==
    ASSUME NEW f \in CellRows
    PROVE  /\ DOMAIN f = Columns
           /\ \A x \in Columns : /\ f[x] \in Cells
                                 /\ f[x].text \in Texts /\ f[x].prot \in BOOLEAN
                                 /\ f[x].wide \in {"narrow", "wide", "tail", "head"}
                                 /\ f[x].wide \in {"tail", "head"} => f[x].text = "none"
                                 /\ f[x] = Cell(f[x].text, f[x].wide, f[x].prot)
  BY DEF CellRows, Cells, Cell

(* A cell that loses its width or its character.                            *)
LEMMA NarrowedIs ==
    ASSUME NEW c \in Cells
    PROVE  /\ [c EXCEPT !.wide = "narrow"] \in Cells
           /\ [c EXCEPT !.wide = "narrow"].wide = "narrow"
           /\ [c EXCEPT !.wide = "narrow"].prot = c.prot
           /\ [c EXCEPT !.wide = "narrow", !.text = "none"] \in Cells
           /\ [c EXCEPT !.wide = "narrow", !.text = "none"].wide = "narrow"
           /\ [c EXCEPT !.wide = "narrow", !.text = "none"].prot = c.prot
           /\ c.text = "none" =>
                [c EXCEPT !.wide = "narrow"] = [c EXCEPT !.wide = "narrow", !.text = "none"]
  BY DEF Cells, Texts

(* h is f with the columns l .. e - 1 taken from g, d columns further on.   *)
SegmentOf(f, g, h, l, e, d) ==
    /\ h = [x \in Columns |-> h[x]]
    /\ \A x \in Columns : x \in l .. e - 1 =>
           x + d \in Columns /\ g[x + d].wide # "head" /\ h[x] = g[x + d]
    /\ \A x \in Columns : x \notin l .. e - 1 => h[x] = f[x]

(* A segment of whole characters in the place of another.                   *)
LEMMA Pasted ==
    ASSUME NEW f \in CellRows, NEW g \in CellRows, WholeCells(f), WholeCells(g),
           NEW l \in Nat, NEW e \in Nat, NEW d \in Int, NEW h, e <= Cols,
           Uncut(f, l), Uncut(f, e), Uncut(g, l + d), Uncut(g, e + d),
           SegmentOf(f, g, h, l, e, d)
    PROVE  /\ h \in CellRows /\ WholeCells(h)
           /\ h[Cols - 1].wide = "head" => f[Cols - 1].wide = "head"
           /\ Uncut(h, l) /\ Uncut(h, e)
  <1>0. /\ h = [x \in Columns |-> h[x]]
        /\ \A x \in Columns : x \in l .. e - 1 =>
               x + d \in Columns /\ g[x + d].wide # "head" /\ h[x] = g[x + d]
        /\ \A x \in Columns : x \notin l .. e - 1 => h[x] = f[x]
    BY DEF SegmentOf
  <1> USE <1>0
  <1>1. h \in CellRows
    <2>1. ASSUME NEW x \in Columns PROVE h[x] \in Cells
      BY DEF CellRows
    <2> QED BY <2>1 DEF CellRows
  <1>2. ASSUME NEW x \in Columns, h[x].wide = "tail"
        PROVE  x > 0 /\ h[x - 1].wide = "wide" /\ h[x - 1].prot = h[x].prot
    <2>1. CASE x \in l .. e - 1
      <3>1. h[x] = g[x + d] /\ x + d \in Columns
        BY <2>1
      <3>2. x # l
        BY <1>2, <3>1 DEF Uncut
      <3>3. x - 1 \in l .. e - 1 /\ x - 1 \in Columns
        BY <2>1, <3>2, ColumnsIs
      <3>4. x + d > 0 /\ g[(x + d) - 1].wide = "wide" /\ g[(x + d) - 1].prot = g[x + d].prot
        BY <1>2, <3>1 DEF WholeCells
      <3>5. h[x - 1] = g[(x - 1) + d] /\ (x - 1) + d = (x + d) - 1 /\ x > 0
        BY <3>3, ColumnsIs
      <3> QED BY <1>2, <3>1, <3>4, <3>5
    <2>2. CASE x \notin l .. e - 1
      <3>1. h[x] = f[x] /\ x > 0 /\ f[x - 1].wide = "wide" /\ f[x - 1].prot = f[x].prot
        BY <1>2, <2>2 DEF WholeCells
      <3>2. x # e
        BY <1>2, <3>1 DEF Uncut
      <3>3. x - 1 \in Columns /\ x - 1 \notin l .. e - 1
        BY <2>2, <3>1, <3>2, ColumnsIs
      <3> QED BY <1>2, <3>1, <3>3
    <2> QED BY <2>1, <2>2
  <1>3. ASSUME NEW x \in Columns, h[x].wide = "wide"
        PROVE  x + 1 \in Columns /\ h[x + 1].wide = "tail"
    <2>1. CASE x \in l .. e - 1
      <3>1. h[x] = g[x + d] /\ x + d \in Columns
        BY <2>1
      <3>4. (x + d) + 1 \in Columns /\ g[(x + d) + 1].wide = "tail"
        BY <1>3, <3>1 DEF WholeCells
      <3>2. x + 1 # e
        <4>1. CASE x + 1 = e
          <5>1. (x + d) + 1 = e + d
            BY <4>1, <3>1, ColumnsIs
          <5> QED BY <3>4, <5>1 DEF Uncut
        <4> QED BY <4>1
      <3>3. x + 1 \in l .. e - 1 /\ x + 1 \in Columns
        BY <2>1, <3>2, ColumnsIs
      <3>5. h[x + 1] = g[(x + 1) + d] /\ (x + 1) + d = (x + d) + 1
        BY <3>3, ColumnsIs
      <3> QED BY <3>3, <3>4, <3>5
    <2>2. CASE x \notin l .. e - 1
      <3>1. h[x] = f[x] /\ x + 1 \in Columns /\ f[x + 1].wide = "tail"
        BY <1>3, <2>2 DEF WholeCells
      <3>2. x + 1 # l
        BY <3>1 DEF Uncut
      <3>3. x + 1 \notin l .. e - 1
        BY <2>2, <3>1, <3>2, ColumnsIs
      <3> QED BY <3>1, <3>3
    <2> QED BY <2>1, <2>2
  <1>4. ASSUME NEW x \in Columns, h[x].wide = "head"
        PROVE  x = Cols - 1 /\ h[x] = f[x]
    <2>1. x \notin l .. e - 1
      BY <1>4
    <2>2. h[x] = f[x]
      BY <2>1
    <2> QED BY <1>4, <2>2 DEF WholeCells
  <1>5. WholeCells(h)
    <2>1. ASSUME NEW x \in Columns
          PROVE  /\ h[x].wide = "tail" => x > 0 /\ h[x - 1].wide = "wide" /\ h[x - 1].prot = h[x].prot
                 /\ h[x].wide = "wide" => x + 1 \in Columns /\ h[x + 1].wide = "tail"
                 /\ h[x].wide = "head" => x = Cols - 1
      BY <1>2, <1>3, <1>4
    <2> QED BY <2>1 DEF WholeCells
  <1>6. Uncut(h, l)
    <2>1. SUFFICES ASSUME l \in Columns PROVE h[l].wide # "tail"
      BY DEF Uncut
    <2>2. CASE l \in l .. e - 1
      BY <2>1, <2>2 DEF Uncut
    <2>3. CASE l \notin l .. e - 1
      BY <2>1, <2>3 DEF Uncut
    <2> QED BY <2>2, <2>3
  <1>7. Uncut(h, e)
    <2>1. SUFFICES ASSUME e \in Columns PROVE h[e].wide # "tail"
      BY DEF Uncut
    <2>2. e \notin l .. e - 1
      OBVIOUS
    <2> QED BY <2>1, <2>2 DEF Uncut
  <1>8. h[Cols - 1].wide = "head" => f[Cols - 1].wide = "head"
    BY <1>4, ColumnsIs
  <1> QED BY <1>1, <1>5, <1>6, <1>7, <1>8

(* Blanks in the place of whole characters.                                 *)
LEMMA FilledWhole ==
    ASSUME NEW r, Whole(r), NEW l \in Nat, NEW e \in Nat, e <= Cols,
           Uncut(r.cells, l), Uncut(r.cells, e)
    PROVE  /\ Whole(Filled(r, l, e))
           /\ Uncut(Filled(r, l, e).cells, l) /\ Uncut(Filled(r, l, e).cells, e)
  <1> DEFINE f == r.cells
             b == [x \in Columns |-> Blank]
             h == [x \in Columns |-> IF x \in l .. e - 1 THEN Blank ELSE f[x]]
  <1>1. r \in RowSet /\ f \in CellRows /\ WholeCells(f)
    BY DEF Whole, RowSet
  <1>2. b \in CellRows /\ WholeCells(b) /\ Uncut(b, l) /\ Uncut(b, e)
    BY BlankIs DEF CellRows, WholeCells, Uncut
  <1>3. Filled(r, l, e) = [r EXCEPT !.cells = h]
    BY DEF Filled
  <1>4. \A x \in Columns : b[x] = Blank /\ h[x] = IF x \in l .. e - 1 THEN Blank ELSE f[x]
    OBVIOUS
  <1>5. h = [x \in Columns |-> h[x]]
    OBVIOUS
  <1> HIDE DEF h, b, f
  <1>6. /\ h \in CellRows /\ WholeCells(h)
        /\ h[Cols - 1].wide = "head" => f[Cols - 1].wide = "head"
        /\ Uncut(h, l) /\ Uncut(h, e)
    <2>1. l + 0 = l /\ e + 0 = e /\ \A x \in Columns : x + 0 = x
      BY ColumnsIs
    <2>2. \A x \in Columns : x \in l .. e - 1 =>
               x + 0 \in Columns /\ b[x + 0].wide # "head" /\ h[x] = b[x + 0]
      BY <1>4, <2>1, BlankIs
    <2>3. \A x \in Columns : x \notin l .. e - 1 => h[x] = f[x]
      BY <1>4
    <2>4. Uncut(f, l) /\ Uncut(f, e) /\ Uncut(b, l + 0) /\ Uncut(b, e + 0)
      BY <1>2, <2>1 DEF f
    <2>5. SegmentOf(f, b, h, l, e, 0)
      BY <1>5, <2>2, <2>3 DEF SegmentOf
    <2> QED BY <1>1, <1>2, <2>4, <2>5, Pasted
  <1>7. Filled(r, l, e).cells = h /\ Filled(r, l, e) \in RowSet /\ Filled(r, l, e).wrap = r.wrap
    BY <1>1, <1>3, <1>6 DEF RowSet
  <1> QED BY <1>6, <1>7 DEF Whole, f

(* Only blanks where it is not protected: both halves are or neither.       *)
LEMMA FilledUnprotectedWhole ==
    ASSUME NEW r, Whole(r), NEW l \in Nat, NEW e \in Nat, e <= Cols,
           Uncut(r.cells, l), Uncut(r.cells, e)
    PROVE  Whole(FilledUnprotected(r, l, e))
  <1> DEFINE f == r.cells
             h == [x \in Columns |-> IF x \in l .. e - 1 /\ ~f[x].prot THEN Blank ELSE f[x]]
  <1>1. r \in RowSet /\ f \in CellRows /\ WholeCells(f)
    BY DEF Whole, RowSet
  <1>3. FilledUnprotected(r, l, e) = [r EXCEPT !.cells = h]
    BY DEF FilledUnprotected
  <1>2. h \in CellRows
    BY <1>1, BlankIs DEF CellRows
  <1>4. \A x \in Columns : h[x] = IF x \in l .. e - 1 /\ ~f[x].prot THEN Blank ELSE f[x]
    OBVIOUS
  <1> HIDE DEF h
  <1>5. Uncut(f, l) /\ Uncut(f, e)
    OBVIOUS
  <1> HIDE DEF f
  <1>6. ASSUME NEW x \in Columns, h[x].wide = "tail"
        PROVE  x > 0 /\ h[x - 1].wide = "wide" /\ h[x - 1].prot = h[x].prot
    <2>1. h[x] = f[x] /\ (x \in l .. e - 1 => f[x].prot)
      BY <1>4, <1>6, BlankIs
    <2>2. x > 0 /\ f[x - 1].wide = "wide" /\ f[x - 1].prot = f[x].prot
      BY <1>1, <1>6, <2>1 DEF WholeCells
    <2>3. x # l /\ x # e /\ x - 1 \in Columns
      BY <1>5, <1>6, <2>1, <2>2, ColumnsIs DEF Uncut
    <2>4. x - 1 \in l .. e - 1 <=> x \in l .. e - 1
      BY <2>3, ColumnsIs
    <2>5. h[x - 1] = f[x - 1]
      BY <1>4, <2>1, <2>2, <2>3, <2>4
    <2> QED BY <2>1, <2>2, <2>5
  <1>7. ASSUME NEW x \in Columns, h[x].wide = "wide"
        PROVE  x + 1 \in Columns /\ h[x + 1].wide = "tail"
    <2>1. h[x] = f[x] /\ (x \in l .. e - 1 => f[x].prot)
      BY <1>4, <1>7, BlankIs
    <2>2. x + 1 \in Columns /\ f[x + 1].wide = "tail"
      BY <1>1, <1>7, <2>1 DEF WholeCells
    <2>3. x + 1 # l /\ x + 1 # e
      BY <1>5, <2>2 DEF Uncut
    <2>6. f[(x + 1) - 1].prot = f[x + 1].prot /\ (x + 1) - 1 = x
      BY <1>1, <2>2, ColumnsIs DEF WholeCells
    <2>4. x + 1 \in l .. e - 1 <=> x \in l .. e - 1
      BY <2>3, ColumnsIs
    <2>5. h[x + 1] = f[x + 1]
      BY <1>4, <2>1, <2>2, <2>6, <2>4
    <2> QED BY <2>2, <2>5
  <1>8. ASSUME NEW x \in Columns, h[x].wide = "head" PROVE x = Cols - 1 /\ h[x] = f[x]
    BY <1>1, <1>4, <1>8, BlankIs DEF WholeCells
  <1>9. WholeCells(h)
    BY <1>6, <1>7, <1>8 DEF WholeCells
  <1>10. /\ FilledUnprotected(r, l, e).cells = h /\ FilledUnprotected(r, l, e) \in RowSet
         /\ FilledUnprotected(r, l, e).wrap = r.wrap
    BY <1>1, <1>2, <1>3 DEF RowSet
  <1> QED BY <1>8, <1>9, <1>10, ColumnsIs DEF Whole, f

-----------------------------------------------------------------------------
(* Rows: shifting, cutting at the margins, clearing.                        *)

(* Cells that lose their character without a half left over.                *)
LEMMA NarrowedWhole ==
    ASSUME NEW f \in CellRows, WholeCells(f), NEW h, h = [x \in Columns |-> h[x]],
           \A x \in Columns : \/ h[x] = f[x]
                              \/ h[x] \in Cells /\ h[x].wide = "narrow",
           \A x \in Columns : x + 1 \in Columns =>
               (h[x] = f[x] /\ f[x].wide = "wide" <=> h[x + 1] = f[x + 1] /\ f[x + 1].wide = "tail")
    PROVE  /\ h \in CellRows /\ WholeCells(h)
           /\ h[Cols - 1].wide = "head" => f[Cols - 1].wide = "head"
  <1>1. h \in CellRows
    <2>1. \A x \in Columns : h[x] \in Cells
      BY DEF CellRows
    <2> QED BY <2>1 DEF CellRows
  <1>2. ASSUME NEW x \in Columns, h[x].wide = "tail"
        PROVE  x > 0 /\ h[x - 1].wide = "wide" /\ h[x - 1].prot = h[x].prot
    <2>1. h[x] = f[x] /\ x > 0 /\ f[x - 1].wide = "wide" /\ f[x - 1].prot = f[x].prot
      BY <1>2 DEF WholeCells
    <2>2. x - 1 \in Columns /\ (x - 1) + 1 = x
      BY <2>1, ColumnsIs
    <2>3. h[x - 1] = f[x - 1]
      BY <1>2, <2>1, <2>2
    <2> QED BY <2>1, <2>3
  <1>3. ASSUME NEW x \in Columns, h[x].wide = "wide"
        PROVE  x + 1 \in Columns /\ h[x + 1].wide = "tail"
    <2>1. h[x] = f[x] /\ x + 1 \in Columns /\ f[x + 1].wide = "tail"
      BY <1>3 DEF WholeCells
    <2>2. h[x + 1] = f[x + 1]
      BY <1>3, <2>1
    <2> QED BY <2>1, <2>2
  <1>4. ASSUME NEW x \in Columns, h[x].wide = "head" PROVE x = Cols - 1 /\ h[x] = f[x]
    BY <1>4 DEF WholeCells
  <1>5. WholeCells(h)
    BY <1>2, <1>3, <1>4 DEF WholeCells
  <1> QED BY <1>1, <1>4, <1>5, ColumnsIs

(* A row without its filler is whole, its other cells and its flags are as before. *)
LEMMA WithoutHeadWhole ==
    ASSUME NEW r, Whole(r)
    PROVE  /\ Whole(WithoutHead(r)) /\ WithoutHead(r).cells[Cols - 1].wide # "head"
           /\ WithoutHead(r).wrap = r.wrap /\ WithoutHead(r).cont = r.cont
           /\ \A x \in Columns : /\ WithoutHead(r).cells[x].wide = "tail" <=> r.cells[x].wide = "tail"
                                 /\ WithoutHead(r).cells[x].wide = "wide" <=> r.cells[x].wide = "wide"
                                 /\ \/ WithoutHead(r).cells[x] = r.cells[x]
                                    \/ /\ x = Cols - 1 /\ Blanked(r.cells[x], WithoutHead(r).cells[x])
                                       /\ r.cells[x].wide = "head"
  <1> DEFINE f == r.cells
             h == [f EXCEPT ![Cols - 1].wide = "narrow"]
  <1>1. r \in RowSet /\ f \in CellRows /\ WholeCells(f)
    BY DEF Whole, RowSet
  <1>2. CASE f[Cols - 1].wide # "head"
    BY <1>2 DEF WithoutHead
  <1>3. CASE f[Cols - 1].wide = "head"
    <2>1. WithoutHead(r) = [r EXCEPT !.cells = h]
      BY <1>1, <1>3 DEF WithoutHead, RowSet
    <2>2. /\ \A x \in Columns : x # Cols - 1 => h[x] = f[x]
          /\ h[Cols - 1] \in Cells /\ h[Cols - 1].wide = "narrow"
          /\ h = [x \in Columns |-> h[x]]
      <3>1. f[Cols - 1] \in Cells /\ DOMAIN f = Columns
        BY <1>1, ColumnsIs, CellsAre
      <3>2. h = [x \in Columns |-> IF x = Cols - 1 THEN [f[x] EXCEPT !.wide = "narrow"] ELSE f[x]]
        BY <3>1, ColumnsIs
      <3> HIDE DEF h, f
      <3> QED BY <3>1, <3>2, ColumnsIs, NarrowedIs
    <2>9. Blanked(f[Cols - 1], h[Cols - 1])
      <3>1. f[Cols - 1] \in Cells /\ DOMAIN f = Columns /\ f[Cols - 1].text = "none"
        BY <1>1, <1>3, ColumnsIs, CellsAre
      <3>2. h[Cols - 1] = [f[Cols - 1] EXCEPT !.wide = "narrow"]
        BY <3>1, ColumnsIs
      <3> HIDE DEF h, f
      <3> QED BY <1>3, <3>1, <3>2, NarrowedIs DEF Blanked
    <2> HIDE DEF h, f
    <2>3. \A x \in Columns : h[x] = f[x] \/ (h[x] \in Cells /\ h[x].wide = "narrow")
      BY <2>2
    <2>4. ASSUME NEW x \in Columns, x + 1 \in Columns
          PROVE  h[x] = f[x] /\ f[x].wide = "wide" <=> h[x + 1] = f[x + 1] /\ f[x + 1].wide = "tail"
      <3>1. x # Cols - 1 /\ h[x] = f[x]
        BY <2>2, <2>4, ColumnsIs
      <3>2. f[x].wide = "wide" <=> f[x + 1].wide = "tail"
        <4>1. (x + 1) - 1 = x
          BY ColumnsIs
        <4> QED BY <1>1, <2>4, <4>1 DEF WholeCells
      <3>3. f[x + 1].wide = "tail" => x + 1 # Cols - 1
        BY <1>3
      <3> QED BY <2>2, <2>4, <3>1, <3>2, <3>3
    <2>5. h \in CellRows /\ WholeCells(h)
      BY <1>1, <2>2, <2>3, <2>4, NarrowedWhole
    <2>6. /\ WithoutHead(r) \in RowSet /\ WithoutHead(r).cells = h
          /\ WithoutHead(r).wrap = r.wrap /\ WithoutHead(r).cont = r.cont
      BY <1>1, <2>1, <2>5 DEF RowSet
    <2>7. ASSUME NEW x \in Columns
          PROVE  /\ h[x].wide = "tail" <=> f[x].wide = "tail"
                 /\ h[x].wide = "wide" <=> f[x].wide = "wide"
                 /\ h[x] = f[x] \/ (x = Cols - 1 /\ Blanked(f[x], h[x]) /\ f[x].wide = "head")
      BY <1>3, <2>2, <2>9
    <2> QED BY <1>3, <2>2, <2>5, <2>6, <2>7 DEF Whole, f
  <1> QED BY <1>2, <1>3

RegionOK == region \in Regions

(* The margins lie in the grid, in order, and enclose two columns at least. *)
LEMMA RegionIs ==
    ASSUME RegionOK
    PROVE  /\ region.top \in Lines /\ region.bottom \in Lines /\ region.top <= region.bottom
           /\ region.left \in Columns /\ region.right \in Columns /\ region.left < region.right
           /\ region.left \in Nat /\ region.right \in Nat /\ region.right + 1 <= Cols
           /\ region.top \in Nat /\ region.bottom \in Nat /\ region.bottom < Rows
  BY ColumnsIs, LinesIs DEF RegionOK, Regions

(* A row ready to be cut at the margins.                                    *)
Cuttable(r) ==
    /\ Whole(r)
    /\ Uncut(r.cells, region.left) /\ Uncut(r.cells, region.right + 1)
    /\ region.right = Cols - 1 => r.cells[Cols - 1].wide # "head"

(* row_will_be_shifted leaves what it does not blank.                       *)
ShiftedCells(f) ==
    [x \in Columns |->
        IF f[region.left].wide = "tail" /\ x = region.left - 1
        THEN [f[x] EXCEPT !.wide = "narrow", !.text = "none"]
        ELSE IF f[region.left].wide = "tail" /\ x = region.left THEN [f[x] EXCEPT !.wide = "narrow"]
        ELSE IF f[region.right].wide = "wide" /\ x = region.right
        THEN [f[x] EXCEPT !.wide = "narrow", !.text = "none"]
        ELSE IF f[region.right].wide = "wide" /\ x = region.right + 1
        THEN [f[x] EXCEPT !.wide = "narrow"] ELSE f[x]]

(* row_will_be_shifted leaves whole characters, none of them across a margin. *)
LEMMA ShiftedCellsIs ==
    ASSUME NEW f \in CellRows, WholeCells(f), RegionOK
    PROVE  /\ ShiftedCells(f) \in CellRows /\ WholeCells(ShiftedCells(f))
           /\ Uncut(ShiftedCells(f), region.left) /\ Uncut(ShiftedCells(f), region.right + 1)
           /\ \A x \in Columns :
                \/ ShiftedCells(f)[x] = f[x]
                \/ /\ x \in {region.left - 1, region.left, region.right, region.right + 1}
                   /\ f[x].wide \in {"wide", "tail"}
                   /\ Blanked(f[x], ShiftedCells(f)[x])
  <1> DEFINE L == region.left
             R == region.right
             h == ShiftedCells(f)
             sl == f[L].wide = "tail"
             sr == f[R].wide = "wide"
             touched == {x \in Columns : (sl /\ x \in {L - 1, L}) \/ (sr /\ x \in {R, R + 1})}
  <1>1. L \in Columns /\ R \in Columns /\ L \in Nat /\ R \in Nat /\ L < R
    BY RegionIs
  <1>2. sl => L > 0 /\ L - 1 \in Columns /\ f[L - 1].wide = "wide"
    BY <1>1, ColumnsIs DEF WholeCells
  <1>3. sr => R + 1 \in Columns /\ f[R + 1].wide = "tail"
    BY <1>1 DEF WholeCells
  <1>4. ASSUME NEW x \in touched
        PROVE  f[x].wide \in {"wide", "tail"} /\ Blanked(f[x], h[x]) /\ h[x].wide = "narrow" /\ h[x] \in Cells
    <2>1. f[x] \in Cells /\ (f[x].wide = "tail" => f[x].text = "none") /\ x \in Columns
      BY CellsAre
    <2>2. f[x].wide \in {"wide", "tail"}
      BY <1>2, <1>3
    <2>3. h[x] = [f[x] EXCEPT !.wide = "narrow", !.text = "none"] \/
            (h[x] = [f[x] EXCEPT !.wide = "narrow"] /\ f[x].wide = "tail")
      <3>1. CASE sl /\ x = L - 1
        BY <2>1, <3>1 DEF ShiftedCells
      <3>2. CASE sl /\ x = L
        BY <2>1, <3>2, <1>1 DEF ShiftedCells
      <3>3. CASE sr /\ x = R /\ ~(sl /\ x \in {L - 1, L})
        BY <2>1, <3>3 DEF ShiftedCells
      <3>4. CASE sr /\ x = R + 1 /\ ~(sl /\ x \in {L - 1, L})
        BY <1>1, <2>1, <3>4, <1>3 DEF ShiftedCells
      <3> QED BY <3>1, <3>2, <3>3, <3>4
    <2> HIDE DEF h
    <2> QED BY <2>1, <2>2, <2>3, NarrowedIs DEF Blanked
  <1>5. ASSUME NEW x \in Columns, x \notin touched PROVE h[x] = f[x]
    BY <1>5 DEF ShiftedCells
  <1>6. h = [x \in Columns |-> h[x]]
    BY DEF ShiftedCells
  <1>7. \A x \in Columns : h[x] = f[x] \/ (h[x] \in Cells /\ h[x].wide = "narrow")
    BY <1>4, <1>5
  <1> HIDE DEF h
  <1>8. ASSUME NEW x \in Columns, x + 1 \in Columns
        PROVE  h[x] = f[x] /\ f[x].wide = "wide" <=> h[x + 1] = f[x + 1] /\ f[x + 1].wide = "tail"
    <2>1. f[x].wide = "wide" <=> f[x + 1].wide = "tail"
      <3>1. (x + 1) - 1 = x
        BY ColumnsIs
      <3> QED BY <1>8, <3>1 DEF WholeCells
    <2>2. CASE f[x].wide = "wide"
      <3>1. x \in touched <=> x + 1 \in touched
        <4>1. x \in Nat
          BY ColumnsIs
        <4>2. x \in touched => x + 1 \in touched
          BY <1>1, <1>2, <1>3, <2>1, <2>2, <4>1, <1>8
        <4>3. x + 1 \in touched => x \in touched
          BY <1>1, <1>2, <1>3, <2>1, <2>2, <4>1, <1>8
        <4> QED BY <4>2, <4>3
      <3>2. CASE x \in touched
        <4>1. h[x] # f[x] /\ h[x + 1] # f[x + 1]
          BY <1>4, <2>1, <2>2, <3>1, <3>2
        <4> QED BY <4>1
      <3>3. CASE x \notin touched
        BY <1>5, <1>8, <2>1, <2>2, <3>1, <3>3
      <3> QED BY <3>2, <3>3
    <2> QED BY <2>1, <2>2
  <1>9. h \in CellRows /\ WholeCells(h)
    BY <1>6, <1>7, <1>8, NarrowedWhole
  <1>10. Uncut(h, L)
    <2>1. CASE sl
      BY <1>1, <1>4, <2>1 DEF Uncut
    <2>2. CASE ~sl
      <3>1. h[L].wide = "tail" => h[L] = f[L]
        BY <1>1, <1>7
      <3> QED BY <1>1, <2>2, <3>1 DEF Uncut
    <2> QED BY <2>1, <2>2
  <1>11. Uncut(h, R + 1)
    <2>1. SUFFICES ASSUME R + 1 \in Columns PROVE h[R + 1].wide # "tail"
      BY DEF Uncut
    <2>2. CASE sr
      BY <1>4, <2>1, <2>2
    <2>3. CASE ~sr
      <3>1. f[R + 1].wide # "tail"
        <4>1. (R + 1) - 1 = R
          BY <1>1
        <4> QED BY <2>1, <2>3, <4>1 DEF WholeCells
      <3> QED BY <1>7, <2>1, <3>1
    <2> QED BY <2>2, <2>3
  <1>12. ASSUME NEW x \in Columns
         PROVE  \/ h[x] = f[x]
                \/ /\ x \in {region.left - 1, region.left, region.right, region.right + 1}
                   /\ f[x].wide \in {"wide", "tail"}
                   /\ Blanked(f[x], h[x])
    BY <1>4, <1>5
  <1> QED BY <1>9, <1>10, <1>11, <1>12 DEF h

(* row_will_be_shifted clears the filler where it must, then the halves at the margins. *)
LEMMA WillBeShiftedIs ==
    ASSUME NEW r, Whole(r), RegionOK
    PROVE  \E q : /\ q = IF region.right = Cols - 1 \/ region.left < 2 THEN WithoutHead(r) ELSE r
                  /\ Whole(q) /\ q.wrap = r.wrap /\ q.cont = r.cont
                  /\ WillBeShifted(r) = [q EXCEPT !.cells = ShiftedCells(q.cells)]
  <1> DEFINE q == IF region.right = Cols - 1 \/ region.left < 2 THEN WithoutHead(r) ELSE r
  <1>1. Whole(q) /\ q.wrap = r.wrap /\ q.cont = r.cont
    BY WithoutHeadWhole
  <1>2. WillBeShifted(r) = [q EXCEPT !.cells = ShiftedCells(q.cells)]
    <2>1. q \in RowSet
      BY <1>1 DEF Whole
    <2> QED BY <2>1 DEF WillBeShifted, ShiftedCells, RowSet
  <1> QED BY <1>1, <1>2

(* The row it leaves can be cut at the margins; it differs only by blanks at them. *)
LEMMA WillBeShiftedWhole ==
    ASSUME NEW r, Whole(r), RegionOK
    PROVE  /\ Cuttable(WillBeShifted(r))
           /\ WillBeShifted(r).wrap = r.wrap /\ WillBeShifted(r).cont = r.cont
           /\ \A x \in Columns :
                \/ WillBeShifted(r).cells[x] = r.cells[x]
                \/ /\ x \in {region.left - 1, region.left, region.right, region.right + 1, Cols - 1}
                   /\ Blanked(r.cells[x], WillBeShifted(r).cells[x])
  <1>1. PICK q : /\ q = IF region.right = Cols - 1 \/ region.left < 2 THEN WithoutHead(r) ELSE r
                 /\ Whole(q) /\ q.wrap = r.wrap /\ q.cont = r.cont
                 /\ WillBeShifted(r) = [q EXCEPT !.cells = ShiftedCells(q.cells)]
    BY WillBeShiftedIs
  <1> DEFINE f == q.cells
             h == ShiftedCells(f)
             w == WillBeShifted(r)
  <1>2. q \in RowSet /\ f \in CellRows /\ WholeCells(f) /\ (f[Cols - 1].wide = "head" => q.wrap)
    BY <1>1 DEF Whole, RowSet
  <1>3. /\ h \in CellRows /\ WholeCells(h)
        /\ Uncut(h, region.left) /\ Uncut(h, region.right + 1)
        /\ \A x \in Columns :
                \/ h[x] = f[x]
                \/ /\ x \in {region.left - 1, region.left, region.right, region.right + 1}
                   /\ f[x].wide \in {"wide", "tail"}
                   /\ Blanked(f[x], h[x])
    BY <1>2, ShiftedCellsIs
  <1>4. w \in RowSet /\ w.cells = h /\ w.wrap = r.wrap /\ w.cont = r.cont
    BY <1>1, <1>2, <1>3 DEF RowSet
  <1>5. \A x \in Columns : \/ f[x] = r.cells[x]
                           \/ x = Cols - 1 /\ Blanked(r.cells[x], f[x]) /\ r.cells[x].wide = "head"
    BY <1>1, WithoutHeadWhole
  <1>6. region.right = Cols - 1 => f[Cols - 1].wide # "head"
    BY <1>1, WithoutHeadWhole
  <1> HIDE DEF f, h, w
  <1>7. h[Cols - 1].wide = "head" => f[Cols - 1].wide = "head"
    <2>1. \A c \in Cells : \A d : Blanked(c, d) => d.wide = "narrow"
      BY NarrowedIs DEF Blanked
    <2>2. f[Cols - 1] \in Cells
      BY <1>2, CellsAre, ColumnsIs
    <2> QED BY <1>3, <2>1, <2>2, ColumnsIs
  <1>8. Whole(w)
    BY <1>1, <1>2, <1>3, <1>4, <1>7 DEF Whole
  <1>9. Cuttable(w)
    BY <1>3, <1>4, <1>6, <1>7, <1>8 DEF Cuttable
  <1>10. ASSUME NEW x \in Columns
         PROVE  \/ w.cells[x] = r.cells[x]
                \/ /\ x \in {region.left - 1, region.left, region.right, region.right + 1, Cols - 1}
                   /\ Blanked(r.cells[x], w.cells[x])
    <2>1. CASE f[x] = r.cells[x]
      BY <1>3, <1>4, <2>1
    <2>2. CASE x = Cols - 1 /\ Blanked(r.cells[x], f[x]) /\ r.cells[x].wide = "head"
      <3>1. f[x].wide = "narrow"
        <4>1. r.cells[x] \in Cells
          BY CellsAre DEF Whole, RowSet
        <4> QED BY <2>2, <4>1, NarrowedIs DEF Blanked
      <3>2. h[x] = f[x]
        BY <1>3, <3>1
      <3> QED BY <1>4, <2>2, <3>2
    <2> QED BY <1>5, <2>1, <2>2
  <1> QED BY <1>4, <1>9, <1>10 DEF w

(* The rows of a shift: a whole row with the segment of another between the *)
(* margins, with blanks there, or without its wrap flags.                   *)
LEMMA WithSegmentWhole ==
    ASSUME NEW r, NEW src, Cuttable(r), Cuttable(src), RegionOK
    PROVE  /\ Cuttable(WithSegment(r, src))
           /\ \A x \in Columns : WithSegment(r, src).cells[x] =
                 IF x \in region.left .. region.right THEN src.cells[x] ELSE r.cells[x]
  <1> DEFINE L == region.left
             R == region.right
             f == r.cells
             g == src.cells
             h == [x \in Columns |-> IF x \in L .. R THEN g[x] ELSE f[x]]
  <1>1. /\ L \in Nat /\ R \in Nat /\ R + 1 <= Cols /\ R + 1 \in Nat /\ (R + 1) - 1 = R
        /\ L + 0 = L /\ (R + 1) + 0 = R + 1 /\ \A x \in Columns : x + 0 = x
    BY RegionIs, ColumnsIs
  <1>2. /\ r \in RowSet /\ f \in CellRows /\ g \in CellRows /\ WholeCells(f) /\ WholeCells(g)
        /\ Uncut(f, L) /\ Uncut(f, R + 1) /\ Uncut(g, L) /\ Uncut(g, R + 1)
        /\ (f[Cols - 1].wide = "head" => r.wrap)
    BY DEF Cuttable, Whole, RowSet
  <1>3. WithSegment(r, src) = [r EXCEPT !.cells = h]
    BY DEF WithSegment
  <1>4. \A x \in Columns : x \in L .. R => g[x].wide # "head"
    BY <1>1, ColumnsIs DEF Cuttable, Whole, WholeCells
  <1>5. h = [x \in Columns |-> h[x]] /\ \A x \in Columns : h[x] = IF x \in L .. R THEN g[x] ELSE f[x]
    OBVIOUS
  <1> HIDE DEF L, R, f, g, h
  <1>6. /\ h \in CellRows /\ WholeCells(h)
        /\ h[Cols - 1].wide = "head" => f[Cols - 1].wide = "head"
        /\ Uncut(h, L) /\ Uncut(h, R + 1)
    <2>1. \A x \in Columns : x \in L .. (R + 1) - 1 =>
             x + 0 \in Columns /\ g[x + 0].wide # "head" /\ h[x] = g[x + 0]
      BY <1>1, <1>4, <1>5
    <2>2. \A x \in Columns : x \notin L .. (R + 1) - 1 => h[x] = f[x]
      BY <1>1, <1>5
    <2>3. Uncut(g, L + 0) /\ Uncut(g, (R + 1) + 0)
      BY <1>1, <1>2
    <2> DEFINE E == R + 1
    <2>4. /\ L \in Nat /\ E \in Nat /\ E <= Cols /\ Uncut(f, E) /\ Uncut(g, E + 0)
          /\ \A x \in Columns : x \in L .. E - 1 =>
                x + 0 \in Columns /\ g[x + 0].wide # "head" /\ h[x] = g[x + 0]
          /\ \A x \in Columns : x \notin L .. E - 1 => h[x] = f[x]
      BY <1>1, <1>2, <2>1, <2>2, <2>3
    <2> HIDE DEF E
    <2>5. /\ h \in CellRows /\ WholeCells(h)
          /\ h[Cols - 1].wide = "head" => f[Cols - 1].wide = "head"
          /\ Uncut(h, L) /\ Uncut(h, E)
      <3>1. SegmentOf(f, g, h, L, E, 0)
        BY <1>5, <2>4 DEF SegmentOf
      <3> QED BY <1>2, <2>3, <2>4, <3>1, Pasted
    <2> QED BY <2>5 DEF E
  <1>7. /\ WithSegment(r, src) \in RowSet /\ WithSegment(r, src).cells = h
        /\ WithSegment(r, src).wrap = r.wrap
    BY <1>2, <1>3, <1>6 DEF RowSet
  <1>8. Whole(WithSegment(r, src))
    BY <1>2, <1>6, <1>7 DEF Whole
  <1>9. R = Cols - 1 => h[Cols - 1].wide # "head"
    BY <1>6 DEF Cuttable, R, f
  <1> QED BY <1>5, <1>6, <1>7, <1>8, <1>9 DEF Cuttable, L, R, f, g

(* Clearing between the margins keeps a row cuttable and its other cells.   *)
LEMMA ClearedIs ==
    ASSUME NEW r, Cuttable(r), RegionOK
    PROVE  /\ Cuttable(Cleared(r))
           /\ \A x \in Columns : Cleared(r).cells[x] =
                 IF x \in region.left .. region.right THEN Blank ELSE r.cells[x]
  <1>1. /\ region.left \in Nat /\ region.right + 1 \in Nat /\ region.right + 1 <= Cols
        /\ (region.right + 1) - 1 = region.right
    BY RegionIs
  <1>2. Whole(Cleared(r)) /\ Uncut(Cleared(r).cells, region.left) /\ Uncut(Cleared(r).cells, region.right + 1)
    BY <1>1, FilledWhole DEF Cuttable, Cleared
  <1>3. \A x \in Columns : Cleared(r).cells[x] =
                 IF x \in region.left .. region.right THEN Blank ELSE r.cells[x]
    BY <1>1 DEF Cleared, Filled, Cuttable, Whole, RowSet
  <1>4. region.right = Cols - 1 => Cleared(r).cells[Cols - 1].wide # "head"
    BY <1>3, BlankIs, ColumnsIs DEF Cuttable
  <1> QED BY <1>2, <1>3, <1>4 DEF Cuttable

(* A row that ends in no filler stays whole without its wrap flags.         *)
LEMMA UnwrappedWhole ==
    ASSUME NEW r, Whole(r), r.cells[Cols - 1].wide # "head"
    PROVE  Whole(Unwrapped(r)) /\ Unwrapped(r).cells = r.cells
  BY DEF Whole, Unwrapped, RowSet

-----------------------------------------------------------------------------
(* Screens, and the cursor that moves on them.                              *)

SavedSet == [x : Columns, y : Lines, pending : BOOLEAN, prot : BOOLEAN, origin : BOOLEAN]
ScreenSet == [rows : [Lines -> RowSet], x : Columns, y : Lines, pending : BOOLEAN,
              prot : BOOLEAN, pmode : {"off", "iso", "dec"}, saved : SavedSet,
              scrollback : BOOLEAN]

Good(s) == s \in ScreenSet /\ \A y \in Lines : Whole(s.rows[y])

(* The parts of a good screen.                                              *)
LEMMA GoodIs ==
    ASSUME NEW s, Good(s)
    PROVE  /\ s \in ScreenSet /\ s.x \in Columns /\ s.y \in Lines /\ s.x \in Nat /\ s.y \in Nat
           /\ s.x < Cols /\ s.y < Rows
           /\ s.pending \in BOOLEAN /\ s.prot \in BOOLEAN /\ s.scrollback \in BOOLEAN
           /\ s.pmode \in {"off", "iso", "dec"} /\ s.saved \in SavedSet
           /\ s.rows \in [Lines -> RowSet] /\ DOMAIN s.rows = Lines
           /\ \A y \in Lines : /\ Whole(s.rows[y]) /\ s.rows[y] \in RowSet
                               /\ s.rows[y].cells \in CellRows /\ WholeCells(s.rows[y].cells)
  BY ColumnsIs, LinesIs DEF Good, ScreenSet, Whole, RowSet

(* A cursor moved inside the grid leaves a good screen.                     *)
LEMMA AtGood ==
    ASSUME NEW s, Good(s), NEW x \in Columns, NEW y \in Lines
    PROVE  /\ Good(At(s, x, y)) /\ At(s, x, y).rows = s.rows
           /\ At(s, x, y).x = x /\ At(s, x, y).y = y
           /\ At(s, x, y).prot = s.prot /\ At(s, x, y).scrollback = s.scrollback
           /\ At(s, x, y).pending = s.pending
  BY DEF Good, ScreenSet, At

(* So does a change of the pending wrap.                                    *)
LEMMA PendingGood ==
    ASSUME NEW s, Good(s), NEW b \in BOOLEAN
    PROVE  /\ Good([s EXCEPT !.pending = b]) /\ [s EXCEPT !.pending = b].rows = s.rows
           /\ [s EXCEPT !.pending = b].x = s.x /\ [s EXCEPT !.pending = b].y = s.y
           /\ [s EXCEPT !.pending = b].prot = s.prot
           /\ [s EXCEPT !.pending = b].scrollback = s.scrollback
           /\ [s EXCEPT !.pending = b].pending = b
  BY DEF Good, ScreenSet

(* In particular its reset.                                                 *)
LEMMA UnpendedGood ==
    ASSUME NEW s, Good(s)
    PROVE  /\ Good(Unpended(s)) /\ Unpended(s).rows = s.rows
           /\ Unpended(s).x = s.x /\ Unpended(s).y = s.y
           /\ Unpended(s).prot = s.prot /\ Unpended(s).scrollback = s.scrollback
           /\ Unpended(s).pending = FALSE
  BY PendingGood DEF Unpended

(* And a move along the line that ends in the grid.                         *)
LEMMA RightGood ==
    ASSUME NEW s, Good(s), NEW n \in Int, s.x + n \in Columns
    PROVE  /\ Good(Right(s, n)) /\ Right(s, n).rows = s.rows
           /\ Right(s, n).x = s.x + n /\ Right(s, n).y = s.y
           /\ Right(s, n).prot = s.prot /\ Right(s, n).scrollback = s.scrollback
           /\ Right(s, n).pending = s.pending
  BY DEF Good, ScreenSet, Right

(* A good screen with other whole rows is good.                             *)
LEMMA RowsGood ==
    ASSUME NEW s, Good(s), NEW R, DOMAIN R = Lines, R = [y \in Lines |-> R[y]],
           \A y \in Lines : Whole(R[y])
    PROVE  /\ Good([s EXCEPT !.rows = R]) /\ [s EXCEPT !.rows = R].rows = R
           /\ [s EXCEPT !.rows = R].x = s.x /\ [s EXCEPT !.rows = R].y = s.y
           /\ [s EXCEPT !.rows = R].prot = s.prot
           /\ [s EXCEPT !.rows = R].scrollback = s.scrollback
           /\ [s EXCEPT !.rows = R].pending = s.pending
  <1>1. R \in [Lines -> RowSet]
    BY DEF Whole
  <1> QED BY <1>1 DEF Good, ScreenSet

(* Or with one other whole row.                                             *)
LEMMA RowGood ==
    ASSUME NEW s, Good(s), NEW y \in Lines, NEW q, Whole(q)
    PROVE  /\ Good([s EXCEPT !.rows[y] = q])
           /\ [s EXCEPT !.rows[y] = q].rows = [s.rows EXCEPT ![y] = q]
           /\ [s EXCEPT !.rows[y] = q].rows[y] = q
           /\ \A z \in Lines : z # y => [s EXCEPT !.rows[y] = q].rows[z] = s.rows[z]
           /\ [s EXCEPT !.rows[y] = q].x = s.x /\ [s EXCEPT !.rows[y] = q].y = s.y
           /\ [s EXCEPT !.rows[y] = q].prot = s.prot
           /\ [s EXCEPT !.rows[y] = q].scrollback = s.scrollback
           /\ [s EXCEPT !.rows[y] = q].pending = s.pending
  <1>1. q \in RowSet
    BY DEF Whole
  <1> QED BY <1>1 DEF Good, ScreenSet

(* The blank row is whole.                                                  *)
LEMMA BlankRowWhole ==
    /\ Whole(BlankRow) /\ BlankRow.wrap = FALSE
    /\ \A x \in Columns : BlankRow.cells[x] = Blank
  BY BlankIs, ColumnsIs DEF BlankRow, Row, Whole, RowSet, CellRows, WholeCells

-----------------------------------------------------------------------------
(* Moving.                                                                  *)

(* The smaller of two numbers is one of them and at most each.              *)
LEMMA LeastIs ==
    ASSUME NEW a \in Int, NEW b \in Int
    PROVE  Least(a, b) \in Int /\ Least(a, b) \in {a, b} /\ Least(a, b) <= a /\ Least(a, b) <= b
  BY DEF Least

(* A count of zero counts as one.                                           *)
LEMMA AtLeastOneIs ==
    ASSUME NEW n \in Nat
    PROVE  AtLeastOne(n) \in Nat /\ AtLeastOne(n) >= 1 /\ (n > 0 => AtLeastOne(n) = n)
  BY DEF AtLeastOne, Most

(* The cursor stays in the grid when it moves up,                           *)
LEMMA CursorUpGood ==
    ASSUME NEW s, Good(s), RegionOK, NEW n \in Nat
    PROVE  Good(CursorUp(s, n)) /\ CursorUp(s, n).rows = s.rows
  <1> DEFINE room == IF s.y >= region.top THEN s.y - region.top ELSE s.y
             y == s.y - Least(room, AtLeastOne(n))
  <1>1. room \in Nat /\ room <= s.y
    BY GoodIs, RegionIs
  <1>2. AtLeastOne(n) \in Nat /\ AtLeastOne(n) >= 1
    BY AtLeastOneIs
  <1> HIDE DEF room
  <1>3. Least(room, AtLeastOne(n)) \in 0 .. room
    BY <1>1, <1>2 DEF Least
  <1>4. y \in Lines /\ s.x \in Columns
    BY <1>1, <1>3, GoodIs, LinesIs
  <1>5. CursorUp(s, n) = Unpended(At(s, s.x, y))
    BY DEF CursorUp, room
  <1> HIDE DEF y
  <1>6. Good(At(s, s.x, y)) /\ At(s, s.x, y).rows = s.rows
    BY <1>4, AtGood
  <1> QED BY <1>5, <1>6, UnpendedGood

(* down,                                                                    *)
LEMMA CursorDownGood ==
    ASSUME NEW s, Good(s), RegionOK, NEW n \in Nat
    PROVE  Good(CursorDown(s, n))
  <1> DEFINE room == IF s.y <= region.bottom THEN region.bottom - s.y ELSE Rows - s.y - 1
             y == s.y + Least(room, AtLeastOne(n))
  <1>1. room \in Nat /\ s.y + room < Rows
    BY GoodIs, RegionIs, LinesIs
  <1>2. AtLeastOne(n) \in Nat /\ AtLeastOne(n) >= 1
    BY AtLeastOneIs
  <1> HIDE DEF room
  <1>3. Least(room, AtLeastOne(n)) \in 0 .. room
    BY <1>1, <1>2 DEF Least
  <1>4. y \in Lines /\ s.x \in Columns
    BY <1>1, <1>3, GoodIs, LinesIs
  <1>5. CursorDown(s, n) = Unpended(At(s, s.x, y))
    BY DEF CursorDown, room
  <1> HIDE DEF y
  <1>6. Good(At(s, s.x, y))
    BY <1>4, AtGood
  <1> QED BY <1>5, <1>6, UnpendedGood

(* to the right, also outside the margins,                                  *)
LEMMA CursorRightGood ==
    ASSUME NEW s, Good(s), RegionOK, NEW n \in Nat
    PROVE  Good(CursorRight(s, n))
  <1> DEFINE room == IF s.x <= region.right THEN region.right - s.x ELSE Cols - s.x - 1
             k == Least(room, AtLeastOne(n))
  <1>1. room \in Nat /\ s.x + room < Cols
    BY GoodIs, RegionIs, ColumnsIs
  <1>2. AtLeastOne(n) \in Nat /\ AtLeastOne(n) >= 1
    BY AtLeastOneIs
  <1> HIDE DEF room
  <1>3. k \in 0 .. room
    BY <1>1, <1>2 DEF Least
  <1>5. CursorRight(s, n) = Unpended(Right(s, k))
    BY DEF CursorRight, room
  <1> HIDE DEF k
  <1>4. s.x + k \in Columns /\ k \in Int
    BY <1>1, <1>3, GoodIs, ColumnsIs
  <1>6. Good(Right(s, k))
    BY <1>4, RightGood
  <1> QED BY <1>5, <1>6, UnpendedGood

(* to a position, with and without origin mode,                             *)
LEMMA SetCursorPosGood ==
    ASSUME NEW s, Good(s), NEW reg \in Regions, NEW origin \in BOOLEAN,
           NEW row \in Nat, NEW col \in Nat
    PROVE  Good(SetCursorPos(s, reg, origin, row, col))
  <1> DEFINE x0 == IF origin THEN reg.left ELSE 0
             y0 == IF origin THEN reg.top ELSE 0
             xmax == IF origin THEN reg.right + 1 ELSE Cols
             ymax == IF origin THEN reg.bottom + 1 ELSE Rows
             x == Least(xmax, AtLeastOne(col) + x0) - 1
             y == Least(ymax, AtLeastOne(row) + y0) - 1
  <1>1. /\ reg.left \in Nat /\ reg.right \in Nat /\ reg.right < Cols /\ reg.left < reg.right
        /\ reg.top \in Nat /\ reg.bottom \in Nat /\ reg.bottom < Rows /\ reg.top <= reg.bottom
    BY ColumnsIs, LinesIs DEF Regions
  <1>2. /\ AtLeastOne(col) \in Nat /\ AtLeastOne(col) >= 1
        /\ AtLeastOne(row) \in Nat /\ AtLeastOne(row) >= 1
    BY AtLeastOneIs
  <1>3. x \in Columns
    BY <1>1, <1>2, ColumnsIs DEF Least
  <1>4. y \in Lines
    BY <1>1, <1>2, LinesIs DEF Least
  <1>5. SetCursorPos(s, reg, origin, row, col) = Unpended(At(s, x, y))
    BY DEF SetCursorPos
  <1> HIDE DEF x, y
  <1>6. Good(At(s, x, y))
    BY <1>3, <1>4, AtGood
  <1> QED BY <1>5, <1>6, UnpendedGood

(* and to the start of the line.                                            *)
LEMMA CarriageReturnGood ==
    ASSUME NEW s, Good(s), RegionOK
    PROVE  Good(CarriageReturn(s)) /\ CarriageReturn(s).rows = s.rows
  <1> DEFINE x == IF "origin" \in modes \/ s.x >= region.left THEN region.left ELSE 0
  <1>1. x \in Columns /\ s.y \in Lines
    BY GoodIs, RegionIs, ColumnsIs
  <1>2. CarriageReturn(s) = Unpended(At(s, x, s.y))
    BY DEF CarriageReturn
  <1> HIDE DEF x
  <1>3. Good(At(s, x, s.y)) /\ At(s, x, s.y).rows = s.rows
    BY <1>1, AtGood
  <1> QED BY <1>2, <1>3, UnpendedGood

(* A saved cursor holds the cursor as it is.                                *)
LEMMA SaveCursorGood ==
    ASSUME NEW s, Good(s)
    PROVE  /\ Good(SaveCursor(s))
           /\ SaveCursor(s).saved.x = s.x /\ SaveCursor(s).saved.y = s.y
           /\ SaveCursor(s).saved.pending = s.pending /\ SaveCursor(s).saved.prot = s.prot
           /\ SaveCursor(s).x = s.x /\ SaveCursor(s).y = s.y
           /\ SaveCursor(s).pending = s.pending /\ SaveCursor(s).prot = s.prot
  <1> DEFINE v == [x |-> s.x, y |-> s.y, pending |-> s.pending, prot |-> s.prot,
                   origin |-> "origin" \in modes]
  <1>1. v \in SavedSet
    BY GoodIs DEF SavedSet
  <1>2. v.x = s.x /\ v.y = s.y /\ v.pending = s.pending /\ v.prot = s.prot
    OBVIOUS
  <1>3. SaveCursor(s) = [s EXCEPT !.saved = v]
    BY DEF SaveCursor
  <1> HIDE DEF v
  <1>4. Good([s EXCEPT !.saved = v])
    BY <1>1 DEF Good, ScreenSet
  <1>5. /\ [s EXCEPT !.saved = v].saved = v
        /\ [s EXCEPT !.saved = v].x = s.x /\ [s EXCEPT !.saved = v].y = s.y
        /\ [s EXCEPT !.saved = v].pending = s.pending /\ [s EXCEPT !.saved = v].prot = s.prot
    BY DEF Good, ScreenSet
  <1> QED BY <1>2, <1>3, <1>4, <1>5

(* A restored cursor is inside the grid.                                    *)
LEMMA RestoreCursorGood ==
    ASSUME NEW s, Good(s)
    PROVE  Good(RestoreCursor(s))
  <1>1. s.saved.x \in Columns /\ s.saved.y \in Lines /\ s.saved.pending \in BOOLEAN /\ s.saved.prot \in BOOLEAN
    BY GoodIs DEF SavedSet
  <1>2. Least(s.saved.x, Cols - 1) \in Columns /\ Least(s.saved.y, Rows - 1) \in Lines
    BY <1>1, ColumnsIs, LinesIs DEF Least
  <1> DEFINE t == At(s, Least(s.saved.x, Cols - 1), Least(s.saved.y, Rows - 1))
  <1>3. Good(t)
    BY <1>2, AtGood
  <1> HIDE DEF t
  <1>4. Good([t EXCEPT !.pending = s.saved.pending, !.prot = s.saved.prot])
    BY <1>1, <1>3 DEF Good, ScreenSet
  <1> QED BY <1>4 DEF RestoreCursor, t

(* What was saved just now is what is restored.                             *)
LEMMA RestoredSaved ==
    ASSUME NEW s, Good(s), s.saved.x = s.x, s.saved.y = s.y,
           s.saved.pending = s.pending, s.saved.prot = s.prot
    PROVE  RestoreCursor(s) = s
  <1>1. Least(s.saved.x, Cols - 1) = s.x /\ Least(s.saved.y, Rows - 1) = s.y
    BY GoodIs, ColumnsIs, LinesIs DEF Least
  <1> QED BY <1>1 DEF RestoreCursor, At, Good, ScreenSet

-----------------------------------------------------------------------------
(* Inserting and deleting lines.                                            *)

(* Nothing outside the margins changes, but for characters they cut.        *)
KeepsOutside(R, Q) ==
    \A y \in Lines, x \in Columns :
        \/ y \in region.top .. region.bottom /\ x \in region.left .. region.right
        \/ Q[y].cells[x] = R[y].cells[x]
        \/ /\ x \in {region.left - 1, region.right + 1, Cols - 1}
           /\ Blanked(R[y].cells[x], Q[y].cells[x])

(* Margins at the edges enclose every column.                               *)
LEMMA FullWidthIs ==
    ASSUME RegionOK
    PROVE  FullWidth => region.left = 0 /\ region.right = Cols - 1
                        /\ \A x \in Columns : x \in region.left .. region.right
  BY RegionIs, ColumnsIs DEF FullWidth

(* A cursor in the region is between its margins.                           *)
LEMMA InRegionIs ==
    ASSUME NEW s, Good(s), InRegion(s), RegionOK
    PROVE  /\ s.y \in region.top .. region.bottom /\ s.x \in region.left .. region.right
           /\ s.y >= region.top /\ s.y <= region.bottom
  BY RegionIs, GoodIs DEF InRegion

ShiftedRow(s, first, by, touched, y) ==
    LET fixed(z) == WillBeShifted(s.rows[z])
    IN  IF y \notin first .. region.bottom THEN s.rows[y]
        ELSE IF y + by \in first .. region.bottom
        THEN IF FullWidth THEN Unwrapped(fixed(y + by))
                          ELSE WithSegment(fixed(y), fixed(y + by))
        ELSE IF FullWidth /\ y \in touched THEN Unwrapped(Cleared(fixed(y)))
        ELSE Cleared(fixed(y))

(* A row that a shift leaves is whole and keeps the cells outside the margins. *)
LEMMA ShiftedRowWhole ==
    ASSUME NEW s, Good(s), RegionOK, NEW first \in region.top .. region.bottom,
           NEW by \in Int, NEW touched, NEW y \in Lines
    PROVE  /\ Whole(ShiftedRow(s, first, by, touched, y))
           /\ \A x \in Columns :
                 \/ y \in region.top .. region.bottom /\ x \in region.left .. region.right
                 \/ ShiftedRow(s, first, by, touched, y).cells[x] = s.rows[y].cells[x]
                 \/ /\ x \in {region.left - 1, region.right + 1, Cols - 1}
                    /\ Blanked(s.rows[y].cells[x], ShiftedRow(s, first, by, touched, y).cells[x])
  <1> DEFINE q == ShiftedRow(s, first, by, touched, y)
             fixed(z) == WillBeShifted(s.rows[z])
             Keeps(p) == \A x \in Columns :
                 \/ x \in region.left .. region.right
                 \/ p.cells[x] = s.rows[y].cells[x]
                 \/ /\ x \in {region.left - 1, region.right + 1, Cols - 1}
                    /\ Blanked(s.rows[y].cells[x], p.cells[x])
  <1>1. \A z \in Lines : Whole(s.rows[z])
    BY GoodIs
  <1>2. ASSUME NEW z \in Lines
        PROVE  Cuttable(fixed(z)) /\ Whole(fixed(z))
               /\ (FullWidth => fixed(z).cells[Cols - 1].wide # "head")
    BY <1>1, WillBeShiftedWhole, FullWidthIs DEF Cuttable
  <1>3. /\ first \in Nat /\ region.top <= first
        /\ \A z \in first .. region.bottom : z \in Lines /\ z \in region.top .. region.bottom
    BY RegionIs, LinesIs
  <1>4. Keeps(fixed(y))
    BY <1>1, WillBeShiftedWhole, RegionIs
  <1>5. CASE y \notin first .. region.bottom
    BY <1>1, <1>5 DEF ShiftedRow
  <1>6. CASE y \in first .. region.bottom /\ y + by \in first .. region.bottom /\ FullWidth
    <2>1. q = Unwrapped(fixed(y + by))
      BY <1>6 DEF ShiftedRow
    <2>2. y + by \in Lines
      BY <1>3, <1>6
    <2>3. Whole(q)
      BY <1>2, <1>6, <2>1, <2>2, UnwrappedWhole
    <2>4. \A x \in Columns : y \in region.top .. region.bottom /\ x \in region.left .. region.right
      BY <1>3, <1>6, FullWidthIs
    <2> HIDE DEF q
    <2> QED BY <2>3, <2>4 DEF q
  <1>7. CASE y \in first .. region.bottom /\ y + by \in first .. region.bottom /\ ~FullWidth
    <2>1. q = WithSegment(fixed(y), fixed(y + by))
      BY <1>7 DEF ShiftedRow
    <2>2. y + by \in Lines
      BY <1>3, <1>7
    <2>3. Cuttable(fixed(y)) /\ Cuttable(fixed(y + by))
      BY <1>2, <2>2
    <2> HIDE DEF q, fixed
    <2>4. /\ Whole(q) /\ \A x \in Columns : x \notin region.left .. region.right => q.cells[x] = fixed(y).cells[x]
      BY <2>1, <2>3, WithSegmentWhole DEF Cuttable
    <2>5. Keeps(q)
      BY <1>4, <2>4
    <2> QED BY <1>3, <1>7, <2>4, <2>5 DEF q
  <1>8. CASE y \in first .. region.bottom /\ y + by \notin first .. region.bottom
    <2>1. q = Cleared(fixed(y)) \/ (FullWidth /\ q = Unwrapped(Cleared(fixed(y))))
      BY <1>8 DEF ShiftedRow
    <2>2. Cuttable(fixed(y))
      BY <1>2
    <2> HIDE DEF q, fixed
    <2>3. /\ Cuttable(Cleared(fixed(y)))
          /\ \A x \in Columns : x \notin region.left .. region.right => Cleared(fixed(y)).cells[x] = fixed(y).cells[x]
      BY <2>2, ClearedIs
    <2>4. FullWidth => Whole(Unwrapped(Cleared(fixed(y)))) /\ Unwrapped(Cleared(fixed(y))).cells = Cleared(fixed(y)).cells
      BY <2>3, UnwrappedWhole, FullWidthIs DEF Cuttable
    <2>5. Whole(q) /\ q.cells = Cleared(fixed(y)).cells
      BY <2>1, <2>3, <2>4 DEF Cuttable
    <2>6. Keeps(q)
      BY <1>4, <2>3, <2>5
    <2> QED BY <1>3, <1>8, <2>5, <2>6 DEF q
  <1> QED BY <1>5, <1>6, <1>7, <1>8

(* So a shift of lines leaves a good screen and what is outside the margins.*)
LEMMA ShiftedGood ==
    ASSUME NEW s, Good(s), RegionOK, NEW first \in region.top .. region.bottom,
           NEW by \in Int, NEW touched
    PROVE  /\ Good(Shifted(s, first, by, touched))
           /\ KeepsOutside(s.rows, Shifted(s, first, by, touched).rows)
           /\ \A y \in Lines : Shifted(s, first, by, touched).rows[y] = ShiftedRow(s, first, by, touched, y)
           /\ Shifted(s, first, by, touched).x = s.x /\ Shifted(s, first, by, touched).y = s.y
           /\ Shifted(s, first, by, touched).pending = s.pending
           /\ Shifted(s, first, by, touched).scrollback = s.scrollback
  <1> DEFINE R == [y \in Lines |-> ShiftedRow(s, first, by, touched, y)]
  <1>1. Shifted(s, first, by, touched) = [s EXCEPT !.rows = R]
    BY DEF Shifted, ShiftedRow
  <1>2. \A y \in Lines : R[y] = ShiftedRow(s, first, by, touched, y)
    OBVIOUS
  <1>3. \A y \in Lines : Whole(R[y])
    BY <1>2, ShiftedRowWhole
  <1>4. KeepsOutside(s.rows, R)
    BY <1>2, ShiftedRowWhole DEF KeepsOutside
  <1>5. DOMAIN R = Lines /\ R = [y \in Lines |-> R[y]]
    OBVIOUS
  <1> HIDE DEF R
  <1> QED BY <1>1, <1>2, <1>3, <1>4, <1>5, RowsGood

(* Rows keep themselves.                                                    *)
LEMMA SameOutside ==
    ASSUME NEW R PROVE KeepsOutside(R, R)
  BY DEF KeepsOutside

(* Inserting lines leaves a good screen and what is outside the margins.    *)
LEMMA InsertLinesGood ==
    ASSUME NEW s, Good(s), RegionOK, NEW n \in Nat
    PROVE  Good(InsertLines(s, n)) /\ KeepsOutside(s.rows, InsertLines(s, n).rows)
  <1>1. CASE n = 0 \/ ~InRegion(s)
    BY <1>1, SameOutside DEF InsertLines
  <1>2. CASE n # 0 /\ InRegion(s)
    <2> DEFINE rem == region.bottom - s.y + 1
               adj == Least(n, rem)
               t == Shifted(s, s.y, -adj, s.y .. s.y + rem - adj - 1)
    <2>1. s.y \in region.top .. region.bottom
      BY <1>2, InRegionIs
    <2>2. adj \in Int /\ -adj \in Int
      BY RegionIs, GoodIs DEF Least
    <2>3. InsertLines(s, n) = Unpended(At(t, region.left, s.y))
      BY <1>2 DEF InsertLines
    <2> HIDE DEF adj, rem
    <2>4. Good(t) /\ KeepsOutside(s.rows, t.rows)
      BY <2>1, <2>2, ShiftedGood
    <2> HIDE DEF t
    <2>5. Good(At(t, region.left, s.y)) /\ At(t, region.left, s.y).rows = t.rows
      BY <2>4, AtGood, RegionIs, GoodIs
    <2> QED BY <2>3, <2>4, <2>5, UnpendedGood
  <1> QED BY <1>1, <1>2

(* Deleting lines does.                                                     *)
LEMMA DeleteLinesGood ==
    ASSUME NEW s, Good(s), RegionOK, NEW n \in Nat
    PROVE  Good(DeleteLines(s, n)) /\ KeepsOutside(s.rows, DeleteLines(s, n).rows)
  <1>1. CASE n = 0 \/ ~InRegion(s)
    BY <1>1, SameOutside DEF DeleteLines
  <1>2. CASE n # 0 /\ InRegion(s)
    <2> DEFINE rem == region.bottom - s.y + 1
               adj == Least(n, rem)
               t == Shifted(s, s.y, adj, s.y + adj .. region.bottom)
    <2>1. s.y \in region.top .. region.bottom
      BY <1>2, InRegionIs
    <2>2. adj \in Int
      BY RegionIs, GoodIs DEF Least
    <2>3. DeleteLines(s, n) = Unpended(At(t, region.left, s.y))
      BY <1>2 DEF DeleteLines
    <2> HIDE DEF adj, rem
    <2>4. Good(t) /\ KeepsOutside(s.rows, t.rows)
      BY <2>1, <2>2, ShiftedGood
    <2> HIDE DEF t
    <2>5. Good(At(t, region.left, s.y)) /\ At(t, region.left, s.y).rows = t.rows
      BY <2>4, AtGood, RegionIs, GoodIs
    <2> QED BY <2>3, <2>4, <2>5, UnpendedGood
  <1> QED BY <1>1, <1>2

(* A good screen with another's cursor is good.                             *)
LEMMA RestoredGood ==
    ASSUME NEW s, NEW t, Good(s), Good(t)
    PROVE  Good(Restored(s, t)) /\ Restored(s, t).rows = t.rows
  <1> DEFINE u == At(t, s.x, s.y)
  <1>1. Good(u) /\ u.rows = t.rows
    BY GoodIs, AtGood
  <1>2. Restored(s, t) = [u EXCEPT !.pending = s.pending]
    BY DEF Restored
  <1> HIDE DEF u
  <1> QED BY <1>1, <1>2, GoodIs, PendingGood

(* Scrolling down leaves a good screen and what is outside the margins.     *)
LEMMA ScrollDownGood ==
    ASSUME NEW s, Good(s), RegionOK, NEW n \in Nat
    PROVE  Good(ScrollDown(s, n)) /\ KeepsOutside(s.rows, ScrollDown(s, n).rows)
  <1> DEFINE t == At(s, region.left, region.top)
  <1>1. Good(t) /\ t.rows = s.rows
    BY AtGood, RegionIs
  <1>2. ScrollDown(s, n) = Restored(s, InsertLines(t, n))
    BY DEF ScrollDown
  <1> HIDE DEF t
  <1>3. Good(InsertLines(t, n)) /\ KeepsOutside(s.rows, InsertLines(t, n).rows)
    BY <1>1, InsertLinesGood
  <1> QED BY <1>2, <1>3, RestoredGood

-----------------------------------------------------------------------------
(* Scrolling.                                                               *)

(* Rows rolled up by one with a whole row below are a good screen.          *)
LEMMA RolledUpGood ==
    ASSUME NEW s, Good(s), NEW top \in Lines, NEW bottom \in Lines, NEW last, Whole(last)
    PROVE  /\ Good(RolledUp(s, top, bottom, last))
           /\ RolledUp(s, top, bottom, last).x = s.x /\ RolledUp(s, top, bottom, last).y = s.y
           /\ RolledUp(s, top, bottom, last).pending = s.pending
           /\ RolledUp(s, top, bottom, last).prot = s.prot
           /\ RolledUp(s, top, bottom, last).scrollback = s.scrollback
           /\ \A y \in Lines : y \notin top .. bottom /\ y # bottom =>
                RolledUp(s, top, bottom, last).rows[y] = s.rows[y]
  <1> DEFINE R == [y \in Lines |-> IF y \in top .. bottom - 1 THEN s.rows[y + 1]
                                   ELSE IF y = bottom THEN last ELSE s.rows[y]]
  <1>1. RolledUp(s, top, bottom, last) = [s EXCEPT !.rows = R]
    <2>1. s \in ScreenSet
      BY GoodIs
    <2> QED BY <2>1 DEF RolledUp, ScreenSet
  <1>2. /\ DOMAIN R = Lines /\ R = [y \in Lines |-> R[y]]
        /\ \A y \in Lines : y \notin top .. bottom /\ y # bottom => R[y] = s.rows[y]
    BY LinesIs
  <1>3. ASSUME NEW y \in Lines PROVE Whole(R[y])
    <2>1. CASE y \in top .. bottom - 1
      <3>1. y + 1 \in Lines
        BY <2>1, LinesIs
      <3>2. R[y] = s.rows[y + 1]
        BY <2>1
      <3> HIDE DEF R
      <3> QED BY <3>1, <3>2, GoodIs
    <2>2. CASE y \notin top .. bottom - 1
      <3>1. R[y] = last \/ R[y] = s.rows[y]
        BY <2>2
      <3> HIDE DEF R
      <3> QED BY <3>1, GoodIs
    <2> QED BY <2>1, <2>2
  <1> HIDE DEF R
  <1> QED BY <1>1, <1>2, <1>3, RowsGood

(* A row cleared from end to end is whole.                                  *)
LEMMA EmptiedWhole ==
    ASSUME NEW r, Whole(r)
    PROVE  Whole(Filled(r, 0, Cols))
  <1>1. Uncut(r.cells, 0) /\ Uncut(r.cells, Cols) /\ Cols \in Nat /\ Cols <= Cols
    BY ColumnsIs DEF Uncut, Whole, WholeCells
  <1> QED BY <1>1, FilledWhole

\* The screen scrolled down to the cursor's line, what is below it as it was.
Scrolled(c, t) ==
    /\ Good(t) /\ t.x = c.x /\ t.y = c.y /\ t.scrollback = c.scrollback
    /\ t.pending = c.pending /\ t.prot = c.prot
    /\ \A y \in Lines : y > c.y => t.rows[y] = c.rows[y]

(* cursor_scroll_above moves the lines above the cursor and no other.       *)
LEMMA CursorScrollAboveGood ==
    ASSUME NEW s, Good(s)
    PROVE  Scrolled(s, CursorScrollAbove(s))
  <1>1. CASE s.y = Rows - 1
    <2> DEFINE last == IF s.scrollback THEN BlankRow ELSE Filled(s.rows[0], 0, Cols)
    <2>1. Whole(last)
      BY BlankRowWhole, EmptiedWhole, GoodIs, LinesIs
    <2>2. CursorScrollAbove(s) = RolledUp(s, 0, Rows - 1, last)
      BY <1>1 DEF CursorScrollAbove, CursorDownScroll
    <2> HIDE DEF last
    <2>3. \A y \in Lines : ~(y > s.y)
      BY <1>1, LinesIs
    <2> QED BY <2>1, <2>2, <2>3, RolledUpGood, LinesIs DEF Scrolled
  <1>2. CASE s.y # Rows - 1
    <2>2. CursorScrollAbove(s) = RolledUp(s, 0, s.y, BlankRow)
      BY <1>2 DEF CursorScrollAbove
    <2>3. \A y \in Lines : y > s.y => y \notin 0 .. s.y /\ y # s.y
      BY LinesIs, GoodIs
    <2>4. 0 \in Lines /\ s.y \in Lines /\ Whole(BlankRow)
      BY BlankRowWhole, LinesIs, GoodIs
    <2> QED BY <2>2, <2>3, <2>4, RolledUpGood DEF Scrolled
  <1> QED BY <1>1, <1>2

Above == INSTANCE FoldFacts WITH Step <- ScrollAboveAgain, Inv <- Scrolled

(* The community module's left fold is the fold of the lemmas about folds.  *)
LEMMA AboveFolds == \A base, input : FoldLeft(ScrollAboveAgain, base, input) = Above!Fold(base, input)
  BY Zenon DEF FoldLeft, Above!FoldLeft, MapThenFoldSet, Above!MapThenFoldSet,
     Max, Above!Max, Above!Fold

(* A loop of n turns has n turns.                                           *)
LEMMA TurnsIs == ASSUME NEW n \in Nat PROVE Turns(n) \in Seq(Nat) /\ Len(Turns(n)) = n
  BY DEF Turns

(* However often it is repeated, it moves the lines above the cursor only.  *)
LEMMA AllScrolled ==
    ASSUME NEW s, Good(s), NEW n \in Nat
    PROVE  Scrolled(s, FoldLeft(ScrollAboveAgain, s, Turns(n)))
  <1>1. Scrolled(s, s)
    BY DEF Scrolled
  <1>2. \A t : \A i \in Nat : Scrolled(s, t) => Scrolled(s, ScrollAboveAgain(t, i))
    <2>1. SUFFICES ASSUME NEW t, Scrolled(s, t) PROVE Scrolled(s, CursorScrollAbove(t))
      BY DEF ScrollAboveAgain
    <2>2. Scrolled(t, CursorScrollAbove(t))
      BY <2>1, CursorScrollAboveGood DEF Scrolled
    <2> QED BY <2>1, <2>2 DEF Scrolled
  <1>3. Turns(n) \in Seq(Nat)
    BY TurnsIs
  <1>4. Scrolled(s, Above!Fold(s, Turns(n)))
    BY <1>1, <1>2, <1>3, Above!FoldKeeps
  <1> QED BY <1>4, AboveFolds

(* Nothing is outside a region that begins at the top and is as wide as the grid, but the lines below it. *)
LEMMA FullOutside ==
    ASSUME RegionOK, FullWidth, region.top = 0, NEW R, NEW Q,
           \A y \in Lines : y > region.bottom => Q[y] = R[y]
    PROVE  KeepsOutside(R, Q)
  <1> SUFFICES ASSUME NEW y \in Lines, NEW x \in Columns
               PROVE  \/ y \in region.top .. region.bottom /\ x \in region.left .. region.right
                      \/ Q[y].cells[x] = R[y].cells[x]
    BY DEF KeepsOutside
  <1>1. x \in region.left .. region.right
    BY FullWidthIs
  <1>2. y \in region.top .. region.bottom \/ y > region.bottom
    BY RegionIs, LinesIs
  <1> QED BY <1>1, <1>2

(* Scrolling up leaves a good screen and what is outside the margins.       *)
LEMMA ScrollUpGood ==
    ASSUME NEW s, Good(s), RegionOK, NEW n \in Nat
    PROVE  Good(ScrollUp(s, n)) /\ KeepsOutside(s.rows, ScrollUp(s, n).rows)
  <1> DEFINE top == region.top = 0 /\ FullWidth /\ (s.scrollback \/ region.bottom = Rows - 1)
             times == Least(n, region.bottom + 1)
             go == At(s, 0, region.bottom)
             t == FoldLeft(ScrollAboveAgain, go, Turns(times))
             u == At(s, region.left, region.top)
  <1>1. CASE top
    <2>1. ScrollUp(s, n) = Restored(s, t)
      BY <1>1 DEF ScrollUp
    <2>7. 0 \in Columns /\ region.bottom \in Lines
      BY ColumnsIs, RegionIs
    <2>2. Good(go) /\ go.rows = s.rows /\ go.y = region.bottom
      BY <2>7, AtGood
    <2>3. times \in Nat
      BY RegionIs DEF Least
    <2> HIDE DEF go, times
    <2>4. Scrolled(go, t)
      BY <2>2, <2>3, AllScrolled
    <2> HIDE DEF t
    <2>5. Good(t) /\ \A y \in Lines : y > region.bottom => t.rows[y] = s.rows[y]
      BY <2>2, <2>4 DEF Scrolled
    <2>6. KeepsOutside(s.rows, t.rows)
      BY <1>1, <2>5, FullOutside
    <2> QED BY <2>1, <2>5, <2>6, RestoredGood
  <1>2. CASE ~top
    <2>1. ScrollUp(s, n) = Restored(s, DeleteLines(u, n))
      BY <1>2 DEF ScrollUp
    <2>2. Good(u) /\ u.rows = s.rows
      BY AtGood, RegionIs
    <2> HIDE DEF u
    <2>3. Good(DeleteLines(u, n)) /\ KeepsOutside(s.rows, DeleteLines(u, n).rows)
      BY <2>2, DeleteLinesGood
    <2> QED BY <2>1, <2>3, RestoredGood
  <1> QED BY <1>1, <1>2

(* Index stays in the column, on a line of the screen, and unpends only.    *)
LEMMA RestoredIs ==
    ASSUME NEW s, NEW t, Good(s), Good(t)
    PROVE  Restored(s, t).x = s.x /\ Restored(s, t).y = s.y /\ Restored(s, t).pending = s.pending
  BY GoodIs DEF Restored, At, ScreenSet

(* Scrolling up puts the cursor back.                                       *)
LEMMA ScrollUpIs ==
    ASSUME NEW s, Good(s), RegionOK, NEW n \in Nat
    PROVE  ScrollUp(s, n).x = s.x /\ ScrollUp(s, n).y = s.y /\ ScrollUp(s, n).pending = s.pending
  <1> DEFINE go == At(s, 0, region.bottom)
             times == Least(n, region.bottom + 1)
             t == FoldLeft(ScrollAboveAgain, go, Turns(times))
             u == At(s, region.left, region.top)
  <1>4. 0 \in Columns /\ region.bottom \in Lines /\ region.left \in Columns /\ region.top \in Lines
    BY ColumnsIs, RegionIs
  <1>5. times \in Nat
    BY RegionIs DEF Least
  <1>1. Good(go) /\ Good(u) /\ times \in Nat
    BY <1>4, <1>5, AtGood
  <1> HIDE DEF go, times, u
  <1>2. Good(t) /\ Good(DeleteLines(u, n))
    BY <1>1, AllScrolled, DeleteLinesGood DEF Scrolled
  <1>3. ScrollUp(s, n) = Restored(s, t) \/ ScrollUp(s, n) = Restored(s, DeleteLines(u, n))
    BY DEF ScrollUp, go, times, u
  <1> HIDE DEF t
  <1> QED BY <1>2, <1>3, RestoredIs

(* Index leaves a good screen and what is outside the margins.              *)
LEMMA IndexGood ==
    ASSUME NEW s, Good(s), RegionOK
    PROVE  /\ Good(Index(s)) /\ KeepsOutside(s.rows, Index(s).rows)
           /\ Index(s).x = s.x /\ Index(s).pending = FALSE
  <1> DEFINE t == Unpended(s)
  <1>1. /\ Good(t) /\ t.rows = s.rows /\ t.x = s.x /\ t.y = s.y /\ t.pending = FALSE
        /\ t.scrollback = s.scrollback
    BY UnpendedGood
  <1>2. \/ Index(s) = t
        \/ Index(s) = At(t, s.x, s.y + 1) /\ s.y + 1 \in Lines
        \/ /\ Index(s) = CursorScrollAbove(t)
           /\ region.top = 0 /\ FullWidth /\ s.y = region.bottom
        \/ Index(s) = ScrollUp(t, 1)
        \/ Index(s) = CursorScrollRegionUp(t) /\ s.y = region.bottom /\ FullWidth
    <2>1. s.y < Rows - 1 \/ s.y < region.bottom => s.y + 1 \in Lines
      BY GoodIs, RegionIs, LinesIs
    <2> QED BY <1>1, <2>1 DEF Index
  <1> HIDE DEF t
  <1>3. CASE Index(s) = t
    BY <1>1, <1>3, SameOutside
  <1>4. CASE Index(s) = At(t, s.x, s.y + 1) /\ s.y + 1 \in Lines
    BY <1>1, <1>4, AtGood, GoodIs, SameOutside
  <1>5. CASE Index(s) = CursorScrollAbove(t) /\ region.top = 0 /\ FullWidth /\ s.y = region.bottom
    <2>1. Scrolled(t, Index(s))
      BY <1>1, <1>5, CursorScrollAboveGood
    <2>2. \A y \in Lines : y > region.bottom => Index(s).rows[y] = s.rows[y]
      BY <1>1, <1>5, <2>1 DEF Scrolled
    <2>3. KeepsOutside(s.rows, Index(s).rows)
      BY <1>5, <2>2, FullOutside
    <2> QED BY <1>1, <2>1, <2>3 DEF Scrolled
  <1>6. CASE Index(s) = ScrollUp(t, 1)
    BY <1>1, <1>6, ScrollUpGood, ScrollUpIs
  <1>7. CASE Index(s) = CursorScrollRegionUp(t) /\ s.y = region.bottom /\ FullWidth
    <2> DEFINE last == Filled(t.rows[region.top], 0, Cols)
    <2>1. Whole(last)
      BY <1>1, EmptiedWhole, GoodIs, RegionIs
    <2>2. Index(s) = RolledUp(t, region.top, region.bottom, last)
      BY <1>1, <1>7 DEF CursorScrollRegionUp
    <2> HIDE DEF last
    <2>3. /\ Good(Index(s)) /\ Index(s).x = s.x /\ Index(s).pending = FALSE
          /\ \A y \in Lines : y \notin region.top .. region.bottom /\ y # region.bottom =>
                Index(s).rows[y] = s.rows[y]
      BY <1>1, <2>1, <2>2, RolledUpGood, RegionIs
    <2>4. KeepsOutside(s.rows, Index(s).rows)
      <3> SUFFICES ASSUME NEW y \in Lines, NEW x \in Columns
                   PROVE  \/ y \in region.top .. region.bottom /\ x \in region.left .. region.right
                          \/ Index(s).rows[y].cells[x] = s.rows[y].cells[x]
        BY DEF KeepsOutside
      <3>1. x \in region.left .. region.right
        BY <1>7, FullWidthIs
      <3>2. y \in region.top .. region.bottom \/ y # region.bottom
        BY RegionIs
      <3> QED BY <2>3, <3>1, <3>2
    <2> QED BY <2>3, <2>4
  <1> QED BY <1>2, <1>3, <1>4, <1>5, <1>6, <1>7

(* Reverse index does.                                                      *)
LEMMA ReverseIndexGood ==
    ASSUME NEW s, Good(s), RegionOK
    PROVE  Good(ReverseIndex(s)) /\ KeepsOutside(s.rows, ReverseIndex(s).rows)
  <1>1. Good(CursorUp(s, 1)) /\ CursorUp(s, 1).rows = s.rows
    BY CursorUpGood
  <1>2. Good(ScrollDown(s, 1)) /\ KeepsOutside(s.rows, ScrollDown(s, 1).rows)
    BY ScrollDownGood
  <1> QED BY <1>1, <1>2, SameOutside DEF ReverseIndex

(* Line feed does, with and without the mode that adds a carriage return.   *)
LEMMA LineFeedGood ==
    ASSUME NEW s, Good(s), RegionOK
    PROVE  Good(LineFeed(s)) /\ KeepsOutside(s.rows, LineFeed(s).rows)
  BY IndexGood, CarriageReturnGood DEF LineFeed

-----------------------------------------------------------------------------
(* Moving and clearing the cells of a row.                                  *)

(* The cells of q are those of p, but for some that were blanked.           *)
Thinned(p, q) ==
    \A x \in Columns : q.cells[x] = p.cells[x] \/ q.cells[x] = Blank

(* Where a thinned row has a tail, so had the row.                          *)
LEMMA ThinnedUncut ==
    ASSUME NEW p, NEW q, Thinned(p, q), NEW x, Uncut(p.cells, x)
    PROVE  Uncut(q.cells, x)
  BY BlankIs DEF Thinned, Uncut

(* A row thinned twice is thinned.                                          *)
LEMMA ThinnedOn ==
    ASSUME NEW p, NEW q, NEW r, Thinned(p, q), Thinned(q, r)
    PROVE  Thinned(p, r)
  BY DEF Thinned

(* A row is its own thinning.                                               *)
LEMMA ThinnedSame == ASSUME NEW p PROVE Thinned(p, p)
  BY DEF Thinned

(* The cells of a row with blanks in a range.                               *)
LEMMA FilledIs ==
    ASSUME NEW r, Whole(r), NEW l, NEW e
    PROVE  /\ Thinned(r, Filled(r, l, e)) /\ Filled(r, l, e).wrap = r.wrap
           /\ \A x \in Columns : Filled(r, l, e).cells[x] = IF x \in l .. e - 1 THEN Blank ELSE r.cells[x]
           /\ DOMAIN Filled(r, l, e).cells = Columns
           /\ Filled(r, l, e) = [r EXCEPT !.cells = Filled(r, l, e).cells]
  BY DEF Filled, Thinned, Whole, RowSet

(* A wide character that begins at a column is blanked ...                  *)
WithoutWide(r, at) == IF r.cells[at].wide = "wide" THEN Filled(r, at, at + 2) ELSE r

(* Both halves of the character at a column made blank leave a whole row.   *)
LEMMA WithoutWideWhole ==
    ASSUME NEW r, Whole(r), NEW at \in Columns
    PROVE  /\ Whole(WithoutWide(r, at)) /\ Thinned(r, WithoutWide(r, at))
           /\ Uncut(WithoutWide(r, at).cells, at + 1)
           /\ at + 1 <= Cols /\ (r.cells[at].wide = "wide" => at + 2 <= Cols)
  <1>1. at \in Nat /\ at + 1 <= Cols /\ at + 1 \in Nat /\ at + 2 \in Nat /\ Cols \in Nat
    BY ColumnsIs
  <1>2. CASE r.cells[at].wide = "wide"
    <2>1. at + 1 \in Columns /\ r.cells[at + 1].wide = "tail" /\ at + 2 <= Cols
      BY <1>2, ColumnsIs DEF Whole, WholeCells
    <2>2. Uncut(r.cells, at)
      BY <1>2 DEF Uncut
    <2>3. Uncut(r.cells, at + 2)
      <3>1. SUFFICES ASSUME at + 2 \in Columns, r.cells[at + 2].wide = "tail" PROVE FALSE
        BY DEF Uncut
      <3>2. (at + 2) - 1 = at + 1
        BY <1>1
      <3> QED BY <2>1, <3>1, <3>2 DEF Whole, WholeCells
    <2>4. Whole(Filled(r, at, at + 2))
      BY <1>1, <2>1, <2>2, <2>3, FilledWhole
    <2>5. Filled(r, at, at + 2).cells[at + 1] = Blank
      <3>1. at + 1 \in at .. (at + 2) - 1
        BY <1>1
      <3> QED BY <2>1, <3>1, FilledIs
    <2>6. Uncut(Filled(r, at, at + 2).cells, at + 1)
      BY <2>5, BlankIs DEF Uncut
    <2> QED BY <1>1, <1>2, <2>1, <2>4, <2>6, FilledIs DEF WithoutWide
  <1>3. CASE r.cells[at].wide # "wide"
    <2>1. Uncut(r.cells, at + 1)
      <3>1. SUFFICES ASSUME at + 1 \in Columns, r.cells[at + 1].wide = "tail" PROVE FALSE
        BY DEF Uncut
      <3>2. (at + 1) - 1 = at
        BY <1>1
      <3> QED BY <1>3, <3>1, <3>2 DEF Whole, WholeCells
    <2> QED BY <1>1, <1>3, <2>1, ThinnedSame DEF WithoutWide
  <1> QED BY <1>2, <1>3

(* ... or one that ends there.                                              *)
WithoutTail(r, at) == IF r.cells[at].wide = "tail" THEN Filled(r, at - 1, at + 1) ELSE r

(* So do both halves of the one whose tail is at the column.                *)
LEMMA WithoutTailWhole ==
    ASSUME NEW r, Whole(r), NEW at \in Columns
    PROVE  /\ Whole(WithoutTail(r, at)) /\ Thinned(r, WithoutTail(r, at))
           /\ Uncut(WithoutTail(r, at).cells, at)
  <1>1. at \in Nat /\ at + 1 <= Cols /\ at + 1 \in Nat /\ Cols \in Nat
    BY ColumnsIs
  <1>2. CASE r.cells[at].wide = "tail"
    <2>1. at > 0 /\ at - 1 \in Nat /\ r.cells[at - 1].wide = "wide"
      BY <1>1, <1>2 DEF Whole, WholeCells
    <2>2. Uncut(r.cells, at - 1)
      BY <2>1 DEF Uncut
    <2>3. Uncut(r.cells, at + 1)
      <3>1. SUFFICES ASSUME at + 1 \in Columns, r.cells[at + 1].wide = "tail" PROVE FALSE
        BY DEF Uncut
      <3>2. (at + 1) - 1 = at
        BY <1>1
      <3> QED BY <1>2, <3>1, <3>2 DEF Whole, WholeCells
    <2>4. Whole(Filled(r, at - 1, at + 1))
      BY <1>1, <2>1, <2>2, <2>3, FilledWhole
    <2>5. Filled(r, at - 1, at + 1).cells[at] = Blank
      <3>1. at \in at - 1 .. (at + 1) - 1
        BY <1>1
      <3> QED BY <3>1, FilledIs
    <2> QED BY <1>2, <2>4, <2>5, FilledIs, BlankIs DEF WithoutTail, Uncut
  <1>3. CASE r.cells[at].wide # "tail"
    BY <1>3, ThinnedSame DEF WithoutTail, Uncut
  <1> QED BY <1>2, <1>3

(* A segment of a row moved within a range that is blank apart from it.     *)
Moved(f, from, end, l, e, d) ==
    [x \in Columns |-> IF x \in l .. e - 1 THEN f[x + d]
                       ELSE IF x \in from .. end - 1 THEN Blank ELSE f[x]]
NoHeadIn(f, l, e) == \A x \in Columns : x \in l .. e - 1 => f[x].wide # "head"

(* Whole characters moved along the row, with blanks where they came from, leave it whole. *)
LEMMA MovedWhole ==
    ASSUME NEW r, Whole(r), NEW from \in Nat, NEW end \in Nat, NEW l \in Nat, NEW e \in Nat,
           NEW d \in Int, end <= Cols, from <= l, e <= end, l <= end, from <= e,
           from <= l + d, e + d <= end,
           Uncut(r.cells, from), Uncut(r.cells, end), Uncut(r.cells, l + d), Uncut(r.cells, e + d),
           NoHeadIn(r.cells, l + d, e + d),
           NEW h, h = Moved(r.cells, from, end, l, e, d)
    PROVE  Whole([r EXCEPT !.cells = h]) /\ Uncut(h, from) /\ Uncut(h, end)
  <1> DEFINE p == Filled(r, from, end)
             f == p.cells
             g == r.cells
  <1>1. /\ Whole(p) /\ Uncut(f, from) /\ Uncut(f, end) /\ p.wrap = r.wrap
        /\ \A x \in Columns : f[x] = IF x \in from .. end - 1 THEN Blank ELSE r.cells[x]
    BY FilledWhole, FilledIs
  <1>2. r \in RowSet /\ g \in CellRows /\ WholeCells(g) /\ f \in CellRows /\ WholeCells(f)
        /\ (f[Cols - 1].wide = "head" => r.wrap) /\ Uncut(g, l + d) /\ Uncut(g, e + d)
    BY <1>1 DEF Whole, RowSet
  <1>3. h = [x \in Columns |-> h[x]]
    <2> DEFINE k == [x \in Columns |-> IF x \in l .. e - 1 THEN r.cells[x + d]
                                      ELSE IF x \in from .. end - 1 THEN Blank ELSE r.cells[x]]
    <2>1. k = [x \in Columns |-> k[x]]
      OBVIOUS
    <2>2. h = k
      BY DEF Moved
    <2> HIDE DEF k
    <2> QED BY <2>1, <2>2
  <1>4. \A x \in Columns : h[x] = IF x \in l .. e - 1 THEN g[x + d]
                                  ELSE IF x \in from .. end - 1 THEN Blank ELSE g[x]
    BY DEF Moved
  <1>5. \A x \in Columns : x \in l + d .. e + d - 1 => g[x].wide # "head"
    BY DEF NoHeadIn
  <1>13. Uncut(g, from) /\ Uncut(g, end)
    OBVIOUS
  <1> HIDE DEF p, f, g
  <1>6. Uncut(f, l) /\ Uncut(f, e)
    <2>1. \A z \in Nat : from <= z /\ z <= end => Uncut(f, z)
      <3> SUFFICES ASSUME NEW z \in Nat, from <= z, z <= end, z \in Columns PROVE f[z].wide # "tail"
        BY DEF Uncut
      <3>1. CASE z = end
        BY <1>1, <3>1 DEF Uncut
      <3>2. CASE z < end
        BY <1>1, <3>2, BlankIs
      <3> QED BY <3>1, <3>2
    <2> QED BY <2>1
  <1>7. ASSUME NEW x \in Columns, x \in l .. e - 1
        PROVE  x + d \in Columns /\ g[x + d].wide # "head" /\ h[x] = g[x + d]
    <2>1. x + d \in from .. end - 1 /\ x + d \in l + d .. e + d - 1
      BY <1>7
    <2>2. x + d \in Columns
      BY <2>1, ColumnsIs
    <2> QED BY <1>4, <1>5, <1>7, <2>1, <2>2
  <1>8. ASSUME NEW x \in Columns, x \notin l .. e - 1 PROVE h[x] = f[x]
    <2>1. CASE x \in from .. end - 1
      BY <1>1, <1>4, <1>8, <2>1
    <2>2. CASE x \notin from .. end - 1
      BY <1>1, <1>4, <1>8, <2>2 DEF g
    <2> QED BY <2>1, <2>2
  <1>14. e <= Cols
    BY ColumnsIs
  <1>9. /\ h \in CellRows /\ WholeCells(h)
        /\ h[Cols - 1].wide = "head" => f[Cols - 1].wide = "head"
        /\ Uncut(h, l) /\ Uncut(h, e)
    <2>1. \A x \in Columns : x \in l .. e - 1 =>
               x + d \in Columns /\ g[x + d].wide # "head" /\ h[x] = g[x + d]
      BY <1>7
    <2>2. \A x \in Columns : x \notin l .. e - 1 => h[x] = f[x]
      BY <1>8
    <2>3. SegmentOf(f, g, h, l, e, d)
      BY <1>3, <2>1, <2>2 DEF SegmentOf
    <2> QED BY <1>2, <1>6, <1>14, <2>3, Pasted
  <1>10. Whole([r EXCEPT !.cells = h])
    BY <1>2, <1>9 DEF Whole, RowSet
  <1>11. Uncut(h, from)
    <2>1. CASE from = l
      BY <1>9, <2>1
    <2>2. CASE from # l
      <3>1. from \notin l .. e - 1
        BY <2>2
      <3> QED BY <1>1, <1>8, <3>1 DEF Uncut
    <2> QED BY <2>1, <2>2
  <1>12. Uncut(h, end)
    <2>1. end \notin l .. e - 1
      OBVIOUS
    <2> QED BY <1>1, <1>8, <2>1 DEF Uncut
  <1> QED BY <1>10, <1>11, <1>12

-----------------------------------------------------------------------------
(* Inserting characters.                                                    *)

(* insert_blanks: what straddles the cursor, the right margin or the cell   *)
(* that becomes the last is blanked first.                                  *)
LEMMA InsertedRow ==
    ASSUME NEW r, Whole(r), RegionOK, NEW x \in region.left .. region.right,
           NEW adj \in Nat, adj > 0, adj <= region.right - x + 1
    PROVE  LET end == region.right - adj
               r2 == WithoutWide(WithoutTail(r, x), region.right)
               r3 == IF region.right - x + 1 > adj THEN WithoutWide(r2, end) ELSE r2
               r4 == [r3 EXCEPT !.cells = [i \in Columns |->
                        IF i \in x + adj .. region.right THEN @[i - adj] ELSE @[i]]]
           IN  Whole(Filled(r4, x, x + adj))
  <1> DEFINE R == region.right
             end == R - adj
             r1 == WithoutTail(r, x)
             r2 == WithoutWide(r1, R)
             r3 == IF R - x + 1 > adj THEN WithoutWide(r2, end) ELSE r2
             r4 == [r3 EXCEPT !.cells = [i \in Columns |->
                        IF i \in x + adj .. R THEN @[i - adj] ELSE @[i]]]
  <1>1. /\ R \in Nat /\ x \in Nat /\ x <= R /\ R + 1 <= Cols /\ x \in Columns /\ R \in Columns
        /\ Cols \in Nat
    BY RegionIs, ColumnsIs
  <1>2. Whole(r1) /\ Uncut(r1.cells, x)
    BY <1>1, WithoutTailWhole
  <1> HIDE DEF r1
  <1>3. Whole(r2) /\ Uncut(r2.cells, x) /\ Uncut(r2.cells, R + 1)
    BY <1>1, <1>2, WithoutWideWhole, ThinnedUncut
  <1> HIDE DEF r2
  <1>4. Whole(r3) /\ Uncut(r3.cells, x) /\ Uncut(r3.cells, R + 1) /\ Uncut(r3.cells, (R + 1) - adj)
    <2>1. CASE R - x + 1 > adj
      <3>1. end \in Columns /\ end + 1 = (R + 1) - adj
        BY <1>1, <2>1, ColumnsIs
      <3>2. r3 = WithoutWide(r2, end)
        BY <2>1
      <3> HIDE DEF r3, end
      <3>3. Whole(r3) /\ Thinned(r2, r3) /\ Uncut(r3.cells, end + 1)
        BY <1>3, <3>1, <3>2, WithoutWideWhole
      <3>4. Uncut(r3.cells, x) /\ Uncut(r3.cells, R + 1)
        BY <1>3, <3>3, ThinnedUncut
      <3> QED BY <3>1, <3>3, <3>4
    <2>2. CASE ~(R - x + 1 > adj)
      <3>1. (R + 1) - adj = x
        BY <1>1, <2>2
      <3> QED BY <1>3, <2>2, <3>1
    <2> QED BY <2>1, <2>2
  <1> HIDE DEF r3
  <1> DEFINE from == x
             e == R + 1
             l == x + adj
             d == -adj
             h == Moved(r3.cells, from, e, l, e, d)
  <1>5. /\ from \in Nat /\ e \in Nat /\ l \in Nat /\ d \in Int /\ e <= Cols /\ from <= l /\ l <= e
        /\ from <= e /\ from <= l + d /\ e + d <= e /\ l + d = x /\ e + d = (R + 1) - adj
    BY <1>1
  <1>6. NoHeadIn(r3.cells, l + d, e + d)
    <2>1. ASSUME NEW i \in Columns, i \in l + d .. (e + d) - 1 PROVE r3.cells[i].wide # "head"
      <3>2. i # Cols - 1
        BY <1>1, <1>5, <2>1
      <3> QED BY <1>4, <3>2 DEF Whole, WholeCells
    <2> HIDE DEF l, e, d
    <2> QED BY <2>1 DEF NoHeadIn
  <1>7. Whole([r3 EXCEPT !.cells = h])
    <2>1. Uncut(r3.cells, from) /\ Uncut(r3.cells, e) /\ Uncut(r3.cells, l + d) /\ Uncut(r3.cells, e + d)
      BY <1>4, <1>5
    <2>2. h = Moved(r3.cells, from, e, l, e, d)
      OBVIOUS
    <2>3. e <= e
      BY <1>5
    <2> HIDE DEF h, from, e, l, d
    <2> QED BY <1>4, <1>5, <1>6, <2>1, <2>2, <2>3, MovedWhole
  <1>8. Filled(r4, x, x + adj) = [r3 EXCEPT !.cells = h]
    <2>1. r3 \in RowSet
      BY <1>4 DEF Whole
    <2> DEFINE c4 == [i \in Columns |-> IF i \in x + adj .. R THEN r3.cells[i - adj] ELSE r3.cells[i]]
               c5 == [i \in Columns |-> IF i \in x .. (x + adj) - 1 THEN Blank ELSE c4[i]]
    <2>2. r4 = [r3 EXCEPT !.cells = c4]
      BY <2>1 DEF RowSet
    <2>3. Filled(r4, x, x + adj) = [r4 EXCEPT !.cells = c5]
      BY <2>1, <2>2 DEF Filled, RowSet
    <2>4. ASSUME NEW i \in Columns PROVE c5[i] = h[i]
      <3>1. i \in Nat /\ i + d = i - adj /\ e - 1 = R /\ l = x + adj
        BY ColumnsIs, <1>1
      <3>2. CASE i \in x + adj .. R
        BY <1>1, <3>1, <3>2 DEF Moved
      <3>3. CASE i \in x .. (x + adj) - 1
        BY <1>1, <3>1, <3>3 DEF Moved
      <3>4. CASE i \notin x .. R
        BY <1>1, <3>1, <3>4 DEF Moved
      <3> QED BY <1>1, <3>1, <3>2, <3>3, <3>4
    <2>5. c5 = h
      BY <2>4 DEF Moved
    <2> HIDE DEF c4, c5, h
    <2> QED BY <2>1, <2>2, <2>3, <2>5 DEF RowSet
  <1> QED BY <1>7, <1>8 DEF r1, r2, r3

(* Inserting blanks leaves a good screen.                                   *)
LEMMA InsertBlanksGood ==
    ASSUME NEW s, Good(s), RegionOK, NEW n \in Nat
    PROVE  /\ Good(InsertBlanks(s, n)) /\ InsertBlanks(s, n).x = s.x /\ InsertBlanks(s, n).y = s.y
           /\ InsertBlanks(s, n).prot = s.prot /\ InsertBlanks(s, n).pending = FALSE
  <1> DEFINE u == Unpended(s)
             x == u.x
             R == region.right
             rem == R - x + 1
             adj == Least(n, rem)
             end == x + rem - adj - 1
             r2 == WithoutWide(WithoutTail(u.rows[u.y], x), R)
             r3 == IF rem > adj THEN WithoutWide(r2, end) ELSE r2
             r4 == [r3 EXCEPT !.cells = [i \in Columns |->
                        IF i \in x + adj .. R THEN @[i - adj] ELSE @[i]]]
             q == Filled(r4, x, x + adj)
             a == R - adj
             p3 == IF rem > adj THEN WithoutWide(r2, a) ELSE r2
             p4 == [p3 EXCEPT !.cells = [i \in Columns |->
                        IF i \in x + adj .. R THEN @[i - adj] ELSE @[i]]]
  <1>1. Good(u) /\ u.x = s.x /\ u.y = s.y /\ u.prot = s.prot /\ u.pending = FALSE
    BY UnpendedGood
  <1>4. InsertBlanks(s, n) = IF n = 0 \/ x \notin region.left .. R THEN u
                             ELSE [u EXCEPT !.rows[u.y] = q]
    BY DEF InsertBlanks, WithoutWide, WithoutTail
  <1>2. CASE n = 0 \/ x \notin region.left .. R
    <2> HIDE DEF u, x, q
    <2> QED BY <1>1, <1>2, <1>4
  <1>3. CASE n # 0 /\ x \in region.left .. R
    <2>1. R \in Nat /\ x \in Nat /\ x <= R /\ rem > 0 /\ rem \in Nat
      BY <1>1, <1>3, RegionIs, GoodIs
    <2>2. adj \in Nat /\ adj > 0 /\ adj <= rem
      BY <1>3, <2>1 DEF Least
    <2> HIDE DEF u, adj
    <2>3. end = a
      BY <2>1, <2>2
    <2> HIDE DEF end, a, r2
    <2>4. p3 = r3
      BY <2>3
    <2> HIDE DEF p3, r3
    <2>5. p4 = r4
      BY <2>4
    <2>6. Whole(u.rows[u.y]) /\ u.y \in Lines
      BY <1>1, GoodIs
    <2>7. Whole(Filled(p4, x, x + adj))
      <3> HIDE DEF x
      <3> QED BY <1>3, <2>2, <2>6, InsertedRow DEF p3, r2, a
    <2>8. Whole(q)
      BY <2>5, <2>7
    <2> HIDE DEF q, x
    <2> QED BY <1>1, <1>3, <1>4, <2>6, <2>8, RowGood DEF x
  <1> QED BY <1>2, <1>3

-----------------------------------------------------------------------------
(* Erasing: blanks between columns that no character is across.             *)

(* No character is across an edge of the grid.                              *)
LEMMA EndsUncut ==
    ASSUME NEW r, Whole(r)
    PROVE  Uncut(r.cells, 0) /\ Uncut(r.cells, Cols)
  BY ColumnsIs DEF Uncut, Whole, WholeCells

(* Nothing is across the column after a cell that is not the first half of a character. *)
LEMMA UncutAfter ==
    ASSUME NEW r, Whole(r), NEW at \in Columns
    PROVE  /\ r.cells[at].wide = "wide" => at + 2 <= Cols /\ Uncut(r.cells, at + 2)
           /\ r.cells[at].wide # "wide" => Uncut(r.cells, at + 1)
           /\ r.cells[at].wide = "tail" => at > 0 /\ at - 1 \in Columns /\ Uncut(r.cells, at - 1)
           /\ r.cells[at].wide # "tail" => Uncut(r.cells, at)
  <1>1. at \in Nat /\ at < Cols /\ Cols \in Nat
    BY ColumnsIs
  <1>2. ASSUME r.cells[at].wide = "wide" PROVE at + 2 <= Cols /\ Uncut(r.cells, at + 2)
    <2>1. at + 1 \in Columns /\ r.cells[at + 1].wide = "tail" /\ at + 2 <= Cols
      BY <1>2, <1>1, ColumnsIs DEF Whole, WholeCells
    <2>2. ASSUME at + 2 \in Columns, r.cells[at + 2].wide = "tail" PROVE FALSE
      <3>1. (at + 2) - 1 = at + 1
        BY <1>1
      <3> QED BY <2>1, <2>2, <3>1 DEF Whole, WholeCells
    <2> QED BY <2>1, <2>2 DEF Uncut
  <1>3. ASSUME r.cells[at].wide # "wide" PROVE Uncut(r.cells, at + 1)
    <2>1. ASSUME at + 1 \in Columns, r.cells[at + 1].wide = "tail" PROVE FALSE
      <3>1. (at + 1) - 1 = at
        BY <1>1
      <3> QED BY <1>3, <2>1, <3>1 DEF Whole, WholeCells
    <2> QED BY <2>1 DEF Uncut
  <1>4. ASSUME r.cells[at].wide = "tail"
        PROVE  at > 0 /\ at - 1 \in Columns /\ Uncut(r.cells, at - 1)
    <2>1. at > 0 /\ r.cells[at - 1].wide = "wide"
      BY <1>4 DEF Whole, WholeCells
    <2> QED BY <1>1, <2>1, ColumnsIs DEF Uncut
  <1> QED BY <1>2, <1>3, <1>4 DEF Uncut

(* The screen with some cells blanked and the cursor where it was.          *)
Lighter(s, t) ==
    /\ Good(t) /\ t.x = s.x /\ t.y = s.y /\ t.prot = s.prot /\ t.pending = s.pending
    /\ \A y \in Lines : Thinned(s.rows[y], t.rows[y])

(* A row lighter than a lighter one is lighter.                             *)
LEMMA LighterOn ==
    ASSUME NEW s, NEW t, NEW u, Lighter(s, t), Lighter(t, u)
    PROVE  Lighter(s, u)
  BY ThinnedOn DEF Lighter

(* Blanks between two columns that no character is across leave a good screen. *)
LEMMA FillGood ==
    ASSUME NEW s, Good(s), NEW y \in Lines, NEW l \in Nat, NEW e \in Nat, e <= Cols,
           Uncut(s.rows[y].cells, l), Uncut(s.rows[y].cells, e)
    PROVE  /\ Lighter(s, Fill(s, y, l, e)) /\ Fill(s, y, l, e).rows[y] = Filled(s.rows[y], l, e)
           /\ \A z \in Lines : z # y => Fill(s, y, l, e).rows[z] = s.rows[z]
  <1> DEFINE q == Filled(s.rows[y], l, e)
             t == [s EXCEPT !.rows[y] = q]
  <1>1. Whole(q) /\ Thinned(s.rows[y], q)
    BY GoodIs, FilledWhole, FilledIs
  <1>2. Fill(s, y, l, e) = t
    BY DEF Fill
  <1> HIDE DEF q
  <1>3. /\ Good(t) /\ t.rows[y] = q /\ \A z \in Lines : z # y => t.rows[z] = s.rows[z]
        /\ t.x = s.x /\ t.y = s.y /\ t.prot = s.prot /\ t.pending = s.pending
    BY <1>1, RowGood
  <1> HIDE DEF t
  <1>4. ASSUME NEW z \in Lines PROVE Thinned(s.rows[z], t.rows[z])
    BY <1>1, <1>3, ThinnedSame
  <1> QED BY <1>2, <1>3, <1>4 DEF Lighter, q

(* The filler at the end of a line is blanked.                              *)
LEMMA HeadFilled ==
    ASSUME NEW s, Good(s), NEW y \in Lines, s.rows[y].cells[Cols - 1].wide = "head"
    PROVE  /\ Lighter(s, Fill(s, y, Cols - 1, Cols))
           /\ Fill(s, y, Cols - 1, Cols).rows[y].cells[Cols - 1].wide # "head"
           /\ \A z \in Lines : z # y => Fill(s, y, Cols - 1, Cols).rows[z] = s.rows[z]
  <1>1. Cols - 1 \in Nat /\ Cols \in Nat /\ Cols - 1 \in Columns /\ Cols - 1 \in Cols - 1 .. Cols - 1
    BY ColumnsIs
  <1>2. Uncut(s.rows[y].cells, Cols - 1) /\ Uncut(s.rows[y].cells, Cols) /\ Whole(s.rows[y])
    BY EndsUncut, GoodIs DEF Uncut
  <1>3. Filled(s.rows[y], Cols - 1, Cols).cells[Cols - 1] = Blank
    BY <1>1, <1>2, FilledIs
  <1> QED BY <1>1, <1>2, <1>3, FillGood, BlankIs

(* split_cell_boundary: no wide character is across it afterwards.          *)
LEMMA SplitGood ==
    ASSUME NEW s, Good(s), NEW x \in 0 .. Cols
    PROVE  /\ Lighter(s, SplitCellBoundary(s, x))
           /\ Uncut(SplitCellBoundary(s, x).rows[s.y].cells, x)
           /\ x = Cols => SplitCellBoundary(s, x).rows[s.y].cells[Cols - 1].wide # "head"
  <1> DEFINE r == s.rows[s.y]
             clearsHead == x \in {0, 1} /\ r.cont /\ r.cells[0].wide = "wide"
                             /\ HasHead(s, s.y - 1)
             t == IF clearsHead THEN Fill(s, s.y - 1, Cols - 1, Cols) ELSE s
  <1>0. Lighter(s, s) /\ Whole(r) /\ s.y \in Lines /\ s.y \in Nat /\ s.y - 1 # s.y
    BY GoodIs, ThinnedSame DEF Lighter
  <1>1. Lighter(s, t) /\ t.rows[s.y] = r /\ Good(t)
    <2>1. CASE clearsHead
      <3>1. s.y - 1 \in Lines /\ s.rows[s.y - 1].cells[Cols - 1].wide = "head"
        BY <2>1 DEF HasHead
      <3> QED BY <1>0, <2>1, <3>1, HeadFilled DEF Lighter
    <2>2. CASE ~clearsHead
      BY <1>0, <2>2
    <2> QED BY <2>1, <2>2
  <1> HIDE DEF t
  <1>2. CASE x = Cols
    <2>1. SplitCellBoundary(s, x) = IF r.wrap /\ HasHead(s, s.y) THEN Fill(s, s.y, Cols - 1, Cols) ELSE s
      BY <1>2 DEF SplitCellBoundary
    <2>2. CASE r.cells[Cols - 1].wide = "head"
      <3>1. SplitCellBoundary(s, x) = Fill(s, s.y, Cols - 1, Cols)
        BY <1>0, <2>1, <2>2 DEF HasHead, Whole
      <3> QED BY <1>0, <1>2, <2>2, <3>1, HeadFilled, ColumnsIs DEF Uncut
    <2>3. CASE r.cells[Cols - 1].wide # "head"
      <3>1. SplitCellBoundary(s, x) = s
        BY <2>1, <2>3 DEF HasHead
      <3> QED BY <1>0, <1>2, <2>3, <3>1, EndsUncut
    <2> QED BY <2>2, <2>3
  <1>3. CASE x # Cols
    <2>0. x \in Columns /\ x \in Nat /\ x + 1 <= Cols
      BY <1>3, ColumnsIs
    <2>1. SplitCellBoundary(s, x) =
            IF x > 0 /\ r.cells[x - 1].wide = "wide" THEN Fill(t, s.y, x - 1, x + 1) ELSE t
      BY <1>3 DEF SplitCellBoundary, t
    <2>2. CASE x > 0 /\ r.cells[x - 1].wide = "wide"
      <3> DEFINE b == x - 1
                 e == b + 2
      <3>1. b \in Columns /\ b \in Nat /\ e = x + 1 /\ e \in Nat /\ x \in b .. e - 1
        BY <2>0, <2>2, ColumnsIs
      <3> HIDE DEF b
      <3>2. e <= Cols /\ Uncut(r.cells, e) /\ Uncut(r.cells, b)
        BY <1>0, <2>2, <3>1, UncutAfter DEF Uncut, b
      <3> HIDE DEF e
      <3>3. Lighter(t, Fill(t, s.y, b, e)) /\ Fill(t, s.y, b, e).rows[s.y] = Filled(r, b, e)
        BY <1>0, <1>1, <3>1, <3>2, FillGood
      <3>4. Filled(r, b, e).cells[x] = Blank
        BY <1>0, <2>0, <3>1, FilledIs
      <3>5. SplitCellBoundary(s, x) = Fill(t, s.y, b, e)
        BY <2>1, <2>2, <3>1 DEF b
      <3> QED BY <1>1, <1>3, <3>3, <3>4, <3>5, BlankIs, LighterOn DEF Uncut
    <2>3. CASE ~(x > 0 /\ r.cells[x - 1].wide = "wide")
      <3>1. Uncut(r.cells, x)
        BY <1>0, <2>3 DEF Uncut, Whole, WholeCells
      <3> QED BY <1>1, <1>3, <2>1, <2>3, <3>1
    <2> QED BY <2>2, <2>3
  <1> QED BY <1>2, <1>3

(* cursor_reset_wrap leaves a good screen: the filler goes with the flag.   *)
LEMMA ResetWrapGood ==
    ASSUME NEW s, Good(s)
    PROVE  /\ Good(ResetWrap(s)) /\ ResetWrap(s).x = s.x /\ ResetWrap(s).y = s.y
           /\ Thinned(s.rows[s.y], ResetWrap(s).rows[s.y])
  <1> DEFINE y == s.y
             r == s.rows[y]
             p == [r EXCEPT !.wrap = FALSE]
             q == IF r.cells[Cols - 1].wide = "head" THEN Filled(p, Cols - 1, Cols) ELSE p
             R == [z \in Lines |-> IF z = y THEN q
                                   ELSE IF z = y + 1 THEN [s.rows[z] EXCEPT !.cont = FALSE]
                                   ELSE s.rows[z]]
             u == Unpended(s)
  <1>1. /\ s \in ScreenSet /\ y \in Lines /\ y \in Nat /\ Whole(r) /\ r \in RowSet
        /\ \A z \in Lines : s.rows[z] \in RowSet /\ Whole(s.rows[z])
        /\ s.rows \in [Lines -> RowSet]
    BY GoodIs
  <1>2. Good(u) /\ u.rows = s.rows /\ u.x = s.x /\ u.y = s.y
    BY UnpendedGood
  <1>3. CASE ~r.wrap
    BY <1>2, <1>3, ThinnedSame DEF ResetWrap
  <1>4. CASE r.wrap
    <2>1. Whole(q) /\ Thinned(r, q)
      <3>1. p \in RowSet /\ p.cells = r.cells /\ p.wrap = FALSE
        BY <1>1 DEF RowSet
      <3>2. CASE r.cells[Cols - 1].wide = "head"
        <4> DEFINE v == Filled(r, Cols - 1, Cols)
        <4>1. /\ Cols - 1 \in Nat /\ Cols \in Nat /\ Cols - 1 \in Columns
              /\ Cols - 1 \in Cols - 1 .. Cols - 1
          BY ColumnsIs
        <4>2. Uncut(r.cells, Cols - 1) /\ Uncut(r.cells, Cols)
          BY <1>1, <3>2, EndsUncut DEF Uncut
        <4>3. Whole(v) /\ Thinned(r, v) /\ v.cells[Cols - 1] = Blank
          BY <1>1, <4>1, <4>2, FilledWhole, FilledIs
        <4>4. q = [v EXCEPT !.wrap = FALSE]
          BY <1>1, <3>2 DEF Filled, RowSet
        <4> HIDE DEF q, v
        <4>5. q \in RowSet /\ q.cells = v.cells
          BY <4>3, <4>4 DEF Whole, RowSet
        <4> QED BY <4>3, <4>5, BlankIs DEF Whole, Thinned
      <3>3. CASE r.cells[Cols - 1].wide # "head"
        BY <1>1, <3>1, <3>3 DEF Whole, Thinned
      <3> QED BY <3>2, <3>3
    <2> HIDE DEF q
    <2>2. ASSUME NEW z \in Lines PROVE Whole(R[z])
      <3>1. CASE z = y
        BY <2>1, <3>1
      <3>2. CASE z = y + 1
        <4>1. z # y /\ Whole(s.rows[z])
          BY <1>1, <3>2
        <4> QED BY <3>2, <4>1 DEF Whole, RowSet
      <3>3. CASE z # y /\ z # y + 1
        BY <1>1, <3>3
      <3> QED BY <3>1, <3>2, <3>3
    <2>3. ResetWrap(s) = [u EXCEPT !.rows = R]
      <3> DEFINE t == SetWrap(u, FALSE)
                 v == IF y + 1 \in Lines THEN [t EXCEPT !.rows[y + 1].cont = FALSE] ELSE t
                 T == [z \in Lines |-> IF z = y THEN p ELSE s.rows[z]]
                 V == [z \in Lines |-> IF z = y THEN p
                                       ELSE IF z = y + 1 THEN [s.rows[z] EXCEPT !.cont = FALSE]
                                       ELSE s.rows[z]]
      <3>1. u \in ScreenSet /\ t.y = y
        BY <1>2 DEF Good, SetWrap, ScreenSet
      <3>2. ResetWrap(s) = IF v.rows[y].cells[Cols - 1].wide = "head"
                           THEN Fill(v, y, Cols - 1, Cols) ELSE v
        BY <1>1, <1>2, <1>4, <3>1 DEF ResetWrap
      <3>3. t = [u EXCEPT !.rows = T]
        <4>1. u.rows = [z \in Lines |-> s.rows[z]]
          BY <1>1, <1>2
        <4>2. [u.rows EXCEPT ![y].wrap = FALSE] = T
          BY <1>1, <1>2, <4>1
        <4> HIDE DEF T, u, p, y
        <4>3. t = [u EXCEPT !.rows = [u.rows EXCEPT ![y].wrap = FALSE]]
          BY <1>2, <3>1 DEF SetWrap, ScreenSet, y
        <4> QED BY <4>2, <4>3
      <3>4. v = [u EXCEPT !.rows = V]
        <4> HIDE DEF u, t, p, y
        <4>1. CASE y + 1 \in Lines
          <5>1. v = [t EXCEPT !.rows = [t.rows EXCEPT ![y + 1].cont = FALSE]]
            BY <3>1, <3>3, <4>1 DEF ScreenSet
          <5>2. t.rows = T
            BY <3>1, <3>3 DEF ScreenSet
          <5>3. [T EXCEPT ![y + 1].cont = FALSE] = V
            <6>1. y + 1 # y
              BY <1>1
            <6>2. [T EXCEPT ![y + 1].cont = FALSE] =
                    [z \in Lines |-> IF z = y + 1 THEN [T[z] EXCEPT !.cont = FALSE] ELSE T[z]]
              <7> HIDE DEF p
              <7> QED BY <4>1, Zenon
            <6> DEFINE W == [z \in Lines |-> IF z = y + 1 THEN [T[z] EXCEPT !.cont = FALSE] ELSE T[z]]
            <6>3. ASSUME NEW z \in Lines PROVE W[z] = V[z]
              <7>1. CASE z = y + 1
                BY <6>1, <7>1
              <7>2. CASE z # y + 1
                BY <7>2
              <7> QED BY <7>1, <7>2
            <6>4. W = V
              BY <6>3
            <6> QED BY <6>2, <6>4
          <5> HIDE DEF T, V
          <5> QED BY <3>1, <3>3, <5>1, <5>2, <5>3 DEF ScreenSet
        <4>2. CASE y + 1 \notin Lines
          <5>1. T = V
            BY <4>2
          <5> QED BY <3>3, <4>2, <5>1
        <4> QED BY <4>1, <4>2
      <3> HIDE DEF u, v, t, T, y
      <3>5. v.rows = V /\ V[y] = p /\ p.cells = r.cells
        BY <1>1, <3>1, <3>4 DEF ScreenSet, RowSet
      <3>6. CASE r.cells[Cols - 1].wide = "head"
        <4>1. [V EXCEPT ![y] = q] = R
          BY <1>1
        <4>2. Fill(v, y, Cols - 1, Cols) = [v EXCEPT !.rows = [V EXCEPT ![y] = Filled(p, Cols - 1, Cols)]]
          BY <1>1, <3>1, <3>4, <3>5 DEF Fill, ScreenSet
        <4>3. q = Filled(p, Cols - 1, Cols)
          BY <3>6 DEF q
        <4> HIDE DEF R, V, p, r
        <4> QED BY <3>1, <3>2, <3>4, <3>5, <3>6, <4>1, <4>2, <4>3 DEF ScreenSet
      <3>7. CASE r.cells[Cols - 1].wide # "head"
        <4>1. V = R
          BY <3>7 DEF q
        <4> QED BY <3>2, <3>4, <3>5, <3>7, <4>1
      <3> QED BY <3>6, <3>7
    <2>4. R[y] = q /\ R = [z \in Lines |-> R[z]] /\ DOMAIN R = Lines
      BY <1>1
    <2> HIDE DEF R, u
    <2>5. /\ Good([u EXCEPT !.rows = R]) /\ [u EXCEPT !.rows = R].rows = R
          /\ [u EXCEPT !.rows = R].x = u.x /\ [u EXCEPT !.rows = R].y = u.y
      BY <1>2, <2>2, <2>4, RowsGood
    <2> QED BY <1>2, <2>1, <2>3, <2>4, <2>5
  <1> QED BY <1>3, <1>4

-----------------------------------------------------------------------------
(* Erasing characters, lines and the display.                               *)

(* Erasing between two such columns leaves a good screen, protected cells kept or not. *)
LEMMA EraseCellsGood ==
    ASSUME NEW s, Good(s), NEW b \in BOOLEAN, NEW l \in Nat, NEW e \in Nat, e <= Cols,
           Uncut(s.rows[s.y].cells, l), Uncut(s.rows[s.y].cells, e)
    PROVE  /\ Good(EraseCells(s, b, l, e)) /\ EraseCells(s, b, l, e).x = s.x
           /\ EraseCells(s, b, l, e).y = s.y
  <1> DEFINE r == s.rows[s.y]
             q == IF b THEN FilledUnprotected(r, l, e) ELSE Filled(r, l, e)
  <1>1. Whole(q) /\ s.y \in Lines
    BY GoodIs, FilledWhole, FilledUnprotectedWhole
  <1>2. EraseCells(s, b, l, e) = [s EXCEPT !.rows[s.y] = q]
    BY DEF EraseCells
  <1> HIDE DEF q
  <1> QED BY <1>1, <1>2, RowGood

(* delete_chars: the cells behind the deleted ones come from their right.   *)
LEMMA DeleteCharsGood ==
    ASSUME NEW s, Good(s), RegionOK, NEW n \in Nat
    PROVE  Good(DeleteChars(s, n))
  <1>1. CASE n = 0 \/ s.x \notin region.left .. region.right
    BY <1>1 DEF DeleteChars
  <1>2. CASE n # 0 /\ s.x \in region.left .. region.right
    <2> DEFINE R == region.right
               x == s.x
               y == s.y
               count == Least(n, R - x + 1)
               a == SplitCellBoundary(s, x)
               b == SplitCellBoundary(a, x + count)
               t == SplitCellBoundary(b, R + 1)
               f == t.rows[y].cells
               kept == x .. R - count
               cells == [i \in Columns |-> f[IF i \in kept THEN i + count ELSE i]]
               u == [t EXCEPT !.rows[y].cells = cells]
               v == Fill(u, y, R - count + 1, R + 1)
    <2>1. DeleteChars(s, n) = ResetWrap(v)
      BY <1>2 DEF DeleteChars
    <2>2. /\ R \in Nat /\ x \in Nat /\ x <= R /\ R + 1 <= Cols /\ x \in Columns /\ y \in Lines
          /\ Cols \in Nat /\ R - x + 1 \in Nat
      BY <1>2, RegionIs, GoodIs, ColumnsIs
    <2>3. count \in Nat /\ count > 0 /\ x + count <= R + 1
      BY <1>2, <2>2 DEF Least
    <2> HIDE DEF count
    <2>4. x \in 0 .. Cols /\ x + count \in 0 .. Cols /\ R + 1 \in 0 .. Cols
      BY <2>2, <2>3
    <2>5. Lighter(s, a) /\ Uncut(a.rows[y].cells, x) /\ Good(a) /\ a.y = y
      BY <2>4, SplitGood DEF Lighter
    <2> HIDE DEF a
    <2>6. Lighter(a, b) /\ Uncut(b.rows[y].cells, x + count) /\ Good(b) /\ b.y = y
      BY <2>4, <2>5, SplitGood DEF Lighter
    <2> HIDE DEF b
    <2>7. /\ Lighter(b, t) /\ Uncut(t.rows[y].cells, R + 1) /\ Good(t) /\ t.y = y
          /\ (R + 1 = Cols => t.rows[y].cells[Cols - 1].wide # "head")
      <3>1. /\ Lighter(b, t) /\ Uncut(t.rows[b.y].cells, R + 1)
            /\ R + 1 = Cols => t.rows[b.y].cells[Cols - 1].wide # "head"
        BY <2>4, <2>6, SplitGood, Zenon
      <3> HIDE DEF t
      <3>2. Good(t) /\ t.y = b.y
        BY <3>1 DEF Lighter
      <3> QED BY <2>6, <3>1, <3>2
    <2> HIDE DEF t
    <2>8. Uncut(b.rows[y].cells, x) /\ Uncut(t.rows[y].cells, x) /\ Uncut(t.rows[y].cells, x + count)
      <3>1. Thinned(a.rows[y], b.rows[y]) /\ Thinned(b.rows[y], t.rows[y])
        BY <2>2, <2>6, <2>7 DEF Lighter
      <3>2. Uncut(b.rows[y].cells, x)
        BY <2>5, <3>1, ThinnedUncut
      <3> QED BY <2>6, <3>1, <3>2, ThinnedUncut
    <2> DEFINE p == t.rows[y]
               e == (R + 1) - count
               end == R + 1
               h == Moved(p.cells, x, end, x, e, count)
    <2>9. Whole(p) /\ p \in RowSet /\ p.cells \in CellRows /\ WholeCells(p.cells)
      BY <2>2, <2>7, GoodIs
    <2>10. /\ x \in Nat /\ end \in Nat /\ e \in Nat /\ count \in Int /\ end <= Cols
           /\ x <= x /\ e <= end /\ x <= end /\ x <= e /\ x <= x + count
           /\ e + count = end /\ e + count <= end
      BY <2>2, <2>3
    <2>11. Uncut(p.cells, x) /\ Uncut(p.cells, x + count) /\ Uncut(p.cells, end) /\ Uncut(p.cells, e + count)
      BY <2>7, <2>8, <2>10
    <2>12. NoHeadIn(p.cells, x + count, e + count)
      <3>1. ASSUME NEW i \in Columns, i \in x + count .. (e + count) - 1
            PROVE  p.cells[i].wide # "head"
        <4>1. p.cells[i].wide = "head" => i = Cols - 1
          BY <2>9 DEF WholeCells
        <4>2. i \in Nat /\ i <= R
          BY <2>10, <3>1, <2>2, ColumnsIs
        <4>3. i = Cols - 1 => R + 1 = Cols
          BY <4>2, <2>2
        <4> QED BY <2>7, <4>1, <4>3
      <3> QED BY <3>1 DEF NoHeadIn
    <2>13. Whole([p EXCEPT !.cells = h])
      <3>1. h = Moved(p.cells, x, end, x, e, count)
        OBVIOUS
      <3> HIDE DEF h, e, end, x, p
      <3> QED BY <2>9, <2>10, <2>11, <2>12, <3>1, MovedWhole
    <2>14. v = [t EXCEPT !.rows[y] = [p EXCEPT !.cells = h]]
      <3> DEFINE c2 == [i \in Columns |-> IF i \in R - count + 1 .. (R + 1) - 1 THEN Blank ELSE cells[i]]
      <3>1. c2 = h
        <4>1. ASSUME NEW i \in Columns PROVE c2[i] = h[i]
          <5>1. i \in Nat /\ e - 1 = R - count /\ R - count + 1 = e /\ end - 1 = R
            <6>1. i \in Nat
              BY ColumnsIs
            <6> QED BY <2>2, <2>3, <6>1
          <5>2. CASE i \in kept
            <6>1. i \in x .. e - 1 /\ i \notin R - count + 1 .. (R + 1) - 1
              BY <2>2, <2>3, <5>1, <5>2
            <6>2. cells[i] = f[i + count]
              BY <5>2
            <6> HIDE DEF cells, kept, x, e, end
            <6> QED BY <6>1, <6>2 DEF Moved, p, f
          <5>3. CASE i \in R - count + 1 .. (R + 1) - 1
            <6>1. i \notin x .. e - 1 /\ i \in x .. end - 1
              BY <2>2, <2>3, <5>1, <5>3
            <6> HIDE DEF cells, kept, x, e, end
            <6> QED BY <5>3, <6>1 DEF Moved
          <5>4. CASE i \notin kept /\ i \notin R - count + 1 .. (R + 1) - 1
            <6>1. i \notin x .. e - 1 /\ i \notin x .. end - 1
              BY <2>2, <2>3, <5>1, <5>4
            <6>2. cells[i] = f[i]
              BY <5>4
            <6> HIDE DEF cells, kept, x, e, end
            <6> QED BY <5>4, <6>1, <6>2 DEF Moved, p, f
          <5> QED BY <5>2, <5>3, <5>4
        <4> QED BY <4>1 DEF Moved
      <3>2. t \in ScreenSet /\ t.rows \in [Lines -> RowSet]
        BY <2>7, GoodIs
      <3> HIDE DEF cells, h, x
      <3>3. u = [t EXCEPT !.rows[y] = [p EXCEPT !.cells = cells]]
        BY <2>2, <3>2 DEF ScreenSet
      <3>4. u.rows[y] = [p EXCEPT !.cells = cells]
        <4> HIDE DEF u
        <4> QED BY <2>2, <3>2, <3>3 DEF ScreenSet
      <3>5. v = [u EXCEPT !.rows[y] = Filled(u.rows[y], R - count + 1, R + 1)]
        BY DEF Fill
      <3>6. Filled(u.rows[y], R - count + 1, R + 1) = [p EXCEPT !.cells = c2]
        <4> HIDE DEF u, p
        <4> QED BY <2>9, <3>4 DEF Filled, RowSet
      <3> HIDE DEF c2, u, v, p
      <3>7. v = [u EXCEPT !.rows[y] = [p EXCEPT !.cells = h]]
        BY <3>1, <3>5, <3>6
      <3> QED BY <2>2, <3>2, <3>3, <3>7 DEF ScreenSet
    <2> HIDE DEF v, h, p
    <2>15. Good(v)
      BY <2>2, <2>7, <2>13, <2>14, RowGood
    <2> QED BY <2>1, <2>15, ResetWrapGood
  <1> QED BY <1>1, <1>2

(* Erasing characters leaves a good screen.                                 *)
LEMMA EraseCharsGood ==
    ASSUME NEW s, Good(s), NEW n \in Nat
    PROVE  Good(EraseChars(s, n))
  <1> DEFINE x == s.x
             y == s.y
             r == s.rows[y]
             remaining == Cols - x
             asked == Least(remaining, AtLeastOne(n))
             splits == asked # remaining /\ r.cells[x + asked - 1].wide = "wide"
             count == IF splits THEN asked + 1 ELSE asked
             a == SplitCellBoundary(s, x)
             t == SplitCellBoundary(a, x + count)
             w == ResetWrap(t)
  <1>1. /\ x \in Nat /\ x < Cols /\ Cols \in Nat /\ remaining \in Nat /\ remaining >= 1
        /\ y \in Lines
    BY GoodIs, ColumnsIs
  <1>2. AtLeastOne(n) \in Nat /\ AtLeastOne(n) >= 1
    BY AtLeastOneIs
  <1>3. asked \in Nat /\ asked >= 1 /\ asked <= remaining
    BY <1>1, <1>2 DEF Least
  <1>4. EraseChars(s, n) = EraseCells(w, s.pmode = "iso", x, x + count)
    BY DEF EraseChars
  <1> HIDE DEF asked
  <1>5. count \in Nat /\ x + count \in Nat /\ x + count <= Cols /\ x \in 0 .. Cols
        /\ x + count \in 0 .. Cols
    BY <1>1, <1>3
  <1> HIDE DEF count
  <1>6. Lighter(s, a) /\ Uncut(a.rows[y].cells, x) /\ Good(a) /\ a.y = y
    BY <1>5, SplitGood DEF Lighter
  <1> HIDE DEF a
  <1>7. /\ Thinned(a.rows[y], t.rows[y]) /\ Uncut(t.rows[y].cells, x + count) /\ Good(t) /\ t.y = y
    BY <1>1, <1>5, <1>6, SplitGood DEF Lighter
  <1> HIDE DEF t
  <1>8. Good(w) /\ w.y = y /\ Thinned(t.rows[y], w.rows[y])
    BY <1>7, ResetWrapGood
  <1>9. Uncut(t.rows[y].cells, x)
    BY <1>6, <1>7, ThinnedUncut
  <1> HIDE DEF w
  <1>10. Uncut(w.rows[w.y].cells, x) /\ Uncut(w.rows[w.y].cells, x + count)
    BY <1>7, <1>8, <1>9, ThinnedUncut
  <1> DEFINE b == s.pmode = "iso"
             e == x + count
  <1>11. b \in BOOLEAN /\ x \in Nat /\ e \in Nat /\ e <= Cols
    BY <1>1, <1>5
  <1> HIDE DEF b, e, x
  <1>12. Good(EraseCells(w, b, x, e))
    BY <1>8, <1>10, <1>11, EraseCellsGood DEF e
  <1> QED BY <1>4, <1>12 DEF b, e

(* Erasing a line, or a part of it, does.                                   *)
LEMMA EraseLineGood ==
    ASSUME NEW s, Good(s), NEW mode \in {"right", "left", "complete"}, NEW req \in BOOLEAN
    PROVE  /\ Good(EraseLine(s, mode, req)) /\ EraseLine(s, mode, req).x = s.x
           /\ EraseLine(s, mode, req).y = s.y
  <1> DEFINE p == EraseProtected(s, req)
             r == s.rows[s.y]
             u == Unpended(s)
  <1>1. p \in BOOLEAN
    BY DEF EraseProtected
  <1>2. /\ Good(u) /\ u.rows = s.rows /\ u.y = s.y /\ u.x = s.x /\ Whole(r)
        /\ s.x \in Columns /\ s.x \in Nat /\ Cols \in Nat /\ Cols <= Cols /\ 0 \in Nat
        /\ Uncut(r.cells, 0) /\ Uncut(r.cells, Cols)
    <2>1. Whole(r) /\ s.x \in Columns /\ s.x \in Nat /\ Cols \in Nat /\ Cols <= Cols
      BY GoodIs, ColumnsIs
    <2>2. Uncut(r.cells, 0) /\ Uncut(r.cells, Cols)
      BY <2>1, EndsUncut
    <2> QED BY <2>1, <2>2, UnpendedGood
  <1>3. CASE mode = "right"
    <2> DEFINE from == IF s.x > 0 /\ CellAt(s).wide = "tail" THEN s.x - 1 ELSE s.x
               w == ResetWrap(s)
    <2>1. EraseLine(s, mode, req) = EraseCells(w, p, from, Cols)
      BY <1>3 DEF EraseLine
    <2>2. from \in Nat /\ Uncut(r.cells, from)
      BY <1>2, UncutAfter, ColumnsIs DEF CellAt
    <2>3. Good(w) /\ w.y = s.y /\ w.x = s.x /\ Thinned(r, w.rows[s.y])
      BY ResetWrapGood
    <2> HIDE DEF w, from, p
    <2>4. Uncut(w.rows[w.y].cells, from) /\ Uncut(w.rows[w.y].cells, Cols)
      BY <1>2, <2>2, <2>3, ThinnedUncut
    <2> QED BY <1>1, <1>2, <2>1, <2>2, <2>3, <2>4, EraseCellsGood
  <1>4. CASE mode = "left"
    <2> DEFINE to == IF CellAt(s).wide = "wide" THEN s.x + 1 ELSE s.x
               e == to + 1
    <2>1. EraseLine(s, mode, req) = EraseCells(u, p, 0, e)
      BY <1>4 DEF EraseLine
    <2>2. e \in Nat /\ e <= Cols /\ Uncut(r.cells, e)
      <3>1. CASE r.cells[s.x].wide = "wide"
        <4>1. e = s.x + 2
          BY <1>2, <3>1 DEF CellAt
        <4> HIDE DEF e
        <4> QED BY <1>2, <3>1, <4>1, UncutAfter
      <3>2. CASE r.cells[s.x].wide # "wide"
        <4>1. e = s.x + 1 /\ s.x + 1 <= Cols
          BY <1>2, <3>2, ColumnsIs DEF CellAt
        <4> HIDE DEF e
        <4> QED BY <1>2, <3>2, <4>1, UncutAfter
      <3> QED BY <3>1, <3>2
    <2> HIDE DEF e, u, p
    <2> QED BY <1>1, <1>2, <2>1, <2>2, EraseCellsGood
  <1>5. CASE mode = "complete"
    <2>1. EraseLine(s, mode, req) = EraseCells(u, p, 0, Cols)
      BY <1>5 DEF EraseLine
    <2> HIDE DEF u, p
    <2> QED BY <1>1, <1>2, <2>1, EraseCellsGood
  <1> QED BY <1>3, <1>4, <1>5

(* Clearing lines from end to end does.                                     *)
LEMMA ClearRowsGood ==
    ASSUME NEW s, Good(s), NEW ys, NEW b \in BOOLEAN
    PROVE  /\ Good(ClearRows(s, ys, b)) /\ ClearRows(s, ys, b).x = s.x
           /\ ClearRows(s, ys, b).y = s.y
  <1> DEFINE R == [y \in Lines |-> IF y \notin ys THEN s.rows[y]
                                   ELSE IF b THEN FilledUnprotected(s.rows[y], 0, Cols) ELSE BlankRow]
  <1>1. ClearRows(s, ys, b) = [s EXCEPT !.rows = R]
    BY DEF ClearRows
  <1>2. ASSUME NEW y \in Lines PROVE Whole(R[y])
    <2>1. Whole(s.rows[y]) /\ Whole(BlankRow)
      BY GoodIs, BlankRowWhole
    <2>2. Whole(FilledUnprotected(s.rows[y], 0, Cols))
      BY <2>1, EndsUncut, FilledUnprotectedWhole, ColumnsIs
    <2> QED BY <2>1, <2>2
  <1>3. R = [y \in Lines |-> R[y]] /\ DOMAIN R = Lines
    OBVIOUS
  <1> HIDE DEF R
  <1> QED BY <1>1, <1>2, <1>3, RowsGood

(* Erasing the display, or a part of it, does.                              *)
LEMMA EraseDisplayGood ==
    ASSUME NEW s, Good(s), NEW mode \in {"below", "above", "complete"}, NEW req \in BOOLEAN
    PROVE  Good(EraseDisplay(s, mode, req))
  <1> DEFINE p == EraseProtected(s, req)
  <1>1. p \in BOOLEAN
    BY DEF EraseProtected
  <1>2. CASE mode = "complete"
    <2>1. EraseDisplay(s, mode, req) = Unpended(ClearRows(s, Lines, p))
      BY <1>2 DEF EraseDisplay
    <2> HIDE DEF p
    <2> QED BY <1>1, <2>1, ClearRowsGood, UnpendedGood
  <1>3. CASE mode = "below"
    <2>1. EraseDisplay(s, mode, req) = ClearRows(EraseLine(s, "right", req), s.y + 1 .. Rows - 1, p)
      BY <1>3 DEF EraseDisplay
    <2> HIDE DEF p
    <2> QED BY <1>1, <2>1, ClearRowsGood, EraseLineGood
  <1>4. CASE mode = "above"
    <2>1. EraseDisplay(s, mode, req) = ClearRows(EraseLine(s, "left", req), 0 .. s.y - 1, p)
      BY <1>4 DEF EraseDisplay
    <2> HIDE DEF p
    <2> QED BY <1>1, <2>1, ClearRowsGood, EraseLineGood
  <1> QED BY <1>2, <1>3, <1>4

-----------------------------------------------------------------------------
(* cursor_left: the cursor stays on the screen in every turn of the loop.   *)
OnScreen(c, b) ==
    /\ b = [s |-> b.s, todo |-> b.todo, margin |-> b.margin]
    /\ Good(b.s) /\ b.todo \in Nat
    /\ b.margin \in Nat /\ b.margin <= b.s.x

(* A turn of cursor_left's loop leaves a cursor in the grid.                *)
LEMMA ReverseWrapGood ==
    ASSUME RegionOK, NEW c, NEW b, OnScreen(c, b), b.margin <= region.right, NEW turn
    PROVE  OnScreen(c, ReverseWrap(b, turn)) /\ ReverseWrap(b, turn).margin = b.margin
  <1> DEFINE amount == Least(b.s.x - b.margin, b.todo)
             t == Right(b.s, -amount)
             left == b.todo - amount
             above == IF t.y = region.top THEN region.bottom ELSE t.y - 1
             blocked == IF t.y = region.top THEN ~("reverse_ext" \in modes)
                        ELSE t.y = 0 \/ (~("reverse_ext" \in modes) /\ ~t.rows[t.y - 1].wrap)
  <1>1. /\ b.s.x \in Nat /\ b.s.x \in Columns /\ b.s.x < Cols /\ b.s.y \in Lines /\ b.s.y \in Nat
        /\ Cols \in Nat /\ Good(b.s) /\ b.todo \in Nat /\ b.margin \in Nat /\ b.margin <= b.s.x
    BY GoodIs, ColumnsIs DEF OnScreen
  <1>2. amount \in Nat /\ amount <= b.s.x - b.margin /\ amount <= b.todo
    BY <1>1 DEF Least
  <1>7. ReverseWrap(b, turn) = IF b.todo = 0 THEN b
                 ELSE IF left = 0 \/ blocked THEN [b EXCEPT !.s = t, !.todo = 0]
                 ELSE [b EXCEPT !.s = At(t, region.right, above), !.todo = left - 1]
    BY DEF ReverseWrap
  <1> HIDE DEF amount
  <1>3. left \in Nat
    BY <1>1, <1>2
  <1>4. Good(t) /\ b.margin <= t.x /\ t.y = b.s.y
    <2>1. -amount \in Int /\ b.s.x + (-amount) \in Columns /\ b.margin <= b.s.x + (-amount)
      BY <1>1, <1>2, ColumnsIs
    <2> QED BY <1>1, <2>1, RightGood
  <1> HIDE DEF t
  <1>5. ~blocked => above \in Lines
    <2>1. CASE t.y = region.top
      BY <2>1, RegionIs
    <2>2. CASE t.y # region.top
      <3>1. t.y \in Nat /\ t.y \in Lines
        BY <1>1, <1>4
      <3>2. t.y # 0 => t.y - 1 \in Lines
        BY <3>1, LinesIs
      <3> QED BY <2>2, <3>2
    <2> QED BY <2>1, <2>2
  <1> HIDE DEF above, blocked, left
  <1>6. ASSUME ~blocked PROVE Good(At(t, region.right, above)) /\ At(t, region.right, above).x = region.right
    <2>1. region.right \in Columns
      BY RegionIs
    <2> QED BY <1>4, <1>5, <1>6, <2>1, AtGood
  <1>8. CASE b.todo = 0
    BY <1>7, <1>8
  <1>9. CASE b.todo # 0 /\ (left = 0 \/ blocked)
    <2>1. ReverseWrap(b, turn) = [s |-> t, todo |-> 0, margin |-> b.margin]
      BY <1>7, <1>9 DEF OnScreen
    <2> QED BY <1>1, <1>4, <2>1 DEF OnScreen
  <1>10. CASE b.todo # 0 /\ ~(left = 0 \/ blocked)
    <2>1. ReverseWrap(b, turn) = [s |-> At(t, region.right, above), todo |-> left - 1, margin |-> b.margin]
      BY <1>7, <1>10 DEF OnScreen
    <2>2. left - 1 \in Nat
      BY <1>3, <1>10
    <2> QED BY <1>1, <1>6, <1>10, <2>1, <2>2 DEF OnScreen
  <1> QED BY <1>8, <1>9, <1>10

LeftOK(c, b) == OnScreen(c, b) /\ b.margin <= region.right
Left == INSTANCE FoldFacts WITH Step <- ReverseWrap, Inv <- LeftOK

(* The left fold over the turns is the fold of the lemmas about folds.      *)
LEMMA LeftFolds == \A base, input : FoldLeft(ReverseWrap, base, input) = Left!Fold(base, input)
  BY Zenon DEF FoldLeft, Left!FoldLeft, MapThenFoldSet, Left!MapThenFoldSet,
     Max, Left!Max, Left!Fold

(* The cursor stays in the grid when it moves left, in the reverse-wrap modes too. *)
LEMMA CursorLeftGood ==
    ASSUME NEW s, Good(s), RegionOK, NEW n \in Nat
    PROVE  Good(CursorLeft(s, n))
  <1> DEFINE wraps == "wraparound" \in modes /\ modes \cap {"reverse", "reverse_ext"} # {}
             extended == "reverse_ext" \in modes
             leftMargin == IF s.x < region.left THEN 0 ELSE region.left
             todo == AtLeastOne(n) - (IF s.pending THEN 1 ELSE 0)
             base == [s |-> Unpended(s), todo |-> todo, margin |-> leftMargin]
             k == Least(AtLeastOne(n), s.x)
  <1>1. CursorLeft(s, n) =
            IF ~wraps THEN Unpended(Right(s, -k))
            ELSE IF s.x = leftMargin /\ ~extended /\ s.y <= region.top
            THEN Unpended(At(s, leftMargin, region.top))
            ELSE FoldLeft(ReverseWrap, base, Turns(todo)).s
    BY DEF CursorLeft
  <1>2. /\ s.x \in Nat /\ s.x \in Columns /\ s.pending \in BOOLEAN /\ 0 \in Columns
        /\ region.left \in Nat /\ region.left \in Columns /\ region.right \in Nat /\ region.top \in Lines
        /\ region.left < region.right
    BY GoodIs, RegionIs, ColumnsIs
  <1>3. AtLeastOne(n) \in Nat /\ AtLeastOne(n) >= 1
    BY AtLeastOneIs
  <1>4. todo \in Nat /\ leftMargin \in Nat /\ leftMargin \in Columns /\ leftMargin <= s.x
        /\ leftMargin <= region.right
    BY <1>2, <1>3
  <1>5. Good(Unpended(Right(s, -k)))
    <2>1. k \in Nat /\ k <= s.x
      BY <1>2, <1>3 DEF Least
    <2> HIDE DEF k
    <2>2. -k \in Int /\ s.x + (-k) \in Columns
      BY <1>2, <2>1, ColumnsIs
    <2> QED BY <2>2, RightGood, UnpendedGood
  <1> HIDE DEF todo, leftMargin
  <1>6. Good(Unpended(At(s, leftMargin, region.top)))
    BY <1>2, <1>4, AtGood, UnpendedGood
  <1>7. Good(FoldLeft(ReverseWrap, base, Turns(todo)).s)
    <2>1. LeftOK(0, base)
      BY <1>4, UnpendedGood DEF LeftOK, OnScreen
    <2> HIDE DEF base
    <2>2. \A a : \A x \in Nat : LeftOK(0, a) => LeftOK(0, ReverseWrap(a, x))
      BY ReverseWrapGood DEF LeftOK
    <2>3. Turns(todo) \in Seq(Nat)
      BY <1>4, TurnsIs
    <2>4. LeftOK(0, Left!Fold(base, Turns(todo)))
      BY <2>1, <2>2, <2>3, Left!FoldKeeps
    <2> QED BY <2>4, LeftFolds DEF LeftOK, OnScreen
  <1> HIDE DEF wraps, extended, base, k
  <1> QED BY <1>1, <1>5, <1>6, <1>7

-----------------------------------------------------------------------------
(* print_cell: the other half of what it overwrites is blanked.             *)
Overwritten(f, x, cell) ==
    [z \in Columns |->
        IF z = x THEN cell
        ELSE IF \/ z = x + 1 /\ f[x].wide = "wide" /\ cell.wide # "wide"
                \/ z = x - 1 /\ f[x].wide = "tail" /\ cell.wide # "tail" THEN Blank
        ELSE f[z]]

(* The screen with one row's cells replaced, fillers above it aside.        *)
RowWritten(s, t, cells) ==
    /\ t \in ScreenSet /\ t.x = s.x /\ t.y = s.y /\ t.prot = s.prot /\ t.pending = s.pending
    /\ t.rows[s.y] = [s.rows[s.y] EXCEPT !.cells = cells]
    /\ \A z \in Lines : z # s.y => Whole(t.rows[z])

Beside(s) == s \in ScreenSet /\ \A z \in Lines : z # s.y => Whole(s.rows[z])

(* A filler of the line above that the printed character leaves stale is cleared. *)
LEMMA StaleCleared ==
    ASSUME NEW s, Beside(s)
    PROVE  RowWritten(s, ClearStaleSpacerHead(s), s.rows[s.y].cells)
  <1>0. /\ s.y \in Lines /\ s.y \in Nat /\ s.rows \in [Lines -> RowSet] /\ s.rows[s.y] \in RowSet
        /\ s.y - 1 # s.y
    BY LinesIs DEF Beside, ScreenSet
  <1>1. [s.rows[s.y] EXCEPT !.cells = s.rows[s.y].cells] = s.rows[s.y]
    BY <1>0 DEF RowSet
  <1>2. CASE s.y = 0 \/ s.x > 1
    BY <1>1, <1>2 DEF ClearStaleSpacerHead, RowWritten, Beside
  <1>3. CASE ~(s.y = 0 \/ s.x > 1)
    <2> DEFINE q == WithoutHead(s.rows[s.y - 1])
               t == [s EXCEPT !.rows[s.y - 1] = q]
    <2>1. s.y - 1 \in Lines /\ Whole(q)
      BY <1>0, <1>3, LinesIs, WithoutHeadWhole DEF Beside
    <2>2. ClearStaleSpacerHead(s) = t
      BY <1>3 DEF ClearStaleSpacerHead
    <2> HIDE DEF q
    <2>3. t.rows = [s.rows EXCEPT ![s.y - 1] = q]
      BY DEF Beside, ScreenSet
    <2>4. q \in RowSet
      BY <2>1 DEF Whole
    <2>5. t.rows \in [Lines -> RowSet]
      BY <1>0, <2>3, <2>4
    <2>6. t \in ScreenSet /\ t.x = s.x /\ t.y = s.y /\ t.prot = s.prot /\ t.pending = s.pending
      BY <2>5 DEF Beside, ScreenSet
    <2>7. t.rows[s.y] = s.rows[s.y] /\ \A z \in Lines : z # s.y => Whole(t.rows[z])
      BY <1>0, <2>1, <2>3 DEF Beside
    <2> HIDE DEF t
    <2> QED BY <1>1, <2>2, <2>6, <2>7 DEF RowWritten
  <1> QED BY <1>2, <1>3

(* The cells of the row that print_cell leaves.                             *)
LEMMA RowWrittenIs ==
    ASSUME NEW s, Beside(s), NEW cells \in CellRows
    PROVE  /\ RowWritten(s, [s EXCEPT !.rows[s.y].cells = cells], cells)
           /\ Beside([s EXCEPT !.rows[s.y].cells = cells])
  <1> DEFINE t == [s EXCEPT !.rows[s.y].cells = cells]
             q == [s.rows[s.y] EXCEPT !.cells = cells]
  <1>0. s.y \in Lines /\ s.rows \in [Lines -> RowSet] /\ s.rows[s.y] \in RowSet
    BY DEF Beside, ScreenSet
  <1>1. t = [s EXCEPT !.rows = [s.rows EXCEPT ![s.y] = q]]
    BY <1>0 DEF Beside, ScreenSet
  <1>2. q \in RowSet
    BY <1>0 DEF RowSet
  <1> HIDE DEF t, q
  <1>3. [s.rows EXCEPT ![s.y] = q] \in [Lines -> RowSet]
    BY <1>0, <1>2
  <1>4. /\ t \in ScreenSet /\ t.x = s.x /\ t.y = s.y /\ t.prot = s.prot /\ t.pending = s.pending
        /\ t.rows = [s.rows EXCEPT ![s.y] = q]
    BY <1>1, <1>3 DEF Beside, ScreenSet
  <1>5. t.rows[s.y] = q /\ \A z \in Lines : z # s.y => Whole(t.rows[z])
    BY <1>0, <1>4 DEF Beside
  <1>6. RowWritten(s, t, cells) /\ Beside(t)
    BY <1>4, <1>5 DEF RowWritten, Beside, q
  <1> QED BY <1>6 DEF t

(* The row it leaves, from that of the cells it clears first.               *)
LEMMA RowWrittenOn ==
    ASSUME NEW s, NEW t, NEW u, NEW cells, NEW cells2, Beside(s),
           RowWritten(s, t, cells), RowWritten(t, u, cells2)
    PROVE  RowWritten(s, u, cells2)
  <1>1. s.rows[s.y] \in RowSet
    BY DEF Beside, ScreenSet
  <1>2. [[s.rows[s.y] EXCEPT !.cells = cells] EXCEPT !.cells = cells2] = [s.rows[s.y] EXCEPT !.cells = cells2]
    BY <1>1 DEF RowSet
  <1> QED BY <1>2 DEF RowWritten

(* The cells that print_cell clears first lie beside the cursor.            *)
LEMMA FixWideIs ==
    ASSUME NEW s, Beside(s), NEW cell \in Cells
    PROVE  \E f \in CellRows :
             /\ RowWritten(s, FixWide(s, cell.wide), f)
             /\ \A z \in Columns : z # s.x => f[z] = Overwritten(s.rows[s.y].cells, s.x, cell)[z]
  <1> DEFINE r == s.rows[s.y]
             x == s.x
             f(l, e) == [z \in Columns |-> IF z \in l .. e - 1 THEN Blank ELSE r.cells[z]]
             S(l, e) == ClearStaleSpacerHead(Fill(s, s.y, l, e))
  <1>0. /\ s.y \in Lines /\ s.rows \in [Lines -> RowSet] /\ r \in RowSet /\ r.cells \in CellRows
        /\ x \in Columns /\ x \in Nat /\ x < Cols
    BY ColumnsIs DEF Beside, ScreenSet, RowSet
  <1>1. ASSUME NEW l, NEW e PROVE f(l, e) \in CellRows /\ RowWritten(s, S(l, e), f(l, e))
    <2> DEFINE g == f(l, e)
               t == [s EXCEPT !.rows[s.y].cells = g]
    <2>1. g \in CellRows
      BY <1>0, BlankIs DEF CellRows
    <2>2. Fill(s, s.y, l, e) = t
      BY <1>0 DEF Fill, Filled, Beside, ScreenSet
    <2> HIDE DEF g
    <2>3. RowWritten(s, t, g) /\ Beside(t)
      BY <2>1, RowWrittenIs
    <2> HIDE DEF t
    <2>4. RowWritten(t, ClearStaleSpacerHead(t), t.rows[t.y].cells)
      BY <2>3, StaleCleared
    <2>5. t.rows[t.y].cells = g
      BY <1>0, <2>3 DEF RowWritten, RowSet
    <2>6. RowWritten(s, ClearStaleSpacerHead(t), g)
      BY <2>3, <2>4, <2>5, RowWrittenOn
    <2> QED BY <2>1, <2>2, <2>6 DEF g
  <1>2. RowWritten(s, s, r.cells)
    BY <1>0 DEF RowWritten, Beside, RowSet
  <1>3. FixWide(s, cell.wide) =
          IF r.cells[x].wide = cell.wide THEN s
          ELSE IF r.cells[x].wide = "wide" /\ x < Cols - 1 THEN S(x + 1, x + 2)
          ELSE IF r.cells[x].wide = "tail" THEN S(x - 1, x) ELSE s
    BY DEF FixWide, CellAt
  <1> DEFINE O == Overwritten(r.cells, x, cell)
  <1>4. CASE r.cells[x].wide = "wide" /\ cell.wide # "wide" /\ x < Cols - 1
    <2>1. FixWide(s, cell.wide) = S(x + 1, x + 2)
      BY <1>3, <1>4
    <2>2. \A z \in Columns : z # x => f(x + 1, x + 2)[z] = O[z]
      BY <1>0, <1>4, ColumnsIs DEF Overwritten
    <2> HIDE DEF S, f
    <2> QED BY <1>1, <2>1, <2>2
  <1>5. CASE r.cells[x].wide = "tail" /\ cell.wide # "tail"
    <2>1. FixWide(s, cell.wide) = S(x - 1, x)
      BY <1>3, <1>5
    <2>2. \A z \in Columns : z # x => f(x - 1, x)[z] = O[z]
      BY <1>0, <1>5, ColumnsIs DEF Overwritten
    <2> HIDE DEF S, f
    <2> QED BY <1>1, <2>1, <2>2
  <1>6. CASE /\ ~(r.cells[x].wide = "wide" /\ cell.wide # "wide" /\ x < Cols - 1)
             /\ ~(r.cells[x].wide = "tail" /\ cell.wide # "tail")
    <2>1. FixWide(s, cell.wide) = s
      BY <1>3, <1>6
    <2>2. \A z \in Columns : z # x => r.cells[z] = O[z]
      BY <1>0, <1>6, ColumnsIs DEF Overwritten
    <2> QED BY <1>0, <1>2, <2>1, <2>2
  <1> QED BY <1>4, <1>5, <1>6

(* print_cell writes one row and clears at most the filler above it.        *)
LEMMA PrintCellIs ==
    ASSUME NEW s, Beside(s), NEW c, NEW w, Cell(c, w, s.prot) \in Cells
    PROVE  RowWritten(s, PrintCell(s, c, w), Overwritten(s.rows[s.y].cells, s.x, Cell(c, w, s.prot)))
  <1> DEFINE cell == Cell(c, w, s.prot)
             t == FixWide(s, w)
             O == Overwritten(s.rows[s.y].cells, s.x, cell)
             r == s.rows[s.y]
  <1>1. cell \in Cells /\ cell.wide = w
    BY DEF Cell
  <1> HIDE DEF cell
  <1>2. PICK f \in CellRows : /\ RowWritten(s, t, f)
                              /\ \A z \in Columns : z # s.x => f[z] = O[z]
    BY <1>1, FixWideIs
  <1>3. /\ s.y \in Lines /\ s.rows \in [Lines -> RowSet] /\ r \in RowSet /\ s.x \in Columns
        /\ t \in ScreenSet /\ t.rows \in [Lines -> RowSet]
    BY <1>2 DEF Beside, RowWritten, ScreenSet
  <1>4. O \in CellRows
    <2>1. \A z \in Columns : O[z] \in Cells
      BY <1>1, <1>3, BlankIs, CellsAre DEF Overwritten, RowSet
    <2> QED BY <2>1 DEF Overwritten, CellRows
  <1> HIDE DEF t
  <1>5. t.x = s.x /\ t.y = s.y /\ t.rows[t.y].cells = f
    BY <1>2, <1>3 DEF RowWritten, RowSet
  <1>6. [f EXCEPT ![s.x] = cell] = O
    <2>1. O[s.x] = cell /\ O = [z \in Columns |-> O[z]]
      BY <1>3 DEF Overwritten
    <2>2. f = [z \in Columns |-> f[z]]
      BY DEF CellRows
    <2> HIDE DEF O
    <2> QED BY <1>2, <1>3, <2>1, <2>2
  <1> HIDE DEF O
  <1>7. PrintCell(s, c, w) = Put(t, cell)
    BY DEF PrintCell, t, cell
  <1>8. Put(t, cell) = [t EXCEPT !.rows[t.y].cells = O]
    <2>1. Put(t, cell) = [t EXCEPT !.rows[t.y].cells = [t.rows[t.y].cells EXCEPT ![s.x] = cell]]
      BY <1>3, <1>5 DEF Put, ScreenSet, RowSet
    <2> QED BY <1>5, <1>6, <2>1
  <1>9. RowWritten(t, Put(t, cell), O)
    <2>1. Beside(t)
      BY <1>2 DEF RowWritten, Beside
    <2> QED BY <1>4, <1>8, <2>1, RowWrittenIs
  <1> QED BY <1>2, <1>7, <1>9, RowWrittenOn DEF O, cell

-----------------------------------------------------------------------------
(* Printing a character, and a run one character at a time.                 *)

(* A good screen is whole beside the cursor.                                *)
LEMMA GoodBeside == ASSUME NEW s, Good(s) PROVE Beside(s)
  BY DEF Good, Beside

(* Rows written whole make a good screen.                                   *)
LEMMA WrittenGood ==
    ASSUME NEW s, s \in ScreenSet, NEW t, NEW h \in CellRows, RowWritten(s, t, h), WholeCells(h),
           h[Cols - 1].wide = "head" => s.rows[s.y].wrap
    PROVE  Good(t)
  <1>1. s.y \in Lines /\ s.rows[s.y] \in RowSet
    BY DEF ScreenSet
  <1>2. Whole([s.rows[s.y] EXCEPT !.cells = h])
    BY <1>1 DEF Whole, RowSet
  <1> QED BY <1>2 DEF RowWritten, Good

(* A single cell, narrow or the filler at the end.                          *)
LEMMA OverwrittenWhole ==
    ASSUME NEW f \in CellRows, WholeCells(f), NEW x \in Columns, NEW cell \in Cells,
           cell.wide = "narrow" \/ (cell.wide = "head" /\ x = Cols - 1)
    PROVE  /\ Overwritten(f, x, cell) \in CellRows /\ WholeCells(Overwritten(f, x, cell))
           /\ Overwritten(f, x, cell)[Cols - 1].wide = "head" =>
                cell.wide = "head" \/ f[Cols - 1].wide = "head"
  <1> DEFINE h == Overwritten(f, x, cell)
  <1>0. x \in Nat
    BY ColumnsIs
  <1>1. \A z \in Columns : h[z] =
          IF z = x THEN cell
          ELSE IF (z = x + 1 /\ f[x].wide = "wide") \/ (z = x - 1 /\ f[x].wide = "tail") THEN Blank
          ELSE f[z]
    BY DEF Overwritten
  <1>2. h \in CellRows
    BY BlankIs DEF Overwritten, CellRows
  <1> HIDE DEF h
  <1>3. ASSUME NEW z \in Columns, h[z].wide = "tail"
        PROVE  z > 0 /\ h[z - 1].wide = "wide" /\ h[z - 1].prot = h[z].prot
    <2>1. h[z] = f[z] /\ z # x /\ ~(z = x + 1 /\ f[x].wide = "wide")
      BY <1>1, <1>3, BlankIs
    <2>2. z > 0 /\ f[z - 1].wide = "wide" /\ f[z - 1].prot = f[z].prot
      BY <1>3, <2>1 DEF WholeCells
    <2>3. z \in Nat /\ z - 1 \in Columns
      BY <2>2, ColumnsIs
    <2>4. z - 1 # x
      BY <1>0, <2>1, <2>2, <2>3
    <2>5. ~(z - 1 = x + 1 /\ f[x].wide = "wide")
      <3>1. SUFFICES ASSUME z - 1 = x + 1, f[x].wide = "wide" PROVE FALSE
        OBVIOUS
      <3>2. f[x + 1].wide = "tail"
        BY <3>1 DEF WholeCells
      <3> QED BY <2>2, <3>1, <3>2
    <2>6. ~(z - 1 = x - 1)
      BY <1>0, <2>1, <2>3
    <2>7. h[z - 1] = f[z - 1]
      BY <1>1, <2>3, <2>4, <2>5, <2>6
    <2> QED BY <2>1, <2>2, <2>7
  <1>4. ASSUME NEW z \in Columns, h[z].wide = "wide"
        PROVE  z + 1 \in Columns /\ h[z + 1].wide = "tail"
    <2>1. h[z] = f[z] /\ z # x /\ ~(z = x - 1 /\ f[x].wide = "tail")
      BY <1>1, <1>4, BlankIs
    <2>2. z + 1 \in Columns /\ f[z + 1].wide = "tail" /\ z \in Nat
      BY <1>4, <2>1, ColumnsIs DEF WholeCells
    <2>3. z + 1 # x
      BY <1>0, <2>1, <2>2
    <2>4. z + 1 # x + 1
      BY <1>0, <2>1, <2>2
    <2>5. ~(z + 1 = x - 1 /\ f[x].wide = "tail")
      <3>1. SUFFICES ASSUME z + 1 = x - 1, f[x].wide = "tail" PROVE FALSE
        OBVIOUS
      <3>2. f[x - 1].wide = "wide"
        BY <3>1 DEF WholeCells
      <3> QED BY <2>2, <3>1, <3>2
    <2>6. h[z + 1] = f[z + 1]
      BY <1>1, <2>2, <2>3, <2>4, <2>5
    <2> QED BY <2>2, <2>6
  <1>5. ASSUME NEW z \in Columns, h[z].wide = "head"
        PROVE  z = Cols - 1 /\ (cell.wide = "head" \/ f[z].wide = "head")
    BY <1>1, <1>5, BlankIs DEF WholeCells
  <1>6. WholeCells(h)
    BY <1>3, <1>4, <1>5 DEF WholeCells
  <1> QED BY <1>2, <1>5, <1>6, ColumnsIs DEF h

(* The two halves of a wide character.                                      *)
LEMMA PairWhole ==
    ASSUME NEW f \in CellRows, WholeCells(f), NEW x \in Columns, x + 1 \in Columns,
           NEW a \in Cells, NEW b \in Cells, a.wide = "wide", b.wide = "tail", a.prot = b.prot
    PROVE  LET h == Overwritten(Overwritten(f, x, a), x + 1, b)
           IN  /\ h \in CellRows /\ WholeCells(h)
               /\ h[Cols - 1].wide = "head" => f[Cols - 1].wide = "head"
  <1> DEFINE g == Overwritten(f, x, a)
             h == Overwritten(g, x + 1, b)
  <1>0. x \in Nat /\ (x + 1) - 1 = x /\ (x + 1) + 1 = x + 2 /\ x + 1 # x
    BY ColumnsIs
  <1>1. \A z \in Columns : g[z] =
          IF z = x THEN a ELSE IF z = x - 1 /\ f[x].wide = "tail" THEN Blank ELSE f[z]
    BY DEF Overwritten
  <1>2. g[x + 1] = f[x + 1]
    BY <1>0, <1>1
  <1>3. \A z \in Columns : h[z] =
          IF z = x + 1 THEN b
          ELSE IF z = x + 2 /\ g[x + 1].wide = "wide" THEN Blank ELSE g[z]
    <2> HIDE DEF g
    <2> QED BY <1>0 DEF Overwritten
  <1>8. g \in CellRows
    BY BlankIs DEF Overwritten, CellRows
  <1>7. h \in CellRows
    <2> HIDE DEF g
    <2> QED BY <1>8, BlankIs DEF Overwritten, CellRows
  <1> HIDE DEF g, h
  <1>4. \A z \in Columns : h[z] =
          IF z = x THEN a ELSE IF z = x + 1 THEN b
          ELSE IF (z = x + 2 /\ f[x + 1].wide = "wide") \/ (z = x - 1 /\ f[x].wide = "tail") THEN Blank
          ELSE f[z]
    <2>1. x + 2 # x /\ x + 2 # x - 1
      BY <1>0
    <2> QED BY <1>0, <1>1, <1>2, <1>3, <2>1
  <1>5. ASSUME NEW z \in Columns, h[z].wide = "tail"
        PROVE  z > 0 /\ h[z - 1].wide = "wide" /\ h[z - 1].prot = h[z].prot
    <2>1. CASE z = x + 1
      BY <1>0, <1>4, <2>1
    <2>2. CASE z # x + 1
      <3>1. h[z] = f[z] /\ z # x /\ ~(z = x + 2 /\ f[x + 1].wide = "wide")
        BY <1>4, <1>5, <2>2, BlankIs
      <3>2. z > 0 /\ f[z - 1].wide = "wide" /\ f[z - 1].prot = f[z].prot
        BY <1>5, <3>1 DEF WholeCells
      <3>3. z \in Nat /\ z - 1 \in Columns
        BY <3>2, ColumnsIs
      <3>4. z - 1 # x /\ z - 1 # x - 1
        BY <1>0, <2>2, <3>1, <3>3
      <3>5. z - 1 # x + 1
        <4>1. SUFFICES ASSUME z - 1 = x + 1 PROVE FALSE
          OBVIOUS
        <4>2. z = x + 2
          BY <1>0, <4>1, <3>3
        <4> QED BY <3>1, <3>2, <4>1, <4>2
      <3>6. ~(z - 1 = x + 2 /\ f[x + 1].wide = "wide")
        <4>1. SUFFICES ASSUME z - 1 = x + 2, f[x + 1].wide = "wide" PROVE FALSE
          OBVIOUS
        <4>2. f[(x + 1) + 1].wide = "tail"
          BY <4>1 DEF WholeCells
        <4> QED BY <1>0, <3>2, <4>1, <4>2
      <3>7. h[z - 1] = f[z - 1]
        BY <1>4, <3>3, <3>4, <3>5, <3>6
      <3> QED BY <3>1, <3>2, <3>7
    <2> QED BY <2>1, <2>2
  <1>6. ASSUME NEW z \in Columns, h[z].wide = "wide"
        PROVE  z + 1 \in Columns /\ h[z + 1].wide = "tail"
    <2>1. CASE z = x
      BY <1>0, <1>4, <2>1
    <2>2. CASE z # x
      <3>1. h[z] = f[z] /\ z # x + 1 /\ ~(z = x - 1 /\ f[x].wide = "tail")
        BY <1>4, <1>6, <2>2, BlankIs
      <3>2. z + 1 \in Columns /\ f[z + 1].wide = "tail" /\ z \in Nat
        BY <1>6, <3>1, ColumnsIs DEF WholeCells
      <3>3. z + 1 # x /\ z + 1 # x + 1 /\ z + 1 # x + 2
        BY <1>0, <2>2, <3>1, <3>2
      <3>4. ~(z + 1 = x - 1 /\ f[x].wide = "tail")
        <4>1. SUFFICES ASSUME z + 1 = x - 1, f[x].wide = "tail" PROVE FALSE
          OBVIOUS
        <4>2. f[x - 1].wide = "wide"
          BY <4>1 DEF WholeCells
        <4> QED BY <3>2, <4>1, <4>2
      <3>5. h[z + 1] = f[z + 1]
        BY <1>4, <3>2, <3>3, <3>4
      <3> QED BY <3>2, <3>5
    <2> QED BY <2>1, <2>2
  <1>9. ASSUME NEW z \in Columns, h[z].wide = "head" PROVE z = Cols - 1 /\ f[z].wide = "head"
    BY <1>4, <1>9, BlankIs DEF WholeCells
  <1>10. WholeCells(h)
    BY <1>5, <1>6, <1>9 DEF WholeCells
  <1> QED BY <1>7, <1>9, <1>10, ColumnsIs DEF h, g

(* Printing a narrow cell leaves a good screen.                             *)
LEMMA PrintNarrow ==
    ASSUME NEW s, Good(s), NEW c \in Texts
    PROVE  /\ Good(PrintCell(s, c, "narrow")) /\ PrintCell(s, c, "narrow").x = s.x
           /\ PrintCell(s, c, "narrow").y = s.y
  <1> DEFINE cell == Cell(c, "narrow", s.prot)
             f == s.rows[s.y].cells
             h == Overwritten(f, s.x, cell)
  <1>1. /\ cell \in Cells /\ cell.wide = "narrow" /\ f \in CellRows /\ WholeCells(f)
        /\ s.x \in Columns /\ s \in ScreenSet /\ Whole(s.rows[s.y])
    BY CellIs, GoodIs
  <1>2. RowWritten(s, PrintCell(s, c, "narrow"), h)
    BY <1>1, GoodBeside, PrintCellIs
  <1> HIDE DEF cell, f
  <1>3. h \in CellRows /\ WholeCells(h) /\ (h[Cols - 1].wide = "head" => f[Cols - 1].wide = "head")
    BY <1>1, OverwrittenWhole
  <1>4. h[Cols - 1].wide = "head" => s.rows[s.y].wrap
    BY <1>1, <1>3 DEF Whole, f
  <1> HIDE DEF h
  <1>5. Good(PrintCell(s, c, "narrow"))
    BY <1>1, <1>2, <1>3, <1>4, WrittenGood
  <1> QED BY <1>2, <1>5 DEF RowWritten

(* Setting the wrap flag of the cursor's row leaves a good screen.          *)
LEMMA WrapSet ==
    ASSUME NEW s, Good(s)
    PROVE  /\ Good(SetWrap(s, TRUE)) /\ SetWrap(s, TRUE).x = s.x /\ SetWrap(s, TRUE).y = s.y
           /\ SetWrap(s, TRUE).rows[s.y].wrap = TRUE
  <1> DEFINE q == [s.rows[s.y] EXCEPT !.wrap = TRUE]
  <1>1. Whole(s.rows[s.y]) /\ s.y \in Lines
    BY GoodIs
  <1>2. Whole(q) /\ q.wrap = TRUE
    BY <1>1 DEF Whole, RowSet
  <1> DEFINE t == [s EXCEPT !.rows[s.y] = q]
  <1>3. SetWrap(s, TRUE) = t
    BY DEF SetWrap
  <1> HIDE DEF q
  <1>4. Good(t) /\ t.x = s.x /\ t.y = s.y /\ t.rows[s.y] = q
    BY <1>1, <1>2, RowGood
  <1> HIDE DEF t
  <1> QED BY <1>2, <1>3, <1>4

(* Setting its continuation flag does.                                      *)
LEMMA ContSet ==
    ASSUME NEW s, Good(s)
    PROVE  /\ Good([s EXCEPT !.rows[s.y].cont = TRUE]) /\ [s EXCEPT !.rows[s.y].cont = TRUE].x = s.x
           /\ [s EXCEPT !.rows[s.y].cont = TRUE].y = s.y
           /\ [s EXCEPT !.rows[s.y].cont = TRUE].pending = s.pending
  <1> DEFINE q == [s.rows[s.y] EXCEPT !.cont = TRUE]
  <1>1. Whole(s.rows[s.y]) /\ s.y \in Lines
    BY GoodIs
  <1>2. Whole(q)
    BY <1>1 DEF Whole, RowSet
  <1> DEFINE t == [s EXCEPT !.rows[s.y].cont = TRUE]
  <1>3. t = [s EXCEPT !.rows[s.y] = q]
    OBVIOUS
  <1> HIDE DEF q, t
  <1>4. Good(t) /\ t.x = s.x /\ t.y = s.y /\ t.pending = s.pending
    BY <1>1, <1>2, <1>3, RowGood
  <1> QED BY <1>4 DEF t

(* A filler printed in the last column of a row that wraps does.            *)
LEMMA PrintHead ==
    ASSUME NEW s, Good(s), s.x = Cols - 1
    PROVE  Good(PrintCell(SetWrap(s, TRUE), "none", "head"))
  <1> DEFINE t == SetWrap(s, TRUE)
             cell == Cell("none", "head", t.prot)
             f == t.rows[t.y].cells
             h == Overwritten(f, t.x, cell)
  <1>0. Good(t) /\ t.x = Cols - 1 /\ t.rows[t.y].wrap = TRUE
    BY WrapSet
  <1> HIDE DEF t
  <1>1. /\ cell \in Cells /\ cell.wide = "head" /\ f \in CellRows /\ WholeCells(f)
        /\ t.x \in Columns /\ t \in ScreenSet
    <2>1. /\ f \in CellRows /\ WholeCells(f) /\ t.x \in Columns /\ t \in ScreenSet
          /\ t.prot \in BOOLEAN
      BY <1>0, GoodIs
    <2>2. "none" \in Texts
      BY DEF Texts
    <2> QED BY <2>1, <2>2, CellIs
  <1>2. RowWritten(t, PrintCell(t, "none", "head"), h)
    BY <1>0, <1>1, GoodBeside, PrintCellIs
  <1> HIDE DEF cell, f
  <1>3. h \in CellRows /\ WholeCells(h)
    BY <1>0, <1>1, OverwrittenWhole
  <1> HIDE DEF h
  <1>5. Good(PrintCell(t, "none", "head"))
    BY <1>0, <1>1, <1>2, <1>3, WrittenGood
  <1> QED BY <1>5 DEF t

(* The two halves of a wide character printed side by side do.              *)
LEMMA PrintPair ==
    ASSUME NEW s, Good(s), s.x + 1 \in Columns, NEW c \in Texts
    PROVE  LET t == PrintCell(Right(PrintCell(s, c, "wide"), 1), "none", "tail")
           IN  Good(t) /\ t.x = s.x + 1
  <1> DEFINE x == s.x
             y == s.y
             a == Cell(c, "wide", s.prot)
             b == Cell("none", "tail", s.prot)
             f == s.rows[y].cells
             g == Overwritten(f, x, a)
             h == Overwritten(g, x + 1, b)
             p == PrintCell(s, c, "wide")
             u == Right(p, 1)
             t == PrintCell(u, "none", "tail")
  <1>1. /\ a \in Cells /\ a.wide = "wide" /\ b \in Cells /\ b.wide = "tail" /\ a.prot = b.prot
        /\ f \in CellRows /\ WholeCells(f) /\ s.prot \in BOOLEAN
        /\ x \in Columns /\ x \in Nat /\ y \in Lines /\ s \in ScreenSet /\ Whole(s.rows[y])
        /\ s.rows[y] \in RowSet
    <2>1. /\ f \in CellRows /\ WholeCells(f) /\ s.prot \in BOOLEAN /\ x \in Columns /\ x \in Nat
          /\ y \in Lines /\ s \in ScreenSet /\ Whole(s.rows[y]) /\ s.rows[y] \in RowSet
      BY GoodIs
    <2>2. "none" \in Texts
      BY DEF Texts
    <2>3. /\ a \in Cells /\ a.wide = "wide" /\ b \in Cells /\ b.wide = "tail"
          /\ a.prot = s.prot /\ b.prot = s.prot
      BY <2>1, <2>2 DEF Cell, Cells
    <2> QED BY <2>1, <2>3
  <1>2. RowWritten(s, p, g)
    BY <1>1, GoodBeside, PrintCellIs
  <1> HIDE DEF p, a
  <1>3. h \in CellRows /\ WholeCells(h) /\ (h[Cols - 1].wide = "head" => f[Cols - 1].wide = "head")
    BY <1>1, PairWhole
  <1> HIDE DEF f
  <1>4. /\ u.rows = p.rows /\ u.y = y /\ u.x = x + 1 /\ u.prot = s.prot /\ u \in ScreenSet
        /\ p.rows[y] = [s.rows[y] EXCEPT !.cells = g]
        /\ \A z \in Lines : z # y => Whole(p.rows[z])
    BY <1>1, <1>2 DEF RowWritten, Right, ScreenSet
  <1> HIDE DEF u
  <1>5. u.rows[u.y].cells = g /\ u.rows[u.y].wrap = s.rows[y].wrap
    <2> HIDE DEF g
    <2> QED BY <1>1, <1>4 DEF RowSet
  <1>6. Beside(u)
    BY <1>4 DEF Beside
  <1>7. Cell("none", "tail", u.prot) = b
    BY <1>4
  <1> HIDE DEF b, g
  <1>8. RowWritten(u, t, Overwritten(g, x + 1, b))
    BY <1>1, <1>4, <1>5, <1>6, <1>7, PrintCellIs
  <1>9. h[Cols - 1].wide = "head" => u.rows[u.y].wrap
    BY <1>1, <1>3, <1>5 DEF Whole, f
  <1> HIDE DEF t, h
  <1>10. Good(t)
    BY <1>3, <1>4, <1>8, <1>9, WrittenGood DEF h
  <1>11. t.x = x + 1
    BY <1>4, <1>8 DEF RowWritten
  <1> QED BY <1>10, <1>11 DEF t, u, p

(* Wrapping to the next line does.                                          *)
LEMMA PrintWrapGood ==
    ASSUME NEW s, Good(s), RegionOK
    PROVE  Good(PrintWrap(s)) /\ PrintWrap(s).x = region.left /\ PrintWrap(s).pending = FALSE
  <1> DEFINE mark == s.x = Cols - 1
             v == IF mark THEN SetWrap(s, TRUE) ELSE s
             t == Index(v)
             u == At(t, region.left, t.y)
  <1>1. Good(v)
    BY WrapSet
  <1> HIDE DEF v
  <1>2. Good(t) /\ t.pending = FALSE
    BY <1>1, IndexGood
  <1> HIDE DEF t
  <1>3. Good(u) /\ u.x = region.left /\ u.pending = FALSE
    <2>1. t.y \in Lines /\ region.left \in Columns
      BY <1>2, GoodIs, RegionIs
    <2> QED BY <1>2, <2>1, AtGood
  <1>4. PrintWrap(s) = IF mark THEN [u EXCEPT !.rows[u.y].cont = TRUE] ELSE u
    BY DEF PrintWrap, t, v
  <1> HIDE DEF u
  <1> QED BY <1>3, <1>4, ContSet

(* Making room for a wide character at the end of the line does.            *)
LEMMA NoRoomGood ==
    ASSUME NEW s, Good(s), RegionOK, NEW limit, limit = Cols => s.x = Cols - 1
    PROVE  /\ Good(PrintNoRoom(s, limit)) /\ PrintNoRoom(s, limit).x = region.left
           /\ PrintNoRoom(s, limit).pending = FALSE
  <1> DEFINE v == IF limit = Cols THEN PrintCell(SetWrap(s, TRUE), "none", "head")
                                  ELSE PrintCell(s, "none", "narrow")
  <1>1. Good(v)
    BY PrintHead, PrintNarrow DEF Texts
  <1>2. PrintNoRoom(s, limit) = PrintWrap(v)
    BY DEF PrintNoRoom
  <1> HIDE DEF v
  <1> QED BY <1>1, <1>2, PrintWrapGood

(* Advancing the cursor, or leaving the wrap pending, does.                 *)
LEMMA AdvanceGood ==
    ASSUME NEW s, Good(s), NEW limit \in Nat, limit <= Cols, s.x < limit
    PROVE  Good(Advance(s, limit))
  <1>1. s.x \in Nat /\ Cols \in Nat
    BY GoodIs, ColumnsIs
  <1>2. CASE s.x = limit - 1
    BY <1>2, PendingGood DEF Advance
  <1>3. CASE s.x # limit - 1
    <2>1. s.x + 1 \in Columns /\ 1 \in Int
      BY <1>1, <1>3, ColumnsIs
    <2> QED BY <1>3, <2>1, RightGood DEF Advance
  <1> QED BY <1>2, <1>3

Chars == NarrowChars \cup WideChars

(* The column where the line ends for the cursor is in the grid.            *)
LEMMA RightLimitIs ==
    ASSUME NEW s, Good(s), RegionOK
    PROVE  /\ RightLimit(s) \in Nat /\ RightLimit(s) <= Cols /\ s.x < RightLimit(s)
           /\ region.left + 1 < RightLimit(s)
  BY GoodIs, RegionIs, ColumnsIs DEF RightLimit

(* Writing the character itself leaves a good screen.                       *)
LEMMA WrittenCharGood ==
    ASSUME NEW s, Good(s), RegionOK, NEW c \in Chars, NEW limit \in Nat, limit <= Cols,
           s.x < limit, region.left + 1 < limit
    PROVE  Good(Written(s, c, limit))
  <1> DEFINE noRoom == s.x = limit - 1
             t == IF noRoom THEN PrintNoRoom(s, limit) ELSE s
             pair == PrintCell(Right(PrintCell(t, c, "wide"), 1), "none", "tail")
             one == PrintCell(s, c, "narrow")
             none == PrintCell(s, "none", "narrow")
  <1>0. c \in Texts /\ "none" \in Texts /\ s.x \in Nat /\ Cols \in Nat /\ region.left \in Nat
    BY GoodIs, ColumnsIs, RegionIs DEF Texts, Chars
  <1>1. Good(Advance(one, limit))
    <2>1. Good(one) /\ one.x = s.x
      BY <1>0, PrintNarrow
    <2> HIDE DEF one
    <2> QED BY <2>1, AdvanceGood
  <1>2. Good(Advance(none, limit))
    <2>1. Good(none) /\ none.x = s.x
      BY <1>0, PrintNarrow
    <2> HIDE DEF none
    <2> QED BY <2>1, AdvanceGood
  <1>3. Good(Advance(pair, limit))
    <2>1. Good(t) /\ t.x + 1 < limit /\ t.x \in Nat
      <3>1. CASE noRoom
        <4>1. limit = Cols => s.x = Cols - 1
          BY <3>1
        <4> QED BY <1>0, <3>1, <4>1, NoRoomGood
      <3>2. CASE ~noRoom
        BY <1>0, <3>2
      <3> QED BY <3>1, <3>2
    <2> HIDE DEF t
    <2>2. t.x + 1 \in Columns
      BY <1>0, <2>1, ColumnsIs
    <2>3. Good(pair) /\ pair.x = t.x + 1
      BY <1>0, <2>1, <2>2, PrintPair
    <2> HIDE DEF pair
    <2> QED BY <2>1, <2>3, AdvanceGood
  <1>4. Written(s, c, limit) =
          IF Width(c) = 1 THEN Advance(one, limit)
          ELSE IF limit - region.left <= 1 THEN Advance(none, limit)
          ELSE IF noRoom /\ "wraparound" \notin modes THEN s
          ELSE Advance(pair, limit)
    BY DEF Written
  <1> HIDE DEF one, none, pair, noRoom
  <1> QED BY <1>1, <1>2, <1>3, <1>4

(* print leaves a good screen, in every mode and at every cursor.           *)
LEMMA PrintCharGood ==
    ASSUME NEW s, Good(s), RegionOK, NEW c \in Chars
    PROVE  Good(PrintChar(s, c))
  <1> DEFINE w == Wrapped(s)
             o == Opened(w, c)
             limit == RightLimit(s)
  <1>1. limit \in Nat /\ limit <= Cols /\ s.x < limit /\ region.left + 1 < limit /\ region.left \in Nat
    BY RightLimitIs, RegionIs
  <1>2. Good(w) /\ w.x < limit
    <2>1. Good(PrintWrap(s)) /\ PrintWrap(s).x = region.left
      BY PrintWrapGood
    <2> QED BY <1>1, <2>1 DEF Wrapped
  <1> HIDE DEF w
  <1>3. Good(o) /\ o.x < limit
    <2>1. Width(c) \in Nat
      BY DEF Width
    <2>2. Good(InsertBlanks(w, Width(c))) /\ InsertBlanks(w, Width(c)).x = w.x
      BY <1>2, <2>1, InsertBlanksGood
    <2> QED BY <1>2, <2>2 DEF Opened
  <1>4. PrintChar(s, c) = Written(o, c, limit)
    BY DEF PrintChar, w
  <1> HIDE DEF o, limit
  <1> QED BY <1>1, <1>3, <1>4, WrittenCharGood

EachOK(c, s) == Good(s) /\ RegionOK
Each == INSTANCE FoldFacts WITH Step <- PrintChar, Inv <- EachOK

(* The left fold over the characters is the fold of the lemmas about folds. *)
LEMMA EachFolds == \A base, input : FoldLeft(PrintChar, base, input) = Each!Fold(base, input)
  BY Zenon DEF FoldLeft, Each!FoldLeft, MapThenFoldSet, Each!MapThenFoldSet,
     Max, Each!Max, Each!Fold

(* So does a run printed one character at a time.                           *)
LEMMA PrintEachGood ==
    ASSUME NEW s, Good(s), RegionOK, NEW run \in Seq(Chars)
    PROVE  Good(PrintEach(s, run))
  <1>1. EachOK(0, s)
    BY DEF EachOK
  <1>2. \A a : \A x \in Chars : EachOK(0, a) => EachOK(0, PrintChar(a, x))
    BY PrintCharGood DEF EachOK
  <1>3. EachOK(0, Each!Fold(s, run))
    BY <1>1, <1>2, Each!FoldKeeps
  <1> QED BY <1>3, EachFolds DEF EachOK, PrintEach

-----------------------------------------------------------------------------
(* The batches of print_slice.                                              *)

(* The minimum of two numbers.                                              *)
LEMMA MinIs ==
    ASSUME NEW I, I \subseteq Nat, I # {}
    PROVE  Min(I) \in I /\ \A m \in I : Min(I) <= m
  <1>1. \E n \in I : \A m \in I : n <= m
    BY Each!LeastExists
  <1> QED BY <1>1 DEF Min

(* The batch that is taken from a run has characters of one width.          *)
LEMMA SameWidthIs ==
    ASSUME NEW run \in Seq(Chars), run # <<>>
    PROVE  BatchLength(run) \in 0 .. Len(run)
  <1> DEFINE I == {i \in 1 .. Len(run) : Width(run[i]) # Width(run[1])}
  <1>1. SameWidth(run) = IF I # {} THEN Min(I) ELSE 0
    BY DEF SameWidth, SelectInSeq
  <1>2. I \subseteq Nat /\ I \subseteq 1 .. Len(run) /\ Len(run) \in Nat
    OBVIOUS
  <1> HIDE DEF I
  <1>3. I # {} => Min(I) \in 1 .. Len(run)
    BY <1>2, MinIs
  <1>4. SameWidth(run) \in 0 .. Len(run)
    BY <1>1, <1>2, <1>3
  <1> QED BY <1>2, <1>4 DEF BatchLength

(* The cells that count as simple are narrow.                               *)
LEMMA SimpleIs ==
    ASSUME NEW s, NEW n \in Nat
    PROVE  /\ Simple(s, n) \in 0 .. n
           /\ \A i \in 1 .. Simple(s, n) : s.rows[s.y].cells[s.x + i - 1].wide = "narrow"
  <1> DEFINE cell(i) == s.rows[s.y].cells[s.x + i - 1]
             seq == [i \in 1 .. n |-> cell(i)]
             J == {i \in 1 .. Len(seq) : seq[i].wide # "narrow"}
             I == {i \in 1 .. n : cell(i).wide # "narrow"}
             stop == IF J # {} THEN Min(J) ELSE 0
  <1>1. Len(seq) = n /\ \A i \in 1 .. n : seq[i] = cell(i)
    OBVIOUS
  <1>2. Simple(s, n) = IF stop = 0 THEN n ELSE stop - 1
    BY DEF Simple, SelectInSeq
  <1>3. J = I
    BY <1>1
  <1> HIDE DEF J, seq
  <1>4. I \subseteq Nat /\ I \subseteq 1 .. n /\ \A i \in 1 .. n : i \notin I => cell(i).wide = "narrow"
    OBVIOUS
  <1> HIDE DEF I, cell
  <1>5. CASE I = {}
    <2>1. Simple(s, n) = n
      BY <1>2, <1>3, <1>5
    <2> QED BY <1>4, <1>5, <2>1 DEF cell
  <1>6. CASE I # {}
    <2>1. stop \in I /\ \A m \in I : stop <= m
      BY <1>3, <1>4, <1>6, MinIs
    <2> HIDE DEF stop
    <2>2. stop \in 1 .. n /\ Simple(s, n) = stop - 1
      BY <1>2, <1>4, <2>1
    <2>3. ASSUME NEW i \in 1 .. Simple(s, n) PROVE cell(i).wide = "narrow"
      <3>1. i \in 1 .. n /\ i < stop /\ i \in Nat /\ stop \in Nat
        BY <2>2
      <3>2. i \notin I
        BY <1>4, <2>1, <3>1
      <3> QED BY <1>4, <3>1, <3>2
    <2> QED BY <2>2, <2>3 DEF cell
  <1> QED BY <1>5, <1>6

(* The row-filling write: whole characters in the place of narrow cells.    *)
LEMMA FilledRun ==
    ASSUME NEW f \in CellRows, WholeCells(f), NEW x \in Nat, NEW e \in Nat, x < e, e <= Cols,
           \A z \in Columns : z \in x .. e - 1 => f[z].wide = "narrow",
           NEW g \in CellRows, WholeCells(g), Uncut(g, x), Uncut(g, e),
           \A z \in Columns : g[z].wide # "head",
           NEW h, h = [z \in Columns |-> IF z \in x .. e - 1 THEN g[z] ELSE f[z]]
    PROVE  /\ h \in CellRows /\ WholeCells(h)
           /\ h[Cols - 1].wide = "head" => f[Cols - 1].wide = "head"
  <1>1. h = [z \in Columns |-> h[z]] /\ \A z \in Columns : h[z] = IF z \in x .. e - 1 THEN g[z] ELSE f[z]
    <2> DEFINE k == [z \in Columns |-> IF z \in x .. e - 1 THEN g[z] ELSE f[z]]
    <2>1. k = [z \in Columns |-> k[z]] /\ \A z \in Columns : k[z] = IF z \in x .. e - 1 THEN g[z] ELSE f[z]
      OBVIOUS
    <2>2. h = k
      OBVIOUS
    <2> HIDE DEF k
    <2> QED BY <2>1, <2>2
  <1>4. x + 0 = x /\ e + 0 = e
    OBVIOUS
  <1>2. SegmentOf(f, g, h, x, e, 0)
    <2>1. \A z \in Columns : z + 0 = z
      BY ColumnsIs
    <2> QED BY <1>1, <2>1 DEF SegmentOf
  <1>3. Uncut(f, x) /\ Uncut(f, e)
    <2>1. \A z \in Columns : f[z].wide = "tail" => z > 0 /\ z - 1 \in Columns /\ f[z - 1].wide = "wide"
      BY ColumnsIs DEF WholeCells
    <2> QED BY <2>1, ColumnsIs DEF Uncut
  <1>5. Uncut(g, x + 0) /\ Uncut(g, e + 0) /\ 0 \in Int
    BY <1>4
  <1> QED BY <1>2, <1>3, <1>5, Pasted

(* The cells of a run of characters of width w from column x on.            *)
RunCell(run, w, x, prot, z) ==
    LET i == z - x
    IN  IF i % w = 0
        THEN Cell(run[i \div w + 1], IF w = 2 THEN "wide" ELSE "narrow", prot)
        ELSE Cell("none", "tail", prot)
RunCells(run, w, x, e, prot) ==
    [z \in Columns |-> IF z \in x .. e - 1 THEN RunCell(run, w, x, prot, z) ELSE Blank]

(* The cells a batch fills on a line: whole characters one after the other. *)
LEMMA RunCellsAre ==
    ASSUME NEW run \in Seq(Chars), NEW w \in {1, 2}, NEW x \in Nat, NEW count \in Nat,
           count > 0, count <= Len(run), x + count * w <= Cols, NEW prot \in BOOLEAN
    PROVE  LET e == x + count * w
               g == RunCells(run, w, x, e, prot)
           IN  /\ g \in CellRows /\ WholeCells(g) /\ Uncut(g, x) /\ Uncut(g, e)
               /\ \A z \in Columns : g[z].wide # "head"
  <1> DEFINE e == x + count * w
             g == RunCells(run, w, x, e, prot)
             new(z) == RunCell(run, w, x, prot, z)
  <1>0. \A z \in Columns : g[z] = IF z \in x .. e - 1 THEN new(z) ELSE Blank
    BY DEF RunCells
  <1>9. DOMAIN g = Columns /\ g = [z \in Columns |-> g[z]]
    BY DEF RunCells
  <1>8. Len(run) \in Nat /\ \A i \in 1 .. Len(run) : run[i] \in Texts
    BY DEF Texts, Chars
  <1>1. CASE w = 1
    <2>1. e = x + count /\ e \in Nat
      BY <1>1
    <2>2. ASSUME NEW z \in Columns, z \in x .. e - 1 PROVE new(z) \in Cells /\ new(z).wide = "narrow"
      <3> DEFINE i == z - x
      <3>1. i % w = 0 /\ i \div w + 1 \in 1 .. Len(run)
        BY <1>1, <2>1, <2>2, <1>8
      <3>2. new(z) = Cell(run[i \div w + 1], "narrow", prot)
        BY <1>1, <3>1 DEF RunCell
      <3> HIDE DEF i, new
      <3>3. run[i \div w + 1] \in Texts
        BY <1>8, <3>1
      <3> QED BY <3>2, <3>3, CellIs
    <2> HIDE DEF g, e, new
    <2>3. \A z \in Columns : g[z] \in Cells /\ g[z].wide = "narrow"
      BY <1>0, <2>2, BlankIs
    <2>4. g \in CellRows
      BY <1>9, <2>3 DEF CellRows
    <2>5. WholeCells(g) /\ Uncut(g, x) /\ Uncut(g, e)
      BY <2>3 DEF WholeCells, Uncut
    <2> QED BY <2>3, <2>4, <2>5 DEF g, e
  <1>2. CASE w = 2
    <2>1. e = x + 2 * count /\ e \in Nat
      BY <1>2
    <2>2. ASSUME NEW z \in Columns, z \in x .. e - 1
          PROVE  /\ new(z) \in Cells /\ new(z).prot = prot
                 /\ (z - x) % 2 = 0 => new(z).wide = "wide"
                 /\ (z - x) % 2 # 0 => new(z).wide = "tail"
      <3> DEFINE i == z - x
      <3>1. i \in Nat /\ i < 2 * count
        BY <2>1, <2>2
      <3>2. i \div 2 + 1 \in 1 .. Len(run)
        <4>1. i \div 2 \in Nat /\ i \div 2 < count
          BY <3>1
        <4> QED BY <4>1, <1>8
      <3>3. new(z) = IF i % 2 = 0 THEN Cell(run[i \div 2 + 1], "wide", prot) ELSE Cell("none", "tail", prot)
        BY <1>2 DEF RunCell
      <3> HIDE DEF i, new
      <3>4. run[i \div 2 + 1] \in Texts /\ "none" \in Texts
        BY <1>8, <3>2 DEF Texts
      <3>5. /\ Cell(run[i \div 2 + 1], "wide", prot) \in Cells
            /\ Cell(run[i \div 2 + 1], "wide", prot).wide = "wide"
            /\ Cell(run[i \div 2 + 1], "wide", prot).prot = prot
            /\ Cell("none", "tail", prot) \in Cells
            /\ Cell("none", "tail", prot).wide = "tail"
            /\ Cell("none", "tail", prot).prot = prot
        BY <3>4, CellIs
      <3> QED BY <3>3, <3>5 DEF i
    <2> HIDE DEF g, e, new
    <2>3. ASSUME NEW z \in Columns
          PROVE  /\ g[z] \in Cells /\ g[z].wide # "head"
                 /\ g[z].wide = "tail" <=> (z \in x .. e - 1 /\ (z - x) % 2 # 0)
                 /\ g[z].wide = "wide" <=> (z \in x .. e - 1 /\ (z - x) % 2 = 0)
                 /\ z \in x .. e - 1 => g[z].prot = prot
      <3>1. CASE z \in x .. e - 1
        BY <1>0, <2>2, <3>1
      <3>2. CASE z \notin x .. e - 1
        BY <1>0, <3>2, BlankIs
      <3> QED BY <3>1, <3>2
    <2>4. g \in CellRows
      BY <1>9, <2>3 DEF CellRows
    <2>5. ASSUME NEW z \in Columns, g[z].wide = "tail"
          PROVE  z > 0 /\ g[z - 1].wide = "wide" /\ g[z - 1].prot = g[z].prot
      <3>1. z \in x .. e - 1 /\ (z - x) % 2 # 0 /\ z \in Nat
        BY <2>3, <2>5, ColumnsIs
      <3>2. z # x
        BY <3>1
      <3>3. z - 1 \in x .. e - 1 /\ ((z - 1) - x) % 2 = 0 /\ z > 0
        BY <2>1, <3>1, <3>2
      <3>4. z - 1 \in Columns
        BY <3>1, <3>3, ColumnsIs
      <3> QED BY <2>3, <3>1, <3>3, <3>4
    <2>6. ASSUME NEW z \in Columns, g[z].wide = "wide"
          PROVE  z + 1 \in Columns /\ g[z + 1].wide = "tail"
      <3>1. z \in x .. e - 1 /\ (z - x) % 2 = 0 /\ z \in Nat
        BY <2>3, <2>6, ColumnsIs
      <3>2. z # e - 1
        BY <2>1, <3>1
      <3>3. z + 1 \in x .. e - 1 /\ ((z + 1) - x) % 2 # 0
        BY <2>1, <3>1, <3>2
      <3>4. z + 1 \in Columns
        <4>1. e <= Cols
          BY DEF e
        <4> QED BY <2>1, <3>3, <4>1, ColumnsIs
      <3> QED BY <2>3, <3>3, <3>4
    <2>7. WholeCells(g)
      BY <2>3, <2>5, <2>6 DEF WholeCells
    <2>8. Uncut(g, x) /\ Uncut(g, e)
      <3>1. (x - x) % 2 = 0 /\ e \notin x .. e - 1
        BY <2>1
      <3> QED BY <2>3, <3>1 DEF Uncut
    <2> QED BY <2>3, <2>4, <2>7, <2>8 DEF g, e
  <1> QED BY <1>1, <1>2

-----------------------------------------------------------------------------
(* Printing a run in batches.                                               *)

(* The number of a column among the m columns from x on.                    *)
LEMMA NumberInRun ==
    ASSUME NEW x \in Nat, NEW m \in Nat, NEW z \in Nat, z \in x .. (x + m) - 1
    PROVE  (z - x) + 1 \in 1 .. m /\ x + ((z - x) + 1) - 1 = z
  OBVIOUS

(* Writing them into free cells of the line leaves a good screen.           *)
LEMMA FillCellsGood ==
    ASSUME NEW s, Good(s), NEW run \in Seq(Chars), NEW count \in Nat, count > 0, count <= Len(run),
           NEW limit \in Nat, limit <= Cols, s.x + count * Width(run[1]) <= limit,
           \A i \in 1 .. count * Width(run[1]) : s.rows[s.y].cells[s.x + i - 1].wide = "narrow"
    PROVE  Good(FillCells(s, run, count, limit))
  <1> DEFINE w == Width(run[1])
             x == s.x
             y == s.y
             e == x + count * w
             last == x + count * w - 1
             new(z) == LET i == z - x
                       IN  IF i % w = 0
                           THEN Cell(run[i \div w + 1], IF w = 2 THEN "wide" ELSE "narrow", s.prot)
                           ELSE Cell("none", "tail", s.prot)
             r == s.rows[y]
             f == r.cells
             g == RunCells(run, w, x, e, s.prot)
             k == [z \in Columns |-> IF z \in x .. last THEN new(z) ELSE f[z]]
             h == [z \in Columns |-> IF z \in x .. e - 1 THEN g[z] ELSE f[z]]
             t == [s EXCEPT !.rows[y].cells = k]
  <1>1. /\ s \in ScreenSet /\ x \in Nat /\ x \in Columns /\ y \in Lines /\ Whole(r) /\ r \in RowSet
        /\ f \in CellRows /\ WholeCells(f) /\ s.prot \in BOOLEAN /\ s.rows \in [Lines -> RowSet]
    BY GoodIs
  <1>2. w \in {1, 2} /\ Cols \in Nat
    BY ColumnsIs DEF Width
  <1>3. FillCells(s, run, count, limit) =
          IF last + 1 >= limit THEN [At(t, last, y) EXCEPT !.pending = TRUE] ELSE At(t, last + 1, y)
    BY DEF FillCells
  <1> HIDE DEF w
  <1>4. count * w \in Nat /\ count * w >= 1
    BY <1>2
  <1>5. /\ e \in Nat /\ x < e /\ e <= Cols /\ e <= limit /\ last = e - 1 /\ last \in Columns
        /\ last + 1 = e
    BY <1>1, <1>2, <1>4, ColumnsIs DEF w
  <1>6. ASSUME NEW z \in Columns, z \in x .. e - 1 PROVE f[z].wide = "narrow"
    <2> DEFINE m == count * w
    <2>1. e = x + m /\ m \in Nat /\ z \in Nat /\ x \in Nat
      BY <1>1, <1>4, ColumnsIs
    <2> HIDE DEF m, e
    <2>3. z \in x .. (x + m) - 1
      BY <1>6, <2>1
    <2> HIDE DEF x
    <2>2. (z - x) + 1 \in 1 .. m /\ x + ((z - x) + 1) - 1 = z
      BY <2>1, <2>3, NumberInRun
    <2> QED BY <2>2 DEF w, m, x
  <1>7. /\ g \in CellRows /\ WholeCells(g) /\ Uncut(g, x) /\ Uncut(g, e)
        /\ \A z \in Columns : g[z].wide # "head"
    BY <1>1, <1>2, <1>5, RunCellsAre
  <1>8. k = h
    <2>1. ASSUME NEW z \in Columns, z \in x .. e - 1 PROVE g[z] = new(z)
      BY <2>1 DEF RunCells, RunCell
    <2> HIDE DEF g, new
    <2>2. ASSUME NEW z \in Columns PROVE k[z] = h[z]
      BY <1>5, <2>1
    <2> HIDE DEF e, last
    <2> QED BY <2>2
  <1>13. \A z \in Columns : z \in x .. e - 1 => f[z].wide = "narrow"
    BY <1>6
  <1>14. h = [z \in Columns |-> IF z \in x .. e - 1 THEN g[z] ELSE f[z]]
    OBVIOUS
  <1> HIDE DEF g, k, e, last, h, f
  <1>9. h \in CellRows /\ WholeCells(h) /\ (h[Cols - 1].wide = "head" => f[Cols - 1].wide = "head")
    <2>1. x \in Nat /\ e \in Nat /\ x < e /\ e <= Cols /\ f \in CellRows /\ WholeCells(f)
      BY <1>1, <1>5
    <2> QED BY <1>7, <1>13, <1>14, <2>1, FilledRun
  <1>10. Good(t)
    <2>1. RowWritten(s, t, h)
      BY <1>8, <1>9, GoodBeside, RowWrittenIs
    <2>2. h[Cols - 1].wide = "head" => r.wrap
      BY <1>1, <1>9 DEF Whole, f
    <2> HIDE DEF t
    <2> QED BY <1>1, <1>9, <2>1, <2>2, WrittenGood
  <1> HIDE DEF t
  <1>11. Good([At(t, last, y) EXCEPT !.pending = TRUE])
    BY <1>1, <1>5, <1>10, AtGood, PendingGood
  <1>12. ~(last + 1 >= limit) => Good(At(t, last + 1, y))
    <2>1. ~(last + 1 >= limit) => last + 1 \in Columns
      BY <1>5, <1>2, ColumnsIs
    <2> QED BY <1>1, <1>10, <2>1, AtGood
  <1> QED BY <1>3, <1>11, <1>12

(* A turn of print_slice_fill.                                              *)
Filling(c, r) == Good(r.s) /\ r.left \in Seq(Chars) /\ RegionOK

(* A turn of the batch's loop over lines leaves a good screen and consumes characters. *)
LEMMA FillRowGood ==
    ASSUME NEW s, Good(s), RegionOK, NEW batch \in Seq(Chars), batch # <<>>, NEW c
    PROVE  Filling(c, FillRow(s, batch))
  <1> DEFINE w == Width(batch[1])
             limit == RightLimit(s)
             avail == limit - s.x
             count == Least(avail \div w, Len(batch))
             written == Simple(s, count * w) \div w
             stop == [s |-> s, left |-> batch, stop |-> TRUE]
             noRoom == [stop EXCEPT !.s = PrintNoRoom(s, limit), !.stop = FALSE]
             filled == [s |-> FillCells(s, batch, written, limit),
                        left |-> SubSeq(batch, written + 1, Len(batch)),
                        stop |-> written < count]
  <1>1. FillRow(s, batch) =
          IF w = 2 /\ limit - region.left <= 1 THEN stop
          ELSE IF w = 2 /\ avail = 1
          THEN IF CellAt(s).wide # "narrow" THEN stop ELSE noRoom
          ELSE IF written = 0 THEN stop ELSE filled
    BY DEF FillRow
  <1>2. w \in {1, 2} /\ Cols \in Nat /\ Len(batch) \in Nat
    BY ColumnsIs DEF Width
  <1>3. limit \in Nat /\ limit <= Cols /\ s.x \in Nat /\ s.x < limit /\ avail \in Nat /\ avail >= 1
    BY RightLimitIs, GoodIs
  <1>4. Filling(c, stop)
    BY DEF Filling
  <1>5. ASSUME w = 2, avail = 1 PROVE Filling(c, noRoom)
    <2>1. limit = Cols => s.x = Cols - 1
      BY <1>2, <1>3, <1>5
    <2> HIDE DEF limit
    <2>2. Good(PrintNoRoom(s, limit))
      BY <2>1, NoRoomGood
    <2> QED BY <2>2 DEF Filling
  <1>6. ASSUME written # 0 PROVE Filling(c, filled)
    <2>1. avail \div w \in Nat /\ (avail \div w) * w <= avail
      <3> HIDE DEF avail, w
      <3>1. CASE w = 1
        BY <1>3, <3>1
      <3>2. CASE w = 2
        BY <1>3, <3>2
      <3> QED BY <1>2, <3>1, <3>2
    <2> HIDE DEF avail, limit, w
    <2>2. count \in Nat /\ count <= Len(batch) /\ count * w \in Nat /\ count * w <= avail
      <3>1. count \in Nat /\ count <= Len(batch) /\ count <= avail \div w
        BY <1>2, <2>1 DEF Least
      <3> DEFINE a == avail \div w
      <3> HIDE DEF count, a
      <3>2. count <= a /\ a \in Nat /\ a * w <= avail
        BY <2>1, <3>1 DEF a
      <3>3. CASE w = 1
        BY <1>3, <3>1, <3>2, <3>3
      <3>4. CASE w = 2
        BY <1>3, <3>1, <3>2, <3>4
      <3> QED BY <1>2, <3>1, <3>3, <3>4
    <2> HIDE DEF count
    <2> DEFINE simple == Simple(s, count * w)
    <2>3. /\ simple \in 0 .. count * w
          /\ \A i \in 1 .. simple : s.rows[s.y].cells[s.x + i - 1].wide = "narrow"
      BY <2>2, SimpleIs
    <2>4. written \in Nat /\ written > 0 /\ written * w \in Nat /\ written * w <= simple /\ written <= count
      <3> HIDE DEF simple
      <3>1. written = simple \div w
        BY DEF simple
      <3>2. simple \in Nat /\ simple <= count * w
        BY <2>2, <2>3
      <3> HIDE DEF written
      <3>3. CASE w = 1
        BY <1>6, <2>2, <3>1, <3>2, <3>3
      <3>4. CASE w = 2
        BY <1>6, <2>2, <3>1, <3>2, <3>4
      <3> QED BY <1>2, <3>3, <3>4
    <2> HIDE DEF written, simple
    <2>5. Good(FillCells(s, batch, written, limit))
      <3>1. written <= Len(batch) /\ s.x + written * w <= limit
        BY <1>2, <1>3, <2>2, <2>3, <2>4 DEF avail
      <3>2. \A i \in 1 .. written * w : s.rows[s.y].cells[s.x + i - 1].wide = "narrow"
        BY <2>2, <2>3, <2>4
      <3> QED BY <1>3, <2>4, <3>1, <3>2, FillCellsGood DEF w
    <2>6. SubSeq(batch, written + 1, Len(batch)) \in Seq(Chars)
      BY <1>2, <2>4
    <2> QED BY <2>5, <2>6 DEF Filling
  <1> HIDE DEF stop, noRoom, filled
  <1> QED BY <1>1, <1>4, <1>5, <1>6

(* Also when nothing is left to do.                                         *)
LEMMA FillOnGood ==
    ASSUME NEW c, NEW r, Filling(c, r), NEW turn
    PROVE  Filling(c, FillOn(r, turn))
  <1>1. CASE r.left = <<>> \/ r.stop
    BY <1>1 DEF FillOn
  <1>2. CASE ~(r.left = <<>> \/ r.stop)
    <2> DEFINE t == IF r.s.pending THEN PrintWrap(r.s) ELSE r.s
    <2>1. Good(t) /\ RegionOK /\ r.left \in Seq(Chars) /\ r.left # <<>>
      BY <1>2, PrintWrapGood DEF Filling
    <2>2. FillOn(r, turn) = FillRow(t, r.left)
      BY <1>2 DEF FillOn
    <2> HIDE DEF t
    <2> QED BY <2>1, <2>2, FillRowGood
  <1> QED BY <1>1, <1>2

Fills == INSTANCE FoldFacts WITH Step <- FillOn, Inv <- Filling

(* The left fold over the lines is the fold of the lemmas about folds.      *)
LEMMA FillFolds == \A base, input : FoldLeft(FillOn, base, input) = Fills!Fold(base, input)
  BY Zenon DEF FoldLeft, Fills!FoldLeft, MapThenFoldSet, Fills!MapThenFoldSet,
     Max, Fills!Max, Fills!Fold

(* print_slice_fill leaves a good screen and consumes what the run has.     *)
LEMMA PrintSliceFillGood ==
    ASSUME NEW s, Good(s), RegionOK, NEW batch \in Seq(Chars)
    PROVE  Filling(0, PrintSliceFill(s, batch))
  <1> DEFINE base == [s |-> s, left |-> batch, stop |-> FALSE]
             turns == batch \o batch
  <1>1. Filling(0, base)
    BY DEF Filling
  <1>2. turns \in Seq(Chars)
    OBVIOUS
  <1> HIDE DEF base, turns
  <1>3. \A a : \A x \in Chars : Filling(0, a) => Filling(0, FillOn(a, x))
    BY FillOnGood
  <1>4. Filling(0, Fills!Fold(base, turns))
    BY <1>1, <1>2, <1>3, Fills!FoldKeeps
  <1> QED BY <1>4, FillFolds DEF PrintSliceFill, base, turns

(* A turn of print_slice: a batch, or one character through print.          *)
Slicing(c, r) == Good(r.s) /\ r.rest \in Seq(Chars) /\ RegionOK

(* A turn of print_slice leaves a good screen and a rest of the run.        *)
LEMMA PrintOnGood ==
    ASSUME NEW c, NEW r, Slicing(c, r), NEW turn
    PROVE  Slicing(c, PrintOn(r, turn))
  <1>1. CASE r.rest = <<>>
    BY <1>1 DEF PrintOn
  <1>2. CASE r.rest # <<>>
    <2> DEFINE run == r.rest
               n == BatchLength(run)
               batch == SubSeq(run, 1, n)
               filled == PrintSliceFill(r.s, batch)
               fast == PrintSliceFast(r.s, run)
    <2>1. run \in Seq(Chars) /\ run # <<>> /\ Good(r.s) /\ RegionOK /\ Len(run) \in Nat
      BY <1>2 DEF Slicing
    <2>2. n \in 0 .. Len(run)
      BY <2>1, SameWidthIs
    <2> HIDE DEF n
    <2>3. batch \in Seq(Chars)
      BY <2>1, <2>2
    <2> HIDE DEF batch
    <2>4. Good(filled.s) /\ filled.left \in Seq(Chars)
      BY <2>1, <2>3, PrintSliceFillGood DEF Filling
    <2>5. fast = IF "insert" \in modes \/ "wraparound" \notin modes
                 THEN [s |-> r.s, consumed |-> 0]
                 ELSE [s |-> filled.s, consumed |-> n - Len(filled.left)]
      BY DEF PrintSliceFast, Consumed, n, batch
    <2> HIDE DEF filled
    <2>6. Good(fast.s) /\ fast.consumed \in Int
      <3>1. Len(filled.left) \in Nat
        BY <2>4
      <3> QED BY <2>1, <2>2, <2>4, <2>5, <3>1
    <2> HIDE DEF fast
    <2>7. PrintOn(r, turn) = PrintRest(fast, run)
      BY <1>2 DEF PrintOn, fast
    <2>8. CASE fast.consumed > 0
      <3>1. SubSeq(run, fast.consumed + 1, Len(run)) \in Seq(Chars)
        BY <2>1, <2>6, <2>8
      <3> QED BY <2>1, <2>6, <2>7, <2>8, <3>1 DEF PrintRest, Slicing
    <2>9. CASE ~(fast.consumed > 0)
      <3>1. Head(run) \in Chars /\ Tail(run) \in Seq(Chars)
        BY <2>1
      <3>2. Good(PrintChar(fast.s, Head(run)))
        BY <2>1, <2>6, <3>1, PrintCharGood
      <3> QED BY <2>1, <2>7, <2>9, <3>1, <3>2 DEF PrintRest, Slicing
    <2> QED BY <2>8, <2>9
  <1> QED BY <1>1, <1>2

Slices == INSTANCE FoldFacts WITH Step <- PrintOn, Inv <- Slicing

(* The left fold over the turns of print_slice is the fold of the lemmas about folds. *)
LEMMA SliceFolds == \A base, input : FoldLeft(PrintOn, base, input) = Slices!Fold(base, input)
  BY Zenon DEF FoldLeft, Slices!FoldLeft, MapThenFoldSet, Slices!MapThenFoldSet,
     Max, Slices!Max, Slices!Fold

(* print_slice leaves a good screen.                                        *)
LEMMA PrintSliceGood ==
    ASSUME NEW s, Good(s), RegionOK, NEW run \in Seq(Chars)
    PROVE  Good(PrintSlice(s, run))
  <1> DEFINE base == [s |-> s, rest |-> run]
  <1>1. Slicing(0, base)
    BY DEF Slicing
  <1> HIDE DEF base
  <1>3. \A a : \A x \in Chars : Slicing(0, a) => Slicing(0, PrintOn(a, x))
    BY PrintOnGood
  <1>4. Slicing(0, Slices!Fold(base, run))
    BY <1>1, <1>3, Slices!FoldKeeps
  <1> QED BY <1>4, SliceFolds DEF Slicing, PrintSlice, base

-----------------------------------------------------------------------------
(* The invariant, and the operations of the active screen that keep it.     *)

Keys == {"primary", "alternate"}

(* The screens that exist are well formed, and the active one exists.       *)
Formed ==
    /\ RegionOK
    /\ modes \subseteq Modes
    /\ active \in Keys
    /\ screens = [primary |-> screens.primary, alternate |-> screens.alternate]
    /\ Good(screens.primary)
    /\ screens.alternate = NoScreen \/ Good(screens.alternate)
    /\ active = "alternate" => Good(screens.alternate)

(* While mode 1049 is set the primary screen is what it was on entry, its   *)
(* cursor saved.                                                            *)
Kept ==
    entered # NoScreen =>
        /\ active = "alternate"
        /\ screens.primary = entered
        /\ entered.saved.x = entered.x /\ entered.saved.y = entered.y
        /\ entered.saved.pending = entered.pending /\ entered.saved.prot = entered.prot

TerminalInv == Formed /\ Kept

(* A good screen exists.                                                    *)
LEMMA GoodIsScreen ==
    ASSUME NEW s, Good(s) PROVE s # NoScreen
  <1>1. SUFFICES ASSUME s = NoScreen PROVE FALSE
    OBVIOUS
  <1>2. s.rows = <<>>
    BY <1>1 DEF NoScreen
  <1>3. DOMAIN s.rows = {} /\ DOMAIN s.rows = Lines
    BY <1>2, GoodIs
  <1> QED BY <1>3, LinesIs

(* The active screen is good.                                               *)
LEMMA ScreenGood ==
    ASSUME Formed PROVE Good(Screen) /\ Screen # NoScreen /\ RegionOK
  BY GoodIsScreen DEF Formed, Screen, Keys

(* What an operation of the active screen keeps.                            *)
LEMMA BecomesKeeps ==
    ASSUME TerminalInv, NEW s, Good(s), Becomes(s), region' \in Regions, modes' \subseteq Modes,
           UNCHANGED active
    PROVE  TerminalInv' /\ Screen' = s
  <1>1. active \in Keys /\ screens = [primary |-> screens.primary, alternate |-> screens.alternate]
    BY DEF TerminalInv, Formed
  <1>2. screens' = [screens EXCEPT ![active] = s]
    BY DEF Becomes
  <1>3. CASE active = "primary"
    <2>1. screens' = [primary |-> s, alternate |-> screens.alternate]
      BY <1>1, <1>2, <1>3
    <2>2. Formed'
      BY <1>3, <2>1 DEF TerminalInv, Formed, RegionOK, Keys
    <2>3. Kept'
      BY <1>3 DEF Becomes, Kept
    <2> QED BY <1>3, <2>1, <2>2, <2>3 DEF TerminalInv, Screen
  <1>4. CASE active = "alternate"
    <2>1. screens' = [primary |-> screens.primary, alternate |-> s]
      BY <1>1, <1>2, <1>4
    <2>2. Formed'
      BY <1>4, <2>1 DEF TerminalInv, Formed, RegionOK, Keys
    <2>3. Kept'
      BY <1>4, <2>1 DEF Becomes, Kept, TerminalInv
    <2> QED BY <1>4, <2>1, <2>2, <2>3 DEF TerminalInv, Screen
  <1> QED BY <1>1, <1>3, <1>4 DEF Keys

(* An operation that sets no margins and no modes keeps the invariant.      *)
LEMMA PureKeeps ==
    ASSUME TerminalInv, NEW s, Good(s), Pure(s)
    PROVE  TerminalInv' /\ Screen' = s
  <1>1. region' \in Regions /\ modes' \subseteq Modes /\ UNCHANGED active /\ Becomes(s)
    BY DEF Pure, TerminalInv, Formed, RegionOK
  <1> QED BY <1>1, BecomesKeeps

(* A new screen is good.                                                    *)
LEMMA NewScreenGood ==
    ASSUME NEW b \in BOOLEAN
    PROVE  Good(NewScreen(b))
  <1>1. HomeCursor \in SavedSet
    BY ColumnsIs, LinesIs DEF HomeCursor, SavedSet
  <1>2. Whole(BlankRow) /\ BlankRow \in RowSet
    BY BlankRowWhole DEF Whole
  <1>3. 0 \in Columns /\ 0 \in Lines
    BY ColumnsIs, LinesIs
  <1> QED BY <1>1, <1>2, <1>3 DEF NewScreen, Good, ScreenSet

(* A good screen with the other's cursor is good.                           *)
LEMMA CursorCopyGood ==
    ASSUME NEW s, NEW from, Good(s), Good(from)
    PROVE  Good(CursorCopy(s, from))
  <1>1. Good(At(s, from.x, from.y))
    BY AtGood, GoodIs
  <1>2. from.pending \in BOOLEAN /\ from.prot \in BOOLEAN
    BY GoodIs
  <1> QED BY <1>1, <1>2 DEF CursorCopy, Good, ScreenSet

(* A change of the protection leaves a good screen.                         *)
LEMMA PmodeGood ==
    ASSUME NEW s, Good(s), NEW m \in {"off", "iso", "dec"}, NEW b \in BOOLEAN
    PROVE  /\ Good([s EXCEPT !.pmode = m]) /\ Good([s EXCEPT !.prot = b])
           /\ Good([s EXCEPT !.prot = b, !.pmode = m])
  BY DEF Good, ScreenSet

(* The whole grid is a region.                                              *)
LEMMA FullRegionIs == FullRegion \in Regions
  BY ColumnsIs, LinesIs DEF FullRegion, Regions

(* What the assumptions say of the arguments.                               *)
LEMMA RunsAre ==
    /\ \A run \in Runs \cup SlowRuns : run \in Seq(Chars)
    /\ Counts \subseteq Nat
    /\ \A m \in VertMargins \cup HorizMargins : m[1] \in Nat /\ m[2] \in Nat
    /\ ModeChanges \subseteq Modes
  BY CharsAssumption, ArgumentAssumption, ModesAssumption DEF Chars

(* Moving the cursor keeps the invariant.                                   *)
LEMMA MovesGood ==
    ASSUME TerminalInv, Move PROVE TerminalInv'
  <1>0. Good(Screen) /\ RegionOK
    BY ScreenGood DEF TerminalInv
  <1>1. CASE Pure(CarriageReturn(Screen))
    BY <1>0, <1>1, PureKeeps, CarriageReturnGood
  <1>2. CASE \E n \in Counts : \/ Pure(CursorUp(Screen, n))
                               \/ Pure(CursorDown(Screen, n))
                               \/ Pure(CursorRight(Screen, n))
                               \/ Pure(CursorLeft(Screen, n))
    <2>1. PICK n \in Counts : \/ Pure(CursorUp(Screen, n))
                              \/ Pure(CursorDown(Screen, n))
                              \/ Pure(CursorRight(Screen, n))
                              \/ Pure(CursorLeft(Screen, n))
      BY <1>2
    <2>2. n \in Nat
      BY RunsAre
    <2>3. /\ Good(CursorUp(Screen, n)) /\ Good(CursorDown(Screen, n))
          /\ Good(CursorRight(Screen, n)) /\ Good(CursorLeft(Screen, n))
      BY <1>0, <2>2, CursorUpGood, CursorDownGood, CursorRightGood, CursorLeftGood
    <2> QED BY <2>1, <2>3, PureKeeps
  <1> QED BY <1>1, <1>2 DEF Move

(* The scrolling operations, and what they leave alone.                     *)
LEMMA FeedGood ==
    ASSUME TerminalInv, Feed
    PROVE  TerminalInv' /\ KeepsOutside(Screen.rows, Screen'.rows)
  <1>0. Good(Screen) /\ RegionOK
    BY ScreenGood DEF TerminalInv
  <1>1. PICK s : s \in {Index(Screen), LineFeed(Screen), ReverseIndex(Screen)} /\ Pure(s)
    BY DEF Feed
  <1>2. Good(s) /\ KeepsOutside(Screen.rows, s.rows)
    BY <1>0, <1>1, IndexGood, LineFeedGood, ReverseIndexGood
  <1>3. TerminalInv' /\ Screen' = s
    BY <1>1, <1>2, PureKeeps
  <1> QED BY <1>2, <1>3

(* Inserting, deleting and scrolling lines do, and keep what is outside the margins. *)
LEMMA ScrollLinesGood ==
    ASSUME TerminalInv, ScrollLines
    PROVE  TerminalInv' /\ KeepsOutside(Screen.rows, Screen'.rows)
  <1>0. Good(Screen) /\ RegionOK
    BY ScreenGood DEF TerminalInv
  <1>1. PICK n \in Counts : \/ Pure(InsertLines(Screen, n))
                            \/ Pure(DeleteLines(Screen, n))
                            \/ Pure(ScrollUp(Screen, n))
                            \/ Pure(ScrollDown(Screen, n))
    BY DEF ScrollLines
  <1>4. n \in Nat
    BY RunsAre
  <1>2. PICK s : /\ s \in {InsertLines(Screen, n), DeleteLines(Screen, n),
                           ScrollUp(Screen, n), ScrollDown(Screen, n)}
                 /\ Pure(s)
    BY <1>1
  <1>3. Good(s) /\ KeepsOutside(Screen.rows, s.rows)
    BY <1>0, <1>2, <1>4, InsertLinesGood, DeleteLinesGood, ScrollUpGood, ScrollDownGood
  <1>5. TerminalInv' /\ Screen' = s
    BY <1>2, <1>3, PureKeeps
  <1> QED BY <1>3, <1>5

(* Inserting, deleting and erasing characters do.                           *)
LEMMA EditCellsGood ==
    ASSUME TerminalInv, EditCells PROVE TerminalInv'
  <1>0. Good(Screen) /\ RegionOK
    BY ScreenGood DEF TerminalInv
  <1>1. PICK n \in Counts : \/ Pure(InsertBlanks(Screen, n))
                            \/ Pure(DeleteChars(Screen, n))
                            \/ Pure(EraseChars(Screen, n))
    BY DEF EditCells
  <1>2. n \in Nat
    BY RunsAre
  <1>3. Good(InsertBlanks(Screen, n)) /\ Good(DeleteChars(Screen, n)) /\ Good(EraseChars(Screen, n))
    BY <1>0, <1>2, InsertBlanksGood, DeleteCharsGood, EraseCharsGood
  <1> QED BY <1>1, <1>3, PureKeeps

(* Erasing lines and the display does.                                      *)
LEMMA EraseGood ==
    ASSUME TerminalInv, Erase PROVE TerminalInv'
  <1>0. Good(Screen)
    BY ScreenGood DEF TerminalInv
  <1>1. PICK req \in BOOLEAN :
            \/ \E m \in {"right", "left", "complete"} : Pure(EraseLine(Screen, m, req))
            \/ \E m \in {"below", "above", "complete"} : Pure(EraseDisplay(Screen, m, req))
    BY DEF Erase
  <1>2. CASE \E m \in {"right", "left", "complete"} : Pure(EraseLine(Screen, m, req))
    <2>1. PICK m \in {"right", "left", "complete"} : Pure(EraseLine(Screen, m, req))
      BY <1>2
    <2>2. Good(EraseLine(Screen, m, req))
      BY <1>0, EraseLineGood
    <2> QED BY <2>1, <2>2, PureKeeps
  <1>3. CASE \E m \in {"below", "above", "complete"} : Pure(EraseDisplay(Screen, m, req))
    <2>1. PICK m \in {"below", "above", "complete"} : Pure(EraseDisplay(Screen, m, req))
      BY <1>3
    <2>2. Good(EraseDisplay(Screen, m, req))
      BY <1>0, EraseDisplayGood
    <2> QED BY <2>1, <2>2, PureKeeps
  <1> QED BY <1>1, <1>2, <1>3

(* Setting a region with the cursor put home does.                          *)
LEMMA SetRegionGood ==
    ASSUME TerminalInv, NEW reg \in Regions, SetRegion(reg) PROVE TerminalInv'
  <1>1. Good(Screen) /\ ("origin" \in modes) \in BOOLEAN
    BY ScreenGood DEF TerminalInv
  <1>2. Good(SetCursorPos(Screen, reg, "origin" \in modes, 1, 1))
    BY <1>1, SetCursorPosGood
  <1>3. /\ region' \in Regions /\ modes' \subseteq Modes /\ UNCHANGED active
        /\ Becomes(SetCursorPos(Screen, reg, "origin" \in modes, 1, 1))
    BY DEF SetRegion, TerminalInv, Formed
  <1> QED BY <1>2, <1>3, BecomesKeeps

(* DECSTBM does: a request with top above bottom is a region.               *)
LEMMA VertMarginGood ==
    ASSUME TerminalInv, NEW m \in VertMargins, SetTopAndBottomMargin(m[1], m[2])
    PROVE  TerminalInv'
  <1> DEFINE b == IF m[2] = 0 THEN Rows ELSE Least(m[2], Rows)
             t == AtLeastOne(m[1])
             reg == [region EXCEPT !.top = t - 1, !.bottom = b - 1]
  <1>1. m[1] \in Nat /\ m[2] \in Nat /\ region \in Regions
    BY RunsAre DEF TerminalInv, Formed, RegionOK
  <1>2. t < b /\ SetRegion(reg)
    BY DEF SetTopAndBottomMargin
  <1>3. t \in Nat /\ t >= 1
    BY <1>1, AtLeastOneIs
  <1>4. b \in Nat /\ b <= Rows
    BY <1>1, LinesIs DEF Least
  <1> HIDE DEF t, b
  <1>5. t - 1 \in Lines /\ b - 1 \in Lines /\ t - 1 <= b - 1
    BY <1>2, <1>3, <1>4, LinesIs
  <1>6. reg \in Regions
    BY <1>1, <1>5 DEF Regions
  <1> HIDE DEF reg
  <1> QED BY <1>2, <1>6, SetRegionGood

(* DECSLRM does: a request with left before right is one.                   *)
LEMMA HorizMarginGood ==
    ASSUME TerminalInv, NEW m \in HorizMargins, SetLeftAndRightMargin(m[1], m[2])
    PROVE  TerminalInv'
  <1> DEFINE r == IF m[2] = 0 THEN Cols ELSE Least(m[2], Cols)
             l == AtLeastOne(m[1])
             reg == [region EXCEPT !.left = l - 1, !.right = r - 1]
  <1>1. m[1] \in Nat /\ m[2] \in Nat /\ region \in Regions
    BY RunsAre DEF TerminalInv, Formed, RegionOK
  <1>2. l < r /\ SetRegion(reg)
    BY DEF SetLeftAndRightMargin
  <1>3. l \in Nat /\ l >= 1
    BY <1>1, AtLeastOneIs
  <1>4. r \in Nat /\ r <= Cols
    BY <1>1, ColumnsIs DEF Least
  <1> HIDE DEF l, r
  <1>5. l - 1 \in Columns /\ r - 1 \in Columns /\ l - 1 < r - 1
    BY <1>2, <1>3, <1>4, ColumnsIs
  <1>6. reg \in Regions
    BY <1>1, <1>5 DEF Regions
  <1> HIDE DEF reg
  <1> QED BY <1>2, <1>6, SetRegionGood

(* Setting and resetting a mode does.                                       *)
LEMMA SetModeGood ==
    ASSUME TerminalInv, NEW m \in ModeChanges, NEW on \in BOOLEAN, SetMode(m, on)
    PROVE  TerminalInv'
  <1> DEFINE s == IF m = "origin" THEN SetCursorPos(Screen, region, on, 1, 1) ELSE Screen
  <1>1. Good(Screen) /\ region \in Regions /\ modes \subseteq Modes
    BY ScreenGood DEF TerminalInv, Formed, RegionOK
  <1>2. Good(s)
    BY <1>1, SetCursorPosGood
  <1>3. Becomes(s) /\ UNCHANGED active
    BY DEF SetMode
  <1>4. modes' \subseteq Modes
    BY <1>1, RunsAre DEF SetMode
  <1>5. region' \in Regions
    <2> DEFINE reg == [region EXCEPT !.left = 0, !.right = Cols - 1]
    <2>1. region' = reg \/ region' = region
      BY DEF SetMode
    <2>2. 0 \in Columns /\ Cols - 1 \in Columns /\ 0 < Cols - 1
      BY ColumnsIs
    <2>3. reg \in Regions
      BY <1>1, <2>2 DEF Regions
    <2> HIDE DEF reg
    <2> QED BY <1>1, <2>1, <2>3
  <1> HIDE DEF s
  <1> QED BY <1>2, <1>3, <1>4, <1>5, BecomesKeeps

(* DECALN does.                                                             *)
LEMMA DecalnGood ==
    ASSUME TerminalInv, Decaln PROVE TerminalInv'
  <1>1. PICK c \in NarrowChars :
         Becomes(Unpended([At(Screen, 0, 0) EXCEPT
                   !.rows = [y \in Lines |-> Row(Cell(c, "narrow", FALSE))]]))
    BY DEF Decaln
  <1> DEFINE q == Row(Cell(c, "narrow", FALSE))
             R == [y \in Lines |-> q]
             t == At(Screen, 0, 0)
             u == [t EXCEPT !.rows = R]
  <1>2. Good(Screen) /\ modes \subseteq Modes
    BY ScreenGood DEF TerminalInv, Formed
  <1>3. Good(t)
    BY <1>2, AtGood, ColumnsIs, LinesIs
  <1>4. Whole(q)
    <2> DEFINE k == Cell(c, "narrow", FALSE)
    <2>0. c \in Texts /\ FALSE \in BOOLEAN /\ "narrow" \in {"narrow", "wide", "tail", "head"}
      BY DEF Texts
    <2>1. k \in Cells /\ k.wide = "narrow"
      BY <2>0 DEF Cell, Cells
    <2> HIDE DEF k
    <2>2. Whole(Row(k))
      BY <2>1, ColumnsIs DEF Row, Whole, RowSet, CellRows, WholeCells
    <2> QED BY <2>2 DEF k
  <1>5. DOMAIN R = Lines /\ R = [y \in Lines |-> R[y]] /\ \A y \in Lines : Whole(R[y])
    BY <1>4
  <1> HIDE DEF R, t
  <1>6. Good(u)
    BY <1>3, <1>5, RowsGood
  <1>7. Becomes(Unpended(u))
    BY <1>1 DEF R, t
  <1> HIDE DEF u
  <1>8. Good(Unpended(u))
    BY <1>6, UnpendedGood
  <1>9. region' \in Regions /\ modes' \subseteq Modes /\ UNCHANGED active
    BY <1>2, FullRegionIs DEF Decaln
  <1> QED BY <1>7, <1>8, <1>9, BecomesKeeps

-----------------------------------------------------------------------------
(* The other operations, and the theorems.                                  *)

(* Printing does.                                                           *)
LEMMA PrintRunGood ==
    ASSUME TerminalInv, NEW run \in Runs \cup SlowRuns, PrintRun(run) \/ PrintSlow(run)
    PROVE  TerminalInv'
  <1>1. Good(Screen) /\ RegionOK /\ run \in Seq(Chars)
    BY ScreenGood, RunsAre DEF TerminalInv
  <1>2. Good(PrintSlice(Screen, run)) /\ Good(PrintEach(Screen, run))
    BY <1>1, PrintSliceGood, PrintEachGood
  <1> QED BY <1>2, PureKeeps DEF PrintRun, PrintSlow

(* Positioning the cursor does.                                             *)
LEMMA PositionGood ==
    ASSUME TerminalInv, NEW row \in 1 .. Rows, NEW col \in 1 .. Cols, Position(row, col)
    PROVE  TerminalInv'
  <1>1. Good(Screen) /\ region \in Regions /\ ("origin" \in modes) \in BOOLEAN
    BY ScreenGood DEF TerminalInv, RegionOK
  <1>2. row \in Nat /\ col \in Nat
    BY ColumnsIs, LinesIs
  <1>3. Good(SetCursorPos(Screen, region, "origin" \in modes, row, col))
    BY <1>1, <1>2, SetCursorPosGood
  <1> QED BY <1>3, PureKeeps DEF Position

(* Setting the protected mode does.                                         *)
LEMMA SetProtectedModeGood ==
    ASSUME TerminalInv, NEW m \in {"off", "iso", "dec"}, SetProtectedMode(m)
    PROVE  TerminalInv'
  <1> DEFINE s == IF m = "off" THEN [Screen EXCEPT !.prot = FALSE]
                              ELSE [Screen EXCEPT !.prot = TRUE, !.pmode = m]
  <1>1. Good(Screen)
    BY ScreenGood DEF TerminalInv
  <1>2. TRUE \in BOOLEAN /\ FALSE \in BOOLEAN
    OBVIOUS
  <1>3. Good(s)
    BY <1>1, <1>2, PmodeGood
  <1>4. Pure(s)
    BY DEF SetProtectedMode
  <1> HIDE DEF s
  <1> QED BY <1>3, <1>4, PureKeeps

(* Saving and restoring the cursor do.                                      *)
LEMMA SavingGood ==
    ASSUME TerminalInv, SaveCursorOp \/ RestoreCursorOp PROVE TerminalInv'
  <1>1. Good(Screen) /\ region \in Regions /\ modes \subseteq Modes
    BY ScreenGood DEF TerminalInv, Formed, RegionOK
  <1>2. CASE SaveCursorOp
    BY <1>1, <1>2, SaveCursorGood, PureKeeps DEF SaveCursorOp
  <1>3. CASE RestoreCursorOp
    <2>1. modes' \subseteq Modes
      BY <1>1, <1>3 DEF RestoreCursorOp, ModesAfterRestore, Modes
    <2>2. Becomes(RestoreCursor(Screen)) /\ region' \in Regions /\ UNCHANGED active
      BY <1>1, <1>3 DEF RestoreCursorOp
    <2> QED BY <1>1, <2>1, <2>2, RestoreCursorGood, BecomesKeeps
  <1> QED BY <1>2, <1>3

(* The two screens of a step that sets both.                                *)
LEMMA SwitchedGood ==
    ASSUME TerminalInv, NEW p, NEW a, Good(p), a = NoScreen \/ Good(a),
           screens' = [primary |-> p, alternate |-> a], region' \in Regions, modes' \subseteq Modes,
           active' \in Keys, active' = "alternate" => Good(a), Kept'
    PROVE  TerminalInv'
  <1>1. screens'.primary = p /\ screens'.alternate = a
    OBVIOUS
  <1> QED BY <1>1 DEF TerminalInv, Formed, RegionOK

(* The two screens of a state of the invariant.                             *)
LEMMA ScreensAre ==
    ASSUME TerminalInv
    PROVE  /\ screens = [primary |-> screens.primary, alternate |-> screens.alternate]
           /\ Good(screens.primary) /\ region \in Regions /\ modes \subseteq Modes
           /\ active \in Keys /\ active \in {"primary", "alternate"}
           /\ screens.alternate = NoScreen \/ Good(screens.alternate)
           /\ active = "alternate" => Good(screens.alternate)
           /\ \A k \in Keys : screens[k] = IF k = "primary" THEN screens.primary ELSE screens.alternate
           /\ Good(GetInit("alternate"))
           /\ \A a : [screens EXCEPT !.alternate = a] = [primary |-> screens.primary, alternate |-> a]
           /\ \A p : [screens EXCEPT !.primary = p] = [primary |-> p, alternate |-> screens.alternate]
  <1>1. Formed
    BY DEF TerminalInv
  <1>2. screens = [primary |-> screens.primary, alternate |-> screens.alternate]
    BY <1>1 DEF Formed
  <1>3. Good(NewScreen(FALSE))
    BY NewScreenGood
  <1>4. screens["alternate"] = NoScreen \/ Good(screens["alternate"])
    BY <1>1 DEF Formed
  <1>5. Good(GetInit("alternate"))
    BY <1>3, <1>4 DEF GetInit
  <1>6. \A a : [screens EXCEPT !.alternate = a] = [primary |-> screens.primary, alternate |-> a]
    BY <1>2
  <1>7. \A p : [screens EXCEPT !.primary = p] = [primary |-> p, alternate |-> screens.alternate]
    BY <1>2
  <1>8. \A k \in Keys : screens[k] = IF k = "primary" THEN screens.primary ELSE screens.alternate
    BY DEF Keys
  <1> QED BY <1>1, <1>2, <1>5, <1>6, <1>7, <1>8 DEF Formed, Keys, RegionOK

(* Entering the alternate screen keeps the invariant,                       *)
LEMMA EnterAlternateGood ==
    ASSUME TerminalInv, EnterAlternate PROVE TerminalInv'
  <1> DEFINE a == IF active = "primary" THEN CursorCopy(GetInit("alternate"), screens.primary)
                                        ELSE screens.alternate
  <1>1. Good(a)
    BY ScreensAre, CursorCopyGood
  <1>2. screens' = [screens EXCEPT !.alternate = a]
    BY DEF EnterAlternate
  <1> HIDE DEF a
  <1>3. screens' = [primary |-> screens.primary, alternate |-> a]
    BY <1>2, ScreensAre
  <1>4. Kept' /\ active' \in Keys /\ region' \in Regions /\ modes' \subseteq Modes
    BY ScreensAre DEF EnterAlternate, Kept, Keys
  <1> QED BY <1>1, <1>3, <1>4, ScreensAre, SwitchedGood

(* leaving it does,                                                         *)
LEMMA LeaveAlternateGood ==
    ASSUME TerminalInv, NEW clears \in BOOLEAN, LeaveAlternate(clears) PROVE TerminalInv'
  <1> DEFINE alt == IF clears THEN EraseDisplay(Screen, "complete", FALSE) ELSE Screen
  <1>1. Good(alt)
    <2>1. Good(Screen) /\ FALSE \in BOOLEAN /\ "complete" \in {"below", "above", "complete"}
      BY ScreenGood DEF TerminalInv
    <2> QED BY <2>1, EraseDisplayGood
  <1>2. /\ active' = "primary" /\ entered' = NoScreen /\ UNCHANGED <<region, modes>>
        /\ screens' = IF active = "primary" THEN screens
                      ELSE [primary |-> CursorCopy(screens.primary, alt), alternate |-> alt]
    BY DEF LeaveAlternate
  <1> HIDE DEF alt
  <1>3. Kept' /\ active' \in Keys /\ region' \in Regions /\ modes' \subseteq Modes
    BY <1>2, ScreensAre DEF Kept, Keys
  <1>4. CASE active = "primary"
    <2>1. screens' = [primary |-> screens.primary, alternate |-> screens.alternate]
      BY <1>2, <1>4, ScreensAre
    <2> QED BY <1>2, <1>3, <2>1, ScreensAre, SwitchedGood
  <1>5. CASE active # "primary"
    <2>1. Good(CursorCopy(screens.primary, alt))
      BY <1>1, ScreensAre, CursorCopyGood
    <2> QED BY <1>1, <1>2, <1>3, <1>5, <2>1, SwitchedGood
  <1> QED BY <1>4, <1>5

(* entering it by mode 1049 does, and the primary screen is then the one remembered, *)
LEMMA Enter1049Good ==
    ASSUME TerminalInv, Enter1049 PROVE TerminalInv'
  <1> DEFINE saved == SaveCursor(Screen)
             from == IF active = "primary" THEN GetInit("alternate") ELSE saved
             fresh == EraseDisplay(from, "complete", FALSE)
             p == IF active = "primary" THEN saved ELSE screens.primary
             a == IF active = "primary" THEN CursorCopy(fresh, saved) ELSE fresh
  <1>1. /\ Good(saved) /\ saved.saved.x = saved.x /\ saved.saved.y = saved.y
        /\ saved.saved.pending = saved.pending /\ saved.saved.prot = saved.prot
    <2>1. Good(Screen)
      BY ScreenGood DEF TerminalInv
    <2> QED BY <2>1, SaveCursorGood
  <1>2. /\ active' = "alternate" /\ UNCHANGED <<region, modes>>
        /\ screens' = IF active = "primary"
                      THEN [primary |-> saved, alternate |-> CursorCopy(fresh, saved)]
                      ELSE [screens EXCEPT !.alternate = fresh]
        /\ entered' = IF active = "primary" THEN saved ELSE entered
    BY DEF Enter1049
  <1> HIDE DEF saved
  <1>3. Good(from)
    BY <1>1, ScreensAre
  <1> HIDE DEF from
  <1>4. Good(fresh)
    <2>1. FALSE \in BOOLEAN /\ "complete" \in {"below", "above", "complete"}
      OBVIOUS
    <2> QED BY <1>3, <2>1, EraseDisplayGood
  <1> HIDE DEF fresh
  <1>5. Good(p) /\ Good(a)
    BY <1>1, <1>4, ScreensAre, CursorCopyGood
  <1>6. screens' = [primary |-> p, alternate |-> a]
    BY <1>2, ScreensAre
  <1>7. Kept'
    <2>1. CASE active = "primary"
      <3>1. screens'.primary = saved /\ entered' = saved /\ active' = "alternate"
        BY <1>2, <2>1
      <3> QED BY <1>1, <3>1 DEF Kept
    <2>2. CASE active # "primary"
      <3>1. screens'.primary = screens.primary /\ entered' = entered /\ active' = "alternate"
        BY <1>2, <1>6, <2>2
      <3> QED BY <3>1 DEF Kept, TerminalInv
    <2> QED BY <2>1, <2>2
  <1>8. active' \in Keys /\ region' \in Regions /\ modes' \subseteq Modes
    BY <1>2, ScreensAre DEF Keys
  <1> HIDE DEF p, a
  <1> QED BY <1>5, <1>6, <1>7, <1>8, SwitchedGood

(* and leaving it by mode 1049 does: what is restored is what was remembered. *)
LEMMA Leave1049Good ==
    ASSUME TerminalInv, Leave1049
    PROVE  /\ TerminalInv'
           /\ entered # NoScreen =>
                /\ screens'.primary = entered
                /\ "origin" \in modes' <=> entered.saved.origin
  <1>1. /\ active' = "primary" /\ entered' = NoScreen /\ UNCHANGED region
        /\ screens' = [screens EXCEPT !.primary = RestoreCursor(screens.primary)]
        /\ modes' = ModesAfterRestore(screens.primary)
    BY DEF Leave1049
  <1>2. screens' = [primary |-> RestoreCursor(screens.primary), alternate |-> screens.alternate]
    BY <1>1, ScreensAre
  <1>3. Good(RestoreCursor(screens.primary))
    BY ScreensAre, RestoreCursorGood
  <1>4. modes' \subseteq Modes
    BY <1>1, ScreensAre DEF ModesAfterRestore, Modes
  <1>5. Kept' /\ active' \in Keys /\ region' \in Regions
    BY <1>1, ScreensAre DEF Kept, Keys
  <1>6. TerminalInv'
    BY <1>1, <1>2, <1>3, <1>4, <1>5, ScreensAre, SwitchedGood
  <1>7. ASSUME entered # NoScreen
        PROVE  /\ screens'.primary = entered
               /\ "origin" \in modes' <=> entered.saved.origin
    <2>1. /\ screens.primary = entered
          /\ entered.saved.x = entered.x /\ entered.saved.y = entered.y
          /\ entered.saved.pending = entered.pending /\ entered.saved.prot = entered.prot
      BY <1>7 DEF TerminalInv, Kept
    <2>2. RestoreCursor(screens.primary) = entered
      BY <2>1, ScreensAre, RestoredSaved
    <2>3. screens'.primary = entered
      BY <1>2, <2>2
    <2>4. "origin" \in modes' <=> entered.saved.origin
      <3>1. entered.saved.origin \in BOOLEAN
        <4>1. entered.saved \in SavedSet
          BY <2>1, ScreensAre, GoodIs
        <4> QED BY <4>1 DEF SavedSet
      <3>2. modes' = IF entered.saved.origin THEN modes \cup {"origin"} ELSE modes \ {"origin"}
        BY <1>1, <2>1 DEF ModesAfterRestore
      <3> QED BY <3>1, <3>2
    <2> QED BY <2>3, <2>4
  <1> QED BY <1>6, <1>7

(* A full reset keeps the invariant.                                        *)
LEMMA FullResetGood ==
    ASSUME TerminalInv, FullReset PROVE TerminalInv'
  <1> DEFINE b == NewScreen(TRUE)
             p == [b EXCEPT !.pmode = screens.primary.pmode]
  <1>1. TRUE \in BOOLEAN
    OBVIOUS
  <1>2. Good(b)
    BY <1>1, NewScreenGood
  <1>3. screens' = [primary |-> p, alternate |-> NoScreen]
    BY DEF FullReset
  <1> HIDE DEF b
  <1>4. screens.primary.pmode \in {"off", "iso", "dec"}
    BY ScreensAre, GoodIs
  <1>5. Good(p)
    BY <1>2, <1>4, PmodeGood
  <1> HIDE DEF p
  <1>6. Kept' /\ active' \in Keys /\ active' # "alternate" /\ region' \in Regions /\ modes' \subseteq Modes
    BY FullRegionIs DEF FullReset, Kept, Keys, Modes
  <1> QED BY <1>3, <1>5, <1>6, SwitchedGood

(* The initial states satisfy it.                                           *)
LEMMA InitGood ==
    ASSUME Init PROVE TerminalInv
  <1>1. PICK start \in Starts :
          /\ modes = start.modes
          /\ region = start.region
          /\ screens = [primary |-> PrintEach(NewScreen(TRUE), start.text), alternate |-> NoScreen]
    BY DEF Init
  <1>2. modes \subseteq Modes /\ RegionOK /\ start.text \in Seq(Chars)
    BY <1>1, ModesAssumption DEF RegionOK, Chars
  <1>3. TRUE \in BOOLEAN
    OBVIOUS
  <1>4. Good(NewScreen(TRUE))
    BY <1>3, NewScreenGood
  <1>5. Good(PrintEach(NewScreen(TRUE), start.text))
    BY <1>2, <1>4, PrintEachGood
  <1>6. active = "primary" /\ entered = NoScreen
    BY DEF Init
  <1>7. /\ screens.primary = PrintEach(NewScreen(TRUE), start.text) /\ screens.alternate = NoScreen
        /\ screens = [primary |-> screens.primary, alternate |-> screens.alternate]
    BY <1>1
  <1>8. Formed
    BY <1>2, <1>5, <1>6, <1>7 DEF Formed, Keys
  <1> QED BY <1>6, <1>8 DEF TerminalInv, Kept

(* So does a step that changes nothing.                                     *)
LEMMA SameGood == TerminalInv /\ UNCHANGED vars => TerminalInv'
  BY DEF TerminalInv, Formed, Kept, RegionOK, vars

(* Every step keeps it.                                                     *)
LEMMA StepGood ==
    ASSUME TerminalInv, Next PROVE TerminalInv'
  <1>1. CASE \E run \in Runs : PrintRun(run)
    BY <1>1, PrintRunGood
  <1>2. CASE \E run \in SlowRuns : PrintSlow(run)
    BY <1>2, PrintRunGood
  <1>3. CASE Move
    BY <1>3, MovesGood
  <1>4. CASE \E row \in 1 .. Rows, col \in 1 .. Cols : Position(row, col)
    BY <1>4, PositionGood
  <1>5. CASE Feed \/ ScrollLines
    BY <1>5, FeedGood, ScrollLinesGood
  <1>6. CASE EditCells \/ Erase
    BY <1>6, EditCellsGood, EraseGood
  <1>7. CASE \E m \in {"off", "iso", "dec"} : SetProtectedMode(m)
    BY <1>7, SetProtectedModeGood
  <1>8. CASE SaveCursorOp \/ RestoreCursorOp
    BY <1>8, SavingGood
  <1>9. CASE \E m \in VertMargins : SetTopAndBottomMargin(m[1], m[2])
    BY <1>9, VertMarginGood
  <1>10. CASE \E m \in HorizMargins : SetLeftAndRightMargin(m[1], m[2])
    BY <1>10, HorizMarginGood
  <1>11. CASE \E m \in ModeChanges : \E on \in BOOLEAN : SetMode(m, on)
    BY <1>11, SetModeGood
  <1>12. CASE Decaln
    BY <1>12, DecalnGood
  <1>13. CASE EnterAlternate
    BY <1>13, EnterAlternateGood
  <1>14. CASE \E clears \in BOOLEAN : LeaveAlternate(clears)
    BY <1>14, LeaveAlternateGood
  <1>15. CASE Enter1049
    BY <1>15, Enter1049Good
  <1>16. CASE Leave1049
    BY <1>16, Leave1049Good
  <1>17. CASE FullReset
    BY <1>17, FullResetGood
  <1> QED BY <1>1, <1>2, <1>3, <1>4, <1>5, <1>6, <1>7, <1>8, <1>9, <1>10, <1>11, <1>12,
             <1>13, <1>14, <1>15, <1>16, <1>17 DEF Next

(* The invariant holds in every state: both screens are well formed, their cursors *)
(* are inside the grid, the margins are in order, and while mode 1049 is set the *)
(* primary screen is as it was on entry.                                    *)
THEOREM TerminalSound == Spec => []TerminalInv
  <1>1. Init => TerminalInv
    BY InitGood
  <1>2. TerminalInv /\ [Next]_vars => TerminalInv'
    BY StepGood, SameGood
  <1> QED BY <1>1, <1>2, PTL DEF Spec

(* The invariant implies what the runs check.                               *)
LEMMA IntactGood ==
    ASSUME TerminalInv PROVE ScreenIntact
  <1>1. \A k \in Live : Good(screens[k])
    BY ScreensAre DEF Live, Keys
  <1>2. TypeOK
    <2>1. active \in Live
      BY ScreensAre, GoodIsScreen DEF Live, Keys
    <2> QED BY <1>1, <2>1, ScreensAre, GoodIs DEF TypeOK
  <1>3. WideIntact
    <2>1. ASSUME NEW k \in Live, NEW y \in Lines, NEW x \in Columns, NEW r, r = screens[k].rows[y]
          PROVE  /\ r.cells[x].wide = "tail" => x > 0 /\ r.cells[x - 1].wide = "wide"
                 /\ r.cells[x].wide = "wide" => x + 1 \in Columns /\ r.cells[x + 1].wide = "tail"
                 /\ r.cells[x].wide = "head" => x = Cols - 1 /\ r.wrap
      <3>1. Whole(r)
        BY <1>1, <2>1, GoodIs
      <3> QED BY <3>1 DEF Whole, WholeCells
    <2> QED BY <2>1 DEF WideIntact
  <1> QED BY <1>2, <1>3 DEF ScreenIntact

(* No operation of the terminal cuts a wide character in two, leaves a filler where *)
(* no row wraps, a cursor outside the grid or margins out of order.         *)
THEOREM ScreenSound == Spec => []ScreenIntact
  <1>1. TerminalInv => ScreenIntact
    BY IntactGood
  <1> QED BY <1>1, TerminalSound, PTL

(* A scroll, or an insertion or deletion of lines, changes nothing outside the margins *)
(* but the wide characters that a margin cuts and the filler at the end of a row. *)
THEOREM OutsideKept == Spec => ScrollKeepsOutside
  <1>1. TerminalInv => [Feed \/ ScrollLines => KeepsOutside(Screen.rows, Screen'.rows)]_vars
    BY FeedGood, ScrollLinesGood
  <1>2. TerminalInv =>
            [Feed \/ ScrollLines =>
                \A y \in Lines, x \in Columns :
                   \/ y \in region.top .. region.bottom /\ x \in region.left .. region.right
                   \/ Screen'.rows[y].cells[x] = Screen.rows[y].cells[x]
                   \/ /\ x \in {region.left - 1, region.right + 1, Cols - 1}
                      /\ Blanked(Screen.rows[y].cells[x], Screen'.rows[y].cells[x])]_vars
    BY <1>1 DEF KeepsOutside
  <1> QED BY <1>2, TerminalSound, PTL DEF ScrollKeepsOutside

(* Leaving mode 1049 gives back the primary screen, its cursor and origin mode as they *)
(* were on entry, whatever ran on the alternate screen.                     *)
THEOREM PrimaryRestored == Spec => Leave1049Restores
  <1>1. TerminalInv =>
            [Leave1049 /\ entered # NoScreen =>
                /\ screens'.primary = entered
                /\ "origin" \in modes' <=> entered.saved.origin]_vars
    BY Leave1049Good
  <1> QED BY <1>1, TerminalSound, PTL DEF Leave1049Restores

-----------------------------------------------------------------------------
(* Inserting lines and deleting them again.                                 *)

(* A row that row_will_be_shifted has nothing to do for.                    *)
Ready(r) ==
    /\ Cuttable(r)
    /\ region.left < 2 => r.cells[Cols - 1].wide # "head"

(* row_will_be_shifted leaves a row it has nothing to do for.               *)
LEMMA ShiftedIsReady ==
    ASSUME NEW r, Whole(r), RegionOK
    PROVE  Ready(WillBeShifted(r))
  <1>1. PICK q : /\ q = IF region.right = Cols - 1 \/ region.left < 2 THEN WithoutHead(r) ELSE r
                 /\ Whole(q) /\ q.wrap = r.wrap /\ q.cont = r.cont
                 /\ WillBeShifted(r) = [q EXCEPT !.cells = ShiftedCells(q.cells)]
    BY WillBeShiftedIs
  <1> DEFINE w == WillBeShifted(r)
  <1>2. q \in RowSet /\ q.cells \in CellRows /\ WholeCells(q.cells)
    BY <1>1 DEF Whole, RowSet
  <1>3. w.cells = ShiftedCells(q.cells)
    BY <1>1, <1>2 DEF RowSet
  <1>4. Cuttable(w)
    BY WillBeShiftedWhole
  <1> HIDE DEF w
  <1>5. region.left < 2 => q.cells[Cols - 1].wide # "head"
    BY <1>1, WithoutHeadWhole
  <1>6. w.cells[Cols - 1] = q.cells[Cols - 1] \/ Blanked(q.cells[Cols - 1], w.cells[Cols - 1])
    BY <1>2, <1>3, ShiftedCellsIs, ColumnsIs
  <1>7. w.cells[Cols - 1].wide = "head" => q.cells[Cols - 1].wide = "head"
    <2>1. \A c \in Cells : \A d : Blanked(c, d) => d.wide = "narrow"
      BY NarrowedIs DEF Blanked
    <2>2. q.cells[Cols - 1] \in Cells
      BY <1>2, CellsAre, ColumnsIs
    <2> QED BY <1>6, <2>1, <2>2
  <1> QED BY <1>4, <1>5, <1>7 DEF Ready, w

(* Done once more it changes no cell.                                       *)
LEMMA ReadyIsShifted ==
    ASSUME NEW r, Ready(r), RegionOK
    PROVE  WillBeShifted(r).cells = r.cells
  <1>1. PICK q : /\ q = IF region.right = Cols - 1 \/ region.left < 2 THEN WithoutHead(r) ELSE r
                 /\ WillBeShifted(r) = [q EXCEPT !.cells = ShiftedCells(q.cells)]
    BY WillBeShiftedIs DEF Ready, Cuttable
  <1>2. q = r
    BY <1>1 DEF Ready, Cuttable, WithoutHead
  <1>3. r \in RowSet /\ r.cells \in CellRows /\ WholeCells(r.cells)
    BY DEF Ready, Cuttable, Whole, RowSet
  <1>4. r.cells[region.left].wide # "tail"
    BY RegionIs DEF Ready, Cuttable, Uncut
  <1>5. r.cells[region.right].wide # "wide"
    <2>1. r.cells[region.right].wide = "wide" =>
              region.right + 1 \in Columns /\ r.cells[region.right + 1].wide = "tail"
      BY <1>3, RegionIs DEF WholeCells
    <2> QED BY <2>1 DEF Ready, Cuttable, Uncut
  <1>6. ShiftedCells(r.cells) = [x \in Columns |-> r.cells[x]]
    BY <1>4, <1>5 DEF ShiftedCells
  <1>7. ShiftedCells(r.cells) = r.cells
    BY <1>3, <1>6 DEF CellRows
  <1> QED BY <1>1, <1>2, <1>3, <1>7 DEF RowSet

(* The rows a shift builds from such rows are such rows.                    *)
LEMMA ReadyParts ==
    ASSUME NEW r, NEW src, Ready(r), Ready(src), RegionOK
    PROVE  /\ Ready(WithSegment(r, src)) /\ Ready(Cleared(r))
           /\ FullWidth => Ready(Unwrapped(r)) /\ Unwrapped(r).cells = r.cells
           /\ \A x \in Columns :
                /\ WithSegment(r, src).cells[x] =
                       IF x \in region.left .. region.right THEN src.cells[x] ELSE r.cells[x]
                /\ x \notin region.left .. region.right => Cleared(r).cells[x] = r.cells[x]
  <1>1. Cuttable(r) /\ Cuttable(src)
    BY DEF Ready
  <1>2. /\ Cuttable(WithSegment(r, src))
        /\ \A x \in Columns : WithSegment(r, src).cells[x] =
                 IF x \in region.left .. region.right THEN src.cells[x] ELSE r.cells[x]
    BY <1>1, WithSegmentWhole
  <1>3. /\ Cuttable(Cleared(r))
        /\ \A x \in Columns : Cleared(r).cells[x] =
                 IF x \in region.left .. region.right THEN Blank ELSE r.cells[x]
    BY <1>1, ClearedIs
  <1>4. Ready(WithSegment(r, src)) /\ Ready(Cleared(r))
    BY <1>2, <1>3, BlankIs, ColumnsIs DEF Ready
  <1>5. FullWidth => Ready(Unwrapped(r)) /\ Unwrapped(r).cells = r.cells
    <2>1. SUFFICES ASSUME FullWidth
                   PROVE  Ready(Unwrapped(r)) /\ Unwrapped(r).cells = r.cells
      OBVIOUS
    <2>2. Whole(r) /\ r.cells[Cols - 1].wide # "head"
      BY <2>1, FullWidthIs DEF Ready, Cuttable
    <2>3. Whole(Unwrapped(r)) /\ Unwrapped(r).cells = r.cells
      BY <2>2, UnwrappedWhole
    <2> QED BY <2>3 DEF Ready, Cuttable
  <1> QED BY <1>2, <1>3, <1>4, <1>5

(* What the lines of the region hold after n lines were inserted at first.  *)
LEMMA InsertedRows ==
    ASSUME NEW s, Good(s), RegionOK, NEW first \in region.top .. region.bottom, NEW n \in Nat,
           NEW touched, NEW y \in first .. region.bottom, NEW q,
           q = ShiftedRow(s, first, -n, touched, y)
    PROVE  /\ Ready(q)
           /\ FullWidth \/ \A x \in Columns : x \notin region.left .. region.right =>
                               q.cells[x] = WillBeShifted(s.rows[y]).cells[x]
           /\ y - n \in first .. region.bottom => \A x \in Columns : x \in region.left .. region.right =>
                               q.cells[x] = WillBeShifted(s.rows[y - n]).cells[x]
  <1> DEFINE fixed(z) == WillBeShifted(s.rows[z])
             a == fixed(y)
             b == fixed(y - n)
  <1>1. \A z \in first .. region.bottom : z \in Lines
    BY RegionIs, LinesIs
  <1>2. \A z \in first .. region.bottom : Ready(fixed(z))
    BY <1>1, GoodIs, ShiftedIsReady
  <1>3. y + (-n) = y - n /\ Ready(a)
    <2>1. y \in Int
      BY RegionIs
    <2> QED BY <1>2, <2>1
  <1>4. CASE y - n \in first .. region.bottom /\ FullWidth
    <2>1. q = Unwrapped(b)
      BY <1>3, <1>4 DEF ShiftedRow
    <2>2. Ready(b)
      BY <1>2, <1>4
    <2> HIDE DEF b
    <2>3. Ready(q) /\ q.cells = b.cells
      BY <1>4, <2>1, <2>2, ReadyParts
    <2> QED BY <1>4, <2>3 DEF b
  <1>5. CASE y - n \in first .. region.bottom /\ ~FullWidth
    <2>1. q = WithSegment(a, b)
      BY <1>3, <1>5 DEF ShiftedRow
    <2>2. Ready(b)
      BY <1>2, <1>5
    <2> HIDE DEF a, b
    <2>3. /\ Ready(q)
          /\ \A x \in Columns : q.cells[x] = IF x \in region.left .. region.right THEN b.cells[x] ELSE a.cells[x]
      BY <1>3, <2>1, <2>2, ReadyParts
    <2> QED BY <2>3 DEF a, b
  <1>6. CASE y - n \notin first .. region.bottom
    <2>1. q = Cleared(a) \/ (FullWidth /\ q = Unwrapped(Cleared(a)))
      BY <1>3, <1>6 DEF ShiftedRow
    <2> HIDE DEF a
    <2>2. Ready(Cleared(a)) /\ \A x \in Columns : x \notin region.left .. region.right => Cleared(a).cells[x] = a.cells[x]
      BY <1>3, ReadyParts
    <2> DEFINE c == Cleared(a)
    <2>3. Ready(c) /\ (q = c \/ (FullWidth /\ q = Unwrapped(c)))
      BY <2>1, <2>2
    <2> HIDE DEF c
    <2>4. Ready(q) /\ q.cells = c.cells
      BY <2>3, ReadyParts
    <2> QED BY <1>6, <2>2, <2>4 DEF a, c
  <1> QED BY <1>4, <1>5, <1>6

(* Deleting as many lines at first as were inserted there.                  *)
LEMMA DeletedRows ==
    ASSUME NEW s, Good(s), NEW u, RegionOK, NEW first \in region.top .. region.bottom, NEW n \in Nat,
           NEW touched, NEW gone, NEW y \in first .. region.bottom, y + n \in first .. region.bottom,
           u.rows[y] = ShiftedRow(s, first, -n, touched, y),
           u.rows[y + n] = ShiftedRow(s, first, -n, touched, y + n)
    PROVE  ShiftedRow(u, first, n, gone, y).cells = WillBeShifted(s.rows[y]).cells
  <1> DEFINE a == u.rows[y]
             b == u.rows[y + n]
             f == WillBeShifted(s.rows[y])
             q == ShiftedRow(u, first, n, gone, y)
  <1>1. (y + n) - n = y
    BY RegionIs
  <1>2. /\ Ready(a)
        /\ FullWidth \/ \A x \in Columns : x \notin region.left .. region.right => a.cells[x] = f.cells[x]
    BY InsertedRows
  <1>3. Ready(b) /\ \A x \in Columns : x \in region.left .. region.right => b.cells[x] = f.cells[x]
    <2> DEFINE z == y + n
    <2>1. z \in first .. region.bottom /\ z - n \in first .. region.bottom /\ z - n = y
      BY <1>1
    <2>2. b = ShiftedRow(s, first, -n, touched, z)
      OBVIOUS
    <2> HIDE DEF z, b
    <2>3. /\ Ready(b)
          /\ \A x \in Columns : x \in region.left .. region.right => b.cells[x] = WillBeShifted(s.rows[z - n]).cells[x]
      BY <2>1, <2>2, InsertedRows
    <2> QED BY <2>1, <2>3
  <1>4. f.cells \in CellRows
    <2>1. y \in Lines
      BY RegionIs, LinesIs
    <2>2. Whole(s.rows[y])
      BY <2>1, GoodIs
    <2> QED BY <2>2, ShiftedIsReady DEF Ready, Cuttable, Whole, RowSet
  <1>5. WillBeShifted(a).cells = a.cells /\ WillBeShifted(b).cells = b.cells
    BY <1>2, <1>3, ReadyIsShifted
  <1>6. q = IF FullWidth THEN Unwrapped(WillBeShifted(b)) ELSE WithSegment(WillBeShifted(a), WillBeShifted(b))
    BY DEF ShiftedRow
  <1>7. Ready(WillBeShifted(a)) /\ Ready(WillBeShifted(b))
    BY <1>2, <1>3, ShiftedIsReady DEF Ready, Cuttable
  <1> DEFINE wa == WillBeShifted(a)
             wb == WillBeShifted(b)
  <1> HIDE DEF q, a, b, f, wa, wb
  <1>8. CASE FullWidth
    <2>1. q.cells = wb.cells
      BY <1>6, <1>7, <1>8, ReadyParts DEF wa, wb
    <2>2. b.cells \in CellRows
      BY <1>3 DEF Ready, Cuttable, Whole, RowSet
    <2>3. \A x \in Columns : b.cells[x] = f.cells[x]
      BY <1>3, <1>8, FullWidthIs
    <2>4. b.cells = f.cells
      BY <1>4, <2>2, <2>3 DEF CellRows
    <2> QED BY <1>5, <2>1, <2>4 DEF q, f, wb
  <1>9. CASE ~FullWidth
    <2>1. q = WithSegment(wa, wb) /\ Ready(wa) /\ Ready(wb)
      BY <1>6, <1>7, <1>9 DEF wa, wb
    <2>2. /\ Ready(q)
          /\ \A x \in Columns : q.cells[x] = IF x \in region.left .. region.right THEN wb.cells[x] ELSE wa.cells[x]
      BY <2>1, ReadyParts
    <2>3. \A x \in Columns : q.cells[x] = f.cells[x]
      BY <1>2, <1>3, <1>5, <1>9, <2>2 DEF wa, wb
    <2>4. q.cells \in CellRows
      BY <2>2 DEF Ready, Cuttable, Whole, RowSet
    <2>5. q.cells = f.cells
      BY <1>4, <2>3, <2>4 DEF CellRows
    <2> QED BY <2>5 DEF q, f
  <1> QED BY <1>8, <1>9

(* Deleting the lines just inserted gives back every line that was not pushed out. *)
LEMMA DeleteUndoes ==
    ASSUME NEW s, Good(s), RegionOK, InRegion(s), NEW n \in Nat, n > 0,
           NEW y \in s.y .. region.bottom - n
    PROVE  DeleteLines(InsertLines(s, n), n).rows[y].cells = WillBeShifted(s.rows[y]).cells
  <1> DEFINE first == s.y
             t == Shifted(s, first, -n, first .. region.bottom - n)
             u == Unpended(At(t, region.left, first))
             v == Shifted(u, first, n, first + n .. region.bottom)
  <1>1. first \in region.top .. region.bottom /\ first \in Lines /\ first \in Int /\ region.left \in Columns
    BY InRegionIs, GoodIs, RegionIs
  <1>2. y \in first .. region.bottom /\ y + n \in first .. region.bottom /\ n \in Int /\ -n \in Int
    BY <1>1, RegionIs
  <1>3. Least(n, region.bottom - first + 1) = n /\ n # 0
        /\ first + (region.bottom - first + 1) - n - 1 = region.bottom - n
    BY <1>1, <1>2, RegionIs DEF Least
  <1>4. InsertLines(s, n) = u
    BY <1>3 DEF InsertLines
  <1>5. Good(t) /\ \A z \in Lines : t.rows[z] = ShiftedRow(s, first, -n, first .. region.bottom - n, z)
    BY <1>1, <1>2, ShiftedGood
  <1> HIDE DEF t
  <1>6. Good(u) /\ u.rows = t.rows /\ u.x = region.left /\ u.y = first
    <2> DEFINE w == At(t, region.left, first)
    <2>1. Good(w) /\ w.rows = t.rows /\ w.x = region.left /\ w.y = first
      BY <1>1, <1>5, AtGood
    <2> HIDE DEF w
    <2>2. Good(Unpended(w)) /\ Unpended(w).rows = w.rows /\ Unpended(w).x = w.x /\ Unpended(w).y = w.y
      BY <2>1, UnpendedGood
    <2> QED BY <2>1, <2>2 DEF w
  <1> HIDE DEF u
  <1>7. InRegion(u)
    BY <1>1, <1>6, RegionIs DEF InRegion
  <1>8. DeleteLines(u, n) = Unpended(At(v, region.left, first))
    BY <1>3, <1>6, <1>7 DEF DeleteLines
  <1>9. Good(v) /\ \A z \in Lines : v.rows[z] = ShiftedRow(u, first, n, first + n .. region.bottom, z)
    BY <1>1, <1>2, <1>6, ShiftedGood
  <1> HIDE DEF v
  <1>10. DeleteLines(u, n).rows = v.rows
    <2> DEFINE w == At(v, region.left, first)
    <2>1. Good(w) /\ w.rows = v.rows
      BY <1>1, <1>9, AtGood
    <2> HIDE DEF w
    <2>2. Unpended(w).rows = w.rows
      BY <2>1, UnpendedGood
    <2> QED BY <1>8, <2>1, <2>2 DEF w
  <1>11. y \in Lines /\ y + n \in Lines
    BY <1>1, <1>2, RegionIs, LinesIs
  <1> HIDE DEF first
  <1>12. ShiftedRow(u, first, n, first + n .. region.bottom, y).cells = WillBeShifted(s.rows[y]).cells
    <2> DEFINE touched == first .. region.bottom - n
               gone == first + n .. region.bottom
    <2>1. /\ u.rows[y] = ShiftedRow(s, first, -n, touched, y)
          /\ u.rows[y + n] = ShiftedRow(s, first, -n, touched, y + n)
      BY <1>5, <1>6, <1>11
    <2> HIDE DEF touched
    <2>2. ShiftedRow(u, first, n, gone, y).cells = WillBeShifted(s.rows[y]).cells
      <3> HIDE DEF gone
      <3>1. \A f \in region.top .. region.bottom : \A k \in Nat : \A p, g :
              \A z \in f .. region.bottom :
                 /\ z + k \in f .. region.bottom
                 /\ u.rows[z] = ShiftedRow(s, f, -k, p, z)
                 /\ u.rows[z + k] = ShiftedRow(s, f, -k, p, z + k)
                 => ShiftedRow(u, f, k, g, z).cells = WillBeShifted(s.rows[z]).cells
        BY DeletedRows
      <3>2. n \in Nat
        OBVIOUS
      <3> QED BY <1>1, <1>2, <2>1, <3>1, <3>2, Zenon
    <2> QED BY <2>2
  <1> QED BY <1>4, <1>9, <1>10, <1>11, <1>12

(* Deleting the lines just inserted puts back every line not pushed out of the region, *)
(* with whole characters at the margins.                                    *)
THEOREM DeletionUndone == Spec => []DeleteUndoesInsert
  <1>1. TerminalInv => DeleteUndoesInsert
    <2>1. SUFFICES ASSUME TerminalInv, NEW n \in Counts, n > 0, InRegion(Screen),
                          NEW y \in Screen.y .. region.bottom - n
                   PROVE  DeleteLines(InsertLines(Screen, n), n).rows[y].cells
                              = WillBeShifted(Screen.rows[y]).cells
      BY DEF DeleteUndoesInsert
    <2>2. Good(Screen) /\ RegionOK /\ n \in Nat
      BY <2>1, ScreenGood, RunsAre DEF TerminalInv
    <2> QED BY <2>1, <2>2, DeleteUndoes
  <1> QED BY <1>1, TerminalSound, PTL
=============================================================================
