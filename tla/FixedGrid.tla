----------------------------- MODULE FixedGrid -----------------------------
(***************************************************************************)
(* From the cells of an application to the cells a user can select: the    *)
(* table cells that FixedGrid.java renders into the four panes of a grid   *)
(* with frozen rows and columns, and the array the script                  *)
(* karatachi-selectablegrid.js rebuilds from them.                         *)
(*                                                                         *)
(* A layout is a record: rows and cols (both at least 1), fixedRow and     *)
(* fixedCol, and span, which gives <<rowspan, colspan>> for the positions  *)
(* that have one.  Positions count from 1, those of the script from 0.  A  *)
(* table cell is named by the position it was rendered for.                *)
(***************************************************************************)
EXTENDS Integers, FiniteSets, Sequences

SpanOf(l, p) == IF p \in DOMAIN l.span THEN l.span[p] ELSE <<1, 1>>

IsTop(pane) == pane \in {"tl", "tr"}
IsLeft(pane) == pane \in {"tl", "bl"}

(* getRows() and getCols(), without the last row and the last column, which*)
(* hold spacers: how far a pane reaches.                                   *)
PaneRows(l, pane) ==
  IF IsTop(pane)
  THEN IF l.rows <= l.fixedRow THEN l.rows ELSE l.fixedRow
  ELSE IF l.rows <= l.fixedRow THEN 0 ELSE l.rows - l.fixedRow

PaneCols(l, pane) ==
  IF IsLeft(pane)
  THEN IF l.cols <= l.fixedCol THEN l.cols ELSE l.fixedCol
  ELSE IF l.cols <= l.fixedCol THEN 0 ELSE l.cols - l.fixedCol

(* populateItem() of a column: a position below or right of a spanning cell*)
(* is hidden, whichever of the two counters says so, and both count down.  *)
PopulateCell(l, p, j, done) ==
  LET span == SpanOf(l, p) IN
  IF done.coljoined > 0 \/ done.rowjoined[j] > 0
  THEN [done EXCEPT !.coljoined = @ - 1, !.rowjoined[j] = @ - 1]
  ELSE [tds |-> Append(done.tds, p),
        coljoined |-> IF span[2] > 1 THEN span[2] - 1 ELSE done.coljoined,
        rowjoined |-> IF span[1] > 1
                      THEN [done.rowjoined EXCEPT ![j] = span[1] - 1]
                      ELSE done.rowjoined]

PopulateRow(l, pane, i, rowjoined) ==
  LET row == IF IsTop(pane) THEN i ELSE i + l.fixedRow
      At(j) == <<row, IF IsLeft(pane) THEN j ELSE j + l.fixedCol>>
      upTo[j \in 0 .. PaneCols(l, pane)] ==
        IF j = 0 THEN [tds |-> <<>>, coljoined |-> 0, rowjoined |-> rowjoined]
        ELSE PopulateCell(l, At(j), j, upTo[j - 1])
  IN upTo[PaneCols(l, pane)]

(* The table of a pane: for each row the cells that are visible.           *)
Render(l, pane) ==
  LET Row(done, i) ==
        LET row == PopulateRow(l, pane, i, done.rowjoined)
        IN [rows |-> Append(done.rows, row.tds), rowjoined |-> row.rowjoined]
      upTo[i \in 0 .. PaneRows(l, pane)] ==
        IF i = 0
        THEN [rows |-> <<>>,
              rowjoined |-> [j \in 1 .. PaneCols(l, pane) |-> 0]]
        ELSE Row(upTo[i - 1], i)
  IN upTo[PaneRows(l, pane)].rows

-----------------------------------------------------------------------------
(* The script.  grid.at gives the cell at each position that has one,      *)
(* grid.cell the row, column and spans recorded for a cell.                *)

Extend(f, S, v) == [x \in DOMAIN f \cup S |-> IF x \in S THEN v ELSE f[x]]

(* Faulty: a cell that spans rows is entered in the first one only.        *)
SetupFirstRow(l, td, r, c, grid) ==
  LET span == SpanOf(l, td)
      rs == IF span[2] # 1 THEN 1 ELSE span[1]
      cs == span[2]
  IN [grid EXCEPT
        !.cols = IF r = 0 THEN c + cs ELSE @,
        !.at = Extend(@, {r} \X (c .. (c + cs - 1)), td),
        !.cell = Extend(@, {td},
                   [row |-> r, col |-> c, rowSpan |-> rs, colSpan |-> cs])]

(* setup(): a cell that spans columns is entered in one row only.  A row   *)
(* beyond the last is undefined: the script ends with a TypeError.  The    *)
(* width of the array is that of its first row, however far that has grown.*)
Setup(l, td, r, c, grid) ==
  LET span == SpanOf(l, td)
      rs == IF span[2] # 1 THEN 1 ELSE span[1]
      cs == span[2]
      covered == (r .. (r + rs - 1)) \X (c .. (c + cs - 1))
  IN [grid EXCEPT
        !.broken = @ \/ r + rs > grid.rows,
        !.cols = IF r = 0 THEN c + cs ELSE @,
        !.at = Extend(@, covered, td),
        !.cell = Extend(@, {td},
                   [row |-> r, col |-> c, rowSpan |-> rs, colSpan |-> cs])]

(* The first column from c on that is still free in row r.                 *)
FreeCol(grid, r, c) ==
  CHOOSE k \in c .. (c + Cardinality(DOMAIN grid.at)) :
    /\ <<r, k>> \notin DOMAIN grid.at
    /\ \A m \in c .. (k - 1) : <<r, m>> \in DOMAIN grid.at

(* The cells of the left pane, then those of the right, from left to right.*)
SetupRow(l, tds, r, grid) ==
  LET upTo[k \in 0 .. Len(tds)] ==
        IF k = 0 THEN grid
        ELSE Setup(l, tds[k], r, FreeCol(upTo[k - 1], r, 0), upTo[k - 1])
  IN upTo[Len(tds)]

(* The array cells: its rows are those of the two tables on the left, each *)
(* with its cells on the right behind it.                                  *)
CellsOf(l) ==
  LET Row(i, top, bottom) ==
        IF i <= l.fixedRow THEN Render(l, top)[i]
        ELSE Render(l, bottom)[i - l.fixedRow]
      upTo[i \in 0 .. l.rows] ==
        IF i = 0 THEN [rows |-> l.rows, cols |-> 0, broken |-> FALSE,
                       at |-> <<>>, cell |-> <<>>]
        ELSE SetupRow(l, Row(i, "tl", "bl") \o Row(i, "tr", "br"),
                      i - 1, upTo[i - 1])
  IN upTo[l.rows]

Tds(grid) == DOMAIN grid.cell

(* cells.get(): null outside, undefined in a hole.                         *)
HasCell(grid, p) == p[2] < grid.cols /\ p \in DOMAIN grid.at

-----------------------------------------------------------------------------
(* What the application meant.                                             *)

Positions(l) == (1 .. l.rows) \X (1 .. l.cols)

Covered(l, p) ==
  (p[1] .. (p[1] + SpanOf(l, p)[1] - 1)) \X
  (p[2] .. (p[2] + SpanOf(l, p)[2] - 1))

(* Positions no other cell covers.                                         *)
Origins(l) ==
  {p \in Positions(l) : \A q \in DOMAIN l.span : p \in Covered(l, q) => p = q}

(* Cells span rows or columns, not both; they do not overlap; and none     *)
(* crosses the edge of the grid or of its frozen part.                     *)
WellFormed(l) ==
  /\ \A p \in DOMAIN l.span :
       /\ 1 \in {l.span[p][1], l.span[p][2]}
       /\ Covered(l, p) \subseteq Positions(l)
       /\ \A q \in Covered(l, p) : /\ (p[1] <= l.fixedRow) = (q[1] <= l.fixedRow)
                                   /\ (p[2] <= l.fixedCol) = (q[2] <= l.fixedCol)
  /\ \A p, q \in DOMAIN l.span :
       p # q => Covered(l, p) \cap Covered(l, q) = {}
=============================================================================
