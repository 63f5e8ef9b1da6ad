-------------------------- MODULE MCSelectableGrid --------------------------
(* Instances of SelectableGrid for TLC: either a body that scrolls and two *)
(* cells, or many layouts and a body that does not scroll.                 *)
EXTENDS SelectableGrid

Size(x, y) == [a \in Axes |-> IF a = "x" THEN x ELSE y]
Same(region) == [a \in Axes |-> region]

MCPointers == {NoMouse, Same("before"), Same("head"), Same("after")}

MCViews == {Size(1, 1), Size(3, 1)}
MCBars == {Size(0, 0), Size(1, 1)}
MCContents == {Size(0, 0), Size(2, 1)}

Layout(rows, cols, fixed, span, size) ==
  [rows |-> rows, cols |-> cols, fixedRow |-> fixed, fixedCol |-> fixed,
   span |-> span, content |-> size]

One(p, s) == [q \in {p} |-> s]
Two(p, s, q, t) == [x \in {p, q} |-> IF x = p THEN s ELSE t]

Scrolling == {Layout(1, 1, 0, <<>>, Size(2, 1))}

(* Two spans that a selection can cut, one that it cannot, and three that  *)
(* the script does not expect: one that goes both ways, one that leaves the*)
(* frozen columns and one that leaves the grid.                            *)
MCLayouts == Scrolling \cup
  {Layout(3, 3, 1, Two(<<2, 1>>, <<2, 1>>, <<2, 2>>, <<1, 2>>), Size(0, 0)),
   Layout(2, 3, 1, One(<<1, 2>>, <<1, 2>>), Size(0, 0)),
   Layout(3, 2, 0, One(<<2, 1>>, <<2, 2>>), Size(0, 0)),
   Layout(2, 3, 1, One(<<1, 1>>, <<1, 2>>), Size(0, 0)),
   Layout(2, 2, 1, One(<<2, 2>>, <<2, 1>>), Size(0, 0))}

MCInit ==
  /\ GridInit
  /\ align = content["x"]
  /\ layout \notin Scrolling =>
       script = "selectable" /\ view = Size(1, 1) /\ bar = Size(0, 0)

MCSpec == MCInit /\ [][GridNext]_gridVars

(* A grid that scrolls keeps to one cell, to one column shown first and to *)
(* two places of the pointer; one that does not keeps to its size.         *)
Narrow ==
  IF layout \in Scrolling
  THEN /\ layout' \in Scrolling /\ align' = content'["x"] /\ ~shiftDown'
       /\ mouse' \in {NoMouse, Same("after")}
  ELSE /\ UNCHANGED <<shown, sizes, ghost>>
       /\ shiftDown' => layout.rows = 2
=============================================================================
