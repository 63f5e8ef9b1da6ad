-------------------------- MODULE SelectableGrid --------------------------
(***************************************************************************)
(* karatachi-selectablegrid.js: selecting cells of a grid with the mouse.  *)
(*                                                                         *)
(* The script remembers two cells, where a selection started and where the *)
(* pointer is, selects the rectangle between them, widened so that it cuts *)
(* no cell it has looked at, and scrolls by a timer while the button is    *)
(* down and the pointer outside.  Handlers run one at a time; one that     *)
(* throws a TypeError ends where it does.  The scroll positions are those  *)
(* of GridPanes, the cells those FixedGrid makes of a layout.              *)
(*                                                                         *)
(* The context menu, the wording of the copied text and the scrolling of   *)
(* the window have no state that another handler reads; they are left out. *)
(***************************************************************************)
EXTENDS FixedGrid, GridPanes, FiniteSetsExt

CONSTANTS
  Layouts,    \* the layouts of FixedGrid, each with its content size
  Pointers    \* where the pointer may be along each axis, one of Regions

ASSUME LayoutsAssumption ==
  \A l \in Layouts :
    /\ l.rows \in Nat \ {0} /\ l.cols \in Nat \ {0}
    /\ l.fixedRow \in Nat /\ l.fixedCol \in Nat
    /\ DOMAIN l.span \subseteq Positions(l)
    /\ \A p \in DOMAIN l.span : l.span[p] \in (Nat \ {0}) \X (Nat \ {0})

VARIABLES
  layout,     \* what the application shows
  cells,       \* the array cells, as the script has rebuilt it
  start, end, \* the two cells
  selected,   \* the cells updateSelected() has recorded
  colored,    \* the cells that are shown as selected
  shiftDown,
  mouse,      \* where the pointer was last seen, along each axis
  moved,      \* history: it has been seen since selecting and sizes changed
  timer       \* scroll: "none", "queued", or "dead" after a TypeError

selection == <<start, end, selected, colored>>
pointer == <<mouse, moved, timer>>
shown == <<layout, cells>>
own == <<shown, selection, shiftDown, pointer>>
gridVars == <<panes, own>>

NoCell == <<0, 0>>

(* Before the frozen part, in it, in the body, or behind the body.         *)
Regions == {"before", "head", "in", "after"}
NoMouse == [a \in Axes |-> "in"]
Outside(m) == \E a \in Axes : m[a] # "in"

Top(g, c) == g.cell[c].row
Left(g, c) == g.cell[c].col
Bottom(g, c) == g.cell[c].row + g.cell[c].rowSpan - 1
Right(g, c) == g.cell[c].col + g.cell[c].colSpan - 1

(* cells.get()                                                             *)
Get(g, r, c) == IF HasCell(g, <<r, c>>) THEN g.at[<<r, c>>] ELSE NoCell

-----------------------------------------------------------------------------
(* getSelected().  Where start and end are the same along an axis, the span*)
(* of start counts.                                                        *)
Corners(g, s, e) ==
  [failed |-> FALSE,
   top |-> Min({Top(g, s), Top(g, e)}),
   bottom |-> IF Top(g, s) < Top(g, e) THEN Bottom(g, e) ELSE Bottom(g, s),
   left |-> Min({Left(g, s), Left(g, e)}),
   right |-> IF Left(g, s) < Left(g, e) THEN Right(g, e) ELSE Right(g, s)]

(* Faulty: the rows that cells reach down to are left out.                 *)
WidenNotDown(g, area, r) ==
  LET row == {Get(g, r, c) : c \in area.left .. area.right} IN
  IF area.failed \/ NoCell \in row THEN [area EXCEPT !.failed = TRUE]
  ELSE [area EXCEPT !.top = Min({@} \cup {Top(g, c) : c \in row}),
                    !.left = Min({@} \cup {Left(g, c) : c \in row}),
                    !.right = Max({@} \cup {Right(g, c) : c \in row})]

(* The cells of a row, between the columns the area had when the row was   *)
(* reached.  "failed" stands for the TypeError of a position without one.  *)
Widen(g, area, r) ==
  LET row == {Get(g, r, c) : c \in area.left .. area.right} IN
  IF area.failed \/ NoCell \in row THEN [area EXCEPT !.failed = TRUE]
  ELSE [failed |-> FALSE,
        top |-> Min({area.top} \cup {Top(g, c) : c \in row}),
        bottom |-> Max({area.bottom} \cup {Bottom(g, c) : c \in row}),
        left |-> Min({area.left} \cup {Left(g, c) : c \in row}),
        right |-> Max({area.right} \cup {Right(g, c) : c \in row})]

(* The rows between the corners, however far the area grows.               *)
Area(g, s, e) ==
  LET corners == Corners(g, s, e)
      upTo[r \in (corners.top - 1) .. corners.bottom] ==
        IF r < corners.top THEN corners ELSE Widen(g, upTo[r - 1], r)
  IN upTo[corners.bottom]

Within(area) == (area.top .. area.bottom) \X (area.left .. area.right)

OriginsIn(g, area) ==
  {c \in Tds(g) : <<Top(g, c), Left(g, c)>> \in Within(area)
                  /\ Get(g, Top(g, c), Left(g, c)) = c}

Holes(g, area) == {p \in Within(area) : Get(g, p[1], p[2]) = NoCell}

Before(p, q) == p[1] < q[1] \/ (p[1] = q[1] /\ p[2] < q[2])

Selected(s, e) == Area(cells, s, e)

(* getSelectedText(): the cells whose text is copied.                      *)
SelectedText ==
  IF NoCell \in {start, end} THEN {} ELSE OriginsIn(cells, Selected(start, end))

-----------------------------------------------------------------------------
(* Faulty: cells that are no longer selected keep their colour.            *)
PaintOnly(s, e) ==
  LET now == OriginsIn(cells, Selected(s, e))
  IN IF NoCell \in {s, e}
     THEN [threw |-> FALSE, selected |-> selected, colored |-> colored]
     ELSE [threw |-> Selected(s, e).failed, selected |-> now,
           colored |-> colored \cup now]

(* updateSelected(): the cells that are new get their colour first; a hole *)
(* in the area ends it there.                                              *)
UpdateSelected(s, e) ==
  LET Throws(painted) ==
        [threw |-> TRUE, selected |-> selected,
         colored |-> colored \cup (painted \ selected)]
      Update(area, now, holes) ==
        IF area.failed THEN Throws({})
        ELSE IF holes # {}
        THEN Throws({c \in now : \A h \in holes :
                       Before(<<Top(cells, c), Left(cells, c)>>, h)})
        ELSE [threw |-> FALSE, selected |-> now,
              colored |-> (colored \cup (now \ selected)) \ (selected \ now)]
  IN IF NoCell \in {s, e}
     THEN [threw |-> FALSE, selected |-> selected, colored |-> colored]
     ELSE Update(Selected(s, e), OriginsIn(cells, Selected(s, e)),
                 Holes(cells, Selected(s, e)))

Select(s, e) ==
  /\ start' = s /\ end' = e
  /\ \E updated \in {UpdateSelected(s, e)} :
       selected' = updated.selected /\ colored' = updated.colored

-----------------------------------------------------------------------------
(* What setup() makes of each layout.                                      *)
Arrays == [l \in Layouts |-> CellsOf(l)]

(* A new instance for a layout; its array may break off.                   *)
GridInit ==
  /\ Init
  /\ layout \in Layouts /\ content = layout.content
  /\ cells = Arrays[layout]
  /\ start = NoCell /\ end = NoCell /\ selected = {} /\ colored = {}
  /\ shiftDown = FALSE
  /\ mouse = NoMouse /\ moved = FALSE /\ timer = "none"

(* The handlers of the mouse and the keys are installed last.              *)
Installed == script = "selectable" /\ ~cells.broken

(* Pressing a button other than the right one on a cell, or on a spacer,   *)
(* which no cell of the script belongs to.                                 *)
MouseDown(c) ==
  /\ Installed
  /\ dragging' = TRUE
  /\ Select(IF shiftDown THEN start ELSE c, c)
  /\ moved' = FALSE
  /\ UNCHANGED <<script, geometry, sizes, body, head, saved, event, ghost,
                 beyond, ghosted, shown, shiftDown, mouse, timer>>

(* Faulty: no timer is started.                                            *)
MouseMoveIdle(c, m) ==
  /\ Installed
  /\ IF dragging /\ c # {} /\ c # {end}
     THEN \E d \in c : Select(start, d) ELSE UNCHANGED selection
  /\ mouse' = m
  /\ moved' = TRUE
  /\ UNCHANGED <<panes, shown, shiftDown, timer>>

(* The pointer moves: c holds the cell below it, or nothing where there is *)
(* no table.  The handler of the cell comes first, then that of the        *)
(* document, which starts the timer.                                       *)
MouseMove(c, m) ==
  /\ Installed
  /\ IF dragging /\ c # {} /\ c # {end}
     THEN \E d \in c : Select(start, d) ELSE UNCHANGED selection
  /\ mouse' = m
  /\ moved' = TRUE
  /\ timer' = IF timer = "none" /\ Outside(m) THEN "queued" ELSE timer
  /\ UNCHANGED <<panes, shown, shiftDown>>

(* Where a cell is shown.                                                  *)
RegionOf(c) ==
  [a \in Axes |->
     IF a = "y" THEN IF c[1] <= layout.fixedRow THEN "head" ELSE "in"
     ELSE IF c[2] <= layout.fixedCol THEN "head" ELSE "in"]

Under(m) ==
  {{}} \cup {{c} : c \in {d \in Tds(cells) : RegionOf(d) = m}}
       \cup IF \A a \in Axes : m[a] \in {"head", "in"} THEN {{NoCell}} ELSE {}

MouseMoves == \E m \in Pointers : \E c \in Under(m) : MouseMove(c, m)

MouseUp ==
  /\ script = "selectable"
  /\ Release
  /\ UNCHANGED own

(* keydown and keyup of the shift key.                                     *)
Shift(down) ==
  /\ Installed
  /\ shiftDown' = down
  /\ UNCHANGED <<panes, shown, selection, pointer>>

-----------------------------------------------------------------------------
(* The timer.                                                              *)

(* The cell at the edge the pointer is beyond: its row first, then, from   *)
(* the cell that gives, its column.                                        *)
EdgeRow(c) ==
  CASE mouse["y"] = "before" -> Get(cells, 0, Left(cells, c))
    [] mouse["y"] = "after" -> Get(cells, cells.rows - 1, Left(cells, c))
    [] OTHER -> c

EdgeCol(c) ==
  CASE mouse["x"] = "before" -> Get(cells, Top(cells, c), 0)
    [] mouse["x"] = "after" -> Get(cells, Top(cells, c), cells.cols - 1)
    [] OTHER -> c

Beyond(a) == mouse[a] \in {"before", "after"}

(* Whether reading the row or the column of end throws.                    *)
Lost ==
  IF end = NoCell THEN \E a \in Axes : Beyond(a)
  ELSE Beyond("x") /\ EdgeRow(end) = NoCell

NewEnd ==
  IF end = NoCell \/ EdgeRow(end) = NoCell THEN NoCell
  ELSE EdgeCol(EdgeRow(end))

(* The body moves towards the pointer, or stays where it is at its end.    *)
Towards ==
  \A a \in Axes :
    CASE mouse[a] \in {"before", "head"} -> body'[a] <= body[a]
      [] mouse[a] = "in" -> body'[a] = body[a]
      [] OTHER -> body'[a] >= body[a]

(* Nothing is being selected, or the pointer is back: the timer stops.     *)
TimerStops ==
  /\ Installed /\ timer = "queued"
  /\ ~dragging \/ ~Outside(mouse)
  /\ timer' = "none"
  /\ UNCHANGED <<panes, shown, selection, shiftDown, mouse, moved>>

(* A step of the callback throws: end is what it was set to by then, the   *)
(* body may have moved, and the variable keeps the number of a timer that  *)
(* is gone.                                                                *)
TimerThrows ==
  /\ Installed /\ timer = "queued" /\ dragging /\ Outside(mouse)
  /\ \/ /\ Lost
        /\ end' = IF end = NoCell \/ ~Beyond("y") THEN end ELSE EdgeRow(end)
        /\ UNCHANGED <<start, selected, colored>>
     \/ /\ ~Lost
        /\ \E e \in {NewEnd} \ {end} :
             UpdateSelected(start, e).threw /\ Select(start, e)
  /\ timer' = "dead"
  /\ body' \in Reachable /\ Towards
  /\ event' = (event \/ body' # body)
  /\ UNCHANGED <<script, geometry, sizes, head, saved, flags, beyond, ghosted,
                 shown, shiftDown, mouse, moved>>

(* The callback scrolls, moves end to the edge and comes again.            *)
TimerScrolls ==
  /\ Installed /\ timer = "queued" /\ dragging /\ Outside(mouse)
  /\ ~Lost
  /\ \E e \in {NewEnd} :
       IF e = end THEN UNCHANGED selection
       ELSE ~UpdateSelected(start, e).threw /\ Select(start, e)
  /\ AutoScroll /\ Towards
  /\ UNCHANGED <<shown, shiftDown, pointer>>

Callback == TimerStops \/ TimerThrows \/ TimerScrolls

-----------------------------------------------------------------------------
(* The steps of the panes.                                                 *)

(* The old instance goes with all its variables; its timer has no effect   *)
(* but the one of GhostScroll.                                             *)
GridRerender ==
  /\ script = "selectable"
  /\ Rerender
  /\ layout' \in Layouts /\ content' = layout'.content
  /\ cells' = Arrays[layout']
  /\ start' = NoCell /\ end' = NoCell /\ selected' = {} /\ colored' = {}
  /\ shiftDown' = FALSE
  /\ mouse' = NoMouse /\ moved' = FALSE /\ timer' = "none"

(* reculcRect(): the pointer may now be on another side of the edges.      *)
GridResize ==
  /\ script = "selectable"
  /\ Resize
  /\ mouse' \in Pointers
  /\ moved' = FALSE
  /\ UNCHANGED <<shown, selection, shiftDown, timer>>

PanesStep ==
  /\ UNCHANGED own
  /\ \/ UserScroll \/ HandleScroll \/ GhostScroll
     \/ /\ script # "selectable"
        /\ \/ Rerender \/ Resize \/ DragScroll \/ RestorePosition
           \/ Press \/ Release

GridNext ==
  \/ \E c \in Tds(cells) \cup {NoCell} : MouseDown(c)
  \/ MouseMoves \/ MouseUp
  \/ \E down \in BOOLEAN : Shift(down)
  \/ Callback
  \/ GridRerender \/ GridResize \/ PanesStep

GridSpec == GridInit /\ [][GridNext]_gridVars

-----------------------------------------------------------------------------
Regular == {l \in Layouts : WellFormed(l)}

(* The array has every cell of the layout where it was put, with its spans.*)
Exact(l, g) ==
  /\ ~g.broken /\ g.rows = l.rows /\ g.cols = l.cols
  /\ Tds(g) = Origins(l)
  /\ \A p \in Origins(l) :
       /\ g.cell[p] = [row |-> p[1] - 1, col |-> p[2] - 1,
                       rowSpan |-> SpanOf(l, p)[1], colSpan |-> SpanOf(l, p)[2]]
       /\ \A q \in Covered(l, p) : Get(g, q[1] - 1, q[2] - 1) = p

Recorded == {l \in Layouts : Exact(l, Arrays[l])}

(* Where no cell spans both ways or crosses the edge of a pane, the script *)
(* finds every cell where the application put it: the frozen rows and      *)
(* columns, which are tables of their own, fit together.                   *)
CellsRecorded == layout \in Regular => layout \in Recorded

Cell(g, c) == (Top(g, c) .. Bottom(g, c)) \X (Left(g, c) .. Right(g, c))
Whole(g, c, area) == Cell(g, c) \subseteq Within(area)

(* A rectangle that cuts no cell.                                          *)
Closed(g, area) ==
  \A c \in Tds(g) :
    Cell(g, c) \cap Within(area) # {} => Whole(g, c, area)

AllAreas(g) ==
  {[top |-> t, bottom |-> b, left |-> l, right |-> r] :
     t, b \in 0 .. (g.rows - 1), l, r \in 0 .. (g.cols - 1)}

Uncut == [l \in Layouts |-> {a \in AllAreas(Arrays[l]) : Closed(Arrays[l], a)}]

Between(g, s, e) ==
  (Min({Top(g, s), Top(g, e)}) .. Max({Top(g, s), Top(g, e)})) \X
  (Min({Left(g, s), Left(g, e)}) .. Max({Left(g, s), Left(g, e)}))

(* The area takes in whole every cell between the two, is within every     *)
(* rectangle around them that cuts no cell, and, with one spanning cell,   *)
(* cuts none itself.                                                       *)
Fits(l, g, s, e, area) ==
  /\ ~area.failed
  /\ \A c \in Tds(g) :
       Cell(g, c) \cap Between(g, s, e) # {} => Whole(g, c, area)
  /\ \A whole \in Uncut[l] :
       Whole(g, s, whole) /\ Whole(g, e, whole)
         => Within(area) \subseteq Within(whole)
  /\ Cardinality(DOMAIN l.span) <= 1 => Closed(g, area)

Fitting ==
  [l \in Layouts |->
     UNION {{p \in Tds(g) \X Tds(g) :
               \E area \in {Area(g, p[1], p[2])} :
                 Fits(l, g, p[1], p[2], area)} : g \in {Arrays[l]}}]

(* A selection takes in whole every cell between its two ends, and nothing *)
(* that a rectangle around them which cuts no cell could leave out.  With  *)
(* one spanning cell it cuts none; with two it can, since the rows it grows*)
(* by are not looked at.                                                   *)
AreaHolds ==
  layout \in Regular /\ NoCell \notin {start, end} =>
    <<start, end>> \in Fitting[layout]

(* What is copied is what is shown as selected, unless the pointer has     *)
(* come to rest on a spacer, or the first end is one.                      *)
CopiesWhatIsShown ==
  layout \in Regular /\ NoCell \notin {start, end} =>
    SelectedText = colored

(* While cells are selected with the pointer outside, a callback is due    *)
(* that scrolls towards it, although the one before has ended because the  *)
(* pointer was inside or the button up; unless one has thrown, which leaves*)
(* the page without any until it is built anew.                            *)
ScrollsWhileOutside ==
  Installed /\ dragging /\ moved /\ Outside(mouse) => timer # "none"
=============================================================================
