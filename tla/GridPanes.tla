----------------------------- MODULE GridPanes -----------------------------
(***************************************************************************)
(* The scroll positions of a grid with frozen rows and columns.            *)
(*                                                                         *)
(* Only the pane at the bottom right, the body, has scroll bars.  The frozen*)
(* row above it follows its horizontal position and the frozen column on   *)
(* its left its vertical one: axis "x" has the body and its row, axis "y"  *)
(* the body and its column, here the head of the axis.  The browser tells  *)
(* the script of a scroll by an event that comes later; the script also    *)
(* moves the body itself, and keeps the position in the document, where an *)
(* instance that replaces this one after an Ajax update finds it.          *)
(*                                                                         *)
(* The three scripts are karatachi-selectablegrid.js, the older            *)
(* karatachi-fixedgrid.js and old-karatachi-grid.js.                       *)
(***************************************************************************)
EXTENDS Integers

CONSTANTS
  Views,      \* sizes the body may have: width and height
  Contents,   \* sizes of what it shows
  Bars,       \* what its scroll bars may take away, 0 without a bar
  Spacer,     \* the play FixedGrid adds at the end of row and column
  NoPosition

Axes == {"x", "y"}
Scripts == {"selectable", "fixed", "old"}
Zero == [a \in Axes |-> 0]

(* FixedGrid.java, lines 149 and 158: "play for scrolling to the end".     *)
ASSUME PlayAssumption ==
  /\ Spacer \in Nat
  /\ \A b \in Bars : b \in [Axes -> 0 .. Spacer]
  /\ \A v \in Views : v \in [Axes -> Nat]
  /\ \A c \in Contents : c \in [Axes -> Nat]
  /\ NoPosition \notin [Axes -> Nat]

VARIABLES
  script,     \* "selectable", "fixed" or "old"
  view,       \* size of the body along each axis
  content,    \* size of what it shows
  bar,        \* what a scroll bar takes away from the view
  align,      \* where the column begins that is shown first
  body,       \* scroll position of the body
  head,       \* scroll position of the frozen row and column
  saved,      \* the position kept in the document
  event,      \* a scroll event of the body has not been handled yet
  dragging,   \* the script's flag: selecting, or dragging the content
  ghost,      \* a replaced instance still has that flag set
  beyond,     \* history: the position to restore was out of reach
  ghosted     \* history: a replaced instance wrote the position

geometry == <<content, align>>
sizes == <<view, bar>>
flags == <<dragging, ghost>>
panes == <<script, geometry, sizes, body, head, saved, event, flags,
           beyond, ghosted>>

Least(m, n) == IF m <= n THEN m ELSE n
Monus(m, n) == IF m >= n THEN m - n ELSE 0

(* The browser keeps a scroll position between 0 and what is out of view:  *)
(* c, b and v are the sizes of content, bar and view.                      *)
BodyMax(c, b, v, a) == Monus(c[a] + b[a], v[a])
HeadMax(c, v, a) == Monus(c[a] + Spacer, v[a])

InBody(p, c, b, v) == [a \in Axes |-> Least(p[a], BodyMax(c, b, v, a))]
InHead(p, c, v) == [a \in Axes |-> Least(p[a], HeadMax(c, v, a))]

Reachable ==
  LET Max(a) == BodyMax(content, bar, view, a) IN
  {p \in [Axes -> 0 .. (Max("x") + Max("y"))] : \A a \in Axes : p[a] <= Max(a)}

TypeOK ==
  /\ script \in Scripts
  /\ view \in Views /\ content \in Contents
  /\ bar \in Bars /\ align \in Nat
  /\ body \in [Axes -> Nat] /\ head \in [Axes -> Nat]
  /\ saved \in [Axes -> Nat] \cup {NoPosition}
  /\ {event, dragging, ghost, beyond, ghosted} \subseteq BOOLEAN

(* restoreScroll(): the position in the document; without one the older    *)
(* script leaves the grid alone, the others bring the column "align" into  *)
(* view.  old-karatachi-grid.js does so always.                            *)
Starting(al, b, v) ==
  IF saved # NoPosition /\ script # "old" THEN saved
  ELSE IF script = "fixed" THEN Zero
  ELSE [a \in Axes |-> IF a = "x" THEN Monus(al + b["x"], v["x"]) ELSE 0]

(* A new instance: its panes are at 0, and all of them are set to the same *)
(* position, as far as each of them goes.                                  *)
Init ==
  /\ script \in Scripts
  /\ view \in Views /\ bar \in Bars
  /\ content \in Contents /\ align \in 0 .. content["x"]
  /\ saved = NoPosition
  /\ LET p == Starting(align, bar, view) IN
       /\ body = InBody(p, content, bar, view)
       /\ head = InHead(p, content, view)
       /\ event = (body # Zero)
       /\ beyond = (body = Zero /\ p # Zero)
  /\ dragging = FALSE /\ ghost = FALSE /\ ghosted = FALSE

(* An Ajax update replaces the grid, perhaps by one of another size.  The  *)
(* body tells of its new position only when that is not 0.  The handlers   *)
(* the old instance has put on the document stay.                          *)
Rerender ==
  /\ content' \in Contents /\ align' \in 0 .. content'["x"]
  /\ bar' \in Bars
  /\ UNCHANGED <<script, view, saved, ghosted>>
  /\ LET p == Starting(align', bar', view) IN
       /\ body' = InBody(p, content', bar', view)
       /\ head' = InHead(p, content', view)
       /\ event' = (body' # Zero)
       /\ beyond' = (body' = Zero /\ p # Zero)
  /\ ghost' = (ghost \/ dragging)
  /\ dragging' = FALSE

-----------------------------------------------------------------------------
(* Faulty: the row follows, the column does not.                           *)
UpdateScrollRow ==
  /\ head' = [head EXCEPT !["x"] = Least(body'["x"],
                                         HeadMax(content, view, "x"))]
  /\ saved' = IF script = "old" THEN saved ELSE body'
  /\ beyond' = FALSE /\ ghosted' = FALSE

(* Faulty: the vertical position is kept the first time only.              *)
UpdateScrollKeepX ==
  /\ head' = InHead(body', content, view)
  /\ saved' = IF script = "old" THEN saved
              ELSE [body' EXCEPT !["y"] = IF saved = NoPosition THEN @
                                          ELSE saved["y"]]
  /\ beyond' = FALSE /\ ghosted' = FALSE

(* updateScroll(): frozen row and column follow, the position is kept.     *)
UpdateScroll ==
  /\ head' = InHead(body', content, view)
  /\ saved' = IF script = "old" THEN saved ELSE body'
  /\ beyond' = FALSE /\ ghosted' = FALSE

(* The user scrolls the body.                                              *)
UserScroll ==
  /\ body' \in Reachable \ {body}
  /\ event' = TRUE
  /\ UNCHANGED <<script, geometry, sizes, head, saved, flags, beyond,
                 ghosted>>

(* br.scroll(updateScroll)                                                 *)
HandleScroll ==
  /\ event
  /\ event' = FALSE
  /\ UNCHANGED body
  /\ UpdateScroll
  /\ UNCHANGED <<script, geometry, sizes, flags>>

(* resizeGrid(): the panes get another size, the browser moves those that  *)
(* were scrolled too far.                                                  *)
Resize ==
  /\ view' \in Views /\ bar' \in Bars
  /\ sizes' # sizes
  /\ body' = InBody(body, content, bar', view')
  /\ head' = InHead(head, content, view')
  /\ event' = (event \/ body' # body)
  /\ UNCHANGED <<script, geometry, saved, flags, beyond, ghosted>>

(* The script moves the body and brings the others along at once; the event*)
(* comes none the less.                                                    *)
MoveBody ==
  /\ body' \in Reachable
  /\ UpdateScroll
  /\ event' = (event \/ body' # body)
  /\ UNCHANGED <<script, geometry, sizes, flags>>

(* The timer of karatachi-selectablegrid.js, the pointer being outside.    *)
AutoScroll == script = "selectable" /\ dragging /\ MoveBody

(* The pointer moves: the content is dragged along.                        *)
DragScroll == script # "selectable" /\ dragging /\ MoveBody

(* restoreScroll(pos) of old-karatachi-grid.js, called by the page.        *)
RestorePosition == script = "old" /\ MoveBody

Press ==
  /\ dragging' = TRUE
  /\ UNCHANGED <<script, geometry, sizes, body, head, saved, event, ghost,
                 beyond, ghosted>>

(* Every instance, replaced or not, hears of it on the document.           *)
Release ==
  /\ dragging' = FALSE /\ ghost' = FALSE
  /\ UNCHANGED <<script, geometry, sizes, body, head, saved, event, beyond,
                 ghosted>>

(* A replaced instance that is still selecting scrolls on: its own body has*)
(* no extent any more, and that is the position it keeps in the document.  *)
GhostScroll ==
  /\ ghost /\ script # "old"
  /\ saved' = Zero
  /\ ghosted' = TRUE
  /\ UNCHANGED <<script, geometry, sizes, body, head, event, flags, beyond>>

Next ==
  \/ Rerender \/ UserScroll \/ HandleScroll \/ Resize
  \/ AutoScroll \/ DragScroll \/ RestorePosition
  \/ Press \/ Release \/ GhostScroll

Spec == Init /\ [][Next]_panes

-----------------------------------------------------------------------------
(* Once the event of a scroll has been handled, the frozen row and column  *)
(* stand where the body stands, unless a new instance was to restore a     *)
(* position when its body could not be scrolled at all: no event comes     *)
(* then, while the frozen panes may go as far as their play.               *)
HeadsFollow == ~event /\ ~beyond => head = body

(* An Ajax update that changes no size leaves the grid where it was, unless*)
(* it has never been scrolled, a replaced instance has written over the    *)
(* position, or the position could not be restored.                        *)
KeepsPosition ==
  [][script # "old" /\ ~event /\ saved # NoPosition /\ ~ghosted /\ ~beyond
       /\ UNCHANGED <<content, bar>> /\ Rerender => body' = body]_panes
=============================================================================
