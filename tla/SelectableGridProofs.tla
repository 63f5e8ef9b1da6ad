------------------------ MODULE SelectableGridProofs ------------------------
(***************************************************************************)
(* Proofs about GridPanes and SelectableGrid.  First: whatever the sizes   *)
(* of grid, window and scroll bars, the frozen row and column follow the   *)
(* body, and an Ajax update leaves the grid where it was.  What the mouse  *)
(* and the timer do to the panes is a scroll of the user or one of         *)
(* updateScroll(), so that this holds of the whole script.  And the timer  *)
(* is there while the pointer is outside.  Then: whatever the layout of    *)
(* the cells, the rows the server renders and the array the script makes   *)
(* of them have every cell where the application put it, a selection takes *)
(* in whole every cell between its two ends and nothing that a rectangle   *)
(* which cuts no cell leaves out, and what is copied is what is shown as   *)
(* selected.                                                               *)
(***************************************************************************)
EXTENDS SelectableGrid, FiniteSetTheorems, WellFoundedInduction, TLAPS

(* The body is where the browser lets it be.                               *)
BodyBound == \A a \in Axes : body[a] <= BodyMax(content, bar, view, a)

(* The document knows the position of a grid that is at rest.              *)
SavedIsShown ==
  saved # NoPosition /\ ~event /\ ~ghosted /\ ~beyond /\ script # "old"
    => body = saved

IInv == TypeOK /\ BodyBound /\ HeadsFollow /\ SavedIsShown

-----------------------------------------------------------------------------
(* What the browser makes of a position is a position within bounds.       *)
LEMMA InBodyType ==
  ASSUME NEW p \in [Axes -> Nat], NEW c \in Contents, NEW b \in Bars,
         NEW v \in Views
  PROVE  /\ InBody(p, c, b, v) \in [Axes -> Nat]
         /\ \A a \in Axes : InBody(p, c, b, v)[a] <= BodyMax(c, b, v, a)
  BY PlayAssumption DEF InBody, BodyMax, Least, Monus

LEMMA InHeadType ==
  ASSUME NEW p \in [Axes -> Nat], NEW c \in Contents, NEW v \in Views
  PROVE  InHead(p, c, v) \in [Axes -> Nat]
  BY PlayAssumption DEF InHead, HeadMax, Least, Monus

(* A position the body can be at is left alone, by the body and, because   *)
(* of the spacer, by the frozen panes.                                     *)
LEMMA InBounds ==
  ASSUME NEW p \in [Axes -> Nat], NEW c \in Contents, NEW b \in Bars,
         NEW v \in Views,
         \A a \in Axes : p[a] <= BodyMax(c, b, v, a)
  PROVE  InBody(p, c, b, v) = p /\ InHead(p, c, v) = p
<1>1. \A a \in Axes : BodyMax(c, b, v, a) <= HeadMax(c, v, a)
  BY PlayAssumption DEF BodyMax, HeadMax, Monus
<1>2. \A a \in Axes : /\ Least(p[a], BodyMax(c, b, v, a)) = p[a]
                      /\ Least(p[a], HeadMax(c, v, a)) = p[a]
  BY <1>1, PlayAssumption DEF BodyMax, HeadMax, Monus, Least
<1>3. QED BY <1>2 DEF InBody, InHead

(* The top left corner stays where it is.                                  *)
LEMMA InZero ==
  ASSUME NEW c \in Contents, NEW b \in Bars, NEW v \in Views
  PROVE  InBody(Zero, c, b, v) = Zero /\ InHead(Zero, c, v) = Zero
<1>1. Zero \in [Axes -> Nat] BY DEF Zero
<1>2. \A a \in Axes : Zero[a] <= BodyMax(c, b, v, a)
  BY PlayAssumption DEF Zero, BodyMax, Monus
<1>3. QED BY <1>1, <1>2, InBounds

LEMMA StartingType ==
  ASSUME saved \in [Axes -> Nat] \cup {NoPosition},
         NEW al \in Nat, NEW b \in Bars, NEW v \in Views
  PROVE  Starting(al, b, v) \in [Axes -> Nat]
  BY PlayAssumption DEF Starting, Zero, Monus

LEMMA ReachableType ==
  ASSUME TypeOK, NEW p \in Reachable
  PROVE  /\ p \in [Axes -> Nat]
         /\ \A a \in Axes : p[a] <= BodyMax(content, bar, view, a)
<1>1. \A a \in Axes : BodyMax(content, bar, view, a) \in Nat
  BY PlayAssumption DEF TypeOK, BodyMax, Monus
<1>2. BodyMax(content, bar, view, "x")
        + BodyMax(content, bar, view, "y") \in Nat
  BY <1>1 DEF Axes
<1>3. QED BY <1>2 DEF Reachable

-----------------------------------------------------------------------------
(* A grid that has just been built.                                        *)
LEMMA Built ==
  ASSUME NEW p \in [Axes -> Nat], NEW c \in Contents, NEW b \in Bars,
         NEW v \in Views
  PROVE  /\ InBody(p, c, b, v) \in [Axes -> Nat]
         /\ InHead(p, c, v) \in [Axes -> Nat]
         /\ \A a \in Axes : InBody(p, c, b, v)[a] <= BodyMax(c, b, v, a)
         /\ InBody(p, c, b, v) = Zero /\ p = Zero
              => InHead(p, c, v) = InBody(p, c, b, v)
  BY InBodyType, InHeadType, InZero

LEMMA InitInv == Init => IInv
<1>1. SUFFICES ASSUME Init PROVE IInv OBVIOUS
<1>2. /\ script \in Scripts /\ view \in Views /\ bar \in Bars
      /\ content \in Contents /\ align \in 0 .. content["x"]
      /\ saved = NoPosition
      /\ {event, dragging, ghost, beyond, ghosted} \subseteq BOOLEAN
  BY <1>1 DEF Init
<1>3. align \in Nat
  BY <1>2, PlayAssumption
<1> DEFINE p == Starting(align, bar, view)
<1>4. p \in [Axes -> Nat]
  BY <1>2, <1>3, StartingType
<1>5. /\ body = InBody(p, content, bar, view)
      /\ head = InHead(p, content, view)
      /\ event = (body # Zero)
      /\ beyond = (body = Zero /\ p # Zero)
  BY <1>1 DEF Init
<1> HIDE DEF p
<1>6. TypeOK
  BY <1>2, <1>3, <1>4, <1>5, Built DEF TypeOK
<1>7. BodyBound
  BY <1>2, <1>4, <1>5, Built DEF BodyBound
<1>8. HeadsFollow
  BY <1>2, <1>4, <1>5, Built DEF HeadsFollow
<1>9. SavedIsShown
  BY <1>2 DEF SavedIsShown
<1>10. QED BY <1>6, <1>7, <1>8, <1>9 DEF IInv

-----------------------------------------------------------------------------
(* The steps that change what there is to scroll, or how far.              *)
LEMMA RerenderInv ==
  ASSUME IInv, Rerender
  PROVE  IInv'
<1>1. TypeOK BY DEF IInv
<1>2. /\ script' = script /\ view' = view /\ saved' = saved
      /\ ghosted' = ghosted
      /\ content' \in Contents /\ align' \in 0 .. content'["x"]
      /\ bar' \in Bars
  BY DEF Rerender
<1>3. align' \in Nat
  BY <1>2, PlayAssumption
<1> DEFINE p == Starting(align', bar', view)
<1>4. p \in [Axes -> Nat]
  BY <1>1, <1>2, <1>3, StartingType DEF TypeOK
<1>5. /\ body' = InBody(p, content', bar', view')
      /\ head' = InHead(p, content', view')
      /\ event' = (body' # Zero)
      /\ beyond' = (body' = Zero /\ p # Zero)
  BY <1>2 DEF Rerender
<1>6. saved # NoPosition /\ script # "old" => p = saved
  BY DEF Starting
<1>7. ghost' \in BOOLEAN /\ dragging' \in BOOLEAN
  BY DEF Rerender
<1>8. view' \in Views
  BY <1>1, <1>2 DEF TypeOK
<1> HIDE DEF p
<1>9. TypeOK'
  BY <1>1, <1>2, <1>3, <1>4, <1>5, <1>7, <1>8, Built DEF TypeOK
<1>10. BodyBound'
  BY <1>2, <1>4, <1>5, <1>8, Built DEF BodyBound
<1>11. HeadsFollow'
  BY <1>2, <1>4, <1>5, <1>8, Built DEF HeadsFollow
<1>12. SavedIsShown'
  BY <1>2, <1>5, <1>6 DEF SavedIsShown
<1>13. QED BY <1>9, <1>10, <1>11, <1>12 DEF IInv

LEMMA ResizeInv ==
  ASSUME IInv, Resize
  PROVE  IInv'
<1>1. TypeOK /\ BodyBound /\ HeadsFollow /\ SavedIsShown BY DEF IInv
<1>2. /\ UNCHANGED <<script, content, align, saved, dragging, ghost>>
      /\ UNCHANGED <<beyond, ghosted>>
      /\ view' \in Views /\ bar' \in Bars
      /\ body' = InBody(body, content, bar', view')
      /\ head' = InHead(head, content, view')
      /\ event' = (event \/ body' # body)
  BY DEF Resize, geometry, flags
<1>3. /\ body' \in [Axes -> Nat] /\ head' \in [Axes -> Nat]
      /\ \A a \in Axes : body'[a] <= BodyMax(content, bar', view', a)
  BY <1>1, <1>2, InBodyType, InHeadType DEF TypeOK
<1>4. TypeOK'
  BY <1>1, <1>2, <1>3 DEF TypeOK
<1>5. BodyBound'
  BY <1>2, <1>3 DEF BodyBound
<1>6. HeadsFollow'
  <2>1. SUFFICES ASSUME ~event', ~beyond' PROVE head' = body'
    BY DEF HeadsFollow
  <2>2. body' = body /\ head = body
    BY <1>1, <1>2, <2>1 DEF HeadsFollow
  <2>3. InHead(body, content, view') = body
    BY <1>1, <1>2, <1>3, <2>2, InBounds DEF TypeOK
  <2>4. QED BY <1>2, <2>2, <2>3
<1>7. SavedIsShown'
  BY <1>1, <1>2 DEF SavedIsShown
<1>8. QED BY <1>4, <1>5, <1>6, <1>7 DEF IInv

-----------------------------------------------------------------------------
(* updateScroll(), wherever the body is.                                   *)
LEMMA UpdateScrollInv ==
  ASSUME IInv, UpdateScroll, body' \in Reachable, event' \in BOOLEAN,
         UNCHANGED <<script, geometry, sizes, flags>>
  PROVE  IInv'
<1>1. TypeOK BY DEF IInv
<1>2. /\ UNCHANGED <<script, content, align, view, bar, dragging, ghost>>
      /\ head' = InHead(body', content, view)
      /\ saved' = IF script = "old" THEN saved ELSE body'
      /\ beyond' = FALSE /\ ghosted' = FALSE
  BY DEF UpdateScroll, geometry, sizes, flags
<1>3. /\ body' \in [Axes -> Nat]
      /\ \A a \in Axes : body'[a] <= BodyMax(content, bar, view, a)
  BY <1>1, ReachableType
<1>4. head' = body'
  BY <1>1, <1>2, <1>3, InBounds DEF TypeOK
<1>5. TypeOK'
  BY <1>1, <1>2, <1>3, <1>4 DEF TypeOK
<1>6. BodyBound'
  BY <1>2, <1>3 DEF BodyBound
<1>7. HeadsFollow' /\ SavedIsShown'
  BY <1>2, <1>4 DEF HeadsFollow, SavedIsShown
<1>8. QED BY <1>5, <1>6, <1>7 DEF IInv

LEMMA HandleScrollInv ==
  ASSUME IInv, HandleScroll
  PROVE  IInv'
<1>1. body \in [Axes -> Nat]
      /\ \A a \in Axes : body[a] <= BodyMax(content, bar, view, a)
  BY DEF IInv, TypeOK, BodyBound
<1>2. \A a \in Axes : BodyMax(content, bar, view, a) \in Nat
  BY PlayAssumption DEF IInv, TypeOK, BodyMax, Monus
<1>3. body' \in Reachable
  <2>1. BodyMax(content, bar, view, "x") \in Nat
        /\ BodyMax(content, bar, view, "y") \in Nat
    BY <1>2 DEF Axes
  <2>2. \A a \in Axes :
          body[a] \in 0 .. (BodyMax(content, bar, view, "x")
                             + BodyMax(content, bar, view, "y"))
    BY <1>1, <2>1 DEF Axes
  <2>3. body' = body BY DEF HandleScroll
  <2>4. QED BY <1>1, <2>2, <2>3 DEF Reachable
<1>4. QED BY <1>3, UpdateScrollInv DEF HandleScroll

LEMMA MoveBodyInv ==
  ASSUME IInv, MoveBody
  PROVE  IInv'
<1>1. event' \in BOOLEAN BY DEF MoveBody
<1>2. QED BY <1>1, UpdateScrollInv DEF MoveBody

(* The steps that move the body only, or nothing at all.                   *)
LEMMA UserScrollInv ==
  ASSUME IInv, UserScroll
  PROVE  IInv'
<1>1. TypeOK BY DEF IInv
<1>2. /\ UNCHANGED <<script, content, align, view, bar, dragging, ghost>>
      /\ UNCHANGED <<head, saved, beyond, ghosted>>
      /\ event' = TRUE /\ body' \in Reachable
  BY DEF UserScroll, geometry, sizes, flags
<1>3. /\ body' \in [Axes -> Nat]
      /\ \A a \in Axes : body'[a] <= BodyMax(content, bar, view, a)
  BY <1>1, <1>2, ReachableType
<1>4. TypeOK'
  BY <1>1, <1>2, <1>3 DEF TypeOK
<1>5. BodyBound' /\ HeadsFollow' /\ SavedIsShown'
  BY <1>2, <1>3 DEF BodyBound, HeadsFollow, SavedIsShown
<1>6. QED BY <1>4, <1>5 DEF IInv

LEMMA ButtonInv ==
  ASSUME IInv, Press \/ Release \/ UNCHANGED panes
  PROVE  IInv'
<1>1. /\ UNCHANGED <<script, content, align, view, bar, body, head, saved>>
      /\ UNCHANGED <<event, beyond, ghosted>>
      /\ {dragging', ghost'} \subseteq BOOLEAN
  BY DEF IInv, TypeOK, Press, Release, panes, geometry, sizes, flags
<1>2. QED
  BY <1>1 DEF IInv, TypeOK, BodyBound, HeadsFollow, SavedIsShown

LEMMA GhostScrollInv ==
  ASSUME IInv, GhostScroll
  PROVE  IInv'
<1>1. /\ UNCHANGED <<script, content, align, view, bar, body, head, event>>
      /\ UNCHANGED <<dragging, ghost, beyond>>
      /\ saved' = Zero /\ ghosted' = TRUE
  BY DEF GhostScroll, geometry, sizes, flags
<1>2. Zero \in [Axes -> Nat] BY DEF Zero
<1>3. QED
  BY <1>1, <1>2 DEF IInv, TypeOK, BodyBound, HeadsFollow, SavedIsShown

LEMMA NextInv == IInv /\ [Next]_panes => IInv'
<1>1. SUFFICES ASSUME IInv, [Next]_panes PROVE IInv' OBVIOUS
<1>2. CASE Rerender BY <1>1, <1>2, RerenderInv
<1>3. CASE UserScroll BY <1>1, <1>3, UserScrollInv
<1>4. CASE HandleScroll BY <1>1, <1>4, HandleScrollInv
<1>5. CASE Resize BY <1>1, <1>5, ResizeInv
<1>6. CASE AutoScroll \/ DragScroll \/ RestorePosition
  BY <1>1, <1>6, MoveBodyInv DEF AutoScroll, DragScroll, RestorePosition
<1>7. CASE Press \/ Release \/ UNCHANGED panes BY <1>1, <1>7, ButtonInv
<1>8. CASE GhostScroll BY <1>1, <1>8, GhostScrollInv
<1>9. QED BY <1>1, <1>2, <1>3, <1>4, <1>5, <1>6, <1>7, <1>8 DEF Next

-----------------------------------------------------------------------------
(* The inductive invariant holds in every behaviour of the panes.          *)
THEOREM PanesInvariant == Spec => []IInv
<1>1. QED BY InitInv, NextInv, PTL DEF Spec

(* Types of the panes, for all sizes.                                      *)
THEOREM TypeCorrect == Spec => []TypeOK
<1>1. IInv => TypeOK BY DEF IInv
<1>2. QED BY <1>1, PanesInvariant, PTL

(* The frozen row and column stand where the body stands (updateScroll()   *)
(* and restoreScroll() of the three scripts), for all sizes and for every  *)
(* spacer at least as wide as a scroll bar.                                *)
THEOREM HeadsFollowCorrect == Spec => []HeadsFollow
<1>1. IInv => HeadsFollow BY DEF IInv
<1>2. QED BY <1>1, PanesInvariant, PTL

(* An Ajax update that changes no size leaves the grid where it was.       *)
LEMMA RerenderKeeps ==
  ASSUME IInv, Rerender, UNCHANGED <<content, bar>>, script # "old", ~event,
         saved # NoPosition, ~ghosted, ~beyond
  PROVE  body' = body
<1>1. body = saved
  BY DEF IInv, SavedIsShown
<1>2. Starting(align', bar', view) = saved
  BY DEF Starting
<1>3. body' = InBody(saved, content, bar, view)
  BY <1>2 DEF Rerender
<1>4. InBody(body, content, bar, view) = body
  BY InBounds DEF IInv, TypeOK, BodyBound
<1>5. QED BY <1>1, <1>3, <1>4

THEOREM KeepsPositionCorrect == Spec => KeepsPosition
<1>1. IInv /\ [Next]_panes =>
        [Rerender /\ UNCHANGED <<content, bar>> /\ script # "old" /\ ~event
           /\ saved # NoPosition /\ ~ghosted /\ ~beyond => body' = body]_panes
  BY RerenderKeeps
<1>2. QED BY <1>1, PanesInvariant, PTL DEF Spec, KeepsPosition

-----------------------------------------------------------------------------
(* The handlers of the mouse and the keys.                                 *)
LEMMA HandlersRefine ==
  ASSUME NEW c, NEW m, NEW down,
         \/ MouseDown(c) \/ MouseMove(c, m) \/ MouseUp \/ Shift(down)
         \/ TimerStops
  PROVE  [Next]_panes
<1>1. CASE MouseDown(c)
  <2>1. Press BY <1>1 DEF MouseDown, Press
  <2>2. QED BY <2>1 DEF Next
<1>2. CASE MouseMove(c, m) \/ Shift(down) \/ TimerStops
  BY <1>2 DEF MouseMove, Shift, TimerStops
<1>3. CASE MouseUp
  BY <1>3 DEF MouseUp, Next
<1>4. QED BY <1>1, <1>2, <1>3

(* A callback that throws has moved the body, of which the event tells, or *)
(* nothing of the panes.                                                   *)
LEMMA TimerThrowsRefines ==
  ASSUME event \in BOOLEAN, TimerThrows
  PROVE  [Next]_panes
<1>1. /\ UNCHANGED <<script, geometry, sizes, head, saved, flags, beyond>>
      /\ UNCHANGED ghosted
      /\ body' \in Reachable
      /\ event' = (event \/ body' # body)
  BY DEF TimerThrows
<1>2. CASE body' = body /\ event' = event
  BY <1>1, <1>2 DEF panes
<1>3. CASE body' # body
  <2>1. UserScroll BY <1>1, <1>3 DEF UserScroll
  <2>2. QED BY <2>1 DEF Next
<1>4. CASE body' = body /\ event' # event
  BY <1>1, <1>4
<1>5. QED BY <1>2, <1>3, <1>4

LEMMA OthersRefine ==
  ASSUME TimerScrolls \/ GridRerender \/ GridResize \/ PanesStep
  PROVE  [Next]_panes
<1>1. CASE TimerScrolls BY <1>1 DEF TimerScrolls, Next
<1>2. CASE GridRerender BY <1>2 DEF GridRerender, Next
<1>3. CASE GridResize BY <1>3 DEF GridResize, Next
<1>4. CASE PanesStep BY <1>4 DEF PanesStep, Next
<1>5. QED BY <1>1, <1>2, <1>3, <1>4

LEMMA StepRefines == IInv /\ [GridNext]_gridVars => [Next]_panes
<1>1. SUFFICES ASSUME event \in BOOLEAN, [GridNext]_gridVars
               PROVE  [Next]_panes
  BY DEF IInv, TypeOK
<1>2. CASE \E c \in Tds(cells) \cup {NoCell} : MouseDown(c)
  BY <1>2, HandlersRefine
<1>3. CASE MouseMoves
  BY <1>3, HandlersRefine DEF MouseMoves
<1>4. CASE MouseUp \/ (\E down \in BOOLEAN : Shift(down)) \/ TimerStops
  BY <1>4, HandlersRefine
<1>5. CASE TimerThrows
  BY <1>1, <1>5, TimerThrowsRefines
<1>6. CASE TimerScrolls \/ GridRerender \/ GridResize \/ PanesStep
  BY <1>6, OthersRefine
<1>7. CASE UNCHANGED gridVars
  BY <1>7 DEF gridVars
<1>8. QED
  BY <1>1, <1>2, <1>3, <1>4, <1>5, <1>6, <1>7 DEF GridNext, Callback

(* karatachi-selectablegrid.js does to the panes nothing that GridPanes    *)
(* does not allow, whatever the layouts and wherever the pointer is.       *)
THEOREM GridImplementsPanes == GridSpec => Spec
<1>1. GridInit => Init BY DEF GridInit
<1>2. IInv /\ [GridNext]_gridVars => IInv' BY StepRefines, NextInv
<1>3. QED BY <1>1, <1>2, InitInv, StepRefines, PTL DEF GridSpec, Spec

(* The frozen row and column follow the body, also while cells are selected*)
(* and the timer scrolls.                                                  *)
THEOREM GridHeadsFollow == GridSpec => []HeadsFollow
<1>1. QED BY GridImplementsPanes, HeadsFollowCorrect, PTL

(* The position of the body survives an Ajax update, also while cells are  *)
(* selected and the timer scrolls.                                         *)
THEOREM GridKeepsPosition == GridSpec => KeepsPosition
<1>1. QED BY GridImplementsPanes, KeepsPositionCorrect

-----------------------------------------------------------------------------
(* The timer.                                                              *)

LEMMA TimerInit == GridInit => ScrollsWhileOutside
  BY DEF GridInit, ScrollsWhileOutside

(* The handlers: the button or the state of the timer is theirs to change. *)
LEMMA TimerHandlers ==
  ASSUME ScrollsWhileOutside, NEW c, NEW m, NEW down,
         \/ MouseDown(c) \/ MouseMove(c, m) \/ MouseUp \/ Shift(down)
         \/ Callback
  PROVE  ScrollsWhileOutside'
<1>1. CASE MouseDown(c)
  BY <1>1 DEF MouseDown, ScrollsWhileOutside
<1>2. CASE MouseMove(c, m)
  <2>1. /\ UNCHANGED cells /\ UNCHANGED script /\ UNCHANGED dragging
        /\ mouse' = m
        /\ timer' = IF timer = "none" /\ Outside(m) THEN "queued" ELSE timer
    BY <1>2 DEF MouseMove, panes, flags, shown
  <2>2. QED BY <2>1 DEF ScrollsWhileOutside
<1>3. CASE MouseUp
  BY <1>3 DEF MouseUp, Release, ScrollsWhileOutside
<1>4. CASE Shift(down) \/ TimerScrolls
  <2>1. UNCHANGED <<script, dragging, cells, pointer>>
    BY <1>4 DEF Shift, TimerScrolls, AutoScroll, MoveBody, panes, flags, shown
  <2>2. QED
    BY <2>1 DEF ScrollsWhileOutside, Installed, Outside, pointer
<1>5. CASE TimerStops
  <2>1. /\ ~dragging \/ ~Outside(mouse)
        /\ UNCHANGED <<dragging, mouse>>
    BY <1>5 DEF TimerStops, panes, flags
  <2>2. QED BY <2>1 DEF ScrollsWhileOutside, Outside
<1>6. CASE TimerThrows
  BY <1>6 DEF TimerThrows, ScrollsWhileOutside
<1>7. QED BY <1>1, <1>2, <1>3, <1>4, <1>5, <1>6 DEF Callback

(* A new instance, a resized window, and the steps of the panes: where     *)
(* these press the button, the script is another.                          *)
LEMMA TimerOthers ==
  ASSUME ScrollsWhileOutside,
         GridRerender \/ GridResize \/ PanesStep \/ UNCHANGED gridVars
  PROVE  ScrollsWhileOutside'
<1>1. CASE GridRerender \/ GridResize
  BY <1>1 DEF GridRerender, GridResize, ScrollsWhileOutside
<1>2. CASE PanesStep /\ script # "selectable"
  <2>1. UNCHANGED script
    BY <1>2 DEF PanesStep, UserScroll, HandleScroll, GhostScroll, Rerender,
       Resize, DragScroll, RestorePosition, MoveBody, Press, Release
  <2>2. QED BY <1>2, <2>1 DEF ScrollsWhileOutside, Installed
<1>3. CASE (PanesStep /\ script = "selectable") \/ UNCHANGED gridVars
  <2>1. UNCHANGED <<script, dragging, own>>
    BY <1>3 DEF PanesStep, UserScroll, HandleScroll, GhostScroll, flags,
       gridVars, panes
  <2>2. QED
    BY <2>1 DEF ScrollsWhileOutside, Installed, Outside, own, shown, pointer
<1>4. QED BY <1>1, <1>2, <1>3

(* While cells are selected with the pointer outside, a callback is due or *)
(* one has thrown (the handlers of the mouse and setScrollTimer() of       *)
(* karatachi-selectablegrid.js), for all layouts and sizes.                *)
THEOREM ScrollsWhileOutsideCorrect == GridSpec => []ScrollsWhileOutside
<1>1. ScrollsWhileOutside /\ [GridNext]_gridVars => ScrollsWhileOutside'
  <2>1. SUFFICES ASSUME ScrollsWhileOutside, [GridNext]_gridVars
                 PROVE  ScrollsWhileOutside'
    OBVIOUS
  <2>2. CASE GridNext
    BY <2>1, <2>2, TimerHandlers, TimerOthers DEF GridNext, MouseMoves
  <2>3. CASE UNCHANGED gridVars
    BY <2>1, <2>3, TimerOthers
  <2>4. QED BY <2>1, <2>2, <2>3
<1>2. QED BY <1>1, TimerInit, PTL DEF GridSpec

-----------------------------------------------------------------------------
(* Induction, as a fact about sets.                                        *)
LEMMA HasLeast ==
  ASSUME NEW S \in SUBSET Nat, S # {}
  PROVE  \E m \in S : \A j \in S : m <= j
<1>1. PICK i \in S : \A j \in S : ~(<<j, i>> \in OpToRel(<, Nat))
  BY NatLessThanWellFounded, WFMin
<1>2. \A j \in S : ~(j < i)
  BY <1>1 DEF OpToRel
<1>3. \A j \in S : i <= j
  BY <1>2
<1>4. QED BY <1>3

(* Induction over the numbers, with the set of those it holds of.          *)
LEMMA Every ==
  ASSUME NEW S, 0 \in S, \A n \in Nat : n \in S => n + 1 \in S
  PROVE  \A n \in Nat : n \in S
<1> DEFINE T == {n \in Nat : n \notin S}
<1>1. SUFFICES ASSUME T # {} PROVE FALSE
  OBVIOUS
<1>2. PICK m \in T : \A j \in T : m <= j
  <2>1. T \in SUBSET Nat
    OBVIOUS
  <2> HIDE DEF T
  <2>2. QED BY <1>1, <2>1, HasLeast
<1>3. m \in Nat /\ m # 0
  OBVIOUS
<1>4. m - 1 \in Nat /\ ~(m <= m - 1) /\ m - 1 + 1 = m
  BY <1>3
<1>5. m - 1 \in S
  BY <1>2, <1>4
<1>6. m \in S
  BY <1>4, <1>5
<1>7. QED BY <1>6

(* A set of numbers that is bounded has a greatest one.                    *)
LEMMA HasGreatest ==
  ASSUME NEW S \in SUBSET Nat, S # {}, NEW n \in Nat, \A j \in S : j <= n
  PROVE  \E m \in S : \A j \in S : j <= m
<1> DEFINE T == {i \in Nat : \A j \in S : j <= i}
<1>1. n \in T /\ T \in SUBSET Nat
  OBVIOUS
<1>2. PICK m \in T : \A i \in T : m <= i
  <2> HIDE DEF T
  <2>1. QED BY <1>1, HasLeast
<1>3. m \in Nat /\ \A j \in S : j \in Nat /\ j <= m
  OBVIOUS
<1>4. m \in S
  <2>1. SUFFICES ASSUME m \notin S PROVE FALSE
    OBVIOUS
  <2>2. \A j \in S : j # m
    BY <2>1
  <2>3. PICK j \in S : TRUE
    OBVIOUS
  <2>4. m - 1 \in Nat
    BY <1>3, <2>2, <2>3
  <2>5. \A i \in S : i <= m - 1
    BY <1>3, <2>2
  <2>6. m - 1 \in T /\ ~(m <= m - 1)
    BY <1>3, <2>4, <2>5
  <2>7. QED BY <1>2, <2>6
<1>5. QED BY <1>3, <1>4

(* Min of the community modules is the least.                              *)
LEMMA MinIs ==
  ASSUME NEW S \in SUBSET Nat, S # {}
  PROVE  Min(S) \in S /\ \A j \in S : Min(S) <= j
BY HasLeast DEF Min

(* Max of the community modules is the greatest.                           *)
LEMMA MaxIs ==
  ASSUME NEW S \in SUBSET Nat, S # {}, NEW n \in Nat, \A j \in S : j <= n
  PROVE  Max(S) \in S /\ \A j \in S : j <= Max(S)
<1>1. \E m \in S : \A j \in S : j <= m
  BY HasGreatest
<1>2. \E m \in S : \A j \in S : m >= j
  BY <1>1
<1>3. Max(S) \in S /\ \A j \in S : Max(S) >= j
  BY <1>2 DEF Max
<1>4. QED BY <1>3

-----------------------------------------------------------------------------
(* An array whose cells fill it.                                           *)
Tiled(g) ==
  /\ g.rows \in Nat \ {0} /\ g.cols \in Nat \ {0}
  /\ \A d \in Tds(g) :
       /\ Top(g, d) \in Nat /\ Bottom(g, d) \in Nat
       /\ Left(g, d) \in Nat /\ Right(g, d) \in Nat
       /\ Top(g, d) <= Bottom(g, d) /\ Bottom(g, d) < g.rows
       /\ Left(g, d) <= Right(g, d) /\ Right(g, d) < g.cols
       /\ \A p \in Cell(g, d) : Get(g, p[1], p[2]) = d
  /\ \A r \in 0 .. g.rows - 1 : \A c \in 0 .. g.cols - 1 :
       Get(g, r, c) \in Tds(g) /\ <<r, c>> \in Cell(g, Get(g, r, c))

(* What is known of a cell of a well-formed layout and of its spans.       *)
LEMMA CoveredIs ==
  ASSUME NEW l \in Layouts, WellFormed(l), NEW p \in Positions(l)
  PROVE  /\ SpanOf(l, p) = <<SpanOf(l, p)[1], SpanOf(l, p)[2]>>
         /\ SpanOf(l, p)[1] \in Nat \ {0} /\ SpanOf(l, p)[2] \in Nat \ {0}
         /\ p \in Covered(l, p) /\ Covered(l, p) \subseteq Positions(l)
         /\ p = <<p[1], p[2]>> /\ p[1] \in 1 .. l.rows /\ p[2] \in 1 .. l.cols
         /\ p \notin DOMAIN l.span => SpanOf(l, p) = <<1, 1>>
         /\ p[1] + SpanOf(l, p)[1] - 1 \in 1 .. l.rows
         /\ p[2] + SpanOf(l, p)[2] - 1 \in 1 .. l.cols
<1>1. p = <<p[1], p[2]>> /\ p[1] \in 1 .. l.rows /\ p[2] \in 1 .. l.cols
  BY DEF Positions
<1>2. l.rows \in Nat /\ l.cols \in Nat
  BY LayoutsAssumption
<1>3. /\ SpanOf(l, p) = <<SpanOf(l, p)[1], SpanOf(l, p)[2]>>
      /\ SpanOf(l, p)[1] \in Nat \ {0} /\ SpanOf(l, p)[2] \in Nat \ {0}
      /\ p \notin DOMAIN l.span => SpanOf(l, p) = <<1, 1>>
  <2>1. CASE p \in DOMAIN l.span
    <3>1. l.span[p] \in (Nat \ {0}) \X (Nat \ {0})
      BY <2>1, LayoutsAssumption
    <3>2. QED BY <2>1, <3>1 DEF SpanOf
  <2>2. CASE p \notin DOMAIN l.span
    BY <2>2 DEF SpanOf
  <2>3. QED BY <2>1, <2>2
<1> DEFINE rs == SpanOf(l, p)[1]
<1> DEFINE cs == SpanOf(l, p)[2]
<1>4. Covered(l, p) = (p[1] .. (p[1] + rs - 1)) \X (p[2] .. (p[2] + cs - 1))
  BY DEF Covered
<1>5. p \in Covered(l, p)
  <2>1. p[1] \in p[1] .. (p[1] + rs - 1) /\ p[2] \in p[2] .. (p[2] + cs - 1)
    BY <1>1, <1>2, <1>3
  <2> HIDE DEF rs, cs
  <2>2. QED BY <1>1, <1>4, <2>1
<1>6. Covered(l, p) \subseteq Positions(l)
  <2>1. CASE p \in DOMAIN l.span
    BY <2>1 DEF WellFormed
  <2>2. CASE p \notin DOMAIN l.span
    <3>1. rs = 1 /\ cs = 1
      BY <1>3, <2>2
    <3>2. p[1] .. (p[1] + rs - 1) = {p[1]} /\ p[2] .. (p[2] + cs - 1) = {p[2]}
      BY <1>1, <1>2, <3>1
    <3>3. Covered(l, p) = {p[1]} \X {p[2]}
      BY <1>4, <3>2
    <3>4. QED BY <1>1, <3>3 DEF Positions
  <2>3. QED BY <2>1, <2>2
<1>7. <<p[1] + rs - 1, p[2] + cs - 1>> \in Covered(l, p)
  <2>1. /\ p[1] + rs - 1 \in p[1] .. (p[1] + rs - 1)
        /\ p[2] + cs - 1 \in p[2] .. (p[2] + cs - 1)
    BY <1>1, <1>2, <1>3
  <2> HIDE DEF rs, cs
  <2>2. QED BY <1>4, <2>1
<1>8. p[1] + rs - 1 \in 1 .. l.rows /\ p[2] + cs - 1 \in 1 .. l.cols
  <2> HIDE DEF rs, cs
  <2>1. <<p[1] + rs - 1, p[2] + cs - 1>> \in (1 .. l.rows) \X (1 .. l.cols)
    BY <1>6, <1>7 DEF Positions
  <2>2. QED BY <2>1
<1>9. QED BY <1>1, <1>3, <1>5, <1>6, <1>8

(* Every position is covered by one cell.                                  *)
LEMMA CoveredOnce ==
  ASSUME NEW l \in Layouts, WellFormed(l), NEW q \in Positions(l)
  PROVE  /\ \E p \in Origins(l) : q \in Covered(l, p)
         /\ \A p1, p2 \in Origins(l) :
              q \in Covered(l, p1) /\ q \in Covered(l, p2) => p1 = p2
<1>1. DOMAIN l.span \subseteq Positions(l)
  BY LayoutsAssumption
<1>2. ASSUME NEW p \in DOMAIN l.span PROVE p \in Origins(l)
  <2>1. p \in Positions(l) /\ p \in Covered(l, p)
    BY <1>1, <1>2, CoveredIs
  <2>2. \A x \in DOMAIN l.span : p \in Covered(l, x) => p = x
    BY <2>1 DEF WellFormed
  <2>3. QED BY <2>1, <2>2 DEF Origins
<1>3. \E p \in Origins(l) : q \in Covered(l, p)
  <2>1. CASE \E p \in DOMAIN l.span : q \in Covered(l, p)
    BY <1>2, <2>1
  <2>2. CASE ~\E p \in DOMAIN l.span : q \in Covered(l, p)
    <3>1. q \in Origins(l)
      BY <2>2 DEF Origins
    <3>2. QED BY <3>1, CoveredIs
  <2>3. QED BY <2>1, <2>2
<1>4. ASSUME NEW p1 \in Origins(l), NEW p2 \in Origins(l),
             q \in Covered(l, p1), q \in Covered(l, p2)
      PROVE  p1 = p2
  <2>1. p1 \in Positions(l) /\ p2 \in Positions(l)
    BY DEF Origins
  <2>2. ASSUME NEW p \in Positions(l), p \notin DOMAIN l.span,
               NEW x \in Covered(l, p)
        PROVE  x = p
    <3>1. SpanOf(l, p) = <<1, 1>>
      BY <2>2, CoveredIs
    <3>2. x \in (p[1] .. (p[1] + 1 - 1)) \X (p[2] .. (p[2] + 1 - 1))
      BY <2>2, <3>1 DEF Covered
    <3>3. p = <<p[1], p[2]>> /\ p[1] \in Int /\ p[2] \in Int
      BY CoveredIs
    <3>4. x = <<x[1], x[2]>> /\ x[1] = p[1] /\ x[2] = p[2]
      BY <3>2, <3>3
    <3>5. QED BY <3>3, <3>4
  <2>3. CASE p1 \in DOMAIN l.span /\ p2 \in DOMAIN l.span
    BY <1>4, <2>3 DEF WellFormed
  <2>4. CASE p1 \notin DOMAIN l.span
    <3>1. q = p1
      BY <1>4, <2>1, <2>2, <2>4
    <3>2. CASE p2 \in DOMAIN l.span
      BY <1>4, <3>1, <3>2 DEF Origins
    <3>3. CASE p2 \notin DOMAIN l.span
      BY <1>4, <2>1, <2>2, <3>1, <3>3
    <3>4. QED BY <3>2, <3>3
  <2>5. CASE p2 \notin DOMAIN l.span /\ p1 \in DOMAIN l.span
    <3>1. q = p2
      BY <1>4, <2>1, <2>2, <2>5
    <3>2. QED BY <1>4, <2>5, <3>1 DEF Origins
  <2>6. QED BY <2>3, <2>4, <2>5
<1>5. QED BY <1>3, <1>4
(* Where the cells are as the layout has them, they fill the array.        *)
LEMMA ExactTiled ==
  ASSUME NEW l \in Layouts, WellFormed(l), NEW g, Exact(l, g)
  PROVE  Tiled(g) /\ NoCell \notin Tds(g)
<1>1. /\ l.rows \in Nat \ {0} /\ l.cols \in Nat \ {0}
      /\ g.rows = l.rows /\ g.cols = l.cols /\ Tds(g) = Origins(l)
  BY LayoutsAssumption DEF Exact
<1>2. ASSUME NEW d \in Tds(g)
      PROVE  /\ d \in Positions(l) /\ d # NoCell
             /\ Top(g, d) = d[1] - 1 /\ Left(g, d) = d[2] - 1
             /\ Bottom(g, d) = d[1] - 1 + SpanOf(l, d)[1] - 1
             /\ Right(g, d) = d[2] - 1 + SpanOf(l, d)[2] - 1
  <2>1. d \in Origins(l) /\ d \in Positions(l)
    BY <1>1 DEF Origins
  <2>2. g.cell[d] = [row |-> d[1] - 1, col |-> d[2] - 1,
                     rowSpan |-> SpanOf(l, d)[1],
                     colSpan |-> SpanOf(l, d)[2]]
    BY <2>1 DEF Exact
  <2>3. d # NoCell
    BY <1>1, <2>1 DEF Positions, NoCell
  <2>4. QED BY <2>1, <2>2, <2>3 DEF Top, Left, Bottom, Right
<1>3. ASSUME NEW d \in Tds(g), NEW x \in Int, NEW y \in Int
      PROVE  <<x, y>> \in Cell(g, d) <=> <<x + 1, y + 1>> \in Covered(l, d)
  <2>1. d \in Positions(l)
    BY <1>2
  <2>2. PICK p1 \in Nat, p2 \in Nat, rs \in Nat, cs \in Nat :
          /\ p1 = d[1] /\ p2 = d[2]
          /\ rs = SpanOf(l, d)[1] /\ cs = SpanOf(l, d)[2]
    BY <1>1, <2>1, CoveredIs
  <2>3. Covered(l, d) = (p1 .. p1 + rs - 1) \X (p2 .. p2 + cs - 1)
    BY <2>2 DEF Covered
  <2>4. Cell(g, d) = (p1 - 1 .. p1 - 1 + rs - 1) \X (p2 - 1 .. p2 - 1 + cs - 1)
    BY <1>2, <2>2 DEF Cell
  <2>5. /\ x \in p1 - 1 .. p1 - 1 + rs - 1 <=> x + 1 \in p1 .. p1 + rs - 1
        /\ y \in p2 - 1 .. p2 - 1 + cs - 1 <=> y + 1 \in p2 .. p2 + cs - 1
    OBVIOUS
  <2>6. QED BY <2>3, <2>4, <2>5
<1>4. ASSUME NEW d \in Tds(g)
      PROVE  /\ Top(g, d) \in Nat /\ Bottom(g, d) \in Nat
             /\ Left(g, d) \in Nat /\ Right(g, d) \in Nat
             /\ Top(g, d) <= Bottom(g, d) /\ Bottom(g, d) < g.rows
             /\ Left(g, d) <= Right(g, d) /\ Right(g, d) < g.cols
  <2>1. d \in Positions(l)
    BY <1>2
  <2>2. PICK p1 \in Nat, p2 \in Nat, rs \in Nat, cs \in Nat :
          /\ p1 = d[1] /\ p2 = d[2]
          /\ rs = SpanOf(l, d)[1] /\ cs = SpanOf(l, d)[2]
          /\ p1 # 0 /\ p2 # 0 /\ rs # 0 /\ cs # 0
          /\ p1 + rs - 1 \in 1 .. l.rows /\ p2 + cs - 1 \in 1 .. l.cols
    BY <1>1, <2>1, CoveredIs
  <2>3. QED BY <1>1, <1>2, <2>2
<1>5. ASSUME NEW d \in Tds(g), NEW p \in Cell(g, d)
      PROVE  Get(g, p[1], p[2]) = d
  <2>1. p = <<p[1], p[2]>> /\ p[1] \in Int /\ p[2] \in Int
    BY <1>4 DEF Cell
  <2>2. <<p[1] + 1, p[2] + 1>> \in Covered(l, d)
    BY <1>3, <2>1
  <2>3. Get(g, (p[1] + 1) - 1, (p[2] + 1) - 1) = d
    BY <1>1, <2>2 DEF Exact
  <2>4. (p[1] + 1) - 1 = p[1] /\ (p[2] + 1) - 1 = p[2]
    BY <2>1
  <2>5. QED BY <2>3, <2>4
<1>6. ASSUME NEW r \in 0 .. g.rows - 1, NEW c \in 0 .. g.cols - 1
      PROVE  Get(g, r, c) \in Tds(g) /\ <<r, c>> \in Cell(g, Get(g, r, c))
  <2>1. <<r + 1, c + 1>> \in Positions(l)
    <3>1. r + 1 \in 1 .. l.rows /\ c + 1 \in 1 .. l.cols
      BY <1>1
    <3>2. QED BY <3>1 DEF Positions
  <2>2. PICK d \in Origins(l) : <<r + 1, c + 1>> \in Covered(l, d)
    BY <2>1, CoveredOnce
  <2>3. Get(g, (r + 1) - 1, (c + 1) - 1) = d
    BY <2>2 DEF Exact
  <2>4. (r + 1) - 1 = r /\ (c + 1) - 1 = c /\ r \in Int /\ c \in Int
    BY <1>1
  <2>5. d \in Tds(g) /\ <<r, c>> \in Cell(g, d)
    BY <1>1, <1>3, <2>2, <2>4
  <2>6. QED BY <2>3, <2>4, <2>5
<1>7. QED BY <1>1, <1>2, <1>4, <1>5, <1>6 DEF Tiled
-----------------------------------------------------------------------------
(* An area, as a rectangle of the array.                                   *)
InArray(g, area) ==
  /\ area.top \in Nat /\ area.bottom \in Nat
  /\ area.left \in Nat /\ area.right \in Nat
  /\ area.top <= area.bottom /\ area.bottom < g.rows
  /\ area.left <= area.right /\ area.right < g.cols

Grown(area, more) ==
  /\ more.top <= area.top /\ area.bottom <= more.bottom
  /\ more.left <= area.left /\ area.right <= more.right

(* The corners lie in the array and take in what is between the two cells. *)
LEMMA CornersHold ==
  ASSUME NEW g, Tiled(g), NEW s \in Tds(g), NEW e \in Tds(g)
  PROVE  /\ ~Corners(g, s, e).failed /\ InArray(g, Corners(g, s, e))
         /\ Corners(g, s, e).top \in {Top(g, s), Top(g, e)}
         /\ Corners(g, s, e).bottom \in {Bottom(g, s), Bottom(g, e)}
         /\ Corners(g, s, e).left \in {Left(g, s), Left(g, e)}
         /\ Corners(g, s, e).right \in {Right(g, s), Right(g, e)}
         /\ Corners(g, s, e).top <= Top(g, s)
         /\ Corners(g, s, e).top <= Top(g, e)
         /\ Corners(g, s, e).left <= Left(g, s)
         /\ Corners(g, s, e).left <= Left(g, e)
         /\ Top(g, s) <= Corners(g, s, e).bottom
         /\ Top(g, e) <= Corners(g, s, e).bottom
         /\ Left(g, s) <= Corners(g, s, e).right
         /\ Left(g, e) <= Corners(g, s, e).right
<1> DEFINE K == Corners(g, s, e)
<1>1. PICK ts \in Nat, te \in Nat, bs \in Nat, be \in Nat :
        /\ ts = Top(g, s) /\ te = Top(g, e)
        /\ bs = Bottom(g, s) /\ be = Bottom(g, e)
        /\ ts <= bs /\ te <= be /\ bs < g.rows /\ be < g.rows
  BY DEF Tiled
<1>2. PICK ls \in Nat, le \in Nat, rs \in Nat, re \in Nat :
        /\ ls = Left(g, s) /\ le = Left(g, e)
        /\ rs = Right(g, s) /\ re = Right(g, e)
        /\ ls <= rs /\ le <= re /\ rs < g.cols /\ re < g.cols
  BY DEF Tiled
<1>3. /\ K.failed = FALSE
      /\ K.top = Min({ts, te}) /\ K.left = Min({ls, le})
      /\ K.bottom = IF ts < te THEN be ELSE bs
      /\ K.right = IF ls < le THEN re ELSE rs
  BY <1>1, <1>2 DEF Corners
<1>4. /\ Min({ts, te}) \in {ts, te} /\ Min({ts, te}) <= ts
      /\ Min({ts, te}) <= te
  <2>1. {ts, te} \in SUBSET Nat /\ {ts, te} # {}
    OBVIOUS
  <2>2. QED BY <2>1, MinIs
<1>5. /\ Min({ls, le}) \in {ls, le} /\ Min({ls, le}) <= ls
      /\ Min({ls, le}) <= le
  <2>1. {ls, le} \in SUBSET Nat /\ {ls, le} # {}
    OBVIOUS
  <2>2. QED BY <2>1, MinIs
<1>6. g.rows \in Nat /\ g.cols \in Nat
  BY DEF Tiled
<1> HIDE DEF K
<1>7. InArray(g, K)
  BY <1>1, <1>2, <1>3, <1>4, <1>5, <1>6 DEF InArray
<1>8. /\ K.top \in {ts, te} /\ K.bottom \in {bs, be}
      /\ K.left \in {ls, le} /\ K.right \in {rs, re}
      /\ K.top <= ts /\ K.top <= te /\ K.left <= ls /\ K.left <= le
      /\ ts <= K.bottom /\ te <= K.bottom /\ ls <= K.right /\ le <= K.right
  BY <1>1, <1>2, <1>3, <1>4, <1>5
<1>9. QED BY <1>1, <1>2, <1>3, <1>7, <1>8 DEF K

(* The least of a side and of the sides of the cells that stick out.       *)
LEMMA LeastSide ==
  ASSUME NEW n \in Nat, NEW S \in SUBSET Nat
  PROVE  /\ Min({n} \cup S) \in Nat /\ Min({n} \cup S) <= n
         /\ \A j \in S : Min({n} \cup S) <= j
         /\ \A m \in Nat : m <= n /\ (\A j \in S : m <= j)
                             => m <= Min({n} \cup S)
<1>1. {n} \cup S \in SUBSET Nat /\ {n} \cup S # {}
  OBVIOUS
<1>2. /\ Min({n} \cup S) \in {n} \cup S
      /\ \A j \in {n} \cup S : Min({n} \cup S) <= j
  BY <1>1, MinIs
<1>3. QED BY <1>2

(* The greatest of a side and of those of the cells that stick out.        *)
LEMMA GreatestSide ==
  ASSUME NEW n \in Nat, NEW S \in SUBSET Nat, NEW k \in Nat,
         \A j \in S : j < k, n < k
  PROVE  /\ Max({n} \cup S) \in Nat /\ n <= Max({n} \cup S)
         /\ Max({n} \cup S) < k
         /\ \A j \in S : j <= Max({n} \cup S)
         /\ \A m \in Nat : n <= m /\ (\A j \in S : j <= m)
                             => Max({n} \cup S) <= m
<1>1. {n} \cup S \in SUBSET Nat /\ {n} \cup S # {}
  OBVIOUS
<1>2. \A j \in {n} \cup S : j <= k
  OBVIOUS
<1>3. /\ Max({n} \cup S) \in {n} \cup S
      /\ \A j \in {n} \cup S : j <= Max({n} \cup S)
  BY <1>1, <1>2, MaxIs
<1>4. QED BY <1>3

(* A row widens the area to hold its cells, and no further than a          *)
(* rectangle that cuts none.                                               *)
LEMMA WidenHolds ==
  ASSUME NEW g, Tiled(g), NoCell \notin Tds(g), NEW a,
         InArray(g, a), ~a.failed,
         NEW r \in 0 .. g.rows - 1
  PROVE  /\ ~Widen(g, a, r).failed /\ InArray(g, Widen(g, a, r))
         /\ Grown(a, Widen(g, a, r))
         /\ \A c \in a.left .. a.right :
              Whole(g, Get(g, r, c), Widen(g, a, r))
         /\ \A w : InArray(g, w) /\ Closed(g, w) /\ Grown(a, w)
                     /\ w.top <= r /\ r <= w.bottom
                     => Grown(Widen(g, a, r), w)
<1> DEFINE row == {Get(g, r, c) : c \in a.left .. a.right}
<1> DEFINE b == Widen(g, a, r)
<1>1. g.rows \in Nat /\ g.cols \in Nat
  BY DEF Tiled
<1>2. ASSUME NEW c \in a.left .. a.right
      PROVE  Get(g, r, c) \in Tds(g) /\ <<r, c>> \in Cell(g, Get(g, r, c))
  <2>1. c \in 0 .. g.cols - 1
    BY <1>1 DEF InArray
  <2>2. QED BY <2>1 DEF Tiled
<1>3. row \subseteq Tds(g)
  BY <1>2
<1> DEFINE tops == {Top(g, d) : d \in row}
<1> DEFINE bottoms == {Bottom(g, d) : d \in row}
<1> DEFINE lefts == {Left(g, d) : d \in row}
<1> DEFINE rights == {Right(g, d) : d \in row}
<1>4. NoCell \notin row
  BY <1>3
<1>5. b = [failed |-> FALSE,
           top |-> Min({a.top} \cup tops),
           bottom |-> Max({a.bottom} \cup bottoms),
           left |-> Min({a.left} \cup lefts),
           right |-> Max({a.right} \cup rights)]
  BY <1>4 DEF InArray, Widen
<1>6. \A d \in row : /\ Top(g, d) \in Nat /\ Bottom(g, d) \in Nat
                     /\ Left(g, d) \in Nat /\ Right(g, d) \in Nat
                     /\ Bottom(g, d) < g.rows /\ Right(g, d) < g.cols
  BY <1>3 DEF Tiled
<1>7. /\ tops \in SUBSET Nat /\ lefts \in SUBSET Nat
      /\ bottoms \in SUBSET Nat /\ rights \in SUBSET Nat
      /\ \A j \in bottoms : j < g.rows
      /\ \A j \in rights : j < g.cols
  <2> HIDE DEF row
  <2>1. QED BY <1>6
<1>8. /\ a.top \in Nat /\ a.bottom \in Nat /\ a.left \in Nat /\ a.right \in Nat
      /\ a.top <= a.bottom /\ a.left <= a.right
      /\ a.bottom < g.rows /\ a.right < g.cols
  BY DEF InArray
<1>9. /\ b.top \in Nat /\ b.top <= a.top
      /\ \A j \in tops : b.top <= j
      /\ \A m \in Nat : m <= a.top /\ (\A j \in tops : m <= j) => m <= b.top
  <2> HIDE DEF tops, bottoms, lefts, rights, row, b
  <2>1. PICK n \in Nat : n = a.top
    BY <1>8
  <2>2. b.top = Min({n} \cup tops)
    BY <1>5, <2>1
  <2>3. /\ Min({n} \cup tops) \in Nat /\ Min({n} \cup tops) <= n
        /\ \A j \in tops : Min({n} \cup tops) <= j
        /\ \A m \in Nat : m <= n /\ (\A j \in tops : m <= j)
                            => m <= Min({n} \cup tops)
    BY <1>7, LeastSide
  <2>4. QED BY <2>1, <2>2, <2>3
<1>10. /\ b.left \in Nat /\ b.left <= a.left
       /\ \A j \in lefts : b.left <= j
       /\ \A m \in Nat : m <= a.left /\ (\A j \in lefts : m <= j) => m <= b.left
  <2> HIDE DEF tops, bottoms, lefts, rights, row, b
  <2>1. PICK n \in Nat : n = a.left
    BY <1>8
  <2>2. b.left = Min({n} \cup lefts)
    BY <1>5, <2>1
  <2>3. /\ Min({n} \cup lefts) \in Nat /\ Min({n} \cup lefts) <= n
        /\ \A j \in lefts : Min({n} \cup lefts) <= j
        /\ \A m \in Nat : m <= n /\ (\A j \in lefts : m <= j)
                            => m <= Min({n} \cup lefts)
    BY <1>7, LeastSide
  <2>4. QED BY <2>1, <2>2, <2>3
<1>11. /\ b.bottom \in Nat /\ a.bottom <= b.bottom /\ b.bottom < g.rows
       /\ \A j \in bottoms : j <= b.bottom
       /\ \A m \in Nat : a.bottom <= m /\ (\A j \in bottoms : j <= m)
                           => b.bottom <= m
  <2> HIDE DEF tops, bottoms, lefts, rights, row, b
  <2>1. PICK n \in Nat, k \in Nat : n = a.bottom /\ k = g.rows /\ n < k
    BY <1>1, <1>8
  <2>2. b.bottom = Max({n} \cup bottoms)
    BY <1>5, <2>1
  <2>3. /\ Max({n} \cup bottoms) \in Nat /\ n <= Max({n} \cup bottoms)
        /\ Max({n} \cup bottoms) < k
        /\ \A j \in bottoms : j <= Max({n} \cup bottoms)
        /\ \A m \in Nat : n <= m /\ (\A j \in bottoms : j <= m)
                            => Max({n} \cup bottoms) <= m
    <3>1. bottoms \in SUBSET Nat /\ \A j \in bottoms : j < k
      BY <1>7, <2>1
    <3>2. QED BY <2>1, <3>1, GreatestSide
  <2>4. QED BY <2>1, <2>2, <2>3
<1>12. /\ b.right \in Nat /\ a.right <= b.right /\ b.right < g.cols
       /\ \A j \in rights : j <= b.right
       /\ \A m \in Nat : a.right <= m /\ (\A j \in rights : j <= m)
                           => b.right <= m
  <2> HIDE DEF tops, bottoms, lefts, rights, row, b
  <2>1. PICK n \in Nat, k \in Nat : n = a.right /\ k = g.cols /\ n < k
    BY <1>1, <1>8
  <2>2. b.right = Max({n} \cup rights)
    BY <1>5, <2>1
  <2>3. /\ Max({n} \cup rights) \in Nat /\ n <= Max({n} \cup rights)
        /\ Max({n} \cup rights) < k
        /\ \A j \in rights : j <= Max({n} \cup rights)
        /\ \A m \in Nat : n <= m /\ (\A j \in rights : j <= m)
                            => Max({n} \cup rights) <= m
    <3>1. rights \in SUBSET Nat /\ \A j \in rights : j < k
      BY <1>7, <2>1
    <3>2. QED BY <2>1, <3>1, GreatestSide
  <2>4. QED BY <2>1, <2>2, <2>3
<1>13. \A d \in row : /\ b.top <= Top(g, d) /\ Bottom(g, d) <= b.bottom
                      /\ b.left <= Left(g, d) /\ Right(g, d) <= b.right
  <2> HIDE DEF row, b
  <2>1. QED BY <1>9, <1>10, <1>11, <1>12
<1>14. ~b.failed
  BY <1>5
<1>15. ASSUME NEW w, InArray(g, w), Closed(g, w), Grown(a, w),
              w.top <= r, r <= w.bottom
       PROVE  Grown(b, w)
  <2>1. /\ w.top \in Nat /\ w.bottom \in Nat
        /\ w.left \in Nat /\ w.right \in Nat
    BY <1>15 DEF InArray
  <2>2. ASSUME NEW d \in row
        PROVE  /\ w.top <= Top(g, d) /\ Bottom(g, d) <= w.bottom
               /\ w.left <= Left(g, d) /\ Right(g, d) <= w.right
    <3>1. PICK c \in a.left .. a.right : d = Get(g, r, c)
      OBVIOUS
    <3>2. c \in w.left .. w.right /\ r \in w.top .. w.bottom
      BY <1>8, <1>15, <2>1, <3>1 DEF Grown
    <3>3. <<r, c>> \in Cell(g, d) \cap Within(w)
      BY <1>2, <3>1, <3>2 DEF Within
    <3>4. d \in Tds(g)
      BY <1>3
    <3>5. Cell(g, d) \subseteq Within(w)
      BY <1>15, <3>3, <3>4 DEF Closed, Whole
    <3>6. PICK t \in Nat, u \in Nat, x \in Nat, y \in Nat :
            /\ t = Top(g, d) /\ u = Bottom(g, d)
            /\ x = Left(g, d) /\ y = Right(g, d) /\ t <= u /\ x <= y
      BY <3>4 DEF Tiled
    <3>7. <<t, x>> \in Cell(g, d) /\ <<u, y>> \in Cell(g, d)
      BY <3>6 DEF Cell
    <3>8. <<t, x>> \in Within(w) /\ <<u, y>> \in Within(w)
      BY <3>5, <3>7
    <3>9. QED BY <2>1, <3>6, <3>8 DEF Within
  <2> HIDE DEF row, b
  <2>3. w.top <= b.top
    BY <1>9, <1>15, <2>1, <2>2 DEF Grown
  <2>4. w.left <= b.left
    BY <1>10, <1>15, <2>1, <2>2 DEF Grown
  <2>5. b.bottom <= w.bottom
    BY <1>11, <1>15, <2>1, <2>2 DEF Grown
  <2>6. b.right <= w.right
    BY <1>12, <1>15, <2>1, <2>2 DEF Grown
  <2>7. QED BY <2>3, <2>4, <2>5, <2>6 DEF Grown
<1>16. ASSUME NEW c \in a.left .. a.right
       PROVE  Whole(g, Get(g, r, c), b)
  <2> DEFINE d == Get(g, r, c)
  <2>1. d \in row
    OBVIOUS
  <2> HIDE DEF row, b, d
  <2>2. /\ Top(g, d) \in Nat /\ Bottom(g, d) \in Nat
        /\ Left(g, d) \in Nat /\ Right(g, d) \in Nat
    BY <1>6, <2>1
  <2>3. QED BY <1>9, <1>10, <1>11, <1>12, <1>13, <2>1, <2>2
            DEF d, Whole, Cell, Within
<1> HIDE DEF row, b
<1>17. InArray(g, b)
  BY <1>1, <1>8, <1>9, <1>10, <1>11, <1>12, <1>14 DEF InArray
<1>18. Grown(a, b)
  BY <1>9, <1>10, <1>11, <1>12 DEF Grown
<1>19. QED BY <1>14, <1>15, <1>16, <1>17, <1>18 DEF b
(* The rows one after another.                                             *)
LEMMA AreaIs ==
  ASSUME NEW g, NEW s, NEW e,
         Corners(g, s, e).top \in Nat, Corners(g, s, e).bottom \in Nat,
         Corners(g, s, e).top <= Corners(g, s, e).bottom
  PROVE  \E f :
           /\ Area(g, s, e) = f[Corners(g, s, e).bottom]
           /\ f[Corners(g, s, e).top - 1] = Corners(g, s, e)
           /\ \A r \in Corners(g, s, e).top .. Corners(g, s, e).bottom :
                f[r] = Widen(g, f[r - 1], r)
<1> DEFINE K == Corners(g, s, e)
<1> DEFINE upTo[r \in (K.top - 1) .. K.bottom] ==
             IF r < K.top THEN K ELSE Widen(g, upTo[r - 1], r)
<1>1. Area(g, s, e) = upTo[K.bottom]
  BY DEF Area
<1>2. PICK t \in Nat, n \in Nat : K.top = t /\ K.bottom = t + n
  <2>1. K.bottom - K.top \in Nat /\ K.bottom = K.top + (K.bottom - K.top)
    OBVIOUS
  <2>2. QED BY <2>1
<1> DEFINE S == {k \in Nat : \E f :
                   f = [r \in (t - 1) .. (t - 1 + k) |->
                          IF r < t THEN K ELSE Widen(g, f[r - 1], r)]}
<1>3. 0 \in S
  <2> DEFINE f == [r \in (t - 1) .. (t - 1 + 0) |-> K]
  <2>1. \A r \in (t - 1) .. (t - 1 + 0) : r < t
    OBVIOUS
  <2>2. f = [r \in (t - 1) .. (t - 1 + 0) |->
               IF r < t THEN K ELSE Widen(g, f[r - 1], r)]
    BY <2>1
  <2> HIDE DEF f
  <2>3. QED BY <2>2
<1>4. ASSUME NEW k \in Nat, k \in S PROVE k + 1 \in S
  <2>1. PICK f : f = [r \in (t - 1) .. (t - 1 + k) |->
                        IF r < t THEN K ELSE Widen(g, f[r - 1], r)]
    BY <1>4
  <2> DEFINE h == [r \in (t - 1) .. (t - 1 + (k + 1)) |->
                     IF r = t + k THEN Widen(g, f[r - 1], r) ELSE f[r]]
  <2>2. ASSUME NEW r \in (t - 1) .. (t - 1 + (k + 1))
        PROVE  h[r] = IF r < t THEN K ELSE Widen(g, h[r - 1], r)
    <3>1. CASE r = t + k
      <4>1. r - 1 \in (t - 1) .. (t - 1 + (k + 1)) /\ r - 1 # t + k /\ ~(r < t)
        BY <3>1
      <4>2. h[r - 1] = f[r - 1] /\ h[r] = Widen(g, f[r - 1], r)
        BY <3>1, <4>1
      <4>3. QED BY <4>1, <4>2
    <3>2. CASE r # t + k
      <4>1. r \in (t - 1) .. (t - 1 + k)
        BY <3>2
      <4>2. f[r] = IF r < t THEN K ELSE Widen(g, f[r - 1], r)
        BY <2>1, <4>1
      <4>3. h[r] = f[r]
        BY <3>2
      <4>4. CASE r < t
        BY <4>2, <4>3, <4>4
      <4>5. CASE ~(r < t)
        <5>1. r - 1 \in (t - 1) .. (t - 1 + (k + 1)) /\ r - 1 # t + k
          BY <3>2, <4>5
        <5>2. h[r - 1] = f[r - 1]
          BY <5>1
        <5>3. QED BY <4>2, <4>3, <4>5, <5>2
      <4>6. QED BY <4>4, <4>5
    <3>3. QED BY <3>1, <3>2
  <2>3. h = [r \in (t - 1) .. (t - 1 + (k + 1)) |-> h[r]]
    OBVIOUS
  <2> HIDE DEF h
  <2>4. h = [r \in (t - 1) .. (t - 1 + (k + 1)) |->
               IF r < t THEN K ELSE Widen(g, h[r - 1], r)]
    BY <2>2, <2>3
  <2>5. QED BY <2>4
<1>5. n + 1 \in S
  <2> HIDE DEF S
  <2>1. n + 1 \in Nat
    OBVIOUS
  <2>2. \A k \in Nat : k \in S
    BY <1>3, <1>4, Every
  <2>3. QED BY <2>1, <2>2
<1>6. PICK h : h = [r \in (t - 1) .. (t - 1 + (n + 1)) |->
                      IF r < t THEN K ELSE Widen(g, h[r - 1], r)]
  BY <1>5
<1>7. t - 1 + (n + 1) = K.bottom /\ t - 1 = K.top - 1
  BY <1>2
<1> HIDE DEF S, K
<1>8. h = [r \in (K.top - 1) .. K.bottom |->
             IF r < K.top THEN K ELSE Widen(g, h[r - 1], r)]
  BY <1>2, <1>6, <1>7
<1>9. upTo = [r \in (K.top - 1) .. K.bottom |->
                IF r < K.top THEN K ELSE Widen(g, upTo[r - 1], r)]
  BY <1>8, Zenon
<1> HIDE DEF upTo
<1>10. /\ K.top \in Nat /\ K.bottom \in Nat /\ K.top <= K.bottom
       /\ Area(g, s, e) = upTo[K.bottom]
  BY <1>1 DEF K
<1>11. upTo[K.top - 1] = K
  <2>1. K.top - 1 \in (K.top - 1) .. K.bottom /\ K.top - 1 < K.top
    BY <1>10
  <2>2. QED BY <1>9, <2>1
<1>12. \A r \in K.top .. K.bottom : upTo[r] = Widen(g, upTo[r - 1], r)
  <2>1. \A r \in K.top .. K.bottom :
          r \in (K.top - 1) .. K.bottom /\ ~(r < K.top)
    BY <1>10
  <2>2. QED BY <1>9, <2>1
<1>13. QED BY <1>10, <1>11, <1>12 DEF K
(* The area takes in whole the cells between its corners, and is within    *)
(* every rectangle around them that cuts no cell.                          *)
LEMMA AreaTakes ==
  ASSUME NEW g, Tiled(g), NoCell \notin Tds(g),
         NEW s \in Tds(g), NEW e \in Tds(g)
  PROVE  /\ ~Area(g, s, e).failed /\ InArray(g, Area(g, s, e))
         /\ Grown(Corners(g, s, e), Area(g, s, e))
         /\ \A r \in Corners(g, s, e).top .. Corners(g, s, e).bottom :
              \A c \in Corners(g, s, e).left .. Corners(g, s, e).right :
                Whole(g, Get(g, r, c), Area(g, s, e))
         /\ \A w : InArray(g, w) /\ Closed(g, w) /\ Grown(Corners(g, s, e), w)
                     => Grown(Area(g, s, e), w)
<1> DEFINE K == Corners(g, s, e)
<1>1. ~K.failed /\ InArray(g, K)
  BY CornersHold
<1>2. PICK f : /\ Area(g, s, e) = f[K.bottom]
               /\ f[K.top - 1] = K
               /\ \A r \in K.top .. K.bottom : f[r] = Widen(g, f[r - 1], r)
  <2>1. K.top \in Nat /\ K.bottom \in Nat /\ K.top <= K.bottom
    BY <1>1 DEF InArray
  <2>2. QED BY <2>1, AreaIs
<1> HIDE DEF K
<1>3. PICK t \in Nat, n \in Nat : K.top = t /\ K.bottom = t + n
  <2>1. K.top \in Nat /\ K.bottom \in Nat /\ K.top <= K.bottom
    BY <1>1 DEF InArray
  <2>2. K.bottom - K.top \in Nat /\ K.bottom = K.top + (K.bottom - K.top)
    BY <2>1
  <2>3. QED BY <2>1, <2>2
<1> DEFINE Good(a, m) ==
       /\ ~a.failed /\ InArray(g, a) /\ Grown(K, a)
       /\ \A r \in t .. m : \A c \in K.left .. K.right :
            Whole(g, Get(g, r, c), a)
       /\ \A w : InArray(g, w) /\ Closed(g, w) /\ Grown(K, w) => Grown(a, w)
<1> DEFINE S == {k \in Nat : k <= n + 1 => Good(f[t - 1 + k], t - 1 + k)}
<1>4. 0 \in S
  <2>1. t - 1 + 0 = K.top - 1 /\ t .. (t - 1 + 0) = {}
    BY <1>3
  <2>2. f[t - 1 + 0] = K
    BY <1>2, <2>1
  <2>3. Grown(K, K)
    BY <1>1 DEF InArray, Grown
  <2>4. Good(K, t - 1 + 0)
    BY <1>1, <2>1, <2>3
  <2> HIDE DEF Good
  <2>5. QED BY <2>2, <2>4
<1>5. ASSUME NEW k \in Nat, k \in S PROVE k + 1 \in S
  <2>1. SUFFICES ASSUME k + 1 <= n + 1
                 PROVE  Good(f[t - 1 + (k + 1)], t - 1 + (k + 1))
    OBVIOUS
  <2>2. PICK m \in Int : /\ m = t + k /\ t - 1 + (k + 1) = m
                         /\ t - 1 + k = m - 1 /\ m \in K.top .. K.bottom
    BY <1>3, <2>1
  <2>3. Good(f[m - 1], m - 1)
    BY <1>5, <2>1, <2>2
  <2>4. f[m] = Widen(g, f[m - 1], m)
    BY <1>2, <2>2
  <2> DEFINE a == f[m - 1]
  <2> DEFINE b == f[m]
  <2>5. ~a.failed /\ InArray(g, a) /\ Grown(K, a)
    BY <2>3
  <2>6. m \in 0 .. g.rows - 1 /\ m \in Nat
    BY <1>1, <2>2 DEF InArray, Tiled
  <2>7. /\ ~b.failed /\ InArray(g, b) /\ Grown(a, b)
        /\ \A c \in a.left .. a.right : Whole(g, Get(g, m, c), b)
        /\ \A w : InArray(g, w) /\ Closed(g, w) /\ Grown(a, w)
                     /\ w.top <= m /\ m <= w.bottom
                     => Grown(b, w)
    <3> HIDE DEF Good
    <3>1. QED BY <2>4, <2>5, <2>6, WidenHolds
  <2>8. Grown(K, b)
    BY <1>1, <2>5, <2>7 DEF InArray, Grown
  <2>9. \A r \in t .. m : \A c \in K.left .. K.right : Whole(g, Get(g, r, c), b)
    <3>1. SUFFICES ASSUME NEW r \in t .. m, NEW c \in K.left .. K.right
                   PROVE  Whole(g, Get(g, r, c), b)
      OBVIOUS
    <3>2. CASE r = m
      <4>1. c \in a.left .. a.right
        BY <1>1, <2>5 DEF InArray, Grown
      <4>2. QED BY <2>7, <3>2, <4>1
    <3>3. CASE r # m
      <4>1. r \in t .. (m - 1)
        BY <3>3, <2>2
      <4>2. Whole(g, Get(g, r, c), a)
        BY <2>3, <4>1
      <4>3. Within(a) \subseteq Within(b)
        BY <2>5, <2>7 DEF InArray, Grown, Within
      <4>4. QED BY <4>2, <4>3 DEF Whole
    <3>4. QED BY <3>2, <3>3
  <2>10. ASSUME NEW w, InArray(g, w), Closed(g, w), Grown(K, w)
         PROVE  Grown(b, w)
    <3>1. Grown(a, w)
      BY <2>3, <2>10
    <3>2. w.top <= m /\ m <= w.bottom
      BY <1>1, <2>2, <2>6, <2>10 DEF InArray, Grown
    <3>3. QED BY <2>7, <2>10, <3>1, <3>2
  <2>11. Good(f[m], m)
    BY <2>7, <2>8, <2>9, <2>10
  <2> HIDE DEF Good
  <2>12. QED BY <2>2, <2>11
<1>6. n + 1 \in S
  <2> HIDE DEF S
  <2>1. \A k \in Nat : k \in S
    BY <1>4, <1>5, Every
  <2>2. n + 1 \in Nat
    OBVIOUS
  <2>3. QED BY <2>1, <2>2
<1>7. t - 1 + (n + 1) = K.bottom
  BY <1>3
<1>8. Good(f[K.bottom], K.bottom)
  <2> HIDE DEF Good
  <2>1. n + 1 <= n + 1
    OBVIOUS
  <2>2. Good(f[t - 1 + (n + 1)], t - 1 + (n + 1))
    BY <1>6, <2>1
  <2>3. QED BY <1>7, <2>2
<1>9. QED BY <1>2, <1>3, <1>8 DEF K
(* With one spanning cell, every other one is a single position.           *)
LEMMA OneSpans ==
  ASSUME NEW l \in Layouts, WellFormed(l), NEW g, Exact(l, g),
         Cardinality(DOMAIN l.span) <= 1
  PROVE  \E x : \A d \in Tds(g) \ {x} :
           Top(g, d) = Bottom(g, d) /\ Left(g, d) = Right(g, d)
<1>1. /\ l.rows \in Nat /\ l.cols \in Nat /\ DOMAIN l.span \subseteq Positions(l)
      /\ Tds(g) = Origins(l)
  BY LayoutsAssumption DEF Exact
<1>2. IsFiniteSet(DOMAIN l.span)
  <2>1. IsFiniteSet(1 .. l.rows) /\ IsFiniteSet(1 .. l.cols)
    <3>1. PICK m \in Int, n \in Int : m = l.rows /\ n = l.cols
      BY <1>1
    <3>2. IsFiniteSet(1 .. m) /\ IsFiniteSet(1 .. n)
      BY FS_Interval
    <3>3. QED BY <3>1, <3>2
  <2>2. IsFiniteSet(Positions(l))
    BY <2>1, FS_Product DEF Positions
  <2>3. QED BY <1>1, <2>2, FS_Subset
<1>3. \E x : DOMAIN l.span \subseteq {x}
  <2>1. Cardinality(DOMAIN l.span) \in Nat
    BY <1>2, FS_CardinalityType
  <2>2. CASE Cardinality(DOMAIN l.span) = 0
    BY <1>2, <2>2, FS_EmptySet
  <2>3. CASE Cardinality(DOMAIN l.span) = 1
    BY <1>2, <2>3, FS_Singleton
  <2>4. QED BY <2>1, <2>2, <2>3
<1>4. PICK x : DOMAIN l.span \subseteq {x}
  BY <1>3
<1>5. ASSUME NEW d \in Tds(g) \ {x}
      PROVE  Top(g, d) = Bottom(g, d) /\ Left(g, d) = Right(g, d)
  <2>1. d \in Positions(l) /\ d \notin DOMAIN l.span
    BY <1>1, <1>4 DEF Origins
  <2>2. SpanOf(l, d) = <<1, 1>> /\ d[1] \in Int /\ d[2] \in Int
    BY <1>1, <2>1, CoveredIs
  <2>3. g.cell[d] = [row |-> d[1] - 1, col |-> d[2] - 1,
                     rowSpan |-> 1, colSpan |-> 1]
    BY <1>1, <2>2 DEF Exact
  <2>4. QED BY <2>2, <2>3 DEF Top, Bottom, Left, Right
<1>6. QED BY <1>5

(* Two rectangles that hold each other.                                    *)
LEMMA GrownWithin ==
  ASSUME NEW g, NEW a, NEW b, InArray(g, a), InArray(g, b)
  PROVE  Grown(a, b) => Within(a) \subseteq Within(b)
BY DEF InArray, Grown, Within

(* The area between two cells takes in whole what is between them and stays*)
(* within every rectangle around them that cuts no cell.                   *)
LEMMA AreaFits ==
  ASSUME NEW l \in Layouts, WellFormed(l), Exact(l, Arrays[l]),
         NEW s \in Tds(Arrays[l]), NEW e \in Tds(Arrays[l])
  PROVE  Fits(l, Arrays[l], s, e, Area(Arrays[l], s, e))
<1> DEFINE g == Arrays[l]
<1> DEFINE K == Corners(g, s, e)
<1> DEFINE a == Area(g, s, e)
<1>1. Tiled(g) /\ NoCell \notin Tds(g)
  BY ExactTiled
<1> HIDE DEF g
<1>2. s \in Tds(g) /\ e \in Tds(g)
  BY DEF g
<1>3. /\ InArray(g, K)
      /\ K.top \in {Top(g, s), Top(g, e)}
      /\ K.bottom \in {Bottom(g, s), Bottom(g, e)}
      /\ K.left \in {Left(g, s), Left(g, e)}
      /\ K.right \in {Right(g, s), Right(g, e)}
      /\ K.top <= Top(g, s) /\ K.top <= Top(g, e)
      /\ K.left <= Left(g, s) /\ K.left <= Left(g, e)
      /\ Top(g, s) <= K.bottom /\ Top(g, e) <= K.bottom
      /\ Left(g, s) <= K.right /\ Left(g, e) <= K.right
  BY <1>1, <1>2, CornersHold
<1>4. /\ ~a.failed /\ InArray(g, a) /\ Grown(K, a)
      /\ \A r \in K.top .. K.bottom : \A c \in K.left .. K.right :
           Whole(g, Get(g, r, c), a)
      /\ \A w : InArray(g, w) /\ Closed(g, w) /\ Grown(K, w) => Grown(a, w)
  BY <1>1, <1>2, AreaTakes
<1> HIDE DEF K, a
<1>5. ASSUME NEW d \in Tds(g), Cell(g, d) \cap Within(K) # {}
      PROVE  Whole(g, d, a)
  <2>1. PICK p \in Cell(g, d) : p \in Within(K)
    BY <1>5
  <2>2. p[1] \in K.top .. K.bottom /\ p[2] \in K.left .. K.right
    BY <2>1 DEF Within
  <2>3. Get(g, p[1], p[2]) = d
    BY <1>1, <2>1 DEF Tiled
  <2>4. QED BY <1>4, <2>2, <2>3
<1>6. Between(g, s, e) \subseteq Within(K)
  <2>1. PICK ts \in Nat, te \in Nat, ls \in Nat, le \in Nat :
          /\ ts = Top(g, s) /\ te = Top(g, e)
          /\ ls = Left(g, s) /\ le = Left(g, e)
    BY <1>1, <1>2 DEF Tiled
  <2>2. {ts, te} \in SUBSET Nat /\ {ls, le} \in SUBSET Nat
    OBVIOUS
  <2>3. Min({ts, te}) \in {ts, te} /\ Min({ls, le}) \in {ls, le}
    BY <2>2, MinIs
  <2>4. K.bottom \in Nat /\ K.right \in Nat /\ K.top \in Nat /\ K.left \in Nat
    BY <1>3 DEF InArray
  <2>5. Max({ts, te}) \in {ts, te} /\ Max({ls, le}) \in {ls, le}
    <3>1. \A j \in {ts, te} : j <= K.bottom
      BY <1>3, <2>1
    <3>2. \A j \in {ls, le} : j <= K.right
      BY <1>3, <2>1
    <3>3. QED BY <2>2, <2>4, <3>1, <3>2, MaxIs
  <2>6. /\ K.top <= Min({ts, te}) /\ Max({ts, te}) <= K.bottom
        /\ K.left <= Min({ls, le}) /\ Max({ls, le}) <= K.right
    BY <1>3, <2>1, <2>3, <2>5
  <2>7. /\ Min({ts, te}) .. Max({ts, te}) \subseteq K.top .. K.bottom
        /\ Min({ls, le}) .. Max({ls, le}) \subseteq K.left .. K.right
    BY <2>3, <2>4, <2>5, <2>6
  <2>8. Between(g, s, e) = (Min({ts, te}) .. Max({ts, te})) \X
                           (Min({ls, le}) .. Max({ls, le}))
    BY <2>1 DEF Between
  <2>9. QED BY <2>7, <2>8 DEF Within
<1>7. ASSUME NEW d \in Tds(g), Cell(g, d) \cap Between(g, s, e) # {}
      PROVE  Whole(g, d, a)
  BY <1>5, <1>6, <1>7
<1>8. ASSUME NEW w \in Uncut[l], Whole(g, s, w), Whole(g, e, w)
      PROVE  Within(a) \subseteq Within(w)
  <2>1. w \in AllAreas(g) /\ Closed(g, w)
    BY <1>8 DEF Uncut, g
  <2>2. /\ w.top \in 0 .. (g.rows - 1) /\ w.bottom \in 0 .. (g.rows - 1)
        /\ w.left \in 0 .. (g.cols - 1) /\ w.right \in 0 .. (g.cols - 1)
    BY <2>1 DEF AllAreas
  <2>3. ASSUME NEW d \in Tds(g), Whole(g, d, w)
        PROVE  /\ Top(g, d) \in Nat /\ Left(g, d) \in Nat
               /\ w.top <= Top(g, d) /\ Top(g, d) <= w.bottom
               /\ w.top <= Bottom(g, d) /\ Bottom(g, d) <= w.bottom
               /\ w.left <= Left(g, d) /\ Left(g, d) <= w.right
               /\ w.left <= Right(g, d) /\ Right(g, d) <= w.right
    <3>1. PICK t \in Nat, u \in Nat, x \in Nat, y \in Nat :
            /\ t = Top(g, d) /\ u = Bottom(g, d)
            /\ x = Left(g, d) /\ y = Right(g, d) /\ t <= u /\ x <= y
      BY <1>1 DEF Tiled
    <3>2. <<t, x>> \in Cell(g, d) /\ <<u, y>> \in Cell(g, d)
      BY <3>1 DEF Cell
    <3>3. <<t, x>> \in Within(w) /\ <<u, y>> \in Within(w)
      BY <2>3, <3>2 DEF Whole
    <3>4. QED BY <2>2, <3>1, <3>3 DEF Within
  <2>4. Grown(K, w)
    <3>1. w.top <= K.top
      BY <1>2, <1>3, <1>8, <2>3
    <3>2. w.left <= K.left
      BY <1>2, <1>3, <1>8, <2>3
    <3>3. K.bottom <= w.bottom
      BY <1>2, <1>3, <1>8, <2>3
    <3>4. K.right <= w.right
      BY <1>2, <1>3, <1>8, <2>3
    <3>5. QED BY <3>1, <3>2, <3>3, <3>4 DEF Grown
  <2>5. InArray(g, w)
    <3>1. w.top <= w.bottom
      BY <1>2, <1>3, <1>8, <2>2, <2>3
    <3>2. w.left <= w.right
      BY <1>2, <1>3, <1>8, <2>2, <2>3
    <3>3. QED BY <1>1, <2>2, <3>1, <3>2 DEF InArray, Tiled
  <2>6. Grown(a, w)
    BY <1>4, <2>1, <2>4, <2>5
  <2>7. QED BY <1>4, <2>5, <2>6, GrownWithin
<1>9. ASSUME Cardinality(DOMAIN l.span) <= 1
      PROVE  Closed(g, a)
  <2>1. PICK x : \A d \in Tds(g) \ {x} :
                   Top(g, d) = Bottom(g, d) /\ Left(g, d) = Right(g, d)
    BY <1>9, OneSpans DEF g
  <2>2. ASSUME NEW d \in Tds(g) \ {x}, NEW w, Cell(g, d) \cap Within(w) # {}
        PROVE  Whole(g, d, w)
    <3>1. PICK t \in Nat, y \in Nat : Cell(g, d) = (t .. t) \X (y .. y)
      BY <1>1, <2>1 DEF Tiled, Cell
    <3>2. t .. t = {t} /\ y .. y = {y}
      OBVIOUS
    <3>3. Cell(g, d) = {<<t, y>>}
      BY <3>1, <3>2
    <3>4. QED BY <2>2, <3>3 DEF Whole
  <2>3. SUFFICES ASSUME x \in Tds(g), Cell(g, x) \cap Within(a) # {}
                 PROVE  Whole(g, x, a)
    BY <2>2 DEF Closed
  <2>4. CASE Cell(g, x) \cap Within(K) # {}
    BY <1>5, <2>3, <2>4
  <2>5. CASE Cell(g, x) \cap Within(K) = {}
    <3>1. Closed(g, K)
      BY <2>2, <2>5 DEF Closed
    <3>2. Grown(K, K)
      BY <1>3 DEF InArray, Grown
    <3>3. Grown(a, K)
      BY <1>3, <1>4, <3>1, <3>2
    <3>4. Within(a) \subseteq Within(K)
      BY <1>3, <1>4, <3>3, GrownWithin
    <3>5. QED BY <2>3, <2>5, <3>4
  <2>6. QED BY <2>4, <2>5
<1>10. Fits(l, g, s, e, a)
  BY <1>4, <1>7, <1>8, <1>9 DEF Fits
<1>11. QED BY <1>10 DEF g, a
-----------------------------------------------------------------------------
(* The counters of FixedGrid.populateItem().  n counts the positions behind*)
(* y that an interval of I begun at or before y still takes in.            *)
Counts(I, y, n) ==
  /\ n \in Int
  /\ \A a \in I : a.first <= y /\ y < a.last => n = a.last - y
  /\ n > 0 => \E a \in I : a.first <= y /\ y < a.last

Across(l, x) ==
  {[first |-> q[2], last |-> q[2] + l.span[q][2] - 1] :
     q \in {p \in DOMAIN l.span : p[1] = x}}

Down(l, y) ==
  {[first |-> q[1], last |-> q[1] + l.span[q][1] - 1] :
     q \in {p \in DOMAIN l.span : p[2] = y}}

Intervals == [first : Int, last : Int]

(* No interval of more than one position begins here.                      *)
LEMMA CountsOn ==
  ASSUME NEW I \in SUBSET Intervals, NEW y \in Int, NEW n, Counts(I, y - 1, n),
         \A a \in I : a.first = y => a.last <= y
  PROVE  Counts(I, y, n - 1) /\ (n <= 0 => Counts(I, y, n))
<1>1. n \in Int /\ \A a \in I : a.first \in Int /\ a.last \in Int
  BY DEF Counts, Intervals
<1>2. \A a \in I : a.first <= y /\ y < a.last => n = a.last - y + 1
  BY <1>1 DEF Counts
<1>3. n > 1 => \E a \in I : a.first <= y /\ y < a.last
  <2>1. SUFFICES ASSUME n > 1 PROVE \E a \in I : a.first <= y /\ y < a.last
    OBVIOUS
  <2>2. PICK a \in I : a.first <= y - 1 /\ y - 1 < a.last
    BY <1>1, <2>1 DEF Counts
  <2>3. n = a.last - (y - 1)
    BY <2>2 DEF Counts
  <2>4. QED BY <1>1, <2>1, <2>2, <2>3
<1>4. Counts(I, y, n - 1)
  BY <1>1, <1>2, <1>3 DEF Counts
<1>5. n <= 0 => Counts(I, y, n)
  BY <1>1, <1>2 DEF Counts
<1>6. QED BY <1>4, <1>5

(* The counter after a joined cell has begun: what is left of it.          *)
LEMMA CountsNew ==
  ASSUME NEW I \in SUBSET Intervals, NEW y \in Int, NEW n, Counts(I, y - 1, n),
         n <= 0, NEW a \in I, a.first = y, a.last > y,
         \A b \in I : b.first = y => b = a
  PROVE  Counts(I, y, a.last - y)
<1>1. n \in Int /\ \A b \in I : b.first \in Int /\ b.last \in Int
  BY DEF Counts, Intervals
<1>2. ASSUME NEW b \in I, b.first <= y, y < b.last PROVE b = a
  <2>1. SUFFICES ASSUME b.first # y PROVE FALSE
    OBVIOUS
  <2>2. b.first <= y - 1 /\ y - 1 < b.last
    BY <1>1, <1>2, <2>1
  <2>3. n = b.last - (y - 1)
    BY <2>2 DEF Counts
  <2>4. QED BY <1>1, <1>2, <2>3
<1>3. QED BY <1>1, <1>2 DEF Counts

(* The intervals, and where they lie.                                      *)
LEMMA SpansAre ==
  ASSUME NEW l \in Layouts, WellFormed(l), NEW q \in DOMAIN l.span
  PROVE  /\ q \in Positions(l) /\ q \in Origins(l)
         /\ q[1] \in Nat \ {0} /\ q[2] \in Nat \ {0}
         /\ l.span[q] = SpanOf(l, q)
         /\ SpanOf(l, q)[1] \in Nat \ {0} /\ SpanOf(l, q)[2] \in Nat \ {0}
         /\ SpanOf(l, q)[1] = 1 \/ SpanOf(l, q)[2] = 1
<1>1. q \in Positions(l)
  BY LayoutsAssumption
<1>2. l.span[q] = SpanOf(l, q)
  BY DEF SpanOf
<1>3. SpanOf(l, q)[1] = 1 \/ SpanOf(l, q)[2] = 1
  BY <1>2 DEF WellFormed
<1>4. q \in Origins(l)
  <2>1. q \in Covered(l, q)
    BY <1>1, CoveredIs
  <2>2. \A x \in DOMAIN l.span : q \in Covered(l, x) => q = x
    BY <2>1 DEF WellFormed
  <2>3. QED BY <1>1, <2>2 DEF Origins
<1>5. q[1] \in Nat \ {0} /\ q[2] \in Nat \ {0}
  <2>1. l.rows \in Nat /\ l.cols \in Nat
    BY LayoutsAssumption
  <2>2. q[1] \in 1 .. l.rows /\ q[2] \in 1 .. l.cols
    BY <1>1 DEF Positions
  <2>3. QED BY <2>1, <2>2
<1>6. QED BY <1>1, <1>2, <1>3, <1>4, <1>5, CoveredIs

(* The joined cells of a line are intervals of numbers.                    *)
LEMMA IntervalsAre ==
  ASSUME NEW l \in Layouts, WellFormed(l), NEW x
  PROVE  Across(l, x) \in SUBSET Intervals /\ Down(l, x) \in SUBSET Intervals
<1>1. \A q \in DOMAIN l.span :
        /\ q[1] \in Int /\ q[2] \in Int
        /\ q[1] + l.span[q][1] - 1 \in Int /\ q[2] + l.span[q][2] - 1 \in Int
  <2>1. SUFFICES ASSUME NEW q \in DOMAIN l.span
                 PROVE  /\ q[1] \in Int /\ q[2] \in Int
                        /\ q[1] + l.span[q][1] - 1 \in Int
                        /\ q[2] + l.span[q][2] - 1 \in Int
    OBVIOUS
  <2>2. /\ q[1] \in Nat /\ q[2] \in Nat
        /\ l.span[q][1] \in Nat /\ l.span[q][2] \in Nat
    BY SpansAre
  <2>3. QED BY <2>2
<1>2. QED BY <1>1 DEF Across, Down, Intervals
(* A position is hidden just when another cell covers it.                  *)
LEMMA HiddenIs ==
  ASSUME NEW l \in Layouts, WellFormed(l), NEW p \in Positions(l),
         NEW n, Counts(Across(l, p[1]), p[2] - 1, n),
         NEW m, Counts(Down(l, p[2]), p[1] - 1, m)
  PROVE  p \in Origins(l) <=> ~(n > 0 \/ m > 0)
<1>1. PICK x \in Nat, y \in Nat : p = <<x, y>> /\ p[1] = x /\ p[2] = y
  <2>1. l.rows \in Nat /\ l.cols \in Nat
    BY LayoutsAssumption
  <2>2. QED BY <2>1 DEF Positions
<1>2. n \in Int /\ m \in Int
  BY DEF Counts
<1>3. ASSUME NEW q \in DOMAIN l.span
      PROVE  \E q1 \in Nat, q2 \in Nat, rs \in Nat \ {0}, cs \in Nat \ {0} :
               /\ q = <<q1, q2>> /\ q[1] = q1 /\ q[2] = q2
               /\ rs = l.span[q][1] /\ cs = l.span[q][2]
               /\ rs = 1 \/ cs = 1
               /\ Covered(l, q) = (q1 .. q1 + rs - 1) \X (q2 .. q2 + cs - 1)
  <2>1. /\ q[1] \in Nat /\ q[2] \in Nat /\ q = <<q[1], q[2]>>
        /\ SpanOf(l, q)[1] \in Nat \ {0} /\ SpanOf(l, q)[2] \in Nat \ {0}
        /\ SpanOf(l, q)[1] = 1 \/ SpanOf(l, q)[2] = 1
        /\ l.span[q] = SpanOf(l, q)
    BY SpansAre, CoveredIs
  <2>2. QED BY <2>1 DEF Covered
<1>4. ASSUME p \in Origins(l), n > 0 PROVE FALSE
  <2>1. PICK a \in Across(l, x) : a.first <= y - 1 /\ y - 1 < a.last
    BY <1>1, <1>4 DEF Counts
  <2>2. PICK q \in DOMAIN l.span :
          /\ q[1] = x
          /\ a = [first |-> q[2], last |-> q[2] + l.span[q][2] - 1]
    BY <2>1 DEF Across
  <2>3. PICK q2 \in Nat, rs \in Nat \ {0}, cs \in Nat \ {0} :
          /\ q = <<x, q2>> /\ q[2] = q2 /\ cs = l.span[q][2]
          /\ Covered(l, q) = (x .. x + rs - 1) \X (q2 .. q2 + cs - 1)
    BY <1>3, <2>2
  <2>4. q2 <= y - 1 /\ y - 1 < q2 + cs - 1
    BY <2>1, <2>2, <2>3
  <2>5. p \in Covered(l, q)
    BY <1>1, <2>3, <2>4
  <2>6. p # q
    BY <1>1, <2>3, <2>4
  <2>7. QED BY <1>4, <2>5, <2>6 DEF Origins
<1>5. ASSUME p \in Origins(l), m > 0 PROVE FALSE
  <2>1. PICK a \in Down(l, y) : a.first <= x - 1 /\ x - 1 < a.last
    BY <1>1, <1>5 DEF Counts
  <2>2. PICK q \in DOMAIN l.span :
          /\ q[2] = y
          /\ a = [first |-> q[1], last |-> q[1] + l.span[q][1] - 1]
    BY <2>1 DEF Down
  <2>3. PICK q1 \in Nat, rs \in Nat \ {0}, cs \in Nat \ {0} :
          /\ q = <<q1, y>> /\ q[1] = q1 /\ rs = l.span[q][1]
          /\ Covered(l, q) = (q1 .. q1 + rs - 1) \X (y .. y + cs - 1)
    BY <1>3, <2>2, SMTT(40)
  <2>4. q1 <= x - 1 /\ x - 1 < q1 + rs - 1
    BY <2>1, <2>2, <2>3
  <2>5. p \in Covered(l, q)
    BY <1>1, <2>3, <2>4
  <2>6. p # q
    BY <1>1, <2>3, <2>4
  <2>7. QED BY <1>5, <2>5, <2>6 DEF Origins
<1>6. ASSUME p \notin Origins(l) PROVE n > 0 \/ m > 0
  <2>1. PICK q \in DOMAIN l.span : p \in Covered(l, q) /\ p # q
    BY <1>6 DEF Origins
  <2>2. PICK q1 \in Nat, q2 \in Nat, rs \in Nat \ {0}, cs \in Nat \ {0} :
          /\ q = <<q1, q2>> /\ q[1] = q1 /\ q[2] = q2
          /\ rs = l.span[q][1] /\ cs = l.span[q][2]
          /\ rs = 1 \/ cs = 1
          /\ Covered(l, q) = (q1 .. q1 + rs - 1) \X (q2 .. q2 + cs - 1)
    BY <1>3
  <2>3. /\ q1 <= x /\ x <= q1 + rs - 1 /\ q2 <= y /\ y <= q2 + cs - 1
        /\ x # q1 \/ y # q2
    BY <1>1, <2>1, <2>2
  <2>4. CASE rs = 1
    <3>1. q1 = x /\ q2 <= y - 1 /\ y - 1 < q2 + cs - 1
      BY <2>3, <2>4
    <3>2. [first |-> q2, last |-> q2 + cs - 1] \in Across(l, x)
      BY <2>2, <3>1 DEF Across
    <3>3. n = (q2 + cs - 1) - (y - 1)
      BY <1>1, <3>1, <3>2 DEF Counts
    <3>4. QED BY <3>1, <3>3
  <2>5. CASE cs = 1
    <3>1. q2 = y /\ q1 <= x - 1 /\ x - 1 < q1 + rs - 1
      BY <2>3, <2>5
    <3>2. [first |-> q1, last |-> q1 + rs - 1] \in Down(l, y)
      BY <2>2, <3>1 DEF Down
    <3>3. m = (q1 + rs - 1) - (x - 1)
      BY <1>1, <3>1, <3>2 DEF Counts
    <3>4. QED BY <3>1, <3>3
  <2>6. QED BY <2>2, <2>4, <2>5
<1>7. QED BY <1>4, <1>5, <1>6

CellStates(l, n) ==
  [tds : Seq(Positions(l)), coljoined : Int, rowjoined : [1 .. n -> Int]]

(* The counters when column j of a pane is reached, at position p.         *)
Reaching(l, n, p, j, done) ==
  /\ done \in CellStates(l, n)
  /\ Counts(Across(l, p[1]), p[2] - 1, done.coljoined)
  /\ Counts(Down(l, p[2]), p[1] - 1, done.rowjoined[j])

Leaving(l, n, p, j, done, next) ==
  /\ next \in CellStates(l, n)
  /\ next.tds = IF p \in Origins(l) THEN Append(done.tds, p) ELSE done.tds
  /\ Counts(Across(l, p[1]), p[2], next.coljoined)
  /\ Counts(Down(l, p[2]), p[1], next.rowjoined[j])
  /\ \A k \in 1 .. n : k # j => next.rowjoined[k] = done.rowjoined[k]

(* populateItem(): the cell is rendered, or it is hidden, and both counters*)
(* are those of the next position.                                         *)
LEMMA PopulateCellIs ==
  ASSUME NEW l \in Layouts, WellFormed(l), NEW p \in Positions(l),
         NEW n \in Nat, NEW j \in 1 .. n,
         NEW done, Reaching(l, n, p, j, done)
  PROVE  Leaving(l, n, p, j, done, PopulateCell(l, p, j, done))
<1> DEFINE next == PopulateCell(l, p, j, done)
<1> DEFINE R == [tds : Seq(Positions(l)), coljoined : Int,
                 rowjoined : [1 .. n -> Int]]
<1> DEFINE cj == done.coljoined
<1> DEFINE rj == done.rowjoined[j]
<1>1. /\ done \in R
      /\ Counts(Across(l, p[1]), p[2] - 1, cj)
      /\ Counts(Down(l, p[2]), p[1] - 1, rj)
  BY DEF Reaching, CellStates
<1>2. cj \in Int /\ rj \in Int
  BY <1>1
<1>3. PICK x \in Nat, y \in Nat : p = <<x, y>> /\ p[1] = x /\ p[2] = y
  <2>1. l.rows \in Nat /\ l.cols \in Nat
    BY LayoutsAssumption
  <2>2. QED BY <2>1 DEF Positions
<1>4. /\ Across(l, x) \in SUBSET Intervals /\ Down(l, y) \in SUBSET Intervals
      /\ Counts(Across(l, x), y - 1, cj) /\ Counts(Down(l, y), x - 1, rj)
  BY <1>3, <1>1, IntervalsAre
<1>5. p \in Origins(l) <=> ~(cj > 0 \/ rj > 0)
  BY <1>1, HiddenIs
<1>6. /\ \A a \in Across(l, x) : a.first = y =>
           p \in DOMAIN l.span /\ a.last = y + l.span[p][2] - 1
      /\ \A a \in Down(l, y) : a.first = x =>
           p \in DOMAIN l.span /\ a.last = x + l.span[p][1] - 1
  <2>1. \A q \in DOMAIN l.span : q[1] = x /\ q[2] = y => q = p
    BY <1>3, SpansAre, CoveredIs
  <2>2. QED BY <2>1 DEF Across, Down
<1>7. CASE cj > 0 \/ rj > 0
  <2>1. next = [done EXCEPT !.coljoined = @ - 1, !.rowjoined[j] = @ - 1]
    BY <1>7 DEF PopulateCell
  <2> DEFINE f == [done.rowjoined EXCEPT ![j] = @ - 1]
  <2>2. /\ next \in R /\ next.tds = done.tds /\ next.coljoined = cj - 1
        /\ next.rowjoined[j] = rj - 1
        /\ \A k \in 1 .. n : k # j => next.rowjoined[k] = done.rowjoined[k]
    <3>1. next = [tds |-> done.tds, coljoined |-> cj - 1, rowjoined |-> f]
      BY <1>1, <2>1
    <3>2. /\ f \in [1 .. n -> Int] /\ f[j] = rj - 1
          /\ \A k \in 1 .. n : k # j => f[k] = done.rowjoined[k]
      BY <1>2, <1>1
    <3>3. done.tds \in Seq(Positions(l)) /\ cj - 1 \in Int
      BY <1>2, <1>1
    <3> HIDE DEF f, cj, rj, next
    <3>4. QED BY <3>1, <3>2, <3>3
  <2>3. p \notin DOMAIN l.span
    BY <1>5, <1>7, SpansAre
  <2>4. Counts(Across(l, x), y, cj - 1)
    <3>1. \A a \in Across(l, x) : a.first = y => a.last <= y
      BY <1>6, <2>3
    <3> HIDE DEF cj
    <3>2. QED BY <1>4, <3>1, CountsOn
  <2>5. Counts(Down(l, y), x, rj - 1)
    <3>1. \A a \in Down(l, y) : a.first = x => a.last <= x
      BY <1>6, <2>3
    <3> HIDE DEF rj
    <3>2. QED BY <1>4, <3>1, CountsOn
  <2> HIDE DEF next, Leaving, CellStates
  <2>6. QED BY <1>3, <1>5, <1>7, <2>2, <2>4, <2>5 DEF next, Leaving, CellStates
<1>8. CASE ~(cj > 0 \/ rj > 0)
  <2> DEFINE span == SpanOf(l, p)
  <2>1. next = [tds |-> Append(done.tds, p),
                coljoined |-> IF span[2] > 1 THEN span[2] - 1 ELSE cj,
                rowjoined |-> IF span[1] > 1
                              THEN [done.rowjoined EXCEPT ![j] = span[1] - 1]
                              ELSE done.rowjoined]
    BY <1>8 DEF PopulateCell
  <2>2. span[1] \in Nat \ {0} /\ span[2] \in Nat \ {0}
        /\ (p \notin DOMAIN l.span => span[1] = 1 /\ span[2] = 1)
        /\ (p \in DOMAIN l.span => l.span[p] = span)
    BY CoveredIs DEF SpanOf
  <2> HIDE DEF span, next
  <2>3. PICK rs \in Nat \ {0}, cs \in Nat \ {0} :
          /\ span[1] = rs /\ span[2] = cs
          /\ (p \notin DOMAIN l.span => rs = 1 /\ cs = 1)
          /\ (p \in DOMAIN l.span => l.span[p][1] = rs /\ l.span[p][2] = cs)
    BY <2>2
  <2>4. /\ next.tds = Append(done.tds, p)
        /\ next.coljoined = (IF cs > 1 THEN cs - 1 ELSE cj)
        /\ next.rowjoined = IF rs > 1
                            THEN [done.rowjoined EXCEPT ![j] = rs - 1]
                            ELSE done.rowjoined
    BY <2>1, <2>3
  <2>5. next \in R
    <3>1. Append(done.tds, p) \in Seq(Positions(l))
      BY <1>1
    <3>2. (IF cs > 1 THEN cs - 1 ELSE cj) \in Int
      BY <1>2
    <3>3. (IF rs > 1 THEN [done.rowjoined EXCEPT ![j] = rs - 1]
           ELSE done.rowjoined) \in [1 .. n -> Int]
      BY <1>1
    <3>4. next = [tds |-> Append(done.tds, p),
                  coljoined |-> IF cs > 1 THEN cs - 1 ELSE cj,
                  rowjoined |-> IF rs > 1
                                THEN [done.rowjoined EXCEPT ![j] = rs - 1]
                                ELSE done.rowjoined]
      BY <2>1, <2>3
    <3> HIDE DEF cj
    <3>5. QED BY <3>1, <3>2, <3>3, <3>4
  <2>6. Counts(Across(l, x), y, next.coljoined)
    <3> HIDE DEF cj
    <3>1. CASE cs > 1
      <4>1. [first |-> y, last |-> y + cs - 1] \in Across(l, x)
        BY <1>3, <2>3, <3>1 DEF Across
      <4>2. \A a \in Across(l, x) : a.first = y => a.last = y + cs - 1
        BY <1>6, <2>3
      <4>3. \A a \in Across(l, x) :
              a.first = y => a = [first |-> y, last |-> y + cs - 1]
        <5>1. \A a \in Across(l, x) : a = [first |-> a.first, last |-> a.last]
          BY <1>4 DEF Intervals
        <5>2. QED BY <4>2, <5>1
      <4>4. PICK a \in Across(l, x) : a = [first |-> y, last |-> y + cs - 1]
        BY <4>1
      <4>5. cj <= 0
        BY <1>2, <1>8
      <4>6. a.first = y /\ a.last > y /\ a.last - y = cs - 1
        BY <3>1, <4>4
      <4>7. Counts(Across(l, x), y, a.last - y)
        <5>1. \A b \in Across(l, x) : b.first = y => b = a
          BY <4>3, <4>4
        <5>2. Across(l, x) \in SUBSET Intervals /\ Counts(Across(l, x), y - 1, cj)
              /\ y \in Int /\ a \in Across(l, x)
          BY <1>4
        <5>3. QED BY <4>5, <4>6, <5>1, <5>2, CountsNew
      <4>8. QED BY <2>4, <3>1, <4>6, <4>7
    <3>2. CASE ~(cs > 1)
      <4>1. \A a \in Across(l, x) : a.first = y => a.last <= y
        BY <1>6, <2>3, <3>2
      <4>2. cj <= 0
        BY <1>2, <1>8
      <4>3. Counts(Across(l, x), y, cj)
        BY <1>4, <4>1, <4>2, CountsOn
      <4>4. QED BY <2>4, <3>2, <4>3
    <3>3. QED BY <3>1, <3>2
  <2>7. Counts(Down(l, y), x, next.rowjoined[j])
    <3>1. next.rowjoined[j] = IF rs > 1 THEN rs - 1 ELSE rj
      BY <1>1, <2>4
    <3> HIDE DEF rj
    <3>2. CASE rs > 1
      <4>1. [first |-> x, last |-> x + rs - 1] \in Down(l, y)
        BY <1>3, <2>3, <3>2 DEF Down
      <4>2. \A a \in Down(l, y) : a.first = x => a.last = x + rs - 1
        BY <1>6, <2>3
      <4>3. \A a \in Down(l, y) :
              a.first = x => a = [first |-> x, last |-> x + rs - 1]
        <5>1. \A a \in Down(l, y) : a = [first |-> a.first, last |-> a.last]
          BY <1>4 DEF Intervals
        <5>2. QED BY <4>2, <5>1
      <4>4. PICK a \in Down(l, y) : a = [first |-> x, last |-> x + rs - 1]
        BY <4>1
      <4>5. rj <= 0
        BY <1>2, <1>8
      <4>6. a.first = x /\ a.last > x /\ a.last - x = rs - 1
        BY <3>2, <4>4
      <4>7. Counts(Down(l, y), x, a.last - x)
        <5>1. \A b \in Down(l, y) : b.first = x => b = a
          BY <4>3, <4>4
        <5>2. Down(l, y) \in SUBSET Intervals /\ Counts(Down(l, y), x - 1, rj)
              /\ x \in Int /\ a \in Down(l, y)
          BY <1>4
        <5>3. QED BY <4>5, <4>6, <5>1, <5>2, CountsNew
      <4>8. QED BY <3>1, <3>2, <4>6, <4>7
    <3>3. CASE ~(rs > 1)
      <4>1. \A a \in Down(l, y) : a.first = x => a.last <= x
        BY <1>6, <2>3, <3>3
      <4>2. rj <= 0
        BY <1>2, <1>8
      <4>3. Counts(Down(l, y), x, rj)
        BY <1>4, <4>1, <4>2, CountsOn
      <4>4. QED BY <3>1, <3>3, <4>3
    <3>4. QED BY <3>2, <3>3
  <2>8. \A k \in 1 .. n : k # j => next.rowjoined[k] = done.rowjoined[k]
    BY <1>1, <2>4
  <2>9. QED BY <1>3, <1>5, <1>8, <2>4, <2>5, <2>6, <2>7, <2>8
            DEF next, Leaving, CellStates
<1>9. QED BY <1>7, <1>8
-----------------------------------------------------------------------------
(* s has the cells of row x, between two columns, from left to right.      *)
Lists(l, x, lo, hi, s) ==
  /\ s \in Seq(Positions(l))
  /\ \A k \in 1 .. Len(s) :
       s[k] \in Origins(l) /\ s[k][1] = x /\ lo < s[k][2] /\ s[k][2] <= hi
  /\ \A k, m \in 1 .. Len(s) : k < m => s[k][2] < s[m][2]
  /\ \A p \in Origins(l) :
       p[1] = x /\ lo < p[2] /\ p[2] <= hi => \E k \in 1 .. Len(s) : s[k] = p

(* A position of the grid is a pair of numbers within it.                  *)
LEMMA PositionIs ==
  ASSUME NEW l \in Layouts, NEW p \in Positions(l)
  PROVE  /\ p = <<p[1], p[2]>> /\ p[1] \in Nat \ {0} /\ p[2] \in Nat \ {0}
         /\ p[1] <= l.rows /\ p[2] <= l.cols
<1>1. l.rows \in Nat /\ l.cols \in Nat
  BY LayoutsAssumption
<1>2. QED BY <1>1 DEF Positions

(* The next column adds its cell, or none.                                 *)
LEMMA ListsNext ==
  ASSUME NEW l \in Layouts, NEW x, NEW lo \in Nat, NEW y \in Nat, lo <= y,
         NEW s, Lists(l, x, lo, y, s), NEW p \in Positions(l),
         p[1] = x, p[2] = y + 1
  PROVE  Lists(l, x, lo, y + 1,
               IF p \in Origins(l) THEN Append(s, p) ELSE s)
<1>1. /\ s \in Seq(Positions(l))
      /\ \A k \in 1 .. Len(s) :
           s[k] \in Origins(l) /\ s[k][1] = x /\ lo < s[k][2] /\ s[k][2] <= y
      /\ \A k, m \in 1 .. Len(s) : k < m => s[k][2] < s[m][2]
      /\ \A q \in Origins(l) :
           q[1] = x /\ lo < q[2] /\ q[2] <= y => \E k \in 1 .. Len(s) : s[k] = q
  BY DEF Lists
<1>2. \A q \in Origins(l) : q \in Positions(l) /\ q[2] \in Nat /\ q = <<q[1], q[2]>>
  BY PositionIs DEF Origins
<1>3. \A q \in Origins(l) : q[1] = x /\ q[2] = y + 1 => q = p
  BY <1>2, PositionIs
<1>4. CASE p \notin Origins(l)
  <2>1. \A k \in 1 .. Len(s) : s[k][2] <= y + 1
    BY <1>1, <1>2
  <2>2. ASSUME NEW q \in Origins(l), q[1] = x, lo < q[2], q[2] <= y + 1
        PROVE  \E k \in 1 .. Len(s) : s[k] = q
    <3>1. q[2] # y + 1
      BY <1>3, <1>4, <2>2
    <3>2. q[2] <= y
      BY <1>2, <2>2, <3>1
    <3>3. QED BY <1>1, <2>2, <3>2
  <2>3. QED BY <1>1, <1>4, <2>1, <2>2 DEF Lists
<1>5. CASE p \in Origins(l)
  <2> DEFINE t == Append(s, p)
  <2>1. PICK n \in Nat : n = Len(s)
    BY <1>1
  <2>2. /\ t \in Seq(Positions(l)) /\ Len(t) = n + 1
        /\ \A k \in 1 .. n : t[k] = s[k]
        /\ t[n + 1] = p
    BY <1>1, <2>1
  <2> HIDE DEF t
  <2>3. \A k \in 1 .. n + 1 : k \in 1 .. n \/ k = n + 1
    OBVIOUS
  <2>4. ASSUME NEW k \in 1 .. n + 1
        PROVE  t[k] \in Origins(l) /\ t[k][1] = x /\ lo < t[k][2]
               /\ t[k][2] <= y + 1
    <3>1. CASE k \in 1 .. n
      BY <1>1, <1>2, <2>1, <2>2, <3>1
    <3>2. CASE k = n + 1
      BY <1>5, <2>2, <3>2
    <3>3. QED BY <2>3, <3>1, <3>2
  <2>5. ASSUME NEW k \in 1 .. n + 1, NEW m \in 1 .. n + 1, k < m
        PROVE  t[k][2] < t[m][2]
    <3>1. k \in 1 .. n
      BY <2>5
    <3>2. CASE m \in 1 .. n
      BY <1>1, <2>1, <2>2, <2>5, <3>1, <3>2
    <3>3. CASE m = n + 1
      <4>1. s[k] \in Origins(l) /\ s[k][2] <= y
        BY <1>1, <2>1, <3>1
      <4>2. s[k][2] \in Nat
        BY <1>2, <4>1
      <4>3. t[k] = s[k] /\ t[m] = p
        BY <2>2, <3>1, <3>3
      <4>4. QED BY <4>1, <4>2, <4>3
    <3>4. QED BY <2>3, <3>2, <3>3
  <2>6. ASSUME NEW q \in Origins(l), q[1] = x, lo < q[2], q[2] <= y + 1
        PROVE  \E k \in 1 .. n + 1 : t[k] = q
    <3>1. CASE q[2] = y + 1
      <4>1. q = p /\ n + 1 \in 1 .. n + 1
        BY <1>3, <2>6, <3>1
      <4>2. QED BY <2>2, <4>1
    <3>2. CASE q[2] # y + 1
      <4>1. q[2] <= y
        BY <1>2, <2>6, <3>2
      <4>2. PICK k \in 1 .. n : s[k] = q
        BY <1>1, <2>1, <2>6, <4>1
      <4>3. QED BY <2>2, <4>2
    <3>3. QED BY <3>1, <3>2
  <2>7. Lists(l, x, lo, y + 1, t)
    BY <2>2, <2>4, <2>5, <2>6 DEF Lists
  <2>8. QED BY <1>5, <2>7 DEF t
<1>6. QED BY <1>4, <1>5

(* The cells of the left pane, then those of the right.                    *)
LEMMA ListsJoin ==
  ASSUME NEW l \in Layouts, NEW x, NEW lo \in Nat, NEW y \in Nat,
         NEW hi \in Nat,
         lo <= y, y <= hi,
         NEW s, Lists(l, x, lo, y, s), NEW t, Lists(l, x, y, hi, t)
  PROVE  Lists(l, x, lo, hi, s \o t)
<1>1. /\ s \in Seq(Positions(l)) /\ t \in Seq(Positions(l))
      /\ \A k \in 1 .. Len(s) :
           s[k] \in Origins(l) /\ s[k][1] = x /\ lo < s[k][2] /\ s[k][2] <= y
      /\ \A k \in 1 .. Len(t) :
           t[k] \in Origins(l) /\ t[k][1] = x /\ y < t[k][2] /\ t[k][2] <= hi
      /\ \A k, m \in 1 .. Len(s) : k < m => s[k][2] < s[m][2]
      /\ \A k, m \in 1 .. Len(t) : k < m => t[k][2] < t[m][2]
      /\ \A q \in Origins(l) :
           q[1] = x /\ lo < q[2] /\ q[2] <= y => \E k \in 1 .. Len(s) : s[k] = q
      /\ \A q \in Origins(l) :
           q[1] = x /\ y < q[2] /\ q[2] <= hi => \E k \in 1 .. Len(t) : t[k] = q
  BY DEF Lists
<1>2. \A q \in Origins(l) : q[2] \in Nat
  BY PositionIs DEF Origins
<1>3. PICK n \in Nat, m \in Nat : n = Len(s) /\ m = Len(t)
  BY <1>1
<1> DEFINE u == s \o t
<1>4. /\ u \in Seq(Positions(l)) /\ Len(u) = n + m
      /\ \A k \in 1 .. n + m : u[k] = IF k <= n THEN s[k] ELSE t[k - n]
  BY <1>1, <1>3
<1> HIDE DEF u
<1>5. /\ \A k \in 1 .. n : u[k] = s[k] /\ k \in 1 .. n + m
      /\ \A k \in 1 .. m : u[n + k] = t[k] /\ n + k \in 1 .. n + m
  <2>1. \A k \in 1 .. n : k \in 1 .. n + m /\ k <= n
    OBVIOUS
  <2>2. \A k \in 1 .. m : n + k \in 1 .. n + m /\ ~(n + k <= n) /\ (n + k) - n = k
    OBVIOUS
  <2>3. QED BY <1>4, <2>1, <2>2
<1>6. \A k \in 1 .. n + m : k \in 1 .. n \/ \E j \in 1 .. m : k = n + j
  <2>1. SUFFICES ASSUME NEW k \in 1 .. n + m, k \notin 1 .. n
                 PROVE  \E j \in 1 .. m : k = n + j
    OBVIOUS
  <2>2. k - n \in 1 .. m /\ k = n + (k - n)
    BY <2>1
  <2>3. QED BY <2>2
<1>7. ASSUME NEW k \in 1 .. n + m
      PROVE  u[k] \in Origins(l) /\ u[k][1] = x /\ lo < u[k][2]
             /\ u[k][2] <= hi
  <2>1. CASE k \in 1 .. n
    <3>1. s[k] \in Origins(l) /\ s[k][1] = x /\ lo < s[k][2] /\ s[k][2] <= y
      BY <1>1, <1>3, <2>1
    <3>2. s[k][2] \in Nat
      BY <1>2, <3>1
    <3>3. QED BY <1>5, <2>1, <3>1, <3>2
  <2>2. ASSUME NEW j \in 1 .. m, k = n + j
        PROVE  u[k] \in Origins(l) /\ u[k][1] = x /\ lo < u[k][2]
               /\ u[k][2] <= hi
    <3>1. t[j] \in Origins(l) /\ t[j][1] = x /\ y < t[j][2] /\ t[j][2] <= hi
      BY <1>1, <1>3
    <3>2. t[j][2] \in Nat
      BY <1>2, <3>1
    <3>3. QED BY <1>5, <2>2, <3>1, <3>2
  <2>3. QED BY <1>6, <2>1, <2>2
<1>8. ASSUME NEW i \in 1 .. n + m, NEW k \in 1 .. n + m, i < k
      PROVE  u[i][2] < u[k][2]
  <2>1. CASE k \in 1 .. n
    <3>1. i \in 1 .. n
      BY <1>8, <2>1
    <3>2. QED BY <1>1, <1>3, <1>5, <1>8, <2>1, <3>1
  <2>2. ASSUME NEW c \in 1 .. m, k = n + c PROVE u[i][2] < u[k][2]
    <3>1. u[k] = t[c] /\ t[c] \in Origins(l) /\ y < t[c][2] /\ t[c][2] \in Nat
      BY <1>1, <1>2, <1>3, <1>5, <2>2
    <3>2. CASE i \in 1 .. n
      <4>1. u[i] = s[i] /\ s[i] \in Origins(l) /\ s[i][2] <= y
            /\ s[i][2] \in Nat
        BY <1>1, <1>2, <1>3, <1>5, <3>2
      <4>2. QED BY <3>1, <4>1
    <3>3. ASSUME NEW a \in 1 .. m, i = n + a PROVE u[i][2] < u[k][2]
      <4>1. u[i] = t[a] /\ a < c
        BY <1>5, <1>8, <2>2, <3>3
      <4>2. QED BY <1>1, <1>3, <3>1, <4>1
    <3>4. QED BY <1>6, <3>2, <3>3
  <2>3. QED BY <1>6, <2>1, <2>2
<1>9. ASSUME NEW q \in Origins(l), q[1] = x, lo < q[2], q[2] <= hi
      PROVE  \E k \in 1 .. n + m : u[k] = q
  <2>1. CASE q[2] <= y
    <3>1. PICK k \in 1 .. n : s[k] = q
      BY <1>1, <1>3, <1>9, <2>1
    <3>2. QED BY <1>5, <3>1
  <2>2. CASE ~(q[2] <= y)
    <3>1. y < q[2]
      BY <1>2, <2>2
    <3>2. PICK k \in 1 .. m : t[k] = q
      BY <1>1, <1>3, <1>9, <3>1
    <3>3. QED BY <1>5, <3>2
  <2>3. QED BY <2>1, <2>2
<1>10. Lists(l, x, lo, hi, u)
  BY <1>4, <1>7, <1>8, <1>9 DEF Lists
<1>11. QED BY <1>10 DEF u
-----------------------------------------------------------------------------
(* No cell crosses the edge of a pane, so that both counters begin at 0.   *)
LEMMA EdgeCounts ==
  ASSUME NEW l \in Layouts, WellFormed(l), NEW x, NEW lo
  PROVE  /\ lo \in {0, l.fixedCol} => Counts(Across(l, x), lo, 0)
         /\ lo \in {0, l.fixedRow} => Counts(Down(l, x), lo, 0)
<1>1. l.fixedRow \in Nat /\ l.fixedCol \in Nat
  BY LayoutsAssumption
<1>2. ASSUME NEW q \in DOMAIN l.span
      PROVE  /\ lo \in {0, l.fixedCol} =>
                  ~(q[2] <= lo /\ lo < q[2] + l.span[q][2] - 1)
             /\ lo \in {0, l.fixedRow} =>
                  ~(q[1] <= lo /\ lo < q[1] + l.span[q][1] - 1)
  <2>1. PICK q1 \in Nat \ {0}, q2 \in Nat \ {0}, rs \in Nat \ {0},
             cs \in Nat \ {0} :
          /\ q1 = q[1] /\ q2 = q[2] /\ rs = l.span[q][1] /\ cs = l.span[q][2]
          /\ Covered(l, q) = (q1 .. q1 + rs - 1) \X (q2 .. q2 + cs - 1)
    <3>1. /\ q[1] \in Nat \ {0} /\ q[2] \in Nat \ {0}
          /\ l.span[q][1] \in Nat \ {0} /\ l.span[q][2] \in Nat \ {0}
          /\ SpanOf(l, q) = l.span[q]
      BY SpansAre
    <3>2. QED BY <3>1 DEF Covered
  <2>2. \A p \in Covered(l, q) : /\ (q1 <= l.fixedRow) = (p[1] <= l.fixedRow)
                                 /\ (q2 <= l.fixedCol) = (p[2] <= l.fixedCol)
    BY <2>1 DEF WellFormed
  <2>3. <<q1 + rs - 1, q2 + cs - 1>> \in Covered(l, q)
    BY <2>1
  <2>4. /\ (q1 <= l.fixedRow) = (q1 + rs - 1 <= l.fixedRow)
        /\ (q2 <= l.fixedCol) = (q2 + cs - 1 <= l.fixedCol)
    BY <2>2, <2>3
  <2>5. lo \in {0, l.fixedCol} => ~(q2 <= lo /\ lo < q2 + cs - 1)
    BY <1>1, <2>4
  <2>6. lo \in {0, l.fixedRow} => ~(q1 <= lo /\ lo < q1 + rs - 1)
    BY <1>1, <2>4
  <2>7. QED BY <2>1, <2>5, <2>6
<1>3. ASSUME lo \in {0, l.fixedCol} PROVE Counts(Across(l, x), lo, 0)
  <2>1. \A a \in Across(l, x) : ~(a.first <= lo /\ lo < a.last)
    BY <1>2, <1>3 DEF Across
  <2>2. QED BY <2>1 DEF Counts
<1>4. ASSUME lo \in {0, l.fixedRow} PROVE Counts(Down(l, x), lo, 0)
  <2>1. \A a \in Down(l, x) : ~(a.first <= lo /\ lo < a.last)
    BY <1>2, <1>4 DEF Down
  <2>2. QED BY <2>1 DEF Counts
<1>5. QED BY <1>3, <1>4

FirstRow(l, pane) == IF IsTop(pane) THEN 0 ELSE l.fixedRow
FirstCol(l, pane) == IF IsLeft(pane) THEN 0 ELSE l.fixedCol

(* A row of a pane, column by column.                                      *)
RowRun(l, pane, i, rowjoined, f) ==
  /\ PopulateRow(l, pane, i, rowjoined) = f[PaneCols(l, pane)]
  /\ f[0] = [tds |-> <<>>, coljoined |-> 0, rowjoined |-> rowjoined]
  /\ \A j \in 1 .. PaneCols(l, pane) :
       f[j] = PopulateCell(l,
                <<IF IsTop(pane) THEN i ELSE i + l.fixedRow,
                  IF IsLeft(pane) THEN j ELSE j + l.fixedCol>>,
                j, f[j - 1])

(* The function inside PopulateRow, one column after the other.            *)
LEMMA PopulateRowRuns ==
  ASSUME NEW l \in Layouts, NEW pane, NEW i, NEW rowjoined,
         PaneCols(l, pane) \in Nat
  PROVE  \E f : RowRun(l, pane, i, rowjoined, f)
<1> DEFINE n == PaneCols(l, pane)
<1> DEFINE row == IF IsTop(pane) THEN i ELSE i + l.fixedRow
<1> DEFINE At(j) == <<row, IF IsLeft(pane) THEN j ELSE j + l.fixedCol>>
<1> DEFINE base == [tds |-> <<>>, coljoined |-> 0, rowjoined |-> rowjoined]
<1> DEFINE upTo[j \in 0 .. PaneCols(l, pane)] ==
             IF j = 0 THEN base ELSE PopulateCell(l, At(j), j, upTo[j - 1])
<1>1. PopulateRow(l, pane, i, rowjoined) = upTo[n]
  BY DEF PopulateRow
<1> DEFINE S == {k \in Nat : \E f :
                   f = [j \in 0 .. k |->
                          IF j = 0 THEN base
                          ELSE PopulateCell(l, At(j), j, f[j - 1])]}
<1> HIDE DEF At, base
<1>2. n \in Nat
  OBVIOUS
<1>3. 0 \in S
  <2> DEFINE f == [j \in 0 .. 0 |-> base]
  <2>1. f = [j \in 0 .. 0 |->
               IF j = 0 THEN base ELSE PopulateCell(l, At(j), j, f[j - 1])]
    OBVIOUS
  <2> HIDE DEF f
  <2>2. QED BY <2>1
<1>4. ASSUME NEW k \in Nat, k \in S PROVE k + 1 \in S
  <2>1. PICK f : f = [j \in 0 .. k |->
                        IF j = 0 THEN base
                        ELSE PopulateCell(l, At(j), j, f[j - 1])]
    BY <1>4
  <2> DEFINE h == [j \in 0 .. k + 1 |->
                     IF j = k + 1 THEN PopulateCell(l, At(j), j, f[j - 1])
                     ELSE f[j]]
  <2>2. ASSUME NEW j \in 0 .. k + 1
        PROVE  h[j] = IF j = 0 THEN base
                      ELSE PopulateCell(l, At(j), j, h[j - 1])
    <3>1. CASE j = k + 1
      <4>1. j - 1 \in 0 .. k + 1 /\ j - 1 # k + 1 /\ j # 0
        BY <3>1
      <4>2. h[j - 1] = f[j - 1] /\ h[j] = PopulateCell(l, At(j), j, f[j - 1])
        BY <3>1, <4>1
      <4>3. QED BY <4>1, <4>2
    <3>2. CASE j # k + 1
      <4>1. j \in 0 .. k
        BY <3>2
      <4>2. f[j] = IF j = 0 THEN base
                   ELSE PopulateCell(l, At(j), j, f[j - 1])
        BY <2>1, <4>1
      <4>3. h[j] = f[j]
        BY <3>2
      <4>4. CASE j = 0
        BY <4>2, <4>3, <4>4
      <4>5. CASE j # 0
        <5>1. j - 1 \in 0 .. k + 1 /\ j - 1 # k + 1
          BY <3>2, <4>5
        <5>2. h[j - 1] = f[j - 1]
          BY <5>1
        <5>3. QED BY <4>2, <4>3, <4>5, <5>2
      <4>6. QED BY <4>4, <4>5
    <3>3. QED BY <3>1, <3>2
  <2>3. h = [j \in 0 .. k + 1 |-> h[j]]
    OBVIOUS
  <2> HIDE DEF h
  <2>4. h = [j \in 0 .. k + 1 |->
               IF j = 0 THEN base ELSE PopulateCell(l, At(j), j, h[j - 1])]
    BY <2>2, <2>3
  <2>5. k + 1 \in Nat
    OBVIOUS
  <2>6. QED BY <2>4, <2>5
<1>5. n \in S
  <2> HIDE DEF S
  <2>1. QED BY <1>3, <1>4, <1>2, Every
<1>6. PICK h : h = [j \in 0 .. n |->
                      IF j = 0 THEN base
                      ELSE PopulateCell(l, At(j), j, h[j - 1])]
  BY <1>5
<1> HIDE DEF S
<1>7. upTo = [j \in 0 .. PaneCols(l, pane) |->
                IF j = 0 THEN base
                ELSE PopulateCell(l, At(j), j, upTo[j - 1])]
  BY <1>6, Zenon DEF n
<1> HIDE DEF upTo
<1> HIDE DEF n
<1>8. 0 \in 0 .. n /\ \A j \in 1 .. n : j \in 0 .. n /\ j # 0
  BY <1>2
<1>9. upTo[0] = base
  BY <1>7, <1>8 DEF n
<1>10. \A j \in 1 .. n : upTo[j] = PopulateCell(l, At(j), j, upTo[j - 1])
  BY <1>7, <1>8 DEF n
<1>11. QED BY <1>1, <1>9, <1>10 DEF At, base, n, RowRun

(* A row of a pane lists its cells from left to right, and leaves the      *)
(* counters of its columns exact.                                          *)
LEMMA PopulateRowIs ==
  ASSUME NEW l \in Layouts, WellFormed(l), NEW pane,
         NEW n \in Nat, n = PaneCols(l, pane),
         NEW lo \in Nat, lo = FirstCol(l, pane),
         n # 0 => lo + n <= l.cols,
         NEW i \in Nat, NEW x \in 1 .. l.rows, x = FirstRow(l, pane) + i,
         NEW rowjoined \in [1 .. n -> Int],
         \A j \in 1 .. n : Counts(Down(l, lo + j), x - 1, rowjoined[j])
  PROVE  /\ Lists(l, x, lo, lo + n, PopulateRow(l, pane, i, rowjoined).tds)
         /\ PopulateRow(l, pane, i, rowjoined).rowjoined \in [1 .. n -> Int]
         /\ \A j \in 1 .. n :
              Counts(Down(l, lo + j), x,
                     PopulateRow(l, pane, i, rowjoined).rowjoined[j])
<1>1. /\ l.rows \in Nat /\ l.cols \in Nat /\ l.fixedRow \in Nat
      /\ l.fixedCol \in Nat /\ x \in Nat
  BY LayoutsAssumption
<1>2. PICK f : RowRun(l, pane, i, rowjoined, f)
  BY PopulateRowRuns
<1>3. ASSUME NEW j \in 1 .. n
      PROVE  f[j] = PopulateCell(l, <<x, lo + j>>, j, f[j - 1])
  <2>1. (IF IsTop(pane) THEN i ELSE i + l.fixedRow) = x
    BY <1>1 DEF FirstRow
  <2>2. (IF IsLeft(pane) THEN j ELSE j + l.fixedCol) = lo + j
    BY <1>1 DEF FirstCol
  <2>3. QED BY <1>2, <2>1, <2>2 DEF RowRun
<1> DEFINE R == CellStates(l, n)
<1> DEFINE Good(d, j) ==
       /\ d \in R
       /\ Lists(l, x, lo, lo + j, d.tds)
       /\ Counts(Across(l, x), lo + j, d.coljoined)
       /\ \A k \in 1 .. n :
            Counts(Down(l, lo + k), IF k <= j THEN x ELSE x - 1, d.rowjoined[k])
<1> DEFINE S == {j \in Nat : j <= n => Good(f[j], j)}
<1>4. 0 \in S
  <2>1. /\ f[0] \in R /\ f[0].tds = <<>> /\ f[0].coljoined = 0
        /\ f[0].rowjoined = rowjoined
    BY <1>2 DEF RowRun, CellStates
  <2>2. lo + 0 = lo /\ \A k \in 1 .. n : ~(k <= 0)
    OBVIOUS
  <2>3. Counts(Across(l, x), lo, 0)
    <3>1. lo \in {0, l.fixedCol}
      BY DEF FirstCol
    <3>2. QED BY <3>1, EdgeCounts
  <2>4. Lists(l, x, lo, lo, <<>>)
    <3>1. \A p \in Origins(l) : ~(lo < p[2] /\ p[2] <= lo)
      <4>1. \A p \in Origins(l) : p[2] \in Nat
        BY PositionIs DEF Origins
      <4>2. QED BY <4>1
    <3>2. <<>> \in Seq(Positions(l)) /\ Len(<<>>) = 0 /\ 1 .. 0 = {}
      OBVIOUS
    <3>3. QED BY <3>1, <3>2 DEF Lists
  <2>5. Good(f[0], 0)
    BY <2>1, <2>2, <2>3, <2>4
  <2> HIDE DEF Good
  <2>6. QED BY <2>5
<1>5. ASSUME NEW j \in Nat, j \in S PROVE j + 1 \in S
  <2>1. SUFFICES ASSUME j + 1 <= n PROVE Good(f[j + 1], j + 1)
    OBVIOUS
  <2>2. /\ j + 1 \in 1 .. n /\ j <= n /\ (j + 1) - 1 = j
        /\ lo + (j + 1) \in 1 .. l.cols /\ (lo + (j + 1)) - 1 = lo + j
        /\ lo + (j + 1) = (lo + j) + 1 /\ lo + j \in Nat /\ lo <= lo + j
    <3> HIDE DEF S
    <3>1. PICK c \in Nat : c = l.cols /\ (n # 0 => lo + n <= c)
      BY <1>1
    <3>2. j + 1 \in 1 .. n /\ j <= n /\ (j + 1) - 1 = j
      BY <2>1
    <3>3. lo + (j + 1) \in 1 .. c
      BY <2>1, <3>1, SMTT(40)
    <3>4. /\ (lo + (j + 1)) - 1 = lo + j /\ lo <= lo + j
          /\ lo + (j + 1) = (lo + j) + 1 /\ lo + j \in Nat
      OBVIOUS
    <3>5. QED BY <3>1, <3>2, <3>3, <3>4
  <2>3. Good(f[j], j)
    BY <1>5, <2>2
  <2>4. f[j + 1] = PopulateCell(l, <<x, lo + (j + 1)>>, j + 1, f[j])
    BY <1>3, <2>2
  <2> DEFINE p == <<x, lo + (j + 1)>>
  <2> DEFINE d == f[j]
  <2> DEFINE e == f[j + 1]
  <2>5. p \in Positions(l) /\ p[1] = x /\ p[2] = lo + (j + 1)
    BY <2>2 DEF Positions
  <2>6. Reaching(l, n, p, j + 1, d)
    <3>1. d \in R /\ Counts(Across(l, x), lo + j, d.coljoined)
      BY <2>3
    <3>2. Counts(Down(l, lo + (j + 1)), x - 1, d.rowjoined[j + 1])
      <4>1. ~(j + 1 <= j)
        OBVIOUS
      <4>2. QED BY <2>2, <2>3, <4>1
    <3>3. QED BY <2>2, <2>5, <3>1, <3>2 DEF Reaching
  <2>7. e = PopulateCell(l, p, j + 1, d)
    BY <2>4
  <2> HIDE DEF p, d, e
  <2>8. /\ e \in R
        /\ e.tds = IF p \in Origins(l) THEN Append(d.tds, p) ELSE d.tds
        /\ Counts(Across(l, p[1]), p[2], e.coljoined)
        /\ Counts(Down(l, p[2]), p[1], e.rowjoined[j + 1])
        /\ \A k \in 1 .. n : k # j + 1 => e.rowjoined[k] = d.rowjoined[k]
    <3>1. Leaving(l, n, p, j + 1, d, PopulateCell(l, p, j + 1, d))
      BY <2>2, <2>5, <2>6, PopulateCellIs
    <3>2. QED BY <2>7, <3>1 DEF Leaving
  <2>9. Lists(l, x, lo, lo + (j + 1), e.tds)
    <3>1. Lists(l, x, lo, lo + j, d.tds)
      BY <2>3 DEF d
    <3>2. p[2] = (lo + j) + 1
      BY <2>2, <2>5
    <3>3. Lists(l, x, lo, (lo + j) + 1,
                IF p \in Origins(l) THEN Append(d.tds, p) ELSE d.tds)
      BY <2>2, <2>5, <3>1, <3>2, ListsNext
    <3>4. QED BY <2>2, <2>8, <3>3
  <2>10. ASSUME NEW k \in 1 .. n
         PROVE  Counts(Down(l, lo + k), IF k <= j + 1 THEN x ELSE x - 1,
                       e.rowjoined[k])
    <3>1. CASE k = j + 1
      <4>1. k <= j + 1
        BY <3>1
      <4>2. QED BY <2>5, <2>8, <3>1, <4>1
    <3>2. CASE k # j + 1
      <4>1. k <= j + 1 <=> k <= j
        BY <3>2
      <4>2. Counts(Down(l, lo + k), IF k <= j THEN x ELSE x - 1, d.rowjoined[k])
        BY <2>3 DEF d
      <4>3. QED BY <2>8, <3>2, <4>1, <4>2
    <3>3. QED BY <3>1, <3>2
  <2>11. Counts(Across(l, x), lo + (j + 1), e.coljoined)
    BY <2>5, <2>8
  <2>12. Good(e, j + 1)
    BY <2>8, <2>9, <2>10, <2>11
  <2>13. QED BY <2>12 DEF e
<1>6. n \in S
  <2> HIDE DEF S
  <2>1. QED BY <1>4, <1>5, Every
<1>7. Good(f[n], n)
  <2> HIDE DEF Good
  <2>1. n <= n
    OBVIOUS
  <2>2. QED BY <1>6, <2>1
<1>8. \A k \in 1 .. n : k <= n
  OBVIOUS
<1>9. PopulateRow(l, pane, i, rowjoined) = f[n]
  BY <1>2 DEF RowRun
<1>10. /\ Lists(l, x, lo, lo + n, f[n].tds)
       /\ f[n].rowjoined \in [1 .. n -> Int]
       /\ \A k \in 1 .. n : Counts(Down(l, lo + k), x, f[n].rowjoined[k])
  BY <1>7, <1>8 DEF CellStates
<1>11. QED BY <1>9, <1>10
-----------------------------------------------------------------------------
(* The rows of a pane.                                                     *)
PaneRow(l, pane, i, done) ==
  [rows |-> Append(done.rows, PopulateRow(l, pane, i, done.rowjoined).tds),
   rowjoined |-> PopulateRow(l, pane, i, done.rowjoined).rowjoined]

PaneRun(l, pane, f) ==
  /\ Render(l, pane) = f[PaneRows(l, pane)].rows
  /\ f[0] = [rows |-> <<>>, rowjoined |-> [j \in 1 .. PaneCols(l, pane) |-> 0]]
  /\ \A i \in 1 .. PaneRows(l, pane) : f[i] = PaneRow(l, pane, i, f[i - 1])

(* The function inside Render, one row after the other.                    *)
LEMMA RenderRuns ==
  ASSUME NEW l \in Layouts, NEW pane, PaneRows(l, pane) \in Nat
  PROVE  \E f : PaneRun(l, pane, f)
<1> DEFINE n == PaneRows(l, pane)
<1> DEFINE base == [rows |-> <<>>,
                    rowjoined |-> [j \in 1 .. PaneCols(l, pane) |-> 0]]
<1> DEFINE upTo[j \in 0 .. n] ==
             IF j = 0 THEN base ELSE PaneRow(l, pane, j, upTo[j - 1])
<1>1. Render(l, pane) = upTo[n].rows
  BY DEF Render, PaneRow
<1> DEFINE S == {k \in Nat : \E f :
                   f = [j \in 0 .. k |->
                          IF j = 0 THEN base ELSE PaneRow(l, pane, j, f[j - 1])]}
<1> HIDE DEF base
<1>2. n \in Nat
  OBVIOUS
<1>3. 0 \in S
  <2> DEFINE f == [j \in 0 .. 0 |-> base]
  <2>1. f = [j \in 0 .. 0 |->
               IF j = 0 THEN base ELSE PaneRow(l, pane, j, f[j - 1])]
    OBVIOUS
  <2> HIDE DEF f
  <2>2. QED BY <2>1
<1>4. ASSUME NEW k \in Nat, k \in S PROVE k + 1 \in S
  <2>1. PICK f : f = [j \in 0 .. k |->
                        IF j = 0 THEN base ELSE PaneRow(l, pane, j, f[j - 1])]
    BY <1>4
  <2> DEFINE h == [j \in 0 .. k + 1 |->
                     IF j = k + 1 THEN PaneRow(l, pane, j, f[j - 1]) ELSE f[j]]
  <2>2. ASSUME NEW j \in 0 .. k + 1
        PROVE  h[j] = IF j = 0 THEN base ELSE PaneRow(l, pane, j, h[j - 1])
    <3>1. CASE j = k + 1
      <4>1. j # 0 /\ j - 1 \in 0 .. k + 1 /\ j - 1 # k + 1
        BY <3>1
      <4>2. h[j - 1] = f[j - 1] /\ h[j] = PaneRow(l, pane, j, f[j - 1])
        BY <3>1, <4>1
      <4>3. QED BY <4>1, <4>2
    <3>2. CASE j = 0
      BY <2>1, <3>2
    <3>3. CASE j # k + 1 /\ j # 0
      <4>1. j \in 0 .. k /\ j - 1 \in 0 .. k + 1 /\ j - 1 # k + 1
        BY <3>3
      <4>2. h[j - 1] = f[j - 1] /\ h[j] = f[j]
        BY <3>3, <4>1
      <4>3. f[j] = PaneRow(l, pane, j, f[j - 1])
        BY <2>1, <3>3, <4>1
      <4>4. QED BY <3>3, <4>2, <4>3
    <3>4. QED BY <3>1, <3>2, <3>3
  <2>3. h = [j \in 0 .. k + 1 |-> h[j]]
    OBVIOUS
  <2> HIDE DEF h
  <2>4. h = [j \in 0 .. k + 1 |->
               IF j = 0 THEN base ELSE PaneRow(l, pane, j, h[j - 1])]
    BY <2>2, <2>3
  <2>5. k + 1 \in Nat
    OBVIOUS
  <2>6. QED BY <2>4, <2>5
<1>5. n \in S
  <2> HIDE DEF S
  <2>1. QED BY <1>2, <1>3, <1>4, Every
<1>6. PICK h : h = [j \in 0 .. n |->
                      IF j = 0 THEN base ELSE PaneRow(l, pane, j, h[j - 1])]
  BY <1>5
<1> HIDE DEF S, n
<1>7. upTo = [j \in 0 .. n |->
                IF j = 0 THEN base ELSE PaneRow(l, pane, j, upTo[j - 1])]
  BY <1>6, Zenon
<1> HIDE DEF upTo
<1>8. 0 \in 0 .. n /\ \A j \in 1 .. n : j \in 0 .. n /\ j # 0
  BY <1>2
<1>9. upTo[0] = base
  BY <1>7, <1>8
<1>10. \A j \in 1 .. n : upTo[j] = PaneRow(l, pane, j, upTo[j - 1])
  BY <1>7, <1>8
<1>11. QED BY <1>1, <1>9, <1>10 DEF PaneRun, base, n
(* A pane is part of the grid, or empty.                                   *)
LEMMA PaneIs ==
  ASSUME NEW l \in Layouts, NEW pane
  PROVE  /\ PaneRows(l, pane) \in Nat /\ PaneCols(l, pane) \in Nat
         /\ FirstRow(l, pane) \in Nat /\ FirstCol(l, pane) \in Nat
         /\ PaneRows(l, pane) # 0 =>
              FirstRow(l, pane) + PaneRows(l, pane) <= l.rows
         /\ PaneCols(l, pane) # 0 =>
              FirstCol(l, pane) + PaneCols(l, pane) <= l.cols
<1>1. PICK r \in Nat, c \in Nat, fr \in Nat, fc \in Nat :
        r = l.rows /\ c = l.cols /\ fr = l.fixedRow /\ fc = l.fixedCol
  BY LayoutsAssumption
<1>2. /\ PaneRows(l, pane) = IF IsTop(pane) THEN IF r <= fr THEN r ELSE fr
                             ELSE IF r <= fr THEN 0 ELSE r - fr
      /\ PaneCols(l, pane) = IF IsLeft(pane) THEN IF c <= fc THEN c ELSE fc
                             ELSE IF c <= fc THEN 0 ELSE c - fc
      /\ FirstRow(l, pane) = IF IsTop(pane) THEN 0 ELSE fr
      /\ FirstCol(l, pane) = IF IsLeft(pane) THEN 0 ELSE fc
  BY <1>1 DEF PaneRows, PaneCols, FirstRow, FirstCol
<1>3. CASE IsTop(pane)
  BY <1>1, <1>2, <1>3
<1>4. CASE ~IsTop(pane)
  BY <1>1, <1>2, <1>4
<1>5. QED BY <1>3, <1>4

(* A pane has, row by row, the cells that begin in it.                     *)
LEMMA RenderIs ==
  ASSUME NEW l \in Layouts, WellFormed(l), NEW pane,
         NEW i \in 1 .. PaneRows(l, pane)
  PROVE  Lists(l, FirstRow(l, pane) + i, FirstCol(l, pane),
               FirstCol(l, pane) + PaneCols(l, pane), Render(l, pane)[i])
<1>1. PICK m \in Nat, n \in Nat, top \in Nat, lo \in Nat, last \in Nat :
        /\ m = PaneRows(l, pane) /\ n = PaneCols(l, pane)
        /\ top = FirstRow(l, pane) /\ lo = FirstCol(l, pane)
        /\ last = l.rows
        /\ m # 0 => top + m <= last
        /\ n # 0 => lo + n <= l.cols
  BY PaneIs, LayoutsAssumption
<1>2. PICK f : PaneRun(l, pane, f)
  BY <1>1, RenderRuns
<1>3. /\ Render(l, pane) = f[m].rows
      /\ f[0] = [rows |-> <<>>, rowjoined |-> [j \in 1 .. n |-> 0]]
      /\ \A k \in 1 .. m : f[k] = PaneRow(l, pane, k, f[k - 1])
  BY <1>1, <1>2 DEF PaneRun
<1> DEFINE Good(d, k) ==
      /\ d.rowjoined \in [1 .. n -> Int]
      /\ \A j \in 1 .. n : Counts(Down(l, lo + j), top + k, d.rowjoined[j])
      /\ d.rows \in Seq(Seq(Positions(l))) /\ Len(d.rows) = k
      /\ \A h \in 1 .. k : Lists(l, top + h, lo, lo + n, d.rows[h])
<1> DEFINE S == {k \in Nat : k <= m => Good(f[k], k)}
<1>4. 0 \in S
  <2>1. /\ f[0].rowjoined = [j \in 1 .. n |-> 0] /\ f[0].rows = <<>>
    BY <1>3
  <2>2. top + 0 = top /\ top \in {0, l.fixedRow}
    BY <1>1 DEF FirstRow
  <2>3. \A j \in 1 .. n : Counts(Down(l, lo + j), top, 0)
    BY <2>2, EdgeCounts
  <2>4. <<>> \in Seq(Seq(Positions(l))) /\ Len(<<>>) = 0 /\ 1 .. 0 = {}
    OBVIOUS
  <2>5. Good(f[0], 0)
    BY <2>1, <2>2, <2>3, <2>4
  <2> HIDE DEF Good
  <2>6. QED BY <2>5
<1>5. ASSUME NEW k \in Nat, k \in S PROVE k + 1 \in S
  <2> HIDE DEF Good
  <2>1. SUFFICES ASSUME k + 1 <= m PROVE Good(f[k + 1], k + 1)
    OBVIOUS
  <2> HIDE DEF S
  <2>2. /\ k + 1 \in 1 .. m /\ k <= m /\ (k + 1) - 1 = k /\ k + 1 \in Nat
        /\ top + (k + 1) \in 1 .. last /\ (top + (k + 1)) - 1 = top + k
    BY <1>1, <2>1
  <2>3. Good(f[k], k)
    BY <1>5, <2>2 DEF S
  <2> DEFINE d == f[k]
  <2> DEFINE row == PopulateRow(l, pane, k + 1, d.rowjoined)
  <2>4. f[k + 1] = [rows |-> Append(d.rows, row.tds), rowjoined |-> row.rowjoined]
    BY <1>3, <2>2 DEF PaneRow
  <2>5. /\ d.rowjoined \in [1 .. n -> Int]
        /\ \A j \in 1 .. n : Counts(Down(l, lo + j), top + k, d.rowjoined[j])
        /\ d.rows \in Seq(Seq(Positions(l))) /\ Len(d.rows) = k
        /\ \A h \in 1 .. k : Lists(l, top + h, lo, lo + n, d.rows[h])
    BY <2>3 DEF Good
  <2> HIDE DEF d
  <2>6. /\ Lists(l, top + (k + 1), lo, lo + n, row.tds)
        /\ row.rowjoined \in [1 .. n -> Int]
        /\ \A j \in 1 .. n :
             Counts(Down(l, lo + j), top + (k + 1), row.rowjoined[j])
    <3>1. PICK x \in 1 .. l.rows, i0 \in Nat :
            x = top + (k + 1) /\ i0 = k + 1 /\ x - 1 = top + k
      BY <1>1, <2>2
    <3>2. /\ x = FirstRow(l, pane) + i0 /\ lo = FirstCol(l, pane)
          /\ n = PaneCols(l, pane) /\ (n # 0 => lo + n <= l.cols)
      BY <1>1, <3>1
    <3>3. \A j \in 1 .. n : Counts(Down(l, lo + j), x - 1, d.rowjoined[j])
      BY <2>5, <3>1
    <3>4. /\ Lists(l, x, lo, lo + n, PopulateRow(l, pane, i0, d.rowjoined).tds)
          /\ PopulateRow(l, pane, i0, d.rowjoined).rowjoined \in [1 .. n -> Int]
          /\ \A j \in 1 .. n :
               Counts(Down(l, lo + j), x,
                      PopulateRow(l, pane, i0, d.rowjoined).rowjoined[j])
      BY <2>5, <3>2, <3>3, PopulateRowIs
    <3>5. QED BY <3>1, <3>4
  <2> HIDE DEF row
  <2>7. row.tds \in Seq(Positions(l))
    BY <2>6 DEF Lists
  <2> DEFINE rows == Append(d.rows, row.tds)
  <2>8. /\ rows \in Seq(Seq(Positions(l))) /\ Len(rows) = k + 1
        /\ \A h \in 1 .. k : rows[h] = d.rows[h]
        /\ rows[k + 1] = row.tds
    <3> DEFINE T == Seq(Positions(l))
    <3>1. d.rows \in Seq(T) /\ Len(d.rows) = k /\ row.tds \in T
      BY <2>5, <2>7
    <3> HIDE DEF T
    <3>2. rows \in Seq(T) /\ Len(rows) = k + 1
      BY <3>1
    <3>3. rows[k + 1] = row.tds /\ \A h \in 1 .. k : rows[h] = d.rows[h]
      BY <3>1
    <3>4. QED BY <3>2, <3>3 DEF T
  <2> HIDE DEF rows
  <2>9. ASSUME NEW h \in 1 .. k + 1
        PROVE  Lists(l, top + h, lo, lo + n, rows[h])
    <3>1. h \in 1 .. k \/ h = k + 1
      OBVIOUS
    <3>2. QED BY <2>5, <2>6, <2>8, <3>1
  <2>10. f[k + 1].rows = rows /\ f[k + 1].rowjoined = row.rowjoined
    BY <2>4 DEF rows
  <2>11. QED BY <2>6, <2>8, <2>9, <2>10 DEF Good
<1>6. m \in S
  <2> HIDE DEF S
  <2>1. QED BY <1>4, <1>5, Every
<1>7. Good(f[m], m)
  <2> HIDE DEF Good
  <2>1. m <= m
    OBVIOUS
  <2>2. QED BY <1>6, <2>1
<1>8. \A h \in 1 .. m : Lists(l, top + h, lo, lo + n, f[m].rows[h])
  BY <1>7
<1>9. QED BY <1>1, <1>3, <1>8
(* Past the last column there is nothing to list.                          *)
LEMMA ListsWide ==
  ASSUME NEW l \in Layouts, NEW x, NEW lo, NEW hi \in Nat, NEW s,
         Lists(l, x, lo, hi, s), l.cols <= hi, NEW more \in Nat, l.cols <= more
  PROVE  Lists(l, x, lo, more, s)
<1>1. \A p \in Origins(l) : p[2] \in Nat /\ p[2] <= l.cols
  BY PositionIs DEF Origins
<1>2. l.cols \in Nat
  BY LayoutsAssumption
<1>3. \A p \in Origins(l) : p[2] <= hi /\ p[2] <= more
  BY <1>1, <1>2
<1>4. QED BY <1>3 DEF Lists

RowOf(l, i, top, bottom) ==
  IF i <= l.fixedRow THEN Render(l, top)[i]
  ELSE Render(l, bottom)[i - l.fixedRow]

(* The cells of a row of the array, from the tables on both sides.         *)
LEMMA RowIs ==
  ASSUME NEW l \in Layouts, WellFormed(l), NEW i \in 1 .. l.rows
  PROVE  Lists(l, i, 0, l.cols,
               RowOf(l, i, "tl", "bl") \o RowOf(l, i, "tr", "br"))
<1>1. PICK r \in Nat, c \in Nat, fr \in Nat, fc \in Nat :
        r = l.rows /\ c = l.cols /\ fr = l.fixedRow /\ fc = l.fixedCol
  BY LayoutsAssumption
<1>2. ASSUME NEW top, NEW bottom, IsTop(top), ~IsTop(bottom),
             NEW lo, lo = FirstCol(l, top), lo = FirstCol(l, bottom),
             NEW n, n = PaneCols(l, top), n = PaneCols(l, bottom)
      PROVE  Lists(l, i, lo, lo + n, RowOf(l, i, top, bottom))
  <2>1. CASE i <= fr
    <3>1. FirstRow(l, top) + i = i
      BY <1>1, <1>2 DEF FirstRow
    <3>2. i \in 1 .. PaneRows(l, top)
      BY <1>1, <1>2, <2>1 DEF PaneRows
    <3>3. Lists(l, i, lo, lo + n, Render(l, top)[i])
      BY <1>2, <3>1, <3>2, RenderIs
    <3>4. QED BY <1>1, <2>1, <3>3 DEF RowOf
  <2>2. CASE ~(i <= fr)
    <3>1. PICK k \in Nat : k = i - fr /\ k \in 1 .. r - fr /\ fr + k = i
      BY <1>1, <2>2
    <3>2. FirstRow(l, bottom) + k = i
      BY <1>1, <1>2, <3>1 DEF FirstRow
    <3>3. k \in 1 .. PaneRows(l, bottom)
      BY <1>1, <1>2, <2>2, <3>1 DEF PaneRows
    <3>4. Lists(l, i, lo, lo + n, Render(l, bottom)[k])
      BY <1>2, <3>2, <3>3, RenderIs
    <3>5. QED BY <1>1, <2>2, <3>1, <3>4 DEF RowOf
  <2>3. QED BY <2>1, <2>2
<1>3. /\ IsTop("tl") /\ ~IsTop("bl") /\ IsTop("tr") /\ ~IsTop("br")
      /\ IsLeft("tl") /\ IsLeft("bl") /\ ~IsLeft("tr") /\ ~IsLeft("br")
  BY DEF IsTop, IsLeft
<1>4. /\ FirstCol(l, "tl") = 0 /\ FirstCol(l, "bl") = 0
      /\ FirstCol(l, "tr") = fc /\ FirstCol(l, "br") = fc
      /\ PaneCols(l, "tl") = IF c <= fc THEN c ELSE fc
      /\ PaneCols(l, "bl") = IF c <= fc THEN c ELSE fc
      /\ PaneCols(l, "tr") = IF c <= fc THEN 0 ELSE c - fc
      /\ PaneCols(l, "br") = IF c <= fc THEN 0 ELSE c - fc
  BY <1>1, <1>3 DEF FirstCol, PaneCols
<1> DEFINE s == RowOf(l, i, "tl", "bl")
<1> DEFINE t == RowOf(l, i, "tr", "br")
<1>5. Lists(l, i, 0, 0 + (IF c <= fc THEN c ELSE fc), s)
  BY <1>2, <1>3, <1>4
<1>6. Lists(l, i, fc, fc + (IF c <= fc THEN 0 ELSE c - fc), t)
  BY <1>2, <1>3, <1>4
<1> HIDE DEF s, t
<1>7. CASE c <= fc
  <2>1. Lists(l, i, 0, c, s) /\ Lists(l, i, fc, fc, t)
    BY <1>5, <1>6, <1>7
  <2>2. Lists(l, i, 0, fc, s)
    BY <1>1, <1>7, <2>1, ListsWide
  <2>3. Lists(l, i, 0, fc, s \o t)
    BY <2>1, <2>2, ListsJoin
  <2>4. QED BY <1>1, <1>7, <2>3, ListsWide DEF s, t
<1>8. CASE ~(c <= fc)
  <2>1. 0 + fc = fc /\ fc + (c - fc) = c /\ fc <= c
    BY <1>8
  <2>2. Lists(l, i, 0, fc, s) /\ Lists(l, i, fc, c, t)
    BY <1>5, <1>6, <1>8, <2>1
  <2>3. Lists(l, i, 0, c, s \o t)
    BY <2>1, <2>2, ListsJoin
  <2>4. QED BY <1>1, <2>3 DEF s, t
<1>9. QED BY <1>7, <1>8
-----------------------------------------------------------------------------
(* What setup() has entered: the cells of P, each where it belongs.        *)
Block(l, p) ==
  ((p[1] - 1) .. (p[1] - 1 + SpanOf(l, p)[1] - 1)) \X
  ((p[2] - 1) .. (p[2] - 1 + SpanOf(l, p)[2] - 1))

Entry(l, p) ==
  [row |-> p[1] - 1, col |-> p[2] - 1,
   rowSpan |-> SpanOf(l, p)[1], colSpan |-> SpanOf(l, p)[2]]

Entered(l, P, g) ==
  /\ g = [rows |-> l.rows, cols |-> g.cols, broken |-> FALSE,
          at |-> g.at, cell |-> g.cell]
  /\ DOMAIN g.at = UNION {Block(l, p) : p \in P}
  /\ \A p \in P : \A q \in Block(l, p) : g.at[q] = p
  /\ DOMAIN g.cell = P
  /\ \A p \in P : g.cell[p] = Entry(l, p)

(* Blocks are the cells, counted from 0.                                   *)
LEMMA BlockIs ==
  ASSUME NEW l \in Layouts, WellFormed(l), NEW p \in Positions(l)
  PROVE  /\ \A x, y \in Int : <<x, y>> \in Block(l, p)
                                <=> <<x + 1, y + 1>> \in Covered(l, p)
         /\ \A q \in Block(l, p) :
              /\ q = <<q[1], q[2]>> /\ q[1] \in Int /\ q[2] \in Int
              /\ <<q[1] + 1, q[2] + 1>> \in Covered(l, p)
              /\ <<q[1] + 1, q[2] + 1>> \in Positions(l)
<1>1. PICK p1 \in Nat, p2 \in Nat, rs \in Nat, cs \in Nat :
        /\ p1 = p[1] /\ p2 = p[2]
        /\ rs = SpanOf(l, p)[1] /\ cs = SpanOf(l, p)[2]
  BY PositionIs, CoveredIs
<1>2. /\ Covered(l, p) = (p1 .. p1 + rs - 1) \X (p2 .. p2 + cs - 1)
      /\ Block(l, p) = (p1 - 1 .. p1 - 1 + rs - 1) \X (p2 - 1 .. p2 - 1 + cs - 1)
  BY <1>1 DEF Covered, Block
<1>3. ASSUME NEW x \in Int, NEW y \in Int
      PROVE  <<x, y>> \in Block(l, p) <=> <<x + 1, y + 1>> \in Covered(l, p)
  <2>1. /\ x \in p1 - 1 .. p1 - 1 + rs - 1 <=> x + 1 \in p1 .. p1 + rs - 1
        /\ y \in p2 - 1 .. p2 - 1 + cs - 1 <=> y + 1 \in p2 .. p2 + cs - 1
    OBVIOUS
  <2>2. QED BY <1>2, <2>1
<1>4. \A q \in Block(l, p) : q = <<q[1], q[2]>> /\ q[1] \in Int /\ q[2] \in Int
  BY <1>2
<1>5. \A q \in Block(l, p) : <<q[1] + 1, q[2] + 1>> \in Covered(l, p)
  BY <1>3, <1>4
<1>6. Covered(l, p) \subseteq Positions(l)
  BY CoveredIs
<1>7. QED BY <1>3, <1>4, <1>5, <1>6

(* No two cells are written to one place of the array.                     *)
LEMMA BlocksApart ==
  ASSUME NEW l \in Layouts, WellFormed(l), NEW p \in Origins(l),
         NEW q \in Origins(l), NEW x \in Block(l, p), x \in Block(l, q)
  PROVE  p = q
<1>1. p \in Positions(l) /\ q \in Positions(l)
  BY DEF Origins
<1>2. /\ <<x[1] + 1, x[2] + 1>> \in Covered(l, p)
      /\ <<x[1] + 1, x[2] + 1>> \in Covered(l, q)
      /\ <<x[1] + 1, x[2] + 1>> \in Positions(l)
  BY <1>1, BlockIs
<1>3. QED BY <1>2, CoveredOnce

(* setup() enters a cell.                                                  *)
LEMMA SetupIs ==
  ASSUME NEW l \in Layouts, WellFormed(l), NEW P \in SUBSET Origins(l),
         NEW g, Entered(l, P, g), NEW p \in Origins(l), p \notin P
  PROVE  /\ Entered(l, P \cup {p}, Setup(l, p, p[1] - 1, p[2] - 1, g))
         /\ Setup(l, p, p[1] - 1, p[2] - 1, g).cols =
              IF p[1] = 1 THEN p[2] - 1 + SpanOf(l, p)[2] ELSE g.cols
<1>1. p \in Positions(l)
  BY DEF Origins
<1>2. PICK p1 \in Nat, p2 \in Nat, rs \in Nat, cs \in Nat, last \in Nat :
        /\ p1 = p[1] /\ p2 = p[2] /\ last = l.rows
        /\ rs = SpanOf(l, p)[1] /\ cs = SpanOf(l, p)[2]
        /\ p1 + rs - 1 \in 1 .. last
        /\ p1 # 0 /\ p2 # 0
        /\ cs # 1 => rs = 1
  <2>1. SpanOf(l, p)[2] # 1 => SpanOf(l, p)[1] = 1
    <3>1. CASE p \in DOMAIN l.span
      BY <3>1, SpansAre
    <3>2. CASE p \notin DOMAIN l.span
      BY <1>1, <3>2, CoveredIs
    <3>3. QED BY <3>1, <3>2
  <2>2. QED BY <1>1, <2>1, PositionIs, CoveredIs, LayoutsAssumption
<1> DEFINE next == Setup(l, p, p[1] - 1, p[2] - 1, g)
<1> DEFINE block == (p1 - 1 .. p1 - 1 + rs - 1) \X (p2 - 1 .. p2 - 1 + cs - 1)
<1>3. block = Block(l, p)
  BY <1>2 DEF Block
<1>4. (IF SpanOf(l, p)[2] # 1 THEN 1 ELSE SpanOf(l, p)[1]) = rs
  BY <1>2
<1>5. next = [g EXCEPT
                !.broken = @ \/ p1 - 1 + rs > g.rows,
                !.cols = IF p1 - 1 = 0 THEN p2 - 1 + cs ELSE @,
                !.at = Extend(@, block, p),
                !.cell = Extend(@, {p}, [row |-> p1 - 1, col |-> p2 - 1,
                                         rowSpan |-> rs, colSpan |-> cs])]
  BY <1>2, <1>4 DEF Setup
<1>6. g = [rows |-> l.rows, cols |-> g.cols, broken |-> FALSE,
           at |-> g.at, cell |-> g.cell]
  BY DEF Entered
<1>7. [row |-> p1 - 1, col |-> p2 - 1, rowSpan |-> rs, colSpan |-> cs]
        = Entry(l, p)
  BY <1>2 DEF Entry
<1> HIDE DEF block
<1>8. PICK a, b, c :
         /\ g = [rows |-> l.rows, cols |-> a, broken |-> FALSE,
                 at |-> b, cell |-> c]
         /\ a = g.cols /\ b = g.at /\ c = g.cell
  BY <1>6
<1>9. next = [rows |-> l.rows,
              cols |-> IF p1 - 1 = 0 THEN p2 - 1 + cs ELSE g.cols,
              broken |-> p1 - 1 + rs > g.rows,
              at |-> Extend(g.at, block, p),
              cell |-> Extend(g.cell, {p}, Entry(l, p))]
  <2>1. g.rows = l.rows
    BY <1>8
  <2>2. next = [g EXCEPT
                  !.broken = @ \/ p1 - 1 + rs > l.rows,
                  !.cols = IF p1 - 1 = 0 THEN p2 - 1 + cs ELSE @,
                  !.at = Extend(@, block, p),
                  !.cell = Extend(@, {p}, Entry(l, p))]
    BY <1>5, <1>7, <2>1
  <2> HIDE DEF next
  <2>3. next = [rows |-> l.rows,
                cols |-> IF p1 - 1 = 0 THEN p2 - 1 + cs ELSE a,
                broken |-> FALSE \/ p1 - 1 + rs > l.rows,
                at |-> Extend(b, block, p),
                cell |-> Extend(c, {p}, Entry(l, p))]
    BY <1>8, <2>2
  <2>4. QED BY <1>8, <2>1, <2>3
<1>10. (p1 - 1 + rs > g.rows) = FALSE /\ (p1 - 1 = 0) = (p1 = 1)
  <2>1. g.rows = last
    BY <1>2, <1>6
  <2>2. QED BY <1>2, <2>1
<1> HIDE DEF next
<1>11. DOMAIN next.at = UNION {Block(l, q) : q \in P \cup {p}}
  <2>1. DOMAIN next.at = DOMAIN g.at \cup block
    BY <1>9 DEF Extend
  <2>2. DOMAIN g.at = UNION {Block(l, q) : q \in P}
    BY DEF Entered
  <2>3. QED BY <1>3, <2>1, <2>2
<1>12. ASSUME NEW q \in P \cup {p}, NEW x \in Block(l, q)
       PROVE  next.at[x] = q
  <2>1. next.at = [y \in DOMAIN g.at \cup block |->
                     IF y \in block THEN p ELSE g.at[y]]
    BY <1>9 DEF Extend
  <2>2. CASE q = p
    BY <1>3, <1>12, <2>1, <2>2
  <2>3. CASE q # p
    <3>1. q \in P /\ q \in Origins(l)
      BY <2>3
    <3>2. x \notin block
      BY <1>3, <1>12, <2>3, <3>1, BlocksApart
    <3>3. x \in DOMAIN g.at /\ g.at[x] = q
      BY <1>12, <3>1 DEF Entered
    <3>4. QED BY <2>1, <3>2, <3>3
  <2>4. QED BY <2>2, <2>3
<1>13. /\ DOMAIN next.cell = P \cup {p}
       /\ \A q \in P \cup {p} : next.cell[q] = Entry(l, q)
  <2>1. next.cell = [y \in DOMAIN g.cell \cup {p} |->
                       IF y \in {p} THEN Entry(l, p) ELSE g.cell[y]]
    BY <1>9 DEF Extend
  <2>2. DOMAIN g.cell = P /\ \A q \in P : g.cell[q] = Entry(l, q)
    BY DEF Entered
  <2>3. QED BY <2>1, <2>2
<1>14. next = [rows |-> l.rows, cols |-> next.cols, broken |-> FALSE,
               at |-> next.at, cell |-> next.cell]
  BY <1>9, <1>10
<1>15. Entered(l, P \cup {p}, next)
  BY <1>11, <1>12, <1>13, <1>14 DEF Entered
<1>16. next.cols = IF p[1] = 1 THEN p[2] - 1 + SpanOf(l, p)[2] ELSE g.cols
  BY <1>2, <1>9, <1>10
<1>17. QED BY <1>15, <1>16 DEF next
(* The next cell of a row goes where the application put it: what is on its*)
(* left has been entered, in this row or from above.                       *)
LEMMA FreeColIs ==
  ASSUME NEW l \in Layouts, WellFormed(l), NEW P \in SUBSET Origins(l),
         NEW g, Entered(l, P, g), NEW p \in Origins(l), p \notin P,
         \A q \in Origins(l) :
           q[1] < p[1] \/ (q[1] = p[1] /\ q[2] < p[2]) => q \in P
  PROVE  FreeCol(g, p[1] - 1, 0) = p[2] - 1
<1> DEFINE D == DOMAIN g.at
<1>1. p \in Positions(l) /\ D = UNION {Block(l, q) : q \in P}
  BY DEF Origins, Entered
<1>2. PICK p1 \in Nat, p2 \in Nat, nr \in Nat, nc \in Nat :
        /\ p1 = p[1] /\ p2 = p[2] /\ p = <<p1, p2>> /\ p1 # 0 /\ p2 # 0
        /\ nr = l.rows /\ nc = l.cols /\ p1 <= nr /\ p2 <= nc
  BY <1>1, PositionIs, LayoutsAssumption
<1> DEFINE r == p1 - 1
<1> DEFINE k0 == p2 - 1
<1>3. r \in Nat /\ k0 \in Nat /\ r + 1 = p1 /\ k0 + 1 = p2
  BY <1>2
<1> HIDE DEF D, r, k0
<1>4. <<r, k0>> \notin D
  <2>1. SUFFICES ASSUME NEW q \in P, <<r, k0>> \in Block(l, q) PROVE FALSE
    BY <1>1
  <2>2. <<r, k0>> \in Block(l, p)
    BY <1>1, <1>2, <1>3, CoveredIs, BlockIs
  <2>3. q \in Origins(l)
    OBVIOUS
  <2>4. q = p
    BY <2>1, <2>2, <2>3, BlocksApart
  <2>5. QED BY <2>4
<1>5. ASSUME NEW m \in 0 .. k0 - 1 PROVE <<r, m>> \in D
  <2>1. /\ m \in Nat /\ m + 1 < p2 /\ p1 \in 1 .. nr /\ m + 1 \in 1 .. nc
    BY <1>2, <1>3
  <2>2. <<p1, m + 1>> \in Positions(l)
    BY <1>2, <2>1 DEF Positions
  <2>3. PICK q \in Origins(l) : <<p1, m + 1>> \in Covered(l, q)
    BY <2>2, CoveredOnce
  <2>4. q \in Positions(l)
    BY DEF Origins
  <2>5. q[1] \in Nat /\ q[2] \in Nat /\ q[1] <= p1 /\ q[2] <= m + 1
    BY <2>3, <2>4, PositionIs DEF Covered
  <2>6. q[1] < p[1] \/ (q[1] = p[1] /\ q[2] < p[2])
    BY <1>2, <2>1, <2>5
  <2>7. q \in P
    BY <2>6
  <2>8. <<r, m>> \in Block(l, q)
    BY <1>3, <2>1, <2>3, <2>4, BlockIs
  <2>9. QED BY <1>1, <2>7, <2>8
<1>6. IsFiniteSet(D)
  <2>1. D \subseteq (0 .. nr - 1) \X (0 .. nc - 1)
    <3>1. SUFFICES ASSUME NEW q \in P, NEW x \in Block(l, q)
                   PROVE  x \in (0 .. nr - 1) \X (0 .. nc - 1)
      BY <1>1
    <3>2. q \in Positions(l)
      BY DEF Origins
    <3>3. /\ x = <<x[1], x[2]>> /\ x[1] \in Int /\ x[2] \in Int
          /\ <<x[1] + 1, x[2] + 1>> \in Positions(l)
      BY <3>2, BlockIs
    <3>4. x[1] + 1 \in 1 .. nr /\ x[2] + 1 \in 1 .. nc
      BY <1>2, <3>3 DEF Positions
    <3>5. x[1] \in 0 .. nr - 1 /\ x[2] \in 0 .. nc - 1
      BY <3>3, <3>4
    <3>6. QED BY <3>3, <3>5
  <2>2. nr - 1 \in Int /\ nc - 1 \in Int
    OBVIOUS
  <2>3. IsFiniteSet(0 .. nr - 1) /\ IsFiniteSet(0 .. nc - 1)
    BY <2>2, FS_Interval
  <2>4. IsFiniteSet((0 .. nr - 1) \X (0 .. nc - 1))
    BY <2>3, FS_Product
  <2>5. QED BY <2>1, <2>4, FS_Subset
<1>7. k0 \in 0 .. (0 + Cardinality(D))
  <2> DEFINE left == {r} \X (0 .. k0 - 1)
  <2>1. left \subseteq D
    BY <1>5
  <2>2. Cardinality(left) <= Cardinality(D)
    BY <1>6, <2>1, FS_Subset
  <2>3. IsFiniteSet(0 .. k0 - 1) /\ Cardinality(0 .. k0 - 1) = k0
    <3>1. k0 - 1 \in Int /\ (IF 0 > k0 - 1 THEN 0 ELSE k0 - 1 - 0 + 1) = k0
      BY <1>3
    <3>2. QED BY <3>1, FS_Interval
  <2>4. IsFiniteSet({r}) /\ Cardinality({r}) = 1
    BY FS_Singleton
  <2>5. Cardinality(left) = k0
    <3>1. Cardinality(left) = Cardinality({r}) * Cardinality(0 .. k0 - 1)
      BY <2>3, <2>4, FS_Product
    <3>2. 1 * k0 = k0
      BY <1>3
    <3> HIDE DEF left
    <3>3. QED BY <2>3, <2>4, <3>1, <3>2
  <2>6. Cardinality(D) \in Nat
    BY <1>6, FS_CardinalityType
  <2> HIDE DEF left
  <2>7. QED BY <1>3, <2>2, <2>5, <2>6
<1>8. ASSUME NEW k \in 0 .. (0 + Cardinality(D)), <<r, k>> \notin D,
             \A m \in 0 .. (k - 1) : <<r, m>> \in D
      PROVE  k = k0
  <2>1. k \in Nat
    BY <1>6, FS_CardinalityType
  <2>2. k < k0 => k \in 0 .. k0 - 1
    BY <1>3, <2>1
  <2>3. k0 < k => k0 \in 0 .. k - 1
    BY <1>3, <2>1
  <2>4. ~(k < k0) /\ ~(k0 < k)
    BY <1>4, <1>5, <1>8, <2>2, <2>3
  <2>5. QED BY <1>3, <2>1, <2>4
<1>9. FreeCol(g, r, 0) = CHOOSE k \in 0 .. (0 + Cardinality(D)) :
                           /\ <<r, k>> \notin D
                           /\ \A m \in 0 .. (k - 1) : <<r, m>> \in D
  BY DEF FreeCol, D
<1>10. FreeCol(g, r, 0) = k0
  BY <1>4, <1>5, <1>7, <1>8, <1>9
<1>11. QED BY <1>2, <1>10 DEF r, k0
(* A row of the array, cell by cell.                                       *)
EnterNext(l, tds, r, k, g) == Setup(l, tds[k], r, FreeCol(g, r, 0), g)

EnterRun(l, tds, r, g, f) ==
  /\ SetupRow(l, tds, r, g) = f[Len(tds)]
  /\ f[0] = g
  /\ \A k \in 1 .. Len(tds) : f[k] = EnterNext(l, tds, r, k, f[k - 1])

(* The function inside SetupRow, one cell after the other.                 *)
LEMMA SetupRowRuns ==
  ASSUME NEW l \in Layouts, NEW tds, NEW r, NEW g, Len(tds) \in Nat
  PROVE  \E f : EnterRun(l, tds, r, g, f)
<1> DEFINE n == Len(tds)
<1> DEFINE upTo[j \in 0 .. n] ==
             IF j = 0 THEN g ELSE EnterNext(l, tds, r, j, upTo[j - 1])
<1>1. SetupRow(l, tds, r, g) = upTo[n]
  BY DEF SetupRow, EnterNext
<1> DEFINE S == {k \in Nat : \E f :
                   f = [j \in 0 .. k |->
                          IF j = 0 THEN g ELSE EnterNext(l, tds, r, j, f[j - 1])]}
<1>2. n \in Nat
  OBVIOUS
<1>3. 0 \in S
  <2> DEFINE f == [j \in 0 .. 0 |-> g]
  <2>1. f = [j \in 0 .. 0 |->
               IF j = 0 THEN g ELSE EnterNext(l, tds, r, j, f[j - 1])]
    OBVIOUS
  <2> HIDE DEF f
  <2>2. QED BY <2>1
<1>4. ASSUME NEW k \in Nat, k \in S PROVE k + 1 \in S
  <2>1. PICK f : f = [j \in 0 .. k |->
                        IF j = 0 THEN g ELSE EnterNext(l, tds, r, j, f[j - 1])]
    BY <1>4
  <2> DEFINE h == [j \in 0 .. k + 1 |->
                     IF j = k + 1 THEN EnterNext(l, tds, r, j, f[j - 1]) ELSE f[j]]
  <2>2. ASSUME NEW j \in 0 .. k + 1
        PROVE  h[j] = IF j = 0 THEN g ELSE EnterNext(l, tds, r, j, h[j - 1])
    <3>1. CASE j = k + 1
      <4>1. j # 0 /\ j - 1 \in 0 .. k + 1 /\ j - 1 # k + 1
        BY <3>1
      <4>2. h[j - 1] = f[j - 1] /\ h[j] = EnterNext(l, tds, r, j, f[j - 1])
        BY <3>1, <4>1
      <4>3. QED BY <4>1, <4>2
    <3>2. CASE j = 0
      BY <2>1, <3>2
    <3>3. CASE j # k + 1 /\ j # 0
      <4>1. j \in 0 .. k /\ j - 1 \in 0 .. k + 1 /\ j - 1 # k + 1
        BY <3>3
      <4>2. h[j - 1] = f[j - 1] /\ h[j] = f[j]
        BY <3>3, <4>1
      <4>3. f[j] = EnterNext(l, tds, r, j, f[j - 1])
        BY <2>1, <3>3, <4>1
      <4>4. QED BY <3>3, <4>2, <4>3
    <3>4. QED BY <3>1, <3>2, <3>3
  <2>3. h = [j \in 0 .. k + 1 |-> h[j]]
    OBVIOUS
  <2> HIDE DEF h
  <2>4. h = [j \in 0 .. k + 1 |->
               IF j = 0 THEN g ELSE EnterNext(l, tds, r, j, h[j - 1])]
    BY <2>2, <2>3
  <2>5. k + 1 \in Nat
    OBVIOUS
  <2>6. QED BY <2>4, <2>5
<1>5. n \in S
  <2> HIDE DEF S
  <2>1. QED BY <1>2, <1>3, <1>4, Every
<1>6. PICK h : h = [j \in 0 .. n |->
                      IF j = 0 THEN g ELSE EnterNext(l, tds, r, j, h[j - 1])]
  BY <1>5
<1> HIDE DEF S, n
<1>7. upTo = [j \in 0 .. n |->
                IF j = 0 THEN g ELSE EnterNext(l, tds, r, j, upTo[j - 1])]
  BY <1>6, Zenon
<1> HIDE DEF upTo
<1>8. 0 \in 0 .. n /\ \A j \in 1 .. n : j \in 0 .. n /\ j # 0
  BY <1>2
<1>9. upTo[0] = g
  BY <1>7, <1>8
<1>10. \A j \in 1 .. n : upTo[j] = EnterNext(l, tds, r, j, upTo[j - 1])
  BY <1>7, <1>8
<1>11. QED BY <1>1, <1>9, <1>10 DEF EnterRun, n

(* The array, row by row.                                                  *)
EnterRow(l, i, g) ==
  SetupRow(l, RowOf(l, i, "tl", "bl") \o RowOf(l, i, "tr", "br"), i - 1, g)

NoRows(l) ==
  [rows |-> l.rows, cols |-> 0, broken |-> FALSE, at |-> <<>>, cell |-> <<>>]

ArrayRun(l, f) ==
  /\ CellsOf(l) = f[l.rows]
  /\ f[0] = NoRows(l)
  /\ \A i \in 1 .. l.rows : f[i] = EnterRow(l, i, f[i - 1])

(* The function inside CellsOf, one row after the other.                   *)
LEMMA CellsOfRuns ==
  ASSUME NEW l \in Layouts
  PROVE  \E f : ArrayRun(l, f)
<1> DEFINE n == l.rows
<1> DEFINE upTo[j \in 0 .. n] ==
             IF j = 0 THEN NoRows(l) ELSE EnterRow(l, j, upTo[j - 1])
<1>1. CellsOf(l) = upTo[n]
  BY DEF CellsOf, EnterRow, RowOf, NoRows
<1> DEFINE S == {k \in Nat : \E f :
                   f = [j \in 0 .. k |->
                          IF j = 0 THEN NoRows(l) ELSE EnterRow(l, j, f[j - 1])]}
<1>2. n \in Nat
  BY LayoutsAssumption
<1>3. 0 \in S
  <2> DEFINE f == [j \in 0 .. 0 |-> NoRows(l)]
  <2>1. f = [j \in 0 .. 0 |->
               IF j = 0 THEN NoRows(l) ELSE EnterRow(l, j, f[j - 1])]
    OBVIOUS
  <2> HIDE DEF f
  <2>2. QED BY <2>1
<1>4. ASSUME NEW k \in Nat, k \in S PROVE k + 1 \in S
  <2>1. PICK f : f = [j \in 0 .. k |->
                        IF j = 0 THEN NoRows(l) ELSE EnterRow(l, j, f[j - 1])]
    BY <1>4
  <2> DEFINE h == [j \in 0 .. k + 1 |->
                     IF j = k + 1 THEN EnterRow(l, j, f[j - 1]) ELSE f[j]]
  <2>2. ASSUME NEW j \in 0 .. k + 1
        PROVE  h[j] = IF j = 0 THEN NoRows(l) ELSE EnterRow(l, j, h[j - 1])
    <3>1. CASE j = k + 1
      <4>1. j # 0 /\ j - 1 \in 0 .. k + 1 /\ j - 1 # k + 1
        BY <3>1
      <4>2. h[j - 1] = f[j - 1] /\ h[j] = EnterRow(l, j, f[j - 1])
        BY <3>1, <4>1
      <4>3. QED BY <4>1, <4>2
    <3>2. CASE j = 0
      BY <2>1, <3>2
    <3>3. CASE j # k + 1 /\ j # 0
      <4>1. j \in 0 .. k /\ j - 1 \in 0 .. k + 1 /\ j - 1 # k + 1
        BY <3>3
      <4>2. h[j - 1] = f[j - 1] /\ h[j] = f[j]
        BY <3>3, <4>1
      <4>3. f[j] = EnterRow(l, j, f[j - 1])
        BY <2>1, <3>3, <4>1
      <4>4. QED BY <3>3, <4>2, <4>3
    <3>4. QED BY <3>1, <3>2, <3>3
  <2>3. h = [j \in 0 .. k + 1 |-> h[j]]
    OBVIOUS
  <2> HIDE DEF h
  <2>4. h = [j \in 0 .. k + 1 |->
               IF j = 0 THEN NoRows(l) ELSE EnterRow(l, j, h[j - 1])]
    BY <2>2, <2>3
  <2>5. k + 1 \in Nat
    OBVIOUS
  <2>6. QED BY <2>4, <2>5
<1>5. n \in S
  <2> HIDE DEF S
  <2>1. QED BY <1>2, <1>3, <1>4, Every
<1>6. PICK h : h = [j \in 0 .. n |->
                      IF j = 0 THEN NoRows(l) ELSE EnterRow(l, j, h[j - 1])]
  BY <1>5
<1> HIDE DEF S, n
<1>7. upTo = [j \in 0 .. n |->
                IF j = 0 THEN NoRows(l) ELSE EnterRow(l, j, upTo[j - 1])]
  BY <1>6, Zenon
<1> HIDE DEF upTo
<1>8. 0 \in 0 .. n /\ \A j \in 1 .. n : j \in 0 .. n /\ j # 0
  BY <1>2
<1>9. upTo[0] = NoRows(l)
  BY <1>7, <1>8
<1>10. \A j \in 1 .. n : upTo[j] = EnterRow(l, j, upTo[j - 1])
  BY <1>7, <1>8
<1>11. QED BY <1>1, <1>9, <1>10 DEF ArrayRun, n
Above(l, i) == {q \in Origins(l) : q[1] < i}

(* A row is entered; the first one gives the array its width.              *)
LEMMA SetupRowIs ==
  ASSUME NEW l \in Layouts, WellFormed(l), NEW i \in 1 .. l.rows,
         NEW s, Lists(l, i, 0, l.cols, s),
         NEW g, Entered(l, Above(l, i), g)
  PROVE  /\ Entered(l, Above(l, i + 1), SetupRow(l, s, i - 1, g))
         /\ SetupRow(l, s, i - 1, g).cols = IF i = 1 THEN l.cols ELSE g.cols
<1>1. /\ s \in Seq(Positions(l))
      /\ \A k \in 1 .. Len(s) : s[k] \in Origins(l) /\ s[k][1] = i
      /\ \A k, m \in 1 .. Len(s) : k < m => s[k][2] < s[m][2]
      /\ \A p \in Origins(l) :
           p[1] = i /\ 0 < p[2] /\ p[2] <= l.cols
             => \E k \in 1 .. Len(s) : s[k] = p
  BY DEF Lists
<1>2. ASSUME NEW p \in Origins(l)
      PROVE  /\ p \in Positions(l) /\ p = <<p[1], p[2]>>
             /\ p[1] \in Nat \ {0} /\ p[2] \in Nat \ {0} /\ p[2] <= l.cols
  BY PositionIs DEF Origins
<1>3. PICK n \in Nat : n = Len(s)
  BY <1>1
<1>4. i \in Nat /\ i # 0 /\ l.cols \in Nat /\ l.cols # 0
  BY LayoutsAssumption
<1>5. \A p \in Origins(l) : p[1] = i => \E k \in 1 .. n : s[k] = p
  <2>1. \A p \in Origins(l) : 0 < p[2] /\ p[2] <= l.cols
    BY <1>2
  <2>2. QED BY <1>1, <1>3, <2>1
<1>6. PICK f : EnterRun(l, s, i - 1, g, f)
  BY <1>3, SetupRowRuns
<1>7. /\ SetupRow(l, s, i - 1, g) = f[n] /\ f[0] = g
      /\ \A k \in 1 .. n : f[k] = EnterNext(l, s, i - 1, k, f[k - 1])
  BY <1>3, <1>6 DEF EnterRun
<1> DEFINE UpTo(k) == Above(l, i) \cup {s[m] : m \in 1 .. k}
<1> DEFINE Good(h, k) ==
      /\ Entered(l, UpTo(k), h)
      /\ i # 1 => h.cols = g.cols
      /\ i = 1 /\ k # 0 => h.cols = s[k][2] - 1 + SpanOf(l, s[k])[2]
<1> DEFINE S == {k \in Nat : k <= n => Good(f[k], k)}
<1>8. 0 \in S
  <2>1. 1 .. 0 = {}
    OBVIOUS
  <2>2. UpTo(0) = Above(l, i)
    BY <2>1
  <2> HIDE DEF UpTo
  <2>3. Good(f[0], 0)
    BY <1>7, <2>2
  <2> HIDE DEF Good
  <2>4. QED BY <2>3
<1>9. ASSUME NEW k \in Nat, k \in S PROVE k + 1 \in S
  <2> HIDE DEF Good
  <2>1. SUFFICES ASSUME k + 1 <= n PROVE Good(f[k + 1], k + 1)
    OBVIOUS
  <2> HIDE DEF S
  <2>2. k + 1 \in 1 .. n /\ k <= n /\ (k + 1) - 1 = k
        /\ \A m \in 1 .. k : m \in 1 .. n /\ m < k + 1
    BY <2>1
  <2>3. Good(f[k], k)
    BY <1>9, <2>2 DEF S
  <2> DEFINE p == s[k + 1]
  <2> DEFINE h == f[k]
  <2>4. f[k + 1] = Setup(l, p, i - 1, FreeCol(h, i - 1, 0), h)
    BY <1>7, <2>2 DEF EnterNext
  <2>5. p \in Origins(l) /\ p[1] = i
    BY <1>1, <1>3, <2>2
  <2>6. p \notin UpTo(k)
    <3>1. p \notin Above(l, i)
      BY <1>4, <2>5 DEF Above
    <3>2. ASSUME NEW m \in 1 .. k PROVE s[m] # p
      <4>1. s[m] \in Origins(l) /\ s[m][2] < p[2]
        BY <1>1, <1>3, <2>2
      <4>2. s[m][2] \in Nat
        BY <1>2, <4>1
      <4>3. QED BY <4>1, <4>2
    <3>3. QED BY <3>1, <3>2
  <2>7. UpTo(k) \in SUBSET Origins(l)
    BY <1>1, <1>3, <2>2 DEF Above
  <2>8. ASSUME NEW q \in Origins(l), q[1] < p[1] \/ (q[1] = p[1] /\ q[2] < p[2])
        PROVE  q \in UpTo(k)
    <3>1. CASE q[1] < p[1]
      BY <2>5, <3>1 DEF Above
    <3>2. CASE q[1] = p[1] /\ q[2] < p[2]
      <4>1. PICK m \in 1 .. n : s[m] = q
        BY <1>5, <2>5, <3>2
      <4>2. q[2] \in Nat /\ p[2] \in Nat
        BY <1>2, <2>5
      <4>3. m # k + 1
        BY <3>2, <4>1, <4>2
      <4>4. ~(k + 1 < m)
        <5>1. SUFFICES ASSUME k + 1 < m PROVE FALSE
          OBVIOUS
        <5>2. p[2] < q[2]
          BY <1>1, <1>3, <2>2, <4>1, <5>1
        <5>3. QED BY <3>2, <4>2, <5>2
      <4>5. m \in 1 .. k
        BY <4>3, <4>4
      <4>6. QED BY <4>1, <4>5
    <3>3. QED BY <2>8, <3>1, <3>2
  <2>9. UpTo(k + 1) = UpTo(k) \cup {p}
    <3>1. 1 .. k + 1 = (1 .. k) \cup {k + 1}
      OBVIOUS
    <3>2. QED BY <3>1
  <2> HIDE DEF UpTo, p, h
  <2>10. Entered(l, UpTo(k), h) /\ (i # 1 => h.cols = g.cols)
    BY <2>3 DEF Good, h
  <2>11. FreeCol(h, p[1] - 1, 0) = p[2] - 1
    BY <2>5, <2>6, <2>7, <2>8, <2>10, FreeColIs
  <2>12. f[k + 1] = Setup(l, p, p[1] - 1, p[2] - 1, h)
    BY <2>4, <2>5, <2>11
  <2>13. /\ Entered(l, UpTo(k) \cup {p}, f[k + 1])
         /\ f[k + 1].cols = IF p[1] = 1 THEN p[2] - 1 + SpanOf(l, p)[2]
                            ELSE h.cols
    <3> DEFINE next == Setup(l, p, p[1] - 1, p[2] - 1, h)
    <3>1. /\ Entered(l, UpTo(k) \cup {p}, next)
          /\ next.cols = IF p[1] = 1 THEN p[2] - 1 + SpanOf(l, p)[2]
                         ELSE h.cols
      BY <2>5, <2>6, <2>7, <2>10, SetupIs
    <3> HIDE DEF next
    <3>2. f[k + 1] = next
      BY <2>12 DEF next
    <3>3. QED BY <3>1, <3>2
  <2>14. QED BY <2>5, <2>9, <2>10, <2>13 DEF Good, p
<1>10. n \in S
  <2> HIDE DEF S
  <2>1. QED BY <1>8, <1>9, Every
<1>11. Good(f[n], n)
  <2> HIDE DEF Good
  <2>1. n <= n
    OBVIOUS
  <2>2. QED BY <1>10, <2>1
<1>12. UpTo(n) = Above(l, i + 1)
  <2>1. ASSUME NEW q \in UpTo(n) PROVE q \in Above(l, i + 1)
    <3>1. q \in Origins(l) /\ (q[1] < i \/ q[1] = i)
      BY <1>1, <1>3, <2>1 DEF Above
    <3>2. q[1] < i + 1
      BY <1>2, <1>4, <3>1
    <3>3. QED BY <3>1, <3>2 DEF Above
  <2>2. ASSUME NEW q \in Above(l, i + 1) PROVE q \in UpTo(n)
    <3>1. q \in Origins(l) /\ q[1] < i + 1
      BY DEF Above
    <3>2. q[1] < i \/ q[1] = i
      BY <1>2, <1>4, <3>1
    <3>3. CASE q[1] < i
      BY <3>1, <3>3 DEF Above
    <3>4. CASE q[1] = i
      BY <1>5, <3>1, <3>4
    <3>5. QED BY <3>2, <3>3, <3>4
  <2>3. QED BY <2>1, <2>2
<1>13. ASSUME i = 1
       PROVE  n # 0 /\ s[n][2] - 1 + SpanOf(l, s[n])[2] = l.cols
  <2> HIDE DEF S, UpTo, Good
  <2>1. <<1, l.cols>> \in Positions(l)
    BY <1>4, <1>13, LayoutsAssumption DEF Positions
  <2>2. PICK q \in Origins(l) : <<1, l.cols>> \in Covered(l, q)
    BY <2>1, CoveredOnce
  <2>3. PICK q2 \in Nat, rs \in Nat \ {0}, cs \in Nat \ {0}, c \in Nat :
          /\ q[1] = 1 /\ q2 = q[2] /\ c = l.cols /\ cs = SpanOf(l, q)[2]
          /\ Covered(l, q) = (1 .. 1 + rs - 1) \X (q2 .. q2 + cs - 1)
          /\ q2 <= c /\ q2 + cs - 1 = c
    <3>1. q \in Positions(l)
      BY <1>2
    <3>2. PICK a \in Nat, b \in Nat, rs \in Nat \ {0}, cs \in Nat \ {0},
               c \in Nat :
            /\ a = q[1] /\ b = q[2] /\ rs = SpanOf(l, q)[1]
            /\ cs = SpanOf(l, q)[2] /\ c = l.cols /\ a # 0
            /\ b + cs - 1 \in 1 .. c
      BY <1>2, <1>4, <3>1, CoveredIs
    <3>3. Covered(l, q) = (a .. a + rs - 1) \X (b .. b + cs - 1)
      BY <3>2 DEF Covered
    <3>4. 1 \in a .. a + rs - 1 /\ c \in b .. b + cs - 1
      BY <2>2, <3>2, <3>3
    <3>5. a = 1 /\ b <= c /\ b + cs - 1 = c
      BY <3>2, <3>4
    <3>6. QED BY <3>2, <3>3, <3>5
  <2>4. PICK m \in 1 .. n : s[m] = q
    BY <1>5, <1>13, <2>3
  <2>5. n # 0 /\ n \in 1 .. n
    OBVIOUS
  <2>6. m = n
    <3>1. SUFFICES ASSUME m # n PROVE FALSE
      OBVIOUS
    <3>2. m < n
      BY <3>1
    <3> DEFINE p == s[n]
    <3>3. p \in Origins(l) /\ p[1] = 1 /\ q[2] < p[2]
      BY <1>1, <1>3, <1>13, <2>4, <2>5, <3>2
    <3> HIDE DEF p
    <3>4. p = <<1, p[2]>> /\ p[2] \in Nat /\ p[2] <= l.cols
          /\ p \in Positions(l)
      BY <1>2, <3>3
    <3>5. p[2] \in q2 .. q2 + cs - 1 /\ 1 \in 1 .. 1 + rs - 1
      BY <2>3, <3>3, <3>4
    <3>6. <<1, p[2]>> \in Covered(l, q)
      BY <2>3, <3>5
    <3>7. p \in Covered(l, q) /\ p \in Covered(l, p)
      BY <3>4, <3>6, CoveredIs
    <3>8. p = q
      BY <3>3, <3>4, <3>7, CoveredOnce
    <3>9. QED BY <2>3, <3>3, <3>8
  <2>7. q2 - 1 + cs = c
    BY <2>3
  <2>8. QED BY <2>3, <2>4, <2>5, <2>6, <2>7
<1>14. QED BY <1>7, <1>11, <1>12, <1>13
(* setup() finds every cell of a well-formed layout where the application  *)
(* put it.                                                                 *)
LEMMA CellsOfExact ==
  ASSUME NEW l \in Layouts, WellFormed(l)
  PROVE  Exact(l, CellsOf(l))
<1>1. PICK n \in Nat : n = l.rows /\ n # 0
  BY LayoutsAssumption
<1>2. PICK f : ArrayRun(l, f)
  BY CellsOfRuns
<1>3. /\ CellsOf(l) = f[n] /\ f[0] = NoRows(l)
      /\ \A i \in 1 .. n : f[i] = EnterRow(l, i, f[i - 1])
  BY <1>1, <1>2 DEF ArrayRun
<1>4. \A p \in Origins(l) : p[1] \in Nat \ {0} /\ p[1] <= n
  BY <1>1, PositionIs DEF Origins
<1> DEFINE Good(g, i) ==
      Entered(l, Above(l, i + 1), g) /\ (i # 0 => g.cols = l.cols)
<1> DEFINE S == {i \in Nat : i <= n => Good(f[i], i)}
<1>5. 0 \in S
  <2>1. Above(l, 0 + 1) = {}
    BY <1>4 DEF Above
  <2>2. DOMAIN <<>> = {}
    OBVIOUS
  <2>3. Entered(l, {}, NoRows(l))
    BY <2>2 DEF Entered, NoRows
  <2>4. Good(f[0], 0)
    BY <1>3, <2>1, <2>3
  <2> HIDE DEF Good
  <2>5. QED BY <2>4
<1>6. ASSUME NEW i \in Nat, i \in S PROVE i + 1 \in S
  <2> HIDE DEF Good
  <2>1. SUFFICES ASSUME i + 1 <= n PROVE Good(f[i + 1], i + 1)
    OBVIOUS
  <2> HIDE DEF S
  <2>2. /\ i + 1 \in 1 .. l.rows /\ i + 1 \in 1 .. n /\ i <= n
        /\ (i + 1) - 1 = i /\ i + 1 # 0
    BY <1>1, <2>1
  <2>3. Good(f[i], i)
    BY <1>6, <2>2 DEF S
  <2> DEFINE s == RowOf(l, i + 1, "tl", "bl") \o RowOf(l, i + 1, "tr", "br")
  <2> DEFINE g == f[i]
  <2>4. Lists(l, i + 1, 0, l.cols, s)
    BY <2>2, RowIs
  <2>5. f[i + 1] = SetupRow(l, s, (i + 1) - 1, g)
    BY <1>3, <2>2 DEF EnterRow
  <2>6. Entered(l, Above(l, i + 1), g) /\ (i # 0 => g.cols = l.cols)
    BY <2>3 DEF Good
  <2> HIDE DEF s, g
  <2>7. /\ Entered(l, Above(l, (i + 1) + 1), f[i + 1])
        /\ f[i + 1].cols = IF i + 1 = 1 THEN l.cols ELSE g.cols
    <3> DEFINE next == SetupRow(l, s, (i + 1) - 1, g)
    <3>1. /\ Entered(l, Above(l, (i + 1) + 1), next)
          /\ next.cols = IF i + 1 = 1 THEN l.cols ELSE g.cols
      BY <2>2, <2>4, <2>6, SetupRowIs
    <3> HIDE DEF next
    <3>2. f[i + 1] = next
      BY <2>5 DEF next
    <3>3. QED BY <3>1, <3>2
  <2>8. f[i + 1].cols = l.cols
    <3>1. CASE i = 0
      BY <2>7, <3>1
    <3>2. CASE i # 0
      <4>1. i + 1 # 1
        BY <3>2
      <4>2. QED BY <2>6, <2>7, <3>2, <4>1
    <3>3. QED BY <3>1, <3>2
  <2>9. QED BY <2>7, <2>8 DEF Good
<1>7. n \in S
  <2> HIDE DEF S
  <2>1. QED BY <1>5, <1>6, Every
<1> DEFINE g == f[n]
<1>8. Entered(l, Above(l, n + 1), g) /\ g.cols = l.cols
  <2>1. n <= n
    OBVIOUS
  <2>2. QED BY <1>1, <1>7, <2>1
<1> HIDE DEF g
<1>9. Above(l, n + 1) = Origins(l)
  <2>1. \A p \in Origins(l) : p[1] < n + 1
    BY <1>4
  <2>2. QED BY <2>1 DEF Above
<1>10. /\ ~g.broken /\ g.rows = l.rows
       /\ DOMAIN g.at = UNION {Block(l, p) : p \in Origins(l)}
       /\ \A p \in Origins(l) : \A q \in Block(l, p) : g.at[q] = p
       /\ Tds(g) = Origins(l)
       /\ \A p \in Origins(l) : g.cell[p] = Entry(l, p)
  <2>1. PICK a, b, c : /\ g = [rows |-> l.rows, cols |-> a, broken |-> FALSE,
                               at |-> b, cell |-> c]
    BY <1>8 DEF Entered
  <2>2. ~g.broken /\ g.rows = l.rows
    BY <2>1
  <2>3. QED BY <1>8, <1>9, <2>2 DEF Entered, Tds
<1>11. ASSUME NEW p \in Origins(l), NEW q \in Covered(l, p)
       PROVE  Get(g, q[1] - 1, q[2] - 1) = p
  <2>1. p \in Positions(l)
    BY DEF Origins
  <2>2. q \in Positions(l)
    BY <2>1, CoveredIs
  <2>3. PICK q1 \in Nat, q2 \in Nat, c \in Nat :
          /\ q = <<q1, q2>> /\ q1 = q[1] /\ q2 = q[2] /\ c = l.cols
          /\ q2 <= c
    BY <2>2, PositionIs, LayoutsAssumption
  <2>4. q1 - 1 \in Int /\ q2 - 1 \in Int /\ (q1 - 1) + 1 = q1
        /\ (q2 - 1) + 1 = q2 /\ q2 - 1 < c
    BY <2>3
  <2>5. <<q1 - 1, q2 - 1>> \in Block(l, p)
    BY <2>1, <2>3, <2>4, BlockIs
  <2>6. /\ <<q1 - 1, q2 - 1>> \in DOMAIN g.at
        /\ g.at[<<q1 - 1, q2 - 1>>] = p
    BY <1>10, <2>5
  <2>7. q2 - 1 < g.cols
    BY <1>8, <2>3, <2>4
  <2>8. Get(g, q1 - 1, q2 - 1) = p
    BY <2>6, <2>7 DEF Get, HasCell
  <2>9. QED BY <2>3, <2>8
<1>12. Exact(l, g)
  BY <1>8, <1>10, <1>11 DEF Exact, Entry
<1>13. QED BY <1>3, <1>12 DEF g

(* CellsRecorded before any step is taken: of every layout at once.        *)
LEMMA RegularRecorded == Regular \subseteq Recorded
<1>1. SUFFICES ASSUME NEW l \in Layouts, WellFormed(l) PROVE l \in Recorded
  BY DEF Regular
<1>2. Arrays[l] = CellsOf(l)
  BY DEF Arrays
<1>3. Exact(l, CellsOf(l))
  BY <1>1, CellsOfExact
<1>4. QED BY <1>2, <1>3 DEF Recorded
-----------------------------------------------------------------------------
(* What is selected, where the layout is regular: the cells of the area    *)
(* between the two ends, and those alone have the colour.                  *)
SelInv ==
  /\ layout \in Layouts /\ cells = Arrays[layout]
  /\ layout \in Regular =>
       /\ start \in Tds(cells) \cup {NoCell}
       /\ end \in Tds(cells) \cup {NoCell}
       /\ colored = selected
       /\ NoCell \notin {start, end} =>
            selected = OriginsIn(cells, Selected(start, end))

(* The cells of a regular layout tile its grid.                            *)
LEMMA CellsTiled ==
  ASSUME layout \in Regular, cells = Arrays[layout]
  PROVE  Tiled(cells) /\ NoCell \notin Tds(cells) /\ Exact(layout, cells)
<1>1. layout \in Recorded /\ layout \in Layouts /\ WellFormed(layout)
  BY RegularRecorded DEF Regular
<1>2. Exact(layout, Arrays[layout])
  BY <1>1 DEF Recorded
<1>3. QED BY <1>1, <1>2, ExactTiled

(* updateSelected() does not throw then.                                   *)
LEMMA UpdateSelectedIs ==
  ASSUME Tiled(cells), NoCell \notin Tds(cells), colored = selected,
         NEW s \in Tds(cells) \cup {NoCell}, NEW e \in Tds(cells) \cup {NoCell}
  PROVE  /\ ~UpdateSelected(s, e).threw
         /\ UpdateSelected(s, e).colored = UpdateSelected(s, e).selected
         /\ NoCell \notin {s, e} =>
              UpdateSelected(s, e).selected = OriginsIn(cells, Selected(s, e))
<1>1. CASE NoCell \in {s, e}
  BY <1>1 DEF UpdateSelected
<1>2. CASE NoCell \notin {s, e}
  <2> DEFINE a == Selected(s, e)
  <2> DEFINE now == OriginsIn(cells, Selected(s, e))
  <2>1. s \in Tds(cells) /\ e \in Tds(cells)
    BY <1>2
  <2>2. ~a.failed /\ InArray(cells, a)
    BY <2>1, AreaTakes DEF Selected
  <2>3. Holes(cells, a) = {}
    <3> HIDE DEF a
    <3>1. SUFFICES ASSUME NEW p \in Within(a)
                   PROVE  Get(cells, p[1], p[2]) # NoCell
      BY DEF Holes
    <3>2. p[1] \in 0 .. cells.rows - 1 /\ p[2] \in 0 .. cells.cols - 1
      BY <2>2 DEF InArray, Within, Tiled
    <3>3. Get(cells, p[1], p[2]) \in Tds(cells)
      BY <3>2 DEF Tiled
    <3>4. QED BY <3>3
  <2>4. UpdateSelected(s, e) =
          [threw |-> FALSE, selected |-> now,
           colored |-> (colored \cup (now \ selected)) \ (selected \ now)]
    BY <1>2, <2>2, <2>3 DEF UpdateSelected
  <2>5. (colored \cup (now \ selected)) \ (selected \ now) = now
    <3> HIDE DEF now
    <3>1. QED OBVIOUS
  <2>6. QED BY <2>4, <2>5
<1>3. QED BY <1>1, <1>2

(* select() to cells of the grid leaves the area between them selected.    *)
LEMMA SelectInv ==
  ASSUME SelInv, UNCHANGED shown,
         NEW s, NEW e, Select(s, e),
         layout \in Regular => /\ s \in Tds(cells) \cup {NoCell}
                               /\ e \in Tds(cells) \cup {NoCell}
  PROVE  SelInv'
<1>1. layout' = layout /\ cells' = cells
  BY DEF shown
<1>2. /\ start' = s /\ end' = e
      /\ selected' = UpdateSelected(s, e).selected
      /\ colored' = UpdateSelected(s, e).colored
  BY DEF Select
<1>3. ASSUME layout \in Regular
      PROVE  /\ start' \in Tds(cells) \cup {NoCell}
             /\ end' \in Tds(cells) \cup {NoCell}
             /\ colored' = selected'
             /\ NoCell \notin {start', end'} =>
                  selected' = OriginsIn(cells, Area(cells, start', end'))
  <2>1. Tiled(cells) /\ NoCell \notin Tds(cells) /\ colored = selected
    BY <1>3, CellsTiled DEF SelInv
  <2>2. s \in Tds(cells) \cup {NoCell} /\ e \in Tds(cells) \cup {NoCell}
    BY <1>3
  <2>3. /\ UpdateSelected(s, e).colored = UpdateSelected(s, e).selected
        /\ NoCell \notin {s, e} =>
              UpdateSelected(s, e).selected = OriginsIn(cells, Selected(s, e))
    BY <2>1, <2>2, UpdateSelectedIs
  <2>4. QED BY <1>2, <2>2, <2>3 DEF Selected
<1>4. QED BY <1>1, <1>3 DEF SelInv, Selected

(* The cells the timer finds at the edge.                                  *)
LEMMA EdgeIs ==
  ASSUME Tiled(cells), NoCell \notin Tds(cells),
         end \in Tds(cells) \cup {NoCell}
  PROVE  /\ end # NoCell => EdgeRow(end) \in Tds(cells)
         /\ NewEnd \in Tds(cells) \cup {NoCell}
<1>1. ASSUME NEW c \in Tds(cells)
      PROVE  EdgeRow(c) \in Tds(cells) /\ EdgeCol(c) \in Tds(cells)
  <2>1. /\ Left(cells, c) \in 0 .. cells.cols - 1
        /\ Top(cells, c) \in 0 .. cells.rows - 1
        /\ 0 \in 0 .. cells.rows - 1 /\ cells.rows - 1 \in 0 .. cells.rows - 1
        /\ 0 \in 0 .. cells.cols - 1 /\ cells.cols - 1 \in 0 .. cells.cols - 1
    BY DEF Tiled
  <2>2. /\ Get(cells, 0, Left(cells, c)) \in Tds(cells)
        /\ Get(cells, cells.rows - 1, Left(cells, c)) \in Tds(cells)
        /\ Get(cells, Top(cells, c), 0) \in Tds(cells)
        /\ Get(cells, Top(cells, c), cells.cols - 1) \in Tds(cells)
    BY <2>1 DEF Tiled
  <2>3. QED BY <2>2 DEF EdgeRow, EdgeCol
<1>2. end # NoCell => EdgeRow(end) \in Tds(cells)
  BY <1>1
<1>3. QED BY <1>1, <1>2 DEF NewEnd

(* What changes neither the grid nor the selection.                        *)
LEMMA SelKept ==
  ASSUME SelInv, UNCHANGED <<shown, selection>>
  PROVE  SelInv'
<1>1. /\ layout' = layout /\ cells' = cells /\ start' = start /\ end' = end
      /\ selected' = selected /\ colored' = colored
  BY DEF shown, selection
<1>2. QED BY <1>1 DEF SelInv, Selected

(* The timer, with the cell it finds at the edge of the window.            *)
LEMMA CallbackSel ==
  ASSUME SelInv, Callback
  PROVE  SelInv'
<1>1. ASSUME layout \in Regular
      PROVE  /\ Tiled(cells) /\ NoCell \notin Tds(cells)
             /\ end \in Tds(cells) \cup {NoCell}
             /\ start \in Tds(cells) \cup {NoCell}
             /\ colored = selected
  BY <1>1, CellsTiled DEF SelInv
<1>2. layout \in Regular => NewEnd \in Tds(cells) \cup {NoCell}
  BY <1>1, EdgeIs
<1>3. CASE TimerStops
  BY <1>3, SelKept DEF TimerStops
<1>4. CASE TimerThrows
  <2>1. UNCHANGED shown
    BY <1>4 DEF TimerThrows
  <2>2. CASE layout \notin Regular
    BY <2>1, <2>2 DEF SelInv, shown
  <2>3. CASE layout \in Regular /\ Lost /\ UNCHANGED <<start, selected, colored>>
             /\ end' = IF end = NoCell \/ ~Beyond("y") THEN end ELSE EdgeRow(end)
    <3>1. end = NoCell
      BY <1>1, <2>3, EdgeIs DEF Lost
    <3>2. end' = end
      BY <2>3, <3>1
    <3>3. QED BY <2>1, <2>3, <3>2, SelKept DEF selection
  <2>4. CASE layout \in Regular
             /\ \E e \in {NewEnd} \ {end} : UpdateSelected(start, e).threw
    <3>1. ~UpdateSelected(start, NewEnd).threw
      BY <1>1, <1>2, <2>4, UpdateSelectedIs
    <3>2. QED BY <2>4, <3>1
  <2>5. QED BY <1>4, <2>2, <2>3, <2>4 DEF TimerThrows
<1>5. CASE TimerScrolls
  <2>1. UNCHANGED shown
    BY <1>5 DEF TimerScrolls
  <2>2. CASE UNCHANGED selection
    BY <2>1, <2>2, SelKept
  <2>3. CASE Select(start, NewEnd)
    BY <1>1, <1>2, <2>1, <2>3, SelectInv
  <2>4. QED BY <1>5, <2>2, <2>3 DEF TimerScrolls
<1>6. QED BY <1>3, <1>4, <1>5 DEF Callback

(* Nothing is selected at first.                                           *)
LEMMA SelInit == GridInit => SelInv
<1>1. SUFFICES ASSUME GridInit PROVE SelInv OBVIOUS
<1>2. QED BY <1>1 DEF GridInit, SelInv

(* No handler leaves anything else selected.                               *)
LEMMA SelStep == SelInv /\ [GridNext]_gridVars => SelInv'
<1>1. SUFFICES ASSUME SelInv, [GridNext]_gridVars PROVE SelInv'
  OBVIOUS
<1>2. ASSUME NEW c \in Tds(cells) \cup {NoCell}, MouseDown(c)
      PROVE  SelInv'
  <2>1. UNCHANGED shown /\ Select(IF shiftDown THEN start ELSE c, c)
    BY <1>2 DEF MouseDown
  <2>2. QED BY <1>1, <2>1, SelectInv DEF SelInv
<1>3. ASSUME NEW m \in Pointers, NEW c \in Under(m), MouseMove(c, m)
      PROVE  SelInv'
  <2>1. UNCHANGED shown
    BY <1>3 DEF MouseMove
  <2>2. CASE UNCHANGED selection
    BY <1>1, <2>1, <2>2, SelKept
  <2>3. CASE \E d \in c : Select(start, d)
    <3>1. PICK d \in c : Select(start, d)
      BY <2>3
    <3>2. d \in Tds(cells) \cup {NoCell}
      BY <3>1 DEF Under
    <3>3. layout \in Regular => start \in Tds(cells) \cup {NoCell}
      BY <1>1 DEF SelInv
    <3>4. QED BY <1>1, <2>1, <3>1, <3>2, <3>3, SelectInv
  <2>4. QED BY <1>3, <2>2, <2>3 DEF MouseMove
<1>4. CASE MouseUp
  BY <1>1, <1>4, SelKept DEF MouseUp, own
<1>5. ASSUME NEW down \in BOOLEAN, Shift(down)
      PROVE  SelInv'
  BY <1>1, <1>5, SelKept DEF Shift
<1>6. CASE Callback
  BY <1>1, <1>6, CallbackSel
<1>7. CASE GridRerender
  BY <1>7 DEF GridRerender, SelInv
<1>8. CASE GridResize
  BY <1>1, <1>8, SelKept DEF GridResize
<1>9. CASE PanesStep
  BY <1>1, <1>9, SelKept DEF PanesStep, own
<1>10. CASE UNCHANGED gridVars
  BY <1>1, <1>10, SelKept DEF gridVars, own
<1>11. QED
  BY <1>1, <1>2, <1>3, <1>4, <1>5, <1>6, <1>7, <1>8, <1>9, <1>10
     DEF GridNext, MouseMoves

(* Whatever the mouse, the keys, the timer and the server do, on a regular *)
(* layout the cells that are selected, and have the colour of it, are      *)
(* those of the area between the two ends.                                 *)
THEOREM SelCorrect == GridSpec => []SelInv
<1>1. QED BY SelInit, SelStep, PTL DEF GridSpec

(* CellsRecorded, whatever the layouts: where none spans both ways or      *)
(* crosses the edge of a pane, setup() finds every cell where the          *)
(* application put it.                                                     *)
THEOREM CellsRecordedCorrect == GridSpec => []CellsRecorded
<1>1. CellsRecorded
  BY RegularRecorded DEF CellsRecorded
<1>2. QED BY <1>1, PTL

(* AreaHolds, whatever the layout: the area getSelected() finds takes in   *)
(* whole every cell between the two ends and nothing that a rectangle which*)
(* cuts no cell leaves out; with one spanning cell it cuts none.           *)
THEOREM AreaHoldsCorrect == GridSpec => []AreaHolds
<1>1. SelInv => AreaHolds
  <2>1. SUFFICES ASSUME SelInv, layout \in Regular, NoCell \notin {start, end}
                 PROVE  <<start, end>> \in Fitting[layout]
    BY DEF AreaHolds
  <2> DEFINE g == Arrays[layout]
  <2>2. /\ start \in Tds(g) /\ end \in Tds(g) /\ layout \in Layouts
        /\ WellFormed(layout) /\ Exact(layout, g)
    BY <2>1, CellsTiled DEF SelInv, Regular
  <2>3. Fits(layout, g, start, end, Area(g, start, end))
    BY <2>2, AreaFits
  <2> DEFINE F == {p \in Tds(g) \X Tds(g) :
                     \E area \in {Area(g, p[1], p[2])} :
                       Fits(layout, g, p[1], p[2], area)}
  <2>4. <<start, end>> \in F
    <3> HIDE DEF g
    <3>1. QED BY <2>2, <2>3
  <2>5. Fitting[layout] = F
    BY <2>2 DEF Fitting
  <2>6. QED BY <2>4, <2>5
<1>2. QED BY <1>1, SelCorrect, PTL

(* CopiesWhatIsShown, whatever the layout: getSelectedText() computes the  *)
(* area anew, updateSelected() paints by differences, and they agree.      *)
THEOREM CopiesWhatIsShownCorrect == GridSpec => []CopiesWhatIsShown
<1>1. SelInv => CopiesWhatIsShown
  BY DEF SelInv, CopiesWhatIsShown, SelectedText
<1>2. QED BY <1>1, SelCorrect, PTL
=============================================================================
