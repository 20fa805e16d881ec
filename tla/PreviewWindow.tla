--------------------------- MODULE PreviewWindow ---------------------------
(***************************************************************************)
(* The preview window: the mouse messages of MsWindowWin, on the UI        *)
(* thread, which select, move and stretch the items of the scene, beside   *)
(* the pool worker's EditSourceItem requests for the same items.           *)
(*                                                                         *)
(* One axis is modelled.  An item covers the points from left[i] to        *)
(* right[i], the canvas those from 0 to Width, and the preview's scale is  *)
(* 1.  Item 1 is at the bottom.  A message is one step: what a request     *)
(* does between two enumerations of one message is not modelled.  Rotation,*)
(* cropping, groups and the cursor's shape are left out.                   *)
(***************************************************************************)
EXTENDS Integers, FiniteSets, FiniteSetsExt

CONSTANTS
  Items,     \* scene item ids, by order
  Width,     \* of the canvas
  Size,      \* of a source
  SnapDist,  \* kSnapDistance
  MaxPresses, MaxRequests,  \* bounds
  None       \* no item

ASSUME ItemsAssumption == Items \subseteq Nat /\ IsFiniteSet(Items)
ASSUME WidthAssumption == Width \in Nat /\ Size \in 1 .. Width /\ SnapDist \in Nat \ {0}
ASSUME NoneAssumption == None \notin Int

Points == 0 .. Width
Buttons == {"left", "right"}
NoStretch == [item |-> None, handle |-> "none", left |-> 0, right |-> 0]

VARIABLES
  scene, left, right, selected, locked,  \* the items
  ptr, held,        \* the mouse itself: where it is, the buttons down
  mouseDown, mouseMoved, mouseOverItems, selectionBox, mouse_btn_type_,
  startPos, lastMoveOffset,
  stretch,          \* stretchItem, stretchHandle and the box it had
  hoveredPreviewItem,
  pool,             \* the item a SELECT request is about to select
  requests, presses,
  grabbed,          \* history: where the items were at the last press
  touched,          \* history: the items requests changed since then
  disturbed,        \* history: two buttons were down, or a release was lost
  unseen,           \* history: no move without a button since a removal
  crossed           \* history: a SELECT met the mouse, or a box was drawn
                    \* after a gesture that was left half done

items == <<scene, left, right, selected, locked>>
gesture == <<mouseDown, mouseMoved, mouseOverItems, selectionBox, mouse_btn_type_,
             startPos, lastMoveOffset, stretch, hoveredPreviewItem>>
bounds == <<requests, presses>>
previewVars == <<items, ptr, held, gesture, pool, bounds,
          grabbed, touched, disturbed, unseen, crossed>>

PreviewInit ==
  /\ scene = Items
  /\ left \in [Items -> {0, Width - Size}]
  /\ right = [i \in Items |-> left[i] + Size]
  /\ selected = {} /\ locked = {}
  /\ ptr = 0 /\ held = {}
  /\ mouseDown = FALSE /\ mouseMoved = FALSE
  /\ mouseOverItems = FALSE /\ selectionBox = FALSE
  /\ mouse_btn_type_ = "none"
  /\ startPos = 0 /\ lastMoveOffset = 0
  /\ stretch = NoStretch
  /\ hoveredPreviewItem = None
  /\ pool = None
  /\ requests = 0 /\ presses = 0
  /\ grabbed = left /\ touched = {}
  /\ disturbed = FALSE /\ unseen = FALSE /\ crossed = FALSE

-----------------------------------------------------------------------------
(* What is under a point.  A source stretched to nothing is never hit.     *)
Covers(i, p) == left[i] <= p /\ p <= right[i] /\ left[i] < right[i]

(* GetItemAtPos: the topmost unlocked item, or, when asked for what lies   *)
(* below, the one under the lowest selected one; a right click stays with  *)
(* the selected item.                                                      *)
GetItemAtPos(p, button, sel) ==
  LET hits == {i \in scene \ locked : Covers(i, p)}
      chosen == hits \cap sel
      below == {i \in hits : \A j \in chosen : i < j}
  IN  IF hits = {} THEN None
      ELSE IF chosen = {} THEN Max(hits)
      ELSE IF button = "right" THEN Min(chosen)
      ELSE IF below = {} THEN Max(hits)
      ELSE Max(below)

(* SelectedAtPos: is a selected item, locked or not, under p?              *)
SelectedAtPos(p, sel) == \E i \in scene \cap sel : Covers(i, p)

(* Mutant of ProcessClick: what was selected stays so.                     *)
ClickAdds(p, button) ==
  selected \cup ({GetItemAtPos(p, button, selected)} \ {None})

(* ProcessClick and DoSelect: the item under p becomes the only one        *)
(* selected.  A right click on a selected item changes nothing, which is   *)
(* what GetItemAtPos makes of it as well.                                  *)
ProcessClick(p, button) ==
  LET i == GetItemAtPos(p, button, selected)
  IN  IF i = None THEN {}
      ELSE IF button = "right" /\ i \in selected THEN selected ELSE {i}

(* The topmost selected item, locked or not, with a handle at p.           *)
GetStretchHandleData(p) ==
  LET near == {i \in scene \cap selected : p \in {left[i], right[i]}}
  IN  IF near = {} THEN NoStretch
      ELSE LET i == Max(near)
           IN [item |-> i, handle |-> IF p = left[i] THEN "left" ELSE "right",
               left |-> left[i], right |-> right[i]]

Abs(x) == IF x < 0 THEN -x ELSE x

(* GetSnapOffset: to the left edge of the canvas, else to the right one.   *)
GetSnapOffset(tl, br) ==
  LET o == IF Abs(tl) < SnapDist THEN -tl ELSE 0
  IN  IF o = 0 /\ Abs(Width - br) < SnapDist THEN Width - br ELSE o

-----------------------------------------------------------------------------
(* The left or right button goes down.                                     *)
MousePress(button) ==
  /\ mouse_btn_type_' = button
  /\ mouseDown' = (button = "left")
  /\ stretch' = GetStretchHandleData(ptr)
  /\ startPos' = ptr
  /\ mouseOverItems' = SelectedAtPos(ptr, selected)
  /\ lastMoveOffset' = 0
  /\ grabbed' = left /\ touched' = {}

Press(button) ==
  /\ presses < MaxPresses /\ presses' = presses + 1
  /\ button \notin held
  /\ held' = held \cup {button}
  /\ disturbed' = (disturbed \/ held # {})
  /\ MousePress(button)
  /\ selected' = IF button = "right" THEN ProcessClick(ptr, "right") ELSE selected
  /\ UNCHANGED <<scene, left, right, locked, ptr, mouseMoved, selectionBox,
                 hoveredPreviewItem, pool, requests, unseen, crossed>>

(* What a release resets; stretchHandle is left as it is.                  *)
Forget ==
  /\ stretch' = [stretch EXCEPT !.item = None]
  /\ mouseDown' = FALSE /\ mouseMoved' = FALSE /\ selectionBox' = FALSE

(* mouseReleaseEvent, for either button.                                   *)
MouseRelease ==
  IF mouseDown
  THEN LET clicked == IF mouseMoved THEN selected ELSE ProcessClick(ptr, mouse_btn_type_)
           boxed == IF selectionBox /\ hoveredPreviewItem # None
                      THEN {hoveredPreviewItem} ELSE {}
       IN  /\ selected' = clicked \cup boxed
           /\ hoveredPreviewItem' = GetItemAtPos(ptr, "none", selected')
           /\ unseen' = FALSE
           /\ Forget
  ELSE UNCHANGED <<selected, hoveredPreviewItem, unseen, stretch,
                   mouseDown, mouseMoved, selectionBox>>

Release(button) ==
  /\ button \in held
  /\ held' = held \ {button}
  /\ MouseRelease
  /\ disturbed' = (disturbed /\ ~(mouseDown /\ held' = {}))
  /\ crossed' = (crossed \/ (disturbed /\ mouseDown /\ selectionBox))
  /\ UNCHANGED <<scene, left, right, locked, ptr, mouseOverItems, mouse_btn_type_,
                 startPos, lastMoveOffset, pool, bounds, grabbed, touched>>

(* The capture is taken away and the release goes to another window.       *)
LoseRelease(button) ==
  /\ button \in held
  /\ held' = held \ {button}
  /\ disturbed' = TRUE
  /\ UNCHANGED <<items, ptr, gesture, pool, bounds, grabbed, touched, unseen, crossed>>

MouseLeave ==
  /\ ~selectionBox
  /\ hoveredPreviewItem' = None
  /\ unseen' = FALSE
  /\ UNCHANGED <<items, ptr, held, mouseDown, mouseMoved, mouseOverItems, selectionBox,
                 mouse_btn_type_, startPos, lastMoveOffset, stretch, pool, bounds,
                 grabbed, touched, disturbed, crossed>>

-----------------------------------------------------------------------------
(* The mouse moves to p.                                                   *)

(* Mutant of FindHovered: the last item found is kept.                     *)
FindHoveredOnce(p) ==
  LET i == GetItemAtPos(p, "none", selected) IN IF i = None THEN hoveredPreviewItem ELSE i

FindHovered(p) == GetItemAtPos(p, "none", selected)

(* Without a button: the item under the mouse, and its handle.             *)
Hover(p) ==
  /\ ~mouseDown
  /\ hoveredPreviewItem' = FindHovered(p)
  /\ unseen' = FALSE
  /\ IF ~mouseMoved /\ FindHovered(p) # None
       THEN startPos' = p /\ stretch' = GetStretchHandleData(p)
       ELSE UNCHANGED <<startPos, stretch>>
  /\ UNCHANGED <<items, mouseDown, mouseMoved, mouseOverItems, selectionBox,
                 mouse_btn_type_, lastMoveOffset>>

(* A drag that began on nothing selected selects what it began on.         *)
SelectFirst == ~mouseMoved /\ ~mouseOverItems /\ stretch.handle = "none"
Chosen == IF SelectFirst THEN ProcessClick(startPos, mouse_btn_type_) ELSE selected
Over == IF SelectFirst THEN SelectedAtPos(startPos, Chosen) ELSE mouseOverItems

(* StretchItem: the held edge goes to p, with the snap of the new box; it  *)
(* is not dragged across the other edge (a bound).                         *)
StretchItem(p) ==
  /\ mouseDown /\ stretch.handle # "none"
  /\ LET tl == IF stretch.handle = "left" THEN p ELSE stretch.left
         br == IF stretch.handle = "left" THEN stretch.right ELSE p
         o == GetSnapOffset(tl, br)
         l == IF stretch.handle = "left" THEN p + o ELSE tl
         r == IF stretch.handle = "left" THEN br ELSE p + o
     IN  /\ l <= r
         /\ left' = [left EXCEPT ![stretch.item] = l]
         /\ right' = [right EXCEPT ![stretch.item] = r]
  /\ selectionBox' = FALSE
  /\ UNCHANGED <<selected, lastMoveOffset>>

(* SnapItemMovement looks at all selected items; with none its box is not  *)
(* initialised and the snap can be any.                                    *)
SnapItemMovement(offset) ==
  LET sel == scene \cap Chosen
  IN  IF sel = {} THEN (1 - SnapDist) .. (SnapDist - 1)
      ELSE {GetSnapOffset(Min({left[i] : i \in sel}) + offset,
                          Max({right[i] : i \in sel}) + offset)}

(* Mutant of Moved: the offset is subtracted.                              *)
MovedBackwards(offset, snap) == lastMoveOffset - offset - snap

(* Mutant of Moved: the snap is not remembered.                            *)
MovedWithoutSnap(offset, snap) == lastMoveOffset + offset

(* What the drag has moved the items by.                                   *)
Moved(offset, snap) == lastMoveOffset + offset + snap

Movable == (scene \cap Chosen) \ locked

MoveItems(p) ==
  /\ mouseDown /\ stretch.handle = "none" /\ Over
  /\ LET offset == p - startPos - lastMoveOffset
     IN  \E snap \in SnapItemMovement(offset) :
           /\ lastMoveOffset' = Moved(offset, snap)
           /\ left' = [i \in Items |-> left[i] + IF i \in Movable THEN offset + snap ELSE 0]
           /\ right' = [i \in Items |-> right[i] + IF i \in Movable THEN offset + snap ELSE 0]
  /\ selected' = Chosen
  /\ selectionBox' = FALSE

(* A drag over nothing.                                                    *)
SelectionBox ==
  /\ mouseDown /\ stretch.handle = "none" /\ ~Over
  /\ selectionBox' = TRUE
  /\ selected' = IF mouseMoved THEN selected ELSE ProcessClick(startPos, "none")
  /\ UNCHANGED <<left, right, lastMoveOffset>>

Drag(p) ==
  /\ StretchItem(p) \/ MoveItems(p) \/ SelectionBox
  /\ mouseMoved' = TRUE /\ mouseOverItems' = Over
  /\ UNCHANGED <<scene, locked, mouseDown, mouse_btn_type_, startPos, stretch,
                 hoveredPreviewItem, unseen>>

MouseMove(p) ==
  /\ p # ptr /\ ptr' = p
  /\ Hover(p) \/ Drag(p)
  /\ UNCHANGED <<held, pool, bounds, grabbed, touched, disturbed, crossed>>

-----------------------------------------------------------------------------
(* Requests of the host: EditSourceItem on the pool, and UNSELECT on the   *)
(* UI thread.                                                              *)
Request(i) ==
  /\ i \in scene
  /\ requests < MaxRequests /\ requests' = requests + 1
  /\ touched' = touched \cup {i}
  /\ UNCHANGED <<ptr, held, gesture, presses, grabbed, disturbed>>

Remove(i) ==
  /\ pool = None /\ Request(i)
  /\ scene' = scene \ {i}
  /\ unseen' = (unseen \/ hoveredPreviewItem = i)
  /\ UNCHANGED <<left, right, selected, locked, pool, crossed>>

SetLocked(i) ==
  /\ pool = None /\ Request(i)
  /\ locked' = IF i \in locked THEN locked \ {i} ELSE locked \cup {i}
  /\ UNCHANGED <<scene, left, right, selected, pool, unseen, crossed>>

Reset(i) ==
  /\ pool = None /\ Request(i)
  /\ left' = [left EXCEPT ![i] = 0] /\ right' = [right EXCEPT ![i] = Size]
  /\ UNCHANGED <<scene, selected, locked, pool, unseen, crossed>>

(* SELECT: all items are unselected and then the item is selected.         *)
Unselect(i) ==
  /\ pool = None /\ Request(i)
  /\ selected' = {}
  /\ pool' = i
  /\ UNCHANGED <<scene, left, right, locked, unseen, crossed>>

(* While it does so, or while a selection box is drawn, the mouse selects. *)
Select ==
  /\ pool # None
  /\ selected' = selected \cup {pool}
  /\ touched' = touched \cup {pool}
  /\ crossed' = (crossed \/ selectionBox \/ selected # {})
  /\ pool' = None
  /\ UNCHANGED <<scene, left, right, locked, ptr, held, gesture, bounds,
                 grabbed, disturbed, unseen>>

SetAllSourceDataUnselect ==
  /\ selected # {}
  /\ requests < MaxRequests /\ requests' = requests + 1
  /\ selected' = {}
  /\ UNCHANGED <<scene, left, right, locked, ptr, held, gesture, pool, presses,
                 grabbed, touched, disturbed, unseen, crossed>>

-----------------------------------------------------------------------------
Mouse ==
  \/ \E b \in Buttons : Press(b) \/ Release(b) \/ LoseRelease(b)
  \/ \E p \in Points : MouseMove(p)
  \/ MouseLeave

Host ==
  \/ \E i \in Items :
       Remove(i) \/ SetLocked(i) \/ Reset(i) \/ Unselect(i)
  \/ Select \/ SetAllSourceDataUnselect

PreviewNext == Mouse \/ Host

PreviewSpec == PreviewInit /\ [][PreviewNext]_previewVars

-----------------------------------------------------------------------------
(* Types; one drag moves the items by no more than the canvas is wide and a *)
(* snap.                                                                   *)
PreviewTypeOK ==
  LET Near == (-Width - SnapDist) .. (Width + SnapDist)
  IN  /\ scene \subseteq Items /\ locked \subseteq Items /\ selected \subseteq Items
      /\ left \in [Items -> Int] /\ right \in [Items -> Int]
      /\ ptr \in Points /\ held \subseteq Buttons /\ startPos \in Points
      /\ {mouseDown, mouseMoved, mouseOverItems, selectionBox} \subseteq BOOLEAN
      /\ mouse_btn_type_ \in Buttons \cup {"none"}
      /\ lastMoveOffset \in Near
      /\ stretch.item \in Items \cup {None} /\ stretch.handle \in {"left", "right", "none"}
      /\ {hoveredPreviewItem, pool} \subseteq Items \cup {None}
      /\ {disturbed, unseen, crossed} \subseteq BOOLEAN

(* With no button down nothing of a gesture is left: the next one starts   *)
(* clean.  Only two buttons at once, or a release that went elsewhere, can *)
(* leave it half done, and the next full gesture repairs that.             *)
IdleIsClean ==
  held = {} /\ ~disturbed =>
    ~mouseDown /\ ~mouseMoved /\ ~selectionBox

(* At most one item is selected, although a selection box adds the item    *)
(* under the mouse to what is selected, unless a SELECT request met the    *)
(* mouse in the middle, or the box was drawn after a gesture that was left *)
(* half done.                                                              *)
OneSelected == crossed \/ Cardinality(selected \cap scene) <= 1

(* A drag keeps the items it moves where they were grabbed plus what it    *)
(* moved by, and that is within the snap of where the mouse is: snaps do   *)
(* not add up.                                                             *)
DragFollowsPointer ==
  mouseDown /\ mouseMoved /\ mouseOverItems /\ stretch.handle = "none" /\ ~disturbed =>
    /\ Abs(lastMoveOffset - (ptr - startPos)) < SnapDist
    /\ \A i \in (scene \cap selected) \ (locked \cup touched) :
         left[i] = grabbed[i] + lastMoveOffset

(* hoveredPreviewItem is a plain pointer.  It outlives the item only until *)
(* the mouse next moves without a button, leaves, or ends a gesture.       *)
FreedHoverIsFresh == hoveredPreviewItem \in scene \cup {None} \/ unseen

(* The mouse changes the place of a locked item only by a handle, which    *)
(* locked items keep while they are selected.                              *)
LockedMovesByHandle ==
  [][\A i \in scene \cap locked :
       left'[i] # left[i] /\ Mouse => stretch.handle # "none" /\ stretch.item = i]_previewVars

(* What a drag moves: by as much as the mouse, and nothing that is locked. *)
DragsMoveWhatTheyHold == [][DragFollowsPointer']_previewVars /\ LockedMovesByHandle

(* What a gesture leaves behind: nothing it could move or draw by, and no  *)
(* pointer the next one would follow.                                      *)
NothingIsLeft == IdleIsClean /\ FreedHoverIsFresh
=============================================================================
