---------------------------- MODULE SearchInput ----------------------------
(***************************************************************************)
(* What the user does to the search window on Windows: the edit control    *)
(* with its input method (include/such/ui/CommittedInputGate.h), the rows  *)
(* of the results, the tray of actions that a swipe opens below a row      *)
(* (src/ui/SwipeActions.cpp), and the messages that drive them, each of    *)
(* them a handler of platform/windows/Win32Frontend.cpp.                   *)
(*                                                                         *)
(* Points are in DIP.  A press hits a row (0: none) at an x; a move is an  *)
(* x and the vertical distance from the press.  The trailing tray of the   *)
(* default build is modelled, not the leading one of the experimental      *)
(* build.  The runtime is a table of answers: Win32Frontend models the     *)
(* index, SearchQuery the search.                                          *)
(***************************************************************************)
EXTENDS Integers, Sequences

CONSTANTS
  Texts, Empty,   \* committed texts of the search box, the empty one
  Completion,     \* the text a text is completed to; itself when to none
  Files,          \* the files in the index
  Answer,         \* the rows of a text, at every generation of the index
  LastGeneration, \* bound: the generations of the index are 0..LastGeneration
  Pointers,       \* ids of touch and pen contacts
  Xs, Drops,      \* where a pointer is: x, and distance below its press
  PostLimit,      \* bound: messages posted and not yet dispatched
  None

\* The edit control: its text, with a preedit string in it or not.
Boxes == [text : Texts, pre : BOOLEAN]

ASSUME InputAssumption ==
  /\ Empty \in Texts
  /\ Completion \in [Texts -> Texts]
  /\ LastGeneration \in Nat
  /\ Answer \in [Texts -> [0..LastGeneration -> Seq(Files)]]
  /\ Xs \subseteq Int /\ Drops \subseteq Nat
  /\ PostLimit \in Nat
  /\ None \notin Pointers \cup Files \cup Boxes

VARIABLES
  box,         \* text of the edit control; pre: a preedit string is in it
  composing,   \* the input method is composing (gate and window flag)
  last,        \* the committed text the gate has seen; None before the first
  posted,      \* kMsgRefreshAfterIme messages in the queue
  query,       \* gQuery, the text the rows were searched for
  rows,        \* gResults
  offered,     \* gSuggestions is not empty
  handle,      \* gRuntime is there
  index,       \* the generation of the runtime's index
  noted,       \* gRuntimeGeneration
  swipe,       \* state of the SwipeController
  swiped,      \* history: the file of the row that was pressed last
  capture,     \* the window has the mouse
  pointer,     \* gActivePointerId
  muted,       \* before gIgnoreMouseUntil
  menu         \* the open context menu: its row, and the file of that row

edit    == <<box, composing, posted>>
results == <<last, query, rows, offered>>
runtime == <<handle, index, noted>>
owner   == <<capture, pointer, muted>>
vars    == <<edit, results, runtime, swipe, swiped, owner, menu>>

-----------------------------------------------------------------------------
(* The swipe controller.                                                   *)

Tray     == 216          \* width of the tray
Hard     == 313          \* 1.45 trays: as far as a row can be dragged
DeadZone == 9
RowWidth == 480

\* Where the tray stands in a row; the controller, with no row.
Closed == [row |-> 0, offset |-> 0, dragging |-> FALSE, latched |-> FALSE,
           initial |-> 0, start |-> 0]

IsOpen == swipe.row # 0 /\ swipe.offset < 0

Begin(row, x) ==
  LET initial == IF IsOpen /\ swipe.row = row THEN swipe.offset ELSE 0
  IN  [row |-> row, offset |-> initial, dragging |-> TRUE, latched |-> FALSE,
       initial |-> initial, start |-> x]

\* Mutated form: a row can be dragged off the window.
ClampRightOnly(n) == IF n > 0 THEN 0 ELSE n

Abs(n) == IF n < 0 THEN -n ELSE n

Clamp(n) == IF n < -Hard THEN -Hard ELSE IF n > 0 THEN 0 ELSE n

\* A move: in the dead zone nothing happens; a vertical one cancels, and so
\* does one to the right on a closed row; the first other one latches.
Update(x, drop) ==
  LET dx == x - swipe.start
  IN  CASE ~swipe.latched /\ Abs(dx) < DeadZone /\ drop < DeadZone -> swipe
        [] ~swipe.latched /\ (Abs(dx) >= DeadZone \/ drop >= DeadZone)
             /\ \/ Abs(dx) * 100 <= drop * 115
                \/ swipe.initial = 0 /\ dx > 0
             -> [swipe EXCEPT !.dragging = FALSE, !.row = 0]
        [] OTHER -> [swipe EXCEPT !.latched = TRUE,
                                  !.offset = Clamp(swipe.initial + dx)]

\* Mutated form: the row stays where it was let go.
EndUnsnapped(fling) ==
  IF swipe.latched /\ -swipe.offset * 100 >= 34 * Tray
  THEN [swipe EXCEPT !.dragging = FALSE]
  ELSE Closed

\* The release: snap open or closed.  A flick (fling) is asked about only
\* after everything short of a third of the tray has been closed.
End(fling) ==
  LET distance == -swipe.offset
      reached(percent) == distance * 100 >= percent * Tray
  IN  IF /\ swipe.latched
         /\ reached(34)
         /\ reached(34) \/ (fling /\ reached(22))
      THEN [swipe EXCEPT !.dragging = FALSE, !.offset = -Tray]
      ELSE Closed

-----------------------------------------------------------------------------
(* The rows.                                                               *)

Rows(text, there) == IF there THEN Answer[text][index] ELSE <<>>

\* Mutated form: only the gate knows of the composition.
RefreshComposing(b, there) ==
  /\ query' = b
  /\ last' = b
  /\ rows' = Rows(b.text, there)
  /\ offered' = (Completion[b.text] # b.text)
  /\ swipe' = Closed

\* Mutated form: the new rows are put above the open tray.
RefreshKeepsTray(b, there) ==
  IF composing
  THEN UNCHANGED <<results, swipe>>
  ELSE /\ query' = b
       /\ last' = b
       /\ rows' = Rows(b.text, there)
       /\ offered' = (Completion[b.text] # b.text)
       /\ swipe' = swipe

\* refresh_query, with b in the edit control and the runtime there or not:
\* nothing while the input method composes; otherwise the new rows take the
\* open tray with them.
RefreshFrom(b, there) ==
  IF composing
  THEN UNCHANGED <<results, swipe>>
  ELSE /\ query' = b
       /\ last' = b
       /\ rows' = Rows(b.text, there)
       /\ offered' = (Completion[b.text] # b.text)
       /\ swipe' = Closed

Refresh(b) == RefreshFrom(b, handle)

\* accept: a committed text, and not the one of the last time.
Accepts(b) == ~composing /\ b # last

\* Mutated form: what comes during a composition is remembered as seen.
CommittedRemembering(b) ==
  IF Accepts(b)
  THEN Refresh(b)
  ELSE last' = b /\ UNCHANGED <<query, rows, offered, swipe>>

\* refresh_committed_edit_input, on EN_CHANGE and after a composition.
Committed(b) ==
  IF Accepts(b) THEN Refresh(b) ELSE UNCHANGED <<results, swipe>>

FileAt(row) == IF row \in 1..Len(rows) THEN rows[row] ELSE None

-----------------------------------------------------------------------------
(* The edit control and its input method.                                  *)

Typing == menu = None

\* A key, a paste or a deletion, with no composition: EN_CHANGE.
Type(t) ==
  /\ Typing /\ ~composing
  /\ box' = [text |-> t, pre |-> FALSE]
  /\ Committed(box')
  /\ UNCHANGED <<composing, posted, runtime, swiped, owner, menu>>

\* WM_IME_STARTCOMPOSITION.
StartComposition ==
  /\ Typing /\ ~composing /\ posted < PostLimit
  /\ composing' = TRUE
  /\ UNCHANGED <<box, posted, results, runtime, swipe, swiped, owner, menu>>

\* The input method shows a preedit string, or commits some of it and goes
\* on; EN_CHANGE comes while the composition is on.
Compose(t, preedit) ==
  /\ Typing /\ composing
  /\ box' = [text |-> t, pre |-> preedit]
  /\ Committed(box')
  /\ UNCHANGED <<composing, posted, runtime, swiped, owner, menu>>

\* WM_IME_ENDCOMPOSITION: the control commits (or drops) the preedit string,
\* with its EN_CHANGE, before the flags are cleared.
EndComposition(t) ==
  /\ Typing /\ composing
  /\ box' = [text |-> t, pre |-> FALSE]
  /\ composing' = FALSE
  /\ posted' = posted + 1
  /\ Committed(box')
  /\ UNCHANGED <<runtime, swiped, owner, menu>>

\* kMsgRefreshAfterIme.
AfterIme ==
  /\ posted > 0
  /\ posted' = posted - 1
  /\ Committed(box)
  /\ UNCHANGED <<box, composing, runtime, swiped, owner, menu>>

\* SetWindowTextW, whose EN_CHANGE is handled inside, and refresh_query.
Replace(t) ==
  /\ box' = [text |-> t, pre |-> FALSE]
  /\ Refresh(box')
  /\ UNCHANGED <<composing, posted, runtime, swiped, owner, menu>>

\* autocomplete_suggestion: Tab (which the input method keeps while it
\* composes) or a click on a suggestion.  It completes gQuery, not the box.
Complete(clicked) ==
  /\ Typing /\ offered
  /\ IF clicked THEN ~muted ELSE ~composing
  /\ Replace(Completion[query.text])

\* A click on the cross in the search box.
Clear ==
  /\ Typing /\ ~muted /\ query.text # Empty
  /\ Replace(Empty)

-----------------------------------------------------------------------------
(* The index.                                                              *)

\* External: a change of the index the runtime reads.
IndexChanges ==
  /\ handle /\ index < LastGeneration
  /\ index' = index + 1
  /\ UNCHANGED <<edit, results, handle, noted, swipe, swiped, owner, menu>>

\* WM_TIMER: a generation that is new is noted and the rows are refreshed.
TimerRefresh ==
  /\ handle /\ index # noted
  /\ noted' = index
  /\ UNCHANGED <<handle, index>>
  /\ Refresh(box)
  /\ UNCHANGED <<edit, swiped, owner, menu>>

\* start_index_worker, for a command or for the schedule: the handle goes,
\* and comes back as a reader if there is a checkpoint.
Launch ==
  /\ rows' = <<>> /\ offered' = FALSE
  /\ handle' \in BOOLEAN
  /\ UNCHANGED <<edit, last, query, index, noted, swipe, swiped, owner, menu>>

\* reload_runtime_after_index_worker.
Reload ==
  \/ /\ handle' = TRUE /\ noted' = index
     /\ RefreshFrom(box, TRUE)
     /\ UNCHANGED <<edit, index, swiped, owner, menu>>
  \/ /\ handle' = FALSE
     /\ UNCHANGED <<edit, results, index, noted, swipe, swiped, owner, menu>>

-----------------------------------------------------------------------------
(* The pointers.                                                           *)

\* hit_swipe_action: the point is in the row of the open tray, and where its
\* actions are revealed; a third of the tray is one action.
OnTray(row, x) ==
  /\ IsOpen /\ row = swipe.row /\ row \in 1..Len(rows)
  /\ x >= RowWidth - Tray /\ x >= RowWidth + swipe.offset /\ x < RowWidth

TrayAction(x) ==
  <<"location", "index", "pin">>[((x - (RowWidth - Tray)) * 3) \div Tray + 1]

\* perform_action: both toggles refresh the rows (the runtime may fail them),
\* and every action closes the tray; a row that is gone does nothing.
Perform(row, action) ==
  IF row \notin 1..Len(rows)
  THEN UNCHANGED <<results, swipe>>
  ELSE IF action \in {"index", "pin"} /\ handle /\ ~composing
       THEN Refresh(box)
       ELSE swipe' = Closed /\ UNCHANGED results

\* A press at x in a row, of whatever pointer: it taps the tray, begins a
\* drag, or closes the tray.
TapTray(row, x) ==
  /\ OnTray(row, x)
  /\ Perform(swipe.row, TrayAction(x))
  /\ UNCHANGED swiped

BeginDrag(row, x) ==
  /\ ~OnTray(row, x) /\ row \in 1..Len(rows)
  /\ swipe' = Begin(row, x)
  /\ swiped' = FileAt(row)
  /\ UNCHANGED results

PressNothing(row, x) ==
  /\ ~OnTray(row, x) /\ row \notin 1..Len(rows)
  /\ swipe' = Closed
  /\ UNCHANGED <<results, swiped>>

\* WM_LBUTTONDOWN.
MouseDown(row, x) ==
  /\ Typing /\ ~muted
  /\ \/ /\ BeginDrag(row, x) /\ capture' = TRUE
     \/ /\ TapTray(row, x) \/ PressNothing(row, x)
        /\ UNCHANGED capture
  /\ UNCHANGED <<edit, runtime, pointer, muted, menu>>

\* WM_MOUSEMOVE.
MouseMove(x, drop) ==
  /\ Typing /\ ~muted /\ swipe.dragging
  /\ swipe' = Update(x, drop)
  /\ UNCHANGED <<edit, results, runtime, swiped, owner, menu>>

\* WM_LBUTTONUP: the drag ends before the mouse is let go.
MouseUp(fling) ==
  /\ Typing /\ ~muted
  /\ swipe' = IF swipe.dragging THEN End(fling) ELSE swipe
  /\ capture' = FALSE
  /\ UNCHANGED <<edit, results, runtime, swiped, pointer, muted, menu>>

\* Mutated form: the drag goes on without the mouse.
LoseCaptureOnly == capture' = FALSE /\ UNCHANGED swipe

\* WM_CAPTURECHANGED: another window took the mouse.
LoseCapture ==
  /\ capture' = FALSE
  /\ swipe' = IF swipe.dragging /\ pointer = None THEN Closed ELSE swipe

CaptureChanged ==
  /\ capture
  /\ LoseCapture
  /\ UNCHANGED <<edit, results, runtime, swiped, pointer, muted, menu>>

\* WM_POINTERDOWN: a second contact is ignored, an accepted one mutes the
\* mouse, which repeats what a finger does.
PointerDown(p, row, x) ==
  /\ Typing /\ pointer \in {None, p}
  /\ muted' = TRUE
  /\ \/ /\ BeginDrag(row, x) /\ pointer' = p
     \/ /\ TapTray(row, x) \/ PressNothing(row, x)
        /\ UNCHANGED pointer
  /\ UNCHANGED <<edit, runtime, capture, menu>>

\* WM_POINTERUPDATE.
PointerUpdate(p, x, drop) ==
  /\ Typing /\ p = pointer /\ swipe.dragging
  /\ swipe' = Update(x, drop)
  /\ UNCHANGED <<edit, results, runtime, swiped, owner, menu>>

\* WM_POINTERUP.
PointerUp(p, fling) ==
  /\ Typing /\ p = pointer
  /\ swipe' = IF swipe.dragging THEN End(fling) ELSE swipe
  /\ pointer' = None
  /\ UNCHANGED <<edit, results, runtime, swiped, capture, muted, menu>>

\* WM_POINTERCAPTURECHANGED.
PointerCaptureChanged(p) ==
  /\ p = pointer
  /\ pointer' = None
  /\ swipe' = IF swipe.dragging THEN Closed ELSE swipe
  /\ UNCHANGED <<edit, results, runtime, swiped, capture, muted, menu>>

\* 350 ms after the last accepted touch.
Unmute ==
  /\ muted
  /\ muted' = FALSE
  /\ UNCHANGED <<edit, results, runtime, swipe, swiped, capture, pointer, menu>>

\* What closes the tray besides: WM_SIZE, the wheel and the scroll bar
\* (set_scroll_dip), a double click, the arrow keys (move_selection).
CloseTray ==
  /\ Typing
  /\ swipe' = Closed
  /\ UNCHANGED <<edit, results, runtime, swiped, owner, menu>>

\* Escape: kMsgCloseTransient.
Escape ==
  /\ Typing /\ ~composing
  /\ offered' = FALSE
  /\ swipe' = Closed
  /\ UNCHANGED <<edit, last, query, rows, runtime, swiped, owner, menu>>

-----------------------------------------------------------------------------
(* The context menu.  It takes the mouse and the keyboard, and its loop    *)
(* dispatches what is posted, and the timer.                               *)

OpenMenu(row) ==
  /\ Typing /\ row \in 1..Len(rows)
  /\ menu' = [row |-> row, file |-> FileAt(row)]
  /\ LoseCapture
  /\ UNCHANGED <<edit, results, runtime, swiped, pointer, muted>>

ChooseMenu(action) ==
  /\ menu # None
  /\ menu' = None
  /\ Perform(menu.row, action)
  /\ UNCHANGED <<edit, runtime, swiped, owner>>

DismissMenu ==
  /\ menu # None
  /\ menu' = None
  /\ UNCHANGED <<edit, results, runtime, swipe, swiped, owner>>

-----------------------------------------------------------------------------
Init ==
  /\ box = [text |-> Empty, pre |-> FALSE]
  /\ composing = FALSE /\ last = None /\ posted = 0
  /\ query = box /\ rows = <<>> /\ offered = FALSE
  /\ handle = TRUE /\ index = 0 /\ noted = 0
  /\ swipe = Closed /\ swiped = None
  /\ capture = FALSE /\ pointer = None /\ muted = FALSE
  /\ menu = None

Presses == 0..Len(rows)

Editing ==
  \/ \E t \in Texts : Type(t) \/ EndComposition(t)
  \/ \E t \in Texts, preedit \in BOOLEAN : Compose(t, preedit)
  \/ \E clicked \in BOOLEAN : Complete(clicked)
  \/ StartComposition \/ AfterIme \/ Clear

Indexing == IndexChanges \/ TimerRefresh \/ Launch \/ Reload

Pointing ==
  \/ \E row \in Presses, x \in Xs :
       MouseDown(row, x) \/ \E p \in Pointers : PointerDown(p, row, x)
  \/ \E x \in Xs, drop \in Drops :
       MouseMove(x, drop) \/ \E p \in Pointers : PointerUpdate(p, x, drop)
  \/ \E fling \in BOOLEAN :
       MouseUp(fling) \/ \E p \in Pointers : PointerUp(p, fling)
  \/ \E p \in Pointers : PointerCaptureChanged(p)
  \/ CaptureChanged \/ Unmute \/ CloseTray \/ Escape

Menu ==
  \/ \E row \in Presses : OpenMenu(row)
  \/ \E action \in {"location", "index", "pin", "properties"} : ChooseMenu(action)
  \/ DismissMenu

Next == Editing \/ Indexing \/ Pointing \/ Menu

Spec == Init /\ [][Next]_vars

-----------------------------------------------------------------------------
Swipes == [row : Nat, offset : -Hard..0, dragging : BOOLEAN, latched : BOOLEAN,
           initial : -Hard..0, start : Xs \cup {0}]

\* The state of the window; a drag stays within one tray and a half.
TypeOK ==
  /\ box \in Boxes /\ query \in Boxes /\ last \in Boxes \cup {None}
  /\ composing \in BOOLEAN /\ offered \in BOOLEAN /\ handle \in BOOLEAN
  /\ posted \in 0..PostLimit
  /\ rows \in Seq(Files)
  /\ index \in 0..LastGeneration /\ noted \in 0..index
  /\ swipe \in Swipes
  /\ swiped \in Files \cup {None}
  /\ capture \in BOOLEAN /\ muted \in BOOLEAN
  /\ pointer \in Pointers \cup {None}
  /\ menu \in [row : Nat, file : Files] \cup {None}

\* A preedit string is never searched for, by whichever of the seven ways the
\* rows are refreshed: refresh_query and the gate are asked in every order.
PreeditNeverSearched == ~query.pre

\* When no composition is on and nothing is posted, the rows are those of the
\* text in the box, at some generation of the index, or were cleared for a
\* worker: no commit is lost between the gate and the message that ends a
\* composition.
SettledRowsMatchText ==
  ~composing /\ posted = 0 =>
    /\ query = box
    /\ \/ rows = <<>>
       \/ \E g \in 0..index : rows = Answer[box.text][g]

\* What an open tray acts on is the file that was swiped: rows are never
\* exchanged above it.
TrayShowsItsRow ==
  IsOpen => rows = <<>> \/ FileAt(swipe.row) = swiped

\* A tray that nobody drags is closed or open all the way, however the drag
\* ended: release, cancellation, a lost capture, another pointer's press.
TraySettles ==
  ~swipe.dragging /\ IsOpen => swipe.offset = -Tray

\* Whoever drags will be told of the end: the mouse is captured, or a contact
\* is active.
DragHasOwner == swipe.dragging => capture \/ pointer # None

\* The context menu acts on the file it was opened on.
MenuActsOnItsRow ==
  [][\A action \in {"location", "index", "pin", "properties"} :
       ChooseMenu(action) /\ menu.row <= Len(rows)
         => FileAt(menu.row) = menu.file]_vars
=============================================================================
