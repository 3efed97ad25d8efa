------------------------- MODULE SearchInputProofs -------------------------
(***************************************************************************)
(* For every table of answers, whatever is typed, composed, swiped and     *)
(* indexed in whatever order: a preedit string is not searched for, no     *)
(* commit is lost, and a tray belongs to the row that was swiped.          *)
(***************************************************************************)
EXTENDS SearchInput, TLAPS

\* The rows are an answer to a text, or were cleared for a worker.
RowsAnswer(text) == rows = <<>> \/ \E g \in 0..index : rows = Answer[text][g]

\* Between the gate and the rows: what the gate has seen is what the rows were
\* searched for; the box is ahead of both only while a composition is on or a
\* message of one is still posted.
GateInv ==
  /\ PreeditNeverSearched
  /\ box.pre => composing
  /\ composing => posted < PostLimit
  /\ last # None => last = query
  /\ RowsAnswer(query.text)
  /\ ~composing /\ posted = 0 => query = box

\* A row has the tray from the press on, before it is open.
TrayOwned == swipe.row # 0 => rows = <<>> \/ FileAt(swipe.row) = swiped

TrayInv ==
  /\ TrayOwned
  /\ TraySettles
  /\ DragHasOwner

InputInv == TypeOK /\ GateInv /\ TrayInv

-----------------------------------------------------------------------------
(* The swipe controller.                                                   *)

LEMMA ClosedTray == Closed \in Swipes
BY DEF Closed, Swipes, Hard

\* A row that closes its tray, or keeps it with the rows, disturbs nothing.
LEMMA TrayClosed == swipe' = Closed => TrayInv'
BY DEF TrayInv, TrayOwned, TraySettles, DragHasOwner, IsOpen, Closed

LEMMA TrayKept ==
  ASSUME TrayInv, swipe' = swipe, rows' = rows \/ rows' = <<>>, swiped' = swiped,
         swipe.dragging => capture' \/ pointer' # None
  PROVE  TrayInv'
BY DEF TrayInv, TrayOwned, TraySettles, DragHasOwner, IsOpen, FileAt

\* The steps of the controller stay in its state space.
LEMMA CancelledTray ==
  ASSUME NEW s \in Swipes
  PROVE  [s EXCEPT !.dragging = FALSE, !.row = 0] \in Swipes
BY DEF Swipes

LEMMA DraggedTray ==
  ASSUME NEW s \in Swipes, NEW n \in -Hard..0
  PROVE  LET t == [s EXCEPT !.latched = TRUE, !.offset = n]
         IN  t \in Swipes /\ t.row = s.row /\ t.dragging = s.dragging
BY DEF Swipes

LEMMA SnappedTray ==
  ASSUME NEW s \in Swipes
  PROVE  LET t == [s EXCEPT !.dragging = FALSE, !.offset = -Tray]
         IN  t \in Swipes /\ t.row = s.row /\ ~t.dragging /\ t.offset = -Tray
<1>1. -Tray \in -Hard..0
  BY DEF Tray, Hard
<1> QED BY <1>1 DEF Swipes

LEMMA ClampStays == ASSUME NEW n \in Int PROVE Clamp(n) \in -Hard..0
BY DEF Clamp, Hard

\* Both ends of a drag are numbers.
LEMMA DragPoints ==
  ASSUME NEW s \in Swipes, NEW x \in Xs
  PROVE  s.initial + (x - s.start) \in Int
<1>1. Xs \subseteq Int
  BY InputAssumption
<1>2. x \in Int
  BY <1>1, Zenon
<1>3. s.start \in Xs \cup {0} /\ s.initial \in -Hard..0
  BY DEF Swipes
<1>4. s.start \in Int
  <2>1. 0 \in Int
    OBVIOUS
  <2> QED BY <1>1, <1>3, <2>1, Zenon
<1> QED BY <1>2, <1>3, <1>4 DEF Hard

\* A move leaves the tray with its row or takes the row from it.
LEMMA UpdateKeeps ==
  ASSUME TypeOK, NEW x \in Xs, NEW drop \in Drops
  PROVE  /\ Update(x, drop) \in Swipes
         /\ Update(x, drop).row # 0 =>
              /\ Update(x, drop).row = swipe.row
              /\ Update(x, drop).dragging = swipe.dragging
<1> DEFINE n == Clamp(swipe.initial + (x - swipe.start))
<1>1. swipe \in Swipes
  BY DEF TypeOK
<1>2. n \in -Hard..0
  BY <1>1, DragPoints, ClampStays
<1>3. \/ Update(x, drop) = swipe
      \/ Update(x, drop) = [swipe EXCEPT !.dragging = FALSE, !.row = 0]
      \/ Update(x, drop) = [swipe EXCEPT !.latched = TRUE, !.offset = n]
  BY DEF Update
<1>4. CASE Update(x, drop) = swipe
  BY <1>1, <1>4
<1>5. CASE Update(x, drop) = [swipe EXCEPT !.dragging = FALSE, !.row = 0]
  <2>1. Update(x, drop).row = 0
    BY <1>1, <1>5 DEF Swipes
  <2> QED BY <1>1, <1>5, <2>1, CancelledTray
<1>6. CASE Update(x, drop) = [swipe EXCEPT !.latched = TRUE, !.offset = n]
  BY <1>1, <1>2, <1>6, DraggedTray
<1> QED BY <1>3, <1>4, <1>5, <1>6

\* A release leaves the tray open all the way, or closed.
LEMMA EndSettles ==
  ASSUME TypeOK, NEW fling \in BOOLEAN
  PROVE  /\ End(fling) \in Swipes /\ ~End(fling).dragging
         /\ End(fling).row # 0 =>
              End(fling).row = swipe.row /\ End(fling).offset = -Tray
<1>1. End(fling) = [swipe EXCEPT !.dragging = FALSE, !.offset = -Tray]
      \/ End(fling) = Closed
  BY DEF End
<1>2. swipe \in Swipes
  BY DEF TypeOK
<1>3. CASE End(fling) = [swipe EXCEPT !.dragging = FALSE, !.offset = -Tray]
  BY <1>2, <1>3, SnappedTray
<1>4. CASE End(fling) = Closed
  BY <1>4, ClosedTray DEF Closed
<1> QED BY <1>1, <1>3, <1>4

\* A press begins a drag of the row it hits.
LEMMA BeginDrags ==
  ASSUME TypeOK, NEW row \in Nat, NEW x \in Xs
  PROVE  /\ Begin(row, x) \in Swipes
         /\ Begin(row, x).row = row /\ Begin(row, x).dragging
BY DEF Begin, TypeOK, Swipes, Hard

-----------------------------------------------------------------------------
(* The rows.                                                               *)

\* What a refresh from the box b, or the gate in its place, does to the rows.
Refreshed(b) ==
  /\ query' \in Boxes /\ last' \in Boxes \cup {None}
  /\ offered' \in BOOLEAN /\ rows' \in Seq(Files)
  /\ ~query'.pre
  /\ last' # None => last' = query'
  /\ rows' = <<>> \/ \E g \in 0..index : rows' = Answer[query'.text][g]
  /\ ~composing => query' = b
  /\ swipe' = Closed \/ (swipe' = swipe /\ rows' = rows)

LEMMA RefreshAnswers ==
  ASSUME InputInv, NEW b \in Boxes, NEW there, b.pre => composing,
         RefreshFrom(b, there)
  PROVE  Refreshed(b)
<1>1. CASE composing
  BY <1>1 DEF InputInv, TypeOK, GateInv, PreeditNeverSearched, RowsAnswer, RefreshFrom,
              Refreshed, results
<1>2. CASE ~composing
  <2>1. b.text \in Texts /\ index \in 0..LastGeneration
    BY DEF InputInv, TypeOK, Boxes
  <2>2. Answer[b.text][index] \in Seq(Files) /\ index \in 0..index
    BY <2>1, InputAssumption
  <2>3. rows' = Answer[b.text][index] \/ rows' = <<>>
    BY <1>2 DEF RefreshFrom, Rows
  <2>7. <<>> \in Seq(Files)
    OBVIOUS
  <2>5. rows' \in Seq(Files)
    BY <2>2, <2>3, <2>7, Zenon
  <2>6. rows' = <<>> \/ \E g \in 0..index : rows' = Answer[b.text][g]
    BY <2>2, <2>3
  <2>4. offered' \in BOOLEAN
    BY <1>2 DEF RefreshFrom
  <2> QED BY <1>2, <2>4, <2>5, <2>6 DEF RefreshFrom, Refreshed
<1> QED BY <1>1, <1>2

\* The gate lets a text through that the rows were not searched for; one that
\* it stops is what they were searched for.
LEMMA GateAnswers ==
  ASSUME InputInv, NEW b \in Boxes, b.pre => composing, Committed(b)
  PROVE  Refreshed(b)
<1>1. CASE Accepts(b)
  BY <1>1, RefreshAnswers DEF Committed, Refresh
<1>2. CASE ~Accepts(b)
  <2>1. UNCHANGED <<results, swipe>>
    BY <1>2 DEF Committed
  <2>2. ~composing => query = b
    BY <1>2, InputAssumption DEF Accepts, InputInv, GateInv
  <2> QED BY <2>1, <2>2 DEF InputInv, TypeOK, GateInv, PreeditNeverSearched, RowsAnswer,
                            Refreshed, results
<1> QED BY <1>1, <1>2

\* Rows that are not refreshed are as good as refreshed from what they were
\* searched for.
LEMMA NotRefreshed ==
  ASSUME InputInv, UNCHANGED results, swipe' = Closed \/ swipe' = swipe
  PROVE  Refreshed(query)
BY DEF InputInv, TypeOK, GateInv, PreeditNeverSearched, RowsAnswer, Refreshed, results

\* An action that refreshes the rows, or may do so, keeps the invariant if it
\* leaves the box at what was searched for or a message posted.
LEMMA RefreshKeeps ==
  ASSUME InputInv, NEW b, Refreshed(b),
         index' = index, noted' \in 0..index, handle' \in BOOLEAN, swiped' = swiped,
         UNCHANGED <<capture, pointer>>, muted' \in BOOLEAN,
         menu' \in [row : Nat, file : Files] \cup {None},
         box' \in Boxes, composing' \in BOOLEAN, posted' \in 0..PostLimit,
         box'.pre => composing', composing' => posted' < PostLimit,
         ~composing' /\ posted' = 0 => query' = box'
  PROVE  InputInv'
<1>1. TypeOK'
  BY ClosedTray DEF InputInv, TypeOK, Refreshed
<1>2. GateInv'
  BY DEF InputInv, GateInv, PreeditNeverSearched, RowsAnswer, Refreshed
<1>3. TrayInv'
  BY TrayClosed, TrayKept DEF InputInv, TrayInv, DragHasOwner, Refreshed
<1> QED BY <1>1, <1>2, <1>3 DEF InputInv

\* Nothing is searched for, and the box is left alone.
LEMMA GateKept ==
  ASSUME InputInv, UNCHANGED <<edit, last, query, index>>, rows' = rows \/ rows' = <<>>
  PROVE  GateInv'
BY DEF InputInv, GateInv, PreeditNeverSearched, RowsAnswer, edit

-----------------------------------------------------------------------------
(* The edit control and its input method.                                  *)

LEMMA EditingKeeps ==
  ASSUME InputInv, Editing
  PROVE  InputInv'
<1>1. /\ TypeOK /\ GateInv
      /\ handle \in BOOLEAN /\ muted \in BOOLEAN /\ noted \in 0..index
      /\ menu \in [row : Nat, file : Files] \cup {None}
      /\ composing \in BOOLEAN /\ posted \in 0..PostLimit /\ PostLimit \in Nat
      /\ query.text \in Texts
  BY InputAssumption DEF InputInv, TypeOK, Boxes
<1>2. ASSUME NEW t \in Texts, NEW preedit \in BOOLEAN
      PROVE  [text |-> t, pre |-> preedit] \in Boxes
  BY DEF Boxes
<1>3. ASSUME NEW t \in Texts, Type(t) PROVE InputInv'
  <2>1. box' \in Boxes /\ ~box'.pre /\ ~composing
    BY <1>2, <1>3 DEF Type
  <2>2. Refreshed(box')
    BY <1>3, <2>1, GateAnswers DEF Type
  <2>3. query' = box'
    BY <2>1, <2>2 DEF Refreshed
  <2> QED BY <1>1, <1>3, <2>1, <2>2, <2>3, RefreshKeeps DEF Type, runtime, owner
<1>4. ASSUME NEW t \in Texts, EndComposition(t) PROVE InputInv'
  <2>1. box' \in Boxes /\ ~box'.pre /\ composing' = FALSE
    BY <1>2, <1>4 DEF EndComposition
  <2>2. Refreshed(box')
    BY <1>4, <2>1, GateAnswers DEF EndComposition
  <2>3. posted' \in 0..PostLimit /\ posted' # 0
    BY <1>1, <1>4 DEF EndComposition, GateInv
  <2> QED BY <1>1, <1>4, <2>1, <2>2, <2>3, RefreshKeeps DEF EndComposition, runtime, owner
<1>5. ASSUME NEW t \in Texts, NEW preedit \in BOOLEAN, Compose(t, preedit)
      PROVE  InputInv'
  <2>1. box' \in Boxes /\ composing /\ composing' /\ posted' < PostLimit
    BY <1>1, <1>2, <1>5 DEF Compose, GateInv
  <2>2. Refreshed(box')
    BY <1>5, <2>1, GateAnswers DEF Compose
  <2> QED BY <1>1, <1>5, <2>1, <2>2, RefreshKeeps DEF Compose, runtime, owner
<1>6. ASSUME NEW t \in Texts, Replace(t) PROVE InputInv'
  <2>1. box' \in Boxes /\ ~box'.pre
    BY <1>2, <1>6 DEF Replace
  <2>2. Refreshed(box')
    BY <1>6, <2>1, RefreshAnswers DEF Replace, Refresh
  <2>3. ~composing => query' = box'
    BY <2>2 DEF Refreshed
  <2> QED BY <1>1, <1>6, <2>1, <2>2, <2>3, RefreshKeeps
          DEF Replace, GateInv, runtime, owner
<1>7. ASSUME NEW clicked \in BOOLEAN, Complete(clicked) PROVE InputInv'
  BY <1>1, <1>6, <1>7, InputAssumption DEF Complete
<1>8. CASE Clear
  BY <1>6, <1>8, InputAssumption DEF Clear
<1>9. CASE AfterIme
  <2>1. box \in Boxes /\ (box.pre => composing)
    BY <1>1 DEF TypeOK, GateInv
  <2>2. Refreshed(box)
    BY <1>9, <2>1, GateAnswers DEF AfterIme
  <2>3. ~composing => query' = box
    BY <2>2 DEF Refreshed
  <2>4. posted' \in 0..PostLimit /\ (composing => posted' < PostLimit)
    BY <1>1, <1>9 DEF AfterIme, GateInv
  <2> QED BY <1>1, <1>9, <2>1, <2>2, <2>3, <2>4, RefreshKeeps DEF AfterIme, runtime, owner
<1>10. CASE StartComposition
  <2>1. Refreshed(query)
    BY <1>10, NotRefreshed DEF StartComposition
  <2> QED BY <1>1, <1>10, <2>1, RefreshKeeps
          DEF StartComposition, TypeOK, GateInv, runtime, owner
<1> QED BY <1>3, <1>4, <1>5, <1>7, <1>8, <1>9, <1>10 DEF Editing

-----------------------------------------------------------------------------
(* The index.                                                              *)

LEMMA IndexingKeeps ==
  ASSUME InputInv, Indexing
  PROVE  InputInv'
<1>1. /\ TypeOK /\ GateInv /\ TrayInv
      /\ index \in 0..LastGeneration /\ LastGeneration \in Nat /\ noted \in 0..index
      /\ box \in Boxes /\ (box.pre => composing)
  BY InputAssumption DEF InputInv, TypeOK, GateInv
<1>2. CASE IndexChanges
  <2>1. index' \in 0..LastGeneration /\ noted' \in 0..index'
    BY <1>1, <1>2 DEF IndexChanges
  <2>2. TypeOK'
    BY <1>1, <1>2, <2>1 DEF IndexChanges, TypeOK, edit, results, owner
  <2>3. \A g \in 0..index : g \in 0..index'
    BY <1>1, <1>2 DEF IndexChanges
  <2>4. GateInv'
    BY <1>1, <1>2, <2>3 DEF IndexChanges, GateInv, PreeditNeverSearched, RowsAnswer,
                            edit, results
  <2>5. TrayInv'
    BY <1>1, <1>2, TrayKept DEF IndexChanges, TrayInv, DragHasOwner, results, owner
  <2> QED BY <2>2, <2>4, <2>5 DEF InputInv
<1>3. ASSUME NEW there, RefreshFrom(box, there), UNCHANGED <<edit, index, swiped, owner, menu>>,
             noted' = index, handle' \in BOOLEAN
      PROVE  InputInv'
  <2>1. Refreshed(box)
    BY <1>1, <1>3, RefreshAnswers
  <2>2. ~composing => query' = box
    BY <2>1 DEF Refreshed
  <2> QED BY <1>1, <1>3, <2>1, <2>2, RefreshKeeps DEF TypeOK, GateInv, edit, owner
<1>4. CASE TimerRefresh
  BY <1>1, <1>3, <1>4 DEF TimerRefresh, Refresh, TypeOK
<1>5. CASE Launch
  <2>4. <<>> \in Seq(Files)
    OBVIOUS
  <2>1. TypeOK'
    BY <1>1, <1>5, <2>4 DEF Launch, TypeOK, edit, owner
  <2>2. GateInv'
    BY <1>5, GateKept DEF Launch
  <2>3. TrayInv'
    BY <1>1, <1>5, TrayKept DEF Launch, TrayInv, DragHasOwner, owner
  <2> QED BY <2>1, <2>2, <2>3 DEF InputInv
<1>6. CASE Reload
  <2>1. CASE /\ handle' = TRUE /\ noted' = index /\ RefreshFrom(box, TRUE)
             /\ UNCHANGED <<edit, index, swiped, owner, menu>>
    BY <1>3, <2>1
  <2>2. CASE handle' = FALSE /\ UNCHANGED <<edit, results, index, noted, swipe, swiped, owner, menu>>
    <3>1. Refreshed(query)
      BY <2>2, NotRefreshed
    <3> QED BY <1>1, <2>2, <3>1, RefreshKeeps DEF TypeOK, GateInv, edit, results, owner
  <2> QED BY <1>6, <2>1, <2>2 DEF Reload
<1> QED BY <1>2, <1>4, <1>5, <1>6 DEF Indexing

-----------------------------------------------------------------------------
(* The pointers.                                                           *)

Kinds == {"location", "index", "pin", "properties"}

\* An action on a row that is gone leaves the tray, any other closes it.
LEMMA PerformAnswers ==
  ASSUME InputInv, NEW row, NEW action, Perform(row, action)
  PROVE  \E b \in {box, query} : Refreshed(b)
<1>1. box \in Boxes /\ (box.pre => composing)
  BY DEF InputInv, TypeOK, GateInv
<1>2. CASE row \notin 1..Len(rows)
  BY <1>2, NotRefreshed DEF Perform
<1>3. CASE row \in 1..Len(rows) /\ action \in {"index", "pin"} /\ handle /\ ~composing
  BY <1>1, <1>3, RefreshAnswers DEF Perform, Refresh
<1>4. CASE row \in 1..Len(rows) /\ ~(action \in {"index", "pin"} /\ handle /\ ~composing)
  BY <1>4, NotRefreshed DEF Perform
<1> QED BY <1>2, <1>3, <1>4

\* Whichever of the two the rows were refreshed from, they are not behind.
LEMMA AnsweredBox ==
  ASSUME InputInv, NEW b \in {box, query}, Refreshed(b), UNCHANGED <<box, composing, posted>>
  PROVE  ~composing' /\ posted' = 0 => query' = box'
BY DEF InputInv, GateInv, Refreshed

\* What a press, a move or a release leaves alone.
LEMMA PointerKeeps ==
  ASSUME InputInv, UNCHANGED <<edit, results, runtime, menu>>,
         swipe' \in Swipes, swiped' \in Files \cup {None}, capture' \in BOOLEAN,
         muted' \in BOOLEAN, pointer' \in Pointers \cup {None}, TrayInv'
  PROVE  InputInv'
<1>1. TypeOK'
  BY DEF InputInv, TypeOK, edit, results, runtime
<1>2. GateInv'
  BY GateKept DEF results, runtime
<1> QED BY <1>1, <1>2 DEF InputInv

\* The file of a row is a file.
LEMMA FileOfRow ==
  ASSUME TypeOK, NEW row
  PROVE  FileAt(row) \in Files \cup {None}
BY DEF FileAt, TypeOK

\* A press on a row begins a drag, which somebody will end.
LEMMA PressKeeps ==
  ASSUME InputInv, NEW row \in Presses, NEW x \in Xs, BeginDrag(row, x),
         UNCHANGED <<edit, runtime, menu>>, capture' \in BOOLEAN, muted' \in BOOLEAN,
         pointer' \in Pointers \cup {None}, capture' \/ pointer' # None
  PROVE  InputInv'
<1>1. TypeOK /\ row \in Nat
  BY DEF InputInv, Presses
<1>2. swipe' \in Swipes /\ swipe'.row = row /\ swipe'.dragging
  BY <1>1, BeginDrags DEF BeginDrag
<1>3. swiped' = FileAt(row) /\ UNCHANGED results
  BY DEF BeginDrag
<1>4. FileAt(row)' = FileAt(row)
  BY <1>3 DEF FileAt, results
<1>5. TrayInv'
  BY <1>2, <1>3, <1>4 DEF TrayInv, TrayOwned, TraySettles, DragHasOwner, FileAt
<1> QED BY <1>1, <1>2, <1>3, <1>5, FileOfRow, PointerKeeps

\* A press on the tray, or beside every row.
LEMMA TapKeeps ==
  ASSUME InputInv, NEW row, NEW x, TapTray(row, x) \/ PressNothing(row, x),
         UNCHANGED <<edit, runtime, capture, pointer, menu>>, muted' \in BOOLEAN
  PROVE  InputInv'
<1>1. \E b \in {box, query} : Refreshed(b)
  <2>1. CASE TapTray(row, x)
    BY <2>1, PerformAnswers DEF TapTray
  <2>2. CASE PressNothing(row, x)
    BY <2>2, NotRefreshed DEF PressNothing
  <2> QED BY <2>1, <2>2
<1>2. PICK b \in {box, query} : Refreshed(b)
  BY <1>1
<1>3. swiped' = swiped
  BY DEF TapTray, PressNothing
<1>4. ~composing' /\ posted' = 0 => query' = box'
  BY <1>2, AnsweredBox DEF edit
<1>5. TypeOK /\ GateInv
  BY DEF InputInv
<1> QED BY <1>2, <1>3, <1>4, <1>5, RefreshKeeps DEF TypeOK, GateInv, edit, runtime

\* A move of whoever drags.
LEMMA MoveKeeps ==
  ASSUME InputInv, NEW x \in Xs, NEW drop \in Drops, swipe.dragging,
         swipe' = Update(x, drop),
         UNCHANGED <<edit, results, runtime, swiped, owner, menu>>
  PROVE  InputInv'
<1>1. TypeOK /\ TrayInv
  BY DEF InputInv
<1>2. swipe' \in Swipes
  BY <1>1, UpdateKeeps
<1>3. swipe'.row # 0 => swipe'.row = swipe.row /\ swipe'.dragging
  BY <1>1, UpdateKeeps
<1>4. TrayInv'
  <2>1. TrayOwned'
    BY <1>1, <1>3 DEF TrayInv, TrayOwned, FileAt, results
  <2>2. TraySettles'
    BY <1>3 DEF TraySettles, IsOpen
  <2>3. DragHasOwner'
    BY <1>1 DEF TrayInv, DragHasOwner, owner
  <2> QED BY <2>1, <2>2, <2>3 DEF TrayInv
<1> QED BY <1>1, <1>2, <1>4, PointerKeeps DEF TypeOK, owner

\* The end of a drag, if there was one.
LEMMA EndKeeps ==
  ASSUME InputInv, NEW fling \in BOOLEAN,
         swipe' = IF swipe.dragging THEN End(fling) ELSE swipe,
         UNCHANGED <<edit, results, runtime, swiped, muted, menu>>,
         capture' \in BOOLEAN, pointer' \in Pointers \cup {None}
  PROVE  InputInv'
<1>1. TypeOK /\ TrayInv
  BY DEF InputInv
<1>2. swipe' \in Swipes /\ ~swipe'.dragging
  BY <1>1, EndSettles DEF TypeOK
<1>3. swipe'.row # 0 => swipe'.row = swipe.row
  BY <1>1, EndSettles
<1>4. TrayInv'
  <2>1. TrayOwned'
    BY <1>1, <1>3 DEF TrayInv, TrayOwned, FileAt, results
  <2>2. TraySettles'
    <3>1. CASE swipe.dragging
      BY <1>1, <3>1, EndSettles DEF TraySettles, IsOpen
    <3>2. CASE ~swipe.dragging
      BY <1>1, <3>2 DEF TrayInv, TraySettles, IsOpen
    <3> QED BY <3>1, <3>2
  <2>3. DragHasOwner'
    BY <1>2 DEF DragHasOwner
  <2> QED BY <2>1, <2>2, <2>3 DEF TrayInv
<1> QED BY <1>1, <1>2, <1>4, PointerKeeps DEF TypeOK

\* The tray is closed, or left to whoever drags.
LEMMA CloseKeeps ==
  ASSUME InputInv,
         \/ swipe' = Closed
         \/ swipe' = swipe /\ (swipe.dragging => capture' \/ pointer' # None),
         UNCHANGED <<edit, results, runtime, swiped, menu>>,
         capture' \in BOOLEAN, muted' \in BOOLEAN, pointer' \in Pointers \cup {None}
  PROVE  InputInv'
<1>1. TypeOK /\ TrayInv
  BY DEF InputInv
<1>2. TrayInv'
  BY <1>1, TrayClosed, TrayKept DEF results
<1> QED BY <1>1, <1>2, ClosedTray, PointerKeeps DEF TypeOK

LEMMA PointingKeeps ==
  ASSUME InputInv, Pointing
  PROVE  InputInv'
<1>1. /\ TypeOK /\ DragHasOwner /\ None \notin Pointers
      /\ capture \in BOOLEAN /\ muted \in BOOLEAN /\ pointer \in Pointers \cup {None}
  BY InputAssumption DEF InputInv, TypeOK, TrayInv
<1>2. ASSUME NEW row \in Presses, NEW x \in Xs, MouseDown(row, x) PROVE InputInv'
  <2>1. CASE BeginDrag(row, x) /\ capture' = TRUE
    BY <1>1, <1>2, <2>1, PressKeeps DEF MouseDown
  <2>2. CASE (TapTray(row, x) \/ PressNothing(row, x)) /\ UNCHANGED capture
    BY <1>1, <1>2, <2>2, TapKeeps DEF MouseDown
  <2> QED BY <1>2, <2>1, <2>2 DEF MouseDown
<1>3. ASSUME NEW p \in Pointers, NEW row \in Presses, NEW x \in Xs, PointerDown(p, row, x)
      PROVE  InputInv'
  <2>1. CASE BeginDrag(row, x) /\ pointer' = p
    BY <1>1, <1>3, <2>1, PressKeeps DEF PointerDown
  <2>2. CASE (TapTray(row, x) \/ PressNothing(row, x)) /\ UNCHANGED pointer
    BY <1>1, <1>3, <2>2, TapKeeps DEF PointerDown
  <2> QED BY <1>3, <2>1, <2>2 DEF PointerDown
<1>4. ASSUME NEW x \in Xs, NEW drop \in Drops,
             MouseMove(x, drop) \/ \E p \in Pointers : PointerUpdate(p, x, drop)
      PROVE  InputInv'
  BY <1>4, MoveKeeps DEF MouseMove, PointerUpdate
<1>5. ASSUME NEW fling \in BOOLEAN, MouseUp(fling) \/ \E p \in Pointers : PointerUp(p, fling)
      PROVE  InputInv'
  BY <1>1, <1>5, EndKeeps DEF MouseUp, PointerUp
<1>6. ASSUME NEW p \in Pointers, PointerCaptureChanged(p) PROVE InputInv'
  BY <1>1, <1>6, CloseKeeps DEF PointerCaptureChanged
<1>7. CASE CaptureChanged
  BY <1>1, <1>7, CloseKeeps DEF CaptureChanged, LoseCapture, DragHasOwner
<1>8. CASE Unmute
  BY <1>1, <1>8, CloseKeeps DEF Unmute, DragHasOwner
<1>9. CASE CloseTray
  BY <1>1, <1>9, CloseKeeps DEF CloseTray, owner, DragHasOwner
<1>10. CASE Escape
  <2>1. TypeOK'
    BY <1>1, <1>10, ClosedTray DEF Escape, TypeOK, edit, runtime, owner
  <2>2. GateInv'
    BY <1>10, GateKept DEF Escape, runtime
  <2>3. TrayInv'
    BY <1>10, TrayClosed DEF Escape
  <2> QED BY <2>1, <2>2, <2>3 DEF InputInv
<1> QED BY <1>2, <1>3, <1>4, <1>5, <1>6, <1>7, <1>8, <1>9, <1>10 DEF Pointing

-----------------------------------------------------------------------------
(* The context menu.                                                       *)

LEMMA MenuKeeps ==
  ASSUME InputInv, Menu
  PROVE  InputInv'
<1>1. TypeOK /\ GateInv /\ TrayInv /\ DragHasOwner
  BY DEF InputInv, TrayInv
<1>2. ASSUME NEW row \in Presses, OpenMenu(row) PROVE InputInv'
  <2>1. menu' \in [row : Nat, file : Files]
    <3>1. row \in Nat /\ row \in 1..Len(rows) /\ rows \in Seq(Files)
      BY <1>1, <1>2 DEF OpenMenu, Presses, TypeOK
    <3>2. FileAt(row) \in Files
      BY <3>1 DEF FileAt
    <3> QED BY <1>2, <3>1, <3>2 DEF OpenMenu
  <2>2. TypeOK'
    BY <1>1, <1>2, <2>1, ClosedTray
       DEF OpenMenu, LoseCapture, TypeOK, edit, results, runtime
  <2>3. GateInv'
    BY <1>2, GateKept DEF OpenMenu, results, runtime
  <2>4. TrayInv'
    BY <1>1, <1>2, TrayClosed, TrayKept DEF OpenMenu, LoseCapture, DragHasOwner, results
  <2> QED BY <2>2, <2>3, <2>4 DEF InputInv
<1>3. ASSUME NEW action, ChooseMenu(action) PROVE InputInv'
  <2>1. PICK b \in {box, query} : Refreshed(b)
    BY <1>3, PerformAnswers DEF ChooseMenu
  <2>2. ~composing' /\ posted' = 0 => query' = box'
    BY <1>3, <2>1, AnsweredBox DEF ChooseMenu, edit
  <2> QED BY <1>1, <1>3, <2>1, <2>2, RefreshKeeps
          DEF ChooseMenu, TypeOK, GateInv, edit, runtime, owner
<1>4. CASE DismissMenu
  <2>1. Refreshed(query)
    BY <1>4, NotRefreshed DEF DismissMenu
  <2> QED BY <1>1, <1>4, <2>1, RefreshKeeps
          DEF DismissMenu, TypeOK, GateInv, edit, results, runtime, owner
<1> QED BY <1>2, <1>3, <1>4 DEF Menu

-----------------------------------------------------------------------------
(* The invariant, and what follows from it.                                *)

LEMMA InputInit == Init => InputInv
<1> SUFFICES ASSUME Init PROVE InputInv
  OBVIOUS
<1>1. TypeOK
  <2>1. [text |-> Empty, pre |-> FALSE] \in Boxes
    BY InputAssumption DEF Boxes
  <2>2. 0 \in 0..LastGeneration /\ 0 \in 0..0 /\ 0 \in 0..PostLimit
    BY InputAssumption
  <2>3. <<>> \in Seq(Files)
    OBVIOUS
  <2> QED BY <2>1, <2>2, <2>3, ClosedTray DEF Init, TypeOK
<1>2. GateInv
  BY DEF Init, GateInv, PreeditNeverSearched, RowsAnswer
<1>3. TrayInv
  BY DEF Init, TrayInv, TrayOwned, TraySettles, DragHasOwner, IsOpen, Closed
<1> QED BY <1>1, <1>2, <1>3 DEF InputInv

LEMMA InputStep == InputInv /\ [Next]_vars => InputInv'
<1> SUFFICES ASSUME InputInv, [Next]_vars PROVE InputInv'
  OBVIOUS
<1>1. CASE Next
  BY <1>1, EditingKeeps, IndexingKeeps, PointingKeeps, MenuKeeps DEF Next
<1>2. CASE UNCHANGED vars
  BY <1>2, CloseKeeps DEF vars, owner, InputInv, TypeOK, TrayInv, DragHasOwner
<1> QED BY <1>1, <1>2

\* The gate, the rows and the tray stay in step in every behaviour.
THEOREM InputInvariant == Spec => []InputInv
BY InputInit, InputStep, PTL DEF Spec

\* For any texts, rows and pointers the window's state has its type, and a drag
\* stays within one tray and a half.
THEOREM InputTypeCorrect == Spec => []TypeOK
<1>1. InputInv => TypeOK
  BY DEF InputInv
<1> QED BY <1>1, InputInvariant, PTL

\* Whatever the input method does, and whoever refreshes the rows, what is
\* searched for is a committed text.
THEOREM PreeditStaysOut == Spec => []PreeditNeverSearched
<1>1. InputInv => PreeditNeverSearched
  BY DEF InputInv, GateInv
<1> QED BY <1>1, InputInvariant, PTL

\* Once the input method and its messages have come to rest, the rows are those
\* of the text in the box: no commit is lost on the way.
THEOREM NoCommitLost == Spec => []SettledRowsMatchText
<1>1. InputInv => SettledRowsMatchText
  BY DEF InputInv, GateInv, RowsAnswer, SettledRowsMatchText
<1> QED BY <1>1, InputInvariant, PTL

\* An open tray acts on the file that was swiped, however the rows came to be
\* exchanged meanwhile.
THEOREM TrayActsOnSwiped == Spec => []TrayShowsItsRow
<1>1. InputInv => TrayShowsItsRow
  BY DEF InputInv, TrayInv, TrayOwned, TrayShowsItsRow, IsOpen
<1> QED BY <1>1, InputInvariant, PTL

\* However a drag ends, the tray comes to stand open or closed.
THEOREM TrayComesToRest == Spec => []TraySettles
<1>1. InputInv => TraySettles
  BY DEF InputInv, TrayInv
<1> QED BY <1>1, InputInvariant, PTL

\* No drag is left without a pointer whose release or loss ends it.
THEOREM DragIsEnded == Spec => []DragHasOwner
<1>1. InputInv => DragHasOwner
  BY DEF InputInv, TrayInv
<1> QED BY <1>1, InputInvariant, PTL
=============================================================================
