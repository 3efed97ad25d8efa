------------------------- MODULE X11FrontendProofs -------------------------
(***************************************************************************)
(* The Linux frontend, proved for any number of workers, commands, stops   *)
(* and scheduled refreshes.                                                *)
(***************************************************************************)
EXTENDS X11Frontend, TLAPS

\* What makes the three inductive: the ticket is one this run of the frontend
\* was given, and a schedule that is due has not been tried yet.
FInv ==
  /\ TypeOK
  /\ OneTrackedWorker
  /\ ticket # NoWorker => gui /\ ticket \in mine
  /\ windows <= 1
  /\ due => windows = 0

USE FrontendAssumption

-----------------------------------------------------------------------------
(* Lemmas.                                                                 *)

\* Waiting for the ticket's worker removes it and no other process.
LEMMA ReapedTable ==
  ASSUME TypeOK
  PROVE  /\ Reaped \in [Workers -> {"none", "starting", "loaded", "exited"}]
         /\ \A w \in Workers : Reaped[w] # "none" => worker[w] # "none"
         /\ ticket \in Workers \ Running => Reaped[ticket] = "none"
  BY DEF Reaped, TypeOK, Running

\* A load leaves two truth values behind.
LEMMA LoadTypes ==
  ASSUME TypeOK, Load
  PROVE  handle' \in BOOLEAN /\ faulty' \in BOOLEAN
<1>1. HeldElsewhere \in BOOLEAN
  BY DEF HeldElsewhere, TypeOK
<1>2. handle' \in BOOLEAN
  BY <1>1 DEF Load, LoadMay
<1>3. QED
  BY <1>1, <1>2 DEF Load, TypeOK

\* A launch by a frontend whose ticket has no running worker leaves one worker
\* of its own, the one the new ticket names (start_index_worker_linux).
LEMMA LaunchKeepsOne ==
  ASSUME FInv, gui, ticket \notin Running, Launch(Reaped)
  PROVE  /\ ticket' \in Workers
         /\ worker' \in [Workers -> {"none", "starting", "loaded", "exited"}]
         /\ worker'[ticket'] # "none"
         /\ mine' \subseteq Workers /\ ticket' \in mine'
         /\ \A w \in mine' : worker'[w] # "none" => w = ticket'
         /\ handle' \in BOOLEAN /\ indicator' \in BOOLEAN /\ due' = FALSE /\ faulty' = faulty
<1>1. PICK w \in Workers :
        /\ Reaped[w] = "none"
        /\ worker' = [Reaped EXCEPT ![w] = "starting"]
        /\ ticket' = w /\ mine' = mine \cup {w}
        /\ handle' = FALSE /\ indicator' = TRUE /\ due' = FALSE /\ faulty' = faulty
  BY DEF Launch
<1>2. TypeOK /\ mine \subseteq Workers
  BY DEF FInv, TypeOK
<1>3. \A x \in mine : Reaped[x] = "none"
  BY <1>2, ReapedTable DEF FInv, OneTrackedWorker
<1>4. QED
  BY <1>1, <1>2, <1>3, ReapedTable

\* A launch that fails leaves no worker of the frontend behind.
LEMMA FailedLaunchKeepsOne ==
  ASSUME FInv, gui, ticket \notin Running, LaunchFails(Reaped)
  PROVE  /\ ticket' = NoWorker
         /\ worker' \in [Workers -> {"none", "starting", "loaded", "exited"}]
         /\ mine' = mine
         /\ \A w \in mine' : worker'[w] = "none"
         /\ handle' \in BOOLEAN /\ indicator' \in BOOLEAN /\ faulty' \in BOOLEAN
<1>1. TypeOK /\ mine \subseteq Workers
  BY DEF FInv, TypeOK
<1>2. \A x \in mine : Reaped[x] = "none"
  BY <1>1, ReapedTable DEF FInv, OneTrackedWorker
<1>3. handle' \in BOOLEAN /\ faulty' \in BOOLEAN
  BY <1>1, LoadTypes DEF LaunchFails
<1>4. QED
  BY <1>1, <1>2, <1>3, ReapedTable DEF LaunchFails

\* The start of a frontend: main up to the event loop.
LEMMA GuiStartStep ==
  ASSUME FInv, GuiStart
  PROVE  FInv'
<1>1. TypeOK /\ OneTrackedWorker
  BY DEF FInv
<1>2. gui' = TRUE /\ windows' = 0 /\ UNCHANGED <<faulty, refused, cli, commands, clis, stops>>
  BY DEF GuiStart, bounds
<1>3. CASE mine' = {} /\ handle' = TRUE /\ indicator' \in BOOLEAN /\ UNCHANGED <<ticket, due, worker>>
  <2>1. ticket' = NoWorker
    BY <1>3 DEF FInv, GuiStart
  <2>2. TypeOK'
    BY <1>1, <1>2, <1>3, <2>1 DEF TypeOK
  <2>3. QED
    BY <1>2, <1>3, <2>1, <2>2 DEF FInv, OneTrackedWorker
<1>4. CASE \E w \in {x \in Workers : worker[x] = "none"} :
          /\ worker' = [worker EXCEPT ![w] = "starting"]
          /\ ticket' = w /\ mine' = {w}
          /\ handle' = FALSE /\ indicator' = TRUE /\ due' = FALSE
  <2>1. PICK w \in Workers :
          /\ worker' = [worker EXCEPT ![w] = "starting"]
          /\ ticket' = w /\ mine' = {w}
          /\ handle' = FALSE /\ indicator' = TRUE /\ due' = FALSE
    BY <1>4
  <2>2. worker' \in [Workers -> {"none", "starting", "loaded", "exited"}] /\ worker'[w] = "starting"
    BY <1>1, <2>1 DEF TypeOK
  <2>3. TypeOK'
    BY <1>1, <1>2, <2>1, <2>2 DEF TypeOK
  <2>4. QED
    BY <1>2, <2>1, <2>3 DEF FInv, OneTrackedWorker
<1>5. QED
  BY <1>3, <1>4 DEF GuiStart

\* A user's index command (execute_index_command_linux).
LEMMA IndexCommandStep ==
  ASSUME FInv, IndexCommand
  PROVE  FInv'
<1>1. gui /\ ticket \notin Running /\ commands \in Nat /\ commands' = commands + 1
      /\ UNCHANGED <<gui, windows, refused, cli, clis, stops>>
  BY DEF IndexCommand, StartWorker, FInv, TypeOK
<1>2. due' \in BOOLEAN /\ (due' => due)
  BY DEF IndexCommand, StartWorker, Launch, LaunchFails, FInv, TypeOK
<1>3. CASE Launch(Reaped)
  <2>1. /\ gui' \in BOOLEAN /\ handle' \in BOOLEAN /\ indicator' \in BOOLEAN
        /\ due' \in BOOLEAN /\ refused' \in BOOLEAN /\ cli' \in BOOLEAN /\ faulty' \in BOOLEAN
    BY <1>1, <1>2, <1>3, LaunchKeepsOne DEF FInv, TypeOK
  <2>2. /\ worker' \in [Workers -> {"none", "starting", "loaded", "exited"}]
        /\ mine' \subseteq Workers
        /\ ticket' \in Workers \cup {NoWorker}
        /\ ticket' # NoWorker => worker'[ticket'] # "none"
    BY <1>1, <1>2, <1>3, LaunchKeepsOne DEF FInv, TypeOK
  <2>3. windows' \in Nat /\ commands' \in Nat /\ clis' \in Nat /\ stops' \in Nat
    BY <1>1, <1>2, <1>3 DEF FInv, TypeOK
  <2>4. TypeOK'
    BY <2>1, <2>2, <2>3 DEF TypeOK
  <2>5. OneTrackedWorker'
    BY <1>1, <1>2, <1>3, LaunchKeepsOne DEF FInv, OneTrackedWorker
  <2>6. QED
    BY <1>1, <1>2, <1>3, <2>4, <2>5, LaunchKeepsOne DEF FInv
<1>4. CASE LaunchFails(Reaped)
  <2>1. TypeOK'
    BY <1>1, <1>2, <1>4, FailedLaunchKeepsOne DEF FInv, TypeOK
  <2>2. OneTrackedWorker'
    BY <1>1, <1>2, <1>4, FailedLaunchKeepsOne DEF OneTrackedWorker
  <2>3. QED
    BY <1>1, <1>2, <1>4, <2>1, <2>2, FailedLaunchKeepsOne DEF FInv
<1>5. QED
  BY <1>3, <1>4 DEF IndexCommand, StartWorker

\* A scheduled refresh, launched or failed, is not due any more.
LEMMA DailyStep ==
  ASSUME FInv, TickDaily
  PROVE  FInv'
<1>1. gui /\ ticket \notin Running /\ windows = 0 /\ windows' = windows + 1 /\ due' = FALSE
      /\ UNCHANGED <<gui, refused, cli, bounds>>
  BY DEF TickDaily, Launch, FInv, TypeOK, Running
<1>2. CASE Launch(Reaped)
  <2>1. /\ gui' \in BOOLEAN /\ handle' \in BOOLEAN /\ indicator' \in BOOLEAN
        /\ due' \in BOOLEAN /\ refused' \in BOOLEAN /\ cli' \in BOOLEAN /\ faulty' \in BOOLEAN
    BY <1>1, <1>2, LaunchKeepsOne DEF FInv, TypeOK, bounds
  <2>2. /\ worker' \in [Workers -> {"none", "starting", "loaded", "exited"}]
        /\ mine' \subseteq Workers
        /\ ticket' \in Workers \cup {NoWorker}
        /\ ticket' # NoWorker => worker'[ticket'] # "none"
    BY <1>1, <1>2, LaunchKeepsOne DEF FInv, TypeOK, bounds
  <2>3. windows' \in Nat /\ commands' \in Nat /\ clis' \in Nat /\ stops' \in Nat
    BY <1>1, <1>2 DEF FInv, TypeOK, bounds
  <2>4. TypeOK'
    BY <2>1, <2>2, <2>3 DEF TypeOK
  <2>5. OneTrackedWorker'
    BY <1>1, <1>2, LaunchKeepsOne DEF FInv, OneTrackedWorker
  <2>6. gui' /\ ticket' \in mine'
    BY <1>1, <1>2, LaunchKeepsOne
  <2>7. windows' <= 1 /\ (due' => windows' = 0)
    BY <1>1
  <2>8. QED
    BY <2>4, <2>5, <2>6, <2>7 DEF FInv
<1>3. CASE LaunchFails(Reaped)
  <2>1. /\ gui' \in BOOLEAN /\ handle' \in BOOLEAN /\ indicator' \in BOOLEAN
        /\ due' \in BOOLEAN /\ refused' \in BOOLEAN /\ cli' \in BOOLEAN /\ faulty' \in BOOLEAN
    BY <1>1, <1>3, FailedLaunchKeepsOne DEF FInv, TypeOK, bounds
  <2>2. /\ worker' \in [Workers -> {"none", "starting", "loaded", "exited"}]
        /\ mine' \subseteq Workers
        /\ ticket' \in Workers \cup {NoWorker}
        /\ ticket' # NoWorker => worker'[ticket'] # "none"
    BY <1>1, <1>3, FailedLaunchKeepsOne DEF FInv, TypeOK, bounds
  <2>3. windows' \in Nat /\ commands' \in Nat /\ clis' \in Nat /\ stops' \in Nat
    BY <1>1, <1>3 DEF FInv, TypeOK, bounds
  <2>4. TypeOK'
    BY <2>1, <2>2, <2>3 DEF TypeOK
  <2>5. OneTrackedWorker'
    BY <1>1, <1>3, FailedLaunchKeepsOne DEF FInv, OneTrackedWorker
  <2>6. QED
    BY <1>1, <1>3, <2>4, <2>5, FailedLaunchKeepsOne DEF FInv
<1>4. QED
  BY <1>2, <1>3 DEF TickDaily

\* A worker that is reaped leaves the ticket and the process table together.
LEMMA ReapStep ==
  ASSUME FInv, TickReap
  PROVE  FInv'
<1>1. TypeOK /\ OneTrackedWorker /\ gui /\ ticket \in Workers \ Running
  BY DEF FInv, TickReap
<1>2. worker' = Reaped /\ ticket' = NoWorker /\ UNCHANGED <<gui, mine, windows, refused, cli, bounds>>
  BY DEF TickReap, ReapAndReload
<1>3. handle' \in BOOLEAN /\ faulty' \in BOOLEAN
  BY <1>1, LoadTypes DEF TickReap, ReapAndReload, LoadUnlessLoaded, TypeOK
<1>4. indicator' \in BOOLEAN /\ due' \in BOOLEAN /\ (due' => due)
  BY <1>1, <1>3 DEF TickReap, ReapAndReload, TypeOK
<1>5. \A w \in mine : Reaped[w] = "none"
  BY <1>1, ReapedTable DEF OneTrackedWorker, TypeOK
<1>6. QED
  BY <1>1, <1>2, <1>3, <1>4, <1>5, ReapedTable DEF FInv, TypeOK, OneTrackedWorker, bounds

\* The other events of the frontend's thread launch and reap nothing.
LEMMA QuietStep ==
  ASSUME FInv, RowAction \/ TickStatus \/ GuiQuit \/ TimePasses
  PROVE  FInv'
<1>1. CASE RowAction
  BY <1>1, LoadTypes DEF FInv, RowAction, TypeOK, OneTrackedWorker
<1>2. CASE TickStatus
  BY <1>2 DEF FInv, TickStatus, TypeOK, OneTrackedWorker, bounds
<1>3. CASE GuiQuit
  <2>1. /\ gui' \in BOOLEAN /\ handle' \in BOOLEAN /\ indicator' \in BOOLEAN
        /\ due' \in BOOLEAN /\ refused' \in BOOLEAN /\ cli' \in BOOLEAN /\ faulty' \in BOOLEAN
    BY <1>3, FrontendAssumption DEF FInv, TypeOK, GuiQuit
  <2>2. /\ worker' \in [Workers -> {"none", "starting", "loaded", "exited"}]
        /\ mine' \subseteq Workers
        /\ ticket' \in Workers \cup {NoWorker}
        /\ ticket' # NoWorker => worker'[ticket'] # "none"
    BY <1>3, FrontendAssumption DEF FInv, TypeOK, GuiQuit
  <2>3. windows' \in Nat /\ commands' \in Nat /\ clis' \in Nat /\ stops' \in Nat
    BY <1>3 DEF FInv, TypeOK, GuiQuit
  <2>4. TypeOK'
    BY <2>1, <2>2, <2>3 DEF TypeOK
  <2>5. OneTrackedWorker'
    BY <1>3, FrontendAssumption DEF FInv, OneTrackedWorker, GuiQuit
  <2>6. QED
    BY <1>3, <2>4, <2>5 DEF FInv, GuiQuit
<1>4. CASE TimePasses
  BY <1>4 DEF FInv, TimePasses, TypeOK, OneTrackedWorker, bounds
<1>5. QED
  BY <1>1, <1>2, <1>3, <1>4

\* The steps of a worker never take it out of the table behind the ticket's back.
LEMMA WorkerStep ==
  ASSUME FInv, NEW w \in Workers, WorkerLoads(w) \/ WorkerEnds(w)
  PROVE  FInv'
<1>1. TypeOK /\ OneTrackedWorker
  BY DEF FInv
<1>2. PICK s \in {"loaded", "exited", "none"} :
        /\ worker' = [worker EXCEPT ![w] = s]
        /\ s = "none" => ~(gui /\ w \in mine)
  BY DEF WorkerLoads, WorkerEnds, Ended
<1>3. refused' \in BOOLEAN /\ worker[w] # "none"
  BY <1>1 DEF WorkerLoads, WorkerEnds, TypeOK
<1>4. UNCHANGED <<gui, handle, ticket, indicator, due, mine, windows, faulty, cli, commands, clis, stops>>
  BY DEF WorkerLoads, WorkerEnds, guiVars, bounds
<1>5. worker' \in [Workers -> {"none", "starting", "loaded", "exited"}]
      /\ \A x \in Workers \ {w} : worker'[x] = worker[x]
      /\ worker'[w] = s
  BY <1>1, <1>2 DEF TypeOK
<1>6. w = ticket => s # "none"
  BY <1>1, <1>2 DEF FInv
<1>7. QED
  BY <1>1, <1>2, <1>3, <1>4, <1>5, <1>6 DEF FInv, TypeOK, OneTrackedWorker

\* A CLI command, and `such stop`.
LEMMA OtherProcessStep ==
  ASSUME FInv, CliStart \/ CliEnd \/ StopAll
  PROVE  FInv'
<1>1. CASE CliStart
  BY <1>1 DEF FInv, CliStart, TypeOK, OneTrackedWorker, guiVars
<1>2. CASE CliEnd
  BY <1>2 DEF FInv, CliEnd, TypeOK, OneTrackedWorker, guiVars, bounds
<1>3. CASE StopAll
  <2>1. /\ gui' \in BOOLEAN /\ handle' \in BOOLEAN /\ indicator' \in BOOLEAN
        /\ due' \in BOOLEAN /\ refused' \in BOOLEAN /\ cli' \in BOOLEAN /\ faulty' \in BOOLEAN
    BY <1>3, FrontendAssumption DEF FInv, TypeOK, StopAll
  <2>2. /\ worker' \in [Workers -> {"none", "starting", "loaded", "exited"}]
        /\ mine' \subseteq Workers
        /\ ticket' \in Workers \cup {NoWorker}
        /\ ticket' # NoWorker => worker'[ticket'] # "none"
    BY <1>3, FrontendAssumption DEF FInv, TypeOK, StopAll
  <2>3. windows' \in Nat /\ commands' \in Nat /\ clis' \in Nat /\ stops' \in Nat
    BY <1>3 DEF FInv, TypeOK, StopAll
  <2>4. TypeOK'
    BY <2>1, <2>2, <2>3 DEF TypeOK
  <2>5. OneTrackedWorker'
    BY <1>3, FrontendAssumption DEF FInv, OneTrackedWorker, StopAll
  <2>6. QED
    BY <1>3, <2>4, <2>5 DEF FInv, StopAll
<1>4. QED
  BY <1>1, <1>2, <1>3

-----------------------------------------------------------------------------
(* Theorems.                                                               *)

\* The invariant of the frontend and its workers.
THEOREM FrontendInvariant == Spec => []FInv
<1>1. Init => FInv
  <2> SUFFICES ASSUME Init PROVE FInv
    OBVIOUS
  <2>1. /\ gui \in BOOLEAN /\ handle \in BOOLEAN /\ indicator \in BOOLEAN
        /\ due \in BOOLEAN /\ refused \in BOOLEAN /\ cli \in BOOLEAN /\ faulty \in BOOLEAN
    BY DEF Init
  <2>2. /\ worker \in [Workers -> {"none", "starting", "loaded", "exited"}]
        /\ mine \subseteq Workers
    BY DEF Init
  <2>3. /\ windows \in Nat /\ commands \in Nat /\ clis \in Nat /\ stops \in Nat
    BY DEF Init
  <2>4. ticket = NoWorker
    BY DEF Init
  <2>5. TypeOK
    BY <2>1, <2>2, <2>3, <2>4 DEF TypeOK
  <2>6. OneTrackedWorker /\ windows <= 1 /\ (due => windows = 0)
    BY DEF Init, OneTrackedWorker
  <2>7. QED
    BY <2>4, <2>5, <2>6 DEF FInv
<1>2. FInv /\ [Next]_vars => FInv'
  <2> SUFFICES ASSUME FInv, [Next]_vars PROVE FInv'
    OBVIOUS
  <2>1. CASE Next
    BY <2>1, GuiStartStep, IndexCommandStep, DailyStep, ReapStep, QuietStep, WorkerStep,
       OtherProcessStep DEF Next
  <2>2. CASE UNCHANGED vars
    BY <2>2 DEF vars, guiVars, bounds, FInv, TypeOK, OneTrackedWorker
  <2>3. QED
    BY <2>1, <2>2
<1>3. QED
  BY <1>1, <1>2, PTL DEF Spec

\* Type correctness; the ticket always names a child not waited for yet.
THEOREM FrontendTypeCorrect == Spec => []TypeOK
<1>1. FInv => TypeOK
  BY DEF FInv
<1>2. QED
  BY <1>1, FrontendInvariant, PTL

\* No second crawl of a frontend while its tracked worker runs.
THEOREM OneWorkerIsTracked == Spec => []OneTrackedWorker
<1>1. FInv => OneTrackedWorker
  BY DEF FInv
<1>2. QED
  BY <1>1, FrontendInvariant, PTL

\* At most one scheduled launch each time the schedule is due.
THEOREM RefreshIsThrottled == Spec => []RefreshThrottled
<1>1. FInv => RefreshThrottled
  BY DEF FInv, RefreshThrottled
<1>2. QED
  BY <1>1, FrontendInvariant, PTL
=============================================================================
