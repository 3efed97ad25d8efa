------------------------ MODULE Win32FrontendProofs ------------------------
(***************************************************************************)
(* The Windows frontend, proved for any number of workers, dialogs, boxes, *)
(* commands, stops and scheduled refreshes.                                *)
(***************************************************************************)
EXTENDS Win32Frontend, SequenceTheorems, TLAPS

Modals == {"roots", "pick", "add", "box", "dailyBox"}

States == {"none", "starting", "loaded", "done", "failed"}

\* The part that launching and reaping change: the ticket is one this run of the
\* window was given, and while it is valid the window holds at most a reader.
Tracked ==
  /\ ticket \in Workers \cup {NoWorker}
  /\ worker \in [Workers -> States]
  /\ ticket # NoWorker => worker[ticket] # "none"
  /\ mine \subseteq Workers
  /\ runtime \in {"none", "owner", "reader"}
  /\ due \in BOOLEAN
  /\ OneTrackedWorker
  /\ ticket # NoWorker => ticket \in mine /\ runtime # "owner"

\* The rest of the state.
Plain ==
  /\ phase \in {"off", "starting", "loop"} /\ rebuild \in BOOLEAN
  /\ cli \in BOOLEAN /\ fault \in BOOLEAN
  /\ modal \in Seq(Modals)
  /\ checkpoint \in BOOLEAN /\ rooted \in BOOLEAN
  /\ commands \in Nat /\ clis \in Nat /\ stops \in Nat

\* A schedule that is due and could be acted on has not been acted on: a failed
\* launch leaves it due only when it leaves nothing loaded.
Throttled == tries \in {0, 1} /\ (due /\ runtime # "none" => tries = 0)

WInv == Tracked /\ Plain /\ Throttled /\ refused = FALSE

USE Win32Assumption

-----------------------------------------------------------------------------
(* Lemmas: what a launch leaves.                                           *)

\* The stack of a window with no dialog and no box open.
LEMMA NoModal == <<>> \in Seq(Modals)
  OBVIOUS

\* Closing the handle of a finished worker removes it and no other process.
LEMMA ReapedTable ==
  ASSUME Tracked
  PROVE  /\ Reaped \in [Workers -> States]
         /\ \A w \in Workers : Reaped[w] \in {"starting", "loaded"} => worker[w] = Reaped[w]
         /\ \A w \in Workers : w # ticket => Reaped[w] = worker[w]
         /\ ticket \in Workers \ Running => Reaped[ticket] = "none"
<1>1. worker \in [Workers -> States]
  BY DEF Tracked
<1>2. Reaped \in [Workers -> States]
  BY <1>1 DEF Reaped, States
<1>3. \A w \in Workers : w # ticket => Reaped[w] = worker[w]
  BY DEF Reaped
<1>4. QED
  BY <1>1, <1>2, <1>3 DEF Reaped, Running, States

\* When the ticket has no running worker, no worker of this run is running.
LEMMA NoneRunning ==
  ASSUME Tracked, MayLaunch
  PROVE  \A w \in mine : Reaped[w] \notin {"starting", "loaded"}
<1>1. ASSUME NEW w \in mine, Reaped[w] \in {"starting", "loaded"}
      PROVE  FALSE
  <2>1. w \in Workers /\ worker[w] \in {"starting", "loaded"}
    BY <1>1, ReapedTable DEF Tracked
  <2>2. w = ticket
    BY <2>1, <1>1 DEF Tracked, OneTrackedWorker
  <2>3. QED
    BY <2>1, <2>2 DEF MayLaunch, Running
<1>2. QED
  BY <1>1

\* A reader is never the owner of the index.
LEMMA ReaderIsNoOwner == Reader \in {"none", "reader"}
  BY DEF Reader

\* A launch by a window whose ticket has no running worker leaves one worker of
\* its own, the one the new ticket names, and nothing in its way.
LEMMA LaunchKeepsOne ==
  ASSUME Tracked, MayLaunch, Launched
  PROVE  Tracked' /\ due' = FALSE
<1>1. PICK w \in Workers :
        /\ Reaped[w] = "none"
        /\ worker' = [Reaped EXCEPT ![w] = "starting"]
        /\ ticket' = w /\ mine' = mine \cup {w}
        /\ runtime' = Reader /\ due' = FALSE
  BY DEF Launched
<1>2. worker' \in [Workers -> States] /\ worker'[w] = "starting"
      /\ \A x \in Workers \ {w} : worker'[x] = Reaped[x]
  BY <1>1, ReapedTable DEF States
<1>3. mine' \subseteq Workers /\ runtime' \in {"none", "reader"}
  BY <1>1, ReaderIsNoOwner DEF Tracked
<1>4. \A x \in mine' : worker'[x] \in {"starting", "loaded"} => x = w
  BY <1>1, <1>2, <1>3, NoneRunning
<1>5. QED
  BY <1>1, <1>2, <1>3, <1>4, NoneRunning DEF Tracked, OneTrackedWorker

\* A launch that fails leaves no worker of this run, and a schedule that stays
\* due only with nothing loaded.
LEMMA FailedLaunchKeepsOne ==
  ASSUME Tracked, MayLaunch, LaunchFailed
  PROVE  Tracked' /\ (due' => due /\ runtime' = "none")
<1>1. /\ worker' = Reaped /\ ticket' = NoWorker /\ mine' = mine
      /\ runtime' = Reader
      /\ due' = (due /\ ~EndRecorded /\ Reader = "none")
  BY DEF LaunchFailed
<1>2. due' \in BOOLEAN /\ (due' => due /\ Reader = "none")
  BY <1>1
<1>3. QED
  BY <1>1, <1>2, ReapedTable, NoneRunning, ReaderIsNoOwner DEF Tracked, OneTrackedWorker

\* A request of the user that finds a worker running changes nothing.
LEMMA RefusalKeepsAll ==
  ASSUME Tracked, Refused
  PROVE  Tracked' /\ due' = due /\ runtime' = runtime
  BY DEF Refused, Tracked, OneTrackedWorker

\* Any request of the user: start_index_worker, and its message box.
LEMMA RequestStep ==
  ASSUME WInv, NEW rest \in Seq(Modals), RequestWorker(rest)
  PROVE  /\ Tracked' /\ modal' \in Seq(Modals)
         /\ due' /\ runtime' # "none" => due /\ runtime # "none"
<1>1. CASE ~MayLaunch /\ Refused /\ modal' = rest
  BY <1>1, RefusalKeepsAll DEF WInv
<1>2. CASE MayLaunch /\ Launched /\ modal' = rest
  BY <1>2, LaunchKeepsOne DEF WInv
<1>3. CASE MayLaunch /\ LaunchFailed /\ modal' = <<"box">> \o rest
  <2>1. <<"box">> \in Seq(Modals)
    BY DEF Modals
  <2>2. modal' \in Seq(Modals)
    BY <2>1, <1>3, ConcatProperties
  <2>3. QED
    BY <2>2, <1>3, FailedLaunchKeepsOne DEF WInv
<1>4. QED
  BY <1>1, <1>2, <1>3 DEF RequestWorker

-----------------------------------------------------------------------------
(* Lemmas: the steps of the window.                                        *)

\* wWinMain, and the end of the window.
LEMMA WindowStep ==
  ASSUME WInv, Start \/ StartupReindex \/ Destroy
  PROVE  WInv'
<1>1. CASE Start
  <2>1. Tracked'
    BY <1>1 DEF Start, WInv, Tracked, OneTrackedWorker
  <2>2. modal' \in Seq(Modals)
    <3>1. <<"roots">> \in Seq(Modals)
      BY DEF Modals
    <3>2. modal' = <<>> \/ modal' = <<"roots">>
      BY <1>1 DEF Start
    <3>3. QED
      BY <3>1, <3>2, NoModal
  <2>3. Plain'
    BY <1>1, <2>2 DEF Start, WInv, Plain, diskVars, bounds
  <2>4. QED
    BY <1>1, <2>1, <2>3 DEF Start, WInv, Throttled
<1>2. CASE StartupReindex
  <2>1. <<>> \in Seq(Modals) /\ modal = <<>>
    BY <1>2 DEF StartupReindex
  <2>2. /\ Tracked' /\ modal' \in Seq(Modals)
        /\ due' /\ runtime' # "none" => due /\ runtime # "none"
    <3>1. CASE rebuild
      BY <3>1, <1>2, <2>1, RequestStep DEF StartupReindex
    <3>2. CASE ~rebuild
      BY <3>2, <1>2, <2>1, RefusalKeepsAll DEF StartupReindex, WInv
    <3>3. QED
      BY <3>1, <3>2
  <2>3. Plain'
    BY <1>2, <2>2 DEF StartupReindex, WInv, Plain, diskVars, bounds
  <2>4. QED
    BY <1>2, <2>2, <2>3 DEF StartupReindex, WInv, Throttled
<1>3. CASE Destroy
  <2>1. Tracked'
    BY <1>3, ReapedTable DEF Destroy, WInv, Tracked, OneTrackedWorker
  <2>2. Plain'
    BY <1>3 DEF Destroy, WInv, Plain, diskVars
  <2>3. QED
    BY <1>3, <2>1, <2>2 DEF Destroy, WInv, Throttled
<1>4. QED
  BY <1>1, <1>2, <1>3

\* Commands of the user, and the dialogs they open.
LEMMA CommandStep ==
  ASSUME WInv, IndexCommand \/ IndexDialog \/ EnsureIndexRoot
  PROVE  WInv'
<1>1. /\ commands' = commands + 1
      /\ UNCHANGED <<phase, rebuild, tries, fault, checkpoint, rooted, cli, refused, clis, stops>>
  BY DEF IndexCommand, IndexDialog, EnsureIndexRoot, Command, diskVars
<1>2. /\ Tracked' /\ modal' \in Seq(Modals)
      /\ due' /\ runtime' # "none" => due /\ runtime # "none"
  <2>1. CASE IndexCommand
    <3>1. <<>> \in Seq(Modals)
      OBVIOUS
    <3>2. QED
      BY <2>1, <3>1, RequestStep DEF IndexCommand
  <2>2. CASE IndexDialog
    BY <2>2, RefusalKeepsAll DEF IndexDialog, WInv, Modals
  <2>3. CASE EnsureIndexRoot
    BY <2>3, RefusalKeepsAll DEF EnsureIndexRoot, WInv, Modals
  <2>4. QED
    BY <2>1, <2>2, <2>3
<1>3. Plain'
  BY <1>1, <1>2 DEF WInv, Plain
<1>4. QED
  BY <1>1, <1>2, <1>3 DEF WInv, Throttled

\* A dialog or a box closes and its handler goes on, whatever has happened to
\* the ticket since it opened.
LEMMA ModalStep ==
  ASSUME WInv, Dismiss \/ FolderPicked \/ FolderAdded \/ DailyBoxDismissed
  PROVE  WInv'
<1>1. /\ modal # <<>>
      /\ UNCHANGED <<rebuild, tries, checkpoint, rooted, cli, refused, commands, clis, stops>>
  BY DEF Dismiss, FolderPicked, FolderAdded, DailyBoxDismissed, Resume, diskVars, bounds
<1>2. Tail(modal) \in Seq(Modals)
  BY <1>1 DEF WInv, Plain
<1>3. /\ Tracked' /\ modal' \in Seq(Modals)
      /\ phase' \in {"off", "starting", "loop"} /\ fault' \in BOOLEAN
      /\ due' /\ runtime' # "none" => due /\ runtime # "none"
  <2>1. CASE Dismiss
    BY <2>1, <1>2 DEF Dismiss, WInv, Tracked, Plain, OneTrackedWorker
  <2>2. CASE FolderPicked
    BY <2>2, <1>2, RequestStep DEF FolderPicked, WInv, Plain
  <2>3. CASE FolderAdded
    <3>1. CASE RequestWorker(Tail(modal)) /\ UNCHANGED <<phase, fault>>
      BY <3>1, <1>2, RequestStep DEF WInv, Plain
    <3>2. CASE /\ \E w \in {x \in Workers : Reaped[x] = "none"} :
                    worker' = [Reaped EXCEPT ![w] = "starting"]
               /\ fault' = TRUE /\ phase' = "off" /\ modal' = <<>>
               /\ runtime' = "none" /\ ticket' = NoWorker /\ mine' = {} /\ due' = FALSE
      <4>1. worker' \in [Workers -> States]
        BY <3>2, ReapedTable DEF WInv, States
      <4>2. Tracked'
        BY <3>2, <4>1 DEF Tracked, OneTrackedWorker
      <4>3. QED
        BY <3>2, <4>2
    <3>3. QED
      BY <2>3, <3>1, <3>2 DEF FolderAdded
  <2>4. CASE DailyBoxDismissed
    BY <2>4, <1>2 DEF DailyBoxDismissed, WInv, Tracked, Plain, OneTrackedWorker
  <2>5. QED
    BY <2>1, <2>2, <2>3, <2>4
<1>4. Plain'
  BY <1>1, <1>3 DEF WInv, Plain
<1>5. QED
  BY <1>1, <1>3, <1>4 DEF WInv, Throttled

\* The timer reads the end of the ticket's worker; a reload that works also
\* records it, so that nothing is due.
LEMMA ReapStep ==
  ASSUME WInv, TimerReap
  PROVE  WInv'
<1>1. /\ Tracked /\ Plain /\ MayLaunch /\ ticket \in Workers
      /\ worker' = Reaped /\ ticket' = NoWorker /\ runtime' = Reloaded
      /\ due' = (due /\ ~EndRecorded)
      /\ UNCHANGED <<phase, rebuild, modal, mine, tries, fault, checkpoint, rooted, cli,
                     refused, commands, clis, stops>>
  BY DEF WInv, TimerReap, MayLaunch, diskVars, bounds
<1>2. Reloaded \in {"none", "owner", "reader"}
  BY DEF Reloaded, Owner, Reader
<1>3. due' \in BOOLEAN /\ (due' => due /\ Reloaded = "none")
  BY <1>1 DEF EndRecorded
<1>4. Tracked'
  BY <1>1, <1>2, <1>3, ReapedTable, NoneRunning DEF Tracked, OneTrackedWorker
<1>5. Plain'
  BY <1>1 DEF Plain
<1>6. QED
  BY <1>1, <1>3, <1>4, <1>5 DEF WInv, Throttled

\* The timer acts on the schedule, perhaps below a dialog.
LEMMA DailyStep ==
  ASSUME WInv, TimerDaily
  PROVE  WInv'
<1>1. /\ Tracked /\ Plain /\ tries = 0 /\ tries' = 1 /\ MayLaunch
      /\ UNCHANGED <<phase, rebuild, fault, checkpoint, rooted, cli, refused,
                     commands, clis, stops>>
  BY DEF WInv, TimerDaily, Throttled, MayLaunch, Running, diskVars, bounds
<1>2. Tracked' /\ modal' \in Seq(Modals) /\ (due' => runtime' = "none")
  <2>1. CASE Launched /\ UNCHANGED modal
    BY <2>1, <1>1, LaunchKeepsOne DEF Plain
  <2>2. CASE LaunchFailed /\ modal' = <<"dailyBox">> \o modal
    <3>1. <<"dailyBox">> \in Seq(Modals) /\ modal \in Seq(Modals)
      BY <1>1 DEF Modals, Plain
    <3>2. modal' \in Seq(Modals)
      BY <2>2, <3>1, ConcatProperties
    <3>3. QED
      BY <2>2, <3>2, <1>1, FailedLaunchKeepsOne
  <2>3. QED
    BY <2>1, <2>2 DEF TimerDaily
<1>3. Plain'
  BY <1>1, <1>2 DEF Plain
<1>4. QED
  BY <1>1, <1>2, <1>3 DEF WInv, Throttled

-----------------------------------------------------------------------------
(* Lemmas: the other processes.                                            *)

\* A worker meets no writer of its own window's, and never leaves the table
\* behind the ticket's back.
LEMMA WorkerStep ==
  ASSUME WInv, NEW w \in Workers, WorkerLoads(w) \/ WorkerPublishes(w) \/ WorkerEnds(w)
  PROVE  WInv'
<1>1. Tracked /\ Plain
  BY DEF WInv
<1>2. UNCHANGED <<phase, rebuild, runtime, ticket, due, modal, mine, tries, fault, cli,
                  commands, clis, stops>>
  BY DEF WorkerLoads, WorkerPublishes, WorkerEnds, windowVars, diskVars, bounds
<1>3. checkpoint' \in BOOLEAN /\ rooted' \in BOOLEAN
  BY <1>1 DEF WorkerLoads, WorkerPublishes, WorkerEnds, Plain, diskVars
<1>4. refused' = FALSE
  <2>1. CASE WorkerLoads(w)
    <3>1. ~(runtime = "owner" /\ w = ticket)
      BY <1>1 DEF Tracked
    <3>2. QED
      BY <2>1, <3>1 DEF WorkerLoads, WInv
  <2>2. CASE WorkerPublishes(w) \/ WorkerEnds(w)
    BY <2>2 DEF WorkerPublishes, WorkerEnds, WInv
  <2>3. QED
    BY <2>1, <2>2
<1>5. Tracked'
  <2>1. CASE WorkerPublishes(w)
    BY <2>1, <1>1, <1>2 DEF WorkerPublishes, Tracked, OneTrackedWorker
  <2>2. CASE WorkerLoads(w) \/ WorkerEnds(w)
    <3>1. PICK s \in {"loaded", "done", "failed", "none"} :
            /\ worker' = [worker EXCEPT ![w] = s]
            /\ w = ticket => s # "none"
            /\ s = "loaded" => worker[w] = "starting"
      BY <2>2 DEF WorkerLoads, WorkerEnds, Ended
    <3>2. /\ worker' \in [Workers -> States] /\ worker'[w] = s
          /\ \A x \in Workers \ {w} : worker'[x] = worker[x]
      BY <1>1, <3>1 DEF Tracked, States
    <3>3. \A x \in mine : worker'[x] \in {"starting", "loaded"} => x = ticket
      BY <1>1, <3>1, <3>2 DEF Tracked, OneTrackedWorker
    <3>4. QED
      BY <1>1, <1>2, <3>1, <3>2, <3>3 DEF Tracked, OneTrackedWorker
  <2>3. QED
    BY <2>1, <2>2
<1>6. Plain'
  BY <1>1, <1>2, <1>3 DEF Plain
<1>7. QED
  BY <1>2, <1>4, <1>5, <1>6 DEF WInv, Throttled

\* CLI commands, `such stop`, and the clock.
LEMMA OutsideStep ==
  ASSUME WInv, CliStart \/ CliEnd \/ StopAll \/ TimePasses
  PROVE  WInv'
<1>1. CASE CliStart
  BY <1>1 DEF WInv, CliStart, Tracked, Plain, Throttled, OneTrackedWorker, windowVars, diskVars
<1>2. CASE CliEnd
  BY <1>2 DEF WInv, CliEnd, Tracked, Plain, Throttled, OneTrackedWorker, windowVars, bounds
<1>3. CASE StopAll
  <2>1. Tracked'
    BY <1>3 DEF StopAll, WInv, Tracked, OneTrackedWorker, States
  <2>2. modal' \in Seq(Modals)
    <3>1. modal' = <<>>
      BY <1>3 DEF StopAll
    <3>2. QED
      BY <3>1, NoModal, Zenon
  <2>3. Plain'
    <3>1. Plain
      BY DEF WInv
    <3>2. /\ phase' = "off" /\ cli' = FALSE /\ stops' = stops + 1
          /\ UNCHANGED <<rebuild, fault, checkpoint, rooted, commands, clis>>
      BY <1>3 DEF StopAll, diskVars
    <3>3. cli' \in BOOLEAN
      BY <3>2, Zenon
    <3>4. stops' \in Nat
      BY <3>1, <3>2 DEF Plain
    <3>5. /\ rebuild' \in BOOLEAN /\ fault' \in BOOLEAN
          /\ checkpoint' \in BOOLEAN /\ rooted' \in BOOLEAN
      BY <3>1, <3>2, Zenon DEF Plain
    <3>6. commands' \in Nat /\ clis' \in Nat
      BY <3>1, <3>2 DEF Plain
    <3>7. QED
      BY <2>2, <3>2, <3>3, <3>4, <3>5, <3>6 DEF Plain
  <2>4. QED
    BY <1>3, <2>1, <2>3 DEF StopAll, WInv, Throttled
<1>4. CASE TimePasses
  BY <1>4 DEF WInv, TimePasses, Tracked, Plain, Throttled, OneTrackedWorker, diskVars, bounds
<1>5. QED
  BY <1>1, <1>2, <1>3, <1>4

-----------------------------------------------------------------------------
(* Theorems.                                                               *)

\* The invariant of the window, its dialogs and its workers.
THEOREM Win32Invariant == Spec => []WInv
<1>1. Init => WInv
  <2> SUFFICES ASSUME Init PROVE WInv
    OBVIOUS
  <2>1. Tracked
    BY DEF Init, Tracked, OneTrackedWorker, States
  <2>2. modal \in Seq(Modals)
    <3>1. modal = <<>>
      BY DEF Init
    <3>2. QED
      BY <3>1, NoModal, Zenon
  <2>3. Plain
    BY <2>2 DEF Init, Plain
  <2>4. QED
    BY <2>1, <2>3 DEF Init, WInv, Throttled
<1>2. WInv /\ [Next]_vars => WInv'
  <2> SUFFICES ASSUME WInv, [Next]_vars PROVE WInv'
    OBVIOUS
  <2>1. CASE Next
    BY <2>1, WindowStep, CommandStep, ModalStep, ReapStep, DailyStep, WorkerStep, OutsideStep
       DEF Next
  <2>2. CASE UNCHANGED vars
    BY <2>2 DEF vars, windowVars, diskVars, bounds, WInv, Tracked, Plain, Throttled, OneTrackedWorker
  <2>3. QED
    BY <2>1, <2>2
<1>3. QED
  BY <1>1, <1>2, PTL DEF Spec

\* Type correctness; the ticket always names a process whose end is unread.
THEOREM Win32TypeCorrect == Spec => []TypeOK
<1>1. WInv => TypeOK
  <2> SUFFICES ASSUME WInv PROVE TypeOK
    OBVIOUS
  <2>1. Tracked /\ Plain /\ tries \in Nat /\ refused \in BOOLEAN
    <3>1. Tracked /\ Plain /\ Throttled /\ refused = FALSE
      BY DEF WInv
    <3>2. tries \in Nat
      BY <3>1 DEF Throttled
    <3>3. refused \in BOOLEAN
      BY <3>1, Zenon
    <3>4. QED
      BY <3>1, <3>2, <3>3
  <2>2. modal \in Seq({"roots", "pick", "add", "box", "dailyBox"})
    BY <2>1 DEF Plain, Modals
  <2>3. worker \in [Workers -> {"none", "starting", "loaded", "done", "failed"}]
    BY <2>1 DEF Tracked, States
  <2>4. QED
    BY <2>1, <2>2, <2>3 DEF Tracked, Plain, TypeOK
<1>2. QED
  BY <1>1, Win32Invariant, PTL

\* No launch, from whatever handler resumes, starts a second worker or loses one.
THEOREM Win32OneWorker == Spec => []OneTrackedWorker
<1>1. WInv => OneTrackedWorker
  BY DEF WInv, Tracked
<1>2. QED
  BY <1>1, Win32Invariant, PTL

\* The window never keeps its own worker from the index.
THEOREM Win32WorkerGetsIndex == Spec => []WorkerGetsIndex
<1>1. WInv => WorkerGetsIndex
  BY DEF WInv, WorkerGetsIndex
<1>2. QED
  BY <1>1, Win32Invariant, PTL

\* One scheduled launch each time the schedule is due, boxes open or not.
THEOREM Win32RefreshThrottled == Spec => []RefreshThrottled
<1>1. WInv => RefreshThrottled
  BY DEF WInv, Throttled, RefreshThrottled
<1>2. QED
  BY <1>1, Win32Invariant, PTL
=============================================================================
