--------------------------- MODULE Win32Frontend ---------------------------
(***************************************************************************)
(* The Windows frontend (platform/windows/Win32Frontend.cpp) and the       *)
(* processes it shares the index with.  While a worker crawls, the         *)
(* frontend searches a read-only checkpoint, if there is one to load.      *)
(*                                                                         *)
(* Folder dialogs and message boxes run a message loop of their own inside *)
(* the handler that opened them: the window takes no input, but its timer  *)
(* goes on, and what it does has happened when the handler resumes.        *)
(* modal is the stack of the handlers that wait in such a loop.            *)
(***************************************************************************)
EXTENDS Naturals, Sequences

CONSTANTS
  Workers,        \* worker processes
  NoWorker,       \* an invalid gIndexWorker
  CommandLimit,   \* bound: index commands and folder pickers of the user
  CliLimit,       \* bound: CLI commands
  StopLimit,      \* bound: `such stop` and closing of the window
  ModalLimit,     \* bound: handlers waiting in a modal loop at a time
  LaunchMayFail,  \* may launch_index_worker_tracked fail
  RootsMayFail    \* may RuntimeClient::roots fail

ASSUME Win32Assumption ==
  /\ NoWorker \notin Workers
  /\ CommandLimit \in Nat /\ CliLimit \in Nat /\ StopLimit \in Nat
  /\ ModalLimit \in Nat
  /\ LaunchMayFail \in BOOLEAN /\ RootsMayFail \in BOOLEAN

VARIABLES
  phase,       \* wWinMain: "off", "starting" or "loop"
  rebuild,     \* gStartupReindexNeeded
  runtime,     \* gRuntime: "none", "owner" of the index, "reader" of a checkpoint
  ticket,      \* gIndexWorker
  due,         \* DailyIndexRefresh::due
  modal,       \* handlers waiting: "roots", "pick", "add", "box", "dailyBox"
  worker,      \* each: "none", "starting", "loaded", or how it ended: "done", "failed"
  checkpoint,  \* the state directory holds a filename checkpoint
  rooted,      \* it holds search roots
  cli,         \* a CLI command has the index loaded
  mine,        \* history: the workers this run of the frontend has launched
  refused,     \* history: a worker was refused the index held by its frontend
  tries,       \* history: scheduled launches since the schedule was due
  fault,       \* history: a handler used gRuntime while it was null
  commands, clis, stops

windowVars == <<phase, rebuild, runtime, ticket, due, modal, mine, tries, fault>>
diskVars == <<checkpoint, rooted>>
bounds == <<commands, clis, stops>>
vars == <<windowVars, worker, diskVars, cli, refused, bounds>>

Running == {w \in Workers : worker[w] \in {"starting", "loaded"}}

Init ==
  /\ phase = "off" /\ rebuild = FALSE /\ runtime = "none" /\ ticket = NoWorker
  /\ due = TRUE /\ modal = <<>> /\ mine = {} /\ tries = 0 /\ fault = FALSE
  /\ worker = [w \in Workers |-> "none"] /\ cli = FALSE /\ refused = FALSE
  /\ checkpoint \in BOOLEAN /\ rooted \in BOOLEAN
  /\ commands = 0 /\ clis = 0 /\ stops = 0

-----------------------------------------------------------------------------
(* The index.                                                              *)

\* Another process than the frontend has it loaded to write.
HeldElsewhere == cli \/ \E w \in Workers : worker[w] = "loaded"

\* A RuntimeClient that may write, and a read-only one, after load: a reader
\* needs a checkpoint and nothing else.  A load that fails for another reason is
\* not modelled here (README, section 2).
Owner  == IF HeldElsewhere THEN "none" ELSE "owner"
Reader == IF checkpoint THEN "reader" ELSE "none"

\* reload_runtime_after_index_worker: the exit code decides which is loaded.
Reloaded == IF worker[ticket] = "done" THEN Owner ELSE Reader

-----------------------------------------------------------------------------
(* start_index_worker.                                                     *)

\* The processes once the handle of a finished worker is closed.
Reaped ==
  [w \in Workers |-> IF w = ticket /\ w \notin Running THEN "none" ELSE worker[w]]

\* Was the end of the ticket's worker recorded in the schedule: the handler
\* reloads first, and a reload that fails records nothing.
EndRecorded == ticket # NoWorker /\ Reloaded # "none"

\* Mutated form: the frontend keeps what it had loaded.
LaunchedHolding ==
  \E w \in {x \in Workers : Reaped[x] = "none"} :
    /\ worker' = [Reaped EXCEPT ![w] = "starting"]
    /\ ticket' = w /\ mine' = mine \cup {w}
    /\ runtime' = (IF checkpoint THEN "reader" ELSE runtime)
    /\ due' = FALSE

\* gRuntime is released, the process starts, and one attempt is made to load
\* a reader in its place.
Launched ==
  \E w \in {x \in Workers : Reaped[x] = "none"} :
    /\ worker' = [Reaped EXCEPT ![w] = "starting"]
    /\ ticket' = w /\ mine' = mine \cup {w}
    /\ runtime' = Reader
    /\ due' = FALSE

\* No process was started: reload as after a failed worker, then a message box.
LaunchFailed ==
  /\ LaunchMayFail
  /\ worker' = Reaped /\ ticket' = NoWorker
  /\ runtime' = Reader
  /\ due' = (due /\ ~EndRecorded /\ Reader = "none")
  /\ UNCHANGED mine

\* Mutated form: the ticket's worker is not polled.
MayLaunchAlways == TRUE

\* A second request is refused while the ticket's worker runs.
MayLaunch == ticket \notin Running

Refused == UNCHANGED <<runtime, ticket, due, mine, worker>>

\* A request of the user, from a handler below which rest waits.
RequestWorker(rest) ==
  \/ ~MayLaunch /\ Refused /\ modal' = rest
  \/ MayLaunch /\ Launched /\ modal' = rest
  \/ MayLaunch /\ LaunchFailed /\ modal' = <<"box">> \o rest

-----------------------------------------------------------------------------
(* The thread of the window, with nothing waiting.                         *)

\* Windows delivers input to the window only then.
Idle == phase = "loop" /\ modal = <<>>

\* wWinMain up to the first window: load or give up; roots that cannot be
\* listed are announced by a message box while the timer already runs.
Start ==
  /\ phase = "off" /\ Owner = "owner"
  /\ phase' = "starting" /\ runtime' = "owner"
  /\ ticket' = NoWorker /\ mine' = {} /\ tries' = 0
  /\ rebuild' \in (IF rooted THEN BOOLEAN ELSE {FALSE})
  /\ modal' \in {<<>>} \cup (IF RootsMayFail THEN {<<"roots">>} ELSE {})
  /\ UNCHANGED <<due, fault, worker, diskVars, cli, refused, bounds>>

\* The rest of wWinMain: an empty index with roots is rebuilt.
StartupReindex ==
  /\ phase = "starting" /\ modal = <<>>
  /\ phase' = "loop" /\ rebuild' = FALSE
  /\ IF rebuild THEN RequestWorker(<<>>) ELSE Refused /\ UNCHANGED modal
  /\ UNCHANGED <<tries, fault, diskVars, cli, refused, bounds>>

Command ==
  /\ Idle /\ runtime # "none" /\ commands < CommandLimit
  /\ commands' = commands + 1
  /\ UNCHANGED <<phase, rebuild, tries, fault, diskVars, cli, refused, clis, stops>>

\* execute_index_command: a path or a rebuild, or a folder dialog.
IndexCommand == Command /\ RequestWorker(<<>>)

IndexDialog == Command /\ modal' = <<"pick">> /\ Refused

\* Enter with no roots, or none that could be listed: choose_and_add_index_root.
EnsureIndexRoot ==
  /\ ~rooted \/ RootsMayFail
  /\ Command /\ modal' = <<"add">> /\ Refused

\* WM_DESTROY: the ticket is closed, the worker runs on.
Destroy ==
  /\ Idle /\ stops < StopLimit
  /\ phase' = "off" /\ runtime' = "none" /\ ticket' = NoWorker /\ mine' = {}
  /\ worker' = Reaped
  /\ stops' = stops + 1
  /\ UNCHANGED <<rebuild, due, modal, tries, fault, diskVars, cli, refused, commands, clis>>

-----------------------------------------------------------------------------
(* A modal loop ends and its handler resumes.                              *)

Resume(kind) ==
  /\ modal # <<>> /\ Head(modal) = kind
  /\ UNCHANGED <<rebuild, tries, diskVars, cli, refused, bounds>>

\* The box says that nothing could be started, or the user cancels the dialog.
Dismiss ==
  /\ \E kind \in {"roots", "pick", "add", "box"} : Resume(kind)
  /\ modal' = Tail(modal)
  /\ UNCHANGED <<phase, runtime, ticket, due, mine, fault, worker>>

\* execute_index_command with the folder that was picked.
FolderPicked ==
  /\ Resume("pick")
  /\ RequestWorker(Tail(modal))
  /\ UNCHANGED <<phase, fault>>

\* choose_and_add_index_root with the folder that was picked: after a launch it
\* asks gRuntime for the generation and the status, reader or not.
FolderAdded ==
  /\ Resume("add")
  /\ \/ /\ RequestWorker(Tail(modal))
        /\ (MayLaunch /\ ticket' # NoWorker) => Reader = "reader"
        /\ UNCHANGED <<phase, fault>>
     \/ /\ MayLaunch /\ Reader = "none"
        /\ \E w \in {x \in Workers : Reaped[x] = "none"} :
             worker' = [Reaped EXCEPT ![w] = "starting"]
        /\ fault' = TRUE /\ phase' = "off" /\ modal' = <<>>
        /\ runtime' = "none" /\ ticket' = NoWorker /\ mine' = {} /\ due' = FALSE

\* The timer's handler resumes after the box and records the failure once more.
DailyBoxDismissed ==
  /\ Resume("dailyBox")
  /\ modal' = Tail(modal) /\ due' = FALSE
  /\ UNCHANGED <<phase, runtime, ticket, mine, fault, worker>>

-----------------------------------------------------------------------------
(* WM_TIMER, in the main loop or in any modal one.                         *)

Ticking == phase = "loop" \/ modal # <<>>

\* Mutated forms: nothing is loaded again; the ticket stays.
TimerReapOnly ==
  /\ Ticking /\ ticket \in Workers \ Running
  /\ worker' = Reaped /\ ticket' = NoWorker
  /\ due' = (due /\ ~EndRecorded)
  /\ UNCHANGED <<phase, rebuild, runtime, modal, mine, tries, fault, diskVars, cli, refused, bounds>>

TimerReapKeepsTicket ==
  /\ Ticking /\ ticket \in Workers \ Running
  /\ worker' = Reaped
  /\ runtime' = Reloaded
  /\ due' = (due /\ ~EndRecorded)
  /\ UNCHANGED <<phase, rebuild, ticket, modal, mine, tries, fault, diskVars, cli, refused, bounds>>

\* poll_index_worker_and_reload: one attempt to load again; a reload that
\* works records an outcome, so nothing is due in the same turn.
TimerReap ==
  /\ Ticking /\ ticket \in Workers \ Running
  /\ worker' = Reaped /\ ticket' = NoWorker
  /\ runtime' = Reloaded
  /\ due' = (due /\ ~EndRecorded)
  /\ UNCHANGED <<phase, rebuild, modal, mine, tries, fault, diskVars, cli, refused, bounds>>

\* Mutated form: neither the reload nor the handler records the failure.
TimerDailyUnrecorded ==
  /\ Ticking /\ ticket = NoWorker /\ runtime # "none" /\ due /\ rooted
  /\ Len(modal) < ModalLimit
  /\ \/ Launched /\ UNCHANGED modal
     \/ LaunchMayFail /\ runtime' = Reader /\ modal' = <<"box">> \o modal
        /\ UNCHANGED <<worker, ticket, mine, due>>
  /\ tries' = tries + 1
  /\ UNCHANGED <<phase, rebuild, fault, diskVars, cli, refused, bounds>>

\* The schedule: a rebuild when it is due and the index has roots.
TimerDaily ==
  /\ Ticking /\ ticket = NoWorker /\ runtime # "none" /\ due /\ rooted
  /\ Len(modal) < ModalLimit
  /\ \/ Launched /\ UNCHANGED modal
     \/ LaunchFailed /\ modal' = <<"dailyBox">> \o modal
  /\ tries' = tries + 1
  /\ UNCHANGED <<phase, rebuild, fault, diskVars, cli, refused, bounds>>

-----------------------------------------------------------------------------
(* Other processes.                                                        *)

\* A worker is refused while another process has the index loaded to write;
\* only a ticket remembers how a worker ended.
Ended(w, how) == IF w = ticket THEN how ELSE "none"

WorkerLoads(w) ==
  /\ worker[w] = "starting"
  /\ worker' = [worker EXCEPT ![w] =
       IF runtime = "owner" \/ HeldElsewhere THEN Ended(w, "failed") ELSE "loaded"]
  /\ refused' = (refused \/ (runtime = "owner" /\ w = ticket))
  /\ UNCHANGED <<windowVars, diskVars, cli, bounds>>

\* The names are published before the contents are indexed.
WorkerPublishes(w) ==
  /\ worker[w] = "loaded" /\ ~checkpoint
  /\ checkpoint' = TRUE
  /\ UNCHANGED <<windowVars, worker, rooted, cli, refused, bounds>>

WorkerEnds(w) ==
  /\ worker[w] = "loaded"
  /\ \/ checkpoint /\ worker' = [worker EXCEPT ![w] = Ended(w, "done")] /\ rooted' = TRUE
     \/ worker' = [worker EXCEPT ![w] = Ended(w, "failed")] /\ rooted' \in {rooted, TRUE}
  /\ UNCHANGED <<windowVars, checkpoint, cli, refused, bounds>>

CliStart ==
  /\ ~HeldElsewhere /\ runtime # "owner" /\ clis < CliLimit
  /\ cli' = TRUE /\ clis' = clis + 1
  /\ UNCHANGED <<windowVars, worker, diskVars, refused, commands, stops>>

\* It may have added the first root.
CliEnd ==
  /\ cli /\ cli' = FALSE
  /\ rooted' \in {rooted, TRUE}
  /\ UNCHANGED <<windowVars, worker, checkpoint, refused, bounds>>

\* `such stop` ends every process of the product.
StopAll ==
  /\ stops < StopLimit
  /\ phase' = "off" /\ runtime' = "none" /\ ticket' = NoWorker /\ mine' = {}
  /\ modal' = <<>> /\ worker' = [w \in Workers |-> "none"] /\ cli' = FALSE
  /\ stops' = stops + 1
  /\ UNCHANGED <<rebuild, due, tries, fault, diskVars, refused, commands, clis>>

\* The clock reaches the next time the schedule is due.
TimePasses ==
  /\ ~due /\ due' = TRUE /\ tries' = 0
  /\ UNCHANGED <<phase, rebuild, runtime, ticket, modal, mine, fault, worker, diskVars,
                 cli, refused, bounds>>

Next ==
  \/ Start \/ StartupReindex \/ Destroy
  \/ IndexCommand \/ IndexDialog \/ EnsureIndexRoot
  \/ Dismiss \/ FolderPicked \/ FolderAdded \/ DailyBoxDismissed
  \/ TimerReap \/ TimerDaily
  \/ \E w \in Workers : WorkerLoads(w) \/ WorkerPublishes(w) \/ WorkerEnds(w)
  \/ CliStart \/ CliEnd \/ StopAll \/ TimePasses

Spec == Init /\ [][Next]_vars

\* wWinMain goes on to its loop; the timer fires in every message loop, the
\* dialogs' included; a process that runs makes progress.  Nothing is assumed
\* of the user, who may leave a dialog or a box open for good.
FairSpec ==
  /\ Spec
  /\ WF_vars(StartupReindex) /\ WF_vars(TimerReap)
  /\ WF_vars(CliEnd)
  /\ \A w \in Workers : WF_vars(WorkerLoads(w)) /\ WF_vars(WorkerEnds(w))

-----------------------------------------------------------------------------
(* Properties.                                                             *)

\* Types; and the ticket names a process whose end has not been read yet.
TypeOK ==
  /\ phase \in {"off", "starting", "loop"} /\ rebuild \in BOOLEAN
  /\ runtime \in {"none", "owner", "reader"}
  /\ ticket \in Workers \cup {NoWorker}
  /\ ticket # NoWorker => worker[ticket] # "none"
  /\ due \in BOOLEAN /\ cli \in BOOLEAN /\ refused \in BOOLEAN /\ fault \in BOOLEAN
  /\ modal \in Seq({"roots", "pick", "add", "box", "dailyBox"})
  /\ worker \in [Workers -> {"none", "starting", "loaded", "done", "failed"}]
  /\ checkpoint \in BOOLEAN /\ rooted \in BOOLEAN
  /\ mine \subseteq Workers
  /\ tries \in Nat /\ commands \in Nat /\ clis \in Nat /\ stops \in Nat

\* ARCHITECTURE.md: a second crawl cannot start while a tracked worker runs.
\* No launch from a handler that resumes after its dialog, from the timer below
\* it or from a command loses track of a running worker or starts a second.
OneTrackedWorker == \A w \in mine : worker[w] \in {"starting", "loaded"} => w = ticket

\* Win32Frontend.cpp:886: the frontend releases its handle before the worker
\* opens the same state, and whatever it loads until the worker has ended is a
\* reader: it never keeps its worker from the index.
WorkerGetsIndex == ~refused

\* The schedule tries one launch each time it is due, also when the launch
\* fails, its message box stays open, and the timer goes on below it.
RefreshThrottled == tries <= 1

\* Once there is a checkpoint, the window can be searched again after every
\* worker, however it ended and whatever dialog is open, as long as no other
\* process takes the index.
SearchableUndisturbed ==
  (phase # "off" /\ checkpoint) ~>
    (runtime # "none" \/ phase = "off" \/ clis > 0 \/ stops > 0 \/ fault)

\* ARCHITECTURE.md: while the worker crawls the GUI observes generation and
\* status through its read/search handle: there is one.
HandleIsThere == ~fault
=============================================================================
