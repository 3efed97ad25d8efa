---------------------------- MODULE X11Frontend ----------------------------
(***************************************************************************)
(* The Linux frontend (platform/linux/X11Frontend.cpp) and the processes   *)
(* it shares the index with.  The private runtime lets one process at a    *)
(* time load the state directory: the frontend unloads it, launches an     *)
(* index worker, polls the worker's ticket when its event queue is empty,  *)
(* and loads again when the worker has gone.  CLI commands and workers of  *)
(* a frontend that was closed take the index whenever it is free.          *)
(*                                                                         *)
(* One action is one event of the frontend's thread, or one step of        *)
(* another process.  What the schedule computes from the clock is due.     *)
(***************************************************************************)
EXTENDS Naturals, FiniteSets

CONSTANTS
  Workers,       \* worker processes
  NoWorker,      \* an invalid ticket
  CommandLimit,  \* bound: index commands and row actions of the user
  CliLimit,      \* bound: CLI commands
  StopLimit,     \* bound: `such stop` and closing of the frontend
  LaunchMayFail  \* may launch_index_worker_tracked fail

ASSUME FrontendAssumption ==
  /\ NoWorker \notin Workers
  /\ CommandLimit \in Nat /\ CliLimit \in Nat /\ StopLimit \in Nat
  /\ LaunchMayFail \in BOOLEAN

VARIABLES
  gui,        \* the frontend runs, and so holds the GUI lease
  handle,     \* RuntimeClient::available: it has the index loaded
  ticket,     \* index_worker
  indicator,  \* runtime_indexing
  due,        \* DailyIndexRefresh::due
  worker,     \* each worker: "none", "starting", "loaded" or "exited"
  mine,       \* history: the workers this run of the frontend has launched
  refused,    \* history: a worker was refused the index held by its frontend
  windows,    \* history: scheduled launches tried since the schedule was due
  faulty,     \* history: a load failed though no other process had the index
  cli,        \* a CLI command has the index loaded
  commands, clis, stops

guiVars == <<gui, handle, ticket, indicator, due, mine, windows, faulty>>
bounds == <<commands, clis, stops>>
vars == <<guiVars, worker, refused, cli, bounds>>

Running == {w \in Workers : worker[w] \in {"starting", "loaded"}}

Init ==
  /\ gui = FALSE /\ handle = FALSE /\ ticket = NoWorker /\ indicator = FALSE
  /\ due = TRUE /\ worker = [w \in Workers |-> "none"] /\ mine = {}
  /\ refused = FALSE /\ windows = 0 /\ faulty = FALSE /\ cli = FALSE
  /\ commands = 0 /\ clis = 0 /\ stops = 0

-----------------------------------------------------------------------------
(* The index.                                                              *)

\* Some other process than the frontend has the index loaded.
HeldElsewhere == cli \/ \E w \in Workers : worker[w] = "loaded"

\* RuntimeClient::load, and every call that loads lazily (ensure_ready): it fails
\* when another process has the index, and may fail without one.
LoadMay == {FALSE, ~HeldElsewhere}

Load ==
  /\ handle' \in LoadMay
  /\ faulty' = (faulty \/ ~(handle' \/ HeldElsewhere))

\* available() || load()
LoadUnlessLoaded == IF handle THEN UNCHANGED <<handle, faulty>> ELSE Load

-----------------------------------------------------------------------------
(* The parts of the frontend's handlers.                                   *)

\* start_index_worker_linux past its check of the ticket: unload, launch, and
\* load again if the launch failed.  A finished worker of the ticket is reaped
\* by the check (waitpid), or by init once its frontend has gone.
Launch(table) ==
  \E w \in {x \in Workers : table[x] = "none"} :
    /\ worker' = [table EXCEPT ![w] = "starting"]
    /\ ticket' = w /\ mine' = mine \cup {w}
    /\ handle' = FALSE
    /\ indicator' = TRUE
    /\ due' = FALSE
    /\ UNCHANGED faulty

LaunchFails(table) ==
  /\ LaunchMayFail
  /\ worker' = table /\ ticket' = NoWorker
  /\ Load
  /\ indicator' = FALSE
  /\ UNCHANGED mine

\* The process table once the ticket's worker has been waited for.
Reaped ==
  [w \in Workers |-> IF w = ticket /\ worker[w] = "exited" THEN "none" ELSE worker[w]]

\* Mutated form: the handler trusts that no worker runs.
StartWorkerUnchecked == Launch(Reaped) \/ (LaunchFails(Reaped) /\ due' = due)

\* start_index_worker_linux: refused while the ticket's worker runs.  A worker
\* found to have finished is reaped, and its outcome recorded after a reload.
StartWorker ==
  /\ ticket \notin Running
  /\ \/ Launch(Reaped)
     \/ /\ LaunchFails(Reaped)
        /\ \E reloads \in LoadMay : due' = (due /\ ~(ticket # NoWorker /\ reloads))

\* Mutated forms: the reload is forgotten; the ticket is not cleared.
ReapOnly ==
  /\ worker' = Reaped /\ ticket' = NoWorker
  /\ indicator' = FALSE
  /\ UNCHANGED <<handle, faulty, due>>

ReapKeepsTicket ==
  /\ worker' = Reaped /\ ticket' = ticket
  /\ LoadUnlessLoaded
  /\ indicator' \in (IF handle' THEN BOOLEAN ELSE {FALSE})
  /\ due' = (due /\ ~handle')

\* poll_index_worker_linux finds the worker gone: the ticket is reaped and the
\* index loaded again.  If that fails nothing is recorded and nothing retried.
ReapAndReload ==
  /\ worker' = Reaped /\ ticket' = NoWorker
  /\ LoadUnlessLoaded
  /\ indicator' \in (IF handle' THEN BOOLEAN ELSE {FALSE})
  /\ due' = (due /\ ~handle')

-----------------------------------------------------------------------------
(* Events of the frontend's thread.                                        *)

\* main: load or exit, repair of stale roots or a first rebuild by a worker.
GuiStart ==
  /\ ~gui /\ ~HeldElsewhere
  /\ gui' = TRUE
  /\ windows' = 0
  /\ \/ /\ handle' = TRUE /\ indicator' \in BOOLEAN
        /\ mine' = {}
        /\ UNCHANGED <<ticket, due, worker>>
     \/ \E w \in {x \in Workers : worker[x] = "none"} :
          /\ worker' = [worker EXCEPT ![w] = "starting"]
          /\ ticket' = w /\ mine' = {w}
          /\ handle' = FALSE /\ indicator' = TRUE /\ due' = FALSE
  /\ UNCHANGED <<faulty, refused, cli, bounds>>

\* //drive, //index, //reindex.
IndexCommand ==
  /\ gui /\ commands < CommandLimit
  /\ StartWorker
  /\ commands' = commands + 1
  /\ UNCHANGED <<gui, windows, refused, cli, clis, stops>>

\* Alt+I or Alt+P on a row: set_indexed and set_pinned load lazily, and the rows
\* of the folder picker are there without a loaded index.
RowAction ==
  /\ gui /\ ~handle /\ commands < CommandLimit
  /\ Load
  /\ commands' = commands + 1
  /\ UNCHANGED <<gui, ticket, indicator, due, mine, windows, worker, refused, cli, clis, stops>>

\* The idle branch of the event loop: reap a worker that has gone, follow the
\* status of a loaded index, launch a refresh that is due.  A reload that works
\* records an outcome, so no refresh is due in the same turn.
TickReap ==
  /\ gui /\ ticket \in Workers \ Running
  /\ ReapAndReload
  /\ UNCHANGED <<gui, mine, windows, refused, cli, bounds>>

\* With nothing to reap and nothing to launch.
TickStatus ==
  /\ gui /\ handle /\ ticket \in Running \cup {NoWorker}
  /\ indicator' \in BOOLEAN
  /\ UNCHANGED <<gui, handle, ticket, due, mine, windows, faulty, worker, refused, cli, bounds>>

\* Mutated form: a scheduled launch that fails is not recorded.
TickDailyUnrecorded ==
  /\ gui /\ handle /\ ticket = NoWorker /\ due
  /\ StartWorker
  /\ windows' = windows + 1
  /\ UNCHANGED <<gui, refused, cli, bounds>>

\* The status says idle and the schedule is due: launch, or record the failure.
TickDaily ==
  /\ gui /\ handle /\ ticket = NoWorker /\ due
  /\ \/ Launch(Reaped)
     \/ LaunchFails(Reaped) /\ due' = FALSE
  /\ windows' = windows + 1
  /\ UNCHANGED <<gui, refused, cli, bounds>>

\* Esc or the window's close button: the ticket is dropped, the worker runs on.
GuiQuit ==
  /\ gui /\ stops < StopLimit
  /\ gui' = FALSE /\ handle' = FALSE /\ ticket' = NoWorker /\ indicator' = FALSE
  /\ mine' = {}
  /\ worker' = [w \in Workers |-> IF worker[w] = "exited" THEN "none" ELSE worker[w]]
  /\ stops' = stops + 1
  /\ UNCHANGED <<due, windows, faulty, refused, cli, commands, clis>>

-----------------------------------------------------------------------------
(* Other processes.                                                        *)

\* A worker that ends is a zombie until its frontend polls the ticket.
Ended(w) == IF gui /\ w \in mine THEN "exited" ELSE "none"

WorkerLoads(w) ==
  /\ worker[w] = "starting"
  /\ worker' = [worker EXCEPT ![w] = IF handle \/ HeldElsewhere THEN Ended(w) ELSE "loaded"]
  /\ refused' = (refused \/ (handle /\ w = ticket))
  /\ UNCHANGED <<guiVars, cli, bounds>>

\* It exits, with whatever code, or is killed by `such stop`.
WorkerEnds(w) ==
  /\ worker[w] = "loaded"
  /\ worker' = [worker EXCEPT ![w] = Ended(w)]
  /\ UNCHANGED <<guiVars, refused, cli, bounds>>

CliStart ==
  /\ ~handle /\ ~HeldElsewhere /\ clis < CliLimit
  /\ cli' = TRUE /\ clis' = clis + 1
  /\ UNCHANGED <<guiVars, worker, refused, commands, stops>>

CliEnd ==
  /\ cli /\ cli' = FALSE
  /\ UNCHANGED <<guiVars, worker, refused, bounds>>

\* `such stop` terminates every process of the product.
StopAll ==
  /\ stops < StopLimit
  /\ gui' = FALSE /\ handle' = FALSE /\ ticket' = NoWorker /\ indicator' = FALSE
  /\ mine' = {} /\ worker' = [w \in Workers |-> "none"] /\ cli' = FALSE
  /\ stops' = stops + 1
  /\ UNCHANGED <<due, windows, faulty, refused, commands, clis>>

\* The clock reaches the next time the schedule is due.
TimePasses ==
  /\ ~due /\ due' = TRUE
  /\ windows' = 0
  /\ UNCHANGED <<gui, handle, ticket, indicator, mine, faulty, worker, refused, cli, bounds>>

Next ==
  \/ GuiStart \/ GuiQuit \/ IndexCommand \/ RowAction
  \/ TickReap \/ TickStatus \/ TickDaily
  \/ \E w \in Workers : WorkerLoads(w) \/ WorkerEnds(w)
  \/ CliStart \/ CliEnd \/ StopAll \/ TimePasses

Spec == Init /\ [][Next]_vars

\* The event queue runs empty and is then left for the idle branch every 250 ms;
\* a process that runs makes progress, a crawl ends, and a command ends.
FairSpec ==
  /\ Spec
  /\ WF_vars(TickReap)
  /\ WF_vars(CliEnd)
  /\ \A w \in Workers : WF_vars(WorkerLoads(w)) /\ WF_vars(WorkerEnds(w))

-----------------------------------------------------------------------------
(* Properties.                                                             *)

\* Types; and the ticket names a child that has not been waited for yet, so that
\* no poll ever waits for a process id that may be in use again.
TypeOK ==
  /\ gui \in BOOLEAN /\ handle \in BOOLEAN /\ indicator \in BOOLEAN
  /\ due \in BOOLEAN /\ refused \in BOOLEAN /\ cli \in BOOLEAN /\ faulty \in BOOLEAN
  /\ ticket \in Workers \cup {NoWorker}
  /\ ticket # NoWorker => worker[ticket] # "none"
  /\ worker \in [Workers -> {"none", "starting", "loaded", "exited"}]
  /\ mine \subseteq Workers
  /\ windows \in Nat /\ commands \in Nat /\ clis \in Nat /\ stops \in Nat

\* ARCHITECTURE.md: a second crawl cannot start while a tracked worker runs.
\* No interleaving of commands, the schedule and worker exits leaves a running
\* worker of this frontend that its ticket no longer knows, or a second one.
OneTrackedWorker == gui => \A w \in mine : worker[w] # "none" => w = ticket

\* The schedule tries one launch each time it is due, whether the launch works
\* or not: the idle branch comes round every 250 ms.
RefreshThrottled == windows <= 1

\* The index can be searched again after every worker, whatever becomes of the
\* worker and of the launch, as long as no other process takes the index and no
\* load fails without one: the idle branch tries a load once and not again.
SearchableUndisturbed == gui ~> (handle \/ ~gui \/ clis > 0 \/ stops > 0 \/ faulty)

\* X11Frontend.cpp: fail closed instead of presenting a search box that can never
\* return a result.  The same, with other processes about.  The code does not
\* keep it, nor the next one, and no run checks them (README, section 7).
SearchableAgain == gui ~> (handle \/ ~gui)

\* ARCHITECTURE.md: the frontend releases its RuntimeClient before it starts a
\* worker and loads a fresh one only after the worker exits, so it never keeps
\* the worker from the index.
WorkerGetsIndex == ~refused
=============================================================================
