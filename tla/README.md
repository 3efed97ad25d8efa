# A TLA+ model of Such

Such is a local file search program.  A private runtime library, not part of
this repository, crawls the disk, keeps the index and answers queries; the
code here drives it through a C ABI (`RuntimeClient`), and decides *what* is
indexed, *when*, *by which process*, and what happens when one of those steps
fails.  That deciding is what the modules of this directory model.

Run from this directory: `tlc -config <cfg> <module>` for a run of the table
below, `tlapm <module>.tla` for a proof module.

## 1. Inventory

| component | state it keeps | operations | correct when |
|---|---|---|---|
| index path policy (`IndexPathPolicy.cpp`) | none: functions of the directory tree and the Windows known folders | admit a root; fixed exclusions below it; plan of a set of roots | AppData and system directories stay out unless selected by name; the installed product stays searchable wherever it is; the plan is a function of the *set* of roots |
| index root service (`IndexRootService.cpp`) | roots and exclusion table of the runtime; what is left of the current operation | add, replace, remove, reindex; roll back | a root is never crawled before its exclusions are in place; a change happens whole or not at all |
| policy maintenance (same file, `scrub_one_batch`) | pending flag, fixed list and index, term index, seen prefixes | request, poll | ends; leaves no noise directory in the index; never excludes the product's directory or one above it |
| index worker (`CliApp.cpp`, `run_index_worker`; `IndexWorkerLauncher.cpp`) | a process, its exit status, the launcher's ticket | launch, poll, close; load, mutate, wait, drain | exit 0 only for a crawl that finished without an error |
| runtime client (`RuntimeClient.cpp`) | library and database handle, error slots | load (lazily too), unload, every ABI call | callers can tell "no roots" from "no runtime" |
| frontends (`X11Frontend.cpp`, `Win32Frontend.cpp`, `IPadFrontend.mm`) | query, results, runtime handle, worker ticket, pending action, schedule | keys, timer, agent file, actions | the handle and the worker do not hold the index at once; a searchable state is reached again after each worker |
| daily refresh (`DailyIndexRefresh.cpp`) | last attempt, last success, their file | load, due, record | at most one refresh a day, one retry an hour, across restarts and writers |
| index snapshot (`IndexSnapshot.cpp`, `CliApp.cpp`) | state directory, staged copy, backup, archive | export, import, inspect | an interrupted import leaves an index in place, or moved aside; what is damaged is refused as far as the checksums reach |
| frontend lease, process control (`FrontendLease.cpp`, `ProcessControl.cpp`) | a lock or mutex; other processes | acquire, release; terminate, then kill | one GUI at a time |
| search (`SearchDialect.cpp`, `ResultView.cpp`, `SearchableFiles.cpp`, `HangulQueryNfc.cpp`) | none | parse, compile, autocomplete, filter; plan and join file and content searches | each query means one thing; an answer is whole or an error; a completion is understood |
| input (`CommittedInputGate.h`, `SwipeActions.cpp`) | composition flag and last text; gesture state | keys, commits, mouse, touches | no half-typed text is searched and no committed one is lost; an action reaches the row it was offered for |
| layout, fonts, icons, agent launcher, scripts | cosmetic or pure I/O | - | - |

How they interact: a frontend reads through its own `RuntimeClient`.  Every
change of the roots goes to a separate worker process, which alone starts
crawls: the frontend releases its handle, launches `SuchCLI --index-worker`,
polls the ticket from its event loop, and reloads when the worker has gone.
The worker runs one operation of the root service, waits for the crawl, drains
the maintenance, and reports by exit status alone.  CLI commands (`such add`,
`such scan`, `such hide`, `snapshot`) do the same work in their own process at
any time, and `such stop` kills whatever runs.

Hard here: partial failure (every operation is a sequence of ABI calls, each
of which can fail, with a roll back made of the same calls); kills between any
two of them; a search view that lags behind mutations; two processes and one
index directory; two processes and one schedule file; a reload that fails;
replacement of a directory by renames; dialogs that let the timer go on inside
the handler that opened them; rows named by a number while they are replaced.  `PROJECT.json` lists each hazard at
its line, with the properties aimed at it.

## 2. Modules

| module | models | composed from |
|---|---|---|
| `IndexPathPolicy` | admission of a root, fixed exclusions, plan of a set of roots: constant-level operators over paths | - |
| `IndexPathPolicyCheck` | a declarative statement of the same policy, the enumeration of root sets to compare them over, and the layout of the disk for which the two agree (`StandardLayout`) | extends `IndexPathPolicy` |
| `PolicyMaintenance` | the runtime as the code uses it (roots, exclusion table, crawl, capped and lagging search) and the deferred maintenance over it | extends `IndexPathPolicy` |
| `IndexRootService` | the four root operations and the roll back, one action per runtime call, in a worker or a CLI process that may be killed | extends `PolicyMaintenance` |
| `RootChange` | **abstract**: a change of roots is one atomic step, or fails without effect, or is reported lost | instantiated by `IndexRootService` |
| `IndexWorker` | `run_index_worker` from arguments to exit code, `RuntimeClient::status` and its two error slots | extends `PolicyMaintenance` |
| `X11Frontend` | who has the index loaded: the Linux frontend, its workers, CLI commands, `such stop` | - |
| `DailyRefresh` | the schedule, its file, and the two processes that write it | - |
| `IndexSnapshot` | import and export of the index as steps on the file system, several importers, and a process that has the index loaded | - |
| `Win32Frontend` | who has the index loaded on Windows: the window, the dialogs and message boxes inside its handlers, the timer below them, its workers, CLI commands, `such stop` | - |
| `SearchQuery` | from the text in the search box to an answer: tokens, stages and completions of the two dialects, file search, content search and the plan that joins them | - |
| `SearchInput` | the Windows search window: edit control and input method, rows, tray of actions, mouse, touch and context menu | - |
| `MC*` | constants for TLC | the module of the same name |
| `PolicyMaintenanceProofs` | theorems and proofs about the policy and the maintenance | extends `PolicyMaintenance`, `IndexPathPolicyCheck` |
| `IndexingProofs` | theorems and proofs about the root service and the worker | extends `IndexRootService`, `IndexWorker`, `PolicyMaintenanceProofs` |
| other `*Proofs` | theorems and proofs | the module of the same name |

A mutated form (`AdvanceForgetful`, `OpenInPlace`, ...) stands before the
definition it differs from and is used by nothing: putting it in that
definition's place must break the property `PROJECT.json` pairs it with.

### How state and actions correspond to the code

* **`IndexPathPolicy`**.  A path is a sequence of components, so that
  `is_within_key` is "is a prefix"; folding of case and of separators
  (`path_key`) is the identity on them by construction of the input.  `Tree` is
  the set of directories that exist, `Reparse` the ones that are links.  Known
  folders, the profile and the place the product is installed in are constants.
  `WindowsFixedExclusions` unites the system directories, AppData, and the split
  around the product; `PlanRoot` and `PlanSet` are `plan_default_index_policy`
  and `plan_default_index_policy_set`.
* **`PolicyMaintenance`**.  `roots`, `excluded` and `indexing` are what the
  private runtime shows through its ABI; `pending`, `fixedReady`, `fixedTodo`,
  `term` and `seen` are the members of `IndexRootService::Impl` with those
  meanings.  A poll is one action for each way `scrub_one_batch` can go:
  `PollPrepareFails`, `PollFixed`, `PollSearchFails`, `PollNoise`.  A query
  returns at most `RowCap` of the rows that match, any of them, and with
  `LaggingView` also rows below directories that are already excluded.  A poll goes
  on when the status says that no crawl runs, which a status call that fails says
  too (`NoCrawlSeen`): it may then run beside a crawl, whose rows are partly there.
* **`IndexRootService`**.  `step` is where the operation is, `mode` the function
  that makes the calls (`apply_exclusions` and `add_root` in the plain path,
  `seed_root_set`, `rollback_roots`); `todoEx` and `todoRoots` are what is left
  of its loops.  `CallFails`, `PlainFails` and `RollbackFails` are the error
  returns; `Kill` may come between any two calls and leaves only `roots` and
  `excluded`.
* **`IndexWorker`**.  `pc` follows `run_index_worker`; every `return` is an
  `ExitWith` and its code.  `Answer` is `RuntimeClient::status` with its order of
  reads: slots, roots, status.  The root operation is one step here, since its
  calls are in `IndexRootService`.  `blind`, `failure` and `rough` are history: the
  last one notes a poll that `SteadyPoll` (no failing call, no row that is not in the
  index) could not have made.
* **`X11Frontend`**.  One action per event that reaches the index: startup, an
  index command, pin or hide on a row, the three parts of the idle branch, quit.
  A ticket is a worker's name; a worker that has ended stays `"exited"` until
  its frontend has waited for it.
* **`DailyRefresh`**.  Memory first, then `persist` in three steps: truncate
  `<file>.new`, write it, rename it.  Files are names of inodes, and a process
  goes on writing the inode it has open whatever happens to the name (POSIX).
  `content` holds the records whose text is in the inode: none is an empty
  file, two is a line that was written over a longer one.
* **`IndexSnapshot`**.  A directory is a model value and a name is a variable that
  holds it (`state`, `temp[p]`, `backup[p]`), so that a rename is an exchange of
  values.  A file is its version, 0 when it is missing or garbage; an archive
  holds a payload and a checksum of each.  `pc` follows `import_index_snapshot`
  from one call that changes the disk to the next; `xpc` follows the two passes
  of `export_index_snapshot` over each file.  `Load` is what any process does
  that loads the runtime: it creates an index where there is none.
  An entry of an archive goes by the name of its file, by another, or is missing,
  since neither names nor the number of entries have a checksum.  `Staged` writes
  it where its name says, and may leave the file cut: the code does not look at
  how its `close()` ends, and compares the checksum of what it read.  `unsound`
  notes, as history, a directory that got one of these faults, and so would not
  be noticed.  `CollectEntries` lists any part of the index, as the walk does when
  it cannot go on; `FinishCopy` is the close of the export, which is looked at.
* **`Win32Frontend`**.  As `X11Frontend`, with two differences of the code.  While a
  worker runs the window may hold a *reader* of the published checkpoint
  (`runtime` is `"none"`, `"owner"` or `"reader"`).  And a folder dialog or a message
  box runs a message loop inside the handler that opened it: `modal` is the stack
  of the handlers that wait there, `Resume` takes the top one, and the timer's two
  actions (`TimerReap`, `TimerDaily`) do not ask whether the stack is empty, while
  commands do (`Idle`).  `start_index_worker` is `RequestWorker`, its outcomes
  `Launched`, `LaunchFailed` and `Refused`.
* **`SearchQuery`**.  A query is a sequence of stages (the text between `/;`), a
  stage a sequence of tokens; a token keeps how many slashes it had, what kind of
  operator it looks like, and its days.  `ParseStage` is `parse_impl`, `Compile` is
  `compile_runtime_query` and the second parse of its line, so that a bound comes
  back as a whole local day.  `SearchFiles`, `SearchContent`, `Drill` and `Answers`
  are `RuntimeClient::search` and its helpers; they return *sets* of answers, since
  a limit keeps any rows.  `engine` is the runtime that was loaded: whether it
  applies the filters itself, has a content search, or is a reader.  `broken` is
  the set of ABI calls that fail.
* **`SearchInput`**.  One action per window message.  `box` is the edit control and
  `query` the text the rows were searched for; `pre` marks a text with a preedit
  string in it.  `swipe` is the `SwipeController` in whole DIP, and `Begin`, `Update`
  and `End` are its methods.  A press hits a row at an x (what `hit_row` returns is
  an input; scrolling, selection and hover are left out), and whether a release is
  a flick is an input too.  `muted` is the 350 ms after a touch in which the mouse
  is ignored: it may end at any time.  `menu` holds the row an open context menu
  was opened for, and, as history, the file that row held.

### Assumptions about what is not in this repository

* What a runtime call has returned is durable; a call that fails changes nothing
  but its error text.
* One process at a time has the index loaded.  `X11Frontend.cpp:546` says so
  and both frontends are built on it.
* A load of the Windows frontend fails only when another process has the index, or,
  for a reader, when there is no checkpoint.  One of the Linux frontend may fail
  without a reason too (`faulty` notes it).
* Listing the roots *may* clear the runtime's error slot (either is modelled).
* Times in the state file have the same number of digits, except 0.
* Exclusions are parent-dominant: a path is hidden when any entry of the table
  covers it.
* A process that has the index loaded changes its files one at a time, and has
  brought all of them to one version when it releases it.
* A rename does not replace a directory that holds files (POSIX).
* A reader can be loaded exactly when a checkpoint has been published, whoever
  has the index loaded to write.
* A modal dialog keeps input from the window below it, and dispatches its timer
  and its posted messages.
* A runtime may apply compiled constraints itself or leave them to the client; an
  empty list of candidates means the whole index to it.
* A message whose pointer the system no longer knows counts as not delivered.

## 3. Runs

Numbers are distinct states.  Each run takes between a second and two minutes;
`snapshot`, `daily` and `worker` are the long ones.

| run | what it asks | result |
|---|---|---|
| `path_policy` | is the plan, for every set of up to eleven requests, what a declarative statement of the policy says (`PlanMatchesIntent`), and does it spare a product inside a system directory (`InstallNeverExcluded`) | holds, 3 072 |
| `root_service` | every sequence of operations, failures, failing roll backs and kills: types, no root is attached before the exclusions of the complete set (`PolicyCoversRoots`), a selected AppData folder stays open, its noise directories apart (`SelectedAppDataOpen`), the abstract atomic change is implemented (`ChangesAreAtomic`) | holds, 171 528 |
| `worker` | the worker and the maintenance it polls, with a lagging, row-capped search and failing calls: types (`MaintenanceTypeOK`); neither the directory the product is installed in nor one above it is excluded, the noise directory it lies in included (`InstallNeverHidden`); with neither lag nor failures no noise row is left at the end (`SteadyScrubFinishes`); a crawl that fails before the drain ends in exit code 8 (`CrawlFailureReported`); the poll limit is never used up unless a status call hid a crawl (`DrainFinishes`) | holds, 122 959 |
| `x11` | types and a ticket that never names a reaped child; one tracked worker (`OneTrackedWorker`); one launch per due schedule (`RefreshThrottled`); with no other process about, and no load that fails without one, the index is loaded again after every worker (`SearchableUndisturbed`, liveness) | holds, 24 694 |
| `daily` | types; the file is absent or one complete record at every moment (`PublishedComplete`); no scheduled launch comes early (`ScheduleKept`) | holds, 1 578 402 |
| `snapshot` | two imports, or an import and an export, beside a process that changes the index: types and one name for each directory; the state directory has every file, or is absent, or was staged with a fault that import does not look for (`StateIsSound`); no step leads from the last such index to none (`IndexNeverLost`); a failed import has left an index in place (`FailureKeepsIndex`); an export that nobody disturbed holds one version of the files its walk has listed (`ArchiveIsOneVersion`) | holds, 1 125 070 |
| `win32` | the same questions as `x11` for the Windows frontend, with the timer going on below its dialogs; and the window never keeps its own worker from the index (`WorkerGetsIndex`), which the Linux one does | holds, 69 646 |
| `search` | types, and no rows beside an error; an answer without an error is the whole answer up to the limit (`AnswerIsWhole`); `/inside` after files searches exactly those files (`DrillSearchesCandidates`); a direct `/inside` keeps its other constraints (`DayConstraintsKept`, all but the windows that end now); the two dialects agree (`DialectsAgree`); what is offered as a completion is understood (`SuggestedIsUnderstood`) | holds, 455 319 |
| `input` | types, and no row dragged further than a tray and a half; a preedit string is never searched for (`PreeditNeverSearched`); once a composition has ended, the rows are those of the text in the box (`SettledRowsMatchText`); an open tray belongs to the file that was swiped (`TrayShowsItsRow`); it is open or closed when nobody drags it (`TraySettles`), and somebody who drags will be told of the end (`DragHasOwner`) | holds, 872 692 |
| `win32_first_folder` | is there a client when a handler uses it (`HandleIsThere`) | violated |
| `search_week` | does a direct `/inside` keep every constraint (`ContentKeepsConstraints`) | violated |
| `menu_other_file` | does the context menu act on the file it was opened on (`MenuActsOnItsRow`) | violated |

The three violated ones are findings; each is described in `PROJECT.json` with the
line that says otherwise.  In one sentence each:

* `win32_first_folder`: the first folder is picked, the worker starts, no checkpoint
  has been published yet, and the handler asks a null client for its generation.
* `search_week`: the constraints of `/inside note /week` go through a line of text in
  which a bound is a whole day; the end of the window, now, becomes the midnight
  today began at, and the files of today are lost.
* `menu_other_file`: the menu keeps the number of a row, the timer replaces the rows
  below it, and the action is applied to the file that has come to that number.

### Bounds, and why they are enough

* `RowCap` 2 or 3, `MutationLimit` 1 or 2 (512 and 16 in the code): the trees hold more
  matching rows and more exclusions than one query or one batch, so that every
  poll that must be continued is.
* `Terms`: all three in `worker`; one in `root_service`, whose properties do not depend on how many there are.
* The trees are the smallest that hold a drive above, a profile beside and an
  AppData folder around the product, nested noise directories, one of them
  inside a selected AppData folder, a name that only begins like a term (`gitnotes`),
  and a system directory.
* `root_service`: three root paths, one of them AppData, which may be explicit or
  not; that is every overlap the plan distinguishes.  `Legacy` starts it with
  the roots of an earlier release.
* `PollLimit = 8` (4096): one poll per batch, prefix, term and restart of the
  largest instance, which is what `LimitAssumption` asks for; it is tight, one poll
  less and `DrainFinishes` is violated.
  `RestartLimit = 1`: one crawl the runtime starts by itself while draining.
  `SteadyScrubFinishes` speaks of the runs in which neither lag, nor a decoy row, nor a
  failing call changed a poll (`~rough`).
* `path_policy`: `MCLayout` has TLC check that the tree has the layout that the theorem
  assumes.  The product lies below a directory that would be excluded whole, which is
  where the split does something; the runs of the maintenance have it in its usual place,
  among the children of `Programs`, or (`worker`) below a directory named `.git`.
* `x11`: two workers, three commands, two CLI commands, two stops.  A second worker
  is what a lost ticket needs, a third command what it needs to be launched
  after a failed launch.
* `daily`: three moments, a refresh every two and a retry after one, two launches,
  one scan.  Three inodes are always enough: when one is created, at most the
  state file's and the other writer's are in use.
* `snapshot`: two files, so that an archive can mix versions and an entry can be
  damaged, misnamed or missing next to a sound one; two importers, the least that
  can move each other's index aside; three directories: the index and what one
  importer has staged, one of which it then moves aside, and what the other has
  staged.  A step that needs a fourth is not taken.  `MaxStarted = 2` of the two
  imports and the export are started: any two of them side by side, with the
  process that loads the index as a third.  Two versions: before and after a
  change.
* `win32`: two workers and three commands as in `x11`, one CLI command, one stop, and
  two handlers waiting in modal loops at a time, so that a
  message box of the timer can lie above a dialog of the user; every launch and
  every listing of the roots may fail.
* `search`: six files that differ in extension, day, pin, index and contents, one of
  them of a kind no search may return; four runtimes.  The box holds any two of
  fourteen tokens, alone or before a content stage, or the beginning of a content
  query, and one more edit (`TypeLimit`) makes it three tokens or two stages.
  Days are three units long and the search is made in the middle of one, so that
  a window that ends now differs from one that ends at midnight.
* `input`: three texts (empty, one with a completion, the completed one), two
  generations of the index, in which the rows come in another order, two touch
  contacts beside the mouse; presses on the tray, left of it and beyond it, level
  or one row down; two posted messages, which is one more than it takes for a new
  composition to start before the message of the last one is dispatched.

The proofs need none of these bounds.

### Fairness

The two frontends have a liveness property each.

`FairSpec` of `X11Frontend` assumes that the frontend's event queue runs empty again
and again (the loop waits at most 250 ms and then runs its idle branch), that a
worker that was launched loads and ends (its crawl ends, its drain is bounded by
`DrainFinishes`), and that a CLI command ends.

`FairSpec` of `Win32Frontend` assumes that `wWinMain` goes on to its message loop,
that the timer is delivered, in the loops of the dialogs too (`SetTimer` on the
window: `DispatchMessage` of any loop of the thread calls its procedure), and
that workers and CLI commands end.

Nothing is assumed of the user, who may leave a dialog or a message box open for
good, or of the schedule.  Of a load it is assumed that it works when no other
process has the index (and, for a reader, a checkpoint is there): the model of the
Linux frontend lets it fail all the same, and `SearchableUndisturbed` then claims
nothing (`faulty`), since a load is tried once; the model of the Windows frontend has
no such load.

## 4. What is proved

All proofs are for every value of the constants that satisfies the named
assumptions of the module.  None needs the bounds of the runs.

| module | theorems | along which argument |
|---|---|---|
| `PolicyMaintenanceProofs`, policy | `PlanKeepsInstall`, `InstallIsNeverExcluded` | every planned exclusion comes out of the split around the product, and a sibling of a component on the way down to it is neither above nor inside it |
| | `IntentIsPlanned` | one direction (`ExcludedIsMeant`): what an exclusion covers is covered by one of the directories the policy sets out to exclude (`Sources`), all private, and two directories above a third are related, so it can be neither on the way to the product nor below a named folder.  The other (`MeantIsExcluded`): a private directory below an admitted root lies in a source that lies below that root (`PrivateIsCovered`), what is left of that source after the split still covers it (`SplitStillCovers`: where its path first leaves the way to the product), and no named folder is related to it, so the set's filter keeps it |
| `PolicyMaintenanceProofs`, maintenance | `MaintenanceTypeCorrect`, `InstallStaysVisible` | `MaintenanceInv`: types, a poll that is due has a current term, and the *list still to apply* spares the product's directory and those above it too; a noise prefix is skipped when it and the product's directory are related, either way round |
| `IndexingProofs`, root service | `TypeCorrect`, `RootsAreCovered` | `IInv`: coverage alone is not inductive, as exclusions are applied one by one; what is inductive is that the calls still to be made are the plan of the roots they will leave (`CallsMatchPlan`), so that the last one leaves a covered set |
| | `ChangesRefine` | `RInv` adds how far the change has come (`CallsReachTarget`); the abstract root set is `previous` while an operation runs, and `roots` otherwise |
| | `AppDataStaysOpen` | `AppDataInv`: besides what is excluded, the exclusions still to be made spare the folders among the roots there are *and* those still to be attached, and so does what is left of the maintenance's list, which exists only between operations |
| `IndexingProofs`, worker | `WorkerTypeCorrect`, `WorkerSparesInstall` | the worker's steps leave the invariant of the maintenance alone, or are steps of it |
| | `FailedCrawlIsReported` | `FailureInSlot`: a crawl that failed before the drain has its error in the runtime's slot while the worker waits and checks, or the worker has ended with code 8; a status call reads the slot before listing the roots can clear it (`SlotIsReported`) |
| | `DrainEnds` | `DrainInv`: `DrainFinishes` is inductive only with a `Budget`.  `PollsLeft` counts batches of the fixed list, noise directories that the terms to come may still offer and terms; each poll of an idle runtime lowers it (`PollMakesProgress`), because a prefix is offered once per term (`seen`), whether its exclusion succeeds or not; a poll during a crawl is paid for by the restart that made it |
| | `SteadyScrub` | `ScrubInv`: while nothing was rough, every term before the current one is scrubbed, and what has been seen is excluded.  A term is left when a query offers nothing new; then each of its rows is one that the guard of the product keeps (`NothingFresh`), so the query was not cut off and has shown all that the index holds (`NothingFreshIsAll`) |
| `X11FrontendProofs` | `FrontendTypeCorrect`, `OneWorkerIsTracked`, `RefreshIsThrottled` | `FInv`: a ticket belongs to this run of the frontend; while the schedule is due, nothing has been tried |
| `DailyRefreshProofs` | `RefreshTypeCorrect`, `FileAlwaysComplete`, `ScheduleIsKept` | `DInv`: while no two processes write, only a process in the middle of a persist has an inode open, that inode is not the state file's, and what is not lost is in the file or in the frontend's memory |
| `IndexSnapshotProofs` | `SnapshotTypeCorrect`, `StateAlwaysSound`, `IndexIsNeverLost` | `SInv`: in a staged directory that no unnoticed fault has touched, every file whose entry was read is there (`Staging`); and while somebody is about to remove a backup an index is in place, or moved aside by somebody who is not (`Standby`), which is what a second importer makes necessary.  `Sound` is what passes for an index: the faults that nobody looks for are part of it, so these theorems say what the checks there are achieve, and section 7 what they do not |
| | `FailureNeverLosesIndex` | `Handover`: once there was an index and the state directory is missing, an importer is still about to put one in its place, or could not, or was killed |
| | `ArchiveNeverMixed` | `Calm`: until the exporter has copied, an index that nobody has loaded is of one version, wherever the importers have moved it; `Copies`: unless it was changed or replaced, what has been summed and copied of the files that were listed is that version, and their sizes are still the ones that were taken, so that no copy is cut |
| `Win32FrontendProofs` | `Win32TypeCorrect`, `Win32OneWorker`, `Win32WorkerGetsIndex`, `Win32RefreshThrottled` | `WInv`: a valid ticket was given to this run of the window and leaves it at most a reader (`Tracked`), so a handler that resumes after its dialog may come in any order with the timer; a schedule that is still due after a launch has failed leaves nothing loaded, and without a client nothing is launched (`Throttled`) |
| `SearchInputProofs` | `InputTypeCorrect`, `PreeditStaysOut`, `NoCommitLost` | `GateInv`: what the gate has seen is what the rows were searched for; the box is ahead of both only while a composition is on or a message of one is still posted |
| | `TrayActsOnSwiped`, `TrayComesToRest`, `DragIsEnded` | `TrayInv`: a row has its tray from the press on, before it is open, so the file that was swiped is fixed there; the property alone says nothing yet of a tray that is being dragged |
| `SearchQueryProofs` | `SearchTypeCorrect`, `AnswersAreWhole`, `DrillIsExact`, `OffersAreUnderstood` | `QInv`: an answer that was asked for is an answer to the text in the box, and what is offered is a completion of it; the rest is about the operators, for every text, index, runtime and limit, whichever calls fail |
| | `DaysSurvive` | what `Compile` writes for a stage and `ParseStage` reads back are the same constraints with whole days for bounds (`CompiledIsRead`), except for windows that end now |
| | `OneLanguage` | a token and its Unix spelling have one class (`UnixClass`), so a line is parsed alike (`UnixParse`), its compiled form gives the same rows (`UnixRows`), and so do the drill and the content search |

`IndexRootService` assumes that the two AppData folders lie below a component of that
name and outside the product, where Windows puts them.  It is used once, for the
lemma that a root which was persisted is read back with the intent it was added
with (`IntentIsPersistent`), on which `IInv` rests.

`IntentIsPlanned` has `StandardLayout` as its hypothesis: the tree holds the directories on
the way to each directory, the profile lies directly below `Profiles`, the known folders
carry the names that `default_index_path_allowed` protects (below `C:`, or `AppData`), and
neither of the folders a user may name lies in another one that is excluded.  It is where
Windows puts them.  The policy relies on it: with `ProgramFiles` moved to another drive a
search root below it is planned, since `ProtectedPath` knows the names below `C:` only.

`DrainEnds` uses `LimitAssumption`: the poll limit allows for one poll per full batch, noise
directory, term and restart.  The code's 4096 does so for disks of up to some four thousand
noise directories (more when a batch takes several); beyond that, exit code 7 is what the
limit is for.  `SteadyScrub` uses `SparedAssumption`: the rows of a term that are never
excluded because of the product are fewer than a query returns (512).

The parser of `SearchQuery` goes through the tokens of a stage by recursive functions.
Facts about every length are proved by induction over a set (`LeastNumber`, `SeqInduction`):
the lengths at which a fact fails would have a least one.  The induction theorems of the
library take an operator as a parameter, and are not used.

`SelectedAppDataOpen` exempts noise directories: `scrub_one_batch` excludes them below every
root.  The proof does not go through without the exception, and the tree of the run has a
`.git` inside an AppData folder for it.

## 5. What is only model-checked

* `SearchableUndisturbed`, of both frontends: liveness under fairness, which the prover
  does not reach.

Every invariant and every action property of a passing run, and the refinement, is a theorem.

## 6. What is not modelled, and why

* The private runtime: a binary.  It appears as the external actions of
  `PolicyMaintenance`.
* `discover_default_noise_exclusions` (only tests call it), `refresh_policy_async` (no
  caller).
* Characters.  Paths and queries are sequences of components and tokens; what
  normalises them (`HangulQueryNfc.cpp`, folding of case, UTF-16) is not modelled,
  nor is the time zone of a date.
* The result view (grouping and clipping of rows for display), layout, fonts, icons,
  agent launcher, installers: no state that a property could be about.
* `snapshot info`, and the comparison of the roots after an import: reading only.
* In the search window: scrolling, selection, hover, the settings page, and the
  leading tray of the experimental build.  The X11 frontend uses the same gate and
  the same controller from other events; only its index ownership is modelled.
* The iPadOS frontend: it indexes in its own process from a queue of background
  blocks; planned below.
* How a worker process is started (`fork`, `pipe`, `exec`, `CreateProcess`) and how
  `such stop` escalates from a request to a kill, process by process: both appear
  by their outcome.

## 7. Disagreements noticed and not run

* `docs/ARCHITECTURE.md:127` says a term is queried again until no prefix remains; the
  code moves on as soon as one query yields no *new* prefix, and stale rows of a
  lagging view can fill the cap.  `SteadyScrubFinishes` therefore excludes lag.  Rows of
  the product's own directory, which are skipped, can fill it too: `SparedAssumption`
  excludes that case.
* `docs/ARCHITECTURE.md:297` says noise rules still apply below the product's directory,
  where a nested `node_modules` "remains excludable"; `scrub_one_batch` skips every prefix
  inside it (`IndexRootService.cpp:350` to 361).  No run shows it.  `InstallNeverHidden`
  therefore speaks of the product's directory and those above it only, and
  `SteadyScrubFinishes` exempts the rows that the guard keeps (`Spared`).
* A poll goes on beside a crawl when the status call fails, and may then leave a
  term before the crawl has brought its rows; `SteadyScrubFinishes` excludes it
  (`rough`).
* `README.md:111` says the worker finishes the maintenance, then exits; it exits
  with code 0 as well when the maintenance was given up after a failed call.
* A process killed between two `add_root` calls of a reseed leaves roots that were
  planned as part of a larger set, with its exceptions in force, and nothing
  checks them at the next start; `docs/ARCHITECTURE.md:278` says AppData is excluded
  by default.  `PolicyCoversRoots` excludes that case through `torn`.
* `docs/ARCHITECTURE.md:407` permits an export only after the runtime is idle and
  released.  Nothing keeps another process from loading it between the release
  and the copy: the archive then mixes versions and every checksum fits.
  `ArchiveIsOneVersion` excludes that case through `raced`.
* `docs/ARCHITECTURE.md:409` says import "validates the complete container before replacing
  the current state", and `tests/index_snapshot.cpp:88` that corruption must be rejected
  before.  Three faults are not detected.  The result of `out.close()` is not looked at
  (`IndexSnapshot.cpp:511`; export does look, at line 408), and the checksum compared
  after it is that of the bytes *read* (line 502), so a file cut by a full disk is
  staged.  No checksum covers an entry's name (line 465), nor the number of entries
  (line 223), which is only noticed when bytes are left over.  In each case the staged
  directory is activated (line 546), success is reported, and the last whole index is
  removed (line 554).  `StateIsSound` and `IndexNeverLost` count such a directory as an
  index (`unsound`); without that exception both are violated.
* An error of the walk over the state directory makes its iterator the end
  (`IndexSnapshot.cpp:158` to 163), and directories that may not be read are skipped
  (line 160): export succeeds with the files found so far.  Such an archive is
  consistent, and import takes it.  `ArchiveIsOneVersion` says nothing of how many
  files there are.
* The roll back of an import may fail too, and its error is overwritten
  (`IndexSnapshot.cpp:549`): the index is left under the name of the backup.
  `FailureKeepsIndex` excludes that case (`stranded`).
* An import killed between its two renames leaves no index directory.  The next
  start creates an empty index, and what was moved aside stays where nobody looks
  (`IndexNeverLost` counts it as kept).  The same happens to an importer that
  another process's load overtakes between the renames.
* A frontend loads the schedule once: a CLI `scan` that completes while it runs is
  not seen, and the next record overwrites its success with the older one.
  `ScheduleKept` excludes that case through `shared`.

Five properties are stated in the modules although the code does not keep them.  No
run checks them; each is violated when it is:

* `HiddenStaysHidden` (`IndexRootService`): a reindex starts with `replace_roots({})`
  (`IndexRootService.cpp:226`), which clears the table in which `such hide` keeps its
  entries too; `README.md:73` offers `such hide <file>` to exclude a file.
* `LateFailureReported` (`IndexWorker`): the drain loop reads `status().indexing`
  (`CliApp.cpp:217`) and drops the error that the same call reports and clears, though
  `RuntimeClient.cpp:684` says the error is captured "before roots() can clear ABI
  error state".
* `SearchableAgain` (`X11Frontend`, under `FairSpec`): the reload after a worker is tried
  once, the ticket is gone before (`X11Frontend.cpp:495`), and the window stays over no
  index, though line 1017 says "Fail closed" of the same condition at startup.
* `WorkerGetsIndex` (`X11Frontend`): pin or hide on a row of the folder picker loads the
  runtime lazily (`X11Frontend.cpp:674`) while the worker starts, though line 546 says
  that the frontend releases it before the worker opens the same state.
* `AtomicReplacement` (`DailyRefresh`): two writers use the same `<file>.new`
  (`DailyIndexRefresh.cpp:84`), and a rename publishes what the other has just
  truncated; the file is then kept as malformed for good.
  `docs/QA_20261016_DAILY_IME_INSIDE.md:11` says "`*.new` then atomic
  rename/replacement".

Search:

* A refinement after `/;` can widen the result: the stages are parsed as one line,
  where a later extension is added to the list (a file with either is found) and a
  later date replaces the earlier bounds, though `SearchDialect.h:29` calls the
  refinements conjunctive.
* The constraints of a final content stage are ignored when its candidates come from
  earlier stages: `plan /; /inside note /pdf` finds files of every kind.
* On Windows, where the prefix of an operator is one slash, a completion is only ever
  a command: the suggestions for operators and extensions are never reached.  On
  Unix `//;` is split at its second slash, and a bare `/` is searched for.

Windows frontend:

* `set_pinned` and `set_indexed` (`RuntimeClient.cpp:664` to 680) report a failure by the
  client's own error text when it has one: that of an earlier call, not theirs.
* When the first worker fails, no checkpoint exists, and the window is left without
  an index; a reader is not tried again when the checkpoint appears.
* Every scheduled launch that fails opens one more message box above the last.
* A folder that is picked after the schedule has launched a worker below the dialog
  is refused, and dropped.

Input:

* `refresh_query` returns early while a composition is on, but the timer has already
  recorded the generation it was called for (`Win32Frontend.cpp:2006`): after a
  composition that is cancelled the rows of the old generation stay.
* The flick of `SwipeController::end` is asked for only after a third of the tray has
  been reached (`SwipeActions.cpp:104`), where the row opens anyway;
  `Design.md:613` lets a fast flick open it.
* `WM_POINTERUP` whose pointer the system no longer knows leaves `gActivePointerId`
  set, and touches of other contacts are ignored until the capture changes.
* A mouse button released within the 350 ms after a touch is ignored, and the window
  keeps the mouse captured.
* The tray stays open when the window loses the focus on Windows, and closes on X11.

## 8. Plan

Most important first; the abstract specification each should implement in
brackets.

1. An abstract specification of index ownership (free, read, written by one
   process), which both frontends implement.  [One writer at a time, and it is
   never refused by the window that launched it.]
2. `IndexWorkerLauncher`: fork, pipe and exec hand-shake, wait, close.  [Launched and
   tracked, or not launched.]
3. The iPadOS frontend: background blocks and the root service in one process.
4. X11's use of `CommittedInputGate` and `SwipeController`, from key and button events.
5. A composition of `X11Frontend`, `IndexWorker` and `DailyRefresh`: a day of use.

Every theorem planned so far is proved.  The next ones come with the abstract
specification of item 1: a refinement, step by step, for each frontend.
