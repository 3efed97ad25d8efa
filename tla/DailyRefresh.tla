---------------------------- MODULE DailyRefresh ----------------------------
(***************************************************************************)
(* The daily index refresh (src/runtime/DailyIndexRefresh.cpp) with the    *)
(* two processes that write its file: a frontend, which loads it once when *)
(* it starts and records every worker it launches, and a CLI `scan`, which *)
(* loads and records in one go.  A record is kept in memory first and then *)
(* persisted in three steps: truncate `<file>.new`, write it, rename it.   *)
(*                                                                         *)
(* Files are names for inodes, so that a process may go on writing a file  *)
(* that another one has renamed (POSIX).  Every process may be killed      *)
(* between any two steps, and every step of a persist may fail.            *)
(***************************************************************************)
EXTENDS Naturals

CONSTANTS
  Inodes, NoInode,
  MaxTime,         \* bound: the last time the clock shows
  RefreshSeconds,  \* kRefreshSeconds
  RetrySeconds,    \* kRetrySeconds
  ClockSetBack,    \* may the clock be set back
  PersistMayFail,  \* may the calls of persist fail
  WorkerLimit,     \* bound: workers launched by the frontend
  ScanLimit        \* bound: CLI scans

ASSUME RefreshAssumption ==
  /\ NoInode \notin Inodes
  /\ MaxTime \in Nat /\ RefreshSeconds \in Nat /\ RetrySeconds \in Nat \ {0}
  /\ ClockSetBack \in BOOLEAN /\ PersistMayFail \in BOOLEAN
  /\ WorkerLimit \in Nat /\ ScanLimit \in Nat

Writers == {"gui", "scan"}
Times == 1 .. MaxTime

\* last_success_ and last_attempt_, 0 for never; and what a file may hold.
Record == [success : 0 .. MaxTime, attempt : 0 .. MaxTime]

VARIABLES
  now,      \* utc_now
  file,     \* state_file_
  temp,     \* <state_file_>.new
  content,  \* of every inode: the records whose text it holds, {} when empty
  gui,      \* a frontend runs
  ready,    \* daily_state_ready
  ticket,   \* its worker: "none", "running", "done" or "failed"
  index,    \* who has the index loaded: "free", "gui", "worker" or "scan"
  mem,      \* each writer's last_success_ and last_attempt_
  pc,       \* its persist: "idle", "crawl", "begin", "opened" or "written"
  fd,       \* the inode it has open
  done,     \* history: when a completed refresh was last recorded
  tried,    \* history: when an attempt was last recorded
  known,    \* history: who knows that record: "file", "memory" or "lost"
  shared,   \* history: a scan was recorded while a frontend was running
  daily,    \* history: scheduled launches
  workers, scans

clock == <<now>>
disk == <<file, temp, content>>
front == <<gui, ready, ticket>>
memory == <<mem, fd>>
history == <<done, tried, known, shared, daily>>
limits == <<workers, scans>>
vars == <<clock, disk, front, index, memory, pc, history, limits>>

Never == [success |-> 0, attempt |-> 0]

Init ==
  /\ now \in Times
  /\ file = NoInode /\ temp = NoInode
  /\ content = [i \in Inodes |-> {}]
  /\ gui = FALSE /\ ready = FALSE /\ ticket = "none" /\ index = "free"
  /\ mem = [w \in Writers |-> Never]
  /\ pc = [w \in Writers |-> "idle"] /\ fd = [w \in Writers |-> NoInode]
  /\ done = 0 /\ tried = 0 /\ known = "file" /\ shared = FALSE /\ daily = 0
  /\ workers = 0 /\ scans = 0

-----------------------------------------------------------------------------
(* The schedule.                                                           *)

\* due, with the current time as an argument.
Due(m, t) ==
  /\ m.success <= t
  /\ m.success # 0 => t - m.success >= RefreshSeconds
  /\ m.attempt <= t
  /\ m.attempt = 0 \/ t - m.attempt >= RetrySeconds

\* load: a file that does not parse is preserved, and disables the schedule.
Loadable == file = NoInode \/ \E r \in Record : content[file] = {r}

\* Mutated form: load resets the two times and forgets to set them.
LoadedNever == Never

Loaded == IF file # NoInode /\ Loadable THEN CHOOSE r \in Record : content[file] = {r} ELSE Never

-----------------------------------------------------------------------------
(* persist.                                                                *)

Persisting(w) == pc[w] \in {"begin", "opened", "written"}
InUse == {file, temp} \cup {fd[w] : w \in Writers}

Latest == [success |-> done, attempt |-> tried]

\* The end of a persist; a scan ends with it, and what it had in memory is gone.
Finish(w) ==
  /\ pc' = [pc EXCEPT ![w] = "idle"] /\ fd' = [fd EXCEPT ![w] = NoInode]
  /\ mem' = IF w = "scan" THEN [mem EXCEPT ![w] = Never] ELSE mem
  /\ index' = IF w = "scan" THEN "free" ELSE index

Forgotten(w) == known' = IF w = "scan" /\ known = "memory" THEN "lost" ELSE known

\* Mutated form: the state file is truncated and written in place.
OpenInPlace(w) ==
  /\ pc[w] = "begin"
  /\ \E i \in Inodes :
       /\ IF file # NoInode THEN i = file ELSE i \notin InUse
       /\ file' = i /\ fd' = [fd EXCEPT ![w] = i]
       /\ content' = [content EXCEPT ![i] = {}]
  /\ pc' = [pc EXCEPT ![w] = "opened"]
  /\ UNCHANGED <<clock, temp, front, index, mem, history, limits>>

\* std::ofstream(temp, trunc): the file named .new, whoever created it.
OpenTemp(w) ==
  /\ pc[w] = "begin"
  /\ \E i \in Inodes :
       /\ IF temp # NoInode THEN i = temp ELSE i \notin InUse
       /\ temp' = i /\ fd' = [fd EXCEPT ![w] = i]
       /\ content' = [content EXCEPT ![i] = {}]
  /\ pc' = [pc EXCEPT ![w] = "opened"]
  /\ UNCHANGED <<clock, file, front, index, mem, history, limits>>

\* A time has ten digits, 0 has one: the line of s is longer than that of r.
Longer(s, r) ==
  \/ r = Never /\ s # Never
  \/ r.success = 0 /\ s.success # 0 /\ s.attempt # 0

\* A line written over a longer one leaves its end behind.
Overwrite(old, r) == {s \in old : Longer(s, r)} \cup {r}

WriteTemp(w) ==
  /\ pc[w] = "opened"
  /\ content' = [content EXCEPT ![fd[w]] = Overwrite(@, mem[w])]
  /\ pc' = [pc EXCEPT ![w] = "written"]
  /\ UNCHANGED <<clock, file, temp, front, index, memory, history, limits>>

\* Mutated form: a copy, which leaves the temporary name behind.
PublishCopy(w) ==
  /\ pc[w] = "written" /\ temp # NoInode
  /\ file' = temp /\ temp' = temp
  /\ known' = IF mem[w] = Latest THEN "file" ELSE "lost"
  /\ Finish(w)
  /\ UNCHANGED <<clock, content, front, done, tried, shared, daily, limits>>

\* rename(temp, state_file_): the name, whatever inode it has by now.  Another
\* process may have renamed it away.
Publish(w) ==
  /\ pc[w] = "written"
  /\ IF temp # NoInode
       THEN /\ file' = temp /\ temp' = NoInode
            /\ known' = IF mem[w] = Latest THEN "file" ELSE "lost"
       ELSE Forgotten(w) /\ UNCHANGED <<file, temp>>
  /\ Finish(w)
  /\ UNCHANGED <<clock, content, front, done, tried, shared, daily, limits>>

\* Any step of persist fails: record returns false, .new stays as it is.
PersistFails(w) ==
  /\ PersistMayFail /\ Persisting(w)
  /\ Forgotten(w)
  /\ Finish(w)
  /\ UNCHANGED <<clock, disk, front, done, tried, shared, daily, limits>>

\* record_attempt and record_failure; record_success: memory first.
RecordAttempt(w) ==
  /\ mem' = [mem EXCEPT ![w].attempt = now]
  /\ tried' = now /\ done' = done
  /\ known' = IF mem[w].success = done THEN "memory" ELSE "lost"
  /\ pc' = [pc EXCEPT ![w] = "begin"]

RecordSuccess(w) ==
  /\ mem' = [mem EXCEPT ![w] = [success |-> now, attempt |-> now]]
  /\ tried' = now /\ done' = now
  /\ known' = "memory"
  /\ pc' = [pc EXCEPT ![w] = "begin"]

NoRecord == UNCHANGED <<mem, pc, done, tried, known>>

-----------------------------------------------------------------------------
(* The frontend.  Its thread runs a handler to its end, persist included.  *)

Idle == gui /\ pc["gui"] = "idle"

GuiStart ==
  /\ ~gui /\ index = "free"
  /\ gui' = TRUE /\ index' = "gui" /\ ready' = Loadable
  /\ mem' = [mem EXCEPT !["gui"] = Loaded]
  /\ UNCHANGED <<clock, disk, ticket, fd, pc, history, limits>>

\* A worker is launched, and may find the index held by a scan.
Launched ==
  /\ ticket' = IF index = "scan" THEN "failed" ELSE "running"
  /\ index' = IF index = "scan" THEN "scan" ELSE "worker"
  /\ workers' = workers + 1

\* A user's index command; also the repair at startup.
UserLaunch ==
  /\ Idle /\ ticket = "none" /\ index \in {"free", "gui", "scan"} /\ workers < WorkerLimit
  /\ Launched
  /\ IF ready THEN RecordAttempt("gui") ELSE NoRecord
  /\ UNCHANGED <<clock, disk, gui, ready, fd, shared, daily, scans>>

\* The idle branch finds the schedule due.  A launch that fails leaves the index
\* loaded, and is recorded as well.
DailyLaunch ==
  /\ Idle /\ ready /\ ticket = "none" /\ index = "gui" /\ workers < WorkerLimit
  /\ Due(mem["gui"], now)
  /\ \/ Launched
     \/ workers' = workers + 1 /\ UNCHANGED <<ticket, index>>
  /\ RecordAttempt("gui")
  /\ daily' = daily + 1
  /\ UNCHANGED <<clock, disk, gui, ready, fd, shared, scans>>

WorkerEnds ==
  /\ index = "worker"
  /\ index' = "free"
  /\ ticket' \in (IF ticket = "running" THEN {"done", "failed"} ELSE {ticket})
  /\ UNCHANGED <<clock, disk, gui, ready, memory, pc, history, limits>>

\* The worker has gone: its outcome is recorded once the index is loaded again,
\* and not at all when it cannot be.
Reap ==
  /\ Idle /\ ticket \in {"done", "failed"}
  /\ ticket' = "none"
  /\ index' = IF index = "free" THEN "gui" ELSE index
  /\ IF index # "free" \/ ~ready THEN NoRecord
     ELSE IF ticket = "done" THEN RecordSuccess("gui") ELSE RecordAttempt("gui")
  /\ UNCHANGED <<clock, disk, gui, ready, fd, shared, daily, limits>>

\* Closed or killed, in the middle of a persist too.  A worker runs on.
GuiEnds ==
  /\ gui /\ gui' = FALSE /\ ready' = FALSE /\ ticket' = "none"
  /\ index' = IF index = "gui" THEN "free" ELSE index
  /\ pc' = [pc EXCEPT !["gui"] = "idle"] /\ fd' = [fd EXCEPT !["gui"] = NoInode]
  /\ mem' = [mem EXCEPT !["gui"] = Never]
  /\ known' = IF known = "memory" THEN "lost" ELSE known
  /\ UNCHANGED <<clock, disk, done, tried, shared, daily, limits>>

-----------------------------------------------------------------------------
(* CLI scan.                                                               *)

ScanStart ==
  /\ index = "free" /\ pc["scan"] = "idle" /\ scans < ScanLimit
  /\ index' = "scan" /\ pc' = [pc EXCEPT !["scan"] = "crawl"]
  /\ scans' = scans + 1
  /\ UNCHANGED <<clock, disk, front, memory, history, workers>>

\* The crawl is complete: load the times, and record unless that fails.
ScanRecords ==
  /\ pc["scan"] = "crawl"
  /\ IF Loadable
       THEN /\ RecordSuccess("scan")
            /\ shared' = (shared \/ gui)
            /\ UNCHANGED <<index, fd>>
       ELSE Finish("scan") /\ UNCHANGED <<done, tried, known, shared>>
  /\ UNCHANGED <<clock, disk, front, daily, limits>>

\* It fails, or is killed, in the middle of its persist too.
ScanEnds ==
  /\ pc["scan"] # "idle"
  /\ Finish("scan")
  /\ IF Persisting("scan") THEN Forgotten("scan") ELSE UNCHANGED known
  /\ UNCHANGED <<clock, disk, front, done, tried, shared, daily, limits>>

-----------------------------------------------------------------------------
ClockMoves ==
  /\ now' \in {t \in Times : t > now \/ (ClockSetBack /\ t < now)}
  /\ UNCHANGED <<disk, front, index, memory, pc, history, limits>>

Next ==
  \/ \E w \in Writers : OpenTemp(w) \/ WriteTemp(w) \/ Publish(w) \/ PersistFails(w)
  \/ GuiStart \/ UserLaunch \/ DailyLaunch \/ WorkerEnds \/ Reap \/ GuiEnds
  \/ ScanStart \/ ScanRecords \/ ScanEnds
  \/ ClockMoves

Spec == Init /\ [][Next]_vars

-----------------------------------------------------------------------------
(* Properties.                                                             *)

\* Types; and a rename leaves one name for the inode it moves.
TypeOK ==
  /\ now \in Times
  /\ file \in Inodes \cup {NoInode} /\ temp \in Inodes \cup {NoInode}
  /\ temp = NoInode \/ temp # file
  /\ content \in [Inodes -> SUBSET Record]
  /\ gui \in BOOLEAN /\ ready \in BOOLEAN /\ shared \in BOOLEAN
  /\ ticket \in {"none", "running", "done", "failed"}
  /\ index \in {"free", "gui", "worker", "scan"}
  /\ mem \in [Writers -> Record]
  /\ pc \in [Writers -> {"idle", "crawl", "begin", "opened", "written"}]
  /\ fd \in [Writers -> Inodes \cup {NoInode}]
  /\ done \in 0 .. MaxTime /\ tried \in 0 .. MaxTime
  /\ known \in {"file", "memory", "lost"}
  /\ daily \in Nat /\ workers \in Nat /\ scans \in Nat

\* QA_20261016_DAILY_IME_INSIDE.md: `*.new`, then atomic replacement.  Whenever a
\* process is killed and whichever step fails, the file is absent or a record.
PublishedComplete == ~shared => Loadable

\* No launch of the schedule comes less than a day after the last completed
\* refresh or less than an hour after the last attempt, over restarts, failing
\* writes and a clock that is set back; unless that record was lost with the
\* process that could not write it.
DailyKept ==
  /\ done # 0 => now >= done + RefreshSeconds
  /\ tried # 0 => now >= tried + RetrySeconds

ScheduleKept == [][(daily' # daily /\ known # "lost" /\ ~shared) => DailyKept]_vars

\* The file stays a record whoever writes it.  The code does not keep it, and no
\* run checks it (README, section 7).
AtomicReplacement == Loadable
=============================================================================
