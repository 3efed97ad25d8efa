-------------------------- MODULE DailyRefreshProofs --------------------------
(***************************************************************************)
(* The daily refresh, proved for every clock, every interval and any       *)
(* number of workers, scans, kills and failing writes.                     *)
(***************************************************************************)
EXTENDS DailyRefresh, TLAPS

\* Who may be doing what.
Roles ==
  /\ pc["gui"] # "crawl"
  /\ Persisting("gui") => gui /\ ready
  /\ pc["scan"] # "idle" <=> index = "scan"

\* The file and the memory of the process that writes it, as long as scans and
\* frontends have not overlapped: one process at a time is in its persist, the
\* temporary file is its own, and whoever is said to know the latest record does.
Sole ==
  /\ Persisting("scan") => ~gui
  /\ Loadable
  /\ \A w \in Writers : pc[w] \in {"opened", "written"} => fd[w] = temp /\ temp \in Inodes
  /\ \A w \in Writers : pc[w] = "opened" => content[temp] = {}
  /\ \A w \in Writers : pc[w] = "written" => content[temp] = {mem[w]}
  /\ known = "memory" =>
       \/ gui /\ ready /\ mem["gui"] = Latest
       \/ Persisting("scan") /\ mem["scan"] = Latest
  /\ known = "file" =>
       /\ \A w \in Writers : ~Persisting(w)
       /\ Loaded = Latest
       /\ gui /\ ready => mem["gui"] = Latest

DInv ==
  /\ TypeOK
  /\ Roles
  /\ ~shared => Sole

USE RefreshAssumption

-----------------------------------------------------------------------------
(* Lemmas.                                                                 *)

\* A file that holds one record holds no other.
LEMMA OneRecord ==
  ASSUME NEW s, NEW r \in Record, s = {r}
  PROVE  (CHOOSE x \in Record : s = {x}) = r
  OBVIOUS

\* A loaded file yields a record (DailyIndexRefresh::load).
LEMMA LoadedRecord ==
  ASSUME TypeOK
  PROVE  Loaded \in Record
<1>1. Never \in Record
  BY DEF Never, Record
<1>2. CASE file # NoInode /\ Loadable
  <2>1. PICK r \in Record : content[file] = {r}
    BY <1>2 DEF Loadable
  <2>2. QED
    BY <1>2, <2>1, OneRecord DEF Loaded
<1>3. QED
  BY <1>1, <1>2 DEF Loaded

\* What load reads does not change while the file stays the same inode and that
\* inode is not written.
LEMMA FileKept ==
  ASSUME Loadable, file' = file, file # NoInode => content'[file] = content[file]
  PROVE  Loadable' /\ Loaded' = Loaded
<1>1. CASE file = NoInode
  BY <1>1 DEF Loadable, Loaded
<1>2. CASE file # NoInode
  <2>1. PICK r \in Record : content[file] = {r}
    BY <1>2 DEF Loadable
  <2>2. Loaded = r
    BY <1>2, <2>1, OneRecord DEF Loaded
  <2>3. Loadable'
    BY <2>1, <1>2 DEF Loadable
  <2>4. Loaded' = r
    BY <1>2, <2>1, <2>3, OneRecord DEF Loaded
  <2>5. QED
    BY <2>2, <2>3, <2>4
<1>3. QED
  BY <1>1, <1>2

\* The times a process records are times.
LEMMA RecordedTimes ==
  ASSUME TypeOK, NEW w \in Writers
  PROVE  /\ now \in 0 .. MaxTime
         /\ [success |-> now, attempt |-> now] \in Record
         /\ [mem EXCEPT ![w] = [success |-> now, attempt |-> now]] \in [Writers -> Record]
         /\ [mem EXCEPT ![w].attempt = now] \in [Writers -> Record]
         /\ [mem EXCEPT ![w].attempt = now][w] = [success |-> mem[w].success, attempt |-> now]
<1>1. now \in 0 .. MaxTime
  BY DEF TypeOK, Times
<1>2. mem \in [Writers -> Record]
  BY DEF TypeOK
<1>3. mem[w] \in [success : 0 .. MaxTime, attempt : 0 .. MaxTime]
  BY <1>2 DEF Record
<1>4. [mem[w] EXCEPT !.attempt = now] = [success |-> mem[w].success, attempt |-> now]
  BY <1>3
<1>5. [success |-> mem[w].success, attempt |-> now] \in Record
  BY <1>1, <1>3 DEF Record
<1>6. QED
  BY <1>1, <1>2, <1>4, <1>5 DEF Record

\* At most one process is in its persist.
LEMMA OneWriter ==
  ASSUME DInv, ~shared, NEW w \in Writers, NEW x \in Writers, Persisting(w), Persisting(x)
  PROVE  w = x
  BY DEF DInv, Roles, Sole, Writers

\* std::ofstream of the temporary file.
LEMMA OpenStep ==
  ASSUME DInv, NEW w \in Writers, OpenTemp(w)
  PROVE  DInv'
<1>1. PICK i \in Inodes :
        /\ IF temp # NoInode THEN i = temp ELSE i \notin InUse
        /\ temp' = i /\ fd' = [fd EXCEPT ![w] = i]
        /\ content' = [content EXCEPT ![i] = {}]
  BY DEF OpenTemp
<1>2. /\ pc[w] = "begin" /\ pc' = [pc EXCEPT ![w] = "opened"]
      /\ UNCHANGED <<now, file, gui, ready, ticket, index, mem, done, tried, known, shared, daily, workers, scans>>
  BY DEF OpenTemp, clock, front, history, limits
<1>3. i # file /\ TypeOK
  BY <1>1 DEF InUse, DInv, TypeOK
<1>4. /\ content' \in [Inodes -> SUBSET Record] /\ content'[i] = {}
      /\ file # NoInode => content'[file] = content[file]
  BY <1>1, <1>3 DEF TypeOK
<1>5. /\ pc' \in [Writers -> {"idle", "crawl", "begin", "opened", "written"}]
      /\ fd' \in [Writers -> Inodes \cup {NoInode}]
      /\ pc'[w] = "opened" /\ fd'[w] = i
      /\ \A x \in Writers \ {w} : pc'[x] = pc[x] /\ fd'[x] = fd[x]
  BY <1>1, <1>2, <1>3 DEF TypeOK
<1>6. TypeOK'
  BY <1>1, <1>2, <1>3, <1>4, <1>5 DEF TypeOK
<1>7. Roles'
  BY <1>2, <1>5 DEF DInv, Roles, Persisting, Writers
<1>8. ASSUME ~shared' PROVE Sole'
  <2>1. Sole /\ ~shared /\ Persisting(w)
    BY <1>2, <1>8 DEF DInv, Persisting
  <2>2. \A x \in Writers \ {w} : ~Persisting(x)
    BY <2>1, OneWriter
  <2>3. Loadable' /\ Loaded' = Loaded
    BY <1>2, <1>4, <2>1, FileKept DEF Sole
  <2>4. \A x \in Writers : Persisting(x)' = Persisting(x)
    BY <1>2, <1>5 DEF Persisting
  <2>5. known # "file" /\ Latest' = Latest
    BY <1>2, <2>1 DEF Sole, Latest
  <2>6. \A x \in Writers \ {w} : pc'[x] \notin {"opened", "written"}
    BY <1>5, <2>2 DEF Persisting
  <2>7. QED
    BY <1>1, <1>2, <1>4, <1>5, <2>1, <2>3, <2>4, <2>5, <2>6 DEF Sole, Writers
<1>9. QED
  BY <1>6, <1>7, <1>8 DEF DInv

\* The write of the line.
LEMMA WriteStep ==
  ASSUME DInv, NEW w \in Writers, WriteTemp(w)
  PROVE  DInv'
<1>1. /\ pc[w] = "opened" /\ pc' = [pc EXCEPT ![w] = "written"]
      /\ content' = [content EXCEPT ![fd[w]] = Overwrite(@, mem[w])]
      /\ UNCHANGED <<now, file, temp, gui, ready, ticket, index, mem, fd, done, tried, known, shared, daily, workers, scans>>
  BY DEF WriteTemp, clock, front, memory, history, limits
<1>2. TypeOK /\ mem[w] \in Record
  BY DEF DInv, TypeOK
<1>3. content' \in [Inodes -> SUBSET Record]
  <2>1. fd[w] \in Inodes => Overwrite(content[fd[w]], mem[w]) \in SUBSET Record
    BY <1>2 DEF Overwrite, TypeOK
  <2>2. QED
    BY <1>1, <1>2, <2>1 DEF TypeOK
<1>4. /\ pc' \in [Writers -> {"idle", "crawl", "begin", "opened", "written"}]
      /\ pc'[w] = "written"
      /\ \A x \in Writers \ {w} : pc'[x] = pc[x]
  BY <1>1, <1>2 DEF TypeOK
<1>5. TypeOK'
  BY <1>1, <1>2, <1>3, <1>4 DEF TypeOK
<1>6. Roles'
  BY <1>1, <1>4 DEF DInv, Roles, Persisting, Writers
<1>7. ASSUME ~shared' PROVE Sole'
  <2>1. Sole /\ ~shared /\ Persisting(w)
    BY <1>1, <1>7 DEF DInv, Persisting
  <2>2. \A x \in Writers \ {w} : ~Persisting(x)
    BY <2>1, OneWriter
  <2>3. fd[w] = temp /\ temp \in Inodes /\ content[temp] = {} /\ temp # file
    BY <1>1, <1>2, <2>1, RefreshAssumption DEF Sole, TypeOK
  <2>4. content'[temp] = {mem[w]}
    BY <1>1, <1>2, <2>3 DEF Overwrite, TypeOK
  <2>5. file # NoInode => content'[file] = content[file]
    BY <1>1, <1>2, <2>3 DEF TypeOK
  <2>6. Loadable' /\ Loaded' = Loaded
    BY <1>1, <2>1, <2>5, FileKept DEF Sole
  <2>7. \A x \in Writers : Persisting(x)' = Persisting(x)
    BY <1>1, <1>4 DEF Persisting
  <2>8. known # "file" /\ Latest' = Latest
    BY <1>1, <2>1 DEF Sole, Latest
  <2>9. \A x \in Writers \ {w} : pc'[x] \notin {"opened", "written"}
    BY <1>4, <2>2 DEF Persisting
  <2>10. QED
    BY <1>1, <1>4, <2>1, <2>3, <2>4, <2>6, <2>7, <2>8, <2>9 DEF Sole, Writers
<1>8. QED
  BY <1>5, <1>6, <1>7 DEF DInv

\* What the end of a persist leaves, whichever way it ends.
LEMMA FinishFacts ==
  ASSUME DInv, NEW w \in Writers, w = "gui" \/ pc[w] # "idle", Finish(w)
  PROVE  /\ pc' \in [Writers -> {"idle", "crawl", "begin", "opened", "written"}]
         /\ fd' \in [Writers -> Inodes \cup {NoInode}]
         /\ mem' \in [Writers -> Record]
         /\ index' \in {"free", "gui", "worker", "scan"}
         /\ pc'[w] = "idle"
         /\ \A x \in Writers \ {w} : pc'[x] = pc[x] /\ fd'[x] = fd[x] /\ mem'[x] = mem[x]
         /\ mem'["gui"] = mem["gui"]
         /\ pc'["gui"] # "crawl"
         /\ pc'["scan"] # "idle" <=> index' = "scan"
<1>1. TypeOK /\ Roles /\ Never \in Record
  BY DEF DInv, Never, Record
<1>2. pc' \in [Writers -> {"idle", "crawl", "begin", "opened", "written"}]
      /\ pc'[w] = "idle" /\ \A x \in Writers \ {w} : pc'[x] = pc[x]
  BY <1>1 DEF Finish, TypeOK
<1>3. fd' \in [Writers -> Inodes \cup {NoInode}] /\ \A x \in Writers \ {w} : fd'[x] = fd[x]
  BY <1>1 DEF Finish, TypeOK
<1>4. mem' \in [Writers -> Record] /\ mem'["gui"] = mem["gui"]
      /\ \A x \in Writers \ {w} : mem'[x] = mem[x]
  BY <1>1 DEF Finish, TypeOK, Writers
<1>5. index' \in {"free", "gui", "worker", "scan"}
  BY <1>1 DEF Finish, TypeOK
<1>6. pc'["gui"] # "crawl" /\ (pc'["scan"] # "idle" <=> index' = "scan")
  BY <1>1, <1>2 DEF Finish, Roles, Writers
<1>7. QED
  BY <1>2, <1>3, <1>4, <1>5, <1>6

\* A persist that ends without a rename: it failed, or its process was killed.
LEMMA CutShort ==
  ASSUME DInv, NEW w \in Writers, Persisting(w), Finish(w), Forgotten(w),
         UNCHANGED <<now, file, temp, content, gui, ready, ticket, done, tried, shared, daily, workers, scans>>
  PROVE  DInv'
<1>1. TypeOK /\ Roles /\ pc[w] # "idle"
  BY DEF DInv, Persisting
<1>2. known' \in {"file", "memory", "lost"}
  BY <1>1 DEF Forgotten, TypeOK
<1>3. TypeOK'
  BY <1>1, <1>2, FinishFacts DEF TypeOK
<1>4. Roles'
  BY <1>1, FinishFacts DEF Roles, Persisting, Writers
<1>5. ASSUME ~shared' PROVE Sole'
  <2>1. Sole /\ ~shared
    BY <1>5 DEF DInv
  <2>2. \A x \in Writers : ~Persisting(x)' /\ pc'[x] \notin {"opened", "written"}
    BY <1>1, <2>1, FinishFacts, OneWriter DEF Persisting
  <2>3. known # "file"
    BY <2>1 DEF Sole
  <2>4. Loadable' /\ Latest' = Latest
    BY <2>1 DEF Sole, Loadable, Latest
  <2>5. known' = "memory" => gui' /\ ready' /\ mem'["gui"] = Latest
    BY <1>1, <2>1, FinishFacts DEF Forgotten, Sole, Writers, Roles
  <2>6. known' # "file"
    BY <2>3 DEF Forgotten
  <2>7. QED
    BY <2>2, <2>4, <2>5, <2>6 DEF Sole, Writers
<1>6. QED
  BY <1>3, <1>4, <1>5 DEF DInv

\* The rename.
LEMMA PublishStep ==
  ASSUME DInv, NEW w \in Writers, Publish(w)
  PROVE  DInv'
<1>1. /\ pc[w] = "written" /\ Finish(w) /\ Persisting(w)
      /\ UNCHANGED <<now, content, gui, ready, ticket, done, tried, shared, daily, workers, scans>>
  BY DEF Publish, clock, front, limits, Persisting
<1>2. CASE temp = NoInode
  BY <1>1, <1>2, CutShort DEF Publish
<1>3. CASE temp # NoInode
  <2>1. TypeOK /\ Roles /\ pc[w] # "idle"
    BY <1>1 DEF DInv
  <2>2. file' = temp /\ temp' = NoInode /\ known' = IF mem[w] = Latest THEN "file" ELSE "lost"
    BY <1>3 DEF Publish
  <2>3. TypeOK'
    BY <1>1, <2>1, <2>2, FinishFacts DEF TypeOK
  <2>4. Roles'
    BY <1>1, <2>1, FinishFacts DEF Roles, Persisting, Writers
  <2>5. ASSUME ~shared' PROVE Sole'
    <3>1. Sole /\ ~shared
      BY <1>1, <2>5 DEF DInv
    <3>2. \A x \in Writers : ~Persisting(x)' /\ pc'[x] \notin {"opened", "written"}
      BY <1>1, <2>1, <3>1, FinishFacts, OneWriter DEF Persisting
    <3>3. content'[file'] = {mem[w]} /\ mem[w] \in Record /\ file' # NoInode
      BY <1>1, <1>3, <2>1, <2>2, <3>1 DEF Sole, TypeOK
    <3>4. Loadable'
      BY <3>3 DEF Loadable
    <3>5. Loaded' = mem[w]
      BY <3>3, <3>4, OneRecord DEF Loaded
    <3>6. Latest' = Latest
      BY <1>1 DEF Latest
    <3>7. ASSUME known' = "file", gui', ready' PROVE mem'["gui"] = Latest
      <4>1. w = "gui"
        BY <1>1, <3>1, <3>7 DEF Sole, Writers
      <4>2. QED
        BY <1>1, <2>1, <2>2, <3>7, <4>1, FinishFacts
    <3>8. known' = "file" => Loaded' = Latest
      BY <2>2, <3>5
    <3>9. known' # "memory"
      BY <2>2
    <3>10. QED
      BY <3>2, <3>4, <3>6, <3>7, <3>8, <3>9 DEF Sole, Writers
  <2>6. QED
    BY <2>3, <2>4, <2>5 DEF DInv
<1>4. QED
  BY <1>2, <1>3

\* A step that touches neither the file, the records nor the roles.
LEMMA QuietStep ==
  ASSUME DInv,
         UNCHANGED <<disk, gui, ready, memory, pc, done, tried, known, shared>>,
         now' \in Times, ticket' \in {"none", "running", "done", "failed"},
         index' \in {"free", "gui", "worker", "scan"}, index' = "scan" <=> index = "scan",
         daily' \in Nat, workers' \in Nat, scans' \in Nat
  PROVE  DInv'
<1>1. UNCHANGED <<file, temp, content, gui, ready, mem, fd, pc, done, tried, known, shared>>
  BY DEF disk, memory
<1>2. TypeOK'
  BY <1>1 DEF DInv, TypeOK
<1>3. Roles'
  BY <1>1 DEF DInv, Roles, Persisting
<1>4. ASSUME ~shared' PROVE Sole'
  <2>1. Sole
    BY <1>1, <1>4 DEF DInv
  <2>2. Loadable' /\ Loaded' = Loaded /\ Latest' = Latest
    BY <1>1, <2>1, FileKept DEF Sole, Latest
  <2>3. QED
    BY <1>1, <2>1, <2>2 DEF Sole, Persisting
<1>5. QED
  BY <1>2, <1>3, <1>4 DEF DInv

\* The frontend records what it did: no scan is in its persist unless the two
\* have overlapped, and the record is the latest one.
LEMMA FrontendRecords ==
  ASSUME DInv, Idle, ready, RecordAttempt("gui") \/ RecordSuccess("gui"),
         UNCHANGED <<now, file, temp, content, gui, ready, fd, shared, scans>>,
         ticket' \in {"none", "running", "done", "failed"},
         index' \in {"free", "gui", "worker", "scan"}, index' = "scan" <=> index = "scan",
         daily' \in Nat, workers' \in Nat
  PROVE  DInv'
<1>1. TypeOK /\ Roles /\ gui /\ pc["gui"] = "idle" /\ "gui" \in Writers /\ "scan" \in Writers
  BY DEF DInv, Idle, Writers
<1>2. pc' = [pc EXCEPT !["gui"] = "begin"]
  BY DEF RecordAttempt, RecordSuccess
<1>3. /\ pc' \in [Writers -> {"idle", "crawl", "begin", "opened", "written"}]
      /\ pc'["gui"] = "begin" /\ pc'["scan"] = pc["scan"]
  BY <1>1, <1>2 DEF TypeOK
<1>4. /\ mem' \in [Writers -> Record] /\ mem'["scan"] = mem["scan"]
      /\ known' \in {"memory", "lost"} /\ done' \in 0 .. MaxTime /\ tried' \in 0 .. MaxTime
      /\ known' = "memory" => mem'["gui"] = Latest'
  <2>1. CASE RecordAttempt("gui")
    BY <1>1, <2>1, RecordedTimes DEF RecordAttempt, TypeOK, Latest
  <2>2. CASE RecordSuccess("gui")
    BY <1>1, <2>2, RecordedTimes DEF RecordSuccess, TypeOK, Latest
  <2>3. QED
    BY <2>1, <2>2
<1>5. TypeOK'
  BY <1>1, <1>3, <1>4 DEF TypeOK
<1>6. Roles'
  BY <1>1, <1>3 DEF Roles, Persisting
<1>7. ASSUME ~shared' PROVE Sole'
  <2>1. Sole
    BY <1>7 DEF DInv
  <2>2. Loadable'
    BY <2>1 DEF Sole, Loadable
  <2>3. ~Persisting("scan") /\ ~Persisting("scan")'
    BY <1>1, <1>3, <2>1 DEF Sole, Persisting
  <2>4. \A x \in Writers : pc'[x] \notin {"opened", "written"}
    BY <1>3, <2>3 DEF Writers, Persisting
  <2>5. QED
    BY <1>1, <1>4, <2>2, <2>3, <2>4 DEF Sole
<1>8. QED
  BY <1>5, <1>6, <1>7 DEF DInv

\* Launches and reaps of the frontend.
LEMMA FrontendStep ==
  ASSUME DInv, UserLaunch \/ DailyLaunch \/ Reap
  PROVE  DInv'
<1>1. TypeOK
  BY DEF DInv
<1>2. CASE UserLaunch
  <2>1. /\ Idle
        /\ ticket' \in {"none", "running", "done", "failed"}
        /\ index' \in {"free", "gui", "worker", "scan"} /\ (index' = "scan" <=> index = "scan")
        /\ workers' \in Nat
        /\ UNCHANGED <<now, file, temp, content, gui, ready, fd, shared, daily, scans>>
    BY <1>1, <1>2 DEF UserLaunch, Launched, TypeOK, clock, disk
  <2>2. CASE ready
    BY <1>1, <1>2, <2>1, <2>2, FrontendRecords DEF UserLaunch, TypeOK
  <2>3. CASE ~ready
    BY <1>1, <1>2, <2>1, <2>3, QuietStep DEF UserLaunch, NoRecord, TypeOK, disk, memory
  <2>4. QED
    BY <2>2, <2>3
<1>3. CASE DailyLaunch
  <2>1. /\ Idle /\ ready /\ RecordAttempt("gui")
        /\ ticket' \in {"none", "running", "done", "failed"}
        /\ index' \in {"free", "gui", "worker", "scan"} /\ (index' = "scan" <=> index = "scan")
        /\ workers' \in Nat /\ daily' \in Nat
        /\ UNCHANGED <<now, file, temp, content, gui, ready, fd, shared, scans>>
    BY <1>1, <1>3 DEF DailyLaunch, Launched, TypeOK, clock, disk
  <2>2. QED
    BY <2>1, FrontendRecords
<1>4. CASE Reap
  <2>1. /\ Idle /\ ticket' = "none"
        /\ index' \in {"free", "gui", "worker", "scan"} /\ (index' = "scan" <=> index = "scan")
        /\ UNCHANGED <<now, file, temp, content, gui, ready, fd, shared, daily, workers, scans>>
    BY <1>1, <1>4 DEF Reap, TypeOK, clock, disk, limits
  <2>2. CASE NoRecord
    BY <1>1, <2>1, <2>2, QuietStep DEF NoRecord, TypeOK, disk, memory
  <2>3. CASE ready /\ (RecordAttempt("gui") \/ RecordSuccess("gui"))
    BY <1>1, <2>1, <2>3, FrontendRecords DEF TypeOK
  <2>4. QED
    BY <1>4, <2>2, <2>3 DEF Reap
<1>5. QED
  BY <1>2, <1>3, <1>4

\* The start of a frontend: nobody has the index, so no scan is under way.
LEMMA GuiStartStep ==
  ASSUME DInv, GuiStart
  PROVE  DInv'
<1>1. TypeOK /\ Roles /\ ~gui /\ index = "free" /\ pc["scan"] = "idle" /\ pc["gui"] = "idle"
  <2>1. TypeOK /\ Roles /\ ~gui /\ index = "free"
    BY DEF DInv, GuiStart
  <2>2. QED
    BY <2>1 DEF Roles, Persisting, TypeOK, Writers
<1>2. /\ gui' = TRUE /\ index' = "gui" /\ mem' = [mem EXCEPT !["gui"] = Loaded]
      /\ ready' = Loadable
      /\ UNCHANGED <<now, file, temp, content, ticket, fd, pc, done, tried, known, shared, daily, workers, scans>>
  BY DEF GuiStart, clock, disk, history, limits
<1>3. mem' \in [Writers -> Record] /\ mem'["gui"] = Loaded
  BY <1>1, <1>2, LoadedRecord DEF TypeOK, Writers
<1>4. ready' \in BOOLEAN
  BY <1>2 DEF Loadable
<1>5. TypeOK'
  BY <1>1, <1>2, <1>3, <1>4 DEF TypeOK
<1>6. Roles'
  BY <1>1, <1>2 DEF Roles, Persisting
<1>7. ASSUME ~shared' PROVE Sole'
  <2>1. Sole
    BY <1>2, <1>7 DEF DInv
  <2>2. Loadable' /\ Loaded' = Loaded /\ Latest' = Latest
    BY <1>2, <2>1, FileKept DEF Sole, Latest
  <2>3. \A x \in Writers : pc'[x] = "idle" /\ ~Persisting(x)'
    BY <1>1, <1>2 DEF Writers, Persisting
  <2>4. known' # "memory"
    BY <1>1, <1>2, <2>1 DEF Sole, Persisting
  <2>5. known' = "file" => mem'["gui"] = Latest
    BY <1>2, <1>3, <2>1 DEF Sole
  <2>6. QED
    BY <1>2, <2>1, <2>2, <2>3, <2>4, <2>5 DEF Sole, Writers
<1>8. QED
  BY <1>5, <1>6, <1>7 DEF DInv

\* The end of a frontend, in the middle of its persist too.
LEMMA GuiEndsStep ==
  ASSUME DInv, GuiEnds
  PROVE  DInv'
<1>1. TypeOK /\ Roles /\ gui /\ "gui" \in Writers /\ Never \in Record
  BY DEF DInv, GuiEnds, Writers, Never, Record
<1>2. /\ gui' = FALSE /\ ready' = FALSE /\ ticket' = "none"
      /\ index' = (IF index = "gui" THEN "free" ELSE index)
      /\ known' = (IF known = "memory" THEN "lost" ELSE known)
      /\ UNCHANGED <<now, file, temp, content, done, tried, shared, daily, workers, scans>>
  BY DEF GuiEnds, clock, disk, limits
<1>3. /\ pc' \in [Writers -> {"idle", "crawl", "begin", "opened", "written"}]
      /\ fd' \in [Writers -> Inodes \cup {NoInode}] /\ mem' \in [Writers -> Record]
      /\ pc'["gui"] = "idle" /\ pc'["scan"] = pc["scan"]
  BY <1>1 DEF GuiEnds, TypeOK, Writers
<1>4. TypeOK'
  BY <1>1, <1>2, <1>3 DEF TypeOK
<1>5. Roles'
  BY <1>1, <1>2, <1>3 DEF Roles, Persisting
<1>6. ASSUME ~shared' PROVE Sole'
  <2>1. Sole
    BY <1>2, <1>6 DEF DInv
  <2>2. Loadable' /\ Loaded' = Loaded /\ Latest' = Latest
    BY <1>2, <2>1, FileKept DEF Sole, Latest
  <2>3. \A x \in Writers : pc'[x] \notin {"begin", "opened", "written"} /\ ~Persisting(x)'
    BY <1>1, <1>3, <2>1 DEF Sole, Writers, Persisting
  <2>4. known' # "memory" /\ (known' = "file" => known = "file")
    BY <1>2
  <2>5. QED
    BY <1>2, <2>1, <2>2, <2>3, <2>4 DEF Sole
<1>7. QED
  BY <1>4, <1>5, <1>6 DEF DInv

\* A scan takes the index.
LEMMA ScanStartStep ==
  ASSUME DInv, ScanStart
  PROVE  DInv'
<1>1. TypeOK /\ Roles /\ pc["scan"] = "idle" /\ "scan" \in Writers /\ "gui" \in Writers
  BY DEF DInv, ScanStart, Writers
<1>2. /\ index' = "scan" /\ scans' = scans + 1
      /\ UNCHANGED <<now, file, temp, content, gui, ready, ticket, mem, fd, done, tried, known, shared, daily, workers>>
  BY DEF ScanStart, clock, disk, front, memory, history
<1>3. /\ pc' \in [Writers -> {"idle", "crawl", "begin", "opened", "written"}]
      /\ pc'["scan"] = "crawl" /\ pc'["gui"] = pc["gui"]
  BY <1>1 DEF ScanStart, TypeOK
<1>4. TypeOK'
  BY <1>1, <1>2, <1>3 DEF TypeOK
<1>5. Roles'
  BY <1>1, <1>2, <1>3 DEF Roles, Persisting
<1>6. ASSUME ~shared' PROVE Sole'
  <2>1. Sole
    BY <1>2, <1>6 DEF DInv
  <2>2. Loadable' /\ Loaded' = Loaded /\ Latest' = Latest
    BY <1>2, <2>1, FileKept DEF Sole, Latest
  <2>3. ~Persisting("scan") /\ ~Persisting("scan")' /\ Persisting("gui")' = Persisting("gui")
    BY <1>1, <1>3 DEF Persisting
  <2>4. \A x \in Writers : pc'[x] \in {"opened", "written"} => pc'[x] = pc[x]
    BY <1>3 DEF Writers
  <2>5. QED
    BY <1>2, <2>1, <2>2, <2>3, <2>4 DEF Sole, Writers
<1>7. QED
  BY <1>4, <1>5, <1>6 DEF DInv

\* A scan records its success: alone, unless a frontend is running.
LEMMA ScanRecordsStep ==
  ASSUME DInv, ScanRecords
  PROVE  DInv'
<1>1. TypeOK /\ Roles /\ pc["scan"] = "crawl" /\ "scan" \in Writers /\ "gui" \in Writers
  BY DEF DInv, ScanRecords, Writers
<1>2. UNCHANGED <<now, file, temp, content, gui, ready, ticket, daily, workers, scans>>
  BY DEF ScanRecords, clock, disk, front, limits
<1>3. CASE Loadable
  <2>1. /\ mem' = [mem EXCEPT !["scan"] = [success |-> now, attempt |-> now]]
        /\ tried' = now /\ done' = now /\ known' = "memory"
        /\ pc' = [pc EXCEPT !["scan"] = "begin"]
        /\ shared' = (shared \/ gui) /\ UNCHANGED <<index, fd>>
    BY <1>3 DEF ScanRecords, RecordSuccess
  <2>2. /\ pc' \in [Writers -> {"idle", "crawl", "begin", "opened", "written"}]
        /\ pc'["scan"] = "begin" /\ pc'["gui"] = pc["gui"]
    BY <1>1, <2>1 DEF TypeOK
  <2>3. mem' \in [Writers -> Record] /\ mem'["scan"] = Latest' /\ now \in 0 .. MaxTime
    BY <1>1, <2>1, RecordedTimes DEF TypeOK, Latest
  <2>4. shared' \in BOOLEAN
    BY <2>1
  <2>5. TypeOK'
    BY <1>1, <1>2, <2>1, <2>2, <2>3, <2>4 DEF TypeOK
  <2>6. Roles'
    BY <1>1, <1>2, <2>1, <2>2 DEF Roles, Persisting
  <2>7. ASSUME ~shared' PROVE Sole'
    <3>1. Sole /\ ~gui /\ ~gui'
      BY <1>2, <2>1, <2>7 DEF DInv
    <3>2. Loadable'
      BY <1>2, <3>1 DEF Sole, Loadable
    <3>3. \A x \in Writers : pc'[x] \notin {"opened", "written"}
      BY <1>1, <2>2, <3>1 DEF Roles, Persisting, Writers
    <3>4. Persisting("scan")'
      BY <2>2 DEF Persisting
    <3>5. QED
      BY <2>1, <2>3, <3>1, <3>2, <3>3, <3>4 DEF Sole
  <2>8. QED
    BY <2>5, <2>6, <2>7 DEF DInv
<1>4. CASE ~Loadable
  <2>1. Finish("scan") /\ UNCHANGED <<done, tried, known, shared>>
    BY <1>4 DEF ScanRecords
  <2>2. TypeOK'
    BY <1>1, <1>2, <2>1, FinishFacts DEF TypeOK
  <2>3. Roles'
    BY <1>1, <1>2, <2>1, FinishFacts DEF Roles, Persisting, Writers
  <2>4. shared'
    BY <1>4, <2>1 DEF DInv, Sole
  <2>5. QED
    BY <2>2, <2>3, <2>4 DEF DInv
<1>5. QED
  BY <1>3, <1>4

\* The end of a scan, in the middle of its persist too.
LEMMA ScanEndsStep ==
  ASSUME DInv, ScanEnds
  PROVE  DInv'
<1>1. TypeOK /\ Roles /\ pc["scan"] # "idle" /\ Finish("scan") /\ "scan" \in Writers /\ "gui" \in Writers
  BY DEF DInv, ScanEnds, Writers
<1>2. UNCHANGED <<now, file, temp, content, gui, ready, ticket, done, tried, shared, daily, workers, scans>>
  BY DEF ScanEnds, clock, disk, front, limits
<1>3. CASE Persisting("scan")
  BY <1>1, <1>2, <1>3, CutShort DEF ScanEnds
<1>4. CASE ~Persisting("scan")
  <2>1. known' = known
    BY <1>4 DEF ScanEnds
  <2>2. TypeOK'
    BY <1>1, <1>2, <2>1, FinishFacts DEF TypeOK
  <2>3. Roles'
    BY <1>1, <1>2, FinishFacts DEF Roles, Persisting, Writers
  <2>4. ASSUME ~shared' PROVE Sole'
    <3>1. Sole
      BY <1>2, <2>4 DEF DInv
    <3>2. Loadable' /\ Loaded' = Loaded /\ Latest' = Latest
      BY <1>2, <3>1, FileKept DEF Sole, Latest
    <3>3. /\ pc'["scan"] = "idle" /\ pc'["gui"] = pc["gui"]
          /\ fd'["gui"] = fd["gui"] /\ mem'["gui"] = mem["gui"]
      BY <1>1, FinishFacts DEF Writers
    <3>4. ~Persisting("scan")' /\ Persisting("gui")' = Persisting("gui")
      BY <3>3 DEF Persisting
    <3>5. QED
      BY <1>2, <1>4, <2>1, <3>1, <3>2, <3>3, <3>4 DEF Sole, Writers
  <2>5. QED
    BY <2>2, <2>3, <2>4 DEF DInv
<1>5. QED
  BY <1>3, <1>4

\* A persist that fails, the end of a worker, and the clock.
LEMMA OtherStep ==
  ASSUME DInv, (\E w \in Writers : PersistFails(w)) \/ WorkerEnds \/ ClockMoves
  PROVE  DInv'
<1>1. TypeOK
  BY DEF DInv
<1>2. ASSUME NEW w \in Writers, PersistFails(w) PROVE DInv'
  <2>1. /\ Persisting(w) /\ Forgotten(w) /\ Finish(w)
        /\ UNCHANGED <<now, file, temp, content, gui, ready, ticket, done, tried, shared, daily, workers, scans>>
    BY <1>2 DEF PersistFails, clock, disk, front, limits
  <2>2. QED
    BY <2>1, CutShort
<1>3. CASE WorkerEnds
  BY <1>1, <1>3, QuietStep DEF WorkerEnds, TypeOK, clock, history, limits
<1>4. CASE ClockMoves
  BY <1>1, <1>4, QuietStep DEF ClockMoves, TypeOK, front, history, limits
<1>5. QED
  BY <1>2, <1>3, <1>4

-----------------------------------------------------------------------------
(* Theorems.                                                               *)

\* The invariant of the schedule, its file and the two processes that write it.
THEOREM RefreshInvariant == Spec => []DInv
<1>1. Init => DInv
  <2> SUFFICES ASSUME Init PROVE DInv
    OBVIOUS
  <2>1. Never \in Record /\ \A w \in Writers : pc[w] = "idle" /\ mem[w] = Never
    BY DEF Init, Never, Record
  <2>2. TypeOK
    <3>1. gui \in BOOLEAN /\ ready \in BOOLEAN /\ shared \in BOOLEAN
      BY DEF Init
    <3>2. /\ now \in Times /\ file = NoInode /\ temp = NoInode
          /\ content \in [Inodes -> SUBSET Record]
          /\ ticket = "none" /\ index = "free" /\ known = "file"
      BY DEF Init
    <3>3. /\ mem \in [Writers -> Record]
          /\ pc \in [Writers -> {"idle", "crawl", "begin", "opened", "written"}]
          /\ fd \in [Writers -> Inodes \cup {NoInode}]
      BY <2>1 DEF Init
    <3>4. /\ done \in 0 .. MaxTime /\ tried \in 0 .. MaxTime
          /\ daily \in Nat /\ workers \in Nat /\ scans \in Nat
      BY DEF Init
    <3>5. QED
      BY <3>1, <3>2, <3>3, <3>4 DEF TypeOK
  <2>3. Roles
    BY <2>1 DEF Init, Roles, Persisting, Writers
  <2>4. Loadable /\ Loaded = Latest
    BY DEF Init, Loadable, Loaded, Latest, Never
  <2>5. Sole
    BY <2>1, <2>4 DEF Init, Sole, Persisting, Writers
  <2>6. QED
    BY <2>2, <2>3, <2>5 DEF DInv
<1>2. DInv /\ [Next]_vars => DInv'
  <2> SUFFICES ASSUME DInv, [Next]_vars PROVE DInv'
    OBVIOUS
  <2>1. CASE Next
    BY <2>1, OpenStep, WriteStep, PublishStep, FrontendStep, GuiStartStep, GuiEndsStep,
       ScanStartStep, ScanRecordsStep, ScanEndsStep, OtherStep DEF Next
  <2>2. CASE UNCHANGED vars
    <3>1. TypeOK /\ UNCHANGED <<disk, memory, now, gui, ready, ticket, index, pc, done, tried, known, shared, daily, workers, scans>>
      BY <2>2 DEF DInv, vars, clock, front, history, limits
    <3>2. QED
      BY <3>1, QuietStep DEF TypeOK
  <2>3. QED
    BY <2>1, <2>2
<1>3. QED
  BY <1>1, <1>2, PTL DEF Spec

\* Type correctness, and one name for each inode.
THEOREM RefreshTypeCorrect == Spec => []TypeOK
<1>1. DInv => TypeOK
  BY DEF DInv
<1>2. QED
  BY <1>1, RefreshInvariant, PTL

\* Replacement by rename: kills and failing writes never leave half a record.
THEOREM FileAlwaysComplete == Spec => []PublishedComplete
<1>1. DInv => PublishedComplete
  BY DEF DInv, Sole, PublishedComplete
<1>2. QED
  BY <1>1, RefreshInvariant, PTL

\* No refresh a day or an attempt an hour too early, over any number of restarts.
THEOREM ScheduleIsKept == Spec => ScheduleKept
<1>1. DInv /\ [Next]_vars => [(daily' # daily /\ known # "lost" /\ ~shared) => DailyKept]_vars
  <2> SUFFICES ASSUME DInv, Next, daily' # daily, known # "lost", ~shared PROVE DailyKept
    OBVIOUS
  <2>1. TypeOK /\ Sole /\ Roles
    BY DEF DInv
  <2>2. DailyLaunch
    BY DEF Next, OpenTemp, WriteTemp, Publish, PersistFails, GuiStart, UserLaunch, WorkerEnds, Reap,
       GuiEnds, ScanStart, ScanRecords, ScanEnds, ClockMoves, history
  <2>3. gui /\ ready /\ Due(mem["gui"], now)
    BY <2>2 DEF DailyLaunch, Idle
  <2>4. mem["gui"] = Latest
    BY <2>1, <2>3 DEF Sole, TypeOK
  <2>5. Due(Latest, now)
    BY <2>3, <2>4
  <2>6. now \in Nat /\ done \in Nat /\ tried \in Nat
    BY <2>1 DEF TypeOK, Times
  <2>7. QED
    BY <2>5, <2>6 DEF Due, Latest, DailyKept
<1>2. QED
  BY <1>1, RefreshInvariant, PTL DEF Spec, ScheduleKept
=============================================================================
