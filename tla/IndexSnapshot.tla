---------------------------- MODULE IndexSnapshot ----------------------------
(***************************************************************************)
(* Export and import of the index as an archive                            *)
(* (src/runtime/IndexSnapshot.cpp and the snapshot command of CliApp.cpp), *)
(* one action per step on the file system, next to a process that has the  *)
(* index loaded.  Import stages a directory, moves the state directory     *)
(* aside, renames the staged one into its place and removes the old one.   *)
(* Every step may fail, and a process may be killed between any two.       *)
(* Three faults go unnoticed: a write that fails when the staged file is   *)
(* closed, an entry's name, which no checksum covers, and a walk of the    *)
(* state directory that ends early.                                        *)
(*                                                                         *)
(* A file of the index is its version, 0 when it is missing or garbage.    *)
(***************************************************************************)
EXTENDS Naturals, FiniteSets

CONSTANTS
  Files,         \* the files of an index
  Dirs, NoDir,   \* directories, whatever their names
  NoArchive,     \* there is no archive
  Importers,     \* `such snapshot import` processes
  Stored,        \* the version of the index in the archive there is at first
  MaxVersion,    \* bound: versions
  MaxStarted     \* bound: imports and exports that are started in all

ASSUME SnapshotAssumption ==
  /\ NoDir \notin Dirs
  /\ MaxVersion \in Nat /\ Stored \in 1 .. MaxVersion /\ MaxStarted \in Nat

Versions == 0 .. MaxVersion
Index(v) == [f \in Files |-> v]

\* An entry of an archive: the payload and the checksum, of what version, and
\* whether it goes by the name of its file, by another, or is not there at all.
Entry == [payload : Versions, crc : Versions, name : {"own", "other", "none"}]
Archive == [Files -> Entry]
Packed(v) == [f \in Files |-> [payload |-> v, crc |-> v, name |-> "own"]]
Empty == [f \in Files |-> [payload |-> 0, crc |-> 0, name |-> "none"]]

Entries(a) == {f \in Files : a[f].name # "none"}

\* No entry is missing, and garbage has the checksum of something else.
Complete(a) == \A f \in Files : a[f].name # "none" /\ (a[f].payload # 0 \/ a[f].crc # 0)

VARIABLES
  state,    \* the directory called index_state_directory
  temp,     \* each importer's temp_dir
  backup,   \* each importer's backup_dir
  files,    \* of each directory: the version of each file
  unsound,  \* history: the directories staged with a fault nobody looks for
  archive,  \* the archive, or NoArchive
  pc,       \* each importer's next step
  source,   \* the archive each importer has opened
  todo,     \* its entries still to read
  had,      \* had_previous
  status,   \* "none", "ok", "failed", "stranded" (not rolled back), "killed"
  xpc,      \* the exporter's next step
  left,     \* the files its walk has listed, and which it has yet to copy
  seen,     \* what they held when it took their sizes
  open,     \* the one it has summed, and not copied yet
  out,      \* what it has written
  xstatus,  \* "none", "ok", "failed" or "unpublished"
  loaded,   \* the directory another process has the index loaded from
  raced     \* history: the index was changed while the exporter read it

importer == <<pc, source, todo, had, status>>
copied == <<xpc, left, seen, open, out, xstatus>>
exporter == <<copied, raced>>
names == <<state, temp, backup>>
content == <<files, unsound>>
vars == <<names, content, archive, importer, exporter, loaded>>

\* An entry of the archive there is at first may have lost its payload, its name,
\* or be missing.
Damaged == {[payload |-> 0, crc |-> Stored, name |-> "own"],
            [payload |-> Stored, crc |-> Stored, name |-> "other"],
            [payload |-> 0, crc |-> 0, name |-> "none"]}

Init ==
  /\ \E d \in Dirs :
       \/ state = NoDir /\ files = [e \in Dirs |-> Index(0)]
       \/ state = d /\ files = [e \in Dirs |-> Index(IF e = d THEN 1 ELSE 0)]
  /\ temp = [p \in Importers |-> NoDir] /\ backup = [p \in Importers |-> NoDir]
  /\ unsound = {}
  /\ archive \in {NoArchive, Packed(Stored)}
       \cup {[Packed(Stored) EXCEPT ![f] = e] : f \in Files, e \in Damaged}
  /\ pc = [p \in Importers |-> "start"] /\ source = [p \in Importers |-> Empty]
  /\ todo = [p \in Importers |-> {}]
  /\ had = [p \in Importers |-> FALSE] /\ status = [p \in Importers |-> "none"]
  /\ xpc = "start" /\ left = {} /\ seen = Index(0) /\ open = {} /\ out = Empty
  /\ xstatus = "none" /\ raced = FALSE
  /\ loaded = NoDir

Named == {state} \cup {temp[p] : p \in Importers} \cup {backup[p] : p \in Importers}
Unused == Dirs \ (Named \cup {loaded})
Started == Cardinality({p \in Importers : pc[p] # "start"})
             + (IF xpc = "start" THEN 0 ELSE 1)
Copying == xpc \in {"collect", "copy"}

-----------------------------------------------------------------------------
(* import_index_snapshot.                                                  *)

Goto(p, step) == pc' = [pc EXCEPT ![p] = step]

\* remove_all.
Removed(d) == files' = [files EXCEPT ![d] = Index(0)] /\ unsound' = unsound \ {d}

Return(p, s) ==
  /\ Goto(p, "returned")
  /\ status' = [status EXCEPT ![p] = s]
  /\ source' = [source EXCEPT ![p] = Empty] /\ todo' = [todo EXCEPT ![p] = {}]
  /\ UNCHANGED had

\* A failure of import_index_snapshot: what it had staged is removed.
Fail(p, s) ==
  /\ Return(p, s)
  /\ temp' = [temp EXCEPT ![p] = NoDir]
  /\ IF temp[p] # NoDir THEN Removed(temp[p]) ELSE UNCHANGED content

\* Every recorded root exists, and an empty staging directory can be made.
OpenArchive(p) ==
  /\ pc[p] = "start" /\ archive # NoArchive /\ Started < MaxStarted
  /\ \E d \in Unused :
       /\ temp' = [temp EXCEPT ![p] = d]
       /\ files' = [files EXCEPT ![d] = Index(0)]
       /\ unsound' = IF Complete(archive) THEN unsound \ {d} ELSE unsound \cup {d}
  /\ Goto(p, "stage") /\ source' = [source EXCEPT ![p] = archive]
  /\ todo' = [todo EXCEPT ![p] = Entries(archive)]
  /\ UNCHANGED <<state, backup, archive, had, status, exporter, loaded>>

\* The entry is written under the name it has.  How close() ends is not looked
\* at, so the file may be cut; and an entry with another name may fall on another
\* file, which is then not that file, or on none.
Staged(p, f) ==
  \/ /\ source[p][f].name = "own"
     /\ files' = [files EXCEPT ![temp[p]][f] = source[p][f].payload]
     /\ UNCHANGED unsound
  \/ /\ \E g \in IF source[p][f].name = "own" THEN {f} ELSE Files :
          files' = [files EXCEPT ![temp[p]][g] = 0]
     /\ unsound' = unsound \cup {temp[p]}

\* Mutated form: the checksum is not compared.
StageFileUnchecked(p) ==
  /\ pc[p] = "stage"
  /\ \E f \in todo[p] : Staged(p, f) /\ todo' = [todo EXCEPT ![p] = @ \ {f}]
  /\ UNCHANGED <<names, archive, pc, source, had, status, exporter, loaded>>

\* An entry is written out, and the checksum compared is that of what was read.
StageFile(p) ==
  /\ pc[p] = "stage"
  /\ \E f \in todo[p] :
       /\ source[p][f].crc = source[p][f].payload
       /\ Staged(p, f) /\ todo' = [todo EXCEPT ![p] = @ \ {f}]
  /\ UNCHANGED <<names, archive, pc, source, had, status, exporter, loaded>>

\* The archive ends after its last entry: exists(state_directory).
CheckPrevious(p) ==
  /\ pc[p] = "stage" /\ todo[p] = {}
  /\ had' = [had EXCEPT ![p] = state # NoDir]
  /\ Goto(p, IF state # NoDir THEN "aside" ELSE "activate")
  /\ UNCHANGED <<names, content, archive, source, todo, status, exporter, loaded>>

\* No archive, a root that does not exist, a checksum that differs, trailing
\* bytes, or a step that fails before the state directory is touched.
ImportFails(p) ==
  /\ pc[p] \in {"start", "stage", "aside"}
  /\ Fail(p, "failed")
  /\ UNCHANGED <<state, backup, archive, exporter, loaded>>

MoveAside(p) ==
  /\ pc[p] = "aside" /\ state # NoDir
  /\ state' = NoDir /\ backup' = [backup EXCEPT ![p] = state]
  /\ Goto(p, "activate") /\ raced' = (raced \/ Copying)
  /\ UNCHANGED <<temp, content, archive, source, todo, had, status, copied, loaded>>

\* What rename puts a directory in the place of: nothing, or, on some systems, a
\* directory without files.
Vacant == state # NoDir => \A f \in Files : files[state][f] = 0

\* Mutated form: a copy, with the staged directory left in place.
ActivateCopy(p) ==
  /\ pc[p] = "activate" /\ Vacant
  /\ state' = temp[p] /\ UNCHANGED temp
  /\ Goto(p, "clean") /\ raced' = (raced \/ Copying)
  /\ UNCHANGED <<backup, content, archive, source, todo, had, status, copied, loaded>>

\* rename(temp_dir, state_directory).
Activate(p) ==
  /\ pc[p] = "activate" /\ Vacant
  /\ state' = temp[p] /\ temp' = [temp EXCEPT ![p] = NoDir]
  /\ Goto(p, "clean") /\ raced' = (raced \/ Copying)
  /\ UNCHANGED <<backup, content, archive, source, todo, had, status, copied, loaded>>

\* Mutated form: what was moved aside is not moved back.
ActivateFailsForgets(p) ==
  /\ pc[p] = "activate"
  /\ Fail(p, "failed")
  /\ UNCHANGED <<state, backup, archive, exporter, loaded>>

\* It fails, or finds a directory there; the backup is moved back, unless that
\* fails too.
ActivateFails(p) ==
  /\ pc[p] = "activate"
  /\ \/ /\ had[p] /\ Vacant
        /\ state' = backup[p] /\ backup' = [backup EXCEPT ![p] = NoDir]
        /\ Fail(p, "failed") /\ raced' = (raced \/ Copying)
     \/ /\ Fail(p, IF had[p] THEN "stranded" ELSE "failed")
        /\ UNCHANGED <<state, backup, raced>>
  /\ UNCHANGED <<archive, copied, loaded>>

\* Mutated form: the backup is removed before the new index is in its place.
RemoveBackupEarly(p) ==
  /\ pc[p] \in {"activate", "clean"}
  /\ backup' = [backup EXCEPT ![p] = NoDir]
  /\ IF backup[p] # NoDir THEN Removed(backup[p]) ELSE UNCHANGED content
  /\ IF pc[p] = "clean" THEN Return(p, "ok") ELSE UNCHANGED importer
  /\ UNCHANGED <<state, temp, archive, exporter, loaded>>

\* remove_all(backup_dir); when it fails, and leaves part of it, nobody looks.
RemoveBackup(p) ==
  /\ pc[p] = "clean"
  /\ \/ backup' = [backup EXCEPT ![p] = NoDir]
     \/ UNCHANGED backup
  /\ IF backup[p] # NoDir THEN Removed(backup[p]) ELSE UNCHANGED content
  /\ Return(p, "ok")
  /\ UNCHANGED <<state, temp, archive, exporter, loaded>>

\* Killed: what it has staged or moved aside stays where it is.
KillImporter(p) ==
  /\ pc[p] # "returned"
  /\ Return(p, "killed")
  /\ UNCHANGED <<names, content, archive, exporter, loaded>>

-----------------------------------------------------------------------------
(* snapshot export.                                                        *)

\* RuntimeClient::load: the index there is, or an empty one.
Load ==
  \/ state # NoDir /\ UNCHANGED <<state, content>>
  \/ /\ state = NoDir
     /\ \E d \in Unused :
          /\ state' = d /\ files' = [files EXCEPT ![d] = Index(1)]
          /\ unsound' = unsound \ {d}

ExportReturns(s) ==
  /\ xpc' = "returned" /\ xstatus' = s
  /\ left' = {} /\ seen' = Index(0) /\ open' = {} /\ out' = Empty

\* Mutated form: the index may be loaded by somebody else.
ExportStartsBusy ==
  /\ xpc = "start" /\ Started < MaxStarted /\ Load
  /\ xpc' = "collect"
  /\ UNCHANGED <<temp, backup, archive, importer, left, seen, open, out, xstatus, raced, loaded>>

\* The runtime is loaded, idle, asked for its roots, and released again.
ExportStarts ==
  /\ xpc = "start" /\ loaded = NoDir /\ Started < MaxStarted /\ Load
  /\ xpc' = "collect"
  /\ UNCHANGED <<temp, backup, archive, importer, left, seen, open, out, xstatus, raced, loaded>>

\* The walk takes the size of each regular file it comes to.  Directories it may
\* not read are skipped; and when the walk cannot go on it becomes the end of the
\* walk, before its error is looked at: what it lists is any part of the index.
CollectEntries ==
  /\ xpc = "collect" /\ state # NoDir
  /\ left' \in SUBSET Files /\ seen' = files[state]
  /\ xpc' = "copy"
  /\ UNCHANGED <<names, content, archive, importer, open, out, xstatus, raced, loaded>>

\* The checksum pass over a file, which ends where it cannot be read.
SumFile ==
  /\ xpc = "copy" /\ open = {} /\ state # NoDir
  /\ \E f \in left :
       /\ open' = {f}
       /\ \E c \in {0, files[state][f]} :
            out' = [out EXCEPT ![f] = [payload |-> files[state][f], crc |-> c, name |-> "own"]]
  /\ UNCHANGED <<names, content, archive, importer, xpc, left, seen, xstatus, raced, loaded>>

\* The payload pass, from the start: what the same inode holds, or what the file
\* holds by then, as much of it as the size says.  A file that has become shorter
\* is noticed.
CopyFile ==
  /\ xpc = "copy"
  /\ \E f \in open :
       /\ \E v \in {out[f].payload} \cup (IF state # NoDir THEN {files[state][f]} ELSE {}) :
            out' \in {[out EXCEPT ![f].payload = w] : w \in IF v = seen[f] THEN {v} ELSE {v, 0}}
       /\ left' = left \ {f} /\ open' = {}
  /\ UNCHANGED <<names, content, archive, importer, xpc, seen, xstatus, raced, loaded>>

\* The temporary file is flushed and closed, and that is looked at.
FinishCopy ==
  /\ xpc = "copy" /\ left = {}
  /\ xpc' = "replace" /\ seen' = Index(0)
  /\ UNCHANGED <<names, content, archive, importer, left, open, out, xstatus, raced, loaded>>

\* The old archive is removed; whether that worked is not looked at.
RemoveArchive ==
  /\ xpc = "replace" /\ xpc' = "publish"
  /\ archive' \in {archive, NoArchive}
  /\ UNCHANGED <<names, content, importer, left, seen, open, out, xstatus, raced, loaded>>

Publish ==
  /\ xpc = "publish"
  /\ archive' = out /\ ExportReturns("ok")
  /\ UNCHANGED <<names, content, importer, raced, loaded>>

\* Any step fails, or the process is killed: the temporary file is removed, or
\* left.
ExportEnds ==
  /\ xpc # "returned"
  /\ ExportReturns(IF xpc = "publish" THEN "unpublished" ELSE "failed")
  /\ UNCHANGED <<names, content, archive, importer, raced, loaded>>

-----------------------------------------------------------------------------
(* Another process: it loads the index, changes it file by file, and      *)
(* releases it.                                                            *)

LoadIndex ==
  /\ loaded = NoDir
  /\ Load /\ loaded' = state'
  /\ UNCHANGED <<temp, backup, archive, importer, exporter>>

\* The files there are, are of one version.
Even(d) == \A f, g \in Files : files[d][f] # 0 /\ files[d][g] # 0 => files[d][f] = files[d][g]

\* A file is not changed again before all have come to the same version.
ChangeFile ==
  /\ loaded # NoDir
  /\ \E f \in Files :
       /\ files[loaded][f] \in 1 .. (MaxVersion - 1)
       /\ \A g \in Files : files[loaded][g] = 0 \/ files[loaded][f] <= files[loaded][g]
       /\ files' = [files EXCEPT ![loaded][f] = @ + 1]
  /\ raced' = (raced \/ Copying)
  /\ UNCHANGED <<names, unsound, archive, importer, copied, loaded>>

ReleaseIndex ==
  /\ loaded # NoDir /\ Even(loaded)
  /\ loaded' = NoDir
  /\ UNCHANGED <<names, content, archive, importer, exporter>>

Next ==
  \/ \E p \in Importers :
       \/ OpenArchive(p) \/ StageFile(p) \/ CheckPrevious(p) \/ ImportFails(p)
       \/ MoveAside(p) \/ Activate(p) \/ ActivateFails(p) \/ RemoveBackup(p)
       \/ KillImporter(p)
  \/ ExportStarts \/ CollectEntries \/ SumFile \/ CopyFile \/ FinishCopy
  \/ RemoveArchive \/ Publish \/ ExportEnds
  \/ LoadIndex \/ ChangeFile \/ ReleaseIndex

Spec == Init /\ [][Next]_vars

-----------------------------------------------------------------------------
(* Properties.                                                             *)

\* What may pass for an index: every file is there, or the directory was staged
\* with a fault nobody looks for.
Sound(d) == d # NoDir /\ (d \in unsound \/ \A f \in Files : files[d][f] # 0)

\* A directory has one name.
OneName ==
  \A p, q \in Importers :
    /\ state # NoDir => state \notin {temp[p], backup[p]}
    /\ temp[p] # NoDir => temp[p] # backup[q] /\ (p # q => temp[p] # temp[q])
    /\ backup[p] # NoDir /\ p # q => backup[p] # backup[q]

\* Types, and a rename leaves no second name behind.
TypeOK ==
  /\ OneName
  /\ state \in Dirs \cup {NoDir} /\ loaded \in Dirs \cup {NoDir}
  /\ temp \in [Importers -> Dirs \cup {NoDir}]
  /\ backup \in [Importers -> Dirs \cup {NoDir}]
  /\ files \in [Dirs -> [Files -> Versions]] /\ unsound \subseteq Dirs
  /\ archive \in Archive \cup {NoArchive} /\ source \in [Importers -> Archive]
  /\ pc \in [Importers -> {"start", "stage", "aside", "activate", "clean", "returned"}]
  /\ todo \in [Importers -> SUBSET Files] /\ had \in [Importers -> BOOLEAN]
  /\ status \in [Importers -> {"none", "ok", "failed", "stranded", "killed"}]
  /\ xpc \in {"start", "collect", "copy", "replace", "publish", "returned"}
  /\ left \subseteq Files /\ open \subseteq Files /\ seen \in [Files -> Versions]
  /\ out \in Archive
  /\ xstatus \in {"none", "ok", "failed", "unpublished"} /\ raced \in BOOLEAN

\* tests/index_snapshot.cpp: corruption must be rejected before state replacement.
\* Whatever payload is damaged, whatever step fails or is killed, and whoever
\* imports at the same time, the state directory has every file or is not there:
\* except that it may have been staged from an archive that lacks an entry or
\* has one under another name, or with a file that was cut when it was closed.
StateIsSound == state # NoDir => Sound(state)

\* A backup is removed only after another directory that passed every check there
\* is has taken its place: from the last whole index no step leads to none, but
\* for the faults that import does not look for.
IndexNeverLost ==
  [][(\E d \in {state} \cup {backup[p] : p \in Importers} : Sound(d)) =>
     \E d \in {state'} \cup {backup'[p] : p \in Importers} :
        d # NoDir /\ (d \in unsound' \/ \A f \in Files : files'[d][f] # 0)]_vars

\* An import that fails has left an index in place if there was one, unless it
\* could not be moved back either, which nobody is told, or somebody was killed.
FailureKeepsIndex ==
  ((\A p \in Importers : pc[p] = "returned" /\ status[p] \in {"ok", "failed"})
     /\ \E p \in Importers : had[p])
   => state # NoDir

\* Every payload is of one version or garbage, every checksum that of its payload
\* or of a part of the file.
OneVersion(a) ==
  \E v \in Versions : \A f \in Files :
    a[f].payload \in {0, v} /\ a[f].crc \in {0, a[f].payload}

\* An export that reports success has published entries of one version of the
\* index, each with the checksum of its payload unless a file could not be read to
\* its end, when the index was not changed or replaced while it was read.  It need
\* not have every file.
ArchiveIsOneVersion ==
  (xstatus = "ok" /\ ~raced) => OneVersion(archive)
=============================================================================
