------------------------ MODULE IndexSnapshotProofs ------------------------
(***************************************************************************)
(* For any number of importers and files, of the faults that are looked    *)
(* for: the state directory holds every file of an index or is not there;  *)
(* an index is never lost, and is in place after imports that failed; an   *)
(* export publishes entries of one version of it.                          *)
(***************************************************************************)
EXTENDS IndexSnapshot, TLAPS

\* What an importer has staged, and what it has moved aside.
Staging ==
  \A p \in Importers :
    /\ pc[p] \in {"stage", "aside", "activate"} =>
         /\ temp[p] # NoDir
         /\ temp[p] \notin unsound =>
              Complete(source[p]) /\ \A f \in Files \ todo[p] : files[temp[p]][f] # 0
    /\ pc[p] \in {"aside", "activate"} => todo[p] = {}
    /\ pc[p] = "activate" /\ had[p] => Sound(backup[p])

\* While somebody is about to remove a backup, an index is in place, or moved
\* aside by somebody who is not.
Standby ==
  (\E p \in Importers : pc[p] = "clean") =>
    state # NoDir \/ \E q \in Importers : pc[q] # "clean" /\ Sound(backup[q])

SInv == TypeOK /\ StateIsSound /\ Staging /\ Standby

\* Somewhere there is an index.
Held == \E d \in {state} \cup {backup[p] : p \in Importers} : Sound(d)

Kept == SInv' /\ (Held => Held')

-----------------------------------------------------------------------------
(* Importers.                                                              *)

\* Opening an archive gives the importer an unused directory, without files.
LEMMA OpenStep ==
  ASSUME NEW p \in Importers, SInv, OpenArchive(p)
  PROVE  Kept
<1> USE SnapshotAssumption DEF SInv
<1>1. PICK d \in Unused :
        /\ temp' = [temp EXCEPT ![p] = d]
        /\ files' = [files EXCEPT ![d] = Index(0)]
        /\ unsound' = IF Complete(archive) THEN unsound \ {d} ELSE unsound \cup {d}
  BY DEF OpenArchive
<1>2. /\ d \in Dirs /\ d # NoDir /\ d # state
      /\ \A q \in Importers : d # temp[q] /\ d # backup[q]
  BY <1>1 DEF Unused, Named
<1>3. UNCHANGED <<state, backup, archive, had, status, xpc, left, seen, open, out, xstatus, raced, loaded>>
  BY DEF OpenArchive, exporter, copied
<1>4. /\ pc[p] = "start" /\ archive \in Archive
      /\ pc' = [pc EXCEPT ![p] = "stage"] /\ source' = [source EXCEPT ![p] = archive]
      /\ todo' = [todo EXCEPT ![p] = Entries(archive)]
  BY DEF OpenArchive, Goto, TypeOK
<1>5. OneName'
  BY <1>1, <1>2, <1>3 DEF OneName, TypeOK
<1>6. Index(0) \in [Files -> Versions] /\ Entries(archive) \in SUBSET Files
  BY DEF Index, Versions, Entries
<1>7. TypeOK'
  <2>1. files' \in [Dirs -> [Files -> Versions]] /\ unsound' \subseteq Dirs
    BY <1>1, <1>2, <1>6 DEF TypeOK
  <2>2. todo' \in [Importers -> SUBSET Files]
    BY <1>4, <1>6 DEF TypeOK
  <2> QED BY <1>1, <1>2, <1>3, <1>4, <1>5, <2>1, <2>2 DEF TypeOK
<1>8. \A e \in Dirs : e # d => files'[e] = files[e] /\ (e \in unsound' <=> e \in unsound)
  BY <1>1 DEF TypeOK
<1>9. /\ Sound(state) => Sound(state)'
      /\ \A q \in Importers : Sound(backup[q]) => Sound(backup[q])'
  BY <1>2, <1>3, <1>8 DEF Sound, TypeOK
<1>10. \A q \in Importers : q # p =>
         temp'[q] = temp[q] /\ source'[q] = source[q] /\ todo'[q] = todo[q] /\ pc'[q] = pc[q]
  BY <1>1, <1>4 DEF TypeOK
<1>11. /\ temp'[p] = d /\ source'[p] = archive /\ todo'[p] = Entries(archive) /\ pc'[p] = "stage"
       /\ d \notin unsound' => Complete(archive)
  BY <1>1, <1>2, <1>4 DEF TypeOK
<1>12. Complete(archive) => Files \ Entries(archive) = {}
  BY DEF Complete, Entries
<1>13. Staging'
  BY <1>2, <1>3, <1>8, <1>9, <1>10, <1>11, <1>12 DEF Staging, TypeOK, Complete
<1>14. StateIsSound' /\ (Held => Held') /\ Standby'
  BY <1>3, <1>9, <1>10, <1>11 DEF StateIsSound, Held, Standby
<1> QED BY <1>7, <1>13, <1>14 DEF Kept

\* What is staged goes into the importer's own directory: what is there of the
\* entry unless the directory is marked.
LEMMA StagedFacts ==
  ASSUME NEW p \in Importers, NEW f \in Files, SInv, temp[p] \in Dirs, Staged(p, f)
  PROVE  /\ files' \in [Dirs -> [Files -> Versions]] /\ unsound' \subseteq Dirs
         /\ \A d \in Dirs : d # temp[p] =>
              files'[d] = files[d] /\ (d \in unsound' <=> d \in unsound)
         /\ temp[p] \notin unsound' =>
              /\ temp[p] \notin unsound /\ files'[temp[p]][f] = source[p][f].payload
              /\ \A g \in Files \ {f} : files'[temp[p]][g] = files[temp[p]][g]
<1> USE SnapshotAssumption DEF SInv
<1>1. CASE /\ files' = [files EXCEPT ![temp[p]][f] = source[p][f].payload]
           /\ UNCHANGED unsound
  <2>1. source[p][f].payload \in Versions
    BY DEF TypeOK, Archive, Entry
  <2> QED BY <1>1, <2>1 DEF TypeOK
<1>2. ASSUME NEW g \in Files, files' = [files EXCEPT ![temp[p]][g] = 0],
             unsound' = unsound \cup {temp[p]}
      PROVE  /\ files' \in [Dirs -> [Files -> Versions]] /\ unsound' \subseteq Dirs
             /\ \A d \in Dirs : d # temp[p] =>
                  files'[d] = files[d] /\ (d \in unsound' <=> d \in unsound)
             /\ temp[p] \in unsound'
  <2>1. 0 \in Versions
    BY DEF Versions
  <2> QED BY <1>2, <2>1 DEF TypeOK
<1> QED BY <1>1, <1>2 DEF Staged

LEMMA StageStep ==
  ASSUME NEW p \in Importers, SInv, StageFile(p)
  PROVE  Kept
<1> USE SnapshotAssumption DEF SInv
<1>1. PICK f \in todo[p] :
        /\ source[p][f].crc = source[p][f].payload
        /\ Staged(p, f) /\ todo' = [todo EXCEPT ![p] = @ \ {f}]
  BY DEF StageFile
<1>2. UNCHANGED <<state, temp, backup, archive, pc, source, had, status, xpc, left, seen, open, out,
                  xstatus, raced, loaded>>
  BY DEF StageFile, names, exporter, copied
<1>3. /\ pc[p] = "stage" /\ temp[p] # NoDir /\ temp[p] \in Dirs /\ f \in Files
  BY <1>1 DEF StageFile, Staging, TypeOK
<1>4. /\ files' \in [Dirs -> [Files -> Versions]] /\ unsound' \subseteq Dirs
      /\ \A d \in Dirs : d # temp[p] =>
           files'[d] = files[d] /\ (d \in unsound' <=> d \in unsound)
      /\ temp[p] \notin unsound' =>
           /\ temp[p] \notin unsound /\ files'[temp[p]][f] = source[p][f].payload
           /\ \A g \in Files \ {f} : files'[temp[p]][g] = files[temp[p]][g]
  BY <1>1, <1>3, StagedFacts
<1>5. \A q \in Importers : Sound(backup[q]) => Sound(backup[q])'
  BY <1>2, <1>3, <1>4 DEF Sound, TypeOK, OneName
<1>6. Sound(state) => Sound(state)'
  BY <1>2, <1>3, <1>4 DEF Sound, TypeOK, OneName
<1>7. TypeOK'
  <2>1. todo' \in [Importers -> SUBSET Files]
    BY <1>1 DEF TypeOK
  <2> QED BY <1>2, <1>4, <2>1 DEF TypeOK, OneName
<1>8. StateIsSound' /\ (Held => Held') /\ Standby'
  BY <1>2, <1>5, <1>6 DEF StateIsSound, Held, Standby
<1>9. /\ todo'[p] = todo[p] \ {f}
      /\ \A q \in Importers : q # p => todo'[q] = todo[q] /\ (temp[q] # NoDir =>
           files'[temp[q]] = files[temp[q]] /\ (temp[q] \in unsound' <=> temp[q] \in unsound))
  BY <1>1, <1>3, <1>4 DEF TypeOK, OneName
<1>10. temp[p] \notin unsound' =>
         Complete(source[p]) /\ \A g \in Files \ todo'[p] : files'[temp[p]][g] # 0
  BY <1>1, <1>3, <1>4, <1>9 DEF Staging, TypeOK, Complete
<1>11. Staging'
  BY <1>2, <1>3, <1>5, <1>9, <1>10 DEF Staging, TypeOK, Complete
<1> QED BY <1>7, <1>8, <1>11 DEF Kept

\* Steps that only move an importer on.
LEMMA CheckPreviousStep ==
  ASSUME NEW p \in Importers, SInv, CheckPrevious(p)
  PROVE  Kept
<1> USE SnapshotAssumption DEF SInv
<1>1. UNCHANGED <<state, temp, backup, files, unsound, archive, source, todo, status, xpc, left, seen,
                  open, out, xstatus, raced, loaded>>
  BY DEF CheckPrevious, names, content, exporter, copied
<1>2. /\ pc[p] = "stage" /\ todo[p] = {}
      /\ had' = [had EXCEPT ![p] = state # NoDir]
      /\ pc' = [pc EXCEPT ![p] = IF state # NoDir THEN "aside" ELSE "activate"]
  BY DEF CheckPrevious, Goto
<1>3. had' \in [Importers -> BOOLEAN]
  <2>1. had \in [Importers -> BOOLEAN] /\ (state # NoDir) \in BOOLEAN
    BY Zenon DEF TypeOK
  <2> QED BY <1>2, <2>1, Zenon
<1>4. OneName' /\ TypeOK'
  BY <1>1, <1>2, <1>3 DEF TypeOK, OneName
<1>5. StateIsSound' /\ (Held => Held')
  BY <1>1 DEF StateIsSound, Sound, Held
<1>6. pc'[p] = "activate" => ~had'[p]
  BY <1>2 DEF TypeOK
<1>7. \A q \in Importers : q # p => pc'[q] = pc[q] /\ had'[q] = had[q]
  BY <1>2 DEF TypeOK
<1>8. Staging'
  BY <1>1, <1>2, <1>6, <1>7 DEF Staging, Sound, TypeOK, Complete
<1>9. Standby'
  BY <1>1, <1>2 DEF Standby, Sound, TypeOK
<1> QED BY <1>4, <1>5, <1>8, <1>9 DEF Kept

\* An importer that returns has closed the archive.
LEMMA ReturnFacts ==
  ASSUME NEW p \in Importers, NEW s \in {"ok", "failed", "stranded", "killed"}, SInv, Return(p, s)
  PROVE  /\ pc' = [pc EXCEPT ![p] = "returned"] /\ status' = [status EXCEPT ![p] = s]
         /\ UNCHANGED had
         /\ pc' \in [Importers -> {"start", "stage", "aside", "activate", "clean", "returned"}]
         /\ status' \in [Importers -> {"none", "ok", "failed", "stranded", "killed"}]
         /\ source' \in [Importers -> Archive] /\ todo' \in [Importers -> SUBSET Files]
         /\ pc'[p] = "returned"
         /\ \A q \in Importers : q # p =>
              pc'[q] = pc[q] /\ source'[q] = source[q] /\ todo'[q] = todo[q]
<1> USE DEF SInv
<1>1. /\ pc' = [pc EXCEPT ![p] = "returned"] /\ status' = [status EXCEPT ![p] = s]
      /\ source' = [source EXCEPT ![p] = Empty] /\ todo' = [todo EXCEPT ![p] = {}]
      /\ UNCHANGED had
  BY DEF Return, Goto
<1>2. Empty \in Archive
  BY SnapshotAssumption DEF Empty, Archive, Entry, Versions
<1> QED BY <1>1, <1>2 DEF TypeOK

LEMMA KillStep ==
  ASSUME NEW p \in Importers, SInv, KillImporter(p)
  PROVE  Kept
<1> USE SnapshotAssumption DEF SInv
<1>1. UNCHANGED <<state, temp, backup, files, unsound, archive, had, xpc, left, seen, open, out,
                  xstatus, raced, loaded>>
  BY DEF KillImporter, Return, names, content, exporter, copied
<1>2. Return(p, "killed")
  BY DEF KillImporter
<1>3. /\ pc' \in [Importers -> {"start", "stage", "aside", "activate", "clean", "returned"}]
      /\ status' \in [Importers -> {"none", "ok", "failed", "stranded", "killed"}]
      /\ source' \in [Importers -> Archive] /\ todo' \in [Importers -> SUBSET Files]
      /\ pc'[p] = "returned"
      /\ \A q \in Importers : q # p =>
           pc'[q] = pc[q] /\ source'[q] = source[q] /\ todo'[q] = todo[q]
  BY <1>2, ReturnFacts
<1>4. TypeOK'
  BY <1>1, <1>3 DEF TypeOK, OneName
<1>5. StateIsSound' /\ (Held => Held')
  BY <1>1 DEF StateIsSound, Sound, Held
<1>6. Staging'
  BY <1>1, <1>3 DEF Staging, Sound, TypeOK, Complete
<1>7. Standby'
  BY <1>1, <1>3 DEF Standby, Sound, TypeOK
<1> QED BY <1>4, <1>5, <1>6, <1>7 DEF Kept

\* The state directory becomes a backup.
LEMMA MoveAsideStep ==
  ASSUME NEW p \in Importers, SInv, MoveAside(p)
  PROVE  Kept
<1> USE SnapshotAssumption DEF SInv
<1>1. UNCHANGED <<temp, files, unsound, archive, source, todo, had, status, xpc, left, seen, open,
                  out, xstatus, loaded>>
  BY DEF MoveAside, content, copied
<1>2. /\ pc[p] = "aside" /\ state # NoDir /\ state' = NoDir
      /\ backup' = [backup EXCEPT ![p] = state]
      /\ pc' = [pc EXCEPT ![p] = "activate"]
  BY DEF MoveAside, Goto
<1>3. raced' \in BOOLEAN
  BY DEF MoveAside, TypeOK
<1>4. Sound(state) /\ state \in Dirs
  BY <1>2 DEF StateIsSound, TypeOK
<1>5. OneName'
  BY <1>1, <1>2 DEF OneName, TypeOK
<1>6. TypeOK'
  BY <1>1, <1>2, <1>3, <1>4, <1>5 DEF TypeOK
<1>7. StateIsSound'
  BY <1>1, <1>2 DEF StateIsSound
<1>8. Sound(backup[p])' /\ pc'[p] # "clean"
  BY <1>1, <1>2, <1>4 DEF Sound, TypeOK
<1>9. \A q \in Importers : q # p => backup'[q] = backup[q] /\ pc'[q] = pc[q]
  BY <1>2 DEF TypeOK
<1>10. Staging'
  BY <1>1, <1>2, <1>8, <1>9 DEF Staging, Sound, TypeOK, Complete
<1>11. Standby' /\ Held'
  BY <1>8 DEF Standby, Held
<1> QED BY <1>6, <1>7, <1>10, <1>11 DEF Kept

\* The staged directory becomes the state directory.
LEMMA ActivateStep ==
  ASSUME NEW p \in Importers, SInv, Activate(p)
  PROVE  Kept
<1> USE SnapshotAssumption DEF SInv
<1>1. UNCHANGED <<backup, files, unsound, archive, source, todo, had, status, xpc, left, seen, open,
                  out, xstatus, loaded>>
  BY DEF Activate, content, copied
<1>2. /\ pc[p] = "activate" /\ state' = temp[p]
      /\ temp' = [temp EXCEPT ![p] = NoDir] /\ pc' = [pc EXCEPT ![p] = "clean"]
  BY DEF Activate, Goto
<1>3. temp[p] \in Dirs /\ Sound(temp[p])
  BY <1>2 DEF Staging, Sound, TypeOK
<1>4. OneName'
  BY <1>1, <1>2 DEF OneName, TypeOK
<1>5. raced' \in BOOLEAN
  BY DEF Activate, TypeOK
<1>6. TypeOK'
  BY <1>1, <1>2, <1>3, <1>4, <1>5 DEF TypeOK
<1>7. Sound(state)'
  BY <1>1, <1>2, <1>3 DEF Sound
<1>8. StateIsSound' /\ Standby' /\ Held'
  BY <1>1, <1>2, <1>3, <1>7 DEF StateIsSound, Standby, Held
<1>9. \A q \in Importers : q # p => temp'[q] = temp[q] /\ pc'[q] = pc[q]
  BY <1>2 DEF TypeOK
<1>10. Staging'
  BY <1>1, <1>2, <1>9 DEF Staging, Sound, TypeOK, Complete
<1> QED BY <1>6, <1>8, <1>10 DEF Kept

\* Removing a directory touches no other.
LEMMA RemovedFacts ==
  ASSUME NEW d \in Dirs \cup {NoDir}, SInv,
         IF d # NoDir THEN Removed(d) ELSE UNCHANGED content
  PROVE  /\ files' \in [Dirs -> [Files -> Versions]] /\ unsound' \subseteq Dirs
         /\ \A e \in Dirs : e # d => files'[e] = files[e] /\ (e \in unsound' <=> e \in unsound)
         /\ \A e \in Dirs : files'[e] = files[e] \/ (e = d /\ files'[e] = Index(0))
<1> USE SnapshotAssumption DEF SInv
<1>1. Index(0) \in [Files -> Versions]
  BY DEF Index, Versions
<1>2. CASE d # NoDir
  <2>1. d \in Dirs /\ files' = [files EXCEPT ![d] = Index(0)] /\ unsound' = unsound \ {d}
    BY <1>2 DEF Removed
  <2> QED BY <1>1, <2>1 DEF TypeOK
<1>3. CASE d = NoDir
  BY <1>3 DEF content, TypeOK
<1> QED BY <1>2, <1>3

\* A failing import removes its own directory and nothing else.
LEMMA FailFacts ==
  ASSUME NEW p \in Importers, NEW s \in {"failed", "stranded"}, SInv, Fail(p, s)
  PROVE  /\ pc' = [pc EXCEPT ![p] = "returned"] /\ status' = [status EXCEPT ![p] = s]
         /\ UNCHANGED had /\ temp' = [temp EXCEPT ![p] = NoDir]
         /\ pc' \in [Importers -> {"start", "stage", "aside", "activate", "clean", "returned"}]
         /\ status' \in [Importers -> {"none", "ok", "failed", "stranded", "killed"}]
         /\ source' \in [Importers -> Archive] /\ todo' \in [Importers -> SUBSET Files]
         /\ files' \in [Dirs -> [Files -> Versions]] /\ unsound' \subseteq Dirs
         /\ pc'[p] = "returned" /\ temp'[p] = NoDir
         /\ \A q \in Importers : q # p =>
              /\ pc'[q] = pc[q] /\ temp'[q] = temp[q]
              /\ source'[q] = source[q] /\ todo'[q] = todo[q]
<1> USE DEF SInv
<1>1. /\ Return(p, s) /\ temp' = [temp EXCEPT ![p] = NoDir]
      /\ IF temp[p] # NoDir THEN Removed(temp[p]) ELSE UNCHANGED content
  BY DEF Fail
<1>2. temp[p] \in Dirs \cup {NoDir}
  BY DEF TypeOK
<1>3. files' \in [Dirs -> [Files -> Versions]] /\ unsound' \subseteq Dirs
  BY <1>1, <1>2, RemovedFacts
<1>4. temp'[p] = NoDir /\ \A q \in Importers : q # p => temp'[q] = temp[q]
  BY <1>1 DEF TypeOK
<1>5. /\ pc' = [pc EXCEPT ![p] = "returned"] /\ status' = [status EXCEPT ![p] = s]
      /\ UNCHANGED had
      /\ pc' \in [Importers -> {"start", "stage", "aside", "activate", "clean", "returned"}]
      /\ status' \in [Importers -> {"none", "ok", "failed", "stranded", "killed"}]
      /\ source' \in [Importers -> Archive] /\ todo' \in [Importers -> SUBSET Files]
      /\ pc'[p] = "returned"
      /\ \A q \in Importers : q # p =>
           pc'[q] = pc[q] /\ source'[q] = source[q] /\ todo'[q] = todo[q]
  BY <1>1, ReturnFacts
<1> QED BY <1>1, <1>3, <1>4, <1>5

\* The same directory, with the same mark.
Same(d) == files'[d] = files[d] /\ (d \in unsound' <=> d \in unsound)

LEMMA FailKeepsSound ==
  ASSUME NEW p \in Importers, NEW s \in {"failed", "stranded"}, SInv, Fail(p, s)
  PROVE  /\ state # NoDir => Same(state)
         /\ \A q \in Importers : backup[q] # NoDir => Same(backup[q])
         /\ \A q \in Importers : q # p /\ temp[q] # NoDir => Same(temp[q])
<1> USE DEF SInv
<1>1. \A e \in Dirs : e # temp[p] => Same(e)
  BY RemovedFacts DEF Fail, TypeOK, Same
<1> QED BY <1>1 DEF TypeOK, OneName

LEMMA ImportFailsStep ==
  ASSUME NEW p \in Importers, SInv, ImportFails(p)
  PROVE  Kept
<1> USE SnapshotAssumption DEF SInv
<1>1. UNCHANGED <<state, backup, archive, xpc, left, seen, open, out, xstatus, raced, loaded>>
  BY DEF ImportFails, exporter, copied
<1>2. Fail(p, "failed") /\ pc[p] \in {"start", "stage", "aside"}
  BY DEF ImportFails
<1>3. /\ UNCHANGED had /\ temp' = [temp EXCEPT ![p] = NoDir]
      /\ pc' \in [Importers -> {"start", "stage", "aside", "activate", "clean", "returned"}]
      /\ status' \in [Importers -> {"none", "ok", "failed", "stranded", "killed"}]
      /\ source' \in [Importers -> Archive] /\ todo' \in [Importers -> SUBSET Files]
      /\ files' \in [Dirs -> [Files -> Versions]] /\ unsound' \subseteq Dirs
      /\ pc'[p] = "returned" /\ temp'[p] = NoDir
      /\ \A q \in Importers : q # p =>
           /\ pc'[q] = pc[q] /\ temp'[q] = temp[q]
           /\ source'[q] = source[q] /\ todo'[q] = todo[q]
  BY <1>2, FailFacts
<1>4. /\ state # NoDir => Same(state)
      /\ \A q \in Importers : backup[q] # NoDir => Same(backup[q])
      /\ \A q \in Importers : q # p /\ temp[q] # NoDir => Same(temp[q])
  BY <1>2, FailKeepsSound
<1>5. OneName'
  BY <1>1, <1>3 DEF OneName, TypeOK
<1>6. TypeOK'
  BY <1>1, <1>3, <1>5 DEF TypeOK
<1>7. /\ Sound(state) => Sound(state)'
      /\ \A q \in Importers : Sound(backup[q]) => Sound(backup[q])'
  BY <1>1, <1>4 DEF Sound, Same
<1>8. StateIsSound' /\ (Held => Held')
  BY <1>1, <1>7 DEF StateIsSound, Held
<1>9. Staging'
  BY <1>3, <1>4, <1>7 DEF Staging, TypeOK, Same, Complete
<1>10. Standby'
  BY <1>1, <1>2, <1>3, <1>7 DEF Standby
<1> QED BY <1>6, <1>8, <1>9, <1>10 DEF Kept

\* The backup is moved back, or stays a backup.
LEMMA ActivateFailsStep ==
  ASSUME NEW p \in Importers, SInv, ActivateFails(p)
  PROVE  Kept
<1> USE SnapshotAssumption DEF SInv
<1>1. UNCHANGED <<archive, xpc, left, seen, open, out, xstatus, loaded>> /\ raced' \in BOOLEAN
  BY DEF ActivateFails, copied, TypeOK
<1>2. pc[p] = "activate"
  BY DEF ActivateFails
<1>3. PICK s \in {"failed", "stranded"} :
        /\ Fail(p, s)
        /\ \/ /\ had[p]
              /\ state' = backup[p] /\ backup' = [backup EXCEPT ![p] = NoDir]
           \/ UNCHANGED <<state, backup>>
  BY DEF ActivateFails
<1>4. /\ UNCHANGED had /\ temp' = [temp EXCEPT ![p] = NoDir]
      /\ pc' \in [Importers -> {"start", "stage", "aside", "activate", "clean", "returned"}]
      /\ status' \in [Importers -> {"none", "ok", "failed", "stranded", "killed"}]
      /\ source' \in [Importers -> Archive] /\ todo' \in [Importers -> SUBSET Files]
      /\ files' \in [Dirs -> [Files -> Versions]] /\ unsound' \subseteq Dirs
      /\ pc'[p] = "returned" /\ temp'[p] = NoDir
      /\ \A q \in Importers : q # p =>
           /\ pc'[q] = pc[q] /\ temp'[q] = temp[q]
           /\ source'[q] = source[q] /\ todo'[q] = todo[q]
  BY <1>3, FailFacts
<1>5. /\ state # NoDir => Same(state)
      /\ \A q \in Importers : backup[q] # NoDir => Same(backup[q])
      /\ \A q \in Importers : q # p /\ temp[q] # NoDir => Same(temp[q])
  BY <1>3, FailKeepsSound
<1>6. CASE /\ had[p]
           /\ state' = backup[p] /\ backup' = [backup EXCEPT ![p] = NoDir]
  <2>1. Sound(backup[p]) /\ Sound(state)'
    BY <1>2, <1>5, <1>6 DEF Staging, Sound, Same
  <2>2. backup'[p] = NoDir /\ \A q \in Importers : q # p => backup'[q] = backup[q]
    BY <1>6 DEF TypeOK
  <2>3. OneName'
    BY <1>4, <1>6, <2>1, <2>2 DEF OneName, TypeOK, Sound
  <2>4. TypeOK'
    BY <1>1, <1>4, <1>6, <2>3 DEF TypeOK
  <2>5. StateIsSound' /\ Held' /\ Standby'
    BY <2>1 DEF StateIsSound, Held, Standby, Sound
  <2>6. Staging'
    BY <1>4, <1>5, <2>2 DEF Staging, TypeOK, Sound, Same, Complete
  <2> QED BY <2>4, <2>5, <2>6 DEF Kept
<1>7. CASE UNCHANGED <<state, backup>>
  <2>1. OneName'
    BY <1>4, <1>7 DEF OneName, TypeOK
  <2>2. TypeOK'
    BY <1>1, <1>4, <1>7, <2>1 DEF TypeOK
  <2>3. /\ Sound(state) => Sound(state)'
        /\ \A q \in Importers : Sound(backup[q]) => Sound(backup[q])'
    BY <1>5, <1>7 DEF Sound, Same
  <2>4. StateIsSound' /\ (Held => Held')
    BY <1>7, <2>3 DEF StateIsSound, Held
  <2>5. Staging'
    BY <1>4, <1>5, <2>3 DEF Staging, TypeOK, Same, Complete
  <2>6. Standby'
    BY <1>4, <1>7, <2>3 DEF Standby
  <2> QED BY <2>2, <2>4, <2>5, <2>6 DEF Kept
<1> QED BY <1>3, <1>6, <1>7

\* The backup goes only while there is another index.
LEMMA RemoveBackupStep ==
  ASSUME NEW p \in Importers, SInv, RemoveBackup(p)
  PROVE  Kept
<1> USE SnapshotAssumption DEF SInv
<1>1. UNCHANGED <<state, temp, archive, had, xpc, left, seen, open, out, xstatus, raced, loaded>>
  BY DEF RemoveBackup, Return, exporter, copied
<1>2. /\ pc[p] = "clean" /\ Return(p, "ok")
      /\ backup' = [backup EXCEPT ![p] = NoDir] \/ backup' = backup
      /\ IF backup[p] # NoDir THEN Removed(backup[p]) ELSE UNCHANGED content
  BY DEF RemoveBackup
<1>3. /\ pc' \in [Importers -> {"start", "stage", "aside", "activate", "clean", "returned"}]
      /\ status' \in [Importers -> {"none", "ok", "failed", "stranded", "killed"}]
      /\ source' \in [Importers -> Archive] /\ todo' \in [Importers -> SUBSET Files]
      /\ pc'[p] = "returned"
      /\ \A q \in Importers : q # p =>
           pc'[q] = pc[q] /\ source'[q] = source[q] /\ todo'[q] = todo[q]
  BY <1>2, ReturnFacts
<1>4. /\ files' \in [Dirs -> [Files -> Versions]] /\ unsound' \subseteq Dirs
      /\ \A d \in Dirs : d # backup[p] => Same(d)
  BY <1>2, RemovedFacts DEF TypeOK, Same
<1>5. /\ backup'[p] \in {backup[p], NoDir} /\ backup' \in [Importers -> Dirs \cup {NoDir}]
      /\ \A q \in Importers : q # p => backup'[q] = backup[q]
  BY <1>2 DEF TypeOK
<1>6. OneName'
  BY <1>1, <1>5 DEF OneName, TypeOK
<1>7. TypeOK'
  BY <1>1, <1>3, <1>4, <1>5, <1>6 DEF TypeOK
<1>8. Sound(state) => Sound(state)'
  BY <1>1, <1>4 DEF Sound, TypeOK, OneName, Same
<1>9. \A q \in Importers : q # p /\ Sound(backup[q]) => Sound(backup[q])'
  BY <1>4, <1>5 DEF Sound, TypeOK, OneName, Same
<1>10. \A q \in Importers : temp[q] # NoDir => Same(temp[q])
  BY <1>4 DEF TypeOK, OneName
<1>11. Sound(state)' \/ \E q \in Importers : pc'[q] # "clean" /\ Sound(backup[q])'
  BY <1>2, <1>3, <1>5, <1>8, <1>9 DEF Standby, StateIsSound
<1>12. StateIsSound' /\ Held' /\ Standby'
  BY <1>1, <1>8, <1>11 DEF StateIsSound, Held, Standby, Sound
<1>13. Staging'
  BY <1>1, <1>3, <1>5, <1>9, <1>10 DEF Staging, TypeOK, Same, Complete
<1> QED BY <1>7, <1>12, <1>13 DEF Kept

-----------------------------------------------------------------------------
(* The exporter and the other process.                                     *)

\* A step that moves no directory and no importer, and only adds to what the
\* files hold.
Aside ==
  /\ UNCHANGED <<temp, backup, importer>>
  /\ \A d \in Dirs, f \in Files : files[d][f] # 0 => files'[d][f] # 0
  /\ \/ UNCHANGED <<state, unsound>>
     \/ state = NoDir /\ Sound(state)' /\ unsound' = unsound \ {state'}

LEMMA AsideKeeps ==
  ASSUME SInv, Aside, TypeOK'
  PROVE  Kept
<1> USE DEF SInv
<1>1. UNCHANGED <<temp, backup, pc, source, todo, had, status>>
  BY DEF Aside, importer
<1>2. \A q \in Importers :
        /\ temp[q] # NoDir => temp[q] \in unsound' \/ temp[q] \notin unsound
        /\ backup[q] # NoDir => backup[q] \in unsound' \/ backup[q] \notin unsound
  BY <1>1 DEF Aside, TypeOK, OneName, Sound
<1>3. \A q \in Importers : Sound(backup[q]) => Sound(backup[q])'
  BY <1>1, <1>2 DEF Sound, TypeOK, Aside
<1>4. Sound(state) => Sound(state)'
  BY DEF Sound, TypeOK, Aside
<1>5. StateIsSound' /\ (Held => Held') /\ Standby'
  BY <1>1, <1>3, <1>4 DEF StateIsSound, Held, Standby, Aside, Sound
<1>6. \A q \in Importers, g \in Files :
        temp[q] # NoDir /\ files[temp[q]][g] # 0 => files'[temp[q]][g] # 0
  BY DEF Aside, TypeOK
<1>7. Staging'
  <2>1. ASSUME NEW q \in Importers, pc[q] \in {"stage", "aside", "activate"}
        PROVE  /\ temp[q] # NoDir
               /\ temp[q] \notin unsound' =>
                    Complete(source[q]) /\ \A f \in Files \ todo[q] : files'[temp[q]][f] # 0
    BY <1>2, <1>6, <2>1 DEF Staging
  <2> QED BY <1>1, <1>3, <2>1 DEF Staging, Complete
<1> QED BY <1>5, <1>7 DEF Kept

\* Loading the index moves no other directory.
LEMMA LoadFacts ==
  ASSUME SInv, Load, UNCHANGED <<temp, backup, importer>>
  PROVE  /\ OneName' /\ Aside /\ state' \in Dirs
         /\ files' \in [Dirs -> [Files -> Versions]] /\ unsound' \subseteq Dirs
<1> USE SnapshotAssumption DEF SInv
<1>1. CASE state # NoDir /\ UNCHANGED <<state, content>>
  BY <1>1 DEF TypeOK, OneName, Aside, content
<1>2. CASE /\ state = NoDir
           /\ \E d \in Unused :
                /\ state' = d /\ files' = [files EXCEPT ![d] = Index(1)]
                /\ unsound' = unsound \ {d}
  <2>1. PICK d \in Unused : /\ state' = d /\ files' = [files EXCEPT ![d] = Index(1)]
                            /\ unsound' = unsound \ {d}
    BY <1>2
  <2>2. /\ d \in Dirs /\ d # NoDir
        /\ \A q \in Importers : d # temp[q] /\ d # backup[q]
    BY <2>1 DEF Unused, Named
  <2>3. Index(1) \in [Files -> Versions] /\ \A f \in Files : Index(1)[f] = 1
    BY DEF Index, Versions
  <2>4. files' \in [Dirs -> [Files -> Versions]]
    BY <2>1, <2>3 DEF TypeOK
  <2>5. \A e \in Dirs, f \in Files : files[e][f] # 0 => files'[e][f] # 0
    BY <2>1, <2>2, <2>3 DEF TypeOK
  <2>6. Sound(state)'
    BY <2>1, <2>2, <2>3 DEF Sound, TypeOK
  <2>7. Aside
    BY <1>2, <2>1, <2>5, <2>6 DEF Aside
  <2>8. OneName'
    BY <1>2, <2>1, <2>2 DEF OneName, TypeOK
  <2> QED BY <2>1, <2>2, <2>4, <2>7, <2>8 DEF TypeOK
<1> QED BY <1>1, <1>2 DEF Load

\* What the exporter writes are entries.
LEMMA ExporterStep ==
  ASSUME SInv,
         \/ ExportStarts \/ CollectEntries \/ SumFile \/ CopyFile \/ FinishCopy
         \/ RemoveArchive \/ Publish \/ ExportEnds
  PROVE  Kept
<1> USE SnapshotAssumption DEF SInv
<1>1. UNCHANGED <<temp, backup, importer, raced, loaded>>
  BY DEF ExportStarts, CollectEntries, SumFile, CopyFile, FinishCopy, RemoveArchive, Publish,
         ExportEnds, names
<1>2. /\ OneName' /\ Aside /\ state' \in Dirs \cup {NoDir}
      /\ files' \in [Dirs -> [Files -> Versions]] /\ unsound' \subseteq Dirs
  <2>1. CASE ExportStarts
    BY <1>1, <2>1, LoadFacts DEF ExportStarts
  <2>2. CASE UNCHANGED <<state, content>>
    BY <1>1, <2>2 DEF Aside, OneName, TypeOK, content
  <2> QED BY <2>1, <2>2 DEF CollectEntries, SumFile, CopyFile, FinishCopy, RemoveArchive, Publish,
                            ExportEnds, names
<1>3. UNCHANGED <<pc, source, todo, had, status>>
  BY <1>1 DEF importer
<1>4. ASSUME archive' \in Archive \cup {NoArchive}, out' \in Archive,
             xpc' \in {"start", "collect", "copy", "replace", "publish", "returned"},
             left' \subseteq Files, open' \subseteq Files, seen' \in [Files -> Versions],
             xstatus' \in {"none", "ok", "failed", "unpublished"}
      PROVE  Kept
  BY <1>1, <1>2, <1>3, <1>4, AsideKeeps DEF TypeOK
<1>5. Empty \in Archive /\ Index(0) \in [Files -> Versions]
  BY DEF Empty, Archive, Entry, Versions, Index
<1>6. CASE ExportStarts
  BY <1>4, <1>6 DEF ExportStarts, TypeOK
<1>7. CASE CollectEntries
  <2>1. UNCHANGED <<archive, open, out, xstatus>> /\ files[state] \in [Files -> Versions]
    BY <1>7 DEF CollectEntries, TypeOK
  <2> QED BY <1>4, <1>7, <2>1 DEF CollectEntries, TypeOK
<1>8. CASE SumFile
  <2>1. PICK f \in left : \E c \in {0, files[state][f]} :
          /\ open' = {f}
          /\ out' = [out EXCEPT ![f] = [payload |-> files[state][f], crc |-> c, name |-> "own"]]
    BY <1>8 DEF SumFile
  <2>2. PICK c \in {0, files[state][f]} :
          out' = [out EXCEPT ![f] = [payload |-> files[state][f], crc |-> c, name |-> "own"]]
    BY <2>1
  <2>3. f \in Files /\ files[state][f] \in Versions /\ c \in Versions
    BY <1>8, <2>1, <2>2 DEF SumFile, TypeOK, Versions
  <2>4. out' \in Archive
    BY <2>2, <2>3 DEF TypeOK, Archive, Entry
  <2>5. UNCHANGED <<archive, xpc, left, seen, xstatus>>
    BY <1>8 DEF SumFile
  <2> QED BY <1>4, <2>1, <2>4, <2>5 DEF TypeOK
<1>9. CASE CopyFile
  <2>1. PICK f \in open :
          /\ \E v \in {out[f].payload} \cup (IF state # NoDir THEN {files[state][f]} ELSE {}) :
               out' \in {[out EXCEPT ![f].payload = w] : w \in IF v = seen[f] THEN {v} ELSE {v, 0}}
          /\ left' = left \ {f} /\ open' = {}
    BY <1>9 DEF CopyFile
  <2>2. PICK v \in {out[f].payload} \cup (IF state # NoDir THEN {files[state][f]} ELSE {}) :
          out' \in {[out EXCEPT ![f].payload = w] : w \in IF v = seen[f] THEN {v} ELSE {v, 0}}
    BY <2>1
  <2>3. PICK w \in {v, 0} : out' = [out EXCEPT ![f].payload = w]
    BY <2>2
  <2>4. f \in Files /\ v \in Versions /\ w \in Versions
    BY <2>1, <2>2, <2>3 DEF TypeOK, Archive, Entry, Versions
  <2>5. out' \in Archive
    BY <2>3, <2>4 DEF TypeOK, Archive, Entry
  <2>6. UNCHANGED <<archive, xpc, seen, xstatus>>
    BY <1>9 DEF CopyFile
  <2> QED BY <1>4, <2>1, <2>5, <2>6 DEF TypeOK
<1>10. CASE FinishCopy
  BY <1>4, <1>5, <1>10 DEF FinishCopy, TypeOK
<1>11. CASE RemoveArchive
  BY <1>4, <1>11 DEF RemoveArchive, TypeOK
<1>12. CASE Publish
  BY <1>4, <1>5, <1>12 DEF Publish, ExportReturns, TypeOK
<1>13. CASE ExportEnds
  BY <1>4, <1>5, <1>13 DEF ExportEnds, ExportReturns, TypeOK
<1> QED BY <1>6, <1>7, <1>8, <1>9, <1>10, <1>11, <1>12, <1>13

\* The other process creates an index in an unused directory, and makes the
\* files of its own newer.
LEMMA OtherStep ==
  ASSUME SInv, LoadIndex \/ ChangeFile \/ ReleaseIndex
  PROVE  Kept
<1> USE SnapshotAssumption DEF SInv
<1>1. UNCHANGED <<temp, backup, archive, importer, xpc, left, seen, open, out, xstatus>>
  BY DEF LoadIndex, ChangeFile, ReleaseIndex, names, exporter, copied
<1>2. UNCHANGED <<pc, source, todo, had, status>>
  BY <1>1 DEF importer
<1>3. ASSUME OneName', Aside, state' \in Dirs \cup {NoDir}, loaded' \in Dirs \cup {NoDir},
             files' \in [Dirs -> [Files -> Versions]], unsound' \subseteq Dirs, raced' \in BOOLEAN
      PROVE  Kept
  BY <1>1, <1>2, <1>3, AsideKeeps DEF TypeOK
<1>4. CASE LoadIndex
  BY <1>1, <1>3, <1>4, LoadFacts DEF LoadIndex, exporter, TypeOK
<1>5. CASE ChangeFile
  <2>1. PICK f \in Files :
          /\ files[loaded][f] \in 1 .. (MaxVersion - 1)
          /\ files' = [files EXCEPT ![loaded][f] = @ + 1]
    BY <1>5 DEF ChangeFile
  <2>2. /\ loaded \in Dirs /\ UNCHANGED <<state, unsound, loaded>> /\ raced' \in BOOLEAN
        /\ files[loaded][f] + 1 \in Versions /\ files[loaded][f] + 1 # 0
    BY <1>5, <2>1 DEF ChangeFile, names, TypeOK, Versions
  <2>3. files' \in [Dirs -> [Files -> Versions]]
    BY <2>1, <2>2 DEF TypeOK
  <2>4. \A d \in Dirs, g \in Files : files[d][g] # 0 => files'[d][g] # 0
    BY <2>1, <2>2 DEF TypeOK
  <2> QED BY <1>1, <1>3, <2>2, <2>3, <2>4 DEF Aside, OneName, TypeOK
<1>6. CASE ReleaseIndex
  BY <1>1, <1>3, <1>6 DEF ReleaseIndex, names, content, exporter, Aside, OneName, TypeOK
<1> QED BY <1>4, <1>5, <1>6

-----------------------------------------------------------------------------
(* The specification.                                                      *)

\* What is in the archive there is at first.
FirstArchive ==
  archive # NoArchive =>
    archive \in Archive /\ \A f \in Files : archive[f].payload \in {0, Stored}

LEMMA ArchiveInit == Init => FirstArchive
<1> SUFFICES ASSUME Init PROVE FirstArchive
  OBVIOUS
<1> USE SnapshotAssumption
<1>1. {0, Stored} \subseteq Versions
  BY DEF Versions
<1>2. Packed(Stored) \in Archive /\ \A f \in Files : Packed(Stored)[f].payload = Stored
  BY <1>1 DEF Packed, Archive, Entry
<1>3. ASSUME NEW f \in Files, NEW e \in Damaged, archive = [Packed(Stored) EXCEPT ![f] = e]
      PROVE  FirstArchive
  <2>1. e \in Entry /\ e.payload \in {0, Stored}
    BY <1>1 DEF Damaged, Entry
  <2> QED BY <1>2, <1>3, <2>1 DEF FirstArchive, Archive
<1> QED BY <1>2, <1>3 DEF Init, FirstArchive

\* What an import starts from.
LEMMA SnapshotInit == Init => SInv
<1> SUFFICES ASSUME Init PROVE SInv
  OBVIOUS
<1> USE SnapshotAssumption
<1>1. \A v \in Versions : Index(v) \in [Files -> Versions] /\ \A f \in Files : Index(v)[f] = v
  BY DEF Index
<1>2. {0, 1, Stored} \subseteq Versions
  BY DEF Versions
<1>3. PICK d \in Dirs :
        \/ state = NoDir /\ files = [e \in Dirs |-> Index(0)]
        \/ state = d /\ files = [e \in Dirs |-> Index(IF e = d THEN 1 ELSE 0)]
  BY DEF Init
<1>4. files \in [Dirs -> [Files -> Versions]] /\ state \in Dirs \cup {NoDir}
  BY <1>1, <1>2, <1>3
<1>5. StateIsSound
  BY <1>1, <1>2, <1>3 DEF StateIsSound, Sound
<1>6. Empty \in Archive
  BY <1>2 DEF Empty, Archive, Entry
<1>7. archive \in Archive \cup {NoArchive}
  BY ArchiveInit DEF FirstArchive
<1>8. /\ temp = [p \in Importers |-> NoDir] /\ backup = [p \in Importers |-> NoDir]
      /\ pc = [p \in Importers |-> "start"] /\ source = [p \in Importers |-> Empty]
      /\ todo = [p \in Importers |-> {}] /\ unsound = {}
      /\ had = [p \in Importers |-> FALSE] /\ status = [p \in Importers |-> "none"]
      /\ xpc = "start" /\ left = {} /\ seen = Index(0) /\ open = {} /\ out = Empty
      /\ xstatus = "none" /\ raced = FALSE /\ loaded = NoDir
  BY DEF Init
<1>9. OneName
  BY <1>3, <1>8 DEF OneName
<1>10. TypeOK
  BY <1>1, <1>2, <1>4, <1>6, <1>7, <1>8, <1>9 DEF TypeOK
<1>11. Staging /\ Standby
  BY <1>8 DEF Staging, Standby
<1> QED BY <1>5, <1>10, <1>11 DEF SInv

\* No step loses the last index.
LEMMA SnapshotStep == SInv /\ [Next]_vars => Kept
<1> SUFFICES ASSUME SInv, [Next]_vars PROVE Kept
  OBVIOUS
<1>1. ASSUME NEW p \in Importers,
             \/ OpenArchive(p) \/ StageFile(p) \/ CheckPrevious(p) \/ ImportFails(p)
             \/ MoveAside(p) \/ Activate(p) \/ ActivateFails(p) \/ RemoveBackup(p)
             \/ KillImporter(p)
      PROVE  Kept
  BY <1>1, OpenStep, StageStep, CheckPreviousStep, ImportFailsStep, MoveAsideStep,
     ActivateStep, ActivateFailsStep, RemoveBackupStep, KillStep
<1>2. CASE UNCHANGED vars
  <2>1. UNCHANGED <<state, temp, backup, files, unsound, archive, pc, source, todo, had, status,
                    xpc, left, seen, open, out, xstatus, raced, loaded>>
    BY <1>2 DEF vars, names, content, importer, exporter, copied
  <2>2. TypeOK'
    BY <2>1 DEF SInv, TypeOK, OneName
  <2>3. StateIsSound' /\ Standby' /\ (Held => Held')
    BY <2>1 DEF SInv, StateIsSound, Standby, Held, Sound
  <2>4. Staging'
    BY <2>1 DEF SInv, Staging, Sound, Complete
  <2> QED BY <2>2, <2>3, <2>4 DEF Kept, SInv
<1> QED BY <1>1, <1>2, ExporterStep, OtherStep DEF Next

\* The inductive invariant of import and export: what is staged, moved aside and
\* standing by at every step, the staged directories with a fault that import
\* does not look for told apart.
THEOREM SnapshotInvariant == Spec => []SInv
<1>1. SInv /\ [Next]_vars => SInv'
  BY SnapshotStep DEF Kept
<1> QED BY SnapshotInit, <1>1, PTL DEF Spec

\* Type correctness, and one name for each directory, whoever imports.
THEOREM SnapshotTypeCorrect == Spec => []TypeOK
<1>1. SInv => TypeOK
  BY DEF SInv
<1> QED BY <1>1, SnapshotInvariant, PTL

\* For any number of importers, files, failures and kills: the state directory
\* has every file or is not there, unless it was staged with a file cut at its
\* close, or from an archive without an entry or with one under another name.
THEOREM StateAlwaysSound == Spec => []StateIsSound
<1>1. SInv => StateIsSound
  BY DEF SInv
<1> QED BY <1>1, SnapshotInvariant, PTL

\* For any number of importers: no step removes the last index that passed every
\* check there is.
THEOREM IndexIsNeverLost == Spec => IndexNeverLost
<1>1. SInv /\ [Next]_vars =>
        [(\E d \in {state} \cup {backup[p] : p \in Importers} : Sound(d)) =>
           \E d \in {state'} \cup {backup'[p] : p \in Importers} :
              d # NoDir /\ (d \in unsound' \/ \A f \in Files : files'[d][f] # 0)]_vars
  BY SnapshotStep DEF Kept, Held, Sound
<1> QED BY <1>1, SnapshotInvariant, PTL DEF Spec, IndexNeverLost

-----------------------------------------------------------------------------
(* What a failed import leaves.                                            *)

\* Once there was an index and the state directory is missing, an importer is
\* still about to put one in its place, or could not, or was killed.
Handover ==
  /\ \A p \in Importers :
       /\ pc[p] = "aside" => had[p]
       /\ status[p] \in {"stranded", "killed"} => pc[p] = "returned"
  /\ (\E p \in Importers : had[p]) /\ state = NoDir =>
       \E q \in Importers :
         \/ pc[q] = "activate" /\ had[q]
         \/ status[q] \in {"stranded", "killed"}

\* A step of one importer, for what Handover is about.
LEMMA ImporterHandsOver ==
  ASSUME NEW p \in Importers, SInv, Handover,
         \/ OpenArchive(p) \/ StageFile(p) \/ CheckPrevious(p) \/ ImportFails(p)
         \/ MoveAside(p) \/ Activate(p) \/ ActivateFails(p) \/ RemoveBackup(p)
         \/ KillImporter(p)
  PROVE  Handover'
<1>1. TypeOK /\ Staging
  BY DEF SInv
<1>2. /\ pc \in [Importers -> {"start", "stage", "aside", "activate", "clean", "returned"}]
      /\ had \in [Importers -> BOOLEAN]
      /\ status \in [Importers -> {"none", "ok", "failed", "stranded", "killed"}]
  BY <1>1 DEF TypeOK
<1>3. ASSUME UNCHANGED <<state, had, status>>,
             NEW s \in {"stage", "clean"}, pc' = [pc EXCEPT ![p] = s],
             state # NoDir \/ ~(pc[p] = "activate" /\ had[p]), pc[p] # "returned"
      PROVE  Handover'
  BY <1>2, <1>3 DEF Handover
<1>4. ASSUME NEW s \in {"ok", "failed"}, UNCHANGED <<state, had>>, pc[p] # "returned",
             pc' = [pc EXCEPT ![p] = "returned"], status' = [status EXCEPT ![p] = s],
             ~(pc[p] = "activate" /\ had[p])
      PROVE  Handover'
  BY <1>2, <1>4 DEF Handover
<1>5. CASE OpenArchive(p)
  BY <1>3, <1>5 DEF OpenArchive, Goto
<1>6. CASE StageFile(p)
  <2>1. UNCHANGED <<state, pc, had, status>>
    BY <1>6 DEF StageFile, names
  <2> QED BY <2>1 DEF Handover
<1>7. CASE CheckPrevious(p)
  <2>1. /\ pc[p] = "stage" /\ UNCHANGED <<state, status>>
        /\ had' = [had EXCEPT ![p] = (state # NoDir)]
        /\ pc' = [pc EXCEPT ![p] = IF state # NoDir THEN "aside" ELSE "activate"]
    BY <1>7 DEF CheckPrevious, Goto, names
  <2>2. \A q \in Importers : q # p => had'[q] = had[q] /\ pc'[q] = pc[q]
    BY <1>2, <2>1
  <2>3. had'[p] <=> state # NoDir
    BY <1>2, <2>1
  <2>4. pc'[p] = IF state # NoDir THEN "aside" ELSE "activate"
    BY <1>2, <2>1
  <2>5. \A q \in Importers : status[q] \in {"stranded", "killed"} => q # p
    BY <2>1 DEF Handover
  <2>6. \A q \in Importers : /\ pc'[q] = "aside" => had'[q]
                             /\ status'[q] \in {"stranded", "killed"} => pc'[q] = "returned"
    BY <2>1, <2>2, <2>3, <2>4, <2>5 DEF Handover
  <2>7. ASSUME NEW q \in Importers, had'[q], state' = NoDir
        PROVE  \E r \in Importers : \/ pc'[r] = "activate" /\ had'[r]
                                    \/ status'[r] \in {"stranded", "killed"}
    <3>1. q # p /\ had[q] /\ state = NoDir
      BY <2>1, <2>2, <2>3, <2>7
    <3>2. PICK r \in Importers :
            \/ pc[r] = "activate" /\ had[r]
            \/ status[r] \in {"stranded", "killed"}
      BY <3>1 DEF Handover
    <3>3. r # p
      BY <2>1, <2>5, <3>2
    <3> QED BY <2>1, <2>2, <3>2, <3>3
  <2> QED BY <2>6, <2>7 DEF Handover
<1>8. CASE ImportFails(p)
  <2>1. /\ UNCHANGED <<state, had>> /\ pc[p] \in {"start", "stage", "aside"}
        /\ pc' = [pc EXCEPT ![p] = "returned"] /\ status' = [status EXCEPT ![p] = "failed"]
    BY <1>8 DEF ImportFails, Fail, Return, Goto
  <2> QED BY <1>4, <2>1
<1>9. CASE MoveAside(p)
  <2>1. /\ pc[p] = "aside" /\ UNCHANGED <<had, status>>
        /\ pc' = [pc EXCEPT ![p] = "activate"]
    BY <1>9 DEF MoveAside, Goto
  <2>2. had'[p] /\ pc'[p] = "activate"
    BY <1>2, <2>1 DEF Handover
  <2> QED BY <1>2, <2>1, <2>2 DEF Handover
<1>10. CASE Activate(p)
  <2>1. state' # NoDir /\ UNCHANGED <<had, status>> /\ pc[p] = "activate"
    BY <1>1, <1>10 DEF Activate, Staging
  <2>2. pc' = [pc EXCEPT ![p] = "clean"]
    BY <1>10 DEF Activate, Goto
  <2> QED BY <1>2, <2>1, <2>2 DEF Handover
<1>11. CASE ActivateFails(p)
  <2>1. CASE had[p] /\ state' = backup[p] /\ Fail(p, "failed")
    <3>1. pc[p] = "activate" /\ state' # NoDir
      BY <1>1, <1>11, <2>1 DEF ActivateFails, Staging, Sound
    <3>2. /\ UNCHANGED had /\ pc' = [pc EXCEPT ![p] = "returned"]
          /\ status' = [status EXCEPT ![p] = "failed"]
      BY <2>1 DEF Fail, Return, Goto
    <3> QED BY <1>2, <3>1, <3>2 DEF Handover
  <2>2. CASE had[p] /\ Fail(p, "stranded")
    <3>1. /\ UNCHANGED had /\ pc' = [pc EXCEPT ![p] = "returned"]
          /\ status' = [status EXCEPT ![p] = "stranded"]
      BY <2>2 DEF Fail, Return, Goto
    <3> QED BY <1>2, <3>1 DEF Handover
  <2>3. CASE ~had[p] /\ Fail(p, "failed") /\ UNCHANGED state
    BY <1>4, <1>11, <2>3 DEF ActivateFails, Fail, Return, Goto
  <2> QED BY <1>11, <2>1, <2>2, <2>3 DEF ActivateFails
<1>12. CASE RemoveBackup(p)
  BY <1>4, <1>12 DEF RemoveBackup, Return, Goto
<1>13. CASE KillImporter(p)
  <2>1. /\ UNCHANGED <<state, had>> /\ pc' = [pc EXCEPT ![p] = "returned"]
        /\ status' = [status EXCEPT ![p] = "killed"]
    BY <1>13 DEF KillImporter, Return, Goto, names
  <2> QED BY <1>2, <2>1 DEF Handover
<1> QED BY <1>5, <1>6, <1>7, <1>8, <1>9, <1>10, <1>11, <1>12, <1>13

\* Nobody but an importer takes the state directory away.
LEMMA HandoverStep == SInv /\ Handover /\ [Next]_vars => Handover'
<1> SUFFICES ASSUME SInv, Handover, [Next]_vars PROVE Handover'
  OBVIOUS
<1>1. CASE UNCHANGED <<pc, had, status>> /\ (state # NoDir => state' # NoDir)
  BY <1>1 DEF Handover
<1>2. CASE ExportStarts \/ LoadIndex
  <2>1. UNCHANGED importer /\ Load
    BY <1>2 DEF ExportStarts, LoadIndex
  <2> QED BY <1>1, <2>1 DEF Load, importer
<1>3. CASE \/ CollectEntries \/ SumFile \/ CopyFile \/ FinishCopy \/ RemoveArchive \/ Publish
           \/ ExportEnds \/ ChangeFile \/ ReleaseIndex \/ UNCHANGED vars
  <2>1. UNCHANGED <<names, importer>>
    BY <1>3 DEF CollectEntries, SumFile, CopyFile, FinishCopy, RemoveArchive, Publish, ExportEnds,
                ChangeFile, ReleaseIndex, vars
  <2> QED BY <1>1, <2>1 DEF names, importer
<1> QED BY <1>2, <1>3, ImporterHandsOver DEF Next

\* For any number of importers: after imports that have failed or succeeded, all
\* of them unless one was killed or stranded, an index that was there is there.
THEOREM FailureNeverLosesIndex == Spec => []FailureKeepsIndex
<1>1. Init => Handover
  BY DEF Init, Handover
<1>2. Handover => FailureKeepsIndex
  BY DEF Handover, FailureKeepsIndex
<1> QED BY <1>1, <1>2, HandoverStep, SnapshotInvariant, PTL DEF Spec

-----------------------------------------------------------------------------
(* What an export copies.                                                  *)

\* An importer at work has the archive there was at first, and nothing else.
FromFirst(p) ==
  pc[p] \in {"stage", "aside", "activate"} =>
    /\ temp[p] # loaded
    /\ \A f \in Files : source[p][f].payload \in {0, Stored} /\ files[temp[p]][f] \in {0, Stored}

\* An index that nobody has loaded is of one version.
Settled(d) == d \notin {NoDir, loaded} => Even(d)

\* Until the exporter has copied, nothing else was published, nor staged, and
\* nobody has left an index half changed.
Calm ==
  xpc \in {"start", "collect", "copy"} =>
    /\ FirstArchive
    /\ \A p \in Importers : FromFirst(p) /\ Settled(backup[p])
    /\ Settled(state)

\* Unless the index was changed or replaced, what is summed and copied is of its
\* one version.
Copies ==
  /\ ~raced =>
       /\ Copying => state # NoDir /\ Even(state)
       /\ xpc = "copy" =>
            /\ seen = files[state]
            /\ \A f \in Files :
                 out[f].payload \in {0, files[state][f]} /\ out[f].crc \in {0, out[f].payload}
            /\ \A f \in open : out[f].payload = files[state][f]
       /\ xpc \in {"replace", "publish"} => OneVersion(out)
       /\ xstatus = "ok" => OneVersion(archive)
  /\ xpc \in {"start", "collect"} => out = Empty /\ open = {}
  /\ xstatus = "ok" => xpc = "returned"

\* A directory whose files stay, or are removed, stays of one version.
LEMMA StaysEven ==
  ASSUME NEW d \in Dirs, files'[d] = files[d] \/ files'[d] = Index(0), Even(d)
  PROVE  Even(d)'
BY DEF Even, Index

\* An importer's step.
LEMMA ImporterKeepsCalm ==
  ASSUME NEW p \in Importers, SInv, Calm, SInv',
         \/ OpenArchive(p) \/ StageFile(p) \/ CheckPrevious(p) \/ ImportFails(p)
         \/ MoveAside(p) \/ Activate(p) \/ ActivateFails(p) \/ RemoveBackup(p)
         \/ KillImporter(p)
  PROVE  Calm'
<1> USE SnapshotAssumption
<1> SUFFICES ASSUME xpc' \in {"start", "collect", "copy"} PROVE Calm'
  BY DEF Calm
<1>1. TypeOK /\ Staging
  BY DEF SInv
<1>2. UNCHANGED <<archive, loaded, xpc>>
  BY DEF OpenArchive, StageFile, CheckPrevious, ImportFails, MoveAside, Activate,
         ActivateFails, RemoveBackup, KillImporter, exporter, copied
<1>3. /\ FirstArchive
      /\ \A q \in Importers : FromFirst(q) /\ Settled(backup[q])
      /\ Settled(state)
  BY <1>2 DEF Calm
<1>4. ASSUME \A q \in Importers : FromFirst(q)',
             Settled(state)',
             \A q \in Importers : Settled(backup[q])'
      PROVE  Calm'
  BY <1>2, <1>3, <1>4 DEF Calm, FirstArchive
<1>5. CASE OpenArchive(p)
  <2>1. PICK d \in Unused :
          temp' = [temp EXCEPT ![p] = d] /\ files' = [files EXCEPT ![d] = Index(0)]
    BY <1>5 DEF OpenArchive
  <2>2. /\ d \in Dirs /\ d # NoDir /\ d # loaded /\ d # state
        /\ \A q \in Importers : d # temp[q] /\ d # backup[q]
    BY <2>1 DEF Unused, Named
  <2>3. /\ archive # NoArchive /\ UNCHANGED <<state, backup>>
        /\ source' = [source EXCEPT ![p] = archive]
        /\ pc' = [pc EXCEPT ![p] = "stage"]
    BY <1>5 DEF OpenArchive, Goto
  <2>4. /\ temp'[p] = d /\ source'[p] = archive
        /\ \A q \in Importers : q # p =>
             temp'[q] = temp[q] /\ source'[q] = source[q] /\ pc'[q] = pc[q]
    BY <1>1, <2>1, <2>3 DEF TypeOK
  <2>5. files'[d] = Index(0) /\ \A e \in Dirs : e # d => files'[e] = files[e]
    BY <1>1, <2>1, <2>2 DEF TypeOK
  <2>6. FromFirst(p)'
    BY <1>2, <1>3, <2>2, <2>3, <2>4, <2>5 DEF FromFirst, FirstArchive, Index
  <2>7. ASSUME NEW q \in Importers, q # p PROVE FromFirst(q)'
    <3>1. temp[q] \in Dirs \cup {NoDir} /\ temp[q] # d
      BY <1>1, <2>2 DEF TypeOK
    <3>2. pc[q] \in {"stage", "aside", "activate"} => temp[q] # NoDir
      BY <1>1 DEF Staging
    <3> QED BY <1>2, <1>3, <2>4, <2>5, <2>7, <3>1, <3>2 DEF FromFirst
  <2>8. Settled(state)' /\ \A q \in Importers : Settled(backup[q])'
    BY <1>1, <1>2, <1>3, <2>2, <2>3, <2>5 DEF Settled, Even, TypeOK
  <2> QED BY <1>4, <2>6, <2>7, <2>8
<1>6. CASE StageFile(p)
  <2>1. PICK f \in todo[p] :
          /\ \/ files' = [files EXCEPT ![temp[p]][f] = source[p][f].payload]
             \/ \E g \in Files : files' = [files EXCEPT ![temp[p]][g] = 0]
          /\ todo' = [todo EXCEPT ![p] = @ \ {f}]
    <3>1. todo[p] \subseteq Files
      BY <1>1 DEF TypeOK
    <3> QED BY <1>6, <3>1 DEF StageFile, Staged
  <2>2. /\ UNCHANGED <<state, temp, backup, pc, source>> /\ pc[p] = "stage"
        /\ temp[p] \in Dirs /\ temp[p] # NoDir /\ f \in Files
    BY <1>1, <1>6 DEF StageFile, names, TypeOK, Staging
  <2>3. \A d \in Dirs : d # temp[p] => files'[d] = files[d]
    BY <1>1, <2>1 DEF TypeOK
  <2>4. \A g \in Files : files'[temp[p]][g] \in {0, Stored}
    BY <1>1, <1>3, <2>1, <2>2 DEF TypeOK, FromFirst
  <2>5. FromFirst(p)'
    BY <1>2, <1>3, <2>2, <2>4 DEF FromFirst
  <2>6. ASSUME NEW q \in Importers, q # p PROVE FromFirst(q)'
    <3>1. pc[q] \in {"stage", "aside", "activate"} => temp[q] \in Dirs /\ temp[q] # temp[p]
      BY <1>1, <2>2, <2>6 DEF TypeOK, OneName, Staging
    <3> QED BY <1>2, <1>3, <2>2, <2>3, <3>1 DEF FromFirst
  <2>7. Settled(state)' /\ \A q \in Importers : Settled(backup[q])'
    BY <1>1, <1>2, <1>3, <2>2, <2>3 DEF Settled, Even, TypeOK, OneName
  <2> QED BY <1>4, <2>5, <2>6, <2>7
<1>7. CASE CheckPrevious(p) \/ KillImporter(p)
  <2>1. UNCHANGED <<state, temp, backup, files>>
    BY <1>7 DEF CheckPrevious, KillImporter, names, content
  <2>2. \A q \in Importers : pc'[q] \in {"stage", "aside", "activate"} =>
          pc[q] \in {"stage", "aside", "activate"} /\ source'[q] = source[q]
    BY <1>1, <1>7 DEF CheckPrevious, KillImporter, Return, Goto, TypeOK
  <2>3. \A q \in Importers : FromFirst(q)'
    BY <1>2, <1>3, <2>1, <2>2 DEF FromFirst
  <2> QED BY <1>2, <1>3, <1>4, <2>1, <2>3 DEF Settled, Even
<1>8. ASSUME NEW s \in {"failed", "stranded"}, Fail(p, s),
             state' = state \/ state' = backup[p],
             \A q \in Importers : backup'[q] \in {backup[q], NoDir}
      PROVE  Calm'
  <2>1. /\ \A q \in Importers : backup[q] # NoDir => files'[backup[q]] = files[backup[q]]
        /\ state # NoDir => files'[state] = files[state]
        /\ \A q \in Importers : q # p /\ temp[q] # NoDir => files'[temp[q]] = files[temp[q]]
    BY <1>8, FailKeepsSound DEF Same
  <2>2. /\ pc'[p] = "returned"
        /\ \A q \in Importers : q # p =>
             pc'[q] = pc[q] /\ temp'[q] = temp[q] /\ source'[q] = source[q]
    BY <1>8, FailFacts
  <2>3. \A q \in Importers : FromFirst(q)'
    BY <1>1, <1>2, <1>3, <2>1, <2>2 DEF Staging, FromFirst
  <2>4. Settled(state)'
    BY <1>2, <1>3, <1>8, <2>1 DEF Settled, Even
  <2>5. \A q \in Importers : Settled(backup[q])'
    BY <1>2, <1>3, <1>8, <2>1 DEF Settled, Even
  <2> QED BY <1>4, <2>3, <2>4, <2>5
<1>9. CASE ImportFails(p)
  BY <1>8, <1>9 DEF ImportFails
<1>10. CASE MoveAside(p)
  <2>1. /\ state' = NoDir /\ backup' = [backup EXCEPT ![p] = state]
        /\ pc[p] = "aside" /\ pc' = [pc EXCEPT ![p] = "activate"]
        /\ UNCHANGED <<temp, files, source>>
    BY <1>10 DEF MoveAside, Goto, content
  <2>2. \A q \in Importers : FromFirst(q)'
    BY <1>1, <1>2, <1>3, <2>1 DEF FromFirst, TypeOK
  <2>3. \A q \in Importers : Settled(backup[q])'
    BY <1>1, <1>2, <1>3, <2>1 DEF Settled, Even, TypeOK
  <2>4. Settled(state)'
    BY <2>1 DEF Settled
  <2> QED BY <1>4, <2>2, <2>3, <2>4
<1>11. CASE Activate(p)
  <2>1. /\ state' = temp[p] /\ temp' = [temp EXCEPT ![p] = NoDir]
        /\ pc[p] = "activate" /\ pc' = [pc EXCEPT ![p] = "clean"]
        /\ UNCHANGED <<backup, files, source>>
    BY <1>11 DEF Activate, Goto, content
  <2>2. Even(temp[p])
    BY <1>3, <2>1 DEF FromFirst, Even
  <2>3. \A q \in Importers : FromFirst(q)'
    BY <1>1, <1>2, <1>3, <2>1 DEF FromFirst, TypeOK
  <2>4. Settled(state)' /\ \A q \in Importers : Settled(backup[q])'
    BY <1>2, <1>3, <2>1, <2>2 DEF Settled, Even
  <2> QED BY <1>4, <2>3, <2>4
<1>12. CASE ActivateFails(p)
  <2>1. /\ state' = state \/ state' = backup[p]
        /\ backup' = [backup EXCEPT ![p] = NoDir] \/ backup' = backup
        /\ \E s \in {"failed", "stranded"} : Fail(p, s)
    BY <1>12 DEF ActivateFails
  <2>2. \A q \in Importers : backup'[q] \in {backup[q], NoDir}
    BY <1>1, <2>1 DEF TypeOK
  <2> QED BY <1>8, <2>1, <2>2
<1>13. CASE RemoveBackup(p)
  <2>1. /\ UNCHANGED <<state, temp>> /\ pc[p] = "clean" /\ Return(p, "ok")
        /\ backup' = [backup EXCEPT ![p] = NoDir] \/ backup' = backup
        /\ IF backup[p] # NoDir THEN Removed(backup[p]) ELSE UNCHANGED content
    BY <1>13 DEF RemoveBackup
  <2>2. \A d \in Dirs : files'[d] = files[d] \/ (d = backup[p] /\ files'[d] = Index(0))
    BY <1>1, <2>1, RemovedFacts DEF TypeOK, SInv
  <2>3. /\ pc'[p] = "returned"
        /\ \A q \in Importers : q # p => pc'[q] = pc[q] /\ source'[q] = source[q]
    BY <2>1, ReturnFacts
  <2>4. \A q \in Importers : backup'[q] \in {backup[q], NoDir}
    BY <1>1, <2>1 DEF TypeOK
  <2>5. \A q \in Importers : temp[q] # NoDir => files'[temp[q]] = files[temp[q]]
    BY <1>1, <2>2 DEF TypeOK, OneName
  <2>6. \A q \in Importers : FromFirst(q)'
    BY <1>1, <1>2, <1>3, <2>1, <2>3, <2>5 DEF FromFirst, Staging
  <2>7. \A d \in Dirs : Settled(d) => Settled(d)'
    BY <1>2, <2>2, StaysEven DEF Settled
  <2>8. Settled(state)' /\ \A q \in Importers : Settled(backup[q])'
    BY <1>1, <1>3, <2>1, <2>4, <2>7 DEF Settled, TypeOK
  <2> QED BY <1>4, <2>6, <2>8
<1> QED BY <1>5, <1>6, <1>7, <1>9, <1>10, <1>11, <1>12, <1>13

\* Loading makes at most a new index of one version, in an unused directory.
LEMMA LoadIsEven ==
  ASSUME SInv, Load, UNCHANGED <<temp, backup>>, loaded = NoDir,
         state # NoDir => Even(state)
  PROVE  /\ state' # NoDir /\ Even(state)'
         /\ state # NoDir => state' = state
         /\ \A q \in Importers : /\ temp[q] # NoDir => files'[temp[q]] = files[temp[q]]
                                 /\ backup[q] # NoDir => files'[backup[q]] = files[backup[q]]
                                 /\ state' # temp[q]
<1> USE SnapshotAssumption
<1>1. TypeOK
  BY DEF SInv
<1>2. CASE state # NoDir /\ UNCHANGED <<state, files>>
  BY <1>1, <1>2 DEF TypeOK, OneName, Even
<1>3. CASE state = NoDir /\ \E d \in Unused : state' = d /\ files' = [files EXCEPT ![d] = Index(1)]
  <2>1. PICK d \in Unused : state' = d /\ files' = [files EXCEPT ![d] = Index(1)]
    BY <1>3
  <2>2. d \in Dirs /\ d # NoDir /\ \A q \in Importers : d # temp[q] /\ d # backup[q]
    BY <2>1 DEF Unused, Named
  <2>3. files'[d] = Index(1) /\ \A e \in Dirs : e # d => files'[e] = files[e]
    BY <1>1, <2>1, <2>2 DEF TypeOK
  <2>4. Even(d)'
    BY <2>3 DEF Even, Index
  <2>5. \A q \in Importers : temp[q] \in Dirs \cup {NoDir} /\ backup[q] \in Dirs \cup {NoDir}
    BY <1>1 DEF TypeOK
  <2> QED BY <1>3, <2>1, <2>2, <2>3, <2>4, <2>5 DEF Even
<1> QED BY <1>2, <1>3 DEF Load, content

\* A step of the exporter or of the other process.
LEMMA OthersKeepCalm ==
  ASSUME SInv, Calm,
         \/ ExportStarts \/ CollectEntries \/ SumFile \/ CopyFile \/ FinishCopy
         \/ RemoveArchive \/ Publish \/ ExportEnds
         \/ LoadIndex \/ ChangeFile \/ ReleaseIndex \/ UNCHANGED vars
  PROVE  Calm'
<1> USE SnapshotAssumption
<1> SUFFICES ASSUME xpc' \in {"start", "collect", "copy"} PROVE Calm'
  BY DEF Calm
<1>1. TypeOK /\ Staging
  BY DEF SInv
<1>2. UNCHANGED <<temp, backup, importer>> /\ UNCHANGED <<pc, source>>
  BY DEF ExportStarts, CollectEntries, SumFile, CopyFile, FinishCopy, RemoveArchive, Publish,
         ExportEnds, LoadIndex, ChangeFile, ReleaseIndex, vars, names, importer
<1>3. xpc \in {"start", "collect", "copy"} /\ archive' = archive
  BY DEF ExportStarts, CollectEntries, SumFile, CopyFile, FinishCopy, RemoveArchive, Publish,
         ExportEnds, ExportReturns, LoadIndex, ChangeFile, ReleaseIndex, vars, exporter, copied
<1>4. /\ FirstArchive'
      /\ \A q \in Importers : FromFirst(q) /\ Settled(backup[q])
      /\ Settled(state)
  BY <1>3 DEF Calm, FirstArchive
<1>5. CASE ExportStarts \/ LoadIndex
  <2>1. loaded = NoDir /\ Load
    BY <1>5 DEF ExportStarts, LoadIndex
  <2>2. /\ state' # NoDir /\ Even(state)'
        /\ \A q \in Importers : /\ temp[q] # NoDir => files'[temp[q]] = files[temp[q]]
                                /\ backup[q] # NoDir => files'[backup[q]] = files[backup[q]]
                                /\ state' # temp[q]
    BY <1>2, <1>4, <2>1, LoadIsEven DEF Settled
  <2>3. loaded' \in {NoDir, state'}
    BY <1>5, <2>1 DEF ExportStarts, LoadIndex
  <2>4. \A q \in Importers : FromFirst(q)'
    BY <1>1, <1>2, <1>4, <2>2, <2>3 DEF FromFirst, Staging
  <2>5. Settled(state)' /\ \A q \in Importers : Settled(backup[q])'
    BY <1>2, <1>4, <2>1, <2>2 DEF Settled, Even
  <2> QED BY <1>4, <2>4, <2>5 DEF Calm
<1>6. CASE ChangeFile
  <2>1. PICK f \in Files : files' = [files EXCEPT ![loaded][f] = @ + 1]
    BY <1>6 DEF ChangeFile
  <2>2. UNCHANGED <<state, loaded>>
    BY <1>6 DEF ChangeFile, names
  <2>3. \A d \in Dirs : d # loaded => files'[d] = files[d]
    BY <1>1, <2>1 DEF TypeOK
  <2>4. \A q \in Importers : FromFirst(q)'
    BY <1>1, <1>2, <1>4, <2>2, <2>3 DEF FromFirst, Staging, TypeOK
  <2>5. Settled(state)' /\ \A q \in Importers : Settled(backup[q])'
    BY <1>1, <1>2, <1>4, <2>2, <2>3 DEF Settled, Even, TypeOK
  <2> QED BY <1>4, <2>4, <2>5 DEF Calm
<1>7. CASE ReleaseIndex
  <2>1. UNCHANGED <<state, files>> /\ loaded' = NoDir /\ Even(loaded)
    BY <1>7 DEF ReleaseIndex, names, content
  <2>2. \A q \in Importers : FromFirst(q)'
    BY <1>1, <1>2, <1>4, <2>1 DEF FromFirst, Staging
  <2>3. Settled(state)' /\ \A q \in Importers : Settled(backup[q])'
    BY <1>2, <1>4, <2>1 DEF Settled, Even
  <2> QED BY <1>4, <2>2, <2>3 DEF Calm
<1>8. CASE UNCHANGED <<state, files, loaded>>
  BY <1>2, <1>4, <1>8 DEF Calm, FromFirst, Settled, Even
<1>9. \/ CollectEntries \/ SumFile \/ CopyFile \/ FinishCopy \/ RemoveArchive \/ Publish
      \/ ExportEnds \/ UNCHANGED vars
      => UNCHANGED <<state, files, loaded>>
  BY DEF CollectEntries, SumFile, CopyFile, FinishCopy, RemoveArchive, Publish, ExportEnds, vars,
         names, content
<1> QED BY <1>5, <1>6, <1>7, <1>8, <1>9

\* A step that is not the exporter's changes what is being copied only when it
\* leaves a mark.
LEMMA CopiesElsewhere ==
  ASSUME SInv, Copies, UNCHANGED <<archive, copied>>, raced => raced',
         Copying /\ state # NoDir /\ ~raced' => state' = state /\ files'[state] = files[state]
  PROVE  Copies'
<1>1. UNCHANGED <<archive, xpc, left, seen, open, out, xstatus>>
  BY DEF copied
<1>2. ASSUME ~raced'
      PROVE  /\ Copying' => state' # NoDir /\ Even(state)'
             /\ xpc' = "copy" =>
                  /\ seen' = files'[state']
                  /\ \A f \in Files :
                       out'[f].payload \in {0, files'[state'][f]} /\ out'[f].crc \in {0, out'[f].payload}
                  /\ \A f \in open' : out'[f].payload = files'[state'][f]
  <2>1. ~raced
    BY <1>2
  <2>2. Copying => state # NoDir /\ state' = state /\ files'[state] = files[state]
    BY <1>2, <2>1 DEF Copies
  <2> QED BY <1>1, <2>1, <2>2 DEF Copies, Copying, Even
<1>3. ~raced' => /\ xpc' \in {"replace", "publish"} => OneVersion(out)'
                 /\ xstatus' = "ok" => OneVersion(archive)'
  BY <1>1 DEF Copies, OneVersion
<1>4. /\ xpc' \in {"start", "collect"} => out' = Empty /\ open' = {}
      /\ xstatus' = "ok" => xpc' = "returned"
  BY <1>1 DEF Copies
<1> QED BY <1>2, <1>3, <1>4 DEF Copies

LEMMA ImporterKeepsCopies ==
  ASSUME NEW p \in Importers, SInv, Copies,
         \/ OpenArchive(p) \/ StageFile(p) \/ CheckPrevious(p) \/ ImportFails(p)
         \/ MoveAside(p) \/ Activate(p) \/ ActivateFails(p) \/ RemoveBackup(p)
         \/ KillImporter(p)
  PROVE  Copies'
<1> USE SnapshotAssumption
<1>1. TypeOK /\ Staging
  BY DEF SInv
<1>2. UNCHANGED <<archive, copied>>
  BY DEF OpenArchive, StageFile, CheckPrevious, ImportFails, MoveAside, Activate,
         ActivateFails, RemoveBackup, KillImporter, exporter
<1>3. raced' = raced \/ raced' = (raced \/ Copying)
  BY DEF OpenArchive, StageFile, CheckPrevious, ImportFails, MoveAside, Activate,
         ActivateFails, RemoveBackup, KillImporter, exporter
<1>4. raced => raced'
  BY <1>3, Zenon
<1>5. ASSUME Copying, state # NoDir, ~raced'
      PROVE  state' = state /\ files'[state] = files[state]
  <2>1. state \in Dirs /\ \A q \in Importers : state # temp[q] /\ state # backup[q]
    BY <1>1, <1>5 DEF TypeOK, OneName
  <2>2. CASE OpenArchive(p)
    <3>1. UNCHANGED state /\ \E d \in Unused : files' = [files EXCEPT ![d] = Index(0)]
      BY <2>2 DEF OpenArchive
    <3>2. state \notin Unused
      BY DEF Unused, Named
    <3> QED BY <1>1, <2>1, <3>1, <3>2 DEF TypeOK
  <2>3. CASE CheckPrevious(p) \/ KillImporter(p)
    BY <2>3 DEF CheckPrevious, KillImporter, names, content
  <2>4. CASE StageFile(p)
    <3>1. PICK f \in todo[p] : Staged(p, f)
      BY <2>4 DEF StageFile
    <3>2. UNCHANGED state /\ temp[p] \in Dirs /\ f \in Files
      BY <1>1, <2>4 DEF StageFile, names, TypeOK, Staging
    <3> QED BY <2>1, <3>1, <3>2, StagedFacts
  <2>5. CASE ImportFails(p)
    BY <1>5, <2>5, FailKeepsSound DEF ImportFails, Same
  <2>6. CASE MoveAside(p)
    BY <1>5, <2>6 DEF MoveAside
  <2>7. CASE Activate(p)
    BY <1>5, <2>7 DEF Activate
  <2>8. CASE ActivateFails(p)
    <3>1. UNCHANGED state /\ \E s \in {"failed", "stranded"} : Fail(p, s)
      BY <1>5, <2>8 DEF ActivateFails
    <3> QED BY <1>5, <3>1, FailKeepsSound DEF Same
  <2>9. CASE RemoveBackup(p)
    <3>1. /\ UNCHANGED state
          /\ IF backup[p] # NoDir THEN Removed(backup[p]) ELSE UNCHANGED content
      BY <2>9 DEF RemoveBackup
    <3> QED BY <1>1, <2>1, <3>1, RemovedFacts DEF TypeOK
  <2> QED BY <2>2, <2>3, <2>4, <2>5, <2>6, <2>7, <2>8, <2>9
<1> QED BY <1>2, <1>4, <1>5, CopiesElsewhere

\* Entries of an index of one version, with their own checksums, are of one
\* version.
LEMMA EvenIsOneVersion ==
  ASSUME NEW d \in Dirs, TypeOK, Even(d),
         \A f \in Files : out[f].payload \in {0, files[d][f]} /\ out[f].crc \in {0, out[f].payload}
  PROVE  OneVersion(out)
<1> USE SnapshotAssumption
<1>1. \A f \in Files : files[d][f] \in Versions
  BY DEF TypeOK
<1>2. CASE \A f \in Files : files[d][f] = 0
  BY <1>2 DEF OneVersion, Versions
<1>3. CASE \E g \in Files : files[d][g] # 0
  <2>1. PICK g \in Files : files[d][g] # 0
    BY <1>3
  <2>2. \A f \in Files : out[f].payload \in {0, files[d][g]} /\ out[f].crc \in {0, out[f].payload}
    BY <2>1 DEF Even
  <2> QED BY <1>1, <2>2 DEF OneVersion
<1> QED BY <1>2, <1>3

\* The exporter sums and copies the one version it has found.
LEMMA ExporterKeepsCopies ==
  ASSUME SInv, Calm, Copies,
         \/ ExportStarts \/ CollectEntries \/ SumFile \/ CopyFile \/ FinishCopy
         \/ RemoveArchive \/ Publish \/ ExportEnds
  PROVE  Copies'
<1> USE SnapshotAssumption
<1>1. TypeOK /\ UNCHANGED raced
  BY DEF SInv, ExportStarts, CollectEntries, SumFile, CopyFile, FinishCopy, RemoveArchive, Publish,
         ExportEnds
<1>2. CASE ExportStarts
  <2>1. /\ xpc = "start" /\ loaded = NoDir /\ Load /\ xpc' = "collect"
        /\ UNCHANGED <<temp, backup, open, out, xstatus>>
    BY <1>2 DEF ExportStarts
  <2>2. state # NoDir => Even(state)
    BY <2>1 DEF Calm, Settled
  <2>3. state' # NoDir /\ Even(state)'
    BY <2>1, <2>2, LoadIsEven
  <2>4. out' = Empty /\ open' = {} /\ xstatus' # "ok"
    BY <2>1 DEF Copies
  <2> QED BY <2>1, <2>3, <2>4 DEF Copies
<1>3. CASE CollectEntries
  <2>1. /\ xpc = "collect" /\ xpc' = "copy" /\ state # NoDir /\ seen' = files[state]
        /\ UNCHANGED <<state, files, open, out, xstatus>>
    BY <1>3 DEF CollectEntries, names, content
  <2>2. out = Empty /\ open = {} /\ xstatus # "ok"
    BY <2>1 DEF Copies
  <2>3. \A f \in Files : out'[f].payload = 0 /\ out'[f].crc = 0
    BY <2>1, <2>2 DEF Empty
  <2>4. ~raced => Even(state)'
    BY <2>1 DEF Copies, Copying, Even
  <2> QED BY <1>1, <2>1, <2>2, <2>3, <2>4 DEF Copies
<1>4. CASE SumFile
  <2>1. PICK f \in left :
          /\ open' = {f}
          /\ \E c \in {0, files[state][f]} :
               out' = [out EXCEPT ![f] = [payload |-> files[state][f], crc |-> c, name |-> "own"]]
    BY <1>4 DEF SumFile
  <2>2. /\ xpc = "copy" /\ state # NoDir
        /\ UNCHANGED <<state, files, xpc, seen, xstatus>>
    BY <1>4 DEF SumFile, names, content
  <2>3. xstatus' # "ok" /\ f \in Files
    BY <1>1, <2>2 DEF Copies, TypeOK
  <2>4. /\ out'[f].payload = files[state][f] /\ out'[f].crc \in {0, files[state][f]}
        /\ \A g \in Files \ {f} : out'[g] = out[g]
    BY <1>1, <2>1, <2>3 DEF TypeOK, Archive
  <2>5. ~raced => Even(state)'
    BY <2>2 DEF Copies, Copying, Even
  <2> QED BY <1>1, <2>1, <2>2, <2>3, <2>4, <2>5 DEF Copies
<1>5. CASE CopyFile
  <2>1. PICK f \in open :
          /\ \E v \in {out[f].payload} \cup (IF state # NoDir THEN {files[state][f]} ELSE {}) :
               out' \in {[out EXCEPT ![f].payload = w] : w \in IF v = seen[f] THEN {v} ELSE {v, 0}}
          /\ open' = {}
    BY <1>5 DEF CopyFile
  <2>2. xpc = "copy" /\ UNCHANGED <<state, files, xpc, seen, xstatus>> /\ xstatus' # "ok"
    BY <1>5 DEF CopyFile, names, content, Copies
  <2>3. f \in Files
    BY <1>1 DEF TypeOK
  <2>4. ASSUME ~raced
        PROVE  Copies'
    <3>1. /\ state # NoDir /\ Even(state)' /\ seen = files[state]
          /\ \A g \in Files :
               out[g].payload \in {0, files[state][g]} /\ out[g].crc \in {0, out[g].payload}
          /\ out[f].payload = files[state][f]
      BY <2>2, <2>4 DEF Copies, Copying, Even
    <3>2. out' = [out EXCEPT ![f].payload = files[state][f]]
      BY <2>1, <2>3, <3>1
    <3>3. /\ out'[f].payload = files[state][f] /\ out'[f].crc = out[f].crc
          /\ \A g \in Files \ {f} : out'[g] = out[g]
      BY <1>1, <2>3, <3>2 DEF TypeOK, Archive
    <3> QED BY <2>1, <2>2, <3>1, <3>3 DEF Copies
  <2> QED BY <1>1, <2>2, <2>4 DEF Copies
<1>6. CASE FinishCopy
  <2>1. /\ xpc = "copy" /\ xpc' = "replace" /\ UNCHANGED <<out, xstatus>> /\ xstatus # "ok"
    BY <1>6 DEF FinishCopy, Copies
  <2>2. ~raced => OneVersion(out)
    BY <1>1, <2>1, EvenIsOneVersion DEF Copies, Copying, TypeOK
  <2>3. ~raced => OneVersion(out)'
    BY <2>1, <2>2 DEF OneVersion
  <2> QED BY <1>1, <2>1, <2>3 DEF Copies, Copying
<1>7. CASE RemoveArchive
  <2>1. xpc = "replace" /\ xpc' = "publish" /\ UNCHANGED <<out, xstatus>> /\ xstatus # "ok"
    BY <1>7 DEF RemoveArchive, Copies
  <2> QED BY <1>1, <2>1 DEF Copies, Copying, OneVersion
<1>8. CASE Publish
  <2>1. xpc = "publish" /\ xpc' = "returned" /\ archive' = out
    BY <1>8 DEF Publish, ExportReturns
  <2> QED BY <1>1, <2>1 DEF Copies, Copying, OneVersion
<1>9. CASE ExportEnds
  <2>1. xpc' = "returned" /\ xstatus' # "ok"
    BY <1>9 DEF ExportEnds, ExportReturns
  <2> QED BY <2>1 DEF Copies, Copying
<1> QED BY <1>2, <1>3, <1>4, <1>5, <1>6, <1>7, <1>8, <1>9

\* The other process leaves a mark when it changes what is being copied.
LEMMA OtherKeepsCopies ==
  ASSUME SInv, Copies, LoadIndex \/ ChangeFile \/ ReleaseIndex \/ UNCHANGED vars
  PROVE  Copies'
<1>1. UNCHANGED <<archive, copied>>
  BY DEF LoadIndex, ChangeFile, ReleaseIndex, vars, exporter
<1>2. raced' = raced \/ raced' = (raced \/ Copying)
  BY DEF LoadIndex, ChangeFile, ReleaseIndex, vars, exporter
<1>3. raced => raced'
  BY <1>2, Zenon
<1>4. Copying /\ state # NoDir /\ ~raced' => state' = state /\ files'[state] = files[state]
  BY DEF LoadIndex, Load, ChangeFile, ReleaseIndex, vars, names, content
<1> QED BY <1>1, <1>3, <1>4, CopiesElsewhere

\* What holds of an export that has not been started.
LEMMA CopyInit == Init => Calm /\ Copies
<1> SUFFICES ASSUME Init PROVE Calm /\ Copies
  OBVIOUS
<1>1. /\ xpc = "start" /\ xstatus = "none" /\ out = Empty /\ open = {} /\ loaded = NoDir
      /\ \A p \in Importers : pc[p] = "start" /\ backup[p] = NoDir
  BY DEF Init
<1>2. state # NoDir => Even(state)
  BY DEF Init, Even, Index
<1>3. Calm
  BY <1>1, <1>2, ArchiveInit DEF Calm, FromFirst, Settled
<1> QED BY <1>1, <1>3 DEF Copies, Copying

\* For any number of importers and files: the entries of an export that nobody
\* disturbed and that reports success are of one version of the index, each with
\* the checksum of its payload unless a file could not be read to its end.  They
\* need not be all its files.
THEOREM ArchiveNeverMixed == Spec => []ArchiveIsOneVersion
<1>1. SInv /\ SInv' /\ Calm /\ Copies /\ [Next]_vars => Calm' /\ Copies'
  BY ImporterKeepsCalm, OthersKeepCalm, ImporterKeepsCopies, ExporterKeepsCopies,
     OtherKeepsCopies DEF Next
<1>2. Copies => ArchiveIsOneVersion
  BY DEF Copies, ArchiveIsOneVersion
<1> QED BY CopyInit, <1>1, <1>2, SnapshotInvariant, PTL DEF Spec
=============================================================================
