---------------------------- MODULE RuntimeProofs ----------------------------
(***************************************************************************)
(* What holds of the runtime home for every set of parts and every number  *)
(* of writes and faults: the data of the installation is never lost by a   *)
(* migration, a published home is complete, and backup and restore are     *)
(* atomic.  The invariant says which directories exist at each place of    *)
(* the command, and what they hold.                                        *)
(***************************************************************************)
EXTENDS Runtime, TLAPS

\* The places between the first fingerprint and the rename of the source, and
\* those between that rename and the one that publishes the home.
Copying == {"fingerprint", "copy", "quarantine", "prune", "compare", "archive"}
Cutover == {"recheck", "archived", "publish"}

\* Which directories there are, where the command is.
Placed ==
    /\ pc \in Copying => ~Exists("archive") /\ ~Exists("home")
    /\ pc \in Cutover => Exists("archive") /\ ~Exists("home")
    /\ pc \in {"undo", "unarchive"} => ~Exists("home")
    /\ pc = "withdraw" => ~Exists("archive") /\ ~Exists("home")
    /\ pc \in {"forget", "check"} => Exists("home") \/ ~Exists("archive")
    /\ pc \in Promoted \cup {"backup"} \cup Restoring => Exists("home")

\* A home is published beside the archive of its source, and nothing but a
\* journal lets a later command know of an archive without a home.
Journalled ==
    /\ Exists("home") => Exists("archive")
    /\ Exists("archive") /\ ~Exists("home") => journal # "none"
    /\ pc \in Guarded => journal # "none"

\* What the old PatchPaw wrote last is in the archive, or else in its directory;
\* a process with files open in the archive keeps it from being published.
Latest ==
    /\ Exists("archive") => content["archive"] = truth
    /\ ~Exists("archive") => Exists("legacy") /\ content["legacy"] = truth
    /\ old = "archive" => Exists("archive")
    /\ Exists("home") \/ pc \in {"archived", "publish"} => old # "archive"

\* Terminal workspaces stand aside only while worktrees are pruned, or after a
\* fault there; the next migration puts them back before anything else.
Aside ==
    /\ WorkspacesInPlace
    /\ pc \in Cutover \cup (Copying \ {"prune"}) \cup {"recover", "forget", "check"}
       => workspace # "quarantine"

\* A part of the copy is no older than the first fingerprint and no newer than
\* the source: equal fingerprints mean an equal copy.
Between(p) == noted[p] <= content["staging"][p] /\ content["staging"][p] <= truth[p]
Copied ==
    /\ pc = "fingerprint" => \A p \in Parts \ todo : noted[p] <= truth[p]
    /\ pc = "copy" => /\ \A p \in Parts : noted[p] <= truth[p]
                      /\ \A p \in Parts \ todo : Between(p)
    /\ pc \in {"quarantine", "prune", "compare"} => \A p \in Parts : Between(p)
    /\ pc = "compare" /\ ~slipped => \A p \in Parts \ todo : truth[p] = noted[p]
    /\ pc \in {"archive"} \cup Cutover /\ ~slipped => content["staging"] = truth
    /\ PublishedComplete

\* A backup in the making holds what the home holds, and of a slot a version that
\* the home has held since the start.
BackingUp ==
    pc = "backup" =>
        /\ \A p \in Parts : /\ noted[p] <= content["home"][p]
                            /\ p \notin Unlocked => noted[p] = content["home"][p]
        /\ \A p \in Parts \ todo : /\ noted[p] <= content["partial"][p]
                                   /\ content["partial"][p] <= content["home"][p]

\* A part that stands aside is the part the restore found, and the home's place
\* for it is empty until the staged one is installed; of a slot that the service
\* has written meanwhile nothing is said.
Kept(p) == IF p \in moved THEN content["aside"][p] = noted[p] ELSE noted[p] = 0
Untouched(p) == IF p \in moved THEN content["home"][p] = 0 /\ content["aside"][p] = noted[p]
                               ELSE content["home"][p] = noted[p]
Exchanged(p) ==
    /\ content["home"][p] = content["backup"][p]
    /\ Kept(p)
    /\ p \in installed \/ content["backup"][p] = 0

Exchange ==
    /\ pc \in Restoring => served
    /\ pc = "stage" => /\ moved = {} /\ installed = {}
                       /\ \A p \in Parts \ touched : content["home"][p] = noted[p]
                       /\ \A p \in Parts \ todo : content["staged"][p] = content["backup"][p]
    /\ pc = "swap" => /\ installed \cap todo = {}
                      /\ \A p \in todo : content["staged"][p] = content["backup"][p]
                      /\ \A p \in todo \ touched : Untouched(p)
                      /\ \A p \in (Parts \ todo) \ touched : Exchanged(p)
    /\ pc = "uninstall" => \A p \in Parts \ touched :
                              IF p \in installed THEN Kept(p) ELSE Untouched(p)
    /\ pc = "return" => \A p \in Parts \ touched : Untouched(p)
    /\ pc = "clean" => \E d \in {content["backup"], noted} :
                          \A p \in Parts : content["home"][p] = d[p] \/ p \in touched

Inv == TypeOK /\ Placed /\ Journalled /\ Latest /\ Aside /\ Copied /\ BackingUp /\ Exchange

-----------------------------------------------------------------------------
\* The operations on whole directories, and a write, keep the disk well typed.
LEMMA RenameTyped ==
  ASSUME TypeOK, NEW from \in Names, NEW to \in Names, Rename(from, to)
  PROVE  dirs' \in SUBSET Names /\ content' \in [Names -> [Parts -> Versions]]
  BY RuntimeAssumption DEF TypeOK, Nothing, Versions, Rename

LEMMA RemoveTyped ==
  ASSUME TypeOK, NEW d \in Names, Remove(d)
  PROVE  dirs' \in SUBSET Names /\ content' \in [Names -> [Parts -> Versions]]
  BY RuntimeAssumption DEF TypeOK, Nothing, Versions, Remove

LEMMA WriteTyped ==
  ASSUME TypeOK, NEW d \in Names, NEW p \in Parts, content[d][p] < MaxVersion,
         content' = [content EXCEPT ![d][p] = @ + 1]
  PROVE  /\ content' \in [Names -> [Parts -> Versions]]
         /\ \A q \in Parts : content[d][q] <= content'[d][q]
  BY RuntimeAssumption DEF TypeOK, Versions

-----------------------------------------------------------------------------
\* The invariant holds at first, and every step of every party keeps it.
LEMMA InvInit == Init => Inv
  <1> SUFFICES ASSUME Init PROVE Inv
    OBVIOUS
  <1>1. TypeOK
    <2>1. Begun \in [Parts -> Versions] /\ Nothing \in [Parts -> Versions]
      BY RuntimeAssumption DEF Begun, Nothing, Versions
    <2>2. content \in [Names -> [Parts -> Versions]]
      BY <2>1 DEF Init
    <2>3. dirs \in SUBSET Names
      BY DEF Init, Names
    <2>4. faults \in 0 .. MaxFaults
      BY RuntimeAssumption DEF Init
    <2>. QED  BY <2>1, <2>2, <2>3, <2>4 DEF Init, TypeOK, Places
  <1>2. Placed /\ Journalled /\ Latest /\ Aside
    BY DEF Init, Placed, Journalled, Latest, Aside, WorkspacesInPlace, Exists, Names, Copying,
           Cutover, Migrating, Guarded, Promoted, Restoring
  <1>3. Copied /\ BackingUp /\ Exchange
    BY DEF Init, Copied, PublishedComplete, BackingUp, Exchange, Exists, Cutover, Restoring
  <1>. QED  BY <1>1, <1>2, <1>3 DEF Inv

LEMMA InvStep == ASSUME Inv, [Next]_vars PROVE Inv'
  <1> USE RuntimeAssumption
      DEF Inv, disk, locals, history, Goto, Exists, Fault, Nothing, Migrating, Guarded, Promoted,
          Restoring, Copying, Cutover, TypeOK, Places, Versions, Names, Placed, Journalled,
          Latest, Aside, WorkspacesInPlace, Copied, Between, PublishedComplete, BackingUp,
          Exchange, Untouched, Kept, Exchanged
  <1>1. CASE Migrate
    BY <1>1 DEF Migrate
  <1>2. CASE RecoverOrphans
    BY <1>2 DEF RecoverOrphans
  <1>3. CASE Recover
    <2>1. CASE Exists("archive") /\ ~Exists("legacy") /\ ~Exists("home") /\ journal # "none"
      <3>1. /\ Rename("archive", "legacy")
            /\ UNCHANGED <<pc, journal, workspace, locals, history, faults>>
        BY <1>3, <2>1 DEF Recover, RecoverPublished, RecoverSource
      <3>2. dirs' \in SUBSET Names /\ content' \in [Names -> [Parts -> Versions]]
        BY <3>1, RenameTyped
      <3>3. /\ UNCHANGED <<pc, journal, workspace, todo, noted, moved, installed>>
            /\ UNCHANGED <<slipped, truth, served, touched, faults>>
        BY <3>1
      <3>4. Exists("legacy")' /\ ~Exists("archive")' /\ ~Exists("home")'
        BY <2>1, <3>1 DEF Rename
      <3>5. /\ content'["legacy"] = content["archive"]
            /\ \A d \in Names \ {"archive", "legacy"} : content'[d] = content[d]
        BY <3>1 DEF Rename
      <3>6. old' \in {"none", "legacy"}
        BY <3>1 DEF Rename
      <3>7. pc = "recover"
        BY <1>3 DEF Recover
      <3>. QED  BY <2>1, <3>2, <3>3, <3>4, <3>5, <3>6, <3>7
    <2>2. CASE ~(Exists("archive") /\ ~Exists("legacy") /\ ~Exists("home") /\ journal # "none")
      <3>1. UNCHANGED <<journal, workspace, locals, old, history, faults>>
        BY <1>3, <2>2 DEF Recover, RecoverPublished, RecoverSource
      <3>2. /\ pc' \in {"check", "off", "forget"}
            /\ \/ UNCHANGED <<dirs, content>>
               \/ pc' = "forget" /\ Remove("staging")
            /\ pc' \in {"check", "forget"} => Exists("home") \/ ~Exists("archive")
        BY <1>3, <2>2 DEF Recover, RecoverPublished, RecoverSource
      <3>3. dirs' \in SUBSET Names /\ content' \in [Names -> [Parts -> Versions]]
        BY <3>1, <3>2, RemoveTyped
      <3>. QED  BY <1>3, <3>1, <3>2, <3>3 DEF Recover, Remove
    <2>. QED  BY <2>1, <2>2
  <1>4. CASE ForgetJournal
    BY <1>4 DEF ForgetJournal
  <1>5. CASE Check
    BY <1>5 DEF Check, Inspected, NoOldProcess
  <1>6. CASE Prepare
    BY <1>6 DEF Prepare
  <1>7. CASE Inspect
    BY <1>7 DEF Inspect, NoOldProcess
  <1>8. CASE Quarantine
    BY <1>8 DEF Quarantine
  <1>9. CASE Prune
    BY <1>9 DEF Prune
  <1>10. CASE Compared
    BY <1>10 DEF Compared, NoOldProcess
  <1>11. CASE Archive
    <2>1. dirs' \in SUBSET Names /\ content' \in [Names -> [Parts -> Versions]]
      BY <1>11, RenameTyped DEF Archive
    <2>. QED  BY <1>11, <2>1 DEF Archive, Rename
  <1>12. CASE Recheck
    BY <1>12 DEF Recheck, NoOldProcess
  <1>13. CASE JournalArchived
    BY <1>13 DEF JournalArchived
  <1>14. CASE Publish
    BY <1>14 DEF Publish, Rename
  <1>15. CASE JournalPublished
    BY <1>15 DEF JournalPublished
  <1>16. CASE Dispose
    BY <1>16 DEF Dispose
  <1>17. CASE Unlink
    BY <1>17 DEF Unlink
  <1>18. CASE Throw
    BY <1>18 DEF Throw
  <1>19. CASE Undo
    <2>1. dirs' \in SUBSET Names /\ content' \in [Names -> [Parts -> Versions]]
      BY <1>19, RemoveTyped DEF Undo
    <2>. QED  BY <1>19, <2>1 DEF Undo, Remove
  <1>20. CASE Unarchive
    <2>1. dirs' \in SUBSET Names /\ content' \in [Names -> [Parts -> Versions]]
      BY <1>20, RenameTyped DEF Unarchive
    <2>. QED  BY <1>20, <2>1 DEF Unarchive, Rename
  <1>21. CASE Withdraw
    BY <1>21 DEF Withdraw
  <1>22. CASE Backup
    BY <1>22 DEF Backup, Remove
  <1>23. CASE Commit
    BY <1>23 DEF Commit, Rename
  <1>24. CASE BackupFails
    BY <1>24 DEF BackupFails, Remove
  <1>25. CASE Restore
    BY <1>25 DEF Restore
  <1>26. CASE Staged
    BY <1>26 DEF Staged
  <1>27. CASE Restored
    BY <1>27 DEF Restored
  <1>28. CASE RestoreThrows
    BY <1>28 DEF RestoreThrows
  <1>29. CASE Uninstalled
    BY <1>29 DEF Uninstalled
  <1>30. CASE Returned
    BY <1>30 DEF Returned, Remove
  <1>31. CASE RollbackFails
    BY <1>31 DEF RollbackFails, Remove
  <1>32. CASE Clean
    BY <1>32 DEF Clean, Remove
  <1>33. CASE Kill
    BY <1>33 DEF Kill
  <1>34. CASE OldStarts
    BY <1>34 DEF OldStarts
  <1>35. CASE OldExits
    BY <1>35 DEF OldExits
  <1>36. ASSUME NEW p \in Parts, OldWrites(p) PROVE Inv'
    <2>1. /\ content' \in [Names -> [Parts -> Versions]]
          /\ \A q \in Parts : content[old][q] <= content'[old][q]
      BY <1>36, WriteTyped DEF OldWrites
    <2>2. TypeOK'
      <3>1. content'[old] \in [Parts -> Versions]
        BY <1>36, <2>1 DEF OldWrites
      <3>2. truth' \in [Parts -> Versions] /\ slipped' \in BOOLEAN
        BY <1>36, <3>1 DEF OldWrites, LookedAt
      <3>. QED  BY <1>36, <2>1, <3>2 DEF OldWrites
    <2>3. \A d \in Names \ {old} : content'[d] = content[d]
      BY <1>36 DEF OldWrites
    <2>4. UNCHANGED <<dirs, journal, workspace, pc, locals, old, served, faults>>
      BY <1>36 DEF OldWrites
    <2>5. Placed' /\ Journalled' /\ Aside' /\ BackingUp' /\ Exchange'
      BY <2>3, <2>4, <1>36 DEF OldWrites
    <2>6. Latest'
      BY <1>36, <2>3, <2>4 DEF OldWrites
    <2>7. CASE old = "archive" \/ ~Exists("archive")
      <3>1. truth' = content'[old] /\ slipped' = (slipped \/ LookedAt(p))
        BY <1>36, <2>7 DEF OldWrites
      <3>2. truth = content[old] /\ ~Exists("home")
        BY <2>7, <1>36 DEF OldWrites
      <3>3. \A q \in Parts : q # p => truth'[q] = truth[q]
        BY <1>36, <3>1, <3>2 DEF OldWrites
      <3>4. \A q \in Parts : truth[q] <= truth'[q]
        BY <2>1, <3>1, <3>2
      <3>5. \A q \in Parts : truth[q] \in Int /\ truth'[q] \in Int /\ noted[q] \in Int
        BY <2>2
      <3>6. content'["staging"] = content["staging"] /\ content'["home"] = content["home"]
        BY <2>3
      <3>7. slipped' = FALSE => slipped = FALSE /\ ~LookedAt(p)
        BY <3>1
      <3>8. \A q \in Parts : Between(q) => Between(q)'
        BY <2>2, <2>4, <3>4, <3>5, <3>6
      <3>9. Copied'
        BY <2>4, <3>2, <3>3, <3>4, <3>5, <3>6, <3>7, <3>8 DEF LookedAt
      <3>. QED  BY <2>2, <2>5, <2>6, <3>9
    <2>8. CASE ~(old = "archive" \/ ~Exists("archive"))
      <3>1. UNCHANGED <<truth, slipped>>
        BY <1>36, <2>8 DEF OldWrites
      <3>2. content'["staging"] = content["staging"] /\ content'["home"] = content["home"]
        BY <2>3, <2>8
      <3>3. Copied'
        BY <2>4, <3>1, <3>2
      <3>. QED  BY <2>2, <2>5, <2>6, <3>3
    <2>. QED  BY <2>7, <2>8
  <1>37. ASSUME NEW p \in Parts, ServiceWrites(p) PROVE Inv'
    <2>1. PICK v \in Versions : Newer(p, v) /\ content' = [content EXCEPT !["home"][p] = v]
      BY <1>37 DEF ServiceWrites
    <2>2. /\ content["home"][p] < v
          /\ content'["home"] = [content["home"] EXCEPT ![p] = v]
          /\ \A d \in Names \ {"home"} : content'[d] = content[d]
      BY <2>1 DEF Newer
    <2>3. TypeOK'
      BY <1>37, <2>1 DEF ServiceWrites
    <2>4. /\ UNCHANGED <<dirs, journal, workspace, pc, locals, old, truth, slipped, faults>>
          /\ served' /\ touched' = IF pc \in Restoring THEN touched \cup {p} ELSE touched
          /\ Locked => p \in Unlocked
      BY <1>37 DEF ServiceWrites
    <2>5. Placed' /\ Journalled' /\ Latest' /\ Aside' /\ Copied'
      BY <2>2, <2>4
    <2>6. BackingUp'
      BY <2>2, <2>3, <2>4 DEF Locked
    <2>7. Exchange'
      BY <2>2, <2>4
    <2>. QED  BY <2>3, <2>5, <2>6, <2>7
  <1>38. ASSUME NEW p \in Parts, Fingerprint(p) PROVE Inv'
    BY <1>38 DEF Fingerprint
  <1>39. ASSUME NEW p \in Parts, Copy(p) PROVE Inv'
    BY <1>39 DEF Copy, CopyPart
  <1>40. ASSUME NEW p \in Parts, Compare(p) PROVE Inv'
    BY <1>40 DEF Compare
  <1>41. ASSUME NEW p \in Parts, BackupPart(p) PROVE Inv'
    <2>1. /\ dirs' = dirs \cup {"partial"} /\ todo' = todo \ {p}
          /\ content' = [content EXCEPT !["partial"][p] = content["home"][p]]
          /\ UNCHANGED <<journal, workspace, pc, noted, moved, installed, old, history, faults>>
          /\ pc = "backup" /\ p \in todo
      BY <1>41 DEF BackupPart, CopyPart
    <2>2. content["home"] \in [Parts -> Versions] /\ content["partial"] \in [Parts -> Versions]
      OBVIOUS
    <2>3. /\ content'["partial"] = [content["partial"] EXCEPT ![p] = content["home"][p]]
          /\ \A d \in Names \ {"partial"} : content'[d] = content[d]
      BY <2>1
    <2>4. TypeOK'
      BY <2>1, <2>2
    <2>5. BackingUp'
      BY <2>1, <2>2, <2>3
    <2>6. Placed' /\ Journalled' /\ Latest' /\ Aside' /\ Copied' /\ Exchange'
      BY <2>1, <2>3
    <2>. QED  BY <2>4, <2>5, <2>6
  <1>42. ASSUME NEW p \in Parts, Stage(p) PROVE Inv'
    BY <1>42 DEF Stage, CopyPart
  <1>43. ASSUME NEW p \in Parts, SetAside(p) PROVE Inv'
    BY <1>43 DEF SetAside, MovePart
  <1>44. ASSUME NEW p \in Parts, Install(p) PROVE Inv'
    BY <1>44 DEF Install, PutInPlace, Occupied, Cleared, MovePart
  <1>45. ASSUME NEW p \in Parts, Uninstall(p) PROVE Inv'
    BY <1>45 DEF Uninstall, MovePart
  <1>46. ASSUME NEW p \in Parts, Return(p) PROVE Inv'
    BY <1>46 DEF Return, MovePart
  <1>47. CASE UNCHANGED vars
    BY <1>47 DEF vars
  <1>. QED
    BY <1>1, <1>2, <1>3, <1>4, <1>5, <1>6, <1>7, <1>8, <1>9, <1>10, <1>11, <1>12, <1>13, <1>14,
       <1>15, <1>16, <1>17, <1>18, <1>19, <1>20, <1>21, <1>22, <1>23, <1>24, <1>25, <1>26,
       <1>27, <1>28, <1>29, <1>30, <1>31, <1>32, <1>33, <1>34, <1>35, <1>36, <1>37, <1>38,
       <1>39, <1>40, <1>41, <1>42, <1>43, <1>44, <1>45, <1>46, <1>47
       DEF Next

LEMMA Invariant == Spec => []Inv
  <1>1. Inv /\ [Next]_vars => Inv'
    BY InvStep
  <1>. QED  BY InvInit, <1>1, PTL DEF Spec

-----------------------------------------------------------------------------
(* What the data of an installation may rely on.                           *)

\* Directories, journal and command are always what their types say.
THEOREM TypeCorrect == Spec => []TypeOK
  <1>1. Inv => TypeOK
    BY DEF Inv
  <1>. QED  BY Invariant, <1>1, PTL

\* Wherever a migration throws or is killed, and whatever the old PatchPaw
\* writes meanwhile, its data is whole in the legacy runtime or its archive.
THEOREM SourceIsKept == Spec => []SourceKept
  <1>1. Inv => SourceKept
    BY DEF Inv, Latest, SourceKept
  <1>. QED  BY Invariant, <1>1, PTL

\* A published home holds every part as it was last written, however the writes
\* of an old PatchPaw fall between the copies of the parts.
THEOREM PublishedIsComplete == Spec => []PublishedComplete
  <1>1. Inv => PublishedComplete
    BY DEF Inv, Copied
  <1>. QED  BY Invariant, <1>1, PTL

\* No runtime is archived while its terminal workspaces stand aside.
THEOREM WorkspacesAreInPlace == Spec => []WorkspacesInPlace
  <1>1. Inv => WorkspacesInPlace
    BY DEF Inv, Aside
  <1>. QED  BY Invariant, <1>1, PTL

\* A backup appears only by the rename of a directory that holds what the
\* home holds at that moment.
LEMMA BackupStep ==
  ASSUME Inv, [Next]_vars, ~Exists("backup"), Exists("backup")'
  PROVE  \A p \in Parts : /\ noted[p] <= content'["backup"][p]
                          /\ content'["backup"][p] <= content["home"][p]
                          /\ p \notin Unlocked => noted[p] = content["home"][p]
  <1>1. Commit
    <2>1. \A from, to : to # "backup" /\ Rename(from, to) => ~Exists("backup")'
      BY DEF Rename, Exists
    <2>2. \A d : Remove(d) => ~Exists("backup")'
      BY DEF Remove, Exists
    <2>3. \A p, from, to : to # "backup" /\ CopyPart(p, from, to) => ~Exists("backup")'
      BY DEF CopyPart, Exists
    <2>. QED
      BY <2>1, <2>2, <2>3
      DEF Next, vars, disk, Exists, OldStarts, OldExits, OldWrites, ServiceWrites, Migrate,
          RecoverOrphans, Recover, RecoverPublished, RecoverSource, ForgetJournal, Check, Prepare,
          Fingerprint, Copy, Compare, Inspect, Quarantine, Prune, Compared, Archive, Recheck,
          JournalArchived, Publish, JournalPublished, Dispose, Unlink, Throw, Undo, Unarchive,
          Withdraw, Backup, BackupFails, BackupPart, Restore, Staged, Restored, RestoreThrows,
          Stage, SetAside, Install, Uninstall, Return, Uninstalled, Returned, RollbackFails,
          Clean, Kill
  <1>2. content'["backup"] = content["partial"]
    BY <1>1 DEF Commit, Rename, Inv, TypeOK, Names
  <1>3. pc = "backup" /\ todo = {}
    BY <1>1 DEF Commit
  <1>4. \A p \in Parts : /\ noted[p] <= content["partial"][p]
                         /\ content["partial"][p] <= content["home"][p]
                         /\ p \notin Unlocked => noted[p] = content["home"][p]
    BY <1>3 DEF Inv, BackingUp
  <1>. QED  BY <1>2, <1>4

\* No write that holds the lock falls between the parts of a backup, and a slot
\* in it is as it was at some moment of the backup.
THEOREM BackupsAreConsistent == Spec => BackupIsConsistent
  <1>1. Inv /\ [Next]_vars
        => [~Exists("backup") /\ Exists("backup")'
            => \A p \in Parts : /\ noted[p] <= content'["backup"][p]
                                /\ content'["backup"][p] <= content["home"][p]
                                /\ p \notin Unlocked => noted[p] = content["home"][p]]_vars
    <2> SUFFICES ASSUME Inv, [Next]_vars, ~Exists("backup"), Exists("backup")'
                 PROVE  \A p \in Parts : /\ noted[p] <= content'["backup"][p]
                                         /\ content'["backup"][p] <= content["home"][p]
                                         /\ p \notin Unlocked => noted[p] = content["home"][p]
      OBVIOUS
    <2>. QED  BY BackupStep
  <1>. QED  BY Invariant, <1>1, PTL DEF Spec, BackupIsConsistent

\* At the end of a restore nothing but a kill or a slot's write touches the home or
\* the backup.
LEMMA RestoreStep ==
  ASSUME Inv, [Next]_vars, pc = "clean", faults' = faults
  PROVE  \E d \in {content'["backup"], noted} :
             \A p \in Parts : content'["home"][p] = d[p] \/ p \in touched'
  <1>1. \E d \in {content["backup"], noted} :
            \A p \in Parts : content["home"][p] = d[p] \/ p \in touched
    BY DEF Inv, Exchange
  <1>2. CASE \E p \in Parts : ServiceWrites(p)
    <2>1. PICK p \in Parts, v \in Versions :
            /\ content' = [content EXCEPT !["home"][p] = v]
            /\ touched' = touched \cup {p}
      BY <1>2 DEF ServiceWrites, Restoring
    <2>2. /\ content'["backup"] = content["backup"]
          /\ \A q \in Parts : content'["home"][q] = content["home"][q] \/ q = p
      BY <2>1 DEF Inv, TypeOK, Names
    <2>. QED  BY <1>1, <2>1, <2>2
  <1>3. CASE ~\E p \in Parts : ServiceWrites(p)
    <2>1. /\ content'["home"] = content["home"] /\ content'["backup"] = content["backup"]
          /\ touched' = touched
      BY <1>3
      DEF Inv, TypeOK, Names, Next, vars, disk, history, Exists, Fault, Restoring, Migrating,
          Guarded, Remove, OldStarts, OldExits, OldWrites, Migrate,
          RecoverOrphans, Recover, ForgetJournal, Check, Prepare, Fingerprint, Copy, Compare,
          Inspect, Quarantine, Prune, Compared, Archive, Recheck, JournalArchived, Publish,
          JournalPublished, Dispose, Unlink, Throw, Undo, Unarchive, Withdraw, Backup, Commit,
          BackupFails, BackupPart, Restore, Staged, Restored, RestoreThrows, Stage, SetAside,
          Install, Uninstall, Return, Uninstalled, Returned, RollbackFails, Clean, Kill
    <2>. QED  BY <1>1, <2>1
  <1>. QED  BY <1>2, <1>3

\* A restore that ends without a kill or a failed rollback leaves the backup or
\* the runtime it found, but for the slots written while it ran.
THEOREM RestoresAreAtomic == Spec => RestoreIsAtomic
  <1>1. Inv /\ [Next]_vars
        => [pc = "clean" /\ faults' = faults
            => \E d \in {content'["backup"], noted} :
                 \A p \in Parts : content'["home"][p] = d[p] \/ p \in touched']_vars
    BY RestoreStep
  <1>. QED  BY Invariant, <1>1, PTL DEF Spec, RestoreIsAtomic

=============================================================================
