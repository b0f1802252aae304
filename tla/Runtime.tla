------------------------------- MODULE Runtime -------------------------------
(***************************************************************************)
(* The runtime home of an installation: its migration from the legacy      *)
(* checkout (migration/runtime.ts), its backup (backup.ts) and its restore *)
(* (restore.ts), run by an operator one command at a time, beside an old   *)
(* PatchPaw that knows no lock and the service that uses the home.         *)
(*                                                                         *)
(* A directory is the version of each of its parts (databases, state       *)
(* files), 0 for a part that is missing.  A rename is one step, a copy one *)
(* step per part.  Any step may throw, and the command may be killed at    *)
(* any step; what it leaves on disk is what the next command finds.        *)
(***************************************************************************)
EXTENDS Integers, FiniteSets

CONSTANTS
    Parts,       \* the databases and directories of a runtime
    Database,    \* the part that is data/communication.db
    Optional,    \* parts that may be missing
    Unlocked,    \* the SCM secret slots, written without the runtime lock
    MaxVersion,  \* bound on the writes of a part
    MaxFaults    \* bound on errors and kills

ASSUME RuntimeAssumption ==
    /\ Database \in Parts
    /\ Optional \subseteq Parts \ {Database}
    /\ Unlocked \subseteq Optional
    /\ MaxVersion \in Nat \ {0}
    /\ MaxFaults \in Nat

VARIABLES
    dirs,      \* the directories that exist
    content,   \* the version of every part in each directory
    journal,   \* the migration's journal file, or "none"
    workspace, \* where the terminal workspaces of the legacy runtime are
    pc,        \* where the operator's command is
    todo,      \* the parts its loop has still to handle
    noted,     \* the fingerprint a migration took, the home that a backup or a
               \* ... restore found
    moved,     \* the parts a restore has moved to its archive, and those
    installed, \* ... it has installed
    old,       \* the directory an old PatchPaw has open, or "none"
    truth,     \* what was last written to the legacy runtime (history)
    slipped,   \* an old PatchPaw wrote to a part after its last look (history)
    served,    \* the home was written after its migration (history)
    touched,   \* the parts the service wrote while a restore ran (history)
    faults     \* errors and kills so far

vars == <<dirs, content, journal, workspace, pc, todo, noted, moved, installed, old,
          truth, slipped, served, touched, faults>>
disk == <<dirs, content, journal, workspace>>
history == <<truth, slipped, served, touched>>
locals == <<todo, noted, moved, installed>>

-----------------------------------------------------------------------------
Versions == 0 .. MaxVersion
Names == {"legacy", "archive", "staging", "home", "backup", "partial", "staged", "aside"}
Nothing == [p \in Parts |-> 0]
Begun == [p \in Parts |-> IF p \in Optional THEN 0 ELSE 1]

Migrating == {"orphans", "recover", "forget", "check", "fingerprint"}
Guarded == {"copy", "quarantine", "prune", "compare", "archive", "recheck",
            "archived", "publish"}
Promoted == {"published", "dispose", "unlink"}
Restoring == {"stage", "swap", "clean", "uninstall", "return"}
Places == {"off", "undo", "unarchive", "withdraw", "backup"}
          \cup Migrating \cup Guarded \cup Promoted \cup Restoring

TypeOK ==
    /\ dirs \in SUBSET Names
    /\ content \in [Names -> [Parts -> Versions]]
    /\ journal \in {"none", "prepared", "source_archived", "published"}
    /\ workspace \in {"place", "quarantine", "disposed"}
    /\ pc \in Places
    /\ todo \in SUBSET Parts /\ moved \in SUBSET Parts /\ installed \in SUBSET Parts
    /\ noted \in [Parts -> Versions] /\ truth \in [Parts -> Versions]
    /\ old \in {"none", "legacy", "archive"}
    /\ slipped \in BOOLEAN /\ served \in BOOLEAN /\ touched \in SUBSET Parts
    /\ faults \in 0 .. MaxFaults

Exists(d) == d \in dirs

Init ==
    /\ dirs = {"legacy"}
    /\ content = [d \in Names |-> IF d = "legacy" THEN Begun ELSE Nothing]
    /\ journal = "none"
    /\ workspace = "place"
    /\ pc = "off"
    /\ todo = {} /\ moved = {} /\ installed = {}
    /\ noted = Nothing
    /\ old = "none"
    /\ truth = Begun
    /\ slipped = FALSE /\ served = FALSE /\ touched = {}
    /\ faults = 0

Fault == faults < MaxFaults /\ faults' = faults + 1
Goto(place) == pc' = place

\* rename of a directory, rm -r, and the copy of a part into a directory.
Rename(from, to) ==
    /\ dirs' = (dirs \ {from}) \cup {to}
    /\ content' = [content EXCEPT ![to] = content[from], ![from] = Nothing]
    /\ old' = IF old = from THEN to ELSE old
Remove(d) ==
    /\ dirs' = dirs \ {d}
    /\ content' = [content EXCEPT ![d] = Nothing]
CopyPart(p, from, to) ==
    /\ dirs' = dirs \cup {to}
    /\ content' = [content EXCEPT ![to][p] = content[from][p]]

-----------------------------------------------------------------------------
(* The old PatchPaw, which knows no lock, and the service.                 *)

\* It starts, and makes its directory when there is none.
OldStarts ==
    /\ old = "none"
    /\ old' = "legacy"
    /\ dirs' = dirs \cup {"legacy"}
    /\ UNCHANGED <<content, journal, workspace, pc, locals, history, faults>>

\* The part will not be looked at any more before the source is archived.
LookedAt(p) ==
    \/ pc = "compare" /\ p \notin todo
    \/ pc \in {"archive", "recheck", "archived", "publish"} \cup Promoted

\* It writes where its files are open, and knows no SCM slots; a runtime it has
\* made afresh is no longer the source of the migration.
OldWrites(p) ==
    /\ old # "none" /\ p \notin Unlocked
    /\ content[old][p] < MaxVersion
    /\ content' = [content EXCEPT ![old][p] = @ + 1]
    /\ IF old = "archive" \/ ~Exists("archive")
       THEN truth' = content'[old] /\ slipped' = (slipped \/ LookedAt(p))
       ELSE UNCHANGED <<truth, slipped>>
    /\ UNCHANGED <<dirs, journal, workspace, pc, locals, old, served, touched, faults>>

OldExits ==
    /\ old # "none"
    /\ old' = "none"
    /\ UNCHANGED <<disk, pc, locals, history, faults>>

\* The version that a service gives a part: newer than every one there is.
Newer(p, v) == (\A d \in Names : content[d][p] < v) /\ \E d \in Names : v = content[d][p] + 1

\* The service and its workers use a home that is there.  Their writes hold the
\* runtime lock in shared mode, but for the SCM slots: a credential is written
\* or deleted whenever the administrator asks for it, and the directory of the
\* slots is made when it is missing.  Mutant: no write takes the lock.
Locked == pc \in {"backup"} \cup Restoring
ServiceWrites_Unlocked(p) ==
    /\ Exists("home")
    /\ \E v \in Versions : Newer(p, v) /\ content' = [content EXCEPT !["home"][p] = v]
    /\ served' = TRUE
    /\ touched' = IF pc \in Restoring THEN touched \cup {p} ELSE touched
    /\ UNCHANGED <<dirs, journal, workspace, pc, locals, old, truth, slipped, faults>>
ServiceWrites(p) ==
    /\ Exists("home")
    /\ Locked => p \in Unlocked
    /\ \E v \in Versions : Newer(p, v) /\ content' = [content EXCEPT !["home"][p] = v]
    /\ served' = TRUE
    /\ touched' = IF pc \in Restoring THEN touched \cup {p} ELSE touched
    /\ UNCHANGED <<dirs, journal, workspace, pc, locals, old, truth, slipped, faults>>

-----------------------------------------------------------------------------
(* migrateRuntime: recovery and checks.                                    *)

Migrate ==
    /\ pc = "off"
    /\ slipped' = (slipped /\ Exists("home"))
    /\ Goto("orphans")
    /\ UNCHANGED <<disk, locals, old, truth, served, touched, faults>>

\* recoverOrphanedWorkspaceQuarantines.  Mutant: not done.
RecoverOrphans_Not ==
    /\ pc = "orphans"
    /\ Goto("recover")
    /\ UNCHANGED <<disk, locals, old, history, faults>>
RecoverOrphans ==
    /\ pc = "orphans"
    /\ workspace' = IF workspace = "quarantine" /\ Exists("legacy") THEN "place" ELSE workspace
    /\ Goto("recover")
    /\ UNCHANGED <<dirs, content, journal, locals, old, history, faults>>

\* recoverInterruptedMigration, up to the removal of the journal.
RecoverPublished ==
    /\ journal # "none" /\ Exists("home")
    /\ IF journal = "prepared" \/ content["home"][Database] = 0
       THEN Goto("off") /\ UNCHANGED <<dirs, content>>
       ELSE Remove("staging") /\ Goto("forget")
    /\ UNCHANGED old

RecoverSource ==
    /\ journal # "none" /\ ~Exists("home")
    /\ \/ Exists("archive") = Exists("legacy") /\ Goto("off") /\ UNCHANGED <<dirs, content, old>>
       \/ Exists("archive") /\ ~Exists("legacy") /\ Rename("archive", "legacy") /\ UNCHANGED pc
       \/ ~Exists("archive") /\ Exists("legacy") /\ Remove("staging") /\ Goto("forget") /\ UNCHANGED old

\* Mutant: the archive is taken for a leftover and removed.
Recover_KeepsArchive ==
    /\ pc = "recover"
    /\ IF journal = "none" THEN Goto("check") /\ UNCHANGED <<dirs, content, old>>
       ELSE Remove("archive") /\ Goto("forget") /\ UNCHANGED old
    /\ UNCHANGED <<journal, workspace, locals, history, faults>>
Recover ==
    /\ pc = "recover"
    /\ \/ journal = "none" /\ Goto("check") /\ UNCHANGED <<dirs, content, old>>
       \/ RecoverPublished
       \/ RecoverSource
    /\ UNCHANGED <<journal, workspace, locals, history, faults>>

ForgetJournal ==
    /\ pc = "forget"
    /\ journal' = "none"
    /\ Goto("check")
    /\ UNCHANGED <<dirs, content, workspace, locals, old, history, faults>>

\* assertNoLegacyRuntimeProcesses: no process has its directory or a file in the source.
NoOldProcess == old = "none"

\* inspectLegacyRuntime: the source has its database, and no run of it is at work.
Inspected == NoOldProcess /\ content["legacy"][Database] # 0

\* Both, and ensureEmptyDestination.  The first fingerprint follows.
Check ==
    /\ pc = "check"
    /\ IF Inspected /\ ~Exists("home")
       THEN Goto("fingerprint") /\ todo' = Parts
       ELSE Goto("off") /\ UNCHANGED todo
    /\ UNCHANGED <<disk, noted, moved, installed, old, history, faults>>

Fingerprint(p) ==
    /\ pc = "fingerprint" /\ p \in todo
    /\ noted' = [noted EXCEPT ![p] = content["legacy"][p]]
    /\ todo' = todo \ {p}
    /\ UNCHANGED <<disk, pc, moved, installed, old, history, faults>>

Prepare ==
    /\ pc = "fingerprint" /\ todo = {}
    /\ journal' = "prepared"
    /\ todo' = Parts
    /\ Goto("copy")
    /\ UNCHANGED <<dirs, content, workspace, noted, moved, installed, old, history, faults>>

-----------------------------------------------------------------------------
(* migrateRuntime: the staged copy and the cutover.                        *)

Copy(p) ==
    /\ pc = "copy" /\ p \in todo
    /\ CopyPart(p, "legacy", "staging")
    /\ todo' = todo \ {p}
    /\ UNCHANGED <<journal, workspace, pc, noted, moved, installed, old, history, faults>>

\* No old process after the copy.  The terminal workspaces then stand aside while
\* git prunes the staged repositories, and are put back whether it worked or not.
Inspect ==
    /\ pc = "copy" /\ todo = {}
    /\ Goto(IF NoOldProcess THEN "quarantine" ELSE "undo")
    /\ UNCHANGED <<disk, locals, old, history, faults>>

Quarantine ==
    /\ pc = "quarantine"
    /\ IF workspace = "place" THEN workspace' = "quarantine" /\ Goto("prune") /\ UNCHANGED todo
                              ELSE Goto("compare") /\ todo' = Parts /\ UNCHANGED workspace
    /\ UNCHANGED <<dirs, content, journal, noted, moved, installed, old, history, faults>>

Prune ==
    /\ pc = "prune"
    /\ workspace' = "place"
    /\ \/ Goto("compare") /\ todo' = Parts /\ UNCHANGED faults
       \/ Fault /\ Goto("undo") /\ UNCHANGED todo
    /\ UNCHANGED <<dirs, content, journal, noted, moved, installed, old, history>>

\* The second fingerprint, and the last check before the source is archived.
\* Mutant: the fingerprints are not compared.
Compare_Not(p) ==
    /\ pc = "compare" /\ p \in todo
    /\ todo' = todo \ {p}
    /\ UNCHANGED <<disk, pc, noted, moved, installed, old, history, faults>>
Compare(p) ==
    /\ pc = "compare" /\ p \in todo
    /\ IF content["legacy"][p] = noted[p] THEN todo' = todo \ {p} /\ UNCHANGED pc
                                          ELSE Goto("undo") /\ UNCHANGED todo
    /\ UNCHANGED <<disk, noted, moved, installed, old, history, faults>>

Compared ==
    /\ pc = "compare" /\ todo = {}
    /\ Goto(IF NoOldProcess THEN "archive" ELSE "undo")
    /\ UNCHANGED <<disk, locals, old, history, faults>>

Archive ==
    /\ pc = "archive"
    /\ IF Exists("legacy") THEN Rename("legacy", "archive") /\ Goto("recheck")
                           ELSE Goto("undo") /\ UNCHANGED <<dirs, content, old>>
    /\ UNCHANGED <<journal, workspace, locals, history, faults>>

\* A process with files in the archive, or a path that is back, undoes it all.
Recheck ==
    /\ pc = "recheck"
    /\ Goto(IF NoOldProcess /\ ~Exists("legacy") THEN "archived" ELSE "undo")
    /\ UNCHANGED <<disk, locals, old, history, faults>>

JournalArchived ==
    /\ pc = "archived"
    /\ journal' = "source_archived"
    /\ Goto("publish")
    /\ UNCHANGED <<dirs, content, workspace, locals, old, history, faults>>

Publish ==
    /\ pc = "publish"
    /\ Rename("staging", "home")
    /\ Goto("published")
    /\ UNCHANGED <<journal, workspace, locals, history, faults>>

\* From here on errors are only reported.
JournalPublished ==
    /\ pc = "published"
    /\ \/ journal' = "published" /\ UNCHANGED faults
       \/ Fault /\ UNCHANGED journal
    /\ Goto("dispose")
    /\ UNCHANGED <<dirs, content, workspace, locals, old, history>>

Dispose ==
    /\ pc = "dispose"
    /\ \/ workspace' = "disposed" /\ UNCHANGED faults
       \/ Fault /\ UNCHANGED workspace
    /\ Goto("unlink")
    /\ UNCHANGED <<dirs, content, journal, locals, old, history>>

Unlink ==
    /\ pc = "unlink"
    /\ \/ journal' = "none" /\ UNCHANGED faults
       \/ Fault /\ UNCHANGED journal
    /\ Goto("off")
    /\ UNCHANGED <<dirs, content, workspace, locals, old, history>>

\* A step before the promotion throws.
Throw ==
    /\ pc \in Migrating \cup Guarded
    /\ Fault
    /\ Goto(IF pc \in Guarded THEN "undo" ELSE "off")
    /\ UNCHANGED <<disk, locals, old, history>>

\* The finally block: the staging directory, the archive, the journal.
Undo ==
    /\ pc = "undo"
    /\ \/ Remove("staging") /\ UNCHANGED faults
       \/ Fault /\ UNCHANGED <<dirs, content>>
    /\ Goto("unarchive")
    /\ UNCHANGED <<journal, workspace, locals, old, history>>

Unarchive ==
    /\ pc = "unarchive"
    /\ \/ ~Exists("archive") /\ Goto("withdraw") /\ UNCHANGED <<dirs, content, old>>
       \/ Exists("archive") /\ Exists("legacy") /\ Goto("off") /\ UNCHANGED <<dirs, content, old>>
       \/ Exists("archive") /\ ~Exists("legacy") /\ Rename("archive", "legacy") /\ Goto("withdraw")
    /\ UNCHANGED <<journal, workspace, locals, history, faults>>

Withdraw ==
    /\ pc = "withdraw"
    /\ \/ journal' = "none" /\ UNCHANGED faults
       \/ Fault /\ UNCHANGED journal
    /\ Goto("off")
    /\ UNCHANGED <<dirs, content, workspace, locals, old, history>>

-----------------------------------------------------------------------------
(* backupRuntime: a directory of a fresh name, filled and then renamed.    *)

Backup ==
    /\ pc = "off"
    /\ Exists("home") /\ ~Exists("backup")
    /\ Remove("partial")
    /\ todo' = Parts /\ noted' = content["home"]
    /\ Goto("backup")
    /\ UNCHANGED <<journal, workspace, moved, installed, old, history, faults>>

BackupPart(p) ==
    /\ pc = "backup" /\ p \in todo
    /\ CopyPart(p, "home", "partial")
    /\ todo' = todo \ {p}
    /\ UNCHANGED <<journal, workspace, pc, noted, moved, installed, old, history, faults>>

Commit ==
    /\ pc = "backup" /\ todo = {}
    /\ Rename("partial", "backup")
    /\ noted' = Nothing
    /\ Goto("off")
    /\ UNCHANGED <<journal, workspace, todo, moved, installed, history, faults>>

BackupFails ==
    /\ pc = "backup"
    /\ Fault
    /\ Remove("partial")
    /\ todo' = {} /\ noted' = Nothing
    /\ Goto("off")
    /\ UNCHANGED <<journal, workspace, moved, installed, old, history>>

-----------------------------------------------------------------------------
(* restoreRuntime: everything is staged, then exchanged part by part; an   *)
(* error takes out what was installed and brings back what was moved.      *)

Restore ==
    /\ pc = "off"
    /\ Exists("home") /\ Exists("backup")
    /\ dirs' = (dirs \ {"staged"}) \cup {"aside"}
    /\ content' = [content EXCEPT !["staged"] = Nothing, !["aside"] = Nothing]
    /\ noted' = content["home"]
    /\ todo' = Parts /\ moved' = {} /\ installed' = {}
    /\ served' = TRUE /\ touched' = {}
    /\ Goto("stage")
    /\ UNCHANGED <<journal, workspace, old, truth, slipped, faults>>

Stage(p) ==
    /\ pc = "stage" /\ p \in todo
    /\ CopyPart(p, "backup", "staged")
    /\ todo' = todo \ {p}
    /\ UNCHANGED <<journal, workspace, pc, noted, moved, installed, old, history, faults>>

Staged ==
    /\ pc = "stage" /\ todo = {}
    /\ todo' = Parts
    /\ Goto("swap")
    /\ UNCHANGED <<disk, noted, moved, installed, old, history, faults>>

\* One part after the other: moveToArchive, then the rename of the staged one.
MovePart(p, from, to) ==
    content' = [content EXCEPT ![to][p] = content[from][p], ![from][p] = 0]

SetAside(p) ==
    /\ pc = "swap" /\ p \in todo /\ moved \cap todo = {}
    /\ content["home"][p] # 0
    /\ MovePart(p, "home", "aside")
    /\ moved' = moved \cup {p}
    /\ UNCHANGED <<dirs, journal, workspace, pc, todo, noted, installed, old, history, faults>>

\* The part has been moved, or there was none to move: the staged one takes its
\* place.  A slot directory written in between throws, unless a deletion has left
\* it empty; where nothing is staged it stays.  Mutant: what is installed is not
\* recorded.
Cleared(p) == p \in moved \/ content["home"][p] = 0 \/ (noted[p] = 0 /\ p \in touched)
Occupied(p) == content["staged"][p] # 0 /\ content["home"][p] # 0
PutInPlace(p) ==
    IF content["staged"][p] # 0 THEN MovePart(p, "staged", "home") ELSE UNCHANGED content

Install_Unrecorded(p) ==
    /\ pc = "swap" /\ p \in todo /\ moved \cap todo \subseteq {p}
    /\ Cleared(p)
    /\ \/ PutInPlace(p) /\ todo' = todo \ {p} /\ UNCHANGED pc
       \/ Occupied(p) /\ Goto("uninstall") /\ UNCHANGED <<content, todo>>
    /\ UNCHANGED <<dirs, journal, workspace, noted, moved, installed, old, history, faults>>
Install(p) ==
    /\ pc = "swap" /\ p \in todo /\ moved \cap todo \subseteq {p}
    /\ Cleared(p)
    /\ \/ /\ PutInPlace(p)
          /\ installed' = IF content["staged"][p] # 0 THEN installed \cup {p} ELSE installed
          /\ todo' = todo \ {p}
          /\ UNCHANGED pc
       \/ Occupied(p) /\ Goto("uninstall") /\ UNCHANGED <<content, installed, todo>>
    /\ UNCHANGED <<dirs, journal, workspace, noted, moved, old, history, faults>>

Restored ==
    /\ pc = "swap" /\ todo = {}
    /\ Goto("clean")
    /\ UNCHANGED <<disk, locals, old, history, faults>>

RestoreThrows ==
    /\ pc \in {"stage", "swap"}
    /\ Fault
    /\ Goto("uninstall")
    /\ UNCHANGED <<disk, locals, old, history>>

\* Whatever is in the place of an installed part is taken out.
Uninstall(p) ==
    /\ pc = "uninstall" /\ p \in installed
    /\ MovePart(p, "home", "staged")
    /\ installed' = installed \ {p}
    /\ UNCHANGED <<dirs, journal, workspace, pc, todo, noted, moved, old, history, faults>>

Uninstalled ==
    /\ pc = "uninstall" /\ installed = {}
    /\ Goto("return")
    /\ UNCHANGED <<disk, locals, old, history, faults>>

\* What was installed is out; a slot directory written since is in the way.
Return(p) ==
    /\ pc = "return" /\ p \in moved
    /\ content["home"][p] = 0
    /\ MovePart(p, "aside", "home")
    /\ moved' = moved \ {p}
    /\ UNCHANGED <<dirs, journal, workspace, pc, todo, noted, installed, old, history, faults>>

Returned ==
    /\ pc = "return" /\ moved = {}
    /\ Remove("aside")
    /\ Goto("clean")
    /\ UNCHANGED <<journal, workspace, locals, old, history, faults>>

\* An error of the rollback, or a part in the way of it, leaves the archive; the
\* finally block still runs.
RollbackFails ==
    /\ pc \in {"uninstall", "return"}
    /\ \/ Fault
       \/ pc = "return" /\ (\E p \in moved : content["home"][p] # 0) /\ UNCHANGED faults
    /\ Remove("staged")
    /\ Goto("off")
    /\ todo' = {} /\ moved' = {} /\ installed' = {} /\ noted' = Nothing
    /\ UNCHANGED <<journal, workspace, old, history>>

\* The finally block.
Clean ==
    /\ pc = "clean"
    /\ Remove("staged")
    /\ Goto("off")
    /\ todo' = {} /\ moved' = {} /\ installed' = {} /\ noted' = Nothing
    /\ UNCHANGED <<journal, workspace, old, history, faults>>

-----------------------------------------------------------------------------
\* The command is killed: the disk is all that is left.
Kill ==
    /\ pc # "off"
    /\ Fault
    /\ Goto("off")
    /\ todo' = {} /\ moved' = {} /\ installed' = {} /\ noted' = Nothing
    /\ UNCHANGED <<disk, old, history>>

Next ==
    \/ OldStarts \/ OldExits \/ \E p \in Parts : OldWrites(p) \/ ServiceWrites(p)
    \/ Migrate \/ RecoverOrphans \/ Recover \/ ForgetJournal \/ Check \/ Prepare
    \/ \E p \in Parts : Fingerprint(p) \/ Copy(p) \/ Compare(p)
    \/ Inspect \/ Quarantine \/ Prune \/ Compared \/ Archive \/ Recheck
    \/ JournalArchived \/ Publish \/ JournalPublished \/ Dispose \/ Unlink
    \/ Throw \/ Undo \/ Unarchive \/ Withdraw
    \/ Backup \/ Commit \/ BackupFails \/ \E p \in Parts : BackupPart(p)
    \/ Restore \/ Staged \/ Restored \/ RestoreThrows
    \/ \E p \in Parts : Stage(p) \/ SetAside(p) \/ Install(p) \/ Uninstall(p) \/ Return(p)
    \/ Uninstalled \/ Returned \/ RollbackFails \/ Clean
    \/ Kill

Spec == Init /\ [][Next]_vars

-----------------------------------------------------------------------------
(* What the data of an installation may rely on.                           *)

\* Whatever a migration does, and wherever it is killed, everything the old
\* PatchPaw has written is whole in the legacy runtime or in its archive.
SourceKept ==
    \E d \in {"legacy", "archive"} : Exists(d) /\ content[d] = truth

\* A home that migrateRuntime has published holds every part as it was last
\* written, though the old PatchPaw may write while the parts are copied one by
\* one; only a write after the last look at a part slips through.
PublishedComplete ==
    Exists("home") /\ ~served /\ ~slipped => content["home"] = truth

\* A runtime is archived with its terminal workspaces where they were, though a
\* migration may have been killed while they stood aside for git worktree prune.
WorkspacesInPlace ==
    Exists("archive") => workspace # "quarantine"

\* A backup is the home of one moment, though its parts are copied one by one: no
\* write that holds the lock falls between them.  An SCM slot, whose writes hold
\* none, is no older than at the start of the backup and no newer than at its end.
BackupIsConsistent ==
    [][~Exists("backup") /\ Exists("backup")'
       => \A p \in Parts : /\ noted[p] <= content'["backup"][p]
                           /\ content'["backup"][p] <= content["home"][p]
                           /\ p \notin Unlocked => noted[p] = content["home"][p]]_vars

\* A restore that returns, or throws and rolls back, leaves the backup or the
\* runtime it found, never a mixture, but for the SCM slots that the service wrote
\* meanwhile; only a kill or an error of the rollback may.
RestoreIsAtomic ==
    [][pc = "clean" /\ faults' = faults
       => \E d \in {content'["backup"], noted} :
             \A p \in Parts : content'["home"][p] = d[p] \/ p \in touched']_vars

=============================================================================
