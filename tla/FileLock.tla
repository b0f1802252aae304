------------------------------ MODULE FileLock ------------------------------
(***************************************************************************)
(* The portable file lock of src/platform/lock.ts: shared and exclusive    *)
(* owners are directories named after their PID, and a fixed gate file,    *)
(* created by link(), serializes changes to them.                          *)
(*                                                                         *)
(* A client is one acquisition path of an operating-system process; a      *)
(* process may run several (the server's webhook handler and its           *)
(* scheduler).  One file-system call is one atomic step.  A process dies   *)
(* with all its clients and leaves its gate and owner directories behind;  *)
(* its PID is not reused while they exist, and a restarted program is a    *)
(* new process.                                                            *)
(***************************************************************************)
EXTENDS Integers, FiniteSets

CONSTANTS
    Clients,       \* acquisition paths
    Process,       \* the process of each client
    GateCrashers,  \* processes that may die while one of their clients has the gate
    Nobody         \* no client

Processes == {Process[c] : c \in Clients}

ASSUME FileLockAssumption ==
    /\ DOMAIN Process = Clients
    /\ Nobody \notin Clients

VARIABLES
    alive,   \* processes for which isProcessAlive is true
    pc,      \* where each client is
    mode,    \* the mode it asks for, or holds
    patience,\* how long it is ready to wait
    gate,    \* the client whose PID the gate file records, or Nobody
    owners   \* the clients whose owner directory exists

vars == <<alive, pc, mode, patience, gate, owners>>

Places == {"idle", "wait", "read", "reclaim", "scan", "enter", "entered", "refused",
           "holding", "dead"}
Modes == {"shared", "exclusive"}

\* nonblock: TRUE, a timeoutMs, or neither.
Patience == {"nonblock", "deadline", "forever"}

\* Clients between acquireGate and releaseGate.
InGate(c) == pc[c] \in {"scan", "enter", "entered", "refused"}

Alive(c) == Process[c] \in alive

Init ==
    /\ alive = Processes
    /\ pc = [c \in Clients |-> "idle"]
    /\ mode = [c \in Clients |-> "shared"]
    /\ patience = [c \in Clients |-> "forever"]
    /\ gate = Nobody
    /\ owners = {}

Goto(c, place) == pc' = [pc EXCEPT ![c] = place]

\* A busy lock: a nonblocking acquisition throws, one whose deadline has passed
\* too, the others sleep and poll again.
Busy(c) ==
    \/ patience[c] \in {"nonblock", "deadline"} /\ Goto(c, "idle")
    \/ patience[c] \in {"deadline", "forever"} /\ Goto(c, "wait")

-----------------------------------------------------------------------------
\* acquireFileLock on a path no enclosing context owns.
Start(c, m, t) ==
    /\ pc[c] = "idle"
    /\ Goto(c, "wait")
    /\ mode' = [mode EXCEPT ![c] = m]
    /\ patience' = [patience EXCEPT ![c] = t]
    /\ UNCHANGED <<alive, gate, owners>>

\* link(temporaryOwner, gatePath) succeeds.
LinkGate(c) ==
    /\ pc[c] = "wait"
    /\ gate = Nobody
    /\ gate' = c
    /\ Goto(c, "scan")
    /\ UNCHANGED <<alive, mode, patience, owners>>

\* link fails with EEXIST.
LinkFails(c) ==
    /\ pc[c] = "wait"
    /\ gate # Nobody
    /\ Goto(c, "read")
    /\ UNCHANGED <<alive, mode, patience, gate, owners>>

\* readFile(gatePath): a dead PID is reclaimed; a live one is busy, and so is a
\* gate that is gone again.
ReadGate(c) ==
    /\ pc[c] = "read"
    /\ IF gate # Nobody /\ ~ Alive(gate) THEN Goto(c, "reclaim") ELSE Busy(c)
    /\ UNCHANGED <<alive, mode, patience, gate, owners>>

\* rm(gatePath): whatever gate file is there by now.
RemoveGate(c) ==
    /\ pc[c] = "reclaim"
    /\ gate' = Nobody
    /\ Goto(c, "wait")
    /\ UNCHANGED <<alive, mode, patience, owners>>

\* removeStaleEntries, and a mutant that never fires.
Stale_Never(c, d) == FALSE
Stale(c, d) == ~ Alive(d)

\* canAcquire, and a mutant that forgets that readers exclude a writer.
CanAcquire_AnyMode(m, active) == \A d \in active : mode[d] # "exclusive"
CanAcquire(m, active) ==
    \/ m = "shared" /\ \A d \in active : mode[d] # "exclusive"
    \/ m = "exclusive" /\ active = {}

\* activeOwners removes the directories of dead owners and lists the rest.
ScanOwners(c) ==
    /\ pc[c] = "scan"
    /\ owners' = {d \in owners : ~ Stale(c, d)}
    /\ Goto(c, IF CanAcquire(mode[c], owners') THEN "enter" ELSE "refused")
    /\ UNCHANGED <<alive, mode, patience, gate>>

\* mkdir(ownerDirectory).
Enter(c) ==
    /\ pc[c] = "enter"
    /\ owners' = owners \cup {c}
    /\ Goto(c, "entered")
    /\ UNCHANGED <<alive, mode, patience, gate>>

\* releaseGate, in the finally of acquirePhysical; then the lock is held, or
\* the acquisition is busy or polls again.
ReleaseGate(c) ==
    /\ pc[c] \in {"entered", "refused"}
    /\ gate' = Nobody
    /\ IF pc[c] = "entered" THEN Goto(c, "holding") ELSE Busy(c)
    /\ UNCHANGED <<alive, mode, patience, owners>>

\* localRelease of the last count: rm(ownerDirectory), without the gate.
Release(c) ==
    /\ pc[c] = "holding"
    /\ owners' = owners \ {c}
    /\ Goto(c, "idle")
    /\ UNCHANGED <<alive, mode, patience, gate>>

\* A process dies wherever its clients are, in the gate only if it may.
Die(p) ==
    /\ p \in alive
    /\ p \in GateCrashers \/ \A c \in Clients : Process[c] = p => ~ InGate(c)
    /\ alive' = alive \ {p}
    /\ pc' = [c \in Clients |-> IF Process[c] = p THEN "dead" ELSE pc[c]]
    /\ UNCHANGED <<mode, patience, gate, owners>>

-----------------------------------------------------------------------------
\* What a client that has begun to acquire does next.
Acquire(c) ==
    \/ LinkGate(c) \/ LinkFails(c) \/ ReadGate(c) \/ RemoveGate(c)
    \/ ScanOwners(c) \/ Enter(c) \/ ReleaseGate(c)

Next ==
    \/ \E c \in Clients :
         \/ \E m \in Modes, t \in Patience : Start(c, m, t)
         \/ Acquire(c) \/ Release(c)
    \/ \E p \in Processes : Die(p)

Spec == Init /\ [][Next]_vars

\* A live process runs its pending file-system calls, and polls.
Fairness == \A c \in Clients : WF_vars(Acquire(c))

FairSpec == Spec /\ Fairness

-----------------------------------------------------------------------------
(* Properties.                                                             *)

TypeOK ==
    /\ alive \subseteq Processes
    /\ pc \in [Clients -> Places]
    /\ mode \in [Clients -> Modes]
    /\ patience \in [Clients -> Patience]
    /\ gate \in Clients \cup {Nobody}
    /\ owners \subseteq Clients

Holds(c) == pc[c] \in {"entered", "holding"}

\* Readers and writers: a live exclusive holder is alone, also after other
\* holders died with the lock and while their directories are being removed.
MutualExclusion ==
    \A c, d \in Clients :
      c # d /\ Holds(c) /\ Holds(d) => mode[c] = "shared" /\ mode[d] = "shared"

\* "A live PID is never reclaimed": the directory of a live holder stays.
HoldersKeepDirectory == \A c \in Clients : Holds(c) => c \in owners

\* The gate serializes changes to the owner directory: reclaimers of a dead gate
\* may race, but only one of them gets in.
OneInGate == \A c, d \in Clients : InGate(c) /\ InGate(d) => c = d

\* Dead owners and a dead gate never block the lock: once every other client is
\* idle or dead for good, no acquisition goes on for ever.
DeadDoNotBlock ==
    \A c \in Clients :
      <>[](\A d \in Clients \ {c} : pc[d] \in {"idle", "dead"})
      => []<>(pc[c] \in {"idle", "holding", "dead"})
=============================================================================
