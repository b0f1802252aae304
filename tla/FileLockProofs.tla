--------------------------- MODULE FileLockProofs ---------------------------
(***************************************************************************)
(* Theorems of FileLock, for every set of clients and every assignment of  *)
(* clients to processes, under LoneReclaimer: a process that may die       *)
(* between link and rm of the gate leaves at most one client that could    *)
(* reclaim it.  The runs of MCFileLock show both sides: lock_pass is an    *)
(* instance of the assumption, and lock_reclaim, where it is dropped,      *)
(* shows that the lock needs it (two reclaimers of a dead gate can both    *)
(* get in).                                                                *)
(***************************************************************************)
EXTENDS FileLock, TLAPS

\* Every gate that a crash may leave behind has at most one client to reclaim
\* it.  It holds when no process dies in the gate (GateCrashers = {}).
LoneReclaimer ==
    \A p \in GateCrashers :
      \A c, d \in Clients : Process[c] # p /\ Process[d] # p => c = d

\* The gate is the client's that is in it, or was when its process died.
GateHeld ==
    \A c \in Clients :
      /\ InGate(c) => gate = c
      /\ gate = c => InGate(c) \/ (~ Alive(c) /\ Process[c] \in GateCrashers)

\* Who is about to remove the gate file removes the dead one it read.
Reclaims == \A c \in Clients : pc[c] = "reclaim" => gate \in Clients /\ ~ Alive(gate)

\* The clients of dead processes, and only those, are dead.
DeadPlaces == \A c \in Clients : pc[c] = "dead" <=> ~ Alive(c)

\* A live client has a directory exactly while it holds the lock.
Directories == \A c \in Clients : Alive(c) => (c \in owners <=> Holds(c))

\* What ScanOwners saw is still true when the directory is made.
Cleared ==
    \A c \in Clients :
      pc[c] = "enter" =>
        \A d \in owners : mode[c] = "shared" /\ mode[d] = "shared"

\* Two directories are both shared, those of the dead included.
Compatible ==
    \A c, d \in owners : c # d => mode[c] = "shared" /\ mode[d] = "shared"

LockInv ==
    TypeOK /\ GateHeld /\ Reclaims /\ DeadPlaces /\ Directories /\ Cleared /\ Compatible

\* A live client is where one would expect it.
LEMMA HoldersAreLive ==
    ASSUME LockInv, NEW c \in Clients, Holds(c)
    PROVE  Alive(c) /\ c \in owners
  BY DEF LockInv, DeadPlaces, Directories, Holds

\* Behind a dead gate one client at most is alive.
LEMMA OneReclaimer ==
    ASSUME LoneReclaimer, LockInv, gate \in Clients, ~ Alive(gate),
           NEW c \in Clients, NEW d \in Clients, Alive(c), Alive(d)
    PROVE  c = d
<1>1. Process[gate] \in GateCrashers
  BY DEF LockInv, GateHeld, DeadPlaces, InGate
<1>2. Process[c] # Process[gate] /\ Process[d] # Process[gate]
  BY DEF Alive
<1> QED
  BY <1>1, <1>2 DEF LoneReclaimer

LEMMA LockInit == Init => LockInv
<1> SUFFICES ASSUME Init PROVE LockInv
  OBVIOUS
<1>1. \A c \in Clients : pc[c] = "idle" /\ Alive(c)
  BY DEF Init, Alive, Processes
<1>2. TypeOK
  BY DEF Init, TypeOK, Places, Modes, Patience
<1>3. GateHeld
  BY <1>1, FileLockAssumption DEF Init, GateHeld, InGate
<1>4. Reclaims /\ DeadPlaces /\ Directories /\ Cleared /\ Compatible
  BY <1>1 DEF Init, Reclaims, DeadPlaces, Directories, Cleared, Compatible, Holds
<1> QED
  BY <1>2, <1>3, <1>4 DEF LockInv

\* Type correctness is preserved by every step, whoever crashes.
LEMMA TypeStep == TypeOK /\ [Next]_vars => TypeOK'
<1> SUFFICES ASSUME TypeOK, [Next]_vars PROVE TypeOK'
  OBVIOUS
<1> USE FileLockAssumption DEF TypeOK, Goto, Busy
<1>1. ASSUME NEW c \in Clients, NEW m \in Modes, NEW t \in Patience, Start(c, m, t)
      PROVE  TypeOK'
  BY <1>1 DEF Start, Places
<1>2. ASSUME NEW c \in Clients, LinkGate(c) \/ LinkFails(c) \/ RemoveGate(c) PROVE TypeOK'
  BY <1>2 DEF LinkGate, LinkFails, RemoveGate, Places
<1>3. ASSUME NEW c \in Clients, ReadGate(c) PROVE TypeOK'
  BY <1>3 DEF ReadGate, Places
<1>4. ASSUME NEW c \in Clients, ScanOwners(c) PROVE TypeOK'
  BY <1>4 DEF ScanOwners, CanAcquire, Stale, Places
<1>5. ASSUME NEW c \in Clients, Enter(c) \/ Release(c) PROVE TypeOK'
  BY <1>5 DEF Enter, Release, Places
<1>6. ASSUME NEW c \in Clients, ReleaseGate(c) PROVE TypeOK'
  BY <1>6 DEF ReleaseGate, Places
<1>7. ASSUME NEW p \in Processes, Die(p) PROVE TypeOK'
  BY <1>7 DEF Die, Places
<1>8. CASE UNCHANGED vars
  BY <1>8 DEF vars
<1> QED
  BY <1>1, <1>2, <1>3, <1>4, <1>5, <1>6, <1>7, <1>8 DEF Next, Acquire

\* The type invariant of FileLock, also when processes die in the gate.
THEOREM LockTypes == Spec => []TypeOK
<1>1. Init => TypeOK
  BY LockInit DEF LockInv
<1> QED
  BY <1>1, TypeStep, PTL DEF Spec

\* The inductive step: one case per action, one conjunct of LockInv at a time.
LEMMA LockStep ==
    ASSUME LoneReclaimer, LockInv, [Next]_vars
    PROVE  LockInv'
<1> USE FileLockAssumption DEF TypeOK, Goto, Busy
<1>t. TypeOK /\ TypeOK'
  BY TypeStep DEF LockInv
<1> DEFINE Rest == GateHeld /\ Reclaims /\ DeadPlaces /\ Directories /\ Cleared /\ Compatible
<1>r. Rest
  BY DEF LockInv
<1>1. ASSUME NEW c \in Clients, NEW m \in Modes, NEW t \in Patience, Start(c, m, t)
      PROVE  Rest'
  <2>1. Alive(c) /\ c \notin owners
    BY <1>1, <1>t, <1>r DEF Start, DeadPlaces, Directories, Holds
  <2>2. GateHeld' /\ Reclaims' /\ DeadPlaces' /\ Directories'
    BY <1>1, <1>t, <1>r, <2>1
    DEF Start, GateHeld, Reclaims, DeadPlaces, Directories, InGate, Alive, Holds
  <2>3. Cleared' /\ Compatible'
    BY <1>1, <1>t, <1>r, <2>1 DEF Start, Cleared, Compatible
  <2> QED
    BY <2>2, <2>3
<1>2. ASSUME NEW c \in Clients, LinkGate(c) PROVE Rest'
  BY <1>2, <1>t, <1>r
  DEF LinkGate, GateHeld, Reclaims, DeadPlaces, Directories, Cleared, Compatible, InGate, Alive, Holds
<1>3. ASSUME NEW c \in Clients, LinkFails(c) PROVE Rest'
  BY <1>3, <1>t, <1>r
  DEF LinkFails, GateHeld, Reclaims, DeadPlaces, Directories, Cleared, Compatible, InGate, Alive, Holds
<1>4. ASSUME NEW c \in Clients, ReadGate(c) PROVE Rest'
  <2>1. PICK place \in {"idle", "wait", "reclaim"} :
          /\ pc' = [pc EXCEPT ![c] = place] /\ UNCHANGED <<alive, mode, patience, gate, owners>>
          /\ place = "reclaim" => gate \in Clients /\ ~ Alive(gate)
    BY <1>4, <1>t DEF ReadGate
  <2> QED
    BY <1>4, <2>1, <1>t, <1>r
    DEF ReadGate, GateHeld, Reclaims, DeadPlaces, Directories, Cleared, Compatible, InGate, Alive, Holds
<1>5. ASSUME NEW c \in Clients, RemoveGate(c) PROVE Rest'
  <2>1. gate \in Clients /\ ~ Alive(gate) /\ gate' = Nobody
    BY <1>5, <1>r DEF RemoveGate, Reclaims
  <2>2. \A d \in Clients : Alive(d) => d = c
    BY <1>5, <1>r, <2>1, OneReclaimer DEF RemoveGate, DeadPlaces
  <2>3. GateHeld' /\ Reclaims'
    BY <1>5, <1>t, <1>r, <2>1, <2>2
    DEF RemoveGate, GateHeld, Reclaims, DeadPlaces, InGate, Alive
  <2>4. DeadPlaces' /\ Directories' /\ Cleared' /\ Compatible'
    BY <1>5, <1>t, <1>r
    DEF RemoveGate, DeadPlaces, Directories, Cleared, Compatible, Alive, Holds
  <2> QED
    BY <2>3, <2>4
<1>6. ASSUME NEW c \in Clients, ScanOwners(c) PROVE Rest'
  <2>1. GateHeld' /\ Reclaims' /\ DeadPlaces' /\ Directories'
    BY <1>6, <1>t, <1>r
    DEF ScanOwners, CanAcquire, Stale, GateHeld, Reclaims, DeadPlaces, Directories, InGate, Alive, Holds
  <2>2. Cleared'
    <3>1. \A d \in Clients : pc[d] = "enter" => d = c
      BY <1>6, <1>r DEF ScanOwners, CanAcquire, Stale, GateHeld, InGate
    <3> QED
      BY <1>6, <1>t, <1>r, <3>1 DEF ScanOwners, CanAcquire, Stale, Cleared, Modes
  <2>3. Compatible'
    BY <1>6, <1>r DEF ScanOwners, CanAcquire, Stale, Compatible
  <2> QED
    BY <2>1, <2>2, <2>3
<1>7. ASSUME NEW c \in Clients, Enter(c) PROVE Rest'
  <2>1. GateHeld' /\ Reclaims' /\ DeadPlaces' /\ Directories'
    BY <1>7, <1>t, <1>r
    DEF Enter, GateHeld, Reclaims, DeadPlaces, Directories, InGate, Alive, Holds
  <2>2. \A d \in Clients : pc[d] = "enter" => d = c
    BY <1>7, <1>r DEF Enter, GateHeld, InGate
  <2>3. Cleared'
    BY <1>7, <1>t, <2>2 DEF Enter, Cleared
  <2>4. Compatible'
    BY <1>7, <1>t, <1>r DEF Enter, Cleared, Compatible
  <2> QED
    BY <2>1, <2>3, <2>4
<1>8. ASSUME NEW c \in Clients, ReleaseGate(c) PROVE Rest'
  <2>1. PICK place \in {"idle", "wait", "holding"} :
          /\ pc' = [pc EXCEPT ![c] = place]
          /\ place = "holding" <=> pc[c] = "entered"
    BY <1>8 DEF ReleaseGate
  <2>2. gate = c /\ gate' = Nobody
    BY <1>8, <1>r DEF ReleaseGate, GateHeld, InGate
  <2>3. GateHeld' /\ Reclaims' /\ DeadPlaces'
    BY <1>8, <1>t, <1>r, <2>1, <2>2
    DEF ReleaseGate, GateHeld, Reclaims, DeadPlaces, InGate, Alive
  <2>4. Directories' /\ Cleared' /\ Compatible'
    BY <1>8, <1>t, <1>r, <2>1
    DEF ReleaseGate, Directories, Cleared, Compatible, Alive, Holds
  <2> QED
    BY <2>3, <2>4
<1>9. ASSUME NEW c \in Clients, Release(c) PROVE Rest'
  BY <1>9, <1>t, <1>r
  DEF Release, GateHeld, Reclaims, DeadPlaces, Directories, Cleared, Compatible, InGate, Alive, Holds
<1>10. ASSUME NEW p \in Processes, Die(p) PROVE Rest'
  <2>1. \A c \in Clients : Process[c] = p => p \in GateCrashers \/ ~ InGate(c)
    BY <1>10 DEF Die
  <2>2. \A c \in Clients : pc'[c] = (IF Process[c] = p THEN "dead" ELSE pc[c])
    BY <1>10 DEF Die
  <2>3. \A c \in Clients : Alive(c)' <=> Alive(c) /\ Process[c] # p
    BY <1>10 DEF Die, Alive
  <2>4. GateHeld' /\ Reclaims' /\ DeadPlaces'
    BY <1>10, <1>r, <2>1, <2>2, <2>3 DEF Die, GateHeld, Reclaims, DeadPlaces, InGate
  <2>5. Directories' /\ Cleared' /\ Compatible'
    BY <1>10, <1>r, <2>2, <2>3 DEF Die, Directories, Cleared, Compatible, Holds
  <2> QED
    BY <2>4, <2>5
<1>11. ASSUME UNCHANGED vars PROVE Rest'
  <2>1. GateHeld' /\ Reclaims' /\ DeadPlaces'
    BY <1>11, <1>r DEF vars, GateHeld, Reclaims, DeadPlaces, InGate, Alive
  <2>2. Directories' /\ Cleared' /\ Compatible'
    BY <1>11, <1>r DEF vars, Directories, Cleared, Compatible, Alive, Holds
  <2> QED
    BY <2>1, <2>2
<1> HIDE DEF Rest
<1>12. Rest'
  BY <1>1, <1>2, <1>3, <1>4, <1>5, <1>6, <1>7, <1>8, <1>9, <1>10, <1>11 DEF Next, Acquire
<1> QED
  BY <1>t, <1>12 DEF LockInv, Rest

\* The invariant holds always, as long as no dead gate has two reclaimers.
LEMMA LockAlways == ASSUME LoneReclaimer PROVE Spec => []LockInv
<1>1. LockInv /\ [Next]_vars => LockInv'
  BY LockStep
<1> QED
  BY LockInit, <1>1, PTL DEF Spec

\* Readers and writers: acquirePhysical never lets two live clients hold the lock
\* unless both are shared, whatever the processes do and wherever they die, the
\* gate included if at most one client is left to reclaim it.
THEOREM LockExcludes == ASSUME LoneReclaimer PROVE Spec => []MutualExclusion
<1>1. LockInv => MutualExclusion
  BY HoldersAreLive DEF LockInv, Compatible, MutualExclusion
<1> QED
  BY LockAlways, <1>1, PTL

\* "A live PID is never reclaimed": a live holder keeps its directory.
THEOREM LockKept == ASSUME LoneReclaimer PROVE Spec => []HoldersKeepDirectory
<1>1. LockInv => HoldersKeepDirectory
  BY HoldersAreLive DEF HoldersKeepDirectory
<1> QED
  BY LockAlways, <1>1, PTL

\* The gate serializes changes to the owner directory.
THEOREM GateSerializes == ASSUME LoneReclaimer PROVE Spec => []OneInGate
<1>1. LockInv => OneInGate
  BY DEF LockInv, GateHeld, OneInGate
<1> QED
  BY LockAlways, <1>1, PTL
=============================================================================
