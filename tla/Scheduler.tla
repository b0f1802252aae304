------------------------------ MODULE Scheduler ------------------------------
(***************************************************************************)
(* The communication scheduler (communication-scheduler.ts): the one pump  *)
(* of the server process, its wake-ups (communication-wake.ts) and its     *)
(* timer, over the tables of communication-store.ts.                       *)
(*                                                                         *)
(* What a delivery or a verification does is in Outbox and Conversation;   *)
(* here a row is only work that is due, not yet due, or nobody's turn.     *)
(* Instants are abstracted to whether they have come: a row becomes due at *)
(* any time after it was deferred, and an armed timer fires at any time.   *)
(*                                                                         *)
(* Every await of the pump is a step, between which workers and webhooks   *)
(* write rows and nudge the server over its socket.                        *)
(***************************************************************************)
EXTENDS Integers, FiniteSets

CONSTANTS
    Letters,     \* ids of the outbox rows of one pull request, 1 .. n
    Mails,       \* inbound comments
    Lifecycle,   \* the letters whose delivery is finalized afterwards
    Artifacts,   \* how many letters a former release left in its run files
    MaxFaults,   \* bound on crashes, dead writers and failed pumps
    MaxHelp      \* bound on what people make workers do to unsettled rows

ASSUME SchedulerAssumption ==
    /\ IsFiniteSet(Letters)
    /\ Letters = 1 .. Cardinality(Letters)
    /\ Mails \cap Letters = {}
    /\ Lifecycle \subseteq Letters
    /\ Artifacts \in Nat
    /\ {MaxFaults, MaxHelp} \subseteq Nat

VARIABLES
    status,      \* the status of every row; "delivered" if its finalization is open
    due,         \* the rows whose next instant has come
    owed,        \* a worker has committed rows, and the server has not read its nudge
    pc,          \* where the server is
    dirty,       \* the pump was asked to run (again)
    timer,       \* a timer is armed
    seen,        \* armDeadline read a deadline
    todo,        \* the rows a step of the pump listed and has not handled
    stopped,     \* stop() was called
    open,        \* the scheduler's store is open
    artifacts,   \* artifacts of the former release not yet imported
    unannounced, \* the tables changed without a nudge since the deadline was read
    faults,      \* faults so far
    help         \* interventions so far

vars == <<status, due, owed, pc, dirty, timer, seen, todo, stopped, open,
          artifacts, unannounced, faults, help>>
memory == <<dirty, timer, seen, todo, stopped, open>>

-----------------------------------------------------------------------------
Items == Letters \cup Mails
Statuses == {"absent", "pending", "sending", "blocked", "delivered", "settled"}
Places == {"off", "opening", "listening", "idle", "lock", "round",
           "inbound", "drain", "send", "finalize", "deadline", "arm", "failed", "unlock"}

TypeOK ==
    /\ status \in [Items -> Statuses]
    /\ due \in SUBSET Items
    /\ todo \in SUBSET Items
    /\ pc \in Places
    /\ owed \in BOOLEAN /\ dirty \in BOOLEAN /\ timer \in BOOLEAN /\ seen \in BOOLEAN
    /\ stopped \in BOOLEAN /\ open \in BOOLEAN /\ unannounced \in BOOLEAN
    /\ artifacts \in 0 .. Artifacts
    /\ faults \in 0 .. MaxFaults
    /\ help \in 0 .. MaxHelp

Running == pc \notin {"off", "opening", "listening", "idle"}
Listening == pc \notin {"off", "opening"}

Past(l) == status[l] \in {"delivered", "settled"}
NextId(l) == status[l] = "absent" /\ \A k \in Letters : k < l => status[k] # "absent"
Head(l) == ~Past(l) /\ status[l] # "absent" /\ \A k \in Letters : k < l => Past(k)

\* The rows nextCommunicationDeadline takes the minimum of, and two mutants: one
\* gives a blocked head an instant, one has lost the second UNION ALL.
Waiting_AlsoBlocked ==
    {l \in Letters : Head(l) \/ status[l] = "delivered"} \cup {m \in Mails : status[m] = "pending"}
Waiting_Outstanding ==
    {l \in Letters : Head(l) /\ status[l] # "blocked"} \cup {m \in Mails : status[m] = "pending"}
Waiting ==
    {l \in Letters : Head(l) /\ status[l] # "blocked"}
    \cup {l \in Letters : status[l] = "delivered"}
    \cup {m \in Mails : status[m] = "pending"}

\* hasDueCommunication.
HasDue == Waiting \cap due # {}

Init ==
    /\ status = [i \in Items |-> "absent"]
    /\ due = {}
    /\ owed = FALSE
    /\ pc = "opening"
    /\ dirty = FALSE
    /\ timer = FALSE
    /\ seen = FALSE
    /\ todo = {}
    /\ stopped = FALSE
    /\ open = FALSE
    /\ artifacts = Artifacts
    /\ unannounced = FALSE
    /\ faults = 0
    /\ help = 0

Fault == faults < MaxFaults /\ faults' = faults + 1 /\ UNCHANGED help
Intervene == help < MaxHelp /\ help' = help + 1 /\ UNCHANGED faults
counters == <<faults, help>>
Put(i, s) == status' = [status EXCEPT ![i] = s]

-----------------------------------------------------------------------------
(* Workers and webhooks.                                                   *)

Others == <<pc, memory, artifacts>>

\* enqueueCommentDelivery and enqueueReviewDelivery: the row is committed, and
\* the nudge follows.
Enqueue(l) ==
    /\ NextId(l)
    /\ Put(l, "pending")
    /\ due' = due \cup {l}
    /\ owed' = TRUE
    /\ UNCHANGED <<Others, unannounced, counters>>

\* The writer dies before its connection was made.
WriterDies ==
    /\ owed
    /\ Fault
    /\ owed' = FALSE
    /\ unannounced' = TRUE
    /\ UNCHANGED <<Others, status, due>>

\* deliverImmediately: a worker attempts the head whether it is due or not.
WorkerClaims(l) ==
    /\ Head(l) /\ status[l] = "pending"
    /\ Put(l, "sending")
    /\ due' = due \ {l}
    /\ UNCHANGED <<Others, owed, unannounced, counters>>

\* An attempt ends: the row is delivered, due again later, or blocked.  Only the
\* status is compared, so an attempt that outlived its lease may settle the row
\* of the next one; that of a worker that died is left to the lease.
Delivered(l) ==
    /\ Put(l, IF l \in Lifecycle THEN "delivered" ELSE "settled")
    /\ due' = IF l \in Lifecycle THEN due \cup {l} ELSE due \ {l}
Deferred(l) == Put(l, "pending") /\ due' = due \ {l}
Blocked(l) == Put(l, "blocked") /\ due' = due \cup {l}
Settles(l) ==
    /\ status[l] = "sending"
    /\ Delivered(l) \/ Deferred(l) \/ Blocked(l)

WorkerSettles(l) ==
    /\ Settles(l)
    /\ UNCHANGED <<Others, owed, unannounced, counters>>

\* A worker finalizes what it delivered.
WorkerFinalizes(l) ==
    /\ status[l] = "delivered"
    /\ Put(l, "settled")
    /\ due' = due \ {l}
    /\ UNCHANGED <<Others, owed, unannounced, counters>>

\* requeueOldestBlockedDelivery, which nudges, and the requeue of
\* deliverImmediately, which does not.
OldestBlocked(l) == status[l] = "blocked" /\ \A k \in Letters : k < l => status[k] # "blocked"

Requeue(l) ==
    /\ Intervene
    /\ OldestBlocked(l)
    /\ Put(l, "pending")
    /\ due' = due \cup {l}
    /\ owed' = TRUE
    /\ UNCHANGED <<Others, unannounced>>

RequeueQuietly(l) ==
    /\ Intervene
    /\ OldestBlocked(l)
    /\ Put(l, "pending")
    /\ due' = due \cup {l}
    /\ unannounced' = TRUE
    /\ UNCHANGED <<Others, owed>>

\* cancelOutboundDelivery of a letter nobody is sending, and deferDelivery of one
\* whose connection could not be made: neither nudges.  The cancelled row is
\* marked finalized by a second statement (WorkerFinalizes), unless the process
\* dies before it or the server finalizes the row first.
Cancel(l) ==
    /\ Intervene
    /\ status[l] \in {"pending", "blocked"}
    /\ Delivered(l)
    /\ unannounced' = TRUE
    /\ UNCHANGED <<Others, owed>>

DeferDelivery(l) ==
    /\ Intervene
    /\ status[l] \in {"pending", "sending", "blocked"}
    /\ Deferred(l) \/ Blocked(l)
    /\ unannounced' = TRUE
    /\ UNCHANGED <<Others, owed>>

\* Time passes: an instant comes.
BecomesDue(i) ==
    /\ status[i] \in {"pending", "sending", "delivered"}
    /\ i \notin due
    /\ due' = due \cup {i}
    /\ UNCHANGED <<Others, status, owed, unannounced, counters>>

-----------------------------------------------------------------------------
(* The server.                                                             *)

tables == <<status, due, owed, artifacts, unannounced>>

Goto(place) == pc' = place

\* initialize: open the store, listen, scan.  Each ends the start if it fails.
OpenStore ==
    /\ pc = "opening"
    /\ open' = TRUE
    /\ Goto("listening")
    /\ UNCHANGED <<tables, dirty, timer, seen, todo, stopped, counters>>

Listen ==
    /\ pc = "listening"
    /\ Goto("lock")
    /\ UNCHANGED <<tables, memory, counters>>

\* requestPump, from the socket, the webhook or the timer.
RequestPump ==
    /\ dirty' = TRUE
    /\ IF pc = "idle" /\ ~stopped THEN Goto("lock") ELSE UNCHANGED pc

\* wakeCommunicationScheduler: a connection to the wake socket.  Nobody listens
\* while the server is down, and the nudge is lost.
Wake ==
    /\ owed
    /\ owed' = FALSE
    /\ IF Listening /\ ~stopped THEN RequestPump ELSE UNCHANGED <<dirty, pc>>
    /\ UNCHANGED <<status, due, artifacts, unannounced, timer, seen, todo, stopped, open,
                   counters>>

\* persistInboundComment in the server's own process: insertInbound, and the
\* listener is called at once.
Receive(m) ==
    /\ status[m] = "absent"
    /\ Listening /\ pc # "listening" /\ ~stopped
    /\ Put(m, "pending")
    /\ due' = due \cup {m}
    /\ RequestPump
    /\ UNCHANGED <<owed, artifacts, unannounced, timer, seen, todo, stopped, open,
                   counters>>

TimerFires ==
    /\ timer
    /\ timer' = FALSE
    /\ RequestPump
    /\ UNCHANGED <<tables, seen, todo, stopped, open, counters>>

\* The shared runtime lock is held; the loop begins.
Begin ==
    /\ pc = "lock"
    /\ dirty' = FALSE
    /\ Goto("round")
    /\ UNCHANGED <<tables, timer, seen, todo, stopped, open, counters>>

\* reconcileLegacyOutbox enqueues, through the semantic key at most once, what a
\* former release left in its run files; each row wakes this very scheduler.
Import ==
    /\ pc = "round"
    /\ artifacts > 0
    /\ artifacts' = artifacts - 1
    /\ \/ \E l \in Letters :
            /\ NextId(l)
            /\ Put(l, "pending")
            /\ due' = due \cup {l}
            /\ dirty' = TRUE
       \/ (\A l \in Letters : ~NextId(l)) /\ UNCHANGED <<status, due, dirty>>
    /\ UNCHANGED <<owed, pc, timer, seen, todo, stopped, open, unannounced, counters>>

\* recoverExpiredSending, and then the list of due inbound rows.
Expired == {l \in Letters : status[l] = "sending" /\ l \in due}
RecoverExpired ==
    /\ pc = "round"
    /\ artifacts = 0
    /\ status' = [i \in Items |-> IF i \in Expired THEN "pending" ELSE status[i]]
    /\ todo' = {m \in Mails \cap due : status[m] = "pending"}
    /\ Goto("inbound")
    /\ UNCHANGED <<due, owed, artifacts, unannounced, dirty, timer, seen, stopped,
                   open, counters>>

\* verifyInboundNow settles the row or puts it off.
Verify(m) ==
    /\ pc = "inbound" /\ m \in todo
    /\ todo' = todo \ {m}
    /\ due' = due \ {m}
    /\ Put(m, "settled") \/ UNCHANGED status
    /\ UNCHANGED <<owed, artifacts, unannounced, pc, dirty, timer, seen, stopped,
                   open, counters>>

\* drainDueDeliveries recovers once more and lists the due heads.
ListHeads ==
    /\ pc = "inbound" /\ todo = {}
    /\ status' = [i \in Items |-> IF i \in Expired THEN "pending" ELSE status[i]]
    /\ todo' = {l \in due \cap Letters : Head(l) /\ status[l] \in {"pending", "sending"}}
    /\ Goto("drain")
    /\ UNCHANGED <<due, owed, artifacts, unannounced, dirty, timer, seen, stopped,
                   open, counters>>

\* attemptDelivery: another process may have been faster.
Claim(l) ==
    /\ pc = "drain" /\ l \in todo
    /\ IF Head(l) /\ status[l] = "pending" /\ l \in due
       THEN Put(l, "sending") /\ due' = due \ {l} /\ Goto("send") /\ UNCHANGED todo
       ELSE todo' = todo \ {l} /\ UNCHANGED <<status, due, pc>>
    /\ UNCHANGED <<owed, artifacts, unannounced, dirty, timer, seen, stopped, open,
                   counters>>

\* The answer comes, and counts unless the lease expired or another process
\* settled the row meanwhile.
Answer(l) ==
    /\ pc = "send" /\ l \in todo
    /\ Settles(l) \/ (status[l] # "sending" /\ UNCHANGED <<status, due>>)
    /\ todo' = todo \ {l}
    /\ Goto("drain")
    /\ UNCHANGED <<owed, artifacts, unannounced, dirty, timer, seen, stopped, open,
                   counters>>

ListFinalizations ==
    /\ pc = "drain" /\ todo = {}
    /\ todo' = {l \in due \cap Letters : status[l] = "delivered"}
    /\ Goto("finalize")
    /\ UNCHANGED <<tables, dirty, timer, seen, stopped, open, counters>>

\* finalizeDelayedDelivery, or deferFinalization when a worker owns the pull
\* request or the row's handler fails: the row is due again later.  Mutant: it is
\* not put off.
Finalize_NotDeferred(l) ==
    /\ pc = "finalize" /\ l \in todo
    /\ todo' = todo \ {l}
    /\ \/ status[l] = "delivered" /\ Put(l, "settled") /\ due' = due \ {l}
       \/ UNCHANGED <<status, due>>
    /\ UNCHANGED <<owed, artifacts, unannounced, pc, dirty, timer, seen, stopped, open,
                   counters>>
Finalize(l) ==
    /\ pc = "finalize" /\ l \in todo
    /\ todo' = todo \ {l}
    /\ \/ status[l] = "delivered" /\ Put(l, "settled")
       \/ UNCHANGED status
    /\ due' = due \ {l}
    /\ UNCHANGED <<owed, artifacts, unannounced, pc, dirty, timer, seen, stopped,
                   open, counters>>

\* while (dirty || await hasDueCommunication()).
Again ==
    /\ pc = "finalize" /\ todo = {}
    /\ IF dirty \/ HasDue
       THEN dirty' = FALSE /\ Goto("round")
       ELSE UNCHANGED dirty /\ Goto("deadline")
    /\ UNCHANGED <<tables, timer, seen, todo, stopped, open, counters>>

\* armDeadline reads the deadline ...
ReadDeadline ==
    /\ pc \in {"deadline", "failed"}
    /\ IF stopped THEN Goto("unlock") /\ UNCHANGED <<seen, unannounced>>
       ELSE /\ seen' = (Waiting # {})
            /\ unannounced' = FALSE
            /\ Goto("arm")
    /\ UNCHANGED <<status, due, owed, artifacts, dirty, timer, todo, stopped, open,
                   counters>>

\* ... and arms the timer unless something happened meanwhile.
Arm_DespiteStop ==
    /\ pc = "arm"
    /\ timer' = (seen /\ ~dirty)
    /\ seen' = FALSE
    /\ Goto("unlock")
    /\ UNCHANGED <<tables, dirty, todo, stopped, open, counters>>
Arm ==
    /\ pc = "arm"
    /\ timer' = (seen /\ ~dirty /\ ~stopped)
    /\ seen' = FALSE
    /\ Goto("unlock")
    /\ UNCHANGED <<tables, dirty, todo, stopped, open, counters>>

\* The lock is released; a request that came too late for the loop starts the
\* next pump.  Mutant: it does not.
EndPump_Forgets ==
    /\ pc = "unlock"
    /\ Goto("idle")
    /\ UNCHANGED <<tables, memory, counters>>
EndPump ==
    /\ pc = "unlock"
    /\ Goto(IF dirty /\ ~stopped THEN "lock" ELSE "idle")
    /\ UNCHANGED <<tables, memory, counters>>

\* A step throws: the error is logged and the deadline armed once more, and if
\* that fails too the timer stays as it is.
Throw ==
    /\ Running /\ pc \notin {"arm", "unlock"}
    /\ Fault
    /\ todo' = {}
    /\ \/ pc # "failed" /\ Goto("failed") /\ UNCHANGED unannounced
       \/ pc = "failed" /\ Goto("unlock") /\ unannounced' = TRUE
    /\ UNCHANGED <<status, due, owed, artifacts, dirty, timer, seen, stopped, open>>

\* stop(), which index.ts calls once the initial pump was started: no further
\* pump, no timer, no connection.
Stop ==
    /\ ~stopped /\ Listening /\ pc # "listening"
    /\ stopped' = TRUE
    /\ timer' = FALSE
    /\ UNCHANGED <<tables, pc, dirty, seen, todo, open, counters>>

\* It closes the store when the pump that was running has ended.
CloseStore ==
    /\ stopped /\ open
    /\ pc = "idle"
    /\ open' = FALSE
    /\ UNCHANGED <<tables, pc, dirty, timer, seen, todo, stopped, counters>>

\* The process dies, or ends itself when its wake socket fails.
Die ==
    /\ pc # "off"
    /\ Fault
    /\ Goto("off")
    /\ dirty' = FALSE /\ timer' = FALSE /\ seen' = FALSE
    /\ todo' = {} /\ stopped' = FALSE /\ open' = FALSE
    /\ UNCHANGED tables

Restart ==
    /\ pc = "off"
    /\ Goto("opening")
    /\ UNCHANGED <<tables, memory, counters>>

Pump ==
    \/ Begin \/ Import \/ RecoverExpired
    \/ \E m \in Mails : Verify(m)
    \/ ListHeads
    \/ \E l \in Letters : Claim(l) \/ Answer(l)
    \/ ListFinalizations
    \/ \E l \in Letters : Finalize(l)
    \/ Again \/ ReadDeadline \/ Arm \/ EndPump

Server ==
    \/ \E m \in Mails : Receive(m)
    \/ OpenStore \/ Listen \/ Wake \/ TimerFires \/ Pump \/ CloseStore \/ Restart

Writers ==
    \/ WriterDies
    \/ \E i \in Items : BecomesDue(i)
    \/ \E l \in Letters :
         \/ Enqueue(l)
         \/ WorkerClaims(l) \/ WorkerSettles(l) \/ WorkerFinalizes(l)
         \/ Requeue(l) \/ RequeueQuietly(l) \/ Cancel(l) \/ DeferDelivery(l)

Next == Server \/ Writers \/ Throw \/ Stop \/ Die

Spec == Init /\ [][Next]_vars

\* Every step of the server is taken in the end (its awaits resolve), an armed
\* timer fires, the nudge of a writer that lives arrives.
FairSpec ==
    /\ Spec
    /\ WF_vars(OpenStore) /\ WF_vars(Listen) /\ WF_vars(Restart)
    /\ WF_vars(Pump) /\ WF_vars(TimerFires) /\ WF_vars(Wake)

-----------------------------------------------------------------------------
(* Properties.                                                             *)

\* A scheduler at rest while the tables hold something to do later has a timer
\* armed, or somebody is about to wake it: no request is lost between the read
\* of the deadline, the arming and the end of the pump.  The exceptions are
\* named: a writer died before its nudge, the tables were changed without one
\* (deliverImmediately's requeue, a cancellation, a deferral), or arming failed
\* twice.
AwakeOrArmed ==
    pc = "idle" /\ ~stopped /\ Waiting # {} =>
        timer \/ owed \/ unannounced

\* stop() leaves no timer behind, whatever the pump was about to arm, and the
\* store is not closed under a pump.
StopsCleanly ==
    /\ stopped => ~timer
    /\ Running => open

\* What is due is handled: attempted, verified, finalized or put off, unless the
\* tables changed without a nudge or the server is down.
DueIsHandled ==
    \A i \in Items :
        i \in Waiting \cap due ~>
            i \notin Waiting \cap due \/ unannounced \/ stopped \/ pc = "off"

\* The loop of a pump ends, unless the tables keep changing under it: what its
\* condition calls due, a step of it lists and handles.
NeverSpins ==
    []<>(~Running \/ pc = "unlock") \/ []<><<status' # status \/ due' # due>>_vars

\* Time passes, and a handler that fails any number of times, but is tried over
\* and over, works at last.  Nothing is assumed of a single attempt.
HandlersWork ==
    \A l \in Lifecycle :
        /\ WF_vars(BecomesDue(l))
        /\ SF_vars(Finalize(l) /\ status'[l] = "settled")

\* A letter that was delivered or cancelled is finalized at last, however often its
\* handler failed or found a worker on the pull request and was put off, and
\* whatever throws or dies meanwhile: the pump comes back to it.  It does not if the
\* server is stopped for good, or if the last change of the tables was never
\* announced to it.
FinalizedAtLast ==
    HandlersWork =>
        \A l \in Lifecycle :
            <>[](status[l] = "delivered") => <>[](stopped \/ unannounced)

=============================================================================
