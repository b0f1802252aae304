------------------------------- MODULE Outbox -------------------------------
(***************************************************************************)
(* The durable outbox of src/runner/communication-store.ts and the         *)
(* delivery loop of src/runner/outbound.ts.                                *)
(*                                                                         *)
(* Every comment or review PatchPaw wants to publish is first a row of     *)
(* outbound_delivery, keyed by a semantic key.  Several processes (the     *)
(* server's scheduler and the per-PR workers) claim rows under a lease,    *)
(* POST them to the SCM, and record the outcome.  One SQL statement is one *)
(* atomic step; everything between two statements (resolving a connection, *)
(* listing the remote comments, the POST itself, its answer) is a step of  *)
(* its own, so senders interleave freely and may crash anywhere.           *)
(*                                                                         *)
(* Time is abstracted to what the SQL compares with it: `due` is           *)
(* next_attempt_at <= now, `lease` says whether sending_until_at is in the *)
(* future.  A remote comment is the pair <<key, attempt number>> of the    *)
(* claim that POSTed it: claims strictly increase attempt_count, so the    *)
(* pair names one POST.                                                    *)
(***************************************************************************)
EXTENDS Integers, FiniteSets

CONSTANTS
    Keys,          \* semantic keys: at most one row each, UNIQUE(repo, pr, semantic_key)
    PRof,          \* the pull request of each key
    Purpose,       \* the purpose of each key
    AlwaysLookup,  \* keys whose every attempt lists the remote first
    Senders,       \* processes that call attemptDelivery
    Scheduler,     \* the one of them that never forces a claim
    NoKey,         \* not a key
    Timely,        \* TRUE: no attempt outlives its claim on the row, and nobody
                   \* takes the claim away by deferring the row
    MaxFaults      \* bound on crashes, failures and lease overruns

LIFECYCLE_PURPOSES ==
    {"pr_review", "run_notice", "approval_plan", "conflict_proposal",
     "conflict_repair", "close_start", "close_completion", "close_refusal"}

Purposes == LIFECYCLE_PURPOSES \cup {"delivery_report"}

ASSUME OutboxAssumption ==
    /\ Purpose \in [Keys -> Purposes]
    /\ AlwaysLookup \subseteq Keys
    /\ \A k \in Keys : Purpose[k] = "pr_review" => k \in AlwaysLookup
    /\ Scheduler \in Senders
    /\ NoKey \notin Keys
    /\ Timely \in BOOLEAN
    /\ MaxFaults \in Nat

ASSUME PRAssumption == DOMAIN PRof = Keys

\* Purposes whose rows deferDelivery can hit (publishRunNotice, entryLifecycle)
\* and those /close and a superseding proposal cancel.
Deferrable == {k \in Keys : Purpose[k] \in {"run_notice", "close_start"}}
Retirable ==
    {k \in Keys : Purpose[k] \in {"approval_plan", "conflict_proposal", "conflict_repair"}}

VARIABLES
    row,       \* the outbound_delivery table, one record per semantic key
    nextSeq,   \* the AUTOINCREMENT id of the next row
    sender,    \* the attempt each process is in the middle of
    wire,      \* POSTs sent and not yet processed by the SCM
    remote,    \* comments the SCM holds
    moved,     \* reviews whose head is no longer the pull request's
    retiring,  \* the row /close has read and is about to cancel, or NoKey
    faults     \* faults so far

vars == <<row, nextSeq, sender, wire, remote, moved, retiring, faults>>

-----------------------------------------------------------------------------
TerminalStatus == {"delivered", "cancelled_stale"}
Statuses ==
    {"absent", "pending", "sending", "pending_retry", "blocked"} \cup TerminalStatus
Errors == {"none", "sending_lease_expired", "transport", "http", "stale", "superseded"}

Row == [status : Statuses, seq : Nat, attempts : Nat,
        lease : {"none", "live", "expired"}, due : BOOLEAN, err : Errors,
        receipt : Nat, lifecycle : {"pending", "finalized"}]

Steps == {"idle", "claimed", "looked", "posting", "acked",
          "transient", "permanent", "stale"}
Attempt == [pc : Steps, key : Keys \cup {NoKey}, n : Nat, got : Nat]
Comments == Keys \X Nat

NoRow == [status |-> "absent", seq |-> 0, attempts |-> 0, lease |-> "none",
          due |-> FALSE, err |-> "none", receipt |-> 0, lifecycle |-> "pending"]
Idle == [pc |-> "idle", key |-> NoKey, n |-> 0, got |-> 0]

Present(k) == row[k].status # "absent"
Terminal(k) == row[k].status \in TerminalStatus

\* j was enqueued before k on the same pull request.
Older(j, k) == Present(j) /\ PRof[j] = PRof[k] /\ row[j].seq < row[k].seq

\* The rows claimOutbound's NOT EXISTS looks for, and mutants of it.
HoldsBack_Never(j) == FALSE
HoldsBack_NotBlocked(j) == row[j].status \in {"pending", "sending"}
HoldsBack(j) == ~ Terminal(j)

\* The statuses claimOutbound takes, and a mutant.
CLAIMABLE_First == {"pending"}
CLAIMABLE == {"pending", "pending_retry"}

\* Mutant: only reviews and adapters list the remote.
LooksUp_NotOnRetry(k, n) == k \in AlwaysLookup

\* send() lists the remote first on a retry, a review, an adapter or a legacy marker.
LooksUp(k, n) == n > 1 \/ k \in AlwaysLookup

Fault == faults < MaxFaults /\ faults' = faults + 1

Init ==
    /\ row = [k \in Keys |-> NoRow]
    /\ nextSeq = 1
    /\ sender = [p \in Senders |-> Idle]
    /\ wire = {}
    /\ remote = {}
    /\ moved = {}
    /\ retiring = NoKey
    /\ faults = 0

-----------------------------------------------------------------------------
(* Statements any process executes on the table.                           *)

\* enqueueOutbound: a second enqueue of the same key does nothing.
Enqueue(k) ==
    /\ ~ Present(k)
    /\ row' = [row EXCEPT ![k] =
                 [NoRow EXCEPT !.status = "pending", !.seq = nextSeq, !.due = TRUE,
                    !.lifecycle = IF Purpose[k] \in LIFECYCLE_PURPOSES
                                  THEN "pending" ELSE "finalized"]]
    /\ nextSeq' = nextSeq + 1
    /\ UNCHANGED <<sender, wire, remote, moved, retiring, faults>>

Expired(k) == row[k].status = "sending" /\ row[k].lease = "expired"

\* recoverExpiredSending: one UPDATE over every expired row.
RecoverExpired ==
    /\ \E k \in Keys : Expired(k)
    /\ row' = [k \in Keys |->
                 IF Expired(k)
                 THEN [row[k] EXCEPT
                        !.status = "pending_retry", !.lease = "none", !.due = TRUE,
                        !.attempts = IF @ < 2 THEN 2 ELSE @,
                        !.err = "sending_lease_expired"]
                 ELSE row[k]]
    /\ UNCHANGED <<nextSeq, sender, wire, remote, moved, retiring, faults>>

\* recordOutboundFailure, from deferDelivery: a process that could not get a
\* connection for its row defers it without looking whether it is being sent.
\* That ends the claim of the process that sends it, at any point of its lease;
\* it is left out with the overruns, although no clock is involved.
Defer(k, transient) ==
    /\ k \in Deferrable
    /\ row[k].status \notin {"absent"} \cup TerminalStatus
    /\ Timely => row[k].status # "sending"
    /\ Fault
    /\ row' = [row EXCEPT ![k] = [@ EXCEPT
                 !.status = IF transient THEN "pending_retry" ELSE "blocked",
                 !.attempts = row[k].attempts + (IF row[k].status = "sending" THEN 0 ELSE 1),
                 !.err = IF transient THEN "transport" ELSE "http",
                 !.lease = "none", !.due = ~ transient]]
    /\ UNCHANGED <<nextSeq, sender, wire, remote, moved, retiring>>

\* requeueOldestBlocked: on a new human reply, or a forced delivery of a blocked row.
RequeueOldestBlocked(k) ==
    /\ row[k].status = "blocked"
    /\ \A j \in Keys : Older(j, k) => row[j].status # "blocked"
    /\ row' = [row EXCEPT ![k] =
                 [@ EXCEPT !.status = "pending", !.due = TRUE, !.err = "none"]]
    /\ UNCHANGED <<nextSeq, sender, wire, remote, moved, retiring, faults>>

\* The retire loops of close.ts: read the row, skip a sending one and one whose
\* lease expired, then cancel.  The read and the UPDATE are two statements.
RetireRead(k) ==
    /\ retiring = NoKey
    /\ k \in Retirable
    /\ row[k].status \in {"pending", "pending_retry", "blocked"}
    /\ ~ (row[k].status = "pending_retry" /\ row[k].err = "sending_lease_expired")
    /\ retiring' = k
    /\ UNCHANGED <<row, nextSeq, sender, wire, remote, moved, faults>>

\* The WHERE of cancelOutboundStale.
Cancellable(k) == row[k].status \notin {"absent", "sending"} \cup TerminalStatus

\* cancelOutboundStale: only the statement's own WHERE protects the row.
CancelOutboundStale ==
    /\ retiring # NoKey
    /\ row' = IF Cancellable(retiring)
              THEN [row EXCEPT ![retiring] =
                     [@ EXCEPT !.status = "cancelled_stale", !.err = "superseded",
                               !.lease = "none", !.due = TRUE]]
              ELSE row
    /\ retiring' = NoKey
    /\ UNCHANGED <<nextSeq, sender, wire, remote, moved, faults>>

\* The rows markFinalized and listDueFinalizations take.
Finalizable(k) == Terminal(k) /\ row[k].lifecycle = "pending"

\* markFinalized, after the row's finalization handler (or cancel) is done.  A
\* handler that fails only puts the row off (deferFinalization); whether it is ever
\* taken up again is a question for the pump, and Scheduler answers it.
MarkFinalized(k) ==
    /\ Finalizable(k)
    /\ row' = [row EXCEPT ![k] = [@ EXCEPT !.lifecycle = "finalized"]]
    /\ UNCHANGED <<nextSeq, sender, wire, remote, moved, retiring, faults>>

-----------------------------------------------------------------------------
(* attemptDelivery: one attempt of one process.                            *)

\* claimOutbound: due unless forced, and no open older row of the pull request.
ClaimOutbound(p, k) ==
    /\ sender[p].pc = "idle"
    /\ row[k].status \in CLAIMABLE
    /\ row[k].due \/ p # Scheduler
    /\ \A j \in Keys : Older(j, k) => ~ HoldsBack(j)
    /\ row' = [row EXCEPT ![k] =
                 [@ EXCEPT !.status = "sending", !.attempts = row[k].attempts + 1,
                           !.lease = "live", !.due = FALSE]]
    /\ sender' = [sender EXCEPT ![p] =
                    [pc |-> "claimed", key |-> k, n |-> row[k].attempts + 1, got |-> 0]]
    /\ UNCHANGED <<nextSeq, wire, remote, moved, retiring, faults>>

\* The connection, the listing or the freshness check fails before any POST.
FailBeforePost(p, outcome) ==
    /\ sender[p].pc \in {"claimed", "looked"}
    /\ outcome \in {"transient", "permanent"}
    /\ Fault
    /\ sender' = [sender EXCEPT ![p].pc = outcome]
    /\ UNCHANGED <<row, nextSeq, wire, remote, moved, retiring>>

\* assertFresh: the head moved (or the PR closed) before or after the listing.
FindStale(p) ==
    /\ sender[p].pc \in {"claimed", "looked"}
    /\ sender[p].key \in moved
    /\ sender' = [sender EXCEPT ![p].pc = "stale"]
    /\ UNCHANGED <<row, nextSeq, wire, remote, moved, retiring, faults>>

\* The listing: adopt a comment that carries this row's marker, or find none.
Lookup(p) ==
    LET k == sender[p].key
        found == {c \in remote : c[1] = k}
    IN /\ sender[p].pc = "claimed"
       /\ LooksUp(k, sender[p].n)
       /\ k \notin moved
       /\ \/ \E c \in found : 
               sender' = [sender EXCEPT ![p].pc = "acked", ![p].got = c[2]]
          \/ /\ found = {}
             /\ sender' = [sender EXCEPT ![p].pc = "looked"]
       /\ UNCHANGED <<row, nextSeq, wire, remote, moved, retiring, faults>>

\* createComment or createReview leaves the process.
Post(p) ==
    /\ \/ sender[p].pc = "claimed" /\ ~ LooksUp(sender[p].key, sender[p].n)
       \/ sender[p].pc = "looked"
    /\ sender[p].key \notin moved
    /\ wire' = wire \cup {<<sender[p].key, sender[p].n>>}
    /\ sender' = [sender EXCEPT ![p].pc = "posting"]
    /\ UNCHANGED <<row, nextSeq, remote, moved, retiring, faults>>

\* The SCM answers with the comment it created.
Answer(p) ==
    /\ sender[p].pc = "posting"
    /\ <<sender[p].key, sender[p].n>> \in remote
    /\ sender' = [sender EXCEPT ![p].pc = "acked", ![p].got = sender[p].n]
    /\ UNCHANGED <<row, nextSeq, wire, remote, moved, retiring, faults>>

\* The request was refused or lost on the way: an error for certain.
Refused(p, outcome) ==
    /\ sender[p].pc = "posting"
    /\ <<sender[p].key, sender[p].n>> \notin wire \cup remote
    /\ outcome \in {"transient", "permanent"}
    /\ sender' = [sender EXCEPT ![p].pc = outcome]
    /\ UNCHANGED <<row, nextSeq, wire, remote, moved, retiring, faults>>

\* The answer is lost: a transport error although the POST did or may land.
LoseAnswer(p) ==
    /\ sender[p].pc = "posting"
    /\ <<sender[p].key, sender[p].n>> \in remote \cup wire
    /\ Timely => <<sender[p].key, sender[p].n>> \notin wire
    /\ Fault
    /\ sender' = [sender EXCEPT ![p].pc = "transient"]
    /\ UNCHANGED <<row, nextSeq, wire, remote, moved, retiring>>

\* Mutant: the UPDATE has no status condition.
Settle_AnyStatus(p, settled) ==
    /\ row' = [row EXCEPT ![sender[p].key] = settled]
    /\ sender' = [sender EXCEPT ![p] = Idle]
    /\ UNCHANGED <<nextSeq, wire, remote, moved, retiring, faults>>

\* An UPDATE ... WHERE delivery_id = :id AND status = 'sending', then the
\* attempt is over.  Nothing ties the statement to the claim that runs it.
Settle(p, settled) ==
    LET k == sender[p].key
    IN /\ row' = IF row[k].status = "sending" THEN [row EXCEPT ![k] = settled] ELSE row
       /\ sender' = [sender EXCEPT ![p] = Idle]
       /\ UNCHANGED <<nextSeq, wire, remote, moved, retiring, faults>>

\* Mutant: the receipt is the attempt's own, not that of the comment it found.
MarkOutboundDelivered_Own(p) ==
    /\ sender[p].pc = "acked"
    /\ Settle(p, [row[sender[p].key] EXCEPT
         !.status = "delivered", !.receipt = sender[p].n, !.err = "none",
         !.lease = "none", !.due = TRUE,
         !.lifecycle = IF Purpose[sender[p].key] \in LIFECYCLE_PURPOSES
                       THEN @ ELSE "finalized"])

MarkOutboundDelivered(p) ==
    /\ sender[p].pc = "acked"
    /\ Settle(p, [row[sender[p].key] EXCEPT
         !.status = "delivered", !.receipt = sender[p].got, !.err = "none",
         !.lease = "none", !.due = TRUE,
         !.lifecycle = IF Purpose[sender[p].key] \in LIFECYCLE_PURPOSES
                       THEN @ ELSE "finalized"])

MarkOutboundStale(p) ==
    /\ sender[p].pc = "stale"
    /\ Settle(p, [row[sender[p].key] EXCEPT
         !.status = "cancelled_stale", !.err = "stale", !.lease = "none", !.due = TRUE])

MarkOutboundRetry(p) ==
    /\ sender[p].pc = "transient"
    /\ Settle(p, [row[sender[p].key] EXCEPT
         !.status = "pending_retry", !.err = "transport", !.lease = "none", !.due = FALSE])

MarkOutboundBlocked(p) ==
    /\ sender[p].pc = "permanent"
    /\ Settle(p, [row[sender[p].key] EXCEPT
         !.status = "blocked", !.err = "http", !.lease = "none", !.due = TRUE])

\* A process dies at any point; its POST, if any, stays on the wire.
Crash(p) ==
    /\ sender[p].pc # "idle"
    /\ Fault
    /\ sender' = [sender EXCEPT ![p] = Idle]
    /\ UNCHANGED <<row, nextSeq, wire, remote, moved, retiring>>

-----------------------------------------------------------------------------
(* The environment: the SCM and the clock.                                 *)

Land(c) ==
    /\ c \in wire
    /\ wire' = wire \ {c}
    /\ remote' = remote \cup {c}
    /\ UNCHANGED <<row, nextSeq, sender, moved, retiring, faults>>

Drop(c) ==
    /\ c \in wire
    /\ Fault
    /\ wire' = wire \ {c}
    /\ UNCHANGED <<row, nextSeq, sender, remote, moved, retiring>>

HeadMoves(k) ==
    /\ Purpose[k] = "pr_review"
    /\ Fault
    /\ moved' = moved \cup {k}
    /\ UNCHANGED <<row, nextSeq, sender, wire, remote, retiring>>

\* An attempt is under way on k's current claim, in a process or on the wire.
InFlight(k) ==
    \/ \E p \in Senders : sender[p].key = k /\ sender[p].n = row[k].attempts
    \/ \E c \in wire : c[1] = k

\* OUTBOUND_SENDING_LEASE_MS pass.  A crashed attempt always lets its lease
\* run out; a live one overruns it only when attempts are not Timely.
LeaseExpires(k) ==
    /\ row[k].status = "sending"
    /\ row[k].lease = "live"
    /\ row' = [row EXCEPT ![k] = [@ EXCEPT !.lease = "expired"]]
    /\ ~ InFlight(k)
    /\ UNCHANGED <<nextSeq, sender, wire, remote, moved, retiring, faults>>

LeaseOverrun(k) ==
    /\ ~ Timely
    /\ row[k].status = "sending"
    /\ row[k].lease = "live"
    /\ InFlight(k)
    /\ Fault
    /\ row' = [row EXCEPT ![k] = [@ EXCEPT !.lease = "expired"]]
    /\ UNCHANGED <<nextSeq, sender, wire, remote, moved, retiring>>

BecomesDue(k) ==
    /\ row[k].status = "pending_retry"
    /\ ~ row[k].due
    /\ row' = [row EXCEPT ![k] = [@ EXCEPT !.due = TRUE]]
    /\ UNCHANGED <<nextSeq, sender, wire, remote, moved, retiring, faults>>

-----------------------------------------------------------------------------
\* What an attempt does next when nothing fails.
Progress(p) ==
    \/ Lookup(p) \/ FindStale(p) \/ Post(p) \/ Answer(p)
    \/ \E outcome \in {"transient", "permanent"} : Refused(p, outcome)
    \/ MarkOutboundDelivered(p) \/ MarkOutboundStale(p)
    \/ MarkOutboundRetry(p) \/ MarkOutboundBlocked(p)

Table ==
    \/ RecoverExpired
    \/ CancelOutboundStale
    \/ \E k \in Keys :
         \/ Enqueue(k) \/ RequeueOldestBlocked(k) \/ RetireRead(k) \/ MarkFinalized(k)
         \/ \E transient \in BOOLEAN : Defer(k, transient)

Sending ==
    \E p \in Senders :
      \/ \E k \in Keys : ClaimOutbound(p, k)
      \/ Progress(p)
      \/ \E outcome \in {"transient", "permanent"} : FailBeforePost(p, outcome)
      \/ LoseAnswer(p) \/ Crash(p)

Environment ==
    \/ \E c \in wire : Land(c) \/ Drop(c)
    \/ \E k \in Keys :
         HeadMoves(k) \/ LeaseExpires(k) \/ LeaseOverrun(k) \/ BecomesDue(k)

Next == Table \/ Sending \/ Environment

Spec == Init /\ [][Next]_vars

\* The scheduler is always running: pump claims every due head and recovers every
\* expired lease; attempts that do not fail proceed, the SCM processes what it
\* receives, and the clock advances.
Fairness ==
    /\ WF_vars(RecoverExpired)
    /\ \A k \in Keys :
         /\ WF_vars(ClaimOutbound(Scheduler, k))
         /\ WF_vars(LeaseExpires(k))
         /\ WF_vars(BecomesDue(k))
    /\ \A p \in Senders : WF_vars(Progress(p))
    /\ WF_vars(\E c \in wire : Land(c))

FairSpec == Spec /\ Fairness

-----------------------------------------------------------------------------
(* Properties.                                                             *)

TypeOK ==
    /\ row \in [Keys -> Row]
    /\ nextSeq \in Nat
    /\ sender \in [Senders -> Attempt]
    /\ wire \subseteq Comments
    /\ remote \subseteq Comments
    /\ moved \subseteq Keys
    /\ retiring \in Keys \cup {NoKey}
    /\ faults \in 0..MaxFaults

\* Strict per-PR order (claimOutbound's NOT EXISTS): once a row was ever POSTed,
\* or is being attempted, every older row of its pull request is settled, however
\* late its senders are and whoever deferred, blocked or cancelled what lies between.
InOrder ==
    \A k \in Keys :
      (\/ \E c \in wire \cup remote : c[1] = k
       \/ \E p \in Senders : sender[p].key = k)
      => \A j \in Keys : Older(j, k) => Terminal(j)

\* A row recorded as delivered carries the receipt of a comment that exists for
\* that very row, also when several late senders settle each other's claims.
DeliveredHasReceipt ==
    \A k \in Keys :
      row[k].status = "delivered" => <<k, row[k].receipt>> \in remote

\* A settled row keeps its outcome and its receipt: no late sender, failure
\* report, lease recovery, requeue or close reopens or rewrites it.
SettledKept ==
    \A k \in Keys :
      Terminal(k) => /\ row'[k].status = row[k].status
                     /\ row'[k].receipt = row[k].receipt

SettledStays == [][SettledKept]_vars

\* When no attempt outlives its claim, the SCM never holds two comments of one
\* row: crashes between POST and receipt, lost answers, retries and human
\* requeues all end in adopting the first comment by its marker.
NoDuplicate ==
    \A c, d \in remote : c[1] = d[1] => c = d

\* When no attempt outlives its claim, at most one process is delivering on a
\* pull request at any time.
OneAttemptPerPR ==
    \A p, q \in Senders :
      /\ p # q
      /\ sender[p].pc # "idle"
      /\ sender[q].pc # "idle"
      => PRof[sender[p].key] # PRof[sender[q].key]

\* A row /close or a superseding proposal cancelled is not on the wire, although
\* the decision to cancel was taken from an earlier read of the row.
CancelledNotInFlight ==
    \A k \in Keys :
      row[k].status = "cancelled_stale" /\ row[k].err = "superseded"
      => \A c \in wire : c[1] # k

\* What the outbox promises is the specification Delivery, of which this module
\* shows, when no attempt outlives its claim, only rows and remote comments.
Outcome(k) ==
    CASE row[k].status = "absent" -> "none"
      [] row[k].status = "delivered" -> "delivered"
      [] row[k].status = "cancelled_stale" -> "dropped"
      [] OTHER -> "waiting"

D == INSTANCE Delivery WITH
       outcome <- [k \in Keys |-> Outcome(k)],
       place <- [k \in Keys |-> row[k].seq],
       visible <- remote

\* The outbox implements in-order, exactly-once publication.
ImplementsDelivery == D!Spec

\* Every enqueued row is settled at last, unless it or an older row of its pull
\* request waits blocked for a human.
EventuallySettled ==
    \A k \in Keys :
      Present(k) ~> \/ Terminal(k)
                    \/ \E j \in Keys : (j = k \/ Older(j, k)) /\ row[j].status = "blocked"
=============================================================================
