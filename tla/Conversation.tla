---------------------------- MODULE Conversation ----------------------------
(***************************************************************************)
(* The conversation of one pull request: comments received by the server,  *)
(* saved to the pull request's inbox, taken one at a time by worker        *)
(* processes, and retired by /close.                                       *)
(*                                                                         *)
(* The server runs one pump (communication-scheduler.ts): it verifies and  *)
(* dispatches inbound rows, delivers outbox rows and finalizes them, one   *)
(* after the other.  A worker (scripts/run-pr.ts) is a process that takes  *)
(* the pull request's run claim, a file lock, and handles one thing at a   *)
(* time: a close, a recovery, or the oldest pending comment.  A process    *)
(* that dies leaves its claim to be taken and its state file not running.  *)
(* Approval plans are not modelled here.                                   *)
(***************************************************************************)
EXTENDS Integers, FiniteSets, FiniteSetsExt

CONSTANTS
    Comments,    \* ids of the comments people write
    MaxId,       \* the highest id
    Closes,      \* those that are /close
    Stops,       \* those that are /stop
    Workers,     \* worker processes; one that has exited may be started again
    Server,      \* the server process
    Nobody,      \* no process
    Mortals,     \* the processes that may die
    Endings,     \* how a run may end
    Refuses,     \* the SCM may refuse POSTs for good
    StepsFail,   \* a step of /close may fail
    MaxFaults    \* bound on crashes and transient failures

ASSUME ConversationAssumption ==
    /\ MaxId \in Nat
    /\ Comments \subseteq 1 .. MaxId
    /\ Closes \subseteq Comments
    /\ Stops \subseteq Comments
    /\ Server \notin Workers
    /\ Nobody \notin Workers \cup {Server}
    /\ Mortals \subseteq Workers \cup {Server}
    /\ {Refuses, StepsFail} \subseteq BOOLEAN
    /\ MaxFaults \in Nat

VARIABLES
    row,      \* the status of each comment's inbound row
    inbox,    \* the comments saved as <state>.comments/<id>.json
    state,    \* the state file
    review,   \* whether the current run has a review.json that is not published: "saved",
              \* or "ready" when the state's phase says so too
    notice,   \* its run-notice.json: none, one that is not published (and whether a
              \* recovery knows how to), or "told", published
    journal,  \* <state>.close.json: the comment being closed, or 0
    letter,   \* the outbox row of each purpose that is not finalized
    claim,    \* the process that has the run claim, or Nobody
    pc,       \* where each process is
    limit,    \* closedThrough, in the memory of the process that closes
    current,  \* the comment the server is dispatching
    runs,     \* how often each comment was given to an Agent (history)
    faults    \* faults so far

vars == <<row, inbox, state, review, notice, journal, letter, claim, pc, limit,
          current, runs, faults>>
communication == <<row, current>>
artifacts == <<review, notice>>

-----------------------------------------------------------------------------
Processes == Workers \cup {Server}
Kinds == {"start", "completion", "refusal", "review", "notice"}
InboundStatus ==
    {"none", "pending_verification", "verified", "dispatched", "rejected", "retired"}
Letters == {"none", "unsent", "refused", "delivered"}

WorkerPlaces == {"off", "boot", "claim", "entry", "recover", "republish", "recheck",
                 "inspect", "run", "needs_human", "reviewed", "publishing", "stopping",
                 "publish", "release", "leave"}
ClosePlaces == {"prepared", "survey", "announce", "dispose", "sweep", "tombstone",
                "complete", "seal"}
ServerPlaces == {"idle", "check", "save", "look", "mark", "finalized", "done"}
Places == WorkerPlaces \cup ClosePlaces \cup ServerPlaces
RunState == [known : BOOLEAN, handled : SUBSET Comments, through : Comments \cup {0},
             active : Processes \cup {Nobody}, owed : SUBSET {"completion", "refusal"}]

\* A state file that does not exist reads like this one.
NoState == [known |-> FALSE, handled |-> {}, through |-> 0, active |-> Nobody, owed |-> {}]
NoJournal == [comment |-> 0, announced |-> FALSE]

\* hasHumanReplies, and a mutant that forgets the high-water mark.
Pending_AlsoRetired == {c \in inbox : c \notin state.handled}
Pending == {c \in inbox : c > state.through /\ c \notin state.handled}

\* workerStatus(state) = "running": an active state of a process that is alive.
Running == state.active # Nobody

Closing == journal.comment # 0

\* A notice that nobody has been told: notification.json does not say published.
Untold == notice \notin {"none", "told"}

\* hasRunnableWork.
Runnable ==
    \/ Pending # {}
    \/ state.known /\ (state.owed # {} \/ Closing \/ review = "ready" \/ Untold)

Init ==
    /\ row = [c \in Comments |-> "none"]
    /\ inbox = {}
    /\ state = NoState
    /\ review = "none"
    /\ notice = "none"
    /\ journal = NoJournal
    /\ letter = [k \in Kinds |-> "none"]
    /\ claim = Nobody
    /\ pc = [p \in Processes |-> IF p = Server THEN "idle" ELSE "off"]
    /\ limit = 0
    /\ current = 0
    /\ runs = [c \in Comments |-> 0]
    /\ faults = 0

Goto(p, place) == pc' = [pc EXCEPT ![p] = place]
At(p, place) == pc[p] = place
Fault == faults < MaxFaults /\ faults' = faults + 1

\* What may come of a POST: a transient failure is a fault, a permanent one is
\* the SCM's answer (a locked conversation, a revoked installation).
Answer(outcome) ==
    \/ outcome = "delivered" /\ UNCHANGED faults
    \/ outcome = "unsent" /\ Fault
    \/ outcome = "refused" /\ Refuses /\ UNCHANGED faults

\* deliverImmediately on a row that may be delivered already.
Deliver(k, outcome) ==
    IF letter[k] = "delivered" THEN outcome = "delivered" /\ UNCHANGED faults
                               ELSE Answer(outcome)

-----------------------------------------------------------------------------
(* The server: webhook, inbound rows, dispatch.                            *)

\* insertInbound: a redelivered comment changes nothing.
Receive(c) ==
    /\ row[c] = "none"
    /\ row' = [row EXCEPT ![c] = "pending_verification"]
    /\ UNCHANGED <<inbox, state, artifacts, journal, letter, claim, pc, limit, current,
                   runs, faults>>

\* processOne up to markInboundVerified or markInboundRejected.
Verify(c) ==
    /\ At(Server, "idle")
    /\ row[c] = "pending_verification"
    /\ \/ row' = [row EXCEPT ![c] = "rejected"] /\ UNCHANGED <<pc, current>>
       \/ row' = [row EXCEPT ![c] = "verified"] /\ Goto(Server, "check") /\ current' = c
    /\ UNCHANGED <<inbox, state, artifacts, journal, letter, claim, limit, runs, faults>>

\* listDueInbound's verified rows, and a mutant that lists only unverified ones.
Due_Never(c) == FALSE
Due(c) == row[c] = "verified"

\* processOne on a row that an earlier pass, or an earlier server, verified.
Resume(c) ==
    /\ At(Server, "idle")
    /\ Due(c)
    /\ Goto(Server, "check")
    /\ current' = c
    /\ UNCHANGED <<row, inbox, state, artifacts, journal, letter, claim, limit, runs, faults>>

\* isRetired, before the comment is handed over.
CheckRetired ==
    /\ At(Server, "check")
    /\ IF current <= state.through
       THEN /\ row' = [row EXCEPT ![current] = "retired"]
            /\ Goto(Server, "idle")
            /\ current' = 0
       ELSE Goto(Server, "save") /\ UNCHANGED communication
    /\ UNCHANGED <<inbox, state, artifacts, journal, letter, claim, limit, runs, faults>>

\* saveHumanReply: link() never overwrites.
SaveReply ==
    /\ At(Server, "save")
    /\ inbox' = inbox \cup {current}
    /\ Goto(Server, "look")
    /\ UNCHANGED <<communication, state, artifacts, journal, letter, claim, limit, runs, faults>>

\* dispatchHumanReply after the save: a worker is started unless one is running.
Look ==
    /\ At(Server, "look")
    /\ IF Runnable /\ ~ Running
       THEN \E w \in Workers :
              /\ At(w, "off")
              /\ pc' = [pc EXCEPT ![w] = "boot", ![Server] = "mark"]
       ELSE Goto(Server, "mark")
    /\ UNCHANGED <<communication, inbox, state, artifacts, journal, letter, claim, limit,
                   runs, faults>>

\* onVerified throws: markInboundRetry sends the row back to verification.
DispatchFails ==
    /\ pc[Server] \in {"save", "look"}
    /\ Fault
    /\ row' = [row EXCEPT ![current] = "pending_verification"]
    /\ Goto(Server, "idle")
    /\ current' = 0
    /\ UNCHANGED <<inbox, state, artifacts, journal, letter, claim, limit, runs>>

\* markInboundDispatched.
MarkDispatched ==
    /\ At(Server, "mark")
    /\ row' = [row EXCEPT ![current] = "dispatched"]
    /\ Goto(Server, "idle")
    /\ current' = 0
    /\ UNCHANGED <<inbox, state, artifacts, journal, letter, claim, limit, runs, faults>>

-----------------------------------------------------------------------------
(* The server: outbox rows of this pull request.                           *)

\* drainDueDeliveries.
Drain(k) ==
    /\ At(Server, "idle")
    /\ letter[k] = "unsent"
    /\ \E outcome \in Letters :
         /\ Answer(outcome)
         /\ letter' = [letter EXCEPT ![k] = outcome]
    /\ UNCHANGED <<communication, inbox, state, artifacts, journal, claim, pc, limit, runs>>

\* claimRun, and a mutant that takes a claim somebody has.
ClaimFree_Always == TRUE
ClaimFree == claim = Nobody

\* finalizeCloseStart resumes a close that is still open; a mutant does not.
Resumes_Never(k) == FALSE
Resumes(k) == k = "start" /\ Closing

\* What a delivered row of each purpose settles: a review that is published by now, a
\* notice, and what the state file says of a /close that is still to be answered.
FinalizedReview(k) == review' = IF k = "review" THEN "none" ELSE review
FinalizedNotice(k) == notice' = IF k = "notice" /\ notice # "none" THEN "told" ELSE notice
FinalizedOwed(k) == state' = [state EXCEPT !.owed = @ \ {k}]

\* finalizeDelayedDelivery: busy while a worker runs or has the claim.
Finalize(k) ==
    /\ At(Server, "idle")
    /\ letter[k] = "delivered"
    /\ ~ Running
    /\ ClaimFree
    /\ claim' = Server
    /\ FinalizedReview(k) /\ FinalizedNotice(k) /\ FinalizedOwed(k)
    /\ IF Resumes(k)
       THEN Goto(Server, "survey") /\ UNCHANGED letter
       ELSE Goto(Server, "finalized") /\ letter' = [letter EXCEPT ![k] = "none"]
    /\ UNCHANGED <<communication, inbox, journal, limit, runs, faults>>

\* The claim is released; a close that was resumed is marked finalized first,
\* whatever became of it.
ServerRelease ==
    /\ pc[Server] \in {"finalized", "done"}
    /\ letter' = [letter EXCEPT !["start"] = IF At(Server, "done") THEN "none" ELSE @]
    /\ claim' = Nobody
    /\ limit' = 0
    /\ Goto(Server, "idle")
    /\ UNCHANGED <<communication, inbox, state, artifacts, journal, runs, faults>>

-----------------------------------------------------------------------------
(* A worker enters: scripts/run-pr.ts and the head of runPullRequest.      *)

\* The loop's hasRunnableWork, then the two checks before claimRun.
Boot(w) ==
    /\ At(w, "boot")
    /\ Goto(w, IF Runnable /\ ~ Running THEN "claim" ELSE "off")
    /\ UNCHANGED <<communication, inbox, state, artifacts, journal, letter, claim, limit,
                   runs, faults>>

\* claimRun; already_running ends the process.
ClaimRun(w) ==
    /\ At(w, "claim")
    /\ IF ClaimFree
       THEN claim' = w /\ Goto(w, "entry")
       ELSE Goto(w, "off") /\ UNCHANGED claim
    /\ UNCHANGED <<communication, inbox, state, artifacts, journal, letter, limit, runs, faults>>

\* What requeueOldestBlockedDelivery may make of the rows, when people wait for an
\* answer: one refused row is tried again.
Requeued(rows) ==
    LET refused == {k \in Kinds : rows[k] = "refused"}
    IN  IF Pending = {} \/ refused = {} THEN {rows}
                                        ELSE {[rows EXCEPT ![k] = "unsent"] : k \in refused}

OldestIsClose == Pending # {} /\ Min(Pending) \in Closes

\* prepareEntryLifecycle finds a /close to begin or one to resume; prepareCloseStart
\* saves the journal first.
EnterClose(w) ==
    /\ At(w, "entry")
    /\ OldestIsClose \/ Closing
    /\ journal' = IF Closing THEN journal
                  ELSE [comment |-> Min(Pending), announced |-> FALSE]
    /\ letter' \in Requeued([letter EXCEPT !["start"] = IF Closing THEN @ ELSE "none"])
    /\ Goto(w, "prepared")
    /\ UNCHANGED <<communication, inbox, state, artifacts, claim, limit, runs, faults>>

\* Otherwise the notices a close still owes are tried, and the worker recovers the
\* last run or looks for a comment.
EnterOther(w) ==
    /\ At(w, "entry")
    /\ ~ (OldestIsClose \/ Closing)
    /\ \E sent \in SUBSET state.owed, outcome \in Letters, queue \in Requeued(letter) :
         /\ IF sent = state.owed THEN outcome = "delivered" /\ UNCHANGED faults
                                 ELSE outcome # "delivered" /\ Answer(outcome)
         /\ letter' = [k \in Kinds |-> CASE k \in sent -> "delivered"
                                        [] k \in state.owed \ sent -> outcome
                                        [] OTHER -> queue[k]]
         /\ state' = [state EXCEPT !.owed = @ \ sent]
    /\ Goto(w, IF review # "none" \/ Untold THEN "recover" ELSE "recheck")
    /\ UNCHANGED <<communication, inbox, artifacts, journal, claim, limit, runs>>

\* recoverLockedRun republishes a notice, and does nothing else even when the notice was
\* published and a review is what there is to recover; a notice it does not know how to
\* republish makes it throw, which ends the process.
RecoverNotice(w) ==
    /\ At(w, "recover")
    /\ notice # "none"
    /\ IF notice = "told" THEN Goto(w, "release") /\ UNCHANGED <<letter, notice, faults>>
       ELSE IF notice = "recoverable"
       THEN \E outcome \in Letters :
              /\ Deliver("notice", outcome)
              /\ letter' = [letter EXCEPT !["notice"] = outcome]
              /\ notice' = IF outcome = "delivered" THEN "told" ELSE notice
              /\ Goto(w, "release")
       ELSE Goto(w, "leave") /\ UNCHANGED <<letter, notice, faults>>
    /\ UNCHANGED <<communication, inbox, state, review, journal, claim, limit, runs>>

\* recoverLockedRun publishes a review that was saved by a run that ended without a
\* notice (its process died, or the publication failed), as an active run.
RecoverReview(w) ==
    /\ At(w, "recover")
    /\ notice = "none"
    /\ state' = [state EXCEPT !.active = w]
    /\ review' = "ready"
    /\ Goto(w, "republish")
    /\ UNCHANGED <<communication, inbox, notice, journal, letter, claim, limit, runs, faults>>

\* The /stop comments that watchStop may find.
StopsWaiting == (inbox \cap Stops) \ state.handled

\* ensureReviewPublished, in a run or in its recovery: a failure leaves the review
\* ready and ends the process.  A run that was told to stop finds it out afterwards.
PublishReview(w) ==
    /\ pc[w] \in {"publishing", "republish"}
    /\ \E outcome \in Letters :
         /\ Deliver("review", outcome)
         /\ letter' = [letter EXCEPT !["review"] = outcome]
         /\ review' = IF outcome = "delivered" THEN "none" ELSE "ready"
         /\ \/ Goto(w, IF outcome = "delivered" THEN "release" ELSE "leave")
            \/ At(w, "publishing") /\ StopsWaiting # {} /\ Goto(w, "stopping")
    /\ state' = [state EXCEPT !.active = Nobody]
    /\ UNCHANGED <<communication, inbox, notice, journal, claim, limit, runs>>

\* mention_required, when nobody waits for an answer, ends the process.
Recheck(w) ==
    /\ At(w, "recheck")
    /\ Goto(w, IF Pending = {} THEN "leave" ELSE "inspect")
    /\ UNCHANGED <<communication, inbox, state, artifacts, journal, letter, claim, limit,
                   runs, faults>>

-----------------------------------------------------------------------------
(* A run.                                                                  *)

\* The comment and the active state are written in one state file; a mutant forgets
\* the comment.
Handled_Forgotten(c) == state.handled
Handled(c) == state.handled \cup {c}

\* phase("inspect"): the oldest pending comment becomes a new run.  A /close that
\* came after the entry is not executed.
Inspect(w) ==
    /\ At(w, "inspect")
    /\ LET c == Min(Pending) IN
         /\ state' = [state EXCEPT !.known = TRUE, !.active = w, !.handled = Handled(c)]
         /\ runs' = [runs EXCEPT ![c] = @ + 1]
         /\ Goto(w, IF c \in Closes THEN "needs_human" ELSE "run")
    /\ review' = "none"
    /\ notice' = "none"
    /\ letter' = [letter EXCEPT !["review"] = "none", !["notice"] = "none"]
    /\ UNCHANGED <<communication, inbox, journal, claim, limit, faults>>

\* watchStop finds a /close during the run, or before it stops watching:
\* refuseCloseOnActiveTask retires it first.
RefuseClose(w, c) ==
    /\ pc[w] \in {"run", "needs_human", "reviewed", "publishing", "stopping", "publish"}
    /\ c \in (inbox \cap Closes) \ state.handled
    /\ \E outcome \in Letters :
         /\ Answer(outcome)
         /\ letter' = [letter EXCEPT !["refusal"] = outcome]
         /\ state' = [state EXCEPT !.handled = @ \cup {c},
                        !.owed = IF outcome = "delivered" THEN @ \ {"refusal"}
                                                         ELSE @ \cup {"refusal"}]
    /\ UNCHANGED <<communication, inbox, artifacts, journal, claim, pc, limit, runs>>

\* The Agent's review is saved.
SaveReview(w) ==
    /\ At(w, "run")
    /\ "review" \in Endings
    /\ review' = "saved"
    /\ Goto(w, "reviewed")
    /\ UNCHANGED <<communication, inbox, state, notice, journal, letter, claim, limit,
                   runs, faults>>

\* checkpoint(ctx, "review_ready"), before the publication.
CheckpointReview(w) ==
    /\ At(w, "reviewed")
    /\ review' = "ready"
    /\ Goto(w, "publishing")
    /\ UNCHANGED <<communication, inbox, state, notice, journal, letter, claim, limit,
                   runs, faults>>

\* finishRun: the stop comment is retired, the state is no longer active, its phase
\* says how the run ended, and a run that did not complete leaves a notice.  "stopped"
\* stands for the endings whose notice a recovery republishes, "failed" for the others.
Finish(w, ending) ==
    /\ \/ At(w, "run") /\ ending \in Endings
       \/ At(w, "needs_human") /\ ending = "failed"
       \/ pc[w] \in {"reviewed", "stopping"} /\ ending = "stopped"
    /\ ending # "review"
    /\ \E stop \in SUBSET StopsWaiting :
         /\ Cardinality(stop) <= 1
         /\ pc[w] \in {"reviewed", "stopping"} => stop # {}
         /\ state' = [state EXCEPT !.active = Nobody, !.handled = @ \cup stop]
    /\ review' = IF review = "none" THEN "none" ELSE "saved"
    /\ notice' = CASE ending = "completed" -> "none"
                   [] ending = "stopped" -> "recoverable"
                   [] OTHER -> "other"
    /\ Goto(w, IF ending = "completed" THEN "release" ELSE "publish")
    /\ UNCHANGED <<communication, inbox, journal, letter, claim, limit, runs, faults>>

\* publishRunNotice.
PublishNotice(w) ==
    /\ At(w, "publish")
    /\ \E outcome \in Letters :
         /\ Answer(outcome)
         /\ letter' = [letter EXCEPT !["notice"] = outcome]
         /\ notice' = IF outcome = "delivered" THEN "told" ELSE notice
    /\ Goto(w, "release")
    /\ UNCHANGED <<communication, inbox, state, review, journal, claim, limit, runs>>

\* release(): the process goes round its loop, or ends.
Release(w) ==
    /\ pc[w] \in {"release", "leave"}
    /\ claim' = Nobody
    /\ limit' = 0
    /\ Goto(w, IF At(w, "release") THEN "boot" ELSE "off")
    /\ UNCHANGED <<communication, inbox, state, artifacts, journal, letter, runs, faults>>

-----------------------------------------------------------------------------
(* /close, by whichever process has the claim.                             *)

\* A close that ends: a worker gives its result to its loop, the server to its row.
Settled(p, place) == IF p = Server THEN "done" ELSE place

\* prepareCloseStart's enqueue, before any remote request.
EnqueueStart(p) ==
    /\ At(p, "prepared")
    /\ letter' = [letter EXCEPT !["start"] =
                    IF @ = "none" /\ ~ journal.announced THEN "unsent" ELSE @]
    /\ Goto(p, "survey")
    /\ UNCHANGED <<communication, inbox, state, artifacts, journal, claim, limit, runs, faults>>

\* The SCM connection fails: close_start_unpublished.
ConnectFails(p) ==
    /\ At(p, "survey")
    /\ p # Server
    /\ Fault
    /\ Goto(p, "leave")
    /\ UNCHANGED <<communication, inbox, state, artifacts, journal, letter, claim, limit, runs>>

\* closedThrough, and a mutant: only what came before the /close.
HighWater_Comment == Max({journal.comment, state.through})
HighWater ==
    Max({journal.comment, state.through} \cup inbox \cup {c \in Comments : row[c] # "none"})

\* runClose prepares again, and keeps the high-water mark in memory.
Survey(p) ==
    /\ At(p, "survey")
    /\ limit' = HighWater
    /\ Goto(p, "announce")
    /\ UNCHANGED <<communication, inbox, state, artifacts, journal, letter, claim, runs, faults>>

\* The start notice is published before anything is deleted.
Announce(p) ==
    /\ At(p, "announce")
    /\ IF journal.announced
       THEN Goto(p, "dispose") /\ UNCHANGED <<letter, journal, faults>>
       ELSE \E outcome \in Letters :
              /\ Deliver("start", outcome)
              /\ letter' = [letter EXCEPT !["start"] = outcome]
              /\ journal' = [journal EXCEPT !.announced = (outcome = "delivered")]
              /\ Goto(p, IF outcome = "delivered" THEN "dispose" ELSE Settled(p, "leave"))
    /\ UNCHANGED <<communication, inbox, state, artifacts, claim, limit, runs>>

\* The steps from the approval lifecycles to the snapshots; the runs are among them.
Dispose(p) ==
    /\ At(p, "dispose")
    /\ review' = "none"
    /\ notice' = "none"
    /\ Goto(p, "sweep")
    /\ UNCHANGED <<communication, inbox, state, journal, letter, claim, limit, runs, faults>>

\* The step "inbox": every comment file, whatever its id.
Sweep(p) ==
    /\ At(p, "sweep")
    /\ inbox' = {}
    /\ Goto(p, "tombstone")
    /\ UNCHANGED <<communication, state, artifacts, journal, letter, claim, limit, runs, faults>>

\* The step "tombstone".
Tombstone(p) ==
    /\ At(p, "tombstone")
    /\ state' = [known |-> TRUE, handled |-> {}, through |-> limit, active |-> Nobody,
                 owed |-> {"completion"}]
    /\ letter' = [letter EXCEPT !["completion"] = "none"]
    /\ Goto(p, "complete")
    /\ UNCHANGED <<communication, inbox, artifacts, journal, claim, limit, runs, faults>>

\* A step fails: close_incomplete.
StepFails(p) ==
    /\ StepsFail
    /\ pc[p] \in {"dispose", "sweep", "tombstone"}
    /\ Fault
    /\ Goto(p, Settled(p, "leave"))
    /\ UNCHANGED <<communication, inbox, state, artifacts, journal, letter, claim, limit, runs>>

\* The completion notice; the close stays complete if it cannot be published.
Complete(p) ==
    /\ At(p, "complete")
    /\ \E outcome \in Letters :
         /\ Answer(outcome)
         /\ letter' = [letter EXCEPT !["completion"] = outcome]
         /\ state' = [state EXCEPT !.owed = IF outcome = "delivered" THEN {} ELSE @]
    /\ Goto(p, "seal")
    /\ UNCHANGED <<communication, inbox, artifacts, journal, claim, limit, runs>>

\* The journal's status becomes completed.
Seal(p) ==
    /\ At(p, "seal")
    /\ journal' = NoJournal
    /\ Goto(p, Settled(p, "release"))
    /\ UNCHANGED <<communication, inbox, state, artifacts, letter, claim, limit, runs, faults>>

CloseStep(p) ==
    \/ EnqueueStart(p) \/ ConnectFails(p) \/ Survey(p) \/ Announce(p) \/ Dispose(p)
    \/ Sweep(p) \/ Tombstone(p) \/ StepFails(p) \/ Complete(p) \/ Seal(p)

-----------------------------------------------------------------------------
\* A process dies: its claim is a dead owner's, its state file no longer running.
Dies(p) ==
    /\ p \in Mortals
    /\ Fault
    /\ claim' = IF claim = p THEN Nobody ELSE claim
    /\ limit' = IF claim = p THEN 0 ELSE limit
    /\ state' = [state EXCEPT !.active = IF @ = p THEN Nobody ELSE @]

WorkerDies(w) ==
    /\ ~ At(w, "off")
    /\ Dies(w)
    /\ Goto(w, "off")
    /\ UNCHANGED <<communication, inbox, artifacts, journal, letter, runs>>

\* The server dies and is started again; its rows and files stay.
ServerDies ==
    /\ Dies(Server)
    /\ Goto(Server, "idle")
    /\ current' = 0
    /\ UNCHANGED <<row, inbox, artifacts, journal, letter, runs>>

WorkerStep(w) ==
    \/ Boot(w) \/ ClaimRun(w) \/ EnterClose(w) \/ EnterOther(w)
    \/ RecoverNotice(w) \/ RecoverReview(w) \/ PublishReview(w) \/ Recheck(w)
    \/ Inspect(w) \/ SaveReview(w) \/ CheckpointReview(w) \/ PublishNotice(w) \/ Release(w)
    \/ \E c \in Closes : RefuseClose(w, c)
    \/ \E ending \in Endings \cup {"stopped", "failed"} : Finish(w, ending)
    \/ CloseStep(w)

Dispatch ==
    \/ \E c \in Comments : Verify(c) \/ Resume(c)
    \/ CheckRetired \/ SaveReply \/ Look \/ DispatchFails \/ MarkDispatched

ServerStep ==
    \/ Dispatch \/ ServerRelease \/ CloseStep(Server)
    \/ \E k \in Kinds : Drain(k) \/ Finalize(k)

Next ==
    \/ \E c \in Comments : Receive(c)
    \/ ServerStep
    \/ \E w \in Workers : WorkerStep(w) \/ WorkerDies(w)
    \/ ServerDies

Spec == Init /\ [][Next]_vars

\* A live process keeps going; the pump comes round to every row that is due.
Fairness ==
    /\ WF_vars(Dispatch)
    /\ WF_vars(ServerRelease)
    /\ WF_vars(CloseStep(Server))
    /\ \A k \in Kinds : WF_vars(Drain(k)) /\ WF_vars(Finalize(k))
    /\ \A w \in Workers : WF_vars(WorkerStep(w))

FairSpec == Spec /\ Fairness

-----------------------------------------------------------------------------
\* The variables have their types.
TypeOK ==
    /\ row \in [Comments -> InboundStatus]
    /\ inbox \subseteq Comments
    /\ state \in RunState
    /\ review \in {"none", "saved", "ready"}
    /\ notice \in {"none", "recoverable", "other", "told"}
    /\ journal \in [comment : Comments \cup {0}, announced : BOOLEAN]
    /\ letter \in [Kinds -> Letters]
    /\ claim \in Processes \cup {Nobody}
    /\ pc \in [Processes -> Places]
    /\ limit \in Comments \cup {0}
    /\ current \in Comments \cup {0}
    /\ runs \in [Comments -> Nat]
    /\ faults \in 0 .. MaxFaults

\* No comment is given to an Agent twice, whatever is redelivered, dispatched again
\* after a crash, retired by a close or left by a worker that died
\* (pull-request.ts writes the handled comment with the active state).
AtMostOnce == \A c \in Comments : runs[c] <= 1

\* The state file says running only for the process that has the run claim, so the
\* guard of runClose against a live task never fires and nobody else writes the state.
RunnerHasClaim == state.active # Nobody => claim = state.active

\* A comment a person may not count on any more: handled, or retired by a close.
Past(c) == c \in state.handled \/ c <= state.through

\* A comment once handled or retired stays so: neither a close, which forgets the
\* handled comments, nor a late write of the state file brings one back.
PastStays == \A c \in Comments : Past(c) => Past(c)'
PastForever == [][PastStays]_vars

\* No Agent is started for a comment that a close retired, even when its file is
\* saved after the close deleted the inbox.
RetiredNotRun ==
    \A c \in Comments : runs'[c] # runs[c] => c > state.through
RetiredNeverRun == [][RetiredNotRun]_vars

\* Every comment received is dispatched, rejected or retired in the end, although the
\* server dies on the way.
InboundSettles ==
    \A c \in Comments :
        row[c] = "pending_verification" ~> row[c] \in {"dispatched", "rejected", "retired"}

\* A close whose start notice is enqueued is completed, although every process
\* that works on it dies: the notice's finalization resumes it.
CloseCompletes == (Closing /\ letter["start"] # "none") ~> ~ Closing

\* Workers come to rest: what is left to retry belongs to the server's scheduler.
WorkersRest == <>[](\A w \in Workers : At(w, "off"))
=============================================================================
