---------------------------- MODULE ApprovalPlan ----------------------------
(***************************************************************************)
(* Approval plans of one pull request.  A command that may write only      *)
(* after approval makes the Agent plan first; the plan is saved, published *)
(* as a comment through the durable outbox, approved by a later /approval  *)
(* and then carried out in the workspace that was kept for it.             *)
(*                                                                         *)
(* One worker at a time has the run claim (Conversation proves it), and    *)
(* the server finalizes under the same claim.  People write comments and   *)
(* push to the branch at any time, the outbox delivers at any time, and    *)
(* the worker may die between any two durable writes.                      *)
(*                                                                         *)
(* Plans are numbered over the life of the pull request; a revision is the *)
(* number since the last close.  Plans of /review are not modelled, whose  *)
(* publication has a recovery of its own.                                  *)
(***************************************************************************)
EXTENDS Integers, FiniteSets, FiniteSetsExt

CONSTANTS
    MaxPlans,   \* bound on plans
    MaxId,      \* bound on remote comments
    MaxSha,     \* bound on commits that people push
    MaxFaults   \* bound on deaths of the worker

ASSUME ApprovalAssumption ==
    MaxPlans \in Nat \ {0} /\ MaxId \in Nat /\ MaxSha \in Nat \ {0} /\ MaxFaults \in Nat

VARIABLES
    asked,     \* what people wrote: comment id -> kind
    lastId,    \* the last id the remote gave to a comment, of people or ours
    handled,   \* state file: handled_comment_ids
    through,   \* state file: closed_through_comment_id
    commit,    \* state file: last_patchpaw_commit, or 0
    current,   \* plan-current.json: the current plan, or 0
    orphan,    \* the next revision has its immutable file and is not current
    status,    \* plan sidecars: the status ...
    receipt,   \* ... the remote id of the publication, or 0 ...
    claim,     \* ... and the approval claim
    basis,     \* immutable: pr_head_sha
    done,      \* the claim's run has a completion artifact (result.json, delivery.json)
    row,       \* the outbox row of each plan
    posted,    \* the remote comment of each plan, or 0
    retained,  \* paused.json: the plan whose workspace is kept, Other, or 0
    answered,  \* ... and whether it says completed
    workspace, \* what is in the workspace of each plan
    closing,   \* <state>.close.json says closing
    pc,        \* where the worker is
    run,       \* what the worker read
    head,      \* the head of the branch
    past,      \* each commit there is, with all it is built on
    latest,    \* the number of plans there have been (history)
    effect,    \* what the execution of each plan has done (history)
    faults     \* deaths so far

remote == <<asked, lastId>>
stateFile == <<handled, through, commit>>
sidecar == <<status, receipt, claim>>
artifacts == <<basis, done>>
outbox == <<row, posted>>
branch == <<head, past>>
checkout == <<retained, answered, workspace>>
vars == <<remote, stateFile, current, orphan, sidecar, artifacts, outbox, checkout,
          closing, pc, run, branch, latest, effect, faults>>

-----------------------------------------------------------------------------
Plans == 1 .. MaxPlans
Ids == 1 .. MaxId
People == 1 .. MaxSha
Candidate(p) == -p                    \* the commit a plan's execution makes
Candidates == {Candidate(p) : p \in Plans}
Shas == People \cup Candidates
Other == MaxPlans + 1                 \* a workspace that is not that of a plan

Status == {"absent", "draft", "publication_pending", "published", "approved", "stale", "superseded"}
Rows == {"none", "unsent", "sending", "delivered", "final", "cancelled"}
Phases == {"none", "accepted", "running", "completed", "interrupted"}
Places == {"off", "plan", "version", "pointer", "enqueue", "pend", "retain", "deliver",
           "finalize", "check", "take", "retire", "write", "edited", "push", "pushing",
           "confirm", "answer", "deliver_answer", "finish", "close", "cancel", "remove"}
Runs == [plan : 0 .. MaxPlans, comment : 0 .. MaxId, seen : Shas \cup {0},
         prior : {0} \cup Candidates, recovering : BOOLEAN]
NoRun == [plan |-> 0, comment |-> 0, seen |-> 0, prior |-> 0, recovering |-> FALSE]
Claims == [phase : Phases, comment : 0 .. MaxId]
NoClaim == [phase |-> "none", comment |-> 0]

Init ==
    /\ asked = [i \in Ids |-> "none"] /\ lastId = 0
    /\ handled = {} /\ through = 0 /\ commit = 0
    /\ current = 0 /\ orphan = FALSE
    /\ status = [p \in Plans |-> "absent"]
    /\ receipt = [p \in Plans |-> 0]
    /\ claim = [p \in Plans |-> NoClaim]
    /\ basis = [p \in Plans |-> 0]
    /\ done = [p \in Plans |-> FALSE]
    /\ row = [p \in Plans |-> "none"]
    /\ posted = [p \in Plans |-> 0]
    /\ retained = 0 /\ answered = FALSE
    /\ workspace = [p \in Plans |-> "none"]
    /\ closing = FALSE
    /\ pc = "off" /\ run = NoRun
    /\ head = 1 /\ past = [c \in Shas |-> IF c = 1 THEN {1} ELSE {}]
    /\ latest = 0 /\ effect = [p \in Plans |-> "none"]
    /\ faults = 0

NextPlan == latest + 1

Goto(place) == pc' = place /\ run' = IF place = "off" THEN NoRun ELSE run

-----------------------------------------------------------------------------
(* People, and the server. *)

\* Somebody writes a comment that asks for something.
Write(kind) ==
    /\ lastId < MaxId
    /\ lastId' = lastId + 1
    /\ asked' = [asked EXCEPT ![lastId + 1] = kind]
    /\ UNCHANGED <<stateFile, current, orphan, sidecar, artifacts, outbox, checkout, closing,
                   pc, run, branch, latest, effect, faults>>

\* The commits that everybody knows.
Public == {c \in People : past[c] # {}} \cup {Candidate(p) : p \in {q \in Plans : effect[q] = "pushed"}}

\* Somebody pushes a commit made on top of one of these, or forces the branch to one.
PushByPeople ==
    /\ \/ \E c \in People, on \in Public :
             /\ past[c] = {}
             /\ head' = c /\ past' = [past EXCEPT ![c] = past[on] \cup {c}]
       \/ head' \in Public \ {head} /\ UNCHANGED past
    /\ UNCHANGED <<remote, stateFile, current, orphan, sidecar, artifacts, outbox, checkout,
                   closing, pc, run, latest, effect, faults>>

\* The plan's comment exists, and nobody here knows yet.  Rows are posted in order.
PostPlan(p) ==
    /\ row[p] = "unsent"
    /\ \A q \in 1 .. p - 1 : row[q] \in {"none", "delivered", "final", "cancelled"}
    /\ lastId < MaxId
    /\ lastId' = lastId + 1
    /\ posted' = [posted EXCEPT ![p] = lastId + 1]
    /\ row' = [row EXCEPT ![p] = "sending"]
    /\ UNCHANGED <<asked, stateFile, current, orphan, sidecar, artifacts, checkout, closing,
                   pc, run, branch, latest, effect, faults>>

SettlePlan(p) ==
    /\ row[p] = "sending"
    /\ row' = [row EXCEPT ![p] = "delivered"]
    /\ UNCHANGED <<remote, stateFile, current, orphan, sidecar, artifacts, posted, checkout,
                   closing, pc, run, branch, latest, effect, faults>>

\* Only a plan whose publication is pending takes a receipt.
Awaits(p) == status[p] = "publication_pending"

\* finalizeApprovalPlanPublication.  An update of a plan makes it the current one.
FinalizePlan(p) ==
    /\ pc = "off" /\ row[p] = "delivered"
    /\ row' = [row EXCEPT ![p] = "final"]
    /\ IF Awaits(p)
       THEN /\ status' = [status EXCEPT ![p] = "published"]
            /\ receipt' = [receipt EXCEPT ![p] = posted[p]]
            /\ current' = p
       ELSE UNCHANGED <<status, receipt, current>>
    /\ UNCHANGED <<remote, stateFile, orphan, claim, artifacts, posted, checkout, closing,
                   pc, run, branch, latest, effect, faults>>

-----------------------------------------------------------------------------
(* A worker enters: a close, a claim to be finished, or the oldest comment.  *)
(* Every run starts with a state file that forgets last_patchpaw_commit.     *)

Pending == {i \in Ids : asked[i] # "none" /\ i > through /\ i \notin handled}
Oldest == IF Pending = {} THEN 0 ELSE Min(Pending)
Asks(kind) == Pending # {} /\ asked[Oldest] = kind

\* readUnfinishedApprovalPlanClaim.
Unfinished ==
    current # 0 /\ status[current] = "approved" /\ claim[current].phase \in {"accepted", "running"}

Enter(place, comment, recovering) ==
    /\ pc = "off"
    /\ pc' = place
    /\ run' = [plan |-> current, comment |-> comment, seen |-> head, prior |-> commit,
               recovering |-> recovering]
    /\ commit' = 0
    /\ UNCHANGED <<remote, through, current, orphan, sidecar, artifacts, outbox, checkout,
                   closing, branch, latest, effect, faults>>

EnterClose ==
    /\ pc = "off" /\ (closing \/ Asks("close"))
    /\ closing' = TRUE
    /\ Goto("close")
    /\ UNCHANGED <<remote, stateFile, current, orphan, sidecar, artifacts, outbox, checkout,
                   branch, latest, effect, faults>>

EnterRecovery ==
    /\ ~closing /\ ~Asks("close") /\ Unfinished
    /\ Enter("check", claim[current].comment, TRUE)
    /\ UNCHANGED handled

\* The approval comment stays pending until it is claimed.
EnterApproval ==
    /\ ~closing /\ ~Unfinished /\ Asks("approval") /\ current # 0
    /\ Enter("check", Oldest, FALSE)
    /\ UNCHANGED handled

\* Without a plan the comment is for a legacy proposal, and there is none.
EnterLegacy ==
    /\ ~closing /\ ~Unfinished /\ Asks("approval") /\ current = 0
    /\ Enter("off", 0, FALSE)
    /\ handled' = handled \cup {Oldest}

EnterCommand ==
    /\ ~closing /\ ~Unfinished /\ Asks("command")
    /\ Enter("plan", Oldest, FALSE)
    /\ handled' = handled \cup {Oldest}

-----------------------------------------------------------------------------
(* Planning and publication (publishApprovalPlan). *)

\* The Agent did not finish, or something failed; a paused task may keep its own workspace.
PlanningFails ==
    /\ pc \in {"plan", "version"}
    /\ pc = "version" => orphan
    /\ \/ retained' = Other /\ answered' = FALSE
       \/ UNCHANGED <<retained, answered>>
    /\ Goto("off")
    /\ UNCHANGED <<remote, stateFile, current, orphan, sidecar, artifacts, outbox, workspace,
                   closing, branch, latest, effect, faults>>

\* The old plan is superseded before the new one exists; a mutant leaves it.
Superseded_Not == status
Superseded == IF current = 0 THEN status ELSE [status EXCEPT ![current] = "superseded"]

Supersede ==
    /\ pc = "plan" /\ head = run.seen /\ NextPlan \in Plans
    /\ status' = Superseded
    /\ Goto("version")
    /\ UNCHANGED <<remote, stateFile, current, orphan, receipt, claim, artifacts, outbox,
                   checkout, closing, branch, latest, effect, faults>>

\* The immutable file of a revision is written once: a left-over of a worker
\* that died here belongs to another plan, and PlanningFails.
SaveVersion ==
    /\ pc = "version" /\ ~orphan
    /\ orphan' = TRUE
    /\ Goto("pointer")
    /\ UNCHANGED <<remote, stateFile, current, sidecar, artifacts, outbox, checkout, closing,
                   branch, latest, effect, faults>>

SavePlan ==
    /\ pc = "pointer"
    /\ orphan' = FALSE
    /\ latest' = NextPlan /\ current' = NextPlan
    /\ status' = [status EXCEPT ![NextPlan] = "draft"]
    /\ basis' = [basis EXCEPT ![NextPlan] = run.seen]
    /\ workspace' = [workspace EXCEPT ![NextPlan] = "clean"]
    /\ pc' = "enqueue"
    /\ run' = [run EXCEPT !.plan = NextPlan]
    /\ UNCHANGED <<remote, stateFile, receipt, claim, done, outbox, retained, answered,
                   closing, branch,
                   effect, faults>>

Enqueue ==
    /\ pc = "enqueue"
    /\ row' = [row EXCEPT ![run.plan] = "unsent"]
    /\ Goto("pend")
    /\ UNCHANGED <<remote, stateFile, current, orphan, sidecar, artifacts, posted, checkout,
                   closing, branch, latest, effect, faults>>

Pend ==
    /\ pc = "pend"
    /\ status' = [status EXCEPT ![run.plan] = "publication_pending"]
    /\ Goto("retain")
    /\ UNCHANGED <<remote, stateFile, current, orphan, receipt, claim, artifacts, outbox,
                   checkout, closing, branch, latest, effect, faults>>

Retain ==
    /\ pc = "retain"
    /\ retained' = run.plan /\ answered' = FALSE
    /\ Goto("deliver")
    /\ UNCHANGED <<remote, stateFile, current, orphan, sidecar, artifacts, outbox, workspace,
                   closing, branch, latest, effect, faults>>

\* The worker's own attempt is over: either the row is delivered, or the outbox
\* goes on without it.
DeliverPlan ==
    /\ pc = "deliver"
    /\ \/ /\ row[run.plan] = "delivered"
          /\ status' = [status EXCEPT ![run.plan] = "published"]
          /\ receipt' = [receipt EXCEPT ![run.plan] = posted[run.plan]]
          /\ Goto("finalize")
       \/ /\ row[run.plan] # "delivered"
          /\ status' = [status EXCEPT ![run.plan] = "publication_pending"]
          /\ UNCHANGED receipt
          /\ Goto("off")
    /\ UNCHANGED <<remote, stateFile, current, orphan, claim, artifacts, outbox, checkout,
                   closing, branch, latest, effect, faults>>

FinalizeRow ==
    /\ pc = "finalize"
    /\ row' = [row EXCEPT ![run.plan] = "final"]
    /\ Goto("off")
    /\ UNCHANGED <<remote, stateFile, current, orphan, sidecar, artifacts, posted, checkout,
                   closing, branch, latest, effect, faults>>

-----------------------------------------------------------------------------
(* Approval (claimApprovalPlan).  The plan is the one read when the run      *)
(* started, the head of the branch the one seen then.                        *)

Confirmed(p) == receipt[p] # 0 /\ row[p] \in {"delivered", "final"} /\ posted[p] = receipt[p]

\* assertApprovalProvenance: the approval is newer than the plan's comment.
Provenance_Any(p, c) == TRUE
Provenance(p, c) == c > receipt[p]

\* What is checked before the facts: the publication and, unless a claim is
\* being recovered, that it waits for approval and who approves it.
Eligible(p) ==
    /\ Confirmed(p)
    /\ run.recovering \/ (status[p] = "published" /\ Provenance(p, run.comment))

\* assertCurrentApprovalPlanFacts, and a mutant that forgets the head.
Facts_AnyHead(p) == retained = p
Facts(p) == run.seen = basis[p] /\ retained = p

\* compareConflictWorkspaceEvidence, and a mutant that only needs the workspace to exist.
Evidence_Exists(p) == workspace[p] # "gone"
Evidence(p) == workspace[p] = "clean"

\* An interrupted write left something on the branch, or a candidate to push.
Moved(p) == claim[p].phase = "running" /\ (run.seen # basis[p] \/ run.prior # 0)
Finished(p) == claim[p].phase = "running" /\ done[p]

\* disposeTerminalWorkspace: a workspace whose task is answered is removed, if it can be.
Dispose(p) ==
    /\ workspace' \in {workspace} \cup
                      (IF answered THEN {[workspace EXCEPT ![p] = "gone"]} ELSE {})
    /\ UNCHANGED <<retained, answered>>

\* finishRun and the catch of the runner: some tasks are paused again, and keep it.
Leave(p) ==
    \/ workspace[p] # "gone" /\ answered' = FALSE /\ UNCHANGED <<retained, workspace>>
    \/ Dispose(p)

\* A recovered claim that is over, or that cannot be repeated, ends here.
Recovered ==
    /\ pc = "check" /\ retained # 0 /\ run.recovering /\ Confirmed(run.plan)
    /\ Finished(run.plan) \/ Moved(run.plan)
    /\ claim' = [claim EXCEPT ![run.plan].phase =
                     IF Finished(run.plan) THEN "completed" ELSE "interrupted"]
    /\ Dispose(run.plan)
    /\ Goto("off")
    /\ UNCHANGED <<remote, stateFile, current, orphan, status, receipt, artifacts, outbox,
                   closing, branch, latest, effect, faults>>

\* No workspace is kept, or that of another, paused task.
PreparationFails ==
    /\ pc = "check" /\ retained \in {0, Other}
    /\ Goto("off")
    /\ UNCHANGED <<remote, stateFile, current, orphan, sidecar, artifacts, outbox, checkout,
                   closing, branch, latest, effect, faults>>

\* Any failed check ends the run and resets the status, whatever it was.  The SCM may
\* refuse the author of a new approval, or fail to answer.
Reject ==
    LET p == run.plan
        retired == Eligible(p) /\ (~Facts(p) \/ workspace[p] = "changed")
        failed == ~Eligible(p) \/ ~run.recovering \/ (Facts(p) /\ workspace[p] = "gone")
    IN  /\ pc = "check" /\ retained # 0
        /\ ~(run.recovering /\ Confirmed(p) /\ (Finished(p) \/ Moved(p)))
        /\ \/ retired /\ status' = [status EXCEPT ![p] = "stale"] /\ Dispose(p)
           \/ failed /\ status' = [status EXCEPT ![p] = "published"] /\ Leave(p)
        /\ Goto("off")
        /\ UNCHANGED <<remote, stateFile, current, orphan, receipt, claim, artifacts, outbox,
                       closing, branch, latest, effect, faults>>

Accept ==
    LET p == run.plan
    IN  /\ pc = "check" /\ retained # 0
        /\ Eligible(p) /\ Facts(p) /\ Evidence(p)
        /\ IF run.recovering
           THEN /\ ~Finished(p) /\ ~Moved(p)
                /\ UNCHANGED sidecar
           ELSE /\ status' = [status EXCEPT ![p] = "approved"]
                /\ claim' = [claim EXCEPT ![p] = [phase |-> "accepted", comment |-> run.comment]]
                /\ UNCHANGED receipt
        /\ Goto("take")
        /\ UNCHANGED <<remote, stateFile, current, orphan, artifacts, outbox, checkout,
                       closing, branch, latest, effect, faults>>

\* The claim is now that of this run, which has no completion artifact; a mutant
\* in which the claim goes on naming the run before.
TakenOver_Not(p) == done
TakenOver(p) == [done EXCEPT ![p] = FALSE]

TakeClaim ==
    /\ pc = "take"
    /\ claim' = [claim EXCEPT ![run.plan].phase = "running"]
    /\ done' = TakenOver(run.plan)
    /\ Goto("retire")
    /\ UNCHANGED <<remote, stateFile, current, orphan, status, receipt, basis, outbox,
                   checkout, closing, branch, latest, effect, faults>>

RetireComment ==
    /\ pc = "retire"
    /\ handled' = handled \cup {claim[run.plan].comment}
    /\ Goto("write")
    /\ UNCHANGED <<remote, through, commit, current, orphan, sidecar, artifacts, outbox,
                   checkout, closing, branch, latest, effect, faults>>

-----------------------------------------------------------------------------
(* The approved write, as one edit, one commit and one push at most. *)

Edit ==
    /\ pc = "write"
    /\ workspace' = [workspace EXCEPT ![run.plan] = "changed"]
    /\ effect' = [effect EXCEPT ![run.plan] = "edited"]
    /\ Goto("edited")
    /\ UNCHANGED <<remote, stateFile, current, orphan, sidecar, artifacts, outbox, retained,
                   answered, closing, branch, latest, faults>>

\* commitRepair in the workspace of the plan, if the branch has not moved, and the
\* state file names the candidate before it is pushed.
Commit ==
    /\ pc = "edited" /\ head = run.seen
    /\ commit' = Candidate(run.plan)
    /\ past' = [past EXCEPT ![Candidate(run.plan)] = past[basis[run.plan]] \cup {Candidate(run.plan)}]
    /\ Goto("push")
    /\ UNCHANGED <<remote, handled, through, current, orphan, sidecar, artifacts, outbox,
                   checkout, closing, head, latest, effect, faults>>

\* assertCurrentChangeRequest, read once more before the push.
LookAgain ==
    /\ pc = "push" /\ head = run.seen
    /\ Goto("pushing")
    /\ UNCHANGED <<remote, stateFile, current, orphan, sidecar, artifacts, outbox, checkout,
                   closing, branch, latest, effect, faults>>

\* pushRepair.  The branch may have moved since: Git refuses a push that is not on top
\* of the head it finds, and takes one on top of an older head than was looked at.
Push ==
    /\ pc = "pushing" /\ head \in past[Candidate(run.plan)]
    /\ head' = Candidate(run.plan)
    /\ effect' = [effect EXCEPT ![run.plan] = "pushed"]
    /\ Goto("confirm")
    /\ UNCHANGED <<remote, stateFile, current, orphan, sidecar, artifacts, outbox, checkout,
                   past, closing, latest, faults>>

\* assertCurrentChangeRequest with the new head.
Confirm ==
    /\ pc = "confirm" /\ head = Candidate(run.plan)
    /\ Goto("answer")
    /\ UNCHANGED <<remote, stateFile, current, orphan, sidecar, artifacts, outbox, checkout,
                   closing, branch, latest, effect, faults>>

\* publishTaskWithLifecycle: the paused workspace is completed first.
Answer ==
    /\ pc \in {"write", "answer"}
    /\ answered' = TRUE
    /\ Goto("deliver_answer")
    /\ UNCHANGED <<remote, stateFile, current, orphan, sidecar, artifacts, outbox, retained,
                   workspace, closing, branch, latest, effect, faults>>

\* publishTaskAnswer saves delivery.json before it posts the answer.
SaveAnswer ==
    /\ pc = "deliver_answer"
    /\ done' = [done EXCEPT ![run.plan] = TRUE]
    /\ Goto("finish")
    /\ UNCHANGED <<remote, stateFile, current, orphan, sidecar, basis, outbox, checkout,
                   closing, branch, latest, effect, faults>>

\* settleApprovalPlanClaim.
Settled(p, phase) ==
    IF claim[p].phase = "running" THEN [claim EXCEPT ![p].phase = phase] ELSE claim

Finish ==
    /\ pc = "finish"
    /\ claim' = Settled(run.plan, "completed")
    /\ Dispose(run.plan)
    /\ Goto("off")
    /\ UNCHANGED <<remote, stateFile, current, orphan, status, receipt, artifacts, outbox,
                   closing, branch, latest, effect, faults>>

\* A /stop, an exhausted budget, a failed check, a refused or unconfirmed push, an error.
GiveUp ==
    /\ pc \in {"write", "edited", "push", "pushing", "confirm", "answer", "deliver_answer",
               "finish"}
    /\ claim' = Settled(run.plan, "interrupted")
    /\ Leave(run.plan)
    /\ Goto("off")
    /\ UNCHANGED <<remote, stateFile, current, orphan, status, receipt, artifacts, outbox,
                   closing, branch, latest, effect, faults>>

-----------------------------------------------------------------------------
(* /close: the lifecycle first, then the deliveries, then the files. *)

RetireLifecycle ==
    /\ pc = "close"
    /\ IF current = 0 THEN UNCHANGED <<status, claim>>
       ELSE /\ status' = IF status[current] \in {"stale", "superseded"} THEN status
                         ELSE [status EXCEPT ![current] = "stale"]
            /\ claim' = IF claim[current].phase \in {"accepted", "running"}
                        THEN [claim EXCEPT ![current].phase = "interrupted"] ELSE claim
    /\ Goto("cancel")
    /\ UNCHANGED <<remote, stateFile, current, orphan, receipt, artifacts, outbox, checkout,
                   closing, branch, latest, effect, faults>>

\* A delivery that is being sent stops the close, to be resumed later; one whose lease
\* has expired is left to the outbox.
CancelRows ==
    /\ pc = "cancel"
    /\ \/ (\E p \in Plans : row[p] = "sending") /\ UNCHANGED row /\ Goto("off")
       \/ /\ row' = [p \in Plans |-> CASE row[p] = "unsent" -> "cancelled"
                                        [] row[p] = "delivered" -> "final"
                                        [] OTHER -> row[p]]
            /\ Goto("remove")
    /\ UNCHANGED <<remote, stateFile, current, orphan, sidecar, artifacts, posted, checkout,
                   closing, branch, latest, effect, faults>>

\* Every comment so far is closed (a simplification: Conversation has the details).
HighWater == lastId

Remove ==
    /\ pc = "remove"
    /\ current' = 0 /\ orphan' = FALSE
    /\ status' = [p \in Plans |-> "absent"]
    /\ claim' = [p \in Plans |-> NoClaim]
    /\ receipt' = [p \in Plans |-> 0]
    /\ done' = [p \in Plans |-> FALSE]
    /\ retained' = 0 /\ answered' = FALSE
    /\ workspace' = [p \in Plans |-> IF basis[p] # 0 THEN "gone" ELSE workspace[p]]
    /\ handled' = {} /\ through' = HighWater /\ commit' = 0
    /\ closing' = FALSE
    /\ Goto("off")
    /\ UNCHANGED <<remote, basis, outbox, branch, latest, effect, faults>>

-----------------------------------------------------------------------------
(* The worker dies.  A transient failure before anything is written is the same. *)
Die ==
    /\ pc # "off" /\ faults < MaxFaults
    /\ faults' = faults + 1
    /\ Goto("off")
    /\ UNCHANGED <<remote, stateFile, current, orphan, sidecar, artifacts, outbox, checkout,
                   closing, branch, latest, effect>>

Entry == EnterClose \/ EnterRecovery \/ EnterApproval \/ EnterLegacy \/ EnterCommand
Planning == PlanningFails \/ Supersede \/ SaveVersion \/ SavePlan \/ Enqueue \/ Pend
            \/ Retain \/ DeliverPlan \/ FinalizeRow
Approval == Recovered \/ PreparationFails \/ Reject \/ Accept \/ TakeClaim \/ RetireComment
Writing == Edit \/ Commit \/ LookAgain \/ Push \/ Confirm \/ Answer \/ SaveAnswer \/ Finish \/ GiveUp
Close == RetireLifecycle \/ CancelRows \/ Remove
Environment ==
    \/ \E kind \in {"command", "approval", "close"} : Write(kind)
    \/ PushByPeople
    \/ \E p \in Plans : PostPlan(p) \/ SettlePlan(p) \/ FinalizePlan(p)
    \/ Die

Next == Entry \/ Planning \/ Approval \/ Writing \/ Close \/ Environment

Spec == Init /\ [][Next]_vars

-----------------------------------------------------------------------------
(* Properties. *)

\* Every variable has its type.
TypeOK ==
    /\ asked \in [Ids -> {"none", "command", "approval", "close"}]
    /\ lastId \in 0 .. MaxId
    /\ handled \subseteq Ids /\ through \in 0 .. MaxId
    /\ commit \in {0} \cup Candidates
    /\ current \in 0 .. MaxPlans /\ orphan \in BOOLEAN
    /\ status \in [Plans -> Status]
    /\ receipt \in [Plans -> 0 .. MaxId]
    /\ claim \in [Plans -> Claims]
    /\ basis \in [Plans -> Shas \cup {0}]
    /\ done \in [Plans -> BOOLEAN]
    /\ row \in [Plans -> Rows]
    /\ posted \in [Plans -> 0 .. MaxId]
    /\ retained \in 0 .. Other /\ answered \in BOOLEAN
    /\ workspace \in [Plans -> {"none", "clean", "changed", "gone"}]
    /\ closing \in BOOLEAN
    /\ pc \in Places
    /\ run \in Runs
    /\ head \in Shas /\ past \in [Shas -> SUBSET Shas]
    /\ latest \in 0 .. MaxPlans
    /\ effect \in [Plans -> {"none", "edited", "pushed"}]
    /\ faults \in 0 .. MaxFaults

\* The current plan is only replaced by a newer one, or removed by a close: no late
\* delivery moves the pointer back to an older plan, although every update of a plan
\* rewrites it (approval-plans.ts, updateApprovalPlan; finalizeApprovalPlanPublication).
PointerStep == current' = 0 \/ current' >= current
PointerForward == [][PointerStep]_current

\* Whoever approves a plan has seen it, and no newer one: the plan a comment approves is
\* the last one that was published before the comment (command-approval.ts).
ApprovalMeantThis ==
    \A p \in Plans : claim[p].phase # "none" =>
        /\ 0 < posted[p] /\ posted[p] < claim[p].comment
        /\ \A q \in Plans : posted[q] < claim[p].comment => posted[q] <= posted[p]

\* A plan whose execution has changed anything is never executed again, after whatever
\* deaths, recoveries and further approvals (approval-plan-execution.ts).
FirstWrite == pc # "write" /\ pc' = "write" => effect[run.plan] = "none"
NoReplay == [][FirstWrite]_vars

\* The commits of a plan are pushed only while it is the current plan, approved and
\* claimed, and its run has found the branch at the commit the plan was made for; they
\* land on that commit, or on an older one of its history that the branch was forced
\* back to since, never on a commit the plan does not know (writeback.ts, performWriteback).
PlannedPush ==
    \A p \in Plans : effect'[p] = "pushed" /\ effect[p] # "pushed" =>
        /\ run.plan = p /\ run.seen = basis[p] /\ head \in past[basis[p]]
        /\ current = p /\ status[p] = "approved" /\ claim[p].phase = "running"
PushedAsPlanned == [][PlannedPush]_vars

\* A claim that is completed has nothing that was edited and not pushed.
CompletedIsHonest == \A p \in Plans : claim[p].phase = "completed" => effect[p] # "edited"

=============================================================================
