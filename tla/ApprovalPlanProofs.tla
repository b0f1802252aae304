------------------------ MODULE ApprovalPlanProofs ------------------------
(***************************************************************************)
(* Theorems of ApprovalPlan, for every bound on plans, comments, commits   *)
(* and deaths.                                                             *)
(*                                                                         *)
(* The argument: the current plan is the last one there has been, so the   *)
(* plan a run works on is newer than every other that has a comment, and   *)
(* no other waits for a receipt (Numbered, RunPlan, Posting).  A comment   *)
(* that approves it was written after its comment (Approving).  From the   *)
(* moment a claim is accepted until its run ends, nothing else writes the  *)
(* sidecar (Executing); when it is accepted again after a death, the       *)
(* workspace shows whether anything was done (Effects).  The candidate is   *)
(* built on the plan's commit, which a push of others never rewrites        *)
(* (Built).                                                                *)
(***************************************************************************)
EXTENDS ApprovalPlan, WellFoundedInduction, TLAPS

\* The places where a run works on the current plan, and those after it took the claim.
RunningPlaces == {"retire", "write", "edited", "push", "pushing", "confirm", "answer",
                  "deliver_answer", "finish"}
PlanPlaces ==
    {"enqueue", "pend", "retain", "deliver", "finalize", "check", "take"} \cup RunningPlaces

\* The plan that is current is the last there has been, and none of the others is
\* waiting for a receipt.
Fresh(p) ==
    /\ status[p] = "absent" /\ claim[p] = NoClaim /\ ~done[p] /\ effect[p] = "none"
    /\ row[p] = "none" /\ posted[p] = 0
Numbered ==
    /\ current \in {0, latest}
    /\ \A p \in Plans : p > latest => Fresh(p)
    /\ \A p \in Plans : Awaits(p) => p = current
    /\ pc \in {"version", "pointer"} =>
        latest < MaxPlans /\ \A p \in Plans : ~ Awaits(p)

\* The plan of a run is the current one.
RunPlan == pc \in PlanPlaces => run.plan = current /\ current # 0

\* Comments are numbered as they are posted, and the comments of plans in their order.
Posting ==
    /\ \A i \in Ids : asked[i] # "none" => i <= lastId
    /\ \A p \in Plans :
        /\ posted[p] <= lastId
        /\ row[p] \in {"none", "unsent"} => posted[p] = 0
        /\ \A q \in 1 .. p - 1 : posted[p] # 0 => row[q] # "unsent" /\ posted[q] < posted[p]
    /\ pc = "enqueue" => row[run.plan] = "none"

\* A comment that approves, or that may, has been written.
Approving ==
    /\ ApprovalMeantThis
    /\ \A p \in Plans : claim[p].phase # "none" => claim[p].comment <= lastId
    /\ pc = "check" => run.comment <= lastId

\* What the execution of a plan did is in its workspace, and an answer that was saved for
\* the run of a claim comes after the push.
Effects ==
    \A p \in Plans :
        /\ effect[p] # "none" => workspace[p] \in {"changed", "gone"}
        /\ done[p] /\ claim[p].phase = "running" => effect[p] # "edited"
        /\ claim[p].phase = "completed" => effect[p] # "edited"

\* What a run may rely on, from the check of its claim to its end.
Executing ==
    LET p == run.plan
    IN  /\ pc = "check" /\ run.recovering =>
            status[p] = "approved" /\ claim[p].phase \in {"accepted", "running"}
        /\ pc \in {"take", "retire", "write", "edited", "push", "pushing"} =>
            run.seen = basis[p] /\ status[p] = "approved"
        /\ pc = "take" => claim[p].phase \in {"accepted", "running"}
        /\ pc \in RunningPlaces => claim[p].phase = "running"
        /\ pc \in RunningPlaces \ {"finish"} => ~ done[p]
        /\ pc \in {"take", "retire", "write"} => effect[p] = "none"
        /\ pc \in {"edited", "push", "pushing"} => effect[p] = "edited"
        /\ pc \in {"confirm", "answer", "deliver_answer", "finish"} => effect[p] # "edited"

\* The branch is at a commit that everybody knows, and the candidate that is about to
\* be pushed is built on the commit of its plan.
Built ==
    /\ head \in Public /\ past[head] # {}
    /\ \A p \in Plans : effect[p] = "pushed" => past[Candidate(p)] # {}
    /\ pc \in {"push", "pushing"} =>
        /\ basis[run.plan] \in Shas \ {Candidate(run.plan)} /\ past[basis[run.plan]] # {}
        /\ past[Candidate(run.plan)] = past[basis[run.plan]] \cup {Candidate(run.plan)}

Inv == TypeOK /\ Numbered /\ RunPlan /\ Posting /\ Approving /\ Effects /\ Executing /\ Built

-----------------------------------------------------------------------------

USE ApprovalAssumption
    DEF remote, stateFile, sidecar, artifacts, outbox, branch, checkout, Plans, Ids, Other

\* A nonempty set of naturals has a least element.
LEMMA LeastExists ==
    ASSUME NEW S \in SUBSET Nat, S # {}
    PROVE  \E x \in S : \A y \in S : x <= y
<1> DEFINE R == {ss \in Nat \X Nat : ss[1] < ss[2]}
<1>1. IsWellFoundedOn(R, Nat)
    BY NatLessThanWellFounded, Zenon DEF OpToRel
<1>2. \E x \in S : \A y \in S : ~ (<<y, x>> \in R)
    <2> HIDE DEF R
    <2> QED BY <1>1, WFMin, Zenon
<1>3. ASSUME NEW x \in Nat, NEW y \in Nat, ~ (<<y, x>> \in R) PROVE x <= y
    BY <1>3
<1> QED BY <1>2, <1>3

\* The oldest pending comment is a comment that asks for something.
LEMMA OldestIsAsked ==
    ASSUME Pending # {}
    PROVE  Oldest \in Ids /\ asked[Oldest] # "none"
<1>1. Pending \in SUBSET Nat
    BY DEF Pending
<1>2. Min(Pending) \in Pending
    BY <1>1, LeastExists DEF Min
<1> QED BY <1>2 DEF Oldest, Pending

LEMMA StutterInv == Inv /\ UNCHANGED vars => Inv'
<1> SUFFICES ASSUME Inv, UNCHANGED vars PROVE Inv'
    OBVIOUS
<1> USE DEF vars, Inv
<1>1. TypeOK'
    BY DEF TypeOK
<1>2. Numbered'
    BY DEF Numbered, Fresh, Awaits
<1>3. RunPlan' /\ Posting'
    BY DEF RunPlan, Posting
<1>4. Approving' /\ Effects' /\ Executing'
    BY DEF Approving, ApprovalMeantThis, Effects, Executing
<1>5. Built'
    BY DEF Built, Public
<1> QED BY <1>1, <1>2, <1>3, <1>4, <1>5

\* What a run has read.
LEMMA RunTypes ==
    /\ NoRun \in Runs
    /\ \A r \in Runs : r.plan \in 0 .. MaxPlans /\ r.comment \in 0 .. MaxId
                       /\ r.seen \in Shas \cup {0}
    /\ \A r \in Runs, p \in Plans : [r EXCEPT !.plan = p] \in Runs
BY DEF Runs, NoRun

LEMMA ClaimTypes ==
    /\ NoClaim \in Claims
    /\ \A phase \in Phases, c \in 0 .. MaxId : [phase |-> phase, comment |-> c] \in Claims
    /\ \A c \in Claims : c.comment \in 0 .. MaxId
    /\ \A c \in Claims, phase \in Phases : [c EXCEPT !.phase = phase] \in Claims
BY DEF Claims, NoClaim, Phases

LEMMA GotoTypes ==
    ASSUME NEW place \in Places, Goto(place), run \in Runs
    PROVE  pc' \in Places /\ run' \in Runs
BY RunTypes DEF Goto

LEMMA EnterTypes ==
    ASSUME TypeOK, NEW place \in Places, NEW comment \in 0 .. MaxId, NEW recovering \in BOOLEAN,
           Enter(place, comment, recovering)
    PROVE  pc' \in Places /\ run' \in Runs
BY DEF TypeOK, Enter, Runs

\* Types.
LEMMA TypesStep ==
    ASSUME Inv, Next
    PROVE  TypeOK'
<1>0. TypeOK /\ run.plan \in 0 .. MaxPlans /\ (pc \in PlanPlaces => run.plan \in Plans)
    <2>1. TypeOK /\ RunPlan
        BY DEF Inv
    <2>2. run \in Runs /\ current \in 0 .. MaxPlans
        BY <2>1 DEF TypeOK
    <2> QED BY <2>1, <2>2, RunTypes DEF RunPlan
<1> USE <1>0, GotoTypes DEF TypeOK, Places, Status, Phases, Rows, PlanPlaces, RunningPlaces
<1>1. CASE EnterClose
    BY <1>1 DEF EnterClose, Asks
<1>2. CASE EnterRecovery
    <2>1. current \in Plans
        BY <1>2 DEF EnterRecovery, Unfinished
    <2>2. claim[current].comment \in 0 .. MaxId
        BY <1>2, <2>1, ClaimTypes
    <2>3. pc' \in Places /\ run' \in Runs
        BY <1>2, <2>2, EnterTypes DEF EnterRecovery
    <2> QED BY <1>2, <2>1, <2>2, <2>3 DEF EnterRecovery, Enter
<1>3. CASE EnterApproval
    <2>1. Oldest \in 0 .. MaxId
        BY <1>3, OldestIsAsked DEF EnterApproval, Asks
    <2>2. pc' \in Places /\ run' \in Runs
        BY <1>3, <2>1, EnterTypes DEF EnterApproval
    <2> QED BY <1>3, <2>1, <2>2 DEF EnterApproval, Enter
<1>4. CASE EnterLegacy
    <2>1. Oldest \in Ids
        BY <1>4, OldestIsAsked DEF EnterLegacy, Asks
    <2>2. 0 \in 0 .. MaxId
        OBVIOUS
    <2>3. pc' \in Places /\ run' \in Runs
        BY <1>4, <2>2, EnterTypes DEF EnterLegacy
    <2> QED BY <1>4, <2>1, <2>2, <2>3 DEF EnterLegacy, Enter
<1>5. CASE EnterCommand
    <2>1. Oldest \in Ids /\ Oldest \in 0 .. MaxId
        BY <1>5, OldestIsAsked DEF EnterCommand, Asks
    <2>2. pc' \in Places /\ run' \in Runs
        BY <1>5, <2>1, EnterTypes DEF EnterCommand
    <2> QED BY <1>5, <2>1, <2>2 DEF EnterCommand, Enter
<1>6. CASE PlanningFails
    <2>1. retained' \in 0 .. Other
        BY <1>6 DEF PlanningFails
    <2>2. answered' \in BOOLEAN
        BY <1>6 DEF PlanningFails
    <2>3. pc' \in Places /\ run' \in Runs
        BY <1>6 DEF PlanningFails
    <2> QED BY <1>6, <2>1, <2>2, <2>3 DEF PlanningFails
<1>7. CASE Supersede \/ SaveVersion
    BY <1>7 DEF Supersede, Superseded, NextPlan, SaveVersion
<1>8. CASE SavePlan
    <2>1. NextPlan \in Plans
        BY <1>8 DEF SavePlan, NextPlan, Inv, Numbered
    <2>2. pc' \in Places /\ run' \in Runs
        BY <1>8, <2>1, RunTypes DEF SavePlan
    <2>3. basis' \in [Plans -> Shas \cup {0}]
        BY <1>8, <2>1, RunTypes DEF SavePlan
    <2>4. latest' \in 0 .. MaxPlans /\ current' \in 0 .. MaxPlans
        BY <1>8, <2>1 DEF SavePlan
    <2> QED BY <1>8, <2>1, <2>2, <2>3, <2>4 DEF SavePlan
<1>9. CASE Enqueue \/ Pend
    BY <1>9 DEF Enqueue, Pend
<1>10. CASE Retain
    <2>1. retained' \in 0 .. Other
        BY <1>10 DEF Retain
    <2>2. pc' \in Places /\ run' \in Runs
        BY <1>10 DEF Retain
    <2> QED BY <1>10, <2>1, <2>2 DEF Retain
<1>11. CASE DeliverPlan
    <2>1. status' \in [Plans -> Status]
        BY <1>11 DEF DeliverPlan
    <2>2. run.plan \in Plans /\ posted[run.plan] \in 0 .. MaxId
        BY <1>11 DEF DeliverPlan
    <2>3. receipt' \in [Plans -> 0 .. MaxId]
        BY <1>11, <2>2 DEF DeliverPlan
    <2>4. pc' \in Places /\ run' \in Runs
        BY <1>11 DEF DeliverPlan
    <2> QED BY <1>11, <2>1, <2>2, <2>3, <2>4 DEF DeliverPlan
<1>12. CASE FinalizeRow
    BY <1>12 DEF FinalizeRow
<1>13. CASE Recovered
    <2>1. claim' \in [Plans -> Claims]
        BY <1>13, ClaimTypes DEF Recovered
    <2>2. workspace' \in [Plans -> {"none", "clean", "changed", "gone"}] /\ answered' \in BOOLEAN
        BY <1>13 DEF Recovered, Dispose
    <2>3. pc' \in Places /\ run' \in Runs
        BY <1>13 DEF Recovered
    <2> QED BY <1>13, <2>1, <2>2, <2>3 DEF Recovered, Dispose
<1>14. CASE PreparationFails
    BY <1>14 DEF PreparationFails
<1>15. CASE Reject
    <2>1. status' \in [Plans -> Status]
        BY <1>15 DEF Reject
    <2>2. Dispose(run.plan) \/ Leave(run.plan)
        BY <1>15 DEF Reject
    <2>3. workspace' \in [Plans -> {"none", "clean", "changed", "gone"}] /\ answered' \in BOOLEAN
        BY <1>15, <2>2 DEF Dispose, Leave
    <2>4. pc' \in Places /\ run' \in Runs
        BY <1>15 DEF Reject
    <2>5. UNCHANGED retained
        BY <1>15, <2>2 DEF Dispose, Leave
    <2> QED BY <1>15, <2>1, <2>2, <2>3, <2>4, <2>5 DEF Reject
<1>16. CASE Accept
    <2>1. status' \in [Plans -> Status]
        BY <1>16 DEF Accept
    <2>2. [phase |-> "accepted", comment |-> run.comment] \in Claims
        BY <1>16, ClaimTypes, RunTypes
    <2>3. claim' \in [Plans -> Claims]
        BY SMTT(30), <1>16, <2>2 DEF Accept
    <2>4. pc' \in Places /\ run' \in Runs
        BY <1>16 DEF Accept
    <2>5. receipt' = receipt
        BY <1>16 DEF Accept
    <2> QED BY <1>16, <2>1, <2>2, <2>3, <2>4, <2>5 DEF Accept
<1>17. CASE TakeClaim
    <2>1. claim' \in [Plans -> Claims]
        BY <1>17, ClaimTypes DEF TakeClaim
    <2>2. done' \in [Plans -> BOOLEAN]
        BY <1>17 DEF TakeClaim, TakenOver
    <2>3. pc' \in Places /\ run' \in Runs
        BY <1>17 DEF TakeClaim
    <2> QED BY <1>17, <2>1, <2>2, <2>3 DEF TakeClaim
<1>18. CASE RetireComment
    <2>1. run.plan \in Plans
        BY <1>18 DEF RetireComment
    <2>2. claim[run.plan].phase # "none"
        BY <1>18 DEF RetireComment, Inv, Executing
    <2>3. 0 < posted[run.plan] /\ posted[run.plan] < claim[run.plan].comment
        BY <1>18, <2>1, <2>2 DEF Inv, Approving, ApprovalMeantThis
    <2>4. posted[run.plan] \in 0 .. MaxId /\ claim[run.plan].comment \in 0 .. MaxId
        BY <1>18, <2>1, ClaimTypes
    <2>5. claim[run.plan].comment \in Ids
        BY <1>18, <2>3, <2>4
    <2>6. pc' \in Places /\ run' \in Runs
        BY <1>18 DEF RetireComment
    <2> QED BY <1>18, <2>1, <2>2, <2>3, <2>4, <2>5, <2>6 DEF RetireComment
<1>19. CASE Edit
    BY <1>19 DEF Edit
<1>20. CASE Commit
    <2>1. commit' \in {0} \cup Candidates
        BY <1>20 DEF Commit, Candidates
    <2>2. pc' \in Places /\ run' \in Runs
        BY <1>20 DEF Commit
    <2>3. Candidate(run.plan) \in Shas
        BY <1>20 DEF Commit, Candidates, Shas
    <2>4. basis[run.plan] \in Shas
        BY <1>20 DEF Commit, Inv, Executing
    <2>5. past' \in [Shas -> SUBSET Shas]
        BY <1>20, <2>3, <2>4 DEF Commit
    <2> QED BY <1>20, <2>1, <2>2, <2>5 DEF Commit
<1>21. CASE Push
    <2>1. head' \in Shas
        BY <1>21 DEF Push, Candidates, Shas
    <2>2. pc' \in Places /\ run' \in Runs
        BY <1>21 DEF Push
    <2> QED BY <1>21, <2>1, <2>2 DEF Push
<1>22. CASE LookAgain \/ Confirm \/ Answer \/ SaveAnswer
    BY <1>22 DEF LookAgain, Confirm, Answer, SaveAnswer
<1>23. CASE Finish
    <2>1. claim' \in [Plans -> Claims]
        BY <1>23, ClaimTypes DEF Finish, Settled
    <2>2. workspace' \in [Plans -> {"none", "clean", "changed", "gone"}] /\ answered' \in BOOLEAN
        BY <1>23 DEF Finish, Dispose
    <2>3. retained' = retained
        BY <1>23 DEF Finish, Dispose
    <2>4. pc' \in Places /\ run' \in Runs
        BY <1>23 DEF Finish
    <2> QED BY <1>23, <2>1, <2>2, <2>3, <2>4 DEF Finish
<1>24. CASE GiveUp
    <2>1. claim' \in [Plans -> Claims]
        BY <1>24, ClaimTypes DEF GiveUp, Settled
    <2>2. workspace' \in [Plans -> {"none", "clean", "changed", "gone"}] /\ answered' \in BOOLEAN
        BY <1>24 DEF GiveUp, Dispose, Leave
    <2>3. retained' = retained
        BY <1>24 DEF GiveUp, Dispose, Leave
    <2>4. pc' \in Places /\ run' \in Runs
        BY <1>24 DEF GiveUp
    <2> QED BY <1>24, <2>1, <2>2, <2>3, <2>4 DEF GiveUp
<1>25. CASE RetireLifecycle
    <2>1. \/ claim' = claim
          \/ (current \in Plans /\ claim' = [claim EXCEPT ![current].phase = "interrupted"])
        BY <1>25 DEF RetireLifecycle
    <2>2. ASSUME current \in Plans
          PROVE  [claim EXCEPT ![current].phase = "interrupted"] \in [Plans -> Claims]
        BY <1>25, <2>2, ClaimTypes
    <2>3. claim' \in [Plans -> Claims]
        BY <1>25, <2>1, <2>2
    <2>4. status' \in [Plans -> Status]
        BY <1>25 DEF RetireLifecycle
    <2>5. pc' \in Places /\ run' \in Runs
        BY <1>25 DEF RetireLifecycle
    <2> QED BY <1>25, <2>1, <2>2, <2>3, <2>4, <2>5 DEF RetireLifecycle
<1>26. CASE CancelRows
    BY SMTT(30), <1>26 DEF CancelRows
<1>27. CASE Remove
    <2>1. claim' \in [Plans -> Claims]
        BY <1>27, ClaimTypes DEF Remove
    <2>2. workspace' \in [Plans -> {"none", "clean", "changed", "gone"}] /\ answered' \in BOOLEAN
        BY <1>27 DEF Remove
    <2>3. pc' \in Places /\ run' \in Runs
        BY <1>27 DEF Remove
    <2>4. handled' \subseteq Ids /\ through' \in 0 .. MaxId
        BY <1>27 DEF Remove, HighWater
    <2>5. current' \in 0 .. MaxPlans /\ retained' \in 0 .. Other
          /\ receipt' \in [Plans -> 0 .. MaxId]
        BY <1>27 DEF Remove
    <2>6. status' \in [Plans -> Status] /\ commit' \in {0} \cup Candidates
        BY <1>27 DEF Remove
    <2> QED BY <1>27, <2>1, <2>2, <2>3, <2>4, <2>5, <2>6 DEF Remove
<1>28. ASSUME NEW kind \in {"command", "approval", "close"}, Write(kind)
           PROVE TypeOK'
    BY <1>28 DEF Write
<1>29. CASE PushByPeople
    <2>1. Public \subseteq Shas
        BY DEF Public, Shas, Candidates
    <2>2. head' \in Shas
        BY <1>29, <2>1 DEF PushByPeople, Shas
    <2>3. past' \in [Shas -> SUBSET Shas]
        <3>1. ASSUME NEW c \in People, NEW on \in Public,
                     past' = [past EXCEPT ![c] = past[on] \cup {c}]
              PROVE  past' \in [Shas -> SUBSET Shas]
            <4>1. c \in Shas /\ on \in Shas
                BY <2>1 DEF Shas
            <4>2. past[on] \cup {c} \in SUBSET Shas
                BY <4>1
            <4> HIDE DEF Shas
            <4> QED BY <3>1, <4>1, <4>2
        <3>2. CASE past' = past
            BY <3>2
        <3>3. \/ past' = past
              \/ \E c \in People, on \in Public : past' = [past EXCEPT ![c] = past[on] \cup {c}]
            BY <1>29 DEF PushByPeople
        <3> QED BY <3>1, <3>2, <3>3, Zenon
    <2> QED BY <1>29, <2>2, <2>3 DEF PushByPeople
<1>30. ASSUME NEW p \in Plans, PostPlan(p) PROVE TypeOK'
    <2>1. posted' \in [Plans -> 0 .. MaxId] /\ lastId' \in 0 .. MaxId
        BY <1>30 DEF PostPlan
    <2>2. row' \in [Plans -> Rows]
        BY <1>30 DEF PostPlan
    <2> QED BY <1>30, <2>1, <2>2 DEF PostPlan
<1>31. ASSUME NEW p \in Plans, SettlePlan(p) PROVE TypeOK'
    BY <1>31 DEF SettlePlan
<1>32. ASSUME NEW p \in Plans, FinalizePlan(p) PROVE TypeOK'
    <2>1. status' \in [Plans -> Status]
        BY <1>32 DEF FinalizePlan
    <2>2. p \in 0 .. MaxPlans /\ posted[p] \in 0 .. MaxId
        BY <1>32
    <2>3. receipt' \in [Plans -> 0 .. MaxId]
        BY <1>32, <2>2 DEF FinalizePlan
    <2>4. current' \in 0 .. MaxPlans
        BY <1>32, <2>2 DEF FinalizePlan
    <2> QED BY <1>32, <2>1, <2>2, <2>3, <2>4 DEF FinalizePlan
<1>33. CASE Die
    BY <1>33 DEF Die
<1> QED BY <1>1, <1>2, <1>3, <1>4, <1>5, <1>6, <1>7, <1>8, <1>9, <1>10, <1>11, <1>12, <1>13,
           <1>14, <1>15, <1>16, <1>17, <1>18, <1>19, <1>20, <1>21, <1>22, <1>23, <1>24, <1>25,
           <1>26, <1>27, <1>28, <1>29, <1>30, <1>31, <1>32, <1>33
       DEF Next, Entry, Planning, Approval, Writing, Close, Environment

\* The numbers of plans.
LEMMA NumberedStep ==
    ASSUME Inv, Next
    PROVE  Numbered'
<1>0. /\ Numbered /\ RunPlan
      /\ status \in [Plans -> Status] /\ row \in [Plans -> Rows] /\ claim \in [Plans -> Claims]
      /\ posted \in [Plans -> 0 .. MaxId] /\ done \in [Plans -> BOOLEAN]
      /\ effect \in [Plans -> {"none", "edited", "pushed"}] /\ current \in 0 .. MaxPlans
      /\ latest \in 0 .. MaxPlans
    BY DEF Inv, TypeOK
<1> USE <1>0 DEF Numbered, Fresh, Awaits, RunPlan, PlanPlaces, RunningPlaces, Goto
<1>1. CASE EnterClose
    BY <1>1 DEF EnterClose
<1>2. CASE EnterRecovery
    BY <1>2 DEF EnterRecovery, Enter
<1>3. CASE EnterApproval
    BY <1>3 DEF EnterApproval, Enter
<1>4. CASE EnterLegacy
    BY <1>4 DEF EnterLegacy, Enter
<1>5. CASE EnterCommand
    BY <1>5 DEF EnterCommand, Enter
<1>6. CASE PlanningFails
    BY <1>6 DEF PlanningFails
<1>7. CASE Supersede
    BY <1>7 DEF Supersede, Superseded, NextPlan
<1>8. CASE SaveVersion
    BY <1>8 DEF SaveVersion
<1>9. CASE SavePlan
    <2>1. current' \in {0, latest'}
        BY <1>9 DEF SavePlan, NextPlan
    <2>2. ASSUME NEW q \in Plans, q > latest' PROVE Fresh(q)'
        BY <1>9, <2>2 DEF SavePlan, NextPlan
    <2>3. ASSUME NEW q \in Plans, Awaits(q)' PROVE q = current'
        BY <1>9, <2>3 DEF SavePlan, NextPlan
    <2>4. pc' \notin {"version", "pointer"}
        BY <1>9 DEF SavePlan, NextPlan
    <2> QED BY <2>1, <2>2, <2>3, <2>4
<1>10. CASE Enqueue
    BY <1>10 DEF Enqueue
<1>11. CASE Pend
    BY <1>11 DEF Pend
<1>12. CASE Retain
    BY <1>12 DEF Retain
<1>13. CASE DeliverPlan
    <2>1. current' \in {0, latest'}
        BY <1>13 DEF DeliverPlan
    <2>2. ASSUME NEW q \in Plans, q > latest' PROVE Fresh(q)'
        BY <1>13, <2>2 DEF DeliverPlan
    <2>3. ASSUME NEW q \in Plans, Awaits(q)' PROVE q = current'
        BY <1>13, <2>3 DEF DeliverPlan
    <2>4. pc' \notin {"version", "pointer"}
        BY <1>13 DEF DeliverPlan
    <2> QED BY <2>1, <2>2, <2>3, <2>4
<1>14. CASE FinalizeRow
    BY <1>14 DEF FinalizeRow
<1>15. CASE Recovered
    BY <1>15 DEF Recovered
<1>16. CASE PreparationFails
    BY <1>16 DEF PreparationFails
<1>17. CASE Reject
    BY <1>17 DEF Reject
<1>18. CASE Accept
    <2>1. current' \in {0, latest'}
        BY <1>18 DEF Accept
    <2>2. ASSUME NEW q \in Plans, q > latest' PROVE Fresh(q)'
        BY <1>18, <2>2 DEF Accept
    <2>3. ASSUME NEW q \in Plans, Awaits(q)' PROVE q = current'
        BY <1>18, <2>3 DEF Accept
    <2>4. pc' \notin {"version", "pointer"}
        BY <1>18 DEF Accept
    <2> QED BY <2>1, <2>2, <2>3, <2>4
<1>19. CASE TakeClaim
    BY <1>19 DEF TakeClaim, TakenOver
<1>20. CASE RetireComment
    BY <1>20 DEF RetireComment
<1>21. CASE Edit
    BY <1>21 DEF Edit
<1>22. CASE Commit
    BY <1>22 DEF Commit
<1>23. CASE Push
    BY <1>23 DEF Push
<1>24. CASE Answer
    BY <1>24 DEF Answer
<1>25. CASE SaveAnswer
    BY <1>25 DEF SaveAnswer
<1>26. CASE Finish
    BY <1>26 DEF Finish, Settled
<1>27. CASE GiveUp
    BY <1>27 DEF GiveUp, Settled
<1>28. CASE RetireLifecycle
    <2>1. current' \in {0, latest'}
        BY <1>28 DEF RetireLifecycle
    <2>2. ASSUME NEW q \in Plans, q > latest' PROVE Fresh(q)'
        BY <1>28, <2>2 DEF RetireLifecycle
    <2>3. ASSUME NEW q \in Plans, Awaits(q)' PROVE q = current'
        BY <1>28, <2>3 DEF RetireLifecycle
    <2>4. pc' \notin {"version", "pointer"}
        BY <1>28 DEF RetireLifecycle
    <2> QED BY <2>1, <2>2, <2>3, <2>4
<1>29. CASE CancelRows
    BY <1>29 DEF CancelRows
<1>30. CASE Remove
    BY <1>30 DEF Remove
<1>31. ASSUME NEW kind \in {"command", "approval", "close"}, Write(kind)
           PROVE Numbered'
    BY <1>31 DEF Write
<1>32. CASE PushByPeople
    BY <1>32 DEF PushByPeople
<1>33. ASSUME NEW p \in Plans, PostPlan(p) PROVE Numbered'
    BY <1>33 DEF PostPlan
<1>34. ASSUME NEW p \in Plans, SettlePlan(p) PROVE Numbered'
    BY <1>34 DEF SettlePlan
<1>35. ASSUME NEW p \in Plans, FinalizePlan(p) PROVE Numbered'
    BY <1>35 DEF FinalizePlan
<1>36. CASE Die
    BY <1>36 DEF Die
<1>37. CASE LookAgain
    BY <1>37 DEF LookAgain
<1>38. CASE Confirm
    BY <1>38 DEF Confirm
<1> QED BY <1>1, <1>2, <1>3, <1>4, <1>5, <1>6, <1>7, <1>8, <1>9, <1>10, <1>11, <1>12, <1>13,
           <1>14, <1>15, <1>16, <1>17, <1>18, <1>19, <1>20, <1>21, <1>22, <1>23, <1>24, <1>25,
           <1>26, <1>27, <1>28, <1>29, <1>30, <1>31, <1>32, <1>33, <1>34, <1>35, <1>36, <1>37, <1>38
       DEF Next, Entry, Planning, Approval, Writing, Close, Environment

\* The plan of a run.
LEMMA RunPlanStep ==
    ASSUME Inv, Next
    PROVE  RunPlan'
<1>0. /\ Numbered /\ RunPlan
      /\ status \in [Plans -> Status] /\ current \in 0 .. MaxPlans /\ latest \in 0 .. MaxPlans
    BY DEF Inv, TypeOK
<1> USE <1>0 DEF Numbered, Awaits, RunPlan, PlanPlaces, RunningPlaces, Goto
<1>1. CASE EnterClose
    BY <1>1 DEF EnterClose
<1>2. CASE EnterRecovery
    BY <1>2 DEF EnterRecovery, Unfinished, Enter
<1>3. CASE EnterApproval
    BY <1>3 DEF EnterApproval, Enter
<1>4. CASE EnterLegacy
    BY <1>4 DEF EnterLegacy, Enter
<1>5. CASE EnterCommand
    BY <1>5 DEF EnterCommand, Enter
<1>6. CASE PlanningFails
    BY <1>6 DEF PlanningFails
<1>7. CASE Supersede
    BY <1>7 DEF Supersede, Superseded, NextPlan
<1>8. CASE SaveVersion
    BY <1>8 DEF SaveVersion
<1>9. CASE SavePlan
    BY <1>9 DEF SavePlan, NextPlan
<1>10. CASE Enqueue
    BY <1>10 DEF Enqueue
<1>11. CASE Pend
    BY <1>11 DEF Pend
<1>12. CASE Retain
    BY <1>12 DEF Retain
<1>13. CASE DeliverPlan
    BY <1>13 DEF DeliverPlan
<1>14. CASE FinalizeRow
    BY <1>14 DEF FinalizeRow
<1>15. CASE Recovered
    BY <1>15 DEF Recovered
<1>16. CASE PreparationFails
    BY <1>16 DEF PreparationFails
<1>17. CASE Reject
    BY <1>17 DEF Reject
<1>18. CASE Accept
    BY <1>18 DEF Accept
<1>19. CASE TakeClaim
    BY <1>19 DEF TakeClaim, TakenOver
<1>20. CASE RetireComment
    BY <1>20 DEF RetireComment
<1>21. CASE Edit
    BY <1>21 DEF Edit
<1>22. CASE Commit
    BY <1>22 DEF Commit
<1>23. CASE Push
    BY <1>23 DEF Push
<1>24. CASE Answer
    BY <1>24 DEF Answer
<1>25. CASE SaveAnswer
    BY <1>25 DEF SaveAnswer
<1>26. CASE Finish
    BY <1>26 DEF Finish, Settled
<1>27. CASE GiveUp
    BY <1>27 DEF GiveUp, Settled
<1>28. CASE RetireLifecycle
    BY <1>28 DEF RetireLifecycle
<1>29. CASE CancelRows
    BY <1>29 DEF CancelRows
<1>30. CASE Remove
    BY <1>30 DEF Remove
<1>31. ASSUME NEW kind \in {"command", "approval", "close"}, Write(kind)
           PROVE RunPlan'
    BY <1>31 DEF Write
<1>32. CASE PushByPeople
    BY <1>32 DEF PushByPeople
<1>33. ASSUME NEW p \in Plans, PostPlan(p) PROVE RunPlan'
    BY <1>33 DEF PostPlan
<1>34. ASSUME NEW p \in Plans, SettlePlan(p) PROVE RunPlan'
    BY <1>34 DEF SettlePlan
<1>35. ASSUME NEW p \in Plans, FinalizePlan(p) PROVE RunPlan'
    BY <1>35 DEF FinalizePlan
<1>36. CASE Die
    BY <1>36 DEF Die
<1>37. CASE LookAgain
    BY <1>37 DEF LookAgain
<1>38. CASE Confirm
    BY <1>38 DEF Confirm
<1> QED BY <1>1, <1>2, <1>3, <1>4, <1>5, <1>6, <1>7, <1>8, <1>9, <1>10, <1>11, <1>12, <1>13,
           <1>14, <1>15, <1>16, <1>17, <1>18, <1>19, <1>20, <1>21, <1>22, <1>23, <1>24, <1>25,
           <1>26, <1>27, <1>28, <1>29, <1>30, <1>31, <1>32, <1>33, <1>34, <1>35, <1>36, <1>37, <1>38
       DEF Next, Entry, Planning, Approval, Writing, Close, Environment


\* The order of comments.
LEMMA PostingStep ==
    ASSUME Inv, Next
    PROVE  Posting'
<1>0. /\ Numbered /\ RunPlan /\ Posting
      /\ row \in [Plans -> Rows] /\ posted \in [Plans -> 0 .. MaxId] /\ lastId \in 0 .. MaxId
      /\ asked \in [Ids -> {"none", "command", "approval", "close"}] /\ current \in 0 .. MaxPlans
      /\ latest \in 0 .. MaxPlans
    BY DEF Inv, TypeOK
<1> USE <1>0 DEF Numbered, Fresh, RunPlan, PlanPlaces, Posting, Goto
<1>1. CASE EnterClose
    BY <1>1 DEF EnterClose
<1>2. CASE EnterRecovery
    BY <1>2 DEF EnterRecovery, Unfinished, Enter
<1>3. CASE EnterApproval
    BY <1>3 DEF EnterApproval, Enter
<1>4. CASE EnterLegacy
    BY <1>4 DEF EnterLegacy, Enter
<1>5. CASE EnterCommand
    BY <1>5 DEF EnterCommand, Enter
<1>6. CASE PlanningFails
    BY <1>6 DEF PlanningFails
<1>7. CASE Supersede
    BY <1>7 DEF Supersede, Superseded, NextPlan
<1>8. CASE SaveVersion
    BY <1>8 DEF SaveVersion
<1>9. CASE SavePlan
    BY <1>9 DEF SavePlan, NextPlan
<1>10. CASE Enqueue
    BY <1>10 DEF Enqueue
<1>11. CASE Pend
    BY <1>11 DEF Pend
<1>12. CASE Retain
    BY <1>12 DEF Retain
<1>13. CASE DeliverPlan
    BY <1>13 DEF DeliverPlan
<1>14. CASE FinalizeRow
    BY <1>14 DEF FinalizeRow
<1>15. CASE Recovered
    BY <1>15 DEF Recovered
<1>16. CASE PreparationFails
    BY <1>16 DEF PreparationFails
<1>17. CASE Reject
    BY <1>17 DEF Reject
<1>18. CASE Accept
    BY <1>18 DEF Accept
<1>19. CASE TakeClaim
    BY <1>19 DEF TakeClaim, TakenOver
<1>20. CASE RetireComment
    BY <1>20 DEF RetireComment
<1>21. CASE Edit
    BY <1>21 DEF Edit
<1>22. CASE Commit
    BY <1>22 DEF Commit
<1>23. CASE Push
    BY <1>23 DEF Push
<1>24. CASE Answer
    BY <1>24 DEF Answer
<1>25. CASE SaveAnswer
    BY <1>25 DEF SaveAnswer
<1>26. CASE Finish
    BY <1>26 DEF Finish, Settled
<1>27. CASE GiveUp
    BY <1>27 DEF GiveUp, Settled
<1>28. CASE RetireLifecycle
    BY <1>28 DEF RetireLifecycle
<1>29. CASE CancelRows
    <2>1. ASSUME NEW q \in Plans
          PROVE  row'[q] \in {"none", "unsent"} => row[q] = row'[q]
        <3>1. CASE UNCHANGED row
            BY <3>1
        <3>2. CASE row' = [p \in Plans |-> CASE row[p] = "unsent" -> "cancelled"
                                             [] row[p] = "delivered" -> "final"
                                             [] OTHER -> row[p]]
            BY <3>2
        <3> QED BY <1>29, <3>1, <3>2 DEF CancelRows
    <2>2. pc' # "enqueue"
        BY <1>29 DEF CancelRows
    <2>3. UNCHANGED <<asked, lastId, posted>>
        BY <1>29 DEF CancelRows
    <2>4. ASSUME NEW r \in Plans, NEW q \in 1 .. r - 1, posted[r] # 0
          PROVE  row'[q] # "unsent" /\ posted[q] < posted[r]
        <3>1. q \in Plans
            OBVIOUS
        <3> QED BY <2>1, <2>4, <3>1
    <2> QED BY <2>1, <2>2, <2>3, <2>4
<1>30. CASE Remove
    BY <1>30 DEF Remove
<1>31. ASSUME NEW kind \in {"command", "approval", "close"}, Write(kind)
           PROVE Posting'
    BY <1>31 DEF Write
<1>32. CASE PushByPeople
    BY <1>32 DEF PushByPeople
<1>33. ASSUME NEW p \in Plans, PostPlan(p) PROVE Posting'
    <2>1. lastId' = lastId + 1 /\ posted' = [posted EXCEPT ![p] = lastId + 1]
          /\ row' = [row EXCEPT ![p] = "sending"] /\ row[p] = "unsent"
        BY <1>33 DEF PostPlan
    <2>2. ASSUME NEW i \in Ids, asked'[i] # "none" PROVE i <= lastId'
        BY <1>33, <2>1, <2>2 DEF PostPlan
    <2>3. ASSUME NEW q \in Plans
          PROVE  posted'[q] <= lastId' /\ (row'[q] \in {"none", "unsent"} => posted'[q] = 0)
        BY <1>33, <2>1
    <2>4. ASSUME NEW r \in Plans, NEW q \in 1 .. r - 1, posted'[r] # 0
          PROVE  row'[q] # "unsent" /\ posted'[q] < posted'[r]
        <3>1. q \in Plans /\ q < r /\ posted[q] <= lastId
            BY <2>4
        <3>2. CASE r = p
            <4>1. row[q] # "unsent" /\ q # p
                BY <1>33, <2>4, <3>1, <3>2 DEF PostPlan
            <4> QED BY <2>1, <3>1, <3>2, <4>1
        <3>3. CASE r # p
            BY <2>1, <2>4, <3>1, <3>3
        <3> QED BY <3>2, <3>3
    <2>5. pc' = "enqueue" => row'[run'.plan] = "none"
        BY <1>33, <2>1 DEF PostPlan
    <2> QED BY <2>1, <2>2, <2>3, <2>4, <2>5
<1>34. ASSUME NEW p \in Plans, SettlePlan(p) PROVE Posting'
    BY <1>34 DEF SettlePlan
<1>35. ASSUME NEW p \in Plans, FinalizePlan(p) PROVE Posting'
    BY <1>35 DEF FinalizePlan
<1>36. CASE Die
    BY <1>36 DEF Die
<1>37. CASE LookAgain
    BY <1>37 DEF LookAgain
<1>38. CASE Confirm
    BY <1>38 DEF Confirm
<1> QED BY <1>1, <1>2, <1>3, <1>4, <1>5, <1>6, <1>7, <1>8, <1>9, <1>10, <1>11, <1>12, <1>13,
           <1>14, <1>15, <1>16, <1>17, <1>18, <1>19, <1>20, <1>21, <1>22, <1>23, <1>24, <1>25,
           <1>26, <1>27, <1>28, <1>29, <1>30, <1>31, <1>32, <1>33, <1>34, <1>35, <1>36, <1>37, <1>38
       DEF Next, Entry, Planning, Approval, Writing, Close, Environment

\* A workspace that is disposed of, or left, is gone or as it was.
LEMMA DisposeKeeps ==
    ASSUME Inv, NEW p \in Plans, Dispose(p) \/ Leave(p)
    PROVE  \A q \in Plans : workspace'[q] \in {workspace[q], "gone"}
<1>1. workspace' = workspace \/ workspace' = [workspace EXCEPT ![p] = "gone"]
    BY DEF Dispose, Leave
<1> QED BY <1>1 DEF Inv, TypeOK

\* The lifecycle that is retired interrupts the claim of the current plan, at most.
LEMMA RetiredClaims ==
    ASSUME Inv, RetireLifecycle, NEW q \in Plans
    PROVE  /\ claim'[q].comment = claim[q].comment
           /\ claim'[q].phase \in {claim[q].phase, "interrupted"}
           /\ claim'[q].phase # "none" => claim[q].phase # "none"
<1>1. CASE claim' = claim
    BY <1>1
<1>2. CASE /\ current # 0 /\ claim[current].phase \in {"accepted", "running"}
           /\ claim' = [claim EXCEPT ![current].phase = "interrupted"]
    <2>1. claim \in [Plans -> Claims] /\ current \in Plans
        <3>1. claim \in [Plans -> Claims] /\ current \in 0 .. MaxPlans
            BY DEF Inv, TypeOK
        <3> QED BY <1>2, <3>1
    <2>2. claim[q] \in Claims /\ claim[current] \in Claims
        BY <2>1
    <2>3. CASE q = current
        BY <1>2, <2>1, <2>2, <2>3 DEF Claims
    <2>4. CASE q # current
        BY <1>2, <2>1, <2>4
    <2> QED BY <2>3, <2>4
<1> QED BY <1>1, <1>2 DEF RetireLifecycle

\* An approval that is accepted, or accepted again, leaves all other claims.
LEMMA AcceptedClaims ==
    ASSUME Inv, Accept, NEW q \in Plans
    PROVE  claim'[q].phase \in {claim[q].phase, "accepted"}
<1>1. CASE claim' = claim
    BY <1>1
<1>2. CASE claim' = [claim EXCEPT ![run.plan] = [phase |-> "accepted", comment |-> run.comment]]
    BY <1>2 DEF Inv, TypeOK
<1> QED BY <1>1, <1>2 DEF Accept

\* An approval stays what it meant while comments and their approvals stay.
LEMMA ApprovalKept ==
    ASSUME Approving, UNCHANGED <<posted, lastId>>,
           \A q \in Plans : claim'[q].phase # "none" =>
               claim[q].phase # "none" /\ claim'[q].comment = claim[q].comment
    PROVE  /\ ApprovalMeantThis'
           /\ \A q \in Plans : claim'[q].phase # "none" => claim'[q].comment <= lastId'
BY DEF Approving, ApprovalMeantThis

\* The plan of a run is a plan, and what was read is in its bounds.
LEMMA Bounds ==
    ASSUME Inv
    PROVE  /\ pc \in PlanPlaces => run.plan \in Plans
           /\ run.comment \in 0 .. MaxId
           /\ \A q \in Plans : claim[q].comment \in 0 .. MaxId
<1>1. pc \in PlanPlaces => run.plan \in Plans
    BY RunTypes DEF Inv, TypeOK, RunPlan
<1>2. run.comment \in 0 .. MaxId
    BY RunTypes DEF Inv, TypeOK
<1>3. \A q \in Plans : claim[q].comment \in 0 .. MaxId
    BY ClaimTypes DEF Inv, TypeOK
<1> QED BY <1>1, <1>2, <1>3

\* Whoever approves.
LEMMA ApprovingStep ==
    ASSUME Inv, Next
    PROVE  Approving'
<1>0. /\ Numbered /\ RunPlan /\ Posting /\ Approving /\ Executing
      /\ (pc \in PlanPlaces => run.plan \in Plans) /\ run.comment \in 0 .. MaxId
      /\ \A q \in Plans : claim[q].comment \in 0 .. MaxId
      /\ claim \in [Plans -> Claims] /\ posted \in [Plans -> 0 .. MaxId] /\ lastId \in 0 .. MaxId
      /\ current \in 0 .. MaxPlans /\ latest \in 0 .. MaxPlans
    BY Bounds DEF Inv, TypeOK
<1> USE <1>0 DEF Numbered, Fresh, RunPlan, PlanPlaces, RunningPlaces, Posting,
           Executing, Goto
<1>1. CASE EnterClose
    BY <1>1 DEF EnterClose, Asks, Approving, ApprovalMeantThis
<1>2. CASE EnterRecovery
    BY <1>2 DEF EnterRecovery, Unfinished, Enter, Approving, ApprovalMeantThis
<1>3. CASE EnterApproval
    <2>1. Oldest <= lastId
        BY <1>3, OldestIsAsked DEF EnterApproval, Asks
    <2>2. run'.comment = Oldest /\ UNCHANGED <<claim, posted, lastId>>
        BY <1>3 DEF EnterApproval, Enter
    <2> QED BY <2>1, <2>2, ApprovalKept DEF Approving
<1>4. CASE EnterLegacy
    BY <1>4 DEF EnterLegacy, Asks, Enter, Approving, ApprovalMeantThis
<1>5. CASE EnterCommand
    BY <1>5 DEF EnterCommand, Asks, Enter, Approving, ApprovalMeantThis
<1>6. CASE PlanningFails
    BY <1>6 DEF PlanningFails, Approving, ApprovalMeantThis
<1>7. CASE Supersede
    BY <1>7 DEF Supersede, Superseded, NextPlan, Approving, ApprovalMeantThis
<1>8. CASE SaveVersion
    BY <1>8 DEF SaveVersion, Approving, ApprovalMeantThis
<1>9. CASE SavePlan
    BY <1>9 DEF SavePlan, NextPlan, Approving, ApprovalMeantThis
<1>10. CASE Enqueue
    BY <1>10 DEF Enqueue, Approving, ApprovalMeantThis
<1>11. CASE Pend
    BY <1>11 DEF Pend, Approving, ApprovalMeantThis
<1>12. CASE Retain
    BY <1>12 DEF Retain, Approving, ApprovalMeantThis
<1>13. CASE DeliverPlan
    BY <1>13 DEF DeliverPlan, Approving, ApprovalMeantThis
<1>14. CASE FinalizeRow
    BY <1>14 DEF FinalizeRow, Approving, ApprovalMeantThis
<1>15. CASE Recovered
    <2>1. ASSUME NEW q \in Plans, claim'[q].phase # "none"
          PROVE  claim[q].phase # "none" /\ claim'[q].comment = claim[q].comment
        BY <1>15, <2>1 DEF Recovered
    <2>2. pc' # "check" /\ UNCHANGED <<posted, lastId>>
        BY <1>15 DEF Recovered
    <2> QED BY <2>1, <2>2, ApprovalKept DEF Approving
<1>16. CASE PreparationFails
    BY <1>16 DEF PreparationFails, Approving, ApprovalMeantThis
<1>17. CASE Reject
    BY <1>17 DEF Reject, Approving, ApprovalMeantThis
<1>18. CASE Accept
    <2> DEFINE p == run.plan
    <2>1. pc = "check" /\ p \in Plans /\ pc' = "take" /\ UNCHANGED <<posted, lastId>>
        BY <1>18, <1>0 DEF Accept
    <2>2. CASE run.recovering
        BY <1>18, <2>1, <2>2, ApprovalKept DEF Accept, Approving
    <2>3. CASE ~ run.recovering
        <3>1. 0 < posted[p] /\ posted[p] < run.comment /\ run.comment <= lastId
            BY <1>18, <2>1, <2>3 DEF Accept, Eligible, Confirmed, Provenance, Approving
        <3>2. ASSUME NEW q \in Plans PROVE posted[q] <= posted[p]
            <4>1. p = latest
                BY <2>1 DEF Numbered, RunPlan, PlanPlaces
            <4>2. CASE q > p
                <5>1. posted[q] = 0
                    BY <4>1, <4>2 DEF Numbered, Fresh
                <5> QED BY <2>1, <3>1, <5>1
            <4>3. CASE q < p
                BY <2>1, <3>1, <4>3 DEF Posting
            <4> QED BY <2>1, <4>2, <4>3
        <3>3. claim' = [claim EXCEPT ![p] = [phase |-> "accepted", comment |-> run.comment]]
            BY <1>18, <2>3 DEF Accept
        <3> QED BY <2>1, <3>1, <3>2, <3>3 DEF Approving, ApprovalMeantThis
    <2> QED BY <2>2, <2>3
<1>19. CASE TakeClaim
    <2>1. ASSUME NEW q \in Plans, claim'[q].phase # "none"
          PROVE  claim[q].phase # "none" /\ claim'[q].comment = claim[q].comment
        BY <1>19, <2>1 DEF TakeClaim
    <2>2. pc' # "check" /\ UNCHANGED <<posted, lastId>>
        BY <1>19 DEF TakeClaim
    <2> QED BY <2>1, <2>2, ApprovalKept DEF Approving
<1>20. CASE RetireComment
    BY <1>20 DEF RetireComment, Approving, ApprovalMeantThis
<1>21. CASE Edit
    BY <1>21 DEF Edit, Approving, ApprovalMeantThis
<1>22. CASE Commit
    BY <1>22 DEF Commit, Approving, ApprovalMeantThis
<1>23. CASE Push
    BY <1>23 DEF Push, Approving, ApprovalMeantThis
<1>24. CASE Answer
    BY <1>24 DEF Answer, Approving, ApprovalMeantThis
<1>25. CASE SaveAnswer
    BY <1>25 DEF SaveAnswer, Approving, ApprovalMeantThis
<1>26. CASE Finish
    <2>1. ASSUME NEW q \in Plans, claim'[q].phase # "none"
          PROVE  claim[q].phase # "none" /\ claim'[q].comment = claim[q].comment
        BY <1>26, <2>1 DEF Finish, Settled
    <2>2. pc' # "check" /\ UNCHANGED <<posted, lastId>>
        BY <1>26 DEF Finish
    <2> QED BY <2>1, <2>2, ApprovalKept DEF Approving
<1>27. CASE GiveUp
    <2>1. ASSUME NEW q \in Plans, claim'[q].phase # "none"
          PROVE  claim[q].phase # "none" /\ claim'[q].comment = claim[q].comment
        BY <1>27, <2>1 DEF GiveUp, Settled
    <2>2. pc' # "check" /\ UNCHANGED <<posted, lastId>>
        BY <1>27 DEF GiveUp
    <2> QED BY <2>1, <2>2, ApprovalKept DEF Approving
<1>28. CASE RetireLifecycle
    <2>1. ASSUME NEW q \in Plans, claim'[q].phase # "none"
          PROVE  claim[q].phase # "none" /\ claim'[q].comment = claim[q].comment
        BY <1>28, <2>1, RetiredClaims
    <2>2. pc' # "check" /\ UNCHANGED <<posted, lastId>>
        BY <1>28 DEF RetireLifecycle
    <2> QED BY <2>1, <2>2, ApprovalKept DEF Approving
<1>29. CASE CancelRows
    BY <1>29 DEF CancelRows, Approving, ApprovalMeantThis
<1>30. CASE Remove
    <2>1. ASSUME NEW q \in Plans, claim'[q].phase # "none"
          PROVE  claim[q].phase # "none" /\ claim'[q].comment = claim[q].comment
        BY <1>30, <2>1 DEF Remove, NoClaim
    <2>2. pc' # "check" /\ UNCHANGED <<posted, lastId>>
        BY <1>30 DEF Remove
    <2> QED BY <2>1, <2>2, ApprovalKept DEF Approving
<1>31. ASSUME NEW kind \in {"command", "approval", "close"}, Write(kind) PROVE Approving'
    <2>1. lastId' = lastId + 1 /\ UNCHANGED <<claim, posted, pc, run>>
        BY <1>31 DEF Write
    <2>2. ASSUME NEW q \in Plans, claim[q].phase # "none"
          PROVE  claim[q].comment <= lastId /\ claim[q].comment <= lastId + 1
        BY <2>2 DEF Approving
    <2>3. pc = "check" => run.comment <= lastId /\ run.comment <= lastId + 1
        BY SMTT(30) DEF Approving
    <2>4. ApprovalMeantThis'
        BY <2>1 DEF Approving, ApprovalMeantThis
    <2> QED BY <2>1, <2>2, <2>3, <2>4 DEF Approving
<1>32. CASE PushByPeople
    BY <1>32 DEF PushByPeople, Approving, ApprovalMeantThis
<1>33. ASSUME NEW p \in Plans, PostPlan(p) PROVE Approving'
    <2>1. /\ lastId' = lastId + 1 /\ posted[p] = 0 /\ posted' = [posted EXCEPT ![p] = lastId + 1]
          /\ UNCHANGED <<claim, pc, run>>
        BY <1>33 DEF PostPlan
    <2>2. ASSUME NEW q \in Plans, claim[q].phase # "none"
          PROVE  /\ 0 < posted[q] /\ posted[q] < claim[q].comment /\ claim[q].comment <= lastId
                 /\ q # p /\ posted'[q] = posted[q]
        BY <2>1, <2>2 DEF Approving, ApprovalMeantThis
    <2>3. ASSUME NEW q \in Plans, claim[q].phase # "none",
                 NEW r \in Plans, posted'[r] < claim[q].comment
          PROVE  posted'[r] <= posted'[q]
        <3>1. r # p
            BY <2>1, <2>2, <2>3
        <3> QED BY <2>1, <2>2, <2>3, <3>1 DEF Approving, ApprovalMeantThis
    <2>4. ApprovalMeantThis'
        BY <2>1, <2>2, <2>3 DEF ApprovalMeantThis
    <2>5. ASSUME NEW q \in Plans, claim[q].phase # "none"
          PROVE  claim[q].comment <= lastId + 1
        BY SMTT(30), <2>2, <2>5
    <2>6. pc = "check" => run.comment <= lastId + 1
        BY DEF Approving
    <2> QED BY <2>1, <2>4, <2>5, <2>6 DEF Approving
<1>34. ASSUME NEW p \in Plans, SettlePlan(p) PROVE Approving'
    BY <1>34 DEF SettlePlan, Approving, ApprovalMeantThis
<1>35. ASSUME NEW p \in Plans, FinalizePlan(p) PROVE Approving'
    BY <1>35 DEF FinalizePlan, Approving, ApprovalMeantThis
<1>36. CASE Die
    BY <1>36 DEF Die, Approving, ApprovalMeantThis
<1>37. CASE LookAgain
    BY <1>37 DEF LookAgain, Approving, ApprovalMeantThis
<1>38. CASE Confirm
    BY <1>38 DEF Confirm, Approving, ApprovalMeantThis
<1> QED BY <1>1, <1>2, <1>3, <1>4, <1>5, <1>6, <1>7, <1>8, <1>9, <1>10, <1>11, <1>12, <1>13,
           <1>14, <1>15, <1>16, <1>17, <1>18, <1>19, <1>20, <1>21, <1>22, <1>23, <1>24, <1>25,
           <1>26, <1>27, <1>28, <1>29, <1>30, <1>31, <1>32, <1>33, <1>34, <1>35, <1>36, <1>37, <1>38
       DEF Next, Entry, Planning, Approval, Writing, Close, Environment

\* The effects of plans.
LEMMA EffectsStep ==
    ASSUME Inv, Next
    PROVE  Effects'
<1>0. /\ Numbered /\ RunPlan /\ Effects /\ Executing
      /\ (pc \in PlanPlaces => run.plan \in Plans) /\ run.comment \in 0 .. MaxId
      /\ \A q \in Plans : claim[q].comment \in 0 .. MaxId
      /\ claim \in [Plans -> Claims] /\ done \in [Plans -> BOOLEAN]
      /\ effect \in [Plans -> {"none", "edited", "pushed"}]
      /\ workspace \in [Plans -> {"none", "clean", "changed", "gone"}]
      /\ current \in 0 .. MaxPlans /\ latest \in 0 .. MaxPlans
    BY Bounds DEF Inv, TypeOK
<1> USE <1>0 DEF Numbered, Fresh, RunPlan, PlanPlaces, RunningPlaces, Effects,
           Executing, Goto
<1>1. CASE EnterClose
    BY <1>1 DEF EnterClose, Asks
<1>2. CASE EnterRecovery
    BY <1>2 DEF EnterRecovery, Unfinished, Enter
<1>3. CASE EnterApproval
    BY <1>3 DEF EnterApproval, Asks, Enter
<1>4. CASE EnterLegacy
    BY <1>4 DEF EnterLegacy, Asks, Enter
<1>5. CASE EnterCommand
    BY <1>5 DEF EnterCommand, Asks, Enter
<1>6. CASE PlanningFails
    BY <1>6 DEF PlanningFails
<1>7. CASE Supersede
    BY <1>7 DEF Supersede, Superseded, NextPlan
<1>8. CASE SaveVersion
    BY <1>8 DEF SaveVersion
<1>9. CASE SavePlan
    <2>1. NextPlan \in Plans /\ effect[NextPlan] = "none" /\ ~ done[NextPlan]
          /\ claim[NextPlan] = NoClaim
        BY <1>9 DEF SavePlan, NextPlan
    <2>2. UNCHANGED <<effect, done, claim>>
        BY <1>9 DEF SavePlan
    <2>3. ASSUME NEW q \in Plans, q # NextPlan PROVE workspace'[q] = workspace[q]
        BY <1>9, <2>3 DEF SavePlan
    <2>4. ASSUME NEW q \in Plans
          PROVE  (effect[q] # "none" => workspace[q] \in {"changed", "gone"})'
        BY <1>9, <2>1, <2>2, <2>3 DEF SavePlan
    <2>5. ASSUME NEW q \in Plans
          PROVE  (done[q] /\ claim[q].phase = "running" => effect[q] # "edited")'
        BY <1>9, <2>1, <2>2, <2>3 DEF SavePlan
    <2>6. ASSUME NEW q \in Plans
          PROVE  (claim[q].phase = "completed" => effect[q] # "edited")'
        BY <1>9, <2>1, <2>2, <2>3 DEF SavePlan
    <2> QED BY <2>1, <2>2, <2>3, <2>4, <2>5, <2>6
              DEF Effects
<1>10. CASE Enqueue
    BY <1>10 DEF Enqueue
<1>11. CASE Pend
    BY <1>11 DEF Pend
<1>12. CASE Retain
    BY <1>12 DEF Retain
<1>13. CASE DeliverPlan
    BY <1>13 DEF DeliverPlan
<1>14. CASE FinalizeRow
    BY <1>14 DEF FinalizeRow
<1>15. CASE Recovered
    <2>1. ASSUME NEW q \in Plans PROVE workspace'[q] \in {workspace[q], "gone"}
        BY <1>15, DisposeKeeps DEF Recovered
    <2>2. effect' = effect
        BY <1>15 DEF Recovered
    <2>3. ASSUME NEW q \in Plans
          PROVE  (effect[q] # "none" => workspace[q] \in {"changed", "gone"})'
        BY <1>15, <2>1, <2>2 DEF Recovered, Finished
    <2>4. ASSUME NEW q \in Plans
          PROVE  (done[q] /\ claim[q].phase = "running" => effect[q] # "edited")'
        BY <1>15, <2>1, <2>2 DEF Recovered, Finished
    <2>5. ASSUME NEW q \in Plans
          PROVE  (claim[q].phase = "completed" => effect[q] # "edited")'
        BY <1>15, <2>1, <2>2 DEF Recovered, Finished
    <2> QED BY <2>1, <2>2, <2>3, <2>4, <2>5
              DEF Effects
<1>16. CASE PreparationFails
    BY <1>16 DEF PreparationFails
<1>17. CASE Reject
    <2>1. ASSUME NEW q \in Plans PROVE workspace'[q] \in {workspace[q], "gone"}
        BY <1>17, DisposeKeeps DEF Reject
    <2>2. effect' = effect
        BY <1>17 DEF Reject
    <2>3. ASSUME NEW q \in Plans
          PROVE  (effect[q] # "none" => workspace[q] \in {"changed", "gone"})'
        BY <1>17, <2>1, <2>2 DEF Reject
    <2>4. ASSUME NEW q \in Plans
          PROVE  (done[q] /\ claim[q].phase = "running" => effect[q] # "edited")'
        BY <1>17, <2>1, <2>2 DEF Reject
    <2>5. ASSUME NEW q \in Plans
          PROVE  (claim[q].phase = "completed" => effect[q] # "edited")'
        BY <1>17, <2>1, <2>2 DEF Reject
    <2> QED BY <2>1, <2>2, <2>3, <2>4, <2>5
              DEF Effects
<1>18. CASE Accept
    <2>1. ASSUME NEW q \in Plans PROVE claim'[q].phase \in {claim[q].phase, "accepted"}
        BY <1>18, AcceptedClaims DEF Accept
    <2>2. UNCHANGED <<effect, done, workspace>>
        BY <1>18 DEF Accept
    <2>3. ASSUME NEW q \in Plans
          PROVE  (effect[q] # "none" => workspace[q] \in {"changed", "gone"})'
        BY <2>1, <2>2
    <2>4. ASSUME NEW q \in Plans, done'[q], claim'[q].phase = "running"
          PROVE  effect'[q] # "edited"
        <3>1. done[q] /\ claim[q].phase = "running"
            BY <2>1, <2>2, <2>4
        <3> QED BY <2>2, <3>1
    <2>5. ASSUME NEW q \in Plans, claim'[q].phase = "completed"
          PROVE  effect'[q] # "edited"
        <3>1. claim[q].phase = "completed"
            BY <2>1, <2>5
        <3> QED BY <2>2, <3>1
    <2> QED BY <2>1, <2>2, <2>3, <2>4, <2>5
              DEF Effects
<1>19. CASE TakeClaim
    BY <1>19 DEF TakeClaim, TakenOver
<1>20. CASE RetireComment
    BY <1>20 DEF RetireComment
<1>21. CASE Edit
    BY <1>21 DEF Edit
<1>22. CASE Commit
    BY <1>22 DEF Commit
<1>23. CASE Push
    <2>1. run.plan \in Plans /\ effect[run.plan] = "edited"
        BY <1>23 DEF Push
    <2>2. ASSUME NEW q \in Plans
          PROVE  (effect[q] # "none" => workspace[q] \in {"changed", "gone"})'
        BY <1>23, <2>1 DEF Push
    <2>3. ASSUME NEW q \in Plans
          PROVE  (done[q] /\ claim[q].phase = "running" => effect[q] # "edited")'
        BY <1>23, <2>1 DEF Push
    <2>4. ASSUME NEW q \in Plans
          PROVE  (claim[q].phase = "completed" => effect[q] # "edited")'
        BY <1>23, <2>1 DEF Push
    <2> QED BY <2>1, <2>2, <2>3, <2>4
              DEF Effects
<1>24. CASE Answer
    BY <1>24 DEF Answer
<1>25. CASE SaveAnswer
    BY <1>25 DEF SaveAnswer
<1>26. CASE Finish
    <2>1. ASSUME NEW q \in Plans PROVE workspace'[q] \in {workspace[q], "gone"}
        BY <1>26, DisposeKeeps DEF Finish
    <2>2. effect' = effect
        BY <1>26 DEF Finish
    <2>3. ASSUME NEW q \in Plans
          PROVE  (effect[q] # "none" => workspace[q] \in {"changed", "gone"})'
        BY <1>26, <2>1, <2>2 DEF Finish, Settled
    <2>4. ASSUME NEW q \in Plans
          PROVE  (done[q] /\ claim[q].phase = "running" => effect[q] # "edited")'
        BY <1>26, <2>1, <2>2 DEF Finish, Settled
    <2>5. ASSUME NEW q \in Plans
          PROVE  (claim[q].phase = "completed" => effect[q] # "edited")'
        BY <1>26, <2>1, <2>2 DEF Finish, Settled
    <2> QED BY <2>1, <2>2, <2>3, <2>4, <2>5
              DEF Effects
<1>27. CASE GiveUp
    <2>1. ASSUME NEW q \in Plans PROVE workspace'[q] \in {workspace[q], "gone"}
        BY <1>27, DisposeKeeps DEF GiveUp
    <2>2. effect' = effect
        BY <1>27 DEF GiveUp
    <2>3. ASSUME NEW q \in Plans
          PROVE  (effect[q] # "none" => workspace[q] \in {"changed", "gone"})'
        BY <1>27, <2>1, <2>2 DEF GiveUp, Settled
    <2>4. ASSUME NEW q \in Plans
          PROVE  (done[q] /\ claim[q].phase = "running" => effect[q] # "edited")'
        BY <1>27, <2>1, <2>2 DEF GiveUp, Settled
    <2>5. ASSUME NEW q \in Plans
          PROVE  (claim[q].phase = "completed" => effect[q] # "edited")'
        BY <1>27, <2>1, <2>2 DEF GiveUp, Settled
    <2> QED BY <2>1, <2>2, <2>3, <2>4, <2>5
              DEF Effects
<1>28. CASE RetireLifecycle
    <2>1. ASSUME NEW q \in Plans PROVE claim'[q].phase \in {claim[q].phase, "interrupted"}
        BY <1>28, RetiredClaims
    <2>2. UNCHANGED <<effect, done, workspace>>
        BY <1>28 DEF RetireLifecycle
    <2>3. ASSUME NEW q \in Plans
          PROVE  (effect[q] # "none" => workspace[q] \in {"changed", "gone"})'
        BY <1>28, <2>1, <2>2 DEF RetireLifecycle
    <2>4. ASSUME NEW q \in Plans
          PROVE  (done[q] /\ claim[q].phase = "running" => effect[q] # "edited")'
        BY <1>28, <2>1, <2>2 DEF RetireLifecycle
    <2>5. ASSUME NEW q \in Plans
          PROVE  (claim[q].phase = "completed" => effect[q] # "edited")'
        BY <1>28, <2>1, <2>2 DEF RetireLifecycle
    <2> QED BY <2>1, <2>2, <2>3, <2>4, <2>5
              DEF Effects
<1>29. CASE CancelRows
    BY <1>29 DEF CancelRows
<1>30. CASE Remove
    <2>1. ASSUME NEW q \in Plans
          PROVE  (effect[q] # "none" => workspace[q] \in {"changed", "gone"})'
        BY <1>30 DEF Remove, NoClaim
    <2>2. ASSUME NEW q \in Plans
          PROVE  (done[q] /\ claim[q].phase = "running" => effect[q] # "edited")'
        BY <1>30 DEF Remove, NoClaim
    <2>3. ASSUME NEW q \in Plans
          PROVE  (claim[q].phase = "completed" => effect[q] # "edited")'
        BY <1>30 DEF Remove, NoClaim
    <2> QED BY <2>1, <2>2, <2>3
              DEF Effects
<1>31. ASSUME NEW kind \in {"command", "approval", "close"}, Write(kind)
           PROVE Effects'
    BY <1>31 DEF Write
<1>32. CASE PushByPeople
    BY <1>32 DEF PushByPeople
<1>33. ASSUME NEW p \in Plans, PostPlan(p) PROVE Effects'
    BY <1>33 DEF PostPlan
<1>34. ASSUME NEW p \in Plans, SettlePlan(p) PROVE Effects'
    BY <1>34 DEF SettlePlan
<1>35. ASSUME NEW p \in Plans, FinalizePlan(p) PROVE Effects'
    BY <1>35 DEF FinalizePlan
<1>36. CASE Die
    BY <1>36 DEF Die
<1>37. CASE LookAgain
    BY <1>37 DEF LookAgain
<1>38. CASE Confirm
    BY <1>38 DEF Confirm
<1> QED BY <1>1, <1>2, <1>3, <1>4, <1>5, <1>6, <1>7, <1>8, <1>9, <1>10, <1>11, <1>12, <1>13,
           <1>14, <1>15, <1>16, <1>17, <1>18, <1>19, <1>20, <1>21, <1>22, <1>23, <1>24, <1>25,
           <1>26, <1>27, <1>28, <1>29, <1>30, <1>31, <1>32, <1>33, <1>34, <1>35, <1>36, <1>37, <1>38
       DEF Next, Entry, Planning, Approval, Writing, Close, Environment

\* What a run relies on.
LEMMA ExecutingStep ==
    ASSUME Inv, Next
    PROVE  Executing'
<1>0. /\ Numbered /\ RunPlan /\ Effects /\ Executing
      /\ (pc \in PlanPlaces => run.plan \in Plans) /\ run.comment \in 0 .. MaxId
      /\ \A q \in Plans : claim[q].comment \in 0 .. MaxId
      /\ status \in [Plans -> Status] /\ claim \in [Plans -> Claims]
      /\ done \in [Plans -> BOOLEAN] /\ effect \in [Plans -> {"none", "edited", "pushed"}]
      /\ basis \in [Plans -> Shas \cup {0}] /\ current \in 0 .. MaxPlans
      /\ latest \in 0 .. MaxPlans
    BY Bounds DEF Inv, TypeOK
<1> USE <1>0 DEF Numbered, Fresh, RunPlan, PlanPlaces, RunningPlaces, Effects,
           Executing, Goto
<1>1. CASE EnterClose
    BY <1>1 DEF EnterClose, Asks
<1>2. CASE EnterRecovery
    BY <1>2 DEF EnterRecovery, Unfinished, Enter
<1>3. CASE EnterApproval
    BY <1>3 DEF EnterApproval, Asks, Enter
<1>4. CASE EnterLegacy
    BY <1>4 DEF EnterLegacy, Asks, Enter
<1>5. CASE EnterCommand
    BY <1>5 DEF EnterCommand, Asks, Enter
<1>6. CASE PlanningFails
    BY <1>6 DEF PlanningFails
<1>7. CASE Supersede
    BY <1>7 DEF Supersede, Superseded, NextPlan
<1>8. CASE SaveVersion
    BY <1>8 DEF SaveVersion
<1>9. CASE SavePlan
    BY <1>9 DEF SavePlan, NextPlan
<1>10. CASE Enqueue
    BY <1>10 DEF Enqueue
<1>11. CASE Pend
    BY <1>11 DEF Pend
<1>12. CASE Retain
    BY <1>12 DEF Retain
<1>13. CASE DeliverPlan
    BY <1>13 DEF DeliverPlan
<1>14. CASE FinalizeRow
    BY <1>14 DEF FinalizeRow
<1>15. CASE Recovered
    BY <1>15 DEF Recovered
<1>16. CASE PreparationFails
    BY <1>16 DEF PreparationFails
<1>17. CASE Reject
    BY <1>17 DEF Reject
<1>18. CASE Accept
    <2>1. run.plan \in Plans /\ pc' = "take" /\ run' = run /\ UNCHANGED <<basis, done, effect>>
        BY <1>18 DEF Accept
    <2>2. run.seen = basis[run.plan] /\ effect[run.plan] = "none"
        BY <1>18, <2>1 DEF Accept, Facts, Evidence
    <2>3. status'[run.plan] = "approved" /\ claim'[run.plan].phase \in {"accepted", "running"}
        BY <1>18, <2>1 DEF Accept
    <2> QED BY <2>1, <2>2, <2>3
<1>19. CASE TakeClaim
    BY <1>19 DEF TakeClaim, TakenOver
<1>20. CASE RetireComment
    BY <1>20 DEF RetireComment
<1>21. CASE Edit
    BY <1>21 DEF Edit
<1>22. CASE Commit
    BY <1>22 DEF Commit
<1>23. CASE Push
    BY <1>23 DEF Push
<1>24. CASE Answer
    BY <1>24 DEF Answer
<1>25. CASE SaveAnswer
    BY <1>25 DEF SaveAnswer
<1>26. CASE Finish
    BY <1>26 DEF Finish, Settled
<1>27. CASE GiveUp
    BY <1>27 DEF GiveUp, Settled
<1>28. CASE RetireLifecycle
    BY <1>28 DEF RetireLifecycle
<1>29. CASE CancelRows
    BY <1>29 DEF CancelRows
<1>30. CASE Remove
    BY <1>30 DEF Remove
<1>31. ASSUME NEW kind \in {"command", "approval", "close"}, Write(kind)
           PROVE Executing'
    BY <1>31 DEF Write
<1>32. CASE PushByPeople
    BY <1>32 DEF PushByPeople
<1>33. ASSUME NEW p \in Plans, PostPlan(p) PROVE Executing'
    BY <1>33 DEF PostPlan
<1>34. ASSUME NEW p \in Plans, SettlePlan(p) PROVE Executing'
    BY <1>34 DEF SettlePlan
<1>35. ASSUME NEW p \in Plans, FinalizePlan(p) PROVE Executing'
    BY <1>35 DEF FinalizePlan
<1>36. CASE Die
    BY <1>36 DEF Die
<1>37. CASE LookAgain
    BY <1>37 DEF LookAgain
<1>38. CASE Confirm
    BY <1>38 DEF Confirm
<1> QED BY <1>1, <1>2, <1>3, <1>4, <1>5, <1>6, <1>7, <1>8, <1>9, <1>10, <1>11, <1>12, <1>13,
           <1>14, <1>15, <1>16, <1>17, <1>18, <1>19, <1>20, <1>21, <1>22, <1>23, <1>24, <1>25,
           <1>26, <1>27, <1>28, <1>29, <1>30, <1>31, <1>32, <1>33, <1>34, <1>35, <1>36, <1>37, <1>38
       DEF Next, Entry, Planning, Approval, Writing, Close, Environment

\* A candidate that has not been pushed is not known.
LEMMA KnownCommit ==
    ASSUME NEW p \in Plans, effect[p] # "pushed"
    PROVE  Candidate(p) \notin Public
BY DEF Public, People, Candidate

\* What does not touch the branch or the effects leaves what is built.
LEMMA BuiltKept ==
    ASSUME Built, UNCHANGED <<head, past, effect>>,
           pc' \in {"push", "pushing"} => UNCHANGED <<run, basis>> /\ pc \in {"push", "pushing"}
    PROVE  Built'
BY DEF Built, Public

\* The candidate and what it is built on.
LEMMA BuiltStep ==
    ASSUME Inv, Next
    PROVE  Built'
<1>0. /\ Built /\ Executing
      /\ pc \in PlanPlaces => run.plan \in Plans
      /\ past \in [Shas -> SUBSET Shas] /\ head \in Shas
      /\ effect \in [Plans -> {"none", "edited", "pushed"}]
    BY Bounds DEF Inv, TypeOK
<1>a. \A p \in Plans : Candidate(p) \in Shas
    BY DEF Shas, Candidates
<1>b. \A p, q \in Plans : Candidate(p) = Candidate(q) => p = q
    BY DEF Candidate
<1>c. \A p \in Plans : Candidate(p) \notin People
    BY DEF Candidate, People
<1> USE <1>0 DEF PlanPlaces, RunningPlaces, Goto
<1>1. CASE Edit
    <2>1. /\ run.plan \in Plans /\ effect[run.plan] = "none"
          /\ effect' = [effect EXCEPT ![run.plan] = "edited"] /\ UNCHANGED <<head, past>>
          /\ pc' = "edited"
        BY <1>1 DEF Edit, Executing
    <2>2. \A p \in Plans : effect'[p] = "pushed" <=> effect[p] = "pushed"
        BY <2>1
    <2> QED BY <2>1, <2>2 DEF Built, Public
<1>2. CASE Commit
    <2> DEFINE p == run.plan
    <2>1. /\ p \in Plans /\ effect[p] = "edited" /\ head = basis[p]
          /\ past' = [past EXCEPT ![Candidate(p)] = past[basis[p]] \cup {Candidate(p)}]
          /\ UNCHANGED <<head, effect, basis, run>>
        BY <1>2 DEF Commit, Executing
    <2>2. head # Candidate(p)
        BY <2>1, KnownCommit DEF Built
    <2>3. /\ past'[Candidate(p)] = past[basis[p]] \cup {Candidate(p)}
          /\ \A c \in Shas : c # Candidate(p) => past'[c] = past[c]
        BY <2>1, <1>a
    <2>4. Public' = Public
        BY <2>1, <2>3, <1>c DEF Public, Shas
    <2> QED BY <2>1, <2>2, <2>3, <2>4, <1>a DEF Built
<1>3. CASE Push
    <2> DEFINE p == run.plan
    <2>1. /\ p \in Plans /\ past[Candidate(p)] # {} /\ head' = Candidate(p)
          /\ effect' = [effect EXCEPT ![p] = "pushed"] /\ UNCHANGED past /\ pc' = "confirm"
        BY <1>3 DEF Push, Built
    <2>2. Candidate(p) \in Public'
        BY <2>1 DEF Public
    <2> QED BY <2>1, <2>2 DEF Built
<1>4. CASE PushByPeople
    <2>1. UNCHANGED <<pc, run, basis, effect>>
        BY <1>4 DEF PushByPeople
    <2>2. CASE head' \in Public \ {head} /\ UNCHANGED past
        <3>1. Public' = Public
            BY <2>1, <2>2 DEF Public
        <3>2. past[head'] # {}
            BY <2>2 DEF Public, Built
        <3> QED BY <2>1, <2>2, <3>1, <3>2 DEF Built
    <2>3. ASSUME NEW c \in People, NEW on \in Public, past[c] = {},
                 head' = c, past' = [past EXCEPT ![c] = past[on] \cup {c}]
          PROVE  Built'
        <3>1. c \in Shas /\ past'[c] # {} /\ \A d \in Shas : d # c => past'[d] = past[d]
            BY <2>3 DEF Shas
        <3>2. c \in Public'
            BY <3>1 DEF Public
        <3>3. \A p \in Plans : past'[Candidate(p)] = past[Candidate(p)]
            BY <3>1, <1>a, <1>c
        <3>4. pc \in {"push", "pushing"} => basis[run.plan] # c /\ basis[run.plan] \in Shas
            BY <2>3 DEF Built
        <3> QED BY <2>1, <2>3, <3>1, <3>2, <3>3, <3>4 DEF Built
    <2> QED BY <1>4, <2>2, <2>3 DEF PushByPeople
<1>5. CASE LookAgain \/ Confirm \/ Answer \/ SaveAnswer \/ Finish \/ GiveUp
    BY <1>5, BuiltKept DEF LookAgain, Confirm, Answer, SaveAnswer, Finish, GiveUp
<1>6. CASE EnterClose \/ EnterRecovery \/ EnterApproval \/ EnterLegacy \/ EnterCommand
    BY <1>6, BuiltKept DEF EnterClose, EnterRecovery, Enter, EnterApproval, EnterLegacy, EnterCommand
<1>7. CASE PlanningFails \/ Supersede \/ SaveVersion \/ SavePlan \/ Enqueue \/ Pend \/ Retain
           \/ DeliverPlan \/ FinalizeRow
    BY <1>7, BuiltKept DEF PlanningFails, Supersede, SaveVersion, SavePlan, Enqueue, Pend, Retain,
       DeliverPlan, FinalizeRow
<1>8. CASE Approval
    BY <1>8, BuiltKept DEF Approval, Recovered, PreparationFails, Reject, Accept, TakeClaim,
       RetireComment
<1>9. CASE Close
    BY <1>9, BuiltKept DEF Close, RetireLifecycle, CancelRows, Remove
<1>10. CASE Environment /\ ~PushByPeople
    <2>1. /\ UNCHANGED <<head, past, effect, basis>>
          /\ UNCHANGED <<pc, run>> \/ pc' = "off"
        BY <1>10 DEF Environment, Write, PostPlan, SettlePlan, FinalizePlan, Die
    <2> QED BY <2>1, BuiltKept
<1> QED BY <1>1, <1>2, <1>3, <1>4, <1>5, <1>6, <1>7, <1>8, <1>9, <1>10
       DEF Next, Entry, Planning, Writing

\* Every part is true when nothing has been written yet.
LEMMA InitInv == Init => Inv
<1> SUFFICES ASSUME Init PROVE Inv
    OBVIOUS
<1>1. TypeOK
    <2>1. head \in Shas
        <3>1. 1 \in 1 .. MaxSha
            OBVIOUS
        <3> QED BY <3>1 DEF Init, Shas, People
    <2>2. claim \in [Plans -> Claims] /\ run \in Runs /\ pc \in Places
        BY RunTypes, ClaimTypes DEF Init, Places
    <2>3. status \in [Plans -> Status] /\ row \in [Plans -> Rows]
          /\ basis \in [Plans -> Shas \cup {0}]
        BY DEF Init, Status, Rows
    <2>4. /\ lastId \in 0 .. MaxId /\ through \in 0 .. MaxId /\ handled \subseteq Ids
          /\ commit \in {0} \cup Candidates /\ current \in 0 .. MaxPlans /\ latest \in 0 .. MaxPlans
          /\ retained \in 0 .. Other /\ faults \in 0 .. MaxFaults
        BY DEF Init
    <2>5. receipt \in [Plans -> 0 .. MaxId] /\ posted \in [Plans -> 0 .. MaxId]
        BY DEF Init
    <2>6. past \in [Shas -> SUBSET Shas]
        BY <2>1 DEF Init, Shas
    <2> QED BY <2>1, <2>2, <2>3, <2>4, <2>5, <2>6 DEF Init, TypeOK
<1>2. Numbered /\ RunPlan /\ Posting
    BY DEF Init, Numbered, Fresh, Awaits, RunPlan, PlanPlaces, RunningPlaces, Posting
<1>3. Approving /\ Effects /\ Executing
    BY DEF Init, Approving, ApprovalMeantThis, Effects, Executing, RunningPlaces, NoClaim
<1>4. Built
    <2>1. 1 \in People
        BY DEF People
    <2>2. past[1] = {1}
        BY <2>1 DEF Init, Shas
    <2>3. 1 \in Public
        BY <2>1, <2>2 DEF Public
    <2> QED BY <2>2, <2>3 DEF Init, Built
<1> QED BY <1>1, <1>2, <1>3, <1>4 DEF Inv

LEMMA Invariance == Spec => []Inv
<1>1. Inv /\ [Next]_vars => Inv'
    <2>1. Inv /\ Next => Inv'
        BY TypesStep, NumberedStep, RunPlanStep, PostingStep, ApprovingStep, EffectsStep,
           ExecutingStep, BuiltStep DEF Inv
    <2> QED BY <2>1, StutterInv
<1> QED BY <1>1, InitInv, PTL DEF Spec

\* The write is entered from the retirement of the approval, and from nowhere else.
LEMMA ArrivesAtWrite ==
    ASSUME Next, pc # "write", pc' = "write"
    PROVE  pc = "retire"
<1> USE DEF Goto
<1>1. CASE EnterClose \/ EnterRecovery \/ EnterApproval \/ EnterLegacy
    BY <1>1 DEF EnterClose, EnterRecovery, Enter, EnterApproval, EnterLegacy
<1>2. CASE EnterCommand \/ PlanningFails \/ Supersede \/ SaveVersion
    BY <1>2 DEF EnterCommand, Enter, PlanningFails, Supersede, SaveVersion
<1>3. CASE SavePlan \/ Enqueue \/ Pend \/ Retain
    BY <1>3 DEF SavePlan, Enqueue, Pend, Retain
<1>4. CASE DeliverPlan \/ FinalizeRow \/ Recovered \/ PreparationFails
    BY <1>4 DEF DeliverPlan, FinalizeRow, Recovered, PreparationFails
<1>5. CASE Reject \/ Accept \/ TakeClaim \/ RetireComment
    BY <1>5 DEF Reject, Accept, TakeClaim, RetireComment
<1>6. CASE Edit \/ Commit \/ LookAgain \/ Push \/ Confirm \/ Answer
    BY <1>6 DEF Edit, Commit, LookAgain, Push, Confirm, Answer
<1>7. CASE SaveAnswer \/ Finish \/ GiveUp \/ RetireLifecycle
    BY <1>7 DEF SaveAnswer, Finish, GiveUp, RetireLifecycle
<1>8. CASE CancelRows \/ Remove
    BY <1>8 DEF CancelRows, Remove
<1>9. ASSUME NEW kind \in {"command", "approval", "close"}, Write(kind)
           PROVE pc = "retire"
    BY <1>9 DEF Write
<1>10. CASE PushByPeople
    BY <1>10 DEF PushByPeople
<1>11. ASSUME NEW p \in Plans, PostPlan(p) PROVE pc = "retire"
    BY <1>11 DEF PostPlan
<1>12. ASSUME NEW p \in Plans, SettlePlan(p) PROVE pc = "retire"
    BY <1>12 DEF SettlePlan
<1>13. ASSUME NEW p \in Plans, FinalizePlan(p) PROVE pc = "retire"
    BY <1>13 DEF FinalizePlan
<1>14. CASE Die
    BY <1>14 DEF Die
<1> QED BY <1>1, <1>2, <1>3, <1>4, <1>5, <1>6, <1>7, <1>8, <1>9, <1>10, <1>11, <1>12, <1>13,
           <1>14
       DEF Next, Entry, Planning, Approval, Writing, Close, Environment

\* Only a push makes the effect of a plan a push, and that of the plan of the run.
LEMMA OnlyPushPushes ==
    ASSUME Inv, Next, NEW plan \in Plans, effect'[plan] = "pushed", effect[plan] # "pushed"
    PROVE  Push /\ run.plan = plan
<1>0. effect \in [Plans -> {"none", "edited", "pushed"}]
    BY DEF Inv, TypeOK
<1> USE <1>0
<1>1. CASE EnterClose \/ EnterRecovery \/ EnterApproval \/ EnterLegacy
    BY <1>1 DEF EnterClose, EnterRecovery, Enter, EnterApproval, EnterLegacy
<1>2. CASE EnterCommand \/ PlanningFails \/ Supersede \/ SaveVersion
    BY <1>2 DEF EnterCommand, Enter, PlanningFails, Supersede, SaveVersion
<1>3. CASE SavePlan \/ Enqueue \/ Pend \/ Retain
    BY <1>3 DEF SavePlan, Enqueue, Pend, Retain
<1>4. CASE DeliverPlan \/ FinalizeRow \/ Recovered \/ PreparationFails
    BY <1>4 DEF DeliverPlan, FinalizeRow, Recovered, PreparationFails
<1>5. CASE Reject \/ Accept \/ TakeClaim \/ RetireComment
    BY <1>5 DEF Reject, Accept, TakeClaim, RetireComment
<1>6. CASE Edit \/ Commit \/ LookAgain \/ Push \/ Confirm \/ Answer
    BY <1>6 DEF Edit, Commit, LookAgain, Push, Confirm, Answer
<1>7. CASE SaveAnswer \/ Finish \/ GiveUp \/ RetireLifecycle
    BY <1>7 DEF SaveAnswer, Finish, GiveUp, RetireLifecycle
<1>8. CASE CancelRows \/ Remove
    BY <1>8 DEF CancelRows, Remove
<1>9. ASSUME NEW kind \in {"command", "approval", "close"}, Write(kind)
           PROVE Push /\ run.plan = plan
    BY <1>9 DEF Write
<1>10. CASE PushByPeople
    BY <1>10 DEF PushByPeople
<1>11. ASSUME NEW p \in Plans, PostPlan(p) PROVE Push /\ run.plan = plan
    BY <1>11 DEF PostPlan
<1>12. ASSUME NEW p \in Plans, SettlePlan(p) PROVE Push /\ run.plan = plan
    BY <1>12 DEF SettlePlan
<1>13. ASSUME NEW p \in Plans, FinalizePlan(p) PROVE Push /\ run.plan = plan
    BY <1>13 DEF FinalizePlan
<1>14. CASE Die
    BY <1>14 DEF Die
<1> QED BY <1>1, <1>2, <1>3, <1>4, <1>5, <1>6, <1>7, <1>8, <1>9, <1>10, <1>11, <1>12, <1>13,
           <1>14
       DEF Next, Entry, Planning, Approval, Writing, Close, Environment

-----------------------------------------------------------------------------
(* The theorems. *)

\* Every variable has its type, in every reachable state.
THEOREM ApprovalTypes == Spec => []TypeOK
<1>1. Inv => TypeOK
    BY DEF Inv
<1> QED BY <1>1, Invariance, PTL

\* Whoever approves a plan has seen it, and no newer one (command-approval.ts).
THEOREM ApprovalIsMeant == Spec => []ApprovalMeantThis
<1>1. Inv => ApprovalMeantThis
    BY DEF Inv, Approving
<1> QED BY <1>1, Invariance, PTL

\* A claim that is completed has no edit that was not pushed (run-finalizer.ts).
THEOREM CompletionIsHonest == Spec => []CompletedIsHonest
<1>1. Inv => CompletedIsHonest
    BY DEF Inv, Effects, CompletedIsHonest
<1> QED BY <1>1, Invariance, PTL

\* The pointer to the current plan goes forward, or is removed by a close: the only
\* steps that write it are those of SavePlan, FinalizePlan and Remove.
THEOREM PointerGoesForward == Spec => PointerForward
<1>1. Inv /\ [Next]_vars => [PointerStep]_current
    <2> SUFFICES ASSUME Inv, Next PROVE PointerStep \/ current' = current
        BY DEF vars
    <2> USE DEF PointerStep
    <2>1. CASE SavePlan
        BY <2>1 DEF SavePlan, NextPlan, Inv, Numbered, TypeOK
    <2>2. ASSUME NEW p \in Plans, FinalizePlan(p) PROVE PointerStep \/ current' = current
        BY <2>2 DEF FinalizePlan, Inv, Numbered, TypeOK
    <2>3. CASE Remove
        BY <2>3 DEF Remove
    <2>4. CASE Entry \/ Approval \/ Writing
        BY <2>4 DEF Entry, EnterClose, EnterRecovery, EnterApproval, EnterLegacy, EnterCommand,
                    Enter, Approval, Recovered, PreparationFails, Reject, Accept, TakeClaim,
                    RetireComment, Writing, Edit, Commit, LookAgain, Push, Confirm, Answer,
                    SaveAnswer, Finish, GiveUp
    <2>5. CASE PlanningFails \/ Supersede \/ SaveVersion \/ Enqueue \/ Pend \/ Retain
               \/ DeliverPlan \/ FinalizeRow \/ RetireLifecycle \/ CancelRows
        BY <2>5 DEF PlanningFails, Supersede, SaveVersion, Enqueue, Pend, Retain, DeliverPlan,
                    FinalizeRow, RetireLifecycle, CancelRows
    <2>6. CASE Environment /\ ~ \E p \in Plans : FinalizePlan(p)
        BY <2>6 DEF Environment, Write, PushByPeople, PostPlan, SettlePlan, Die
    <2> QED BY <2>1, <2>2, <2>3, <2>4, <2>5, <2>6 DEF Next, Planning, Close
<1> QED BY <1>1, Invariance, PTL DEF Spec, PointerForward

\* A plan whose execution has changed anything is never executed again.
THEOREM NeverReplayed == Spec => NoReplay
<1>1. Inv /\ [Next]_vars => [FirstWrite]_vars
    <2> SUFFICES ASSUME Inv, Next, pc # "write", pc' = "write" PROVE effect[run.plan] = "none"
        BY DEF FirstWrite, vars
    <2>1. pc = "retire"
        BY ArrivesAtWrite
    <2> QED BY <2>1 DEF Inv, Executing
<1> QED BY <1>1, Invariance, PTL DEF Spec, NoReplay

\* The commits of a plan are pushed while it is the current plan, approved and claimed, and
\* land on the commit it was made for or on an older one of that commit's history.
THEOREM PushesAsPlanned == Spec => PushedAsPlanned
<1>1. Inv /\ [Next]_vars => [PlannedPush]_vars
    <2> SUFFICES ASSUME Inv, Next, NEW p \in Plans, effect'[p] = "pushed", effect[p] # "pushed"
                 PROVE  /\ run.plan = p /\ run.seen = basis[p] /\ head \in past[basis[p]]
                        /\ current = p /\ status[p] = "approved" /\ claim[p].phase = "running"
        BY DEF PlannedPush, vars
    <2>1. Push /\ run.plan = p
        BY OnlyPushPushes
    <2>2. run.seen = basis[p] /\ current = p /\ status[p] = "approved" /\ claim[p].phase = "running"
        BY <2>1 DEF Push, Inv, Executing, RunningPlaces, RunPlan, PlanPlaces
    <2>3. head # Candidate(p)
        BY <2>1, KnownCommit DEF Push, Inv, Executing, Built
    <2>4. past[Candidate(p)] = past[basis[p]] \cup {Candidate(p)}
        BY <2>1 DEF Push, Inv, Built
    <2> QED BY <2>1, <2>2, <2>3, <2>4 DEF Push
<1> QED BY <1>1, Invariance, PTL DEF Spec, PushedAsPlanned

=============================================================================
