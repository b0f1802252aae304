------------------------------ MODULE MCOutbox ------------------------------
(* Instances of Outbox for TLC.                                            *)
EXTENDS Outbox, TLC

CONSTANTS notice, plan, review, scheduler, worker, pr

\* A run notice and a plan proposal of one pull request.
PairKeys == {notice, plan}
PairPRof == [k \in PairKeys |-> pr]
PairPurpose == notice :> "run_notice" @@ plan :> "approval_plan"

\* A review before them on the same pull request, always looked up.
TrioKeys == {review, notice, plan}
TrioPRof == [k \in TrioKeys |-> pr]
TrioPurpose == review :> "pr_review" @@ PairPurpose
=============================================================================
