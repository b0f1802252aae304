------------------------------- MODULE TaskRun -------------------------------
(***************************************************************************)
(* The runs of one pull request (runner/pull-request.ts from the snapshot  *)
(* on): the worktree a run resumes or creates, the Agent's turns, the      *)
(* writeback to the branch, the answer, and what is kept of a run that did *)
(* not finish.  Runs are one at a time (module Conversation); beside a run *)
(* people push, move the target branch, close the pull request and write   *)
(* /stop, and the process may die at any step.                             *)
(*                                                                         *)
(* A commit is a number; what it holds is its parent and the newest        *)
(* version of the target branch merged into it.  A worktree has the number *)
(* of the run that created it.  Approval plans, the review's own           *)
(* publication and /close are in other modules.                            *)
(***************************************************************************)
EXTENDS Integers, Sequences, FiniteSets

CONSTANTS
    Tasks,         \* the tasks people ask for
    RepairBudget,  \* budget.repairAttempts
    Retries,       \* how often retryProvider calls again
    Forks,         \* whether the pull request comes from a fork
    MaxRuns, MaxCommits, MaxMoves, MaxCrashes   \* bounds

AllTasks == {"review", "conflict", "ci", "repair", "custom", "conversation", "stop"}

ASSUME TaskRunAssumption ==
    /\ Tasks \subseteq AllTasks
    /\ RepairBudget \in Nat \ {0} /\ Retries \in Nat
    /\ Forks \subseteq BOOLEAN
    /\ MaxRuns \in Nat /\ MaxCommits \in Nat /\ MaxMoves \in Nat /\ MaxCrashes \in Nat

VARIABLES
    remote,     \* the pull request at the SCM
    commits,    \* the commits so far
    trees,      \* the worktree that each run created, or NoTree
    paused,     \* <state>.paused.json
    asked,      \* a /stop comment is saved and nobody has handled it
    run,        \* the run, in the memory of its process and in its directory
    abandoned,  \* worktrees of processes that died or reviews left unpublished (history)
    moves,      \* what people did to the pull request so far
    crashes     \* crashes so far

vars == <<remote, commits, trees, paused, asked, run, abandoned, moves, crashes>>
world == <<remote, moves, crashes>>

-----------------------------------------------------------------------------
NoTree == [at |-> 0, dirty |-> FALSE, merge |-> FALSE, first |-> 0, main |-> 0]
NoPause == [status |-> "none", tree |-> 0, task |-> "conversation", remote |-> 0, local |-> 0,
            base |-> 0, phase |-> "other", write |-> FALSE]

\* What pull-request.ts keeps in variables: the snapshot (first, target), fetchPRState's
\* base, activeWorkspace (ws), state.current_head_sha (head), confirmedRemoteHead.
Idle(n) == [id |-> n, place |-> "idle", task |-> "conversation", write |-> FALSE, first |-> 0,
            target |-> 0, main |-> 0, ws |-> 0, created |-> FALSE, resumed |-> FALSE, head |-> 0,
            previous |-> 0, confirmed |-> 0, phase |-> "other", attempts |-> 0, wrote |-> "none",
            tries |-> 0, aborted |-> FALSE, status |-> "none", keep |-> FALSE, result |-> FALSE,
            late |-> FALSE]

Numbers == 1 .. MaxCommits
Exists(t) == trees[t].at # 0
Tree == trees[run.ws]

\* The commits that a commit contains.
History(c) ==
    LET past[d \in 0 .. Len(commits)] == IF d = 0 THEN {} ELSE {d} \cup past[commits[d].parent]
    IN  past[c]

Init ==
    /\ remote \in [head : {1}, base : {1}, open : {TRUE}, fork : Forks]
    /\ commits = <<[parent |-> 0, base |-> 1]>>
    /\ trees = [r \in 1 .. MaxRuns |-> NoTree]
    /\ paused = NoPause
    /\ asked = FALSE
    /\ run = Idle(0)
    /\ abandoned = {}
    /\ moves = 0
    /\ crashes = 0

At(place) == run.place = place
Go(place) == run' = [run EXCEPT !.place = place]

Resumable == {"budget_exhausted", "needs_human", "stopped"}

\* watchStop's guard asks the inbox; a mutant only looks at the signal.
Halting_Polled == run.aborted
Halting == run.aborted \/ asked

\* finish(), and what it retains; a mutant forgets /repair.
Keeps_NotRepair(status) == status \in {"needs_human", "budget_exhausted"} /\ run.task = "ci"
Keeps(status) == status \in {"needs_human", "budget_exhausted"} /\ run.task \in {"ci", "repair"}
End(status) ==
    run' = [run EXCEPT !.place = "finish", !.status = status, !.keep = run.ws # 0 /\ Keeps(status)]

\* The catch of TaskStopped, or of anything thrown after the stop was noticed.
StopRun ==
    run' = [run EXCEPT !.place = "finish", !.status = "stopped", !.aborted = TRUE,
              !.keep = run.ws # 0 /\ run.task \in {"conflict", "ci", "repair", "review"}]
Throw(status) == IF run.aborted THEN StopRun ELSE End(status)

\* A step that begins with the guard.
Guarded(step) == IF Halting THEN StopRun ELSE step

-----------------------------------------------------------------------------
(* From the mention to the worktree.                                       *)

\* The snapshot and the intent; the permission is the command's.
Begin(task, write) ==
    /\ At("idle")
    /\ run.id < MaxRuns
    /\ write => task \notin {"conversation", "stop"}
    /\ LET r == [Idle(run.id + 1) EXCEPT !.task = task, !.write = write, !.first = remote.head,
                   !.target = remote.base, !.head = remote.head, !.confirmed = remote.head]
       IN  run' = IF remote.open THEN [r EXCEPT !.place = "enter"]
                  ELSE [r EXCEPT !.place = "finish", !.status = "harness_failed"]
    /\ asked' = (asked /\ task # "stop")
    /\ UNCHANGED <<world, commits, trees, paused, abandoned>>

\* discussingPause, without a conflict proposal.
Discussing == run.task = "conversation" /\ paused.status \in Resumable \cup {"claimed"}

\* A paused task is continued or discussed before another one is begun.
Enter ==
    /\ At("enter")
    /\ Guarded(
         CASE run.task = "stop" -> End("stopped")
           [] run.task \notin {"stop", paused.task} /\ paused.status \in Resumable /\ ~ Discussing ->
                End("needs_human")
           [] OTHER -> Go("fetch"))
    /\ UNCHANGED <<world, commits, trees, paused, asked, abandoned>>

\* ensureRepo and fetchPRState.
Fetch ==
    /\ At("fetch")
    /\ run' = [run EXCEPT !.place = "prepare", !.main = remote.base]
    /\ UNCHANGED <<world, commits, trees, paused, asked, abandoned>>

Continues == paused.status \in Resumable /\ paused.task = run.task

\* resumeWorkspace's checks.
StillFresh(p) ==
    /\ (IF p.remote = 0 THEN trees[p.tree].first ELSE p.remote) = run.first
    /\ p.base = run.target /\ trees[p.tree].main = run.main
    /\ Exists(p.tree) /\ trees[p.tree].at = p.local
    /\ p.task = "conflict" =>
         trees[p.tree].merge \/ commits[trees[p.tree].at].base >= trees[p.tree].main

\* The retained worktree is claimed, as the next execution of its task ...
Resume ==
    /\ At("prepare")
    /\ Continues
    /\ StillFresh(paused)
    /\ paused' = [paused EXCEPT !.status = "claimed"]
    /\ run' = [run EXCEPT !.place = "ready", !.ws = paused.tree, !.resumed = TRUE,
                          !.write = paused.write]
    /\ UNCHANGED <<world, commits, trees, asked, abandoned>>

\* ... its Command Snapshot cannot be verified any more ...
SnapshotLost ==
    /\ At("prepare")
    /\ Continues
    /\ End("needs_human")
    /\ UNCHANGED <<world, commits, trees, paused, asked, abandoned>>

\* removeWorktree.
Removed(t) == [trees EXCEPT ![t] = NoTree]

\* ... or it is stale: that is saved, the tree is disposed, and the run is a fresh one.
Reject ==
    /\ At("prepare")
    /\ Continues
    /\ ~ StillFresh(paused)
    /\ paused' = [paused EXCEPT !.status = "stale"]
    /\ trees' = Removed(paused.tree)
    /\ UNCHANGED <<world, commits, run, asked, abandoned>>

\* A conversation about a pause takes the retained worktree as it is.
Discuss ==
    /\ At("prepare")
    /\ Discussing
    /\ run' = [run EXCEPT !.place = "ready", !.ws = paused.tree]
    /\ UNCHANGED <<world, commits, trees, paused, asked, abandoned>>

\* prepareWorkspace: a conflict run begins with the merge.
Worktree(main) ==
    [at |-> run.first, dirty |-> FALSE, first |-> run.first, main |-> main,
     merge |-> run.task = "conflict" /\ commits[run.first].base < main]

\* createWorktree, then prepareWorkspace: another pull request's run may have fetched a
\* newer target branch into the shared repository meanwhile.
Create ==
    /\ At("prepare")
    /\ ~ Continues /\ ~ Discussing
    /\ \E main \in run.main .. remote.base : trees' = [trees EXCEPT ![run.id] = Worktree(main)]
    /\ run' = [run EXCEPT !.place = "created", !.created = TRUE]
    /\ UNCHANGED <<world, commits, paused, asked, abandoned>>

Prepared ==
    /\ At("created")
    /\ run' = [run EXCEPT !.place = "ready", !.ws = run.id]
    /\ UNCHANGED <<world, commits, trees, paused, asked, abandoned>>

\* decideWriteback, and the conflict run that has nothing to merge.
NothingToMerge ==
    /\ run.task = "conflict"
    /\ ~ Tree.merge
    /\ run.resumed => Tree.at = run.first /\ ~ Tree.dirty
Ready ==
    /\ At("ready")
    /\ Guarded(
         CASE run.write /\ remote.fork -> End("needs_human")
           [] ~ (run.write /\ remote.fork) /\ NothingToMerge -> Go("deliver")
           [] OTHER -> IF Exists(run.ws) THEN Go("decide") ELSE Throw("harness_failed"))
    /\ UNCHANGED <<world, commits, trees, paused, asked, abandoned>>

-----------------------------------------------------------------------------
(* The Agent's turns.                                                      *)

\* beginTask and a new session.
StartTurn(counts) ==
    Guarded(run' = [run EXCEPT !.place = "turn", !.phase = "other", !.tries = 0,
                      !.attempts = IF counts THEN @ + 1 ELSE @])

\* The drivers of custom and repair, the review and the conversation: one turn.
DecideOther ==
    /\ At("decide")
    /\ run.task # "ci"
    /\ IF run.wrote = "none" THEN StartTurn(FALSE) ELSE Go("deliver")
    /\ UNCHANGED <<world, commits, trees, paused, asked, abandoned>>

\* assertCurrent.
Current(head, base) == remote.open /\ remote.head = head /\ remote.base = base

\* The retained candidate is finished first.
FirstResumed == run.write /\ run.resumed /\ paused.phase # "ci" /\ run.wrote = "none"

\* budget.repairAttempts.
Spent == run.attempts >= RepairBudget

\* ciTaskDriver.decide: the wait for CI is one step.
DecideCi ==
    /\ At("decide")
    /\ run.task = "ci"
    /\ CASE run.wrote = "no" -> End("needs_human")
         [] FirstResumed -> StartTurn(TRUE)
         [] ~ FirstResumed /\ run.wrote # "no" ->
              IF ~ Current(run.head, Tree.main) THEN Throw("harness_failed")
              ELSE IF Halting THEN StopRun
              ELSE \/ run' = [run EXCEPT !.place = "deliver", !.phase = "ci"]
                   \/ run' = [run EXCEPT !.place = "finish", !.phase = "ci",
                                !.status = "needs_human", !.keep = TRUE]
                   \/ IF run.write /\ Spent
                      THEN run' = [run EXCEPT !.place = "finish", !.phase = "ci",
                                     !.status = "needs_human", !.keep = TRUE]
                      ELSE StartTurn(run.write)
    /\ UNCHANGED <<world, commits, trees, paused, asked, abandoned>>

\* What an Agent that may write does to its worktree: edits, commits, and rewinds.
Working == At("turn") /\ run.write
Works(tree) ==
    /\ trees' = [trees EXCEPT ![run.ws] = tree]
    /\ UNCHANGED <<world, paused, asked, run, abandoned>>
Edit == Working /\ ~ Tree.dirty /\ Works([Tree EXCEPT !.dirty = TRUE]) /\ UNCHANGED commits
Rewind ==
    /\ Working
    /\ commits[Tree.at].parent # 0
    /\ Works([Tree EXCEPT !.at = commits[Tree.at].parent])
    /\ UNCHANGED commits

\* git commit, by the Agent or by the Harness.
CommitTree ==
    /\ Len(commits) < MaxCommits
    /\ commits' = Append(commits, [parent |-> Tree.at,
                     base |-> IF Tree.merge THEN Tree.main ELSE commits[Tree.at].base])
AfterCommit == [Tree EXCEPT !.at = Len(commits) + 1, !.dirty = FALSE, !.merge = FALSE]
AgentCommits == Working /\ (Tree.dirty \/ Tree.merge) /\ CommitTree /\ Works(AfterCommit)

Unfinished(status) ==
    run' = [run EXCEPT !.place = "finish", !.status = status,
              !.keep = run.ws # 0 /\ (Keeps(status) \/ run.task = "conflict")]

\* stopSession: /stop interrupts the turn, and whatever it answered is dropped.
Interrupted == run.aborted /\ StopRun

\* The turn ends with a text; late records a /stop that was saved before it did.
Completed == run' = [run EXCEPT !.place = "answered", !.late = asked]

\* The execution is out of steps or of time: finalAnswer asks once more.
FinalAnswer == At("turn") /\ Go("final")

\* finalAnswer is out of budget too; a mutant goes back to the execution.
Exhausted_Again == Go("turn")
Exhausted == Unfinished("budget_exhausted")

\* retryProvider calls again after a transient error, so often.
Retried == run.tries < Retries /\ run' = [run EXCEPT !.tries = @ + 1]

\* generateTurn ends.
TurnEnds ==
    /\ At("turn") \/ At("final")
    /\ \/ Interrupted
       \/ /\ ~ run.aborted
          /\ \/ Completed
             \/ FinalAnswer
             \/ At("final") /\ Exhausted
             \/ Retried
             \/ Unfinished("needs_human")
             \/ \E status \in {"model_output_truncated", "harness_failed", "provider_unavailable"} :
                    End(status)
    /\ UNCHANGED <<world, commits, trees, paused, asked, abandoned>>

\* workspaceChangesSince.
Changed == Tree.at # run.head \/ Tree.dirty \/ Tree.merge

\* What the runner of each task does with the answer: what was changed is written back
\* when the run may write.
WritesBack == run.write /\ Changed
ConversationAnswered == End("conversation_completed")
ReviewAnswered == Guarded(Go(IF WritesBack THEN "commit" ELSE "post"))
ConflictAnswered == Go(IF WritesBack THEN "commit" ELSE "deliver")
DriverAnswered ==
    IF WritesBack THEN Go("commit")
    ELSE IF run.task = "ci" /\ ~ run.write THEN Go("deliver")
    ELSE run' = [run EXCEPT !.place = "decide", !.wrote = "no"]

Answered ==
    /\ At("answered")
    /\ CASE run.task = "conversation" -> ConversationAnswered
         [] run.task = "review" -> ReviewAnswered
         [] run.task = "conflict" -> ConflictAnswered
         [] OTHER -> DriverAnswered
    /\ UNCHANGED <<world, commits, trees, paused, asked, abandoned>>

-----------------------------------------------------------------------------
(* performWriteback.                                                       *)

\* The candidate, and beforePush; what the Agent committed is taken as it is.
Commit ==
    /\ At("commit")
    /\ IF Halting THEN StopRun /\ UNCHANGED <<commits, trees>>
       ELSE IF ~ Current(run.head, run.main)
       THEN Throw("harness_failed") /\ UNCHANGED <<commits, trees>>
       ELSE /\ IF Tree.dirty \/ Tree.merge
               THEN CommitTree /\ trees' = [trees EXCEPT ![run.ws] = AfterCommit]
               ELSE UNCHANGED <<commits, trees>>
            /\ run' = [run EXCEPT !.place = "check", !.previous = run.head, !.phase = "other",
                                  !.head = trees'[run.ws].at]
    /\ UNCHANGED <<world, paused, asked, abandoned>>

\* The second look, before the push.
Check ==
    /\ At("check")
    /\ Guarded(IF Current(run.previous, run.main) THEN Go("push") ELSE Throw("harness_failed"))
    /\ UNCHANGED <<world, commits, trees, paused, asked, abandoned>>

\* git push without --force, and a mutant with it; the acknowledgement may be lost.
Accepted_Forced == TRUE
Accepted == remote.head \in History(Tree.at)
Push ==
    /\ At("push")
    /\ IF Accepted
       THEN /\ remote' = [remote EXCEPT !.head = Tree.at]
            /\ Go("confirm") \/ Throw("harness_failed")
       ELSE Throw("harness_failed") /\ UNCHANGED remote
    /\ UNCHANGED <<commits, trees, paused, asked, abandoned, moves, crashes>>

\* The read-back.
Confirm ==
    /\ At("confirm")
    /\ IF Current(run.head, run.main)
       THEN run' = [run EXCEPT !.confirmed = run.head, !.wrote = "yes",
                      !.place = CASE run.task = "conflict" -> "deliver"
                                  [] run.task = "review" -> "post"
                                  [] OTHER -> "decide"]
       ELSE Throw("harness_failed")
    /\ UNCHANGED <<world, commits, trees, paused, asked, abandoned>>

-----------------------------------------------------------------------------
(* The answer and the end of the run.                                      *)

\* The pause of this worktree is over.
PauseOver == paused' = IF paused.tree = run.ws THEN [paused EXCEPT !.status = "completed"] ELSE paused

\* publishTaskWithLifecycle: the pause, the answer, the result, each after the guard.
Deliver ==
    /\ At("deliver")
    /\ IF Halting THEN StopRun /\ UNCHANGED paused ELSE Go("send") /\ PauseOver
    /\ UNCHANGED <<world, commits, trees, asked, abandoned>>
Send ==
    /\ At("send")
    /\ Guarded(Go("sent"))
    /\ UNCHANGED <<world, commits, trees, paused, asked, abandoned>>
Sent ==
    /\ At("sent")
    /\ Guarded(End("completed"))
    /\ UNCHANGED <<world, commits, trees, paused, asked, abandoned>>

\* runReviewTask after review.json: the result of a review is not saved by finish().
Post ==
    /\ At("post")
    /\ IF Halting THEN StopRun /\ UNCHANGED paused ELSE Go("review") /\ PauseOver
    /\ UNCHANGED <<world, commits, trees, asked, abandoned>>
PublishReview ==
    /\ At("review")
    /\ \/ Guarded(run' = [run EXCEPT !.place = "dispose", !.status = "completed", !.result = TRUE])
       \/ IF run.aborted THEN StopRun
          ELSE \E saved \in BOOLEAN :
                 run' = [run EXCEPT !.place = "dispose", !.status = "publication_interrupted",
                                    !.result = saved]
    /\ UNCHANGED <<world, commits, trees, paused, asked, abandoned>>

\* retainWorkspace; conflict-runner does not give it the remote head.
Retained ==
    [status |-> run.status, tree |-> run.ws, task |-> run.task,
     remote |-> IF run.task = "conflict" /\ run.status # "stopped" THEN 0 ELSE run.confirmed,
     local |-> Tree.at, base |-> run.target, phase |-> run.phase, write |-> run.write]

\* finishRun: retainWorkspace, the stop comment, result.json.
Finish ==
    /\ At("finish")
    /\ paused' = IF run.keep THEN Retained ELSE paused
    /\ asked' = (asked /\ ~ run.aborted)
    /\ run' = [run EXCEPT !.place = "dispose", !.result = TRUE]
    /\ UNCHANGED <<world, commits, trees, abandoned>>

\* disposeTerminalWorkspace, with mutants: a list without needs_human, and a run that
\* only knows the worktree it could use.
Held_NotHuman == {"budget_exhausted", "stopped"}
Held == {"budget_exhausted", "needs_human", "stopped"}
Target_Active == run.ws
Target == IF run.ws # 0 THEN run.ws ELSE IF run.created THEN run.id ELSE 0
HeldTree(t) == paused.tree = t /\ paused.status \in Held

Dispose ==
    /\ At("dispose")
    /\ trees' = IF Target = 0 \/ ~ run.result \/ (run.ws # 0 /\ HeldTree(run.ws)) THEN trees
                ELSE Removed(Target)
    /\ abandoned' = IF run.result THEN abandoned ELSE abandoned \cup {Target}
    /\ run' = Idle(run.id)
    /\ UNCHANGED <<world, commits, paused, asked>>

\* The SCM, git or the file system fails.
Fails ==
    /\ run.place \in {"enter", "fetch", "prepare", "created", "ready", "decide", "answered",
                      "commit", "check", "confirm", "deliver", "send", "sent"}
    /\ Throw("harness_failed")
    /\ UNCHANGED <<world, commits, trees, paused, asked, abandoned>>

\* watchStop polls the inbox.
WatchStop ==
    /\ ~ At("idle")
    /\ asked /\ ~ run.aborted
    /\ run' = [run EXCEPT !.aborted = TRUE]
    /\ UNCHANGED <<world, commits, trees, paused, asked, abandoned>>

RunStep ==
    \/ Enter \/ Fetch \/ Resume \/ SnapshotLost \/ Reject \/ Discuss \/ Create \/ Prepared
    \/ Ready \/ DecideOther \/ DecideCi \/ TurnEnds \/ Answered \/ Commit \/ Check \/ Push
    \/ Confirm \/ Deliver \/ Send \/ Sent \/ Post \/ PublishReview \/ Finish \/ Dispose
    \/ Fails
Agent == Edit \/ Rewind \/ AgentCommits

-----------------------------------------------------------------------------
(* Everybody else.                                                         *)

Moves == moves < MaxMoves /\ moves' = moves + 1

\* Somebody pushes, on top of the branch or, forced, in the place of its last commit.
PeoplePush ==
    /\ Moves
    /\ Len(commits) < MaxCommits
    /\ \E parent \in {remote.head, commits[remote.head].parent} \ {0},
          base \in {commits[remote.head].base, remote.base} :
         commits' = Append(commits, [parent |-> parent, base |-> base])
    /\ remote' = [remote EXCEPT !.head = Len(commits) + 1]
    /\ UNCHANGED <<trees, paused, asked, run, abandoned, crashes>>

BaseMoves ==
    /\ Moves
    /\ remote' = [remote EXCEPT !.base = @ + 1]
    /\ UNCHANGED <<commits, trees, paused, asked, run, abandoned, crashes>>

OpenOrClose ==
    /\ Moves
    /\ remote' = [remote EXCEPT !.open = ~ @]
    /\ UNCHANGED <<commits, trees, paused, asked, run, abandoned, crashes>>

AskStop ==
    /\ Moves
    /\ asked' = TRUE
    /\ UNCHANGED <<remote, commits, trees, paused, run, abandoned, crashes>>

\* The process dies; nothing is disposed.
Die ==
    /\ ~ At("idle")
    /\ crashes < MaxCrashes
    /\ crashes' = crashes + 1
    /\ abandoned' = abandoned \cup {t \in {run.ws, run.id} \ {0} : Exists(t) /\ ~ HeldTree(t)}
    /\ run' = Idle(run.id)
    /\ UNCHANGED <<remote, commits, trees, paused, asked, moves>>

Next ==
    \/ \E task \in Tasks, write \in BOOLEAN : Begin(task, write)
    \/ RunStep \/ Agent \/ WatchStop
    \/ PeoplePush \/ BaseMoves \/ OpenOrClose \/ AskStop
    \/ Die

Spec == Init /\ [][Next]_vars

\* Every step of a run has its time limit: the process goes on.
FairSpec == Spec /\ WF_vars(RunStep)

-----------------------------------------------------------------------------
Places == {"idle", "enter", "fetch", "prepare", "created", "ready", "decide", "turn", "final",
           "answered", "commit", "check", "push", "confirm", "deliver", "send", "sent", "post",
           "review", "finish", "dispose"}
Commits == 1 .. Len(commits)

\* The variables have their types; a run makes no more counted repairs than its budget.
TypeOK ==
    /\ remote.head \in Commits /\ remote.base \in 1 .. 1 + MaxMoves
    /\ \A c \in Commits : commits[c].parent \in 0 .. c - 1
    /\ \A t \in DOMAIN trees : trees[t].at \in 0 .. Len(commits)
    /\ paused.status \in Resumable \cup {"none", "claimed", "completed", "stale"}
    /\ paused.tree \in 0 .. MaxRuns
    /\ run.place \in Places
    /\ run.attempts \in 0 .. RepairBudget
    /\ run.head \in 0 .. Len(commits) /\ run.confirmed \in 0 .. Len(commits)
    /\ abandoned \subseteq 0 .. MaxRuns
    /\ asked \in BOOLEAN

\* Between runs, a pause that may be continued names a worktree that exists and is where
\* the pause says, whoever discussed it, failed beside it or died meanwhile.
PauseIsReal ==
    At("idle") /\ paused.status \in Resumable =>
        Exists(paused.tree) /\ trees[paused.tree].at = paused.local

\* Between runs, a worktree belongs to a pause, or to a process that died or a review
\* left unpublished: nothing else leaks one.
TreesOwned ==
    At("idle") => \A t \in DOMAIN trees : Exists(t) => HeldTree(t) \/ t \in abandoned

\* A /stop saved before the Agent's turn ended prevents every push and answer of the run
\* that would come after, although the watcher has not seen it yet.
StopIsFinal == run.late => run.place \notin {"push", "confirm", "send", "sent", "review"}

\* What a paused run did and did not push stays in its worktree, and the pause names it.
Unpushed ==
    \/ Tree.dirty
    \/ Tree.at # run.confirmed /\ Tree.at \notin History(run.confirmed)
Kept ==
    (At("dispose") /\ run'.place = "idle" /\ crashes' = crashes /\ run.ws # 0 /\ run.write
        /\ \/ run.status = "stopped" /\ run.task # "custom"
           \/ run.status \in Resumable /\ run.task \in {"ci", "repair", "conflict"})
    => (Unpushed => trees'[run.ws] = Tree /\ paused.tree = run.ws /\ paused.status = run.status)
WorkIsKept == [][Kept]_vars

\* A push of a run takes nothing from the branch, whatever the Agent did to its history
\* and whoever pushed between the check and the push.
OnTop == remote'.head # remote.head /\ moves' = moves => remote.head \in History(remote'.head)
NeverOverwrites == [][OnTop]_vars

\* Every run comes to an end: a turn is answered at most twice, a provider called again
\* so often and CI repaired so often.
RunsEnd == []<>At("idle")
=============================================================================
