# PatchPaw in TLA+

PatchPaw is a bot for pull requests: people write to it in comments, it reviews, answers and repairs code
with an Agent, and publishes comments and reviews back to GitHub or GitLab. What makes it hard is not the
Agent but everything around it. One server process and a worker process per pull request share files, file
locks and an SQLite database; any of them may die between two steps; the remote service may lose an answer,
refuse a POST or deliver a webhook twice; people may close a conversation while a comment is arriving, push while
a run is about to, and edit the prompts a run is about to be given. This directory models that part, checks it with
TLC and proves its main safety properties with TLAPS.

Paths in this document are relative to the repository (`src/src/...` in PROJECT.json).

## 1. The system

### Processes

- The **server** (`src/index.ts`, `src/server/app.ts`) receives webhooks and runs the *communication
  scheduler*, a pump that recovers expired leases, dispatches inbound rows, delivers due outbox rows and
  finalizes delivered ones, in this order and one row at a time.
- A **worker** (`scripts/run-pr.ts`) is a detached process for one pull request. It takes the pull
  request's *run claim*, a file lock, handles one thing (a close, a recovery or the oldest comment),
  releases the claim and goes round until there is nothing runnable.
- **Command-line tools** (migration, backup, restore) take the runtime lock exclusively.

They interact only through what is durable: the SQLite database (`communication-store.ts`,
`control-plane/db.ts`), the files of a pull request (state, comment inbox, close journal, run artifacts),
file locks, and the remote service.

### Components

| Component | State | Operations | Correct when |
|---|---|---|---|
| Durable outbox (`communication-store.ts`, `outbound.ts`) | `outbound_delivery`, one row per semantic key | enqueue, claim under a lease, list, POST, settle, defer, requeue, cancel, recover, finalize | one comment per row, in order per pull request; honest receipts; settled rows stay settled; every row settles |
| Portable file lock (`platform/lock.ts`) | gate file, owner directories | acquire, scan, reclaim, release | readers and writers exclude each other; a live holder is never reclaimed; the dead do not block |
| Inbound, dispatch, worker loop (`inbound-verification.ts`, `dispatch.ts`, `pull-request.ts`, `scripts/run-pr.ts`) | `inbound_comment`, comment files, state file, run claim | persist, verify, save, start a worker, claim, inspect, finish | no comment is lost or run twice; one run at a time |
| `/close` (`close.ts`, `close-refusal.ts`, `entry-lifecycle.ts`) | close journal, high-water mark, tombstone | prepare, announce, dispose of runs and workspaces, delete the inbox, tombstone, complete, refuse | what is closed never returns; a close that was announced completes; later mentions survive |
| Delayed finalization (`communication-finalization.ts`) | lifecycle of settled rows | one handler per purpose | every delivery takes its local effect, and never under a running worker |
| Review lifecycle and recovery (`review-lifecycle.ts`, `recovery.ts`, `closeout-publication.ts`) | `review.json`, phase, `run-notice.json` | save, checkpoint, publish, recover | a saved review is published at most once per run; recovery ends |
| Stop control (`stop.ts`) | comment inbox, handled comments, abort signal | watch, stop, retire | a stop ends the run it was for and is consumed; a stop saved before the answer prevents every push and answer |
| Communication scheduler (`communication-scheduler.ts`, `communication-wake.ts`) | timer, pump flag, deadlines, wake socket | initialize, request a pump, pump, arm, stop | no row waits without a pump or a timer; stop leaves nothing behind; what is due is handled; no spinning |
| Approval plans (`approval-plan*.ts`, `command-approval.ts`) | immutable revision files, lifecycle sidecars, `plan-current.json`, outbox row, retained workspace | plan, supersede, publish, approve, claim, execute, recover, settle, retire | only the current plan is executed, once, on the head it was made for, by an approval of somebody who saw it |
| Writeback and publication of a run (`writeback.ts`, `task-publication.ts`, `run-finalizer.ts`) | candidate, branch, result, pause | commit, check, push, confirm, answer, finish | the branch only grows; what a run did not push is kept |
| Workspaces and shared repository (`workspace/`) | worktrees, `paused.json` | create, prepare, resume, retain, dispose | a pause that may be continued has its worktree; every worktree has an owner |
| Harness runtime and retries (`harness/`, `runner/tasks/`) | turn, final answer, retries, repair attempts | turn, retry, decide, answer | every run ends; no more counted repairs than the budget |
| Control plane (`control-plane/`) | prompts, skills, commands, profile, engines, secrets, markers of their owners | edit, bootstrap, migrate, resolve | bindings stay valid; maintenance converges what is PatchPaw's and leaves an operator's edits; no lost update |
| Migration, backup, restore (`src/migration/`) | runtime directories, journal, archive | cut over, recover, undo, back up, restore | no data lost, half published, half backed up or half restored, wherever it is killed |
| Legacy conflict proposals | proposal files, approval comments | propose, approve, repair | as approval plans |
| SCM adapters, HTTP server and admin API, models, observability | none that lasts | requests, parsing, formatting | |

PROJECT.json lists all of them with their files and what is modelled of each, and under "hazards" what is
hard to test, at the line where it bites. The hazards fall into four groups: two processes on one row, lock
or file; a process that dies between two durable steps; an answer of the remote service that is late, lost
or negative; and a decision taken from a read that is no longer true when it is used.

## 2. The modules

| Module | Models | Uses |
|---|---|---|
| `Delivery` | the promise of the outbox: an abstract specification | |
| `Outbox` | the outbox: every SQL statement and every step of an attempt | `INSTANCE Delivery` |
| `OutboxProofs` | proofs that hold for every timing; proofs for attempts that end before their lease, refinement of `Delivery` | `Outbox` |
| `FileLock` | the file lock: one action per file-system call | |
| `FileLockProofs` | proofs about the lock | `FileLock` |
| `Conversation` | one pull request: inbound rows, dispatch, worker loop, runs, notices, `/close` | |
| `ConversationProofs` | proofs about the conversation | `Conversation` |
| `ApprovalPlan` | the approval plans of one pull request, from the command to the push | |
| `ApprovalPlanProofs` | proofs about approval plans | `ApprovalPlan` |
| `Scheduler` | the pump of the server, its wake-ups and its timer, over the rows of all tables | |
| `SchedulerProofs` | proofs about the scheduler | `Scheduler` |
| `TaskRun` | the runs of one pull request: worktree, Agent, writeback, answer, pause | |
| `TaskRunProofs` | proofs about runs | `TaskRun` |
| `ControlPlane` | the control plane's database, its operators and its maintenance | |
| `ControlPlaneProofs` | proofs about the control plane | `ControlPlane` |
| `Runtime` | migration, backup and restore of an installation | |
| `RuntimeProofs` | proofs about migration, backup and restore | `Runtime` |
| `MCOutbox`, `MCFileLock`, `MCConversation`, `MCApprovalPlan`, `MCScheduler`, `MCTaskRun`, `MCControlPlane`, `MCRuntime` | the instances TLC checks | |

Definitions whose name has a suffix (`Stale_Never`, `Pending_AlsoRetired`, `Held_NotHuman`) are mutants: the form a plausible
bug would have. None of them is used by a specification; PROJECT.json pairs each with the property that
detects it.

### Outbox

`row` is the table, keyed by semantic key; `sender` is what each process keeps on its stack during
`attemptDelivery`; `wire` and `remote` are POSTs under way and comments that exist. An SQL statement is one
step. Everything between two statements is a step of its own: the connection, the listing, the freshness
check, the POST, its answer. So two senders interleave in every order, and `Crash` ends one anywhere.

| Code | Model |
|---|---|
| `enqueueOutbound`, `claimOutbound`, `recoverExpiredSending`, `markOutbound*`, `recordOutboundFailure`, `cancelOutboundStale`, `requeueOldestBlocked` | actions of the same names; `Settle` is the common `WHERE delivery_id = :id AND status = 'sending'` |
| `send`, `findExisting`, `assertFresh` | `Lookup`, `Post`, `Answer`, `Refused`, `LoseAnswer`, `FindStale`, `FailBeforePost` |
| the retire loops of `close.ts` | `RetireRead`, then `CancelOutboundStale`: two statements |
| clock | `due` is `next_attempt_at <= now`; `lease` says whether `sending_until_at` has passed |

A remote comment is the pair of its row and the number of the attempt that POSTed it. Back-off delays,
bodies and markers are abstracted away; the finalization of a row whose handler fails, and its deferral, are in `Scheduler`.

`Timely` is the one assumption: no attempt, and no POST of it, outlives its claim on the row. The code does not
enforce it. The lease is 30 seconds (`OUTBOUND_SENDING_LEASE_MS`), and the statements that settle a row do not
check whose claim it is. Nor is it about time alone: `deferDelivery` rewrites a row without looking whether another
process is sending it (`recordOutboundFailure`, `communication-store.ts:306-316`), which ends that process's claim within its
lease; `Timely` excludes that too. Every property is therefore stated either for both values of `Timely`
or for `Timely` only, and the runs and theorems say which.

### FileLock

A client is a path of acquisition in a process (the webhook handler and the pump of one server are two
clients of it). Each file-system call is one step: `link` of the gate, reading it, removing a dead one, scanning
the owner directories, `mkdir`, removing the gate, removing the owner directory. `Die` ends a process with
all its clients and leaves its files. `GateCrashers` are the processes that may die inside the gate.
PIDs are not reused while files name them, and a temporary owner file is complete when it is linked. The lock promises a writer
no progress while readers come and go (`openInitializedControlPlaneDb`, `db.ts:115`, waits without a limit), so no property asks for it.

### Conversation

`row`, `inbox`, `state`, `review`, `notice`, `journal` and `letter` are durable; `claim` is the run claim;
`pc`, `limit` and `current` are in the memory of processes and lost when they die. `runs` is a history
variable. A process reads and writes one durable thing per step, except as listed below.

| Code | Model |
|---|---|
| webhook, `insertInbound` | `Receive` |
| `processOne`, `isRetired`, `saveHumanReply`, `dispatchHumanReply`, `markInbound*` | `Verify`, `Resume`, `CheckRetired`, `SaveReply`, `Look`, `DispatchFails`, `MarkDispatched` |
| `drainDueDeliveries`, `finalizeDelayedDelivery` and its handlers | `Drain`, `Finalize`, `ServerRelease` |
| `run-pr.ts`, head of `runPullRequest`, `claimRun`, `prepareEntryLifecycle` | `Boot`, `ClaimRun`, `EnterClose`, `EnterOther`, `Recheck` |
| `recoverLockedRun`, `ensureReviewPublished` | `RecoverNotice`, `RecoverReview`, `PublishReview` |
| a run: inspect, Agent, checkpoint, `finishRun`, `publishRunNotice` | `Inspect`, `SaveReview`, `CheckpointReview`, `Finish`, `PublishNotice`, `Release` |
| `watchStop`, `refuseCloseOnActiveTask` | `RefuseClose`, and the stop that `Finish` and `PublishReview` may find |
| `runClose` | `EnqueueStart`, `Survey` (the high-water mark), `Announce`, `Dispose`, `Sweep`, `Tombstone`, `Complete`, `Seal` |

Abstractions, each weaker or equal in behaviour unless it says otherwise:

- `letter[k]` is the latest row of purpose `k` that is not finalized. The outbox is `Outbox`'s subject; here
  only the outcome of a delivery matters. That an older row cannot clear a newer marker rests on the
  identities the handlers compare (`ownsClose`, comment and run ids). The FIFO order among the rows is left
  out, so rows may be delivered in more orders than in the code.
- Some adjacent steps of one process are merged: the two reads of `Look`; the loop's check and the first
  check of `runPullRequest` in `Boot`; the check for a running worker and the claim in `Finalize`; the writes
  of `finishRun`, the state file and `run-notice.json`; retirement, row and POST in `RefuseClose`.
- "Running" is an active state of a live process: `workerStatus` answers "interrupted" for a dead PID, which
  is `active = Nobody`, and a dead claim is one anybody may take (`FileLock` models how).
- When the watch notices a stop or a close is left open (the polling interval).
- A review found stale at its publication counts as published; a run's artifacts are reduced to whether a
  review or a notice is waiting.
- A worker slot stands for a process, may be started again after it ended, and at most two are alive.
- Approval plans (see `ApprovalPlan`) and legacy conflict proposals are left out: their comments, their entry of the worker
  loop and their recovery are left out, which removes behaviours; nothing here says anything of them.
- GitHub and GitLab run through the same functions; the model does not distinguish them.

Two behaviours that look like defects are intended, and modelled as they are: a mention that arrives before
a close resumes after a crash is retired by it (`test/close.test.ts:360-391`), and a close one of whose steps failed
waits for another `/close` or another entry.

### ApprovalPlan

A command that may write only after approval makes the Agent plan first. The plan is saved under the next
revision, published through the outbox, approved by a later `/approval` and executed in the workspace that was
kept for it. `status`, `receipt` and `claim` are the sidecars of the revisions, `current` the pointer file, `done` says
whether a completion artifact names the claim's run, `row` and `posted` are the outbox row and the remote comment,
`retained` and `answered` are `paused.json`, `head` the branch of the pull request and `past` what each commit is built on. `pc` and
`run` are the worker's memory. There is one worker: `Conversation`
proves that the run claim admits one at a time, and `FinalizePlan`, of the server, happens when nobody has it.

| Code | Model |
|---|---|
| entry: close, unfinished claim, oldest comment | `EnterClose`, `EnterRecovery`, `EnterApproval`, `EnterLegacy`, `EnterCommand` |
| `publishApprovalPlan`, `saveApprovalPlan` | `Supersede`, `SaveVersion`, `SavePlan`, `Enqueue`, `Pend`, `Retain`, `DeliverPlan`, `FinalizeRow` |
| `claimApprovalPlan`, `assertApprovalProvenance`, `assertCurrentApprovalPlanFacts`, workspace evidence | `Recovered`, `Reject`, `Accept`, `TakeClaim`, `RetireComment`, with `Confirmed`, `Provenance`, `Facts`, `Evidence` |
| the task, `performWriteback`, `publishTaskWithLifecycle`, `finishRun`, the runner's `catch` | `Edit`, `Commit`, `LookAgain`, `Push`, `Confirm`, `Answer`, `SaveAnswer`, `Finish`, `GiveUp` |
| `finalizeApprovalPlanPublication` | `FinalizePlan` |
| `retireApprovalPlanLifecycle`, the sweep and the tombstone of `/close` | `RetireLifecycle`, `CancelRows`, `Remove` |

Plans are numbered over the life of the pull request, so that a plan of an earlier session can be told from a new one;
the code's revision is the number since the last close. `latest` and `effect` (what the execution of a plan has done) are
history. Abstractions:

- A write is one edit, one commit and one push at most; what is between them is left to the Agent.
- People push onto any commit they know, or force the branch to one, at any step. `performWriteback` looks at the branch before the commit, before the
  push and after it (`writeback.ts:109`, 123, 128), each look a step of its own. `pushRepair` is an ordinary `git push`
  (`workspace/manager.ts:81-85`), which Git accepts on top of any ancestor: when the branch is forced back between the look and the push,
  the push succeeds and brings back what was taken away. So the comment at `writeback.ts:117-120`, that a drift "still fails
  closed before remote mutation", holds up to the look. `PushedAsPlanned` says what is left of it: the push lands on the commit of
  the plan or on an older one of its history, never on a commit the plan does not know.
- Everything the facts compare (base, fork, state, snapshot) is the head of the branch and the kept workspace.
- The SCM's check of the approver is a rejection that may always happen. A transient failure before anything is written is a `Die`.
- The sidecar and the pointer of a new plan are one step; the immutable file before them is a step of its own, as a
  left-over of it blocks the revision.
- `/close` takes the id of the last comment as its limit, and the rows it waits for are only this model's: `Conversation` and
  `Outbox` have the details. Rows are posted in order, as `Outbox` proves.
- A workspace kept for another paused task is `Other`. Runs that do not plan are in `TaskRun`; plans of `/review`, whose
  publication recovers separately, are left out.

### Scheduler

`Outbox` and `Conversation` say what a delivery or a verification does and assume that the pump comes round. This module
says why it does: a row is only work that is due, not yet due, or nobody's turn (`status`, `due`), and the interest is in
the pump. `pc` is where the server is, `dirty` the flag of `requestPump`, `timer` whether one is armed, `seen` what
`armDeadline` has read and not yet acted on, `todo` the rows the pump listed and has not handled, `owed` a nudge that a
writer has committed rows for and not yet sent.

| Code | Model |
|---|---|
| `initialize`, `requestPump`, the wake socket, `wakeCommunicationScheduler` | `OpenStore`, `Listen`, `RequestPump` in `Wake`, `Receive`, `TimerFires` |
| the loop of `pump` | `Begin`, `Import`, `RecoverExpired`, `Verify`, `ListHeads`, `Claim`, `Answer`, `ListFinalizations`, `Finalize`, `Again` |
| `nextCommunicationDeadline`, `hasDueCommunication`, `armDeadline`, the `finally` | `Waiting`, `HasDue`, `ReadDeadline`, `Arm`, `EndPump` |
| the `catch`, `stop`, the process's end | `Throw`, `Stop`, `CloseStore`, `Die`, `Restart` |
| workers: enqueue, `deliverImmediately`, requeue, cancel, defer | `Enqueue`, `WorkerClaims`, `WorkerSettles`, `WorkerFinalizes`, `Requeue`, `RequeueQuietly`, `Cancel`, `DeferDelivery` |

Instants are abstracted to whether they have come (`BecomesDue`), and an armed timer may fire at any time: early firing
is harmless in the code and only adds behaviours. `unannounced` names the changes of the tables that reach the scheduler by no
nudge: a writer that died between its commit and its connection, `deliverImmediately`'s requeue (`outbound.ts:245`), cancellations
and deferrals, and a second failure of `armDeadline`. The rows of one pull request stand for all. The overflow of
`setTimeout` for a delay of more than 24.8 days (`communication-scheduler.ts:156`) is not modelled: a back-off is an hour at
most (`outbound.ts:63-64`), and only a `Retry-After` of the SCM could ask for more.

### TaskRun

One pull request and one run at a time (`Conversation` proves that), beside people who push, move the target branch,
close the pull request or write `/stop`, and a process that may die anywhere. A commit is its parent and the newest
target version merged into it; a worktree is named by the run that created it; `run` is what `pull-request.ts` and the runners
keep in variables, `paused` is `<state>.paused.json`.

| Code | Model |
|---|---|
| snapshot and intent, entry of a paused task, `ensureRepo`, `fetchPRState` | `Begin`, `Enter`, `Fetch` |
| `resumeWorkspace`, `discussingPause`, `createWorktree`, `prepareWorkspace` | `Resume`, `SnapshotLost`, `Reject`, `Discuss`, `Create`, `Prepared`, with `StillFresh` |
| `decideWriteback`, the drivers of the tasks | `Ready`, `DecideOther`, `DecideCi`, `StartTurn` |
| `generateTurn`, `finalAnswer`, `retryProvider`, `stopSession` | `TurnEnds`, with `Completed`, `FinalAnswer`, `Exhausted`, `Retried`, `Interrupted` |
| an Agent with write tools | `Edit`, `Rewind`, `AgentCommits` |
| the runners after the answer | `Answered` |
| `performWriteback` | `Commit`, `Check`, `Push`, `Confirm` |
| `publishTaskWithLifecycle`, `runReviewTask` | `Deliver`, `Send`, `Sent`, `Post`, `PublishReview` |
| `finishRun`, `retainWorkspace`, `disposeTerminalWorkspace` | `Finish`, `Retained`, `Dispose`, `Held` |
| `watchStop` and its guard | `WatchStop`, `Halting`, `Guarded`, `StopRun` |

Git is external: `Accepted` is a push that is not forced, `CommitTree` a commit. The wait for CI is one step with every
result. What a comment says, evidence hashes and the validation of paths are left out; deliveries are in `Outbox`, writes after a
plan in `ApprovalPlan`. Behaviours of the code that the model has and a reader may not expect:

- A discussion of a pause that is already *claimed* uses its worktree and removes it at its end
  (`pull-request.ts:322-327`, `run-finalizer.ts:119-121`). The next matching command finds the pause stale and begins
  afresh. `PauseIsReal` is therefore about pauses that may be continued.
- `ci.ts:121-122` says of finishing a retained candidate "It is not a new repair attempt."; line 125 counts it as one. The
  model counts it, which is why `DecideCi` may begin it with `StartTurn(TRUE)`.
- A push that fails leaves `state.current_head_sha` at a candidate that was never confirmed; what is retained is
  `confirmedRemoteHead`. A stop between an unacknowledged push and its read-back thus retains the old head, and the
  next continuation is rejected as stale.
- A review that ends with `publication_interrupted` and leaves no pending row keeps its worktree without an owner:
  `TreesOwned` names this with `abandoned`, as it does the worktrees of dead processes.
- Another pull request's fetch between this run's fetch and its worktree may give it a newer target branch; the run fails
  closed at the next check.
- `/stop` as a task of its own always ends "stopped", the work of `custom` runs and of failures of the Harness is not
  retained, and the answer of a conversation is published without asking for a stop.

### ControlPlane

A transaction is one step and the database one variable, `db`: assets (prompts and the skill `help`) in the scopes
`public` and `repository`, commands and the conversation profile (`target`), the provider and its model (`engine`), a marker
for each that says who owns it, and the repository's revision. `view` is what each open page of the admin
console shows, with the revision it will send back; `slot` is the credential's file.

| Code | Model |
|---|---|
| `bootstrapBuiltinControlPlane` | `SeedPublic`, `SeedEngines`, `ManageRepository`, `CopyAssets`, `ConvergeTarget`, `BootstrapRefused` |
| `builtin-migrations.ts` | `PlanMode`, `OpaqueOutput` with `ConvergeConflict`, `ConvergePrompts`, `ConvergeLayout`, `Historical` |
| `resolver.ts` | `Resolvable`, `Start`, `Resolve` |
| `prompts.ts`, `skills.ts`, `commands.ts`, `providers.ts`, `secrets.ts`, through `admin-api.ts` | `CreatePrompt`, `UpdatePrompt`, `DeletePrompt`, `CopyPublicPrompt`, the same for skills, `CreateCommand`, `UpdateCommand`, `DeleteCommand`, `ReadProfile`, `SaveProfile`, `UpdateProvider`, `UpdateProviderModel`, `WriteSecret`, `ReferSecret`, `ForgetSecret`, `RemoveSecret` |
| `assertExpectedRevision`, `assertPromptIsNotBound`, `validatePromptBindings` | operators of these names or `BindingsValid`, `IsBound` |

The installations it starts from are a fresh one and three layouts of former releases (`Deployed`). One repository, one
provider and one model stand for several; `verify` for the four repair prompts only historical layouts bind; `/ci` is left out, being
`/conflict` without the plan prompt. Left out too: renames, custom assets and commands, SCM connections, display names, the
deletion of models, providers and repositories, the validation of snapshots, sessions and login. Known behaviours, without a run:

- A tombstone of a built-in command, or a disabled model when one of them is missing, makes `bootstrap` refuse every
  later start (`bootstrap.ts:222`, against the comment at `pull-request.ts:282-283`). The model has it; what holds of
  starts is `MigratedInstallsResolve`.
- The profile is read before the transaction that saves it (`commands.ts:222` and 238), so that a save without an expected
  revision may merge into a stale row: `NoLostUpdate` excludes the profile.
- `expected_revision` is optional in the admin API (`admin-api.ts:283-330`, 418-429): a client that omits it overwrites by design.
  The pages always send it (`web/src/api.ts:255-289`), and it is the pages that the model has; `NoLostUpdate` says nothing of other clients.
- Replacing a repository's prompt by a disabled public one (`prompts.ts:188`) disables an asset that commands bind;
  `BindingsHold` asks of bound assets that they exist. A migration that could do nothing is recorded and never repeated: a
  `/review` layout of a former release whose prompts are not all there and enabled keeps the retired prompt for good
  (`builtin-migrations.ts:384-404`; `skipped` remembers which). Two
  requests for one credential may cross between file and row (`providers.ts:228-232`).
- `admin-api.ts` keeps a rejected promise of the database's opening (line 570) until the process restarts.

### Runtime

A directory is the version of each of its parts, a rename one step, a copy one step per part. `old` is a PatchPaw of the
former layout, which knows no lock. The service holds the runtime lock in shared mode while it writes, a backup or
restore exclusively, except for the SCM credentials (`secrets/scm`, `secrets/scm-webhook`): the admin API writes and deletes them
without any lock (`secrets.ts:212-271`, `admin-api.ts:735-757`), although both are backed up and restored (`backup.ts:211`,
`restore.ts:10`). They are the parts in `Unlocked`, written at any step (`ServiceWrites`); a part is one slot directory, its version
whatever it holds, also nothing. A restore that finds the directory made again where it has to put its own throws (`Occupied`), and so does
a rollback (`RollbackFails`). `truth` is what the old program wrote last, a history variable. One operator command runs at a time; any step
may throw, and the command may be killed at any step.

| Code | Model |
|---|---|
| `recoverOrphanedWorkspaceQuarantines`, `recoverInterruptedMigration` | `RecoverOrphans`, `Recover`, `ForgetJournal` |
| checks, fingerprints, staged copy, quarantine of terminal workspaces, cutover | `Check`, `Fingerprint`, `Prepare`, `Copy`, `Inspect`, `Quarantine`, `Prune`, `Compare`, `Compared`, `Archive`, `Recheck`, `JournalArchived`, `Publish`, `JournalPublished`, `Dispose`, `Unlink` |
| the `finally` of a failed migration | `Undo`, `Unarchive`, `Withdraw` |
| `backupRuntime` | `Backup`, `BackupPart`, `Commit`, `BackupFails` |
| `restoreRuntime` | `Restore`, `Stage`, `SetAside`, `Install`, `Restored`, `Uninstall`, `Return`, `RollbackFails`, `Clean` |

What the properties except is named in them: a write of the old program after the last look at a part (`slipped`: no check can
see a process that starts, writes and ends between two looks); a home that the service created after a crash in state
`source_archived` and that recovery takes for the published one (`runtime.ts:512`); a killed restore, which has no journal and leaves the
archive to the operator; and of the slots, what the service wrote while a backup or a restore ran (`touched`). An empty home that exists beforehand makes recovery throw (513). Not modelled: the restore's
verification of a backup's manifest, databases and files (`restore.ts:56-158`): a backup here is what `backupRuntime` committed. A
service that is idle while its home is restored keeps its handle on the archived database; the model's service opens its files for
every write. That a connection's row and its slot are two things, which a restore between the two writes may separate
(`admin-api.ts:747-748`), is not modelled either.

## 3. What TLC checks

All runs are exhaustive for their instance. `CHECK_DEADLOCK FALSE` is set where the system may come to rest: no
row left to deliver, every client of a lock dead, every comment settled.

| Run | Instance | Checks |
|---|---|---|
| `outbox_timely` | a review, a run notice and an approval plan of one pull request; scheduler and worker; two faults; timely | `NoDuplicate`, `OneAttemptPerPR`, `ImplementsDelivery`, `EventuallySettled` |
| `outbox_untimely` | two rows; three faults; senders and POSTs may outlive the lease | `InOrder`, `DeliveredHasReceipt`, `SettledStays` |
| `lock_pass` | two clients of the server and one of a worker; both processes may die, the server inside the gate too | `MutualExclusion`, `DeadDoNotBlock` |
| `lock_reclaim` | three processes | `MutualExclusion` is violated |
| `conversation_safe` | a mention, a `/close`, a `/stop`; two workers and the server; every ending of a run; a refusing SCM; one fault anywhere | `AtMostOnce`, `RunnerHasClaim`, `PastForever`, `RetiredNeverRun` |
| `conversation_live` | a `/close` and a mention; two faults | `InboundSettles`, `CloseCompletes` |
| `conversation_spin` | three comments, one of them `/stop`; reviews; no crash | `WorkersRest` is violated |
| `approval_safe` | two plans, five remote comments, two commits of people, two deaths of the worker | `ApprovalMeantThis`, `CompletedIsHonest`, `PointerForward`, `NoReplay`, `PushedAsPlanned` |
| `scheduler` | two letters of one pull request, one finalized later; an inbound comment; an artifact of a former release; one fault, one intervention | `AwakeOrArmed`, `StopsCleanly`, `DueIsHandled`, `NeverSpins`, `FinalizedAtLast` |
| `task_run` | any two of the seven tasks in a row, on a fork or not; three commits; one push, moved branch, close or `/stop`; one death; a budget of two repairs | `PauseIsReal`, `TreesOwned`, `StopIsFinal`, `WorkIsKept`, `NeverOverwrites`, `RunsEnd` |
| `control_plane` | two pages, four installations, two committed edits of the plan prompt, the skill, any command, the profile or an engine | `BindingsHold`, `MigratedInstallsResolve`, `MaintenanceRespectsOperator`, `NoLostUpdate` |
| `runtime` | a database and the SCM slots, three versions of each, two errors or kills | `SourceKept`, `PublishedComplete`, `WorkspacesInPlace`, `BackupIsConsistent`, `RestoreIsAtomic` |

What the runs of the newer modules show, in words:

- `scheduler`: a scheduler at rest over waiting rows has a timer, or a nudge is under way (no lost wake-up between the read of
  the deadline, the arming and the end of the pump); `stop` leaves no timer and closes the store under no pump; what is due is
  handled; a pump that repeats itself has handled something; and a row whose finalization failed, found a worker on the pull request
or was left by a dying canceller is taken up again until it is finalized, unless the server is stopped for good or the last
change of the tables reached it by no nudge. It discharges the fairness the other modules assume of the pump.
- `task_run`: between runs, a pause that may be continued names a worktree that is there and where the pause says, although
  it may have been discussed, rejected or overwritten, or its process died; no worktree leaks; a `/stop` saved before the answer prevents what
  would come after it, polled or not; what a paused run did not push is still there; a push takes nothing from the branch; all
  nested loops of a run end.
- `control_plane`: whatever order edits, bootstrap and migrations come in, a command binds what exists and has its main prompt
  while it is enabled; maintenance re-creates, enables and rewrites nothing of the operator's; once the migrations ran, every
  target PatchPaw owns resolves; an accepted save replaced exactly the row its page showed.
- `runtime`: wherever a migration is killed, all the old program wrote is whole in one place; a published home is complete, and an archived
  runtime has its workspaces; a backup holds what is written under the lock as of one moment, and a restore ends with the backup or what it found,
  although the service writes the SCM slots at any step of either. A slot in a backup is one of its states between the backup's start and
  its end; after a restore, a slot that was written meanwhile may be neither the backup's nor the former one.

**Why the bounds are enough.** A duplicate, an overtaking or a wrong cancellation needs two rows (one that is
overtaken, one that overtakes) or two senders (one late, one that took over); three rows add a purpose that
is cancelled and one that is listed on its first attempt. A fault is a crash, a failure, a lost answer or an
overrun lease: two suffice for a crash followed by a lost answer, three for two late senders of one row. In
the lock, two processes give every pairing of reader, writer and dead owner; the third process is what the race in
`lock_reclaim` needs, and its absence from `lock_pass` is therefore a restriction, removed by the theorems. In
the conversation three comments are an ordinary one, one that closes and one that stops, in any order of
arrival; two workers are what the claim must keep apart; a worker slot is reused, so the number of processes over time is
not bounded. `MaxFaults` bounds faults, `Workers` the live workers, `MaxId` the identifiers, and nothing else is bounded. For the
approval plans, five remote comments are what a second plan, its comment and its approval need after a first plan that was published
(command, plan, command, plan, approval), two commits of people what a push that is taken back needs, two deaths one
in the execution and one in its recovery. `MaxPlans`, `MaxId`, `MaxSha` and `MaxFaults` bound plans, comments, people's commits and deaths.
In the scheduler, two letters are a head and one behind it, the comment is the other table's row, one fault is a death, a dead
writer or a throw; the theorems remove these bounds. In `task_run` the second run is what a pause, a discussion or a stale worktree of the
first one needs, the third commit what a push and a rewound history need; `MaxMoves` allows one move of people, since each is harmful by
itself, and a pause that is retained, moved under and continued needs one. In `control_plane` two edits are a conflict; the pages open together
show rows of the same name, which loses no conflict of two edits of one row. In `runtime` two parts are one copied before and one after a write of the old program, and one that the service
writes under the lock beside one it does not (what `BackupIsConsistent` says of each part together says that the locked ones are of one moment); three versions are one that is backed up, one that a restore finds and one written while it runs; two
faults an error and a kill, or a kill of a recovery.

**Fairness.** Only what the code schedules by itself is fair. Outbox: the scheduler is always running and its
pump passes over all rows, so recovery of leases and the scheduler's own claim of each row
are weakly fair; so are the next step of an attempt that does not fail, the
clock and the SCM's processing of a request it received. Workers never owe a claim. Lock: a live
process completes its file-system calls and polls. Conversation: the pump's passes (dispatch, each kind of
row, release, a close it resumed) and each live worker's next step. No webhook, crash, refusal or ending of a run is fair.
Scheduler: the server's awaits resolve (each delivery and verification has its time limit), an armed timer fires, the process is
started again, and the connection of a living writer is made. `FinalizedAtLast` alone assumes more (`HandlersWork`): time passes, and a
handler of a finalization that is tried again and again works at last; that it is tried again, after any number of failures, is what
the property says. TaskRun: the next step of a run, since a turn, a retry, a wait for CI
and every call of git or the SCM have their time limits; the Agent's edits, people and deaths are not fair.
`EventuallySettled` is excused by a blocked row, which waits for a person by design.

## 4. What is proved

The theorems hold for any number of rows, processes, comments and faults. All proofs are by an inductive invariant; none
assumes anything beyond the named assumptions on the constants, except where `Timely` or `LoneReclaimer` is stated.

**Outbox, any timing** (`OutboxProofs`): `TypeCorrect`; `SettledForever`: no statement reopens a settled row;
`PerPROrder`; `ReceiptsAreReal`. `InOrder` is not inductive by itself: a row is claimed only when all
older rows are settled, so the invariant is that every row that was ever *touched* has settled elders, and a
settled row stays settled whatever happens. Sequence numbers are distinct and below `nextSeq`, so no elder
appears later. For receipts the invariant says what each step of an attempt witnesses: an attempt that was
acknowledged names an existing comment of its own row, and whoever settles a row, the late sender included, has such a witness.

**Outbox, timely** (`OutboxProofs` too, each theorem `ASSUME Timely`): `ExactlyOnce`, `OneAttempt`,
`CancelIsSafe`, and `OutboxImplementsDelivery`, the refinement of the abstract specification. The
invariant `Exclusive` says that the sender or POST of a row is that of its current claim, that it is alone,
and that a row not being sent has nothing in flight; then a retry lists the remote after everything earlier has landed
or is lost, and finds it. `OneAttemptPerPR` follows with order: two attempts on one pull request would be on two open rows.

**File lock** (`FileLockProofs`): `LockTypes` always; `LockExcludes`, `LockKept` and `GateSerializes` assume
`LoneReclaimer`: a process that may die between `link` and `rm` of the gate leaves at most one client that could reclaim it. With
no crash in the gate that says nothing; it also covers a crash that only one other client is there to clean up after, the instance
`lock_pass` checks. The invariant: a gate file names the client that is in the gate, or one that died there; who is about to remove it
(`Reclaims`) removes the dead one it read, since nobody else is left to replace it meanwhile (`OneReclaimer`). So the scan and
the `mkdir` of one client are atomic for the others. The assumption is necessary: `lock_reclaim`, with two reclaimers,
violates the conclusion.

**Conversation** (`ConversationProofs`): `ConversationTypes`, `NoCommentTwice`, `RunnerHoldsClaim`,
`PastIsForever`, `NoRetiredRun`. The invariant says: a process at a place behind the claim is the one that has
it, and nobody else is active, so what it read stays true (`InspectFinds`: there is still a pending comment
that was not run); only received comments are ever handled, so the high-water mark a close computes covers
everything that was handled when it forgets the list (`LimitCovers`); and a comment that was run is past (`RunsArePast`).

**Approval plans** (`ApprovalPlanProofs`, for any number of plans, comments, commits and deaths): `ApprovalTypes`,
`ApprovalIsMeant`, `PointerGoesForward`, `NeverReplayed`, `PushesAsPlanned`, `CompletionIsHonest`. None of the properties is inductive.
The invariant says that the current plan is the last there has been and the only one that may wait for a receipt
(`Numbered`), so a late finalization cannot move the pointer back; that the plan of a run stays the current one (`RunPlan`); that
comments of plans are numbered in the order of the plans and a plan whose elder is unsent has no comment yet
(`Posting`), so whatever is older than an approval is of the approved plan or of an older one (`Approving`); that
any effect shows in the workspace, and an answer saved for a running claim comes after the push (`Effects`); what
the worker may rely on from the check of the claim to the end of its run (`Executing`); and that the candidate about to be pushed
is built on the commit of its plan and nothing else, so that Git's own rule bounds where a push can land (`Built`).

**Scheduler** (`SchedulerProofs`, for any number of rows, artifacts, faults and interventions): `SchedulerTypes`,
`NeverAsleepOverWork`, `StopIsClean`. `AwakeOrArmed` speaks of a scheduler at rest; the invariant says what makes it come to rest well:
what was read as the deadline is still true, or a request has come since (`Read`), a pump that ends leaves a timer or a
request (`Ended`), a row that is being sent is the head of its queue (`SendingIsHead`), and a stopped scheduler is quiet (`Quiet`).

**Runs** (`TaskRunProofs`, for any number of runs, commits, moves of people and deaths): `RunTypes`, `PausesAreReal`,
`TreesHaveOwners`, `StopIsForGood`, `BranchOnlyGrows`, `UnfinishedWorkIsKept`. The properties about pauses and worktrees speak of the time between
runs. The invariant says what holds during one: which places of a run have a worktree (`Placed`); a pause that may be continued is whole
although a run is under way, as that run is a discussion, which never writes, or has no worktree yet (`Retains`); every worktree is
the pause's, the run's or abandoned (`Owned`); commits are numbered and nothing names one that is not there (`Numbered`);
counted repairs stay within the budget (`Counted`); and a `/stop` that was saved before the answer is in the inbox or noticed until
the run ends with it (`Stopping`). `BranchOnlyGrows` needs of git only that an unforced push is refused unless it contains the branch.

`UnfinishedWorkIsKept` has an invariant of its own, `Work`: on a fork, whose branch is never pushed to, a run that may write ends before its
first turn and leaves its worktree untouched (`Forked`); a `/stop` writes nothing, and until its first turn a run has confirmed what it began
with (`Starting`); and a run at its end keeps its worktree, owes nothing or has nothing unpushed (`Keeping`). Every way out of a run is shown to end it so (`EndsWell`); that is where a forgotten `keep` would show. The
ancestry of commits is a recursive function; the proof needs only that a commit is in its own history.

**Runtime** (`RuntimeProofs`, for any set of parts, any number of writes, errors and kills): `TypeCorrect`, `SourceIsKept`,
`PublishedIsComplete`, `WorkspacesAreInPlace`, `BackupsAreConsistent`, `RestoresAreAtomic`. The invariant says which directories there
are at each place of a command (`Placed`); that an archive without a home has a journal, which is how the next command knows of it
(`Journalled`); that what the old PatchPaw wrote last is in the archive once there is one, and nobody has files open in it when the
home is published (`Latest`); that a copied part lies between the first fingerprint and the source, so that equal fingerprints make the
copy the source (`Copied`); that a part already backed up cannot change before the backup ends unless it is written without the lock (`BackingUp`); and, part by part, what a
restore has moved aside, installed and found, a slot written meanwhile excepted (`Exchange`), from which either end of it and every rollback are whole.

**Control plane** (`ControlPlaneProofs`, for any pages, any names the operators write, any number of writes): `TypeCorrect`,
`BindingsAlwaysHold`, `MigratedTargetsResolve`, `OperatorsAreRespected`, `NoUpdateIsLost`. A transaction is an operator on the database,
so the invariant is mostly one of a database value (`Sound`: typed, `Marked`, `Bindings`, `Owned`). What the bootstrap and the
migrations may do to one row is stated once, as a relation of two databases, `Maintains`: a row is kept, filled in where nobody deleted it, has a
shipped text replaced, or is a command that is PatchPaw's or has a deployed layout. Each of their operators maintains and keeps a sound
database sound; the relation composes (`MaintainsThen`), and `OperatorsAreRespected` follows from it. `Owned` says what PatchPaw
owns is what some release deployed, and `Retired` that the retired prompt is bound only by a layout the migration skipped: both are what
`MigratedTargetsResolve` needs. `NoUpdateIsLost` needs that a page which has its row's revision shows its row's content (`Pages`), hence
that every write of every party gives new content a later revision (`Grows`); a page whose row was deleted is dead, although a row of that
name may be created again with revision 1. The profile's save (the two-step `ReadProfile`, `SaveProfile`) keeps the invariant but not the property.

Two statements changed when their proofs failed. `MigratedInstallsResolve` had been false beyond its instance: a `/review` layout of
a former release one of whose prompts is missing or disabled when the migration runs is left as it is and never looked at again, so it binds the
retired prompt for good; the property now excepts the targets in `skipped`, a history variable. `WorkIsKept` counted only
commits; what a run left unpushed includes a worktree with uncommitted edits.

**Assumptions.** Of the constants only what the modules name: bounds are natural numbers, sets of parts and of processes are what their
modules say, the absent row and the empty page are no rows and no pages (`AbsentAssumption`, `NoViewAssumption`), and operators write
assets that exist in the model (`EditableAssumption`). TLC evaluates each of them in a run.

**Only model-checked**: all liveness (`EventuallySettled`, `DeadDoNotBlock`, `InboundSettles`,
`CloseCompletes`, `DueIsHandled`, `NeverSpins`, `FinalizedAtLast`, `RunsEnd`), which is out of the prover's reach under fairness, and with it the liveness
part of what `Delivery` promises. Every invariant and every action property of the passing runs has a theorem that covers the
instance the run checks.

## 5. Findings

Each is a run whose property TLC violates, on a behaviour of the code alone.

1. `lock_reclaim` (bug): removing a dead gate removes whatever gate is there by then, also a live one.
2. `conversation_spin` (bug, documentation contradicted): a run that was stopped after its review was saved and before it was published is a
   review to recover for every later worker (`review-lifecycle.ts:39-41`; the comment above it, 33-36, closes only runs whose
   publication is durable, which this one's is not). Each worker finds the notice already published, returns `closeout_published`, and
   `run-pr.ts:35` takes that as a reason to loop. No mention is handled any more and the worker never rests, against
   `README.en.md:242` ("A later mention starts a new local session.") and 244 ("another close retries cleanup without recreating
   deleted resources"): the close is not handled either.

Further behaviours were met while modelling, are behaviours of the models, and have no run of their own:

- The lease marker that protects a POST in flight from cancellation is overwritten by a second attempt's transport
  error (`communication-store.ts:291` against 319-321).
- A mention dispatched while a close disposes of its artifacts, newer than the high-water mark, is deleted with the inbox
  (`close.ts:261`; `test/close.test.ts:180` is about a mention that arrives later).
- A mention that waits behind a run whose review cannot be published at once has no worker afterwards (`dispatch.ts:25`,
  `run-pr.ts:35`).
- An `/approval` written before the plan's publication is confirmed is rejected, and the rejection sets the plan to published
  without a receipt (`approval-plan-execution.ts:176`; `communication-finalization.ts:170-172`), so that no later approval can be
  accepted. The same reset publishes a stale or superseded plan again, which the later checks make harmless.
- A branch that is forced back between the last look and the push gets the approved commit all the same, with what was taken
  away (`writeback.ts:123-124`; see `ApprovalPlan` and, for tasks without a plan, `TaskRun`).
- A rejected `/approval` is never retired (`pull-request.ts:242`): its worker loops through runs that each post a rejection.
- A worker that dies after a revision's immutable file and before the pointer (`approval-plans.ts:364`) leaves a file that
  blocks all later plans until a close.
- Those of runs, the control plane and the runtime are listed with their modules in section 2.

## 6. Not modelled, and the plan

### Not modelled

- **Legacy conflict proposals**: the predecessor of the approval plans, kept to finish what an older version had begun. Its
  protocol is the one `ApprovalPlan` models, in an older file format.
- **Plans of `/review`**, whose publication recovers separately.
- **SCM adapters, HTTP server, login, admin pages, models, observability**: requests, parsing, authentication and
  formatting without state that outlasts a call. They occur in the models as the environment: the remote service that accepts,
  refuses or loses a request, the webhook that delivers a comment twice, the page that sends back a revision.
- **Git, SQLite and the file system** are external: a statement, a rename, a `mkdir` are atomic.
- Of the modules that are there: what section 2 names for each. Of `FileLock`: re-entrant acquisition; PIDs that are reused. Of `Runtime`:
  the restore's verification. Of `ControlPlane`: renames, `/ci`, custom assets and commands, SCM connections, snapshots.

### Plan

In the order of what it adds:

1. Proofs that the modules fit together: the pump of `Scheduler` as the environment `Outbox` and `Conversation` assume, the runtime lock of
   `Runtime` as what `FileLock` promises.
2. `ApprovalPlan`: fairness for the worker and the server, and what must eventually happen to an approval: it is accepted or
   retired, a claim ends, a command that plans is answered. The behaviours of section 5 are its counterexamples. Then
   the plans of `/review` and the legacy proposals, with the same properties.
3. Composition: the close of `Conversation` over the rows of `Outbox`.
4. The rest of the control plane: renames, SCM connections, the deletion of models and providers, the validation of snapshots.
5. The restore's verification; the recovery of a killed restore by its operator.
