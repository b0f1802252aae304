---------------------------- MODULE TaskRunProofs ----------------------------
(***************************************************************************)
(* What a pause, a worktree, a /stop and the branch may rely on, for any   *)
(* number of runs, commits, moves of people and crashes.                   *)
(*                                                                         *)
(* PauseIsReal and TreesOwned speak of the time between runs.  The         *)
(* invariant says what holds during one: a pause that may be continued is  *)
(* whole although a run is under way (Retains), because the run is a       *)
(* discussion of it, which never writes, or has no worktree yet; and every *)
(* worktree has an owner, the run included (Owned).  A /stop that was      *)
(* saved before the answer is still in the inbox or already noticed, until *)
(* the run ends with it (Stopping).                                        *)
(*                                                                         *)
(* WorkIsKept has an invariant of its own, Work: the only end that pauses  *)
(* a run and keeps nothing is the refusal of a fork, where there is        *)
(* nothing to keep.                                                        *)
(***************************************************************************)
EXTENDS TaskRun, TLAPS

TreeRecords == [at : Nat, dirty : BOOLEAN, merge : BOOLEAN, first : Nat, main : Nat]
CommitRecords == [parent : Nat, base : Nat]
Phases == {"other", "ci"}
Statuses == Resumable \cup
    {"none", "completed", "harness_failed", "model_output_truncated", "provider_unavailable",
     "conversation_completed", "publication_interrupted"}
Pauses == [status : Resumable \cup {"none", "claimed", "completed", "stale"},
           tree : 0 .. MaxRuns, task : AllTasks, remote : Nat, local : Nat, base : Nat,
           phase : Phases, write : BOOLEAN]
Runs == [id : 0 .. MaxRuns, place : Places, task : AllTasks, write : BOOLEAN, first : Nat,
         target : Nat, main : Nat, ws : 0 .. MaxRuns, created : BOOLEAN, resumed : BOOLEAN,
         head : Nat, previous : Nat, confirmed : Nat, phase : Phases, attempts : Nat,
         wrote : {"none", "no", "yes"}, tries : Nat, aborted : BOOLEAN, status : Statuses,
         keep : BOOLEAN, result : BOOLEAN, late : BOOLEAN]

Typed ==
    /\ remote \in [head : Nat, base : Nat, open : BOOLEAN, fork : BOOLEAN]
    /\ commits \in Seq(CommitRecords)
    /\ trees \in [1 .. MaxRuns -> TreeRecords]
    /\ paused \in Pauses
    /\ run \in Runs
    /\ asked \in BOOLEAN
    /\ abandoned \subseteq 0 .. MaxRuns
    /\ moves \in Nat /\ crashes \in Nat

\* Commits are numbered in their order, and nothing names one that does not exist.
Numbered ==
    /\ remote.head \in Commits
    /\ remote.base \in 1 .. 1 + moves /\ moves <= MaxMoves
    /\ \A c \in Commits : commits[c].parent \in 0 .. c - 1
    /\ \A t \in 1 .. MaxRuns : trees[t].at \in 0 .. Len(commits)
    /\ run.first \in 0 .. Len(commits) /\ run.head \in 0 .. Len(commits)
    /\ run.confirmed \in 0 .. Len(commits)
    /\ run.place # "idle" => run.first # 0

\* Counted repairs; the retained candidate is the first of them.
Early == {"enter", "fetch", "prepare", "created", "ready"}
Counted ==
    /\ run.attempts <= RepairBudget
    /\ run.place \in Early => run.wrote = "none"
    /\ run.place \in Early \cup {"decide"} /\ run.wrote = "none" => run.attempts = 0

\* The run has a worktree when it needs one.
Without == {"idle", "enter", "fetch", "prepare"}
Using == {"decide", "turn", "final", "answered", "commit", "check", "push", "confirm"}
Placed ==
    /\ run.place \in Without => run.ws = 0 /\ ~ run.created
    /\ run.place = "created" => run.ws = 0 /\ run.created
    /\ run.place # "idle" => run.id # 0
    /\ run.ws <= run.id
    /\ run.created => run.id # 0 /\ Exists(run.id) /\ run.ws \in {0, run.id}
    /\ run.place \in Places \ (Without \cup {"created", "finish", "dispose"}) => run.ws # 0
    /\ run.ws # 0 /\ run.task # "conversation" => Exists(run.ws)
    /\ run.place \in Using => Exists(run.ws)
    /\ run.keep => run.ws # 0 /\ run.task # "conversation"
    /\ run.place = "finish" /\ run.keep => run.status \in Resumable
    /\ run.task = "conversation" => ~ run.write
    /\ run.place = "commit" => run.write

\* A pause that may be continued is whole, and only a discussion of it has its worktree.
Pausing == paused.status \in Resumable
Retains ==
    /\ Pausing => paused.tree # 0 /\ Exists(paused.tree) /\ trees[paused.tree].at = paused.local
    /\ Pausing => paused.task # "conversation"
    /\ paused.status = "claimed" => paused.tree # 0
    /\ paused.task = "conversation" => ~ paused.write
    /\ paused.tree <= run.id
    /\ run.place \notin {"idle", "dispose"} => paused.tree < run.id
    /\ run.place = "dispose" /\ run.ws = 0 => paused.tree < run.id
    /\ run.place \in {"fetch", "prepare"} /\ Pausing => run.task \in {"conversation", paused.task}
    /\ run.place # "dispose" /\ Pausing =>
         ~ run.created /\ (run.ws # 0 => run.task = "conversation")

Owned ==
    \A t \in 1 .. MaxRuns :
        Exists(t) => HeldTree(t) \/ t \in abandoned \/ t = run.ws \/ (run.created /\ t = run.id)

\* What a stop saved in time still prevents.
Stopping ==
    run.late =>
        /\ run.place \in {"answered", "decide", "commit", "post", "deliver", "finish", "dispose"}
        /\ run.place \notin {"finish", "dispose"} => Halting

Inv == Typed /\ Numbered /\ Counted /\ Placed /\ Retains /\ Owned /\ Stopping
-----------------------------------------------------------------------------
(* What a step makes of the run.                                           *)

\* The fields that say what the run is about, and those that count for it.
Carries ==
    /\ run'.id = run.id /\ run'.task = run.task /\ run'.write = run.write
    /\ run'.ws = run.ws /\ run'.created = run.created /\ run'.first = run.first
Measures ==
    /\ run'.head = run.head /\ run'.confirmed = run.confirmed
    /\ run'.attempts = run.attempts /\ run'.wrote = run.wrote
Signals == run'.late = run.late /\ run'.aborted = run.aborted /\ run'.keep = run.keep
Alone == UNCHANGED <<world, commits, trees, paused, asked, abandoned>>

\* The run has come to its end.
Ended ==
    /\ run' \in Runs /\ run'.place = "finish"
    /\ Carries /\ Measures
    /\ run'.keep => run.ws # 0 /\ run.task # "conversation" /\ run'.status \in Resumable

\* The names that steps write are places, statuses and tasks.
LEMMA Names ==
    /\ {"idle", "enter", "fetch", "prepare", "created", "ready", "decide", "turn", "final",
        "answered", "commit", "check", "push", "confirm", "deliver", "send", "sent", "post",
        "review", "finish", "dispose"} \subseteq Places
    /\ {"stopped", "needs_human", "budget_exhausted", "harness_failed", "model_output_truncated",
        "provider_unavailable", "conversation_completed", "completed", "none",
        "publication_interrupted"} \subseteq Statuses
    /\ "other" \in Phases /\ "ci" \in Phases /\ "conversation" \in AllTasks
  BY DEF Places, Statuses, Resumable, Phases, AllTasks

LEMMA Bounds ==
    /\ MaxRuns \in Nat /\ MaxMoves \in Nat /\ RepairBudget \in Nat /\ RepairBudget >= 1
    /\ Tasks \subseteq AllTasks
  BY TaskRunAssumption

LEMMA GoTypes ==
    ASSUME run \in Runs, NEW place \in Places, Go(place)
    PROVE  run' \in Runs /\ run'.place = place /\ Carries /\ Measures /\ Signals
  BY DEF Go, Runs, Carries, Measures, Signals

\* However a run ends, it keeps a worktree only when it has one and a task to continue.
LEMMA EndTypes ==
    ASSUME run \in Runs, NEW status \in Statuses, End(status)
    PROVE  Ended
  BY Names DEF End, Keeps, Runs, Ended, Carries, Measures, Resumable

LEMMA StopTypes ==
    ASSUME run \in Runs, StopRun
    PROVE  Ended
  BY Names DEF StopRun, Runs, Ended, Carries, Measures, Resumable

LEMMA ThrowTypes ==
    ASSUME run \in Runs, NEW status \in Statuses, Throw(status)
    PROVE  Ended
  BY EndTypes, StopTypes DEF Throw

LEMMA UnfinishedTypes ==
    ASSUME run \in Runs, NEW status \in {"needs_human", "budget_exhausted"}, Unfinished(status)
    PROVE  Ended
  BY Names DEF Unfinished, Keeps, Runs, Ended, Carries, Measures, Resumable

-----------------------------------------------------------------------------
(* Steps that change nothing but the run.                                  *)

\* While the world and the files stay as they are, a run that carries its worktree on
\* leaves pauses and owners what they were.
LEMMA Steady ==
    ASSUME Inv, Alone, run' \in Runs, Carries, run.place \notin {"idle", "dispose"},
           run'.place # "idle",
           run'.place \in {"fetch", "prepare"} /\ Pausing => run.task \in {"conversation", paused.task},
           run'.head \in 0 .. Len(commits), run'.confirmed \in 0 .. Len(commits)
    PROVE  Typed' /\ Numbered' /\ Retains' /\ Owned'
<1> USE DEF Alone, world
<1>1. Typed'
  BY DEF Inv, Typed
<1>2. Numbered'
  BY DEF Inv, Numbered, Commits, Carries
<1>3. Retains'
  BY DEF Inv, Retains, Pausing, Exists, Carries
<1>4. Owned'
  BY DEF Inv, Owned, Exists, HeldTree, Carries
<1> QED BY <1>1, <1>2, <1>3, <1>4

\* The end of a run.
LEMMA EndInv ==
    ASSUME Inv, Alone, Ended, run.place \notin {"idle", "dispose"}
    PROVE  Inv'
<1>1. Typed' /\ Numbered' /\ Retains' /\ Owned'
  BY Steady DEF Ended, Inv, Numbered, Measures
<1>2. Counted'
  BY DEF Inv, Counted, Ended, Measures, Early
<1>3. Placed'
  BY DEF Inv, Placed, Ended, Carries, Without, Using, Alone, Exists
<1>4. Stopping'
  BY DEF Stopping, Ended
<1> QED BY <1>1, <1>2, <1>3, <1>4 DEF Inv

\* The run goes on to a place where it has a worktree.
Later == {"decide", "final", "commit", "check", "push", "confirm", "deliver", "send", "sent",
          "post", "review"}
LEMMA GoInv ==
    ASSUME Inv, Alone, NEW place \in Later, Go(place),
           run.place \notin {"idle", "finish", "dispose"}, run.ws # 0,
           place \in Using => Exists(run.ws),
           place = "commit" => run.write,
           place = "decide" /\ run.wrote = "none" => run.attempts = 0,
           run.late => place \in {"decide", "commit", "post", "deliver"} /\ Halting
    PROVE  Inv'
<1>1. run' \in Runs /\ run'.place = place /\ Carries /\ Measures /\ Signals
  BY GoTypes, Names DEF Inv, Typed, Later
<1>2. Typed' /\ Numbered' /\ Retains' /\ Owned'
  BY <1>1, Steady DEF Later, Inv, Numbered, Measures
<1>3. Counted'
  BY <1>1 DEF Inv, Counted, Measures, Early, Later
<1>4. Placed'
  BY <1>1 DEF Inv, Placed, Carries, Signals, Without, Later, Alone, Exists
<1>5. Stopping'
  BY <1>1 DEF Stopping, Signals, Alone, Halting
<1> QED BY <1>2, <1>3, <1>4, <1>5 DEF Inv

LEMMA EnterInv == Inv /\ Enter => Inv'
<1> SUFFICES ASSUME Inv, Enter PROVE Inv'
  OBVIOUS
<1>1. run \in Runs /\ Alone /\ run.place = "enter"
  BY DEF Inv, Typed, Alone, Enter, At
<1>2. CASE StopRun \/ End("stopped") \/ End("needs_human")
  BY <1>1, <1>2, Names, EndTypes, StopTypes, EndInv
<1>3. CASE Go("fetch") /\ (Pausing => run.task \in {"conversation", paused.task})
  <2>1. run' \in Runs /\ run'.place = "fetch" /\ Carries /\ Measures /\ Signals
    BY <1>1, <1>3, GoTypes, Names
  <2>2. Typed' /\ Numbered' /\ Retains' /\ Owned'
    BY <1>1, <1>3, <2>1, Steady DEF Inv, Numbered, Measures
  <2>3. Counted'
    BY <1>1, <2>1 DEF Inv, Counted, Measures, Early
  <2>4. Placed'
    BY <1>1, <2>1 DEF Inv, Placed, Carries, Signals, Without, Using, Alone, Exists
  <2>5. Stopping'
    BY <1>1, <2>1 DEF Inv, Stopping, Signals
  <2> QED BY <2>2, <2>3, <2>4, <2>5 DEF Inv
<1> QED BY <1>2, <1>3 DEF Enter, Guarded, Discussing, Pausing

LEMMA FetchInv == Inv /\ Fetch => Inv'
<1> SUFFICES ASSUME Inv, Fetch PROVE Inv'
  OBVIOUS
<1>1. run \in Runs /\ Alone /\ run.place = "fetch"
  BY DEF Inv, Typed, Alone, Fetch, At
<1>2. run' \in Runs /\ run'.place = "prepare" /\ Carries /\ Measures /\ Signals
  BY <1>1, Names DEF Fetch, Runs, Carries, Measures, Signals, Inv, Typed
<1>3. Typed' /\ Numbered' /\ Retains' /\ Owned'
  BY <1>1, <1>2, Steady DEF Inv, Retains, Numbered, Measures
<1>4. Counted'
  BY <1>1, <1>2 DEF Inv, Counted, Measures, Early
<1>5. Placed'
  BY <1>1, <1>2 DEF Inv, Placed, Carries, Signals, Without, Using, Alone, Exists
<1>6. Stopping'
  BY <1>1, <1>2 DEF Inv, Stopping, Signals
<1> QED BY <1>3, <1>4, <1>5, <1>6 DEF Inv

\* The steps that only end the run.
LEMMA SnapshotLostInv == Inv /\ SnapshotLost => Inv'
<1> SUFFICES ASSUME Inv, SnapshotLost PROVE Inv'
  OBVIOUS
<1>1. run \in Runs /\ Alone /\ run.place = "prepare" /\ End("needs_human")
  BY DEF Inv, Typed, Alone, SnapshotLost, At
<1> QED BY <1>1, Names, EndTypes, EndInv

LEMMA FailsInv == Inv /\ Fails => Inv'
<1> SUFFICES ASSUME Inv, Fails PROVE Inv'
  OBVIOUS
<1>1. run \in Runs /\ Alone /\ run.place \notin {"idle", "dispose"} /\ Throw("harness_failed")
  BY DEF Inv, Typed, Alone, Fails
<1> QED BY <1>1, Names, ThrowTypes, EndInv

LEMMA ReadyInv == Inv /\ Ready => Inv'
<1> SUFFICES ASSUME Inv, Ready PROVE Inv'
  OBVIOUS
<1>1. run \in Runs /\ Alone /\ run.place = "ready"
  BY DEF Inv, Typed, Alone, Ready, At
<1>2. CASE StopRun \/ End("needs_human") \/ Throw("harness_failed")
  BY <1>1, <1>2, Names, EndTypes, StopTypes, ThrowTypes, EndInv
<1>3. run.ws # 0 /\ ~ run.late /\ run.attempts = 0
  BY <1>1, Names DEF Inv, Placed, Stopping, Counted, Early, Without
<1>4. CASE Go("deliver")
  BY <1>1, <1>3, <1>4, GoInv DEF Later, Using
<1>5. CASE Go("decide") /\ Exists(run.ws)
  BY <1>1, <1>3, <1>5, GoInv DEF Later
<1> QED BY <1>2, <1>4, <1>5 DEF Ready, Guarded

\* A new turn: a late stop is noticed by the guard, and a counted one is within the budget.
LEMMA StartTurnInv ==
    ASSUME Inv, Alone, run.place = "decide", NEW counts \in BOOLEAN, StartTurn(counts),
           counts => run.attempts < RepairBudget
    PROVE  Inv'
<1>1. run \in Runs /\ Exists(run.ws) /\ run.ws # 0
  BY Names DEF Inv, Typed, Placed, Using, Without
<1>2. CASE Halting
  BY <1>1, <1>2, StopTypes, EndInv DEF StartTurn, Guarded
<1>3. CASE ~ Halting
  <2>1. run' = [run EXCEPT !.place = "turn", !.phase = "other", !.tries = 0,
                  !.attempts = IF counts THEN @ + 1 ELSE @]
    BY <1>3 DEF StartTurn, Guarded
  <2>2. run' \in Runs /\ run'.place = "turn" /\ Carries /\ Signals
    <3>1. (IF counts THEN run.attempts + 1 ELSE run.attempts) \in Nat
      BY <1>1 DEF Runs
    <3> QED BY <1>1, <2>1, <3>1, Names DEF Runs, Carries, Signals
  <2>3. /\ run'.attempts = IF counts THEN run.attempts + 1 ELSE run.attempts
        /\ run'.head = run.head /\ run'.confirmed = run.confirmed
    BY <1>1, <2>1 DEF Runs
  <2>4. Typed' /\ Numbered' /\ Retains' /\ Owned'
    BY <2>2, <2>3, Steady DEF Inv, Numbered
  <2>5. Counted'
    <3>1. run.attempts \in Nat /\ RepairBudget \in Nat
      BY <1>1, Bounds DEF Runs
    <3> QED BY <2>2, <2>3, <3>1 DEF Inv, Counted, Early
  <2>6. Placed'
    BY <1>1, <2>2 DEF Inv, Placed, Carries, Signals, Without, Alone, Exists
  <2>7. Stopping'
    BY <1>3, <2>2 DEF Inv, Stopping, Signals
  <2> QED BY <2>4, <2>5, <2>6, <2>7 DEF Inv
<1> QED BY <1>2, <1>3

LEMMA DecideOtherInv == Inv /\ DecideOther => Inv'
<1> SUFFICES ASSUME Inv, DecideOther PROVE Inv'
  OBVIOUS
<1>1. Alone /\ run.place = "decide" /\ run.ws # 0
  BY Names DEF Alone, DecideOther, At, Inv, Placed, Without
<1>2. CASE StartTurn(FALSE)
  BY <1>1, <1>2, StartTurnInv
<1>3. CASE Go("deliver")
  BY <1>1, <1>3, GoInv DEF Later, Using, Inv, Stopping
<1> QED BY <1>2, <1>3 DEF DecideOther

\* CI is waited for, repaired within the budget, or left to a person.
LEMMA DecideCiInv == Inv /\ DecideCi => Inv'
<1> SUFFICES ASSUME Inv, DecideCi PROVE Inv'
  OBVIOUS
<1>1. Alone /\ run.place = "decide" /\ run.ws # 0 /\ run \in Runs /\ run.task = "ci"
      /\ Exists(run.ws)
  BY Names DEF Alone, DecideCi, At, Inv, Placed, Without, Using, Typed
<1>2. CASE StopRun \/ End("needs_human") \/ Throw("harness_failed")
  BY <1>1, <1>2, Names, EndTypes, StopTypes, ThrowTypes, EndInv
<1>3. CASE FirstResumed /\ StartTurn(TRUE)
  <2>1. run.attempts < RepairBudget
    BY <1>1, <1>3, Bounds DEF FirstResumed, Inv, Counted
  <2> QED BY <1>1, <1>3, <2>1, StartTurnInv
<1>4. CASE ~ (run.write /\ Spent) /\ StartTurn(run.write)
  <2>1. run.write => run.attempts < RepairBudget
    BY <1>1, <1>4, Bounds DEF Spent, Runs
  <2>2. run.write \in BOOLEAN
    BY <1>1 DEF Runs
  <2> QED BY <1>1, <1>4, <2>1, <2>2, StartTurnInv
<1>5. CASE run' = [run EXCEPT !.place = "deliver", !.phase = "ci"] /\ ~ Halting
  <2>1. run' \in Runs /\ run'.place = "deliver" /\ Carries /\ Measures /\ Signals
    BY <1>1, <1>5, Names DEF Runs, Carries, Measures, Signals
  <2>2. Typed' /\ Numbered' /\ Retains' /\ Owned'
    BY <1>1, <2>1, Steady DEF Inv, Numbered, Measures
  <2>3. Counted'
    BY <2>1 DEF Inv, Counted, Measures, Early
  <2>4. Placed'
    BY <1>1, <2>1 DEF Inv, Placed, Carries, Signals, Without, Using, Alone, Exists
  <2>5. Stopping'
    BY <1>1, <1>5, <2>1 DEF Inv, Stopping, Signals
  <2> QED BY <2>2, <2>3, <2>4, <2>5 DEF Inv
<1>6. CASE run' = [run EXCEPT !.place = "finish", !.phase = "ci", !.status = "needs_human",
                     !.keep = TRUE]
  <2>1. Ended
    BY <1>1, <1>6, Names DEF Runs, Ended, Carries, Measures, Resumable
  <2> QED BY <1>1, <2>1, EndInv
<1> QED BY <1>1, <1>2, <1>3, <1>4, <1>5, <1>6 DEF DecideCi

LEMMA TurnEndsInv == Inv /\ TurnEnds => Inv'
<1> SUFFICES ASSUME Inv, TurnEnds PROVE Inv'
  OBVIOUS
<1>1. Alone /\ run.place \in {"turn", "final"} /\ run \in Runs
  BY DEF Alone, TurnEnds, At, Inv, Typed
<1>2. Exists(run.ws) /\ run.ws # 0 /\ ~ run.late
  BY <1>1, Names DEF Inv, Placed, Without, Using, Stopping
<1>3. CASE Interrupted \/ Exhausted \/ Unfinished("needs_human")
  BY <1>1, <1>3, Names, StopTypes, UnfinishedTypes, EndInv DEF Interrupted, Exhausted
<1>4. CASE \E status \in {"model_output_truncated", "harness_failed", "provider_unavailable"} :
             End(status)
  BY <1>1, <1>4, Names, EndTypes, EndInv
<1>5. CASE Completed
  <2>1. run' \in Runs /\ run'.place = "answered" /\ Carries /\ Measures /\ run'.late = asked
        /\ run'.keep = run.keep
    BY <1>1, <1>5, Names DEF Completed, Runs, Carries, Measures, Inv, Typed
  <2>2. Typed' /\ Numbered' /\ Retains' /\ Owned'
    BY <1>1, <2>1, Steady DEF Inv, Numbered, Measures
  <2>3. Counted'
    BY <2>1 DEF Inv, Counted, Measures, Early
  <2>4. Placed'
    BY <1>1, <1>2, <2>1 DEF Inv, Placed, Carries, Without, Alone, Exists
  <2>5. Stopping'
    BY <1>1, <2>1 DEF Stopping, Alone, Halting
  <2> QED BY <2>2, <2>3, <2>4, <2>5 DEF Inv
<1>6. CASE FinalAnswer
  BY <1>1, <1>2, <1>6, GoInv DEF Later, FinalAnswer
<1>7. CASE Retried
  <2>1. run' \in Runs /\ run'.place = run.place /\ Carries /\ Measures /\ Signals
    BY <1>1, <1>7 DEF Retried, Runs, Carries, Measures, Signals
  <2>2. Typed' /\ Numbered' /\ Retains' /\ Owned'
    BY <1>1, <2>1, Steady DEF Inv, Numbered, Measures
  <2>3. Counted'
    BY <2>1 DEF Inv, Counted, Measures
  <2>4. Placed'
    BY <1>1, <2>1 DEF Inv, Placed, Carries, Signals, Alone, Exists
  <2>5. Stopping'
    BY <1>2, <2>1 DEF Stopping, Signals
  <2> QED BY <2>2, <2>3, <2>4, <2>5 DEF Inv
<1> QED BY <1>3, <1>4, <1>5, <1>6, <1>7 DEF TurnEnds

LEMMA AnsweredInv == Inv /\ Answered => Inv'
<1> SUFFICES ASSUME Inv, Answered PROVE Inv'
  OBVIOUS
<1>1. Alone /\ run.place = "answered" /\ run \in Runs
  BY DEF Alone, Answered, At, Inv, Typed
<1>2. Exists(run.ws) /\ run.ws # 0 /\ (run.late => Halting)
  BY <1>1, Names DEF Inv, Placed, Without, Using, Stopping
<1>3. CASE StopRun \/ End("conversation_completed")
  BY <1>1, <1>3, Names, StopTypes, EndTypes, EndInv
<1>4. CASE Go("post") \/ Go("deliver")
  BY <1>1, <1>2, <1>4, GoInv DEF Later, Using
<1>5. CASE Go("commit") /\ WritesBack
  BY <1>1, <1>2, <1>5, GoInv DEF Later, WritesBack
<1>6. CASE run' = [run EXCEPT !.place = "decide", !.wrote = "no"]
  <2>1. /\ run' \in Runs /\ run'.place = "decide" /\ Carries /\ Signals /\ run'.wrote = "no"
        /\ run'.head = run.head /\ run'.confirmed = run.confirmed /\ run'.attempts = run.attempts
    BY <1>1, <1>6, Names DEF Runs, Carries, Signals
  <2>2. Typed' /\ Numbered' /\ Retains' /\ Owned'
    BY <1>1, <2>1, Steady DEF Inv, Numbered
  <2>3. Counted'
    BY <2>1 DEF Inv, Counted, Early
  <2>4. Placed'
    BY <1>1, <1>2, <2>1 DEF Inv, Placed, Carries, Signals, Without, Alone, Exists
  <2>5. Stopping'
    BY <1>1, <1>2, <2>1 DEF Stopping, Signals, Alone, Halting
  <2> QED BY <2>2, <2>3, <2>4, <2>5 DEF Inv
<1> QED
  BY <1>1, <1>3, <1>4, <1>5, <1>6
  DEF Answered, ConversationAnswered, ReviewAnswered, ConflictAnswered, DriverAnswered, Guarded,
      WritesBack

LEMMA CheckInv == Inv /\ Check => Inv'
<1> SUFFICES ASSUME Inv, Check PROVE Inv'
  OBVIOUS
<1>1. Alone /\ run.place = "check" /\ run \in Runs
  BY DEF Alone, Check, At, Inv, Typed
<1>2. Exists(run.ws) /\ run.ws # 0 /\ ~ run.late
  BY <1>1, Names DEF Inv, Placed, Without, Using, Stopping
<1>3. CASE StopRun \/ Throw("harness_failed")
  BY <1>1, <1>3, Names, StopTypes, ThrowTypes, EndInv
<1>4. CASE Go("push")
  BY <1>1, <1>2, <1>4, GoInv DEF Later
<1> QED BY <1>3, <1>4 DEF Check, Guarded

LEMMA ConfirmInv == Inv /\ Confirm => Inv'
<1> SUFFICES ASSUME Inv, Confirm PROVE Inv'
  OBVIOUS
<1>1. Alone /\ run.place = "confirm" /\ run \in Runs
  BY DEF Alone, Confirm, At, Inv, Typed
<1>2. Exists(run.ws) /\ run.ws # 0 /\ ~ run.late
  BY <1>1, Names DEF Inv, Placed, Without, Using, Stopping
<1>3. CASE Throw("harness_failed")
  BY <1>1, <1>3, Names, ThrowTypes, EndInv
<1>4. ASSUME NEW place \in {"deliver", "post", "decide"},
             run' = [run EXCEPT !.confirmed = run.head, !.wrote = "yes", !.place = place]
      PROVE  Inv'
  <2>1. /\ run' \in Runs /\ run'.place = place /\ Carries /\ Signals /\ run'.wrote = "yes"
        /\ run'.head = run.head /\ run'.confirmed = run.head /\ run'.attempts = run.attempts
    BY <1>1, <1>4, Names DEF Runs, Carries, Signals
  <2>2. Typed' /\ Numbered' /\ Retains' /\ Owned'
    BY <1>1, <2>1, Steady DEF Inv, Numbered
  <2>3. Counted'
    BY <2>1 DEF Inv, Counted, Early
  <2>4. Placed'
    BY <1>1, <1>2, <2>1 DEF Inv, Placed, Carries, Signals, Without, Alone, Exists
  <2>5. Stopping'
    BY <1>2, <2>1 DEF Stopping, Signals
  <2> QED BY <2>2, <2>3, <2>4, <2>5 DEF Inv
<1>5. CASE ~ Throw("harness_failed")
  <2> DEFINE place == CASE run.task = "conflict" -> "deliver" [] run.task = "review" -> "post"
                        [] OTHER -> "decide"
  <2>1. place \in {"deliver", "post", "decide"}
    OBVIOUS
  <2>2. run' = [run EXCEPT !.confirmed = run.head, !.wrote = "yes", !.place = place]
    BY <1>5 DEF Confirm
  <2> QED BY <1>4, <2>1, <2>2
<1> QED BY <1>3, <1>5

LEMMA SendInv == Inv /\ (Send \/ Sent) => Inv'
<1> SUFFICES ASSUME Inv, Send \/ Sent PROVE Inv'
  OBVIOUS
<1>1. Alone /\ run.place \in {"send", "sent"} /\ run \in Runs
  BY DEF Alone, Send, Sent, At, Inv, Typed
<1>2. run.ws # 0 /\ ~ run.late
  BY <1>1, Names DEF Inv, Placed, Without, Stopping
<1>3. CASE StopRun \/ End("completed")
  BY <1>1, <1>3, Names, StopTypes, EndTypes, EndInv
<1>4. CASE Go("sent")
  BY <1>1, <1>2, <1>4, GoInv DEF Later, Using
<1> QED BY <1>3, <1>4 DEF Send, Sent, Guarded

\* The result of a review leads straight to the disposal.
LEMMA PublishReviewInv == Inv /\ PublishReview => Inv'
<1> SUFFICES ASSUME Inv, PublishReview PROVE Inv'
  OBVIOUS
<1>1. Alone /\ run.place = "review" /\ run \in Runs
  BY DEF Alone, PublishReview, At, Inv, Typed
<1>2. run.ws # 0 /\ ~ run.late
  BY <1>1, Names DEF Inv, Placed, Without, Stopping
<1>3. CASE StopRun
  BY <1>1, <1>3, StopTypes, EndInv
<1>4. ASSUME NEW status \in {"completed", "publication_interrupted"}, NEW saved \in BOOLEAN,
             run' = [run EXCEPT !.place = "dispose", !.status = status, !.result = saved]
      PROVE  Inv'
  <2>1. run' \in Runs /\ run'.place = "dispose" /\ Carries /\ Measures /\ Signals
    BY <1>1, <1>4, Names DEF Runs, Carries, Measures, Signals
  <2>2. Typed' /\ Numbered' /\ Retains' /\ Owned'
    BY <1>1, <2>1, Steady DEF Inv, Numbered, Measures
  <2>3. Counted'
    BY <2>1 DEF Inv, Counted, Measures, Early
  <2>4. Placed'
    BY <1>1, <1>2, <2>1 DEF Inv, Placed, Carries, Signals, Without, Using, Alone, Exists
  <2>5. Stopping'
    BY <1>2, <2>1 DEF Stopping, Signals
  <2> QED BY <2>2, <2>3, <2>4, <2>5 DEF Inv
<1> QED BY <1>3, <1>4 DEF PublishReview, Guarded

LEMMA WatchStopInv == Inv /\ WatchStop => Inv'
<1> SUFFICES ASSUME Inv, WatchStop PROVE Inv'
  OBVIOUS
<1>1. Alone /\ run.place # "idle" /\ run \in Runs /\ run' = [run EXCEPT !.aborted = TRUE]
  BY DEF Alone, WatchStop, At, Inv, Typed
<1>2. /\ run' \in Runs /\ run'.place = run.place /\ Carries /\ Measures
      /\ run'.late = run.late /\ run'.keep = run.keep /\ run'.aborted /\ run'.status = run.status
  BY <1>1 DEF Runs, Carries, Measures
<1>3. Typed' /\ Numbered' /\ Counted'
  BY <1>1, <1>2 DEF Inv, Typed, Numbered, Counted, Commits, Carries, Measures, Alone, world
<1>4. Placed'
  BY <1>1, <1>2 DEF Inv, Placed, Carries, Alone, Exists
<1>5. Retains'
  BY <1>1, <1>2 DEF Inv, Retains, Pausing, Exists, Carries, Alone
<1>6. Owned'
  BY <1>1, <1>2 DEF Inv, Owned, Exists, HeldTree, Carries, Alone
<1>7. Stopping'
  BY <1>1, <1>2 DEF Inv, Stopping, Halting
<1> QED BY <1>3, <1>4, <1>5, <1>6, <1>7 DEF Inv

-----------------------------------------------------------------------------
(* Steps that write worktrees and commits.                                 *)

LEMMA Appended ==
    ASSUME commits \in Seq(CommitRecords), NEW c \in CommitRecords, commits' = Append(commits, c)
    PROVE  /\ commits' \in Seq(CommitRecords)
           /\ Len(commits) \in Nat /\ Len(commits') = Len(commits) + 1
           /\ \A i \in 1 .. Len(commits) : commits'[i] = commits[i]
           /\ commits'[Len(commits) + 1] = c
  OBVIOUS

LEMMA RunNumbers ==
    ASSUME run \in Runs
    PROVE  run.ws \in 0 .. MaxRuns /\ run.id \in 0 .. MaxRuns
  BY DEF Runs

\* A worktree is written, with commits that there are.
Writes(tree) ==
    /\ trees' = [trees EXCEPT ![run.ws] = tree]
    /\ tree.at # 0 /\ tree.at \in 0 .. Len(commits')
    /\ commits' \in Seq(CommitRecords) /\ Len(commits') >= Len(commits)
    /\ Len(commits') \in Nat
    /\ \A c \in 1 .. Len(commits') : commits'[c].parent \in 0 .. c - 1

\* The commits of a worktree are those there are.
LEMMA Counters ==
    ASSUME Inv
    PROVE  /\ Len(commits) \in Nat
           /\ \A c \in Commits : commits[c] \in CommitRecords
           /\ \A t \in 1 .. MaxRuns : trees[t] \in TreeRecords
  BY DEF Inv, Typed, Commits

\* Only a run that may write, and so not a discussion of a pause, writes to a worktree.
LEMMA TreeStep ==
    ASSUME Inv, run' \in Runs, Carries, Signals, UNCHANGED <<paused, abandoned>>,
           run.place \in {"turn", "commit"}, run.write, run'.place \in {"turn", "check"},
           NEW tree \in TreeRecords, tree.at # 0, trees' = [trees EXCEPT ![run.ws] = tree]
    PROVE  trees' \in [1 .. MaxRuns -> TreeRecords] /\ Placed' /\ Retains' /\ Owned'
<1>1. run.ws # 0 /\ Exists(run.ws) /\ run.task # "conversation" /\ run.ws \in 1 .. MaxRuns
      /\ run.id \in 1 .. MaxRuns
  <2>1. run.ws \in 0 .. MaxRuns /\ run.id \in 0 .. MaxRuns
    BY RunNumbers DEF Inv, Typed
  <2>2. run.ws # 0 /\ Exists(run.ws) /\ run.task # "conversation" /\ run.id # 0
    BY Names DEF Inv, Placed, Without, Using
  <2> QED BY <2>1, <2>2, Bounds
<1>2. trees' \in [1 .. MaxRuns -> TreeRecords]
  BY DEF Inv, Typed
<1>3. \A t \in 1 .. MaxRuns : trees'[t].at # 0 <=> trees[t].at # 0
  BY <1>1 DEF Exists, Inv, Typed
<1>4. Placed'
  <2>1. trees'[run.id].at # 0 <=> trees[run.id].at # 0
    BY <1>1, <1>3
  <2>2. trees'[run.ws].at # 0
    BY <1>1, <1>3 DEF Exists
  <2> QED BY <1>1, <2>1, <2>2 DEF Inv, Placed, Carries, Signals, Without, Using, Exists
<1>5. Retains'
  <2>1. ~ Pausing
    BY <1>1 DEF Inv, Retains
  <2> QED BY <2>1 DEF Inv, Retains, Pausing, Carries
<1>6. Owned'
  BY <1>3 DEF Inv, Owned, HeldTree, Carries, Exists
<1> QED BY <1>2, <1>4, <1>5, <1>6

\* git commit: what was not committed, and a merge of the target branch.
LEMMA CommitStep ==
    ASSUME Inv, CommitTree, run.ws \in 1 .. MaxRuns, Exists(run.ws)
    PROVE  /\ commits' \in Seq(CommitRecords) /\ Len(commits') = Len(commits) + 1
           /\ \A c \in 1 .. Len(commits') : commits'[c].parent \in 0 .. c - 1
           /\ AfterCommit \in TreeRecords /\ AfterCommit.at = Len(commits')
<1> DEFINE c == [parent |-> Tree.at,
                 base |-> IF Tree.merge THEN Tree.main ELSE commits[Tree.at].base]
<1>1. Tree \in TreeRecords /\ Tree.at \in 1 .. Len(commits) /\ Len(commits) \in Nat
  BY Counters DEF Inv, Numbered, Tree, Exists
<1>2. c \in CommitRecords
  <2>1. commits[Tree.at] \in CommitRecords
    BY <1>1, Counters DEF Commits
  <2>2. Tree.main \in Nat /\ commits[Tree.at].base \in Nat /\ Tree.at \in Nat
    BY <1>1, <2>1 DEF TreeRecords, CommitRecords
  <2> QED BY <2>2 DEF CommitRecords
<1>3. commits' = Append(commits, c)
  BY DEF CommitTree
<1> HIDE DEF c
<1>4. /\ commits' \in Seq(CommitRecords) /\ Len(commits') = Len(commits) + 1
      /\ \A i \in 1 .. Len(commits) : commits'[i] = commits[i]
      /\ commits'[Len(commits) + 1] = c
  BY <1>2, <1>3, Appended DEF Inv, Typed
<1>5. c.parent = Tree.at
  BY DEF c
<1>6. \A i \in 1 .. Len(commits') : commits'[i].parent \in 0 .. i - 1
  <2> SUFFICES ASSUME NEW i \in 1 .. Len(commits') PROVE commits'[i].parent \in 0 .. i - 1
    OBVIOUS
  <2>1. CASE i \in 1 .. Len(commits)
    BY <1>4, <2>1 DEF Inv, Numbered, Commits
  <2>2. CASE i = Len(commits) + 1
    BY <1>1, <1>4, <1>5, <2>2
  <2> QED BY <1>1, <1>4, <2>1, <2>2
<1>7. AfterCommit \in TreeRecords /\ AfterCommit.at = Len(commits')
  <2>1. Len(commits) + 1 \in Nat
    BY <1>1
  <2> QED BY <1>1, <1>4, <2>1 DEF AfterCommit, TreeRecords
<1> QED BY <1>4, <1>6, <1>7

\* Whatever the Agent does to its worktree.
LEMMA AgentInv == Inv /\ Agent => Inv'
<1> SUFFICES ASSUME Inv, Agent PROVE Inv'
  OBVIOUS
<1>1. /\ run.place = "turn" /\ run.write /\ UNCHANGED <<world, paused, asked, run, abandoned>>
      /\ run \in Runs
  BY DEF Agent, Edit, Rewind, AgentCommits, Working, Works, At, Inv, Typed
<1>2. run.ws \in 1 .. MaxRuns /\ Exists(run.ws)
  BY <1>1, Names, Bounds DEF Inv, Placed, Without, Using, Runs
<1>3. Tree \in TreeRecords /\ Tree.at \in 1 .. Len(commits) /\ Len(commits) \in Nat
  BY <1>2, Counters DEF Inv, Numbered, Tree, Exists
<1>4. PICK tree \in TreeRecords : Writes(tree)
  <2>0. /\ commits \in Seq(CommitRecords)
        /\ \A c \in 1 .. Len(commits) : commits[c].parent \in 0 .. c - 1
    BY DEF Inv, Typed, Numbered, Commits
  <2>1. CASE Edit
    <3>1. [Tree EXCEPT !.dirty = TRUE] \in TreeRecords /\ [Tree EXCEPT !.dirty = TRUE].at = Tree.at
      BY <1>3 DEF TreeRecords
    <3>2. Writes([Tree EXCEPT !.dirty = TRUE])
      BY <1>3, <2>0, <2>1, <3>1 DEF Edit, Works, Writes
    <3> QED BY <3>1, <3>2
  <2>2. CASE Rewind
    <3> DEFINE parent == commits[Tree.at].parent
    <3>1. parent # 0 /\ parent \in 0 .. Tree.at - 1 /\ parent \in Nat
      BY <1>3, <2>0, <2>2 DEF Rewind
    <3>2. parent \in 0 .. Len(commits)
      BY <1>3, <3>1
    <3>3. [Tree EXCEPT !.at = parent] \in TreeRecords /\ [Tree EXCEPT !.at = parent].at = parent
      BY <1>3, <3>1 DEF TreeRecords
    <3>4. trees' = [trees EXCEPT ![run.ws] = [Tree EXCEPT !.at = parent]] /\ commits' = commits
      BY <2>2 DEF Rewind, Works
    <3>5. Writes([Tree EXCEPT !.at = parent])
      <4> HIDE DEF parent
      <4> QED BY <1>3, <2>0, <3>1, <3>2, <3>3, <3>4 DEF Writes
    <3> QED BY <3>3, <3>5
  <2>3. CASE AgentCommits
    <3>1. CommitTree /\ trees' = [trees EXCEPT ![run.ws] = AfterCommit]
      BY <2>3 DEF AgentCommits, Works
    <3>2. /\ commits' \in Seq(CommitRecords) /\ Len(commits') = Len(commits) + 1
          /\ \A c \in 1 .. Len(commits') : commits'[c].parent \in 0 .. c - 1
          /\ AfterCommit \in TreeRecords /\ AfterCommit.at = Len(commits')
      BY <1>2, <3>1, CommitStep
    <3>3. Len(commits') \in Nat /\ Len(commits') # 0 /\ Len(commits') \in 0 .. Len(commits')
      BY <1>3, <3>2
    <3>4. Writes(AfterCommit)
      BY <1>3, <3>1, <3>2, <3>3 DEF Writes
    <3> QED BY <3>2, <3>4
  <2> QED BY <2>1, <2>2, <2>3 DEF Agent
<1>5. Carries /\ Signals
  BY <1>1 DEF Carries, Signals
<1>6. trees' \in [1 .. MaxRuns -> TreeRecords] /\ Placed' /\ Retains' /\ Owned'
  BY <1>1, <1>4, <1>5, TreeStep DEF Writes
<1>7. Typed'
  BY <1>1, <1>4, <1>6 DEF Inv, Typed, world, Writes
<1>8. Numbered'
  <2>1. \A t \in 1 .. MaxRuns : trees'[t].at \in 0 .. Len(commits')
    BY <1>2, <1>3, <1>4 DEF Inv, Numbered, Typed, Writes
  <2>2. \A c \in 1 .. Len(commits') : commits'[c].parent \in 0 .. c - 1
    BY <1>4 DEF Writes
  <2>3. Len(commits') \in Nat /\ Len(commits') >= Len(commits) /\ UNCHANGED <<remote, moves, run>>
    BY <1>1, <1>4 DEF Writes, world
  <2>4. remote'.head \in Commits' /\ remote'.base \in 1 .. 1 + moves' /\ moves' <= MaxMoves
    BY <1>3, <2>3 DEF Inv, Numbered, Commits
  <2>5. /\ run'.first \in 0 .. Len(commits') /\ run'.head \in 0 .. Len(commits')
        /\ run'.confirmed \in 0 .. Len(commits') /\ (run'.place # "idle" => run'.first # 0)
    BY <1>3, <2>3 DEF Inv, Numbered
  <2> QED BY <2>1, <2>2, <2>4, <2>5 DEF Numbered, Commits
<1>9. Counted' /\ Stopping'
  BY <1>1 DEF Inv, Counted, Stopping, Halting
<1> QED BY <1>6, <1>7, <1>8, <1>9 DEF Inv

LEMMA CommitInv == Inv /\ Commit => Inv'
<1> SUFFICES ASSUME Inv, Commit PROVE Inv'
  OBVIOUS
<1>1. /\ run.place = "commit" /\ run.write /\ UNCHANGED <<world, paused, asked, abandoned>>
      /\ run \in Runs
  BY DEF Commit, At, Inv, Typed, Placed
<1>2. run.ws \in 1 .. MaxRuns /\ Exists(run.ws)
  BY <1>1, Names, Bounds DEF Inv, Placed, Without, Using, Runs
<1>3. CASE (StopRun \/ Throw("harness_failed")) /\ UNCHANGED <<commits, trees>>
  BY <1>1, <1>3, Names, StopTypes, ThrowTypes, EndInv DEF Alone
<1>4. CASE /\ ~ Halting
           /\ IF Tree.dirty \/ Tree.merge
              THEN CommitTree /\ trees' = [trees EXCEPT ![run.ws] = AfterCommit]
              ELSE UNCHANGED <<commits, trees>>
           /\ run' = [run EXCEPT !.place = "check", !.previous = run.head, !.phase = "other",
                                 !.head = trees'[run.ws].at]
  <2>1. Tree \in TreeRecords /\ Tree.at \in 1 .. Len(commits) /\ Len(commits) \in Nat
    BY <1>2, Counters DEF Inv, Numbered, Tree, Exists
  <2>2. PICK tree \in TreeRecords : Writes(tree)
    <3>0. /\ commits \in Seq(CommitRecords)
          /\ \A c \in 1 .. Len(commits) : commits[c].parent \in 0 .. c - 1
      BY DEF Inv, Typed, Numbered, Commits
    <3>1. CASE Tree.dirty \/ Tree.merge
      <4>1. CommitTree /\ trees' = [trees EXCEPT ![run.ws] = AfterCommit]
        BY <1>4, <3>1
      <4>2. /\ commits' \in Seq(CommitRecords) /\ Len(commits') = Len(commits) + 1
            /\ \A c \in 1 .. Len(commits') : commits'[c].parent \in 0 .. c - 1
            /\ AfterCommit \in TreeRecords /\ AfterCommit.at = Len(commits')
        BY <1>2, <4>1, CommitStep
      <4>3. Len(commits') \in Nat /\ Len(commits') # 0 /\ Len(commits') \in 0 .. Len(commits')
        BY <2>1, <4>2
      <4>4. Writes(AfterCommit)
        BY <2>1, <4>1, <4>2, <4>3 DEF Writes
      <4> QED BY <4>2, <4>4
    <3>2. CASE ~ (Tree.dirty \/ Tree.merge)
      <4>1. UNCHANGED <<commits, trees>>
        BY <1>4, <3>2
      <4>2. trees' = [trees EXCEPT ![run.ws] = Tree]
        BY <1>2, <4>1 DEF Tree, Inv, Typed
      <4>3. /\ commits' \in Seq(CommitRecords) /\ Len(commits') = Len(commits)
            /\ \A c \in 1 .. Len(commits') : commits'[c].parent \in 0 .. c - 1
        BY <3>0, <4>1
      <4>4. Tree.at # 0 /\ Tree.at \in 0 .. Len(commits') /\ Len(commits') >= Len(commits)
            /\ Len(commits') \in Nat
        BY <2>1, <4>3
      <4>5. Writes(Tree)
        BY <4>2, <4>3, <4>4 DEF Writes
      <4> QED BY <2>1, <4>5
    <3> QED BY <3>1, <3>2
  <2>3. trees'[run.ws] = tree /\ tree.at \in Nat
    BY <1>2, <2>2 DEF Inv, Typed, TreeRecords, Writes
  <2>4. /\ run' \in Runs /\ run'.place = "check" /\ Carries /\ Signals /\ run'.head = tree.at
        /\ run'.confirmed = run.confirmed /\ run'.attempts = run.attempts
    BY <1>1, <1>4, <2>3, Names DEF Runs, Carries, Signals
  <2>5. trees' \in [1 .. MaxRuns -> TreeRecords] /\ Placed' /\ Retains' /\ Owned'
    BY <1>1, <2>2, <2>4, TreeStep DEF Writes
  <2>6. Typed'
    BY <1>1, <2>2, <2>4, <2>5 DEF Inv, Typed, world, Writes
  <2>7. Numbered'
    <3>1. \A t \in 1 .. MaxRuns : trees'[t].at \in 0 .. Len(commits')
      BY <1>2, <2>1, <2>2 DEF Inv, Numbered, Typed, Writes
    <3>2. \A c \in 1 .. Len(commits') : commits'[c].parent \in 0 .. c - 1
      BY <2>2 DEF Writes
    <3>3. Len(commits') \in Nat /\ Len(commits') >= Len(commits) /\ UNCHANGED <<remote, moves>>
      BY <1>1, <2>2 DEF Writes, world
    <3>4. /\ run.first # 0 /\ run'.first = run.first /\ run'.confirmed = run.confirmed
          /\ run'.head \in 0 .. Len(commits')
      BY <1>1, <2>2, <2>4 DEF Inv, Numbered, Carries, Writes
    <3> QED BY <2>1, <3>1, <3>2, <3>3, <3>4 DEF Inv, Numbered, Commits
  <2>8. Counted'
    BY <2>4 DEF Inv, Counted, Early
  <2>9. Stopping'
    BY <1>1, <1>4, <2>4 DEF Inv, Stopping, Signals
  <2> QED BY <2>5, <2>6, <2>7, <2>8, <2>9 DEF Inv
<1> QED BY <1>1, <1>3, <1>4 DEF Commit

-----------------------------------------------------------------------------
(* Where a run gets its worktree from, and where it goes.                  *)

\* What only depends on the numbers of commits.
LEMMA SameCommits ==
    ASSUME Inv, UNCHANGED <<remote, commits, moves, crashes, asked, abandoned>>, run' \in Runs,
           run'.first = run.first, run'.head = run.head, run'.confirmed = run.confirmed,
           run.place # "idle",
           trees' \in [1 .. MaxRuns -> TreeRecords], paused' \in Pauses,
           \A t \in 1 .. MaxRuns : trees'[t].at \in 0 .. Len(commits)
    PROVE  Typed' /\ Numbered'
  BY DEF Inv, Typed, Numbered, Commits

LEMMA ResumeInv == Inv /\ Resume => Inv'
<1> SUFFICES ASSUME Inv, Resume PROVE Inv'
  OBVIOUS
<1>1. /\ run.place = "prepare" /\ Pausing /\ Exists(paused.tree) /\ paused.task = run.task
      /\ UNCHANGED <<world, commits, trees, asked, abandoned>>
      /\ run \in Runs /\ paused \in Pauses /\ run.ws = 0 /\ ~ run.created /\ ~ run.late
  BY DEF Resume, At, Continues, StillFresh, Pausing, Inv, Typed, Placed, Without, Stopping
<1>2. paused.tree \in 0 .. MaxRuns /\ paused.tree # 0 /\ paused.write \in BOOLEAN
  BY <1>1 DEF Inv, Retains, Pauses
<1>3. paused' = [paused EXCEPT !.status = "claimed"]
      /\ run' = [run EXCEPT !.place = "ready", !.ws = paused.tree, !.resumed = TRUE,
                            !.write = paused.write]
  BY DEF Resume
<1>4. /\ paused' \in Pauses /\ paused'.status = "claimed" /\ paused'.tree = paused.tree
      /\ paused'.task = paused.task /\ paused'.write = paused.write
  BY <1>1, <1>3 DEF Pauses
<1>5. /\ run' \in Runs /\ run'.place = "ready" /\ run'.ws = paused.tree /\ Measures /\ Signals
      /\ run'.id = run.id /\ run'.task = run.task /\ run'.write = paused.write
      /\ run'.created = run.created /\ run'.first = run.first
  BY <1>1, <1>2, <1>3, Names DEF Runs, Measures, Signals
<1>6. Typed' /\ Numbered'
  BY <1>1, <1>4, <1>5, SameCommits DEF Inv, Typed, Numbered, Measures, world
<1>7. Counted'
  BY <1>1, <1>5 DEF Inv, Counted, Measures, Early
<1>8. Placed'
  BY <1>1, <1>2, <1>5 DEF Inv, Placed, Retains, Signals, Without, Using, Exists
<1>9. Retains'
  BY <1>1, <1>2, <1>4, <1>5 DEF Inv, Retains, Pausing, Resumable
<1>10. Owned'
  BY <1>1, <1>4, <1>5 DEF Inv, Owned, Exists, HeldTree, Held
<1>11. Stopping'
  BY <1>1, <1>5 DEF Stopping, Signals
<1> QED BY <1>6, <1>7, <1>8, <1>9, <1>10, <1>11 DEF Inv

\* A worktree is removed.
LEMMA RemovedTypes ==
    ASSUME Inv, NEW t \in 1 .. MaxRuns, trees' = Removed(t)
    PROVE  /\ trees' \in [1 .. MaxRuns -> TreeRecords]
           /\ \A u \in 1 .. MaxRuns : trees'[u] = IF u = t THEN NoTree ELSE trees[u]
           /\ \A u \in 1 .. MaxRuns : trees'[u].at \in 0 .. Len(commits)
           /\ NoTree.at = 0
<1>1. NoTree \in TreeRecords /\ NoTree.at = 0
  BY DEF NoTree, TreeRecords
<1>2. trees' \in [1 .. MaxRuns -> TreeRecords]
      /\ \A u \in 1 .. MaxRuns : trees'[u] = IF u = t THEN NoTree ELSE trees[u]
  BY <1>1 DEF Removed, Inv, Typed
<1>3. \A u \in 1 .. MaxRuns : trees'[u].at \in 0 .. Len(commits)
  BY <1>1, <1>2, Counters DEF Inv, Numbered
<1> QED BY <1>1, <1>2, <1>3

LEMMA RejectInv == Inv /\ Reject => Inv'
<1> SUFFICES ASSUME Inv, Reject PROVE Inv'
  OBVIOUS
<1>1. /\ run.place = "prepare" /\ Pausing
      /\ paused' = [paused EXCEPT !.status = "stale"] /\ trees' = Removed(paused.tree)
      /\ UNCHANGED <<world, commits, run, asked, abandoned>>
      /\ run \in Runs /\ paused \in Pauses /\ run.ws = 0 /\ ~ run.created /\ ~ run.late
  BY DEF Reject, At, Continues, Pausing, Inv, Typed, Placed, Without, Stopping
<1>2. paused.tree \in 1 .. MaxRuns
  <2>1. paused.tree \in 0 .. MaxRuns /\ paused.tree # 0
    BY <1>1 DEF Inv, Retains, Pauses
  <2> QED BY <2>1, Bounds
<1>3. /\ paused' \in Pauses /\ paused'.status = "stale" /\ paused'.tree = paused.tree
      /\ paused'.task = paused.task /\ paused'.write = paused.write
  BY <1>1 DEF Pauses
<1>4. /\ trees' \in [1 .. MaxRuns -> TreeRecords] /\ NoTree.at = 0
      /\ \A u \in 1 .. MaxRuns : trees'[u] = IF u = paused.tree THEN NoTree ELSE trees[u]
      /\ \A u \in 1 .. MaxRuns : trees'[u].at \in 0 .. Len(commits)
  BY <1>1, <1>2, RemovedTypes
<1>5. Typed' /\ Numbered'
  BY <1>1, <1>3, <1>4, SameCommits DEF world
<1>6. Counted'
  BY <1>1 DEF Inv, Counted
<1>7. Placed'
  BY <1>1, Names DEF Inv, Placed, Without, Using
<1>8. Retains'
  BY <1>1, <1>3 DEF Inv, Retains, Pausing, Resumable
<1>9. Owned'
  BY <1>1, <1>2, <1>3, <1>4 DEF Inv, Owned, Exists, HeldTree
<1>10. Stopping'
  BY <1>1 DEF Stopping
<1> QED BY <1>5, <1>6, <1>7, <1>8, <1>9, <1>10 DEF Inv

\* A discussion takes the worktree of the pause as it is.
LEMMA DiscussInv == Inv /\ Discuss => Inv'
<1> SUFFICES ASSUME Inv, Discuss PROVE Inv'
  OBVIOUS
<1>1. /\ run.place = "prepare" /\ run.task = "conversation" /\ (Pausing \/ paused.status = "claimed")
      /\ run' = [run EXCEPT !.place = "ready", !.ws = paused.tree] /\ Alone
      /\ run \in Runs /\ paused \in Pauses /\ run.ws = 0 /\ ~ run.created /\ ~ run.late
  BY DEF Discuss, At, Discussing, Pausing, Alone, Inv, Typed, Placed, Without, Stopping
<1>2. paused.tree \in 0 .. MaxRuns /\ paused.tree # 0
  BY <1>1 DEF Inv, Retains, Pauses
<1>3. /\ run' \in Runs /\ run'.place = "ready" /\ run'.ws = paused.tree /\ Measures /\ Signals
      /\ run'.id = run.id /\ run'.task = run.task /\ run'.write = run.write
      /\ run'.created = run.created /\ run'.first = run.first
  BY <1>1, <1>2, Names DEF Runs, Measures, Signals
<1>4. Typed' /\ Numbered'
  BY <1>1, <1>3, SameCommits DEF Inv, Typed, Numbered, Measures, Alone, world
<1>5. Counted'
  BY <1>1, <1>3 DEF Inv, Counted, Measures, Early
<1>6. Placed'
  <2>1. paused.tree < run.id /\ run.id \in 0 .. MaxRuns
    BY <1>1, RunNumbers DEF Inv, Retains
  <2>2. paused.tree <= run.id
    BY <1>2, <2>1, Bounds
  <2> QED BY <1>1, <1>2, <1>3, <2>2 DEF Inv, Placed, Signals, Without, Using, Exists
<1>7. Retains'
  BY <1>1, <1>3 DEF Inv, Retains, Pausing, Alone, Exists
<1>8. Owned'
  BY <1>1, <1>3 DEF Inv, Owned, Exists, HeldTree, Alone
<1>9. Stopping'
  BY <1>1, <1>3 DEF Stopping, Signals
<1> QED BY <1>4, <1>5, <1>6, <1>7, <1>8, <1>9 DEF Inv

LEMMA CreateInv == Inv /\ Create => Inv'
<1> SUFFICES ASSUME Inv, Create PROVE Inv'
  OBVIOUS
<1>1. /\ run.place = "prepare" /\ ~ Continues /\ ~ Discussing
      /\ UNCHANGED <<world, commits, paused, asked, abandoned>>
      /\ run' = [run EXCEPT !.place = "created", !.created = TRUE]
      /\ run \in Runs /\ run.ws = 0 /\ ~ run.late /\ ~ run.keep
  BY DEF Create, At, Inv, Typed, Placed, Without, Stopping
<1>2. ~ Pausing
  BY <1>1 DEF Inv, Retains, Pausing, Continues, Discussing
<1>3. run.id \in 1 .. MaxRuns /\ run.first \in 1 .. Len(commits) /\ Len(commits) \in Nat
  <2>1. run.id \in 0 .. MaxRuns /\ run.id # 0
    BY <1>1, RunNumbers DEF Inv, Placed
  <2>2. run.first \in 0 .. Len(commits) /\ run.first # 0
    BY <1>1 DEF Inv, Numbered
  <2> QED BY <2>1, <2>2, Bounds, Counters
<1>4. PICK main \in run.main .. remote.base : trees' = [trees EXCEPT ![run.id] = Worktree(main)]
  BY DEF Create
<1>5. Worktree(main) \in TreeRecords /\ Worktree(main).at = run.first
  <2>1. main \in Nat /\ run.first \in Nat
    <3>1. run.main \in Nat /\ remote.base \in Nat
      BY <1>1 DEF Runs, Inv, Typed
    <3> QED BY <1>3, <3>1
  <2> QED BY <2>1 DEF Worktree, TreeRecords
<1>6. /\ trees' \in [1 .. MaxRuns -> TreeRecords]
      /\ \A t \in 1 .. MaxRuns : t # run.id => trees'[t] = trees[t]
      /\ trees'[run.id].at = run.first
  BY <1>3, <1>4, <1>5 DEF Inv, Typed
<1>7. \A t \in 1 .. MaxRuns : trees'[t].at \in 0 .. Len(commits)
  BY <1>3, <1>6 DEF Inv, Numbered
<1>8. /\ run' \in Runs /\ run'.place = "created" /\ Measures /\ Signals /\ run'.created
      /\ run'.id = run.id /\ run'.task = run.task /\ run'.write = run.write
      /\ run'.ws = run.ws /\ run'.first = run.first
  BY <1>1, Names DEF Runs, Measures, Signals
<1>9. Typed' /\ Numbered'
  BY <1>1, <1>6, <1>7, <1>8, SameCommits DEF Inv, Typed, Measures, world
<1>10. Counted'
  BY <1>1, <1>8 DEF Inv, Counted, Measures, Early
<1>11. Placed'
  BY <1>1, <1>3, <1>6, <1>8 DEF Inv, Placed, Signals, Without, Using, Exists
<1>12. Retains'
  BY <1>1, <1>2, <1>8 DEF Inv, Retains, Pausing
<1>13. Owned'
  BY <1>1, <1>6, <1>8 DEF Inv, Owned, Exists, HeldTree
<1>14. Stopping'
  BY <1>1, <1>8 DEF Stopping, Signals
<1> QED BY <1>9, <1>10, <1>11, <1>12, <1>13, <1>14 DEF Inv

LEMMA PreparedInv == Inv /\ Prepared => Inv'
<1> SUFFICES ASSUME Inv, Prepared PROVE Inv'
  OBVIOUS
<1>1. /\ run.place = "created" /\ Alone /\ run' = [run EXCEPT !.place = "ready", !.ws = run.id]
      /\ run \in Runs /\ run.ws = 0 /\ run.created /\ ~ run.late
  BY DEF Prepared, At, Alone, Inv, Typed, Placed, Stopping
<1>2. /\ run' \in Runs /\ run'.place = "ready" /\ run'.ws = run.id /\ Measures /\ Signals
      /\ run'.id = run.id /\ run'.task = run.task /\ run'.write = run.write
      /\ run'.created = run.created /\ run'.first = run.first
  <2>1. run.id \in 0 .. MaxRuns
    BY <1>1, RunNumbers
  <2> QED BY <1>1, <2>1, Names DEF Runs, Measures, Signals
<1>3. Typed' /\ Numbered'
  BY <1>1, <1>2, SameCommits DEF Inv, Typed, Numbered, Measures, Alone, world
<1>4. Counted'
  BY <1>1, <1>2 DEF Inv, Counted, Measures, Early
<1>5. Placed'
  <2>1. run.id <= run.id
    BY <1>1, RunNumbers, Bounds
  <2> QED BY <1>1, <1>2, <2>1 DEF Inv, Placed, Signals, Without, Using, Exists, Alone
<1>6. Retains'
  BY <1>1, <1>2 DEF Inv, Retains, Pausing, Alone, Exists
<1>7. Owned'
  BY <1>1, <1>2 DEF Inv, Owned, Exists, HeldTree, Alone
<1>8. Stopping'
  BY <1>1, <1>2 DEF Stopping, Signals
<1> QED BY <1>3, <1>4, <1>5, <1>6, <1>7, <1>8 DEF Inv

-----------------------------------------------------------------------------
(* The push, the answer and the end of a run.                              *)

LEMMA PushInv == Inv /\ Push => Inv'
<1> SUFFICES ASSUME Inv, Push PROVE Inv'
  OBVIOUS
<1>1. /\ run.place = "push" /\ run \in Runs
      /\ UNCHANGED <<commits, trees, paused, asked, abandoned, moves, crashes>>
  BY DEF Push, At, Inv, Typed
<1>2. Exists(run.ws) /\ run.ws \in 1 .. MaxRuns /\ ~ run.late
  <2>1. Exists(run.ws) /\ run.ws # 0 /\ ~ run.late
    BY <1>1, Names DEF Inv, Placed, Without, Using, Stopping
  <2> QED BY <1>1, <2>1, RunNumbers, Bounds
<1>3. Tree.at \in Commits /\ Tree.at \in Nat
  BY <1>2, Counters DEF Inv, Numbered, Tree, Exists, Commits
<1>4. /\ remote' \in [head : Nat, base : Nat, open : BOOLEAN, fork : BOOLEAN]
      /\ remote'.head \in Commits /\ remote'.base = remote.base
  <2>1. remote' = remote \/ remote' = [remote EXCEPT !.head = Tree.at]
    BY DEF Push
  <2> QED BY <1>3, <2>1 DEF Inv, Typed, Numbered
<1>5. /\ run' \in Runs /\ run'.place \in {"finish", "confirm"} /\ Carries /\ Measures
      /\ Ended \/ (run'.place = "confirm" /\ Signals)
  <2>1. CASE Throw("harness_failed")
    BY <1>1, <2>1, Names, ThrowTypes DEF Ended
  <2>2. CASE Go("confirm")
    BY <1>1, <2>2, Names, GoTypes
  <2> QED BY <2>1, <2>2 DEF Push
<1>6. Typed'
  BY <1>1, <1>4, <1>5 DEF Inv, Typed
<1>7. Numbered'
  BY <1>1, <1>4, <1>5 DEF Inv, Numbered, Commits, Carries, Measures
<1>8. Counted'
  BY <1>5 DEF Inv, Counted, Measures, Early
<1>9. Placed'
  BY <1>1, <1>2, <1>5 DEF Inv, Placed, Carries, Signals, Ended, Without, Using, Exists
<1>10. Retains' /\ Owned'
  BY <1>1, <1>5 DEF Inv, Retains, Owned, Pausing, Exists, HeldTree, Carries
<1>11. Stopping'
  BY <1>2, <1>5 DEF Stopping, Signals, Ended
<1> QED BY <1>6, <1>7, <1>8, <1>9, <1>10, <1>11 DEF Inv

\* The pause whose worktree the run has is over, for good.
LEMMA OverTypes ==
    ASSUME Inv, PauseOver
    PROVE  /\ paused' \in Pauses /\ paused'.tree = paused.tree /\ paused'.task = paused.task
           /\ paused'.write = paused.write /\ paused'.local = paused.local
           /\ paused.tree # run.ws => paused' = paused
           /\ paused.tree = run.ws => paused'.status = "completed"
  BY DEF Inv, Typed, PauseOver, Pauses

LEMMA PublishInv == Inv /\ (Deliver \/ Post) => Inv'
<1> SUFFICES ASSUME Inv, Deliver \/ Post PROVE Inv'
  OBVIOUS
<1>1. /\ run.place \in {"deliver", "post"} /\ run \in Runs
      /\ UNCHANGED <<world, commits, trees, asked, abandoned>>
  BY DEF Deliver, Post, At, Inv, Typed
<1>2. run.ws # 0 /\ (run.late => Halting)
  BY <1>1, Names DEF Inv, Placed, Without, Stopping
<1>3. CASE StopRun /\ UNCHANGED paused
  BY <1>1, <1>3, StopTypes, EndInv DEF Alone
<1>4. CASE ~ Halting /\ PauseOver /\ (Go("send") \/ Go("review"))
  <2>1. run' \in Runs /\ run'.place \in {"send", "review"} /\ Carries /\ Measures /\ Signals
    BY <1>1, <1>4, Names, GoTypes
  <2>2. /\ paused' \in Pauses /\ paused'.tree = paused.tree /\ paused'.task = paused.task
        /\ paused'.write = paused.write /\ paused'.local = paused.local
        /\ paused.tree # run.ws => paused' = paused
        /\ paused.tree = run.ws => paused'.status = "completed"
    BY <1>4, OverTypes
  <2>3. Typed' /\ Numbered'
    BY <1>1, <2>1, <2>2, SameCommits DEF Inv, Typed, Numbered, Measures, Carries, world
  <2>4. Counted'
    BY <2>1 DEF Inv, Counted, Measures, Early
  <2>5. Placed'
    BY <1>1, <1>2, <2>1 DEF Inv, Placed, Carries, Signals, Without, Using, Exists
  <2>6. Retains'
    BY <1>1, <2>1, <2>2 DEF Inv, Retains, Pausing, Resumable, Exists, Carries
  <2>7. Owned'
    BY <1>1, <2>1, <2>2 DEF Inv, Owned, Exists, HeldTree, Carries
  <2>8. Stopping'
    BY <1>2, <1>4, <2>1 DEF Stopping, Signals
  <2> QED BY <2>3, <2>4, <2>5, <2>6, <2>7, <2>8 DEF Inv
<1> QED BY <1>3, <1>4 DEF Deliver, Post

\* A pause is only written for the worktree that the run has, and over one that is not
\* to be continued any more.
LEMMA FinishInv == Inv /\ Finish => Inv'
<1> SUFFICES ASSUME Inv, Finish PROVE Inv'
  OBVIOUS
<1>1. /\ run.place = "finish" /\ run \in Runs /\ UNCHANGED <<world, commits, trees, abandoned>>
      /\ run' = [run EXCEPT !.place = "dispose", !.result = TRUE]
      /\ asked' = (asked /\ ~ run.aborted)
      /\ paused' = IF run.keep THEN Retained ELSE paused
  BY DEF Finish, At, Inv, Typed
<1>2. /\ run' \in Runs /\ run'.place = "dispose" /\ Carries /\ Measures
      /\ run'.late = run.late /\ run'.keep = run.keep
  BY <1>1, Names DEF Runs, Carries, Measures
<1>3. CASE ~ run.keep
  BY <1>1, <1>2, <1>3 DEF Inv, Typed, Numbered, Counted, Placed, Retains, Owned, Stopping, Commits,
      Carries, Measures, Early, Without, Using, Exists, HeldTree, Pausing, world
<1>4. CASE run.keep
  <2>1. /\ run.ws # 0 /\ run.task # "conversation" /\ run.status \in Resumable
        /\ Exists(run.ws) /\ run.ws <= run.id
    BY <1>1, <1>4 DEF Inv, Placed
  <2>2. ~ Pausing
    BY <1>1, <2>1 DEF Inv, Retains
  <2>3. /\ paused' \in Pauses /\ paused'.status \in Resumable /\ paused'.tree = run.ws
        /\ paused'.task = run.task /\ paused'.local = trees[run.ws].at
    <3>1. run.ws \in 1 .. MaxRuns
      BY <1>1, <2>1, RunNumbers, Bounds
    <3>2. trees[run.ws].at \in Nat
      BY <3>1, Counters DEF TreeRecords
    <3>3. /\ run.confirmed \in Nat /\ run.target \in Nat /\ run.phase \in Phases
          /\ run.write \in BOOLEAN /\ run.task \in AllTasks
      BY <1>1 DEF Runs
    <3>4. (IF run.task = "conflict" /\ run.status # "stopped" THEN 0 ELSE run.confirmed) \in Nat
      BY <3>3
    <3> QED BY <1>1, <1>4, <2>1, <3>1, <3>2, <3>3, <3>4 DEF Retained, Pauses, Tree
  <2>4. Typed' /\ Numbered'
    BY <1>1, <1>2, <2>3 DEF Inv, Typed, Numbered, Commits, Carries, Measures, world
  <2>5. Counted' /\ Stopping'
    BY <1>1, <1>2 DEF Inv, Counted, Measures, Early, Stopping
  <2>6. Placed'
    BY <1>1, <1>2 DEF Inv, Placed, Carries, Without, Using, Exists
  <2>7. Retains'
    BY <1>1, <1>2, <2>1, <2>3 DEF Retains, Pausing, Exists, Carries, Resumable
  <2>8. Owned'
    BY <1>1, <1>2, <2>2, <2>3 DEF Inv, Owned, Exists, HeldTree, Held, Pausing, Resumable, Carries
  <2> QED BY <2>4, <2>5, <2>6, <2>7, <2>8 DEF Inv
<1> QED BY <1>3, <1>4

\* The process without a run.
LEMMA IdleTypes ==
    ASSUME NEW n \in 0 .. MaxRuns
    PROVE  /\ Idle(n) \in Runs /\ Idle(n).id = n /\ Idle(n).place = "idle"
           /\ Idle(n).task = "conversation" /\ ~ Idle(n).write
           /\ Idle(n).ws = 0 /\ ~ Idle(n).created /\ ~ Idle(n).keep /\ ~ Idle(n).late
           /\ Idle(n).first = 0 /\ Idle(n).head = 0 /\ Idle(n).confirmed = 0
           /\ Idle(n).attempts = 0 /\ Idle(n).wrote = "none"
  BY Names, Bounds DEF Idle, Runs

\* The end of a run, or of its process, when every worktree has found its owner.
LEMMA IdleInv ==
    ASSUME Inv, run' = Idle(run.id), UNCHANGED <<remote, commits, moves, paused, asked>>,
           trees' \in [1 .. MaxRuns -> TreeRecords], abandoned' \subseteq 0 .. MaxRuns,
           crashes' \in Nat,
           \A t \in 1 .. MaxRuns : trees'[t].at \in 0 .. Len(commits),
           Pausing => trees'[paused.tree] = trees[paused.tree],
           \A t \in 1 .. MaxRuns : trees'[t].at # 0 => HeldTree(t) \/ t \in abandoned'
    PROVE  Inv'
<1>1. run.id \in 0 .. MaxRuns
  BY RunNumbers DEF Inv, Typed
<1>2. /\ run' \in Runs /\ run'.id = run.id /\ run'.place = "idle" /\ run'.task = "conversation"
      /\ ~ run'.write /\ run'.ws = 0 /\ ~ run'.created /\ ~ run'.keep /\ ~ run'.late
      /\ run'.first = 0 /\ run'.head = 0 /\ run'.confirmed = 0 /\ run'.attempts = 0
      /\ run'.wrote = "none"
  BY <1>1, IdleTypes
<1>3. Typed'
  BY <1>2 DEF Inv, Typed
<1>4. Numbered'
  BY <1>2, Counters DEF Inv, Numbered, Commits
<1>5. Counted' /\ Stopping'
  BY <1>2, Bounds DEF Counted, Stopping
<1>6. Placed'
  BY <1>1, <1>2 DEF Placed, Without, Using
<1>7. Retains'
  BY <1>2 DEF Inv, Retains, Pausing, Exists
<1>8. Owned'
  BY <1>2 DEF Owned, Exists, HeldTree
<1> QED BY <1>3, <1>4, <1>5, <1>6, <1>7, <1>8 DEF Inv

\* A run removes its own worktree, unless a pause holds it or nothing says how it ended.
LEMMA DisposeInv == Inv /\ Dispose => Inv'
<1> SUFFICES ASSUME Inv, Dispose PROVE Inv'
  OBVIOUS
<1>1. /\ run.place = "dispose" /\ run \in Runs /\ run' = Idle(run.id)
      /\ UNCHANGED <<world, commits, paused, asked>>
      /\ trees' = IF Target = 0 \/ ~ run.result \/ (run.ws # 0 /\ HeldTree(run.ws)) THEN trees
                  ELSE Removed(Target)
      /\ abandoned' = IF run.result THEN abandoned ELSE abandoned \cup {Target}
  BY DEF Dispose, At, Inv, Typed
<1>2. Target \in 0 .. MaxRuns
  BY <1>1, RunNumbers, Bounds DEF Target
<1>3. /\ run.ws # 0 => Target = run.ws /\ (run.created => run.ws = run.id)
      /\ run.ws = 0 /\ run.created => Target = run.id
      /\ run.created => run.id # 0
  BY DEF Target, Inv, Placed
<1>4. abandoned' \subseteq 0 .. MaxRuns
  BY <1>1, <1>2 DEF Inv, Typed
<1>5. CASE Target = 0 \/ ~ run.result \/ (run.ws # 0 /\ HeldTree(run.ws))
  <2>1. trees' = trees
    BY <1>1, <1>5
  <2>2. \A t \in 1 .. MaxRuns : trees'[t].at # 0 => HeldTree(t) \/ t \in abandoned'
    BY <1>1, <1>3, <1>5, <2>1, Bounds DEF Inv, Owned, Exists
  <2> QED BY <1>1, <1>4, <2>1, <2>2, IdleInv DEF Inv, Typed, Numbered, world
<1>6. CASE ~ (Target = 0 \/ ~ run.result \/ (run.ws # 0 /\ HeldTree(run.ws)))
  <2>1. Target \in 1 .. MaxRuns /\ trees' = Removed(Target) /\ abandoned' = abandoned
    BY <1>1, <1>2, <1>6, Bounds
  <2>2. /\ trees' \in [1 .. MaxRuns -> TreeRecords] /\ NoTree.at = 0
        /\ \A u \in 1 .. MaxRuns : trees'[u] = IF u = Target THEN NoTree ELSE trees[u]
        /\ \A u \in 1 .. MaxRuns : trees'[u].at \in 0 .. Len(commits)
    BY <2>1, RemovedTypes
  <2>3. Pausing => paused.tree # Target /\ paused.tree \in 1 .. MaxRuns
    <3> SUFFICES ASSUME Pausing PROVE paused.tree # Target /\ paused.tree \in 1 .. MaxRuns
      OBVIOUS
    <3>1. paused.tree \in 1 .. MaxRuns
      <4>1. paused.tree \in 0 .. MaxRuns /\ paused.tree # 0
        BY DEF Inv, Typed, Pauses, Retains
      <4> QED BY <4>1, Bounds
    <3>2. CASE run.ws # 0
      BY <1>3, <1>6, <3>1, <3>2 DEF HeldTree, Held, Pausing, Resumable
    <3>3. CASE run.ws = 0
      <4>1. paused.tree < run.id
        BY <1>1, <3>3 DEF Inv, Retains
      <4>2. Target = run.id
        BY <1>6, <3>3 DEF Target
      <4> QED BY <3>1, <4>1, <4>2, <1>2
    <3> QED BY <3>1, <3>2, <3>3
  <2>4. \A t \in 1 .. MaxRuns : trees'[t].at # 0 => HeldTree(t) \/ t \in abandoned'
    BY <1>3, <1>6, <2>1, <2>2 DEF Inv, Owned, Exists
  <2> QED BY <1>1, <1>4, <2>2, <2>3, <2>4, IdleInv DEF Inv, Typed, world
<1> QED BY <1>5, <1>6

LEMMA DieInv == Inv /\ Die => Inv'
<1> SUFFICES ASSUME Inv, Die PROVE Inv'
  OBVIOUS
<1>1. /\ run' = Idle(run.id) /\ UNCHANGED <<remote, commits, trees, paused, asked, moves>>
      /\ crashes' = crashes + 1
      /\ abandoned' = abandoned \cup {t \in {run.ws, run.id} \ {0} : Exists(t) /\ ~ HeldTree(t)}
  BY DEF Die
<1>2. abandoned' \subseteq 0 .. MaxRuns
  BY <1>1, RunNumbers DEF Inv, Typed
<1>3. \A t \in 1 .. MaxRuns : trees'[t].at # 0 => HeldTree(t) \/ t \in abandoned'
  BY <1>1 DEF Inv, Owned, Exists
<1>4. crashes' \in Nat
  BY <1>1 DEF Inv, Typed
<1> QED BY <1>1, <1>2, <1>3, <1>4, IdleInv DEF Inv, Typed, Numbered

-----------------------------------------------------------------------------
(* Everybody else, and the theorems.                                       *)

LEMMA BeginInv ==
    ASSUME Inv, NEW task \in Tasks, NEW write \in BOOLEAN, Begin(task, write)
    PROVE  Inv'
<1> DEFINE r == [Idle(run.id + 1) EXCEPT !.task = task, !.write = write, !.first = remote.head,
                   !.target = remote.base, !.head = remote.head, !.confirmed = remote.head]
<1>1. /\ run.place = "idle" /\ run.id + 1 \in 1 .. MaxRuns /\ run.id \in 0 .. MaxRuns
      /\ run' = IF remote.open THEN [r EXCEPT !.place = "enter"]
                ELSE [r EXCEPT !.place = "finish", !.status = "harness_failed"]
      /\ UNCHANGED <<world, commits, trees, paused, abandoned>>
      /\ write => task # "conversation"
  BY RunNumbers, Bounds DEF Begin, At, Inv, Typed
<1>2. Idle(run.id + 1) \in Runs
  BY <1>1, IdleTypes
<1>3. /\ remote.head \in Commits /\ remote.head \in Nat /\ remote.base \in Nat
      /\ task \in AllTasks
  BY Counters, Bounds DEF Inv, Typed, Numbered, Commits
<1>4. /\ r \in Runs /\ r.id = run.id + 1 /\ r.task = task /\ r.write = write
      /\ r.ws = 0 /\ ~ r.created /\ ~ r.keep /\ ~ r.late /\ r.first = remote.head
      /\ r.head = remote.head /\ r.confirmed = remote.head /\ r.attempts = 0 /\ r.wrote = "none"
  <2> DEFINE i == Idle(run.id + 1)
  <2>1. /\ i \in Runs /\ i.id = run.id + 1 /\ i.ws = 0 /\ ~ i.created /\ ~ i.keep /\ ~ i.late
        /\ i.attempts = 0 /\ i.wrote = "none"
    BY <1>1, <1>2, IdleTypes
  <2> HIDE DEF i, r
  <2>2. r = [i EXCEPT !.task = task, !.write = write, !.first = remote.head,
              !.target = remote.base, !.head = remote.head, !.confirmed = remote.head]
    BY DEF i, r
  <2>3. r \in Runs
    BY <1>3, <2>1, <2>2 DEF Runs
  <2>4. r.task = task /\ r.write = write
    BY <2>1, <2>2 DEF Runs
  <2>5. r.first = remote.head /\ r.head = remote.head /\ r.confirmed = remote.head
    BY <2>1, <2>2 DEF Runs
  <2>6. r.id = i.id /\ r.ws = i.ws /\ r.created = i.created /\ r.keep = i.keep
    BY <2>1, <2>2 DEF Runs
  <2>7. r.late = i.late /\ r.attempts = i.attempts /\ r.wrote = i.wrote
    BY <2>1, <2>2 DEF Runs
  <2> QED BY <2>1, <2>3, <2>4, <2>5, <2>6, <2>7
<1> HIDE DEF r
<1>5. /\ run' \in Runs /\ run'.place \in {"enter", "finish"} /\ run'.id = run.id + 1
      /\ run'.task = task /\ run'.write = write /\ run'.ws = 0 /\ ~ run'.created /\ ~ run'.keep
      /\ ~ run'.late /\ run'.first = remote.head /\ run'.head = remote.head
      /\ run'.confirmed = remote.head /\ run'.attempts = 0 /\ run'.wrote = "none"
  BY <1>1, <1>4, Names DEF Runs
<1>6. Typed'
  BY <1>1, <1>5 DEF Begin, Inv, Typed, world
<1>7. Numbered'
  BY <1>1, <1>3, <1>5, Counters DEF Inv, Numbered, Commits, world
<1>8. Counted' /\ Stopping'
  BY <1>5, Bounds DEF Counted, Stopping
<1>9. Placed'
  BY <1>1, <1>5 DEF Placed, Without, Using
<1>10. Retains'
  <2>1. paused.tree \in 0 .. MaxRuns /\ paused.tree <= run.id
    BY DEF Inv, Typed, Pauses, Retains
  <2>2. paused.tree < run.id + 1 /\ paused.tree <= run.id + 1
    BY <1>1, <2>1, Bounds
  <2> QED BY <1>1, <1>5, <2>2 DEF Inv, Retains, Pausing, Exists
<1>11. Owned'
  BY <1>1, <1>5 DEF Inv, Owned, Placed, Without, Exists, HeldTree
<1> QED BY <1>6, <1>7, <1>8, <1>9, <1>10, <1>11 DEF Inv

\* What people do leaves the run, its files and its worktrees alone.
LEMMA PeopleInv ==
    ASSUME Inv, UNCHANGED <<trees, paused, run, abandoned, crashes>>, Typed', Numbered',
           Halting => Halting'
    PROVE  Inv'
  BY DEF Inv, Counted, Placed, Retains, Owned, Stopping, Exists, HeldTree, Pausing

LEMMA PeoplePushInv == Inv /\ PeoplePush => Inv'
<1> SUFFICES ASSUME Inv, PeoplePush PROVE Inv'
  OBVIOUS
<1>1. /\ UNCHANGED <<trees, paused, asked, run, abandoned, crashes>>
      /\ moves < MaxMoves /\ moves' = moves + 1
      /\ remote' = [remote EXCEPT !.head = Len(commits) + 1]
  BY DEF PeoplePush, Moves
<1>2. PICK parent \in {remote.head, commits[remote.head].parent} \ {0},
           base \in {commits[remote.head].base, remote.base} :
        commits' = Append(commits, [parent |-> parent, base |-> base])
  BY DEF PeoplePush
<1>3. /\ remote.head \in 1 .. Len(commits) /\ Len(commits) \in Nat
      /\ commits[remote.head] \in CommitRecords
      /\ commits[remote.head].parent \in 0 .. remote.head - 1
  BY Counters DEF Inv, Numbered, Commits
<1>4. parent \in 0 .. Len(commits) /\ parent \in Nat /\ base \in Nat
  BY <1>3 DEF CommitRecords, Inv, Typed
<1>5. [parent |-> parent, base |-> base] \in CommitRecords
  BY <1>4 DEF CommitRecords
<1>6. /\ commits' \in Seq(CommitRecords) /\ Len(commits') = Len(commits) + 1
      /\ \A i \in 1 .. Len(commits) : commits'[i] = commits[i]
      /\ commits'[Len(commits) + 1] = [parent |-> parent, base |-> base]
  BY <1>2, <1>5, Appended DEF Inv, Typed
<1>7. remote' \in [head : Nat, base : Nat, open : BOOLEAN, fork : BOOLEAN]
      /\ remote'.head = Len(commits) + 1 /\ remote'.base = remote.base
  <2>1. Len(commits) + 1 \in Nat
    BY <1>3
  <2>2. remote \in [head : Nat, base : Nat, open : BOOLEAN, fork : BOOLEAN]
    BY DEF Inv, Typed
  <2> QED BY <1>1, <2>1, <2>2
<1>8. moves' \in Nat /\ moves' <= MaxMoves /\ moves \in Nat
  BY <1>1, Bounds DEF Inv, Typed
<1>9. Typed'
  BY <1>1, <1>6, <1>7, <1>8 DEF Inv, Typed
<1>10. Numbered'
  <2>1. \A c \in 1 .. Len(commits') : commits'[c].parent \in 0 .. c - 1
    <3> SUFFICES ASSUME NEW c \in 1 .. Len(commits') PROVE commits'[c].parent \in 0 .. c - 1
      OBVIOUS
    <3>1. CASE c \in 1 .. Len(commits)
      BY <1>6, <3>1 DEF Inv, Numbered, Commits
    <3>2. CASE c = Len(commits) + 1
      BY <1>3, <1>4, <1>6, <3>2
    <3> QED BY <1>3, <1>6, <3>1, <3>2
  <2>2. remote'.base \in 1 .. 1 + moves'
    BY <1>1, <1>7, <1>8 DEF Inv, Numbered
  <2>3. \A t \in 1 .. MaxRuns : trees'[t].at \in 0 .. Len(commits')
    BY <1>1, <1>3, <1>6 DEF Inv, Numbered
  <2>4. remote'.head \in Commits'
    BY <1>3, <1>6, <1>7 DEF Commits
  <2>5. /\ run'.first \in 0 .. Len(commits') /\ run'.head \in 0 .. Len(commits')
        /\ run'.confirmed \in 0 .. Len(commits')
    BY <1>1, <1>3, <1>6 DEF Inv, Numbered
  <2>6. \A c \in Commits' : commits'[c].parent \in 0 .. c - 1
    BY <2>1 DEF Commits
  <2>7. run'.place # "idle" => run'.first # 0
    BY <1>1 DEF Inv, Numbered
  <2> QED BY <1>8, <2>2, <2>3, <2>4, <2>5, <2>6, <2>7 DEF Numbered
<1> QED BY <1>1, <1>9, <1>10, PeopleInv DEF Halting

LEMMA OthersInv == Inv /\ (BaseMoves \/ OpenOrClose \/ AskStop) => Inv'
<1> SUFFICES ASSUME Inv, BaseMoves \/ OpenOrClose \/ AskStop PROVE Inv'
  OBVIOUS
<1>1. /\ UNCHANGED <<commits, trees, paused, run, abandoned, crashes>>
      /\ moves < MaxMoves /\ moves' = moves + 1 /\ (asked' = asked \/ asked' = TRUE)
  BY DEF BaseMoves, OpenOrClose, AskStop, Moves
<1>2. moves' \in Nat /\ moves' <= MaxMoves /\ moves \in Nat /\ remote.base \in 1 .. 1 + moves
  BY <1>1, Bounds DEF Inv, Typed, Numbered
<1>3. /\ remote' \in [head : Nat, base : Nat, open : BOOLEAN, fork : BOOLEAN]
      /\ remote'.head = remote.head /\ remote'.base \in {remote.base, remote.base + 1}
  <2>1. remote \in [head : Nat, base : Nat, open : BOOLEAN, fork : BOOLEAN]
    BY DEF Inv, Typed
  <2>2. CASE BaseMoves
    BY <2>1, <2>2 DEF BaseMoves
  <2>3. CASE OpenOrClose
    BY <2>1, <2>3 DEF OpenOrClose
  <2>4. CASE AskStop
    BY <2>1, <2>4 DEF AskStop
  <2> QED BY <2>2, <2>3, <2>4
<1>4. Typed'
  BY <1>1, <1>2, <1>3 DEF Inv, Typed
<1>5. Numbered'
  <2>1. remote'.base \in 1 .. 1 + moves'
    BY <1>1, <1>2, <1>3
  <2> QED BY <1>1, <1>2, <1>3, <2>1 DEF Inv, Numbered, Commits
<1> QED BY <1>1, <1>4, <1>5, PeopleInv DEF Halting

\* The invariant is inductive.
LEMMA InitInv == Init => Inv
<1> SUFFICES ASSUME Init PROVE Inv
  OBVIOUS
<1>1. 0 \in 0 .. MaxRuns /\ MaxMoves \in Nat
  BY Bounds
<1>2. /\ run \in Runs /\ run.id = 0 /\ run.place = "idle" /\ run.task = "conversation"
      /\ ~ run.write /\ run.ws = 0 /\ ~ run.created /\ ~ run.keep /\ ~ run.late
      /\ run.first = 0 /\ run.head = 0 /\ run.confirmed = 0 /\ run.attempts = 0
      /\ run.wrote = "none"
  BY <1>1, IdleTypes DEF Init
<1>3. NoTree \in TreeRecords /\ NoTree.at = 0
  BY DEF NoTree, TreeRecords
<1>4. trees \in [1 .. MaxRuns -> TreeRecords] /\ \A t \in 1 .. MaxRuns : trees[t].at = 0
  BY <1>3 DEF Init
<1>5. /\ commits \in Seq(CommitRecords) /\ Len(commits) = 1 /\ commits[1].parent = 0
  <2>1. [parent |-> 0, base |-> 1] \in CommitRecords
    BY DEF CommitRecords
  <2> QED BY <2>1 DEF Init
<1>6. /\ paused \in Pauses /\ paused.status = "none" /\ paused.tree = 0
      /\ paused.task = "conversation" /\ ~ paused.write
  BY <1>1, Names DEF Init, NoPause, Pauses
<1>7. /\ remote \in [head : Nat, base : Nat, open : BOOLEAN, fork : BOOLEAN]
      /\ remote.head = 1 /\ remote.base = 1
  <2>1. Forks \subseteq BOOLEAN
    BY TaskRunAssumption
  <2>2. remote \in [head : {1}, base : {1}, open : {TRUE}, fork : Forks]
    BY DEF Init
  <2>3. {1} \subseteq Nat /\ {TRUE} \subseteq BOOLEAN
    OBVIOUS
  <2>4. remote \in [head : Nat, base : Nat, open : BOOLEAN, fork : BOOLEAN]
    BY <2>1, <2>2, <2>3, Zenon
  <2>5. remote.head = 1 /\ remote.base = 1
    BY <2>2
  <2> QED BY <2>4, <2>5
<1>8. Typed
  BY <1>2, <1>4, <1>5, <1>6, <1>7 DEF Init, Typed
<1>9. Numbered
  BY <1>1, <1>2, <1>4, <1>5, <1>7 DEF Init, Numbered, Commits
<1>10. Counted /\ Stopping
  BY <1>2, Bounds DEF Counted, Stopping
<1>11. Placed
  BY <1>2 DEF Placed, Without, Using
<1>12. Retains
  BY <1>2, <1>6 DEF Retains, Pausing, Resumable
<1>13. Owned
  BY <1>4 DEF Owned, Exists
<1> QED BY <1>8, <1>9, <1>10, <1>11, <1>12, <1>13 DEF Inv

LEMMA StutterInv == Inv /\ UNCHANGED vars => Inv'
  BY DEF Inv, Typed, Numbered, Commits, Counted, Placed, Retains, Pausing, Owned, Stopping, Halting,
      Exists, HeldTree, vars

LEMMA StepInv == Inv /\ [Next]_vars => Inv'
<1> SUFFICES ASSUME Inv, [Next]_vars PROVE Inv'
  OBVIOUS
<1>1. CASE RunStep
  BY <1>1, EnterInv, FetchInv, ResumeInv, SnapshotLostInv, RejectInv, DiscussInv, CreateInv,
     PreparedInv, ReadyInv, DecideOtherInv, DecideCiInv, TurnEndsInv, AnsweredInv, CommitInv,
     CheckInv, PushInv, ConfirmInv, PublishInv, SendInv, PublishReviewInv, FinishInv, DisposeInv,
     FailsInv DEF RunStep
<1>2. CASE UNCHANGED vars
  BY <1>2, StutterInv
<1> QED
  BY <1>1, <1>2, BeginInv, AgentInv, WatchStopInv, PeoplePushInv, OthersInv, DieInv DEF Next

LEMMA Invariance == Spec => []Inv
<1> QED BY InitInv, StepInv, PTL DEF Spec

\* Every variable keeps its type, and an execution repairs CI no oftener than its budget
\* says: the driver of ci.ts counts the retained candidate it starts from too.
THEOREM RunTypes == Spec => []TypeOK
<1>1. Inv => TypeOK
  <2> SUFFICES ASSUME Inv PROVE TypeOK
    OBVIOUS
  <2>1. run.attempts \in 0 .. RepairBudget
    <3>1. run.attempts \in Nat
      BY DEF Inv, Typed, Runs
    <3> QED BY <3>1, Bounds DEF Inv, Counted
  <2>2. remote.base \in 1 .. 1 + MaxMoves
    BY Bounds DEF Inv, Typed, Numbered
  <2>3. \A t \in DOMAIN trees : trees[t].at \in 0 .. Len(commits)
    BY DEF Inv, Typed, Numbered
  <2>4. /\ paused.status \in Resumable \cup {"none", "claimed", "completed", "stale"}
        /\ paused.tree \in 0 .. MaxRuns /\ run.place \in Places
    BY DEF Inv, Typed, Pauses, Runs
  <2> QED BY <2>1, <2>2, <2>3, <2>4 DEF TypeOK, Inv, Typed, Numbered
<1> QED BY <1>1, Invariance, PTL

\* A pause that may be continued has its worktree, where it says it is, between any runs:
\* retainWorkspace writes it from the tree, and only a run that claims it writes to that
\* tree or removes it.
THEOREM PausesAreReal == Spec => []PauseIsReal
<1>1. Inv => PauseIsReal
  BY DEF Inv, Retains, Pausing, PauseIsReal
<1> QED BY <1>1, Invariance, PTL

\* disposeTerminalWorkspace leaves no worktree without an owner: whatever run it was made
\* by, a pause holds it, its process died, or its review was never published.
THEOREM TreesHaveOwners == Spec => []TreesOwned
<1>1. Inv => TreesOwned
  BY Names DEF Inv, Typed, Owned, Placed, Without, TreesOwned, At, Exists
<1> QED BY <1>1, Invariance, PTL

\* A /stop that was saved before the answer is never followed by a push or an answer of
\* this run: every way out of "answered" passes a guard that asks the inbox.
THEOREM StopIsForGood == Spec => []StopIsFinal
<1>1. Inv => StopIsFinal
  BY DEF Inv, Stopping, StopIsFinal
<1> QED BY <1>1, Invariance, PTL

\* The branch only grows by what a run pushes: the remote refuses a push that is not a
\* fast-forward, and nothing else of the program writes to it.
THEOREM BranchOnlyGrows == Spec => NeverOverwrites
<1>1. Inv /\ [Next]_vars => [OnTop]_vars
  <2> SUFFICES ASSUME Inv, Next PROVE OnTop
    BY DEF vars
  <2>1. CASE Push
    <3>1. remote' = remote \/ (Accepted /\ remote'.head = Tree.at)
      BY <2>1 DEF Push, Inv, Typed
    <3> QED BY <3>1 DEF Accepted, OnTop
  <2>2. CASE UNCHANGED remote
    BY <2>2 DEF OnTop
  <2>3. CASE Moves
    BY <2>3 DEF Moves, OnTop
  <2> QED
    BY <2>1, <2>2, <2>3
    DEF Next, Begin, RunStep, Enter, Fetch, Resume, SnapshotLost, Reject, Discuss, Create, Prepared,
        Ready, DecideOther, DecideCi, TurnEnds, Answered, Commit, Check, Confirm, Deliver, Send,
        Sent, Post, PublishReview, Finish, Dispose, Fails, Agent, Edit, Rewind, AgentCommits, Works,
        WatchStop, PeoplePush, BaseMoves, OpenOrClose, AskStop, Die, world
<1> QED BY <1>1, Invariance, PTL DEF Spec, NeverOverwrites

-----------------------------------------------------------------------------
(* What is kept of the work of a run that did not finish.                  *)

\* A branch of a fork is never pushed to: a run that may write ends before its first
\* turn, and nothing was done in its worktree or in the one it left paused.
Untouched(t) == trees[t].at = trees[t].first /\ ~ trees[t].dirty
Settled == {"idle", "finish", "dispose"}
Forked ==
    remote.fork =>
        /\ run.write => run.place \in Early \cup Settled
        /\ run.write /\ run.ws # 0 => Untouched(run.ws) /\ trees[run.ws].at = run.confirmed
        /\ run.place = "created" => Untouched(run.id) /\ trees[run.id].at = run.first
        /\ Pausing /\ paused.write =>
             Untouched(paused.tree) /\ paused.remote \in {0, paused.local}

\* A /stop writes nothing, and until its first turn a run has confirmed what it began with.
Starting ==
    /\ run.task = "stop" => ~ run.write
    /\ paused.task = "stop" => ~ paused.write
    /\ run.place \in Early => run.confirmed = run.first

\* The ends of a run that must keep its work, and those that have none to keep.
Owing ==
    /\ run.ws # 0 /\ run.write
    /\ \/ run.status = "stopped" /\ run.task # "custom"
       \/ run.status \in Resumable /\ run.task \in {"ci", "repair", "conflict"}
NoWork == Tree.at = run.confirmed /\ ~ Tree.dirty
Keeping ==
    /\ run.place = "finish" /\ Owing => run.keep \/ NoWork
    /\ run.place = "dispose" /\ Owing =>
         \/ paused.tree = run.ws /\ paused.status = run.status
         \/ NoWork

Work == Forked /\ Starting /\ Keeping

\* The run ends and keeps its worktree, owes nothing, or has nothing to keep.
EndsWell ==
    /\ run' \in Runs /\ run'.place = "finish"
    /\ Carries /\ run'.confirmed = run.confirmed
    /\ run.ws # 0 /\ run.write =>
         \/ run'.keep \/ NoWork
         \/ ~ (run'.status = "stopped" /\ run.task # "custom")
            /\ ~ (run'.status \in Resumable /\ run.task \in {"ci", "repair", "conflict"})

LEMMA StopEnds ==
    ASSUME Inv, Work, StopRun
    PROVE  EndsWell
<1>1. run \in Runs /\ run.task \in AllTasks
  BY DEF Inv, Typed, Runs
<1>2. Ended
  BY <1>1, StopTypes
<1>3. /\ run'.status = "stopped"
      /\ run'.keep = (run.ws # 0 /\ run.task \in {"conflict", "ci", "repair", "review"})
  BY <1>1 DEF StopRun, Runs
<1>. QED
  BY <1>1, <1>2, <1>3 DEF Inv, Placed, Work, Starting, Ended, Measures, Carries, EndsWell, AllTasks

LEMMA ThrowEnds ==
    ASSUME Inv, Work, NEW status \in Statuses \ Resumable, End(status) \/ Throw(status)
    PROVE  EndsWell
<1>1. run \in Runs
  BY DEF Inv, Typed
<1>2. CASE End(status)
  <2>1. Ended
    BY <1>1, <1>2, EndTypes
  <2>2. run'.status = status
    BY <1>1, <1>2 DEF End, Runs
  <2>. QED  BY <2>1, <2>2 DEF Ended, Measures, EndsWell, Resumable
<1>3. CASE StopRun
  BY <1>3, StopEnds
<1>. QED  BY <1>2, <1>3 DEF Throw

LEMMA PausingEnds ==
    ASSUME Inv, Work, NEW status \in {"needs_human", "budget_exhausted"},
           \/ Unfinished(status)
           \/ End(status) /\ (run.ws = 0 \/ run.task = "ci" \/ run.task = "stop" \/ NoWork)
    PROVE  EndsWell
<1>1. run \in Runs
  BY DEF Inv, Typed
<1>2. CASE Unfinished(status)
  <2>1. Ended
    BY <1>1, <1>2, UnfinishedTypes
  <2>2. run'.status = status /\ run'.keep = (run.ws # 0 /\ (Keeps(status) \/ run.task = "conflict"))
    BY <1>1, <1>2 DEF Unfinished, Runs
  <2>. QED  BY <2>1, <2>2 DEF Ended, Measures, EndsWell, Keeps
<1>3. CASE End(status) /\ (run.ws = 0 \/ run.task = "ci" \/ run.task = "stop" \/ NoWork)
  <2>1. Ended
    BY <1>1, <1>3, Names, EndTypes
  <2>2. run'.status = status /\ run'.keep = (run.ws # 0 /\ Keeps(status))
    BY <1>1, <1>3 DEF End, Runs
  <2>. QED  BY <1>3, <2>1, <2>2 DEF Ended, Measures, EndsWell, Keeps, Work, Starting
<1>. QED  BY <1>2, <1>3

\* Such an end, and a step of a run that goes on with its worktree as it is.
LEMMA EndWork ==
    ASSUME Inv, Work, Alone, EndsWell
    PROVE  Work'
<1> USE DEF Alone, world, Work
<1>1. Forked'
  BY DEF Forked, EndsWell, Carries, Settled, Untouched, Pausing
<1>2. Starting'
  BY DEF Starting, EndsWell, Carries, Early
<1>3. Keeping'
  BY DEF Keeping, Owing, NoWork, Tree, EndsWell, Carries
<1>. QED  BY <1>1, <1>2, <1>3

LEMMA GoWork ==
    ASSUME Inv, Work, Alone, Carries, run'.confirmed = run.confirmed,
           run'.place \in Places \ {"created", "finish", "dispose", "idle"},
           run'.place \in Early => run.place \in Early,
           remote.fork /\ run.write => run'.place \in Early
    PROVE  Work'
<1> USE DEF Alone, world, Work
<1>1. Forked'
  BY DEF Forked, Carries, Untouched, Pausing
<1>2. Starting'
  BY DEF Starting, Carries, Early
<1>3. Keeping'
  BY DEF Keeping
<1>. QED  BY <1>1, <1>2, <1>3

\* Past its first turn, a run that may write is not about a fork.
LEMMA Own == ASSUME Work, run.place \notin Early \cup Settled
             PROVE  ~ (remote.fork /\ run.write)
  BY DEF Work, Forked

LEMMA StaysWork ==
    ASSUME Inv, Work, NEW place \in Places \ (Early \cup Settled), Go(place), Alone,
           run.place \notin Early \cup Settled
    PROVE  Work'
<1>1. run \in Runs
  BY DEF Inv, Typed
<1>2. Carries /\ Measures /\ run'.place = place
  BY <1>1, GoTypes
<1>. QED  BY <1>2, Own, GoWork DEF Early, Settled, Measures

-----------------------------------------------------------------------------
LEMMA EnterWork == Inv /\ Work /\ Enter => Work'
<1> SUFFICES ASSUME Inv, Work, Enter PROVE Work'
  OBVIOUS
<1>1. run \in Runs /\ run.place = "enter" /\ run.ws = 0 /\ Alone
  BY DEF Inv, Typed, Enter, At, Placed, Without, Alone
<1>2. CASE StopRun
  BY <1>1, <1>2, StopEnds, EndWork
<1>3. CASE End("stopped") /\ run.task = "stop"
  <2>1. Ended
    BY <1>1, <1>3, Names, EndTypes
  <2>. QED  BY <1>1, <2>1, EndWork DEF Ended, Measures, EndsWell
<1>4. CASE End("needs_human")
  BY <1>1, <1>4, PausingEnds, EndWork
<1>5. CASE Go("fetch")
  <2>1. Carries /\ Measures /\ run'.place = "fetch"
    BY <1>1, <1>5, Names, GoTypes
  <2>. QED  BY <1>1, <2>1, GoWork DEF Early, Measures, Places
<1>. QED  BY <1>2, <1>3, <1>4, <1>5 DEF Enter, Guarded

LEMMA FetchWork == Inv /\ Work /\ Fetch => Work'
<1> SUFFICES ASSUME Inv, Work, Fetch PROVE Work'
  OBVIOUS
<1>1. run \in Runs /\ run.place = "fetch" /\ Alone
  BY DEF Inv, Typed, Fetch, At, Alone
<1>2. Carries /\ run'.confirmed = run.confirmed /\ run'.place = "prepare"
  BY <1>1 DEF Fetch, Carries, Runs
<1>. QED  BY <1>1, <1>2, GoWork DEF Early, Places

LEMMA SnapshotLostWork == Inv /\ Work /\ SnapshotLost => Work'
<1> SUFFICES ASSUME Inv, Work, SnapshotLost PROVE Work'
  OBVIOUS
<1>1. run.ws = 0 /\ Alone /\ End("needs_human")
  BY DEF Inv, SnapshotLost, At, Placed, Without, Alone
<1>. QED  BY <1>1, PausingEnds, EndWork

LEMMA FailsWork == Inv /\ Work /\ Fails => Work'
<1> SUFFICES ASSUME Inv, Work, Fails PROVE Work'
  OBVIOUS
<1>1. Alone /\ Throw("harness_failed")
  BY DEF Fails, Alone
<1>. QED  BY <1>1, Names, ThrowEnds, EndWork DEF Resumable

LEMMA ReadyWork == Inv /\ Work /\ Ready => Work'
<1> SUFFICES ASSUME Inv, Work, Ready PROVE Work'
  OBVIOUS
<1>1. run \in Runs /\ run.place = "ready" /\ run.ws # 0 /\ Alone
  BY DEF Inv, Typed, Ready, At, Placed, Without, Places, Alone
<1>2. CASE StopRun
  BY <1>1, <1>2, StopEnds, EndWork
<1>3. CASE End("needs_human") /\ run.write /\ remote.fork
  <2>1. NoWork
    BY <1>1, <1>3 DEF Work, Forked, Untouched, NoWork, Tree
  <2>. QED  BY <1>1, <1>3, <2>1, PausingEnds, EndWork
<1>4. CASE Throw("harness_failed")
  BY <1>1, <1>4, Names, ThrowEnds, EndWork DEF Resumable
<1>5. ASSUME NEW place \in {"deliver", "decide"}, Go(place), ~ (run.write /\ remote.fork)
      PROVE  Work'
  <2>1. place \in Places \ (Early \cup Settled)
    BY DEF Places, Early, Settled
  <2>2. Carries /\ Measures /\ run'.place = place
    BY <1>1, <1>5, <2>1, GoTypes
  <2>. QED  BY <1>1, <1>5, <2>1, <2>2, GoWork DEF Early, Settled, Measures
<1>6. \/ StopRun
      \/ End("needs_human") /\ run.write /\ remote.fork
      \/ Throw("harness_failed")
      \/ ~ (run.write /\ remote.fork) /\ (Go("deliver") \/ Go("decide"))
  BY DEF Ready, Guarded
<1>. QED  BY <1>2, <1>3, <1>4, <1>5, <1>6

LEMMA StartTurnWork ==
    ASSUME Inv, Work, NEW counts \in BOOLEAN, StartTurn(counts), Alone,
           run.place \notin Early \cup Settled
    PROVE  Work'
<1>1. run \in Runs
  BY DEF Inv, Typed
<1>2. CASE StopRun
  BY <1>2, StopEnds, EndWork
<1>3. CASE ~ Halting
  <2>1. run' = [run EXCEPT !.place = "turn", !.phase = "other", !.tries = 0,
                  !.attempts = IF counts THEN @ + 1 ELSE @]
    BY <1>3 DEF StartTurn, Guarded
  <2>2. Carries /\ run'.confirmed = run.confirmed /\ run'.place = "turn"
    BY <1>1, <2>1 DEF Carries, Runs
  <2>. QED  BY <2>2, Own, GoWork DEF Early, Places
<1>. QED  BY <1>2, <1>3 DEF StartTurn, Guarded

LEMMA DecideOtherWork == Inv /\ Work /\ DecideOther => Work'
<1> SUFFICES ASSUME Inv, Work, DecideOther PROVE Work'
  OBVIOUS
<1>1. run.place \notin Early \cup Settled /\ Alone
  BY DEF DecideOther, At, Early, Settled, Alone
<1>2. CASE StartTurn(FALSE)
  BY <1>1, <1>2, StartTurnWork
<1>3. CASE Go("deliver")
  <2>1. "deliver" \in Places \ (Early \cup Settled)
    BY DEF Places, Early, Settled
  <2>. QED  BY <1>1, <1>3, <2>1, StaysWork
<1>. QED  BY <1>2, <1>3 DEF DecideOther

LEMMA DecideCiWork == Inv /\ Work /\ DecideCi => Work'
<1> SUFFICES ASSUME Inv, Work, DecideCi PROVE Work'
  OBVIOUS
<1>1. /\ run \in Runs /\ run.write \in BOOLEAN
      /\ run.place \notin Early \cup Settled /\ run.task = "ci" /\ Alone
  BY DEF DecideCi, At, Early, Settled, Alone, Inv, Typed, Runs
<1>2. CASE End("needs_human")
  BY <1>1, <1>2, PausingEnds, EndWork
<1>3. ASSUME NEW counts \in BOOLEAN, StartTurn(counts) PROVE Work'
  BY <1>1, <1>3, StartTurnWork
<1>4. CASE Throw("harness_failed")
  BY <1>1, <1>4, Names, ThrowEnds, EndWork DEF Resumable
<1>5. CASE StopRun
  BY <1>1, <1>5, StopEnds, EndWork
<1>6. CASE run' = [run EXCEPT !.place = "deliver", !.phase = "ci"]
  <2>1. Carries /\ run'.confirmed = run.confirmed /\ run'.place = "deliver"
    BY <1>1, <1>6 DEF Carries, Runs
  <2>. QED  BY <1>1, <2>1, Own, GoWork DEF Early, Places
<1>7. CASE run' = [run EXCEPT !.place = "finish", !.phase = "ci", !.status = "needs_human",
                              !.keep = TRUE]
  <2>1. /\ run' \in Runs /\ run'.place = "finish" /\ run'.keep
        /\ Carries /\ run'.confirmed = run.confirmed
    BY <1>1, <1>7, Names DEF Carries, Runs
  <2>. QED  BY <1>1, <2>1, EndWork DEF EndsWell
<1>. QED  BY <1>1, <1>2, <1>3, <1>4, <1>5, <1>6, <1>7 DEF DecideCi

LEMMA TurnEndsWork == Inv /\ Work /\ TurnEnds => Work'
<1> SUFFICES ASSUME Inv, Work, TurnEnds PROVE Work'
  OBVIOUS
<1>1. run \in Runs /\ run.place \notin Early \cup Settled /\ Alone
  BY DEF TurnEnds, At, Early, Settled, Alone, Inv, Typed
<1>2. CASE StopRun
  BY <1>1, <1>2, StopEnds, EndWork
<1>3. CASE Completed \/ Retried
  <2>1. \/ run' = [run EXCEPT !.place = "answered", !.late = asked]
        \/ run' = [run EXCEPT !.tries = @ + 1]
    BY <1>3 DEF Completed, Retried
  <2>2. CASE run' = [run EXCEPT !.place = "answered", !.late = asked]
    <3>1. Carries /\ run'.confirmed = run.confirmed /\ run'.place = "answered"
      BY <1>1, <2>2 DEF Carries, Runs
    <3>. QED  BY <1>1, <3>1, Own, GoWork DEF Early, Places
  <2>3. CASE run' = [run EXCEPT !.tries = @ + 1]
    <3>1. Carries /\ run'.confirmed = run.confirmed /\ run'.place = run.place
      BY <1>1, <2>3 DEF Carries, Runs
    <3>2. run.place \in Places
      BY <1>1 DEF Runs
    <3>. QED  BY <1>1, <3>1, <3>2, Own, GoWork DEF Early, Settled, Places
  <2>. QED  BY <2>1, <2>2, <2>3
<1>4. CASE Go("final")
  <2>1. "final" \in Places \ (Early \cup Settled)
    BY DEF Places, Early, Settled
  <2>. QED  BY <1>1, <1>4, <2>1, StaysWork
<1>5. ASSUME NEW status \in {"needs_human", "budget_exhausted"}, Unfinished(status) PROVE Work'
  BY <1>1, <1>5, PausingEnds, EndWork
<1>6. ASSUME NEW status \in {"model_output_truncated", "harness_failed", "provider_unavailable"},
             End(status)
      PROVE  Work'
  BY <1>1, <1>6, Names, ThrowEnds, EndWork DEF Resumable
<1>. QED  BY <1>2, <1>3, <1>4, <1>5, <1>6 DEF TurnEnds, Interrupted, FinalAnswer, Exhausted

LEMMA AnsweredWork == Inv /\ Work /\ Answered => Work'
<1> SUFFICES ASSUME Inv, Work, Answered PROVE Work'
  OBVIOUS
<1>1. run \in Runs /\ run.place \notin Early \cup Settled /\ Alone
  BY DEF Answered, At, Early, Settled, Alone, Inv, Typed
<1>2. CASE StopRun
  BY <1>1, <1>2, StopEnds, EndWork
<1>3. CASE End("conversation_completed")
  BY <1>1, <1>3, Names, ThrowEnds, EndWork DEF Resumable
<1>4. ASSUME NEW place \in {"commit", "post", "deliver"}, Go(place) PROVE Work'
  <2>1. place \in Places \ (Early \cup Settled)
    BY DEF Places, Early, Settled
  <2>. QED  BY <1>1, <1>4, <2>1, StaysWork
<1>5. CASE run' = [run EXCEPT !.place = "decide", !.wrote = "no"]
  <2>1. Carries /\ run'.confirmed = run.confirmed /\ run'.place = "decide"
    BY <1>1, <1>5 DEF Carries, Runs
  <2>. QED  BY <1>1, <2>1, Own, GoWork DEF Early, Places
<1>. QED
  BY <1>2, <1>3, <1>4, <1>5
  DEF Answered, ConversationAnswered, ReviewAnswered, ConflictAnswered, DriverAnswered, Guarded

LEMMA CheckWork == Inv /\ Work /\ Check => Work'
<1> SUFFICES ASSUME Inv, Work, Check PROVE Work'
  OBVIOUS
<1>1. run.place \notin Early \cup Settled /\ Alone
  BY DEF Check, At, Early, Settled, Alone
<1>2. CASE StopRun
  BY <1>1, <1>2, StopEnds, EndWork
<1>3. CASE Throw("harness_failed")
  BY <1>1, <1>3, Names, ThrowEnds, EndWork DEF Resumable
<1>4. CASE Go("push")
  <2>1. "push" \in Places \ (Early \cup Settled)
    BY DEF Places, Early, Settled
  <2>. QED  BY <1>1, <1>4, <2>1, StaysWork
<1>. QED  BY <1>2, <1>3, <1>4 DEF Check, Guarded

LEMMA SendWork == Inv /\ Work /\ (Send \/ Sent) => Work'
<1> SUFFICES ASSUME Inv, Work, Send \/ Sent PROVE Work'
  OBVIOUS
<1>1. run.place \notin Early \cup Settled /\ Alone
  BY DEF Send, Sent, At, Early, Settled, Alone
<1>2. CASE StopRun
  BY <1>1, <1>2, StopEnds, EndWork
<1>3. CASE End("completed")
  BY <1>1, <1>3, Names, ThrowEnds, EndWork DEF Resumable
<1>4. CASE Go("sent")
  <2>1. "sent" \in Places \ (Early \cup Settled)
    BY DEF Places, Early, Settled
  <2>. QED  BY <1>1, <1>4, <2>1, StaysWork
<1>. QED  BY <1>2, <1>3, <1>4 DEF Send, Sent, Guarded

LEMMA ResumeWork == Inv /\ Work /\ Resume => Work'
<1> SUFFICES ASSUME Inv, Work, Resume PROVE Work'
  OBVIOUS
<1>1. /\ run \in Runs /\ paused \in Pauses /\ run.place = "prepare"
      /\ Pausing /\ paused.task = run.task /\ trees[paused.tree].at = paused.local
      /\ (IF paused.remote = 0 THEN trees[paused.tree].first ELSE paused.remote) = run.first
  BY DEF Inv, Typed, Resume, At, Continues, StillFresh, Pausing
<1>2. /\ run'.place = "ready" /\ run'.ws = paused.tree /\ run'.write = paused.write
      /\ run'.task = run.task /\ run'.confirmed = run.confirmed /\ run'.first = run.first
  BY <1>1 DEF Resume, Runs
<1>3. paused'.status = "claimed" /\ paused'.task = paused.task /\ paused'.write = paused.write
  BY <1>1 DEF Resume, Pauses
<1>4. UNCHANGED <<remote, trees>>
  BY DEF Resume, world
<1>5. Forked'
  BY <1>1, <1>2, <1>3, <1>4
  DEF Work, Forked, Starting, Early, Settled, Untouched, Pausing, Resumable
<1>6. Starting'
  BY <1>1, <1>2, <1>3 DEF Work, Starting, Early
<1>7. Keeping'
  BY <1>2 DEF Keeping
<1>. QED  BY <1>5, <1>6, <1>7 DEF Work

LEMMA RejectWork == Inv /\ Work /\ Reject => Work'
<1> SUFFICES ASSUME Inv, Work, Reject PROVE Work'
  OBVIOUS
<1>1. paused \in Pauses /\ run.place = "prepare" /\ run.ws = 0
  BY DEF Inv, Typed, Reject, At, Placed, Without
<1>2. paused'.status = "stale" /\ paused'.task = paused.task /\ paused'.write = paused.write
  BY <1>1 DEF Reject, Pauses
<1>3. UNCHANGED <<remote, run>>
  BY DEF Reject, world
<1>. QED
  BY <1>1, <1>2, <1>3
  DEF Work, Forked, Starting, Keeping, Pausing, Resumable

LEMMA DiscussWork == Inv /\ Work /\ Discuss => Work'
<1> SUFFICES ASSUME Inv, Work, Discuss PROVE Work'
  OBVIOUS
<1>1. run \in Runs /\ run.place = "prepare" /\ run.task = "conversation" /\ ~ run.write
  BY DEF Inv, Typed, Discuss, At, Discussing, Placed
<1>2. /\ run'.place = "ready" /\ run'.write = run.write
      /\ run'.task = run.task /\ run'.confirmed = run.confirmed /\ run'.first = run.first
  BY <1>1 DEF Discuss, Runs
<1>3. UNCHANGED <<remote, trees, paused>>
  BY DEF Discuss, world
<1>. QED
  BY <1>1, <1>2, <1>3
  DEF Work, Forked, Starting, Keeping, Early, Untouched, Pausing

LEMMA CreateWork == Inv /\ Work /\ Create => Work'
<1> SUFFICES ASSUME Inv, Work, Create PROVE Work'
  OBVIOUS
<1>0. /\ run \in Runs /\ run.place = "prepare" /\ run.ws = 0 /\ run.id # 0
      /\ trees \in [1 .. MaxRuns -> TreeRecords] /\ paused.tree < run.id
  BY DEF Inv, Typed, Create, At, Placed, Without, Retains
<1>1. run.id \in 1 .. MaxRuns
  BY <1>0, Bounds DEF Runs
<1>2. /\ run'.place = "created" /\ run'.write = run.write /\ run'.ws = run.ws /\ run'.id = run.id
      /\ run'.task = run.task /\ run'.confirmed = run.confirmed /\ run'.first = run.first
  BY <1>0, <1>1 DEF Create, Runs
<1>3. /\ trees'[run.id].at = run.first /\ trees'[run.id].first = run.first
      /\ ~ trees'[run.id].dirty
      /\ \A t \in 1 .. MaxRuns \ {run.id} : trees'[t] = trees[t]
  BY <1>0, <1>1 DEF Create, Worktree
<1>4. UNCHANGED <<remote, paused>>
  BY DEF Create, world
<1>5. Pausing => paused.tree \in 1 .. MaxRuns \ {run.id}
  BY <1>0, <1>1, Bounds DEF Inv, Typed, Pauses, Retains
<1>. QED
  BY <1>0, <1>1, <1>2, <1>3, <1>4, <1>5
  DEF Work, Forked, Starting, Keeping, Early, Untouched, Pausing

LEMMA PreparedWork == Inv /\ Work /\ Prepared => Work'
<1> SUFFICES ASSUME Inv, Work, Prepared PROVE Work'
  OBVIOUS
<1>1. run \in Runs /\ run.place = "created"
  BY DEF Inv, Typed, Prepared, At
<1>2. /\ run'.place = "ready" /\ run'.write = run.write /\ run'.ws = run.id
      /\ run'.task = run.task /\ run'.confirmed = run.confirmed /\ run'.first = run.first
  BY <1>1 DEF Prepared, Runs
<1>3. UNCHANGED <<remote, trees, paused>>
  BY DEF Prepared, world
<1>. QED
  BY <1>1, <1>2, <1>3
  DEF Work, Forked, Starting, Keeping, Early, Untouched, Pausing

\* Steps that change a worktree are those of a run that may write, past its start.
LEMMA TreeWork ==
    ASSUME Inv, Work, UNCHANGED <<remote, paused>>,
           run.write, run.place \notin Early \cup Settled,
           run'.place \notin Early \cup {"finish", "dispose"}, run'.task = run.task,
           run'.write = run.write
    PROVE  Work'
<1>1. ~ remote.fork
  BY DEF Work, Forked
<1>. QED  BY <1>1 DEF Work, Forked, Starting, Keeping

LEMMA AgentWork == Inv /\ Work /\ Agent => Work'
<1> SUFFICES ASSUME Inv, Work, Agent PROVE Work'
  OBVIOUS
<1>1. run.write /\ run.place = "turn" /\ UNCHANGED <<remote, paused, run>>
  BY DEF Agent, Edit, Rewind, AgentCommits, Works, Working, At, world
<1>. QED  BY <1>1, TreeWork DEF Early, Settled

LEMMA CommitWork == Inv /\ Work /\ Commit => Work'
<1> SUFFICES ASSUME Inv, Work, Commit PROVE Work'
  OBVIOUS
<1>1. /\ run \in Runs /\ run.place = "commit" /\ run.write
      /\ UNCHANGED <<world, paused, asked, abandoned>>
  BY DEF Inv, Typed, Placed, Commit, At
<1>2. CASE StopRun /\ UNCHANGED <<commits, trees>>
  BY <1>1, <1>2, StopEnds, EndWork DEF Alone
<1>3. CASE Throw("harness_failed") /\ UNCHANGED <<commits, trees>>
  BY <1>1, <1>3, Names, ThrowEnds, EndWork DEF Alone, Resumable
<1>4. CASE run' = [run EXCEPT !.place = "check", !.previous = run.head, !.phase = "other",
                              !.head = trees'[run.ws].at]
  <2>1. run'.place = "check" /\ run'.task = run.task /\ run'.write = run.write
    BY <1>1, <1>4 DEF Runs
  <2>. QED  BY <1>1, <2>1, TreeWork DEF world, Early, Settled
<1>. QED  BY <1>2, <1>3, <1>4 DEF Commit

LEMMA PushWork == Inv /\ Work /\ Push => Work'
<1> SUFFICES ASSUME Inv, Work, Push PROVE Work'
  OBVIOUS
<1>1. /\ run \in Runs /\ run.place = "push" /\ run.ws # 0
      /\ UNCHANGED <<trees, paused>> /\ remote'.fork = remote.fork
  BY DEF Inv, Typed, Push, At, Placed, Without, Places
<1>2. CASE Go("confirm")
  <2>1. Carries /\ Measures /\ run'.place = "confirm"
    BY <1>1, <1>2, Names, GoTypes
  <2>. QED
    BY <1>1, <2>1
    DEF Work, Forked, Starting, Keeping, Early, Settled, Carries, Measures, Untouched, Pausing
<1>3. CASE Throw("harness_failed")
  <2>1. EndsWell
    BY <1>3, Names, ThrowEnds DEF Resumable
  <2>2. Keeping'
    BY <1>1, <2>1 DEF Keeping, Owing, NoWork, Tree, EndsWell, Carries
  <2>. QED
    BY <1>1, <2>1, <2>2
    DEF Work, Forked, Starting, Early, Settled, EndsWell, Carries, Untouched, Pausing
<1>. QED  BY <1>2, <1>3 DEF Push

LEMMA ConfirmWork == Inv /\ Work /\ Confirm => Work'
<1> SUFFICES ASSUME Inv, Work, Confirm PROVE Work'
  OBVIOUS
<1>1. run \in Runs /\ run.place = "confirm" /\ Alone
  BY DEF Inv, Typed, Confirm, At, Alone
<1>2. CASE Throw("harness_failed")
  BY <1>1, <1>2, Names, ThrowEnds, EndWork DEF Resumable
<1>3. ASSUME NEW place \in {"deliver", "post", "decide"},
             run' = [run EXCEPT !.confirmed = run.head, !.wrote = "yes", !.place = place]
      PROVE  Work'
  <2>1. run'.place = place /\ run'.task = run.task /\ run'.write = run.write
    BY <1>1, <1>3 DEF Runs
  <2>. QED
    BY <1>1, <2>1
    DEF Alone, world, Work, Forked, Starting, Keeping, Early, Settled, Untouched, Pausing
<1>4. \E place \in {"deliver", "post", "decide"} :
        run' = [run EXCEPT !.confirmed = run.head, !.wrote = "yes", !.place = place]
      \/ Throw("harness_failed")
  BY DEF Confirm
<1>. QED  BY <1>2, <1>3, <1>4

LEMMA PublishWork == Inv /\ Work /\ (Deliver \/ Post) => Work'
<1> SUFFICES ASSUME Inv, Work, Deliver \/ Post PROVE Work'
  OBVIOUS
<1>1. /\ run \in Runs /\ paused \in Pauses /\ run.place \notin Early \cup Settled
      /\ UNCHANGED <<world, commits, trees, asked, abandoned>>
  BY DEF Inv, Typed, Deliver, Post, At, Early, Settled
<1>2. CASE StopRun /\ UNCHANGED paused
  BY <1>1, <1>2, StopEnds, EndWork DEF Alone
<1>3. ASSUME NEW place \in {"send", "review"}, Go(place), PauseOver PROVE Work'
  <2>1. Carries /\ Measures /\ run'.place = place
    BY <1>1, <1>3, Names, GoTypes
  <2>2. /\ paused'.task = paused.task /\ paused'.write = paused.write
        /\ paused' = paused \/ paused'.status = "completed"
    BY <1>1, <1>3 DEF PauseOver, Pauses
  <2>. QED
    BY <1>1, <2>1, <2>2
    DEF world, Work, Forked, Starting, Keeping, Early, Settled, Carries, Untouched, Pausing,
        Resumable
<1>. QED  BY <1>2, <1>3 DEF Deliver, Post

LEMMA PublishReviewWork == Inv /\ Work /\ PublishReview => Work'
<1> SUFFICES ASSUME Inv, Work, PublishReview PROVE Work'
  OBVIOUS
<1>1. run \in Runs /\ run.place = "review" /\ Alone
  BY DEF Inv, Typed, PublishReview, At, Alone
<1>2. CASE StopRun
  BY <1>1, <1>2, StopEnds, EndWork
<1>3. ASSUME NEW status \in {"completed", "publication_interrupted"}, NEW saved \in BOOLEAN,
             run' = [run EXCEPT !.place = "dispose", !.status = status, !.result = saved]
      PROVE  Work'
  <2>1. /\ run'.place = "dispose" /\ run'.status = status
        /\ run'.task = run.task /\ run'.write = run.write
    BY <1>1, <1>3 DEF Runs
  <2>. QED
    BY <1>1, <2>1
    DEF Alone, world, Work, Forked, Starting, Keeping, Owing, Early, Settled, Untouched,
        Pausing, Resumable
<1>. QED  BY <1>2, <1>3 DEF PublishReview, Guarded

LEMMA FinishWork == Inv /\ Work /\ Finish => Work'
<1> SUFFICES ASSUME Inv, Work, Finish PROVE Work'
  OBVIOUS
<1>1. run \in Runs /\ run.place = "finish" /\ run.ws \in 0 .. MaxRuns
  BY DEF Inv, Typed, Finish, At, Runs
<1>2. /\ run'.place = "dispose" /\ run'.write = run.write /\ run'.ws = run.ws
      /\ run'.task = run.task /\ run'.confirmed = run.confirmed /\ run'.status = run.status
  BY <1>1 DEF Finish, Runs
<1>3. UNCHANGED <<remote, trees>> /\ paused' = IF run.keep THEN Retained ELSE paused
  BY DEF Finish, world
<1>4. Forked'
  BY <1>1, <1>2, <1>3
  DEF Inv, Placed, Work, Forked, Early, Settled, Untouched, Pausing, Retained, Tree
<1>5. Starting'
  BY <1>1, <1>2, <1>3 DEF Work, Starting, Early, Retained
<1>6. Keeping'
  BY <1>1, <1>2, <1>3 DEF Work, Keeping, Owing, NoWork, Tree, Retained
<1>. QED  BY <1>4, <1>5, <1>6 DEF Work

\* The run is over: what is paused is as it was.
LEMMA IdleWork ==
    ASSUME Inv, Work, UNCHANGED <<remote, paused>>, run' = Idle(run.id),
           Pausing => trees'[paused.tree] = trees[paused.tree]
    PROVE  Work'
<1>1. run'.place = "idle" /\ ~ run'.write /\ run'.task = "conversation"
  BY DEF Idle
<1>. QED  BY <1>1 DEF Work, Forked, Starting, Keeping, Early, Untouched, Pausing

LEMMA DisposeWork == Inv /\ Work /\ Dispose => Work'
<1> SUFFICES ASSUME Inv, Work, Dispose PROVE Work'
  OBVIOUS
<1>1. /\ run \in Runs /\ run.place = "dispose" /\ trees \in [1 .. MaxRuns -> TreeRecords]
      /\ paused \in Pauses
  BY DEF Inv, Typed, Dispose, At
<1>2. UNCHANGED <<remote, paused>> /\ run' = Idle(run.id)
  BY DEF Dispose, world
<1>3. Pausing => trees'[paused.tree] = trees[paused.tree]
  <2>1. Pausing /\ run.ws # 0 /\ paused.tree = run.ws => HeldTree(run.ws)
    BY DEF Pausing, HeldTree, Held, Resumable
  <2>2. Pausing => paused.tree \in 1 .. MaxRuns
    BY <1>1 DEF Inv, Retains, Pauses
  <2>3. Pausing /\ run.ws = 0 => paused.tree # run.id
    BY <1>1 DEF Inv, Retains, Runs, Pauses
  <2>. QED  BY <1>1, <2>1, <2>2, <2>3 DEF Dispose, Target, Removed
<1>. QED  BY <1>2, <1>3, IdleWork

LEMMA DieWork == Inv /\ Work /\ Die => Work'
<1> SUFFICES ASSUME Inv, Work, Die PROVE Work'
  OBVIOUS
<1>. QED  BY IdleWork DEF Die

LEMMA WatchStopWork == Inv /\ Work /\ WatchStop => Work'
<1> SUFFICES ASSUME Inv, Work, WatchStop PROVE Work'
  OBVIOUS
<1>1. run \in Runs /\ Alone
  BY DEF Inv, Typed, WatchStop, Alone
<1>2. /\ Carries /\ run'.place = run.place /\ run'.confirmed = run.confirmed
      /\ run'.status = run.status /\ run'.keep = run.keep
  BY <1>1 DEF WatchStop, Runs, Carries
<1>3. Forked' /\ Starting'
  BY <1>1, <1>2 DEF Alone, world, Carries, Work, Forked, Starting, Untouched, Pausing
<1>4. Keeping'
  BY <1>1, <1>2 DEF Alone, Carries, Work, Keeping, Owing, NoWork, Tree
<1>. QED  BY <1>3, <1>4 DEF Work

LEMMA OthersWork ==
    Inv /\ Work /\ (PeoplePush \/ BaseMoves \/ OpenOrClose \/ AskStop \/ UNCHANGED vars) => Work'
<1> SUFFICES ASSUME Inv, Work, PeoplePush \/ BaseMoves \/ OpenOrClose \/ AskStop \/ UNCHANGED vars
             PROVE  Work'
  OBVIOUS
<1>1. UNCHANGED <<trees, paused, run>> /\ remote'.fork = remote.fork
  BY DEF PeoplePush, BaseMoves, OpenOrClose, AskStop, vars, Inv, Typed
<1>. QED
  BY <1>1 DEF Work, Forked, Starting, Keeping, Owing, NoWork, Tree, Untouched, Pausing

LEMMA BeginWork ==
    ASSUME Inv, Work, NEW task \in Tasks, NEW write \in BOOLEAN, Begin(task, write)
    PROVE  Work'
<1>1. UNCHANGED <<remote, trees, paused>>
  BY DEF Begin, world
<1>2. /\ run'.place \in {"enter", "finish"} /\ run'.ws = 0 /\ run'.task = task
      /\ run'.write = write /\ run'.confirmed = run'.first
  BY DEF Begin, Idle
<1>3. task = "stop" => ~ write
  BY DEF Begin
<1>. QED
  BY <1>1, <1>2, <1>3
  DEF Work, Forked, Starting, Keeping, Owing, Early, Settled, Untouched, Pausing

LEMMA StepWork == Inv /\ Work /\ [Next]_vars => Work'
  BY EnterWork, FetchWork, ResumeWork, SnapshotLostWork, RejectWork, DiscussWork, CreateWork,
     PreparedWork, ReadyWork, DecideOtherWork, DecideCiWork, TurnEndsWork, AnsweredWork,
     CommitWork, CheckWork, PushWork, ConfirmWork, PublishWork, SendWork, PublishReviewWork,
     FinishWork, DisposeWork, FailsWork, AgentWork, WatchStopWork, OthersWork, DieWork, BeginWork
  DEF Next, RunStep

LEMMA WorkInvariant == Spec => []Work
<1>1. Init => Work
  BY DEF Init, Idle, NoPause, Work, Forked, Starting, Keeping, Early, Settled, Pausing, Resumable
<1>. QED  BY <1>1, Invariance, StepWork, PTL DEF Spec

\* What the end of a run owes is there after the disposal.
LEMMA KeptStep == Inv /\ Work /\ [Next]_vars => Kept
<1> SUFFICES ASSUME Inv, Work, [Next]_vars, run.place = "dispose", run'.place = "idle",
                    crashes' = crashes, Owing, Unpushed
             PROVE  trees'[run.ws] = Tree /\ paused.tree = run.ws /\ paused.status = run.status
  BY DEF Kept, Owing, At
<1>1. paused.tree = run.ws /\ paused.status = run.status
  BY DEF Work, Keeping, NoWork, Unpushed
<1>2. HeldTree(run.ws) /\ run.ws # 0
  BY <1>1 DEF HeldTree, Held, Owing, Resumable
<1>3. Dispose
  <2>1. run \in Runs /\ crashes \in Nat
    BY DEF Inv, Typed
  <2>2. ~ Die /\ ~ UNCHANGED run
    BY <2>1 DEF Die
  <2>3. run' # [run EXCEPT !.aborted = TRUE]
    BY <2>1 DEF Runs
  <2>. QED
    BY <2>2, <2>3
    DEF Next, RunStep, Agent, At, Begin, Enter, Fetch, Resume, SnapshotLost, Reject, Discuss,
        Create, Prepared, Ready, DecideOther, DecideCi, TurnEnds, Answered, Commit, Check, Push,
        Confirm, Deliver, Send, Sent, Post, PublishReview, Finish, Fails, Edit, Rewind,
        AgentCommits, Works, WatchStop, PeoplePush, BaseMoves, OpenOrClose, AskStop, vars
<1>. QED  BY <1>1, <1>2, <1>3 DEF Dispose, Tree

\* What a run that paused did not push stays in its worktree, and the pause names it.
THEOREM UnfinishedWorkIsKept == Spec => WorkIsKept
<1>1. Inv /\ Work /\ [Next]_vars => [Kept]_vars
  BY KeptStep
<1>. QED  BY <1>1, Invariance, WorkInvariant, PTL DEF Spec, WorkIsKept
=============================================================================
