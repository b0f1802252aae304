------------------------- MODULE ConversationProofs -------------------------
(***************************************************************************)
(* Theorems of Conversation, for every set of comments and workers, every  *)
(* number of faults and every choice of the processes that may die.        *)
(*                                                                         *)
(* The argument: a process in one of the HoldingPlaces has the run claim,  *)
(* so there is one such process at a time, and an active run is its own.   *)
(* Hence what the claim's holder has read stays true until it writes:      *)
(* there still is a comment to take (InspectFinds), and the limit of a     *)
(* close covers everything handled or retired so far (LimitCovers), for    *)
(* only received comments are handled (OnlyReceived).  So nothing past     *)
(* comes back, and a comment that was run, being past, is not run again.   *)
(***************************************************************************)
EXTENDS Conversation, WellFoundedInduction, TLAPS

\* The places where a process has the run claim.
HoldingPlaces ==
    {"entry", "recover", "republish", "recheck", "inspect", "run", "needs_human", "reviewed",
     "publishing", "stopping", "publish", "release", "leave", "finalized", "done"}
      \cup ClosePlaces

\* Those where its run may be active.
ActivePlaces == {"republish", "run", "needs_human", "reviewed", "publishing"}

HoldersHaveClaim == \A p \in Processes : pc[p] \in HoldingPlaces => claim = p

ActiveRuns ==
    state.active # Nobody =>
        /\ state.active \in Workers
        /\ claim = state.active
        /\ pc[state.active] \in ActivePlaces

\* Only received comments are saved or handled, and the one in the server's hands is one.
Received(c) == c \in Comments /\ row[c] # "none"
OnlyReceived ==
    /\ \A c \in inbox \cup state.handled : Received(c)
    /\ pc[Server] \in {"check", "save", "look", "mark"} => Received(current)

\* The worker that is about to take a comment still finds one.
InspectFinds == \A w \in Workers : pc[w] = "inspect" => Pending # {}

\* From the survey to the tombstone the limit is at or above what is past.
LimitCovers ==
    \A p \in Processes :
        pc[p] \in {"announce", "dispose", "sweep", "tombstone"} =>
            \A c \in Comments : Past(c) => c <= limit

RunsArePast == \A c \in Comments : runs[c] <= 1 /\ (runs[c] = 1 => Past(c))

Inv ==
    /\ TypeOK
    /\ HoldersHaveClaim
    /\ ActiveRuns
    /\ OnlyReceived
    /\ InspectFinds
    /\ LimitCovers
    /\ RunsArePast

\* A nonempty set of naturals has a least element, a bounded one a greatest: Min and Max.
LEMMA LeastExists ==
    ASSUME NEW S \in SUBSET Nat, S # {}
    PROVE  \E x \in S : \A y \in S : x <= y
<1> DEFINE R == {ss \in Nat \X Nat : ss[1] < ss[2]}
<1>1. IsWellFoundedOn(R, Nat)
    BY NatLessThanWellFounded, Zenon DEF OpToRel
<1>2. \E x \in S : \A y \in S : ~ (<<y, x>> \in R)
    <2> HIDE DEF R
    <2> QED BY <1>1, WFMin, Zenon
<1>3. ASSUME NEW x \in Nat, NEW y \in Nat, ~ (<<y, x>> \in R) PROVE x <= y
    BY <1>3
<1> QED BY <1>2, <1>3

\* Min is the least element.
LEMMA MinFacts ==
    ASSUME NEW S \in SUBSET Nat, S # {}
    PROVE  Min(S) \in S /\ \A y \in S : Min(S) <= y
BY LeastExists DEF Min

\* By reflection: n - x is least where x is greatest.
LEMMA GreatestExists ==
    ASSUME NEW n \in Nat, NEW S \in SUBSET (0 .. n), S # {}
    PROVE  \E x \in S : \A y \in S : x >= y
<1> DEFINE T == {n - x : x \in S}
<1>1. T \in SUBSET Nat /\ T # {}
    <2>1. \A x \in S : n - x \in Nat OBVIOUS
    <2> QED BY <2>1
<1>2. PICK t \in T : \A y \in T : t <= y
    BY <1>1, LeastExists
<1>3. PICK x \in S : t = n - x
    BY <1>2
<1>4. \A y \in S : x >= y
    <2> TAKE y \in S
    <2>1. n - y \in T OBVIOUS
    <2>2. n - x <= n - y BY <2>1, <1>2, <1>3
    <2> QED BY <2>2
<1> QED BY <1>4

\* Max is the greatest element.
LEMMA MaxFacts ==
    ASSUME NEW n \in Nat, NEW S \in SUBSET (0 .. n), S # {}
    PROVE  Max(S) \in S /\ \A y \in S : Max(S) >= y
BY GreatestExists DEF Max

\* The oldest pending comment.
LEMMA PendingLeast ==
    ASSUME TypeOK, Pending # {}
    PROVE  Min(Pending) \in Pending /\ Min(Pending) \in Comments
<1>1. Pending \subseteq Comments
    BY DEF TypeOK, Pending
<1>2. Comments \in SUBSET Nat
    BY ConversationAssumption
<1>3. Pending \in SUBSET Nat
    BY <1>1, <1>2
<1>4. Min(Pending) \in Pending
    BY <1>3, MinFacts
<1> QED BY <1>1, <1>4

\* requeueOldestBlockedDelivery gives rows.
LEMMA RequeuedTyped ==
    ASSUME NEW rows \in [Kinds -> Letters], NEW queue \in Requeued(rows)
    PROVE  queue \in [Kinds -> Letters]
BY DEF Requeued, Letters

\* closedThrough is the id of a comment, and no received or retired comment is above it.
LEMMA HighWaterFacts ==
    ASSUME TypeOK
    PROVE  /\ HighWater \in Comments \cup {0}
           /\ state.through <= HighWater
           /\ \A c \in Comments : Received(c) => c <= HighWater
<1> DEFINE Ids == {journal.comment, state.through} \cup inbox \cup {c \in Comments : row[c] # "none"}
<1>1. Ids \in SUBSET (Comments \cup {0}) /\ state.through \in Ids
    BY DEF TypeOK, RunState
<1>2. Comments \cup {0} \in SUBSET (0 .. MaxId) /\ MaxId \in Nat
    BY ConversationAssumption
<1>3. \A c \in Comments : Received(c) => c \in Ids
    BY DEF Received
<1>4. HighWater = Max(Ids)
    BY DEF HighWater
<1> HIDE DEF Ids
<1>5. Max(Ids) \in Ids /\ \A y \in Ids : Max(Ids) >= y
    <2>1. Ids \in SUBSET (0 .. MaxId) /\ Ids # {}
        BY <1>1, <1>2
    <2> QED BY <1>2, <2>1, MaxFacts
<1>6. \A x, y \in Comments \cup {0} : x >= y => y <= x
    BY <1>2
<1> QED BY <1>1, <1>3, <1>4, <1>5, <1>6

\* Every step keeps the types.
LEMMA TypeNext == Inv /\ [Next]_vars => TypeOK'
<1> SUFFICES ASSUME Inv, [Next]_vars PROVE TypeOK'
    OBVIOUS
<1>0. TypeOK /\ OnlyReceived /\ InspectFinds
    BY DEF Inv
<1> USE <1>0 DEF TypeOK, communication, artifacts, Goto, At
<1>1. ASSUME NEW c \in Comments, Receive(c) PROVE TypeOK'
    <2>1. row' \in [Comments -> InboundStatus]
        BY <1>1 DEF Receive, InboundStatus
    <2> QED BY <1>1, <2>1 DEF Receive
<1>2. ASSUME NEW c \in Comments, Verify(c) PROVE TypeOK'
    <2>1. row' \in [Comments -> InboundStatus]
        BY <1>2 DEF Verify, InboundStatus
    <2>2. pc' \in [Processes -> Places]
        BY <1>2 DEF Verify, Places, WorkerPlaces, ClosePlaces, ServerPlaces, Processes
    <2>3. current' \in Comments \cup {0}
        BY <1>2 DEF Verify
    <2> QED BY <1>2, <2>1, <2>2, <2>3 DEF Verify
<1>3. ASSUME NEW c \in Comments, Resume(c) PROVE TypeOK'
    <2>1. pc' \in [Processes -> Places]
        BY <1>3 DEF Resume, Places, WorkerPlaces, ClosePlaces, ServerPlaces, Processes
    <2>2. current' \in Comments \cup {0}
        BY <1>3 DEF Resume
    <2> QED BY <1>3, <2>1, <2>2 DEF Resume
<1>4. ASSUME CheckRetired PROVE TypeOK'
    <2>1. row' \in [Comments -> InboundStatus]
        BY <1>4 DEF CheckRetired, InboundStatus
    <2>2. pc' \in [Processes -> Places]
        BY <1>4 DEF CheckRetired, Places, WorkerPlaces, ClosePlaces, ServerPlaces, Processes
    <2>3. current' \in Comments \cup {0}
        BY <1>4 DEF CheckRetired
    <2> QED BY <1>4, <2>1, <2>2, <2>3 DEF CheckRetired
<1>5. ASSUME SaveReply PROVE TypeOK'
    <2>1. inbox' \in SUBSET Comments
        BY <1>5 DEF SaveReply, OnlyReceived, Received
    <2>2. pc' \in [Processes -> Places]
        BY <1>5 DEF SaveReply, OnlyReceived, Received, Places, WorkerPlaces, ClosePlaces,
           ServerPlaces, Processes
    <2> QED BY <1>5, <2>1, <2>2 DEF SaveReply
<1>6. ASSUME Look PROVE TypeOK'
    <2>1. pc' \in [Processes -> Places]
        BY <1>6 DEF Look, Places, WorkerPlaces, ClosePlaces, ServerPlaces, Processes
    <2> QED BY <1>6, <2>1 DEF Look
<1>7. ASSUME DispatchFails PROVE TypeOK'
    <2>1. row' \in [Comments -> InboundStatus]
        BY <1>7 DEF DispatchFails, InboundStatus
    <2>2. pc' \in [Processes -> Places]
        BY <1>7 DEF DispatchFails, Places, WorkerPlaces, ClosePlaces, ServerPlaces, Processes
    <2>3. current' \in Comments \cup {0}
        BY <1>7 DEF DispatchFails
    <2>4. faults' \in 0 .. MaxFaults
        BY <1>7, ConversationAssumption DEF DispatchFails, Fault, Answer
    <2> QED BY <1>7, <2>1, <2>2, <2>3, <2>4 DEF DispatchFails
<1>8. ASSUME MarkDispatched PROVE TypeOK'
    <2>1. row' \in [Comments -> InboundStatus]
        BY <1>8 DEF MarkDispatched, InboundStatus
    <2>2. pc' \in [Processes -> Places]
        BY <1>8 DEF MarkDispatched, Places, WorkerPlaces, ClosePlaces, ServerPlaces, Processes
    <2>3. current' \in Comments \cup {0}
        BY <1>8 DEF MarkDispatched
    <2> QED BY <1>8, <2>1, <2>2, <2>3 DEF MarkDispatched
<1>9. ASSUME NEW k \in Kinds, Drain(k) PROVE TypeOK'
    <2>1. letter' \in [Kinds -> Letters]
        BY <1>9 DEF Drain, Letters, Kinds
    <2>2. faults' \in 0 .. MaxFaults
        BY <1>9, ConversationAssumption DEF Drain, Fault, Answer
    <2> QED BY <1>9, <2>1, <2>2 DEF Drain
<1>10. ASSUME NEW k \in Kinds, Finalize(k) PROVE TypeOK'
    <2>1. state' \in RunState
        BY <1>10 DEF Finalize, FinalizedOwed, RunState, Processes
    <2>2. review' \in {"none", "saved", "ready"}
        BY <1>10 DEF Finalize, FinalizedReview
    <2>3. notice' \in {"none", "recoverable", "other", "told"}
        BY <1>10 DEF Finalize, FinalizedNotice
    <2>4. letter' \in [Kinds -> Letters]
        BY <1>10 DEF Finalize, Letters, Kinds
    <2>5. claim' \in Processes \cup {Nobody}
        BY <1>10 DEF Finalize, Processes
    <2>6. pc' \in [Processes -> Places]
        BY <1>10 DEF Finalize, Places, WorkerPlaces, ClosePlaces, ServerPlaces, Processes
    <2> QED BY <1>10, <2>1, <2>2, <2>3, <2>4, <2>5, <2>6 DEF Finalize
<1>11. ASSUME ServerRelease PROVE TypeOK'
    <2>1. letter' \in [Kinds -> Letters]
        BY <1>11 DEF ServerRelease, Letters, Kinds
    <2>2. claim' \in Processes \cup {Nobody}
        BY <1>11 DEF ServerRelease, Processes
    <2>3. pc' \in [Processes -> Places]
        BY <1>11 DEF ServerRelease, Places, WorkerPlaces, ClosePlaces, ServerPlaces, Processes
    <2>4. limit' \in Comments \cup {0}
        BY <1>11 DEF ServerRelease
    <2> QED BY <1>11, <2>1, <2>2, <2>3, <2>4 DEF ServerRelease
<1>12. ASSUME NEW w \in Workers, Boot(w) PROVE TypeOK'
    <2>1. pc' \in [Processes -> Places]
        BY <1>12 DEF Boot, Places, WorkerPlaces, ClosePlaces, ServerPlaces, Processes
    <2> QED BY <1>12, <2>1 DEF Boot
<1>13. ASSUME NEW w \in Workers, ClaimRun(w) PROVE TypeOK'
    <2>1. claim' \in Processes \cup {Nobody}
        BY <1>13 DEF ClaimRun, Processes
    <2>2. pc' \in [Processes -> Places]
        BY <1>13 DEF ClaimRun, Places, WorkerPlaces, ClosePlaces, ServerPlaces, Processes
    <2> QED BY <1>13, <2>1, <2>2 DEF ClaimRun
<1>14. ASSUME NEW w \in Workers, EnterClose(w) PROVE TypeOK'
    <2>1. journal' \in [comment : Comments \cup {0}, announced : BOOLEAN]
        BY <1>14, PendingLeast DEF EnterClose, OldestIsClose, Closing
    <2>2. letter' \in [Kinds -> Letters]
        BY <1>14, RequeuedTyped DEF EnterClose, Letters, Kinds
    <2>3. pc' \in [Processes -> Places]
        BY <1>14 DEF EnterClose, Places, WorkerPlaces, ClosePlaces, ServerPlaces, Processes
    <2> QED BY <1>14, <2>1, <2>2, <2>3 DEF EnterClose
<1>15. ASSUME NEW w \in Workers, EnterOther(w) PROVE TypeOK'
    <2>1. state' \in RunState
        BY <1>15 DEF EnterOther, RunState, Processes
    <2>2. letter' \in [Kinds -> Letters]
        BY <1>15, RequeuedTyped DEF EnterOther, Letters, Kinds
    <2>3. pc' \in [Processes -> Places]
        BY <1>15 DEF EnterOther, Places, WorkerPlaces, ClosePlaces, ServerPlaces, Processes
    <2>4. faults' \in 0 .. MaxFaults
        BY <1>15, ConversationAssumption DEF EnterOther, Fault, Answer
    <2> QED BY <1>15, <2>1, <2>2, <2>3, <2>4 DEF EnterOther
<1>16. ASSUME NEW w \in Workers, RecoverNotice(w) PROVE TypeOK'
    <2>1. notice' \in {"none", "recoverable", "other", "told"}
        BY <1>16 DEF RecoverNotice
    <2>2. letter' \in [Kinds -> Letters]
        BY <1>16 DEF RecoverNotice, Letters, Kinds
    <2>3. pc' \in [Processes -> Places]
        BY <1>16 DEF RecoverNotice, Places, WorkerPlaces, ClosePlaces, ServerPlaces, Processes
    <2>4. faults' \in 0 .. MaxFaults
        BY <1>16, ConversationAssumption DEF RecoverNotice, Fault, Answer, Deliver
    <2> QED BY <1>16, <2>1, <2>2, <2>3, <2>4 DEF RecoverNotice
<1>17. ASSUME NEW w \in Workers, RecoverReview(w) PROVE TypeOK'
    <2>1. state' \in RunState
        BY <1>17 DEF RecoverReview, RunState, Processes
    <2>2. review' \in {"none", "saved", "ready"}
        BY <1>17 DEF RecoverReview
    <2>3. pc' \in [Processes -> Places]
        BY <1>17 DEF RecoverReview, Places, WorkerPlaces, ClosePlaces, ServerPlaces, Processes
    <2> QED BY <1>17, <2>1, <2>2, <2>3 DEF RecoverReview
<1>18. ASSUME NEW w \in Workers, PublishReview(w) PROVE TypeOK'
    <2>1. state' \in RunState
        BY <1>18 DEF PublishReview, RunState, Processes
    <2>2. review' \in {"none", "saved", "ready"}
        BY <1>18 DEF PublishReview
    <2>3. letter' \in [Kinds -> Letters]
        BY <1>18 DEF PublishReview, Letters, Kinds
    <2>4. pc' \in [Processes -> Places]
        BY <1>18 DEF PublishReview, Places, WorkerPlaces, ClosePlaces, ServerPlaces, Processes
    <2>5. faults' \in 0 .. MaxFaults
        BY <1>18, ConversationAssumption DEF PublishReview, Fault, Answer, Deliver
    <2> QED BY <1>18, <2>1, <2>2, <2>3, <2>4, <2>5 DEF PublishReview
<1>19. ASSUME NEW w \in Workers, Recheck(w) PROVE TypeOK'
    <2>1. pc' \in [Processes -> Places]
        BY <1>19 DEF Recheck, Places, WorkerPlaces, ClosePlaces, ServerPlaces, Processes
    <2> QED BY <1>19, <2>1 DEF Recheck
<1>20. ASSUME NEW w \in Workers, Inspect(w) PROVE TypeOK'
    <2>1. state' \in RunState
        BY <1>20, PendingLeast DEF Inspect, InspectFinds, RunState, Processes, Handled
    <2>2. review' \in {"none", "saved", "ready"}
        BY <1>20 DEF Inspect, InspectFinds
    <2>3. notice' \in {"none", "recoverable", "other", "told"}
        BY <1>20 DEF Inspect, InspectFinds
    <2>4. letter' \in [Kinds -> Letters]
        BY <1>20 DEF Inspect, InspectFinds, Letters, Kinds
    <2>5. pc' \in [Processes -> Places]
        BY <1>20 DEF Inspect, InspectFinds, Places, WorkerPlaces, ClosePlaces, ServerPlaces,
           Processes
    <2>6. runs' \in [Comments -> Nat]
        BY <1>20, PendingLeast DEF Inspect, InspectFinds
    <2> QED BY <1>20, <2>1, <2>2, <2>3, <2>4, <2>5, <2>6 DEF Inspect
<1>21. ASSUME NEW w \in Workers, NEW c \in Closes, RefuseClose(w, c) PROVE TypeOK'
    <2>1. c \in Comments
        BY <1>21, ConversationAssumption
    <2>2. PICK outcome \in Letters :
             /\ Answer(outcome)
             /\ letter' = [letter EXCEPT !["refusal"] = outcome]
             /\ state' = [state EXCEPT !.handled = @ \cup {c},
                            !.owed = IF outcome = "delivered" THEN @ \ {"refusal"}
                                                             ELSE @ \cup {"refusal"}]
        BY <1>21 DEF RefuseClose
    <2>3. state.handled \cup {c} \in SUBSET Comments
        BY <2>1 DEF RunState
    <2>4. state' \in RunState
        <3>1. CASE outcome = "delivered"
            BY <2>2, <2>3, <3>1 DEF RunState
        <3>2. CASE outcome # "delivered"
            BY <2>2, <2>3, <3>2 DEF RunState
        <3> QED BY <3>1, <3>2
    <2>5. letter' \in [Kinds -> Letters]
        BY <2>2
    <2>6. faults' \in 0 .. MaxFaults
        BY <2>2, ConversationAssumption DEF Answer, Fault
    <2> QED BY <1>21, <2>4, <2>5, <2>6 DEF RefuseClose
<1>22. ASSUME NEW w \in Workers, SaveReview(w) PROVE TypeOK'
    <2>1. review' \in {"none", "saved", "ready"}
        BY <1>22 DEF SaveReview
    <2>2. pc' \in [Processes -> Places]
        BY <1>22 DEF SaveReview, Places, WorkerPlaces, ClosePlaces, ServerPlaces, Processes
    <2> QED BY <1>22, <2>1, <2>2 DEF SaveReview
<1>23. ASSUME NEW w \in Workers, CheckpointReview(w) PROVE TypeOK'
    <2>1. review' \in {"none", "saved", "ready"}
        BY <1>23 DEF CheckpointReview
    <2>2. pc' \in [Processes -> Places]
        BY <1>23 DEF CheckpointReview, Places, WorkerPlaces, ClosePlaces, ServerPlaces, Processes
    <2> QED BY <1>23, <2>1, <2>2 DEF CheckpointReview
<1>24. ASSUME NEW w \in Workers, NEW ending \in Endings \cup {"stopped", "failed"}, Finish(w,
      ending) PROVE TypeOK'
    <2>1. state' \in RunState
        <3>1. PICK stop \in SUBSET StopsWaiting :
                 state' = [state EXCEPT !.active = Nobody, !.handled = @ \cup stop]
            BY <1>24 DEF Finish
        <3>2. state.handled \cup stop \in SUBSET Comments
            BY <3>1 DEF StopsWaiting, RunState
        <3> QED BY <3>1, <3>2 DEF RunState
    <2>2. review' \in {"none", "saved", "ready"}
        BY <1>24 DEF Finish, StopsWaiting
    <2>3. notice' \in {"none", "recoverable", "other", "told"}
        BY <1>24 DEF Finish, StopsWaiting
    <2>4. pc' \in [Processes -> Places]
        BY <1>24 DEF Finish, Places, WorkerPlaces, ClosePlaces, ServerPlaces, Processes,
           StopsWaiting
    <2> QED BY <1>24, <2>1, <2>2, <2>3, <2>4 DEF Finish
<1>25. ASSUME NEW w \in Workers, PublishNotice(w) PROVE TypeOK'
    <2>1. notice' \in {"none", "recoverable", "other", "told"}
        BY <1>25 DEF PublishNotice
    <2>2. letter' \in [Kinds -> Letters]
        BY <1>25 DEF PublishNotice, Letters, Kinds
    <2>3. pc' \in [Processes -> Places]
        BY <1>25 DEF PublishNotice, Places, WorkerPlaces, ClosePlaces, ServerPlaces, Processes
    <2>4. faults' \in 0 .. MaxFaults
        BY <1>25, ConversationAssumption DEF PublishNotice, Fault, Answer
    <2> QED BY <1>25, <2>1, <2>2, <2>3, <2>4 DEF PublishNotice
<1>26. ASSUME NEW w \in Workers, Release(w) PROVE TypeOK'
    <2>1. claim' \in Processes \cup {Nobody}
        BY <1>26 DEF Release, Processes
    <2>2. pc' \in [Processes -> Places]
        BY <1>26 DEF Release, Places, WorkerPlaces, ClosePlaces, ServerPlaces, Processes
    <2>3. limit' \in Comments \cup {0}
        BY <1>26 DEF Release
    <2> QED BY <1>26, <2>1, <2>2, <2>3 DEF Release
<1>27. ASSUME NEW p \in Processes, EnqueueStart(p) PROVE TypeOK'
    <2>1. letter' \in [Kinds -> Letters]
        BY <1>27 DEF EnqueueStart, Letters, Kinds
    <2>2. pc' \in [Processes -> Places]
        BY <1>27 DEF EnqueueStart, Places, WorkerPlaces, ClosePlaces, ServerPlaces, Processes
    <2> QED BY <1>27, <2>1, <2>2 DEF EnqueueStart
<1>28. ASSUME NEW p \in Processes, ConnectFails(p) PROVE TypeOK'
    <2>1. pc' \in [Processes -> Places]
        BY <1>28 DEF ConnectFails, Places, WorkerPlaces, ClosePlaces, ServerPlaces, Processes
    <2>2. faults' \in 0 .. MaxFaults
        BY <1>28, ConversationAssumption DEF ConnectFails, Fault, Answer
    <2> QED BY <1>28, <2>1, <2>2 DEF ConnectFails
<1>29. ASSUME NEW p \in Processes, Survey(p) PROVE TypeOK'
    <2>1. pc' \in [Processes -> Places]
        BY <1>29 DEF Survey, Places, WorkerPlaces, ClosePlaces, ServerPlaces, Processes
    <2>2. limit' \in Comments \cup {0}
        BY <1>29, HighWaterFacts DEF Survey
    <2> QED BY <1>29, <2>1, <2>2 DEF Survey
<1>30. ASSUME NEW p \in Processes, Announce(p) PROVE TypeOK'
    <2>1. journal' \in [comment : Comments \cup {0}, announced : BOOLEAN]
        BY <1>30 DEF Announce
    <2>2. letter' \in [Kinds -> Letters]
        BY <1>30 DEF Announce, Letters, Kinds
    <2>3. pc' \in [Processes -> Places]
        BY <1>30 DEF Announce, Places, WorkerPlaces, ClosePlaces, ServerPlaces, Processes, Settled
    <2>4. faults' \in 0 .. MaxFaults
        BY <1>30, ConversationAssumption DEF Announce, Fault, Answer, Deliver
    <2> QED BY <1>30, <2>1, <2>2, <2>3, <2>4 DEF Announce
<1>31. ASSUME NEW p \in Processes, Dispose(p) PROVE TypeOK'
    <2>1. review' \in {"none", "saved", "ready"}
        BY <1>31 DEF Dispose
    <2>2. notice' \in {"none", "recoverable", "other", "told"}
        BY <1>31 DEF Dispose
    <2>3. pc' \in [Processes -> Places]
        BY <1>31 DEF Dispose, Places, WorkerPlaces, ClosePlaces, ServerPlaces, Processes
    <2> QED BY <1>31, <2>1, <2>2, <2>3 DEF Dispose
<1>32. ASSUME NEW p \in Processes, Sweep(p) PROVE TypeOK'
    <2>1. inbox' \in SUBSET Comments
        BY <1>32 DEF Sweep
    <2>2. pc' \in [Processes -> Places]
        BY <1>32 DEF Sweep, Places, WorkerPlaces, ClosePlaces, ServerPlaces, Processes
    <2> QED BY <1>32, <2>1, <2>2 DEF Sweep
<1>33. ASSUME NEW p \in Processes, Tombstone(p) PROVE TypeOK'
    <2>1. state' \in RunState
        BY <1>33 DEF Tombstone, RunState, Processes
    <2>2. letter' \in [Kinds -> Letters]
        BY <1>33 DEF Tombstone, Letters, Kinds
    <2>3. pc' \in [Processes -> Places]
        BY <1>33 DEF Tombstone, Places, WorkerPlaces, ClosePlaces, ServerPlaces, Processes
    <2> QED BY <1>33, <2>1, <2>2, <2>3 DEF Tombstone
<1>34. ASSUME NEW p \in Processes, StepFails(p) PROVE TypeOK'
    <2>1. pc' \in [Processes -> Places]
        BY <1>34 DEF StepFails, Places, WorkerPlaces, ClosePlaces, ServerPlaces, Processes, Settled
    <2>2. faults' \in 0 .. MaxFaults
        BY <1>34, ConversationAssumption DEF StepFails, Fault, Answer
    <2> QED BY <1>34, <2>1, <2>2 DEF StepFails
<1>35. ASSUME NEW p \in Processes, Complete(p) PROVE TypeOK'
    <2>1. state' \in RunState
        BY <1>35 DEF Complete, RunState, Processes
    <2>2. letter' \in [Kinds -> Letters]
        BY <1>35 DEF Complete, Letters, Kinds
    <2>3. pc' \in [Processes -> Places]
        BY <1>35 DEF Complete, Places, WorkerPlaces, ClosePlaces, ServerPlaces, Processes
    <2>4. faults' \in 0 .. MaxFaults
        BY <1>35, ConversationAssumption DEF Complete, Fault, Answer
    <2> QED BY <1>35, <2>1, <2>2, <2>3, <2>4 DEF Complete
<1>36. ASSUME NEW p \in Processes, Seal(p) PROVE TypeOK'
    <2>1. journal' \in [comment : Comments \cup {0}, announced : BOOLEAN]
        BY <1>36 DEF Seal, NoJournal
    <2>2. pc' \in [Processes -> Places]
        BY <1>36 DEF Seal, Places, WorkerPlaces, ClosePlaces, ServerPlaces, Processes, Settled
    <2> QED BY <1>36, <2>1, <2>2 DEF Seal
<1>37. ASSUME NEW w \in Workers, WorkerDies(w) PROVE TypeOK'
    <2>1. state' \in RunState
        BY <1>37 DEF WorkerDies, RunState, Processes, Dies
    <2>2. claim' \in Processes \cup {Nobody}
        BY <1>37 DEF WorkerDies, Processes, Dies
    <2>3. pc' \in [Processes -> Places]
        BY <1>37 DEF WorkerDies, Places, WorkerPlaces, ClosePlaces, ServerPlaces, Processes, Dies
    <2>4. limit' \in Comments \cup {0}
        BY <1>37 DEF WorkerDies, Dies
    <2>5. faults' \in 0 .. MaxFaults
        BY <1>37, ConversationAssumption DEF WorkerDies, Fault, Answer, Dies
    <2> QED BY <1>37, <2>1, <2>2, <2>3, <2>4, <2>5 DEF WorkerDies, Dies
<1>38. ASSUME ServerDies PROVE TypeOK'
    <2>1. state' \in RunState
        BY <1>38 DEF ServerDies, RunState, Processes, Dies
    <2>2. claim' \in Processes \cup {Nobody}
        BY <1>38 DEF ServerDies, Processes, Dies
    <2>3. pc' \in [Processes -> Places]
        BY <1>38 DEF ServerDies, Places, WorkerPlaces, ClosePlaces, ServerPlaces, Processes, Dies
    <2>4. limit' \in Comments \cup {0}
        BY <1>38 DEF ServerDies, Dies
    <2>5. current' \in Comments \cup {0}
        BY <1>38 DEF ServerDies
    <2>6. faults' \in 0 .. MaxFaults
        BY <1>38, ConversationAssumption DEF ServerDies, Fault, Answer, Dies
    <2> QED BY <1>38, <2>1, <2>2, <2>3, <2>4, <2>5, <2>6 DEF ServerDies, Dies
<1>39. CASE UNCHANGED vars
    BY <1>39 DEF vars
<1> QED BY <1>1, <1>2, <1>3, <1>4, <1>5, <1>6, <1>7, <1>8, <1>9, <1>10, <1>11, <1>12, <1>13, <1>14,
      <1>15, <1>16, <1>17, <1>18, <1>19, <1>20, <1>21, <1>22, <1>23, <1>24, <1>25, <1>26, <1>27,
      <1>28, <1>29, <1>30, <1>31, <1>32, <1>33, <1>34, <1>35, <1>36, <1>37, <1>38, <1>39 DEF Next,
      ServerStep, Dispatch, WorkerStep, CloseStep, Processes

\* Only the claim's owner enters the places that need it, and only there a run is active.
LEMMA ClaimNext == Inv /\ [Next]_vars => HoldersHaveClaim' /\ ActiveRuns'
<1> SUFFICES ASSUME Inv, [Next]_vars PROVE HoldersHaveClaim' /\ ActiveRuns'
    OBVIOUS
<1>0. HoldersHaveClaim /\ ActiveRuns /\ state \in RunState /\ pc \in [Processes -> Places]
    BY DEF Inv, TypeOK
<1>00. Server \notin Workers /\ Nobody \notin Processes
    BY ConversationAssumption DEF Processes
<1> USE <1>0, <1>00 DEF HoldersHaveClaim, ActiveRuns, HoldingPlaces, ActivePlaces, ClosePlaces,
      Goto, At, Processes, RunState, communication, artifacts
<1>1. ASSUME NEW c \in Comments, Receive(c) PROVE HoldersHaveClaim' /\ ActiveRuns'
    BY <1>1 DEF Receive
<1>2. ASSUME NEW c \in Comments, Verify(c) PROVE HoldersHaveClaim' /\ ActiveRuns'
    BY <1>2 DEF Verify
<1>3. ASSUME NEW c \in Comments, Resume(c) PROVE HoldersHaveClaim' /\ ActiveRuns'
    BY <1>3 DEF Resume
<1>4. ASSUME CheckRetired PROVE HoldersHaveClaim' /\ ActiveRuns'
    BY <1>4 DEF CheckRetired
<1>5. ASSUME SaveReply PROVE HoldersHaveClaim' /\ ActiveRuns'
    BY <1>5 DEF SaveReply
<1>6. ASSUME Look PROVE HoldersHaveClaim' /\ ActiveRuns'
    BY <1>6 DEF Look
<1>7. ASSUME DispatchFails PROVE HoldersHaveClaim' /\ ActiveRuns'
    BY <1>7 DEF DispatchFails
<1>8. ASSUME MarkDispatched PROVE HoldersHaveClaim' /\ ActiveRuns'
    BY <1>8 DEF MarkDispatched
<1>9. ASSUME NEW k \in Kinds, Drain(k) PROVE HoldersHaveClaim' /\ ActiveRuns'
    BY <1>9 DEF Drain
<1>10. ASSUME NEW k \in Kinds, Finalize(k) PROVE HoldersHaveClaim' /\ ActiveRuns'
    BY <1>10 DEF Finalize, FinalizedOwed, ClaimFree, Running, Resumes
<1>11. ASSUME ServerRelease PROVE HoldersHaveClaim' /\ ActiveRuns'
    BY <1>11 DEF ServerRelease
<1>12. ASSUME NEW w \in Workers, Boot(w) PROVE HoldersHaveClaim' /\ ActiveRuns'
    BY <1>12 DEF Boot
<1>13. ASSUME NEW w \in Workers, ClaimRun(w) PROVE HoldersHaveClaim' /\ ActiveRuns'
    BY <1>13 DEF ClaimRun, ClaimFree
<1>14. ASSUME NEW w \in Workers, EnterClose(w) PROVE HoldersHaveClaim' /\ ActiveRuns'
    BY <1>14 DEF EnterClose
<1>15. ASSUME NEW w \in Workers, EnterOther(w) PROVE HoldersHaveClaim' /\ ActiveRuns'
    BY <1>15 DEF EnterOther
<1>16. ASSUME NEW w \in Workers, RecoverNotice(w) PROVE HoldersHaveClaim' /\ ActiveRuns'
    BY <1>16 DEF RecoverNotice
<1>17. ASSUME NEW w \in Workers, RecoverReview(w) PROVE HoldersHaveClaim' /\ ActiveRuns'
    BY <1>17 DEF RecoverReview
<1>18. ASSUME NEW w \in Workers, PublishReview(w) PROVE HoldersHaveClaim' /\ ActiveRuns'
    BY <1>18 DEF PublishReview
<1>19. ASSUME NEW w \in Workers, Recheck(w) PROVE HoldersHaveClaim' /\ ActiveRuns'
    BY <1>19 DEF Recheck
<1>20. ASSUME NEW w \in Workers, Inspect(w) PROVE HoldersHaveClaim' /\ ActiveRuns'
    BY <1>20 DEF Inspect
<1>21. ASSUME NEW w \in Workers, NEW c \in Closes, RefuseClose(w, c) PROVE HoldersHaveClaim' /\
      ActiveRuns'
    BY <1>21 DEF RefuseClose
<1>22. ASSUME NEW w \in Workers, SaveReview(w) PROVE HoldersHaveClaim' /\ ActiveRuns'
    BY <1>22 DEF SaveReview
<1>23. ASSUME NEW w \in Workers, CheckpointReview(w) PROVE HoldersHaveClaim' /\ ActiveRuns'
    BY <1>23 DEF CheckpointReview
<1>24. ASSUME NEW w \in Workers, NEW ending \in Endings \cup {"stopped", "failed"}, Finish(w,
      ending) PROVE HoldersHaveClaim' /\ ActiveRuns'
    BY <1>24 DEF Finish
<1>25. ASSUME NEW w \in Workers, PublishNotice(w) PROVE HoldersHaveClaim' /\ ActiveRuns'
    BY <1>25 DEF PublishNotice
<1>26. ASSUME NEW w \in Workers, Release(w) PROVE HoldersHaveClaim' /\ ActiveRuns'
    BY <1>26 DEF Release
<1>27. ASSUME NEW p \in Processes, EnqueueStart(p) PROVE HoldersHaveClaim' /\ ActiveRuns'
    BY <1>27 DEF EnqueueStart
<1>28. ASSUME NEW p \in Processes, ConnectFails(p) PROVE HoldersHaveClaim' /\ ActiveRuns'
    BY <1>28 DEF ConnectFails
<1>29. ASSUME NEW p \in Processes, Survey(p) PROVE HoldersHaveClaim' /\ ActiveRuns'
    BY <1>29 DEF Survey
<1>30. ASSUME NEW p \in Processes, Announce(p) PROVE HoldersHaveClaim' /\ ActiveRuns'
    BY <1>30 DEF Announce, Settled
<1>31. ASSUME NEW p \in Processes, Dispose(p) PROVE HoldersHaveClaim' /\ ActiveRuns'
    BY <1>31 DEF Dispose
<1>32. ASSUME NEW p \in Processes, Sweep(p) PROVE HoldersHaveClaim' /\ ActiveRuns'
    BY <1>32 DEF Sweep
<1>33. ASSUME NEW p \in Processes, Tombstone(p) PROVE HoldersHaveClaim' /\ ActiveRuns'
    BY <1>33 DEF Tombstone
<1>34. ASSUME NEW p \in Processes, StepFails(p) PROVE HoldersHaveClaim' /\ ActiveRuns'
    BY <1>34 DEF StepFails, Settled
<1>35. ASSUME NEW p \in Processes, Complete(p) PROVE HoldersHaveClaim' /\ ActiveRuns'
    BY <1>35 DEF Complete
<1>36. ASSUME NEW p \in Processes, Seal(p) PROVE HoldersHaveClaim' /\ ActiveRuns'
    BY <1>36 DEF Seal, Settled
<1>37. ASSUME NEW w \in Workers, WorkerDies(w) PROVE HoldersHaveClaim' /\ ActiveRuns'
    BY <1>37 DEF WorkerDies, Dies
<1>38. ASSUME ServerDies PROVE HoldersHaveClaim' /\ ActiveRuns'
    BY <1>38 DEF ServerDies, Dies
<1>39. CASE UNCHANGED vars
    BY <1>39 DEF vars, Past
<1> QED BY <1>1, <1>2, <1>3, <1>4, <1>5, <1>6, <1>7, <1>8, <1>9, <1>10, <1>11, <1>12, <1>13, <1>14,
      <1>15, <1>16, <1>17, <1>18, <1>19, <1>20, <1>21, <1>22, <1>23, <1>24, <1>25, <1>26, <1>27,
      <1>28, <1>29, <1>30, <1>31, <1>32, <1>33, <1>34, <1>35, <1>36, <1>37, <1>38, <1>39 DEF Next,
      ServerStep, Dispatch, WorkerStep, CloseStep, Processes

\* What a process may find handled or retired.
SamePast == state'.handled = state.handled /\ state'.through = state.through

\* The steps that add to the past, that change the inbox, that start a run.
PastMoves ==
    \/ SamePast
    \/ \E w \in Workers : Inspect(w)
    \/ \E w \in Workers, c \in Closes : RefuseClose(w, c)
    \/ \E w \in Workers, ending \in Endings \cup {"stopped", "failed"} : Finish(w, ending)
    \/ \E p \in Processes : Tombstone(p)
InboxMoves == inbox' = inbox \/ SaveReply \/ \E p \in Processes : Sweep(p)
RunsMove == runs' = runs \/ \E w \in Workers : Inspect(w)

\* Every step is one of those.
LEMMA Frame ==
    ASSUME Inv, [Next]_vars
    PROVE  PastMoves /\ InboxMoves /\ RunsMove
<1>0. state \in RunState
    BY DEF Inv, TypeOK
<1>1. ASSUME Dispatch
      PROVE  PastMoves /\ InboxMoves /\ RunsMove
    <2>1. UNCHANGED <<state, runs>> /\ (inbox' = inbox \/ SaveReply)
        BY <1>1 DEF Dispatch, Verify, Resume, CheckRetired, Look, SaveReply, DispatchFails, MarkDispatched
    <2> QED BY <2>1 DEF PastMoves, InboxMoves, RunsMove, SamePast
<1>2. ASSUME NEW p \in Processes, CloseStep(p)
      PROVE  PastMoves /\ InboxMoves /\ RunsMove
    <2>1. /\ SamePast \/ Tombstone(p)
          /\ inbox' = inbox \/ Sweep(p)
          /\ runs' = runs
        BY <1>0, <1>2 DEF SamePast, RunState, CloseStep, EnqueueStart, ConnectFails, Survey, Announce,
           Dispose, Sweep, Tombstone, StepFails, Complete, Seal
    <2> QED BY <2>1 DEF PastMoves, InboxMoves, RunsMove
<1>3. ASSUME ServerRelease \/ \E k \in Kinds : Drain(k) \/ Finalize(k)
      PROVE  PastMoves /\ InboxMoves /\ RunsMove
    <2>1. SamePast /\ UNCHANGED <<inbox, runs>>
        BY <1>0, <1>3 DEF SamePast, RunState, ServerRelease, Drain,
            Finalize, FinalizedOwed
    <2> QED BY <2>1 DEF PastMoves, InboxMoves, RunsMove
<1>4. ASSUME NEW w \in Workers, WorkerStep(w)
      PROVE  PastMoves /\ InboxMoves /\ RunsMove
    <2>1. CASE CloseStep(w)
        BY <1>2, <2>1 DEF Processes
    <2>2. CASE \E c \in Closes : RefuseClose(w, c)
        <3>1. UNCHANGED <<inbox, runs>>
            BY <2>2 DEF RefuseClose
        <3> QED BY <2>2, <3>1 DEF PastMoves, InboxMoves, RunsMove
    <2>3. CASE \E ending \in Endings \cup {"stopped", "failed"} : Finish(w, ending)
        <3>1. UNCHANGED <<inbox, runs>>
            BY <2>3 DEF Finish
        <3> QED BY <2>3, <3>1 DEF PastMoves, InboxMoves, RunsMove
    <2>4. CASE Inspect(w)
        <3>1. UNCHANGED inbox
            BY <2>4 DEF Inspect
        <3> QED BY <2>4, <3>1 DEF PastMoves, InboxMoves, RunsMove
    <2>5. CASE EnterOther(w) \/ RecoverReview(w) \/ PublishReview(w)
        <3>1. SamePast /\ UNCHANGED <<inbox, runs>>
            BY <1>0, <2>5 DEF SamePast, RunState, EnterOther, RecoverReview, PublishReview
        <3> QED BY <3>1 DEF PastMoves, InboxMoves, RunsMove
    <2>6. CASE \/ Boot(w) \/ ClaimRun(w) \/ EnterClose(w) \/ RecoverNotice(w) \/ Recheck(w)
               \/ SaveReview(w) \/ CheckpointReview(w) \/ PublishNotice(w) \/ Release(w)
        <3>1. SamePast /\ UNCHANGED <<inbox, runs>>
            BY <2>6 DEF SamePast, Boot, ClaimRun, EnterClose, RecoverNotice, Recheck, SaveReview,
               CheckpointReview, PublishNotice, Release
        <3> QED BY <3>1 DEF PastMoves, InboxMoves, RunsMove
    <2> QED BY <1>4, <2>1, <2>2, <2>3, <2>4, <2>5, <2>6 DEF WorkerStep
<1>5. ASSUME \/ ServerDies \/ \E w \in Workers : WorkerDies(w)
             \/ UNCHANGED vars \/ \E c \in Comments : Receive(c)
      PROVE  PastMoves /\ InboxMoves /\ RunsMove
    <2>1. SamePast /\ UNCHANGED <<inbox, runs>>
        BY <1>0, <1>5 DEF SamePast, RunState, ServerDies, WorkerDies, Dies, Receive, vars
    <2> QED BY <2>1 DEF PastMoves, InboxMoves, RunsMove
<1>6. CASE ServerStep
    BY <1>1, <1>2, <1>3, <1>6 DEF ServerStep, Processes
<1> QED BY <1>4, <1>5, <1>6 DEF Next

\* A comment that is past stays past: the tombstone's mark covers what it forgets.
LEMMA PastNext == Inv /\ [Next]_vars => PastStays
<1> SUFFICES ASSUME Inv, [Next]_vars, NEW c \in Comments, Past(c)
             PROVE  Past(c)'
    BY DEF PastStays
<1>0. state \in RunState
    BY DEF Inv, TypeOK
<1>1. CASE SamePast
    BY <1>1 DEF SamePast, Past
<1>2. ASSUME NEW w \in Workers, Inspect(w) PROVE Past(c)'
    BY <1>0, <1>2 DEF Inspect, Handled, Past, RunState
<1>3. ASSUME NEW w \in Workers, NEW d \in Closes, RefuseClose(w, d) PROVE Past(c)'
    BY <1>0, <1>3 DEF RefuseClose, Past, RunState
<1>4. ASSUME NEW w \in Workers, NEW ending, Finish(w, ending) PROVE Past(c)'
    BY <1>0, <1>4 DEF Finish, Past, RunState
<1>5. ASSUME NEW p \in Processes, Tombstone(p) PROVE Past(c)'
    <2>1. c <= limit
        BY <1>5 DEF Tombstone, At, Inv, LimitCovers
    <2> QED BY <2>1, <1>5 DEF Tombstone, Past
<1> QED BY <1>1, <1>2, <1>3, <1>4, <1>5, Frame DEF PastMoves

\* The comment that Inspect takes is pending.
LEMMA InspectTakes ==
    ASSUME Inv, NEW w \in Workers, Inspect(w)
    PROVE  /\ Min(Pending) \in Pending
           /\ Min(Pending) \in Comments
           /\ runs' = [runs EXCEPT ![Min(Pending)] = @ + 1]
           /\ Min(Pending) \in state'.handled
<1>1. TypeOK /\ Pending # {}
    BY DEF Inspect, At, Inv, InspectFinds
<1>2. Min(Pending) \in Pending /\ Min(Pending) \in Comments
    BY <1>1, PendingLeast
<1>3. runs' = [runs EXCEPT ![Min(Pending)] = @ + 1]
    BY DEF Inspect
<1>4. state'.handled = state.handled \cup {Min(Pending)}
    BY <1>1 DEF Inspect, Handled, TypeOK, RunState
<1> QED BY <1>2, <1>3, <1>4

\* A comment that is run is past, and was not before.
LEMMA RunsNext == Inv /\ [Next]_vars => RunsArePast'
<1> SUFFICES ASSUME Inv, [Next]_vars, NEW c \in Comments
             PROVE  runs'[c] <= 1 /\ (runs'[c] = 1 => Past(c)')
    BY DEF RunsArePast, Past
<1>0. runs \in [Comments -> Nat] /\ runs[c] <= 1 /\ (runs[c] = 1 => Past(c))
    BY DEF Inv, TypeOK, RunsArePast
<1>1. Past(c) => Past(c)'
    BY PastNext DEF PastStays
<1>2. CASE runs' = runs
    BY <1>0, <1>1, <1>2
<1>3. ASSUME NEW w \in Workers, Inspect(w)
      PROVE  runs'[c] <= 1 /\ (runs'[c] = 1 => Past(c)')
    <2>1. CASE c = Min(Pending)
        <3>1. ~ Past(c)
            <4>1. c \in Pending BY <1>3, <2>1, InspectTakes
            <4>2. Comments \cup {0} \subseteq Nat
                BY ConversationAssumption
            <4>3. c \in Nat /\ state.through \in Nat
                BY <4>2 DEF Inv, TypeOK, RunState
            <4> QED BY <4>1, <4>3 DEF Pending, Past
        <3>2. runs[c] = 0 BY <1>0, <3>1
        <3>3. runs'[c] = 1
            BY <1>0, <1>3, <2>1, <3>2, InspectTakes
        <3>4. Past(c)'
            BY <1>3, <2>1, InspectTakes DEF Past
        <3> QED BY <3>3, <3>4
    <2>2. CASE c # Min(Pending)
        BY <1>0, <1>1, <1>3, <2>2, InspectTakes
    <2> QED BY <2>1, <2>2
<1> QED BY <1>2, <1>3, Frame DEF RunsMove

\* The survey's limit covers what is past, and nothing is handled until the tombstone.
LEMMA LimitNext == Inv /\ [Next]_vars => LimitCovers'
<1> SUFFICES ASSUME Inv, [Next]_vars PROVE LimitCovers'
    OBVIOUS
<1>0. LimitCovers /\ HoldersHaveClaim /\ state \in RunState /\ pc \in [Processes -> Places]
    BY DEF Inv, TypeOK
<1> USE <1>0 DEF LimitCovers, HoldersHaveClaim, HoldingPlaces, ClosePlaces, Past, Goto, At,
      Processes, RunState, communication, artifacts
<1>1. ASSUME NEW c \in Comments, Receive(c) PROVE LimitCovers'
    BY <1>1 DEF Receive
<1>2. ASSUME NEW c \in Comments, Verify(c) PROVE LimitCovers'
    BY <1>2 DEF Verify
<1>3. ASSUME NEW c \in Comments, Resume(c) PROVE LimitCovers'
    BY <1>3 DEF Resume
<1>4. ASSUME CheckRetired PROVE LimitCovers'
    BY <1>4 DEF CheckRetired
<1>5. ASSUME SaveReply PROVE LimitCovers'
    BY <1>5 DEF SaveReply
<1>6. ASSUME Look PROVE LimitCovers'
    BY <1>6 DEF Look
<1>7. ASSUME DispatchFails PROVE LimitCovers'
    BY <1>7 DEF DispatchFails
<1>8. ASSUME MarkDispatched PROVE LimitCovers'
    BY <1>8 DEF MarkDispatched
<1>9. ASSUME NEW k \in Kinds, Drain(k) PROVE LimitCovers'
    BY <1>9 DEF Drain
<1>10. ASSUME NEW k \in Kinds, Finalize(k) PROVE LimitCovers'
    BY <1>10 DEF Finalize, FinalizedOwed, ClaimFree, Resumes
<1>11. ASSUME ServerRelease PROVE LimitCovers'
    BY <1>11 DEF ServerRelease
<1>12. ASSUME NEW w \in Workers, Boot(w) PROVE LimitCovers'
    BY <1>12 DEF Boot
<1>13. ASSUME NEW w \in Workers, ClaimRun(w) PROVE LimitCovers'
    BY <1>13 DEF ClaimRun, ClaimFree
<1>14. ASSUME NEW w \in Workers, EnterClose(w) PROVE LimitCovers'
    BY <1>14 DEF EnterClose
<1>15. ASSUME NEW w \in Workers, EnterOther(w) PROVE LimitCovers'
    BY <1>15 DEF EnterOther
<1>16. ASSUME NEW w \in Workers, RecoverNotice(w) PROVE LimitCovers'
    BY <1>16 DEF RecoverNotice
<1>17. ASSUME NEW w \in Workers, RecoverReview(w) PROVE LimitCovers'
    BY <1>17 DEF RecoverReview
<1>18. ASSUME NEW w \in Workers, PublishReview(w) PROVE LimitCovers'
    BY <1>18 DEF PublishReview
<1>19. ASSUME NEW w \in Workers, Recheck(w) PROVE LimitCovers'
    BY <1>19 DEF Recheck
<1>20. ASSUME NEW w \in Workers, Inspect(w) PROVE LimitCovers'
    BY <1>20 DEF Inspect
<1>21. ASSUME NEW w \in Workers, NEW c \in Closes, RefuseClose(w, c) PROVE LimitCovers'
    BY <1>21 DEF RefuseClose
<1>22. ASSUME NEW w \in Workers, SaveReview(w) PROVE LimitCovers'
    BY <1>22 DEF SaveReview
<1>23. ASSUME NEW w \in Workers, CheckpointReview(w) PROVE LimitCovers'
    BY <1>23 DEF CheckpointReview
<1>24. ASSUME NEW w \in Workers, NEW ending \in Endings \cup {"stopped", "failed"}, Finish(w,
      ending) PROVE LimitCovers'
    BY <1>24 DEF Finish
<1>25. ASSUME NEW w \in Workers, PublishNotice(w) PROVE LimitCovers'
    BY <1>25 DEF PublishNotice
<1>26. ASSUME NEW w \in Workers, Release(w) PROVE LimitCovers'
    BY <1>26 DEF Release
<1>27. ASSUME NEW p \in Processes, EnqueueStart(p) PROVE LimitCovers'
    BY <1>27 DEF EnqueueStart
<1>28. ASSUME NEW p \in Processes, ConnectFails(p) PROVE LimitCovers'
    BY <1>28 DEF ConnectFails
<1>29. ASSUME NEW p \in Processes, Survey(p) PROVE LimitCovers'
    <2>1. limit' = HighWater /\ UNCHANGED state
        BY <1>29 DEF Survey
    <2>2. ASSUME NEW c \in Comments, Past(c) PROVE c <= HighWater
        <3>1. CASE c \in state.handled
            BY <3>1, HighWaterFacts DEF Inv, OnlyReceived
        <3>2. CASE c <= state.through
            <4>1. Comments \cup {0} \subseteq Nat
                BY ConversationAssumption
            <4>2. c \in Nat /\ state.through \in Nat /\ HighWater \in Nat /\ state.through <=
                  HighWater
                BY <4>1, HighWaterFacts DEF Inv
            <4> QED BY <3>2, <4>2
        <3> QED BY <2>2, <3>1, <3>2
    <2> QED BY <2>1, <2>2
<1>30. ASSUME NEW p \in Processes, Announce(p) PROVE LimitCovers'
    BY <1>30 DEF Announce, Settled
<1>31. ASSUME NEW p \in Processes, Dispose(p) PROVE LimitCovers'
    BY <1>31 DEF Dispose
<1>32. ASSUME NEW p \in Processes, Sweep(p) PROVE LimitCovers'
    BY <1>32 DEF Sweep
<1>33. ASSUME NEW p \in Processes, Tombstone(p) PROVE LimitCovers'
    BY <1>33 DEF Tombstone
<1>34. ASSUME NEW p \in Processes, StepFails(p) PROVE LimitCovers'
    BY <1>34 DEF StepFails, Settled
<1>35. ASSUME NEW p \in Processes, Complete(p) PROVE LimitCovers'
    BY <1>35 DEF Complete
<1>36. ASSUME NEW p \in Processes, Seal(p) PROVE LimitCovers'
    BY <1>36 DEF Seal, Settled
<1>37. ASSUME NEW w \in Workers, WorkerDies(w) PROVE LimitCovers'
    BY <1>37 DEF WorkerDies, Dies
<1>38. ASSUME ServerDies PROVE LimitCovers'
    BY <1>38 DEF ServerDies, Dies
<1>39. CASE UNCHANGED vars
    BY <1>39 DEF vars
<1> QED BY <1>1, <1>2, <1>3, <1>4, <1>5, <1>6, <1>7, <1>8, <1>9, <1>10, <1>11, <1>12, <1>13, <1>14,
      <1>15, <1>16, <1>17, <1>18, <1>19, <1>20, <1>21, <1>22, <1>23, <1>24, <1>25, <1>26, <1>27,
      <1>28, <1>29, <1>30, <1>31, <1>32, <1>33, <1>34, <1>35, <1>36, <1>37, <1>38, <1>39 DEF Next,
      ServerStep, Dispatch, WorkerStep, CloseStep, Processes

\* What is saved or handled was received.
LEMMA ReceivedNext == Inv /\ [Next]_vars => OnlyReceived'
<1> SUFFICES ASSUME Inv, [Next]_vars PROVE OnlyReceived'
    OBVIOUS
<1>0. /\ OnlyReceived /\ inbox \subseteq Comments /\ row \in [Comments -> InboundStatus]
      /\ state \in RunState /\ pc \in [Processes -> Places]
    BY DEF Inv, TypeOK
<1>00. Server \notin Workers
    BY ConversationAssumption
<1>000. Inv
    OBVIOUS
<1> USE <1>0, <1>00 DEF OnlyReceived, Received, Goto, At, Processes, RunState, ClosePlaces,
      communication, artifacts
<1>1. ASSUME NEW c \in Comments, Receive(c) PROVE OnlyReceived'
    BY <1>1 DEF Receive
<1>2. ASSUME NEW c \in Comments, Verify(c) PROVE OnlyReceived'
    BY <1>2 DEF Verify
<1>3. ASSUME NEW c \in Comments, Resume(c) PROVE OnlyReceived'
    BY <1>3 DEF Resume, Due
<1>4. ASSUME CheckRetired PROVE OnlyReceived'
    BY <1>4 DEF CheckRetired
<1>5. ASSUME SaveReply PROVE OnlyReceived'
    BY <1>5 DEF SaveReply
<1>6. ASSUME Look PROVE OnlyReceived'
    BY <1>6 DEF Look
<1>7. ASSUME DispatchFails PROVE OnlyReceived'
    BY <1>7 DEF DispatchFails
<1>8. ASSUME MarkDispatched PROVE OnlyReceived'
    BY <1>8 DEF MarkDispatched
<1>9. ASSUME NEW k \in Kinds, Drain(k) PROVE OnlyReceived'
    BY <1>9 DEF Drain
<1>10. ASSUME NEW k \in Kinds, Finalize(k) PROVE OnlyReceived'
    BY <1>10 DEF Finalize, FinalizedOwed, Resumes
<1>11. ASSUME ServerRelease PROVE OnlyReceived'
    BY <1>11 DEF ServerRelease
<1>12. ASSUME NEW w \in Workers, Boot(w) PROVE OnlyReceived'
    BY <1>12 DEF Boot
<1>13. ASSUME NEW w \in Workers, ClaimRun(w) PROVE OnlyReceived'
    BY <1>13 DEF ClaimRun
<1>14. ASSUME NEW w \in Workers, EnterClose(w) PROVE OnlyReceived'
    BY <1>14 DEF EnterClose
<1>15. ASSUME NEW w \in Workers, EnterOther(w) PROVE OnlyReceived'
    BY <1>15 DEF EnterOther
<1>16. ASSUME NEW w \in Workers, RecoverNotice(w) PROVE OnlyReceived'
    BY <1>16 DEF RecoverNotice
<1>17. ASSUME NEW w \in Workers, RecoverReview(w) PROVE OnlyReceived'
    BY <1>17 DEF RecoverReview
<1>18. ASSUME NEW w \in Workers, PublishReview(w) PROVE OnlyReceived'
    BY <1>18 DEF PublishReview
<1>19. ASSUME NEW w \in Workers, Recheck(w) PROVE OnlyReceived'
    BY <1>19 DEF Recheck
<1>20. ASSUME NEW w \in Workers, Inspect(w) PROVE OnlyReceived'
    BY <1>20, InspectTakes, <1>000 DEF Inspect, Handled, Pending
<1>21. ASSUME NEW w \in Workers, NEW c \in Closes, RefuseClose(w, c) PROVE OnlyReceived'
    BY <1>21, ConversationAssumption DEF RefuseClose
<1>22. ASSUME NEW w \in Workers, SaveReview(w) PROVE OnlyReceived'
    BY <1>22 DEF SaveReview
<1>23. ASSUME NEW w \in Workers, CheckpointReview(w) PROVE OnlyReceived'
    BY <1>23 DEF CheckpointReview
<1>24. ASSUME NEW w \in Workers, NEW ending \in Endings \cup {"stopped", "failed"}, Finish(w,
      ending) PROVE OnlyReceived'
    BY <1>24 DEF Finish, StopsWaiting
<1>25. ASSUME NEW w \in Workers, PublishNotice(w) PROVE OnlyReceived'
    BY <1>25 DEF PublishNotice
<1>26. ASSUME NEW w \in Workers, Release(w) PROVE OnlyReceived'
    BY <1>26 DEF Release
<1>27. ASSUME NEW p \in Processes, EnqueueStart(p) PROVE OnlyReceived'
    BY <1>27 DEF EnqueueStart
<1>28. ASSUME NEW p \in Processes, ConnectFails(p) PROVE OnlyReceived'
    BY <1>28 DEF ConnectFails
<1>29. ASSUME NEW p \in Processes, Survey(p) PROVE OnlyReceived'
    BY <1>29 DEF Survey
<1>30. ASSUME NEW p \in Processes, Announce(p) PROVE OnlyReceived'
    BY <1>30 DEF Announce, Settled
<1>31. ASSUME NEW p \in Processes, Dispose(p) PROVE OnlyReceived'
    BY <1>31 DEF Dispose
<1>32. ASSUME NEW p \in Processes, Sweep(p) PROVE OnlyReceived'
    BY <1>32 DEF Sweep
<1>33. ASSUME NEW p \in Processes, Tombstone(p) PROVE OnlyReceived'
    BY <1>33 DEF Tombstone
<1>34. ASSUME NEW p \in Processes, StepFails(p) PROVE OnlyReceived'
    BY <1>34 DEF StepFails, Settled
<1>35. ASSUME NEW p \in Processes, Complete(p) PROVE OnlyReceived'
    BY <1>35 DEF Complete
<1>36. ASSUME NEW p \in Processes, Seal(p) PROVE OnlyReceived'
    BY <1>36 DEF Seal, Settled
<1>37. ASSUME NEW w \in Workers, WorkerDies(w) PROVE OnlyReceived'
    BY <1>37 DEF WorkerDies, Dies
<1>38. ASSUME ServerDies PROVE OnlyReceived'
    BY <1>38 DEF ServerDies, Dies
<1>39. CASE UNCHANGED vars
    BY <1>39 DEF vars
<1> QED BY <1>1, <1>2, <1>3, <1>4, <1>5, <1>6, <1>7, <1>8, <1>9, <1>10, <1>11, <1>12, <1>13, <1>14,
      <1>15, <1>16, <1>17, <1>18, <1>19, <1>20, <1>21, <1>22, <1>23, <1>24, <1>25, <1>26, <1>27,
      <1>28, <1>29, <1>30, <1>31, <1>32, <1>33, <1>34, <1>35, <1>36, <1>37, <1>38, <1>39 DEF Next,
      ServerStep, Dispatch, WorkerStep, CloseStep, Processes

\* Nobody else takes the comment that Inspect is going to take.
LEMMA InspectNext == Inv /\ [Next]_vars => InspectFinds'
<1> SUFFICES ASSUME Inv, [Next]_vars PROVE InspectFinds'
    OBVIOUS
<1>0. InspectFinds /\ HoldersHaveClaim /\ state \in RunState /\ pc \in [Processes -> Places]
    BY DEF Inv, TypeOK
<1>00. Server \notin Workers
    BY ConversationAssumption
<1> USE <1>0, <1>00 DEF InspectFinds, HoldersHaveClaim, HoldingPlaces, ClosePlaces, Pending, Goto,
      At, Processes, RunState, communication, artifacts
<1>1. ASSUME NEW c \in Comments, Receive(c) PROVE InspectFinds'
    BY <1>1 DEF Receive
<1>2. ASSUME NEW c \in Comments, Verify(c) PROVE InspectFinds'
    BY <1>2 DEF Verify
<1>3. ASSUME NEW c \in Comments, Resume(c) PROVE InspectFinds'
    BY <1>3 DEF Resume
<1>4. ASSUME CheckRetired PROVE InspectFinds'
    BY <1>4 DEF CheckRetired
<1>5. ASSUME SaveReply PROVE InspectFinds'
    BY <1>5 DEF SaveReply
<1>6. ASSUME Look PROVE InspectFinds'
    BY <1>6 DEF Look
<1>7. ASSUME DispatchFails PROVE InspectFinds'
    BY <1>7 DEF DispatchFails
<1>8. ASSUME MarkDispatched PROVE InspectFinds'
    BY <1>8 DEF MarkDispatched
<1>9. ASSUME NEW k \in Kinds, Drain(k) PROVE InspectFinds'
    BY <1>9 DEF Drain
<1>10. ASSUME NEW k \in Kinds, Finalize(k) PROVE InspectFinds'
    BY <1>10 DEF Finalize, FinalizedReview, FinalizedNotice, FinalizedOwed, ClaimFree, Resumes
<1>11. ASSUME ServerRelease PROVE InspectFinds'
    BY <1>11 DEF ServerRelease
<1>12. ASSUME NEW w \in Workers, Boot(w) PROVE InspectFinds'
    BY <1>12 DEF Boot
<1>13. ASSUME NEW w \in Workers, ClaimRun(w) PROVE InspectFinds'
    BY <1>13 DEF ClaimRun, ClaimFree
<1>14. ASSUME NEW w \in Workers, EnterClose(w) PROVE InspectFinds'
    BY <1>14 DEF EnterClose
<1>15. ASSUME NEW w \in Workers, EnterOther(w) PROVE InspectFinds'
    BY <1>15 DEF EnterOther
<1>16. ASSUME NEW w \in Workers, RecoverNotice(w) PROVE InspectFinds'
    BY <1>16 DEF RecoverNotice
<1>17. ASSUME NEW w \in Workers, RecoverReview(w) PROVE InspectFinds'
    BY <1>17 DEF RecoverReview
<1>18. ASSUME NEW w \in Workers, PublishReview(w) PROVE InspectFinds'
    BY <1>18 DEF PublishReview
<1>19. ASSUME NEW w \in Workers, Recheck(w) PROVE InspectFinds'
    BY <1>19 DEF Recheck
<1>20. ASSUME NEW w \in Workers, Inspect(w) PROVE InspectFinds'
    BY <1>20 DEF Inspect
<1>21. ASSUME NEW w \in Workers, NEW c \in Closes, RefuseClose(w, c) PROVE InspectFinds'
    BY <1>21 DEF RefuseClose
<1>22. ASSUME NEW w \in Workers, SaveReview(w) PROVE InspectFinds'
    BY <1>22 DEF SaveReview
<1>23. ASSUME NEW w \in Workers, CheckpointReview(w) PROVE InspectFinds'
    BY <1>23 DEF CheckpointReview
<1>24. ASSUME NEW w \in Workers, NEW ending \in Endings \cup {"stopped", "failed"}, Finish(w,
      ending) PROVE InspectFinds'
    BY <1>24 DEF Finish
<1>25. ASSUME NEW w \in Workers, PublishNotice(w) PROVE InspectFinds'
    BY <1>25 DEF PublishNotice
<1>26. ASSUME NEW w \in Workers, Release(w) PROVE InspectFinds'
    BY <1>26 DEF Release
<1>27. ASSUME NEW p \in Processes, EnqueueStart(p) PROVE InspectFinds'
    BY <1>27 DEF EnqueueStart
<1>28. ASSUME NEW p \in Processes, ConnectFails(p) PROVE InspectFinds'
    BY <1>28 DEF ConnectFails
<1>29. ASSUME NEW p \in Processes, Survey(p) PROVE InspectFinds'
    BY <1>29 DEF Survey
<1>30. ASSUME NEW p \in Processes, Announce(p) PROVE InspectFinds'
    BY <1>30 DEF Announce, Settled
<1>31. ASSUME NEW p \in Processes, Dispose(p) PROVE InspectFinds'
    BY <1>31 DEF Dispose
<1>32. ASSUME NEW p \in Processes, Sweep(p) PROVE InspectFinds'
    BY <1>32 DEF Sweep
<1>33. ASSUME NEW p \in Processes, Tombstone(p) PROVE InspectFinds'
    BY <1>33 DEF Tombstone
<1>34. ASSUME NEW p \in Processes, StepFails(p) PROVE InspectFinds'
    BY <1>34 DEF StepFails, Settled
<1>35. ASSUME NEW p \in Processes, Complete(p) PROVE InspectFinds'
    BY <1>35 DEF Complete
<1>36. ASSUME NEW p \in Processes, Seal(p) PROVE InspectFinds'
    BY <1>36 DEF Seal, Settled
<1>37. ASSUME NEW w \in Workers, WorkerDies(w) PROVE InspectFinds'
    BY <1>37 DEF WorkerDies, Dies
<1>38. ASSUME ServerDies PROVE InspectFinds'
    BY <1>38 DEF ServerDies, Dies
<1>39. CASE UNCHANGED vars
    BY <1>39 DEF vars
<1> QED BY <1>1, <1>2, <1>3, <1>4, <1>5, <1>6, <1>7, <1>8, <1>9, <1>10, <1>11, <1>12, <1>13, <1>14,
      <1>15, <1>16, <1>17, <1>18, <1>19, <1>20, <1>21, <1>22, <1>23, <1>24, <1>25, <1>26, <1>27,
      <1>28, <1>29, <1>30, <1>31, <1>32, <1>33, <1>34, <1>35, <1>36, <1>37, <1>38, <1>39 DEF Next,
      ServerStep, Dispatch, WorkerStep, CloseStep, Processes

\* The initial states satisfy the invariant.
LEMMA InitInv == Init => Inv
<1> SUFFICES ASSUME Init PROVE Inv
    OBVIOUS
<1>1. TypeOK
    BY ConversationAssumption DEF Init, TypeOK, NoState, NoJournal, RunState, InboundStatus, Letters,
       Places, WorkerPlaces, ClosePlaces, ServerPlaces, Processes
<1>2. \A p \in Processes : pc[p] \in {"idle", "off"}
    BY DEF Init
<1>3. HoldersHaveClaim /\ ActiveRuns /\ InspectFinds /\ LimitCovers /\ OnlyReceived
    BY <1>2 DEF Init, NoState, HoldersHaveClaim, ActiveRuns, InspectFinds, LimitCovers, OnlyReceived,
       HoldingPlaces, ClosePlaces, Processes
<1>4. RunsArePast
    BY DEF Init, RunsArePast
<1> QED BY <1>1, <1>3, <1>4 DEF Inv

\* Every step preserves the invariant.
LEMMA NextInv == Inv /\ [Next]_vars => Inv'
BY TypeNext, ClaimNext, ReceivedNext, InspectNext, LimitNext, RunsNext DEF Inv

\* The invariant holds of the specification.
LEMMA Invariant == Spec => []Inv
BY InitInv, NextInv, PTL DEF Spec

\* The variables have their types.
THEOREM ConversationTypes == Spec => []TypeOK
<1>1. Inv => TypeOK
    BY DEF Inv
<1> QED BY <1>1, Invariant, PTL

\* No comment is given to an Agent twice, whatever the server redispatches, whoever
\* dies and whatever is closed (pull-request.ts consumes the comment with the active state).
THEOREM NoCommentTwice == Spec => []AtMostOnce
<1>1. Inv => AtMostOnce
    BY DEF Inv, RunsArePast, AtMostOnce
<1> QED BY <1>1, Invariant, PTL

\* A process whose run is active has the run claim (state.ts, claimRun).
THEOREM RunnerHoldsClaim == Spec => []RunnerHasClaim
<1>1. Inv => RunnerHasClaim
    BY DEF Inv, ActiveRuns, RunnerHasClaim
<1> QED BY <1>1, Invariant, PTL

\* What was handled or retired stays so, through closes and crashes (close.ts, the
\* tombstone's closed_through_comment_id).
THEOREM PastIsForever == Spec => PastForever
<1>1. Inv /\ [Next]_vars => [PastStays]_vars
    BY PastNext
<1> QED BY <1>1, Invariant, PTL DEF Spec, PastForever

\* An Agent is only started for a comment above the last close's high-water mark
\* (human-feedback.ts, hasHumanReplies).
THEOREM NoRetiredRun == Spec => RetiredNeverRun
<1>1. Inv /\ [Next]_vars => [RetiredNotRun]_vars
    <2> SUFFICES ASSUME Inv, [Next]_vars, NEW c \in Comments, runs'[c] # runs[c]
                 PROVE  c > state.through
        BY DEF RetiredNotRun
    <2>1. PICK w \in Workers : Inspect(w)
        BY Frame DEF RunsMove
    <2>2. runs \in [Comments -> Nat]
        BY DEF Inv, TypeOK
    <2>3. c = Min(Pending) /\ Min(Pending) \in Pending
        BY <2>1, <2>2, InspectTakes
    <2> QED BY <2>3 DEF Pending
<1> QED BY <1>1, Invariant, PTL DEF Spec, RetiredNeverRun
=============================================================================
