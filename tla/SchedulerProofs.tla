--------------------------- MODULE SchedulerProofs ---------------------------
(***************************************************************************)
(* The scheduler never sleeps over work without a timer or a nudge, and    *)
(* stops cleanly, for any number of letters, comments and faults.          *)
(*                                                                         *)
(* AwakeOrArmed is about a scheduler at rest.  The invariant says what is  *)
(* known one step earlier: when armDeadline has read that there is no      *)
(* deadline, any row that is waiting now came with a nudge (Read), and     *)
(* when the timer was left unarmed because a request was pending, that     *)
(* request is still there at the end of the pump (Ended).  A row being     *)
(* sent is the head of its pull request, so an attempt that ends creates   *)
(* no deadline where there was none.                                       *)
(***************************************************************************)
EXTENDS Scheduler, FiniteSetTheorems, TLAPS

Read == pc = "arm" /\ ~stopped /\ ~seen /\ Waiting # {} => dirty \/ owed \/ unannounced
Ended == pc = "unlock" /\ ~stopped /\ Waiting # {} => dirty \/ timer \/ owed \/ unannounced
SendingIsHead == \A l \in Letters : status[l] = "sending" => Head(l)
Quiet ==
    /\ stopped => ~timer
    /\ Running => open
    /\ pc = "listening" => open
    /\ pc = "idle" /\ ~stopped => open

Armed == Read /\ Ended /\ AwakeOrArmed

Inv == TypeOK /\ SendingIsHead /\ Armed /\ Quiet

-----------------------------------------------------------------------------
(* Lemmas.                                                                 *)

\* The bounds are numbers.
LEMMA Bounds == MaxFaults \in Nat /\ MaxHelp \in Nat /\ Artifacts \in Nat
  BY SchedulerAssumption

\* Letters are numbers, and none is a comment.
LEMMA Ids ==
    /\ Letters \subseteq Int /\ Lifecycle \subseteq Letters /\ Letters \cap Mails = {}
    /\ Letters \subseteq Items /\ Mails \subseteq Items
<1>1. Cardinality(Letters) \in Nat
  BY SchedulerAssumption, FS_CardinalityType
<1>2. Letters \subseteq Int
  BY <1>1, SchedulerAssumption
<1> QED BY <1>2, SchedulerAssumption DEF Items

\* Whatever an attempt ends with, it writes a status and an instant.
LEMMA SettlesTypes ==
    ASSUME TypeOK, NEW l \in Letters, Settles(l)
    PROVE  status' \in [Items -> Statuses] /\ due' \in SUBSET Items
<1>1. l \in Items /\ status \in [Items -> Statuses] /\ due \in SUBSET Items
  BY Ids DEF TypeOK
<1>2. CASE Delivered(l)
  BY <1>1, <1>2 DEF Delivered, Put, Statuses
<1>3. CASE Deferred(l)
  BY <1>1, <1>3 DEF Deferred, Put, Statuses
<1>4. CASE Blocked(l)
  BY <1>1, <1>4 DEF Blocked, Put, Statuses
<1> QED BY <1>2, <1>3, <1>4 DEF Settles

\* Types are kept by every step.
LEMMA TypeStep == TypeOK /\ [Next]_vars => TypeOK'
<1> SUFFICES ASSUME TypeOK, [Next]_vars PROVE TypeOK'
  OBVIOUS
<1>1. CASE OpenStore
  BY <1>1, Ids DEF OpenStore, Goto, counters, tables, TypeOK, Statuses, Places
<1>2. CASE Listen
  BY <1>2, Ids DEF Listen, Goto, counters, memory, tables, TypeOK, Statuses, Places
<1>3. CASE Wake
  BY <1>3, Ids DEF Wake, Goto, Listening, RequestPump, counters, TypeOK, Statuses, Places
<1>4. ASSUME NEW m \in Mails, Receive(m) PROVE TypeOK'
  BY <1>4, Ids DEF Receive, Goto, Listening, Put, RequestPump, counters, TypeOK, Statuses,
      Places
<1>5. CASE TimerFires
  BY <1>5, Ids DEF TimerFires, Goto, RequestPump, counters, tables, TypeOK, Statuses, Places
<1>6. CASE Begin
  BY <1>6, Ids DEF Begin, Goto, counters, tables, TypeOK, Statuses, Places
<1>7. CASE Import
  <2>1. faults' \in 0 .. MaxFaults /\ help' \in 0 .. MaxHelp /\ artifacts' \in 0 ..
      Artifacts
    BY <1>7, Bounds DEF Import, NextId, Put, counters, TypeOK
  <2>2. status' \in [Items -> Statuses] /\ due' \in SUBSET Items
    BY <1>7, Ids DEF Import, NextId, Put, counters, TypeOK, Statuses
  <2>3. owed' \in BOOLEAN /\ unannounced' \in BOOLEAN /\ dirty' \in BOOLEAN /\ pc' \in
      Places
    BY <1>7 DEF Import, NextId, Put, counters, TypeOK, Places
  <2>4. timer' \in BOOLEAN /\ seen' \in BOOLEAN /\ stopped' \in BOOLEAN /\ open' \in BOOLEAN
      /\ todo' \in SUBSET Items
    BY <1>7 DEF Import, NextId, Put, counters, TypeOK
  <2> QED BY <2>1, <2>2, <2>3, <2>4 DEF TypeOK
<1>8. CASE RecoverExpired
  BY <1>8, Ids DEF RecoverExpired, Expired, Goto, counters, TypeOK, Statuses, Places
<1>9. ASSUME NEW m \in Mails, Verify(m) PROVE TypeOK'
  BY <1>9, Ids DEF Verify, Put, counters, TypeOK, Statuses, Places
<1>10. CASE ListHeads
  BY <1>10, Ids DEF ListHeads, Expired, Goto, counters, TypeOK, Statuses, Places
<1>11. ASSUME NEW l \in Letters, Claim(l) PROVE TypeOK'
  BY <1>11, Ids DEF Claim, Goto, Put, counters, TypeOK, Statuses, Places
<1>12. ASSUME NEW l \in Letters, Answer(l) PROVE TypeOK'
  BY <1>12, SettlesTypes DEF Answer, Goto, counters, TypeOK, Places
<1>13. CASE ListFinalizations
  BY <1>13, Ids DEF ListFinalizations, Goto, counters, tables, TypeOK, Statuses, Places
<1>14. ASSUME NEW l \in Letters, Finalize(l) PROVE TypeOK'
  BY <1>14, Ids DEF Finalize, Put, counters, TypeOK, Statuses, Places
<1>15. CASE Again
  BY <1>15, Ids DEF Again, Goto, counters, tables, TypeOK, Statuses, Places
<1>16. CASE ReadDeadline
  BY <1>16, Ids DEF ReadDeadline, Goto, counters, TypeOK, Statuses, Places
<1>17. CASE Arm
  BY <1>17, Ids DEF Arm, Goto, counters, tables, TypeOK, Statuses, Places
<1>18. CASE EndPump
  BY <1>18, Ids DEF EndPump, Goto, counters, memory, tables, TypeOK, Statuses, Places
<1>19. CASE CloseStore
  BY <1>19, Ids DEF CloseStore, counters, tables, TypeOK, Statuses, Places
<1>20. CASE Restart
  BY <1>20, Ids DEF Restart, Goto, counters, memory, tables, TypeOK, Statuses, Places
<1>21. CASE WriterDies
  <2>1. faults' \in 0 .. MaxFaults /\ help' \in 0 .. MaxHelp /\ artifacts' \in 0 ..
      Artifacts
    BY <1>21, Bounds DEF WriterDies, Fault, Others, memory, TypeOK
  <2>2. status' \in [Items -> Statuses] /\ due' \in SUBSET Items
    BY <1>21, Ids DEF WriterDies, Fault, Others, memory, TypeOK, Statuses
  <2>3. owed' \in BOOLEAN /\ unannounced' \in BOOLEAN /\ dirty' \in BOOLEAN /\ pc' \in
      Places
    BY <1>21 DEF WriterDies, Fault, Others, memory, TypeOK, Places
  <2>4. timer' \in BOOLEAN /\ seen' \in BOOLEAN /\ stopped' \in BOOLEAN /\ open' \in BOOLEAN
      /\ todo' \in SUBSET Items
    BY <1>21 DEF WriterDies, Fault, Others, memory, TypeOK
  <2> QED BY <2>1, <2>2, <2>3, <2>4 DEF TypeOK
<1>22. ASSUME NEW i \in Items, BecomesDue(i) PROVE TypeOK'
  BY <1>22, Ids DEF BecomesDue, Others, counters, memory, TypeOK, Statuses, Places
<1>23. ASSUME NEW l \in Letters, Enqueue(l) PROVE TypeOK'
  BY <1>23, Ids DEF Enqueue, NextId, Others, Put, counters, memory, TypeOK, Statuses, Places
<1>24. ASSUME NEW l \in Letters, WorkerClaims(l) PROVE TypeOK'
  BY <1>24, Ids DEF WorkerClaims, Others, Put, counters, memory, TypeOK, Statuses, Places
<1>25. ASSUME NEW l \in Letters, WorkerSettles(l) PROVE TypeOK'
  BY <1>25, SettlesTypes DEF WorkerSettles, Others, counters, memory, TypeOK
<1>26. ASSUME NEW l \in Letters, WorkerFinalizes(l) PROVE TypeOK'
  BY <1>26, Ids DEF WorkerFinalizes, Others, Put, counters, memory, TypeOK, Statuses, Places
<1>27. ASSUME NEW l \in Letters, Requeue(l) PROVE TypeOK'
  <2>1. faults' \in 0 .. MaxFaults /\ help' \in 0 .. MaxHelp /\ artifacts' \in 0 ..
      Artifacts
    BY <1>27, Bounds DEF Requeue, Intervene, OldestBlocked, Others, Put, memory, TypeOK
  <2>2. status' \in [Items -> Statuses] /\ due' \in SUBSET Items
    BY <1>27, Ids DEF Requeue, Intervene, OldestBlocked, Others, Put, memory, TypeOK,
        Statuses
  <2>3. owed' \in BOOLEAN /\ unannounced' \in BOOLEAN /\ dirty' \in BOOLEAN /\ pc' \in
      Places
    BY <1>27 DEF Requeue, Intervene, OldestBlocked, Others, Put, memory, TypeOK, Places
  <2>4. timer' \in BOOLEAN /\ seen' \in BOOLEAN /\ stopped' \in BOOLEAN /\ open' \in BOOLEAN
      /\ todo' \in SUBSET Items
    BY <1>27 DEF Requeue, Intervene, OldestBlocked, Others, Put, memory, TypeOK
  <2> QED BY <2>1, <2>2, <2>3, <2>4 DEF TypeOK
<1>28. ASSUME NEW l \in Letters, RequeueQuietly(l) PROVE TypeOK'
  <2>1. faults' \in 0 .. MaxFaults /\ help' \in 0 .. MaxHelp /\ artifacts' \in 0 ..
      Artifacts
    BY <1>28, Bounds DEF RequeueQuietly, Intervene, OldestBlocked, Others, Put, memory,
        TypeOK
  <2>2. status' \in [Items -> Statuses] /\ due' \in SUBSET Items
    BY <1>28, Ids DEF RequeueQuietly, Intervene, OldestBlocked, Others, Put, memory, TypeOK,
        Statuses
  <2>3. owed' \in BOOLEAN /\ unannounced' \in BOOLEAN /\ dirty' \in BOOLEAN /\ pc' \in
      Places
    BY <1>28 DEF RequeueQuietly, Intervene, OldestBlocked, Others, Put, memory, TypeOK,
        Places
  <2>4. timer' \in BOOLEAN /\ seen' \in BOOLEAN /\ stopped' \in BOOLEAN /\ open' \in BOOLEAN
      /\ todo' \in SUBSET Items
    BY <1>28 DEF RequeueQuietly, Intervene, OldestBlocked, Others, Put, memory, TypeOK
  <2> QED BY <2>1, <2>2, <2>3, <2>4 DEF TypeOK
<1>29. ASSUME NEW l \in Letters, Cancel(l) PROVE TypeOK'
  <2>1. faults' \in 0 .. MaxFaults /\ help' \in 0 .. MaxHelp /\ artifacts' \in 0 ..
      Artifacts
    BY <1>29, Bounds DEF Cancel, Delivered, Intervene, Others, Put, memory, TypeOK
  <2>2. status' \in [Items -> Statuses] /\ due' \in SUBSET Items
    BY <1>29, Ids DEF Cancel, Delivered, Intervene, Others, Put, memory, TypeOK, Statuses
  <2>3. owed' \in BOOLEAN /\ unannounced' \in BOOLEAN /\ dirty' \in BOOLEAN /\ pc' \in
      Places
    BY <1>29 DEF Cancel, Delivered, Intervene, Others, Put, memory, TypeOK, Places
  <2>4. timer' \in BOOLEAN /\ seen' \in BOOLEAN /\ stopped' \in BOOLEAN /\ open' \in BOOLEAN
      /\ todo' \in SUBSET Items
    BY <1>29 DEF Cancel, Delivered, Intervene, Others, Put, memory, TypeOK
  <2> QED BY <2>1, <2>2, <2>3, <2>4 DEF TypeOK
<1>30. ASSUME NEW l \in Letters, DeferDelivery(l) PROVE TypeOK'
  <2>1. faults' \in 0 .. MaxFaults /\ help' \in 0 .. MaxHelp /\ artifacts' \in 0 ..
      Artifacts
    BY <1>30, Bounds DEF DeferDelivery, Blocked, Deferred, Intervene, Others, Put, memory,
        TypeOK
  <2>2. status' \in [Items -> Statuses] /\ due' \in SUBSET Items
    BY <1>30, Ids DEF DeferDelivery, Blocked, Deferred, Intervene, Others, Put, memory,
        TypeOK, Statuses
  <2>3. owed' \in BOOLEAN /\ unannounced' \in BOOLEAN /\ dirty' \in BOOLEAN /\ pc' \in
      Places
    BY <1>30 DEF DeferDelivery, Blocked, Deferred, Intervene, Others, Put, memory, TypeOK,
        Places
  <2>4. timer' \in BOOLEAN /\ seen' \in BOOLEAN /\ stopped' \in BOOLEAN /\ open' \in BOOLEAN
      /\ todo' \in SUBSET Items
    BY <1>30 DEF DeferDelivery, Blocked, Deferred, Intervene, Others, Put, memory, TypeOK
  <2> QED BY <2>1, <2>2, <2>3, <2>4 DEF TypeOK
<1>31. CASE Throw
  <2>1. faults' \in 0 .. MaxFaults /\ help' \in 0 .. MaxHelp /\ artifacts' \in 0 ..
      Artifacts
    BY <1>31, Bounds DEF Throw, Fault, Goto, TypeOK
  <2>2. status' \in [Items -> Statuses] /\ due' \in SUBSET Items
    BY <1>31, Ids DEF Throw, Fault, Goto, TypeOK, Statuses
  <2>3. owed' \in BOOLEAN /\ unannounced' \in BOOLEAN /\ dirty' \in BOOLEAN /\ pc' \in
      Places
    BY <1>31 DEF Throw, Fault, Goto, TypeOK, Places
  <2>4. timer' \in BOOLEAN /\ seen' \in BOOLEAN /\ stopped' \in BOOLEAN /\ open' \in BOOLEAN
      /\ todo' \in SUBSET Items
    BY <1>31 DEF Throw, Fault, Goto, TypeOK
  <2> QED BY <2>1, <2>2, <2>3, <2>4 DEF TypeOK
<1>32. CASE Stop
  BY <1>32, Ids DEF Stop, Listening, counters, tables, TypeOK, Statuses, Places
<1>33. CASE Die
  <2>1. faults' \in 0 .. MaxFaults /\ help' \in 0 .. MaxHelp /\ artifacts' \in 0 ..
      Artifacts
    BY <1>33, Bounds DEF Die, Fault, Goto, tables, TypeOK
  <2>2. status' \in [Items -> Statuses] /\ due' \in SUBSET Items
    BY <1>33, Ids DEF Die, Fault, Goto, tables, TypeOK, Statuses
  <2>3. owed' \in BOOLEAN /\ unannounced' \in BOOLEAN /\ dirty' \in BOOLEAN /\ pc' \in
      Places
    BY <1>33 DEF Die, Fault, Goto, tables, TypeOK, Places
  <2>4. timer' \in BOOLEAN /\ seen' \in BOOLEAN /\ stopped' \in BOOLEAN /\ open' \in BOOLEAN
      /\ todo' \in SUBSET Items
    BY <1>33 DEF Die, Fault, Goto, tables, TypeOK
  <2> QED BY <2>1, <2>2, <2>3, <2>4 DEF TypeOK
<1>34. CASE UNCHANGED vars
  BY <1>34, Ids DEF vars, Goto, Others, memory, tables, counters, TypeOK, Statuses, Places
<1> QED BY <1>1, <1>2, <1>3, <1>4, <1>5, <1>6, <1>7, <1>8, <1>9, <1>10, <1>11, <1>12, <1>13,
    <1>14, <1>15, <1>16, <1>17, <1>18, <1>19, <1>20, <1>21, <1>22, <1>23, <1>24, <1>25,
    <1>26, <1>27, <1>28, <1>29, <1>30, <1>31, <1>32, <1>33, <1>34 DEF Next, Server, Pump,
    Writers

\* A row being sent is the head of its pull request: past rows stay past.
LEMMA HeadStep == TypeOK /\ SendingIsHead /\ [Next]_vars => SendingIsHead'
<1> SUFFICES ASSUME TypeOK /\ SendingIsHead, [Next]_vars PROVE SendingIsHead'
  OBVIOUS
<1>1. CASE OpenStore
  BY <1>1, Ids DEF OpenStore, Goto, counters, tables, TypeOK, SendingIsHead, Head, Past,
      Statuses
<1>2. CASE Listen
  BY <1>2, Ids DEF Listen, Goto, counters, memory, tables, TypeOK, SendingIsHead, Head,
      Past, Statuses
<1>3. CASE Wake
  BY <1>3, Ids DEF Wake, Goto, Listening, RequestPump, counters, TypeOK, SendingIsHead,
      Head, Past, Statuses
<1>4. ASSUME NEW m \in Mails, Receive(m) PROVE SendingIsHead'
  BY <1>4, Ids DEF Receive, Goto, Listening, Put, RequestPump, counters, TypeOK,
      SendingIsHead, Head, Past, Statuses
<1>5. CASE TimerFires
  BY <1>5, Ids DEF TimerFires, Goto, RequestPump, counters, tables, TypeOK, SendingIsHead,
      Head, Past, Statuses
<1>6. CASE Begin
  BY <1>6, Ids DEF Begin, Goto, counters, tables, TypeOK, SendingIsHead, Head, Past,
      Statuses
<1>7. CASE Import
  BY <1>7, Ids DEF Import, NextId, Put, counters, TypeOK, SendingIsHead, Head, Past,
      Statuses
<1>8. CASE RecoverExpired
  BY <1>8, Ids DEF RecoverExpired, Expired, Goto, counters, TypeOK, SendingIsHead, Head,
      Past, Statuses
<1>9. ASSUME NEW m \in Mails, Verify(m) PROVE SendingIsHead'
  BY <1>9, Ids DEF Verify, Put, counters, TypeOK, SendingIsHead, Head, Past, Statuses
<1>10. CASE ListHeads
  BY <1>10, Ids DEF ListHeads, Expired, Goto, counters, TypeOK, SendingIsHead, Head, Past,
      Statuses
<1>11. ASSUME NEW l \in Letters, Claim(l) PROVE SendingIsHead'
  BY <1>11, Ids DEF Claim, Goto, Put, counters, TypeOK, SendingIsHead, Head, Past, Statuses
<1>12. ASSUME NEW l \in Letters, Answer(l) PROVE SendingIsHead'
  BY <1>12, Ids DEF Answer, Blocked, Deferred, Delivered, Goto, Put, Settles, counters,
      TypeOK, SendingIsHead, Head, Past, Statuses
<1>13. CASE ListFinalizations
  BY <1>13, Ids DEF ListFinalizations, Goto, counters, tables, TypeOK, SendingIsHead, Head,
      Past, Statuses
<1>14. ASSUME NEW l \in Letters, Finalize(l) PROVE SendingIsHead'
  BY <1>14, Ids DEF Finalize, Put, counters, TypeOK, SendingIsHead, Head, Past, Statuses
<1>15. CASE Again
  BY <1>15, Ids DEF Again, Goto, counters, tables, TypeOK, SendingIsHead, Head, Past,
      Statuses
<1>16. CASE ReadDeadline
  BY <1>16, Ids DEF ReadDeadline, Goto, counters, TypeOK, SendingIsHead, Head, Past,
      Statuses
<1>17. CASE Arm
  BY <1>17, Ids DEF Arm, Goto, counters, tables, TypeOK, SendingIsHead, Head, Past, Statuses
<1>18. CASE EndPump
  BY <1>18, Ids DEF EndPump, Goto, counters, memory, tables, TypeOK, SendingIsHead, Head,
      Past, Statuses
<1>19. CASE CloseStore
  BY <1>19, Ids DEF CloseStore, counters, tables, TypeOK, SendingIsHead, Head, Past,
      Statuses
<1>20. CASE Restart
  BY <1>20, Ids DEF Restart, Goto, counters, memory, tables, TypeOK, SendingIsHead, Head,
      Past, Statuses
<1>21. CASE WriterDies
  BY <1>21, Ids DEF WriterDies, Fault, Others, memory, TypeOK, SendingIsHead, Head, Past,
      Statuses
<1>22. ASSUME NEW i \in Items, BecomesDue(i) PROVE SendingIsHead'
  BY <1>22, Ids DEF BecomesDue, Others, counters, memory, TypeOK, SendingIsHead, Head, Past,
      Statuses
<1>23. ASSUME NEW l \in Letters, Enqueue(l) PROVE SendingIsHead'
  BY <1>23, Ids DEF Enqueue, NextId, Others, Put, counters, memory, TypeOK, SendingIsHead,
      Head, Past, Statuses
<1>24. ASSUME NEW l \in Letters, WorkerClaims(l) PROVE SendingIsHead'
  BY <1>24, Ids DEF WorkerClaims, Others, Put, counters, memory, TypeOK, SendingIsHead,
      Head, Past, Statuses
<1>25. ASSUME NEW l \in Letters, WorkerSettles(l) PROVE SendingIsHead'
  BY <1>25, Ids DEF WorkerSettles, Blocked, Deferred, Delivered, Others, Put, Settles,
      counters, memory, TypeOK, SendingIsHead, Head, Past, Statuses
<1>26. ASSUME NEW l \in Letters, WorkerFinalizes(l) PROVE SendingIsHead'
  BY <1>26, Ids DEF WorkerFinalizes, Others, Put, counters, memory, TypeOK, SendingIsHead,
      Head, Past, Statuses
<1>27. ASSUME NEW l \in Letters, Requeue(l) PROVE SendingIsHead'
  BY <1>27, Ids DEF Requeue, Intervene, OldestBlocked, Others, Put, memory, TypeOK,
      SendingIsHead, Head, Past, Statuses
<1>28. ASSUME NEW l \in Letters, RequeueQuietly(l) PROVE SendingIsHead'
  BY <1>28, Ids DEF RequeueQuietly, Intervene, OldestBlocked, Others, Put, memory, TypeOK,
      SendingIsHead, Head, Past, Statuses
<1>29. ASSUME NEW l \in Letters, Cancel(l) PROVE SendingIsHead'
  BY <1>29, Ids DEF Cancel, Delivered, Intervene, Others, Put, memory, TypeOK, SendingIsHead, Head,
      Past, Statuses
<1>30. ASSUME NEW l \in Letters, DeferDelivery(l) PROVE SendingIsHead'
  BY <1>30, Ids DEF DeferDelivery, Blocked, Deferred, Intervene, Others, Put, memory,
      TypeOK, SendingIsHead, Head, Past, Statuses
<1>31. CASE Throw
  BY <1>31, Ids DEF Throw, Fault, Goto, TypeOK, SendingIsHead, Head, Past, Statuses
<1>32. CASE Stop
  BY <1>32, Ids DEF Stop, Listening, counters, tables, TypeOK, SendingIsHead, Head, Past,
      Statuses
<1>33. CASE Die
  BY <1>33, Ids DEF Die, Fault, Goto, tables, TypeOK, SendingIsHead, Head, Past, Statuses
<1>34. CASE UNCHANGED vars
  BY <1>34, Ids DEF vars, Goto, Others, memory, tables, counters, TypeOK, SendingIsHead,
      Head, Past, Statuses
<1> QED BY <1>1, <1>2, <1>3, <1>4, <1>5, <1>6, <1>7, <1>8, <1>9, <1>10, <1>11, <1>12, <1>13,
    <1>14, <1>15, <1>16, <1>17, <1>18, <1>19, <1>20, <1>21, <1>22, <1>23, <1>24, <1>25,
    <1>26, <1>27, <1>28, <1>29, <1>30, <1>31, <1>32, <1>33, <1>34 DEF Next, Server, Pump,
    Writers

\* Once stopped there is no timer, and the store is open under every pump.
LEMMA QuietStep == Quiet /\ [Next]_vars => Quiet'
<1> SUFFICES ASSUME Quiet, [Next]_vars PROVE Quiet'
  OBVIOUS
<1>1. CASE OpenStore
  BY <1>1 DEF OpenStore, Goto, counters, tables, Quiet, Running, Listening
<1>2. CASE Listen
  BY <1>2 DEF Listen, Goto, counters, memory, tables, Quiet, Running, Listening
<1>3. CASE Wake
  BY <1>3 DEF Wake, Goto, Listening, RequestPump, counters, Quiet, Running
<1>4. ASSUME NEW m \in Mails, Receive(m) PROVE Quiet'
  BY <1>4 DEF Receive, Goto, Listening, Put, RequestPump, counters, Quiet, Running
<1>5. CASE TimerFires
  BY <1>5 DEF TimerFires, Goto, RequestPump, counters, tables, Quiet, Running, Listening
<1>6. CASE Begin
  BY <1>6 DEF Begin, Goto, counters, tables, Quiet, Running, Listening
<1>7. CASE Import
  BY <1>7 DEF Import, NextId, Put, counters, Quiet, Running, Listening
<1>8. CASE RecoverExpired
  BY <1>8 DEF RecoverExpired, Expired, Goto, counters, Quiet, Running, Listening
<1>9. ASSUME NEW m \in Mails, Verify(m) PROVE Quiet'
  BY <1>9 DEF Verify, Put, counters, Quiet, Running, Listening
<1>10. CASE ListHeads
  BY <1>10 DEF ListHeads, Expired, Goto, counters, Quiet, Running, Listening
<1>11. ASSUME NEW l \in Letters, Claim(l) PROVE Quiet'
  BY <1>11 DEF Claim, Goto, Put, counters, Quiet, Running, Listening
<1>12. ASSUME NEW l \in Letters, Answer(l) PROVE Quiet'
  BY <1>12 DEF Answer, Blocked, Deferred, Delivered, Goto, Put, Settles, counters, Quiet,
      Running, Listening
<1>13. CASE ListFinalizations
  BY <1>13 DEF ListFinalizations, Goto, counters, tables, Quiet, Running, Listening
<1>14. ASSUME NEW l \in Letters, Finalize(l) PROVE Quiet'
  BY <1>14 DEF Finalize, Put, counters, Quiet, Running, Listening
<1>15. CASE Again
  BY <1>15 DEF Again, Goto, counters, tables, Quiet, Running, Listening
<1>16. CASE ReadDeadline
  BY <1>16 DEF ReadDeadline, Goto, counters, Quiet, Running, Listening
<1>17. CASE Arm
  BY <1>17 DEF Arm, Goto, counters, tables, Quiet, Running, Listening
<1>18. CASE EndPump
  BY <1>18 DEF EndPump, Goto, counters, memory, tables, Quiet, Running, Listening
<1>19. CASE CloseStore
  BY <1>19 DEF CloseStore, counters, tables, Quiet, Running, Listening
<1>20. CASE Restart
  BY <1>20 DEF Restart, Goto, counters, memory, tables, Quiet, Running, Listening
<1>21. CASE WriterDies
  BY <1>21 DEF WriterDies, Fault, Others, memory, Quiet, Running, Listening
<1>22. ASSUME NEW i \in Items, BecomesDue(i) PROVE Quiet'
  BY <1>22 DEF BecomesDue, Others, counters, memory, Quiet, Running, Listening
<1>23. ASSUME NEW l \in Letters, Enqueue(l) PROVE Quiet'
  BY <1>23 DEF Enqueue, NextId, Others, Put, counters, memory, Quiet, Running, Listening
<1>24. ASSUME NEW l \in Letters, WorkerClaims(l) PROVE Quiet'
  BY <1>24 DEF WorkerClaims, Others, Put, counters, memory, Quiet, Running, Listening
<1>25. ASSUME NEW l \in Letters, WorkerSettles(l) PROVE Quiet'
  BY <1>25 DEF WorkerSettles, Blocked, Deferred, Delivered, Others, Put, Settles, counters,
      memory, Quiet, Running, Listening
<1>26. ASSUME NEW l \in Letters, WorkerFinalizes(l) PROVE Quiet'
  BY <1>26 DEF WorkerFinalizes, Others, Put, counters, memory, Quiet, Running, Listening
<1>27. ASSUME NEW l \in Letters, Requeue(l) PROVE Quiet'
  BY <1>27 DEF Requeue, Intervene, OldestBlocked, Others, Put, memory, Quiet, Running,
      Listening
<1>28. ASSUME NEW l \in Letters, RequeueQuietly(l) PROVE Quiet'
  BY <1>28 DEF RequeueQuietly, Intervene, OldestBlocked, Others, Put, memory, Quiet,
      Running, Listening
<1>29. ASSUME NEW l \in Letters, Cancel(l) PROVE Quiet'
  BY <1>29 DEF Cancel, Delivered, Intervene, Others, Put, memory, Quiet, Running, Listening
<1>30. ASSUME NEW l \in Letters, DeferDelivery(l) PROVE Quiet'
  BY <1>30 DEF DeferDelivery, Blocked, Deferred, Intervene, Others, Put, memory, Quiet,
      Running, Listening
<1>31. CASE Throw
  BY <1>31 DEF Throw, Fault, Goto, Quiet, Running, Listening
<1>32. CASE Stop
  BY <1>32 DEF Stop, Listening, counters, tables, Quiet, Running
<1>33. CASE Die
  BY <1>33 DEF Die, Fault, Goto, tables, Quiet, Running, Listening
<1>34. CASE UNCHANGED vars
  BY <1>34 DEF vars, Goto, Others, memory, tables, counters, Quiet, Running, Listening
<1> QED BY <1>1, <1>2, <1>3, <1>4, <1>5, <1>6, <1>7, <1>8, <1>9, <1>10, <1>11, <1>12, <1>13,
    <1>14, <1>15, <1>16, <1>17, <1>18, <1>19, <1>20, <1>21, <1>22, <1>23, <1>24, <1>25,
    <1>26, <1>27, <1>28, <1>29, <1>30, <1>31, <1>32, <1>33, <1>34 DEF Next, Server, Pump,
    Writers

\* A step that neither announces its change nor is the server's own creates no
\* deadline where there was none.
LEMMA NoNewDeadline ==
    ASSUME TypeOK, SendingIsHead, Waiting' # {},
           \/ \E l \in Letters : WorkerClaims(l) \/ WorkerSettles(l) \/ WorkerFinalizes(l)
           \/ UNCHANGED status
    PROVE  Waiting # {}
<1>1. ASSUME NEW l \in Letters, WorkerClaims(l) PROVE l \in Waiting
  BY <1>1 DEF WorkerClaims, Waiting
<1>2. ASSUME NEW l \in Letters, WorkerSettles(l) PROVE l \in Waiting
  BY <1>2 DEF WorkerSettles, Settles, Waiting, SendingIsHead
<1>3. ASSUME NEW l \in Letters, WorkerFinalizes(l) PROVE l \in Waiting
  BY <1>3 DEF WorkerFinalizes, Waiting
<1>4. CASE UNCHANGED status
  BY <1>4 DEF Waiting, Head, Past
<1> QED BY <1>1, <1>2, <1>3, <1>4

\* The protocol of dirty, the deadline's read and the timer.
LEMMA ArmedStep == TypeOK /\ SendingIsHead /\ Armed /\ [Next]_vars => Armed'
<1> SUFFICES ASSUME TypeOK /\ SendingIsHead /\ Armed, [Next]_vars PROVE Armed'
  OBVIOUS
<1>1. CASE OpenStore
  <2>1. Waiting' = Waiting
    BY <1>1 DEF OpenStore, Goto, counters, tables, Waiting, Head, Past
  <2> QED BY <1>1, <2>1 DEF OpenStore, Goto, counters, tables, Armed, Read, Ended,
      AwakeOrArmed, TypeOK, Listening
<1>2. CASE Listen
  <2>1. Waiting' = Waiting
    BY <1>2 DEF Listen, Goto, counters, memory, tables, Waiting, Head, Past
  <2> QED BY <1>2, <2>1 DEF Listen, Goto, counters, memory, tables, Armed, Read, Ended,
      AwakeOrArmed, TypeOK, Listening
<1>3. CASE Wake
  <2>1. Waiting' = Waiting
    BY <1>3 DEF Wake, Goto, Listening, RequestPump, counters, Waiting, Head, Past
  <2> QED BY <1>3, <2>1 DEF Wake, Goto, Listening, RequestPump, counters, Armed, Read,
      Ended, AwakeOrArmed, TypeOK
<1>4. ASSUME NEW m \in Mails, Receive(m) PROVE Armed'
  BY <1>4 DEF Receive, Goto, Listening, Put, RequestPump, counters, Armed, Read, Ended,
      AwakeOrArmed, TypeOK
<1>5. CASE TimerFires
  <2>1. Waiting' = Waiting
    BY <1>5 DEF TimerFires, Goto, RequestPump, counters, tables, Waiting, Head, Past
  <2> QED BY <1>5, <2>1 DEF TimerFires, Goto, RequestPump, counters, tables, Armed, Read,
      Ended, AwakeOrArmed, TypeOK, Listening
<1>6. CASE Begin
  <2>1. Waiting' = Waiting
    BY <1>6 DEF Begin, Goto, counters, tables, Waiting, Head, Past
  <2> QED BY <1>6, <2>1 DEF Begin, Goto, counters, tables, Armed, Read, Ended, AwakeOrArmed,
      TypeOK, Listening
<1>7. CASE Import
  BY <1>7 DEF Import, NextId, Put, counters, Armed, Read, Ended, AwakeOrArmed, TypeOK,
      Listening
<1>8. CASE RecoverExpired
  BY <1>8 DEF RecoverExpired, Expired, Goto, counters, Armed, Read, Ended, AwakeOrArmed,
      TypeOK, Listening
<1>9. ASSUME NEW m \in Mails, Verify(m) PROVE Armed'
  BY <1>9 DEF Verify, Put, counters, Armed, Read, Ended, AwakeOrArmed, TypeOK, Listening
<1>10. CASE ListHeads
  BY <1>10 DEF ListHeads, Expired, Goto, counters, Armed, Read, Ended, AwakeOrArmed, TypeOK,
      Listening
<1>11. ASSUME NEW l \in Letters, Claim(l) PROVE Armed'
  BY <1>11 DEF Claim, Goto, Put, counters, Armed, Read, Ended, AwakeOrArmed, TypeOK,
      Listening
<1>12. ASSUME NEW l \in Letters, Answer(l) PROVE Armed'
  BY <1>12 DEF Answer, Blocked, Deferred, Delivered, Goto, Put, Settles, counters, Armed,
      Read, Ended, AwakeOrArmed, TypeOK, Listening
<1>13. CASE ListFinalizations
  <2>1. Waiting' = Waiting
    BY <1>13 DEF ListFinalizations, Goto, counters, tables, Waiting, Head, Past
  <2> QED BY <1>13, <2>1 DEF ListFinalizations, Goto, counters, tables, Armed, Read, Ended,
      AwakeOrArmed, TypeOK, Listening
<1>14. ASSUME NEW l \in Letters, Finalize(l) PROVE Armed'
  BY <1>14 DEF Finalize, Put, counters, Armed, Read, Ended, AwakeOrArmed, TypeOK, Listening
<1>15. CASE Again
  <2>1. Waiting' = Waiting
    BY <1>15 DEF Again, Goto, counters, tables, Waiting, Head, Past
  <2> QED BY <1>15, <2>1 DEF Again, Goto, counters, tables, Armed, Read, Ended,
      AwakeOrArmed, TypeOK, Listening
<1>16. CASE ReadDeadline
  <2>1. Waiting' = Waiting
    BY <1>16 DEF ReadDeadline, Goto, counters, Waiting, Head, Past
  <2> QED BY <1>16, <2>1 DEF ReadDeadline, Goto, counters, Armed, Read, Ended, AwakeOrArmed,
      TypeOK, Listening
<1>17. CASE Arm
  <2>1. Waiting' = Waiting
    BY <1>17 DEF Arm, Goto, counters, tables, Waiting, Head, Past
  <2> QED BY <1>17, <2>1 DEF Arm, Goto, counters, tables, Armed, Read, Ended, AwakeOrArmed,
      TypeOK, Listening
<1>18. CASE EndPump
  <2>1. Waiting' = Waiting
    BY <1>18 DEF EndPump, Goto, counters, memory, tables, Waiting, Head, Past
  <2> QED BY <1>18, <2>1 DEF EndPump, Goto, counters, memory, tables, Armed, Read, Ended,
      AwakeOrArmed, TypeOK, Listening
<1>19. CASE CloseStore
  <2>1. Waiting' = Waiting
    BY <1>19 DEF CloseStore, counters, tables, Waiting, Head, Past
  <2> QED BY <1>19, <2>1 DEF CloseStore, counters, tables, Armed, Read, Ended, AwakeOrArmed,
      TypeOK, Listening
<1>20. CASE Restart
  <2>1. Waiting' = Waiting
    BY <1>20 DEF Restart, Goto, counters, memory, tables, Waiting, Head, Past
  <2> QED BY <1>20, <2>1 DEF Restart, Goto, counters, memory, tables, Armed, Read, Ended,
      AwakeOrArmed, TypeOK, Listening
<1>21. CASE WriterDies
  <2>1. Waiting' = Waiting
    BY <1>21 DEF WriterDies, Fault, Others, memory, Waiting, Head, Past
  <2> QED BY <1>21, <2>1 DEF WriterDies, Fault, Others, memory, Armed, Read, Ended,
      AwakeOrArmed, TypeOK, Listening
<1>22. ASSUME NEW i \in Items, BecomesDue(i) PROVE Armed'
  <2>1. Waiting' = Waiting
    BY <1>22 DEF BecomesDue, Others, counters, memory, Waiting, Head, Past
  <2> QED BY <1>22, <2>1 DEF BecomesDue, Others, counters, memory, Armed, Read, Ended,
      AwakeOrArmed, TypeOK, Listening
<1>23. ASSUME NEW l \in Letters, Enqueue(l) PROVE Armed'
  BY <1>23 DEF Enqueue, NextId, Others, Put, counters, memory, Armed, Read, Ended,
      AwakeOrArmed, TypeOK, Listening
<1>24. ASSUME NEW l \in Letters, WorkerClaims(l) PROVE Armed'
  BY <1>24, NoNewDeadline DEF WorkerClaims, Others, memory, counters, Armed, Read, Ended,
      AwakeOrArmed
<1>25. ASSUME NEW l \in Letters, WorkerSettles(l) PROVE Armed'
  BY <1>25, NoNewDeadline DEF WorkerSettles, Others, memory, counters, Armed, Read, Ended,
      AwakeOrArmed
<1>26. ASSUME NEW l \in Letters, WorkerFinalizes(l) PROVE Armed'
  BY <1>26, NoNewDeadline DEF WorkerFinalizes, Others, memory, counters, Armed, Read, Ended,
      AwakeOrArmed
<1>27. ASSUME NEW l \in Letters, Requeue(l) PROVE Armed'
  BY <1>27 DEF Requeue, Intervene, OldestBlocked, Others, Put, memory, Armed, Read, Ended,
      AwakeOrArmed, TypeOK, Listening
<1>28. ASSUME NEW l \in Letters, RequeueQuietly(l) PROVE Armed'
  BY <1>28 DEF RequeueQuietly, Intervene, OldestBlocked, Others, Put, memory, Armed, Read,
      Ended, AwakeOrArmed, TypeOK, Listening
<1>29. ASSUME NEW l \in Letters, Cancel(l) PROVE Armed'
  BY <1>29 DEF Cancel, Delivered, Intervene, Others, Put, memory, Armed, Read, Ended, AwakeOrArmed,
      TypeOK, Listening
<1>30. ASSUME NEW l \in Letters, DeferDelivery(l) PROVE Armed'
  BY <1>30 DEF DeferDelivery, Blocked, Deferred, Intervene, Others, Put, memory, Armed,
      Read, Ended, AwakeOrArmed, TypeOK, Listening
<1>31. CASE Throw
  <2>1. Waiting' = Waiting
    BY <1>31 DEF Throw, Fault, Goto, Waiting, Head, Past
  <2> QED BY <1>31, <2>1 DEF Throw, Fault, Goto, Armed, Read, Ended, AwakeOrArmed, TypeOK,
      Listening
<1>32. CASE Stop
  <2>1. Waiting' = Waiting
    BY <1>32 DEF Stop, Listening, counters, tables, Waiting, Head, Past
  <2> QED BY <1>32, <2>1 DEF Stop, Listening, counters, tables, Armed, Read, Ended,
      AwakeOrArmed, TypeOK
<1>33. CASE Die
  <2>1. Waiting' = Waiting
    BY <1>33 DEF Die, Fault, Goto, tables, Waiting, Head, Past
  <2> QED BY <1>33, <2>1 DEF Die, Fault, Goto, tables, Armed, Read, Ended, AwakeOrArmed,
      TypeOK, Listening
<1>34. CASE UNCHANGED vars
  <2>1. Waiting' = Waiting
    BY <1>34 DEF vars, Goto, Others, memory, tables, counters, Waiting, Head, Past
  <2> QED BY <1>34, <2>1 DEF vars, Goto, Others, memory, tables, counters, Armed, Read,
      Ended, AwakeOrArmed, TypeOK, Listening
<1> QED BY <1>1, <1>2, <1>3, <1>4, <1>5, <1>6, <1>7, <1>8, <1>9, <1>10, <1>11, <1>12, <1>13,
    <1>14, <1>15, <1>16, <1>17, <1>18, <1>19, <1>20, <1>21, <1>22, <1>23, <1>24, <1>25,
    <1>26, <1>27, <1>28, <1>29, <1>30, <1>31, <1>32, <1>33, <1>34 DEF Next, Server, Pump,
    Writers

-----------------------------------------------------------------------------
(* Theorems.                                                               *)

THEOREM InvInit == Init => Inv
<1> SUFFICES ASSUME Init PROVE Inv
  OBVIOUS
<1>1. TypeOK
  <2>1. faults \in 0 .. MaxFaults /\ help \in 0 .. MaxHelp /\ artifacts \in 0 .. Artifacts
    BY Bounds DEF Init
  <2> QED BY <2>1 DEF Init, TypeOK, Statuses, Places
<1>2. SendingIsHead
  BY Ids DEF Init, SendingIsHead
<1>3. Armed /\ Quiet
  BY DEF Init, Armed, Read, Ended, AwakeOrArmed, Quiet, Running
<1> QED BY <1>1, <1>2, <1>3 DEF Inv

THEOREM InvStep == Inv /\ [Next]_vars => Inv'
  BY TypeStep, HeadStep, QuietStep, ArmedStep DEF Inv

THEOREM InvAlways == Spec => []Inv
  BY InvInit, InvStep, PTL DEF Spec

\* The scheduler's variables keep their types, for any number of rows.
THEOREM SchedulerTypes == Spec => []TypeOK
  BY InvAlways, PTL DEF Inv

\* A scheduler at rest over tables with something left to do has a timer armed or
\* is about to be nudged, whatever happened between the deadline's read and the
\* end of the pump; the three exceptions are those unannounced records.
THEOREM NeverAsleepOverWork == Spec => []AwakeOrArmed
<1>1. Inv => AwakeOrArmed
  BY DEF Inv, Armed
<1> QED BY <1>1, InvAlways, PTL

\* stop() leaves no timer, and no pump runs on a closed store.
THEOREM StopIsClean == Spec => []StopsCleanly
<1>1. Inv => StopsCleanly
  BY DEF Inv, Quiet, StopsCleanly
<1> QED BY <1>1, InvAlways, PTL

=============================================================================
