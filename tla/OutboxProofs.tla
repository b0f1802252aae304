---------------------------- MODULE OutboxProofs ----------------------------
EXTENDS Outbox, TLAPS

Valid ==
    /\ TypeOK
    /\ \A p \in Senders : sender[p].pc # "idle" <=> sender[p].key \in Keys

LEMMA RowTyped == Valid /\ [Next]_vars => row' \in [Keys -> Row]
  <1> SUFFICES ASSUME Valid, [Next]_vars PROVE row' \in [Keys -> Row]
    OBVIOUS
  <1>0. row \in [Keys -> Row]
    BY DEF Valid, TypeOK
  <1>1. CASE RecoverExpired
    <2>1. ASSUME NEW r \in Row
          PROVE  [r EXCEPT !.status = "pending_retry", !.lease = "none", !.due = TRUE,
                 !.attempts = IF @ < 2 THEN 2 ELSE @, !.err = "sending_lease_expired"] \in Row
      BY DEF Row, Statuses, TerminalStatus, Errors
    <2>. QED  BY <1>1, <2>1 DEF RecoverExpired, Expired, Valid, TypeOK
  <1>2. CASE CancelOutboundStale
    <2>1. ASSUME NEW r \in Row
          PROVE  [r EXCEPT !.status = "cancelled_stale", !.err = "superseded",
                 !.lease = "none", !.due = TRUE] \in Row
      BY DEF Row, Statuses, TerminalStatus, Errors
    <2>. QED  BY <1>2, <2>1 DEF CancelOutboundStale, Cancellable, Valid, TypeOK
  <1>3. ASSUME NEW k \in Keys, Enqueue(k) PROVE row' \in [Keys -> Row]
    <2>1. [NoRow EXCEPT !.status = "pending", !.seq = nextSeq, !.due = TRUE,
                 !.lifecycle = IF Purpose[k] \in LIFECYCLE_PURPOSES
                               THEN "pending" ELSE "finalized"] \in Row
      BY DEF Row, Statuses, TerminalStatus, Errors, NoRow, Valid, TypeOK
    <2>. QED  BY <1>3, <2>1 DEF Enqueue, Valid, TypeOK
  <1>4. ASSUME NEW k \in Keys, RequeueOldestBlocked(k) PROVE row' \in [Keys -> Row]
    <2>1. ASSUME NEW r \in Row
          PROVE  [r EXCEPT !.status = "pending", !.due = TRUE, !.err = "none"] \in Row
      BY DEF Row, Statuses, TerminalStatus, Errors
    <2>. QED  BY <1>4, <2>1 DEF RequeueOldestBlocked, Valid, TypeOK
  <1>5. ASSUME NEW k \in Keys, MarkFinalized(k) PROVE row' \in [Keys -> Row]
    <2>1. ASSUME NEW r \in Row
          PROVE  [r EXCEPT !.lifecycle = "finalized"] \in Row
      BY DEF Row, Statuses, TerminalStatus, Errors
    <2>. QED  BY <1>5, <2>1 DEF MarkFinalized, Finalizable, Valid, TypeOK
  <1>6. ASSUME NEW k \in Keys, NEW t \in BOOLEAN, Defer(k, t) PROVE row' \in [Keys -> Row]
    <2>1. ASSUME NEW r \in Row, NEW s \in Statuses, NEW n \in Nat, NEW e \in Errors,
                 NEW b \in BOOLEAN
          PROVE  [r EXCEPT !.status = s, !.attempts = n, !.err = e,
                           !.lease = "none", !.due = b] \in Row
      BY DEF Row
    <2>2. row[k] \in Row /\ row[k].attempts \in Nat
      BY DEF Valid, TypeOK, Row
    <2> DEFINE n == row[k].attempts + (IF row[k].status = "sending" THEN 0 ELSE 1)
               s == IF t THEN "pending_retry" ELSE "blocked"
               e == IF t THEN "transport" ELSE "http"
    <2>3. n \in Nat
      BY <2>2
    <2>4. s \in Statuses /\ e \in Errors /\ (~ t) \in BOOLEAN
      BY DEF Statuses, Errors
    <2> DEFINE new == [row[k] EXCEPT !.status = s, !.attempts = n, !.err = e,
                                     !.lease = "none", !.due = ~ t]
    <2>5. row' = [row EXCEPT ![k] = new]
      BY <1>6 DEF Defer
    <2> HIDE DEF n, s, e
    <2>6. new \in Row
      BY <2>1, <2>2, <2>3, <2>4
    <2> HIDE DEF new
    <2>. QED  BY <1>0, <2>5, <2>6
  <1>7. ASSUME NEW p \in Senders, NEW k \in Keys, ClaimOutbound(p, k) PROVE row' \in [Keys -> Row]
    <2>1. ASSUME NEW r \in Row, NEW n \in Nat
          PROVE  [r EXCEPT !.status = "sending", !.attempts = n,
                           !.lease = "live", !.due = FALSE] \in Row
      BY DEF Row, Statuses
    <2>2. row[k] \in Row
      BY DEF Valid, TypeOK
    <2>3. row[k].attempts + 1 \in Nat
      BY <2>2 DEF Row
    <2> DEFINE new == [row[k] EXCEPT !.status = "sending", !.attempts = row[k].attempts + 1,
                                     !.lease = "live", !.due = FALSE]
    <2>4. row' = [row EXCEPT ![k] = new]
      BY <1>7 DEF ClaimOutbound, CLAIMABLE, HoldsBack
    <2>5. new \in Row
      BY <2>1, <2>2, <2>3
    <2> HIDE DEF new
    <2>. QED  BY <1>0, <2>4, <2>5
  <1>8. ASSUME NEW p \in Senders, MarkOutboundDelivered(p) PROVE row' \in [Keys -> Row]
    <2>1. ASSUME NEW r \in Row, NEW g \in Nat, NEW i \in Keys
          PROVE  [r EXCEPT
                 !.status = "delivered", !.receipt = g, !.err = "none",
                 !.lease = "none", !.due = TRUE,
                 !.lifecycle = IF Purpose[i] \in LIFECYCLE_PURPOSES
                               THEN @ ELSE "finalized"] \in Row
      BY DEF Row, Statuses, TerminalStatus, Errors
    <2>2. sender[p].key \in Keys /\ sender[p].got \in Nat
      BY <1>8 DEF MarkOutboundDelivered, Valid, TypeOK, Attempt
    <2>3. row[sender[p].key] \in Row
      BY <2>2 DEF Valid, TypeOK
    <2>. QED  BY <1>8, <2>1, <2>2, <2>3 DEF MarkOutboundDelivered, Settle, Valid, TypeOK
  <1>9. ASSUME NEW p \in Senders, MarkOutboundStale(p) PROVE row' \in [Keys -> Row]
    <2>1. ASSUME NEW r \in Row
          PROVE  [r EXCEPT !.status = "cancelled_stale", !.err = "stale",
                 !.lease = "none", !.due = TRUE] \in Row
      BY DEF Row, Statuses, TerminalStatus, Errors
    <2>2. sender[p].key \in Keys /\ sender[p].got \in Nat
      BY <1>9 DEF MarkOutboundStale, Valid, TypeOK, Attempt
    <2>3. row[sender[p].key] \in Row
      BY <2>2 DEF Valid, TypeOK
    <2>. QED  BY <1>9, <2>1, <2>2, <2>3 DEF MarkOutboundStale, Settle, Valid, TypeOK
  <1>10. ASSUME NEW p \in Senders, MarkOutboundRetry(p) PROVE row' \in [Keys -> Row]
    <2>1. ASSUME NEW r \in Row
          PROVE  [r EXCEPT !.status = "pending_retry", !.err = "transport",
                 !.lease = "none", !.due = FALSE] \in Row
      BY DEF Row, Statuses, TerminalStatus, Errors
    <2>2. sender[p].key \in Keys /\ sender[p].got \in Nat
      BY <1>10 DEF MarkOutboundRetry, Valid, TypeOK, Attempt
    <2>3. row[sender[p].key] \in Row
      BY <2>2 DEF Valid, TypeOK
    <2>. QED  BY <1>10, <2>1, <2>2, <2>3 DEF MarkOutboundRetry, Settle, Valid, TypeOK
  <1>11. ASSUME NEW p \in Senders, MarkOutboundBlocked(p) PROVE row' \in [Keys -> Row]
    <2>1. ASSUME NEW r \in Row
          PROVE  [r EXCEPT !.status = "blocked", !.err = "http",
                 !.lease = "none", !.due = TRUE] \in Row
      BY DEF Row, Statuses, TerminalStatus, Errors
    <2>2. sender[p].key \in Keys /\ sender[p].got \in Nat
      BY <1>11 DEF MarkOutboundBlocked, Valid, TypeOK, Attempt
    <2>3. row[sender[p].key] \in Row
      BY <2>2 DEF Valid, TypeOK
    <2>. QED  BY <1>11, <2>1, <2>2, <2>3 DEF MarkOutboundBlocked, Settle, Valid, TypeOK
  <1>12. ASSUME NEW k \in Keys, LeaseExpires(k) PROVE row' \in [Keys -> Row]
    <2>1. ASSUME NEW r \in Row
          PROVE  [r EXCEPT !.lease = "expired"] \in Row
      BY DEF Row, Statuses, TerminalStatus, Errors
    <2>. QED  BY <1>12, <2>1 DEF LeaseExpires, Valid, TypeOK
  <1>13. ASSUME NEW k \in Keys, LeaseOverrun(k) PROVE row' \in [Keys -> Row]
    <2>1. ASSUME NEW r \in Row
          PROVE  [r EXCEPT !.lease = "expired"] \in Row
      BY DEF Row, Statuses, TerminalStatus, Errors
    <2>. QED  BY <1>13, <2>1 DEF LeaseOverrun, Valid, TypeOK
  <1>14. ASSUME NEW k \in Keys, BecomesDue(k) PROVE row' \in [Keys -> Row]
    <2>1. ASSUME NEW r \in Row
          PROVE  [r EXCEPT !.due = TRUE] \in Row
      BY DEF Row, Statuses, TerminalStatus, Errors
    <2>. QED  BY <1>14, <2>1 DEF BecomesDue, Valid, TypeOK
  <1>15. CASE UNCHANGED row
    BY <1>15 DEF Valid, TypeOK
  <1>. QED
    BY <1>1, <1>2, <1>3, <1>4, <1>5, <1>6, <1>7, <1>8, <1>9, <1>10, <1>11, <1>12, <1>13, <1>14, <1>15
       DEF Next, Table, Sending, Environment, Progress, RetireRead, Lookup, FindStale, Post,
           Answer, Refused, FailBeforePost, LoseAnswer, Crash, Land, Drop, HeadMoves, vars

LEMMA ValidStep == Valid /\ [Next]_vars => Valid'
  <1> SUFFICES ASSUME Valid, [Next]_vars PROVE Valid'
    OBVIOUS
  <1>0. row' \in [Keys -> Row]
    BY RowTyped
  <1>1. CASE RecoverExpired
    BY <1>1, <1>0, OutboxAssumption DEF RecoverExpired, Expired, Valid, TypeOK, Attempt, Steps, Comments, Fault, Idle
  <1>2. CASE CancelOutboundStale
    BY <1>2, <1>0, OutboxAssumption DEF CancelOutboundStale, Cancellable, Valid, TypeOK, Attempt, Steps, Comments, Fault, Idle
  <1>3. ASSUME NEW k \in Keys, Enqueue(k) PROVE Valid'
    BY <1>3, <1>0, OutboxAssumption DEF Enqueue, Valid, TypeOK, Attempt, Steps, Comments, Fault, Idle
  <1>4. ASSUME NEW k \in Keys, RequeueOldestBlocked(k) PROVE Valid'
    BY <1>4, <1>0, OutboxAssumption DEF RequeueOldestBlocked, Valid, TypeOK, Attempt, Steps, Comments, Fault, Idle
  <1>5. ASSUME NEW k \in Keys, RetireRead(k) PROVE Valid'
    BY <1>5, <1>0, OutboxAssumption DEF RetireRead, Valid, TypeOK, Attempt, Steps, Comments, Fault, Idle
  <1>6. ASSUME NEW k \in Keys, MarkFinalized(k) PROVE Valid'
    BY <1>6, <1>0, OutboxAssumption DEF MarkFinalized, Finalizable, Valid, TypeOK, Attempt, Steps, Comments, Fault, Idle
  <1>7. ASSUME NEW k \in Keys, NEW t \in BOOLEAN, Defer(k, t) PROVE Valid'
    BY <1>7, <1>0, OutboxAssumption DEF Defer, Valid, TypeOK, Attempt, Steps, Comments, Fault, Idle
  <1>8. ASSUME NEW p \in Senders, NEW k \in Keys, ClaimOutbound(p, k) PROVE Valid'
    <2>1. row[k].attempts \in Nat
      BY DEF Valid, TypeOK, Row
    <2>2. [pc |-> "claimed", key |-> k, n |-> row[k].attempts + 1, got |-> 0] \in Attempt
      BY <2>1 DEF Attempt, Steps
    <2>. QED
    BY <1>8, <2>2, <1>0, OutboxAssumption DEF ClaimOutbound, CLAIMABLE, HoldsBack, Valid, TypeOK, Attempt, Steps, Comments, Fault, Idle
  <1>9. ASSUME NEW p \in Senders, Lookup(p) PROVE Valid'
    BY <1>9, <1>0, OutboxAssumption DEF Lookup, Valid, TypeOK, Attempt, Steps, Comments, Fault, Idle
  <1>10. ASSUME NEW p \in Senders, FindStale(p) PROVE Valid'
    BY <1>10, <1>0, OutboxAssumption DEF FindStale, Valid, TypeOK, Attempt, Steps, Comments, Fault, Idle
  <1>11. ASSUME NEW p \in Senders, Post(p) PROVE Valid'
    BY <1>11, <1>0, OutboxAssumption DEF Post, Valid, TypeOK, Attempt, Steps, Comments, Fault, Idle
  <1>12. ASSUME NEW p \in Senders, Answer(p) PROVE Valid'
    <2>1. sender[p] \in Attempt /\ sender[p].n \in Nat /\ sender[p].key \in Keys
      BY <1>12 DEF Answer, Valid, TypeOK, Attempt
    <2>2. [sender[p] EXCEPT !.pc = "acked", !.got = sender[p].n] \in Attempt
      BY <2>1 DEF Attempt, Steps
    <2>3. sender' = [sender EXCEPT ![p] = [sender[p] EXCEPT !.pc = "acked", !.got = sender[p].n]]
      BY <1>12 DEF Answer
    <2>4. sender' \in [Senders -> Attempt]
      BY <2>2, <2>3 DEF Valid, TypeOK
    <2>5. \A q \in Senders : sender'[q].pc # "idle" <=> sender'[q].key \in Keys
      BY <2>1, <2>3 DEF Valid, TypeOK, Attempt
    <2>. QED  BY <1>12, <1>0, <2>4, <2>5 DEF Answer, Valid, TypeOK, Comments
  <1>13. ASSUME NEW p \in Senders, NEW o \in {"transient", "permanent"}, Refused(p, o) PROVE Valid'
    BY <1>13, <1>0, OutboxAssumption DEF Refused, Valid, TypeOK, Attempt, Steps, Comments, Fault, Idle
  <1>14. ASSUME NEW p \in Senders, MarkOutboundDelivered(p) PROVE Valid'
    BY <1>14, <1>0, OutboxAssumption DEF MarkOutboundDelivered, Settle, Valid, TypeOK, Attempt, Steps, Comments, Fault, Idle
  <1>15. ASSUME NEW p \in Senders, MarkOutboundStale(p) PROVE Valid'
    BY <1>15, <1>0, OutboxAssumption DEF MarkOutboundStale, Settle, Valid, TypeOK, Attempt, Steps, Comments, Fault, Idle
  <1>16. ASSUME NEW p \in Senders, MarkOutboundRetry(p) PROVE Valid'
    BY <1>16, <1>0, OutboxAssumption DEF MarkOutboundRetry, Settle, Valid, TypeOK, Attempt, Steps, Comments, Fault, Idle
  <1>17. ASSUME NEW p \in Senders, MarkOutboundBlocked(p) PROVE Valid'
    BY <1>17, <1>0, OutboxAssumption DEF MarkOutboundBlocked, Settle, Valid, TypeOK, Attempt, Steps, Comments, Fault, Idle
  <1>18. ASSUME NEW p \in Senders, NEW o \in {"transient", "permanent"}, FailBeforePost(p, o) PROVE Valid'
    BY <1>18, <1>0, OutboxAssumption DEF FailBeforePost, Valid, TypeOK, Attempt, Steps, Comments, Fault, Idle
  <1>19. ASSUME NEW p \in Senders, LoseAnswer(p) PROVE Valid'
    BY <1>19, <1>0, OutboxAssumption DEF LoseAnswer, Valid, TypeOK, Attempt, Steps, Comments, Fault, Idle
  <1>20. ASSUME NEW p \in Senders, Crash(p) PROVE Valid'
    BY <1>20, <1>0, OutboxAssumption DEF Crash, Valid, TypeOK, Attempt, Steps, Comments, Fault, Idle
  <1>21. ASSUME NEW c \in wire, Land(c) PROVE Valid'
    BY <1>21, <1>0, OutboxAssumption DEF Land, Valid, TypeOK, Attempt, Steps, Comments, Fault, Idle
  <1>22. ASSUME NEW c \in wire, Drop(c) PROVE Valid'
    BY <1>22, <1>0, OutboxAssumption DEF Drop, Valid, TypeOK, Attempt, Steps, Comments, Fault, Idle
  <1>23. ASSUME NEW k \in Keys, HeadMoves(k) PROVE Valid'
    BY <1>23, <1>0, OutboxAssumption DEF HeadMoves, Valid, TypeOK, Attempt, Steps, Comments, Fault, Idle
  <1>24. ASSUME NEW k \in Keys, LeaseExpires(k) PROVE Valid'
    BY <1>24, <1>0, OutboxAssumption DEF LeaseExpires, Valid, TypeOK, Attempt, Steps, Comments, Fault, Idle
  <1>25. ASSUME NEW k \in Keys, LeaseOverrun(k) PROVE Valid'
    BY <1>25, <1>0, OutboxAssumption DEF LeaseOverrun, Valid, TypeOK, Attempt, Steps, Comments, Fault, Idle
  <1>26. ASSUME NEW k \in Keys, BecomesDue(k) PROVE Valid'
    BY <1>26, <1>0, OutboxAssumption DEF BecomesDue, Valid, TypeOK, Attempt, Steps, Comments, Fault, Idle
  <1>27. CASE UNCHANGED vars
    BY <1>27, <1>0 DEF vars, Valid, TypeOK, Attempt, Steps, Comments, Fault, Idle
  <1>. QED
    BY <1>1, <1>2, <1>3, <1>4, <1>5, <1>6, <1>7, <1>8, <1>9, <1>10, <1>11, <1>12, <1>13, <1>14, <1>15, <1>16, <1>17, <1>18, <1>19, <1>20, <1>21, <1>22, <1>23, <1>24, <1>25, <1>26, <1>27
       DEF Next, Table, Sending, Environment, Progress

\* No statement renumbers a row, reopens a settled one or changes its receipt, and
\* a row is numbered nextSeq when it appears.
Kept ==
  \A k \in Keys :
    /\ Present(k) => Present(k)' /\ row'[k].seq = row[k].seq
    /\ Terminal(k) => row'[k].status = row[k].status /\ row'[k].receipt = row[k].receipt
    /\ ~ Present(k) /\ Present(k)' => /\ row'[k].seq = nextSeq /\ nextSeq' = nextSeq + 1
                                     /\ \A j \in Keys : j # k => row'[j] = row[j]
    /\ nextSeq' \in {nextSeq, nextSeq + 1}

LEMMA RowKept == Valid /\ [Next]_vars => Kept
  <1> SUFFICES ASSUME Valid, [Next]_vars PROVE Kept
    OBVIOUS
  <1>1. CASE RecoverExpired
    BY ZenonT(30), <1>1, OutboxAssumption DEF RecoverExpired, Expired, Valid, TypeOK, Row, Statuses, TerminalStatus, Kept, Present, Terminal
  <1>2. CASE CancelOutboundStale
    <2>1. retiring \in Keys
      BY <1>2 DEF CancelOutboundStale, Cancellable, Valid, TypeOK
    <2>2. \A k \in Keys : k # retiring => row'[k] = row[k]
      BY <1>2, <2>1 DEF CancelOutboundStale, Cancellable, Valid, TypeOK
    <2>3. row'[retiring].seq = row[retiring].seq
      BY <1>2, <2>1 DEF CancelOutboundStale, Cancellable, Valid, TypeOK, Row
    <2>4. row'[retiring].status \in {row[retiring].status, "cancelled_stale"}
      BY <1>2, <2>1 DEF CancelOutboundStale, Cancellable, Valid, TypeOK, Row
    <2>5. Terminal(retiring) => row'[retiring] = row[retiring]
      BY <1>2, <2>1 DEF CancelOutboundStale, Cancellable, Terminal
    <2>. QED
      BY <1>2, <2>2, <2>3, <2>4, <2>5, <2>1
         DEF CancelOutboundStale, Cancellable, Kept, Present, Terminal, TerminalStatus
  <1>3. ASSUME NEW k \in Keys, Enqueue(k) PROVE Kept
    BY <1>3, OutboxAssumption DEF Enqueue, Valid, TypeOK, Row, Statuses, TerminalStatus, Kept, Present, Terminal
  <1>4. ASSUME NEW k \in Keys, RequeueOldestBlocked(k) PROVE Kept
    BY <1>4, OutboxAssumption DEF RequeueOldestBlocked, Valid, TypeOK, Row, Statuses, TerminalStatus, Kept, Present, Terminal
  <1>5. ASSUME NEW k \in Keys, RetireRead(k) PROVE Kept
    BY <1>5, OutboxAssumption DEF RetireRead, Valid, TypeOK, Row, Statuses, TerminalStatus, Kept, Present, Terminal
  <1>6. ASSUME NEW k \in Keys, MarkFinalized(k) PROVE Kept
    BY <1>6, OutboxAssumption DEF MarkFinalized, Finalizable, Valid, TypeOK, Row, Statuses, TerminalStatus, Kept, Present, Terminal
  <1>7. ASSUME NEW k \in Keys, NEW t \in BOOLEAN, Defer(k, t) PROVE Kept
    BY <1>7, OutboxAssumption DEF Defer, Valid, TypeOK, Row, Statuses, TerminalStatus, Kept, Present, Terminal
  <1>8. ASSUME NEW p \in Senders, NEW k \in Keys, ClaimOutbound(p, k) PROVE Kept
    BY <1>8, OutboxAssumption DEF ClaimOutbound, CLAIMABLE, HoldsBack, Valid, TypeOK, Row, Statuses, TerminalStatus, Kept, Present, Terminal
  <1>9. ASSUME NEW p \in Senders, Lookup(p) PROVE Kept
    BY <1>9, OutboxAssumption DEF Lookup, Valid, TypeOK, Row, Statuses, TerminalStatus, Kept, Present, Terminal
  <1>10. ASSUME NEW p \in Senders, FindStale(p) PROVE Kept
    BY <1>10, OutboxAssumption DEF FindStale, Valid, TypeOK, Row, Statuses, TerminalStatus, Kept, Present, Terminal
  <1>11. ASSUME NEW p \in Senders, Post(p) PROVE Kept
    BY <1>11, OutboxAssumption DEF Post, Valid, TypeOK, Row, Statuses, TerminalStatus, Kept, Present, Terminal
  <1>12. ASSUME NEW p \in Senders, Answer(p) PROVE Kept
    BY <1>12, OutboxAssumption DEF Answer, Valid, TypeOK, Row, Statuses, TerminalStatus, Kept, Present, Terminal
  <1>13. ASSUME NEW p \in Senders, NEW o \in {"transient", "permanent"}, Refused(p, o) PROVE Kept
    BY <1>13, OutboxAssumption DEF Refused, Valid, TypeOK, Row, Statuses, TerminalStatus, Kept, Present, Terminal
  <1>14. ASSUME NEW p \in Senders, MarkOutboundDelivered(p) PROVE Kept
    BY <1>14, OutboxAssumption DEF MarkOutboundDelivered, Settle, Valid, TypeOK, Row, Statuses, TerminalStatus, Kept, Present, Terminal
  <1>15. ASSUME NEW p \in Senders, MarkOutboundStale(p) PROVE Kept
    BY <1>15, OutboxAssumption DEF MarkOutboundStale, Settle, Valid, TypeOK, Row, Statuses, TerminalStatus, Kept, Present, Terminal
  <1>16. ASSUME NEW p \in Senders, MarkOutboundRetry(p) PROVE Kept
    BY <1>16, OutboxAssumption DEF MarkOutboundRetry, Settle, Valid, TypeOK, Row, Statuses, TerminalStatus, Kept, Present, Terminal
  <1>17. ASSUME NEW p \in Senders, MarkOutboundBlocked(p) PROVE Kept
    BY <1>17, OutboxAssumption DEF MarkOutboundBlocked, Settle, Valid, TypeOK, Row, Statuses, TerminalStatus, Kept, Present, Terminal
  <1>18. ASSUME NEW p \in Senders, NEW o \in {"transient", "permanent"}, FailBeforePost(p, o) PROVE Kept
    BY <1>18, OutboxAssumption DEF FailBeforePost, Valid, TypeOK, Row, Statuses, TerminalStatus, Kept, Present, Terminal
  <1>19. ASSUME NEW p \in Senders, LoseAnswer(p) PROVE Kept
    BY <1>19, OutboxAssumption DEF LoseAnswer, Valid, TypeOK, Row, Statuses, TerminalStatus, Kept, Present, Terminal
  <1>20. ASSUME NEW p \in Senders, Crash(p) PROVE Kept
    BY <1>20, OutboxAssumption DEF Crash, Valid, TypeOK, Row, Statuses, TerminalStatus, Kept, Present, Terminal
  <1>21. ASSUME NEW c \in wire, Land(c) PROVE Kept
    BY <1>21, OutboxAssumption DEF Land, Valid, TypeOK, Row, Statuses, TerminalStatus, Kept, Present, Terminal
  <1>22. ASSUME NEW c \in wire, Drop(c) PROVE Kept
    BY <1>22, OutboxAssumption DEF Drop, Valid, TypeOK, Row, Statuses, TerminalStatus, Kept, Present, Terminal
  <1>23. ASSUME NEW k \in Keys, HeadMoves(k) PROVE Kept
    BY <1>23, OutboxAssumption DEF HeadMoves, Valid, TypeOK, Row, Statuses, TerminalStatus, Kept, Present, Terminal
  <1>24. ASSUME NEW k \in Keys, LeaseExpires(k) PROVE Kept
    BY <1>24, OutboxAssumption DEF LeaseExpires, Valid, TypeOK, Row, Statuses, TerminalStatus, Kept, Present, Terminal
  <1>25. ASSUME NEW k \in Keys, LeaseOverrun(k) PROVE Kept
    BY <1>25, OutboxAssumption DEF LeaseOverrun, Valid, TypeOK, Row, Statuses, TerminalStatus, Kept, Present, Terminal
  <1>26. ASSUME NEW k \in Keys, BecomesDue(k) PROVE Kept
    BY <1>26, OutboxAssumption DEF BecomesDue, Valid, TypeOK, Row, Statuses, TerminalStatus, Kept, Present, Terminal
  <1>27. CASE UNCHANGED vars
    BY <1>27 DEF vars, Valid, TypeOK, Row, Statuses, TerminalStatus, Kept, Present, Terminal
  <1>. QED
    BY <1>1, <1>2, <1>3, <1>4, <1>5, <1>6, <1>7, <1>8, <1>9, <1>10, <1>11, <1>12, <1>13, <1>14, <1>15, <1>16, <1>17, <1>18, <1>19, <1>20, <1>21, <1>22, <1>23, <1>24, <1>25, <1>26, <1>27
       DEF Next, Table, Sending, Environment, Progress

\* The rows the order is about: POSTed at least once, or being attempted.
Touched(k) ==
  \/ \E c \in wire \cup remote : c[1] = k
  \/ \E p \in Senders : sender[p].key = k

\* A row is first touched by its claim, when all older rows are settled.
LEMMA TouchedStep ==
  Valid /\ [Next]_vars =>
    \A k \in Keys : Touched(k)' =>
      \/ Touched(k)
      \/ Present(k) /\ \A j \in Keys : Older(j, k) => Terminal(j)
  <1> DEFINE Goal == \A k \in Keys : Touched(k)' =>
                       \/ Touched(k)
                       \/ Present(k) /\ \A j \in Keys : Older(j, k) => Terminal(j)
  <1> SUFFICES ASSUME Valid, [Next]_vars PROVE Goal
    OBVIOUS
  <1>1. CASE RecoverExpired
    BY <1>1, OutboxAssumption DEF RecoverExpired, Expired, Valid, TypeOK, Attempt, Steps, Comments, Touched, Idle, Present, TerminalStatus
  <1>2. CASE CancelOutboundStale
    BY <1>2, OutboxAssumption DEF CancelOutboundStale, Cancellable, Valid, TypeOK, Attempt, Steps, Comments, Touched, Idle, Present, TerminalStatus
  <1>3. ASSUME NEW k \in Keys, Enqueue(k) PROVE Goal
    BY <1>3, OutboxAssumption DEF Enqueue, Valid, TypeOK, Attempt, Steps, Comments, Touched, Idle, Present, TerminalStatus
  <1>4. ASSUME NEW k \in Keys, RequeueOldestBlocked(k) PROVE Goal
    BY <1>4, OutboxAssumption DEF RequeueOldestBlocked, Valid, TypeOK, Attempt, Steps, Comments, Touched, Idle, Present, TerminalStatus
  <1>5. ASSUME NEW k \in Keys, RetireRead(k) PROVE Goal
    BY <1>5, OutboxAssumption DEF RetireRead, Valid, TypeOK, Attempt, Steps, Comments, Touched, Idle, Present, TerminalStatus
  <1>6. ASSUME NEW k \in Keys, MarkFinalized(k) PROVE Goal
    BY <1>6, OutboxAssumption DEF MarkFinalized, Finalizable, Valid, TypeOK, Attempt, Steps, Comments, Touched, Idle, Present, TerminalStatus
  <1>7. ASSUME NEW k \in Keys, NEW t \in BOOLEAN, Defer(k, t) PROVE Goal
    BY <1>7, OutboxAssumption DEF Defer, Valid, TypeOK, Attempt, Steps, Comments, Touched, Idle, Present, TerminalStatus
  <1>8. ASSUME NEW p \in Senders, NEW k \in Keys, ClaimOutbound(p, k) PROVE Goal
    BY <1>8, OutboxAssumption DEF ClaimOutbound, CLAIMABLE, HoldsBack, Valid, TypeOK, Attempt, Steps, Comments, Touched, Idle, Present, TerminalStatus
  <1>9. ASSUME NEW p \in Senders, Lookup(p) PROVE Goal
    BY <1>9, OutboxAssumption DEF Lookup, Valid, TypeOK, Attempt, Steps, Comments, Touched, Idle, Present, TerminalStatus
  <1>10. ASSUME NEW p \in Senders, FindStale(p) PROVE Goal
    BY <1>10, OutboxAssumption DEF FindStale, Valid, TypeOK, Attempt, Steps, Comments, Touched, Idle, Present, TerminalStatus
  <1>11. ASSUME NEW p \in Senders, Post(p) PROVE Goal
    BY <1>11, OutboxAssumption DEF Post, Valid, TypeOK, Attempt, Steps, Comments, Touched, Idle, Present, TerminalStatus
  <1>12. ASSUME NEW p \in Senders, Answer(p) PROVE Goal
    BY <1>12, OutboxAssumption DEF Answer, Valid, TypeOK, Attempt, Steps, Comments, Touched, Idle, Present, TerminalStatus
  <1>13. ASSUME NEW p \in Senders, NEW o \in {"transient", "permanent"}, Refused(p, o) PROVE Goal
    BY <1>13, OutboxAssumption DEF Refused, Valid, TypeOK, Attempt, Steps, Comments, Touched, Idle, Present, TerminalStatus
  <1>14. ASSUME NEW p \in Senders, MarkOutboundDelivered(p) PROVE Goal
    BY <1>14, OutboxAssumption DEF MarkOutboundDelivered, Settle, Valid, TypeOK, Attempt, Steps, Comments, Touched, Idle, Present, TerminalStatus
  <1>15. ASSUME NEW p \in Senders, MarkOutboundStale(p) PROVE Goal
    BY <1>15, OutboxAssumption DEF MarkOutboundStale, Settle, Valid, TypeOK, Attempt, Steps, Comments, Touched, Idle, Present, TerminalStatus
  <1>16. ASSUME NEW p \in Senders, MarkOutboundRetry(p) PROVE Goal
    BY <1>16, OutboxAssumption DEF MarkOutboundRetry, Settle, Valid, TypeOK, Attempt, Steps, Comments, Touched, Idle, Present, TerminalStatus
  <1>17. ASSUME NEW p \in Senders, MarkOutboundBlocked(p) PROVE Goal
    BY <1>17, OutboxAssumption DEF MarkOutboundBlocked, Settle, Valid, TypeOK, Attempt, Steps, Comments, Touched, Idle, Present, TerminalStatus
  <1>18. ASSUME NEW p \in Senders, NEW o \in {"transient", "permanent"}, FailBeforePost(p, o) PROVE Goal
    BY <1>18, OutboxAssumption DEF FailBeforePost, Valid, TypeOK, Attempt, Steps, Comments, Touched, Idle, Present, TerminalStatus
  <1>19. ASSUME NEW p \in Senders, LoseAnswer(p) PROVE Goal
    BY <1>19, OutboxAssumption DEF LoseAnswer, Valid, TypeOK, Attempt, Steps, Comments, Touched, Idle, Present, TerminalStatus
  <1>20. ASSUME NEW p \in Senders, Crash(p) PROVE Goal
    BY <1>20, OutboxAssumption DEF Crash, Valid, TypeOK, Attempt, Steps, Comments, Touched, Idle, Present, TerminalStatus
  <1>21. ASSUME NEW c \in wire, Land(c) PROVE Goal
    BY <1>21, OutboxAssumption DEF Land, Valid, TypeOK, Attempt, Steps, Comments, Touched, Idle, Present, TerminalStatus
  <1>22. ASSUME NEW c \in wire, Drop(c) PROVE Goal
    BY <1>22, OutboxAssumption DEF Drop, Valid, TypeOK, Attempt, Steps, Comments, Touched, Idle, Present, TerminalStatus
  <1>23. ASSUME NEW k \in Keys, HeadMoves(k) PROVE Goal
    BY <1>23, OutboxAssumption DEF HeadMoves, Valid, TypeOK, Attempt, Steps, Comments, Touched, Idle, Present, TerminalStatus
  <1>24. ASSUME NEW k \in Keys, LeaseExpires(k) PROVE Goal
    BY <1>24, OutboxAssumption DEF LeaseExpires, Valid, TypeOK, Attempt, Steps, Comments, Touched, Idle, Present, TerminalStatus
  <1>25. ASSUME NEW k \in Keys, LeaseOverrun(k) PROVE Goal
    BY <1>25, OutboxAssumption DEF LeaseOverrun, Valid, TypeOK, Attempt, Steps, Comments, Touched, Idle, Present, TerminalStatus
  <1>26. ASSUME NEW k \in Keys, BecomesDue(k) PROVE Goal
    BY <1>26, OutboxAssumption DEF BecomesDue, Valid, TypeOK, Attempt, Steps, Comments, Touched, Idle, Present, TerminalStatus
  <1>27. CASE UNCHANGED vars
    BY <1>27 DEF vars, Valid, TypeOK, Attempt, Steps, Comments, Touched, Idle, Present, TerminalStatus
  <1>. QED
    BY <1>1, <1>2, <1>3, <1>4, <1>5, <1>6, <1>7, <1>8, <1>9, <1>10, <1>11, <1>12, <1>13, <1>14, <1>15, <1>16, <1>17, <1>18, <1>19, <1>20, <1>21, <1>22, <1>23, <1>24, <1>25, <1>26, <1>27
       DEF Next, Table, Sending, Environment, Progress
-----------------------------------------------------------------------------
(* Type correctness.                                                       *)

LEMMA ValidInit == Init => Valid
  BY OutboxAssumption
     DEF Init, Valid, TypeOK, Row, Attempt, Steps, Statuses, Errors, Comments, NoRow, Idle

LEMMA ValidAlways == Spec => []Valid
  BY ValidInit, ValidStep, PTL DEF Spec

\* Every reachable state of the outbox is well typed, for every set of keys,
\* senders and any number of faults.
THEOREM TypeCorrect == Spec => []TypeOK
  <1>1. Valid => TypeOK
    BY DEF Valid
  <1>. QED  BY ValidAlways, <1>1, PTL

-----------------------------------------------------------------------------
(* A settled row keeps its outcome: markOutbound* and recordOutboundFailure *)
(* of late senders, recovery, requeue and close all leave it alone.         *)

\* SettledStays holds of every step of every process.
THEOREM SettledForever == Spec => SettledStays
  <1>1. Valid /\ [Next]_vars => [SettledKept]_vars
    BY RowKept DEF Kept, SettledKept
  <1>. QED  BY ValidAlways, <1>1, PTL DEF Spec, SettledStays

-----------------------------------------------------------------------------
(* The per-PR order.  InOrder alone is not inductive: a row enqueued later  *)
(* must be numbered after every touched row.                                *)

Numbered == \A k \in Keys : Present(k) => row[k].seq < nextSeq
Ordered ==
  \A k \in Keys : Touched(k) =>
    Present(k) /\ \A j \in Keys : Older(j, k) => Terminal(j)
OrderInv == Valid /\ Numbered /\ Ordered

LEMMA OrderStep == OrderInv /\ [Next]_vars => OrderInv'
  <1> SUFFICES ASSUME OrderInv, [Next]_vars PROVE OrderInv'
    OBVIOUS
  <1> USE DEF OrderInv
  <1>1. Valid'
    BY ValidStep
  <1>2. Kept
    BY RowKept
  <1>3. nextSeq \in Nat /\ \A k \in Keys : row[k].seq \in Nat /\ row'[k].seq \in Nat
    BY <1>1 DEF Valid, TypeOK, Row
  <1>4. Numbered'
    BY <1>2, <1>3 DEF Numbered, Kept
  <1>5. ASSUME NEW k \in Keys, Touched(k)'
        PROVE  Present(k)' /\ \A j \in Keys : Older(j, k)' => Terminal(j)'
    <2>1. Present(k) /\ \A j \in Keys : Older(j, k) => Terminal(j)
      BY <1>5, TouchedStep DEF Ordered
    <2>2. Present(k)' /\ row'[k].seq = row[k].seq /\ row[k].seq < nextSeq
      BY <2>1, <1>2 DEF Kept, Numbered
    <2>3. ASSUME NEW j \in Keys, Older(j, k)' PROVE Older(j, k)
      BY <2>2, <2>3, <1>2, <1>3 DEF Older, Kept
    <2>4. \A j \in Keys : Terminal(j) => Terminal(j)'
      BY <1>2 DEF Kept, Terminal
    <2>. QED  BY <2>1, <2>2, <2>3, <2>4
  <1>. QED  BY <1>1, <1>4, <1>5 DEF Ordered

\* No row is POSTed, or even attempted, before every older row of its pull
\* request is settled: for any interleaving of any number of senders, however
\* long they outlive their leases.
THEOREM PerPROrder == Spec => []InOrder
  <1>1. Init => OrderInv
    <2>1. Init => Numbered /\ Ordered
      BY OutboxAssumption DEF Init, Numbered, Ordered, Touched, Present, NoRow, Idle
    <2>. QED  BY <2>1, ValidInit DEF OrderInv
  <1>2. OrderInv => InOrder
    BY DEF OrderInv, Ordered, InOrder, Touched
  <1>. QED  BY <1>1, <1>2, OrderStep, PTL DEF Spec

-----------------------------------------------------------------------------
(* A delivered row has the receipt of a comment of its own.  The attempt    *)
(* that learned a receipt must have seen a real comment, and comments stay. *)

Witnessed ==
  \A p \in Senders : sender[p].pc = "acked" => <<sender[p].key, sender[p].got>> \in remote

ReceiptInv == Valid /\ Witnessed /\ DeliveredHasReceipt

LEMMA WitnessedStep == Valid /\ Witnessed /\ [Next]_vars => Witnessed'
  <1> SUFFICES ASSUME Valid, Witnessed, [Next]_vars PROVE Witnessed'
    OBVIOUS
  <1>1. CASE RecoverExpired
    BY <1>1, OutboxAssumption DEF RecoverExpired, Expired, Valid, TypeOK, Attempt, Steps, Comments, Idle, Witnessed
  <1>2. CASE CancelOutboundStale
    BY <1>2, OutboxAssumption DEF CancelOutboundStale, Cancellable, Valid, TypeOK, Attempt, Steps, Comments, Idle, Witnessed
  <1>3. ASSUME NEW k \in Keys, Enqueue(k) PROVE Witnessed'
    BY <1>3, OutboxAssumption DEF Enqueue, Valid, TypeOK, Attempt, Steps, Comments, Idle, Witnessed
  <1>4. ASSUME NEW k \in Keys, RequeueOldestBlocked(k) PROVE Witnessed'
    BY <1>4, OutboxAssumption DEF RequeueOldestBlocked, Valid, TypeOK, Attempt, Steps, Comments, Idle, Witnessed
  <1>5. ASSUME NEW k \in Keys, RetireRead(k) PROVE Witnessed'
    BY <1>5, OutboxAssumption DEF RetireRead, Valid, TypeOK, Attempt, Steps, Comments, Idle, Witnessed
  <1>6. ASSUME NEW k \in Keys, MarkFinalized(k) PROVE Witnessed'
    BY <1>6, OutboxAssumption DEF MarkFinalized, Finalizable, Valid, TypeOK, Attempt, Steps, Comments, Idle, Witnessed
  <1>7. ASSUME NEW k \in Keys, NEW t \in BOOLEAN, Defer(k, t) PROVE Witnessed'
    BY <1>7, OutboxAssumption DEF Defer, Valid, TypeOK, Attempt, Steps, Comments, Idle, Witnessed
  <1>8. ASSUME NEW p \in Senders, NEW k \in Keys, ClaimOutbound(p, k) PROVE Witnessed'
    BY <1>8, OutboxAssumption DEF ClaimOutbound, CLAIMABLE, HoldsBack, Valid, TypeOK, Attempt, Steps, Comments, Idle, Witnessed
  <1>9. ASSUME NEW p \in Senders, Lookup(p) PROVE Witnessed'
    BY <1>9, OutboxAssumption DEF Lookup, Valid, TypeOK, Attempt, Steps, Comments, Idle, Witnessed
  <1>10. ASSUME NEW p \in Senders, FindStale(p) PROVE Witnessed'
    BY <1>10, OutboxAssumption DEF FindStale, Valid, TypeOK, Attempt, Steps, Comments, Idle, Witnessed
  <1>11. ASSUME NEW p \in Senders, Post(p) PROVE Witnessed'
    BY <1>11, OutboxAssumption DEF Post, Valid, TypeOK, Attempt, Steps, Comments, Idle, Witnessed
  <1>12. ASSUME NEW p \in Senders, Answer(p) PROVE Witnessed'
    BY <1>12, OutboxAssumption DEF Answer, Valid, TypeOK, Attempt, Steps, Comments, Idle, Witnessed
  <1>13. ASSUME NEW p \in Senders, NEW o \in {"transient", "permanent"}, Refused(p, o) PROVE Witnessed'
    BY <1>13, OutboxAssumption DEF Refused, Valid, TypeOK, Attempt, Steps, Comments, Idle, Witnessed
  <1>14. ASSUME NEW p \in Senders, MarkOutboundDelivered(p) PROVE Witnessed'
    BY <1>14, OutboxAssumption DEF MarkOutboundDelivered, Settle, Valid, TypeOK, Attempt, Steps, Comments, Idle, Witnessed
  <1>15. ASSUME NEW p \in Senders, MarkOutboundStale(p) PROVE Witnessed'
    BY <1>15, OutboxAssumption DEF MarkOutboundStale, Settle, Valid, TypeOK, Attempt, Steps, Comments, Idle, Witnessed
  <1>16. ASSUME NEW p \in Senders, MarkOutboundRetry(p) PROVE Witnessed'
    BY <1>16, OutboxAssumption DEF MarkOutboundRetry, Settle, Valid, TypeOK, Attempt, Steps, Comments, Idle, Witnessed
  <1>17. ASSUME NEW p \in Senders, MarkOutboundBlocked(p) PROVE Witnessed'
    BY <1>17, OutboxAssumption DEF MarkOutboundBlocked, Settle, Valid, TypeOK, Attempt, Steps, Comments, Idle, Witnessed
  <1>18. ASSUME NEW p \in Senders, NEW o \in {"transient", "permanent"}, FailBeforePost(p, o) PROVE Witnessed'
    BY <1>18, OutboxAssumption DEF FailBeforePost, Valid, TypeOK, Attempt, Steps, Comments, Idle, Witnessed
  <1>19. ASSUME NEW p \in Senders, LoseAnswer(p) PROVE Witnessed'
    BY <1>19, OutboxAssumption DEF LoseAnswer, Valid, TypeOK, Attempt, Steps, Comments, Idle, Witnessed
  <1>20. ASSUME NEW p \in Senders, Crash(p) PROVE Witnessed'
    BY <1>20, OutboxAssumption DEF Crash, Valid, TypeOK, Attempt, Steps, Comments, Idle, Witnessed
  <1>21. ASSUME NEW c \in wire, Land(c) PROVE Witnessed'
    BY <1>21, OutboxAssumption DEF Land, Valid, TypeOK, Attempt, Steps, Comments, Idle, Witnessed
  <1>22. ASSUME NEW c \in wire, Drop(c) PROVE Witnessed'
    BY <1>22, OutboxAssumption DEF Drop, Valid, TypeOK, Attempt, Steps, Comments, Idle, Witnessed
  <1>23. ASSUME NEW k \in Keys, HeadMoves(k) PROVE Witnessed'
    BY <1>23, OutboxAssumption DEF HeadMoves, Valid, TypeOK, Attempt, Steps, Comments, Idle, Witnessed
  <1>24. ASSUME NEW k \in Keys, LeaseExpires(k) PROVE Witnessed'
    BY <1>24, OutboxAssumption DEF LeaseExpires, Valid, TypeOK, Attempt, Steps, Comments, Idle, Witnessed
  <1>25. ASSUME NEW k \in Keys, LeaseOverrun(k) PROVE Witnessed'
    BY <1>25, OutboxAssumption DEF LeaseOverrun, Valid, TypeOK, Attempt, Steps, Comments, Idle, Witnessed
  <1>26. ASSUME NEW k \in Keys, BecomesDue(k) PROVE Witnessed'
    BY <1>26, OutboxAssumption DEF BecomesDue, Valid, TypeOK, Attempt, Steps, Comments, Idle, Witnessed
  <1>27. CASE UNCHANGED vars
    BY <1>27 DEF vars, Valid, TypeOK, Attempt, Steps, Comments, Idle, Witnessed
  <1>. QED
    BY <1>1, <1>2, <1>3, <1>4, <1>5, <1>6, <1>7, <1>8, <1>9, <1>10, <1>11, <1>12, <1>13, <1>14, <1>15, <1>16, <1>17, <1>18, <1>19, <1>20, <1>21, <1>22, <1>23, <1>24, <1>25, <1>26, <1>27
       DEF Next, Table, Sending, Environment, Progress

LEMMA ReceiptStep == ReceiptInv /\ [Next]_vars => ReceiptInv'
  <1> SUFFICES ASSUME ReceiptInv, [Next]_vars PROVE DeliveredHasReceipt'
    BY ValidStep, WitnessedStep DEF ReceiptInv
  <1> USE DEF ReceiptInv
  <1>1. CASE RecoverExpired
    <2>1. ASSUME NEW k \in Keys, row'[k].status = "delivered"
          PROVE  row[k].status = "delivered" /\ row'[k].receipt = row[k].receipt
      <3>1. CASE Expired(k)
        BY <1>1, <2>1, <3>1 DEF RecoverExpired, Valid, TypeOK, Row
      <3>2. CASE ~ Expired(k)
        BY <1>1, <2>1, <3>2 DEF RecoverExpired
      <3>. QED
        BY <3>1, <3>2
    <2>2. remote' = remote
      BY <1>1 DEF RecoverExpired
    <2>. QED
      BY <2>1, <2>2 DEF DeliveredHasReceipt
  <1>2. CASE CancelOutboundStale
    BY <1>2, OutboxAssumption DEF CancelOutboundStale, Cancellable, Valid, TypeOK, Row, Comments, Witnessed, DeliveredHasReceipt
  <1>3. ASSUME NEW k \in Keys, Enqueue(k) PROVE DeliveredHasReceipt'
    BY <1>3, OutboxAssumption DEF Enqueue, Valid, TypeOK, Row, Comments, Witnessed, DeliveredHasReceipt
  <1>4. ASSUME NEW k \in Keys, RequeueOldestBlocked(k) PROVE DeliveredHasReceipt'
    BY <1>4, OutboxAssumption DEF RequeueOldestBlocked, Valid, TypeOK, Row, Comments, Witnessed, DeliveredHasReceipt
  <1>5. ASSUME NEW k \in Keys, RetireRead(k) PROVE DeliveredHasReceipt'
    BY <1>5, OutboxAssumption DEF RetireRead, Valid, TypeOK, Row, Comments, Witnessed, DeliveredHasReceipt
  <1>6. ASSUME NEW k \in Keys, MarkFinalized(k) PROVE DeliveredHasReceipt'
    BY <1>6, OutboxAssumption DEF MarkFinalized, Finalizable, Valid, TypeOK, Row, Comments, Witnessed, DeliveredHasReceipt
  <1>7. ASSUME NEW k \in Keys, NEW t \in BOOLEAN, Defer(k, t) PROVE DeliveredHasReceipt'
    BY <1>7, OutboxAssumption DEF Defer, Valid, TypeOK, Row, Comments, Witnessed, DeliveredHasReceipt
  <1>8. ASSUME NEW p \in Senders, NEW k \in Keys, ClaimOutbound(p, k) PROVE DeliveredHasReceipt'
    BY <1>8, OutboxAssumption DEF ClaimOutbound, CLAIMABLE, HoldsBack, Valid, TypeOK, Row, Comments, Witnessed, DeliveredHasReceipt
  <1>9. ASSUME NEW p \in Senders, Lookup(p) PROVE DeliveredHasReceipt'
    BY <1>9, OutboxAssumption DEF Lookup, Valid, TypeOK, Row, Comments, Witnessed, DeliveredHasReceipt
  <1>10. ASSUME NEW p \in Senders, FindStale(p) PROVE DeliveredHasReceipt'
    BY <1>10, OutboxAssumption DEF FindStale, Valid, TypeOK, Row, Comments, Witnessed, DeliveredHasReceipt
  <1>11. ASSUME NEW p \in Senders, Post(p) PROVE DeliveredHasReceipt'
    BY <1>11, OutboxAssumption DEF Post, Valid, TypeOK, Row, Comments, Witnessed, DeliveredHasReceipt
  <1>12. ASSUME NEW p \in Senders, Answer(p) PROVE DeliveredHasReceipt'
    BY <1>12, OutboxAssumption DEF Answer, Valid, TypeOK, Row, Comments, Witnessed, DeliveredHasReceipt
  <1>13. ASSUME NEW p \in Senders, NEW o \in {"transient", "permanent"}, Refused(p, o) PROVE DeliveredHasReceipt'
    BY <1>13, OutboxAssumption DEF Refused, Valid, TypeOK, Row, Comments, Witnessed, DeliveredHasReceipt
  <1>14. ASSUME NEW p \in Senders, MarkOutboundDelivered(p) PROVE DeliveredHasReceipt'
    BY <1>14, OutboxAssumption DEF MarkOutboundDelivered, Settle, Valid, TypeOK, Row, Comments, Witnessed, DeliveredHasReceipt
  <1>15. ASSUME NEW p \in Senders, MarkOutboundStale(p) PROVE DeliveredHasReceipt'
    BY <1>15, OutboxAssumption DEF MarkOutboundStale, Settle, Valid, TypeOK, Row, Comments, Witnessed, DeliveredHasReceipt
  <1>16. ASSUME NEW p \in Senders, MarkOutboundRetry(p) PROVE DeliveredHasReceipt'
    BY <1>16, OutboxAssumption DEF MarkOutboundRetry, Settle, Valid, TypeOK, Row, Comments, Witnessed, DeliveredHasReceipt
  <1>17. ASSUME NEW p \in Senders, MarkOutboundBlocked(p) PROVE DeliveredHasReceipt'
    BY <1>17, OutboxAssumption DEF MarkOutboundBlocked, Settle, Valid, TypeOK, Row, Comments, Witnessed, DeliveredHasReceipt
  <1>18. ASSUME NEW p \in Senders, NEW o \in {"transient", "permanent"}, FailBeforePost(p, o) PROVE DeliveredHasReceipt'
    BY <1>18, OutboxAssumption DEF FailBeforePost, Valid, TypeOK, Row, Comments, Witnessed, DeliveredHasReceipt
  <1>19. ASSUME NEW p \in Senders, LoseAnswer(p) PROVE DeliveredHasReceipt'
    BY <1>19, OutboxAssumption DEF LoseAnswer, Valid, TypeOK, Row, Comments, Witnessed, DeliveredHasReceipt
  <1>20. ASSUME NEW p \in Senders, Crash(p) PROVE DeliveredHasReceipt'
    BY <1>20, OutboxAssumption DEF Crash, Valid, TypeOK, Row, Comments, Witnessed, DeliveredHasReceipt
  <1>21. ASSUME NEW c \in wire, Land(c) PROVE DeliveredHasReceipt'
    BY <1>21, OutboxAssumption DEF Land, Valid, TypeOK, Row, Comments, Witnessed, DeliveredHasReceipt
  <1>22. ASSUME NEW c \in wire, Drop(c) PROVE DeliveredHasReceipt'
    BY <1>22, OutboxAssumption DEF Drop, Valid, TypeOK, Row, Comments, Witnessed, DeliveredHasReceipt
  <1>23. ASSUME NEW k \in Keys, HeadMoves(k) PROVE DeliveredHasReceipt'
    BY <1>23, OutboxAssumption DEF HeadMoves, Valid, TypeOK, Row, Comments, Witnessed, DeliveredHasReceipt
  <1>24. ASSUME NEW k \in Keys, LeaseExpires(k) PROVE DeliveredHasReceipt'
    BY <1>24, OutboxAssumption DEF LeaseExpires, Valid, TypeOK, Row, Comments, Witnessed, DeliveredHasReceipt
  <1>25. ASSUME NEW k \in Keys, LeaseOverrun(k) PROVE DeliveredHasReceipt'
    BY <1>25, OutboxAssumption DEF LeaseOverrun, Valid, TypeOK, Row, Comments, Witnessed, DeliveredHasReceipt
  <1>26. ASSUME NEW k \in Keys, BecomesDue(k) PROVE DeliveredHasReceipt'
    BY <1>26, OutboxAssumption DEF BecomesDue, Valid, TypeOK, Row, Comments, Witnessed, DeliveredHasReceipt
  <1>27. CASE UNCHANGED vars
    BY <1>27 DEF vars, Valid, TypeOK, Row, Comments, Witnessed, DeliveredHasReceipt
  <1>. QED
    BY <1>1, <1>2, <1>3, <1>4, <1>5, <1>6, <1>7, <1>8, <1>9, <1>10, <1>11, <1>12, <1>13, <1>14, <1>15, <1>16, <1>17, <1>18, <1>19, <1>20, <1>21, <1>22, <1>23, <1>24, <1>25, <1>26, <1>27
       DEF Next, Table, Sending, Environment, Progress

\* A row reported as delivered points at a comment the SCM holds for that row,
\* whichever sender's statement reported it.
THEOREM ReceiptsAreReal == Spec => []DeliveredHasReceipt
  <1>1. Init => ReceiptInv
    <2>1. Init => Witnessed /\ DeliveredHasReceipt
      BY DEF Init, Witnessed, DeliveredHasReceipt, NoRow, Idle
    <2>. QED  BY <2>1, ValidInit DEF ReceiptInv
  <1>2. ReceiptInv => DeliveredHasReceipt
    BY DEF ReceiptInv
  <1>. QED  BY <1>1, <1>2, ReceiptStep, PTL DEF Spec

-----------------------------------------------------------------------------
(***************************************************************************)
(* What the outbox guarantees when no attempt outlives its claim on the    *)
(* row: one comment per row, one attempt per pull request, and the         *)
(* refinement of Delivery.  The assumption is needed: mark* statements     *)
(* carry no claim token, so a late sender settles its successor's claim.   *)
(***************************************************************************)
\* An attempt holds the row's only live claim.
Held ==
  \A p \in Senders : sender[p].pc # "idle" =>
    LET r == row[sender[p].key]
    IN r.status = "sending" /\ r.lease = "live" /\ r.attempts = sender[p].n /\ sender[p].n > 0

Alone ==
  \A p, q \in Senders :
    p # q /\ sender[p].pc # "idle" /\ sender[q].pc # "idle" => sender[p].key # sender[q].key

\* A POST on the wire is the only trace of its row, and its claim is still live,
\* also after the sender crashed.
OnWire ==
  \A c \in wire :
    /\ row[c[1]].status = "sending" /\ row[c[1]].lease = "live"
    /\ \A p \in Senders : sender[p].key = c[1] => sender[p].pc = "posting" /\ sender[p].n = c[2]
    /\ \A d \in remote : d[1] # c[1]
    /\ \A d \in wire : d[1] = c[1] => d = c

Unposted ==
  \A k \in Keys : row[k].attempts = 0 \/ ~ Present(k) => \A c \in wire \cup remote : c[1] # k

\* An attempt about to POST has reason to know that nothing was posted.
Blind ==
  \A p \in Senders :
    sender[p].pc = "looked" \/ (sender[p].pc = "claimed" /\ sender[p].n = 1)
    => \A c \in remote : c[1] # sender[p].key

Exclusive == Held /\ Alone /\ OnWire /\ Unposted /\ Blind /\ NoDuplicate

LEMMA ExclusiveInit == Init => Exclusive
  BY DEF Init, Exclusive, Held, Alone, OnWire, Unposted, Blind, NoDuplicate, Idle, NoRow, Present

LEMMA ExclusiveStep ==
  ASSUME Timely, Valid, Exclusive, [Next]_vars PROVE Exclusive'
  <1>1. CASE RecoverExpired
    <2>1. \A k \in Keys : row[k].lease # "expired" => row'[k] = row[k]
      BY <1>1 DEF RecoverExpired, Expired
    <2>2. \A k \in Keys : row'[k].attempts = 0 \/ ~ Present(k)'
                          => row[k].attempts = 0 \/ ~ Present(k)
      <3>1. \A k \in Keys : row[k].attempts \in Nat
        BY DEF Valid, TypeOK, Row, Attempt
      <3>2. ASSUME NEW k \in Keys, row'[k] # row[k]
            PROVE  row'[k].attempts > 0 /\ row'[k].status = "pending_retry"
        <4>1. row'[k] = [row[k] EXCEPT
                 !.status = "pending_retry", !.lease = "none", !.due = TRUE,
                 !.attempts = IF @ < 2 THEN 2 ELSE @, !.err = "sending_lease_expired"]
          BY <1>1, <3>2 DEF RecoverExpired, Expired
        <4>2. row[k] \in Row
          BY DEF Valid, TypeOK
        <4>. QED  BY <3>1, <4>1, <4>2 DEF Row
      <3>. QED  BY <3>2 DEF Present
    <2>3. Held' /\ Alone' /\ Blind' /\ NoDuplicate'
      BY <1>1, <2>1 DEF RecoverExpired, Expired, Valid, Exclusive, Held, Alone, OnWire, Unposted, Blind, NoDuplicate
    <2>4. OnWire'
      BY ZenonT(30), <1>1, <2>1 DEF RecoverExpired, Expired, Comments, Exclusive, Held, Alone, OnWire, Unposted, Blind, NoDuplicate, Valid, TypeOK
    <2>5. Unposted'
      BY <1>1, <2>2 DEF RecoverExpired, Expired, Exclusive, Held, Alone, OnWire, Unposted, Blind, NoDuplicate
    <2>. QED  BY <2>3, <2>4, <2>5 DEF Exclusive
  <1>2. CASE CancelOutboundStale
    BY <1>2, OutboxAssumption DEF CancelOutboundStale, Cancellable, Valid, TypeOK, Row, Attempt, Comments, Idle, Exclusive, Held, Alone, OnWire, Unposted, Blind, NoDuplicate, Present, LooksUp, InFlight, NoRow, TerminalStatus
  <1>3. ASSUME NEW k \in Keys, Enqueue(k) PROVE Exclusive'
    <2>1. \A j \in Keys : j # k => row'[j] = row[j]
      BY <1>3 DEF Enqueue, Valid, TypeOK
    <2>2. \A q \in Senders : sender[q].pc # "idle" => sender[q].key # k
      BY <1>3 DEF Enqueue, Present, Exclusive, Held, Alone, OnWire, Unposted, Blind, NoDuplicate
    <2>3. \A c \in wire \cup remote : c[1] # k
      BY <1>3 DEF Enqueue, Exclusive, Held, Alone, OnWire, Unposted, Blind, NoDuplicate
    <2>4. Held' /\ Alone' /\ Blind' /\ NoDuplicate'
      BY <1>3, <2>1, <2>2 DEF Enqueue, Valid, Exclusive, Held, Alone, OnWire, Unposted, Blind, NoDuplicate
    <2>5. OnWire'
      BY <1>3, <2>1, <2>3 DEF Enqueue, Comments, Exclusive, Held, Alone, OnWire, Unposted, Blind, NoDuplicate, Valid, TypeOK
    <2>6. Unposted'
      BY <1>3, <2>1, <2>3 DEF Enqueue, Present, Exclusive, Held, Alone, OnWire, Unposted, Blind, NoDuplicate
    <2>. QED  BY <2>4, <2>5, <2>6 DEF Exclusive
  <1>4. ASSUME NEW k \in Keys, RequeueOldestBlocked(k) PROVE Exclusive'
    BY <1>4, OutboxAssumption DEF RequeueOldestBlocked, Valid, TypeOK, Row, Attempt, Comments, Idle, Exclusive, Held, Alone, OnWire, Unposted, Blind, NoDuplicate, Present, LooksUp, InFlight, NoRow, TerminalStatus
  <1>5. ASSUME NEW k \in Keys, RetireRead(k) PROVE Exclusive'
    BY <1>5, OutboxAssumption DEF RetireRead, Valid, TypeOK, Row, Attempt, Comments, Idle, Exclusive, Held, Alone, OnWire, Unposted, Blind, NoDuplicate, Present, LooksUp, InFlight, NoRow, TerminalStatus
  <1>6. ASSUME NEW k \in Keys, MarkFinalized(k) PROVE Exclusive'
    BY <1>6, OutboxAssumption DEF MarkFinalized, Finalizable, Valid, TypeOK, Row, Attempt, Comments, Idle, Exclusive, Held, Alone, OnWire, Unposted, Blind, NoDuplicate, Present, LooksUp, InFlight, NoRow, TerminalStatus
  <1>7. ASSUME NEW k \in Keys, NEW t \in BOOLEAN, Defer(k, t) PROVE Exclusive'
    BY <1>7, OutboxAssumption DEF Defer, Valid, TypeOK, Row, Attempt, Comments, Idle, Exclusive, Held, Alone, OnWire, Unposted, Blind, NoDuplicate, Present, LooksUp, InFlight, NoRow, TerminalStatus
  <1>8. ASSUME NEW p \in Senders, NEW k \in Keys, ClaimOutbound(p, k) PROVE Exclusive'
    BY <1>8, OutboxAssumption DEF ClaimOutbound, CLAIMABLE, HoldsBack, Valid, TypeOK, Row, Attempt, Comments, Idle, Exclusive, Held, Alone, OnWire, Unposted, Blind, NoDuplicate, Present, LooksUp, InFlight, NoRow, TerminalStatus
  <1>9. ASSUME NEW p \in Senders, Lookup(p) PROVE Exclusive'
    <2>1. /\ sender[p].pc = "claimed" /\ sender[p].key \in Keys
          /\ sender'[p].pc \in {"acked", "looked"}
          /\ sender'[p].key = sender[p].key /\ sender'[p].n = sender[p].n
          /\ \A q \in Senders : q # p => sender'[q] = sender[q]
      BY <1>9 DEF Lookup, Valid, TypeOK, Attempt
    <2>2. sender'[p].pc = "looked" => \A c \in remote : c[1] # sender[p].key
      BY <1>9 DEF Lookup, Valid, TypeOK, Attempt
    <2>3. UNCHANGED <<row, wire, remote>>
      BY <1>9 DEF Lookup
    <2>4. \A c \in wire : c[1] # sender[p].key
      BY <2>1 DEF Exclusive, Held, Alone, OnWire, Unposted, Blind, NoDuplicate
    <2>5. Held' /\ Alone'
      BY <2>1, <2>3 DEF Exclusive, Held, Alone, OnWire, Unposted, Blind, NoDuplicate
    <2>6. OnWire' /\ Unposted' /\ NoDuplicate'
      BY <2>1, <2>3, <2>4 DEF Exclusive, Held, Alone, OnWire, Unposted, Blind, NoDuplicate, Present
    <2>7. Blind'
      BY <2>1, <2>2, <2>3 DEF Exclusive, Held, Alone, OnWire, Unposted, Blind, NoDuplicate
    <2>. QED  BY <2>5, <2>6, <2>7 DEF Exclusive
  <1>10. ASSUME NEW p \in Senders, FindStale(p) PROVE Exclusive'
    BY <1>10, OutboxAssumption DEF FindStale, Valid, TypeOK, Row, Attempt, Comments, Idle, Exclusive, Held, Alone, OnWire, Unposted, Blind, NoDuplicate, Present, LooksUp, InFlight, NoRow, TerminalStatus
  <1>11. ASSUME NEW p \in Senders, Post(p) PROVE Exclusive'
    <2> DEFINE k == sender[p].key
               c == <<k, sender[p].n>>
    <2>1. /\ sender[p].pc \in {"claimed", "looked"} /\ k \in Keys
          /\ sender'[p].pc = "posting"
          /\ sender'[p].key = k /\ sender'[p].n = sender[p].n
          /\ \A q \in Senders : q # p => sender'[q] = sender[q]
      BY <1>11 DEF Post, Valid, TypeOK, Attempt
    <2>2. wire' = wire \cup {c} /\ UNCHANGED <<row, remote>>
      BY <1>11 DEF Post
    <2>3. sender[p].n \in Nat /\ sender[p].n > 0
      BY <2>1 DEF Exclusive, Held, Alone, OnWire, Unposted, Blind, NoDuplicate, Valid, TypeOK, Attempt
    <2>4. \A d \in wire : d[1] # k
      BY <2>1 DEF Exclusive, Held, Alone, OnWire, Unposted, Blind, NoDuplicate
    <2>5. sender[p].pc = "looked" \/ sender[p].n = 1
      BY <1>11, <2>3 DEF Post, LooksUp
    <2>6. \A d \in remote : d[1] # k
      BY <2>1, <2>5 DEF Exclusive, Held, Alone, OnWire, Unposted, Blind, NoDuplicate
    <2>7. /\ row[k].status = "sending" /\ row[k].lease = "live"
          /\ row[k].attempts = sender[p].n
      BY <2>1 DEF Exclusive, Held, Alone, OnWire, Unposted, Blind, NoDuplicate
    <2>8. Held' /\ Alone' /\ Blind' /\ NoDuplicate'
      BY <2>1, <2>2 DEF Exclusive, Held, Alone, OnWire, Unposted, Blind, NoDuplicate
    <2>9. \A q \in Senders : q # p => sender[q].key # k
      BY <2>1, OutboxAssumption DEF Exclusive, Held, Alone, OnWire, Unposted, Blind, NoDuplicate, Valid, TypeOK
    <2>10. OnWire'
      BY <2>1, <2>2, <2>4, <2>6, <2>7, <2>9 DEF Exclusive, Held, Alone, OnWire, Unposted, Blind, NoDuplicate
    <2>11. Unposted'
      BY <2>2, <2>3, <2>7 DEF Exclusive, Held, Alone, OnWire, Unposted, Blind, NoDuplicate, Present
    <2>. QED  BY <2>8, <2>10, <2>11 DEF Exclusive
  <1>12. ASSUME NEW p \in Senders, Answer(p) PROVE Exclusive'
    BY <1>12, OutboxAssumption DEF Answer, Valid, TypeOK, Row, Attempt, Comments, Idle, Exclusive, Held, Alone, OnWire, Unposted, Blind, NoDuplicate, Present, LooksUp, InFlight, NoRow, TerminalStatus
  <1>13. ASSUME NEW p \in Senders, NEW o \in {"transient", "permanent"}, Refused(p, o) PROVE Exclusive'
    <2>1. /\ sender[p].pc = "posting" /\ sender[p].key \in Keys
          /\ sender'[p].pc = o
          /\ sender'[p].key = sender[p].key /\ sender'[p].n = sender[p].n
          /\ \A q \in Senders : q # p => sender'[q] = sender[q]
      BY <1>13 DEF Refused, Valid, TypeOK, Attempt
    <2>2. UNCHANGED <<row, wire, remote>>
      BY <1>13 DEF Refused
    <2>3. \A c \in wire : c[1] # sender[p].key
      BY <1>13 DEF Refused, Exclusive, Held, Alone, OnWire, Unposted, Blind, NoDuplicate, Valid, TypeOK, Comments
    <2>4. Held' /\ Alone' /\ Blind'
      BY <2>1, <2>2 DEF Exclusive, Held, Alone, OnWire, Unposted, Blind, NoDuplicate
    <2>5. OnWire' /\ Unposted' /\ NoDuplicate'
      BY <2>1, <2>2, <2>3 DEF Exclusive, Held, Alone, OnWire, Unposted, Blind, NoDuplicate, Present
    <2>. QED  BY <2>4, <2>5 DEF Exclusive
  <1>14. ASSUME NEW p \in Senders, MarkOutboundDelivered(p) PROVE Exclusive'
    BY <1>14, OutboxAssumption DEF MarkOutboundDelivered, Settle, Valid, TypeOK, Row, Attempt, Comments, Idle, Exclusive, Held, Alone, OnWire, Unposted, Blind, NoDuplicate, Present, LooksUp, InFlight, NoRow, TerminalStatus
  <1>15. ASSUME NEW p \in Senders, MarkOutboundStale(p) PROVE Exclusive'
    BY <1>15, OutboxAssumption DEF MarkOutboundStale, Settle, Valid, TypeOK, Row, Attempt, Comments, Idle, Exclusive, Held, Alone, OnWire, Unposted, Blind, NoDuplicate, Present, LooksUp, InFlight, NoRow, TerminalStatus
  <1>16. ASSUME NEW p \in Senders, MarkOutboundRetry(p) PROVE Exclusive'
    BY <1>16, OutboxAssumption DEF MarkOutboundRetry, Settle, Valid, TypeOK, Row, Attempt, Comments, Idle, Exclusive, Held, Alone, OnWire, Unposted, Blind, NoDuplicate, Present, LooksUp, InFlight, NoRow, TerminalStatus
  <1>17. ASSUME NEW p \in Senders, MarkOutboundBlocked(p) PROVE Exclusive'
    BY <1>17, OutboxAssumption DEF MarkOutboundBlocked, Settle, Valid, TypeOK, Row, Attempt, Comments, Idle, Exclusive, Held, Alone, OnWire, Unposted, Blind, NoDuplicate, Present, LooksUp, InFlight, NoRow, TerminalStatus
  <1>18. ASSUME NEW p \in Senders, NEW o \in {"transient", "permanent"}, FailBeforePost(p, o) PROVE Exclusive'
    BY <1>18, OutboxAssumption DEF FailBeforePost, Valid, TypeOK, Row, Attempt, Comments, Idle, Exclusive, Held, Alone, OnWire, Unposted, Blind, NoDuplicate, Present, LooksUp, InFlight, NoRow, TerminalStatus
  <1>19. ASSUME NEW p \in Senders, LoseAnswer(p) PROVE Exclusive'
    BY <1>19, OutboxAssumption DEF LoseAnswer, Valid, TypeOK, Row, Attempt, Comments, Idle, Exclusive, Held, Alone, OnWire, Unposted, Blind, NoDuplicate, Present, LooksUp, InFlight, NoRow, TerminalStatus
  <1>20. ASSUME NEW p \in Senders, Crash(p) PROVE Exclusive'
    BY <1>20, OutboxAssumption DEF Crash, Valid, TypeOK, Row, Attempt, Comments, Idle, Exclusive, Held, Alone, OnWire, Unposted, Blind, NoDuplicate, Present, LooksUp, InFlight, NoRow, TerminalStatus
  <1>21. ASSUME NEW c \in wire, Land(c) PROVE Exclusive'
    BY <1>21, OutboxAssumption DEF Land, Valid, TypeOK, Row, Attempt, Comments, Idle, Exclusive, Held, Alone, OnWire, Unposted, Blind, NoDuplicate, Present, LooksUp, InFlight, NoRow, TerminalStatus
  <1>22. ASSUME NEW c \in wire, Drop(c) PROVE Exclusive'
    BY <1>22, OutboxAssumption DEF Drop, Valid, TypeOK, Row, Attempt, Comments, Idle, Exclusive, Held, Alone, OnWire, Unposted, Blind, NoDuplicate, Present, LooksUp, InFlight, NoRow, TerminalStatus
  <1>23. ASSUME NEW k \in Keys, HeadMoves(k) PROVE Exclusive'
    BY <1>23, OutboxAssumption DEF HeadMoves, Valid, TypeOK, Row, Attempt, Comments, Idle, Exclusive, Held, Alone, OnWire, Unposted, Blind, NoDuplicate, Present, LooksUp, InFlight, NoRow, TerminalStatus
  <1>24. ASSUME NEW k \in Keys, LeaseExpires(k) PROVE Exclusive'
    BY <1>24, OutboxAssumption DEF LeaseExpires, Valid, TypeOK, Row, Attempt, Comments, Idle, Exclusive, Held, Alone, OnWire, Unposted, Blind, NoDuplicate, Present, LooksUp, InFlight, NoRow, TerminalStatus
  <1>25. ASSUME NEW k \in Keys, LeaseOverrun(k) PROVE Exclusive'
    BY <1>25, OutboxAssumption DEF LeaseOverrun, Valid, TypeOK, Row, Attempt, Comments, Idle, Exclusive, Held, Alone, OnWire, Unposted, Blind, NoDuplicate, Present, LooksUp, InFlight, NoRow, TerminalStatus
  <1>26. ASSUME NEW k \in Keys, BecomesDue(k) PROVE Exclusive'
    BY <1>26, OutboxAssumption DEF BecomesDue, Valid, TypeOK, Row, Attempt, Comments, Idle, Exclusive, Held, Alone, OnWire, Unposted, Blind, NoDuplicate, Present, LooksUp, InFlight, NoRow, TerminalStatus
  <1>27. CASE UNCHANGED vars
    BY <1>27 DEF vars, Valid, TypeOK, Row, Attempt, Comments, Idle, Exclusive, Held, Alone, OnWire, Unposted, Blind, NoDuplicate, Present, LooksUp, InFlight, NoRow, TerminalStatus
  <1>. QED
    BY <1>1, <1>2, <1>3, <1>4, <1>5, <1>6, <1>7, <1>8, <1>9, <1>10, <1>11, <1>12, <1>13, <1>14, <1>15, <1>16, <1>17, <1>18, <1>19, <1>20, <1>21, <1>22, <1>23, <1>24, <1>25, <1>26, <1>27
       DEF Next, Table, Sending, Environment, Progress

-----------------------------------------------------------------------------
\* No two rows have the same number.
Distinct ==
  \A j, k \in Keys : j # k /\ Present(j) /\ Present(k) => row[j].seq # row[k].seq

TimelyInv == OrderInv /\ ReceiptInv /\ Distinct /\ Exclusive

LEMMA DistinctStep == OrderInv /\ Distinct /\ [Next]_vars => Distinct'
  <1> SUFFICES ASSUME OrderInv, Distinct, [Next]_vars PROVE Distinct'
    OBVIOUS
  <1>1. Kept
    BY RowKept DEF OrderInv
  <1>2. \A k \in Keys : row[k].seq \in Nat
    BY DEF OrderInv, Valid, TypeOK, Row
  <1>3. nextSeq \in Nat /\ \A k \in Keys : Present(k) => row[k].seq < nextSeq
    BY DEF OrderInv, Numbered, Valid, TypeOK
  <1>4. ASSUME NEW j \in Keys, NEW k \in Keys, j # k, Present(j)', Present(k)'
        PROVE  row'[j].seq # row'[k].seq
    <2>1. CASE Present(j) \/ Present(k)
      BY <1>1, <1>2, <1>3, <1>4, <2>1 DEF Kept, Distinct
    <2>2. CASE ~ Present(j) /\ ~ Present(k)
      BY <1>1, <1>4, <2>2 DEF Kept, Present
    <2>. QED  BY <2>1, <2>2
  <1>. QED  BY <1>4 DEF Distinct

LEMMA TimelyInvStep ==
  ASSUME Timely, TimelyInv, [Next]_vars PROVE TimelyInv'
  BY OrderStep, ReceiptStep, DistinctStep, ExclusiveStep DEF TimelyInv, OrderInv

LEMMA TimelyInvAlways == ASSUME Timely PROVE Spec => []TimelyInv
  <1>1. Init => TimelyInv
    <2>1. Init => Numbered /\ Ordered /\ Distinct /\ Witnessed /\ DeliveredHasReceipt
      BY OutboxAssumption DEF Init, Numbered, Ordered, Distinct, Touched, Present, Witnessed,
                              DeliveredHasReceipt, NoRow, Idle
    <2>. QED  BY <2>1, ValidInit, ExclusiveInit DEF TimelyInv, OrderInv, ReceiptInv
  <1>2. TimelyInv /\ [Next]_vars => TimelyInv'
    BY TimelyInvStep
  <1>. QED  BY <1>1, <1>2, PTL DEF Spec

-----------------------------------------------------------------------------
\* One comment per row: after any number of crashes between a POST and its
\* receipt, lost answers, retries and requeues, send() adopts what it posted.
THEOREM ExactlyOnce == ASSUME Timely PROVE Spec => []NoDuplicate
  <1>1. TimelyInv => NoDuplicate
    BY DEF TimelyInv, Exclusive
  <1>. QED  BY <1>1, TimelyInvAlways, PTL

\* The scheduler and the workers never deliver on one pull request together.
THEOREM OneAttempt == ASSUME Timely PROVE Spec => []OneAttemptPerPR
  <1>1. ASSUME TimelyInv PROVE OneAttemptPerPR
    <2>1. SUFFICES ASSUME NEW p \in Senders, NEW q \in Senders, p # q,
                          sender[p].pc # "idle", sender[q].pc # "idle",
                          PRof[sender[p].key] = PRof[sender[q].key]
                   PROVE  FALSE
      BY DEF OneAttemptPerPR
    <2> DEFINE j == sender[p].key
               k == sender[q].key
    <2>2. j \in Keys /\ k \in Keys /\ j # k
      BY <1>1, <2>1 DEF TimelyInv, OrderInv, Valid, Exclusive, Alone
    <2>3. ~ Terminal(j) /\ ~ Terminal(k)
      BY <1>1, <2>1 DEF TimelyInv, Exclusive, Held, Terminal, TerminalStatus
    <2>4. Present(j) /\ Present(k) /\ ~ Older(j, k) /\ ~ Older(k, j)
      BY <1>1, <2>2, <2>3 DEF TimelyInv, OrderInv, Ordered, Touched
    <2>5. row[j].seq \in Nat /\ row[k].seq \in Nat /\ row[j].seq # row[k].seq
      BY <1>1, <2>2, <2>4 DEF TimelyInv, OrderInv, Distinct, Valid, TypeOK, Row
    <2>. QED  BY <2>1, <2>4, <2>5 DEF Older
  <1>. QED  BY <1>1, TimelyInvAlways, PTL

\* What /close cancels has no POST under way that could still become visible.
THEOREM CancelIsSafe == ASSUME Timely PROVE Spec => []CancelledNotInFlight
  <1>1. TimelyInv => CancelledNotInFlight
    BY DEF TimelyInv, OrderInv, Valid, TypeOK, Exclusive, OnWire, CancelledNotInFlight
  <1>. QED  BY <1>1, TimelyInvAlways, PTL

-----------------------------------------------------------------------------
(* The refinement: a landing POST publishes, MarkOutboundDelivered delivers, *)
(* a stale or cancelled row is discarded, everything else stutters.          *)

LEMMA DeliveryInit == Init => D!Init
  BY DEF Init, D!Init, Outcome, NoRow

\* How a settled row looks to the caller, when no other row changes.
LEMMA SettleStep ==
  ASSUME NEW k \in Keys, row' = [row EXCEPT ![k] = row'[k]], row \in [Keys -> Row],
         row'[k].seq = row[k].seq, remote' = remote, Outcome(k) = "waiting"
  PROVE  /\ row'[k].status = "cancelled_stale" => D!Discard(k)
         /\ row'[k].status = "delivered" /\ (\E c \in remote : c[1] = k) => D!Deliver(k)
  <1>1. \A j \in Keys : row'[j].seq = row[j].seq /\ (j # k => row'[j] = row[j])
    OBVIOUS
  <1>3. [j \in Keys |-> row[j].seq]' = [j \in Keys |-> row[j].seq]
    BY <1>1
  <1>4. \A j \in Keys : j # k => Outcome(j)' = Outcome(j)
    BY <1>1 DEF Outcome
  <1>5. CASE row'[k].status = "cancelled_stale"
    <2>1. [j \in Keys |-> Outcome(j)]' = [[j \in Keys |-> Outcome(j)] EXCEPT ![k] = "dropped"]
      BY <1>4, <1>5 DEF Outcome
    <2>. QED  BY <1>3, <1>5, <2>1 DEF D!Discard
  <1>6. CASE row'[k].status = "delivered"
    <2>1. [j \in Keys |-> Outcome(j)]' = [[j \in Keys |-> Outcome(j)] EXCEPT ![k] = "delivered"]
      BY <1>4, <1>6 DEF Outcome
    <2>. QED  BY <1>3, <1>6, <2>1 DEF D!Deliver
  <1>. QED  BY <1>5, <1>6

\* A step that changes neither how rows look to the caller nor the SCM stutters.
LEMMA Stutter ==
  ASSUME \A k \in Keys : row'[k].seq = row[k].seq /\ Outcome(k)' = Outcome(k),
         remote' = remote
  PROVE  UNCHANGED D!vars
  BY DEF D!vars

LEMMA DeliveryStep ==
  ASSUME Timely, TimelyInv, [Next]_vars PROVE [D!Next]_(D!vars)
  <1>1. CASE RecoverExpired
    <2>1. ASSUME NEW k \in Keys
          PROVE  row'[k].seq = row[k].seq /\ Outcome(k)' = Outcome(k)
      <3>1. row[k] \in Row
        BY DEF TimelyInv, OrderInv, Valid, TypeOK
      <3>2. CASE row'[k] = row[k]
        BY <3>2 DEF Outcome
      <3>3. CASE row'[k] # row[k]
        BY <1>1, <3>1, <3>3 DEF RecoverExpired, Expired, Outcome, Row
      <3>. QED  BY <3>2, <3>3
    <2>. QED  BY <1>1, <2>1, Stutter DEF RecoverExpired, Expired
  <1>2. CASE CancelOutboundStale
    <2> DEFINE k == retiring
    <2>1. k \in Keys /\ row \in [Keys -> Row] /\ row[k] \in Row
      BY <1>2 DEF CancelOutboundStale, Cancellable, TimelyInv, OrderInv, Valid, TypeOK
    <2>2. CASE row' = row
      BY <1>2, <2>2, Stutter DEF CancelOutboundStale, Cancellable, Outcome
    <2>3. CASE row' # row
      <3>1. Outcome(k) = "waiting"
        BY <1>2, <2>1, <2>3 DEF CancelOutboundStale, Cancellable, Outcome, TerminalStatus
      <3>2. row'[k].status = "cancelled_stale" /\ row'[k].seq = row[k].seq
        BY <1>2, <2>1, <2>3 DEF CancelOutboundStale, Cancellable, Row
      <3>3. row' = [row EXCEPT ![k] = row'[k]] /\ remote' = remote
        BY <1>2, <2>1, <2>3 DEF CancelOutboundStale, Cancellable
      <3>. QED  BY <2>1, <3>1, <3>2, <3>3, SettleStep DEF D!Next
    <2>. QED  BY <2>2, <2>3
  <1>3. ASSUME NEW k \in Keys, Enqueue(k) PROVE [D!Next]_(D!vars)
    <2> DEFINE place == [j \in Keys |-> row[j].seq]
               look == [j \in Keys |-> Outcome(j)]
    <2>1. /\ row \in [Keys -> Row] /\ nextSeq \in Nat /\ \A j \in Keys : row[j].seq \in Nat
      BY DEF TimelyInv, OrderInv, Valid, TypeOK, Row
    <2>2. row'[k].status = "pending" /\ row'[k].seq = nextSeq /\ remote' = remote
      BY <1>3, <2>1 DEF Enqueue, NoRow
    <2>3. \A j \in Keys : j # k => row'[j] = row[j]
      BY <1>3, <2>1 DEF Enqueue
    <2>4. Outcome(k) = "none" /\ Outcome(k)' = "waiting"
      BY <1>3, <2>2 DEF Enqueue, Present, Outcome
    <2>5. look' = [look EXCEPT ![k] = "waiting"]
      BY <2>3, <2>4 DEF Outcome
    <2>6. place' = [place EXCEPT ![k] = place'[k]] /\ place'[k] = nextSeq
      BY <2>2, <2>3
    <2>7. \A j \in Keys : look[j] # "none" => place[j] < place'[k]
      BY <2>6 DEF Outcome, TimelyInv, OrderInv, Numbered, Present
    <2>8. D!HandOver(k)
      BY <2>2, <2>4, <2>5, <2>6, <2>7 DEF D!HandOver
    <2>. QED  BY <2>8 DEF D!Next
  <1>4. ASSUME NEW k \in Keys, RequeueOldestBlocked(k) PROVE [D!Next]_(D!vars)
    BY <1>4, OutboxAssumption DEF RequeueOldestBlocked, D!vars, Outcome, Valid, TypeOK, TimelyInv, OrderInv
  <1>5. ASSUME NEW k \in Keys, RetireRead(k) PROVE [D!Next]_(D!vars)
    BY <1>5, OutboxAssumption DEF RetireRead, D!vars, Outcome, Valid, TypeOK, TimelyInv, OrderInv
  <1>6. ASSUME NEW k \in Keys, MarkFinalized(k) PROVE [D!Next]_(D!vars)
    BY <1>6, OutboxAssumption DEF MarkFinalized, Finalizable, D!vars, Outcome, Valid, TypeOK, TimelyInv, OrderInv
  <1>7. ASSUME NEW k \in Keys, NEW t \in BOOLEAN, Defer(k, t) PROVE [D!Next]_(D!vars)
    <2>1. row \in [Keys -> Row] /\ row[k] \in Row
      BY DEF TimelyInv, OrderInv, Valid, TypeOK
    <2>2. \A j \in Keys : j # k => row'[j] = row[j]
      BY <1>7, <2>1 DEF Defer
    <2>3. row'[k].status \in {"pending_retry", "blocked"} /\ row'[k].seq = row[k].seq
      BY <1>7, <2>1 DEF Defer, Row
    <2>4. Outcome(k) = "waiting" /\ Outcome(k)' = "waiting"
      BY <1>7, <2>3 DEF Defer, Outcome, TerminalStatus
    <2>5. \A j \in Keys : Outcome(j)' = Outcome(j) /\ row'[j].seq = row[j].seq
      BY <2>2, <2>3, <2>4 DEF Outcome
    <2>. QED  BY <1>7, <2>5, Stutter DEF Defer
  <1>8. ASSUME NEW p \in Senders, NEW k \in Keys, ClaimOutbound(p, k) PROVE [D!Next]_(D!vars)
    BY <1>8, OutboxAssumption DEF ClaimOutbound, CLAIMABLE, HoldsBack, D!vars, Outcome, Valid, TypeOK, TimelyInv, OrderInv
  <1>9. ASSUME NEW p \in Senders, Lookup(p) PROVE [D!Next]_(D!vars)
    BY <1>9, OutboxAssumption DEF Lookup, D!vars, Outcome, Valid, TypeOK, TimelyInv, OrderInv
  <1>10. ASSUME NEW p \in Senders, FindStale(p) PROVE [D!Next]_(D!vars)
    BY <1>10, OutboxAssumption DEF FindStale, D!vars, Outcome, Valid, TypeOK, TimelyInv, OrderInv
  <1>11. ASSUME NEW p \in Senders, Post(p) PROVE [D!Next]_(D!vars)
    BY <1>11, OutboxAssumption DEF Post, D!vars, Outcome, Valid, TypeOK, TimelyInv, OrderInv
  <1>12. ASSUME NEW p \in Senders, Answer(p) PROVE [D!Next]_(D!vars)
    BY <1>12, OutboxAssumption DEF Answer, D!vars, Outcome, Valid, TypeOK, TimelyInv, OrderInv
  <1>13. ASSUME NEW p \in Senders, NEW o \in {"transient", "permanent"}, Refused(p, o) PROVE [D!Next]_(D!vars)
    BY <1>13, OutboxAssumption DEF Refused, D!vars, Outcome, Valid, TypeOK, TimelyInv, OrderInv
  <1>14. ASSUME NEW p \in Senders, MarkOutboundDelivered(p) PROVE [D!Next]_(D!vars)
    <2> DEFINE k == sender[p].key
    <2>1. k \in Keys /\ row \in [Keys -> Row] /\ row[k] \in Row /\ sender[p].pc # "idle"
      BY <1>14 DEF MarkOutboundDelivered, TimelyInv, OrderInv, Valid, TypeOK
    <2>2. row[k].status = "sending"
      BY <2>1 DEF TimelyInv, Exclusive, Held
    <2>3. row'[k].status = "delivered" /\ row'[k].seq = row[k].seq
      BY <1>14, <2>1, <2>2 DEF MarkOutboundDelivered, Settle, Row
    <2>4. row' = [row EXCEPT ![k] = row'[k]] /\ remote' = remote
      BY <1>14, <2>1, <2>2 DEF MarkOutboundDelivered, Settle
    <2>5. Outcome(k) = "waiting" /\ \E c \in remote : c[1] = k
      BY <1>14, <2>1, <2>2 DEF MarkOutboundDelivered, Outcome, TimelyInv, ReceiptInv, Witnessed
    <2>. QED  BY <2>1, <2>3, <2>4, <2>5, SettleStep DEF D!Next
  <1>15. ASSUME NEW p \in Senders, MarkOutboundStale(p) PROVE [D!Next]_(D!vars)
    <2> DEFINE k == sender[p].key
    <2>1. k \in Keys /\ row \in [Keys -> Row] /\ row[k] \in Row /\ sender[p].pc # "idle"
      BY <1>15 DEF MarkOutboundStale, TimelyInv, OrderInv, Valid, TypeOK
    <2>2. row[k].status = "sending"
      BY <2>1 DEF TimelyInv, Exclusive, Held
    <2>3. row'[k].status = "cancelled_stale" /\ row'[k].seq = row[k].seq
      BY <1>15, <2>1, <2>2 DEF MarkOutboundStale, Settle, Row
    <2>4. row' = [row EXCEPT ![k] = row'[k]] /\ remote' = remote
      BY <1>15, <2>1, <2>2 DEF MarkOutboundStale, Settle
    <2>5. Outcome(k) = "waiting"
      BY <1>15, <2>1, <2>2 DEF MarkOutboundStale, Outcome
    <2>. QED  BY <2>1, <2>3, <2>4, <2>5, SettleStep DEF D!Next
  <1>16. ASSUME NEW p \in Senders, MarkOutboundRetry(p) PROVE [D!Next]_(D!vars)
    BY <1>16, OutboxAssumption DEF MarkOutboundRetry, Settle, D!vars, Outcome, Valid, TypeOK, TimelyInv, OrderInv
  <1>17. ASSUME NEW p \in Senders, MarkOutboundBlocked(p) PROVE [D!Next]_(D!vars)
    BY <1>17, OutboxAssumption DEF MarkOutboundBlocked, Settle, D!vars, Outcome, Valid, TypeOK, TimelyInv, OrderInv
  <1>18. ASSUME NEW p \in Senders, NEW o \in {"transient", "permanent"}, FailBeforePost(p, o) PROVE [D!Next]_(D!vars)
    BY <1>18, OutboxAssumption DEF FailBeforePost, D!vars, Outcome, Valid, TypeOK, TimelyInv, OrderInv
  <1>19. ASSUME NEW p \in Senders, LoseAnswer(p) PROVE [D!Next]_(D!vars)
    BY <1>19, OutboxAssumption DEF LoseAnswer, D!vars, Outcome, Valid, TypeOK, TimelyInv, OrderInv
  <1>20. ASSUME NEW p \in Senders, Crash(p) PROVE [D!Next]_(D!vars)
    BY <1>20, OutboxAssumption DEF Crash, D!vars, Outcome, Valid, TypeOK, TimelyInv, OrderInv
  <1>21. ASSUME NEW c \in wire, Land(c) PROVE [D!Next]_(D!vars)
    <2> DEFINE k == c[1]
    <2>1. c \in Keys \X Nat /\ k \in Keys
      BY DEF TimelyInv, OrderInv, Valid, TypeOK, Comments
    <2>2. Outcome(k) = "waiting" /\ \A d \in remote : d[1] # k
      BY DEF TimelyInv, Exclusive, OnWire, Outcome
    <2>3. \A j \in Keys : Older(j, k) => Terminal(j)
      BY <2>1 DEF TimelyInv, OrderInv, Ordered, Touched
    <2>4. \A j \in Keys : D!Before(j, k) => D!Resolved(j)
      BY <2>1, <2>3 DEF D!Before, D!Resolved, Older, Present, Terminal, TerminalStatus, Outcome
    <2>5. remote' = remote \cup {c} /\ row' = row
      BY <1>21 DEF Land
    <2>6. UNCHANGED <<[j \in Keys |-> Outcome(j)], [j \in Keys |-> row[j].seq]>>
      BY <2>5 DEF Outcome
    <2>7. D!Publish(k)
      BY <2>1, <2>2, <2>4, <2>5, <2>6 DEF D!Publish
    <2>. QED  BY <2>1, <2>7 DEF D!Next
  <1>22. ASSUME NEW c \in wire, Drop(c) PROVE [D!Next]_(D!vars)
    BY <1>22, OutboxAssumption DEF Drop, D!vars, Outcome, Valid, TypeOK, TimelyInv, OrderInv
  <1>23. ASSUME NEW k \in Keys, HeadMoves(k) PROVE [D!Next]_(D!vars)
    BY <1>23, OutboxAssumption DEF HeadMoves, D!vars, Outcome, Valid, TypeOK, TimelyInv, OrderInv
  <1>24. ASSUME NEW k \in Keys, LeaseExpires(k) PROVE [D!Next]_(D!vars)
    BY <1>24, OutboxAssumption DEF LeaseExpires, D!vars, Outcome, Valid, TypeOK, TimelyInv, OrderInv
  <1>25. ASSUME NEW k \in Keys, LeaseOverrun(k) PROVE [D!Next]_(D!vars)
    BY <1>25, OutboxAssumption DEF LeaseOverrun, D!vars, Outcome, Valid, TypeOK, TimelyInv, OrderInv
  <1>26. ASSUME NEW k \in Keys, BecomesDue(k) PROVE [D!Next]_(D!vars)
    BY <1>26, OutboxAssumption DEF BecomesDue, D!vars, Outcome, Valid, TypeOK, TimelyInv, OrderInv
  <1>27. CASE UNCHANGED vars
    BY <1>27 DEF vars, D!vars, Outcome, Valid, TypeOK, TimelyInv, OrderInv
  <1>. QED
    BY <1>1, <1>2, <1>3, <1>4, <1>5, <1>6, <1>7, <1>8, <1>9, <1>10, <1>11, <1>12, <1>13, <1>14, <1>15, <1>16, <1>17, <1>18, <1>19, <1>20, <1>21, <1>22, <1>23, <1>24, <1>25, <1>26, <1>27
       DEF Next, Table, Sending, Environment, Progress

\* The outbox implements in-order, exactly-once publication.
THEOREM OutboxImplementsDelivery == ASSUME Timely PROVE Spec => ImplementsDelivery
  <1>1. Init => D!Init
    BY DeliveryInit
  <1>2. TimelyInv /\ [Next]_vars => [D!Next]_(D!vars)
    BY DeliveryStep
  <1>. QED  BY <1>1, <1>2, TimelyInvAlways, PTL DEF Spec, ImplementsDelivery, D!Spec
=============================================================================
