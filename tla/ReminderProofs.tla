--------------------------- MODULE ReminderProofs ---------------------------
(***************************************************************************)
(* Proofs about Reminders: a reminder is sent at most once per due_at, by  *)
(* any number of overlapping calls, jobs, retries, crashes and edits.      *)
(* The argument is IndInv's OneTaker: INSERT ... ON CONFLICT DO NOTHING    *)
(* gives a key to one call, and only that call delivers.                   *)
(***************************************************************************)
EXTENDS Reminders, TLAPS

Busy == {"delivering", "recording", "marking"}

(* Initially nothing was claimed and nothing sent. *)
LEMMA InitEstablishes == Init => IndInv
<1> SUFFICES ASSUME Init PROVE IndInv
  OBVIOUS
<1>1. 0 \in Due
  BY BoundsAssumption DEF Due
<1>2. call \in Calls
  BY <1>1, Zenon DEF Init, Idle, Calls, Position
<1>3. task \in Tasks /\ sentFor \in Due
  BY <1>1, Zenon DEF Init, Tasks, Status
<1>4. dedup \in Log /\ dispatched \in [Due -> Nat]
  BY DEF Init, Log
<1>5. OneTaker /\ OneDispatchPerDue
  BY DEF Init, Idle, OneTaker, OneDispatchPerDue, FreeKey, At
<1>6. SentMeansDispatched
  BY DEF Init, SentMeansDispatched
<1> QED BY <1>2, <1>3, <1>4, <1>5, <1>6 DEF IndInv, Typed

(* Steps that touch neither the log nor a delivery: whoever is busy with a *)
(* key afterwards was busy with it before, and reminder_sent_at is not set *)
(* anew.                                                                   *)
LEMMA QuietKept ==
  ASSUME IndInv, Typed',
         dedup' = dedup, dispatched' = dispatched, task'.sent => task.sent, sentFor' = sentFor,
         \A c \in Call : call'[c].pc \in Busy =>
           call'[c].pc = call[c].pc /\ call'[c].due = call[c].due
  PROVE  IndInv'
<1>1. OneTaker'
  BY DEF IndInv, OneTaker, FreeKey, At, Busy
<1>2. OneDispatchPerDue' /\ SentMeansDispatched'
  BY DEF IndInv, OneDispatchPerDue, SentMeansDispatched
<1> QED BY <1>1, <1>2 DEF IndInv

(* Calls are only moved on, by one step of their own. *)
LEMMA MovedTyped ==
  ASSUME IndInv, NEW c \in Call, NEW pc \in Position,
         call' = [call EXCEPT ![c].pc = pc]
  PROVE  /\ call' \in Calls
         /\ call'[c].pc = pc /\ call'[c].due = call[c].due
         /\ \A e \in Call : e # c => call'[e] = call[e]
  BY DEF IndInv, Typed, Calls

(* enqueueJob leaves what the calls are at. *)
LEMMA EnqueueKeeps ==
  ASSUME NEW calls \in Calls, Enqueue(calls)
  PROVE  /\ call' \in Calls
         /\ \A c \in Call : call'[c].pc = calls[c].pc /\ call'[c].due = calls[c].due
<1> USE DEF Calls
<1>1. CASE job.status = "none"
  BY <1>1 DEF Enqueue
<1>2. CASE job.status # "none"
  BY <1>2 DEF Enqueue
<1> QED BY <1>1, <1>2

(* The user's changes, time, the policy, the scanner and the job queue.    *)
LEMMA SurroundingsKept ==
  ASSUME IndInv,
         \/ SnoozeTask \/ \E d \in Due : UpdateTask(d)
         \/ \E s \in Status : MarkStatus(s)
         \/ Ripen \/ Hold \/ Release \/ ScanDue \/ EnqueueScanned \/ RecoverStaleJob
         \/ \E c \in Call : ClaimJob(c) \/ CompleteJob(c) \/ FailJob(c) \/ Crash(c)
         \/ UNCHANGED vars
  PROVE  IndInv'
<1> USE DEF user, policy, Position, Calls, Tasks, Status
<1>a. Typed
  BY DEF IndInv
<1>b. 0 \in Due
  BY BoundsAssumption DEF Due
<1>1. CASE SnoozeTask
  <2>1. task.due + 1 \in Due
    BY <1>1, <1>a, BoundsAssumption DEF SnoozeTask, Typed, Due
  <2>2. task' \in Tasks /\ ~task'.sent
    BY <1>1, <1>a, <2>1 DEF SnoozeTask, Typed
  <2> QED BY <2>2, <1>1, <1>a, QuietKept DEF SnoozeTask, Edit, Typed
<1>2. ASSUME NEW d \in Due, UpdateTask(d) PROVE IndInv'
  BY <1>2, <1>a, QuietKept DEF UpdateTask, Edit, Typed
<1>3. ASSUME NEW s \in Status, MarkStatus(s) PROVE IndInv'
  BY <1>3, <1>a, QuietKept DEF MarkStatus, Edit, Typed
<1>4. CASE Ripen \/ Hold \/ Release \/ ScanDue \/ RecoverStaleJob
  BY <1>4, <1>a, QuietKept DEF Ripen, Hold, Release, ScanDue, RecoverStaleJob, Typed
<1>5. CASE EnqueueScanned
  <2>1. /\ call' \in Calls
        /\ \A c \in Call : call'[c].pc = call[c].pc /\ call'[c].due = call[c].due
    BY <1>5, <1>a, EnqueueKeeps DEF EnqueueScanned, Typed
  <2> QED BY <2>1, <1>5, <1>a, QuietKept DEF EnqueueScanned, Typed
<1>6. ASSUME NEW c \in Call, ClaimJob(c) PROVE IndInv'
  BY <1>6, <1>a, <1>b, QuietKept DEF ClaimJob, Typed, Busy
<1>7. ASSUME NEW c \in Call, CompleteJob(c) \/ FailJob(c) \/ Crash(c) PROVE IndInv'
  <2>1. /\ call' = [call EXCEPT ![c] = Idle]
        /\ UNCHANGED <<task, sentFor, dedup, dispatched>>
    BY <1>7 DEF CompleteJob, FailJob, Crash
  <2> QED BY <2>1, <1>a, <1>b, QuietKept DEF Idle, Typed, Busy
<1>8. CASE UNCHANGED vars
  BY <1>8, <1>a, QuietKept DEF vars, Typed
<1> QED BY <1>1, <1>2, <1>3, <1>4, <1>5, <1>6, <1>7, <1>8

(* handleReminderDispatch up to its policy decision. *)
LEMMA DecisionKept ==
  ASSUME IndInv, NEW c \in Call, ReadTask(c) \/ EvaluatePolicy(c) PROVE IndInv'
<1> USE DEF user, policy, Position, Calls, Tasks, Status
<1>a. Typed
  BY DEF IndInv
<1>1. CASE ReadTask(c)
  BY <1>1, <1>a, QuietKept DEF ReadTask, Typed, Busy
<1>2. CASE EvaluatePolicy(c) /\ held
  <2> DEFINE calls == [call EXCEPT ![c].pc = "completing"]
  <2>1. calls \in Calls
    BY <1>a DEF Typed
  <2>2. Enqueue(calls)
    BY <1>2 DEF EvaluatePolicy
  <2>3. /\ call' \in Calls
        /\ \A e \in Call : call'[e].pc = calls[e].pc /\ call'[e].due = calls[e].due
    BY <2>1, <2>2, EnqueueKeeps
  <2>4. \A e \in Call : calls[e].pc \in Busy =>
          calls[e].pc = call[e].pc /\ calls[e].due = call[e].due
    BY <1>a DEF Typed, Busy
  <2> HIDE DEF calls
  <2> QED BY <2>3, <2>4, <1>2, <1>a, QuietKept DEF EvaluatePolicy, Typed
<1>3. CASE EvaluatePolicy(c) /\ ~held
  BY <1>3, <1>a, QuietKept DEF EvaluatePolicy, Goto, Typed, Busy
<1> QED BY <1>1, <1>2, <1>3

(* INSERT ... ON CONFLICT DO NOTHING, also when it fails or reports that   *)
(* it did: the taker of a free key is the only call about to deliver it.   *)
LEMMA ClaimKept ==
  ASSUME IndInv, NEW c \in Call, ClaimNotification(c) PROVE IndInv'
<1> USE DEF user, policy, Position, Calls, Tasks, Status
<1>a. Typed /\ call[c].due \in Due
  BY DEF IndInv, Typed
<1>1. CASE FreeKey(call[c].due)
  <2> DEFINE d == call[c].due
  <2>1. /\ dedup' = [dedup EXCEPT ![d] = "pending"] /\ dispatched' = dispatched
        /\ UNCHANGED <<task, sentFor>> /\ call' = [call EXCEPT ![c].pc = "delivering"]
    BY <1>1 DEF ClaimNotification, Goto
  <2>2. /\ call' \in Calls
        /\ call'[c].pc = "delivering" /\ call'[c].due = d
        /\ \A e \in Call : e # c => call'[e] = call[e]
    BY <2>1, MovedTyped
  <2>3. Typed'
    BY <1>a, <2>1, <2>2 DEF Typed, Log
  <2>4. /\ dispatched[d] = 0
        /\ \A e \in Call : At(e, "delivering") => call[e].due # d
    BY <1>1, <1>a DEF IndInv, OneTaker
  <2>5. \A x \in Due : FreeKey(x)' => FreeKey(x) /\ x # d
    BY <1>a, <2>1 DEF FreeKey, Typed, Log
  <2>6. OneTaker'
    BY <2>1, <2>2, <2>4, <2>5 DEF IndInv, OneTaker, At
  <2>7. OneDispatchPerDue' /\ SentMeansDispatched'
    BY <2>1 DEF IndInv, OneDispatchPerDue, SentMeansDispatched
  <2> QED BY <2>3, <2>6, <2>7 DEF IndInv
<1>2. CASE ~FreeKey(call[c].due)
  BY <1>2, <1>a, QuietKept DEF ClaimNotification, Goto, SuppressedAt, Typed, Busy
<1> QED BY <1>1, <1>2

(* The delivery of a key's only taker is the first one for its due_at.     *)
LEMMA DeliverKept ==
  ASSUME IndInv, NEW c \in Call, Deliver(c) PROVE IndInv'
<1> USE DEF user, policy, Position, Calls, Tasks, Status
<1> DEFINE d == call[c].due
<1>1. Typed /\ d \in Due /\ At(c, "delivering") /\ dispatched[d] = 0
  BY DEF IndInv, Typed, OneTaker, Deliver
<1>2. PICK pc \in {"recording", "failing"} : call' = [call EXCEPT ![c].pc = pc]
  BY DEF Deliver, Goto
<1>3. /\ dispatched' = [dispatched EXCEPT ![d] = @ + 1]
      /\ dedup' = dedup /\ UNCHANGED <<task, sentFor>>
  BY DEF Deliver
<1>4. /\ call' \in Calls
      /\ call'[c].pc = pc /\ call'[c].due = d
      /\ \A e \in Call : e # c => call'[e] = call[e]
  BY <1>2, MovedTyped
<1>5. dispatched' \in [Due -> Nat] /\ dispatched'[d] = 1
  BY <1>1, <1>3 DEF Typed
<1>6. \A x \in Due : x # d => dispatched'[x] = dispatched[x]
  BY <1>1, <1>3 DEF Typed
<1>7. Typed'
  BY <1>1, <1>3, <1>4, <1>5 DEF Typed
<1>8. \A e \in Call : At(e, "delivering") /\ call[e].due = d => e = c
  BY <1>1 DEF IndInv, OneTaker
<1>9. ~FreeKey(d)
  BY <1>1 DEF IndInv, OneTaker
<1>10. \A e \in Call : call[e].pc \in {"recording", "marking"} => call[e].due # d
  BY <1>1 DEF IndInv, OneTaker
<1>11. \A e \in Call : call[e].due \in Due
  BY <1>1 DEF Typed
<1>12. OneTaker'
  <2>1. \A x \in Due : FreeKey(x)' => dispatched'[x] = 0 /\
          \A e \in Call : At(e, "delivering")' => call'[e].due # x
    BY <1>3, <1>4, <1>6, <1>9 DEF IndInv, OneTaker, FreeKey, At
  <2>2. \A e, f \in Call :
          At(e, "delivering")' /\ At(f, "delivering")' /\ call'[e].due = call'[f].due => e = f
    BY <1>4 DEF IndInv, OneTaker, At
  <2>3. \A e \in Call : At(e, "delivering")' => dispatched'[call'[e].due] = 0
    BY <1>4, <1>6, <1>8, <1>11 DEF IndInv, OneTaker, At
  <2>4. \A e \in Call :
          call'[e].pc \in {"recording", "marking"} => dispatched'[call'[e].due] = 1
    BY <1>4, <1>5, <1>6, <1>10, <1>11 DEF IndInv, OneTaker
  <2> QED BY <2>1, <2>2, <2>3, <2>4 DEF OneTaker
<1>13. OneDispatchPerDue'
  BY <1>5, <1>6 DEF IndInv, OneDispatchPerDue
<1>14. SentMeansDispatched'
  BY <1>1, <1>3, <1>5, <1>6 DEF IndInv, SentMeansDispatched, Typed
<1> QED BY <1>7, <1>12, <1>13, <1>14 DEF IndInv

(* Marking a key as taken or delivered frees none, and whoever ends or     *)
(* goes on to mark its reminder has delivered it.                          *)
LEMMA NotedKept ==
  ASSUME IndInv, NEW c \in Call, NEW pc \in {"marking", "completing", "failing"},
         call' = [call EXCEPT ![c].pc = pc],
         pc = "marking" => At(c, "recording"),
         dispatched' = dispatched, dedup' \in Log, task' \in Tasks,
         \A d \in Due : dedup'[d] = "free" => FreeKey(d),
         \/ (task'.sent => task.sent) /\ sentFor' = sentFor
         \/ At(c, "marking") /\ sentFor' = call[c].due
  PROVE  IndInv'
<1> USE DEF Position
<1>1. /\ call' \in Calls
      /\ call'[c].pc = pc /\ call'[c].due = call[c].due
      /\ \A e \in Call : e # c => call'[e] = call[e]
  BY MovedTyped
<1>2. Typed'
  BY <1>1 DEF IndInv, Typed, Calls
<1>3. OneTaker'
  <2>1. \A d \in Due : FreeKey(d)' => dispatched'[d] = 0 /\
          \A e \in Call : At(e, "delivering")' => call'[e].due # d
    BY <1>1 DEF IndInv, OneTaker, FreeKey, At
  <2>2. \A e, f \in Call :
          At(e, "delivering")' /\ At(f, "delivering")' /\ call'[e].due = call'[f].due => e = f
    BY <1>1 DEF IndInv, OneTaker, At
  <2>3. \A e \in Call : At(e, "delivering")' => dispatched'[call'[e].due] = 0
    BY <1>1 DEF IndInv, OneTaker, At
  <2>4. \A e \in Call :
          call'[e].pc \in {"recording", "marking"} => dispatched'[call'[e].due] = 1
    BY <1>1 DEF IndInv, OneTaker, At
  <2> QED BY <2>1, <2>2, <2>3, <2>4 DEF OneTaker
<1>4. At(c, "marking") => dispatched[call[c].due] = 1 /\ call[c].due \in Due
  BY DEF IndInv, OneTaker, At, Typed, Calls
<1>5. OneDispatchPerDue' /\ SentMeansDispatched'
  BY <1>4 DEF IndInv, OneDispatchPerDue, SentMeansDispatched
<1> QED BY <1>2, <1>3, <1>5 DEF IndInv

(* recordOutcome and markReminderSent, and any statement that fails.       *)
LEMMA OutcomeKept ==
  ASSUME IndInv, NEW c \in Call, RecordOutcome(c) \/ MarkReminderSent(c) \/ StatementFails(c)
  PROVE  IndInv'
<1> USE DEF user, policy
<1>a. /\ task \in Tasks /\ dedup \in Log /\ call[c].due \in Due
      /\ \A d \in Due : dedup[d] = "free" => FreeKey(d)
  BY DEF IndInv, Typed, Calls, FreeKey
<1>b. [task EXCEPT !.sent = TRUE] \in Tasks
  BY <1>a DEF Tasks
<1>1. CASE RecordOutcome(c)
  <2>1. dedup' \in Log /\ \A d \in Due : dedup'[d] = "free" => FreeKey(d)
    BY <1>1, <1>a DEF RecordOutcome, Log
  <2> QED BY <2>1, <1>1, <1>a, NotedKept DEF RecordOutcome, Goto
<1>2. CASE MarkReminderSent(c)
  BY <1>2, <1>a, <1>b, NotedKept DEF MarkReminderSent, Mark, Goto
<1>3. CASE StatementFails(c)
  <2>1. CASE Goto(c, "failing") /\ UNCHANGED <<dedup, task, sentFor>>
    BY <2>1, <1>3, <1>a, NotedKept DEF StatementFails, Goto
  <2>2. CASE At(c, "marking") /\ Mark(c) /\ Goto(c, "failing") /\ UNCHANGED dedup
    BY <2>2, <1>3, <1>a, <1>b, NotedKept DEF StatementFails, Mark, Goto
  <2>3. CASE /\ At(c, "claiming") /\ UNCHANGED <<task, sentFor>>
             /\ dedup' \in {dedup, [dedup EXCEPT ![call[c].due] =
                                      IF @ = "free" THEN "pending" ELSE @]}
             /\ Goto(c, "completing")
    <3>1. dedup' \in Log /\ \A d \in Due : dedup'[d] = "free" => FreeKey(d)
      BY <2>3, <1>a DEF Log
    <3> QED BY <3>1, <2>3, <1>3, <1>a, NotedKept DEF StatementFails, Goto
  <2> QED BY <1>3, <2>1, <2>2, <2>3 DEF StatementFails
<1> QED BY <1>1, <1>2, <1>3

(* IndInv holds in every reachable state. *)
THEOREM ReminderInductive == Spec => []IndInv
<1>1. IndInv /\ [Next]_vars => IndInv'
  <2> SUFFICES ASSUME IndInv, [Next]_vars PROVE IndInv'
    OBVIOUS
  <2>1. ASSUME NEW c \in Call, HandlerStep(c) PROVE IndInv'
    BY <2>1, DecisionKept, ClaimKept, DeliverKept, OutcomeKept, SurroundingsKept
       DEF HandlerStep
  <2>2. ASSUME NEW c \in Call, ClaimJob(c) \/ Crash(c) PROVE IndInv'
    BY <2>2, SurroundingsKept
  <2>3. ASSUME NEW c \in Call, StatementFails(c) PROVE IndInv'
    BY <2>3, OutcomeKept
  <2>4. CASE \/ SnoozeTask \/ \E d \in Due : UpdateTask(d)
             \/ \E s \in Status : MarkStatus(s)
             \/ Ripen \/ Hold \/ Release \/ ScanDue \/ EnqueueScanned \/ RecoverStaleJob
             \/ UNCHANGED vars
    BY <2>4, SurroundingsKept
  <2> QED BY <2>1, <2>2, <2>3, <2>4 DEF Next
<1> QED BY <1>1, InitEstablishes, PTL DEF Spec

(* No due_at of a task is reminded of twice: for any number of overlapping *)
(* calls and any finite number of edits, holds and faults.                 *)
THEOREM OneDispatchPerDueHolds == Spec => []OneDispatchPerDue
<1>1. IndInv => OneDispatchPerDue
  BY DEF IndInv
<1> QED BY <1>1, ReminderInductive, PTL

(* A task that counts as reminded was reminded of, for the due_at which    *)
(* the call that set its reminder_sent_at has read.                        *)
THEOREM SentMeansDispatchedHolds == Spec => []SentMeansDispatched
<1>1. IndInv => SentMeansDispatched
  BY DEF IndInv
<1> QED BY <1>1, ReminderInductive, PTL
=============================================================================
