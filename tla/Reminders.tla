----------------------------- MODULE Reminders -----------------------------
(***************************************************************************)
(* The reminder of one task: the scanner that enqueues it, the calls of    *)
(* handleReminderDispatch that deliver it, the deduplication log, and the  *)
(* user who meanwhile snoozes, edits or completes the task.                *)
(*                                                                         *)
(* Every await of the handler is a step.  The job queue is taken at its    *)
(* promise (see JobContract): one live job per singleton key, executed at  *)
(* least once; here a lease may also lapse under a running handler, so     *)
(* that several calls work on one job.  Other tasks have other keys; they  *)
(* matter only through the hourly limit, which is part of "held".          *)
(***************************************************************************)
EXTENDS Integers, FiniteSets

CONSTANTS
  Call,         (* Calls of handleReminderDispatch that may overlap.       *)
  MaxDue,       (* Bound: due_at takes the values 0..MaxDue.               *)
  MaxAttempts,  (* max_attempts of the job.                                *)
  MaxEdits,     (* Bound: changes the user makes to the task.              *)
  MaxHolds,     (* Bound: times the policy starts to defer.                *)
  MaxFaults     (* Bound: crashes, lapsed leases, failing statements and   *)
                (* failing sends.                                          *)

ASSUME BoundsAssumption ==
  /\ MaxDue \in Nat /\ MaxAttempts \in Nat \ {0}
  /\ MaxEdits \in Nat /\ MaxHolds \in Nat /\ MaxFaults \in Nat

VARIABLES
  task,         (* status, due_at and whether reminder_sent_at is set.     *)
  ripe,         (* due_at - reminder_offset <= now()                       *)
  held,         (* Quiet hours, or the hourly limit, defer the reminder.   *)
  scanned,      (* The task is in the scanner's batch, not yet enqueued.   *)
  job,          (* The live row with singleton key reminder:<task>.        *)
  call,         (* The calls of handleReminderDispatch.                    *)
  dedup,        (* notification_dedup_log, by the due_at in the key.       *)
  (* History: *)
  dispatched,   (* Calls of deliverResponse, by due_at.                    *)
  received,     (* Those that reached the user.                            *)
  sentFor,      (* The due_at whose call set reminder_sent_at last.        *)
  edits, holds, faults

user   == <<task, sentFor, ripe, edits>>
policy == <<held, holds>>
vars   == <<user, policy, scanned, job, call, dedup, dispatched, received, faults>>

Due == 0..MaxDue

Idle == [pc |-> "idle", due |-> 0, mine |-> FALSE]
NoJob == [status |-> "none", attempts |-> 0]

Position == {"idle", "reading", "deciding", "claiming", "delivering", "recording",
             "marking", "completing", "failing"}

Calls   == [Call -> [pc : Position, due : Due, mine : BOOLEAN]]
Log     == [Due -> {"free", "pending", "delivered"}]
(* "pending" stands for in_progress too. *)
Status  == {"pending", "done", "missed"}
Tasks   == [status : Status, due : Due, sent : BOOLEAN]

(* mine: the job this call works on is still the live row of the key.      *)
(* Every execution of a job beyond the first is paid for by a fault.       *)
TypeOK ==
  /\ task \in Tasks /\ sentFor \in Due
  /\ ripe \in BOOLEAN /\ held \in BOOLEAN /\ scanned \in BOOLEAN
  /\ job \in [status : {"none", "pending", "active"}, attempts : 0..1 + MaxFaults]
  /\ call \in Calls /\ dedup \in Log
  /\ dispatched \in [Due -> Nat] /\ received \in [Due -> Nat]
  /\ edits \in 0..MaxEdits /\ holds \in 0..MaxHolds /\ faults \in 0..MaxFaults

Init ==
  /\ task = [status |-> "pending", due |-> 0, sent |-> FALSE] /\ sentFor = 0
  /\ ripe = FALSE /\ held = FALSE /\ scanned = FALSE
  /\ job = NoJob
  /\ call = [c \in Call |-> Idle]
  /\ dedup = [d \in Due |-> "free"]
  /\ dispatched = [d \in Due |-> 0] /\ received = [d \in Due |-> 0]
  /\ edits = 0 /\ holds = 0 /\ faults = 0

-----------------------------------------------------------------------------
(* The user, through the assistant's tools.  The new reminder time may     *)
(* already be past: ripe takes either value.                               *)

Edit == edits < MaxEdits /\ edits' = edits + 1
        /\ UNCHANGED <<policy, scanned, job, call, dedup, dispatched, received, sentFor, faults>>

SnoozeTask ==
  /\ Edit
  /\ task.due < MaxDue
  /\ task' = [task EXCEPT !.due = @ + 1, !.sent = FALSE]
  /\ ripe' \in BOOLEAN

(* A new due_at or reminder offset; reminder_sent_at stays. *)
UpdateTask(d) ==
  /\ Edit
  /\ task' = [task EXCEPT !.due = d]
  /\ ripe' \in BOOLEAN

MarkStatus(s) ==
  /\ Edit
  /\ task' = [task EXCEPT !.status = s]
  /\ UNCHANGED ripe

-----------------------------------------------------------------------------
(* Time and the notification policy. *)

Ripen ==
  /\ ~ripe /\ ripe' = TRUE
  /\ UNCHANGED <<task, sentFor, edits, policy, scanned, job, call, dedup, dispatched, received, faults>>

Hold ==
  /\ ~held /\ holds < MaxHolds
  /\ held' = TRUE /\ holds' = holds + 1
  /\ UNCHANGED <<user, scanned, job, call, dedup, dispatched, received, faults>>

Release ==
  /\ held /\ held' = FALSE
  /\ UNCHANGED <<user, holds, scanned, job, call, dedup, dispatched, received, faults>>

-----------------------------------------------------------------------------
(* The scanner: getDueRemindersBatch, then one enqueueJob per task.        *)

ScanDue ==
  /\ ~scanned
  /\ task.status = "pending" /\ ~task.sent /\ ripe
  /\ scanned' = TRUE
  /\ UNCHANGED <<user, policy, job, call, dedup, dispatched, received, faults>>

(* enqueueJob under the singleton key: a live row suppresses it.           *)
Enqueue(calls) ==
  IF job.status = "none"
  THEN /\ job' = [status |-> "pending", attempts |-> 0]
       /\ call' = [c \in Call |-> [calls[c] EXCEPT !.mine = FALSE]]
  ELSE /\ job' = job
       /\ call' = calls

EnqueueScanned ==
  /\ scanned /\ scanned' = FALSE
  /\ Enqueue(call)
  /\ UNCHANGED <<user, policy, dedup, dispatched, received, faults>>

-----------------------------------------------------------------------------
(* The job queue, as far as the handler sees it. *)

ClaimJob(c) ==
  /\ job.status = "pending" /\ call[c].pc = "idle"
  /\ job' = [status |-> "active", attempts |-> job.attempts + 1]
  /\ call' = [call EXCEPT ![c] = [pc |-> "reading", due |-> 0, mine |-> TRUE]]
  /\ UNCHANGED <<user, policy, scanned, dedup, dispatched, received, faults>>

(* Mutant: recovery that leaves rows without attempts to nobody. *)
LostWithRetriesLeft == job.status = "active" /\ job.attempts < MaxAttempts

Lost == job.status = "active"

(* recoverStaleJobs: the worker died, or its lease lapsed under the call.  *)
Abandoned == \A c \in Call : call[c].pc = "idle" \/ ~call[c].mine

RecoverStaleJob ==
  /\ Lost
  /\ IF Abandoned THEN faults' = faults
                  ELSE faults < MaxFaults /\ faults' = faults + 1
  /\ job' = [job EXCEPT !.status = "pending"]
  /\ UNCHANGED <<user, policy, scanned, call, dedup, dispatched, received>>

CompleteJob(c) ==
  /\ call[c].pc = "completing"
  /\ job' = IF call[c].mine THEN NoJob ELSE job
  /\ call' = [call EXCEPT ![c] = Idle]
  /\ UNCHANGED <<user, policy, scanned, dedup, dispatched, received, faults>>

(* Mutant: a retry counts the failed attempt a second time. *)
RetriedTwice == [status |-> "pending", attempts |-> job.attempts + 1]

Retried == [job EXCEPT !.status = "pending"]

(* A retry, or the dead letters, which the singleton key does not cover.   *)
FailJob(c) ==
  /\ call[c].pc = "failing"
  /\ job' = IF ~call[c].mine THEN job
            ELSE IF job.attempts < MaxAttempts THEN Retried ELSE NoJob
  /\ call' = [call EXCEPT ![c] = Idle]
  /\ UNCHANGED <<user, policy, scanned, dedup, dispatched, received, faults>>

Crash(c) ==
  /\ call[c].pc # "idle"
  /\ faults < MaxFaults /\ faults' = faults + 1
  /\ call' = [call EXCEPT ![c] = Idle]
  /\ UNCHANGED <<user, policy, scanned, job, dedup, dispatched, received>>

-----------------------------------------------------------------------------
(* handleReminderDispatch, await by await. *)

At(c, pc) == call[c].pc = pc
Goto(c, pc) == call' = [call EXCEPT ![c].pc = pc]

ReadTask(c) ==
  /\ At(c, "reading")
  /\ call' = [call EXCEPT ![c].pc = IF task.status = "done" THEN "completing" ELSE "deciding",
                          ![c].due = task.due]
  /\ UNCHANGED <<user, policy, scanned, job, dedup, dispatched, received, faults>>

(* A deferral enqueues the same singleton key again, which the call's own  *)
(* row suppresses as long as it is live.                                   *)
EvaluatePolicy(c) ==
  /\ At(c, "deciding")
  /\ IF held THEN Enqueue([call EXCEPT ![c].pc = "completing"])
             ELSE Goto(c, "claiming") /\ UNCHANGED job
  /\ UNCHANGED <<user, policy, scanned, dedup, dispatched, received, faults>>

(* Mutant: a key whose delivery was not recorded may be claimed again. *)
UndeliveredKey(d) == dedup[d] # "delivered"

(* Mutant: the key of a reminder does not tell its due_at. *)
FreeKeyOfTask(d) == \A e \in Due : dedup[e] = "free"

FreeKey(d) == dedup[d] = "free"

(* Mutant: a suppressed call marks the reminder as sent. *)
SuppressedMarking(c) == "marking"

SuppressedAt(c) == "completing"

(* INSERT ... ON CONFLICT DO NOTHING: one call gets the key. *)
ClaimNotification(c) ==
  /\ At(c, "claiming")
  /\ IF FreeKey(call[c].due)
     THEN /\ dedup' = [dedup EXCEPT ![call[c].due] = "pending"]
          /\ Goto(c, "delivering")
     ELSE Goto(c, SuppressedAt(c)) /\ UNCHANGED dedup
  /\ UNCHANGED <<user, policy, scanned, job, dispatched, received, faults>>

(* deliverResponse reaches the user; or it fails after the adapter's       *)
(* retries, of which one may have reached the user all the same.           *)
Deliver(c) ==
  /\ At(c, "delivering")
  /\ dispatched' = [dispatched EXCEPT ![call[c].due] = @ + 1]
  /\ \/ /\ received' = [received EXCEPT ![call[c].due] = @ + 1]
        /\ Goto(c, "recording") /\ UNCHANGED faults
     \/ /\ faults < MaxFaults /\ faults' = faults + 1
        /\ received' \in {received, [received EXCEPT ![call[c].due] = @ + 1]}
        /\ Goto(c, "failing")
  /\ UNCHANGED <<user, policy, scanned, job, dedup>>

RecordOutcome(c) ==
  /\ At(c, "recording")
  /\ dedup' = [dedup EXCEPT ![call[c].due] = "delivered"]
  /\ Goto(c, "marking")
  /\ UNCHANGED <<user, policy, scanned, job, dispatched, received, faults>>

(* Sets reminder_sent_at whatever due_at has become since it was read.     *)
Mark(c) == task' = [task EXCEPT !.sent = TRUE] /\ sentFor' = call[c].due

MarkReminderSent(c) ==
  /\ At(c, "marking")
  /\ Mark(c)
  /\ Goto(c, "completing")
  /\ UNCHANGED <<ripe, edits, policy, scanned, job, dedup, dispatched, received, faults>>

(* A statement of the handler fails, the last one with or without effect.  *)
(* claimNotification turns its own failure into "already claimed".         *)
StatementFails(c) ==
  /\ faults < MaxFaults /\ faults' = faults + 1
  /\ \/ /\ call[c].pc \in {"reading", "deciding", "recording", "marking"}
        /\ Goto(c, "failing") /\ UNCHANGED <<dedup, task, sentFor>>
     \/ /\ At(c, "marking") /\ Mark(c)
        /\ Goto(c, "failing") /\ UNCHANGED dedup
     \/ /\ At(c, "claiming") /\ UNCHANGED <<task, sentFor>>
        /\ dedup' \in {dedup, [dedup EXCEPT ![call[c].due] = IF @ = "free" THEN "pending" ELSE @]}
        /\ Goto(c, "completing")
  /\ UNCHANGED <<ripe, edits, policy, scanned, job, dispatched, received>>

-----------------------------------------------------------------------------
HandlerStep(c) ==
  \/ ReadTask(c) \/ EvaluatePolicy(c) \/ ClaimNotification(c) \/ Deliver(c)
  \/ RecordOutcome(c) \/ MarkReminderSent(c) \/ CompleteJob(c) \/ FailJob(c)

Next ==
  \/ SnoozeTask
  \/ \E d \in Due : UpdateTask(d)
  \/ \E s \in Status : MarkStatus(s)
  \/ Ripen \/ Hold \/ Release
  \/ ScanDue \/ EnqueueScanned \/ RecoverStaleJob
  \/ \E c \in Call : ClaimJob(c) \/ HandlerStep(c) \/ Crash(c) \/ StatementFails(c)

Spec == Init /\ [][Next]_vars

(* The scanner, the poll and the recovery run for ever, calls go on until  *)
(* they end, reminders fall due and quiet hours end.                       *)
Fairness ==
  /\ WF_vars(Ripen) /\ WF_vars(Release)
  /\ WF_vars(ScanDue) /\ WF_vars(EnqueueScanned)
  /\ WF_vars(Abandoned /\ RecoverStaleJob)
  /\ WF_vars(\E c \in Call : ClaimJob(c))
  /\ \A c \in Call : WF_vars(HandlerStep(c))

FairSpec == Spec /\ Fairness

-----------------------------------------------------------------------------
(* Properties. *)

(* However often the job is executed, by however many calls at once, the   *)
(* user is sent at most one reminder per due_at.                           *)
OneDispatchPerDue == \A d \in Due : dispatched[d] <= 1

(* reminder_sent_at stands for a reminder that was sent: whichever of the  *)
(* calls set it, for the due_at that call has read a delivery was begun.   *)
SentMeansDispatched == task.sent => dispatched[sentFor] = 1

Wanted(d) == task.status = "pending" /\ task.due = d /\ ~task.sent /\ ripe

(* The user has moved the reminder away or closed the task.                *)
Withdrawn(d) == task.due # d \/ task.status # "pending"

(* The task counts as reminded of at d although its mark was set by a call *)
(* for another due_at: the task was snoozed or moved while that call was   *)
(* in flight, and markReminderSent (TaskService.ts:275) looks at the id    *)
(* alone.  The scanner passes over the task from then on, and nobody is    *)
(* reminded of d.                                                          *)
Overmarked(d) == task.due = d /\ task.sent /\ sentFor # d

(* A due reminder is claimed for delivery, whatever fails on the way: the  *)
(* scanner finds it again until its key is taken.  It is missed only if    *)
(* the user withdraws it, or a late mark for another due_at hides it.      *)
EveryReminderClaimed ==
  \A d \in Due : Wanted(d) ~> dedup[d] # "free" \/ Withdrawn(d) \/ Overmarked(d)

(* Without a fault, a due reminder also reaches the user, but for the same *)
(* two exceptions.                                                         *)
ReminderArrives ==
  \A d \in Due : Wanted(d) ~> received[d] > 0 \/ faults > 0 \/ Withdrawn(d) \/ Overmarked(d)

-----------------------------------------------------------------------------
(* The inductive invariant behind the safety properties. *)

Typed == task \in Tasks /\ sentFor \in Due /\ call \in Calls /\ dedup \in Log /\ dispatched \in [Due -> Nat]

(* The key of a due_at has one taker: nothing was or is being sent for a   *)
(* free key; the one call about to deliver is the first; and a call past   *)
(* its delivery has one to show.                                           *)
OneTaker ==
  /\ \A d \in Due :
       FreeKey(d) => dispatched[d] = 0 /\ \A c \in Call : At(c, "delivering") => call[c].due # d
  /\ \A c, e \in Call :
       At(c, "delivering") /\ At(e, "delivering") /\ call[c].due = call[e].due => c = e
  /\ \A c \in Call : At(c, "delivering") => dispatched[call[c].due] = 0
  /\ \A c \in Call :
       call[c].pc \in {"recording", "marking"} => dispatched[call[c].due] = 1

IndInv == Typed /\ OneTaker /\ OneDispatchPerDue /\ SentMeansDispatched

(* Every due reminder is claimed for its delivery, and without a fault it  *)
(* arrives, through deferrals, retries and crashes, unless the user        *)
(* withdraws it or a call for another due_at marks it as sent.            *)
RemindersServed == EveryReminderClaimed /\ ReminderArrives
=============================================================================
