----------------------------- MODULE FollowUps -----------------------------
(***************************************************************************)
(* The follow-ups of one task: their state machine in FollowUpService, the *)
(* scanner that enqueues due ones, the calls of handleFollowUpDispatch     *)
(* that ask the user, and the user's answers and buttons.                  *)
(*                                                                         *)
(* As in Reminders, every await of the handler is a step, and the job      *)
(* queue is taken at its promise, with leases that may lapse.              *)
(***************************************************************************)
EXTENDS Integers, FiniteSets

CONSTANTS
  FollowUp,     (* Follow-ups of the task.                                 *)
  Call,         (* Calls of handleFollowUpDispatch that may overlap.       *)
  MaxTries,     (* max_attempts of a follow-up (validMaxAttempts, 1..10).  *)
  MaxAttempts,  (* max_attempts of a job.                                  *)
  MaxReplies,   (* Bound: answers, button presses and status changes.      *)
  MaxHolds,     (* Bound: times the policy starts to defer.                *)
  MaxFaults     (* Bound: crashes, lapsed leases, failing statements and   *)
                (* failing sends.                                          *)

ASSUME BoundsAssumption ==
  /\ FollowUp # {} /\ IsFiniteSet(Call)
  /\ MaxTries \in 1..10 /\ MaxAttempts \in Nat \ {0}
  /\ MaxReplies \in Nat /\ MaxHolds \in Nat /\ MaxFaults \in Nat

VARIABLES
  task,         (* tasks.status; "open": pending or in_progress.           *)
  fu,           (* The table follow_ups.                                   *)
  held,         (* Quiet hours or the hourly limit defer.                  *)
  scanned,      (* Follow-ups in the scanner's batch, not yet enqueued.    *)
  job,          (* The live row with singleton key followup:<id>.          *)
  call,         (* The calls of handleFollowUpDispatch.                    *)
  dedup,        (* notification_dedup_log, by fu:<id>:<attempt_count>.     *)
  (* History: *)
  dispatched,   (* Calls of deliverResponse, by the same key.              *)
  replies, holds, faults

vars == <<task, fu, held, scanned, job, call, dedup, dispatched,
          replies, holds, faults>>
domain  == <<task, fu>>
policy  == <<held, holds>>

Open == {"SCHEDULED", "WAITING_FOR_RESPONSE"}

(* followup: and the attempt_count that was read.                          *)
Keys == FollowUp \X Nat

Idle  == [pc |-> "idle", fu |-> CHOOSE f \in FollowUp : TRUE, try |-> 0, mine |-> FALSE]
NoJob == [status |-> "none", attempts |-> 0]
NewFollowUp == [status |-> "none", tries |-> 0, due |-> FALSE]

(* tries: attempt_count.  due: scheduled_at <= now().  mine: the job this  *)
(* call works on is still the live row of its key.                         *)
TypeOK ==
  /\ task \in {"open", "done", "missed"}
  /\ fu \in [FollowUp -> [status : Open \cup {"none", "COMPLETED", "NOT_YET", "CANCELLED"},
                          tries : Nat, due : BOOLEAN]]
  /\ held \in BOOLEAN /\ scanned \subseteq FollowUp
  /\ job \in [FollowUp -> [status : {"none", "pending", "active"},
                           attempts : Nat]]
  /\ call \in [Call -> [pc : {"idle", "reading", "cancelling", "deciding", "deferring",
                              "reserving", "delivering", "recording", "marking",
                              "completing", "failing"},
                        fu : FollowUp, try : Nat, mine : BOOLEAN]]
  /\ DOMAIN dedup \subseteq Keys /\ dedup \in [DOMAIN dedup -> {"pending", "delivered", "deferred"}]
  /\ DOMAIN dispatched \subseteq Keys /\ dispatched \in [DOMAIN dispatched -> Nat]
  /\ replies \in 0..MaxReplies /\ holds \in 0..MaxHolds /\ faults \in 0..MaxFaults

Init ==
  /\ task = "open"
  /\ fu = [f \in FollowUp |-> NewFollowUp]
  /\ held = FALSE /\ scanned = {}
  /\ job = [f \in FollowUp |-> NoJob]
  /\ call = [c \in Call |-> Idle]
  /\ dedup = [k \in {} |-> "pending"] /\ dispatched = [k \in {} |-> 0]
  /\ replies = 0 /\ holds = 0 /\ faults = 0

-----------------------------------------------------------------------------
(* FollowUpService and TaskService, as the user's answers reach them.      *)

Exists(f) == fu[f].status # "none"

ScheduleFollowUp(f) ==
  /\ ~Exists(f)
  /\ fu' = [fu EXCEPT ![f].status = "SCHEDULED"]
  /\ UNCHANGED <<task, policy, scanned, job, call, dedup, dispatched, replies, faults>>

(* "completed" also settles the task, and cancels its other follow-ups     *)
(* (but for the NOT_YET ones).  No intent looks at the current status.     *)
AfterIntent(f, intent) ==
  CASE intent = "completed" ->
         [g \in FollowUp |->
            IF g = f THEN [fu[g] EXCEPT !.status = "COMPLETED"]
            ELSE IF fu[g].status \in Open THEN [fu[g] EXCEPT !.status = "CANCELLED"]
            ELSE fu[g]]
    [] intent = "not_yet"    -> [fu EXCEPT ![f].status = "NOT_YET"]
    [] intent = "reschedule" -> [fu EXCEPT ![f] = [status |-> "SCHEDULED", tries |-> 0,
                                                   due |-> FALSE]]
    [] intent = "snooze"     -> [fu EXCEPT ![f].status = "SCHEDULED", ![f].due = FALSE]
    [] intent = "cancelled"  -> [fu EXCEPT ![f].status = "CANCELLED"]

HandleResponse(f, intent) ==
  /\ fu' = AfterIntent(f, intent)
  /\ task' = IF intent = "completed" THEN "done" ELSE task

Reply == replies < MaxReplies /\ replies' = replies + 1
         /\ UNCHANGED <<policy, scanned, job, call, dedup, dispatched, faults>>

(* The tool respond_followup. *)
Respond(f, intent) ==
  /\ Reply /\ Exists(f)
  /\ HandleResponse(f, intent)

(* The button "Done" of a delivered follow-up: the worker writes           *)
(* fu:done:<id>, the webhook reads fu:<id>:<action>.                       *)
ButtonDone(f) == <<"fu", "done", f>>
CallbackId(data) == data[2]
CallbackIntent(data) == IF data[3] = "not_yet" THEN "not_yet" ELSE "completed"

PressDone(f) ==
  /\ Reply
  /\ \E k \in DOMAIN dispatched : k[1] = f
  /\ LET data == ButtonDone(f)
     IN IF CallbackId(data) \in FollowUp
        THEN HandleResponse(CallbackId(data), CallbackIntent(data))
        ELSE UNCHANGED domain                         (* Invalid follow-up ID *)

(* TaskService.markStatus *)
MarkStatus(s) ==
  /\ Reply
  /\ task' = s
  /\ fu' = [f \in FollowUp |->
              IF s # "open" /\ fu[f].status \in Open \cup {"NOT_YET"}
              THEN [fu[f] EXCEPT !.status = "CANCELLED"] ELSE fu[f]]

-----------------------------------------------------------------------------
(* Time and the notification policy.  The anti-nagging gap looks for keys  *)
(* followup:<task> that nobody writes, so it never defers.                 *)

FallDue(f) ==
  /\ Exists(f) /\ ~fu[f].due
  /\ fu' = [fu EXCEPT ![f].due = TRUE]
  /\ UNCHANGED <<task, policy, scanned, job, call, dedup, dispatched, replies, faults>>

Hold ==
  /\ ~held /\ holds < MaxHolds
  /\ held' = TRUE /\ holds' = holds + 1
  /\ UNCHANGED <<domain, scanned, job, call, dedup, dispatched, replies, faults>>

Release ==
  /\ held /\ held' = FALSE
  /\ UNCHANGED <<domain, holds, scanned, job, call, dedup, dispatched, replies, faults>>

-----------------------------------------------------------------------------
(* The scanner and the job queue, as far as the handler sees it.           *)

(* Mutant: the batch forgets the limit on attempts. *)
AskableAlways(f) == fu[f].status = "SCHEDULED" /\ fu[f].due /\ task = "open"

(* getDueFollowUpsBatch; nothing ever sets the status DUE. *)
Askable(f) == AskableAlways(f) /\ fu[f].tries < MaxTries

ScanDue(f) ==
  /\ f \notin scanned /\ Askable(f)
  /\ scanned' = scanned \cup {f}
  /\ UNCHANGED <<domain, policy, job, call, dedup, dispatched, replies, faults>>

EnqueueScanned(f) ==
  /\ f \in scanned /\ scanned' = scanned \ {f}
  /\ IF job[f].status = "none"
     THEN /\ job' = [job EXCEPT ![f] = [status |-> "pending", attempts |-> 0]]
          /\ call' = [c \in Call |-> IF call[c].fu = f THEN [call[c] EXCEPT !.mine = FALSE]
                                                       ELSE call[c]]
     ELSE UNCHANGED <<job, call>>
  /\ UNCHANGED <<domain, policy, dedup, dispatched, replies, faults>>

ClaimJob(c, f) ==
  /\ job[f].status = "pending" /\ call[c].pc = "idle"
  /\ job' = [job EXCEPT ![f].status = "active", ![f].attempts = @ + 1]
  /\ call' = [call EXCEPT ![c] = [pc |-> "reading", fu |-> f, try |-> 0, mine |-> TRUE]]
  /\ UNCHANGED <<domain, policy, scanned, dedup, dispatched, replies, faults>>

(* Mutant: recovery that leaves rows without attempts to nobody. *)
LostWithRetriesLeft(f) == job[f].status = "active" /\ job[f].attempts < MaxAttempts

Lost(f) == job[f].status = "active"

(* recoverStaleJobs: the worker died, or its lease lapsed under the call.  *)
Abandoned(f) == \A c \in Call : call[c].pc = "idle" \/ call[c].fu # f \/ ~call[c].mine

RecoverStaleJob(f) ==
  /\ Lost(f)
  /\ IF Abandoned(f) THEN faults' = faults
                     ELSE faults < MaxFaults /\ faults' = faults + 1
  /\ job' = [job EXCEPT ![f].status = "pending"]
  /\ UNCHANGED <<domain, policy, scanned, call, dedup, dispatched, replies>>

CompleteJob(c) ==
  /\ call[c].pc = "completing"
  /\ job' = IF call[c].mine THEN [job EXCEPT ![call[c].fu] = NoJob] ELSE job
  /\ call' = [call EXCEPT ![c] = Idle]
  /\ UNCHANGED <<domain, policy, scanned, dedup, dispatched, replies, faults>>

FailJob(c) ==
  /\ call[c].pc = "failing"
  /\ job' = IF ~call[c].mine THEN job
            ELSE IF job[call[c].fu].attempts < MaxAttempts
                 THEN [job EXCEPT ![call[c].fu].status = "pending"]
                 ELSE [job EXCEPT ![call[c].fu] = NoJob]
  /\ call' = [call EXCEPT ![c] = Idle]
  /\ UNCHANGED <<domain, policy, scanned, dedup, dispatched, replies, faults>>

Crash(c) ==
  /\ call[c].pc # "idle"
  /\ faults < MaxFaults /\ faults' = faults + 1
  /\ call' = [call EXCEPT ![c] = Idle]
  /\ UNCHANGED <<domain, policy, scanned, job, dedup, dispatched, replies>>

-----------------------------------------------------------------------------
(* handleFollowUpDispatch, await by await. *)

At(c, pc)   == call[c].pc = pc
Goto(c, pc) == call' = [call EXCEPT ![c].pc = pc]
Key(c)      == <<call[c].fu, call[c].try>>

(* One SELECT over the follow-up, its task and its user (who wants to be   *)
(* asked); the status of the follow-up is selected and not looked at.      *)
ReadFollowUp(c) ==
  /\ At(c, "reading")
  /\ call' = [call EXCEPT ![c].pc = IF task = "done" THEN "cancelling" ELSE "deciding",
                          ![c].try = fu[call[c].fu].tries]
  /\ UNCHANGED <<domain, policy, scanned, job, dedup, dispatched, replies, faults>>

CancelForDoneTask(c) ==
  /\ At(c, "cancelling")
  /\ HandleResponse(call[c].fu, "cancelled")
  /\ Goto(c, "completing")
  /\ UNCHANGED <<policy, scanned, job, dedup, dispatched, replies, faults>>

EvaluatePolicy(c) ==
  /\ At(c, "deciding")
  /\ Goto(c, IF held THEN "deferring" ELSE "reserving")
  /\ UNCHANGED <<domain, policy, scanned, job, dedup, dispatched, replies, faults>>

(* A table with a row for k, new or replaced.                              *)
Put(table, k, value) == [x \in DOMAIN table \cup {k} |-> IF x = k THEN value ELSE table[x]]

(* recordOutcome: an UPDATE, which finds a row only if the key is taken.   *)
Recorded(k, status) == IF k \in DOMAIN dedup THEN Put(dedup, k, status) ELSE dedup

RecordDeferred(c) ==
  /\ At(c, "deferring")
  /\ dedup' = Recorded(Key(c), "deferred")
  /\ Goto(c, "completing")
  /\ UNCHANGED <<domain, policy, scanned, job, dispatched, replies, faults>>

(* Mutant: a key whose delivery was not recorded may be taken again. *)
UndeliveredKey(k) == k \in DOMAIN dedup => dedup[k] # "delivered"

FreeKey(k) == k \notin DOMAIN dedup

(* Mutant: a call that finds its key taken counts the attempt. *)
SuppressedMarking(c) == "marking"

SuppressedAt(c) == "completing"

ReserveNotification(c) ==
  /\ At(c, "reserving")
  /\ IF FreeKey(Key(c))
     THEN /\ dedup' = Put(dedup, Key(c), "pending")
          /\ Goto(c, "delivering")
     ELSE Goto(c, SuppressedAt(c)) /\ UNCHANGED dedup
  /\ UNCHANGED <<domain, policy, scanned, job, dispatched, replies, faults>>

Dispatched(k) == IF k \in DOMAIN dispatched THEN dispatched[k] ELSE 0

Deliver(c) ==
  /\ At(c, "delivering")
  /\ dispatched' = Put(dispatched, Key(c), Dispatched(Key(c)) + 1)
  /\ \/ Goto(c, "recording") /\ UNCHANGED faults
     \/ /\ faults < MaxFaults /\ faults' = faults + 1
        /\ Goto(c, "failing")
  /\ UNCHANGED <<domain, policy, scanned, job, dedup, replies>>

RecordDelivered(c) ==
  /\ At(c, "recording")
  /\ dedup' = Recorded(Key(c), "delivered")
  /\ Goto(c, "marking")
  /\ UNCHANGED <<domain, policy, scanned, job, dispatched, replies, faults>>

(* markDelivered, whatever became of the follow-up since it was read. *)
Marked(c) ==
  [fu EXCEPT ![call[c].fu].status = "WAITING_FOR_RESPONSE", ![call[c].fu].tries = @ + 1]

MarkDelivered(c) ==
  /\ At(c, "marking")
  /\ fu' = Marked(c)
  /\ Goto(c, "completing")
  /\ UNCHANGED <<task, policy, scanned, job, dedup, dispatched, replies, faults>>

(* A statement fails, or claimNotification does, which it turns into       *)
(* "already claimed"; an INSERT or UPDATE may have taken effect.           *)
StatementFails(c) ==
  /\ faults < MaxFaults /\ faults' = faults + 1
  /\ \/ /\ call[c].pc \in {"reading", "cancelling", "deciding", "deferring",
                           "recording", "marking"}
        /\ Goto(c, "failing") /\ UNCHANGED <<fu, dedup>>
     \/ /\ At(c, "marking") /\ fu' = Marked(c)
        /\ Goto(c, "failing") /\ UNCHANGED dedup
     \/ /\ At(c, "reserving") /\ UNCHANGED fu
        /\ dedup' \in {dedup, IF FreeKey(Key(c)) THEN Put(dedup, Key(c), "pending") ELSE dedup}
        /\ Goto(c, "completing")
  /\ UNCHANGED <<task, policy, scanned, job, dispatched, replies>>

-----------------------------------------------------------------------------
HandlerStep(c) ==
  \/ ReadFollowUp(c) \/ CancelForDoneTask(c) \/ EvaluatePolicy(c) \/ RecordDeferred(c)
  \/ ReserveNotification(c) \/ Deliver(c) \/ RecordDelivered(c) \/ MarkDelivered(c)
  \/ CompleteJob(c) \/ FailJob(c)

Intents == {"completed", "not_yet", "reschedule", "snooze", "cancelled"}

UserStep ==
  \/ \E f \in FollowUp :
       \/ ScheduleFollowUp(f) \/ PressDone(f)
       \/ \E intent \in Intents : Respond(f, intent)
  \/ \E s \in {"open", "done", "missed"} : MarkStatus(s)

Next ==
  \/ UserStep
  \/ Hold \/ Release
  \/ \E f \in FollowUp : FallDue(f) \/ ScanDue(f) \/ EnqueueScanned(f) \/ RecoverStaleJob(f)
  \/ \E c \in Call, f \in FollowUp : ClaimJob(c, f)
  \/ \E c \in Call : HandlerStep(c) \/ Crash(c) \/ StatementFails(c)

Spec == Init /\ [][Next]_vars

(* As for reminders: the scanner, the poll and the recovery run for ever,  *)
(* calls go on until they end, and quiet hours end.                        *)
Fairness ==
  /\ WF_vars(Release)
  /\ \A f \in FollowUp :
       /\ WF_vars(FallDue(f)) /\ WF_vars(ScanDue(f)) /\ WF_vars(EnqueueScanned(f))
       /\ WF_vars(Abandoned(f) /\ RecoverStaleJob(f))
       /\ WF_vars(\E c \in Call : ClaimJob(c, f))
  /\ \A c \in Call : WF_vars(HandlerStep(c))

FairSpec == Spec /\ Fairness

-----------------------------------------------------------------------------
(* Properties. *)

(* An attempt of a follow-up is sent at most once, by however many calls,  *)
(* jobs and retries at a time.                                             *)
OneDispatchPerTry == \A k \in DOMAIN dispatched : dispatched[k] <= 1

Inquiries(f) == {k \in DOMAIN dispatched : k[1] = f}
Asked(f) == Cardinality(Inquiries(f))

(* attempt_count counts no inquiry that was not made: although markDelivered*)
(* is relative and unguarded, no two calls count one inquiry.              *)
TriesBacked == \A f \in FollowUp : fu[f].tries <= Asked(f)

(* max_attempts is passed by one stale batch and once per fault at most,   *)
(* also while answers start the count again.                               *)
TriesBounded == \A f \in FollowUp : fu[f].tries <= MaxTries + 1 + faults

(* A due follow-up whose current attempt has not been taken is eventually  *)
(* taken for delivery, or answered, whatever fails on the way.             *)
Fresh(f) == Askable(f) /\ FreeKey(<<f, fu[f].tries>>)
EveryFollowUpTaken == \A f \in FollowUp : Fresh(f) ~> ~Fresh(f)

(* Rows, jobs and calls are of their types, every counted attempt is one   *)
(* that was made, and hardly more are made than max_attempts.              *)
CountsBacked == TypeOK /\ TriesBacked /\ TriesBounded
=============================================================================
