----------------------------- MODULE DomainScan -----------------------------
(***************************************************************************)
(* enqueueDueDomainWork of scheduler/worker.ts: every 30 seconds one scan  *)
(* reads what is due - reminders, follow-ups, recurring tasks, calendar    *)
(* accounts, in this order - a limited number of each, and enqueues a job  *)
(* for each row under a singleton key.  Node's cron does not wait for the  *)
(* previous scan and there may be several workers, so scans overlap; one   *)
(* try/catch stands around the whole scan.                                 *)
(*                                                                         *)
(* The queue is only the set of keys with a live job, and a handler is     *)
(* what it does to the row that made it due: JobQueue, Reminders and       *)
(* FollowUps tell the rest.                                                *)
(***************************************************************************)
EXTENDS Integers, FiniteSets

CONSTANTS
  Scanner,      (* Scans that may overlap.                                 *)
  Reminder, FollowUp, Recurring, Account,
                (* Rows, numbered in the order of due_at, scheduled_at or  *)
                (* next_run_at.                                            *)
  Limit,        (* The LIMIT of each of the four queries.                  *)
  Watched,      (* The row whose needless jobs are counted.                *)
  MaxFaults     (* Bound: statements that fail, dispatches that are cut    *)
                (* off and jobs that change nothing, together.             *)

Kind == 1..4
Rows == <<Reminder, FollowUp, Recurring, Account>>
Item == UNION {Rows[k] : k \in Kind}
KindOf(i) == CHOOSE k \in Kind : i \in Rows[k]

ASSUME DomainScanAssumption ==
  /\ Item \subseteq Nat /\ IsFiniteSet(Item)
  /\ \A k, l \in Kind : k # l => Rows[k] \cap Rows[l] = {}
  /\ Limit \in [Kind -> Nat \ {0}] /\ IsFiniteSet(Scanner)
  /\ Watched \in Item /\ MaxFaults \in Nat

VARIABLES
  row,      (* "stuck" rows are due, and their dispatch does nothing: the  *)
            (* deduplication key was claimed by a run that did not finish. *)
  live,     (* Rows whose singleton key has a pending or active job.       *)
  scan,     (* The calls of enqueueDueDomainWork.                          *)
  again,    (* Jobs that ran although their row was closed, for Watched.   *)
  faults

scanVars == <<row, live, scan, again, faults>>

(* kind: 0 when idle.  batch: the rows that the scan has yet to enqueue.   *)
(* checked: enqueueJob found no live job for the first of them.            *)
NoScan == [kind |-> 0, batch |-> {}, checked |-> FALSE]

ScanTypeOK ==
  /\ row \in [Item -> {"waiting", "due", "stuck", "closed"}]
  /\ live \subseteq Item
  /\ scan \in [Scanner -> [kind : 0..4, batch : SUBSET Item, checked : BOOLEAN]]
  /\ \A s \in Scanner :
       scan[s].kind # 0 => /\ scan[s].batch \subseteq Rows[scan[s].kind]
                           /\ Cardinality(scan[s].batch) <= Limit[scan[s].kind]
  /\ again \in Nat /\ faults \in 0..MaxFaults

(* An account is due as soon as it is connected; the worker may start long *)
(* after a recurring task became due.                                      *)
ScanInit ==
  /\ row = [i \in Item |-> IF i \in Reminder \cup FollowUp THEN "waiting" ELSE "due"]
  /\ live = {}
  /\ scan = [s \in Scanner |-> NoScan]
  /\ again = 0 /\ faults = 0

-----------------------------------------------------------------------------
(* What happens to the rows. *)

BecomesDue(i) ==
  /\ row[i] = "waiting" /\ row' = [row EXCEPT ![i] = "due"]
  /\ UNCHANGED <<live, scan, again, faults>>

(* markStatus, cancelRecurringTask, disconnectAccount: the user closes it. *)
Close(i) ==
  /\ row[i] \in {"due", "stuck"} /\ row' = [row EXCEPT ![i] = "closed"]
  /\ UNCHANGED <<live, scan, again, faults>>

-----------------------------------------------------------------------------
(* The scan. *)

(* Mutant: the query does not ask whether the row is settled. *)
MatchesSettled(i) == row[i] # "waiting"

Matches(i) == row[i] \in {"due", "stuck"}
Due(k) == {i \in Rows[k] : Matches(i)}

(* Mutants: one row too many, the latest rows. *)
FirstInclusive(k, S) == {i \in S : Cardinality({j \in S : j < i}) <= Limit[k]}
FirstLatest(k, S) == {i \in S : Cardinality({j \in S : j > i}) < Limit[k]}

First(k, S) == {i \in S : Cardinality({j \in S : j < i}) < Limit[k]}

(* ORDER BY ... LIMIT; the accounts are read without an order.             *)
Batches(k) ==
  IF Rows[k] = Account
  THEN {S \in SUBSET Due(k) : Cardinality(S) = Cardinality(First(k, Due(k)))}
  ELSE {First(k, Due(k))}

ReadBatch(s, k) ==
  \E S \in Batches(k) :
    scan' = [scan EXCEPT ![s] = [kind |-> k, batch |-> S, checked |-> FALSE]]

Scanning(s) == scan[s].kind # 0
Current(s) == CHOOSE i \in scan[s].batch : \A j \in scan[s].batch : i <= j
NextRow(s) == scan' = [scan EXCEPT ![s].batch = @ \ {Current(s)}, ![s].checked = FALSE]
EndScan(s) == scan' = [scan EXCEPT ![s] = NoScan]

StartScan(s) ==
  /\ ~Scanning(s) /\ ReadBatch(s, 1)
  /\ UNCHANGED <<row, live, again, faults>>

(* Mutant: a kind with nothing due ends the scan. *)
AfterEmpty(s) ==
  IF scan[s].kind = 4 THEN EndScan(s)
  ELSE IF Due(scan[s].kind) = {} THEN EndScan(s) ELSE ReadBatch(s, scan[s].kind + 1)

AfterBatch(s) == IF scan[s].kind = 4 THEN EndScan(s) ELSE ReadBatch(s, scan[s].kind + 1)

NextKind(s) ==
  /\ Scanning(s) /\ scan[s].batch = {} /\ AfterBatch(s)
  /\ UNCHANGED <<row, live, again, faults>>

(* The SELECTs of enqueueJob and enqueue for a live job of the key.  When  *)
(* there is one, it is returned.                                           *)
CheckKey(s) ==
  /\ Scanning(s) /\ scan[s].batch # {} /\ ~scan[s].checked
  /\ IF Current(s) \in live THEN NextRow(s)
     ELSE scan' = [scan EXCEPT ![s].checked = TRUE]
  /\ UNCHANGED <<row, live, again, faults>>

(* The INSERT.  A job inserted since breaks the unique index on the key:   *)
(* the exception ends the scan.                                            *)
InsertJob(s) ==
  /\ Scanning(s) /\ scan[s].checked
  /\ IF Current(s) \in live THEN EndScan(s) ELSE NextRow(s)
  /\ live' = live \cup {Current(s)}
  /\ UNCHANGED <<row, again, faults>>

(* A statement fails: the catch ends the scan, the later kinds with it.    *)
ScanFails(s) ==
  /\ Scanning(s) /\ faults < MaxFaults /\ faults' = faults + 1 /\ EndScan(s)
  /\ UNCHANGED <<row, live, again>>

-----------------------------------------------------------------------------
(* The handlers. *)

JobEnds(i) == i \in live /\ live' = live \ {i}

(* The reminder or the question is sent and the row marked.                *)
Dispatched(i) ==
  /\ i \in Reminder \cup FollowUp /\ row[i] = "due" /\ JobEnds(i)
  /\ row' = [row EXCEPT ![i] = "closed"]
  /\ UNCHANGED <<scan, again, faults>>

(* The run that claimed the key ends before the row is marked.             *)
CutOff(i) ==
  /\ i \in Reminder \cup FollowUp /\ row[i] = "due" /\ JobEnds(i)
  /\ faults < MaxFaults /\ faults' = faults + 1
  /\ row' = [row EXCEPT ![i] = "stuck"]
  /\ UNCHANGED <<scan, again>>

(* "duplicate already claimed": the job completes, the row stays due.      *)
Suppressed(i) ==
  /\ row[i] = "stuck" /\ JobEnds(i)
  /\ UNCHANGED <<row, scan, again, faults>>

(* Nothing was left to do for the row.                                     *)
Repeated(i) ==
  /\ row[i] = "closed" /\ JobEnds(i)
  /\ again' = again + (IF i = Watched THEN 1 ELSE 0)
  /\ UNCHANGED <<row, scan, faults>>

(* Deferred by the notification policy, or failed for the last time.       *)
NotDispatched(i) ==
  /\ i \in Reminder \cup FollowUp /\ row[i] = "due" /\ JobEnds(i)
  /\ faults < MaxFaults /\ faults' = faults + 1
  /\ UNCHANGED <<row, scan, again>>

(* handleRecurringTaskAdvance reads recurringTaskId from a payload that    *)
(* has recurringId, and returns.                                           *)
RecurringTaskAdvance(i) ==
  /\ i \in Recurring /\ row[i] = "due" /\ JobEnds(i)
  /\ UNCHANGED <<row, scan, again, faults>>

(* handleCalendarReconciliation passes the account as the user and the     *)
(* user as the account: no such account, and reconcileAccount returns what *)
(* it has.                                                                 *)
CalendarReconciliation(i) ==
  /\ i \in Account /\ row[i] = "due" /\ JobEnds(i)
  /\ UNCHANGED <<row, scan, again, faults>>

RunJob(i) ==
  \/ Dispatched(i) \/ CutOff(i) \/ Suppressed(i) \/ Repeated(i) \/ NotDispatched(i)
  \/ RecurringTaskAdvance(i) \/ CalendarReconciliation(i)

ScanStep(s) == StartScan(s) \/ NextKind(s) \/ CheckKey(s) \/ InsertJob(s)

ScanNext ==
  \/ \E s \in Scanner : ScanStep(s) \/ ScanFails(s)
  \/ \E i \in Item : BecomesDue(i) \/ Close(i) \/ RunJob(i)

ScanSpec == ScanInit /\ [][ScanNext]_scanVars

(* cron starts a scan every 30 seconds and the statements of a scan end;   *)
(* the queue runs every job, five at a time every two seconds, more than a *)
(* scan can enqueue.                                                       *)
FairScanSpec ==
  /\ ScanSpec
  /\ \A s \in Scanner : WF_scanVars(ScanStep(s))
  /\ \A i \in Item : WF_scanVars(RunJob(i))

-----------------------------------------------------------------------------
(* A batch that was read before its row was closed enqueues it once more,  *)
(* and so does the job that was live then: a job runs for nothing at most  *)
(* once per scan, and once more.                                           *)
StaleBounded == again <= Cardinality(Scanner) + 1

(* A due reminder or follow-up is taken up by a job unless rows before it  *)
(* fill its batch with what no job can take out: overlapping scans, whose  *)
(* inserts break each other off, and failing statements only delay it.     *)
Crowded(i) ==
  LET k == KindOf(i)
  IN Cardinality({j \in Rows[k] : j < i /\ row[j] = "stuck"}) >= Limit[k]

EveryDueReached ==
  \A i \in Reminder \cup FollowUp : row[i] = "due" ~> row[i] # "due" \/ Crowded(i)

(* The last kind of a scan gets its turn: as long as the accounts fit into *)
(* one batch, a due one is enqueued, whatever the kinds before it hold.    *)
LastKindReached ==
  \A a \in Account : row[a] = "due" ~> row[a] # "due" \/ a \in live

(* docs/DATABASE_ACCESS_ARCHITECTURE.md:59, of the worker: "Querying due   *)
(* recurring task schedules and advancing occurrences."  A due recurring   *)
(* task does not stay due for ever.                                        *)
RecurringAdvances == \A i \in Recurring : row[i] = "due" ~> row[i] # "due"

(* Scans keep to their batches, and stale ones cost a bounded number of    *)
(* needless jobs.                                                          *)
ScansSound == ScanTypeOK /\ StaleBounded
=============================================================================
