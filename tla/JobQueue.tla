------------------------------ MODULE JobQueue ------------------------------
(***************************************************************************)
(* The durable job queue: the table job_queue and the operations of        *)
(* JobQueueService on it, as the scheduler workers call them.              *)
(*                                                                         *)
(* One SQL statement is one step; what JobQueueService does in several     *)
(* statements (enqueueJob, failJob) is several steps, so other workers and *)
(* enqueuers act between them.  Several worker processes poll one queue.   *)
(* A worker may die at any moment, a statement may fail before or after it *)
(* took effect, and a handler may run longer than its lease; each of these *)
(* is counted and bounded by a constant.                                   *)
(*                                                                         *)
(* Time is measured in ticks.  run_at and locked_until are kept as the     *)
(* number of ticks that remain until now() reaches them, so that the clock *)
(* itself needs no bound.                                                  *)
(***************************************************************************)
EXTENDS Integers, FiniteSets

CONSTANTS
  Job,            (* Ids of the rows that may be inserted: bounds the table. *)
  Worker,         (* Worker processes (scheduler/worker.ts).                 *)
  Enqueuer,       (* Callers of enqueueJob: scanners, deferring handlers.    *)
  NoKey,          (* SQL NULL for a key.                                     *)
  NoWorker,       (* SQL NULL for locked_by.                                 *)
  SingletonOf,    (* singleton_key of the request that would create a row.   *)
  IdempotencyOf,  (* idempotency_key of that request.                        *)
  Delays,         (* Delays a request may ask for (runAt, delaySeconds).     *)
  MaxAttempts,    (* max_attempts.                                           *)
  Concurrency,    (* WORKER_CONCURRENCY.                                     *)
  Lease,          (* DEFAULT_LEASE_SECONDS, in ticks.                        *)
  BackoffUnit,    (* The 10 seconds of the retry backoff, in ticks.          *)
  BackoffCap,     (* The hour that caps the backoff, in ticks.               *)
  Jitter,         (* The random part of the backoff, in ticks.               *)
  MaxCrashes,     (* Bound: deaths of worker processes.                      *)
  MaxDbErrors,    (* Bound: statements that report an error.                 *)
  MaxOverruns,    (* Bound: ticks at which a lease expires under a handler.  *)
  MaxReplays      (* Bound: dead-letter replays.                             *)

ASSUME NullAssumption == NoWorker \notin Worker
ASSUME KeyAssumption ==
  /\ Job \subseteq DOMAIN SingletonOf
  /\ Job \subseteq DOMAIN IdempotencyOf
ASSUME AttemptsAssumption == MaxAttempts \in Nat \ {0}
ASSUME TimeAssumption ==
  /\ Delays \subseteq Nat /\ 0 \in Delays
  /\ Lease \in Nat \ {0}
  /\ BackoffUnit \in Nat /\ BackoffCap \in Nat /\ Jitter \in Nat
ASSUME PowerAssumption == \A a \in 0..MaxAttempts : 2^a \in Nat
ASSUME BoundsAssumption ==
  /\ Concurrency \in Nat \ {0}
  /\ MaxCrashes \in Nat /\ MaxDbErrors \in Nat
  /\ MaxOverruns \in Nat /\ MaxReplays \in Nat

VARIABLES
  row,        (* The table job_queue.                                        *)
  executing,  (* Calls of processJob in flight, in every worker.             *)
  enqueuing,  (* Calls of enqueueJob in flight.                              *)
  (* History, for the properties and the bounds only:                        *)
  runs,       (* Number of times each job was claimed.                       *)
  crashes, dbErrors, overruns, replays

vars == <<row, executing, enqueuing, runs, crashes, dbErrors, overruns, replays>>
faults == <<crashes, dbErrors, overruns>>

-----------------------------------------------------------------------------
(* The table. *)

Status == {"absent", "pending", "active", "completed", "failed"}

Row == [status   : Status,
        attempts : Nat,
        runIn    : Nat,                  (* run_at - now(), 0 once it is due *)
        leaseIn  : Nat,                  (* locked_until - now()             *)
        lockedBy : Worker \cup {NoWorker}]

NoRow == [status |-> "absent", attempts |-> 0, runIn |-> 0, leaseIn |-> 0,
          lockedBy |-> NoWorker]

(* A call of processJob.  The run number tells two runs of one job apart.  *)
(* "handling": the handler runs.  "failing": it threw, and failJob is yet  *)
(* to read the row.  "recording": failJob has read attempts into tried.    *)
Execution == [worker : Worker, job : Job, run : Nat,
              pc : {"handling", "failing", "recording"}, tried : Nat]

(* A call of enqueueJob.  "checked": its own SELECT found no live row.     *)
(* "inserting": the SELECT of enqueue() found none either.  known: history,*)
(* the rows with its singleton key that were there when it last looked.    *)
Call == [by : Enqueuer, pc : {"checked", "inserting"}, job : Job, delay : Nat,
         known : SUBSET Job]

TypeOK ==
  /\ row \in [Job -> Row]
  /\ executing \subseteq Execution
  /\ enqueuing \subseteq Call
  /\ runs \in [Job -> Nat]
  /\ crashes \in Nat /\ dbErrors \in Nat /\ overruns \in Nat /\ replays \in Nat

Present(j) == row[j].status # "absent"
IsLive(r)  == r.status \in {"pending", "active"}

SameSingleton(i, j) == SingletonOf[i] = SingletonOf[j] /\ SingletonOf[i] # NoKey
SameIdempotency(i, j) ==
  IdempotencyOf[i] = IdempotencyOf[j] /\ IdempotencyOf[i] # NoKey

(* Mutant: the SELECT looks for pending rows only. *)
HasPendingTwin(j) ==
  \E i \in Job : row[i].status = "pending" /\ SameSingleton(i, j)

(* What the singleton SELECT finds: a pending or active row with the key.  *)
HasLiveTwin(j) == \E i \in Job : IsLive(row[i]) /\ SameSingleton(i, j)

(* The rows of the key that are there when the SELECT runs (history).      *)
Known(j) == {i \in Job : Present(i) /\ SameSingleton(i, j)}

(* The partial unique index idx_job_queue_singleton: an INSERT or UPDATE   *)
(* whose result breaks it raises an error and has no effect.               *)
SingletonIndexOK(table) ==
  \A i, j \in Job :
    i # j /\ IsLive(table[i]) /\ IsLive(table[j]) => ~SameSingleton(i, j)

Unlock(r) == [r EXCEPT !.leaseIn = 0, !.lockedBy = NoWorker]

-----------------------------------------------------------------------------
Init ==
  /\ row = [j \in Job |-> NoRow]
  /\ executing = {}
  /\ enqueuing = {}
  /\ runs = [j \in Job |-> 0]
  /\ crashes = 0 /\ dbErrors = 0 /\ overruns = 0 /\ replays = 0

-----------------------------------------------------------------------------
(* enqueueJob and the enqueue it calls. *)

(* First SELECT of enqueueJob; without a singleton key neither SELECT runs.*)
(* A live twin ends the call: {enqueued: false}.                           *)
EnqueueCheck(q, j, d) ==
  /\ \A c \in enqueuing : c.by # q /\ c.job # j
  /\ ~Present(j)
  /\ ~HasLiveTwin(j)
  /\ LET next == IF SingletonOf[j] = NoKey THEN "inserting" ELSE "checked"
     IN enqueuing' = enqueuing \cup
                       {[by |-> q, pc |-> next, job |-> j, delay |-> d, known |-> Known(j)]}
  /\ UNCHANGED <<row, executing, runs, faults, replays>>

(* Second SELECT, in enqueue: a live twin is returned as the job.          *)
EnqueueRecheck(c) ==
  /\ c.pc = "checked"
  /\ enqueuing' = (enqueuing \ {c}) \cup
                    (IF HasLiveTwin(c.job) THEN {}
                     ELSE {[c EXCEPT !.pc = "inserting", !.known = Known(c.job)]})
  /\ UNCHANGED <<row, executing, runs, faults, replays>>

(* What the INSERT makes of the table. *)
Inserted(c) ==
  [row EXCEPT ![c.job] = [NoRow EXCEPT !.status = "pending", !.runIn = c.delay]]

(* ON CONFLICT covers the idempotency key alone (DO NOTHING, the row is    *)
(* read and returned); breaking the singleton index makes the call throw.  *)
InsertRefused(c) ==
  \/ \E i \in Job : Present(i) /\ SameIdempotency(i, c.job)
  \/ ~SingletonIndexOK(Inserted(c))

EnqueueInsert(c) ==
  /\ c.pc = "inserting"
  /\ enqueuing' = enqueuing \ {c}
  /\ row' = IF InsertRefused(c) THEN row ELSE Inserted(c)
  /\ UNCHANGED <<executing, runs, faults, replays>>

(* The enqueuer dies, or a statement of the call fails. *)
EnqueueAbandoned(c) ==
  /\ enqueuing' = enqueuing \ {c}
  /\ UNCHANGED <<row, executing, runs, faults, replays>>

-----------------------------------------------------------------------------
(* claimJobs, and processJob around the handler. *)

Due(j) == row[j].status = "pending" /\ row[j].runIn = 0

InFlight(w) == {e \in executing : e.worker = w}

(* Mutants: a claim without a lease, a claim that is not counted. *)
ClaimedUnleased(r, w) ==
  [r EXCEPT !.status = "active", !.lockedBy = w, !.attempts = @ + 1]
ClaimedUncounted(r, w) ==
  [r EXCEPT !.status = "active", !.leaseIn = Lease, !.lockedBy = w]

Claimed(r, w) == [r EXCEPT !.status = "active", !.leaseIn = Lease,
                           !.lockedBy = w, !.attempts = @ + 1]

(* One statement claims at most Concurrency of the due rows: the free      *)
(* slots are counted before it runs and polls may overlap (WorkerPool), so *)
(* nothing sharper holds.  SKIP LOCKED passes over any row another         *)
(* statement has locked, whatever its priority: the rows are any of them.  *)
ClaimJobs(w, S) ==
  /\ S # {} /\ S \subseteq {j \in Job : Due(j)}
  /\ Cardinality(S) <= Concurrency
  /\ row' = [j \in Job |-> IF j \in S THEN Claimed(row[j], w) ELSE row[j]]
  /\ runs' = [j \in Job |-> IF j \in S THEN runs[j] + 1 ELSE runs[j]]
  /\ executing' = executing \cup
       {[worker |-> w, job |-> j, run |-> runs[j] + 1, pc |-> "handling",
         tried |-> 0] : j \in S}
  /\ UNCHANGED <<enqueuing, faults, replays>>

Completed(r) == [Unlock(r) EXCEPT !.status = "completed"]

(* The handler returns and completeJob marks the row, whatever its state.  *)
CompleteJob(e) ==
  /\ e.pc = "handling"
  /\ row' = [row EXCEPT ![e.job] = Completed(@)]
  /\ executing' = executing \ {e}
  /\ UNCHANGED <<enqueuing, runs, faults, replays>>

(* completeJob throws, inside the same try as the handler: failJob follows *)
(* although the UPDATE may have been committed before the error.           *)
CompleteJobError(e) ==
  /\ e.pc = "handling"
  /\ dbErrors < MaxDbErrors /\ dbErrors' = dbErrors + 1
  /\ row' \in {row, [row EXCEPT ![e.job] = Completed(@)]}
  /\ executing' = (executing \ {e}) \cup {[e EXCEPT !.pc = "failing"]}
  /\ UNCHANGED <<enqueuing, runs, crashes, overruns, replays>>

HandlerThrows(e) ==
  /\ e.pc = "handling"
  /\ executing' = (executing \ {e}) \cup {[e EXCEPT !.pc = "failing"]}
  /\ UNCHANGED <<row, enqueuing, runs, faults, replays>>

(* Mutant: failJob counts the failing attempt again. *)
AttemptsReadTwice(r) == r.attempts + 1

(* Number(row.attempts) || 1 *)
AttemptsRead(r) == IF r.attempts = 0 THEN 1 ELSE r.attempts

(* failJob reads the attempts in one statement ...                         *)
FailJobRead(e) ==
  /\ e.pc = "failing"
  /\ executing' = (executing \ {e}) \cup
       {[e EXCEPT !.pc = "recording", !.tried = AttemptsRead(row[e.job])]}
  /\ UNCHANGED <<row, enqueuing, runs, faults, replays>>

Backoff(attempts) ==
  IF 2^attempts * BackoffUnit <= BackoffCap THEN 2^attempts * BackoffUnit
                                            ELSE BackoffCap

(* Mutant: a retry starts counting afresh. *)
RetriedAfresh(r, delay) ==
  [Unlock(r) EXCEPT !.status = "pending", !.runIn = delay, !.attempts = 0]

Retried(r, delay) == [Unlock(r) EXCEPT !.status = "pending", !.runIn = delay]
DeadLettered(r)   == [Unlock(r) EXCEPT !.status = "failed"]

(* Mutant: one retry too many. *)
RetriesLeftInclusive(attempts) == attempts <= MaxAttempts

RetriesLeft(attempts) == attempts < MaxAttempts

(* ... and decides on what it read in another, without looking at the      *)
(* status or the lock again.  A retry that breaks the singleton index      *)
(* throws out of processJob and leaves the row as it is.                   *)
FailJobWrite(e) ==
  /\ e.pc = "recording"
  /\ executing' = executing \ {e}
  /\ IF RetriesLeft(e.tried)
     THEN \E jitter \in 0..Jitter :
            LET retry == [row EXCEPT ![e.job] = Retried(@, Backoff(e.tried) + jitter)]
            IN row' = IF SingletonIndexOK(retry) THEN retry ELSE row
     ELSE row' = [row EXCEPT ![e.job] = DeadLettered(@)]
  /\ UNCHANGED <<enqueuing, runs, faults, replays>>

(* A statement of failJob fails: the rejected promise is swallowed by      *)
(* allSettled and the row keeps its lease until recovery.                  *)
FailJobError(e) ==
  /\ e.pc \in {"failing", "recording"}
  /\ dbErrors < MaxDbErrors /\ dbErrors' = dbErrors + 1
  /\ executing' = executing \ {e}
  /\ UNCHANGED <<row, enqueuing, runs, crashes, overruns, replays>>

-----------------------------------------------------------------------------
(* recoverStaleJobs, replayDeadLetterJobs, crashes and time. *)

(* Mutants: recovery that looks at the status only, at the lease only, or  *)
(* that leaves rows without attempts to nobody.                            *)
StaleByStatus(j) == row[j].status = "active"
StaleByLease(j) == Present(j) /\ row[j].leaseIn = 0
StaleWithRetriesLeft(j) == StaleByStatus(j) /\ StaleByLease(j) /\ RetriesLeft(row[j].attempts)

Stale(j) == row[j].status = "active" /\ row[j].leaseIn = 0

RecoverStaleJobs ==
  /\ \E j \in Job : Stale(j)
  /\ row' = [j \in Job |-> IF Stale(j)
               THEN [Unlock(row[j]) EXCEPT !.status = "pending"] ELSE row[j]]
  /\ UNCHANGED <<executing, enqueuing, runs, faults, replays>>

(* One UPDATE over the selected rows (jobIds, a queue, or all of them):    *)
(* a single clash on the singleton index aborts the whole replay.          *)
ReplayDeadLetterJobs(S) ==
  /\ S # {} /\ S \subseteq {j \in Job : row[j].status = "failed"}
  /\ replays < MaxReplays /\ replays' = replays + 1
  /\ row' = [j \in Job |-> IF j \in S
               THEN [NoRow EXCEPT !.status = "pending"] ELSE row[j]]
  /\ SingletonIndexOK(row')
  /\ UNCHANGED <<executing, enqueuing, runs, faults>>

(* A worker process dies (kill, forced exit, lost host) and is restarted.  *)
Crash(w) ==
  /\ InFlight(w) # {}
  /\ crashes < MaxCrashes /\ crashes' = crashes + 1
  /\ executing' = executing \ InFlight(w)
  /\ UNCHANGED <<row, enqueuing, runs, dbErrors, overruns, replays>>

(* Jobs whose lease runs out in this tick while processJob still has them. *)
Overrunning ==
  {e.job : e \in {x \in executing : row[x.job].status = "active" /\
                                     row[x.job].leaseIn = 1}}

(* Mutant: time runs past zero. *)
CountDownFurther(n) == n - 1

CountDown(n) == IF n = 0 THEN 0 ELSE n - 1

Tick ==
  /\ row' = [j \in Job |-> [row[j] EXCEPT !.runIn = CountDown(@),
                                          !.leaseIn = CountDown(@)]]
  /\ overruns' = IF Overrunning = {} THEN overruns ELSE overruns + 1
  /\ overruns' <= MaxOverruns
  /\ UNCHANGED <<executing, enqueuing, runs, crashes, dbErrors, replays>>

-----------------------------------------------------------------------------
EnqueueStep ==
  \/ \E q \in Enqueuer, j \in Job, d \in Delays : EnqueueCheck(q, j, d)
  \/ \E c \in enqueuing :
       EnqueueRecheck(c) \/ EnqueueInsert(c) \/ EnqueueAbandoned(c)

(* What processJob does on its own, without a failing statement. *)
ProcessStep(e) ==
  CompleteJob(e) \/ HandlerThrows(e) \/ FailJobRead(e) \/ FailJobWrite(e)

FaultStep ==
  \/ \E e \in executing : CompleteJobError(e) \/ FailJobError(e)
  \/ \E w \in Worker : Crash(w)

Next ==
  \/ EnqueueStep
  \/ \E w \in Worker, S \in SUBSET Job : ClaimJobs(w, S)
  \/ \E e \in executing : ProcessStep(e)
  \/ RecoverStaleJobs
  \/ \E S \in SUBSET Job : ReplayDeadLetterJobs(S)
  \/ FaultStep
  \/ Tick

Spec == Init /\ [][Next]_vars

(* Time passes; the 2 s poll claims what is due; a call of processJob goes *)
(* on until it ends; the recovery cron runs every minute.  Nothing makes   *)
(* anyone enqueue or replay, and nothing makes a fault happen.             *)
Fairness ==
  /\ WF_vars(Tick)
  /\ WF_vars(RecoverStaleJobs)
  /\ \A j \in Job :
       WF_vars(\E w \in Worker, S \in SUBSET Job : j \in S /\ ClaimJobs(w, S))
  /\ \A w \in Worker, j \in Job :
       WF_vars(\E e \in executing : e.worker = w /\ e.job = j /\ ProcessStep(e))

FairSpec == Spec /\ Fairness

-----------------------------------------------------------------------------
(* Properties.  A lease that expires under a running handler voids what    *)
(* leases are for; overruns counts those moments.                          *)

(* The promise of leases and singleton keys together: as long as no call   *)
(* outlived its lease, no job is processed twice at a time, and handlers   *)
(* of two jobs with the same singleton key never run together, whatever    *)
(* crashes, failing statements, retries, recoveries and replays happened.  *)
ExclusiveWork ==
  overruns = 0 =>
    \A e, f \in executing :
      e # f => /\ e.job # f.job
               /\ e.pc = "handling" /\ f.pc = "handling" =>
                    ~SameSingleton(e.job, f.job)

(* A running handler holds an unexpired lease in its worker's name; a call *)
(* in failJob does too, unless its completeJob took effect and then threw. *)
LeaseHeld ==
  overruns = 0 =>
    \A e \in executing :
      \/ /\ row[e.job].status = "active"
         /\ row[e.job].leaseIn > 0
         /\ row[e.job].lockedBy = e.worker
      \/ /\ row[e.job].status = "completed"
         /\ e.pc # "handling"

(* A job is dead-lettered only after it used up max_attempts, although     *)
(* failJob decides on attempts it read in an earlier statement.            *)
DeadLetterExhausted ==
  overruns = 0 =>
    \A j \in Job : row[j].status = "failed" => row[j].attempts >= MaxAttempts

(* recoverStaleJobs puts a job back whatever its attempts, so max_attempts *)
(* is no bound on the executions of a job whose worker dies; each lost     *)
(* execution buys at most one more.                                        *)
AttemptBudget ==
  overruns = 0 =>
    \A j \in Job : row[j].attempts <= MaxAttempts + crashes + dbErrors

(* enqueueJob "suppresses singleton collisions cleanly"                    *)
(* (JobQueueService.ts:136), by looking before it inserts.  What is left   *)
(* of that: its INSERT runs into the index, and the call throws, only on a *)
(* row that was inserted after both SELECTs.  A row they have seen settled *)
(* does not come back in between, through any crash, retry or recovery;    *)
(* replays, a completeJob in doubt and a lapsed lease may bring one back.  *)
CollisionsRaced ==
  replays = 0 /\ dbErrors = 0 /\ overruns = 0 =>
    \A c \in enqueuing :
      c.pc = "inserting" /\ ~SingletonIndexOK(Inserted(c)) =>
        \E i \in Job \ c.known : IsLive(row[i]) /\ SameSingleton(i, c.job)

(* failJob is never kept from its retry by a newer job with the key of its *)
(* own: only if the job had been completed behind its back (a completeJob  *)
(* in doubt) can the UPDATE run into the index and throw.                  *)
RetryAdmitted ==
  overruns = 0 =>
    \A e \in executing :
      e.pc = "recording" /\ row[e.job].status # "completed" =>
        SingletonIndexOK([row EXCEPT ![e.job] = Retried(@, Backoff(e.tried))])

(* A completed job never runs again and a dead-lettered one only after a   *)
(* replay, which restarts its attempts: late writers do not resurrect rows *)
(* as long as nothing outlived its lease and no completeJob was in doubt.  *)
TerminalStable ==
  [][\A j \in Job :
       overruns = 0 /\ dbErrors = 0 =>
         /\ row[j].status = "completed" => row'[j].status = "completed"
         /\ row[j].status = "failed" /\ row'[j].status # "failed" =>
              row'[j].status = "pending" /\ row'[j].attempts = 0]_vars

(* Every enqueued job is eventually completed or dead-lettered, through    *)
(* any finite number of crashes, failing statements and overrun leases.    *)
Settled(j) == row[j].status \in {"completed", "failed"}
EverySettles == \A j \in Job : row[j].status = "pending" ~> Settled(j)

-----------------------------------------------------------------------------
(* The inductive invariant behind the safety properties. *)

(* What the two unique indexes keep: one live row per singleton key, and   *)
(* one row for ever per idempotency key.  The rest builds on it.           *)
SingletonExclusive == SingletonIndexOK(row)
IdempotencyUnique ==
  \A i, j \in Job :
    i # j /\ Present(i) /\ Present(j) => ~SameIdempotency(i, j)

(* A call of enqueueJob owns a row id nobody has inserted.                 *)
CallsFresh ==
  /\ \A c \in enqueuing : ~Present(c.job)
  /\ \A c, d \in enqueuing : c.job = d.job => c = d

RunsPresent == \A e \in executing : Present(e.job)

OneRunPerJob == \A e, f \in executing : e.job = f.job => e = f

RunLocked(e) ==
  \/ /\ row[e.job].status = "active"
     /\ row[e.job].leaseIn > 0
     /\ row[e.job].lockedBy = e.worker
  \/ row[e.job].status = "completed" /\ e.pc # "handling" /\ dbErrors > 0

(* What failJob has read is still what the row says.                       *)
ReadIsFresh(e) ==
  /\ row[e.job].attempts > 0
  /\ e.pc = "recording" => e.tried = row[e.job].attempts

Budget == MaxAttempts + crashes + dbErrors

(* A row nobody executes any more has at least one execution left to it.   *)
WithinBudget(j) ==
  /\ row[j].attempts <= Budget
  /\ row[j].status = "pending" => row[j].attempts < Budget
  /\ row[j].status = "active" /\ (\A e \in executing : e.job # j)
       => row[j].attempts < Budget
  /\ row[j].status = "failed" => row[j].attempts >= MaxAttempts

Guarded ==
  overruns = 0 =>
    /\ OneRunPerJob
    /\ \A e \in executing : RunLocked(e) /\ ReadIsFresh(e)
    /\ \A j \in Job : WithinBudget(j)

(* As long as nothing overran its lease, a call of processJob owns its row *)
(* (one call per job, lease in its name, attempts as it read them), and a  *)
(* row without a call is below its attempt budget.                         *)
IndInv ==
  /\ TypeOK
  /\ SingletonExclusive
  /\ IdempotencyUnique
  /\ CallsFresh
  /\ RunsPresent
  /\ Guarded

(* A row that a call of enqueueJob has seen settled stays settled.         *)
KnownStaySettled ==
  replays = 0 /\ dbErrors = 0 /\ overruns = 0 =>
    \A c \in enqueuing : \A i \in c.known : row[i].status \in {"completed", "failed"}

(* The singleton index, which throws where the service does not look, is   *)
(* met by a racing INSERT alone.                                           *)
KeysHonoured == CollisionsRaced /\ RetryAdmitted

(* No job is processed twice at a time, and whoever processes one holds an *)
(* unexpired lease in its worker's name.                                   *)
LeasedWork == ExclusiveWork /\ LeaseHeld

(* A dead letter has used up its attempts; every attempt beyond them has a *)
(* crash or a failing statement to account for it.                         *)
AttemptsPaid == DeadLetterExhausted /\ AttemptBudget
=============================================================================
