--------------------------- MODULE JobQueueProofs ---------------------------
(***************************************************************************)
(* Proofs about JobQueue, for every value of its constants.  IndInv is     *)
(* inductive; the safety properties are consequences of it.  The second    *)
(* half shows that the queue implements JobContract when no call of        *)
(* processJob outlives its lease: each action is mapped to one action of   *)
(* the contract or to a stutter, under the inductive invariant.            *)
(***************************************************************************)
EXTENDS JobQueueRefines, TLAPS

-----------------------------------------------------------------------------
(* Types of the values the actions write. *)

(* A backoff is a number of ticks, because the powers of two up to         *)
(* max_attempts are natural numbers.                                       *)
LEMMA BackoffType ==
  ASSUME NEW a \in Nat, a < MaxAttempts
  PROVE  Backoff(a) \in Nat
<1>1. a \in 0..MaxAttempts
  BY AttemptsAssumption
<1>2. 2^a \in Nat
  BY <1>1, PowerAssumption
<1>3. BackoffUnit \in Nat /\ BackoffCap \in Nat
  BY TimeAssumption
<1> DEFINE p == 2^a
<1>4. p \in Nat
  BY <1>2
<1> HIDE DEF p
<1>5. p * BackoffUnit \in Nat
  BY <1>3, <1>4
<1>6. QED
  BY <1>3, <1>5 DEF Backoff, p

(* The empty row is a row. *)
LEMMA NoRowType == NoRow \in Row
BY DEF NoRow, Row, Status

(* The row updates keep a row a row, set the status and keep the attempts. *)
LEMMA RowUpdates ==
  ASSUME NEW r \in Row
  PROVE  /\ Completed(r) \in Row
         /\ Completed(r).status = "completed" /\ Completed(r).attempts = r.attempts
         /\ DeadLettered(r) \in Row
         /\ DeadLettered(r).status = "failed" /\ DeadLettered(r).attempts = r.attempts
         /\ [Unlock(r) EXCEPT !.status = "pending"] \in Row
         /\ [Unlock(r) EXCEPT !.status = "pending"].status = "pending"
         /\ [Unlock(r) EXCEPT !.status = "pending"].attempts = r.attempts
BY DEF Row, Status, Unlock, Completed, DeadLettered

(* So does a retry, which also sets run_at.                                *)
LEMMA RetryUpdate ==
  ASSUME NEW r \in Row, NEW d \in Nat
  PROVE  /\ Retried(r, d) \in Row
         /\ Retried(r, d).status = "pending" /\ Retried(r, d).attempts = r.attempts
BY DEF Row, Status, Unlock, Retried

(* Inserted and replayed rows are pending rows without attempts.           *)
LEMMA NewRows ==
  ASSUME NEW d \in Nat
  PROVE  /\ [NoRow EXCEPT !.status = "pending"] \in Row
         /\ [NoRow EXCEPT !.status = "pending"].status = "pending"
         /\ [NoRow EXCEPT !.status = "pending"].attempts = 0
         /\ [NoRow EXCEPT !.status = "pending", !.runIn = d] \in Row
         /\ [NoRow EXCEPT !.status = "pending", !.runIn = d].status = "pending"
         /\ [NoRow EXCEPT !.status = "pending", !.runIn = d].attempts = 0
BY NoRowType DEF Row, Status, NoRow

(* The keys' relations are symmetric. *)
LEMMA KeysSymmetric ==
  ASSUME NEW i, NEW j
  PROVE  /\ SameSingleton(i, j) => SameSingleton(j, i)
         /\ SameIdempotency(i, j) => SameIdempotency(j, i)
BY DEF SameSingleton, SameIdempotency

(* An empty table satisfies every part of the invariant.                   *)
LEMMA InitInv == Init => IndInv
<1> SUFFICES ASSUME Init PROVE IndInv
  OBVIOUS
<1>1. TypeOK
  BY DEF Init, TypeOK, Row, NoRow, Status
<1>2. \A j \in Job : row[j] = NoRow
  BY DEF Init
<1>3. SingletonExclusive /\ IdempotencyUnique
  BY <1>2 DEF SingletonExclusive, SingletonIndexOK, IdempotencyUnique, IsLive, Present, NoRow
<1>4. CallsFresh /\ RunsPresent
  BY DEF Init, CallsFresh, RunsPresent
<1>5. Guarded
  <2>1. MaxAttempts \in Nat /\ MaxAttempts > 0 /\ Budget = MaxAttempts
    BY AttemptsAssumption DEF Init, Budget
  <2> QED
    BY <1>2, <2>1 DEF Init, Guarded, OneRunPerJob, WithinBudget, NoRow
<1> QED
  BY <1>1, <1>3, <1>4, <1>5 DEF IndInv

-----------------------------------------------------------------------------
(* Preservation, one lemma per operation. *)

(* Steps of enqueueJob that do not touch the table.                        *)
LEMMA EnqueueNoWriteInv ==
  ASSUME IndInv,
         \/ \E q \in Enqueuer, j \in Job, d \in Delays : EnqueueCheck(q, j, d)
         \/ \E c \in enqueuing : EnqueueRecheck(c) \/ EnqueueAbandoned(c)
  PROVE  IndInv'
<1> USE DEF IndInv
<1>1. UNCHANGED <<row, executing, runs, crashes, dbErrors, overruns, replays>>
  BY DEF EnqueueCheck, EnqueueRecheck, EnqueueAbandoned, faults
<1>2. TypeOK' /\ CallsFresh'
  <2>a. \A j \in Job : Known(j) \in SUBSET Job
    BY DEF Known
  <2>1. CASE \E q \in Enqueuer, j \in Job, d \in Delays : EnqueueCheck(q, j, d)
    <3>1. PICK q \in Enqueuer, j \in Job, d \in Delays : EnqueueCheck(q, j, d)
      BY <2>1
    <3>2. PICK new \in Call : new.job = j /\ enqueuing' = enqueuing \cup {new}
      <4>1. PICK pc \in {"checked", "inserting"} :
              enqueuing' = enqueuing \cup {[by |-> q, pc |-> pc, job |-> j, delay |-> d,
                                           known |-> Known(j)]}
        BY <3>1 DEF EnqueueCheck
      <4> DEFINE new == [by |-> q, pc |-> pc, job |-> j, delay |-> d, known |-> Known(j)]
      <4>2. d \in Nat /\ Known(j) \in SUBSET Job
        BY <2>a, TimeAssumption
      <4>3. new \in Call /\ new.job = j
        BY <4>2 DEF Call
      <4> QED BY <4>1, <4>3
    <3>3. ~Present(j) /\ \A c \in enqueuing : c.job # j
      BY <3>1 DEF EnqueueCheck
    <3> QED BY <1>1, <3>2, <3>3 DEF TypeOK, CallsFresh, Present
  <2>2. CASE \E c \in enqueuing : EnqueueRecheck(c)
    <3>1. PICK c \in enqueuing : EnqueueRecheck(c)
      BY <2>2
    <3>2. PICK new \in Call : new.job = c.job /\ enqueuing' \subseteq (enqueuing \ {c}) \cup {new}
      <4>1. c \in Call
        BY DEF TypeOK
      <4>2. [c EXCEPT !.pc = "inserting", !.known = Known(c.job)] \in Call
        BY <4>1, <2>a DEF Call
      <4> QED BY <3>1, <4>1, <4>2 DEF EnqueueRecheck, Call
    <3> QED BY <1>1, <3>2 DEF TypeOK, CallsFresh, Present
  <2>3. CASE \E c \in enqueuing : EnqueueAbandoned(c)
    BY <2>3, <1>1 DEF EnqueueAbandoned, TypeOK, Call, CallsFresh, Present
  <2> QED
    BY <2>1, <2>2, <2>3
<1>3. SingletonExclusive' /\ IdempotencyUnique' /\ RunsPresent'
  BY <1>1 DEF SingletonExclusive, SingletonIndexOK, IdempotencyUnique, RunsPresent, Present
<1>4. Guarded'
  BY <1>1 DEF Guarded, OneRunPerJob, RunLocked, ReadIsFresh, WithinBudget, Budget
<1> QED
  BY <1>2, <1>3, <1>4

(* A new row has the attempts and the run of nobody. *)
LEMMA EnqueueInsertInv ==
  ASSUME IndInv, NEW c \in enqueuing, EnqueueInsert(c)
  PROVE  IndInv'
<1> USE DEF IndInv
<1> DEFINE new == [NoRow EXCEPT !.status = "pending", !.runIn = c.delay]
<1>1. c.job \in Job /\ c.delay \in Nat
  BY DEF TypeOK, Call
<1>2. new \in Row /\ new.status = "pending" /\ new.attempts = 0
  BY <1>1, NewRows
<1> HIDE DEF new
<1>3. UNCHANGED <<executing, runs, crashes, dbErrors, overruns, replays>>
  BY DEF EnqueueInsert, faults
<1>4. enqueuing' = enqueuing \ {c}
  BY DEF EnqueueInsert
<1>5. CASE InsertRefused(c)
  <2>1. row' = row
    BY <1>5 DEF EnqueueInsert
  <2> QED
    BY <2>1, <1>3, <1>4
    DEF TypeOK, SingletonExclusive, SingletonIndexOK, IdempotencyUnique, Present,
        CallsFresh, RunsPresent, Guarded, OneRunPerJob, RunLocked, ReadIsFresh,
        WithinBudget, Budget
<1>6. CASE ~InsertRefused(c)
  <2>1. row' = [row EXCEPT ![c.job] = new]
    BY <1>6 DEF EnqueueInsert, Inserted, new
  <2>2. ~Present(c.job)
    BY DEF CallsFresh
  <2>3. TypeOK'
    BY <2>1, <1>1, <1>2, <1>3, <1>4 DEF TypeOK
  <2>4. \A e \in executing : e.job # c.job
    BY <2>2 DEF RunsPresent
  <2>5. SingletonExclusive'
    BY <1>6 DEF EnqueueInsert, SingletonExclusive, InsertRefused
  <2>6. IdempotencyUnique'
    BY <2>1, <1>1, <1>2, <1>6, KeysSymmetric
    DEF TypeOK, IdempotencyUnique, InsertRefused, Present
  <2>7. CallsFresh' /\ RunsPresent'
    BY <2>1, <1>1, <1>2, <1>3, <1>4, <2>4 DEF TypeOK, Call, Execution, CallsFresh, RunsPresent, Present
  <2>8. Guarded'
    <3> SUFFICES ASSUME overruns = 0
                 PROVE  /\ OneRunPerJob'
                        /\ \A e \in executing : RunLocked(e)' /\ ReadIsFresh(e)'
                        /\ \A j \in Job : WithinBudget(j)'
      BY <1>3 DEF Guarded
    <3>1. OneRunPerJob'
      BY <1>3 DEF Guarded, OneRunPerJob
    <3>2. ASSUME NEW e \in executing PROVE RunLocked(e)' /\ ReadIsFresh(e)'
      <4>1. row'[e.job] = row[e.job]
        BY <2>1, <2>4, <1>1 DEF TypeOK, Execution
      <4> QED
        BY <4>1, <1>3 DEF Guarded, RunLocked, ReadIsFresh
    <3>3. ASSUME NEW j \in Job PROVE WithinBudget(j)'
      <4>1. WithinBudget(j) /\ Budget \in Nat /\ 0 < Budget /\ Budget' = Budget
        BY <1>3, AttemptsAssumption DEF Guarded, Budget, TypeOK
      <4>2. row'[j] = IF j = c.job THEN new ELSE row[j]
        BY <2>1, <1>1 DEF TypeOK
      <4> QED
        BY <4>1, <4>2, <1>2, <1>3 DEF WithinBudget
    <3> QED
      BY <3>1, <3>2, <3>3
  <2> QED
    BY <2>3, <2>5, <2>6, <2>7, <2>8
<1> QED
  BY <1>5, <1>6

(* Claiming: only pending rows are claimed, and no call of processJob has  *)
(* a pending row while nothing overran its lease.                          *)
LEMMA ClaimJobsInv ==
  ASSUME IndInv, NEW w \in Worker, NEW S \in SUBSET Job, ClaimJobs(w, S)
  PROVE  IndInv'
<1> USE DEF IndInv
<1> DEFINE run(j) == [worker |-> w, job |-> j, run |-> runs[j] + 1,
                      pc |-> "handling", tried |-> 0]
           claimed(j) == Claimed(row[j], w)
<1>1. executing' = executing \cup {run(j) : j \in S}
  BY DEF ClaimJobs
<1>2. UNCHANGED <<enqueuing, crashes, dbErrors, overruns, replays>>
  BY DEF ClaimJobs, faults
<1>3. \A j \in Job : row'[j] = IF j \in S THEN claimed(j) ELSE row[j]
  BY DEF ClaimJobs
<1>4. \A j \in Job : /\ claimed(j) \in Row
                     /\ claimed(j).status = "active"
                     /\ claimed(j).attempts = row[j].attempts + 1
                     /\ claimed(j).leaseIn = Lease
                     /\ claimed(j).lockedBy = w
  <2> TAKE j \in Job
  <2>1. row[j] \in Row /\ row[j].attempts + 1 \in Nat /\ Lease \in Nat
    BY TimeAssumption DEF TypeOK, Row
  <2> QED
    BY <2>1 DEF Row, Status, Claimed
<1> HIDE DEF claimed
<1>5. \A j \in S : row[j].status = "pending"
  BY DEF ClaimJobs, Due
<1>6. \A j \in S : run(j) \in Execution /\ run(j).job = j /\ run(j).worker = w
                   /\ run(j).pc = "handling"
  BY DEF Execution, TypeOK
<1> HIDE DEF run
<1>7. TypeOK'
  <2>1. row' \in [Job -> Row]
    BY <1>4 DEF ClaimJobs, TypeOK, claimed
  <2>2. runs' \in [Job -> Nat]
    <3>1. runs' = [j \in Job |-> IF j \in S THEN runs[j] + 1 ELSE runs[j]]
      BY DEF ClaimJobs
    <3>2. \A j \in Job : runs[j] \in Nat /\ runs[j] + 1 \in Nat
      BY DEF TypeOK
    <3> QED
      BY <3>1, <3>2
  <2>3. executing' \subseteq Execution
    BY <1>1, <1>6 DEF TypeOK
  <2> QED
    BY <2>1, <2>2, <2>3, <1>2 DEF TypeOK
<1>8. SingletonExclusive' /\ IdempotencyUnique' /\ CallsFresh'
  BY <1>2, <1>3, <1>4, <1>5
  DEF SingletonExclusive, SingletonIndexOK, IsLive, IdempotencyUnique, CallsFresh,
      Present, TypeOK, Call
<1>9. RunsPresent'
  BY <1>1, <1>3, <1>4, <1>6 DEF RunsPresent, Present, TypeOK, Execution
<1>10. Guarded'
  <2> SUFFICES ASSUME overruns = 0
               PROVE  /\ OneRunPerJob'
                      /\ \A e \in executing' : RunLocked(e)' /\ ReadIsFresh(e)'
                      /\ \A j \in Job : WithinBudget(j)'
    BY <1>2 DEF Guarded
  <2>1. \A e \in executing : e.job \notin S /\ e.job \in Job
    BY <1>5 DEF Guarded, RunLocked, TypeOK, Execution
  <2>2. OneRunPerJob'
    BY <1>1, <1>6, <2>1 DEF Guarded, OneRunPerJob
  <2>3. ASSUME NEW e \in executing' PROVE RunLocked(e)' /\ ReadIsFresh(e)'
    <3>1. CASE e \in executing
      BY <3>1, <2>1, <1>2, <1>3 DEF Guarded, RunLocked, ReadIsFresh
    <3>2. CASE e \in {run(j) : j \in S}
      BY <3>2, <1>3, <1>4, <1>6, TimeAssumption DEF RunLocked, ReadIsFresh, TypeOK, Row
    <3> QED
      BY <3>1, <3>2, <1>1
  <2>4. ASSUME NEW j \in Job PROVE WithinBudget(j)'
    <3>1. WithinBudget(j) /\ Budget \in Nat /\ Budget' = Budget /\ row[j].attempts \in Nat
      BY <1>2, AttemptsAssumption DEF Guarded, Budget, TypeOK, Row
    <3>2. CASE j \in S
      <4>1. run(j) \in executing' /\ run(j).job = j
        BY <3>2, <1>1, <1>6
      <4> QED
        BY <3>1, <3>2, <4>1, <1>3, <1>4, <1>5 DEF WithinBudget
    <3>3. CASE j \notin S
      BY <3>1, <3>3, <1>1, <1>3 DEF WithinBudget
    <3> QED
      BY <3>2, <3>3
  <2> QED
    BY <2>2, <2>3, <2>4
<1> QED
  BY <1>7, <1>8, <1>9, <1>10

(* What a step of one call e does: e ends, or goes on as f, and the rows   *)
(* other than its own stay.  The operations of processJob have this shape. *)
RunStep(e, goesOn) ==
  /\ executing' = (executing \ {e}) \cup goesOn
  /\ \A f \in goesOn : f \in Execution /\ f.job = e.job /\ f.worker = e.worker
  /\ \A f, g \in goesOn : f = g
  /\ \A j \in Job \ {e.job} : row'[j] = row[j]
  /\ row'[e.job].status # "absent"
  /\ row' \in [Job -> Row]
  /\ UNCHANGED <<enqueuing, runs, overruns, replays>>
  /\ crashes' = crashes /\ dbErrors' \in Nat /\ dbErrors' >= dbErrors

(* The parts of the invariant that such a step keeps in any case, when the *)
(* row does not come back to life.                                         *)
LEMMA RunStepStructure ==
  ASSUME IndInv, NEW e \in executing, NEW goesOn, RunStep(e, goesOn),
         IsLive(row'[e.job]) => IsLive(row[e.job]) \/ SingletonIndexOK(row')
  PROVE  TypeOK' /\ SingletonExclusive' /\ IdempotencyUnique' /\ CallsFresh' /\ RunsPresent'
<1> USE DEF IndInv, RunStep
<1>1. e.job \in Job /\ Present(e.job)
  BY DEF TypeOK, Execution, RunsPresent
<1>2. TypeOK'
  BY DEF TypeOK
<1>3. \A j \in Job : Present(j)' <=> Present(j)
  BY <1>1 DEF Present
<1>4. SingletonExclusive'
  BY <1>1 DEF SingletonExclusive, SingletonIndexOK
<1>5. IdempotencyUnique' /\ CallsFresh'
  BY <1>3 DEF IdempotencyUnique, CallsFresh, TypeOK, Call
<1>6. RunsPresent'
  BY <1>1, <1>3 DEF RunsPresent, TypeOK, Execution
<1> QED
  BY <1>2, <1>4, <1>5, <1>6

(* The guarded part, when the call's own row is accounted for.             *)
LEMMA RunStepGuarded ==
  ASSUME IndInv, NEW e \in executing, NEW goesOn, RunStep(e, goesOn),
         overruns = 0 =>
           /\ \A f \in goesOn : RunLocked(f)' /\ ReadIsFresh(f)'
           /\ row'[e.job].attempts <= Budget
           /\ row'[e.job].status = "pending" => row'[e.job].attempts < Budget
           /\ row'[e.job].status = "active" /\ goesOn = {}
                => row'[e.job].attempts < Budget'
           /\ row'[e.job].status = "failed" => row'[e.job].attempts >= MaxAttempts
  PROVE  Guarded'
<1> USE DEF IndInv, RunStep
<1> SUFFICES ASSUME overruns = 0
             PROVE  /\ OneRunPerJob'
                    /\ \A f \in executing' : RunLocked(f)' /\ ReadIsFresh(f)'
                    /\ \A j \in Job : WithinBudget(j)'
  BY DEF Guarded
<1>1. e.job \in Job
  BY DEF TypeOK, Execution
<1>2. \A f \in executing \ {e} : f.job \in Job \ {e.job}
  BY DEF Guarded, OneRunPerJob, TypeOK, Execution
<1>3. OneRunPerJob'
  BY <1>2 DEF Guarded, OneRunPerJob
<1>4. ASSUME NEW f \in executing' PROVE RunLocked(f)' /\ ReadIsFresh(f)'
  <2>1. CASE f \in goesOn
    BY <2>1
  <2>2. CASE f \in executing \ {e}
    <3>1. row'[f.job] = row[f.job]
      BY <2>2, <1>2
    <3>2. RunLocked(f) /\ ReadIsFresh(f)
      BY <2>2 DEF Guarded
    <3>3. dbErrors > 0 => dbErrors' > 0
      BY DEF TypeOK
    <3> QED
      BY <3>1, <3>2, <3>3 DEF RunLocked, ReadIsFresh
  <2> QED
    BY <2>1, <2>2
<1>5. Budget \in Nat /\ Budget' \in Nat /\ Budget <= Budget'
  <2>1. /\ MaxAttempts \in Nat /\ crashes \in Nat /\ dbErrors \in Nat
        /\ crashes' = crashes /\ dbErrors' \in Nat /\ dbErrors' >= dbErrors
    BY AttemptsAssumption DEF TypeOK
  <2> QED
    BY <2>1 DEF Budget
<1>6. ASSUME NEW j \in Job PROVE WithinBudget(j)'
  <2>1. row[j].attempts \in Nat /\ row'[j].attempts \in Nat
    BY DEF TypeOK, Row
  <2>2. CASE j = e.job
    <3>1. CASE goesOn = {}
      BY <2>1, <2>2, <3>1, <1>5 DEF WithinBudget
    <3>2. CASE goesOn # {}
      <4>1. \E f \in executing' : f.job = j
        BY <2>2, <3>2
      <4> QED
        BY <2>1, <2>2, <4>1, <1>5 DEF WithinBudget
    <3> QED
      BY <3>1, <3>2
  <2>3. CASE j # e.job
    <3>1. row'[j] = row[j] /\ WithinBudget(j)
      BY <2>3 DEF Guarded
    <3>2. (\A f \in executing' : f.job # j) => (\A f \in executing : f.job # j)
      BY <2>3
    <3> QED
      BY <2>1, <3>1, <3>2, <1>5 DEF WithinBudget
  <2> QED
    BY <2>2, <2>3
<1> QED
  BY <1>3, <1>4, <1>6

(* Marking one's row completed or dead-lettered takes it out of the index. *)
LEMMA CompleteJobInv ==
  ASSUME IndInv, NEW e \in executing, CompleteJob(e)
  PROVE  IndInv'
<1> USE DEF IndInv
<1>1. e.job \in Job /\ row[e.job] \in Row /\ row' = [row EXCEPT ![e.job] = Completed(@)]
  BY DEF TypeOK, Execution, CompleteJob
<1>2. /\ row'[e.job].status = "completed" /\ row'[e.job].attempts = row[e.job].attempts
      /\ row' \in [Job -> Row]
  BY <1>1, RowUpdates DEF TypeOK
<1>3. RunStep(e, {})
  BY <1>1, <1>2 DEF CompleteJob, RunStep, TypeOK, faults
<1>4. overruns = 0 => row[e.job].attempts <= Budget
  BY <1>1 DEF Guarded, WithinBudget
<1>5. Guarded'
  BY <1>2, <1>3, <1>4, RunStepGuarded
<1> QED
  BY <1>2, <1>3, <1>5, RunStepStructure DEF IsLive

(* A completeJob that throws leaves its call in failJob, with the row      *)
(* either still locked or already completed.                               *)
LEMMA CompleteJobErrorInv ==
  ASSUME IndInv, NEW e \in executing, CompleteJobError(e)
  PROVE  IndInv'
<1> USE DEF IndInv
<1> DEFINE f == [e EXCEPT !.pc = "failing"]
<1>1. e.job \in Job /\ row[e.job] \in Row /\ e \in Execution
  BY DEF TypeOK, Execution
<1>2. f \in Execution /\ f.job = e.job /\ f.worker = e.worker /\ f.pc = "failing"
  BY <1>1 DEF Execution
<1> HIDE DEF f
<1>3. row' = row \/ row' = [row EXCEPT ![e.job] = Completed(@)]
  BY DEF CompleteJobError
<1>4. /\ row' \in [Job -> Row] /\ row'[e.job].attempts = row[e.job].attempts
      /\ row'[e.job].status # "absent"
      /\ row'[e.job] = row[e.job] \/ row'[e.job].status = "completed"
      /\ \A j \in Job \ {e.job} : row'[j] = row[j]
  <2>1. /\ Completed(row[e.job]) \in Row
        /\ Completed(row[e.job]).status = "completed"
        /\ Completed(row[e.job]).attempts = row[e.job].attempts
    BY <1>1, RowUpdates
  <2>2. CASE row' = row
    BY <1>1, <2>2 DEF TypeOK, RunsPresent, Present
  <2>3. CASE row' = [row EXCEPT ![e.job] = Completed(@)]
    <3>1. row'[e.job] = Completed(row[e.job]) /\ row' \in [Job -> Row]
      BY <1>1, <2>1, <2>3 DEF TypeOK
    <3>2. \A j \in Job \ {e.job} : row'[j] = row[j]
      BY <2>3 DEF TypeOK
    <3> QED
      BY <2>1, <3>1, <3>2
  <2> QED
    BY <1>3, <2>2, <2>3
<1>5. RunStep(e, {f})
  BY <1>2, <1>4 DEF CompleteJobError, RunStep, TypeOK, f
<1>6. ASSUME overruns = 0
      PROVE  /\ RunLocked(f)' /\ ReadIsFresh(f)'
             /\ row'[e.job].attempts <= Budget
             /\ row'[e.job].status \notin {"pending", "failed"}
  <2>1. RunLocked(e) /\ ReadIsFresh(e) /\ WithinBudget(e.job)
    BY <1>1, <1>6 DEF Guarded
  <2>2. dbErrors' > 0
    BY DEF CompleteJobError, TypeOK
  <2> QED
    BY <2>1, <2>2, <1>2, <1>4 DEF RunLocked, ReadIsFresh, WithinBudget
<1>7. Guarded'
  BY <1>5, <1>6, RunStepGuarded
<1> QED
  BY <1>4, <1>5, <1>7, RunStepStructure DEF IsLive

(* The steps of a call that write no row.                                  *)
LEMMA RunGoesOnInv ==
  ASSUME IndInv, NEW e \in executing, NEW f \in Execution,
         f.job = e.job, f.worker = e.worker, f.pc # "handling",
         f.pc = "recording" => f.tried = AttemptsRead(row[e.job]),
         executing' = (executing \ {e}) \cup {f},
         UNCHANGED <<row, enqueuing, runs, faults, replays>>
  PROVE  IndInv'
<1> USE DEF IndInv
<1>1. e.job \in Job /\ row[e.job] \in Row /\ e \in Execution
  BY DEF TypeOK, Execution
<1>2. RunStep(e, {f})
  BY <1>1 DEF RunStep, TypeOK, RunsPresent, Present, faults
<1>3. ASSUME overruns = 0
      PROVE  /\ RunLocked(f)' /\ ReadIsFresh(f)'
             /\ row'[e.job].attempts <= Budget
             /\ row'[e.job].status \notin {"pending", "failed"}
  <2>1. RunLocked(e) /\ ReadIsFresh(e) /\ WithinBudget(e.job)
    BY <1>1, <1>3 DEF Guarded
  <2>2. row[e.job].attempts > 0 => AttemptsRead(row[e.job]) = row[e.job].attempts
    BY <1>1 DEF AttemptsRead, Row
  <2>3. UNCHANGED <<row, dbErrors>>
    BY DEF faults
  <2> QED
    BY <2>1, <2>2, <2>3 DEF RunLocked, ReadIsFresh, WithinBudget
<1>4. Guarded'
  BY <1>2, <1>3, RunStepGuarded
<1> QED
  BY <1>2, <1>4, RunStepStructure DEF IsLive

LEMMA HandlerThrowsInv ==
  ASSUME IndInv, NEW e \in executing, HandlerThrows(e)
  PROVE  IndInv'
<1>1. e \in Execution
  BY DEF IndInv, TypeOK
<1> DEFINE f == [e EXCEPT !.pc = "failing"]
<1>2. f \in Execution /\ f.job = e.job /\ f.worker = e.worker /\ f.pc = "failing"
  BY <1>1 DEF Execution
<1>3. executing' = (executing \ {e}) \cup {f} /\ UNCHANGED <<row, enqueuing, runs, faults, replays>>
  BY DEF HandlerThrows
<1> HIDE DEF f
<1> QED
  BY <1>2, <1>3, RunGoesOnInv

LEMMA FailJobReadInv ==
  ASSUME IndInv, NEW e \in executing, FailJobRead(e)
  PROVE  IndInv'
<1>1. e \in Execution /\ AttemptsRead(row[e.job]) \in Nat
  BY DEF IndInv, TypeOK, Execution, AttemptsRead, Row
<1> DEFINE f == [e EXCEPT !.pc = "recording", !.tried = AttemptsRead(row[e.job])]
<1>2. /\ f \in Execution /\ f.job = e.job /\ f.worker = e.worker
      /\ f.pc = "recording" /\ f.tried = AttemptsRead(row[e.job])
  BY <1>1 DEF Execution
<1>3. executing' = (executing \ {e}) \cup {f} /\ UNCHANGED <<row, enqueuing, runs, faults, replays>>
  BY DEF FailJobRead
<1> HIDE DEF f
<1> QED
  BY <1>2, <1>3, RunGoesOnInv

(* failJob decides on what it read.  While nothing overran its lease that  *)
(* is still what the row says, so a retry is below max_attempts and a      *)
(* dead-lettered row has reached it.                                       *)
LEMMA FailJobWriteInv ==
  ASSUME IndInv, NEW e \in executing, FailJobWrite(e)
  PROVE  IndInv'
<1> USE DEF IndInv
<1>1. /\ e.job \in Job /\ row[e.job] \in Row /\ e \in Execution /\ e.tried \in Nat
      /\ MaxAttempts \in Nat /\ row[e.job].attempts \in Nat
  BY AttemptsAssumption DEF TypeOK, Execution, Row
<1>2. UNCHANGED <<enqueuing, runs, crashes, dbErrors, overruns, replays>>
  BY DEF FailJobWrite, faults
<1>3. executing' = executing \ {e} /\ e.pc = "recording"
  BY DEF FailJobWrite
<1>4. /\ row' \in [Job -> Row] /\ row'[e.job].attempts = row[e.job].attempts
      /\ \A j \in Job \ {e.job} : row'[j] = row[j]
      /\ \/ row'[e.job].status = "pending" /\ e.tried < MaxAttempts /\ SingletonIndexOK(row')
         \/ row' = row /\ e.tried < MaxAttempts
         \/ row'[e.job].status = "failed" /\ e.tried >= MaxAttempts
  <2>1. CASE e.tried < MaxAttempts
    <3>1. PICK jitter \in 0..Jitter :
            LET retry == [row EXCEPT ![e.job] = Retried(@, Backoff(e.tried) + jitter)]
            IN row' = IF SingletonIndexOK(retry) THEN retry ELSE row
      BY <2>1 DEF FailJobWrite, RetriesLeft
    <3> DEFINE d == Backoff(e.tried) + jitter
               retry == [row EXCEPT ![e.job] = Retried(@, d)]
    <3>2. d \in Nat
      BY <1>1, <2>1, BackoffType, TimeAssumption
    <3> HIDE DEF d
    <3>3. /\ retry \in [Job -> Row] /\ retry[e.job].status = "pending"
          /\ retry[e.job].attempts = row[e.job].attempts
          /\ \A j \in Job \ {e.job} : retry[j] = row[j]
      BY <1>1, <3>2, RetryUpdate DEF TypeOK
    <3>4. row' = IF SingletonIndexOK(retry) THEN retry ELSE row
      BY <3>1 DEF d
    <3> HIDE DEF retry
    <3> QED
      BY <2>1, <3>3, <3>4 DEF TypeOK
  <2>2. CASE ~(e.tried < MaxAttempts)
    <3>1. row' = [row EXCEPT ![e.job] = DeadLettered(@)]
      BY <2>2 DEF FailJobWrite, RetriesLeft
    <3>2. /\ DeadLettered(row[e.job]) \in Row
          /\ DeadLettered(row[e.job]).status = "failed"
          /\ DeadLettered(row[e.job]).attempts = row[e.job].attempts
      BY <1>1, RowUpdates
    <3>3. row'[e.job] = DeadLettered(row[e.job]) /\ row' \in [Job -> Row]
      BY <1>1, <3>1, <3>2 DEF TypeOK
    <3>4. \A j \in Job \ {e.job} : row'[j] = row[j]
      BY <3>1 DEF TypeOK
    <3>5. e.tried >= MaxAttempts
      BY <1>1, <2>2
    <3> QED
      BY <3>2, <3>3, <3>4, <3>5
  <2> QED
    BY <2>1, <2>2
<1>5. RunStep(e, {})
  BY <1>1, <1>2, <1>3, <1>4 DEF RunStep, TypeOK, RunsPresent, Present
<1>6. ASSUME overruns = 0
      PROVE  /\ row'[e.job].attempts <= Budget
             /\ row'[e.job].status = "pending" => row'[e.job].attempts < Budget
             /\ row'[e.job].status = "active" => row'[e.job].attempts < Budget
             /\ row'[e.job].status = "failed" => row'[e.job].attempts >= MaxAttempts
  <2>1. RunLocked(e) /\ ReadIsFresh(e) /\ WithinBudget(e.job)
    BY <1>1, <1>6 DEF Guarded
  <2>2. e.tried = row[e.job].attempts
    BY <1>3, <2>1 DEF ReadIsFresh
  <2>3. Budget \in Nat /\ MaxAttempts <= Budget
    BY <1>1 DEF Budget, TypeOK
  <2> QED
    BY <1>1, <1>4, <2>1, <2>2, <2>3 DEF WithinBudget, RunLocked
<1>7. Budget' = Budget
  BY <1>2 DEF Budget
<1>8. Guarded'
  BY <1>5, <1>6, <1>7, RunStepGuarded
<1> QED
  BY <1>4, <1>5, <1>8, RunStepStructure DEF IsLive

(* A failJob that throws leaves a row without a call, and an execution     *)
(* less in the budget that the failed statement added.                     *)
LEMMA FailJobErrorInv ==
  ASSUME IndInv, NEW e \in executing, FailJobError(e)
  PROVE  IndInv'
<1> USE DEF IndInv
<1>1. e.job \in Job /\ row[e.job] \in Row /\ row' = row
  BY DEF TypeOK, Execution, FailJobError
<1>2. RunStep(e, {})
  BY <1>1 DEF FailJobError, RunStep, TypeOK, RunsPresent, Present
<1>3. Budget' = Budget + 1 /\ Budget \in Nat
  BY AttemptsAssumption DEF FailJobError, Budget, TypeOK
<1>4. ASSUME overruns = 0
      PROVE  /\ row'[e.job].attempts <= Budget
             /\ row'[e.job].status \notin {"pending", "failed"}
             /\ row'[e.job].attempts < Budget'
  <2>1. RunLocked(e) /\ WithinBudget(e.job) /\ row[e.job].attempts \in Nat
    BY <1>1, <1>4 DEF Guarded, Row
  <2> QED
    BY <1>1, <1>3, <2>1 DEF RunLocked, WithinBudget
<1>5. Guarded'
  BY <1>2, <1>4, RunStepGuarded
<1> QED
  BY <1>1, <1>2, <1>5, RunStepStructure DEF IsLive

(* A stale row has no call of processJob while nothing overran its lease,  *)
(* so the row that goes back to pending is below its budget.               *)
LEMMA RecoverStaleJobsInv ==
  ASSUME IndInv, RecoverStaleJobs
  PROVE  IndInv'
<1> USE DEF IndInv
<1> DEFINE freed(j) == [Unlock(row[j]) EXCEPT !.status = "pending"]
<1>1. UNCHANGED <<executing, enqueuing, runs, crashes, dbErrors, overruns, replays>>
  BY DEF RecoverStaleJobs, faults
<1>2. \A j \in Job : /\ freed(j) \in Row /\ freed(j).status = "pending"
                     /\ freed(j).attempts = row[j].attempts
  BY RowUpdates DEF TypeOK
<1> HIDE DEF freed
<1>3. row' = [j \in Job |-> IF Stale(j) THEN freed(j) ELSE row[j]]
  BY DEF RecoverStaleJobs, freed
<1>4. TypeOK'
  BY <1>1, <1>2, <1>3 DEF TypeOK
<1>5. \A j \in Job : /\ IsLive(row'[j]) <=> IsLive(row[j])
                     /\ Present(j)' <=> Present(j)
  BY <1>2, <1>3 DEF IsLive, Present, Stale
<1>6. SingletonExclusive' /\ IdempotencyUnique'
  BY <1>5 DEF SingletonExclusive, SingletonIndexOK, IdempotencyUnique
<1>7. CallsFresh' /\ RunsPresent'
  BY <1>1, <1>5 DEF CallsFresh, RunsPresent, TypeOK, Call, Execution
<1>8. Guarded'
  <2> SUFFICES ASSUME overruns = 0
               PROVE  /\ OneRunPerJob'
                      /\ \A e \in executing : RunLocked(e)' /\ ReadIsFresh(e)'
                      /\ \A j \in Job : WithinBudget(j)'
    BY <1>1 DEF Guarded
  <2>1. ASSUME NEW e \in executing PROVE ~Stale(e.job) /\ row'[e.job] = row[e.job]
    BY <1>3 DEF Guarded, RunLocked, Stale, TypeOK, Execution
  <2>2. ASSUME NEW e \in executing PROVE RunLocked(e)' /\ ReadIsFresh(e)'
    BY <2>1, <1>1 DEF Guarded, RunLocked, ReadIsFresh
  <2>3. ASSUME NEW j \in Job PROVE WithinBudget(j)'
    <3>1. WithinBudget(j) /\ Budget' = Budget
      BY <1>1 DEF Guarded, Budget
    <3>2. CASE Stale(j)
      <4>1. row'[j].status = "pending" /\ row'[j].attempts = row[j].attempts
        BY <3>2, <1>2, <1>3
      <4>2. row[j].attempts < Budget
        BY <3>1, <3>2, <2>1 DEF WithinBudget, Stale
      <4> QED
        BY <3>1, <4>1, <4>2 DEF WithinBudget
    <3>3. CASE ~Stale(j)
      BY <3>1, <3>3, <1>1, <1>3 DEF WithinBudget
    <3> QED
      BY <3>2, <3>3
  <2> QED
    BY <1>1, <2>2, <2>3 DEF Guarded, OneRunPerJob
<1> QED
  BY <1>4, <1>6, <1>7, <1>8

(* A replay that the singleton index accepts starts rows nobody executes   *)
(* from zero attempts.                                                     *)
LEMMA ReplayInv ==
  ASSUME IndInv, NEW S \in SUBSET Job, ReplayDeadLetterJobs(S)
  PROVE  IndInv'
<1> USE DEF IndInv
<1> DEFINE fresh == [NoRow EXCEPT !.status = "pending"]
<1>1. UNCHANGED <<executing, enqueuing, runs, crashes, dbErrors, overruns>>
  BY DEF ReplayDeadLetterJobs, faults
<1>2. fresh \in Row /\ fresh.status = "pending" /\ fresh.attempts = 0
  BY NoRowType DEF Row, Status, NoRow
<1> HIDE DEF fresh
<1>3. /\ row' = [j \in Job |-> IF j \in S THEN fresh ELSE row[j]]
      /\ \A j \in S : row[j].status = "failed"
      /\ replays' = replays + 1
  BY DEF ReplayDeadLetterJobs, fresh
<1>4. TypeOK'
  BY <1>1, <1>2, <1>3 DEF TypeOK
<1>5. SingletonExclusive'
  BY DEF ReplayDeadLetterJobs, SingletonExclusive
<1>6. \A j \in Job : Present(j)' <=> Present(j)
  BY <1>2, <1>3 DEF Present
<1>7. IdempotencyUnique' /\ CallsFresh' /\ RunsPresent'
  BY <1>1, <1>6 DEF IdempotencyUnique, CallsFresh, RunsPresent, TypeOK, Call, Execution
<1>8. Guarded'
  <2> SUFFICES ASSUME overruns = 0
               PROVE  /\ OneRunPerJob'
                      /\ \A e \in executing : RunLocked(e)' /\ ReadIsFresh(e)'
                      /\ \A j \in Job : WithinBudget(j)'
    BY <1>1 DEF Guarded
  <2>1. ASSUME NEW e \in executing PROVE row'[e.job] = row[e.job]
    BY <1>3 DEF Guarded, RunLocked, TypeOK, Execution
  <2>2. ASSUME NEW e \in executing PROVE RunLocked(e)' /\ ReadIsFresh(e)'
    BY <2>1, <1>1 DEF Guarded, RunLocked, ReadIsFresh
  <2>3. Budget' = Budget /\ Budget \in Nat /\ 0 < Budget
    BY <1>1, AttemptsAssumption DEF Budget, TypeOK
  <2>4. ASSUME NEW j \in Job PROVE WithinBudget(j)'
    <3>1. row'[j] = IF j \in S THEN fresh ELSE row[j]
      BY <1>3
    <3>2. WithinBudget(j)
      BY DEF Guarded
    <3> QED
      BY <3>1, <3>2, <2>3, <1>1, <1>2 DEF WithinBudget
  <2> QED
    BY <1>1, <2>2, <2>4 DEF Guarded, OneRunPerJob
<1> QED
  BY <1>4, <1>5, <1>7, <1>8

(* A crash takes calls away and adds one to the budget of every row.       *)
LEMMA CrashInv ==
  ASSUME IndInv, NEW w \in Worker, Crash(w)
  PROVE  IndInv'
<1> USE DEF IndInv
<1>1. /\ executing' \subseteq executing /\ crashes' = crashes + 1
      /\ UNCHANGED <<row, enqueuing, runs, dbErrors, overruns, replays>>
  BY DEF Crash
<1>2. TypeOK'
  BY <1>1 DEF TypeOK
<1>3. SingletonExclusive' /\ IdempotencyUnique' /\ CallsFresh' /\ RunsPresent'
  BY <1>1 DEF SingletonExclusive, SingletonIndexOK, IdempotencyUnique, CallsFresh,
              RunsPresent, Present
<1>4. Guarded'
  <2> SUFFICES ASSUME overruns = 0
               PROVE  /\ OneRunPerJob'
                      /\ \A e \in executing' : RunLocked(e)' /\ ReadIsFresh(e)'
                      /\ \A j \in Job : WithinBudget(j)'
    BY <1>1 DEF Guarded
  <2>1. OneRunPerJob'
    BY <1>1 DEF Guarded, OneRunPerJob
  <2>2. ASSUME NEW e \in executing' PROVE RunLocked(e)' /\ ReadIsFresh(e)'
    BY <1>1 DEF Guarded, RunLocked, ReadIsFresh
  <2>3. Budget \in Nat /\ Budget' = Budget + 1
    BY <1>1, AttemptsAssumption DEF Budget, TypeOK
  <2>4. ASSUME NEW j \in Job PROVE WithinBudget(j)'
    <3>1. WithinBudget(j) /\ row[j].attempts \in Nat
      BY DEF Guarded, TypeOK, Row
    <3> QED
      BY <3>1, <2>3, <1>1 DEF WithinBudget
  <2> QED
    BY <2>1, <2>2, <2>4
<1> QED
  BY <1>2, <1>3, <1>4

(* A tick without an overrun leaves time on every lease that is in use.    *)
LEMMA TickInv ==
  ASSUME IndInv, Tick
  PROVE  IndInv'
<1> USE DEF IndInv
<1> DEFINE aged(j) == [row[j] EXCEPT !.runIn = CountDown(@), !.leaseIn = CountDown(@)]
<1>1. UNCHANGED <<executing, enqueuing, runs, crashes, dbErrors, replays>>
  BY DEF Tick
<1>2. \A n \in Nat : CountDown(n) \in Nat /\ (n > 1 => CountDown(n) > 0)
  BY DEF CountDown
<1>3. ASSUME NEW j \in Job
      PROVE  /\ aged(j) \in Row /\ aged(j).status = row[j].status
             /\ aged(j).attempts = row[j].attempts
             /\ aged(j).lockedBy = row[j].lockedBy
             /\ aged(j).leaseIn = CountDown(row[j].leaseIn)
  <2>1. row[j] \in Row /\ CountDown(row[j].runIn) \in Nat /\ CountDown(row[j].leaseIn) \in Nat
    BY <1>2 DEF TypeOK, Row
  <2> QED
    BY <2>1 DEF Row
<1> HIDE DEF aged
<1>4. row' = [j \in Job |-> aged(j)]
  BY DEF Tick, aged
<1>5. overruns' \in Nat /\ (overruns' = 0 => overruns = 0 /\ Overrunning = {})
  <2>1. overruns \in Nat /\ overruns' = IF Overrunning = {} THEN overruns ELSE overruns + 1
    BY DEF Tick, TypeOK
  <2> HIDE DEF IndInv
  <2> QED
    BY <2>1
<1>6. TypeOK'
  BY <1>1, <1>3, <1>4, <1>5 DEF TypeOK
<1>7. SingletonExclusive' /\ IdempotencyUnique' /\ CallsFresh' /\ RunsPresent'
  <2>1. \A j \in Job : Present(j)' <=> Present(j)
    BY <1>3, <1>4 DEF Present
  <2>2. \A j \in Job : IsLive(row'[j]) <=> IsLive(row[j])
    BY <1>3, <1>4 DEF IsLive
  <2> QED
    BY <1>1, <2>1, <2>2 DEF SingletonExclusive, SingletonIndexOK, IdempotencyUnique,
       CallsFresh, RunsPresent, TypeOK, Call, Execution
<1>8. Guarded'
  <2> SUFFICES ASSUME overruns' = 0
               PROVE  /\ OneRunPerJob'
                      /\ \A e \in executing : RunLocked(e)' /\ ReadIsFresh(e)'
                      /\ \A j \in Job : WithinBudget(j)'
    BY <1>1 DEF Guarded
  <2>1. ASSUME NEW e \in executing PROVE RunLocked(e)' /\ ReadIsFresh(e)'
    <3>1. e.job \in Job /\ row[e.job].leaseIn \in Nat
      BY DEF TypeOK, Execution, Row
    <3>2. ~(row[e.job].status = "active" /\ row[e.job].leaseIn = 1)
      BY <1>5 DEF Overrunning
    <3>3. RunLocked(e) /\ ReadIsFresh(e)
      BY <1>5 DEF Guarded
    <3>4. row[e.job].leaseIn > 1 => row'[e.job].leaseIn > 0
      BY <3>1, <1>2, <1>3, <1>4
    <3>5. /\ row'[e.job].status = row[e.job].status /\ row'[e.job].attempts = row[e.job].attempts
          /\ row'[e.job].lockedBy = row[e.job].lockedBy
      BY <3>1, <1>3, <1>4
    <3> QED
      BY <3>1, <3>2, <3>3, <3>4, <3>5, <1>1 DEF RunLocked, ReadIsFresh
  <2>2. ASSUME NEW j \in Job PROVE WithinBudget(j)'
    BY <1>1, <1>3, <1>4, <1>5 DEF Guarded, WithinBudget, Budget
  <2> QED
    BY <1>1, <1>5, <2>1, <2>2 DEF Guarded, OneRunPerJob
<1> QED
  BY <1>6, <1>7, <1>8

-----------------------------------------------------------------------------
(* Every step of the specification keeps the invariant.                    *)
LEMMA NextInv == IndInv /\ [Next]_vars => IndInv'
<1> SUFFICES ASSUME IndInv, [Next]_vars PROVE IndInv'
  OBVIOUS
<1>1. CASE EnqueueStep
  BY <1>1, EnqueueNoWriteInv, EnqueueInsertInv DEF EnqueueStep
<1>2. CASE \E w \in Worker, S \in SUBSET Job : ClaimJobs(w, S)
  BY <1>2, ClaimJobsInv
<1>3. CASE \E e \in executing : ProcessStep(e)
  BY <1>3, CompleteJobInv, HandlerThrowsInv, FailJobReadInv, FailJobWriteInv DEF ProcessStep
<1>4. CASE RecoverStaleJobs
  BY <1>4, RecoverStaleJobsInv
<1>5. CASE \E S \in SUBSET Job : ReplayDeadLetterJobs(S)
  BY <1>5, ReplayInv
<1>6. CASE FaultStep
  BY <1>6, CompleteJobErrorInv, FailJobErrorInv, CrashInv DEF FaultStep
<1>7. CASE Tick
  BY <1>7, TickInv
<1>8. CASE UNCHANGED vars
  BY <1>8
  DEF vars, IndInv, TypeOK, SingletonExclusive, SingletonIndexOK, IdempotencyUnique, CallsFresh,
      RunsPresent, Present, Guarded, OneRunPerJob, RunLocked, ReadIsFresh, WithinBudget, Budget
<1> QED
  BY <1>1, <1>2, <1>3, <1>4, <1>5, <1>6, <1>7, <1>8 DEF Next

(* IndInv holds in every reachable state, for any number of jobs, workers, *)
(* enqueuers, attempts and faults.                                         *)
THEOREM InductiveInvariant == Spec => []IndInv
BY InitInv, NextInv, PTL DEF Spec

(* The table, the calls in flight and the counters keep their types.       *)
THEOREM TypeCorrect == Spec => []TypeOK
<1>1. IndInv => TypeOK
  BY DEF IndInv
<1> QED
  BY <1>1, InductiveInvariant, PTL

(* While no call of processJob outlives its lease, no job is processed     *)
(* twice at a time and no two handlers share a singleton key: handlers     *)
(* have active rows, and active rows have distinct singleton keys.         *)
THEOREM ExclusiveWorkHolds == Spec => []ExclusiveWork
<1>1. IndInv => ExclusiveWork
  <2> SUFFICES ASSUME IndInv, overruns = 0, NEW e \in executing, NEW f \in executing, e # f
               PROVE  /\ e.job # f.job
                      /\ e.pc = "handling" /\ f.pc = "handling" => ~SameSingleton(e.job, f.job)
    BY DEF ExclusiveWork
  <2>1. e.job # f.job /\ e.job \in Job /\ f.job \in Job
    BY DEF IndInv, Guarded, OneRunPerJob, TypeOK, Execution
  <2>2. e.pc = "handling" /\ f.pc = "handling" => IsLive(row[e.job]) /\ IsLive(row[f.job])
    BY DEF IndInv, Guarded, RunLocked, IsLive
  <2> QED
    BY <2>1, <2>2 DEF IndInv, SingletonExclusive, SingletonIndexOK
<1> QED
  BY <1>1, InductiveInvariant, PTL

(* While no call of processJob outlives its lease, every handler in flight *)
(* holds an unexpired lease in its worker's name.                          *)
THEOREM LeaseHeldHolds == Spec => []LeaseHeld
<1>1. IndInv => LeaseHeld
  BY DEF IndInv, Guarded, RunLocked, LeaseHeld
<1> QED
  BY <1>1, InductiveInvariant, PTL

(* Both: work is exclusive, and done under a lease.                        *)
THEOREM LeasedWorkHolds == Spec => []LeasedWork
<1>1. ExclusiveWork /\ LeaseHeld => LeasedWork
  BY DEF LeasedWork
<1> QED
  BY <1>1, ExclusiveWorkHolds, LeaseHeldHolds, PTL

(* While no call of processJob outlives its lease, dead-lettered jobs have *)
(* used up max_attempts, and no job is executed more often than that plus  *)
(* once for every crash or failed statement.                               *)
THEOREM AttemptsAccounted == Spec => []AttemptsPaid
<1>1. IndInv => AttemptsPaid
  BY DEF AttemptsPaid, IndInv, Guarded, WithinBudget, Budget, DeadLetterExhausted, AttemptBudget
<1> QED
  BY <1>1, InductiveInvariant, PTL

(* Without overruns and errors in doubt, every call has an active row, so  *)
(* no call writes a completed or dead-lettered row; claims, recovery and   *)
(* inserts start from other rows, and a replay restarts the attempts.      *)
Stays(j) ==
  /\ row[j].status = "completed" => row'[j].status = "completed"
  /\ row[j].status = "failed" /\ row'[j].status # "failed" =>
       row'[j].status = "pending" /\ row'[j].attempts = 0 /\ replays' = replays + 1

LEMMA SettledStays ==
  ASSUME IndInv, [Next]_vars, overruns = 0, dbErrors = 0, NEW j \in Job
  PROVE  Stays(j)
<1> USE DEF Stays
<1>1. /\ row \in [Job -> Row]
      /\ \A e \in executing : e.job \in Job /\ row[e.job].status = "active"
      /\ \A c \in enqueuing : c.job \in Job /\ row[c.job].status = "absent"
  BY DEF IndInv, Guarded, RunLocked, TypeOK, Execution, Call, CallsFresh, Present
<1>2. CASE EnqueueStep
  BY <1>1, <1>2 DEF EnqueueStep, EnqueueCheck, EnqueueRecheck, EnqueueInsert, EnqueueAbandoned,
                    Inserted
<1>3. CASE \E w \in Worker, S \in SUBSET Job : ClaimJobs(w, S)
  BY <1>1, <1>3 DEF ClaimJobs, Due
<1>4. CASE \E e \in executing : ProcessStep(e) \/ CompleteJobError(e) \/ FailJobError(e)
  <2>1. PICK e \in executing : ProcessStep(e) \/ CompleteJobError(e) \/ FailJobError(e)
    BY <1>4
  <2>2. \A i \in Job \ {e.job} : row'[i] = row[i]
    BY <1>1, <2>1 DEF ProcessStep, CompleteJob, HandlerThrows, FailJobRead, FailJobWrite,
                      CompleteJobError, FailJobError
  <2> QED
    BY <1>1, <2>2
<1>5. CASE RecoverStaleJobs
  BY <1>1, <1>5 DEF RecoverStaleJobs, Stale
<1>6. CASE \E S \in SUBSET Job : ReplayDeadLetterJobs(S)
  <2>1. PICK S \in SUBSET Job : ReplayDeadLetterJobs(S)
    BY <1>6
  <2>2. row'[j] = IF j \in S THEN [NoRow EXCEPT !.status = "pending"] ELSE row[j]
    BY <2>1 DEF ReplayDeadLetterJobs
  <2>3. (j \in S => row[j].status = "failed") /\ replays' = replays + 1
    BY <2>1 DEF ReplayDeadLetterJobs
  <2> QED
    BY <2>2, <2>3 DEF NoRow
<1>7. CASE \E w \in Worker : Crash(w)
  BY <1>7 DEF Crash
<1>8. CASE Tick
  <2>1. row'[j] = [row[j] EXCEPT !.runIn = CountDown(@), !.leaseIn = CountDown(@)]
    BY <1>8 DEF Tick
  <2>2. row'[j].status = row[j].status
    BY <1>1, <2>1 DEF Row
  <2> QED
    BY <2>2
<1>9. CASE UNCHANGED vars
  BY <1>9 DEF vars
<1> QED
  BY <1>2, <1>3, <1>4, <1>5, <1>6, <1>7, <1>8, <1>9 DEF Next, FaultStep

(* Calls of enqueueJob begin, and look again, with a SELECT; without a     *)
(* singleton key there are no twins to know.                               *)
LEMMA NewCalls ==
  ASSUME IndInv, [Next]_vars, NEW c \in enqueuing', c \notin enqueuing
  PROVE  row' = row /\ \E j \in Job : ~HasLiveTwin(j) /\ c.known = Known(j)
<1>1. EnqueueStep
  BY DEF Next, vars, ClaimJobs, ProcessStep, CompleteJob, HandlerThrows, FailJobRead,
         FailJobWrite, RecoverStaleJobs, ReplayDeadLetterJobs, FaultStep, CompleteJobError,
         FailJobError, Crash, Tick
<1>2. CASE \E q \in Enqueuer, j \in Job, d \in Delays : EnqueueCheck(q, j, d)
  BY <1>2 DEF EnqueueCheck
<1>3. CASE \E e \in enqueuing : EnqueueRecheck(e)
  <2>1. PICK e \in enqueuing : EnqueueRecheck(e)
    BY <1>3
  <2>2. e \in Call /\ ~HasLiveTwin(e.job)
        /\ c = [e EXCEPT !.pc = "inserting", !.known = Known(e.job)]
    BY <2>1 DEF EnqueueRecheck, IndInv, TypeOK
  <2>3. e.job \in Job /\ c.known = Known(e.job) /\ row' = row
    BY <2>1, <2>2 DEF Call, EnqueueRecheck
  <2> QED BY <2>2, <2>3
<1>4. CASE \E e \in enqueuing : EnqueueInsert(e) \/ EnqueueAbandoned(e)
  BY <1>4 DEF EnqueueInsert, EnqueueAbandoned
<1> QED BY <1>1, <1>2, <1>3, <1>4 DEF EnqueueStep

(* What a call of enqueueJob has seen settled stays so: its SELECT passes  *)
(* no live row, and settled rows stay as they are.                         *)
LEMMA KnownKept ==
  ASSUME IndInv, IndInv', KnownStaySettled, [Next]_vars
  PROVE  KnownStaySettled'
<1> SUFFICES ASSUME replays' = 0, dbErrors' = 0, overruns' = 0,
                    NEW c \in enqueuing', NEW i \in c.known
             PROVE  row'[i].status \in {"completed", "failed"}
  BY DEF KnownStaySettled
<1>a. /\ row \in [Job -> Row] /\ enqueuing \subseteq Call
      /\ replays \in Nat /\ dbErrors \in Nat /\ overruns \in Nat
  BY DEF IndInv, TypeOK
<1>b. c \in Call /\ i \in Job
  BY DEF IndInv, TypeOK, Call
<1>1. replays = 0 /\ dbErrors = 0 /\ overruns = 0
  <2>1. replays' \in {replays, replays + 1} /\ dbErrors' \in {dbErrors, dbErrors + 1}
    BY DEF Next, vars, faults, EnqueueStep, EnqueueCheck, EnqueueRecheck, EnqueueInsert,
       EnqueueAbandoned, ClaimJobs, ProcessStep, CompleteJob, HandlerThrows, FailJobRead,
       FailJobWrite, RecoverStaleJobs, ReplayDeadLetterJobs, FaultStep, CompleteJobError,
       FailJobError, Crash, Tick
  <2>2. overruns' \in {overruns, overruns + 1}
    BY DEF Next, vars, faults, EnqueueStep, EnqueueCheck, EnqueueRecheck, EnqueueInsert,
       EnqueueAbandoned, ClaimJobs, ProcessStep, CompleteJob, HandlerThrows, FailJobRead,
       FailJobWrite, RecoverStaleJobs, ReplayDeadLetterJobs, FaultStep, CompleteJobError,
       FailJobError, Crash, Tick
  <2> QED BY <2>1, <2>2, <1>a
<1>2. CASE c \in enqueuing
  <2>1. row[i].status \in {"completed", "failed"}
    BY <1>1, <1>2 DEF KnownStaySettled
  <2>2. Stays(i)
    BY <1>1, <1>b, SettledStays
  <2> QED BY <1>1, <2>1, <2>2 DEF Stays
<1>3. CASE c \notin enqueuing
  <2>2. row' = row /\ \E j \in Job : ~HasLiveTwin(j) /\ i \in Known(j)
    BY <1>3, NewCalls
  <2>3. row[i].status \in Status
    BY <1>a, <1>b DEF Row
  <2> QED BY <2>2, <2>3 DEF Known, HasLiveTwin, IsLive, Present, Status
<1> QED BY <1>2, <1>3

(* Every INSERT that runs into the singleton index meets a newcomer: the   *)
(* index was intact before, so the clash is with the new row, and what was *)
(* known is settled.  A failing job's row is live, and the retry leaves it *)
(* live, so that the index stays intact.                                   *)
THEOREM KeysHonouredHolds == Spec => []KeysHonoured
<1>1. Init => KnownStaySettled
  BY DEF Init, KnownStaySettled
<1>2. IndInv /\ IndInv' /\ KnownStaySettled /\ [Next]_vars => KnownStaySettled'
  BY KnownKept
<1>3. IndInv /\ KnownStaySettled => CollisionsRaced
  <2> SUFFICES ASSUME IndInv, KnownStaySettled, replays = 0, dbErrors = 0, overruns = 0,
                      NEW c \in enqueuing, ~SingletonIndexOK(Inserted(c))
               PROVE  \E i \in Job \ c.known : IsLive(row[i]) /\ SameSingleton(i, c.job)
    BY DEF CollisionsRaced
  <2>1. c \in Call /\ c.job \in Job /\ row \in [Job -> Row] /\ SingletonIndexOK(row)
    BY DEF IndInv, TypeOK, Call, SingletonExclusive
  <2>2. \A i \in Job \ {c.job} : Inserted(c)[i] = row[i]
    BY <2>1 DEF Inserted
  <2>3. PICK i \in Job, j \in Job :
          i # j /\ IsLive(Inserted(c)[i]) /\ IsLive(Inserted(c)[j]) /\ SameSingleton(i, j)
    BY DEF SingletonIndexOK
  <2>4. i = c.job \/ j = c.job
    BY <2>1, <2>2, <2>3 DEF SingletonIndexOK
  <2>5. PICK k \in Job \ {c.job} : IsLive(row[k]) /\ SameSingleton(k, c.job)
    BY <2>2, <2>3, <2>4, KeysSymmetric
  <2>6. k \notin c.known
    BY <2>5 DEF KnownStaySettled, IsLive
  <2> QED BY <2>5, <2>6
<1>4. IndInv => RetryAdmitted
  <2> SUFFICES ASSUME IndInv, overruns = 0, NEW e \in executing,
                      row[e.job].status # "completed"
               PROVE  SingletonIndexOK([row EXCEPT ![e.job] = Retried(@, Backoff(e.tried))])
    BY DEF RetryAdmitted
  <2> DEFINE retry == [row EXCEPT ![e.job] = Retried(@, Backoff(e.tried))]
  <2>1. /\ e.job \in Job /\ row \in [Job -> Row] /\ row[e.job].status = "active"
        /\ SingletonIndexOK(row)
    BY DEF IndInv, TypeOK, Execution, Guarded, RunLocked, SingletonExclusive
  <2>2. \A i \in Job : IsLive(retry[i]) => IsLive(row[i])
    BY <2>1 DEF IsLive
  <2> QED BY <2>1, <2>2 DEF SingletonIndexOK
<1>5. CollisionsRaced /\ RetryAdmitted => KeysHonoured
  BY DEF KeysHonoured
<1> QED BY <1>1, <1>2, <1>3, <1>4, <1>5, InductiveInvariant, PTL DEF Spec

(* Late writers do not revive rows that are settled. *)
THEOREM TerminalStableHolds == Spec => TerminalStable
<1>1. IndInv /\ [Next]_vars =>
        [\A j \in Job :
           overruns = 0 /\ dbErrors = 0 =>
             /\ row[j].status = "completed" => row'[j].status = "completed"
             /\ row[j].status = "failed" /\ row'[j].status # "failed" =>
                  row'[j].status = "pending" /\ row'[j].attempts = 0]_vars
  BY SettledStays DEF Stays
<1> QED
  BY <1>1, InductiveInvariant, PTL DEF Spec, TerminalStable

-----------------------------------------------------------------------------
(* The refinement of JobContract.                                          *)

Kept == UNCHANGED <<phase, tries, doubt>>

(* What the map relies on: no call of processJob has outlived its lease.   *)
InTime == IndInv /\ overruns = 0

(* The mapped state of one job, spelled out.                               *)
LEMMA MappedState ==
  ASSUME TypeOK, NEW j \in Job
  PROVE  /\ phase[j] = PhaseOf(j) /\ tries[j] = row[j].attempts
         /\ PhaseOf(j) = "none"    <=> row[j].status = "absent"
         /\ PhaseOf(j) = "waiting" <=> \/ row[j].status = "pending"
                                       \/ row[j].status = "active" /\ ~Executed(j)
         /\ PhaseOf(j) = "running" <=> row[j].status = "active" /\ Executed(j)
         /\ PhaseOf(j) = "done"    <=> row[j].status = "completed"
         /\ PhaseOf(j) = "dead"    <=> row[j].status = "failed"
         /\ j \in doubt <=> row[j].status = "completed" /\ Executed(j)
         /\ Contract!Live(j) <=> IsLive(row[j])
<1>1. row[j].status \in Status
  BY DEF TypeOK, Row
<1>2. phase[j] = PhaseOf(j) /\ tries[j] = row[j].attempts
  BY DEF phase, tries
<1>3. j \in doubt <=> row[j].status = "completed" /\ Executed(j)
  BY DEF doubt
<1>4. /\ PhaseOf(j) = "none"    <=> row[j].status = "absent"
      /\ PhaseOf(j) = "waiting" <=> \/ row[j].status = "pending"
                                    \/ row[j].status = "active" /\ ~Executed(j)
      /\ PhaseOf(j) = "running" <=> row[j].status = "active" /\ Executed(j)
      /\ PhaseOf(j) = "done"    <=> row[j].status = "completed"
      /\ PhaseOf(j) = "dead"    <=> row[j].status = "failed"
  BY <1>1 DEF PhaseOf, Status
<1>5. Contract!Live(j) <=> IsLive(row[j])
  BY <1>2, <1>4 DEF Contract!Live, IsLive
<1> QED
  BY <1>2, <1>3, <1>4, <1>5

(* How a step moves the mapped phases and tries.                           *)
LEMMA MappedStep ==
  ASSUME NEW S, NEW p, \A j \in Job : PhaseOf(j)' = IF j \in S THEN p ELSE PhaseOf(j)
  PROVE  Contract!To(S, p)
BY DEF Contract!To, phase

LEMMA MappedTries ==
  ASSUME \A j \in Job : row'[j].attempts = row[j].attempts
  PROVE  UNCHANGED tries
BY DEF tries

LEMMA MappedStutter ==
  ASSUME \A j \in Job : /\ PhaseOf(j)' = PhaseOf(j)
                        /\ row'[j].attempts = row[j].attempts
                        /\ row'[j].status = "completed" /\ Executed(j)'
                             <=> row[j].status = "completed" /\ Executed(j)
  PROVE  Kept
BY DEF Kept, phase, tries, doubt

(* Nothing the map looks at changes.                                       *)
LEMMA MappedSame ==
  ASSUME \A j \in Job : /\ row'[j].status = row[j].status
                        /\ row'[j].attempts = row[j].attempts
                        /\ Executed(j)' <=> Executed(j)
  PROVE  Kept
<1>1. \A j \in Job : PhaseOf(j)' = PhaseOf(j)
  BY DEF PhaseOf
<1> QED
  BY <1>1, MappedStutter

-----------------------------------------------------------------------------
(* A call of processJob that is in time has the only claim on its row.     *)
LEMMA RunHolds ==
  ASSUME InTime, NEW e \in executing
  PROVE  /\ e.job \in Job /\ row[e.job] \in Row /\ e \in Execution
         /\ RunLocked(e) /\ ReadIsFresh(e)
         /\ Executed(e.job)
         /\ \A f \in executing : f.job = e.job => f = e
         /\ Contract!Held(e.job)
<1> USE DEF InTime, IndInv
<1>1. e \in Execution /\ e.job \in Job /\ row[e.job] \in Row
  BY DEF TypeOK, Execution
<1>2. RunLocked(e) /\ ReadIsFresh(e) /\ \A f \in executing : f.job = e.job => f = e
  BY DEF Guarded, OneRunPerJob
<1>3. Executed(e.job)
  BY DEF Executed
<1>4. row[e.job].status \in {"active", "completed"}
  BY <1>2 DEF RunLocked
<1> QED
  BY <1>1, <1>2, <1>3, <1>4, MappedState DEF Contract!Held

(* Rows that keep the singleton index leave no live twin of a live row.    *)
LEMMA NoTwin ==
  ASSUME TypeOK, NEW table, NEW j \in Job, SingletonIndexOK(table), IsLive(table[j]),
         \A i \in Job \ {j} : table[i] = row[i]
  PROVE  ~Contract!TwinLive(j)
<1>1. \A i \in Job : i # j /\ IsLive(row[i]) => ~SameSingleton(i, j)
  BY DEF SingletonIndexOK
<1>2. \A i \in Job : Contract!Live(i) <=> IsLive(row[i])
  BY MappedState
<1> QED
  BY <1>1, <1>2 DEF Contract!TwinLive

(* Enqueueing: only an INSERT that is not refused shows.                   *)
LEMMA EnqueueMaps ==
  ASSUME InTime, EnqueueStep
  PROVE  Contract!Next \/ Kept
<1> USE DEF InTime, IndInv
<1>1. \A j \in Job : Executed(j)' <=> Executed(j)
  BY DEF EnqueueStep, EnqueueCheck, EnqueueRecheck, EnqueueInsert, EnqueueAbandoned, Executed
<1>2. CASE row' = row
  BY <1>1, <1>2, MappedSame
<1>3. CASE row' # row
  <2>1. PICK c \in enqueuing :
          /\ ~InsertRefused(c) /\ row' = Inserted(c)
          /\ row' = [row EXCEPT ![c.job] = [NoRow EXCEPT !.status = "pending", !.runIn = c.delay]]
    BY <1>3 DEF EnqueueStep, EnqueueCheck, EnqueueRecheck, EnqueueInsert, EnqueueAbandoned,
                Inserted
  <2> DEFINE j == c.job
  <2>2. j \in Job /\ c.delay \in Nat /\ row[j].status = "absent"
    BY DEF TypeOK, Call, CallsFresh, Present
  <2>3. /\ row'[j].status = "pending" /\ row'[j].attempts = 0
        /\ \A i \in Job \ {j} : row'[i] = row[i]
    BY <2>1, <2>2, NewRows DEF TypeOK
  <2> HIDE DEF j
  <2>4. \A i \in Job : PhaseOf(i)' = IF i \in {j} THEN "waiting" ELSE PhaseOf(i)
    <3>1. PhaseOf(j)' = "waiting"
      BY <2>3 DEF PhaseOf
    <3>2. \A i \in Job \ {j} : PhaseOf(i)' = PhaseOf(i)
      BY <1>1, <2>3 DEF PhaseOf
    <3> QED
      BY <3>1, <3>2
  <2>5. tries' = [tries EXCEPT ![j] = 0]
    BY <2>2, <2>3 DEF tries
  <2>6. doubt' = doubt
    BY <1>1, <2>2, <2>3 DEF doubt
  <2>7. ~Contract!TwinLive(j)
    <3>1. SingletonIndexOK(row')
      BY <2>1 DEF InsertRefused
    <3>2. \A i \in Job : IsLive(row[i]) => ~SameSingleton(i, j)
      BY <2>2, <2>3, <3>1 DEF SingletonIndexOK, IsLive, j
    <3> QED BY <2>1, <2>2, <3>2, MappedState DEF InsertRefused, Contract!TwinLive, j
  <2>8. phase[j] = "none"
    BY <2>2, MappedState
  <2>9. Contract!Accept(j)
    BY <2>4, <2>5, <2>6, <2>7, <2>8, MappedStep DEF Contract!Accept
  <2> QED
    BY <2>2, <2>9 DEF Contract!Next
<1> QED
  BY <1>2, <1>3

LEMMA ClaimJobsMaps ==
  ASSUME InTime, NEW w \in Worker, NEW S \in SUBSET Job, ClaimJobs(w, S)
  PROVE  Contract!Next
<1> USE DEF InTime, IndInv
<1> DEFINE run(j) == [worker |-> w, job |-> j, run |-> runs[j] + 1,
                      pc |-> "handling", tried |-> 0]
<1>1. /\ executing' = executing \cup {run(j) : j \in S}
      /\ row' = [j \in Job |-> IF j \in S THEN Claimed(row[j], w) ELSE row[j]]
  BY DEF ClaimJobs
<1>2. \A j \in S : run(j).job = j
  OBVIOUS
<1> HIDE DEF run
<1>3. \A j \in Job : Executed(j)' <=> Executed(j) \/ j \in S
  BY <1>1, <1>2 DEF Executed
<1>4. \A j \in S : Claimed(row[j], w).status = "active"
                   /\ Claimed(row[j], w).attempts = row[j].attempts + 1
  BY DEF Claimed, TypeOK, Row
<1>5. \A j \in S : row[j].status = "pending"
  BY DEF ClaimJobs, Due
<1>6. \A j \in Job : PhaseOf(j)' = IF j \in S THEN "running" ELSE PhaseOf(j)
  <2>1. ASSUME NEW j \in S PROVE PhaseOf(j)' = "running"
    <3>1. row'[j].status = "active" /\ Executed(j)'
      BY <1>1, <1>3, <1>4
    <3> QED
      BY <3>1 DEF PhaseOf
  <2>2. ASSUME NEW j \in Job \ S PROVE PhaseOf(j)' = PhaseOf(j)
    <3>1. row'[j] = row[j] /\ (Executed(j)' <=> Executed(j))
      BY <1>1, <1>3
    <3> QED
      BY <3>1 DEF PhaseOf
  <2> QED
    BY <2>1, <2>2
<1>7. tries' = [j \in Job |-> IF j \in S THEN tries[j] + 1 ELSE tries[j]]
  BY <1>1, <1>4 DEF tries
<1>8. doubt' = doubt
  BY <1>1, <1>3, <1>4, <1>5 DEF doubt
<1>9. \A j \in S : phase[j] = "waiting"
  BY <1>5, MappedState
<1>10. Contract!Start(S)
  BY <1>6, <1>7, <1>8, <1>9, MappedStep DEF Contract!Start
<1> QED
  BY <1>10 DEF Contract!Next

-----------------------------------------------------------------------------
(* The last step of a call: only its own job moves, and is out of doubt.   *)
LEMMA RunEnds ==
  ASSUME InTime, NEW e \in executing, executing' = executing \ {e},
         \A i \in Job \ {e.job} : row'[i] = row[i],
         row'[e.job].attempts = row[e.job].attempts
  PROVE  /\ ~Executed(e.job)'
         /\ Contract!To({e.job}, PhaseOf(e.job)')
         /\ UNCHANGED tries
         /\ doubt' = doubt \ {e.job}
<1>1. ~Executed(e.job)'
  BY RunHolds DEF Executed
<1>2. \A i \in Job \ {e.job} : (Executed(i)' <=> Executed(i)) /\ row'[i] = row[i]
  BY DEF Executed
<1>3. \A i \in Job : PhaseOf(i)' = IF i \in {e.job} THEN PhaseOf(e.job)' ELSE PhaseOf(i)
  <2>1. \A i \in Job \ {e.job} : PhaseOf(i)' = PhaseOf(i)
    BY <1>2 DEF PhaseOf
  <2> QED
    BY <2>1
<1>4. Contract!To({e.job}, PhaseOf(e.job)')
  BY <1>3, MappedStep
<1>5. UNCHANGED tries
  BY MappedTries
<1>6. doubt' = doubt \ {e.job}
  BY <1>1, <1>2 DEF doubt
<1> QED
  BY <1>1, <1>4, <1>5, <1>6

(* A call that goes on without a write shows nowhere.                      *)
LEMMA RunGoesOnMaps ==
  ASSUME InTime, NEW e \in executing, NEW f, f.job = e.job,
         executing' = (executing \ {e}) \cup {f}, row' = row
  PROVE  Kept
<1>1. \A j \in Job : Executed(j)' <=> Executed(j)
  BY DEF Executed
<1> QED
  BY <1>1, MappedSame

LEMMA CompleteJobMaps ==
  ASSUME InTime, NEW e \in executing, CompleteJob(e)
  PROVE  Contract!Next
<1>1. e.job \in Job /\ phase[e.job] = "running" /\ e.job \notin doubt
  <2>1. row[e.job].status = "active"
    BY RunHolds DEF RunLocked, CompleteJob
  <2> QED
    BY <2>1, RunHolds, MappedState DEF InTime, IndInv
<1>2. /\ row'[e.job].status = "completed" /\ row'[e.job].attempts = row[e.job].attempts
      /\ \A i \in Job \ {e.job} : row'[i] = row[i]
  BY RunHolds, RowUpdates DEF CompleteJob, InTime, IndInv, TypeOK
<1>3. executing' = executing \ {e}
  BY DEF CompleteJob
<1>4. PhaseOf(e.job)' = "done"
  BY <1>2 DEF PhaseOf
<1>5. Contract!To({e.job}, "done") /\ UNCHANGED tries /\ doubt' = doubt
  BY <1>1, <1>2, <1>3, <1>4, RunEnds
<1>6. Contract!Finish(e.job)
  BY <1>1, <1>5 DEF Contract!Finish
<1> QED
  BY <1>1, <1>6 DEF Contract!Next

(* A completeJob that throws finishes the job in doubt, or shows nowhere.  *)
LEMMA CompleteJobErrorMaps ==
  ASSUME InTime, NEW e \in executing, CompleteJobError(e)
  PROVE  Contract!Next \/ Kept
<1> DEFINE f == [e EXCEPT !.pc = "failing"]
<1>1. f.job = e.job /\ executing' = (executing \ {e}) \cup {f}
  BY RunHolds DEF CompleteJobError, Execution
<1> HIDE DEF f
<1>2. CASE row' = row
  BY <1>1, <1>2, RunGoesOnMaps
<1>3. CASE row' = [row EXCEPT ![e.job] = Completed(@)]
  <2>1. e.job \in Job /\ phase[e.job] = "running"
    <3>1. row[e.job].status = "active"
      BY RunHolds DEF RunLocked, CompleteJobError
    <3> QED
      BY <3>1, RunHolds, MappedState DEF InTime, IndInv
  <2>2. /\ row'[e.job].status = "completed" /\ row'[e.job].attempts = row[e.job].attempts
        /\ \A i \in Job \ {e.job} : row'[i] = row[i]
    BY <1>3, RunHolds, RowUpdates DEF InTime, IndInv, TypeOK
  <2>3. \A i \in Job : Executed(i)' <=> Executed(i)
    BY <1>1 DEF Executed
  <2>4. \A i \in Job : PhaseOf(i)' = IF i \in {e.job} THEN "done" ELSE PhaseOf(i)
    <3>1. PhaseOf(e.job)' = "done"
      BY <2>2 DEF PhaseOf
    <3>2. \A i \in Job \ {e.job} : PhaseOf(i)' = PhaseOf(i)
      BY <2>2, <2>3 DEF PhaseOf
    <3> QED
      BY <3>1, <3>2
  <2>5. doubt' = doubt \cup {e.job}
    BY <2>1, <2>2, <2>3, RunHolds DEF doubt
  <2>6. UNCHANGED tries
    BY <2>2, MappedTries
  <2>7. Contract!Finish(e.job)
    BY <2>1, <2>4, <2>5, <2>6, MappedStep DEF Contract!Finish
  <2> QED
    BY <2>1, <2>7 DEF Contract!Next
<1> QED
  BY <1>2, <1>3 DEF CompleteJobError

LEMMA HandlerThrowsMaps ==
  ASSUME InTime, NEW e \in executing, HandlerThrows(e) \/ FailJobRead(e)
  PROVE  Kept
<1>1. PICK f : f.job = e.job /\ executing' = (executing \ {e}) \cup {f} /\ row' = row
  BY RunHolds DEF HandlerThrows, FailJobRead, Execution
<1> QED
  BY <1>1, RunGoesOnMaps

(* failJob's second statement: a retry, a burial, or, when the job had     *)
(* been completed in doubt and a twin was enqueued since, nothing.         *)
LEMMA FailJobWriteMaps ==
  ASSUME InTime, NEW e \in executing, FailJobWrite(e)
  PROVE  Contract!Next
<1> USE DEF InTime, IndInv
<1>1. /\ e.job \in Job /\ row[e.job] \in Row /\ Contract!Held(e.job)
      /\ tries[e.job] = e.tried /\ e.tried = row[e.job].attempts
      /\ executing' = executing \ {e}
  BY RunHolds, MappedState DEF ReadIsFresh, FailJobWrite
<1>2. CASE RetriesLeft(e.tried)
  <2>1. PICK jitter \in 0..Jitter :
          LET retry == [row EXCEPT ![e.job] = Retried(@, Backoff(e.tried) + jitter)]
          IN row' = IF SingletonIndexOK(retry) THEN retry ELSE row
    BY <1>2 DEF FailJobWrite
  <2> DEFINE delay == Backoff(e.tried) + jitter
             retry == [row EXCEPT ![e.job] = Retried(@, delay)]
  <2>2. row' = IF SingletonIndexOK(retry) THEN retry ELSE row
    BY <2>1
  <2> HIDE DEF delay
  <2>3. /\ retry[e.job].status = "pending" /\ retry[e.job].attempts = row[e.job].attempts
        /\ \A i \in Job \ {e.job} : retry[i] = row[i]
    <3>1. Retried(row[e.job], delay).status = "pending"
          /\ Retried(row[e.job], delay).attempts = row[e.job].attempts
      BY <1>1 DEF Retried, Unlock, Row
    <3> QED
      BY <1>1, <3>1 DEF TypeOK
  <2> HIDE DEF retry
  <2>4. CASE SingletonIndexOK(retry)
    <3>1. row' = retry
      BY <2>2, <2>4
    <3>2. PhaseOf(e.job)' = "waiting"
      BY <2>3, <3>1 DEF PhaseOf
    <3>3. Contract!To({e.job}, "waiting") /\ UNCHANGED tries /\ doubt' = doubt \ {e.job}
      BY <1>1, <2>3, <3>1, <3>2, RunEnds
    <3>4. ~Contract!TwinLive(e.job)
      BY <1>1, <2>3, <2>4, NoTwin DEF IsLive
    <3>5. Contract!TryAgain(e.job)
      BY <1>1, <1>2, <3>3, <3>4 DEF Contract!TryAgain, RetriesLeft
    <3> QED
      BY <1>1, <3>5 DEF Contract!Next
  <2>5. CASE ~SingletonIndexOK(retry)
    <3>1. row' = row
      BY <2>2, <2>5
    <3>2. ~IsLive(row[e.job])
      BY <2>3, <2>5 DEF SingletonExclusive, SingletonIndexOK, IsLive
    <3>3. phase[e.job] = "done"
      BY <1>1, <3>2, RunHolds, MappedState DEF RunLocked, IsLive
    <3>4. PhaseOf(e.job)' = "done"
      BY <1>1, <3>1, <3>3, MappedState DEF PhaseOf
    <3>5. Contract!To({e.job}, "done") /\ UNCHANGED tries /\ doubt' = doubt \ {e.job}
      BY <1>1, <3>1, <3>4, RunEnds
    <3>6. Contract!To({i \in {e.job} : phase[i] = "running"}, "waiting")
      BY <3>3, <3>5 DEF Contract!To
    <3>7. Contract!Lose({e.job})
      BY <1>1, <3>5, <3>6 DEF Contract!Lose
    <3> QED
      BY <1>1, <3>7 DEF Contract!Next
  <2> QED
    BY <2>4, <2>5
<1>3. CASE ~RetriesLeft(e.tried)
  <2>1. row' = [row EXCEPT ![e.job] = DeadLettered(@)]
    BY <1>3 DEF FailJobWrite
  <2>2. /\ row'[e.job].status = "failed" /\ row'[e.job].attempts = row[e.job].attempts
        /\ \A i \in Job \ {e.job} : row'[i] = row[i]
    BY <1>1, <2>1, RowUpdates DEF TypeOK
  <2>3. PhaseOf(e.job)' = "dead"
    BY <2>2 DEF PhaseOf
  <2>4. Contract!To({e.job}, "dead") /\ UNCHANGED tries /\ doubt' = doubt \ {e.job}
    BY <1>1, <2>2, <2>3, RunEnds
  <2>5. tries[e.job] >= MaxAttempts
    BY <1>1, <1>3, AttemptsAssumption DEF RetriesLeft, Row
  <2>6. Contract!Bury(e.job)
    BY <1>1, <2>4, <2>5 DEF Contract!Bury
  <2> QED
    BY <1>1, <2>6 DEF Contract!Next
<1> QED
  BY <1>2, <1>3

(* Executions that leave without a write: their running jobs wait for the  *)
(* recovery, their jobs in doubt stay done.                                *)
LEMMA RunsLostMap ==
  ASSUME InTime, NEW gone \in SUBSET executing,
         executing' = executing \ gone, row' = row
  PROVE  Contract!Next
<1> USE DEF InTime, IndInv
<1> DEFINE S == {e.job : e \in gone}
<1>1. S \in SUBSET Job /\ \A j \in S : Contract!Held(j)
  BY RunHolds
<1>2. \A j \in Job : Executed(j)' <=> Executed(j) /\ j \notin S
  BY RunHolds DEF Executed
<1>3. \A j \in S : Executed(j)
  BY RunHolds
<1> HIDE DEF S
<1> DEFINE T == {j \in S : phase[j] = "running"}
<1>4. \A j \in Job : PhaseOf(j)' = IF j \in T THEN "waiting" ELSE PhaseOf(j)
  <2>1. ASSUME NEW j \in Job, j \in T PROVE PhaseOf(j)' = "waiting"
    <3>1. row'[j].status = "active" /\ ~Executed(j)'
      BY <1>2, <2>1, MappedState
    <3> QED
      BY <3>1 DEF PhaseOf
  <2>2. ASSUME NEW j \in Job, j \notin T PROVE PhaseOf(j)' = PhaseOf(j)
    <3>1. row'[j] = row[j]
          /\ (row[j].status = "active" => (Executed(j)' <=> Executed(j)))
      BY <1>2, <1>3, <2>2, MappedState
    <3> QED
      BY <3>1 DEF PhaseOf
  <2> QED
    BY <2>1, <2>2
<1>5. UNCHANGED tries /\ doubt' = doubt \ S
  BY <1>2 DEF tries, doubt
<1>6. Contract!Lose(S)
  BY <1>1, <1>4, <1>5, MappedStep DEF Contract!Lose
<1> QED
  BY <1>1, <1>6 DEF Contract!Next

LEMMA FailJobErrorMaps ==
  ASSUME InTime, NEW e \in executing, FailJobError(e)
  PROVE  Contract!Next
<1>1. executing' = executing \ {e} /\ row' = row
  BY DEF FailJobError
<1> QED
  BY <1>1, RunsLostMap

LEMMA CrashMaps ==
  ASSUME InTime, NEW w \in Worker, Crash(w)
  PROVE  Contract!Next
<1>1. executing' = executing \ InFlight(w) /\ row' = row /\ InFlight(w) \in SUBSET executing
  BY DEF Crash, InFlight
<1> QED
  BY <1>1, RunsLostMap

(* Rows whose lease has expired are executed by nobody: they were waiting. *)
LEMMA RecoverStaleJobsMaps ==
  ASSUME InTime, RecoverStaleJobs
  PROVE  Kept
<1> USE DEF InTime, IndInv
<1>1. \A j \in Job : Executed(j)' <=> Executed(j)
  BY DEF RecoverStaleJobs, Executed
<1>2. ASSUME NEW j \in Job
      PROVE  /\ PhaseOf(j)' = PhaseOf(j) /\ row'[j].attempts = row[j].attempts
             /\ row'[j].status = "completed" /\ Executed(j)'
                  <=> row[j].status = "completed" /\ Executed(j)
  <2>1. CASE Stale(j)
    <3>1. ~Executed(j) /\ row[j].status = "active"
      BY <2>1, RunHolds DEF Executed, RunLocked, Stale
    <3>2. row'[j].status = "pending" /\ row'[j].attempts = row[j].attempts
      BY <2>1, RowUpdates DEF RecoverStaleJobs, TypeOK
    <3>3. PhaseOf(j) = "waiting"
      BY <3>1, MappedState
    <3>4. PhaseOf(j)' = "waiting"
      BY <3>2 DEF PhaseOf
    <3> QED
      BY <3>1, <3>2, <3>3, <3>4
  <2>2. CASE ~Stale(j)
    <3>1. row'[j] = row[j]
      BY <2>2 DEF RecoverStaleJobs
    <3> QED
      BY <1>1, <3>1 DEF PhaseOf
  <2> QED
    BY <2>1, <2>2
<1> QED
  BY <1>2, MappedStutter

LEMMA ReplayMaps ==
  ASSUME InTime, NEW S \in SUBSET Job, ReplayDeadLetterJobs(S)
  PROVE  Contract!Next
<1> USE DEF InTime, IndInv
<1>1. \A j \in Job : Executed(j)' <=> Executed(j)
  BY DEF ReplayDeadLetterJobs, Executed
<1>2. /\ \A j \in S : row'[j].status = "pending" /\ row'[j].attempts = 0
                      /\ row[j].status = "failed" /\ phase[j] = "dead"
      /\ \A j \in Job \ S : row'[j] = row[j]
      /\ SingletonIndexOK(row')
  BY NewRows, MappedState DEF ReplayDeadLetterJobs
<1>3. \A j \in Job : PhaseOf(j)' = IF j \in S THEN "waiting" ELSE PhaseOf(j)
  <2>1. \A j \in S : PhaseOf(j)' = "waiting"
    BY <1>2 DEF PhaseOf
  <2>2. \A j \in Job \ S : PhaseOf(j)' = PhaseOf(j)
    BY <1>1, <1>2 DEF PhaseOf
  <2> QED
    BY <2>1, <2>2
<1>4. tries' = [j \in Job |-> IF j \in S THEN 0 ELSE tries[j]]
  BY <1>2 DEF tries
<1>5. doubt' = doubt
  BY <1>1, <1>2 DEF doubt
<1>6. \A i, j \in S : i # j => ~SameSingleton(i, j)
  BY <1>2 DEF SingletonIndexOK, IsLive
<1>7. ASSUME NEW j \in S PROVE ~Contract!TwinLive(j)
  <2>1. ASSUME NEW i \in Job, i # j, Contract!Live(i) PROVE ~SameSingleton(i, j)
    <3>1. IsLive(row[i])
      BY <2>1, MappedState
    <3>2. IsLive(row'[i]) /\ IsLive(row'[j])
      BY <1>2, <3>1 DEF IsLive
    <3> QED
      BY <1>2, <2>1, <3>2 DEF SingletonIndexOK
  <2> QED
    BY <2>1 DEF Contract!TwinLive
<1>8. Contract!Replay(S)
  BY <1>2, <1>3, <1>4, <1>5, <1>6, <1>7, MappedStep DEF Contract!Replay
<1> QED
  BY <1>8 DEF Contract!Next

LEMMA TickMaps ==
  ASSUME InTime, Tick
  PROVE  Kept
<1>1. \A j \in Job : row'[j].status = row[j].status /\ row'[j].attempts = row[j].attempts
  BY DEF Tick, InTime, IndInv, TypeOK, Row
<1>2. \A j \in Job : Executed(j)' <=> Executed(j)
  BY DEF Tick, Executed
<1> QED
  BY <1>1, <1>2, MappedSame

-----------------------------------------------------------------------------
LEMMA StepMaps ==
  ASSUME InTime, [Next]_vars
  PROVE  Contract!Next \/ Kept
<1>1. CASE EnqueueStep
  BY <1>1, EnqueueMaps
<1>2. CASE \E w \in Worker, S \in SUBSET Job : ClaimJobs(w, S)
  BY <1>2, ClaimJobsMaps
<1>3. CASE \E e \in executing : ProcessStep(e)
  BY <1>3, CompleteJobMaps, HandlerThrowsMaps, FailJobWriteMaps DEF ProcessStep
<1>4. CASE RecoverStaleJobs
  BY <1>4, RecoverStaleJobsMaps
<1>5. CASE \E S \in SUBSET Job : ReplayDeadLetterJobs(S)
  BY <1>5, ReplayMaps
<1>6. CASE FaultStep
  BY <1>6, CompleteJobErrorMaps, FailJobErrorMaps, CrashMaps DEF FaultStep
<1>7. CASE Tick
  BY <1>7, TickMaps
<1>8. CASE UNCHANGED vars
  <2>1. \A j \in Job : Executed(j)' <=> Executed(j)
    BY <1>8 DEF vars, Executed
  <2> QED
    BY <1>8, <2>1, MappedSame DEF vars
<1> QED
  BY <1>1, <1>2, <1>3, <1>4, <1>5, <1>6, <1>7, <1>8 DEF Next

(* With leases that outlast the calls they are for (no overrun), the job   *)
(* queue implements its contract: whatever crashes, failing statements and *)
(* interleavings of JobQueueService calls there are, each step is one of   *)
(* the contract's or changes nothing the contract speaks of.               *)
THEOREM ContractImplemented == MaxOverruns = 0 => (Spec => ContractHolds)
<1> SUFFICES ASSUME MaxOverruns = 0 PROVE Spec => ContractHolds
  OBVIOUS
<1>1. ASSUME Init PROVE Contract!Init
  <2>1. \A j \in Job : row[j].status = "absent" /\ row[j].attempts = 0 /\ ~Executed(j)
    BY <1>1 DEF Init, NoRow, Executed
  <2>2. \A j \in Job : PhaseOf(j) = "none"
    BY <2>1 DEF PhaseOf
  <2>3. phase = [j \in Job |-> "none"]
    BY <2>2 DEF phase
  <2>4. tries = [j \in Job |-> 0] /\ doubt = {}
    BY <2>1 DEF tries, doubt
  <2> QED
    BY <2>3, <2>4 DEF Contract!Init
<1>2. Init => InTime
  BY InitInv DEF Init, InTime
<1>3. ASSUME InTime, [Next]_vars PROVE InTime'
  <2> USE <1>3 DEF InTime
  <2> SUFFICES overruns' = 0
    BY NextInv
  <2>1. CASE Tick
    <3>1. overruns' \in Nat /\ overruns' <= 0
      BY <2>1, NextInv DEF Tick, IndInv, TypeOK
    <3> QED
      BY <3>1
  <2>2. CASE EnqueueStep
    BY <2>2 DEF EnqueueStep, EnqueueCheck, EnqueueRecheck, EnqueueInsert,
                      EnqueueAbandoned, faults
  <2>3. CASE \E e \in executing : ProcessStep(e)
    BY <2>3 DEF ProcessStep, CompleteJob, HandlerThrows, FailJobRead, FailJobWrite, faults
  <2>4. CASE FaultStep
    BY <2>4 DEF FaultStep, CompleteJobError, FailJobError, Crash
  <2>5. CASE \E w \in Worker, S \in SUBSET Job : ClaimJobs(w, S)
    BY <2>5 DEF ClaimJobs, faults
  <2>6. CASE RecoverStaleJobs \/ \E S \in SUBSET Job : ReplayDeadLetterJobs(S)
    BY <2>6 DEF RecoverStaleJobs, ReplayDeadLetterJobs, faults
  <2>7. CASE UNCHANGED vars
    BY <2>7 DEF vars
  <2> QED
    BY <2>1, <2>2, <2>3, <2>4, <2>5, <2>6, <2>7 DEF Next
<1>4. ASSUME InTime, [Next]_vars PROVE [Contract!Next]_<<phase, tries, doubt>>
  BY <1>4, StepMaps DEF Kept
<1> QED
  BY <1>1, <1>2, <1>3, <1>4, PTL DEF Spec, ContractHolds, Contract!Spec

=============================================================================
