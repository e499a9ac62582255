-------------------------- MODULE JobQueueRefines --------------------------
(***************************************************************************)
(* The job queue implements JobContract, as long as no call of processJob  *)
(* outlives its lease (MaxOverruns = 0).                                   *)
(*                                                                         *)
(* A job runs while some call of processJob has it; a pending row waits,   *)
(* and so does an active row nobody executes any more: it waits for its    *)
(* lease to expire and for recoverStaleJobs.  A completed row that a call  *)
(* still has is one whose completeJob took effect and then threw.          *)
(***************************************************************************)
EXTENDS JobQueue

Executed(j) == \E e \in executing : e.job = j

PhaseOf(j) ==
  IF row[j].status = "absent" THEN "none"
  ELSE IF row[j].status = "completed" THEN "done"
  ELSE IF row[j].status = "failed" THEN "dead"
  ELSE IF row[j].status = "active" /\ Executed(j) THEN "running" ELSE "waiting"

phase == [j \in Job |-> PhaseOf(j)]
tries == [j \in Job |-> row[j].attempts]
doubt == {j \in Job : row[j].status = "completed" /\ Executed(j)}

Contract == INSTANCE JobContract
  WITH Twins <- {p \in Job \X Job : SameSingleton(p[1], p[2])}

(* Every behaviour of enqueueJob, claimJobs, completeJob, failJob, the     *)
(* recovery and the replay, with crashes and failing statements between    *)
(* any two of their statements, is one the contract allows.                *)
ContractHolds == Contract!Spec
=============================================================================
