----------------------------- MODULE MCJobQueue -----------------------------
(* Instances of JobQueue for TLC.  One tick is ten seconds: the lease of   *)
(* 30 s is 3 ticks, the first retry waits 2 ticks.                         *)
EXTENDS JobQueueRefines, TLC

CONSTANTS j1, j2, j3, k1, i1, w1, w2

(* j1 and j2 are requests for the same singleton key, as two scans for one *)
(* due reminder make them; j3 has none.                                    *)
MCSingletonOf == [j \in {j1, j2, j3} |-> IF j = j3 THEN NoKey ELSE k1]

(* j2 and j3 carry the same idempotency key. *)
MCIdempotencyOf == [j \in {j1, j2, j3} |-> IF j = j1 THEN NoKey ELSE i1]

MCSymmetry == Permutations(Worker)
=============================================================================
