---------------------------- MODULE JobContract ----------------------------
(***************************************************************************)
(* What the durable queue promises to those who enqueue jobs, without      *)
(* rows, leases, timers or statements: every accepted job waits, runs, and *)
(* ends done or dead.  No two live jobs are twins (share a singleton key), *)
(* at most one execution of a job runs at a time (running is a phase, not  *)
(* a counter), a job dies only after MaxAttempts tries, and a done job     *)
(* stays done unless its executor never heard that it was recorded.        *)
(***************************************************************************)
EXTENDS Integers

CONSTANTS
  Job,          (* Jobs that may be accepted.                              *)
  Twins,        (* Pairs of jobs with one singleton key.                   *)
  MaxAttempts   (* Tries after which a failing job is dead.                *)

VARIABLES
  phase,        (* Where each job stands.                                  *)
  tries,        (* Executions begun since it was accepted or replayed.     *)
  doubt         (* Done jobs whose executor saw an error instead.          *)

Phase == {"none", "waiting", "running", "done", "dead"}

Live(j) == phase[j] \in {"waiting", "running"}
TwinLive(j) == \E i \in Job : i # j /\ <<i, j>> \in Twins /\ Live(i)

Held(j) == phase[j] = "running" \/ j \in doubt

To(S, p) == phase' = [j \in Job |-> IF j \in S THEN p ELSE phase[j]]

Init ==
  /\ phase = [j \in Job |-> "none"]
  /\ tries = [j \in Job |-> 0]
  /\ doubt = {}

(* enqueueJob accepts a job that has no live twin. *)
Accept(j) ==
  /\ phase[j] = "none" /\ ~TwinLive(j)
  /\ To({j}, "waiting")
  /\ tries' = [tries EXCEPT ![j] = 0]
  /\ UNCHANGED doubt

(* A worker takes waiting jobs, and counts the try. *)
Start(S) ==
  /\ \A j \in S : phase[j] = "waiting"
  /\ To(S, "running")
  /\ tries' = [j \in Job |-> IF j \in S THEN tries[j] + 1 ELSE tries[j]]
  /\ UNCHANGED doubt

(* An execution succeeds; its executor may see an error all the same. *)
Finish(j) ==
  /\ phase[j] = "running"
  /\ To({j}, "done")
  /\ doubt' \in {doubt, doubt \cup {j}}
  /\ UNCHANGED tries

(* An execution fails, or is believed to: the job is tried again ...       *)
TryAgain(j) ==
  /\ Held(j) /\ tries[j] < MaxAttempts /\ ~TwinLive(j)
  /\ To({j}, "waiting")
  /\ doubt' = doubt \ {j}
  /\ UNCHANGED tries

(* ... or has used up its tries. *)
Bury(j) ==
  /\ Held(j) /\ tries[j] >= MaxAttempts
  /\ To({j}, "dead")
  /\ doubt' = doubt \ {j}
  /\ UNCHANGED tries

(* Executions vanish with their worker, or without a trace of their end:   *)
(* the running jobs wait again, the done ones are done.                    *)
Lose(S) ==
  /\ \A j \in S : Held(j)
  /\ To({j \in S : phase[j] = "running"}, "waiting")
  /\ doubt' = doubt \ S
  /\ UNCHANGED tries

(* Dead jobs are given a new life. *)
Replay(S) ==
  /\ \A j \in S : phase[j] = "dead"
  /\ \A i, j \in S : i # j => <<i, j>> \notin Twins
  /\ \A j \in S : ~TwinLive(j)
  /\ To(S, "waiting")
  /\ tries' = [j \in Job |-> IF j \in S THEN 0 ELSE tries[j]]
  /\ UNCHANGED doubt

Next ==
  \/ \E j \in Job : Accept(j) \/ Finish(j) \/ TryAgain(j) \/ Bury(j)
  \/ \E S \in SUBSET Job : Start(S) \/ Lose(S) \/ Replay(S)

Spec == Init /\ [][Next]_<<phase, tries, doubt>>
=============================================================================
