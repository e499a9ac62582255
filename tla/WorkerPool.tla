----------------------------- MODULE WorkerPool -----------------------------
(***************************************************************************)
(* One worker process of scheduler/worker.ts: the 2 s poll, the count of   *)
(* active jobs that limits it, and the graceful shutdown.                  *)
(*                                                                         *)
(* setInterval starts a poll without waiting for the previous one, and a   *)
(* poll awaits the claim between reading the free slots and adding what it *)
(* got to activeJobsCount, so polls overlap.  The rows of the queue are    *)
(* only counted: JobQueue tells what becomes of each.                      *)
(***************************************************************************)
EXTENDS Integers, FiniteSets

CONSTANTS
  Poll,          (* Calls of pollAndProcessJobs that may overlap.          *)
  Concurrency,   (* WORKER_CONCURRENCY                                     *)
  MaxJobs        (* Bound: jobs that become due.                           *)

ASSUME PoolAssumption == IsFiniteSet(Poll) /\ Concurrency \in Nat \ {0} /\ MaxJobs \in Nat

VARIABLES
  due,               (* Rows that can be claimed.                          *)
  poll,              (* The calls of pollAndProcessJobs.                   *)
  activeJobsCount,
  handling,          (* Calls of processJob in flight.                     *)
  isShuttingDown,
  shutdowns,         (* Calls of gracefulShutdown that wait.               *)
  exit,              (* "no" while the process runs.                       *)
  settled,           (* Jobs completed, failed or put back by processJob.  *)
  orphaned           (* Rows left active with nobody to execute them.      *)

vars == <<due, poll, activeJobsCount, handling, isShuttingDown, shutdowns,
          exit, settled, orphaned>>
rest == <<isShuttingDown, shutdowns, exit>>

Signal == {"SIGTERM", "SIGINT"}

(* slots: free slots that were read.  got: rows the claim returned.        *)
TypeOK ==
  /\ due \in 0..MaxJobs /\ handling \in Nat /\ settled \in Nat /\ orphaned \in Nat
  /\ activeJobsCount \in Nat
  /\ poll \in [Poll -> [pc : {"idle", "claiming", "claimed"},
                        slots : 0..Concurrency, got : 0..Concurrency]]
  /\ isShuttingDown \in BOOLEAN /\ shutdowns \subseteq Signal
  /\ exit \in {"no", "clean", "forced"}

Idle == [pc |-> "idle", slots |-> 0, got |-> 0]

Init ==
  /\ due = MaxJobs
  /\ poll = [p \in Poll |-> Idle]
  /\ activeJobsCount = 0 /\ handling = 0 /\ settled = 0 /\ orphaned = 0
  /\ isShuttingDown = FALSE /\ shutdowns = {} /\ exit = "no"

-----------------------------------------------------------------------------
(* pollAndProcessJobs; clearInterval and isShuttingDown stop new polls.    *)

FreeSlots == Concurrency - activeJobsCount

(* Mutant: a poll does not look whether there are any. *)
SlotsUnchecked == TRUE

HasSlots == FreeSlots > 0

StartPoll(p) ==
  /\ exit = "no" /\ ~isShuttingDown
  /\ poll[p] = Idle /\ HasSlots
  /\ poll' = [poll EXCEPT ![p] = [pc |-> "claiming", slots |-> FreeSlots, got |-> 0]]
  /\ UNCHANGED <<due, activeJobsCount, handling, settled, orphaned, rest>>

(* The claim commits in the database: its rows are active from here on.    *)
Claim(p, n) ==
  /\ exit = "no" /\ poll[p].pc = "claiming"
  /\ n <= poll[p].slots /\ n <= due
  /\ due' = due - n
  /\ poll' = [poll EXCEPT ![p] = IF n = 0 THEN Idle ELSE [@ EXCEPT !.pc = "claimed", !.got = n]]
  /\ UNCHANGED <<activeJobsCount, handling, settled, orphaned, rest>>

(* The query fails, before or after it took effect; the poll only logs it. *)
ClaimFails(p) ==
  /\ exit = "no" /\ poll[p].pc # "idle"
  /\ poll' = [poll EXCEPT ![p] = Idle]
  /\ orphaned' = orphaned + poll[p].got
  /\ UNCHANGED <<due, activeJobsCount, handling, settled, rest>>

(* Mutants: a poll counts as one job; jobs beyond the free slots that are  *)
(* left when the answer arrives are dropped.                               *)
CountedOnce(n) == activeJobsCount + 1
HandledIfFree(n) == IF n <= FreeSlots THEN n ELSE IF HasSlots THEN FreeSlots ELSE 0

Counted(n) == activeJobsCount + n
Handled(n) == n

(* The answer arrives: the jobs are counted and their handlers started.    *)
StartJobs(p) ==
  /\ exit = "no" /\ poll[p].pc = "claimed"
  /\ activeJobsCount' = Counted(poll[p].got)
  /\ handling' = handling + Handled(poll[p].got)
  /\ poll' = [poll EXCEPT ![p] = Idle]
  /\ UNCHANGED <<due, settled, orphaned, rest>>

(* processJob settles, whichever way, and the finally clause counts down.  *)
EndJob ==
  /\ exit = "no" /\ handling > 0
  /\ handling' = handling - 1 /\ settled' = settled + 1
  /\ activeJobsCount' = IF activeJobsCount = 0 THEN 0 ELSE activeJobsCount - 1
  /\ UNCHANGED <<due, poll, orphaned, rest>>

-----------------------------------------------------------------------------
(* gracefulShutdown. *)

Shutdown(s) ==
  /\ exit = "no" /\ s \notin shutdowns
  /\ isShuttingDown' = TRUE /\ shutdowns' = shutdowns \cup {s}
  /\ UNCHANGED <<due, poll, activeJobsCount, handling, exit, settled, orphaned>>

(* Rows the process was given: those of its handlers, and those a poll has *)
(* claimed and not yet started, numbered from 1.                           *)
Claimed == {pn \in Poll \X (1..Concurrency) : pn[2] <= poll[pn[1]].got}
InHand == handling + Cardinality(Claimed)

(* process.exit: what the process had in hand stays active in the table.   *)
Exit(how) ==
  /\ exit = "no" /\ shutdowns # {} /\ exit' = how
  /\ orphaned' = orphaned + InHand
  /\ handling' = 0 /\ activeJobsCount' = 0
  /\ poll' = [p \in Poll |-> Idle]
  /\ UNCHANGED <<due, isShuttingDown, shutdowns, settled>>

(* Mutant: the process does not wait for its jobs. *)
DrainedAtOnce == TRUE

Drained == activeJobsCount = 0

ExitDrained == Drained /\ Exit("clean")

(* The 10 s timer of the shutdown fires, whatever is left. *)
ExitForced == Exit("forced")

Next ==
  \/ \E p \in Poll :
       \/ StartPoll(p) \/ ClaimFails(p) \/ StartJobs(p)
       \/ \E n \in 0..Concurrency : Claim(p, n)
  \/ EndJob
  \/ \E s \in Signal : Shutdown(s)
  \/ ExitDrained \/ ExitForced

Spec == Init /\ [][Next]_vars

(* gracefulShutdown looks at activeJobsCount again every 500 ms.  Nothing  *)
(* else is owed: a handler need not end, nor a claim be answered, and the  *)
(* timer may be late.                                                      *)
FairSpec == Spec /\ WF_vars(ExitDrained)

-----------------------------------------------------------------------------
(* Properties. *)

(* activeJobsCount is what is being handled, over overlapping polls and    *)
(* settling jobs; Math.max(0, ...) never hides a miscount.                 *)
CountExact == activeJobsCount = handling

(* A job the pool has claimed is being handled, settled, or orphaned by a  *)
(* failing claim or an exit: none is dropped between the claim and the     *)
(* handlers.                                                               *)
JobsConserved == due + InHand + settled + orphaned = MaxJobs

(* How far overlapping polls can go beyond WORKER_CONCURRENCY: what a poll *)
(* adds was free when it looked, so P overlapping polls handle at most P   *)
(* times the limit.                                                        *)
Overload == handling <= Cardinality(Poll) * Concurrency

(* A clean exit cuts no handler short, and what it leaves active with      *)
(* nobody to execute it are the rows of a claim that is still in flight:   *)
(* activeJobsCount does not know of those.                                 *)
CleanExitDrains ==
  [][exit' = "clean" /\ exit = "no" =>
       /\ handling = 0
       /\ orphaned' > orphaned => \E p \in Poll : poll[p].got > 0]_vars

(* A signalled process whose handlers all end ends by itself, without the  *)
(* timer: polls that were past the check of isShuttingDown still add to    *)
(* activeJobsCount, which nevertheless comes back to zero for good.        *)
ShutdownDrains == []<>(handling = 0) => (shutdowns # {} ~> exit # "no")

(* The slot count and the rows agree with what is being handled, whatever  *)
(* polls and shutdowns overlap.                                            *)
PoolSound == TypeOK /\ CountExact /\ JobsConserved /\ Overload
=============================================================================
