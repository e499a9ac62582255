--------------------------- MODULE CircuitBreaker ---------------------------
(***************************************************************************)
(* The circuit breaker in front of one speech-synthesis provider           *)
(* (CircuitBreaker.ts), and the calls that AudioSynthesisService makes     *)
(* through it.  Each call races a timeout, so it ends within CallLimit.    *)
(*                                                                         *)
(* JavaScript runs each step to its end; a call that awaits the provider   *)
(* leaves the breaker to other calls, whose results may trip it, cool it   *)
(* down and half-open it before the first one ends.  Time is in ticks.     *)
(***************************************************************************)
EXTENDS Integers, FiniteSets

CONSTANTS
  Call,          (* Calls of execute that may overlap.                     *)
  Threshold,     (* failureThreshold                                       *)
  CoolDown,      (* coolDownMs                                             *)
  Window,        (* samplingWindowMs                                       *)
  CallLimit      (* limits.timeoutMs of AudioSynthesisService              *)

ASSUME ThresholdAssumption == Threshold \in Nat \ {0}
ASSUME TimeAssumption == CoolDown \in Nat /\ Window \in Nat /\ CallLimit \in Nat

(* A provider call gives up before a tripped breaker probes again: 10 s    *)
(* against 30 s in AudioSynthesisService.                                  *)
ASSUME BudgetAssumption == CallLimit < CoolDown

VARIABLES
  state,         (* CLOSED, OPEN or HALF_OPEN.                             *)
  failures,      (* failureTimestamps: how many there are of each age.     *)
  openFor,       (* Time since it was opened, up to CoolDown.              *)
  probing,       (* halfOpenProbeInFlight                                  *)
  call           (* The calls: what they saw on entry, time left to them.  *)

vars == <<state, failures, openFor, probing, call>>

State == {"CLOSED", "OPEN", "HALF_OPEN"}
Ages  == 0..Window

TypeOK ==
  /\ state \in State
  /\ failures \in [Ages -> Nat]
  /\ openFor \in 0..CoolDown
  /\ probing \in BOOLEAN
  /\ call \in [Call -> [saw : {"nothing", "CLOSED", "HALF_OPEN"}, left : 0..CallLimit]]

Idle == [saw |-> "nothing", left |-> 0]
NoFailures == [a \in Ages |-> 0]

Running(c) == call[c].saw # "nothing"

Init ==
  /\ state = "CLOSED" /\ failures = NoFailures /\ openFor = 0
  /\ probing = FALSE
  /\ call = [c \in Call |-> Idle]

-----------------------------------------------------------------------------
(* getState: whoever looks at a breaker that cooled down half-opens it.    *)
CooledDown == state = "OPEN" /\ openFor = CoolDown

GetState ==
  /\ CooledDown
  /\ state' = "HALF_OPEN" /\ probing' = FALSE
  /\ UNCHANGED <<failures, openFor, call>>

(* Mutant: every call is let through a half-open breaker. *)
AdmitsAll == state # "OPEN"

(* What execute lets through; it looks with getState.                      *)
Admits == ~CooledDown /\ state # "OPEN" /\ ~(state = "HALF_OPEN" /\ probing)

Execute(c) ==
  /\ ~Running(c) /\ Admits
  /\ call' = [call EXCEPT ![c] = [saw |-> state, left |-> CallLimit]]
  /\ probing' = (probing \/ state = "HALF_OPEN")
  /\ UNCHANGED <<state, failures, openFor>>

(* The finally clause of execute. *)
Leave(c) ==
  /\ call' = [call EXCEPT ![c] = Idle]
  /\ probing' = (probing /\ call[c].saw # "HALF_OPEN")

(* Mutant: the old failures are kept when the breaker closes. *)
KeptOnClosing == failures

LeftOnClosing == NoFailures

(* recordSuccess; pruning changes nothing that counts.                     *)
Succeed(c) ==
  /\ Running(c) /\ Leave(c)
  /\ IF state = "HALF_OPEN"
     THEN state' = "CLOSED" /\ failures' = LeftOnClosing
     ELSE UNCHANGED <<state, failures>>
  /\ UNCHANGED openFor

(* Failures older than the window are pruned before they are counted; those *)
(* of one age are numbered from 1.                                         *)
Recent(f) == UNION {{a} \X (1..f[a]) : a \in Ages}
Total(f) == Cardinality(Recent(f))

(* Mutant: the moment at which the breaker opens is not noted. *)
OpenedEarlier == openFor

OpenedNow == 0

(* recordFailure: the provider failed, or the timeout came first.          *)
Fail(c) ==
  /\ Running(c) /\ Leave(c)
  /\ failures' = IF state = "CLOSED" THEN [failures EXCEPT ![0] = @ + 1] ELSE failures
  /\ IF state = "HALF_OPEN" \/ (state = "CLOSED" /\ Total(failures') >= Threshold)
     THEN state' = "OPEN" /\ openFor' = OpenedNow
     ELSE UNCHANGED <<state, openFor>>

Reset ==
  /\ state' = "CLOSED" /\ failures' = NoFailures /\ probing' = FALSE
  /\ UNCHANGED <<openFor, call>>

(* Mutant: nothing ends a call that the provider does not answer. *)
Unlimited == TRUE

(* The race of the provider against the timeout ends every call in time.   *)
WithinLimit == \A c \in Call : Running(c) => call[c].left > 0

Tick ==
  /\ WithinLimit
  /\ openFor' = IF openFor = CoolDown THEN openFor ELSE openFor + 1
  /\ failures' = [a \in Ages |-> IF a = 0 THEN 0 ELSE failures[a - 1]]
  /\ call' = [c \in Call |-> IF Running(c) THEN [call[c] EXCEPT !.left = @ - 1] ELSE call[c]]
  /\ UNCHANGED <<state, probing>>

Next ==
  \/ GetState \/ Reset \/ Tick
  \/ \E c \in Call : Execute(c) \/ Succeed(c) \/ Fail(c)

Spec == Init /\ [][Next]_vars

-----------------------------------------------------------------------------
(* Properties. *)

(* A half-open breaker has at most one call in flight, the probe it let    *)
(* through itself: no call from before it opened is still out whose result *)
(* would decide in the probe's place.  And halfOpenProbeInFlight is set    *)
(* only while that probe runs, so the breaker cannot lock itself up.       *)
OnlyProbe ==
  state = "HALF_OPEN" =>
    /\ \A c, d \in Call : Running(c) /\ Running(d) => c = d
    /\ \A c \in Call : Running(c) => call[c].saw = "HALF_OPEN"
    /\ probing <=> \E c \in Call : Running(c)

(* A closed breaker has fewer recent failures than trip it, also after a   *)
(* recovery: it does not trip again on failures from before it opened.     *)
BelowThreshold == state = "CLOSED" => Total(failures) < Threshold

(* A half-open breaker is closed or opened by the result of its probe      *)
(* alone, or by reset.                                                     *)
ProbeDecides ==
  [][state = "HALF_OPEN" /\ state' # "HALF_OPEN" =>
       \/ \E c \in Call : call[c].saw = "HALF_OPEN" /\ call'[c].saw = "nothing"
       \/ Reset]_vars

(* While the breaker is open, calls from before it opened run out.         *)
StaleRunOut ==
  state = "OPEN" => \A c \in Call : Running(c) => call[c].left + openFor <= CallLimit

IndInv == TypeOK /\ OnlyProbe /\ StaleRunOut
=============================================================================
