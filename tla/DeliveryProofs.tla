--------------------------- MODULE DeliveryProofs ---------------------------
(***************************************************************************)
(* Proofs about CircuitBreaker and Delivery.  What is proved of the        *)
(* breaker rests on BudgetAssumption: a call gives up before an open       *)
(* breaker has cooled down, so that nothing from before it opened is left  *)
(* when it half-opens (StaleRunOut).  A delivery uses the breaker of the   *)
(* first provider only as CircuitBreaker allows, so this holds under any   *)
(* number of deliveries; and a response reaches the user once, up to the   *)
(* answers of the platform that were lost.                                 *)
(***************************************************************************)
EXTENDS Delivery, FiniteSetTheorems, TLAPS

(* Initially no call runs and the breaker is closed. *)
LEMMA InitEstablishes == Init => IndInv
<1> SUFFICES ASSUME Init PROVE IndInv
  OBVIOUS
<1>1. TypeOK
  <2>1. failures \in [Ages -> Nat]
    BY DEF Init, NoFailures
  <2>2. call \in [Call -> [saw : {"nothing", "CLOSED", "HALF_OPEN"}, left : 0..CallLimit]]
    BY TimeAssumption DEF Init, Idle
  <2>3. state \in State /\ probing \in BOOLEAN
    BY Zenon DEF Init, State
  <2>4. openFor \in 0..CoolDown
    BY TimeAssumption DEF Init
  <2> QED BY <2>1, <2>2, <2>3, <2>4 DEF TypeOK
<1>2. state = "CLOSED"
  BY DEF Init
<1> QED BY <1>1, <1>2 DEF IndInv, OnlyProbe, StaleRunOut

(* Types are kept by every step, whatever the constants are. *)
LEMMA TypeKept == TypeOK /\ [Next]_vars => TypeOK'
<1> SUFFICES ASSUME TypeOK, [Next]_vars PROVE TypeOK'
  OBVIOUS
<1> USE TimeAssumption DEF TypeOK, State, Ages, Idle, NoFailures, Running
<1>1. CASE GetState
  BY <1>1 DEF GetState
<1>2. CASE Reset
  BY <1>2 DEF Reset
<1>3. CASE Tick
  BY <1>3 DEF Tick, WithinLimit
<1>4. ASSUME NEW c \in Call, Execute(c) PROVE TypeOK'
  BY <1>4 DEF Execute, Admits
<1>5. ASSUME NEW c \in Call, Succeed(c) PROVE TypeOK'
  BY <1>5 DEF Succeed, Leave, LeftOnClosing
<1>6. ASSUME NEW c \in Call, Fail(c) PROVE TypeOK'
  <2>1. failures' \in [Ages -> Nat]
    BY <1>6 DEF Fail
  <2>2. state' \in State /\ openFor' \in 0..CoolDown
    BY <1>6 DEF Fail, OpenedNow
  <2> QED BY <2>1, <2>2, <1>6 DEF Fail, Leave
<1>7. CASE UNCHANGED vars
  BY <1>7 DEF vars
<1> QED BY <1>1, <1>2, <1>3, <1>4, <1>5, <1>6, <1>7 DEF Next

(* The calls that an opening breaker leaves behind, and those of a         *)
(* half-open one, are kept track of by every step.                         *)
LEMMA ProbeKept == IndInv /\ [Next]_vars => OnlyProbe' /\ StaleRunOut'
<1> SUFFICES ASSUME IndInv, [Next]_vars PROVE OnlyProbe' /\ StaleRunOut'
  OBVIOUS
<1>t. TypeOK'
  BY TypeKept DEF IndInv
<1> USE TimeAssumption, BudgetAssumption, <1>t
    DEF IndInv, TypeOK, OnlyProbe, StaleRunOut, State, Running
<1>1. CASE GetState
  <2>1. \A c \in Call : ~Running(c)
    BY <1>1 DEF GetState, CooledDown
  <2> QED BY <2>1, <1>1 DEF GetState
<1>2. CASE Reset
  BY <1>2 DEF Reset
<1>3. CASE Tick
  <2>1. \A c \in Call : call'[c].saw = call[c].saw
    BY <1>3 DEF Tick
  <2>2. OnlyProbe'
    BY <2>1, <1>3 DEF Tick
  <2>3. ASSUME state' = "OPEN", NEW c \in Call, Running(c)'
        PROVE call'[c].left + openFor' <= CallLimit
    <3>1. Running(c) /\ call[c].left + openFor <= CallLimit
      BY <2>1, <2>3, <1>3 DEF Tick
    <3>2. call'[c].left = call[c].left - 1 /\ openFor' <= openFor + 1
      BY <3>1, <1>3 DEF Tick
    <3> QED BY <3>1, <3>2
  <2> QED BY <2>2, <2>3
<1>4. ASSUME NEW c \in Call, Execute(c) PROVE OnlyProbe' /\ StaleRunOut'
  BY <1>4 DEF Execute, Admits
<1>5. ASSUME NEW c \in Call, Succeed(c) PROVE OnlyProbe' /\ StaleRunOut'
  BY <1>5 DEF Succeed, Leave, Idle
<1>6. ASSUME NEW c \in Call, Fail(c) PROVE OnlyProbe' /\ StaleRunOut'
  <2>1. state' # "HALF_OPEN"
    BY <1>6 DEF Fail
  <2>2. ASSUME state' = "OPEN", NEW d \in Call, Running(d)'
        PROVE call'[d].left + openFor' <= CallLimit
    <3>1. Running(d) /\ call'[d] = call[d]
      BY <1>6, <2>2 DEF Fail, Leave, Idle
    <3>2. CASE state = "OPEN"
      BY <1>6, <3>1, <3>2 DEF Fail
    <3>3. CASE state # "OPEN"
      BY <1>6, <2>2, <3>1, <3>3 DEF Fail, OpenedNow
    <3> QED BY <3>2, <3>3
  <2> QED BY <2>1, <2>2
<1>7. CASE UNCHANGED vars
  BY <1>7 DEF vars
<1> QED BY <1>1, <1>2, <1>3, <1>4, <1>5, <1>6, <1>7 DEF Next

(* IndInv holds in every reachable state. *)
THEOREM BreakerInductive == Spec => []IndInv
<1>1. Init => IndInv
  BY InitEstablishes
<1>2. IndInv /\ [Next]_vars => IndInv'
  BY TypeKept, ProbeKept DEF IndInv
<1> QED BY <1>1, <1>2, PTL DEF Spec

(* The types are right in every reachable state. *)
THEOREM BreakerTypes == Spec => []TypeOK
<1>1. IndInv => TypeOK
  BY DEF IndInv
<1> QED BY <1>1, BreakerInductive, PTL

(* A half-open breaker has the probe in flight and nothing else, for any   *)
(* number of callers, as long as a call ends before the cool-down does.    *)
THEOREM OnlyProbeHolds == Spec => []OnlyProbe
<1>1. IndInv => OnlyProbe
  BY DEF IndInv
<1> QED BY <1>1, BreakerInductive, PTL

(* What half-opens is closed or opened again by the probe's own result.    *)
THEOREM ProbeDecidesHolds == Spec => ProbeDecides
<1> DEFINE Decided == state = "HALF_OPEN" /\ state' # "HALF_OPEN" =>
      \/ \E c \in Call : call[c].saw = "HALF_OPEN" /\ call'[c].saw = "nothing"
      \/ Reset
<1>1. IndInv /\ [Next]_vars => [Decided]_vars
  <2> SUFFICES ASSUME IndInv, Next, state = "HALF_OPEN", state' # "HALF_OPEN", ~Reset
               PROVE \E c \in Call : call[c].saw = "HALF_OPEN" /\ call'[c].saw = "nothing"
    OBVIOUS
  <2>1. PICK c \in Call : Succeed(c) \/ Fail(c)
    BY DEF Next, GetState, Tick, Execute
  <2>2. call[c].saw = "HALF_OPEN"
    BY <2>1 DEF IndInv, OnlyProbe, Succeed, Fail
  <2>3. call'[c].saw = "nothing"
    BY <2>1 DEF IndInv, TypeOK, Succeed, Fail, Leave, Idle
  <2> QED BY <2>2, <2>3
<1> QED BY <1>1, BreakerInductive, PTL DEF Spec, ProbeDecides

(* A failure counts once: the first of an age follows the last so far, and *)
(* time moves all of them, drops the oldest and adds none.                 *)
LEMMA CountsMove ==
  ASSUME failures \in [Ages -> Nat], IsFiniteSet(Recent(failures))
  PROVE  /\ IsFiniteSet(Recent([failures EXCEPT ![0] = @ + 1]))
         /\ Tick => IsFiniteSet(Recent(failures')) /\ Total(failures') <= Total(failures)
<1>1. 0 \in Ages /\ Window \in Nat
  BY TimeAssumption DEF Ages
<1>2. IsFiniteSet(Recent([failures EXCEPT ![0] = @ + 1]))
  <2> DEFINE R == Recent(failures)
             new == <<0, failures[0] + 1>>
             more == [failures EXCEPT ![0] = @ + 1]
  <2>1. Recent(more) = R \cup {new}
    BY <1>1 DEF Recent, Ages
  <2>2. IsFiniteSet(R)
    OBVIOUS
  <2> HIDE DEF R, new, more
  <2>3. IsFiniteSet(R \cup {new})
    BY <2>2, FS_AddElement
  <2>4. IsFiniteSet(Recent(more))
    BY <2>1, <2>3
  <2> QED BY <2>4 DEF more
<1>3. ASSUME Tick
      PROVE  IsFiniteSet(Recent(failures')) /\ Total(failures') <= Total(failures)
  <2> DEFINE Back == [ai \in Recent(failures') |-> <<ai[1] - 1, ai[2]>>]
  <2>1. failures' = [a \in Ages |-> IF a = 0 THEN 0 ELSE failures[a - 1]]
    BY <1>3 DEF Tick
  <2>2. \A ai \in Recent(failures') :
          ai[1] \in Ages /\ ai = <<ai[1], ai[2]>> /\ <<ai[1] - 1, ai[2]>> \in Recent(failures)
    BY <1>1, <2>1 DEF Recent, Ages
  <2>3. Back \in Injection(Recent(failures'), Recent(failures))
    <3>1. Back \in [Recent(failures') -> Recent(failures)]
      BY <2>2
    <3>2. ASSUME NEW x \in Recent(failures'), NEW y \in Recent(failures'), Back[x] = Back[y]
          PROVE  x = y
      <4>1. x[1] - 1 = y[1] - 1 /\ x[2] = y[2]
        BY <3>2
      <4>2. x[1] \in Int /\ y[1] \in Int
        <5>1. x[1] \in Ages /\ y[1] \in Ages
          BY <2>2
        <5>2. \A a \in Ages : a \in Int
          BY DEF Ages
        <5> QED BY <5>1, <5>2
      <4>3. x[1] = y[1]
        BY <4>1, <4>2
      <4> QED BY <2>2, <4>1, <4>3
    <3> QED BY <3>1, <3>2 DEF Injection, IsInjective
  <2> QED BY <2>3, FS_Injection DEF Total
<1> QED BY <1>2, <1>3

(* A closed breaker has fewer recent failures than trip it, through every  *)
(* success, failure, reset and passing of time.                            *)
FailuresCounted == IsFiniteSet(Recent(failures)) /\ BelowThreshold

LEMMA FailuresKept == TypeOK /\ FailuresCounted /\ [Next]_vars => FailuresCounted'
<1> SUFFICES ASSUME TypeOK, FailuresCounted, [Next]_vars PROVE FailuresCounted'
  OBVIOUS
<1>0. IsFiniteSet(Recent(NoFailures)) /\ Total(NoFailures) < Threshold
  <2>1. Recent(NoFailures) = {}
    BY DEF Recent, NoFailures
  <2> QED BY <2>1, FS_EmptySet, ThresholdAssumption DEF Total
<1>1. /\ IsFiniteSet(Recent([failures EXCEPT ![0] = @ + 1]))
      /\ Tick => IsFiniteSet(Recent(failures')) /\ Total(failures') <= Total(failures)
      /\ Total(failures) \in Nat
  BY CountsMove, FS_CardinalityType DEF TypeOK, FailuresCounted, Total
<1>2. CASE failures' = failures /\ (state' = "CLOSED" => state = "CLOSED")
  BY <1>2 DEF FailuresCounted, BelowThreshold
<1>3. CASE failures' = NoFailures
  BY <1>0, <1>3 DEF FailuresCounted, BelowThreshold
<1>4. CASE Tick
  <2>1. Total(failures') \in Nat /\ state' = state
    BY <1>1, <1>4, FS_CardinalityType DEF Total, Tick
  <2> QED BY <1>1, <1>4, <2>1, ThresholdAssumption DEF FailuresCounted, BelowThreshold
<1>5. ASSUME NEW c \in Call, Fail(c) PROVE FailuresCounted'
  <2>1. CASE state = "CLOSED"
    <3>1. failures' = [failures EXCEPT ![0] = @ + 1]
      BY <1>5, <2>1 DEF Fail
    <3>2. Total(failures') \in Nat /\ IsFiniteSet(Recent(failures'))
      BY <1>1, <3>1, FS_CardinalityType DEF Total
    <3>3. state' = "CLOSED" => ~(Total(failures') >= Threshold)
      BY <1>5, <2>1 DEF Fail
    <3> QED BY <3>2, <3>3, ThresholdAssumption DEF FailuresCounted, BelowThreshold
  <2>2. CASE state # "CLOSED"
    BY <1>2, <1>5, <2>2 DEF Fail
  <2> QED BY <2>1, <2>2
<1>6. ASSUME NEW c \in Call, Succeed(c) PROVE FailuresCounted'
  BY <1>2, <1>3, <1>6 DEF Succeed, LeftOnClosing
<1>7. ASSUME NEW c \in Call, Execute(c) PROVE FailuresCounted'
  BY <1>2, <1>7 DEF Execute
<1> QED BY <1>2, <1>3, <1>4, <1>5, <1>6, <1>7 DEF Next, GetState, Reset, vars

(* The breaker trips on the failures of one sampling window, and on no     *)
(* failure from before it was last closed.                                 *)
THEOREM BelowThresholdHolds == Spec => []BelowThreshold
<1>1. Init => FailuresCounted
  <2>1. Recent(NoFailures) = {}
    BY DEF Recent, NoFailures
  <2> QED BY <2>1, FS_EmptySet, ThresholdAssumption DEF Init, FailuresCounted, BelowThreshold, Total
<1>2. FailuresCounted => BelowThreshold
  BY DEF FailuresCounted
<1> QED BY <1>1, <1>2, FailuresKept, BreakerTypes, PTL DEF Spec

(* While it is open, the calls that it let through before run out.         *)
THEOREM StaleRunOutHolds == Spec => []StaleRunOut
<1>1. IndInv => StaleRunOut
  BY DEF IndInv
<1> QED BY <1>1, BreakerInductive, PTL

-----------------------------------------------------------------------------
(* The deliveries that use the breaker.                                    *)

(* Every step of a delivery is a step of the breaker, or leaves it alone.  *)
LEMMA StepOfBreaker == DeliveryNext => Next \/ UNCHANGED breaker
<1> SUFFICES ASSUME DeliveryNext PROVE Next \/ UNCHANGED breaker
  OBVIOUS
<1>1. ASSUME NEW c \in Call, NEW text \in Text, NEW voice \in BOOLEAN,
             DeliverResponse(c, text, voice)
      PROVE  UNCHANGED breaker
  BY <1>1 DEF DeliverResponse
<1>2. ASSUME NEW c \in Call, LookAtFirst(c) PROVE Next
  BY <1>2 DEF LookAtFirst, Next
<1>3. ASSUME NEW c \in Call, TryFirst(c) \/ FirstSpeaks(c) \/ FirstFails(c) PROVE Next
  BY <1>3 DEF TryFirst, FirstSpeaks, FirstFails, Next
<1>4. ASSUME NEW c \in Call, CacheHit(c) \/ SkipFirst(c) \/ SecondSpeaks(c) \/ SecondFails(c)
      PROVE  UNCHANGED breaker
  BY <1>4 DEF CacheHit, SkipFirst, SecondSpeaks, SecondFails
<1>5. ASSUME NEW c \in Call, Send(c) PROVE UNCHANGED breaker
  BY <1>5 DEF Send, Upload, SendAudio, AudioFails, SendText, TextFails
<1>6. ASSUME NEW i \in DOMAIN cache, Age(i) PROVE UNCHANGED breaker
  BY <1>6 DEF Age
<1>7. CASE BreakerStep
  BY <1>7 DEF BreakerStep, Next
<1> QED BY <1>1, <1>2, <1>3, <1>4, <1>5, <1>6, <1>7 DEF DeliveryNext, Synthesize

(* Delivery takes its steps of the breaker from CircuitBreaker, so what is *)
(* proved of the breaker carries over to it.                               *)
LEMMA BreakerSteps == DeliverySpec => Spec
<1>1. DeliveryInit => Init
  BY DEF DeliveryInit
<1>2. [DeliveryNext]_deliveryVars => [Next]_vars
  <2> SUFFICES ASSUME [DeliveryNext]_deliveryVars PROVE [Next]_vars
    OBVIOUS
  <2>1. CASE DeliveryNext
    BY <2>1, StepOfBreaker DEF breaker, vars
  <2>2. CASE UNCHANGED deliveryVars
    BY <2>2 DEF deliveryVars, breaker, vars
  <2> QED BY <2>1, <2>2
<1> QED BY <1>1, <1>2, PTL DEF DeliverySpec, Spec

(* Under deliveries, too, a half-open breaker has its probe in flight or   *)
(* nothing: synthesize cannot lock a provider out for good.                *)
THEOREM DeliveryProbesAlone == DeliverySpec => []OnlyProbe
BY BreakerSteps, OnlyProbeHolds, PTL

-----------------------------------------------------------------------------
(* Messages. *)

Counters ==
  /\ msg \in [Call -> Message \cup [pc : End]]
  /\ heard \in [Call -> Nat] /\ shown \in [Call -> Nat] /\ lost \in [Call -> Nat]

(* Whoever has not come to an end reached the user only by requests whose  *)
(* answer was lost; so did a delivery that ended in an error.              *)
UnderWay == \A c \in Call : ~At(c, "voice") /\ ~At(c, "sent") => heard[c] + shown[c] <= lost[c]

MessageInv == Counters /\ UnderWay /\ ReportedIsReceived /\ CopiesPaid

(* The requests of a message stay within what the adapter sends.           *)
WithinTries(c) == msg[c].pc \notin End => msg[c].tries < Attempts(c)

Under == {"synthesize", "first", "second", "upload", "audio", "text"}

(* A call that is under way has a message, wherever it goes next.          *)
LEMMA Continued ==
  ASSUME Counters, NEW c \in Call, NEW pc \in Under \cup End, ~Ended(c), Continue(c, pc)
  PROVE  /\ msg' \in [Call -> Message \cup [pc : End]]
         /\ msg'[c].pc = pc
         /\ WithinTries(c)'
         /\ \A d \in Call \ {c} : msg'[d] = msg[d]
<1>1. msg[c] \in Message
  BY DEF Counters, Ended
<1>2. CASE pc \in End
  BY <1>2 DEF Continue, Counters, WithinTries
<1>3. CASE pc \notin End
  <2>1. [msg[c] EXCEPT !.pc = pc, !.tries = 0] \in Message
    <3>1. PICK old \in Under, t \in Text, n \in 0..MaxRetries :
            msg[c] = [pc |-> old, text |-> t, tries |-> n]
      BY <1>1 DEF Message, Under
    <3>2. [msg[c] EXCEPT !.pc = pc, !.tries = 0] = [pc |-> pc, text |-> t, tries |-> 0]
      <4>1. [msg[c] EXCEPT !.pc = pc] = [pc |-> pc, text |-> t, tries |-> n]
        BY <3>1
      <4>2. [[pc |-> pc, text |-> t, tries |-> n] EXCEPT !.tries = 0]
              = [pc |-> pc, text |-> t, tries |-> 0]
        OBVIOUS
      <4> QED BY <4>1, <4>2
    <3>3. pc \in Under /\ 0 \in 0..MaxRetries
      BY <1>3, DeliveryAssumption
    <3> QED BY <3>2, <3>3 DEF Message, Under
  <2>2. /\ [msg[c] EXCEPT !.pc = pc, !.tries = 0].pc = pc
        /\ [msg[c] EXCEPT !.pc = pc, !.tries = 0].tries = 0
    BY <1>1 DEF Message
  <2>3. msg' = [msg EXCEPT ![c] = [msg[c] EXCEPT !.pc = pc, !.tries = 0]]
    BY <1>3 DEF Continue
  <2>4. 0 < Attempts(c)
    BY DeliveryAssumption DEF Attempts
  <2> HIDE DEF Message
  <2>5. /\ msg' \in [Call -> Message \cup [pc : End]]
        /\ msg'[c].pc = pc /\ msg'[c].tries = 0
        /\ \A d \in Call \ {c} : msg'[d] = msg[d]
    BY <2>1, <2>2, <2>3 DEF Counters
  <2> QED BY <2>4, <2>5 DEF WithinTries
<1> QED BY <1>2, <1>3

(* The same for a request that failed and may be sent again.               *)
LEMMA Retried ==
  ASSUME Counters, NEW c \in Call, NEW pc \in Under \cup End, ~Ended(c), Failed(c, pc)
  PROVE  /\ msg' \in [Call -> Message \cup [pc : End]]
         /\ msg'[c].pc \in {msg[c].pc, pc}
         /\ WithinTries(c)'
         /\ \A d \in Call \ {c} : msg'[d] = msg[d]
<1>1. CASE ~RetryLeft(c)
  BY <1>1, Continued DEF Failed
<1>2. CASE RetryLeft(c)
  <2>1. msg[c] \in Message
    BY DEF Counters, Ended
  <2>2. msg[c].tries + 1 \in 0..MaxRetries
    BY <1>2, <2>1, DeliveryAssumption DEF RetryLeft, Attempts, Message
  <2>3. msg' = [msg EXCEPT ![c] = [msg[c] EXCEPT !.tries = msg[c].tries + 1]]
    BY <1>2 DEF Failed
  <2>4. /\ [msg[c] EXCEPT !.tries = msg[c].tries + 1] \in Message
        /\ [msg[c] EXCEPT !.tries = msg[c].tries + 1].pc = msg[c].pc
        /\ [msg[c] EXCEPT !.tries = msg[c].tries + 1].tries = msg[c].tries + 1
    BY <2>1, <2>2 DEF Message
  <2> HIDE DEF Message
  <2>5. /\ msg' \in [Call -> Message \cup [pc : End]]
        /\ msg'[c].pc = msg[c].pc /\ msg'[c].tries = msg[c].tries + 1
        /\ \A d \in Call \ {c} : msg'[d] = msg[d]
    BY <2>3, <2>4 DEF Counters
  <2> QED BY <1>2, <2>5 DEF WithinTries, RetryLeft, Attempts
<1> QED BY <1>1, <1>2

(* It is enough to look at the call that moved.                            *)
Counted(c) ==
  /\ heard[c] + shown[c] <= 1 + lost[c]
  /\ ~At(c, "voice") /\ ~At(c, "sent") => heard[c] + shown[c] <= lost[c]
  /\ At(c, "voice") => heard[c] > 0
  /\ At(c, "sent") => shown[c] > 0

LEMMA OneMoved ==
  ASSUME MessageInv, NEW c \in Call, Counters', Counted(c)',
         \A d \in Call \ {c} : /\ msg'[d] = msg[d]
                               /\ heard'[d] = heard[d] /\ shown'[d] = shown[d]
                               /\ lost'[d] = lost[d]
  PROVE  MessageInv'
<1>1. \A d \in Call \ {c} : Counted(d)'
  BY DEF MessageInv, UnderWay, ReportedIsReceived, CopiesPaid, Counted, At
<1>2. \A d \in Call : Counted(d)'
  BY <1>1
<1> QED BY <1>2 DEF MessageInv, UnderWay, ReportedIsReceived, CopiesPaid, Counted

(* A step in which nothing is sent.                                        *)
LEMMA NothingSent ==
  ASSUME MessageInv, NEW c \in Call, NEW pc \in Under \cup {"error"}, ~Ended(c),
         Continue(c, pc), UNCHANGED received
  PROVE  MessageInv'
<1>1. pc \in Under \cup End
  BY DEF End
<1>2. /\ msg' \in [Call -> Message \cup [pc : End]]
      /\ msg'[c].pc = pc
      /\ \A d \in Call \ {c} : msg'[d] = msg[d]
  BY <1>1, Continued DEF MessageInv
<1>3. heard' = heard /\ shown' = shown /\ lost' = lost
  BY DEF received
<1>4. Counters'
  BY <1>2, <1>3 DEF MessageInv, Counters
<1>5. Counted(c)'
  <2>1. heard[c] + shown[c] <= lost[c] /\ heard[c] \in Nat /\ shown[c] \in Nat /\ lost[c] \in Nat
    BY DEF MessageInv, Counters, UnderWay, Ended, End, At
  <2>2. pc # "voice" /\ pc # "sent"
    BY DEF Under
  <2> QED BY <2>1, <2>2, <1>2, <1>3 DEF Counted, At
<1> QED BY <1>2, <1>3, <1>4, <1>5, OneMoved

(* synthesize sends nothing.                                               *)
LEMMA SynthesizeKeeps ==
  ASSUME MessageInv, NEW c \in Call, Synthesize(c)
  PROVE  MessageInv'
<1>1. PICK pc \in Under \cup {"error"} : Continue(c, pc)
  BY DEF Synthesize, CacheHit, TryFirst, SkipFirst, FirstSpeaks, FirstFails, SecondSpeaks,
         SecondFails, Speakable, FallBack, Under
<1>2. ~Ended(c) /\ UNCHANGED received
  BY DEF Synthesize, CacheHit, TryFirst, SkipFirst, FirstSpeaks, FirstFails, SecondSpeaks,
         SecondFails, At, Ended, End
<1> QED BY <1>1, <1>2, NothingSent

(* A request took effect, perhaps without an answer.                       *)
LEMMA SendKeeps ==
  ASSUME MessageInv, NEW c \in Call, Send(c)
  PROVE  MessageInv'
<1>0. /\ Counters /\ ~Ended(c)
      /\ heard[c] + shown[c] <= lost[c] /\ heard[c] \in Nat /\ shown[c] \in Nat /\ lost[c] \in Nat
  BY DEF Send, Upload, SendAudio, AudioFails, SendText, TextFails, MessageInv, Counters,
         UnderWay, At, Ended, End
<1>1. CASE Upload(c)
  <2>1. PICK pc \in Under : Continue(c, pc)
    BY <1>1 DEF Upload, FallBack, Under
  <2> QED BY <1>0, <1>1, <2>1, NothingSent DEF Upload
<1>2. CASE SendAudio(c)
  <2>1. /\ msg' \in [Call -> Message \cup [pc : End]]
        /\ msg'[c].pc = "voice"
        /\ \A d \in Call \ {c} : msg'[d] = msg[d]
    BY <1>0, <1>2, Continued DEF SendAudio, Spoken, End
  <2>2. /\ heard' = [heard EXCEPT ![c] = @ + 1] /\ shown' = shown /\ lost' = lost
    BY <1>2 DEF SendAudio
  <2>3. Counters'
    BY <1>0, <2>1, <2>2 DEF Counters
  <2>4. Counted(c)'
    BY <1>0, <2>1, <2>2 DEF Counted, At, Counters
  <2> QED BY <2>1, <2>2, <2>3, <2>4, OneMoved DEF MessageInv, Counters
<1>3. CASE SendText(c)
  <2>1. /\ msg' \in [Call -> Message \cup [pc : End]]
        /\ msg'[c].pc = "sent"
        /\ \A d \in Call \ {c} : msg'[d] = msg[d]
    BY <1>0, <1>3, Continued DEF SendText, End
  <2>2. /\ shown' = [shown EXCEPT ![c] = @ + 1] /\ heard' = heard /\ lost' = lost
    BY <1>3 DEF SendText
  <2>3. Counters'
    BY <1>0, <2>1, <2>2 DEF Counters
  <2>4. Counted(c)'
    BY <1>0, <2>1, <2>2 DEF Counted, At, Counters
  <2> QED BY <2>1, <2>2, <2>3, <2>4, OneMoved DEF MessageInv, Counters
<1>4. CASE AudioFails(c) \/ TextFails(c)
  <2>1. /\ msg' \in [Call -> Message \cup [pc : End]]
        /\ msg'[c].pc \in Under \cup {"error"}
        /\ \A d \in Call \ {c} : msg'[d] = msg[d]
    BY <1>0, <1>4, Retried DEF AudioFails, TextFails, AfterAudio, At, Under, End
  <2>2. \/ heard' = heard /\ shown' = shown /\ lost' = lost
        \/ /\ heard' = [heard EXCEPT ![c] = @ + 1] /\ shown' = shown
           /\ lost' = [lost EXCEPT ![c] = @ + 1]
        \/ /\ shown' = [shown EXCEPT ![c] = @ + 1] /\ heard' = heard
           /\ lost' = [lost EXCEPT ![c] = @ + 1]
    BY <1>4 DEF AudioFails, TextFails, received
  <2>3. Counters'
    BY <1>0, <2>1, <2>2 DEF Counters
  <2>4. Counted(c)'
    <3>1. msg'[c].pc # "voice" /\ msg'[c].pc # "sent"
      BY <2>1 DEF Under
    <3> QED BY <1>0, <2>2, <3>1 DEF Counted, At, Counters
  <2> QED BY <2>1, <2>2, <2>3, <2>4, OneMoved DEF MessageInv, Counters
<1> QED BY <1>1, <1>2, <1>3, <1>4 DEF Send

(* A new response starts with nothing heard, shown or lost.                *)
LEMMA StartKeeps ==
  ASSUME MessageInv, NEW c \in Call, NEW text \in Text, NEW voice \in BOOLEAN,
         DeliverResponse(c, text, voice)
  PROVE  MessageInv'
<1>1. PICK pc \in {"synthesize", "text"} :
        msg' = [msg EXCEPT ![c] = [pc |-> pc, text |-> text, tries |-> 0]]
  BY DEF DeliverResponse
<1>2. [pc |-> pc, text |-> text, tries |-> 0] \in Message
  BY DeliveryAssumption DEF Message
<1>3. /\ heard' = [heard EXCEPT ![c] = 0] /\ shown' = [shown EXCEPT ![c] = 0]
      /\ lost' = [lost EXCEPT ![c] = 0]
  BY DEF DeliverResponse
<1>4. Counters'
  BY <1>1, <1>2, <1>3 DEF MessageInv, Counters
<1>5. Counted(c)'
  BY <1>1, <1>3 DEF Counted, At, MessageInv, Counters
<1> QED BY <1>1, <1>3, <1>4, <1>5, OneMoved DEF MessageInv, Counters

LEMMA MessagesKept == DeliverySpec => []MessageInv
<1>1. DeliveryInit => MessageInv
  BY DEF DeliveryInit, MessageInv, Counters, UnderWay, ReportedIsReceived, CopiesPaid, At, End
<1>2. MessageInv /\ [DeliveryNext]_deliveryVars => MessageInv'
  <2> SUFFICES ASSUME MessageInv, [DeliveryNext]_deliveryVars PROVE MessageInv'
    OBVIOUS
  <2>1. CASE UNCHANGED <<msg, received>>
    BY <2>1 DEF MessageInv, Counters, UnderWay, ReportedIsReceived, CopiesPaid, At, received
  <2>2. CASE UNCHANGED deliveryVars
    BY <2>1, <2>2 DEF deliveryVars
  <2>3. ASSUME NEW c \in Call, LookAtFirst(c) PROVE MessageInv'
    BY <2>1, <2>3 DEF LookAtFirst
  <2>4. ASSUME NEW i \in DOMAIN cache, Age(i) PROVE MessageInv'
    BY <2>1, <2>4 DEF Age
  <2>5. CASE BreakerStep
    BY <2>1, <2>5 DEF BreakerStep
  <2> QED BY <2>2, <2>3, <2>4, <2>5, StartKeeps, SynthesizeKeeps, SendKeeps DEF DeliveryNext
<1> QED BY <1>1, <1>2, PTL DEF DeliverySpec

(* However many deliveries overlap, whatever the breakers, the cache and   *)
(* the platforms do: what deliverResponse reports to have sent was         *)
(* received, and each copy beyond the first is due to a lost answer.       *)
THEOREM DeliveredOnce == DeliverySpec => [](ReportedIsReceived /\ CopiesPaid)
<1>1. MessageInv => ReportedIsReceived /\ CopiesPaid
  BY DEF MessageInv
<1> QED BY <1>1, MessagesKept, PTL

-----------------------------------------------------------------------------
(* The cache. *)

Entry == [text : Text, fresh : BOOLEAN]
CacheOK == cache \in Seq(Entry) /\ CacheBounded

(* A text is looked up by its key, so two deliveries that synthesized the  *)
(* same text leave one entry.                                              *)
LEMMA CacheSet ==
  ASSUME CacheOK, NEW t \in Text, SetCache(t)
  PROVE  CacheOK'
<1> DEFINE fresh == [text |-> t, fresh |-> TRUE]
           known == {i \in DOMAIN Evicted : Evicted[i].text = t}
<1>1. MaxCache \in Nat \ {0}
  BY DeliveryAssumption
<1>2. /\ Evicted \in Seq(Entry) /\ Len(Evicted) + 1 <= MaxCache
      /\ \A i, j \in DOMAIN Evicted : Evicted[i].text = Evicted[j].text => i = j
  <2>1. CASE Len(cache) >= MaxCache
    <3>1. /\ Evicted = Tail(cache) /\ cache # <<>> /\ Len(cache) = MaxCache /\ cache \in Seq(Entry)
      BY <1>1, <2>1 DEF Evicted, CacheOK, CacheBounded
    <3>2. /\ Evicted \in Seq(Entry) /\ Len(Evicted) = Len(cache) - 1
          /\ \A i \in 1..Len(Evicted) : Evicted[i] = cache[i + 1] /\ i + 1 \in 1..Len(cache)
      BY <3>1
    <3>3. DOMAIN Evicted = 1..Len(Evicted) /\ DOMAIN cache = 1..Len(cache) /\ Len(Evicted) \in Nat
      BY <3>1, <3>2
    <3>4. ASSUME NEW i \in DOMAIN Evicted, NEW j \in DOMAIN Evicted,
                 Evicted[i].text = Evicted[j].text
          PROVE  i = j
      <4>1. cache[i + 1].text = cache[j + 1].text
        BY <3>2, <3>3, <3>4
      <4>2. i + 1 = j + 1
        BY <3>2, <3>3, <4>1 DEF CacheOK, CacheBounded
      <4> QED BY <3>3, <4>2
    <3> QED BY <1>1, <3>1, <3>2, <3>4
  <2>2. CASE ~(Len(cache) >= MaxCache)
    <3>1. Len(cache) \in Nat
      BY DEF CacheOK
    <3> QED BY <1>1, <2>2, <3>1 DEF Evicted, CacheOK, CacheBounded
  <2> QED BY <2>1, <2>2
<1>3. fresh \in Entry /\ fresh.text = t
  BY DEF Entry
<1>4. DOMAIN Evicted = 1..Len(Evicted) /\ Len(Evicted) \in Nat
  BY <1>2
<1> HIDE DEF fresh
<1>5. CASE known = {}
  <2>1. cache' = Append(Evicted, fresh)
    BY <1>5 DEF SetCache, fresh
  <2>2. /\ cache' \in Seq(Entry) /\ Len(cache') = Len(Evicted) + 1
        /\ DOMAIN cache' = 1..(Len(Evicted) + 1)
        /\ \A i \in 1..Len(Evicted) : cache'[i] = Evicted[i]
        /\ cache'[Len(Evicted) + 1] = fresh
    BY <1>2, <1>3, <2>1
  <2>3. \A i \in 1..Len(Evicted) : Evicted[i].text # t
    BY <1>4, <1>5
  <2>4. ASSUME NEW i \in DOMAIN cache', NEW j \in DOMAIN cache', cache'[i].text = cache'[j].text
        PROVE  i = j
    <3>1. i \in 1..Len(Evicted) \/ i = Len(Evicted) + 1
      BY <1>4, <2>2
    <3>2. j \in 1..Len(Evicted) \/ j = Len(Evicted) + 1
      BY <1>4, <2>2
    <3> QED BY <1>2, <1>3, <1>4, <2>2, <2>3, <2>4, <3>1, <3>2
  <2> QED BY <1>2, <2>2, <2>4 DEF CacheOK, CacheBounded
<1>6. CASE known # {}
  <2>1. cache' = [i \in DOMAIN Evicted |-> IF i \in known THEN fresh ELSE Evicted[i]]
    BY <1>6 DEF SetCache, fresh
  <2>2. \A i \in DOMAIN Evicted : cache'[i] \in Entry /\ cache'[i].text = Evicted[i].text
    <3>1. \A i \in DOMAIN Evicted : Evicted[i] \in Entry
      BY <1>2
    <3> QED BY <1>3, <2>1, <3>1
  <2>3. cache' \in Seq(Entry) /\ Len(cache') = Len(Evicted) /\ DOMAIN cache' = DOMAIN Evicted
    BY <1>4, <2>1, <2>2
  <2>4. Len(cache') <= MaxCache
    BY <1>1, <1>2, <1>4, <2>3
  <2>5. \A i, j \in DOMAIN cache' : cache'[i].text = cache'[j].text => i = j
    BY <1>2, <2>2, <2>3
  <2> QED BY <2>3, <2>4, <2>5 DEF CacheOK, CacheBounded
<1> QED BY <1>5, <1>6

LEMMA CacheAges ==
  ASSUME CacheOK, NEW i \in DOMAIN cache, Age(i)
  PROVE  CacheOK'
<1>1. cache' = [cache EXCEPT ![i] = [cache[i] EXCEPT !.fresh = FALSE]]
  BY DEF Age
<1>2. cache \in Seq(Entry) /\ cache[i] \in Entry
  BY DEF CacheOK
<1>3. /\ [cache[i] EXCEPT !.fresh = FALSE] \in Entry
      /\ [cache[i] EXCEPT !.fresh = FALSE].text = cache[i].text
  BY <1>2 DEF Entry
<1>4. /\ cache' \in Seq(Entry) /\ Len(cache') = Len(cache) /\ DOMAIN cache' = DOMAIN cache
      /\ \A j \in DOMAIN cache : cache'[j].text = cache[j].text
  BY <1>1, <1>2, <1>3
<1> QED BY <1>4 DEF CacheOK, CacheBounded

LEMMA CacheKept == MessageInv /\ CacheOK /\ [DeliveryNext]_deliveryVars => CacheOK'
<1> SUFFICES ASSUME MessageInv, CacheOK, [DeliveryNext]_deliveryVars PROVE CacheOK'
  OBVIOUS
<1>1. CASE UNCHANGED cache
  BY <1>1 DEF CacheOK, CacheBounded
<1>2. ASSUME NEW c \in Call, FirstSpeaks(c) \/ SecondSpeaks(c) PROVE CacheOK'
  <2>1. msg[c].text \in Text
    BY <1>2 DEF FirstSpeaks, SecondSpeaks, At, MessageInv, Counters, Message, End
  <2>2. SetCache(msg[c].text)
    BY <1>2 DEF FirstSpeaks, SecondSpeaks
  <2> QED BY <2>1, <2>2, CacheSet
<1>3. ASSUME NEW c \in Call, NEW text \in Text, NEW voice \in BOOLEAN,
             DeliverResponse(c, text, voice)
      PROVE  UNCHANGED cache
  BY <1>3 DEF DeliverResponse
<1>4. ASSUME NEW c \in Call,
             \/ LookAtFirst(c) \/ CacheHit(c) \/ TryFirst(c) \/ SkipFirst(c)
             \/ FirstFails(c) \/ SecondFails(c) \/ Send(c)
      PROVE  UNCHANGED cache
  BY <1>4 DEF LookAtFirst, CacheHit, TryFirst, SkipFirst, FirstFails, SecondFails, Send,
              Upload, SendAudio, AudioFails, SendText, TextFails
<1>5. CASE BreakerStep \/ UNCHANGED deliveryVars
  BY <1>1, <1>5 DEF BreakerStep, deliveryVars
<1> QED BY <1>1, <1>2, <1>3, <1>4, <1>5, CacheAges DEF DeliveryNext, Synthesize

(* Everything the run checks of a delivery: types, the breaker below its   *)
(* threshold and its stale calls running out, the cache within its limit   *)
(* with one entry for a key, and what the user received.                   *)
THEOREM DeliverySoundHolds == DeliverySpec => []DeliverySound
<1>1. DeliveryInit => CacheOK
  <2> SUFFICES ASSUME DeliveryInit PROVE CacheOK
    OBVIOUS
  <2>1. cache = <<>>
    BY DEF DeliveryInit
  <2>2. cache \in Seq(Entry) /\ Len(cache) = 0 /\ DOMAIN cache = {}
    BY <2>1
  <2> QED BY <2>2, DeliveryAssumption DEF CacheOK, CacheBounded
<1>2. DeliverySpec => []CacheOK
  BY <1>1, CacheKept, MessagesKept, PTL DEF DeliverySpec
<1>3. DeliverySpec => [](TypeOK /\ BelowThreshold /\ StaleRunOut)
  BY BreakerSteps, BreakerTypes, BelowThresholdHolds, StaleRunOutHolds, PTL
<1>4. MessageInv /\ CacheOK /\ TypeOK /\ BelowThreshold /\ StaleRunOut => DeliverySound
  BY DEF MessageInv, Counters, CacheOK, Entry, DeliverySound, DeliveryTypeOK
<1> QED BY <1>2, <1>3, <1>4, MessagesKept, PTL

(* No more requests are sent for a message than its adapter makes.         *)
LEMMA TriesKept ==
  ASSUME MessageInv, \A c \in Call : WithinTries(c), [DeliveryNext]_deliveryVars
  PROVE  \A c \in Call : WithinTries(c)'
<1>0. Counters
  BY DEF MessageInv
<1>1. CASE UNCHANGED msg
  BY <1>1 DEF WithinTries
<1>2. ASSUME NEW c \in Call, WithinTries(c)', \A d \in Call \ {c} : msg'[d] = msg[d]
      PROVE  \A d \in Call : WithinTries(d)'
  BY <1>2 DEF WithinTries
<1>3. ASSUME NEW c \in Call, NEW text \in Text, NEW voice \in BOOLEAN,
             DeliverResponse(c, text, voice)
      PROVE  \A d \in Call : WithinTries(d)'
  <2>1. PICK pc \in {"synthesize", "text"} :
          msg' = [msg EXCEPT ![c] = [pc |-> pc, text |-> text, tries |-> 0]]
    BY <1>3 DEF DeliverResponse
  <2>2. 0 < Attempts(c)
    BY DeliveryAssumption DEF Attempts
  <2> QED BY <1>0, <1>2, <2>1, <2>2 DEF Counters, WithinTries
<1>4. ASSUME NEW c \in Call, Synthesize(c) PROVE \A d \in Call : WithinTries(d)'
  <2>1. PICK pc \in Under : Continue(c, pc)
    BY <1>4 DEF Synthesize, CacheHit, TryFirst, SkipFirst, FirstSpeaks, FirstFails,
                SecondSpeaks, SecondFails, Speakable, FallBack, Under
  <2>2. ~Ended(c)
    BY <1>4 DEF Synthesize, CacheHit, TryFirst, SkipFirst, FirstSpeaks, FirstFails,
                SecondSpeaks, SecondFails, At, Ended, End
  <2> QED BY <1>0, <1>2, <2>1, <2>2, Continued
<1>5. ASSUME NEW c \in Call, Send(c) PROVE \A d \in Call : WithinTries(d)'
  <2>1. ~Ended(c)
    BY <1>5 DEF Send, Upload, SendAudio, AudioFails, SendText, TextFails, At, Ended, End
  <2>2. CASE Upload(c) \/ SendAudio(c) \/ SendText(c)
    <3>1. PICK pc \in Under \cup End : Continue(c, pc)
      BY <2>2 DEF Upload, SendAudio, SendText, FallBack, Spoken, Under, End
    <3> QED BY <1>0, <1>2, <2>1, <3>1, Continued
  <2>3. CASE AudioFails(c) \/ TextFails(c)
    <3>1. PICK pc \in Under \cup End : Failed(c, pc)
      BY <2>3 DEF AudioFails, TextFails, AfterAudio, Under, End
    <3> QED BY <1>0, <1>2, <2>1, <3>1, Retried
  <2> QED BY <1>5, <2>2, <2>3 DEF Send
<1>6. ASSUME NEW c \in Call, LookAtFirst(c) PROVE UNCHANGED msg
  BY <1>6 DEF LookAtFirst
<1>7. ASSUME NEW i \in DOMAIN cache, Age(i) PROVE UNCHANGED msg
  BY <1>7 DEF Age
<1>8. CASE BreakerStep \/ UNCHANGED deliveryVars
  BY <1>1, <1>8 DEF BreakerStep, deliveryVars
<1> QED BY <1>1, <1>3, <1>4, <1>5, <1>6, <1>7, <1>8 DEF DeliveryNext

(* deliverResponse fails only when every attempt to send the text failed:  *)
(* no error of the voice path is passed on.                                *)
THEOREM VoiceNeverLoses == DeliverySpec => VoiceNeverLosesText
<1> DEFINE Tries == \A c \in Call : WithinTries(c)
           Given == \A c \in Call : msg'[c].pc = "error" /\ ~At(c, "error") =>
                      At(c, "text") /\ msg[c].tries + 1 = Attempts(c)
<1>0. DeliverySpec => []Tries
  <2>1. DeliveryInit => Tries
    BY DEF DeliveryInit, WithinTries, End
  <2>2. MessageInv /\ Tries /\ [DeliveryNext]_deliveryVars => Tries'
    BY TriesKept
  <2> QED BY <2>1, <2>2, MessagesKept, PTL DEF DeliverySpec
<1>1. MessageInv /\ Tries /\ [DeliveryNext]_deliveryVars => [Given]_deliveryVars
  <2> SUFFICES ASSUME MessageInv, Tries, DeliveryNext, NEW c \in Call, msg'[c].pc = "error", ~At(c, "error")
               PROVE  At(c, "text") /\ msg[c].tries + 1 = Attempts(c)
    BY DEF deliveryVars
  <2>1. Counters
    BY DEF MessageInv
  <2>2. PICK d \in Call : \/ \E text \in Text, voice \in BOOLEAN : DeliverResponse(d, text, voice)
                         \/ Synthesize(d) \/ Send(d)
    BY DEF DeliveryNext, LookAtFirst, Age, BreakerStep, At
  <2>3. ASSUME NEW text \in Text, NEW voice \in BOOLEAN, DeliverResponse(d, text, voice)
        PROVE  FALSE
    BY <2>1, <2>3 DEF DeliverResponse, Counters, At
  <2>4. ASSUME NEW pc \in Under \cup {"voice", "sent"}, ~Ended(d), Continue(d, pc)
        PROVE  FALSE
    <3>1. msg'[d].pc = pc /\ \A e \in Call \ {d} : msg'[e] = msg[e]
      BY <2>1, <2>4, Continued DEF End
    <3> QED BY <3>1 DEF At, Under
  <2>5. CASE Synthesize(d)
    <3>1. PICK pc \in Under : Continue(d, pc)
      BY <2>5 DEF Synthesize, CacheHit, TryFirst, SkipFirst, FirstSpeaks, FirstFails,
                  SecondSpeaks, SecondFails, Speakable, FallBack, Under
    <3>2. ~Ended(d)
      BY <2>5 DEF Synthesize, CacheHit, TryFirst, SkipFirst, FirstSpeaks, FirstFails,
                  SecondSpeaks, SecondFails, At, Ended, End
    <3> QED BY <2>4, <3>1, <3>2
  <2>6. CASE Upload(d) \/ SendAudio(d) \/ SendText(d)
    <3>1. PICK pc \in Under \cup {"voice", "sent"} : Continue(d, pc)
      BY <2>6 DEF Upload, SendAudio, SendText, FallBack, Spoken, Under
    <3>2. ~Ended(d)
      BY <2>6 DEF Upload, SendAudio, SendText, At, Ended, End
    <3> QED BY <2>4, <3>1, <3>2
  <2>7. CASE AudioFails(d)
    <3>1. /\ msg'[d].pc \in {msg[d].pc, "text"} /\ msg[d].pc = "audio"
          /\ \A e \in Call \ {d} : msg'[e] = msg[e]
      BY <2>1, <2>7, Retried DEF AudioFails, AfterAudio, At, Ended, Under, End
    <3> QED BY <3>1 DEF At
  <2>8. CASE TextFails(d)
    <3>1. /\ msg'[d].pc \in {msg[d].pc, "error"} /\ At(d, "text")
          /\ \A e \in Call \ {d} : msg'[e] = msg[e]
      BY <2>1, <2>8, Retried DEF TextFails, At, Ended, Under, End
    <3>2. c = d
      BY <3>1 DEF At
    <3>3. ~RetryLeft(c)
      <4>1. RetryLeft(d) => msg' = [msg EXCEPT ![d] = [msg[d] EXCEPT !.tries = msg[d].tries + 1]]
        BY <2>8 DEF TextFails, Failed
      <4>2. msg[d] \in Message
        BY <2>1, <3>1 DEF Counters, At, End
      <4>3. RetryLeft(d) => msg'[d].pc = msg[d].pc
        BY <2>1, <4>1, <4>2 DEF Counters, Message
      <4> QED BY <3>1, <3>2, <4>3 DEF At
    <3>4. msg[c].tries \in 0..MaxRetries /\ msg[c].tries < Attempts(c)
      BY <2>1, <3>1, <3>2 DEF Counters, Message, At, End, WithinTries
    <3>5. Attempts(c) \in Nat
      BY DeliveryAssumption DEF Attempts
    <3> QED BY <3>1, <3>2, <3>3, <3>4, <3>5, DeliveryAssumption DEF RetryLeft
  <2> QED BY <2>2, <2>3, <2>5, <2>6, <2>7, <2>8 DEF Send
<1> QED BY <1>0, <1>1, MessagesKept, PTL DEF DeliverySpec, VoiceNeverLosesText
=============================================================================
