------------------------------ MODULE Delivery ------------------------------
(***************************************************************************)
(* One response to the user: ResponsePolicyService.deliverResponse, the    *)
(* speech synthesis it tries first (AudioSynthesisService.synthesize, with *)
(* its cache and its pool of providers) and the messaging adapter that     *)
(* sends the audio or the text.                                            *)
(*                                                                         *)
(* The variables of CircuitBreaker are the breaker of the first provider;  *)
(* the breakers of the others answer anything.  A request to the platform  *)
(* may take effect and its answer be lost: the Telegram adapter then sends *)
(* it again, and the audio is followed by the text.                        *)
(***************************************************************************)
EXTENDS CircuitBreaker, SequencesExt

CONSTANTS
  AdapterOf,     (* The platform each call delivers to.                    *)
  Text,          (* Texts, as far as the keys of the cache differ.         *)
  TooLong,       (* Those longer than maxTextLength.                       *)
  MaxCache,      (* maxCacheEntries                                        *)
  MaxRetries     (* maxRetries of the Telegram adapter                     *)

Adapter == {"telegram", "whatsapp"}

ASSUME DeliveryAssumption ==
  /\ AdapterOf \in [Call -> Adapter]
  /\ TooLong \subseteq Text /\ MaxCache \in Nat \ {0} /\ MaxRetries \in Nat

VARIABLES
  msg,     (* What each call of deliverResponse is doing.                  *)
  heard,   (* Voice messages of it that reached the user.                  *)
  shown,   (* Text messages of it that reached the user.                   *)
  lost,    (* Requests that took effect and were not answered.             *)
  cache    (* The synthesized texts, oldest first.                         *)

received == <<heard, shown, lost>>
breaker == <<state, failures, openFor, probing, call>>
deliveryVars == <<breaker, msg, received, cache>>

Attempts(c) == IF AdapterOf[c] = "telegram" THEN MaxRetries + 1 ELSE 1

(* tries: requests sent so far, for the audio or for the text.             *)
Message == [pc : {"synthesize", "first", "second", "upload", "audio", "text"},
            text : Text, tries : 0..MaxRetries]
End == {"idle", "voice", "sent", "error"}

DeliveryTypeOK ==
  /\ TypeOK
  /\ msg \in [Call -> Message \cup [pc : End]]
  /\ heard \in [Call -> Nat] /\ shown \in [Call -> Nat] /\ lost \in [Call -> Nat]
  /\ cache \in Seq([text : Text, fresh : BOOLEAN])

DeliveryInit ==
  /\ Init
  /\ msg = [c \in Call |-> [pc |-> "idle"]]
  /\ heard = [c \in Call |-> 0] /\ shown = heard /\ lost = heard
  /\ cache = <<>>

At(c, pc) == msg[c].pc = pc
Continue(c, pc) ==
  msg' = [msg EXCEPT ![c] = IF pc \in End THEN [pc |-> pc] ELSE [@ EXCEPT !.pc = pc, !.tries = 0]]
Ended(c) == msg[c].pc \in End

-----------------------------------------------------------------------------
(* deliverResponse decides for voice or text.                              *)

(* shouldAttemptVoiceOutput depends on the channel, the preferences, the   *)
(* length and the context; a text that is too long is refused by           *)
(* synthesize, in a call that forces voice.                                *)
DeliverResponse(c, text, voice) ==
  /\ Ended(c)
  /\ msg' = [msg EXCEPT ![c] =
               [pc |-> IF voice /\ text \notin TooLong THEN "synthesize" ELSE "text",
                text |-> text, tries |-> 0]]
  /\ heard' = [heard EXCEPT ![c] = 0] /\ shown' = [shown EXCEPT ![c] = 0]
  /\ lost' = [lost EXCEPT ![c] = 0]
  /\ UNCHANGED <<breaker, cache>>

-----------------------------------------------------------------------------
(* synthesize. *)

Cached(t) == \E i \in DOMAIN cache : cache[i].text = t /\ cache[i].fresh

(* The audio is ready: WhatsApp wants it uploaded first.                   *)
Speakable(c) == IF AdapterOf[c] = "whatsapp" THEN "upload" ELSE "audio"

CacheHit(c) ==
  /\ At(c, "synthesize") /\ Cached(msg[c].text) /\ Continue(c, Speakable(c))
  /\ UNCHANGED <<breaker, received, cache>>

(* getState half-opens a breaker that cooled down.                         *)
LookAtFirst(c) ==
  /\ At(c, "synthesize") /\ ~Cached(msg[c].text) /\ GetState
  /\ UNCHANGED <<msg, received, cache>>

(* The breaker of the first provider lets the call through.                *)
TryFirst(c) ==
  /\ At(c, "synthesize") /\ ~Cached(msg[c].text)
  /\ Execute(c) /\ Continue(c, "first")
  /\ UNCHANGED <<received, cache>>

(* It is open, or half open with its probe in flight.                      *)
SkipFirst(c) ==
  /\ At(c, "synthesize") /\ ~Cached(msg[c].text)
  /\ ~CooledDown /\ ~Admits /\ Continue(c, "second")
  /\ UNCHANGED <<breaker, received, cache>>

(* Mutant: an entry is evicted only for a key that is new, after its room  *)
(* was taken.                                                              *)
EvictedAfter == IF Len(cache) > MaxCache THEN Tail(cache) ELSE cache

Evicted == IF Len(cache) >= MaxCache THEN Tail(cache) ELSE cache

(* setCache: the oldest entry makes room, also for a key that has some.    *)
SetCache(t) ==
  LET fresh == [text |-> t, fresh |-> TRUE]
      known == {i \in DOMAIN Evicted : Evicted[i].text = t}
  IN cache' = IF known = {} THEN Append(Evicted, fresh)
              ELSE [i \in DOMAIN Evicted |-> IF i \in known THEN fresh ELSE Evicted[i]]

FirstSpeaks(c) ==
  /\ At(c, "first") /\ Succeed(c)
  /\ SetCache(msg[c].text) /\ Continue(c, Speakable(c))
  /\ UNCHANGED received

(* It throws, or the timeout comes first.                                  *)
FirstFails(c) ==
  /\ At(c, "first") /\ Fail(c) /\ Continue(c, "second")
  /\ UNCHANGED <<received, cache>>

SecondSpeaks(c) ==
  /\ At(c, "second")
  /\ SetCache(msg[c].text) /\ Continue(c, Speakable(c))
  /\ UNCHANGED <<breaker, received>>

(* Mutants: a response that cannot be spoken is given up, or spoken anew.  *)
GivenUp == "error"
SpokenAnew == "synthesize"

FallBack == "text"

(* The pool is exhausted: fallback to text.                                *)
SecondFails(c) ==
  /\ At(c, "second") /\ Continue(c, FallBack)
  /\ UNCHANGED <<breaker, received, cache>>

(* cacheTtlMs has passed for an entry; it stays until it is evicted.       *)
Age(i) ==
  /\ cache[i].fresh /\ cache' = [cache EXCEPT ![i].fresh = FALSE]
  /\ UNCHANGED <<breaker, msg, received>>

-----------------------------------------------------------------------------
(* The adapters. *)

(* Mutant: one more request is sent.                                       *)
RetryLeftInclusive(c) == msg[c].tries < Attempts(c)

RetryLeft(c) == msg[c].tries + 1 < Attempts(c)

(* A request failed: it is sent again, or the next thing is tried.         *)
Failed(c, next) ==
  IF RetryLeft(c) THEN msg' = [msg EXCEPT ![c].tries = @ + 1] ELSE Continue(c, next)

(* sendAudio of WhatsApp uploads the audio before it sends it.             *)
Upload(c) ==
  /\ At(c, "upload")
  /\ Continue(c, "audio") \/ Continue(c, FallBack)
  /\ UNCHANGED <<breaker, received, cache>>

(* Mutant: after an error of sendAudio nothing is sent.                    *)
SilentlyVoice == "voice"

AfterAudio == "text"

(* Mutant: the text is sent as well.                                       *)
AndText == "text"

Spoken == "voice"

SendAudio(c) ==
  /\ At(c, "audio")
  /\ heard' = [heard EXCEPT ![c] = @ + 1] /\ Continue(c, Spoken)
  /\ UNCHANGED <<breaker, shown, lost, cache>>

AudioFails(c) ==
  /\ At(c, "audio") /\ Failed(c, AfterAudio)
  /\ \/ UNCHANGED received
     \/ /\ heard' = [heard EXCEPT ![c] = @ + 1] /\ lost' = [lost EXCEPT ![c] = @ + 1]
        /\ UNCHANGED shown
  /\ UNCHANGED <<breaker, cache>>

SendText(c) ==
  /\ At(c, "text")
  /\ shown' = [shown EXCEPT ![c] = @ + 1] /\ Continue(c, "sent")
  /\ UNCHANGED <<breaker, heard, lost, cache>>

(* In the end the error goes to whoever called deliverResponse.            *)
TextFails(c) ==
  /\ At(c, "text") /\ Failed(c, "error")
  /\ \/ UNCHANGED received
     \/ /\ shown' = [shown EXCEPT ![c] = @ + 1] /\ lost' = [lost EXCEPT ![c] = @ + 1]
        /\ UNCHANGED heard
  /\ UNCHANGED <<breaker, cache>>

-----------------------------------------------------------------------------

Synthesize(c) ==
  \/ CacheHit(c) \/ TryFirst(c) \/ SkipFirst(c)
  \/ FirstSpeaks(c) \/ FirstFails(c) \/ SecondSpeaks(c) \/ SecondFails(c)

Send(c) == Upload(c) \/ SendAudio(c) \/ AudioFails(c) \/ SendText(c) \/ TextFails(c)

(* Others look at the breaker (getProviderHealth), reset it, time passes.  *)
BreakerStep == (GetState \/ Reset \/ Tick) /\ UNCHANGED <<msg, received, cache>>

DeliveryNext ==
  \/ \E c \in Call :
       \/ \E text \in Text, voice \in BOOLEAN : DeliverResponse(c, text, voice)
       \/ LookAtFirst(c) \/ Synthesize(c) \/ Send(c)
  \/ \E i \in DOMAIN cache : Age(i)
  \/ BreakerStep

DeliverySpec == DeliveryInit /\ [][DeliveryNext]_deliveryVars

(* A provider answers or times out, and a request to the platform ends: the *)
(* HTTP client gives up in the end.  Strong fairness makes up for getState *)
(* being a step of its own here: in the code nothing comes between it and  *)
(* what follows.                                                           *)
DeliveryFairness ==
  \A c \in Call : /\ WF_deliveryVars(LookAtFirst(c)) /\ SF_deliveryVars(Synthesize(c))
                  /\ WF_deliveryVars(Send(c))

FairDelivery == DeliverySpec /\ DeliveryFairness

-----------------------------------------------------------------------------
(* Properties. *)

(* What deliverResponse reports to have sent has reached the user, whether *)
(* the audio was spoken, fell back to text, or was sent again.             *)
ReportedIsReceived ==
  \A c \in Call : /\ At(c, "voice") => heard[c] > 0
                  /\ At(c, "sent") => shown[c] > 0

(* A user gets a response twice only if an answer of the platform was      *)
(* lost: speech and its fallback are never both sent otherwise.            *)
CopiesPaid == \A c \in Call : heard[c] + shown[c] <= 1 + lost[c]

(* The voice path never loses a response: deliverResponse fails only when  *)
(* every attempt to send the text has failed.                              *)
VoiceNeverLosesText ==
  [][\A c \in Call : msg'[c].pc = "error" /\ ~At(c, "error") =>
       At(c, "text") /\ msg[c].tries + 1 = Attempts(c)]_deliveryVars

(* The cache keeps to its limit and holds one entry for a key, also when   *)
(* two deliveries of one text synthesize it at once.                       *)
CacheBounded ==
  /\ Len(cache) <= MaxCache
  /\ \A i, j \in DOMAIN cache : cache[i].text = cache[j].text => i = j

(* Every response ends as audio, as text or as an error.                   *)
EveryDeliveryEnds == \A c \in Call : ~Ended(c) ~> Ended(c)

(* What holds of every delivery, its cache and its breaker at any time.    *)
DeliverySound ==
  /\ DeliveryTypeOK /\ TypeOK /\ BelowThreshold /\ StaleRunOut /\ CacheBounded
  /\ ReportedIsReceived /\ CopiesPaid

(* A delivery ends, and as an error only when the text could not be sent.  *)
DeliveriesEnd == VoiceNeverLosesText /\ EveryDeliveryEnds
=============================================================================
