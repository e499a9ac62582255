---------------------------- MODULE Conversation ----------------------------
(***************************************************************************)
(* From the platform's webhook to the reply: api/webhookRouter.ts and      *)
(* ConversationOrchestrator.ts, with Onboarding for a user who is not set  *)
(* up yet.                                                                 *)
(*                                                                         *)
(* The webhook answers 200 before it handles anything, so the platform     *)
(* never learns of a failure; it may deliver an update twice and puts      *)
(* several messages into one request.  Messages of one user are handled as *)
(* they come, several at a time.  The language model is external: it       *)
(* answers with text, asks for tools or fails.                             *)
(***************************************************************************)
EXTENDS Onboarding

CONSTANTS
  Wish,          (* What the user wants to have added: tasks, projects ... *)
  MAX_TOOL_ROUNDS,
  MAX_HISTORY_TURNS,
  MaxTurns,      (* Turns kept by the pruning: 50 in persistTurn.          *)
  MaxUpdates,    (* Bound: updates sent.                                   *)
  MaxTrouble     (* Bound: failures, crashes and repeated deliveries,      *)
                 (* together.                                              *)

ASSUME ConversationAssumption ==
  /\ {MAX_TOOL_ROUNDS, MAX_HISTORY_TURNS, MaxTurns} \subseteq Nat \ {0}
  /\ MAX_HISTORY_TURNS <= MaxTurns /\ IsFiniteSet(Call)
  /\ {MaxUpdates, MaxTrouble} \subseteq Nat

Update == 1..MaxUpdates

VARIABLES
  sent,        (* What the user sent, by update.                           *)
  deliveries,  (* How often each update was delivered.                     *)
  processed,   (* processed_updates                                        *)
  call,        (* The calls of the webhook.                                *)
  turns,       (* conversation_turns                                       *)
  clock,       (* created_at of the newest turn.                           *)
  added,       (* Rows that tools added for each wish.                     *)
  answered,    (* The kinds of reply each update got.                      *)
  lost,        (* Updates a failure, or the parser, dropped.               *)
  faults

inbox == <<sent, deliveries, processed>>
record == <<turns, clock>>
outcome == <<added, answered, lost>>
vars == <<onboarding, inbox, call, record, outcome, faults>>

(* What is delivered: a reply that was recorded, "I hit a snag on my end", *)
(* a request to send the voice note or the text again, or the confirmation *)
(* of a button.                                                            *)
Reply == {"reply", "snag", "apology", "notice"}

Turn == [at : Nat, role : {"user", "assistant"}, update : Update]

(* after: the turns of what had its reply when this one was sent.          *)
Message == [wish : Wish, after : SUBSET Turn]

NoTurn == [at |-> 0]
NoCall == [pc |-> "idle"]
Handling ==
  [pc : {"acquire", "transcribe", "user", "create", "route", "onboard",
         "model", "user turn", "assistant turn", "commit", "deliver"},
   update : Update, rounds : 0..MAX_TOOL_ROUNDS, did : BOOLEAN,
   seen : SUBSET Turn, gone : SUBSET Turn, turn : Turn \cup {NoTurn}, reply : Reply]

TypeOK ==
  /\ OnboardingTypeOK
  /\ sent \in Seq(Message) /\ Len(sent) <= MaxUpdates
  /\ deliveries \in [Update -> Nat] /\ processed \subseteq Update
  /\ call \in [Call -> Handling \cup {NoCall}]
  /\ turns \subseteq Turn /\ clock \in Nat
  /\ added \in [Wish -> Nat] /\ answered \in [Update -> SUBSET Reply]
  /\ lost \subseteq Update /\ faults \in Nat

Init ==
  /\ OnboardingInit
  /\ sent = <<>> /\ deliveries = [u \in Update |-> 0] /\ processed = {}
  /\ call = [c \in Call |-> NoCall]
  /\ turns = {} /\ clock = 0
  /\ added = [w \in Wish |-> 0] /\ answered = [u \in Update |-> {}] /\ lost = {}
  /\ faults = 0

At(c, pc) == call[c].pc = pc
Continue(c, pc) == call' = [call EXCEPT ![c].pc = pc]
End(c) == call' = [call EXCEPT ![c] = NoCall]
Sent(c) == sent[call[c].update]

(* The handler answers with reply; what it says is recorded or not.        *)
Say(c, reply, pc) == call' = [call EXCEPT ![c].reply = reply, ![c].pc = pc]

(* Every delivery of an update but its first.                              *)
Repeated == UNION {{u} \X (2..deliveries[u]) : u \in Update}

Trouble == faults + Cardinality(Repeated)
Fault == Trouble < MaxTrouble /\ faults' = faults + 1

-----------------------------------------------------------------------------
(* The user and the platform. *)

Updates(w) == {u \in DOMAIN sent : sent[u].wish = w}
InFlight(u) == \E c \in Call : call[c] # NoCall /\ call[c].update = u

(* Told to try again, or left without an answer.                           *)
Unserved(u) ==
  \/ answered[u] \cap {"snag", "apology"} # {}
  \/ u \in lost /\ answered[u] = {} /\ ~InFlight(u)

(* The user states each wish once, and again when it was not served.       *)
Send(w) ==
  /\ Len(sent) < MaxUpdates /\ \A u \in Updates(w) : Unserved(u)
  /\ sent' = Append(sent, [wish |-> w,
                           after |-> {t \in turns : "reply" \in answered[t.update]}])
  /\ UNCHANGED <<onboarding, deliveries, processed, call, record, outcome, faults>>

(* One request with the updates from u to v.  parseIncomingWebhook takes   *)
(* messages[0] and drops the others.                                       *)
Deliver(c, u, v) ==
  /\ call[c] = NoCall /\ u \in DOMAIN sent /\ v \in DOMAIN sent /\ u <= v
  /\ Trouble + Cardinality({w \in u..v : deliveries[w] > 0}) <= MaxTrouble
  /\ deliveries' = [w \in Update |-> deliveries[w] + (IF w \in u..v THEN 1 ELSE 0)]
  /\ lost' = lost \cup ((u + 1)..v)
  /\ call' = [call EXCEPT ![c] =
       [pc |-> "acquire", update |-> u, rounds |-> 0, did |-> FALSE,
        seen |-> {}, gone |-> {}, turn |-> NoTurn, reply |-> "reply"]]
  /\ UNCHANGED <<onboarding, sent, processed, record, added, answered, faults>>

-----------------------------------------------------------------------------
(* The webhook: tryAcquireUpdate, audio, getOrCreate. *)

(* What the update is, a voice note, a button or a text, is left open.     *)
Parsed(c) == Continue(c, "transcribe") \/ Continue(c, "user")

(* Mutants: what was recorded does not stop it, the key is the same for    *)
(* all updates.                                                            *)
AcquiredAnyway(u) == TRUE
AcquiredFirst(u) == processed = {}

Acquired(u) == u \notin processed

Acquire(c) ==
  /\ At(c, "acquire")
  /\ IF Acquired(call[c].update) THEN Parsed(c) ELSE End(c)
  /\ processed' = processed \cup {call[c].update}
  /\ UNCHANGED <<onboarding, sent, deliveries, record, outcome, faults>>

(* The database fails and the update is handled all the same.              *)
AcquireUnrecorded(c) ==
  /\ At(c, "acquire") /\ Fault
  /\ Parsed(c)
  /\ UNCHANGED <<onboarding, inbox, record, outcome>>

Transcribed(c) ==
  /\ At(c, "transcribe") /\ Continue(c, "user")
  /\ UNCHANGED <<onboarding, inbox, record, outcome, faults>>

(* Too long, too large, another format, not downloaded, silent, too slow,  *)
(* or not configured: the user is told so.                                 *)
NotTranscribed(c) ==
  /\ At(c, "transcribe") /\ Say(c, "apology", "deliver")
  /\ UNCHANGED <<onboarding, inbox, record, outcome, faults>>

GetUser(c) ==
  /\ At(c, "user")
  /\ \/ FindUser(c) /\ Continue(c, "route")
     \/ ~Found /\ Continue(c, "create") /\ UNCHANGED onboarding
  /\ UNCHANGED <<inbox, record, outcome, faults>>

InsertUser(c) ==
  /\ At(c, "create") /\ CreateUser(c) /\ Continue(c, "route")
  /\ UNCHANGED <<inbox, record, outcome, faults>>

-----------------------------------------------------------------------------
(* handleFollowUpResponse for a button: the toast shows "Marked as done!"  *)
(* in any case, a message follows when it succeeded.  FollowUps has the    *)
(* rest.                                                                   *)
PressButton(c) ==
  /\ At(c, "route") /\ Say(c, "notice", "deliver")
  /\ NothingTaken(c)
  /\ UNCHANGED <<inbox, record, outcome, faults>>

(* Nothing but spaces. *)
EmptyText(c) ==
  /\ At(c, "route") /\ Say(c, "apology", "deliver") /\ NothingTaken(c)
  /\ UNCHANGED <<inbox, record, outcome, faults>>

Onboard(c) ==
  /\ At(c, "route")
  /\ Answered(c) \/ Greeted(c)
  /\ Continue(c, "onboard")
  /\ UNCHANGED <<inbox, record, outcome, faults>>

(* The text is not understood, or asks for an explanation.                 *)
AskAgain(c) ==
  /\ At(c, "route") /\ onb[c].as # "COMPLETED" /\ NothingTaken(c) /\ Continue(c, "user turn")
  /\ UNCHANGED <<inbox, record, outcome, faults>>

AnswerTaken(c) ==
  /\ At(c, "onboard") /\ OnboardingStep(c)
  /\ UNCHANGED <<inbox, call, record, outcome, faults>>

Onboarded(c) ==
  /\ At(c, "onboard") /\ ~Handles(c) /\ Continue(c, "user turn")
  /\ UNCHANGED <<onboarding, inbox, record, outcome, faults>>

-----------------------------------------------------------------------------
(* A turn of the conversation. *)

Newer(t, S) == {s \in S : s.at > t.at}

(* Mutant: the first turns instead of the last. *)
Earliest(S, n) == {t \in S : Cardinality(S \ Newer(t, S)) <= n}

Latest(S, n) == {t \in S : Cardinality(Newer(t, S)) < n}

(* getRecentHistory *)
ReadHistory(c) ==
  /\ At(c, "route") /\ onb[c].as = "COMPLETED" /\ NothingTaken(c)
  /\ call' = [call EXCEPT ![c].pc = "model", ![c].seen = Latest(turns, MAX_HISTORY_TURNS)]
  /\ UNCHANGED <<inbox, record, outcome, faults>>

(* Mutant: one round more. *)
RoundsLeftInclusive(c) == call[c].rounds <= MAX_TOOL_ROUNDS

RoundsLeft(c) == call[c].rounds < MAX_TOOL_ROUNDS

(* The model asks for a tool, executeTool runs it and its result goes back *)
(* to the model: a tool that adds a row.  A model that was told of the     *)
(* success does not ask for it again.                                      *)
AddRow(c) ==
  /\ At(c, "model") /\ RoundsLeft(c) /\ ~call[c].did
  /\ added' = [added EXCEPT ![Sent(c).wish] = @ + 1]
  /\ call' = [call EXCEPT ![c].did = TRUE, ![c].rounds = @ + 1, ![c].seen = {}]
  /\ UNCHANGED <<onboarding, inbox, record, answered, lost, faults>>

(* A tool that reads or sets something, or fails: the exception becomes    *)
(* its result.                                                             *)
OtherTool(c) ==
  /\ At(c, "model") /\ RoundsLeft(c)
  /\ call' = [call EXCEPT ![c].rounds = @ + 1, ![c].seen = {}]
  /\ UNCHANGED <<onboarding, inbox, record, outcome, faults>>

(* The model answers, or the summaries of the tools stand in for its text; *)
(* or the model is not asked: several follow-ups are open and the text     *)
(* fits any of them.                                                       *)
Compose(c) ==
  /\ At(c, "model")
  /\ call' = [call EXCEPT ![c].pc = "user turn", ![c].seen = {}]
  /\ UNCHANGED <<onboarding, inbox, record, outcome, faults>>

(* Mutant: the pruning does not count the turn that was inserted. *)
OutdatedBefore(t) == turns \ Latest(turns, MaxTurns)

Outdated(t) == turns \ Latest(turns \cup {t}, MaxTurns)

Role(c) == IF At(c, "user turn") THEN "user" ELSE "assistant"

(* persistTurn: its INSERT and its DELETE see what is committed by then.   *)
PersistTurn(c) ==
  /\ At(c, "user turn") \/ At(c, "assistant turn")
  /\ LET t == [at |-> clock + 1, role |-> Role(c), update |-> call[c].update]
     IN call' = [call EXCEPT ![c].pc = "commit", ![c].turn = t, ![c].gone = Outdated(t)]
  /\ clock' = clock + 1
  /\ UNCHANGED <<onboarding, inbox, turns, outcome, faults>>

CommitTurn(c) ==
  /\ At(c, "commit") /\ turns' = (turns \ call[c].gone) \cup {call[c].turn}
  /\ call' = [call EXCEPT ![c].turn = NoTurn, ![c].gone = {},
       ![c].pc = IF call[c].turn.role = "user" THEN "assistant turn" ELSE "deliver"]
  /\ UNCHANGED <<onboarding, inbox, clock, outcome, faults>>

(* deliverResponse: Delivery has the rest. *)
DeliverReply(c) ==
  /\ At(c, "deliver") /\ End(c)
  /\ answered' = [answered EXCEPT ![call[c].update] = @ \cup {call[c].reply}]
  /\ UNCHANGED <<onboarding, inbox, record, added, lost, faults>>

-----------------------------------------------------------------------------
(* Failures. *)

InMessage(c) ==
  \/ call[c].pc \in {"model", "user turn", "assistant turn", "commit"}
  \/ At(c, "route") \/ onb[c].pc \in {"set", "state"}

(* handleMessage catches it: the fallback is sent and nothing recorded.    *)
MessageFails(c) ==
  /\ InMessage(c) /\ Fault
  /\ call' = [call EXCEPT ![c].pc = "deliver", ![c].reply = "snag", ![c].turn = NoTurn,
                          ![c].gone = {}, ![c].seen = {}]
  /\ IF Handles(c) THEN OnboardingBrokenOff(c) ELSE UNCHANGED onboarding
  /\ UNCHANGED <<inbox, record, outcome>>

(* ensureDailyCheckinTask fails: the user is set up without it.            *)
DailyTaskFails(c) ==
  /\ onb[c].pc \in {"look", "insert"} /\ Fault /\ OnboardingBrokenOff(c)
  /\ UNCHANGED <<inbox, call, record, outcome>>

(* The webhook's own catch: the update is recorded as processed, and gone. *)
UpdateFails(c) ==
  /\ call[c].pc \in {"user", "create", "deliver"} /\ Fault /\ End(c)
  /\ lost' = lost \cup {call[c].update}
  /\ UNCHANGED <<onboarding, inbox, record, added, answered>>

(* The server ends and starts again. *)
Crash ==
  /\ Fault
  /\ lost' = lost \cup {u \in Update : InFlight(u)}
  /\ call' = [c \in Call |-> NoCall] /\ onb' = [c \in Call |-> Idle]
  /\ UNCHANGED <<user, daily, history, inbox, record, added, answered>>

-----------------------------------------------------------------------------

Receive(c) ==
  \/ Acquire(c) \/ AcquireUnrecorded(c) \/ Transcribed(c) \/ NotTranscribed(c)
  \/ GetUser(c) \/ InsertUser(c) \/ PressButton(c) \/ EmptyText(c)

SetUp(c) == Onboard(c) \/ AskAgain(c) \/ AnswerTaken(c) \/ Onboarded(c)

Converse(c) ==
  \/ ReadHistory(c) \/ AddRow(c) \/ OtherTool(c) \/ Compose(c) \/ PersistTurn(c)
  \/ CommitTurn(c) \/ DeliverReply(c)

Fails(c) == MessageFails(c) \/ DailyTaskFails(c) \/ UpdateFails(c)

Next ==
  \/ \E w \in Wish : Send(w)
  \/ \E c \in Call, u, v \in Update : Deliver(c, u, v)
  \/ \E c \in Call : Receive(c) \/ SetUp(c) \/ Converse(c) \/ Fails(c)
  \/ Crash

Spec == Init /\ [][Next]_vars

-----------------------------------------------------------------------------
(* Once set up without a failure, the user has the daily check-in, however *)
(* the last messages overlapped.                                           *)
SetUpHasDaily ==
  user.state = "COMPLETED" /\ faults = 0 /\ (\A c \in Call : ~Handles(c)) => daily > 0

(* What the user saw answered before sending a message is in the history   *)
(* the model is given for it, or newer turns fill the history.             *)
Shown(t, seen) ==
  \/ t \in seen
  \/ Cardinality(seen) = MAX_HISTORY_TURNS /\ Newer(t, seen) = seen

HistorySeesAnswered ==
  \A c \in Call : At(c, "model") /\ call[c].rounds = 0 =>
    \A t \in Sent(c).after : Shown(t, call[c].seen)

(* What was answered is stored, with its question, unless as many turns    *)
(* are there as are kept.                                                  *)
Kept(u, role) ==
  (\E t \in turns : t.update = u /\ t.role = role) \/ Cardinality(turns) >= MaxTurns

AnsweredKept ==
  \A u \in Update : "reply" \in answered[u] => Kept(u, "user") /\ Kept(u, "assistant")

(* Transactions that prune at the same time do not see each other's turn:  *)
(* each of them leaves at most one turn too many.                          *)
TurnsBounded == Cardinality(turns) <= MaxTurns + Cardinality(Call) - 1

(* A wish is added twice only where the user was told to try again, or got *)
(* no answer, though the row was there: after a failure, or when an update *)
(* was dropped from a request and delivered again.                         *)
RowsPaid ==
  \A w \in Wish : added[w] <= 1 + faults + Cardinality(lost \cap Updates(w))

(* What was delivered and is no longer handled got an answer, unless a     *)
(* failure or the parser dropped it: a duplicate is told from the first    *)
(* delivery even while that one is still handled.                          *)
NothingForgotten ==
  \A u \in Update :
    deliveries[u] > 0 /\ ~InFlight(u) => answered[u] # {} \/ u \in lost

(* A user who is set up has answered everything and has one daily task.    *)
SetUpSound == TypeOK /\ CompletedHasAll /\ OneDailyTask /\ SetUpHasDaily

(* The stored turns hold what histories need, and not much more.           *)
HistorySound == HistorySeesAnswered /\ AnsweredKept /\ TurnsBounded
=============================================================================
