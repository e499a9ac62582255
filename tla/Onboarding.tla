----------------------------- MODULE Onboarding -----------------------------
(***************************************************************************)
(* The row of one user and the conversation that sets it up:               *)
(* UserService.ts, OnboardingService.handleOnboardingMessage and           *)
(* TaskService.ensureDailyCheckinTask.                                     *)
(*                                                                         *)
(* A call acts on the user object it was given, however old it is, and     *)
(* writes one field and the state in two statements.  Calls for messages   *)
(* that arrive together overlap.                                           *)
(***************************************************************************)
EXTENDS Integers, FiniteSets, Sequences

CONSTANTS
  Call,    (* Messages that may be handled at a time.                      *)
  Start    (* States the user may be found in, "absent" for a new one.     *)

VARIABLES
  user,      (* The row of users.                                          *)
  daily,     (* Rows of tasks with task_type 'recurring_checkin'.          *)
  onb,       (* The calls of handleOnboardingMessage.                      *)
  overlaps,  (* Some of them overlapped.                                   *)
  raced      (* Two of them looked for the daily check-in at once.         *)

history == <<overlaps, raced>>
onboarding == <<user, daily, onb, history>>

States == <<"WELCOME", "AWAITING_NAME", "AWAITING_ASSISTANT_NAME",
            "AWAITING_PERSONA", "AWAITING_CHECKIN_TIME", "COMPLETED">>
State == {States[i] : i \in DOMAIN States}
Rank(s) == CHOOSE i \in DOMAIN States : States[i] = s

(* What has been asked for, in the order of the questions.                 *)
Fields == <<"displayName", "assistantName", "persona", "checkinTime">>
Field == {Fields[i] : i \in DOMAIN Fields}

Absent == [state |-> "absent", set |-> {}]
Users == [state : State, set : SUBSET Field]

(* as: the state in the user object.  to: the state that is to be written. *)
Idle == [pc |-> "idle", as |-> "WELCOME", to |-> "WELCOME"]

OnboardingTypeOK ==
  /\ user \in Users \cup {Absent} /\ daily \in Nat
  /\ overlaps \in BOOLEAN /\ raced \in BOOLEAN
  /\ onb \in [Call -> [pc : {"idle", "read", "set", "state", "look", "insert"},
                       as : State, to : State]]

(* A user whose row is at state, having answered what came before.         *)
UserAt(state) ==
  [state |-> state,
   set |-> {Fields[i] : i \in {j \in DOMAIN Fields : j < Rank(state) - 1}}]

OnboardingInit ==
  /\ user \in {UserAt(s) : s \in Start \cap State} \cup (IF "absent" \in Start THEN {Absent} ELSE {})
  /\ daily = IF user.state = "COMPLETED" THEN 1 ELSE 0
  /\ onb = [c \in Call |-> Idle] /\ overlaps = FALSE /\ raced = FALSE

OnbAt(c, pc) == onb[c].pc = pc
GoTo(c, pc) == onb' = [onb EXCEPT ![c].pc = pc]
Replied(c) == onb' = [onb EXCEPT ![c] = Idle]

-----------------------------------------------------------------------------
(* getOrCreate *)

Found == user # Absent

(* Mutant: the INSERT replaces what is there. *)
Replaced == UserAt("WELCOME")

Inserted == IF Found THEN user ELSE UserAt("WELCOME")

(* The INSERT; when another call was faster, 23505 and a second SELECT.    *)
Handles(c) == ~OnbAt(c, "idle")
Overlapping(c) == overlaps' = (overlaps \/ \E d \in Call \ {c} : Handles(d))

(* The user object is read once and handed on.                             *)
Read(c, found) ==
  /\ onb' = [onb EXCEPT ![c] = [pc |-> "read", as |-> found.state, to |-> found.state]]
  /\ Overlapping(c)

FindUser(c) ==
  /\ OnbAt(c, "idle") /\ Found /\ Read(c, user)
  /\ UNCHANGED <<user, daily, raced>>

CreateUser(c) ==
  /\ OnbAt(c, "idle") /\ user' = Inserted /\ Read(c, Inserted)
  /\ UNCHANGED <<daily, raced>>

-----------------------------------------------------------------------------
(* handleOnboardingMessage.  In WELCOME a greeting only opens the          *)
(* conversation; in WELCOME and in AWAITING_NAME a name is taken.          *)

Question(s) == IF s = "WELCOME" THEN 1 ELSE Rank(s) - 1

(* Mutant: one question too far. *)
AfterNext(s) == States[IF Question(s) = 4 THEN 6 ELSE Question(s) + 3]

After(s) == States[Question(s) + 2]

Takes(c, pc, to) ==
  /\ OnbAt(c, "read")
  /\ onb' = [onb EXCEPT ![c].pc = pc, ![c].to = to]
  /\ UNCHANGED <<user, daily, history>>

(* An answer, or a greeting.                                               *)
Answered(c) == onb[c].as # "COMPLETED" /\ Takes(c, "set", After(onb[c].as))
Greeted(c) == onb[c].as = "WELCOME" /\ Takes(c, "state", "AWAITING_NAME")

(* Nothing is written: the text is not understood or asks for an           *)
(* explanation, or the user is set up and it is not for onboarding.        *)
NothingTaken(c) ==
  /\ OnbAt(c, "read") /\ Replied(c)
  /\ UNCHANGED <<user, daily, history>>

(* setDisplayName, setAssistantName, setPersona or setCheckinTime.         *)
SetField(c) ==
  /\ OnbAt(c, "set") /\ user' = [user EXCEPT !.set = @ \cup {Fields[Question(onb[c].as)]}]
  /\ GoTo(c, "state")
  /\ UNCHANGED <<daily, history>>

SetOnboardingState(c) ==
  /\ OnbAt(c, "state") /\ user' = [user EXCEPT !.state = onb[c].to]
  /\ IF onb[c].to = "COMPLETED" THEN GoTo(c, "look") ELSE Replied(c)
  /\ UNCHANGED <<daily, history>>

(* Mutant: any task counts but the one that is there. *)
NotFound == FALSE

DailyTaskFound == daily > 0

(* ensureDailyCheckinTask, in one transaction: the task that is there gets *)
(* a new time.                                                             *)
FindDailyTask(c) ==
  /\ OnbAt(c, "look") /\ IF DailyTaskFound THEN Replied(c) ELSE GoTo(c, "insert")
  /\ raced' = (raced \/ \E d \in Call \ {c} : OnbAt(d, "insert"))
  /\ UNCHANGED <<user, daily, overlaps>>

(* Mutant: the task is only looked for. *)
NoneAdded == daily

OneAdded == daily + 1

InsertDailyTask(c) ==
  /\ OnbAt(c, "insert") /\ daily' = OneAdded /\ Replied(c)
  /\ UNCHANGED <<user, history>>

(* A statement failed or the process ended.                                *)
OnboardingBrokenOff(c) ==
  /\ Handles(c) /\ Replied(c)
  /\ UNCHANGED <<user, daily, history>>

OnboardingStep(c) ==
  SetField(c) \/ SetOnboardingState(c) \/ FindDailyTask(c) \/ InsertDailyTask(c)

-----------------------------------------------------------------------------
(* However the calls overlap and wherever one breaks off: who is set up    *)
(* has answered every question.                                            *)
CompletedHasAll == user.state = "COMPLETED" => user.set = Field

(* The state only goes back when a call wrote over a newer one, so only    *)
(* after two calls overlapped.                                             *)
NeverBack ==
  [][overlaps' \/ user = Absent \/ Rank(user'.state) >= Rank(user.state)]_onboarding

(* Whoever is set up twice still has one daily check-in, unless two calls  *)
(* looked for it before either had inserted it.                            *)
OneDailyTask == daily <= 1 \/ raced
=============================================================================
