------------------------- MODULE ConversationProofs -------------------------
(***************************************************************************)
(* Proofs about Conversation and Onboarding, for any number of overlapping *)
(* calls, wishes, updates and failures.                                    *)
(*                                                                         *)
(* The set-up first: what the row of the user holds against what the calls *)
(* that handle it have read.  Then, for the whole conversation, what is    *)
(* known of updates and calls (CallInv), how rows are paid for, what may   *)
(* still be added counted in (RowsBacked), and what of the stored turns    *)
(* the histories need while transactions prune at the same time (TurnInv). *)
(***************************************************************************)
EXTENDS Conversation, FiniteSetTheorems, NaturalsInduction, WellFoundedInduction, TLAPS

-----------------------------------------------------------------------------
(* The questions, by their numbers. *)

Before(s) == UserAt(s).set

LEMMA StateSet ==
  /\ State = {"WELCOME", "AWAITING_NAME", "AWAITING_ASSISTANT_NAME", "AWAITING_PERSONA",
              "AWAITING_CHECKIN_TIME", "COMPLETED"}
  /\ Field = {"displayName", "assistantName", "persona", "checkinTime"}
<1>1. DOMAIN States = 1..6 /\ DOMAIN Fields = 1..4
  BY DEF States, Fields
<1>2. State = {States[1], States[2], States[3], States[4], States[5], States[6]}
  BY <1>1 DEF State
<1>3. Field = {Fields[1], Fields[2], Fields[3], Fields[4]}
  BY <1>1 DEF Field
<1> QED BY <1>2, <1>3 DEF States, Fields

LEMMA Ranks ==
  /\ Rank("WELCOME") = 1 /\ Rank("AWAITING_NAME") = 2 /\ Rank("AWAITING_ASSISTANT_NAME") = 3
  /\ Rank("AWAITING_PERSONA") = 4 /\ Rank("AWAITING_CHECKIN_TIME") = 5 /\ Rank("COMPLETED") = 6
<1>1. DOMAIN States = 1..6
  BY DEF States
<1>2. ASSUME NEW i \in 1..6 PROVE Rank(States[i]) = i
  <2>1. \A j \in 1..6 : States[j] = States[i] => j = i
    BY <1>2 DEF States
  <2> QED BY <1>1, <1>2, <2>1 DEF Rank
<1>3. /\ States[1] = "WELCOME" /\ States[2] = "AWAITING_NAME"
      /\ States[3] = "AWAITING_ASSISTANT_NAME" /\ States[4] = "AWAITING_PERSONA"
      /\ States[5] = "AWAITING_CHECKIN_TIME" /\ States[6] = "COMPLETED"
  BY DEF States
<1>4. /\ Rank(States[1]) = 1 /\ Rank(States[2]) = 2 /\ Rank(States[3]) = 3
      /\ Rank(States[4]) = 4 /\ Rank(States[5]) = 5 /\ Rank(States[6]) = 6
  BY <1>2
<1> QED BY <1>3, <1>4

(* What has been asked before a state, and what an answer in it adds.      *)
LEMMA Questions ==
  /\ Before("WELCOME") = {} /\ Before("AWAITING_NAME") = {} /\ Before("COMPLETED") = Field
  /\ \A s \in State :
       /\ Before(s) \subseteq Field /\ Rank(s) \in 1..6
       /\ s # "COMPLETED" =>
            /\ Question(s) \in 1..4 /\ Fields[Question(s)] \in Field
            /\ After(s) \in State /\ Rank(After(s)) >= Rank(s)
            /\ Before(After(s)) \subseteq Before(s) \cup {Fields[Question(s)]}
<1>1. \A s : Before(s) = {Fields[i] : i \in {j \in 1..4 : j < Rank(s) - 1}}
  BY DEF Before, UserAt, Fields
<1>2. \A i \in 1..4 : Fields[i] \in Field
  BY DEF Field, Fields
<1>3. Before("WELCOME") = {} /\ Before("AWAITING_NAME") = {}
  BY <1>1, Ranks
<1>4. Before("COMPLETED") = Field
  <2>1. {j \in 1..4 : j < 6 - 1} = 1..4 /\ DOMAIN Fields = 1..4
    BY DEF Fields
  <2> QED BY <1>1, <2>1, Ranks DEF Field
<1>5. \A i \in 1..6 : States[i] \in State /\ Rank(States[i]) = i
  BY StateSet, Ranks DEF States
<1>6. ASSUME NEW s \in State
      PROVE  /\ Before(s) \subseteq Field /\ Rank(s) \in 1..6
             /\ s # "COMPLETED" =>
                  /\ Question(s) \in 1..4 /\ Fields[Question(s)] \in Field
                  /\ After(s) \in State /\ Rank(After(s)) >= Rank(s)
                  /\ Before(After(s)) \subseteq Before(s) \cup {Fields[Question(s)]}
  <2>1. Rank(s) \in 1..6 /\ (s # "COMPLETED" => Rank(s) # 6) /\ (s = "WELCOME" <=> Rank(s) = 1)
    BY StateSet, Ranks
  <2>2. Before(s) \subseteq Field
    BY <1>1, <1>2
  <2>3. ASSUME s # "COMPLETED"
        PROVE  /\ Question(s) \in 1..4 /\ Question(s) + 2 >= Rank(s)
               /\ \A j \in 1..4 : j < (Question(s) + 2) - 1 =>
                    j < Rank(s) - 1 \/ j = Question(s)
    BY <2>1, <2>3 DEF Question
  <2>4. ASSUME s # "COMPLETED"
        PROVE  /\ After(s) \in State /\ Rank(After(s)) = Question(s) + 2
               /\ Fields[Question(s)] \in Field
    BY <1>2, <1>5, <2>3, <2>4 DEF After
  <2>5. ASSUME s # "COMPLETED"
        PROVE  Before(After(s)) \subseteq Before(s) \cup {Fields[Question(s)]}
    <3> SUFFICES ASSUME NEW j \in 1..4, j < Rank(After(s)) - 1
                 PROVE  Fields[j] \in Before(s) \cup {Fields[Question(s)]}
      BY <1>1
    <3>1. j < Rank(s) - 1 \/ j = Question(s)
      BY <2>3, <2>4, <2>5
    <3> QED BY <1>1, <3>1
  <2> QED BY <2>1, <2>2, <2>3, <2>4, <2>5
<1> QED BY <1>3, <1>4, <1>6

-----------------------------------------------------------------------------
(* The set-up: what the calls of handleOnboardingMessage carry is backed   *)
(* by the row, and while none overlap it is what the row says.             *)

OnbPlace == {"idle", "read", "set", "state", "look", "insert"}
OnbRow == [pc : OnbPlace, as : State, to : State]

Carried ==
  /\ user # Absent => Before(user.state) \subseteq user.set
  /\ \A c \in Call : Handles(c) => user # Absent
  /\ \A c \in Call : onb[c].pc \in {"read", "set"} => Before(onb[c].as) \subseteq user.set
  /\ \A c \in Call : OnbAt(c, "state") => Before(onb[c].to) \subseteq user.set
  /\ \A c \in Call : OnbAt(c, "set") => onb[c].as # "COMPLETED" /\ onb[c].to = After(onb[c].as)

Sequential ==
  /\ \A c, d \in Call : Handles(c) /\ Handles(d) => c = d
  /\ \A c \in Call : onb[c].pc \in {"read", "set", "state"} => onb[c].as = user.state
  /\ \A c \in Call : OnbAt(c, "state") => Rank(onb[c].to) >= Rank(onb[c].as)

OneInserts ==
  /\ daily <= 1
  /\ \A c \in Call : OnbAt(c, "insert") => daily = 0
  /\ \A c, d \in Call : OnbAt(c, "insert") /\ OnbAt(d, "insert") => c = d

DailyComes ==
  user.state = "COMPLETED" /\ faults = 0 =>
    daily > 0 \/ \E c \in Call : onb[c].pc \in {"look", "insert"}

OnbInv ==
  /\ OnboardingTypeOK /\ faults \in Nat
  /\ Carried /\ DailyComes
  /\ overlaps \/ Sequential
  /\ raced \/ OneInserts

(* The row and the calls, with the marks apart: they are Boolean.          *)
OnbTyped == user \in Users \cup {Absent} /\ daily \in Nat /\ onb \in [Call -> OnbRow]

LEMMA OnbNamed == OnboardingTypeOK <=> OnbTyped /\ overlaps \in BOOLEAN /\ raced \in BOOLEAN
BY DEF OnboardingTypeOK, OnbTyped, OnbRow, OnbPlace

LEMMA OnbIdle == Idle \in OnbRow /\ Idle.pc = "idle"
BY StateSet DEF Idle, OnbRow, OnbPlace

LEMMA OnbRows ==
  \A r \in OnbRow :
    /\ r.as \in State /\ r.to \in State /\ r.pc \in OnbPlace
    /\ \A pc \in OnbPlace : /\ [r EXCEPT !.pc = pc] \in OnbRow /\ [r EXCEPT !.pc = pc].pc = pc
                            /\ [r EXCEPT !.pc = pc].as = r.as /\ [r EXCEPT !.pc = pc].to = r.to
    /\ \A s \in State : /\ [r EXCEPT !.to = s] \in OnbRow /\ [r EXCEPT !.to = s].to = s
                        /\ [r EXCEPT !.to = s].as = r.as /\ [r EXCEPT !.to = s].pc = r.pc
BY DEF OnbRow

(* A call gets another row; the others keep theirs.                        *)
LEMMA OnbMove ==
  ASSUME OnbTyped, NEW c \in Call, NEW r \in OnbRow, onb' = [onb EXCEPT ![c] = r]
  PROVE  /\ onb' \in [Call -> OnbRow] /\ onb'[c] = r
         /\ \A d \in Call \ {c} : onb'[d] = onb[d]
<1> HIDE DEF OnbRow
<1> QED BY DEF OnbTyped

LEMMA UserRow ==
  /\ Absent.state = "absent" /\ Absent.set = {}
  /\ \A u \in Users : u.state \in State /\ u.set \subseteq Field /\ u # Absent
  /\ \A u \in Users, x \in Field :
       /\ [u EXCEPT !.set = @ \cup {x}] \in Users
       /\ [u EXCEPT !.set = @ \cup {x}].state = u.state
       /\ [u EXCEPT !.set = @ \cup {x}].set = u.set \cup {x}
  /\ \A u \in Users, s \in State :
       /\ [u EXCEPT !.state = s] \in Users
       /\ [u EXCEPT !.state = s].state = s
       /\ [u EXCEPT !.state = s].set = u.set
  /\ UserAt("WELCOME") \in Users /\ UserAt("WELCOME").state = "WELCOME"
<1>1. Absent.state = "absent" /\ Absent.set = {}
  BY DEF Absent
<1>2. "absent" \notin State /\ "WELCOME" \in State
  BY StateSet
<1>3. \A u \in Users : u.state \in State /\ u.set \subseteq Field /\ u # Absent
  BY <1>1, <1>2 DEF Users
<1>4. \A u \in Users, x \in Field :
       /\ [u EXCEPT !.set = @ \cup {x}] \in Users
       /\ [u EXCEPT !.set = @ \cup {x}].state = u.state
       /\ [u EXCEPT !.set = @ \cup {x}].set = u.set \cup {x}
  BY DEF Users
<1>5. \A u \in Users, s \in State :
       /\ [u EXCEPT !.state = s] \in Users
       /\ [u EXCEPT !.state = s].state = s
       /\ [u EXCEPT !.state = s].set = u.set
  BY DEF Users
<1>6. UserAt("WELCOME") \in Users /\ UserAt("WELCOME").state = "WELCOME"
  <2>1. UserAt("WELCOME").set \subseteq Field
    BY <1>2, Questions DEF Before
  <2> QED BY <1>2, <2>1 DEF UserAt, Users
<1> QED BY <1>1, <1>3, <1>4, <1>5, <1>6

(* getOrCreate hands the row on as it is.                                  *)
LEMMA ReadKeeps ==
  ASSUME OnbInv, faults' = faults, NEW c \in Call, FindUser(c) \/ CreateUser(c) PROVE OnbInv'
<1> DEFINE found == user'
           r == [pc |-> "read", as |-> found.state, to |-> found.state]
<1>0. OnbTyped /\ Carried /\ DailyComes /\ faults \in Nat
  BY OnbNamed DEF OnbInv
<1>1. found \in Users /\ (user = Absent \/ found = user) /\ (user = Absent => found = UserAt("WELCOME"))
  BY <1>0, UserRow DEF FindUser, CreateUser, Found, Inserted, OnbTyped
<1>2. /\ onb' = [onb EXCEPT ![c] = r] /\ onb[c].pc = "idle" /\ daily' = daily /\ raced' = raced
      /\ overlaps' = (overlaps \/ \E d \in Call \ {c} : Handles(d))
  BY <1>1 DEF FindUser, CreateUser, Read, OnbAt, Overlapping
<1>3. r \in OnbRow /\ r.pc = "read" /\ r.as = found.state
  BY <1>1, UserRow DEF OnbRow, OnbPlace
<1> HIDE DEF r
<1>4. onb' \in [Call -> OnbRow] /\ onb'[c] = r /\ \A d \in Call \ {c} : onb'[d] = onb[d]
  BY <1>0, <1>2, <1>3, OnbMove
<1>5. OnboardingTypeOK'
  <2>1. OnbTyped'
    BY <1>0, <1>1, <1>2, <1>4 DEF OnbTyped
  <2>2. overlaps' \in BOOLEAN /\ raced' \in BOOLEAN
    BY <1>2, Zenon, OnbNamed DEF OnbInv
  <2> QED BY <2>1, <2>2 DEF OnboardingTypeOK, OnbTyped, OnbRow, OnbPlace
<1>6. Carried'
  <2>1. Before(found.state) \subseteq found.set
    BY <1>0, <1>1, UserRow DEF Carried, Before
  <2>2. found # Absent
    BY <1>1, UserRow
  <2>3. user = Absent => \A d \in Call : onb[d].pc = "idle"
    BY <1>0 DEF Carried, Handles, OnbAt
  <2>4. \A d \in Call \ {c} : user' = user \/ onb'[d].pc = "idle"
    BY <1>1, <1>4, <2>3
  <2> QED BY <1>0, <1>3, <1>4, <2>1, <2>2, <2>4 DEF Carried, Handles, OnbAt
<1>7. DailyComes'
  <2>1. CASE user = Absent
    <3>1. user'.state = "WELCOME"
      BY <1>1, <2>1, UserRow
    <3> QED BY <3>1 DEF DailyComes
  <2>2. CASE user # Absent
    <3>1. user' = user
      BY <1>1, <2>2
    <3> QED BY <1>0, <1>2, <1>4, <3>1 DEF DailyComes
  <2> QED BY <2>1, <2>2
<1>8. overlaps' \/ Sequential'
  <2> SUFFICES ASSUME ~overlaps' PROVE Sequential'
    OBVIOUS
  <2>1. \A d \in Call \ {c} : onb'[d].pc = "idle"
    BY <1>2, <1>4 DEF Handles, OnbAt
  <2>2. onb'[c].as = user'.state /\ onb'[c].pc = "read"
    BY <1>3, <1>4
  <2> QED BY <2>1, <2>2 DEF Sequential, Handles, OnbAt
<1>9. raced' \/ OneInserts'
  BY <1>2, <1>3, <1>4 DEF OnbInv, OneInserts, OnbAt
<1> QED BY <1>0, <1>5, <1>6, <1>7, <1>8, <1>9 DEF OnbInv

(* What is left of the invariant where the row and the daily tasks stay.   *)
LEMMA OnbKept ==
  ASSUME OnbInv, NEW c \in Call, NEW r \in OnbRow, onb' = [onb EXCEPT ![c] = r],
         UNCHANGED <<user, daily, history>>, faults' \in Nat, faults <= faults',
         onb[c].pc # "idle",
         r.pc \in {"read", "set"} => Before(r.as) \subseteq user.set,
         r.pc \in {"set", "state"} => onb[c].pc = "read" /\ r.as = onb[c].as,
         r.pc \notin {"read", "look", "insert"},
         r.pc = "set" => r.as # "COMPLETED" /\ r.to = After(r.as),
         r.pc = "state" => Before(r.to) \subseteq user.set /\ Rank(r.to) >= Rank(r.as),
         onb[c].pc \in {"look", "insert"} => faults < faults'
  PROVE  OnbInv'
<1>0. OnbTyped /\ Carried /\ DailyComes /\ faults \in Nat
  BY OnbNamed DEF OnbInv
<1>1. onb' \in [Call -> OnbRow] /\ onb'[c] = r /\ \A d \in Call \ {c} : onb'[d] = onb[d]
  BY <1>0, OnbMove
<1>2. OnboardingTypeOK'
  <2>1. OnbTyped'
    BY <1>0, <1>1 DEF OnbTyped
  <2>2. overlaps' \in BOOLEAN /\ raced' \in BOOLEAN
    BY OnbNamed, Zenon DEF OnbInv, history
  <2> QED BY <2>1, <2>2 DEF OnboardingTypeOK, OnbTyped, OnbRow, OnbPlace
<1>3. Carried'
  BY <1>0, <1>1 DEF Carried, Handles, OnbAt
<1>4. DailyComes'
  <2>1. faults' = 0 => faults = 0 /\ onb[c].pc \notin {"look", "insert"}
    BY <1>0
  <2> QED BY <1>0, <1>1, <2>1 DEF DailyComes
<1>5. overlaps' \/ Sequential'
  BY <1>1 DEF OnbInv, Sequential, Handles, OnbAt, history
<1>6. raced' \/ OneInserts'
  BY <1>1 DEF OnbInv, OneInserts, OnbAt, history
<1> QED BY <1>2, <1>3, <1>4, <1>5, <1>6 DEF OnbInv

(* An answer or a greeting is taken.                                       *)
LEMMA TakesKeeps ==
  ASSUME OnbInv, faults' = faults, NEW c \in Call, Answered(c) \/ Greeted(c) PROVE OnbInv'
<1>0. OnbTyped /\ Carried /\ faults \in Nat /\ onb[c] \in OnbRow
  BY OnbNamed DEF OnbInv, OnbTyped
<1>1. ASSUME NEW pc \in {"set", "state"}, NEW to \in State, Takes(c, pc, to),
             pc = "set" => onb[c].as # "COMPLETED" /\ to = After(onb[c].as),
             pc = "state" => Before(to) = {} /\ Rank(to) >= Rank(onb[c].as)
      PROVE  OnbInv'
  <2> DEFINE moved == [onb[c] EXCEPT !.pc = pc]
             r == [moved EXCEPT !.to = to]
  <2>1. moved \in OnbRow /\ moved.pc = pc /\ moved.as = onb[c].as
    <3>1. pc \in OnbPlace
      BY DEF OnbPlace
    <3> QED BY <1>0, <3>1, OnbRows
  <2>2. onb' = [onb EXCEPT ![c] = r]
    BY <1>0, <1>1 DEF Takes, OnbTyped
  <2> HIDE DEF moved
  <2>3. r \in OnbRow /\ r.pc = pc /\ r.as = onb[c].as /\ r.to = to
    BY <2>1, OnbRows
  <2> HIDE DEF r
  <2>4. /\ onb[c].pc = "read" /\ Before(onb[c].as) \subseteq user.set
        /\ UNCHANGED <<user, daily, history>> /\ faults <= faults'
    BY <1>0, <1>1 DEF Takes, OnbAt, Carried
  <2> QED BY <1>0, <1>1, <2>2, <2>3, <2>4, OnbKept
<1>2. CASE Answered(c)
  <2>1. onb[c].as \in State /\ onb[c].as # "COMPLETED" /\ After(onb[c].as) \in State
    BY <1>0, <1>2, OnbRows, Questions DEF Answered
  <2> QED BY <1>1, <1>2, <2>1 DEF Answered
<1>3. CASE Greeted(c)
  <2>1. "AWAITING_NAME" \in State /\ Before("AWAITING_NAME") = {}
        /\ Rank("AWAITING_NAME") >= Rank("WELCOME")
    BY StateSet, Questions, Ranks
  <2> QED BY <1>1, <1>3, <2>1 DEF Greeted
<1> QED BY <1>2, <1>3

(* A call ends without writing more.                                       *)
LEMMA ReplyKeeps ==
  ASSUME OnbInv, NEW c \in Call, faults' \in Nat, faults <= faults',
         \/ NothingTaken(c)
         \/ OnboardingBrokenOff(c) /\ faults < faults'
  PROVE  OnbInv'
<1>1. /\ onb' = [onb EXCEPT ![c] = Idle] /\ UNCHANGED <<user, daily, history>>
      /\ onb[c].pc # "idle" /\ (onb[c].pc = "read" \/ faults < faults')
  BY DEF NothingTaken, OnboardingBrokenOff, Replied, OnbAt, Handles
<1>2. Idle \in OnbRow /\ Idle.pc = "idle"
  BY OnbIdle
<1> HIDE DEF OnbRow
<1> QED BY <1>1, <1>2, OnbKept

(* The question is answered before the state says so.                      *)
LEMMA SetFieldKeeps ==
  ASSUME OnbInv, faults' = faults, NEW c \in Call, SetField(c) PROVE OnbInv'
<1> DEFINE s == onb[c].as
           new == [user EXCEPT !.set = @ \cup {Fields[Question(s)]}]
           r == [onb[c] EXCEPT !.pc = "state"]
<1>0. /\ OnbTyped /\ Carried /\ DailyComes /\ faults \in Nat /\ onb[c] \in OnbRow
      /\ onb[c].pc = "set" /\ s \in State /\ s # "COMPLETED" /\ onb[c].to = After(s)
      /\ Before(s) \subseteq user.set /\ user \in Users
  <2>1. OnbTyped /\ Carried /\ DailyComes /\ faults \in Nat /\ onb[c] \in OnbRow /\ onb[c].pc = "set"
    BY OnbNamed DEF OnbInv, OnbTyped, SetField, OnbAt
  <2>2. user # Absent
    BY <2>1 DEF Carried, Handles, OnbAt
  <2> QED BY <2>1, <2>2, OnbRows DEF Carried, OnbTyped, OnbAt
<1>1. /\ Fields[Question(s)] \in Field /\ Rank(After(s)) >= Rank(s)
      /\ Before(After(s)) \subseteq Before(s) \cup {Fields[Question(s)]}
  BY <1>0, Questions
<1>2. new \in Users /\ new.state = user.state /\ new.set = user.set \cup {Fields[Question(s)]}
  BY <1>0, <1>1, UserRow
<1>3. r \in OnbRow /\ r.pc = "state" /\ r.as = s /\ r.to = After(s)
  <2>1. "state" \in OnbPlace
    BY DEF OnbPlace
  <2> QED BY <1>0, <2>1, OnbRows
<1>4. user' = new /\ onb' = [onb EXCEPT ![c] = r] /\ UNCHANGED <<daily, history>>
  BY DEF SetField, GoTo
<1> HIDE DEF new, r, s
<1>5. onb' \in [Call -> OnbRow] /\ onb'[c] = r /\ \A d \in Call \ {c} : onb'[d] = onb[d]
  BY <1>0, <1>3, <1>4, OnbMove
<1>6. OnboardingTypeOK'
  <2>1. OnbTyped'
    BY <1>0, <1>2, <1>4, <1>5 DEF OnbTyped
  <2>2. overlaps' \in BOOLEAN /\ raced' \in BOOLEAN
    BY <1>4, OnbNamed, Zenon DEF OnbInv, history
  <2> QED BY <2>1, <2>2 DEF OnboardingTypeOK, OnbTyped, OnbRow, OnbPlace
<1>7. Carried'
  <2>1. user' # Absent /\ user'.state = user.state /\ user.set \subseteq user'.set
    BY <1>2, <1>4, UserRow
  <2>2. Before(r.to) \subseteq user'.set
    BY <1>0, <1>1, <1>2, <1>3, <1>4
  <2>3. user # Absent
    BY <1>0, UserRow
  <2> QED BY <1>0, <1>3, <1>5, <2>1, <2>2, <2>3 DEF Carried, Handles, OnbAt
<1>8. DailyComes'
  <2>1. user'.state = user.state /\ daily' = daily
    BY <1>2, <1>4
  <2> QED BY <1>0, <1>5, <2>1 DEF DailyComes
<1>9. overlaps' \/ Sequential'
  <2>1. user'.state = user.state /\ overlaps' = overlaps
    BY <1>2, <1>4 DEF history
  <2> QED BY <1>0, <1>1, <1>3, <1>5, <2>1 DEF OnbInv, Sequential, Handles, OnbAt, s
<1>10. raced' \/ OneInserts'
  BY <1>3, <1>4, <1>5 DEF OnbInv, OneInserts, OnbAt, history
<1> QED BY <1>0, <1>6, <1>7, <1>8, <1>9, <1>10 DEF OnbInv

LEMMA SetStateKeeps ==
  ASSUME OnbInv, faults' = faults, NEW c \in Call, SetOnboardingState(c) PROVE OnbInv'
<1> DEFINE to == onb[c].to
           new == [user EXCEPT !.state = to]
           r == IF to = "COMPLETED" THEN [onb[c] EXCEPT !.pc = "look"] ELSE Idle
<1>0. /\ OnbTyped /\ Carried /\ DailyComes /\ faults \in Nat /\ onb[c] \in OnbRow
      /\ onb[c].pc = "state" /\ to \in State /\ Before(to) \subseteq user.set /\ user \in Users
  <2>1. /\ OnbTyped /\ Carried /\ DailyComes /\ faults \in Nat /\ onb[c] \in OnbRow
        /\ onb[c].pc = "state"
    BY OnbNamed DEF OnbInv, OnbTyped, SetOnboardingState, OnbAt
  <2>2. user # Absent
    BY <2>1 DEF Carried, Handles, OnbAt
  <2> QED BY <2>1, <2>2, OnbRows DEF Carried, OnbTyped, OnbAt
<1>1. new \in Users /\ new.state = to /\ new.set = user.set
  BY <1>0, UserRow
<1>2. r \in OnbRow /\ r.pc = (IF to = "COMPLETED" THEN "look" ELSE "idle")
  <2>1. "look" \in OnbPlace
    BY DEF OnbPlace
  <2> QED BY <1>0, <2>1, OnbRows, OnbIdle
<1>3. user' = new /\ onb' = [onb EXCEPT ![c] = r] /\ UNCHANGED <<daily, history>>
  BY DEF SetOnboardingState, GoTo, Replied
<1> HIDE DEF new, r, to
<1>4. onb' \in [Call -> OnbRow] /\ onb'[c] = r /\ \A d \in Call \ {c} : onb'[d] = onb[d]
  BY <1>0, <1>2, <1>3, OnbMove
<1>5. OnboardingTypeOK'
  <2>1. OnbTyped'
    BY <1>0, <1>1, <1>3, <1>4 DEF OnbTyped
  <2>2. overlaps' \in BOOLEAN /\ raced' \in BOOLEAN
    BY <1>3, OnbNamed, Zenon DEF OnbInv, history
  <2> QED BY <2>1, <2>2 DEF OnboardingTypeOK, OnbTyped, OnbRow, OnbPlace
<1>6. Carried'
  <2>1. user' # Absent /\ Before(user'.state) \subseteq user'.set /\ user'.set = user.set
    BY <1>0, <1>1, <1>3, UserRow
  <2> QED BY <1>0, <1>2, <1>4, <2>1 DEF Carried, Handles, OnbAt
<1>7. DailyComes'
  <2>1. CASE to = "COMPLETED"
    <3>1. onb'[c].pc = "look"
      BY <1>2, <1>4, <2>1
    <3> QED BY <3>1 DEF DailyComes
  <2>2. CASE to # "COMPLETED"
    <3>1. user'.state # "COMPLETED"
      BY <1>1, <1>3, <2>2
    <3> QED BY <3>1 DEF DailyComes
  <2> QED BY <2>1, <2>2
<1>8. overlaps' \/ Sequential'
  <2> SUFFICES ASSUME ~overlaps' PROVE Sequential'
    OBVIOUS
  <2>1. Sequential
    BY <1>3 DEF OnbInv, history
  <2>2. \A d \in Call \ {c} : onb'[d].pc = "idle"
    BY <1>0, <1>4, <2>1 DEF Sequential, Handles, OnbAt
  <2>3. onb'[c].pc \in {"idle", "look"}
    BY <1>2, <1>4
  <2> QED BY <2>2, <2>3 DEF Sequential, Handles, OnbAt
<1>9. raced' \/ OneInserts'
  BY <1>2, <1>3, <1>4 DEF OnbInv, OneInserts, OnbAt, history
<1> QED BY <1>0, <1>5, <1>6, <1>7, <1>8, <1>9 DEF OnbInv

(* Who finds none is the only one about to insert, or two have looked.     *)
LEMMA DailyTaskKeeps ==
  ASSUME OnbInv, faults' = faults, NEW c \in Call, FindDailyTask(c) \/ InsertDailyTask(c)
  PROVE  OnbInv'
<1> DEFINE r == IF InsertDailyTask(c) \/ DailyTaskFound THEN Idle ELSE [onb[c] EXCEPT !.pc = "insert"]
<1>0. /\ OnbTyped /\ Carried /\ DailyComes /\ faults \in Nat /\ onb[c] \in OnbRow
      /\ onb[c].pc \in {"look", "insert"} /\ daily \in Nat
  BY OnbNamed DEF OnbInv, OnbTyped, FindDailyTask, InsertDailyTask, OnbAt
<1>1. r \in OnbRow /\ r.pc \in {"idle", "insert"}
  <2>1. "insert" \in OnbPlace
    BY DEF OnbPlace
  <2> QED BY <1>0, <2>1, OnbRows, OnbIdle
<1>2. onb' = [onb EXCEPT ![c] = r] /\ user' = user /\ overlaps' = overlaps
  BY DEF FindDailyTask, InsertDailyTask, GoTo, Replied, history, OnbAt
<1>3. r.pc = "insert" => daily = 0 /\ daily' = 0 /\ onb[c].pc = "look"
        /\ raced' = (raced \/ \E d \in Call \ {c} : OnbAt(d, "insert"))
  BY <1>0, OnbIdle DEF FindDailyTask, DailyTaskFound, OnbAt
<1>4. r.pc = "idle" => daily' > 0 /\ (daily' = daily \/ (daily' = daily + 1 /\ onb[c].pc = "insert"))
  <2>1. r.pc = "idle" => InsertDailyTask(c) \/ DailyTaskFound
    <3>1. [onb[c] EXCEPT !.pc = "insert"].pc = "insert"
      BY <1>0, OnbRows DEF OnbPlace
    <3> QED BY <3>1
  <2> QED BY <1>0, <2>1 DEF FindDailyTask, InsertDailyTask, OneAdded, DailyTaskFound, OnbAt
<1>5. daily' \in Nat /\ (raced => raced') /\ raced' \in BOOLEAN
  <2>1. CASE FindDailyTask(c)
    <3>1. raced \in BOOLEAN
      BY OnbNamed DEF OnbInv
    <3> QED BY <1>0, <2>1, <3>1 DEF FindDailyTask
  <2>2. CASE InsertDailyTask(c)
    <3>1. daily' = daily + 1 /\ raced' = raced
      BY <2>2 DEF InsertDailyTask, OneAdded, history
    <3>2. raced \in BOOLEAN
      BY OnbNamed DEF OnbInv
    <3> QED BY <1>0, <3>1, <3>2
  <2> QED BY <2>1, <2>2
<1> HIDE DEF r
<1>6. onb' \in [Call -> OnbRow] /\ onb'[c] = r /\ \A d \in Call \ {c} : onb'[d] = onb[d]
  BY <1>0, <1>1, <1>2, OnbMove
<1>7. OnboardingTypeOK'
  <2>1. OnbTyped'
    BY <1>0, <1>2, <1>5, <1>6 DEF OnbTyped
  <2>2. overlaps' \in BOOLEAN
    BY <1>2, OnbNamed DEF OnbInv
  <2> QED BY <1>5, <2>1, <2>2 DEF OnboardingTypeOK, OnbTyped, OnbRow, OnbPlace
<1>8. Carried'
  BY <1>0, <1>1, <1>2, <1>6 DEF Carried, Handles, OnbAt
<1>9. DailyComes'
  <2>1. onb'[c].pc = "insert" \/ daily' > 0
    BY <1>1, <1>4, <1>6
  <2> QED BY <2>1 DEF DailyComes
<1>10. overlaps' \/ Sequential'
  BY <1>0, <1>1, <1>2, <1>6 DEF OnbInv, Sequential, Handles, OnbAt
<1>11. raced' \/ OneInserts'
  <2> SUFFICES ASSUME ~raced' PROVE OneInserts'
    OBVIOUS
  <2>1. OneInserts
    BY <1>5 DEF OnbInv
  <2>2. CASE r.pc = "insert"
    <3>1. \A d \in Call \ {c} : onb'[d].pc # "insert"
      BY <1>3, <1>6, <2>2 DEF OnbAt
    <3> QED BY <1>3, <2>2, <3>1 DEF OneInserts, OnbAt
  <2>3. CASE r.pc = "idle" /\ daily' = daily
    BY <1>6, <2>1, <2>3 DEF OneInserts, OnbAt
  <2>4. CASE r.pc = "idle" /\ daily' = daily + 1 /\ onb[c].pc = "insert"
    <3>1. daily = 0 /\ \A d \in Call \ {c} : onb[d].pc # "insert"
      BY <2>1, <2>4 DEF OneInserts, OnbAt
    <3> QED BY <1>6, <2>4, <3>1 DEF OneInserts, OnbAt
  <2> QED BY <1>1, <1>4, <2>2, <2>3, <2>4
<1> QED BY <1>0, <1>7, <1>8, <1>9, <1>10, <1>11 DEF OnbInv

LEMMA OnbStays ==
  ASSUME OnbInv, UNCHANGED onboarding, faults' \in Nat, faults <= faults' PROVE OnbInv'
<1>1. UNCHANGED <<user, daily, onb, overlaps, raced>>
  BY DEF onboarding, history
<1>2. OnboardingTypeOK'
  BY <1>1 DEF OnbInv, OnboardingTypeOK
<1>3. Carried' /\ (overlaps' \/ Sequential') /\ (raced' \/ OneInserts')
  BY <1>1 DEF OnbInv, Carried, Sequential, OneInserts, Handles, OnbAt
<1>4. DailyComes'
  <2>1. faults' = 0 => faults = 0
    BY DEF OnbInv
  <2> QED BY <1>1, <2>1 DEF OnbInv, DailyComes
<1> QED BY <1>2, <1>3, <1>4 DEF OnbInv

LEMMA OnbCrash ==
  ASSUME OnbInv, Crash PROVE OnbInv'
<1>1. /\ UNCHANGED <<user, daily, overlaps, raced>> /\ faults' = faults + 1
      /\ onb' = [c \in Call |-> Idle]
  BY DEF Crash, Fault, history
<1>2. faults \in Nat /\ OnbTyped
  BY OnbNamed DEF OnbInv
<1> HIDE DEF OnbRow
<1>3. \A c \in Call : onb'[c].pc = "idle"
  BY <1>1, OnbIdle
<1>4. OnboardingTypeOK'
  <2>1. OnbTyped'
    BY <1>1, <1>2, OnbIdle DEF OnbTyped
  <2>2. overlaps' \in BOOLEAN /\ raced' \in BOOLEAN
    BY <1>1, OnbNamed, Zenon DEF OnbInv
  <2> QED BY <2>1, <2>2 DEF OnboardingTypeOK, OnbTyped, OnbRow, OnbPlace
<1>5. Carried' /\ Sequential'
  BY <1>1, <1>3 DEF OnbInv, Carried, Sequential, Handles, OnbAt
<1>6. raced' \/ OneInserts'
  BY <1>1, <1>3 DEF OnbInv, OneInserts, OnbAt
<1>7. faults' \in Nat /\ DailyComes'
  BY <1>1, <1>2 DEF DailyComes
<1> QED BY <1>4, <1>5, <1>6, <1>7 DEF OnbInv

LEMMA OnbNext == ASSUME OnbInv, [Next]_vars PROVE OnbInv'
<1>0. faults \in Nat /\ faults + 1 \in Nat /\ faults <= faults + 1 /\ faults < faults + 1 /\ faults <= faults
  BY DEF OnbInv
<1>1. CASE UNCHANGED onboarding /\ (faults' = faults \/ faults' = faults + 1)
  BY <1>0, <1>1, OnbStays
<1>2. ASSUME NEW w \in Wish, Send(w) PROVE OnbInv'
  BY <1>1, <1>2 DEF Send
<1>3. ASSUME NEW c \in Call, NEW u \in Update, NEW v \in Update, Deliver(c, u, v) PROVE OnbInv'
  BY <1>1, <1>3 DEF Deliver
<1>4. ASSUME NEW c \in Call, Receive(c) PROVE OnbInv'
  <2>1. CASE Acquire(c) \/ AcquireUnrecorded(c) \/ Transcribed(c) \/ NotTranscribed(c)
    BY <1>1, <2>1 DEF Acquire, AcquireUnrecorded, Transcribed, NotTranscribed, Fault
  <2>2. CASE GetUser(c)
    BY <1>1, <2>2, ReadKeeps DEF GetUser
  <2>3. CASE InsertUser(c)
    BY <2>3, ReadKeeps DEF InsertUser
  <2>4. CASE PressButton(c) \/ EmptyText(c)
    BY <1>0, <2>4, ReplyKeeps DEF PressButton, EmptyText
  <2> QED BY <1>4, <2>1, <2>2, <2>3, <2>4 DEF Receive
<1>5. ASSUME NEW c \in Call, SetUp(c) PROVE OnbInv'
  <2>1. CASE Onboard(c)
    BY <2>1, TakesKeeps DEF Onboard
  <2>2. CASE AskAgain(c)
    BY <1>0, <2>2, ReplyKeeps DEF AskAgain
  <2>3. CASE AnswerTaken(c)
    BY <2>3, SetFieldKeeps, SetStateKeeps, DailyTaskKeeps DEF AnswerTaken, OnboardingStep
  <2>4. CASE Onboarded(c)
    BY <1>1, <2>4 DEF Onboarded
  <2> QED BY <1>5, <2>1, <2>2, <2>3, <2>4 DEF SetUp
<1>6. ASSUME NEW c \in Call, Converse(c) PROVE OnbInv'
  <2>1. CASE ReadHistory(c)
    BY <1>0, <2>1, ReplyKeeps DEF ReadHistory
  <2>2. CASE AddRow(c) \/ OtherTool(c) \/ Compose(c) \/ PersistTurn(c) \/ CommitTurn(c) \/ DeliverReply(c)
    BY <1>1, <2>2 DEF AddRow, OtherTool, Compose, PersistTurn, CommitTurn, DeliverReply
  <2> QED BY <1>6, <2>1, <2>2 DEF Converse
<1>7. ASSUME NEW c \in Call, Fails(c) PROVE OnbInv'
  <2>1. CASE MessageFails(c)
    BY <1>0, <1>1, <2>1, ReplyKeeps DEF MessageFails, Fault
  <2>2. CASE DailyTaskFails(c)
    BY <1>0, <2>2, ReplyKeeps DEF DailyTaskFails, Fault
  <2>3. CASE UpdateFails(c)
    BY <1>1, <2>3 DEF UpdateFails, Fault
  <2> QED BY <1>7, <2>1, <2>2, <2>3 DEF Fails
<1>8. CASE Crash
  BY <1>8, OnbCrash
<1>9. CASE UNCHANGED vars
  BY <1>1, <1>9 DEF vars
<1> QED BY <1>2, <1>3, <1>4, <1>5, <1>6, <1>7, <1>8, <1>9 DEF Next

LEMMA OnbInit == Init => OnbInv
<1> SUFFICES ASSUME Init PROVE OnbInv
  OBVIOUS
<1>1. /\ user \in {UserAt(s) : s \in Start \cap State} \cup {Absent}
      /\ daily = (IF user.state = "COMPLETED" THEN 1 ELSE 0)
      /\ onb = [c \in Call |-> Idle] /\ overlaps = FALSE /\ raced = FALSE /\ faults = 0
  BY DEF Init, OnboardingInit
<1>2. \A s \in State : UserAt(s) \in Users /\ UserAt(s).state = s
  BY Questions DEF Before, UserAt, Users
<1>3. user \in Users \cup {Absent} /\ (user # Absent => Before(user.state) \subseteq user.set)
  BY <1>1, <1>2 DEF Before
<1> HIDE DEF OnbRow
<1>4. onb \in [Call -> OnbRow] /\ \A c \in Call : onb[c].pc = "idle"
  BY <1>1, OnbIdle
<1>5. OnboardingTypeOK
  <2>1. OnbTyped
    BY <1>1, <1>3, <1>4 DEF OnbTyped
  <2>2. overlaps \in BOOLEAN /\ raced \in BOOLEAN
    BY <1>1
  <2> QED BY <2>1, <2>2, OnbNamed
<1>6. Carried /\ Sequential
  BY <1>3, <1>4 DEF Carried, Sequential, Handles, OnbAt
<1>7. OneInserts /\ DailyComes
  BY <1>1, <1>4 DEF OneInserts, DailyComes, OnbAt
<1> QED BY <1>1, <1>5, <1>6, <1>7 DEF OnbInv

(* The row and the daily task follow what the calls carry.                 *)
THEOREM SetUpBacked == Spec => []OnbInv
BY OnbInit, OnbNext, PTL DEF Spec

(* Who is set up has answered every question.                              *)
THEOREM CompletedHasAllHolds == Spec => []CompletedHasAll
<1>1. OnbInv => CompletedHasAll
  <2> SUFFICES ASSUME OnbInv, user.state = "COMPLETED" PROVE user.set = Field
    BY DEF CompletedHasAll
  <2>1. user # Absent /\ user \in Users
    BY UserRow, OnbNamed DEF OnbInv, OnbTyped
  <2> QED BY <2>1, UserRow, Questions DEF OnbInv, Carried
<1> QED BY <1>1, SetUpBacked, PTL

(* There is one daily check-in, unless two calls looked for it at once.    *)
THEOREM OneDailyTaskHolds == Spec => []OneDailyTask
<1>1. OnbInv => OneDailyTask
  BY DEF OnbInv, OneInserts, OneDailyTask
<1> QED BY <1>1, SetUpBacked, PTL

(* The state of the set-up goes back only after two calls overlapped.      *)
THEOREM NeverBackHolds == Spec => NeverBack
<1>1. ASSUME OnbInv, [Next]_vars
      PROVE  [overlaps' \/ user = Absent \/ Rank(user'.state) >= Rank(user.state)]_onboarding
  <2>0. OnbTyped /\ (user # Absent => Rank(user.state) \in 1..6)
    BY <1>1, OnbNamed, UserRow, Questions DEF OnbInv, OnbTyped
  <2>1. CASE user' = user
    BY <2>0, <2>1
  <2>2. ASSUME NEW c \in Call, CreateUser(c)
        PROVE  user = Absent \/ Rank(user'.state) >= Rank(user.state)
    BY <2>0, <2>2 DEF CreateUser, Inserted, Found
  <2>3. ASSUME NEW c \in Call, OnboardingStep(c), user # Absent
        PROVE  overlaps' \/ Rank(user'.state) >= Rank(user.state)
    <3>0. user \in Users /\ onb[c] \in OnbRow
      BY <2>0, <2>3 DEF OnbTyped
    <3>1. CASE SetField(c)
      <4>1. onb[c].as \in State /\ onb[c].as # "COMPLETED"
        BY <1>1, <3>0, <3>1, OnbRows DEF SetField, OnbInv, Carried, OnbAt
      <4>2. user'.state = user.state
        BY <3>0, <3>1, <4>1, UserRow, Questions DEF SetField
      <4> QED BY <2>0, <2>3, <4>2
    <3>2. CASE SetOnboardingState(c) /\ ~overlaps'
      <4>1. Sequential /\ onb[c].pc = "state" /\ onb[c].to \in State
        BY <1>1, <3>0, <3>2, OnbRows DEF OnbInv, SetOnboardingState, history, OnbAt
      <4>2. user'.state = onb[c].to
        BY <3>0, <3>2, <4>1, UserRow DEF SetOnboardingState
      <4> QED BY <4>1, <4>2 DEF Sequential, OnbAt
    <3>3. CASE FindDailyTask(c) \/ InsertDailyTask(c)
      BY <2>0, <2>3, <3>3 DEF FindDailyTask, InsertDailyTask
    <3> QED BY <2>3, <3>1, <3>2, <3>3 DEF OnboardingStep
  <2>4. \/ user' = user
        \/ \E c \in Call : CreateUser(c) \/ OnboardingStep(c)
    <3>1. CASE Crash \/ UNCHANGED vars \/ \E w \in Wish : Send(w)
      BY <3>1 DEF Crash, vars, onboarding, Send
    <3>2. CASE \E c \in Call, u, v \in Update : Deliver(c, u, v)
      BY <3>2 DEF Deliver, onboarding
    <3>3. ASSUME NEW c \in Call, Receive(c) PROVE user' = user \/ CreateUser(c)
      BY <3>3 DEF Receive, Acquire, AcquireUnrecorded, Transcribed, NotTranscribed, GetUser,
           InsertUser, PressButton, EmptyText, FindUser, NothingTaken, onboarding
    <3>4. ASSUME NEW c \in Call, SetUp(c) PROVE user' = user \/ OnboardingStep(c)
      BY <3>4 DEF SetUp, Onboard, AskAgain, AnswerTaken, Onboarded, Answered, Greeted, Takes,
           NothingTaken, onboarding
    <3>5. ASSUME NEW c \in Call, Converse(c) PROVE user' = user
      BY <3>5 DEF Converse, ReadHistory, AddRow, OtherTool, Compose, PersistTurn, CommitTurn,
           DeliverReply, NothingTaken, onboarding
    <3>6. ASSUME NEW c \in Call, Fails(c) PROVE user' = user
      BY <3>6 DEF Fails, MessageFails, DailyTaskFails, UpdateFails, OnboardingBrokenOff, onboarding
    <3> QED BY <1>1, <3>1, <3>2, <3>3, <3>4, <3>5, <3>6 DEF Next
  <2> QED BY <2>1, <2>2, <2>3, <2>4
<1> QED BY <1>1, SetUpBacked, PTL DEF Spec, NeverBack

-----------------------------------------------------------------------------
(* The rows of the calls.  did is a flag under a name of its own: what is  *)
(* said of its other fields needs nothing of it.                           *)

Place == {"acquire", "transcribe", "user", "create", "route", "onboard",
          "model", "user turn", "assistant turn", "commit", "deliver"}

Changes(s, r, fields) ==
  /\ s \in Handling /\ s.update = r.update
  /\ "pc" \in fields \/ s.pc = r.pc
  /\ "rounds" \in fields \/ s.rounds = r.rounds
  /\ "did" \in fields \/ s.did = r.did
  /\ "seen" \in fields \/ s.seen = r.seen
  /\ "gone" \in fields \/ s.gone = r.gone
  /\ "turn" \in fields \/ s.turn = r.turn
  /\ "reply" \in fields \/ s.reply = r.reply

Flag == BOOLEAN
Rounds == 0..MAX_TOOL_ROUNDS

LEMMA HandlingNamed ==
  Handling = [pc : Place, update : Update, rounds : Rounds, did : Flag,
              seen : SUBSET Turn, gone : SUBSET Turn, turn : Turn \cup {NoTurn}, reply : Reply]
BY Zenon DEF Handling, Place, Flag, Rounds

LEMMA HandlingChange ==
  ASSUME NEW r \in Handling
  PROVE  /\ \A x \in Place : LET s == [r EXCEPT !.pc = x] IN s.pc = x /\ Changes(s, r, {"pc"})
         /\ \A x \in Rounds : LET s == [r EXCEPT !.rounds = x] IN
              s.rounds = x /\ Changes(s, r, {"rounds"})
         /\ \A x \in Flag : LET s == [r EXCEPT !.did = x] IN s.did = x /\ Changes(s, r, {"did"})
         /\ \A x \in SUBSET Turn : LET s == [r EXCEPT !.seen = x] IN
              s.seen = x /\ Changes(s, r, {"seen"})
         /\ \A x \in SUBSET Turn : LET s == [r EXCEPT !.gone = x] IN
              s.gone = x /\ Changes(s, r, {"gone"})
         /\ \A x \in Turn \cup {NoTurn} : LET s == [r EXCEPT !.turn = x] IN
              s.turn = x /\ Changes(s, r, {"turn"})
         /\ \A x \in Reply : LET s == [r EXCEPT !.reply = x] IN
              s.reply = x /\ Changes(s, r, {"reply"})
BY HandlingNamed, SMT DEF Changes

LEMMA HandlingFields ==
  ASSUME NEW r \in Handling
  PROVE  /\ r.pc \in Place /\ r.update \in Update /\ r.rounds \in Rounds
         /\ r.seen \subseteq Turn /\ r.gone \subseteq Turn /\ r.turn \in Turn \cup {NoTurn}
         /\ r.reply \in Reply /\ r # NoCall /\ r.pc # "idle" /\ r.did \in Flag
<1>2. /\ r.pc \in Place /\ r.update \in Update /\ r.rounds \in Rounds
      /\ r.seen \in SUBSET Turn /\ r.gone \in SUBSET Turn /\ r.turn \in Turn \cup {NoTurn}
      /\ r.reply \in Reply /\ r.did \in Flag
  BY HandlingNamed, SMT
<1>3. NoCall.pc = "idle"
  BY DEF NoCall
<1>4. r.pc # "idle"
  BY <1>2 DEF Place
<1>5. r # NoCall
  BY <1>3, <1>4
<1> QED BY <1>2, <1>4, <1>5

Row == Handling \cup {NoCall}

ConvTyped ==
  /\ sent \in Seq(Message) /\ Len(sent) <= MaxUpdates
  /\ deliveries \in [Update -> Nat] /\ processed \subseteq Update
  /\ call \in [Call -> Row]
  /\ turns \subseteq Turn /\ clock \in Nat
  /\ added \in [Wish -> Nat] /\ answered \in [Update -> SUBSET Reply]
  /\ lost \subseteq Update /\ faults \in Nat

LEMMA Rows ==
  /\ NoCall.pc = "idle"
  /\ \A r \in Row : r.pc # "idle" => r \in Handling
  /\ \A r \in Row : r # NoCall => r \in Handling
  /\ \A r \in Handling : r.pc # "idle" /\ r # NoCall
<1>1. NoCall.pc = "idle"
  BY DEF NoCall
<1> QED BY <1>1, HandlingFields, Zenon DEF Row

(* What a step does to the calls: one goes on with its update, or ends.    *)
Alone(c) == call' \in [Call -> Row] /\ \A d \in Call \ {c} : call'[d] = call[d]
Goes(c, fields) == Alone(c) /\ call[c] \in Handling /\ Changes(call'[c], call[c], fields)
Ends(c) == Alone(c) /\ call[c] \in Handling /\ call'[c] = NoCall

LEMMA Moves ==
  ASSUME ConvTyped, NEW c \in Call, NEW r \in Row, call' = [call EXCEPT ![c] = r]
  PROVE  Alone(c) /\ call'[c] = r
<1> HIDE DEF Row
<1> QED BY DEF ConvTyped, Alone

LEMMA Continued ==
  ASSUME ConvTyped, NEW c \in Call, NEW pc \in Place, call[c].pc # "idle", Continue(c, pc)
  PROVE  Goes(c, {"pc"}) /\ call'[c].pc = pc
<1> DEFINE r == [call[c] EXCEPT !.pc = pc]
<1>1. call[c] \in Handling
  BY Rows DEF ConvTyped
<1>2. r \in Row /\ r.pc = pc /\ Changes(r, call[c], {"pc"})
  BY <1>1, HandlingChange DEF Changes, Row
<1>3. call' = [call EXCEPT ![c] = r]
  BY DEF Continue
<1> HIDE DEF r
<1> QED BY <1>1, <1>2, <1>3, Moves DEF Goes

LEMMA Ended ==
  ASSUME ConvTyped, NEW c \in Call, call[c].pc # "idle", End(c)
  PROVE  Ends(c)
<1>1. call[c] \in Handling
  BY Rows DEF ConvTyped
<1>2. NoCall \in Row
  BY DEF Row
<1>3. call' = [call EXCEPT ![c] = NoCall]
  BY DEF End
<1> HIDE DEF NoCall, Row
<1> QED BY <1>1, <1>2, <1>3, Moves DEF Ends

LEMMA Said ==
  ASSUME ConvTyped, NEW c \in Call, NEW reply \in Reply, call[c].pc # "idle",
         Say(c, reply, "deliver")
  PROVE  /\ Goes(c, {"pc", "reply"})
         /\ call'[c].pc = "deliver" /\ call'[c].reply = reply
<1> DEFINE a == [call[c] EXCEPT !.reply = reply]
           r == [a EXCEPT !.pc = "deliver"]
<1>1. call[c] \in Handling /\ "deliver" \in Place
  BY Rows DEF ConvTyped, Place
<1>2. a.reply = reply /\ Changes(a, call[c], {"reply"})
  BY <1>1, HandlingChange
<1>3. call' = [call EXCEPT ![c] = r]
  BY DEF Say
<1>4. a \in Handling
  BY <1>2 DEF Changes
<1> HIDE DEF a
<1>5. r.pc = "deliver" /\ Changes(r, a, {"pc"})
  BY <1>1, <1>4, HandlingChange
<1> HIDE DEF r
<1>6. r \in Row /\ r.reply = reply /\ Changes(r, call[c], {"pc", "reply"})
  BY <1>2, <1>5 DEF Changes, Row
<1> QED BY <1>1, <1>3, <1>5, <1>6, Moves DEF Goes

LEMMA HistoryRead ==
  ASSUME ConvTyped, NEW c \in Call, ReadHistory(c)
  PROVE  /\ Goes(c, {"pc", "seen"}) /\ call[c].pc = "route"
         /\ call'[c].pc = "model" /\ call'[c].seen = Latest(turns, MAX_HISTORY_TURNS)
<1> DEFINE seen == Latest(turns, MAX_HISTORY_TURNS)
           a == [call[c] EXCEPT !.pc = "model"]
           r == [a EXCEPT !.seen = seen]
<1>1. call[c] \in Handling /\ call[c].pc = "route" /\ "model" \in Place /\ seen \in SUBSET Turn
  BY Rows DEF ConvTyped, Place, ReadHistory, At, Latest
<1>2. a.pc = "model" /\ Changes(a, call[c], {"pc"})
  BY <1>1, HandlingChange
<1>3. call' = [call EXCEPT ![c] = r]
  BY DEF ReadHistory
<1>4. a \in Handling
  BY <1>2 DEF Changes
<1> HIDE DEF a, seen
<1>5. r.seen = seen /\ Changes(r, a, {"seen"})
  BY <1>1, <1>4, HandlingChange
<1> HIDE DEF r
<1>6. r \in Row /\ r.pc = "model" /\ Changes(r, call[c], {"pc", "seen"})
  BY <1>2, <1>5 DEF Changes, Row
<1>7. Alone(c) /\ call'[c] = r
  BY <1>3, <1>6, Moves
<1> QED BY <1>1, <1>5, <1>6, <1>7 DEF Goes, seen

LEMMA ToolRan ==
  ASSUME ConvTyped, NEW c \in Call, OtherTool(c)
  PROVE  /\ Goes(c, {"rounds", "seen"}) /\ call[c].pc = "model" /\ call'[c].rounds # 0
<1> DEFINE n == call[c].rounds + 1
           a == [call[c] EXCEPT !.rounds = n]
           r == [a EXCEPT !.seen = {}]
<1>1. call[c] \in Handling /\ call[c].pc = "model" /\ n \in Rounds /\ n # 0
  <2>1. call[c] \in Handling /\ call[c].pc = "model"
    BY Rows DEF ConvTyped, OtherTool, At
  <2>2. call[c].rounds \in Rounds /\ call[c].rounds < MAX_TOOL_ROUNDS
    BY <2>1, HandlingFields DEF OtherTool, RoundsLeft
  <2> QED BY <2>1, <2>2, ConversationAssumption DEF Rounds
<1>2. a.rounds = n /\ Changes(a, call[c], {"rounds"})
  BY <1>1, HandlingChange
<1>3. call' = [call EXCEPT ![c] = r]
  BY DEF OtherTool
<1>4. a \in Handling /\ {} \in SUBSET Turn
  BY <1>2 DEF Changes
<1> HIDE DEF a, n
<1>5. r.seen = {} /\ Changes(r, a, {"seen"})
  BY <1>4, HandlingChange
<1> HIDE DEF r
<1>6. r \in Row /\ r.rounds = n /\ Changes(r, call[c], {"rounds", "seen"})
  BY <1>2, <1>5 DEF Changes, Row
<1>7. Alone(c) /\ call'[c] = r
  BY <1>3, <1>6, Moves
<1> QED BY <1>1, <1>5, <1>6, <1>7 DEF Goes

LEMMA RowAdded ==
  ASSUME ConvTyped, NEW c \in Call, AddRow(c)
  PROVE  /\ Goes(c, {"did", "rounds", "seen"}) /\ call[c].pc = "model" /\ ~call[c].did
         /\ call'[c].rounds # 0 /\ call'[c].did = TRUE
<1> DEFINE n == call[c].rounds + 1
           a == [call[c] EXCEPT !.did = TRUE]
           b == [a EXCEPT !.rounds = n]
           r == [b EXCEPT !.seen = {}]
<1>1. call[c] \in Handling /\ call[c].pc = "model" /\ n \in Rounds /\ n # 0
  <2>1. call[c] \in Handling /\ call[c].pc = "model"
    BY Rows DEF ConvTyped, AddRow, At
  <2>2. call[c].rounds \in Rounds /\ call[c].rounds < MAX_TOOL_ROUNDS
    BY <2>1, HandlingFields DEF AddRow, RoundsLeft
  <2> QED BY <2>1, <2>2, ConversationAssumption DEF Rounds
<1>2. a.did = TRUE /\ Changes(a, call[c], {"did"})
  <2>1. TRUE \in Flag
    BY DEF Flag
  <2> QED BY <1>1, <2>1, HandlingChange, Zenon
<1>3. call' = [call EXCEPT ![c] = r]
  <2>1. a.rounds = call[c].rounds
    BY <1>2, Zenon DEF Changes
  <2>2. r = [call[c] EXCEPT !.did = TRUE, !.rounds = @ + 1, !.seen = {}]
    BY <2>1, Zenon
  <2>3. call' = [call EXCEPT ![c] = [call[c] EXCEPT !.did = TRUE, !.rounds = @ + 1, !.seen = {}]]
    BY Zenon DEF AddRow
  <2> QED BY <2>2, <2>3, Zenon
<1>4. a \in Handling /\ {} \in SUBSET Turn
  BY <1>2 DEF Changes
<1> HIDE DEF a, n
<1>5. b.rounds = n /\ Changes(b, a, {"rounds"}) /\ b \in Handling
  BY <1>1, <1>4, HandlingChange DEF Changes
<1> HIDE DEF b
<1>6. r.seen = {} /\ Changes(r, b, {"seen"})
  BY <1>4, <1>5, HandlingChange
<1> HIDE DEF r
<1>7. r \in Row /\ r.rounds = n /\ r.did = TRUE /\ Changes(r, call[c], {"did", "rounds", "seen"})
  BY <1>2, <1>5, <1>6, Zenon DEF Changes, Row
<1>8. Alone(c) /\ call'[c] = r
  BY <1>3, <1>7, Moves
<1>9. ~call[c].did
  BY Zenon DEF AddRow
<1> QED BY <1>1, <1>7, <1>8, <1>9, Zenon DEF Goes

LEMMA Composed ==
  ASSUME ConvTyped, NEW c \in Call, Compose(c)
  PROVE  Goes(c, {"pc", "seen"}) /\ call[c].pc = "model" /\ call'[c].pc = "user turn"
<1> DEFINE a == [call[c] EXCEPT !.pc = "user turn"]
           r == [a EXCEPT !.seen = {}]
<1>1. call[c] \in Handling /\ call[c].pc = "model" /\ "user turn" \in Place
  BY Rows DEF ConvTyped, Place, Compose, At
<1>2. a.pc = "user turn" /\ Changes(a, call[c], {"pc"})
  BY <1>1, HandlingChange
<1>3. call' = [call EXCEPT ![c] = r]
  BY DEF Compose
<1>4. a \in Handling /\ {} \in SUBSET Turn
  BY <1>2 DEF Changes
<1> HIDE DEF a
<1>5. r.seen = {} /\ Changes(r, a, {"seen"})
  BY <1>4, HandlingChange
<1> HIDE DEF r
<1>6. r \in Row /\ r.pc = "user turn" /\ Changes(r, call[c], {"pc", "seen"})
  BY <1>2, <1>5 DEF Changes, Row
<1>7. Alone(c) /\ call'[c] = r
  BY <1>3, <1>6, Moves
<1> QED BY <1>1, <1>5, <1>6, <1>7 DEF Goes

NewTurn(c) == [at |-> clock + 1, role |-> Role(c), update |-> call[c].update]

LEMMA TurnWritten ==
  ASSUME ConvTyped, NEW c \in Call, PersistTurn(c)
  PROVE  /\ Goes(c, {"pc", "turn", "gone"}) /\ call[c].pc \in {"user turn", "assistant turn"}
         /\ call'[c].pc = "commit" /\ call'[c].turn = NewTurn(c) /\ NewTurn(c) \in Turn
         /\ call'[c].gone = Outdated(NewTurn(c))
<1> DEFINE t == NewTurn(c)
           a == [call[c] EXCEPT !.pc = "commit"]
           b == [a EXCEPT !.turn = t]
           r == [b EXCEPT !.gone = Outdated(t)]
<1>1. /\ call[c] \in Handling /\ call[c].pc \in {"user turn", "assistant turn"}
      /\ "commit" \in Place
  BY Rows DEF ConvTyped, Place, PersistTurn, At
<1>2. t \in Turn /\ Outdated(t) \in SUBSET Turn
  <2>1. call[c].update \in Update
    BY <1>1, HandlingFields
  <2>2. clock + 1 \in Nat /\ turns \subseteq Turn
    BY DEF ConvTyped
  <2>3. Role(c) \in {"user", "assistant"}
    BY DEF Role
  <2> QED BY <2>1, <2>2, <2>3 DEF NewTurn, Turn, Outdated
<1>3. a.pc = "commit" /\ Changes(a, call[c], {"pc"}) /\ a \in Handling
  BY <1>1, HandlingChange DEF Changes
<1>4. call' = [call EXCEPT ![c] = r]
  BY DEF PersistTurn, NewTurn
<1> HIDE DEF a, t
<1>5. b.turn = t /\ Changes(b, a, {"turn"}) /\ b \in Handling
  BY <1>2, <1>3, HandlingChange DEF Changes
<1> HIDE DEF b
<1>6. r.gone = Outdated(t) /\ Changes(r, b, {"gone"})
  BY <1>2, <1>5, HandlingChange
<1> HIDE DEF r
<1>7. r \in Row /\ r.pc = "commit" /\ r.turn = t /\ Changes(r, call[c], {"pc", "turn", "gone"})
  BY <1>3, <1>5, <1>6 DEF Changes, Row
<1>8. Alone(c) /\ call'[c] = r
  BY <1>4, <1>7, Moves
<1> QED BY <1>1, <1>2, <1>6, <1>7, <1>8 DEF Goes, t

LEMMA TurnCommitted ==
  ASSUME ConvTyped, NEW c \in Call, CommitTurn(c)
  PROVE  /\ Goes(c, {"pc", "turn", "gone"}) /\ call[c].pc = "commit"
         /\ call'[c].pc = IF call[c].turn.role = "user" THEN "assistant turn" ELSE "deliver"
<1> DEFINE pc == IF call[c].turn.role = "user" THEN "assistant turn" ELSE "deliver"
           a == [call[c] EXCEPT !.turn = NoTurn]
           b == [a EXCEPT !.gone = {}]
           r == [b EXCEPT !.pc = pc]
<1>1. call[c] \in Handling /\ call[c].pc = "commit" /\ pc \in Place
  BY Rows DEF ConvTyped, Place, CommitTurn, At
<1>2. a \in Handling /\ Changes(a, call[c], {"turn"}) /\ {} \in SUBSET Turn
  <2>1. NoTurn \in Turn \cup {NoTurn}
    OBVIOUS
  <2>2. \A x \in Turn \cup {NoTurn} : Changes([call[c] EXCEPT !.turn = x], call[c], {"turn"})
    BY <1>1, HandlingChange
  <2>3. Changes(a, call[c], {"turn"})
    BY <2>1, <2>2, Zenon
  <2> HIDE DEF a
  <2> QED BY <2>3 DEF Changes
<1>3. call' = [call EXCEPT ![c] = r]
  BY DEF CommitTurn
<1> HIDE DEF a, pc
<1>4. b \in Handling /\ Changes(b, a, {"gone"})
  BY <1>2, HandlingChange DEF Changes
<1> HIDE DEF b
<1>5. r.pc = pc /\ Changes(r, b, {"pc"})
  BY <1>1, <1>4, HandlingChange
<1> HIDE DEF r
<1>6. r \in Row /\ Changes(r, call[c], {"pc", "turn", "gone"})
  BY <1>2, <1>4, <1>5 DEF Changes, Row
<1>7. Alone(c) /\ call'[c] = r
  BY <1>3, <1>6, Moves
<1> QED BY <1>1, <1>5, <1>6, <1>7 DEF Goes, pc

LEMMA MessageFailed ==
  ASSUME ConvTyped, NEW c \in Call, call[c].pc # "idle", MessageFails(c)
  PROVE  /\ Goes(c, {"pc", "reply", "turn", "gone", "seen"})
         /\ call'[c].pc = "deliver" /\ call'[c].reply = "snag"
<1> DEFINE a == [call[c] EXCEPT !.pc = "deliver"]
           b == [a EXCEPT !.reply = "snag"]
           d == [b EXCEPT !.turn = NoTurn]
           e == [d EXCEPT !.gone = {}]
           r == [e EXCEPT !.seen = {}]
<1>1. call[c] \in Handling /\ "deliver" \in Place /\ "snag" \in Reply /\ {} \in SUBSET Turn
  BY Rows DEF ConvTyped, Place, Reply
<1>2. a.pc = "deliver" /\ a \in Handling /\ Changes(a, call[c], {"pc"})
  BY <1>1, HandlingChange DEF Changes
<1>3. call' = [call EXCEPT ![c] = r]
  BY DEF MessageFails
<1> HIDE DEF a
<1>4. b.reply = "snag" /\ b \in Handling /\ Changes(b, a, {"reply"})
  BY <1>1, <1>2, HandlingChange DEF Changes
<1> HIDE DEF b
<1>5. d \in Handling /\ Changes(d, b, {"turn"})
  BY <1>4, HandlingChange DEF Changes
<1> HIDE DEF d
<1>6. e \in Handling /\ Changes(e, d, {"gone"})
  BY <1>1, <1>5, HandlingChange DEF Changes
<1> HIDE DEF e
<1>7. Changes(r, e, {"seen"})
  BY <1>1, <1>6, HandlingChange DEF Changes
<1> HIDE DEF r
<1>8. /\ r \in Row /\ r.pc = "deliver" /\ r.reply = "snag"
      /\ Changes(r, call[c], {"pc", "reply", "turn", "gone", "seen"})
  BY <1>2, <1>4, <1>5, <1>6, <1>7 DEF Changes, Row
<1>9. Alone(c) /\ call'[c] = r
  BY <1>3, <1>8, Moves
<1> QED BY <1>1, <1>8, <1>9 DEF Goes

-----------------------------------------------------------------------------
(* The steps of a call, by what they do to it. *)

inflow == <<sent, deliveries>>

LEMMA EarlyStep ==
  ASSUME ConvTyped, NEW c \in Call,
         \/ AcquireUnrecorded(c) \/ Transcribed(c) \/ GetUser(c) \/ InsertUser(c)
         \/ Onboard(c) \/ AskAgain(c) \/ Onboarded(c)
         \/ Acquire(c) /\ Acquired(call[c].update)
  PROVE  /\ Goes(c, {"pc"}) /\ UNCHANGED <<inflow, turns, clock, outcome>>
         /\ call[c].pc \in {"acquire", "transcribe", "user", "create", "route", "onboard"}
         /\ call'[c].pc \in {"transcribe", "user", "create", "route", "onboard", "user turn"}
         /\ call[c].pc = "onboard" => call'[c].pc = "user turn"
         /\ processed' \in {processed, processed \cup {call[c].update}}
         /\ faults' \in {faults, faults + 1}
<1> DEFINE Leads(p, q) == call[c].pc = p /\ Continue(c, q)
<1>1. Leads("acquire", "transcribe") \/ Leads("acquire", "user") \/ Leads("transcribe", "user")
      \/ Leads("user", "route") \/ Leads("user", "create") \/ Leads("create", "route")
      \/ Leads("route", "onboard") \/ Leads("route", "user turn") \/ Leads("onboard", "user turn")
  BY DEF AcquireUnrecorded, Transcribed, GetUser, InsertUser, Onboard, AskAgain, Onboarded,
         Acquire, At, Parsed
<1>2. /\ UNCHANGED <<inflow, turns, clock, outcome>>
      /\ processed' \in {processed, processed \cup {call[c].update}}
      /\ faults' \in {faults, faults + 1}
  BY DEF AcquireUnrecorded, Transcribed, GetUser, InsertUser, Onboard, AskAgain, Onboarded,
         Acquire, inbox, inflow, record, Fault
<1>3. ASSUME NEW p \in {"acquire", "transcribe", "user", "create", "route", "onboard"},
             NEW q \in {"transcribe", "user", "create", "route", "onboard", "user turn"},
             Leads(p, q)
      PROVE  Goes(c, {"pc"}) /\ call[c].pc = p /\ call'[c].pc = q
  <2>1. q \in Place
    BY DEF Place
  <2> QED BY <1>3, <2>1, Continued
<1> HIDE DEF Leads
<1> QED BY <1>1, <1>2, <1>3

LEMMA ReplyStep ==
  ASSUME ConvTyped, NEW c \in Call, call[c].pc # "idle",
         NotTranscribed(c) \/ PressButton(c) \/ EmptyText(c) \/ MessageFails(c)
  PROVE  /\ Goes(c, {"pc", "reply", "turn", "gone", "seen"})
         /\ UNCHANGED <<inflow, processed, turns, clock, outcome>>
         /\ call'[c].pc = "deliver" /\ call'[c].reply \in {"snag", "apology", "notice"}
         /\ \/ faults' = faults /\ call[c].pc \in {"transcribe", "route"}
            \/ faults' = faults + 1
<1>1. UNCHANGED <<inflow, processed, turns, clock, outcome>>
  BY DEF NotTranscribed, PressButton, EmptyText, MessageFails, inbox, inflow, record
<1>2. CASE NotTranscribed(c) \/ PressButton(c) \/ EmptyText(c)
  <2>1. \E reply \in {"apology", "notice"} : Say(c, reply, "deliver")
    BY <1>2 DEF NotTranscribed, PressButton, EmptyText
  <2>2. PICK reply \in {"apology", "notice"} : Say(c, reply, "deliver")
    BY <2>1
  <2>3. reply \in Reply
    BY DEF Reply
  <2>4. Goes(c, {"pc", "reply"}) /\ call'[c].pc = "deliver" /\ call'[c].reply = reply
    BY <2>2, <2>3, Said
  <2>5. faults' = faults /\ call[c].pc \in {"transcribe", "route"}
    BY <1>2 DEF NotTranscribed, PressButton, EmptyText, At
  <2>6. Goes(c, {"pc", "reply", "turn", "gone", "seen"})
    BY <2>4 DEF Goes, Changes
  <2> QED BY <1>1, <2>4, <2>5, <2>6
<1>3. CASE MessageFails(c)
  BY <1>1, <1>3, MessageFailed DEF MessageFails, Fault
<1> QED BY <1>2, <1>3

LEMMA EndStep ==
  ASSUME ConvTyped, NEW c \in Call,
         \/ Acquire(c) /\ ~Acquired(call[c].update)
         \/ DeliverReply(c) \/ UpdateFails(c)
  PROVE  /\ Ends(c) /\ UNCHANGED <<inflow, turns, clock, added>>
         /\ \/ /\ call[c].pc = "acquire" /\ call[c].update \in processed
               /\ UNCHANGED <<processed, answered, lost, faults>>
            \/ /\ call[c].pc = "deliver" /\ UNCHANGED <<processed, lost, faults>>
               /\ answered' = [answered EXCEPT ![call[c].update] = @ \cup {call[c].reply}]
            \/ /\ call[c].pc \in {"user", "create", "deliver"}
               /\ UNCHANGED <<processed, answered>> /\ faults' = faults + 1
               /\ lost' = lost \cup {call[c].update}
<1>1. CASE Acquire(c) /\ ~Acquired(call[c].update)
  <2>1. call[c].pc = "acquire" /\ call[c].update \in processed /\ End(c)
    BY <1>1 DEF Acquire, Acquired, At
  <2>2. UNCHANGED <<inflow, turns, clock, added, processed, answered, lost, faults>>
    BY <1>1, <2>1 DEF Acquire, inflow, record, outcome
  <2> QED BY <2>1, <2>2, Ended
<1>2. CASE DeliverReply(c)
  <2>1. call[c].pc = "deliver" /\ End(c)
    BY <1>2 DEF DeliverReply, At
  <2> QED BY <1>2, <2>1, Ended DEF DeliverReply, inbox, inflow, record
<1>3. CASE UpdateFails(c)
  <2>1. call[c].pc \in {"user", "create", "deliver"} /\ End(c)
    BY <1>3 DEF UpdateFails
  <2> QED BY <1>3, <2>1, Ended DEF UpdateFails, inbox, inflow, record, Fault
<1> QED BY <1>1, <1>2, <1>3

(* A call is where its set-up is.                                          *)
Linked ==
  \A c \in Call :
    /\ onb[c].pc = "read" => call[c].pc = "route"
    /\ onb[c].pc \in {"set", "state", "look", "insert"} => call[c].pc = "onboard"

LEMMA LinkedKept ==
  ASSUME OnbTyped, Linked, NEW c \in Call, Alone(c), \A d \in Call \ {c} : onb'[d] = onb[d],
         \/ onb'[c].pc = "idle"
         \/ onb'[c].pc = "read" /\ call'[c].pc = "route"
         \/ onb'[c].pc # "read" /\ call'[c].pc = "onboard"
  PROVE  Linked'
BY DEF Linked, Alone

LEMMA OnbAlone ==
  ASSUME OnbTyped, NEW c \in Call
  PROVE  /\ NothingTaken(c) \/ OnboardingBrokenOff(c) =>
              onb'[c].pc = "idle" /\ \A d \in Call \ {c} : onb'[d] = onb[d]
         /\ FindUser(c) \/ CreateUser(c) =>
              onb'[c].pc = "read" /\ \A d \in Call \ {c} : onb'[d] = onb[d]
         /\ Answered(c) \/ Greeted(c) \/ OnboardingStep(c) =>
              onb'[c].pc # "read" /\ \A d \in Call \ {c} : onb'[d] = onb[d]
<1>0. DOMAIN onb = Call /\ onb[c] \in OnbRow /\ DOMAIN onb[c] = {"pc", "as", "to"} /\ Idle.pc = "idle"
  BY OnbIdle DEF OnbTyped, OnbRow
<1>1. ASSUME NEW r, onb' = [onb EXCEPT ![c] = r]
      PROVE  onb'[c] = r /\ \A d \in Call \ {c} : onb'[d] = onb[d]
  BY <1>0, <1>1
<1>2. ASSUME NothingTaken(c) \/ OnboardingBrokenOff(c)
      PROVE  onb'[c].pc = "idle" /\ \A d \in Call \ {c} : onb'[d] = onb[d]
  <2>1. onb' = [onb EXCEPT ![c] = Idle]
    BY <1>2 DEF NothingTaken, OnboardingBrokenOff, Replied
  <2> QED BY <1>0, <1>1, <2>1
<1>3. ASSUME FindUser(c) \/ CreateUser(c)
      PROVE  onb'[c].pc = "read" /\ \A d \in Call \ {c} : onb'[d] = onb[d]
  <2>1. \E s : onb' = [onb EXCEPT ![c] = [pc |-> "read", as |-> s, to |-> s]]
    BY <1>3 DEF FindUser, CreateUser, Read
  <2>2. PICK s : onb' = [onb EXCEPT ![c] = [pc |-> "read", as |-> s, to |-> s]]
    BY <2>1
  <2> QED BY <1>1, <2>2
<1>4. ASSUME NEW p \in {"set", "state", "look", "insert"}, NEW to, onb' = [onb EXCEPT ![c].pc = p, ![c].to = to]
      PROVE  onb'[c].pc = p /\ \A d \in Call \ {c} : onb'[d] = onb[d]
  <2>1. onb' = [onb EXCEPT ![c] = [[onb[c] EXCEPT !.pc = p] EXCEPT !.to = to]]
    BY <1>0, <1>4
  <2>2. [[onb[c] EXCEPT !.pc = p] EXCEPT !.to = to].pc = p
    BY <1>0
  <2> HIDE DEF OnbRow
  <2> QED BY <1>1, <2>1, <2>2
<1>5. ASSUME NEW p, GoTo(c, p)
      PROVE  onb'[c].pc = p /\ \A d \in Call \ {c} : onb'[d] = onb[d]
  BY <1>0, <1>5 DEF GoTo
<1>6. ASSUME Answered(c) \/ Greeted(c) \/ OnboardingStep(c)
      PROVE  onb'[c].pc # "read" /\ \A d \in Call \ {c} : onb'[d] = onb[d]
  <2>1. CASE Answered(c) \/ Greeted(c)
    <3>1. \E to : \E p \in {"set", "state"} : Takes(c, p, to)
      BY <2>1 DEF Answered, Greeted
    <3> QED BY <1>4, <3>1 DEF Takes
  <2>2. CASE Replied(c)
    BY <1>0, <1>1, <2>2 DEF Replied
  <2>3. CASE \E p \in {"state", "look", "insert"} : GoTo(c, p)
    BY <1>5, <2>3
  <2>4. OnboardingStep(c) => Replied(c) \/ \E p \in {"state", "look", "insert"} : GoTo(c, p)
    BY DEF OnboardingStep, SetField, SetOnboardingState, FindDailyTask, InsertDailyTask
  <2> QED BY <1>6, <2>1, <2>2, <2>3, <2>4
<1> QED BY <1>2, <1>3, <1>6

LEMMA DeliverStep ==
  ASSUME ConvTyped, NEW c \in Call, NEW u \in Update, NEW v \in Update, Deliver(c, u, v)
  PROVE  /\ Alone(c) /\ call[c] = NoCall /\ call'[c] \in Handling
         /\ call'[c].pc = "acquire" /\ call'[c].update = u /\ call'[c].reply = "reply"
         /\ ~call'[c].did
         /\ u \in DOMAIN sent /\ v \in DOMAIN sent /\ lost' = lost \cup ((u + 1)..v)
         /\ deliveries' \in [Update -> Nat]
         /\ \A w \in Update : deliveries'[w] > deliveries[w] => w \in u..v
         /\ UNCHANGED <<sent, processed, turns, clock, added, answered, faults, onb>>
<1> DEFINE r == [pc |-> "acquire", update |-> u, rounds |-> 0, did |-> FALSE,
                 seen |-> {}, gone |-> {}, turn |-> NoTurn, reply |-> "reply"]
<1>1. /\ call[c] = NoCall /\ call' = [call EXCEPT ![c] = r] /\ u \in DOMAIN sent
      /\ v \in DOMAIN sent /\ lost' = lost \cup ((u + 1)..v)
      /\ deliveries' = [w \in Update |-> deliveries[w] + (IF w \in u..v THEN 1 ELSE 0)]
      /\ UNCHANGED <<sent, processed, turns, clock, added, answered, faults, onb>>
  BY Zenon DEF Deliver, record, onboarding
<1>2. r \in Handling
  <2>1. /\ "acquire" \in Place /\ 0 \in Rounds /\ FALSE \in Flag /\ {} \in SUBSET Turn
        /\ NoTurn \in Turn \cup {NoTurn} /\ "reply" \in Reply
    BY ConversationAssumption DEF Place, Rounds, Flag, Reply
  <2> QED BY <2>1, HandlingNamed, Zenon
<1>3. r.pc = "acquire" /\ r.update = u /\ r.reply = "reply" /\ ~r.did
  OBVIOUS
<1>4. /\ deliveries' \in [Update -> Nat]
      /\ \A w \in Update : deliveries'[w] > deliveries[w] => w \in u..v
  <2>1. \A w \in Update : deliveries[w] \in Nat
    BY DEF ConvTyped
  <2> DEFINE more(w) == deliveries[w] + (IF w \in u..v THEN 1 ELSE 0)
  <2>2. \A w \in Update : more(w) \in Nat /\ (more(w) > deliveries[w] => w \in u..v)
    BY <2>1
  <2>3. deliveries' = [w \in Update |-> more(w)]
    BY <1>1
  <2> HIDE DEF more
  <2> QED BY <2>2, <2>3
<1> HIDE DEF r
<1>5. Alone(c) /\ call'[c] = r
  BY <1>1, <1>2, Moves DEF Row
<1> QED BY <1>1, <1>2, <1>3, <1>4, <1>5, Zenon

LEMMA LinkedNext ==
  ASSUME OnbInv, ConvTyped, Linked, [Next]_vars
  PROVE  Linked'
<1>0. OnbTyped
  BY OnbNamed DEF OnbInv
<1>1. CASE UNCHANGED <<onb, call>>
  BY <1>1 DEF Linked
<1>2. ASSUME NEW c \in Call, Alone(c), call[c].pc \notin {"route", "onboard"}, UNCHANGED onb
      PROVE  Linked'
  <2>1. onb[c].pc = "idle"
    <3>1. onb[c].pc \in OnbPlace
      BY <1>0, OnbRows DEF OnbTyped
    <3> QED BY <1>2, <3>1 DEF Linked, OnbPlace
  <2> QED BY <1>0, <1>2, <2>1, LinkedKept
<1>3. ASSUME NEW c \in Call, Alone(c), NothingTaken(c) \/ OnboardingBrokenOff(c) PROVE Linked'
  BY <1>0, <1>3, OnbAlone, LinkedKept
<1>4. ASSUME NEW w \in Wish, Send(w) PROVE Linked'
  BY <1>1, <1>4 DEF Send, onboarding
<1>5. ASSUME NEW c \in Call, NEW u \in Update, NEW v \in Update, Deliver(c, u, v) PROVE Linked'
  BY <1>2, <1>5, DeliverStep, Rows
<1>6. ASSUME NEW c \in Call, Receive(c) PROVE Linked'
  <2>1. CASE Acquire(c) \/ AcquireUnrecorded(c) \/ Transcribed(c) \/ NotTranscribed(c)
    <3>1. call[c].pc \in {"acquire", "transcribe"} /\ UNCHANGED onb
      BY <2>1 DEF Acquire, AcquireUnrecorded, Transcribed, NotTranscribed, At, onboarding
    <3>2. Alone(c)
      <4>1. CASE Acquire(c) /\ ~Acquired(call[c].update)
        BY <4>1, EndStep DEF Ends
      <4>2. CASE NotTranscribed(c)
        BY <3>1, <4>2, ReplyStep DEF Goes
      <4> QED BY <2>1, <4>1, <4>2, EarlyStep DEF Goes
    <3> QED BY <1>2, <3>1, <3>2
  <2>2. CASE GetUser(c) \/ InsertUser(c)
    <3>1. Alone(c) /\ call[c].pc \in {"user", "create"}
      BY <2>2, EarlyStep DEF Goes, GetUser, InsertUser, At
    <3>2. CASE UNCHANGED onb
      BY <1>2, <3>1, <3>2
    <3>3. CASE (FindUser(c) \/ CreateUser(c)) /\ Continue(c, "route")
      <4>1. call'[c].pc = "route"
        <5>1. "route" \in Place
          BY DEF Place
        <5> QED BY <3>1, <3>3, <5>1, Continued
      <4> QED BY <1>0, <3>1, <3>3, <4>1, OnbAlone, LinkedKept
    <3> QED BY <2>2, <3>2, <3>3 DEF GetUser, InsertUser, onboarding
  <2>3. CASE PressButton(c) \/ EmptyText(c)
    <3>1. call[c].pc # "idle" /\ NothingTaken(c)
      BY <2>3 DEF PressButton, EmptyText, At
    <3>2. Alone(c)
      BY <2>3, <3>1, ReplyStep DEF Goes
    <3> QED BY <1>3, <3>1, <3>2
  <2> QED BY <1>6, <2>1, <2>2, <2>3 DEF Receive
<1>7. ASSUME NEW c \in Call, SetUp(c) PROVE Linked'
  <2>1. CASE Onboard(c)
    <3>1. "onboard" \in Place /\ call[c].pc = "route" /\ Continue(c, "onboard")
      BY <2>1 DEF Onboard, Place, At
    <3>2. call'[c].pc = "onboard" /\ Alone(c)
      BY <3>1, Continued DEF Goes
    <3> QED BY <1>0, <2>1, <3>2, OnbAlone, LinkedKept DEF Onboard
  <2>2. CASE AskAgain(c)
    <3>1. NothingTaken(c) /\ Alone(c)
      BY <2>2, EarlyStep DEF AskAgain, Goes
    <3> QED BY <1>3, <3>1
  <2>3. CASE AnswerTaken(c)
    <3>1. call' = call /\ call[c].pc = "onboard" /\ OnboardingStep(c)
      BY <2>3 DEF AnswerTaken, At
    <3>2. Alone(c)
      BY <3>1 DEF Alone, ConvTyped
    <3> QED BY <1>0, <3>1, <3>2, OnbAlone, LinkedKept
  <2>4. CASE Onboarded(c)
    <3>1. onb[c].pc = "idle" /\ onb' = onb /\ Alone(c)
      BY <2>4, EarlyStep DEF Onboarded, Goes, onboarding, Handles, OnbAt
    <3> QED BY <1>0, <3>1, LinkedKept
  <2> QED BY <1>7, <2>1, <2>2, <2>3, <2>4 DEF SetUp
<1>8. ASSUME NEW c \in Call, Converse(c) PROVE Linked'
  <2>1. CASE ReadHistory(c)
    <3>1. Alone(c) /\ NothingTaken(c)
      BY <2>1, HistoryRead DEF Goes, ReadHistory
    <3> QED BY <1>3, <3>1
  <2>2. CASE AddRow(c) \/ OtherTool(c) \/ Compose(c) \/ PersistTurn(c) \/ CommitTurn(c) \/ DeliverReply(c)
    <3>1. /\ call[c].pc \in {"model", "user turn", "assistant turn", "commit", "deliver"}
          /\ UNCHANGED onb
      BY <2>2 DEF AddRow, OtherTool, Compose, PersistTurn, CommitTurn, DeliverReply, At, onboarding
    <3>2. Alone(c)
      BY <2>2, RowAdded, ToolRan, Composed, TurnWritten, TurnCommitted, EndStep DEF Goes, Ends
    <3> QED BY <1>2, <3>1, <3>2
  <2> QED BY <1>8, <2>1, <2>2 DEF Converse
<1>9. ASSUME NEW c \in Call, Fails(c) PROVE Linked'
  <2>1. CASE MessageFails(c)
    <3>1. call[c].pc # "idle"
      BY <2>1 DEF MessageFails, InMessage, At, Linked
    <3>2. Alone(c)
      BY <2>1, <3>1, ReplyStep DEF Goes
    <3>3. CASE Handles(c)
      BY <1>3, <2>1, <3>2, <3>3 DEF MessageFails
    <3>4. CASE ~Handles(c)
      <4>1. onb' = onb /\ onb[c].pc = "idle"
        BY <2>1, <3>4 DEF MessageFails, Handles, OnbAt, onboarding
      <4> QED BY <1>0, <3>2, <4>1, LinkedKept
    <3> QED BY <3>3, <3>4
  <2>2. CASE DailyTaskFails(c)
    <3>1. Alone(c)
      BY <2>2 DEF DailyTaskFails, Alone, ConvTyped
    <3> QED BY <1>3, <2>2, <3>1 DEF DailyTaskFails
  <2>3. CASE UpdateFails(c)
    <3>1. call[c].pc \in {"user", "create", "deliver"} /\ onb' = onb /\ Alone(c)
      BY <2>3, EndStep DEF UpdateFails, Ends, onboarding
    <3> QED BY <1>2, <3>1
  <2> QED BY <1>9, <2>1, <2>2, <2>3 DEF Fails
<1>10. CASE Crash
  <2>1. \A c \in Call : onb'[c].pc = "idle"
    BY <1>10, OnbIdle DEF Crash
  <2> QED BY <2>1 DEF Linked
<1>11. CASE UNCHANGED vars
  BY <1>1, <1>11 DEF vars, onboarding
<1> QED BY <1>4, <1>5, <1>6, <1>7, <1>8, <1>9, <1>10, <1>11 DEF Next

-----------------------------------------------------------------------------
(* What is known of updates and calls: all of them were sent, what was     *)
(* delivered or recorded as processed is answered, lost or being handled,  *)
(* and a call has neither added a row nor anything else to say before the  *)
(* model was asked, and is about to commit a turn of its update.           *)

Known ==
  /\ processed \subseteq DOMAIN sent /\ lost \subseteq DOMAIN sent
  /\ \A u \in Update : answered[u] # {} \/ deliveries[u] > 0 => u \in DOMAIN sent
  /\ \A c \in Call : call[c] # NoCall => call[c].update \in DOMAIN sent

Working(u) == \E c \in Call : call[c].pc \notin {"idle", "acquire"} /\ call[c].update = u

Remembered ==
  /\ \A u \in Update : deliveries[u] > 0 => answered[u] # {} \/ u \in lost \/ InFlight(u)
  /\ \A u \in processed : answered[u] # {} \/ u \in lost \/ Working(u)

BeforeModel == {"acquire", "transcribe", "user", "create", "route"}

Fresh ==
  \A c \in Call :
    /\ call[c].pc \in BeforeModel => ~call[c].did
    /\ call[c] # NoCall => call[c].reply = "reply" \/ call[c].pc = "deliver"
    /\ call[c].pc = "commit" => call[c].turn \in Turn /\ call[c].turn.update = call[c].update

CallInv == ConvTyped /\ Known /\ Remembered /\ Fresh

LEMMA DomainSent ==
  ASSUME ConvTyped
  PROVE  DOMAIN sent = 1..Len(sent) /\ Len(sent) \in Nat /\ DOMAIN sent \subseteq Update
BY ConversationAssumption DEF ConvTyped, Update

(* A call goes on with its update.                                         *)
LEMMA GoesKeeps ==
  ASSUME CallInv, NEW c \in Call, NEW fields, Goes(c, fields), call'[c].pc # "acquire",
         UNCHANGED <<inflow, answered, lost>>,
         processed' \in {processed, processed \cup {call[c].update}},
         turns' \subseteq Turn, clock' \in Nat, added' \in [Wish -> Nat], faults' \in Nat,
         call'[c].reply = "reply" \/ call'[c].pc = "deliver",
         call'[c].pc = "commit" =>
           call'[c].turn \in Turn /\ call'[c].turn.update = call[c].update,
         call'[c].pc \in BeforeModel => call[c].pc \in BeforeModel /\ call'[c].did = call[c].did
  PROVE  CallInv'
<1> DEFINE u0 == call[c].update
<1>1. /\ call[c] \in Handling /\ call'[c] \in Handling /\ call'[c].update = u0 /\ u0 \in Update
      /\ \A d \in Call \ {c} : call'[d] = call[d]
      /\ call[c] # NoCall /\ call'[c] # NoCall /\ call'[c].pc \notin {"idle", "acquire"}
  BY HandlingFields, Rows DEF Goes, Alone, Changes
<1>2. UNCHANGED <<sent, deliveries, answered, lost>>
  BY DEF inflow
<1>3. ConvTyped'
  BY <1>1, <1>2 DEF CallInv, ConvTyped, Goes, Alone
<1>4. Known'
  BY <1>1, <1>2 DEF CallInv, Known
<1>5. Remembered'
  <2>1. \A u \in Update : InFlight(u) => InFlight(u)'
    BY <1>1 DEF InFlight
  <2>2. \A u \in Update : Working(u) => Working(u)'
    BY <1>1 DEF Working
  <2>3. Working(u0)'
    BY <1>1 DEF Working
  <2>4. processed \subseteq Update
    BY DEF CallInv, ConvTyped
  <2> QED BY <1>1, <1>2, <2>1, <2>2, <2>3, <2>4 DEF CallInv, Remembered
<1>6. Fresh'
  BY <1>1, Zenon DEF CallInv, Fresh
<1> QED BY <1>3, <1>4, <1>5, <1>6 DEF CallInv

LEMMA EndsKeeps ==
  ASSUME CallInv, NEW c \in Call,
         \/ Acquire(c) /\ ~Acquired(call[c].update)
         \/ DeliverReply(c) \/ UpdateFails(c)
  PROVE  CallInv'
<1> SUFFICES ASSUME NEW u0, u0 = call[c].update PROVE CallInv'
  OBVIOUS
<1>0. ConvTyped /\ Known /\ Remembered /\ Fresh
  BY DEF CallInv
<1>1. /\ call[c] \in Handling /\ call'[c] = NoCall /\ u0 \in Update /\ u0 \in DOMAIN sent
      /\ \A d \in Call \ {c} : call'[d] = call[d]
      /\ call[c] # NoCall /\ call'[c].pc = "idle" /\ call[c].reply \in Reply
      /\ call' \in [Call -> Row]
      /\ UNCHANGED <<sent, deliveries, processed, turns, clock, added>>
  <2>1. Ends(c) /\ UNCHANGED <<sent, deliveries, processed, turns, clock, added>>
    BY <1>0, EndStep DEF inflow
  <2>2. call[c] \in Handling /\ call'[c] = NoCall
    BY <2>1 DEF Ends
  <2> QED BY <1>0, <2>1, <2>2, HandlingFields, Rows DEF Ends, Alone, Known
<1>2. /\ answered' \in [Update -> SUBSET Reply] /\ lost' \subseteq Update /\ faults' \in Nat
      /\ \A u \in Update \ {u0} : answered'[u] = answered[u]
      /\ \A u \in Update : answered[u] # {} => answered'[u] # {}
      /\ lost \subseteq lost' /\ lost' \subseteq lost \cup {u0}
      /\ \/ answered'[u0] # {} \/ u0 \in lost'
         \/ call[c].pc = "acquire" /\ u0 \in processed
  <2>1. CASE /\ call[c].pc = "acquire" /\ call[c].update \in processed
             /\ UNCHANGED <<processed, answered, lost, faults>>
    BY <1>0, <2>1 DEF ConvTyped
  <2>2. CASE /\ call[c].pc = "deliver" /\ UNCHANGED <<processed, lost, faults>>
             /\ answered' = [answered EXCEPT ![call[c].update] = @ \cup {call[c].reply}]
    BY <1>0, <1>1, <2>2 DEF ConvTyped
  <2>3. CASE /\ UNCHANGED <<processed, answered>> /\ faults' = faults + 1
             /\ lost' = lost \cup {call[c].update}
    BY <1>0, <1>1, <2>3 DEF ConvTyped
  <2> QED BY <1>0, <2>1, <2>2, <2>3, EndStep
<1>3. ConvTyped'
  BY <1>0, <1>1, <1>2 DEF ConvTyped
<1>4. Known'
  BY <1>0, <1>1, <1>2 DEF Known
<1>5. Remembered'
  <2>1. \A u \in Update \ {u0} : InFlight(u) => InFlight(u)'
    BY <1>1 DEF InFlight
  <2>2. \A u \in Update \ {u0} : Working(u) => Working(u)'
    BY <1>1 DEF Working
  <2>3. answered'[u0] # {} \/ u0 \in lost' \/ (Working(u0)' /\ InFlight(u0)')
    <3>1. CASE call[c].pc = "acquire" /\ u0 \in processed
      <4>1. answered[u0] # {} \/ u0 \in lost \/ Working(u0)
        BY <1>0, <3>1 DEF Remembered
      <4>2. ASSUME Working(u0) PROVE Working(u0)' /\ InFlight(u0)'
        <5>1. PICK d \in Call : call[d].pc \notin {"idle", "acquire"} /\ call[d].update = u0
          BY <4>2 DEF Working
        <5>2. d # c /\ call'[d] = call[d]
          BY <1>1, <3>1, <5>1
        <5>3. call[d] # NoCall
          BY <5>1, Rows
        <5> QED BY <5>1, <5>2, <5>3 DEF Working, InFlight
      <4> QED BY <1>1, <1>2, <4>1, <4>2
    <3> QED BY <1>2, <3>1
  <2>4. processed \subseteq Update
    BY <1>0 DEF ConvTyped
  <2> QED BY <1>0, <1>1, <1>2, <2>1, <2>2, <2>3, <2>4 DEF Remembered
<1>6. Fresh'
  <2>1. call'[c].pc \notin BeforeModel
    BY <1>1 DEF BeforeModel
  <2> QED BY <1>0, <1>1, <2>1, Zenon DEF Fresh
<1> QED BY <1>3, <1>4, <1>5, <1>6 DEF CallInv

LEMMA SendKeeps ==
  ASSUME CallInv, NEW w \in Wish, Send(w)
  PROVE  /\ CallInv' /\ DOMAIN sent' = DOMAIN sent \cup {Len(sent) + 1}
         /\ Len(sent) + 1 \in Update /\ Len(sent) + 1 \notin DOMAIN sent
         /\ \A u \in DOMAIN sent : sent'[u] = sent[u]
         /\ sent'[Len(sent) + 1] =
              [wish |-> w, after |-> {t \in turns : "reply" \in answered[t.update]}]
<1> DEFINE m == [wish |-> w, after |-> {t \in turns : "reply" \in answered[t.update]}]
<1>0. ConvTyped /\ Known /\ Remembered /\ Fresh
  BY DEF CallInv
<1>1. sent' = Append(sent, m) /\ Len(sent) < MaxUpdates
      /\ UNCHANGED <<deliveries, processed, call, turns, clock, added, answered, lost, faults>>
  BY DEF Send, record, outcome
<1>2. m \in Message
  BY <1>0 DEF ConvTyped, Message
<1> HIDE DEF m
<1>3. /\ sent' \in Seq(Message) /\ Len(sent') = Len(sent) + 1
      /\ DOMAIN sent' = DOMAIN sent \cup {Len(sent) + 1}
      /\ Len(sent) + 1 \in Update /\ Len(sent) + 1 \notin DOMAIN sent
      /\ \A u \in DOMAIN sent : sent'[u] = sent[u]
      /\ sent'[Len(sent) + 1] = m
  <2>1. sent \in Seq(Message) /\ Len(sent) \in Nat
    BY <1>0 DEF ConvTyped
  <2> HIDE DEF Message
  <2> QED BY <1>1, <1>2, <2>1, ConversationAssumption DEF Update
<1>4. ConvTyped'
  <2>1. Len(sent') <= MaxUpdates
    BY <1>0, <1>1, <1>3, ConversationAssumption DEF ConvTyped
  <2> QED BY <1>0, <1>1, <1>3, <2>1 DEF ConvTyped
<1>5. Known'
  BY <1>0, <1>1, <1>3 DEF Known
<1>6. Remembered'
  BY <1>0, <1>1 DEF Remembered, Working, InFlight
<1>7. Fresh'
  BY <1>0, <1>1 DEF Fresh
<1> QED BY <1>3, <1>4, <1>5, <1>6, <1>7 DEF CallInv, m

LEMMA DeliverKeeps ==
  ASSUME CallInv, NEW c \in Call, NEW u \in Update, NEW v \in Update, Deliver(c, u, v)
  PROVE  CallInv' /\ lost' \subseteq DOMAIN sent
<1>0. ConvTyped /\ Known /\ Remembered /\ Fresh
  BY DEF CallInv
<1>1. /\ Alone(c) /\ call[c] = NoCall /\ call'[c] \in Handling
      /\ call'[c].pc = "acquire" /\ call'[c].update = u /\ call'[c].reply = "reply"
      /\ ~call'[c].did
      /\ u \in DOMAIN sent /\ v \in DOMAIN sent /\ lost' = lost \cup ((u + 1)..v)
      /\ deliveries' \in [Update -> Nat]
      /\ \A w \in Update : deliveries'[w] > deliveries[w] => w \in u..v
      /\ UNCHANGED <<sent, processed, turns, clock, added, answered, faults>>
  BY <1>0, DeliverStep, Zenon
<1>2. u..v \subseteq DOMAIN sent /\ (u + 1)..v \subseteq u..v /\ u..v \subseteq {u} \cup ((u + 1)..v)
  <2>1. u \in Nat /\ v \in Nat
    BY DEF Update
  <2> QED BY <1>0, <1>1, <2>1, DomainSent
<1>3. ConvTyped'
  <2>1. lost' \subseteq Update
    BY <1>0, <1>1, <1>2, DomainSent DEF ConvTyped
  <2> QED BY <1>0, <1>1, <2>1 DEF ConvTyped, Alone
<1>4. lost' \subseteq DOMAIN sent
  BY <1>0, <1>1, <1>2 DEF Known
<1>5. Known'
  <2>1. \A w \in Update : deliveries'[w] > 0 => w \in DOMAIN sent
    <3> SUFFICES ASSUME NEW w \in Update, deliveries'[w] > 0 PROVE w \in DOMAIN sent
      OBVIOUS
    <3>1. deliveries'[w] > deliveries[w] \/ deliveries[w] > 0
      BY <1>0, <1>1 DEF ConvTyped
    <3> QED BY <1>0, <1>1, <1>2, <3>1 DEF Known
  <2> QED BY <1>0, <1>1, <1>4, <2>1 DEF Known, Alone
<1>6. Remembered'
  <2>1. InFlight(u)'
    BY <1>1, Rows DEF InFlight
  <2>2. \A w \in Update : InFlight(w) => InFlight(w)'
    BY <1>1 DEF InFlight, Alone
  <2>3. \A w \in Update : Working(w) => Working(w)'
    BY <1>1, Rows DEF Working, Alone
  <2>4. \A w \in Update : deliveries'[w] > 0 => answered'[w] # {} \/ w \in lost' \/ InFlight(w)'
    <3> SUFFICES ASSUME NEW w \in Update, deliveries'[w] > 0
                 PROVE  answered'[w] # {} \/ w \in lost' \/ InFlight(w)'
      OBVIOUS
    <3>1. w \in u..v \/ deliveries[w] > 0
      BY <1>0, <1>1 DEF ConvTyped
    <3> QED BY <1>0, <1>1, <1>2, <2>1, <2>2, <3>1 DEF Remembered
  <2>5. \A w \in processed' : answered'[w] # {} \/ w \in lost' \/ Working(w)'
    BY <1>0, <1>1, <2>3 DEF Remembered, ConvTyped
  <2> QED BY <2>4, <2>5 DEF Remembered
<1>7. Fresh'
  BY <1>0, <1>1, Zenon DEF Fresh, Alone
<1> QED BY <1>3, <1>4, <1>5, <1>6, <1>7 DEF CallInv

LEMMA CrashStep ==
  ASSUME ConvTyped, Crash
  PROVE  /\ \A c \in Call : call'[c] = NoCall /\ call'[c].pc = "idle"
         /\ call' \in [Call -> Row] /\ faults' = faults + 1
         /\ lost' = lost \cup {u \in Update : InFlight(u)}
         /\ UNCHANGED <<sent, deliveries, processed, turns, clock, added, answered>>
<1>1. call' = [c \in Call |-> NoCall]
  BY DEF Crash
<1>2. NoCall \in Row /\ NoCall.pc = "idle"
  BY Rows DEF Row
<1> HIDE DEF NoCall, Row
<1> QED BY <1>1, <1>2 DEF Crash, Fault, inbox, record

LEMMA CrashKeeps ==
  ASSUME CallInv, Crash PROVE CallInv'
<1>0. ConvTyped /\ Known /\ Remembered /\ Fresh
  BY DEF CallInv
<1>1. /\ \A c \in Call : call'[c] = NoCall /\ call'[c].pc = "idle"
      /\ call' \in [Call -> Row] /\ faults' = faults + 1
      /\ lost' = lost \cup {u \in Update : InFlight(u)}
      /\ UNCHANGED <<sent, deliveries, processed, turns, clock, added, answered>>
  BY <1>0, CrashStep
<1>2. ConvTyped'
  BY <1>0, <1>1 DEF ConvTyped
<1>3. \A u \in Update : InFlight(u) => u \in DOMAIN sent
  BY <1>0 DEF InFlight, Known
<1>4. Known'
  BY <1>0, <1>1, <1>3 DEF Known
<1>5. \A u \in Update : Working(u) => InFlight(u)
  BY <1>0, Rows DEF Working, InFlight, ConvTyped
<1>6. Remembered'
  BY <1>0, <1>1, <1>5 DEF Remembered, ConvTyped
<1>7. Fresh'
  BY <1>1 DEF Fresh, BeforeModel
<1> QED BY <1>2, <1>4, <1>6, <1>7 DEF CallInv

(* The steps of a call that leave its update open.                         *)
GoesOn(c) ==
  \/ AcquireUnrecorded(c) \/ Transcribed(c) \/ GetUser(c) \/ InsertUser(c)
  \/ Onboard(c) \/ AskAgain(c) \/ Onboarded(c)
  \/ Acquire(c) /\ Acquired(call[c].update)

Replies(c) == NotTranscribed(c) \/ PressButton(c) \/ EmptyText(c) \/ MessageFails(c)

Closes(c) ==
  \/ Acquire(c) /\ ~Acquired(call[c].update)
  \/ DeliverReply(c) \/ UpdateFails(c)

LEMMA Cases ==
  ASSUME ConvTyped, Linked, [Next]_vars
  PROVE  \/ \E w \in Wish : Send(w)
         \/ \E c \in Call, u, v \in Update : Deliver(c, u, v)
         \/ \E c \in Call :
              \/ GoesOn(c) \/ (Replies(c) /\ call[c].pc # "idle") \/ Closes(c)
              \/ ReadHistory(c) \/ AddRow(c) \/ OtherTool(c) \/ Compose(c)
              \/ PersistTurn(c) \/ CommitTurn(c)
         \/ Crash
         \/ /\ UNCHANGED <<inbox, call, record, outcome>>
            /\ faults' \in {faults, faults + 1}
<1>1. ASSUME NEW c \in Call, AnswerTaken(c) \/ DailyTaskFails(c)
      PROVE  /\ UNCHANGED <<inbox, call, record, outcome>>
             /\ faults' \in {faults, faults + 1}
  BY <1>1 DEF AnswerTaken, DailyTaskFails, Fault
<1>2. ASSUME NEW c \in Call, Replies(c) PROVE call[c].pc # "idle"
  BY <1>2 DEF Replies, NotTranscribed, PressButton, EmptyText, MessageFails, InMessage, At, Linked
<1>3. CASE UNCHANGED vars
  BY <1>3 DEF vars
<1>4. ASSUME NEW c \in Call, Receive(c) PROVE GoesOn(c) \/ Replies(c) \/ Closes(c)
  BY <1>4 DEF Receive, GoesOn, Replies, Closes
<1>5. ASSUME NEW c \in Call, SetUp(c) PROVE GoesOn(c) \/ AnswerTaken(c)
  BY <1>5 DEF SetUp, GoesOn
<1>6. ASSUME NEW c \in Call, Converse(c)
      PROVE  \/ ReadHistory(c) \/ AddRow(c) \/ OtherTool(c) \/ Compose(c)
             \/ PersistTurn(c) \/ CommitTurn(c) \/ Closes(c)
  BY <1>6 DEF Converse, Closes
<1>7. ASSUME NEW c \in Call, Fails(c) PROVE Replies(c) \/ Closes(c) \/ DailyTaskFails(c)
  BY <1>7 DEF Fails, Replies, Closes
<1> QED BY <1>1, <1>2, <1>3, <1>4, <1>5, <1>6, <1>7, Zenon DEF Next

LEMMA CallNext ==
  ASSUME CallInv, Linked, [Next]_vars PROVE CallInv'
<1>0. ConvTyped /\ Known /\ Remembered /\ Fresh
  BY DEF CallInv
<1>1. /\ turns \subseteq Turn /\ clock \in Nat /\ added \in [Wish -> Nat] /\ faults \in Nat
      /\ faults + 1 \in Nat /\ clock + 1 \in Nat
  BY <1>0 DEF ConvTyped
<1>2. ASSUME NEW c \in Call, GoesOn(c) PROVE CallInv'
  <2>1. /\ Goes(c, {"pc"}) /\ UNCHANGED <<inflow, turns, clock, outcome>>
        /\ call[c].pc \in BeforeModel \cup {"onboard"}
        /\ call'[c].pc \in {"transcribe", "user", "create", "route", "onboard", "user turn"}
        /\ call[c].pc = "onboard" => call'[c].pc = "user turn"
        /\ processed' \in {processed, processed \cup {call[c].update}}
        /\ faults' \in {faults, faults + 1}
    BY <1>0, <1>2, EarlyStep DEF GoesOn, BeforeModel
  <2>2. call'[c].pc # "acquire" /\ UNCHANGED <<inflow, answered, lost, turns, clock, added>>
    BY <2>1 DEF outcome
  <2>3. call'[c].reply = "reply"
    <3>1. call[c] # NoCall /\ call[c].pc # "deliver" /\ call'[c].reply = call[c].reply
      BY <2>1, Rows DEF Goes, Changes, BeforeModel
    <3> QED BY <1>0, <3>1 DEF Fresh
  <2>4. call'[c].pc \in BeforeModel => call[c].pc \in BeforeModel /\ call'[c].did = call[c].did
    <3>1. call'[c].did = call[c].did
      BY <2>1, Zenon DEF Goes, Changes
    <3>2. call'[c].pc \in BeforeModel => call[c].pc \in BeforeModel
      BY <2>1 DEF BeforeModel
    <3> QED BY <3>1, <3>2
  <2>5. turns' \subseteq Turn /\ clock' \in Nat /\ added' \in [Wish -> Nat] /\ faults' \in Nat
    BY <1>1, <2>1, <2>2
  <2> QED BY <2>1, <2>2, <2>3, <2>4, <2>5, GoesKeeps
<1>3. ASSUME NEW c \in Call, Replies(c), call[c].pc # "idle" PROVE CallInv'
  <2>1. /\ Goes(c, {"pc", "reply", "turn", "gone", "seen"})
        /\ UNCHANGED <<inflow, processed, turns, clock, outcome>>
        /\ call'[c].pc = "deliver" /\ faults' \in {faults, faults + 1}
    BY <1>0, <1>3, ReplyStep DEF Replies
  <2>2. UNCHANGED <<inflow, answered, lost, turns, clock, added>>
    BY <2>1 DEF outcome
  <2>3. turns' \subseteq Turn /\ clock' \in Nat /\ added' \in [Wish -> Nat] /\ faults' \in Nat
    BY <1>1, <2>1, <2>2
  <2> QED BY <2>1, <2>2, <2>3, GoesKeeps DEF BeforeModel
<1>4. ASSUME NEW c \in Call, NEW F, Goes(c, F), F \subseteq {"pc", "rounds", "did", "seen", "turn", "gone"},
             UNCHANGED <<inbox, answered, lost, faults>>,
             call[c].pc \notin {"acquire", "deliver"},
             call'[c].pc \in {"model", "user turn", "commit", "assistant turn", "deliver"},
             "did" \notin F \/ (call'[c].pc = "model" /\ call[c].pc = "model"),
             call'[c].pc = "commit" =>
               call'[c].turn \in Turn /\ call'[c].turn.update = call[c].update,
             turns' \subseteq Turn, clock' \in Nat, added' \in [Wish -> Nat]
      PROVE  CallInv'
  <2>1. call'[c].reply = "reply"
    <3>1. call[c] # NoCall /\ call'[c].reply = call[c].reply
      BY <1>4, Rows DEF Goes, Changes
    <3> QED BY <1>0, <1>4, <3>1 DEF Fresh
  <2>2. call'[c].pc \notin BeforeModel /\ call'[c].pc # "acquire"
    BY <1>4 DEF BeforeModel
  <2>3. UNCHANGED <<inflow, answered, lost>> /\ processed' = processed /\ faults' \in Nat
    BY <1>1, <1>4 DEF inbox, inflow
  <2> QED BY <1>4, <2>1, <2>2, <2>3, GoesKeeps
<1>5. ASSUME NEW c \in Call, ReadHistory(c) PROVE CallInv'
  <2>1. UNCHANGED <<inbox, answered, lost, faults, turns, clock, added>>
    BY <1>5 DEF ReadHistory, record, outcome
  <2>2. /\ Goes(c, {"pc", "seen"}) /\ call[c].pc = "route" /\ call'[c].pc = "model"
    BY <1>0, <1>5, HistoryRead
  <2> QED BY <1>1, <1>4, <2>1, <2>2
<1>6. ASSUME NEW c \in Call, AddRow(c) PROVE CallInv'
  <2>1. UNCHANGED <<inbox, answered, lost, faults, turns, clock>>
    BY <1>6 DEF AddRow, record
  <2>2. /\ Goes(c, {"did", "rounds", "seen"}) /\ call[c].pc = "model"
    BY <1>0, <1>6, RowAdded
  <2>3. call'[c].pc = "model"
    BY <2>2 DEF Goes, Changes
  <2>4. added' \in [Wish -> Nat]
    <3>1. added' = [added EXCEPT ![Sent(c).wish] = @ + 1]
      BY <1>6 DEF AddRow
    <3>2. Sent(c).wish \in Wish
      <4>1. call[c].update \in DOMAIN sent
        BY <1>0, <2>2, Rows DEF Known, Goes
      <4>2. sent[call[c].update] \in Message
        BY <1>0, <4>1 DEF ConvTyped
      <4> QED BY <4>2 DEF Sent, Message
    <3> QED BY <1>1, <3>1, <3>2
  <2> QED BY <1>1, <1>4, <2>1, <2>2, <2>3, <2>4
<1>7. ASSUME NEW c \in Call, OtherTool(c) PROVE CallInv'
  <2>1. UNCHANGED <<inbox, answered, lost, faults, turns, clock, added>>
    BY <1>7 DEF OtherTool, record, outcome
  <2>2. Goes(c, {"rounds", "seen"}) /\ call[c].pc = "model"
    BY <1>0, <1>7, ToolRan
  <2>3. call'[c].pc = "model"
    BY <2>2 DEF Goes, Changes
  <2> QED BY <1>1, <1>4, <2>1, <2>2, <2>3
<1>8. ASSUME NEW c \in Call, Compose(c) PROVE CallInv'
  <2>1. UNCHANGED <<inbox, answered, lost, faults, turns, clock, added>>
    BY <1>8 DEF Compose, record, outcome
  <2>2. /\ Goes(c, {"pc", "seen"}) /\ call[c].pc = "model" /\ call'[c].pc = "user turn"
    BY <1>0, <1>8, Composed
  <2> QED BY <1>1, <1>4, <2>1, <2>2
<1>9. ASSUME NEW c \in Call, PersistTurn(c) PROVE CallInv'
  <2>1. UNCHANGED <<inbox, answered, lost, faults, turns, added>> /\ clock' = clock + 1
    BY <1>9 DEF PersistTurn, outcome
  <2>2. /\ Goes(c, {"pc", "turn", "gone"}) /\ call[c].pc \in {"user turn", "assistant turn"}
        /\ call'[c].pc = "commit" /\ call'[c].turn \in Turn
        /\ call'[c].turn.update = call[c].update
    <3>1. NewTurn(c).update = call[c].update
      BY DEF NewTurn
    <3> QED BY <1>0, <1>9, <3>1, TurnWritten
  <2> QED BY <1>1, <1>4, <2>1, <2>2
<1>10. ASSUME NEW c \in Call, CommitTurn(c) PROVE CallInv'
  <2>1. UNCHANGED <<inbox, answered, lost, faults, clock, added>>
    BY <1>10 DEF CommitTurn, outcome
  <2>2. /\ Goes(c, {"pc", "turn", "gone"}) /\ call[c].pc = "commit"
        /\ call'[c].pc \in {"assistant turn", "deliver"}
    BY <1>0, <1>10, TurnCommitted
  <2>3. turns' \subseteq Turn
    BY <1>0, <1>1, <1>10, <2>2 DEF CommitTurn, Fresh
  <2> QED BY <1>1, <1>4, <2>1, <2>2, <2>3
<1>11. CASE UNCHANGED <<inbox, call, record, outcome>> /\ faults' \in {faults, faults + 1}
  <2>1. UNCHANGED <<sent, deliveries, processed, call, turns, clock, added, answered, lost>>
    BY <1>11 DEF inbox, record, outcome
  <2>2. ConvTyped'
    BY <1>0, <1>1, <1>11, <2>1 DEF ConvTyped
  <2>3. Known' /\ Remembered' /\ Fresh'
    BY <1>0, <2>1 DEF Known, Remembered, Fresh, Working, InFlight
  <2> QED BY <2>2, <2>3 DEF CallInv
<1> QED BY <1>0, <1>2, <1>3, <1>5, <1>6, <1>7, <1>8, <1>9, <1>10, <1>11, Cases, CrashKeeps,
           SendKeeps, DeliverKeeps, EndsKeeps DEF Closes

-----------------------------------------------------------------------------
(* Counting. *)

LEMMA Finite ==
  ASSUME NEW S, S \subseteq Call \/ S \subseteq Update
  PROVE  IsFiniteSet(S) /\ Cardinality(S) \in Nat
<1>1. IsFiniteSet(Call) /\ IsFiniteSet(Update)
  <2>1. 1 \in Int /\ MaxUpdates \in Int
    BY ConversationAssumption
  <2> QED BY <2>1, FS_Interval, ConversationAssumption DEF Update
<1>2. IsFiniteSet(S)
  BY <1>1, FS_Subset
<1> QED BY <1>2, FS_CardinalityType

LEMMA Fewer ==
  ASSUME NEW S, NEW T, IsFiniteSet(T), S \subseteq T
  PROVE  /\ IsFiniteSet(S) /\ Cardinality(S) \in Nat /\ Cardinality(T) \in Nat
         /\ Cardinality(S) <= Cardinality(T)
         /\ \A x \in T : x \notin S => Cardinality(S) + 1 <= Cardinality(T)
<1>1. /\ IsFiniteSet(S) /\ Cardinality(S) \in Nat /\ Cardinality(T) \in Nat
      /\ Cardinality(S) <= Cardinality(T)
  BY FS_Subset, FS_CardinalityType
<1>2. ASSUME NEW x \in T, x \notin S PROVE Cardinality(S) + 1 <= Cardinality(T)
  <2>1. S \cup {x} \subseteq T
    BY <1>2
  <2>2. Cardinality(S \cup {x}) <= Cardinality(T)
    BY <2>1, FS_Subset
  <2>3. Cardinality(S \cup {x}) = Cardinality(S) + 1
    BY <1>1, <1>2, FS_AddElement
  <2> QED BY <2>2, <2>3
<1> QED BY <1>1, <1>2

LEMMA OneMore ==
  ASSUME NEW S, NEW T, NEW x, IsFiniteSet(T), S \subseteq T \cup {x}
  PROVE  Cardinality(S) <= Cardinality(T) + 1
<1>1. IsFiniteSet(T \cup {x}) /\ Cardinality(T \cup {x}) <= Cardinality(T) + 1
  <2>1. IsFiniteSet(T \cup {x}) /\ Cardinality(T) \in Nat
    BY FS_AddElement, FS_CardinalityType
  <2>2. Cardinality(T \cup {x}) = IF x \in T THEN Cardinality(T) ELSE Cardinality(T) + 1
    BY FS_AddElement
  <2> QED BY <2>1, <2>2
<1>2. Cardinality(S) <= Cardinality(T \cup {x}) /\ Cardinality(S) \in Nat
  BY <1>1, Fewer
<1>3. Cardinality(T) \in Nat /\ Cardinality(T \cup {x}) \in Nat
  BY <1>1, FS_CardinalityType
<1> QED BY <1>1, <1>2, <1>3

-----------------------------------------------------------------------------
(* Rows are paid for.  A wish has one row to give as long as one of its    *)
(* updates is not excused: the user was not told to try again and it was   *)
(* not dropped for good.  Beyond it a row costs a failure or a dropped     *)
(* update.  What may still be added counts like what was: a call that has  *)
(* not asked the model yet, and an update that is not recorded yet.        *)

Owned(u) == answered[u] \cap {"snag", "apology"} # {}

Told(u) ==
  \E c \in Call :
    call[c].pc = "deliver" /\ call[c].update = u /\ call[c].reply \in {"snag", "apology"}

Dropped(u) ==
  /\ u \in lost /\ answered[u] = {}
  /\ \A c \in Call : call[c] # NoCall /\ call[c].update = u =>
       call[c].pc = "acquire" /\ u \in processed

Excused(u) == Owned(u) \/ Told(u) \/ Dropped(u)

MayAdd(w) ==
  {c \in Call : /\ call[c].pc \in {"transcribe", "user", "create", "route", "model"}
                /\ ~call[c].did /\ Sent(c).wish = w}

Open(w) == Updates(w) \ processed

OneToGive(w) == IF \A u \in Updates(w) : Excused(u) THEN 0 ELSE 1

Backed(w) ==
  added[w] + Cardinality(MayAdd(w)) + Cardinality(Open(w))
    <= OneToGive(w) + faults + Cardinality(lost \cap Updates(w))

RowsBacked == \A w \in Wish : Backed(w)

LEMMA Sizes ==
  ASSUME CallInv, NEW w \in Wish
  PROVE  /\ added[w] \in Nat /\ faults \in Nat /\ OneToGive(w) \in {0, 1}
         /\ MayAdd(w) \subseteq Call /\ Open(w) \subseteq Update /\ lost \cap Updates(w) \subseteq Update
         /\ IsFiniteSet(MayAdd(w)) /\ IsFiniteSet(Open(w)) /\ IsFiniteSet(lost \cap Updates(w))
         /\ Cardinality(MayAdd(w)) \in Nat /\ Cardinality(Open(w)) \in Nat
         /\ Cardinality(lost \cap Updates(w)) \in Nat
<1>1. added[w] \in Nat /\ faults \in Nat /\ DOMAIN sent \subseteq Update
  BY DomainSent DEF CallInv, ConvTyped
<1>2. MayAdd(w) \subseteq Call /\ Open(w) \subseteq Update /\ lost \cap Updates(w) \subseteq Update
  BY <1>1 DEF MayAdd, Open, Updates
<1>3. OneToGive(w) \in {0, 1}
  BY DEF OneToGive
<1> QED BY <1>1, <1>2, <1>3, Finite

(* The same, for the next state. *)
LEMMA SizesNext ==
  ASSUME CallInv', NEW w \in Wish
  PROVE  /\ added'[w] \in Nat /\ faults' \in Nat /\ OneToGive(w)' \in {0, 1}
         /\ IsFiniteSet(MayAdd(w)') /\ IsFiniteSet(Open(w)') /\ IsFiniteSet((lost \cap Updates(w))')
         /\ Cardinality(MayAdd(w)') \in Nat /\ Cardinality(Open(w)') \in Nat
         /\ Cardinality((lost \cap Updates(w))') \in Nat
<1>1. added'[w] \in Nat /\ faults' \in Nat /\ lost' \subseteq Update /\ DOMAIN sent' \subseteq Update
  <2>1. sent' \in Seq(Message) /\ Len(sent') <= MaxUpdates
    BY DEF CallInv, ConvTyped
  <2>2. DOMAIN sent' = 1..Len(sent') /\ Len(sent') \in Nat
    BY <2>1
  <2>3. DOMAIN sent' \subseteq Update
    BY <2>1, <2>2, ConversationAssumption DEF Update
  <2> QED BY <2>3 DEF CallInv, ConvTyped
<1>2. MayAdd(w)' \subseteq Call /\ Open(w)' \subseteq Update /\ (lost \cap Updates(w))' \subseteq Update
  BY <1>1 DEF MayAdd, Open, Updates
<1>3. OneToGive(w)' \in {0, 1}
  BY DEF OneToGive
<1> QED BY <1>1, <1>2, <1>3, Finite

LEMMA BackedMoves ==
  ASSUME CallInv, CallInv', NEW w \in Wish, Backed(w), sent' = sent, lost \subseteq lost',
         added'[w] + Cardinality(MayAdd(w)') + Cardinality(Open(w)') + OneToGive(w) + faults
           <= added[w] + Cardinality(MayAdd(w)) + Cardinality(Open(w)) + OneToGive(w)' + faults'
  PROVE  Backed(w)'
<1>1. Cardinality(lost \cap Updates(w)) <= Cardinality((lost \cap Updates(w))')
  <2>1. lost \cap Updates(w) \subseteq (lost \cap Updates(w))'
    BY DEF Updates
  <2> QED BY <2>1, SizesNext, Fewer
<1> HIDE DEF CallInv
<1>2. /\ added[w] \in Nat /\ faults \in Nat /\ OneToGive(w) \in {0, 1}
      /\ Cardinality(MayAdd(w)) \in Nat /\ Cardinality(Open(w)) \in Nat
      /\ Cardinality(lost \cap Updates(w)) \in Nat
  BY Sizes
<1>3. /\ added'[w] \in Nat /\ faults' \in Nat /\ OneToGive(w)' \in {0, 1}
      /\ Cardinality(MayAdd(w)') \in Nat /\ Cardinality(Open(w)') \in Nat
      /\ Cardinality((lost \cap Updates(w))') \in Nat
  BY SizesNext
<1> QED BY <1>1, <1>2, <1>3 DEF Backed

(* The updates of a wish stay; no more of them are excused, or fewer are   *)
(* open.                                                                   *)
LEMMA BackedParts ==
  ASSUME CallInv, CallInv', NEW w \in Wish, sent' = sent, processed \subseteq processed'
  PROVE  /\ (\A u \in Updates(w) : Excused(u)' => Excused(u)) => OneToGive(w) <= OneToGive(w)'
         /\ OneToGive(w) <= OneToGive(w)' + 1
         /\ Cardinality(Open(w)') <= Cardinality(Open(w))
         /\ \A u \in Open(w) : u \in processed' =>
              Cardinality(Open(w)') + 1 <= Cardinality(Open(w))
         /\ MayAdd(w)' \subseteq MayAdd(w) => Cardinality(MayAdd(w)') <= Cardinality(MayAdd(w))
         /\ \A c \in MayAdd(w) : c \notin MayAdd(w)' /\ MayAdd(w)' \subseteq MayAdd(w) =>
              Cardinality(MayAdd(w)') + 1 <= Cardinality(MayAdd(w))
         /\ \A c : MayAdd(w)' \subseteq MayAdd(w) \cup {c} =>
              Cardinality(MayAdd(w)') <= Cardinality(MayAdd(w)) + 1
<1>1. Updates(w)' = Updates(w)
  BY DEF Updates
<1>2. (\A u \in Updates(w) : Excused(u)' => Excused(u)) => OneToGive(w) <= OneToGive(w)'
  BY <1>1 DEF OneToGive
<1>3. Open(w)' \subseteq Open(w) /\ \A u \in Open(w) : u \in processed' => u \notin Open(w)'
  BY <1>1 DEF Open
<1> HIDE DEF CallInv
<1>4. IsFiniteSet(MayAdd(w)) /\ IsFiniteSet(Open(w))
  BY Sizes
<1>5. OneToGive(w) <= OneToGive(w)' + 1
  BY DEF OneToGive
<1> QED BY <1>2, <1>3, <1>4, <1>5, Fewer, OneMore

(* Nothing that costs is added.                                            *)
LEMMA BackedStays ==
  ASSUME CallInv, CallInv', NEW w \in Wish, Backed(w), sent' = sent, faults <= faults',
         added'[w] = added[w], MayAdd(w)' \subseteq MayAdd(w), processed \subseteq processed',
         lost \subseteq lost', \A u \in Updates(w) : Excused(u)' => Excused(u)
  PROVE  Backed(w)'
<1>1. /\ OneToGive(w) <= OneToGive(w)'
      /\ Cardinality(Open(w)') <= Cardinality(Open(w))
      /\ Cardinality(MayAdd(w)') <= Cardinality(MayAdd(w))
  BY BackedParts
<1>2. /\ added[w] \in Nat /\ faults \in Nat /\ OneToGive(w) \in {0, 1}
      /\ Cardinality(MayAdd(w)) \in Nat /\ Cardinality(Open(w)) \in Nat
  BY Sizes
<1>3. /\ faults' \in Nat /\ OneToGive(w)' \in {0, 1}
      /\ Cardinality(MayAdd(w)') \in Nat /\ Cardinality(Open(w)') \in Nat
  BY SizesNext
<1>4. added'[w] + Cardinality(MayAdd(w)') + Cardinality(Open(w)') + OneToGive(w) + faults
        <= added[w] + Cardinality(MayAdd(w)) + Cardinality(Open(w)) + OneToGive(w)' + faults'
  BY <1>1, <1>2, <1>3
<1> QED BY <1>4, BackedMoves

(* An update is excused: a failure, or a call that no longer adds, pays.   *)
LEMMA BackedPays ==
  ASSUME CallInv, CallInv', NEW w \in Wish, Backed(w), sent' = sent,
         added'[w] = added[w], MayAdd(w)' \subseteq MayAdd(w), processed \subseteq processed',
         lost \subseteq lost',
         \/ faults' = faults + 1
         \/ faults' = faults /\ \E c \in MayAdd(w) : c \notin MayAdd(w)'
  PROVE  Backed(w)'
<1>1. /\ OneToGive(w) <= OneToGive(w)' + 1
      /\ Cardinality(Open(w)') <= Cardinality(Open(w))
      /\ Cardinality(MayAdd(w)') <= Cardinality(MayAdd(w))
      /\ \/ faults' = faults + 1
         \/ faults' = faults /\ Cardinality(MayAdd(w)') + 1 <= Cardinality(MayAdd(w))
  BY BackedParts
<1>2. /\ added[w] \in Nat /\ faults \in Nat /\ OneToGive(w) \in {0, 1}
      /\ Cardinality(MayAdd(w)) \in Nat /\ Cardinality(Open(w)) \in Nat
  BY Sizes
<1>3. /\ faults' \in Nat /\ OneToGive(w)' \in {0, 1}
      /\ Cardinality(MayAdd(w)') \in Nat /\ Cardinality(Open(w)') \in Nat
  BY SizesNext
<1>4. added'[w] + Cardinality(MayAdd(w)') + Cardinality(Open(w)') + OneToGive(w) + faults
        <= added[w] + Cardinality(MayAdd(w)) + Cardinality(Open(w)) + OneToGive(w)' + faults'
  BY <1>1, <1>2, <1>3
<1> QED BY <1>4, BackedMoves

(* A call may add from now on: its update was open, or a failure pays; or  *)
(* it adds.                                                                *)
LEMMA BackedTurns ==
  ASSUME CallInv, CallInv', NEW w \in Wish, Backed(w), sent' = sent,
         processed \subseteq processed', lost \subseteq lost', NEW c,
         \A u \in Updates(w) : Excused(u)' => Excused(u),
         \/ /\ MayAdd(w)' \subseteq MayAdd(w) \cup {c} /\ added'[w] = added[w]
            /\ faults' = faults + 1
         \/ /\ MayAdd(w)' \subseteq MayAdd(w) \cup {c} /\ added'[w] = added[w]
            /\ faults' = faults /\ \E u \in Open(w) : u \in processed'
         \/ /\ MayAdd(w)' \subseteq MayAdd(w) /\ c \in MayAdd(w) /\ c \notin MayAdd(w)'
            /\ added'[w] = added[w] + 1 /\ faults' = faults
  PROVE  Backed(w)'
<1>1. /\ OneToGive(w) <= OneToGive(w)'
      /\ Cardinality(Open(w)') <= Cardinality(Open(w))
  BY BackedParts
<1>2. \/ /\ Cardinality(MayAdd(w)') <= Cardinality(MayAdd(w)) + 1
         /\ faults' = faults + 1 /\ added'[w] = added[w]
      \/ /\ Cardinality(MayAdd(w)') <= Cardinality(MayAdd(w)) + 1
         /\ faults' = faults /\ added'[w] = added[w]
         /\ Cardinality(Open(w)') + 1 <= Cardinality(Open(w))
      \/ /\ Cardinality(MayAdd(w)') + 1 <= Cardinality(MayAdd(w))
         /\ faults' = faults /\ added'[w] = added[w] + 1
  BY BackedParts
<1>3. /\ added[w] \in Nat /\ faults \in Nat /\ OneToGive(w) \in {0, 1}
      /\ Cardinality(MayAdd(w)) \in Nat /\ Cardinality(Open(w)) \in Nat
  BY Sizes
<1>4. /\ faults' \in Nat /\ OneToGive(w)' \in {0, 1}
      /\ Cardinality(MayAdd(w)') \in Nat /\ Cardinality(Open(w)') \in Nat
  BY SizesNext
<1>5. added'[w] + Cardinality(MayAdd(w)') + Cardinality(Open(w)') + OneToGive(w) + faults
        <= added[w] + Cardinality(MayAdd(w)) + Cardinality(Open(w)) + OneToGive(w)' + faults'
  BY <1>1, <1>2, <1>3, <1>4
<1> QED BY <1>5, BackedMoves

LEMMA OthersMayAdd ==
  ASSUME NEW c \in Call, Alone(c), sent' = sent, NEW w
  PROVE  /\ MayAdd(w)' \subseteq MayAdd(w) \cup {c}
         /\ c \notin MayAdd(w)' => MayAdd(w)' \subseteq MayAdd(w)
         /\ c \in MayAdd(w) => MayAdd(w)' \subseteq MayAdd(w)
<1>1. \A d \in Call \ {c} : d \in MayAdd(w)' => d \in MayAdd(w)
  BY Zenon DEF MayAdd, Alone, Sent
<1>2. MayAdd(w)' \subseteq Call
  BY DEF MayAdd
<1> QED BY <1>1, <1>2

(* Other updates than the one of the call are excused as before.           *)
LEMMA OthersExcused ==
  ASSUME NEW c \in Call, Alone(c), NEW u0, call[c] # NoCall, call[c].update = u0,
         call'[c] = NoCall \/ call'[c].update = u0,
         \A u \in Update \ {u0} : /\ answered'[u] = answered[u]
                                  /\ u \in processed' => u \in processed
                                  /\ u \in lost' => u \in lost
  PROVE  \A u \in Update \ {u0} : Excused(u)' => Excused(u)
<1> SUFFICES ASSUME NEW u \in Update \ {u0}, Excused(u)' PROVE Excused(u)
  OBVIOUS
<1>1. Owned(u)' => Owned(u)
  BY DEF Owned
<1>2. Told(u)' => Told(u)
  BY Rows DEF Told, Alone
<1>3. Dropped(u)' => Dropped(u)
  BY DEF Dropped, Alone
<1> QED BY <1>1, <1>2, <1>3 DEF Excused

(* The update of a call that goes on without an excuse is not excused by   *)
(* that.                                                                   *)
LEMMA NoExcuse ==
  ASSUME ConvTyped, NEW c \in Call, NEW F, Goes(c, F), call'[c].pc # "acquire",
         call'[c].pc = "deliver" => call'[c].reply = "reply",
         UNCHANGED <<answered, lost>>, processed' \in {processed, processed \cup {call[c].update}}
  PROVE  \A u \in Update : Excused(u)' => Excused(u)
<1> SUFFICES ASSUME NEW u0, u0 = call[c].update
             PROVE  \A u \in Update : Excused(u)' => Excused(u)
  OBVIOUS
<1>1. /\ call[c] # NoCall /\ call'[c] # NoCall /\ call'[c].update = u0 /\ Alone(c)
  BY Rows DEF Goes, Changes
<1>2. \A u \in Update \ {u0} : Excused(u)' => Excused(u)
  BY <1>1, OthersExcused
<1>3. Owned(u0)' => Owned(u0)
  BY DEF Owned
<1>4. Told(u0)' => Told(u0)
  BY <1>1 DEF Told, Alone
<1>5. ~Dropped(u0)'
  BY <1>1 DEF Dropped
<1> QED BY <1>2, <1>3, <1>4, <1>5 DEF Excused

(* What is recorded, and what it costs, when an update is acquired.        *)
LEMMA AcquireStep ==
  ASSUME NEW c \in Call, GoesOn(c)
  PROVE  \/ call[c].pc # "acquire" /\ UNCHANGED <<processed, faults>>
         \/ /\ call[c].pc = "acquire" /\ processed' = processed /\ faults' = faults + 1
         \/ /\ call[c].pc = "acquire" /\ call[c].update \notin processed
            /\ processed' = processed \cup {call[c].update} /\ faults' = faults
BY DEF GoesOn, AcquireUnrecorded, Transcribed, GetUser, InsertUser, Onboard, AskAgain, Onboarded,
       Acquire, Acquired, At, inbox, Fault

LEMMA GoesOnBacked ==
  ASSUME CallInv, CallInv', RowsBacked, NEW c \in Call, GoesOn(c)
  PROVE  RowsBacked'
<1>0. ConvTyped /\ Known /\ Fresh /\ faults \in Nat
  BY DEF CallInv, ConvTyped
<1>1. /\ Goes(c, {"pc"}) /\ UNCHANGED <<inflow, turns, clock, outcome>>
      /\ call[c].pc \in {"acquire", "transcribe", "user", "create", "route", "onboard"}
      /\ call'[c].pc \in {"transcribe", "user", "create", "route", "onboard", "user turn"}
      /\ call[c].pc = "onboard" => call'[c].pc = "user turn"
      /\ processed' \in {processed, processed \cup {call[c].update}}
  BY <1>0, EarlyStep DEF GoesOn
<1>2. /\ UNCHANGED <<sent, added, answered, lost>> /\ Alone(c) /\ call[c] # NoCall
      /\ call'[c].update = call[c].update /\ call'[c].did = call[c].did
  BY <1>1, Rows, Zenon DEF inflow, outcome, Goes, Changes
<1>3. \A u \in Update : Excused(u)' => Excused(u)
  BY <1>0, <1>1, <1>2, NoExcuse
<1>4. call[c].update \in DOMAIN sent /\ DOMAIN sent \subseteq Update
  BY <1>0, <1>2, DomainSent DEF Known
<1> SUFFICES ASSUME NEW w \in Wish PROVE Backed(w)'
  BY DEF RowsBacked
<1>5. Backed(w) /\ added'[w] = added[w] /\ processed \subseteq processed' /\ lost \subseteq lost'
  BY <1>1, <1>2 DEF RowsBacked
<1>6. \A u \in Updates(w) : Excused(u)' => Excused(u)
  BY <1>3, <1>4 DEF Updates
<1>7. CASE sent[call[c].update].wish # w
  <2>1. c \notin MayAdd(w)'
    BY <1>2, <1>7 DEF MayAdd, Sent
  <2>2. MayAdd(w)' \subseteq MayAdd(w)
    BY <1>2, <2>1, OthersMayAdd
  <2>3. faults <= faults'
    BY <1>0, AcquireStep
  <2> QED BY <1>2, <1>5, <1>6, <2>2, <2>3, BackedStays
<1>8. CASE sent[call[c].update].wish = w
  <2>1. CASE call[c].pc # "acquire" /\ UNCHANGED <<processed, faults>>
    <3>1. c \in MayAdd(w)' => c \in MayAdd(w)
      BY <1>0, <1>1, <1>2, <1>8, <2>1, Zenon DEF MayAdd, Sent, Fresh, BeforeModel
    <3>2. MayAdd(w)' \subseteq MayAdd(w)
      BY <1>2, <3>1, OthersMayAdd
    <3>3. faults <= faults'
      BY <1>0, <2>1
    <3> QED BY <1>2, <1>5, <1>6, <3>2, <3>3, BackedStays
  <2>2. MayAdd(w)' \subseteq MayAdd(w) \cup {c}
    BY <1>2, OthersMayAdd
  <2>3. CASE call[c].pc = "acquire" /\ processed' = processed /\ faults' = faults + 1
    BY <1>2, <1>5, <1>6, <2>2, <2>3, BackedTurns
  <2>4. CASE /\ call[c].pc = "acquire" /\ call[c].update \notin processed
             /\ processed' = processed \cup {call[c].update} /\ faults' = faults
    <3>1. call[c].update \in Open(w)
      BY <1>4, <1>8, <2>4 DEF Open, Updates
    <3> QED BY <1>2, <1>5, <1>6, <2>2, <2>4, <3>1, BackedTurns
  <2> QED BY <2>1, <2>3, <2>4, AcquireStep
<1> QED BY <1>7, <1>8

LEMMA RepliesBacked ==
  ASSUME CallInv, CallInv', RowsBacked, NEW c \in Call, call[c].pc # "idle", Replies(c)
  PROVE  RowsBacked'
<1> SUFFICES ASSUME NEW w \in Wish, NEW u0, u0 = call[c].update PROVE Backed(w)'
  BY DEF RowsBacked
<1>0. ConvTyped /\ Known /\ Fresh /\ faults \in Nat
  BY DEF CallInv, ConvTyped
<1>1. /\ Goes(c, {"pc", "reply", "turn", "gone", "seen"})
      /\ UNCHANGED <<inflow, processed, turns, clock, outcome>> /\ call'[c].pc = "deliver"
      /\ \/ faults' = faults /\ call[c].pc \in {"transcribe", "route"}
         \/ faults' = faults + 1
  BY <1>0, ReplyStep DEF Replies
<1>2. /\ UNCHANGED <<sent, added, answered, lost>> /\ Alone(c) /\ call[c] # NoCall
      /\ call'[c].update = call[c].update
  BY <1>1, Rows DEF inflow, outcome, Goes, Changes
<1>3. c \notin MayAdd(w)'
  BY <1>1 DEF MayAdd
<1>4. MayAdd(w)' \subseteq MayAdd(w)
  BY <1>2, <1>3, OthersMayAdd
<1>5. /\ Backed(w) /\ added'[w] = added[w] /\ processed \subseteq processed' /\ lost \subseteq lost'
      /\ faults <= faults'
  BY <1>0, <1>1, <1>2 DEF RowsBacked
<1>6. DOMAIN sent \subseteq Update /\ u0 \in DOMAIN sent
  BY <1>0, <1>2, DomainSent DEF Known
<1>7. CASE sent[u0].wish # w
  <2>1. \A u \in Update \ {u0} : Excused(u)' => Excused(u)
    BY <1>1, <1>2, OthersExcused
  <2>2. \A u \in Updates(w) : Excused(u)' => Excused(u)
    BY <1>6, <1>7, <2>1 DEF Updates
  <2> QED BY <1>2, <1>4, <1>5, <2>2, BackedStays
<1>8. CASE sent[u0].wish = w
  <2>1. faults' = faults + 1 \/ (faults' = faults /\ c \in MayAdd(w))
    <3>1. call[c].pc \in {"transcribe", "route"} => ~call[c].did
      BY <1>0, Zenon DEF Fresh, BeforeModel
    <3>2. call[c].pc \in {"transcribe", "route"} => c \in MayAdd(w)
      BY <1>8, <3>1, Zenon DEF MayAdd, Sent
    <3> QED BY <1>1, <3>2
  <2> QED BY <1>2, <1>3, <1>4, <1>5, <2>1, BackedPays
<1> QED BY <1>7, <1>8

LEMMA ClosesBacked ==
  ASSUME CallInv, CallInv', RowsBacked, NEW c \in Call, Closes(c)
  PROVE  RowsBacked'
<1> SUFFICES ASSUME NEW w \in Wish, NEW u0, u0 = call[c].update PROVE Backed(w)'
  BY DEF RowsBacked
<1>0. ConvTyped /\ Known /\ faults \in Nat
  BY DEF CallInv, ConvTyped
<1>1. /\ Ends(c) /\ UNCHANGED <<inflow, turns, clock, added>>
      /\ \/ /\ call[c].pc = "acquire" /\ call[c].update \in processed
            /\ UNCHANGED <<processed, answered, lost, faults>>
         \/ /\ call[c].pc = "deliver" /\ UNCHANGED <<processed, lost, faults>>
            /\ answered' = [answered EXCEPT ![call[c].update] = @ \cup {call[c].reply}]
         \/ /\ call[c].pc \in {"user", "create", "deliver"}
            /\ UNCHANGED <<processed, answered>> /\ faults' = faults + 1
            /\ lost' = lost \cup {call[c].update}
  BY <1>0, EndStep DEF Closes
<1>2. /\ UNCHANGED <<sent, added, processed>> /\ Alone(c) /\ call[c] # NoCall
      /\ call'[c] = NoCall /\ call'[c].pc = "idle"
  BY <1>1, Rows DEF inflow, Ends
<1>3. c \notin MayAdd(w)'
  BY <1>2 DEF MayAdd
<1>4. MayAdd(w)' \subseteq MayAdd(w)
  BY <1>2, <1>3, OthersMayAdd
<1>5. Backed(w) /\ added'[w] = added[w] /\ lost \subseteq lost' /\ faults <= faults'
  BY <1>0, <1>1, <1>2 DEF RowsBacked
<1>6. DOMAIN sent \subseteq Update /\ u0 \in DOMAIN sent
  BY <1>0, <1>2, DomainSent DEF Known
<1>7. \A u \in Update \ {u0} : Excused(u)' => Excused(u)
  <2>1. \A u \in Update \ {u0} : answered'[u] = answered[u] /\ (u \in lost' => u \in lost)
    BY <1>0, <1>1 DEF ConvTyped
  <2> QED BY <1>2, <2>1, OthersExcused
<1>8. CASE faults' = faults + 1
  BY <1>2, <1>4, <1>5, <1>8, BackedPays
<1>9. CASE /\ call[c].pc = "acquire" /\ u0 \in processed
           /\ UNCHANGED <<processed, answered, lost, faults>>
  <2>1. Excused(u0)' => Excused(u0)
    <3>1. Owned(u0)' => Owned(u0)
      BY <1>9 DEF Owned
    <3>2. Told(u0)' => Told(u0)
      BY <1>2 DEF Told, Alone
    <3>3. Dropped(u0)' => Dropped(u0)
      BY <1>2, <1>9 DEF Dropped, Alone
    <3> QED BY <3>1, <3>2, <3>3 DEF Excused
  <2>2. \A u \in Updates(w) : Excused(u)' => Excused(u)
    BY <1>6, <1>7, <2>1 DEF Updates
  <2> QED BY <1>2, <1>4, <1>5, <2>2, BackedStays
<1>10. CASE /\ call[c].pc = "deliver" /\ UNCHANGED <<processed, lost, faults>>
            /\ answered' = [answered EXCEPT ![u0] = @ \cup {call[c].reply}]
  <2>1. Excused(u0)' => Excused(u0)
    <3>0. answered'[u0] = answered[u0] \cup {call[c].reply}
      BY <1>0, <1>6, <1>10 DEF ConvTyped
    <3>1. Owned(u0)' => Owned(u0) \/ Told(u0)
      BY <1>10, <3>0 DEF Owned, Told
    <3>2. Told(u0)' => Told(u0)
      BY <1>2 DEF Told, Alone
    <3>3. ~Dropped(u0)'
      BY <3>0 DEF Dropped
    <3> QED BY <3>1, <3>2, <3>3 DEF Excused
  <2>2. \A u \in Updates(w) : Excused(u)' => Excused(u)
    BY <1>6, <1>7, <2>1 DEF Updates
  <2> QED BY <1>2, <1>4, <1>5, <2>2, BackedStays
<1> QED BY <1>1, <1>8, <1>9, <1>10

LEMMA NatReflexive == \A n \in Nat : n <= n
OBVIOUS

(* The conversation itself: only AddRow adds, and what was added is then   *)
(* no longer to come.                                                      *)
LEMMA TalksBacked ==
  ASSUME CallInv, CallInv', RowsBacked, NEW c \in Call, NEW F, Goes(c, F),
         UNCHANGED <<inbox, answered, lost, faults>>,
         call'[c].pc \in {"model", "user turn", "commit", "assistant turn", "deliver"},
         call[c].pc \in {"route", "model", "user turn", "commit", "assistant turn"},
         call'[c].pc = "model" => call[c].pc \in {"route", "model"}, "reply" \notin F,
         \/ added' = added /\ call'[c].did = call[c].did
         \/ AddRow(c)
  PROVE  RowsBacked'
<1> SUFFICES ASSUME NEW w \in Wish PROVE Backed(w)'
  BY DEF RowsBacked
<1>0. ConvTyped /\ Known /\ Fresh /\ faults \in Nat
  BY DEF CallInv, ConvTyped
<1>1. /\ UNCHANGED <<sent, processed>> /\ Alone(c) /\ call[c] # NoCall
      /\ call'[c].update = call[c].update
      /\ call'[c].reply = call[c].reply
  BY Rows DEF inbox, Goes, Changes
<1>2. call'[c].reply = "reply"
  BY <1>0, <1>1 DEF Fresh
<1>3. DOMAIN sent \subseteq Update /\ call[c].update \in DOMAIN sent
  BY <1>0, <1>1, DomainSent DEF Known
<1>4. \A u \in Updates(w) : Excused(u)' => Excused(u)
  <2>1. call'[c].pc # "acquire"
    OBVIOUS
  <2> QED BY <1>0, <1>1, <1>2, <1>3, <2>1, NoExcuse DEF Updates
<1>5. Backed(w) /\ processed \subseteq processed' /\ lost \subseteq lost' /\ faults <= faults'
  <2>1. faults' = faults /\ lost' = lost /\ processed' = processed /\ Backed(w)
    BY <1>1, Zenon DEF RowsBacked
  <2>2. processed \subseteq processed' /\ lost \subseteq lost'
    BY <2>1
  <2>3. faults <= faults
    BY <1>0, NatReflexive, Zenon
  <2>4. faults <= faults'
    BY <2>1, <2>3, Zenon
  <2> QED BY <2>1, <2>2, <2>4, Zenon
<1>6. CASE added' = added /\ call'[c].did = call[c].did
  <2>1. c \in MayAdd(w)' => c \in MayAdd(w)
    BY <1>1, <1>6, Zenon DEF MayAdd, Sent
  <2>2. MayAdd(w)' \subseteq MayAdd(w)
    BY <1>1, <2>1, OthersMayAdd
  <2> QED BY <1>1, <1>4, <1>5, <1>6, <2>2, BackedStays
<1>7. CASE AddRow(c)
  <2>1. call[c].pc = "model" /\ ~call[c].did /\ call'[c].did = TRUE
    BY <1>0, <1>7, RowAdded
  <2>2. c \notin MayAdd(w)'
    BY <2>1, Zenon DEF MayAdd
  <2>3. MayAdd(w)' \subseteq MayAdd(w)
    BY <1>1, <2>2, OthersMayAdd
  <2>4. added' = [added EXCEPT ![Sent(c).wish] = @ + 1]
    BY <1>7 DEF AddRow
  <2>5. CASE Sent(c).wish = w
    <3>1. c \in MayAdd(w)
      BY <2>1, <2>5, Zenon DEF MayAdd
    <3>2. added'[w] = added[w] + 1
      BY <1>0, <2>4, <2>5 DEF ConvTyped
    <3> QED BY <1>1, <1>4, <1>5, <2>2, <2>3, <3>1, <3>2, BackedTurns
  <2>6. CASE Sent(c).wish # w
    <3>1. added'[w] = added[w]
      BY <1>0, <2>4, <2>6 DEF ConvTyped
    <3> QED BY <1>1, <1>4, <1>5, <2>3, <3>1, BackedStays
  <2> QED BY <2>5, <2>6
<1> QED BY <1>6, <1>7

LEMMA DeliverBacked ==
  ASSUME CallInv, CallInv', RowsBacked, NEW c \in Call, NEW u \in Update, NEW v \in Update,
         Deliver(c, u, v)
  PROVE  RowsBacked'
<1> SUFFICES ASSUME NEW w \in Wish PROVE Backed(w)'
  BY DEF RowsBacked
<1>0. ConvTyped /\ Known /\ faults \in Nat
  BY DEF CallInv, ConvTyped
<1>1. /\ Alone(c) /\ call[c] = NoCall /\ call'[c] \in Handling
      /\ call'[c].pc = "acquire" /\ call'[c].update = u /\ lost \subseteq lost'
      /\ UNCHANGED <<sent, processed, added, answered, faults>>
  BY <1>0, DeliverStep, Zenon
<1>2. c \notin MayAdd(w)'
  BY <1>1 DEF MayAdd
<1>3. MayAdd(w)' \subseteq MayAdd(w)
  BY <1>1, <1>2, OthersMayAdd
<1>4. Backed(w) /\ processed \subseteq processed' /\ faults <= faults'
  BY <1>0, <1>1 DEF RowsBacked
<1>5. \A x \in Update : Excused(x)' => Excused(x) \/ x \in lost' \ lost
  <2> SUFFICES ASSUME NEW x \in Update, Excused(x)' PROVE Excused(x) \/ x \in lost' \ lost
    OBVIOUS
  <2>1. Owned(x)' => Owned(x)
    BY <1>1 DEF Owned
  <2>2. Told(x)' => Told(x)
    BY <1>1 DEF Told, Alone
  <2>3. Dropped(x)' => Dropped(x) \/ x \in lost' \ lost
    BY <1>1, Rows DEF Dropped, Alone
  <2> QED BY <2>1, <2>2, <2>3 DEF Excused
<1>6. Updates(w) \subseteq Update /\ Updates(w)' = Updates(w)
  BY <1>0, <1>1, DomainSent DEF Updates
<1>7. CASE \A x \in Updates(w) : Excused(x)' => Excused(x)
  BY <1>1, <1>3, <1>4, <1>7, BackedStays
<1>8. CASE \E x \in Updates(w) : x \in lost' \ lost
  <2> HIDE DEF CallInv
  <2>1. Cardinality(lost \cap Updates(w)) + 1 <= Cardinality((lost \cap Updates(w))')
    <3>1. PICK x \in Updates(w) : x \in lost' \ lost
      BY <1>8
    <3>2. x \in (lost \cap Updates(w))' /\ x \notin lost \cap Updates(w)
      BY <1>6, <3>1
    <3>3. lost \cap Updates(w) \subseteq (lost \cap Updates(w))'
      BY <1>1, <1>6
    <3> QED BY <3>2, <3>3, SizesNext, Fewer
  <2>2. /\ OneToGive(w) <= OneToGive(w)' + 1
        /\ Cardinality(Open(w)') <= Cardinality(Open(w))
        /\ Cardinality(MayAdd(w)') <= Cardinality(MayAdd(w))
    BY <1>1, <1>3, <1>4, BackedParts
  <2>3. /\ added[w] \in Nat /\ faults \in Nat /\ OneToGive(w) \in {0, 1}
        /\ Cardinality(MayAdd(w)) \in Nat /\ Cardinality(Open(w)) \in Nat
        /\ Cardinality(lost \cap Updates(w)) \in Nat
    BY Sizes
  <2>4. /\ faults' \in Nat /\ OneToGive(w)' \in {0, 1}
        /\ Cardinality(MayAdd(w)') \in Nat /\ Cardinality(Open(w)') \in Nat
        /\ Cardinality((lost \cap Updates(w))') \in Nat
    BY SizesNext
  <2> QED BY <1>1, <1>4, <2>1, <2>2, <2>3, <2>4 DEF Backed
<1> QED BY <1>5, <1>6, <1>7, <1>8

(* A wish is sent again only when all its updates are excused: there is    *)
(* one to give for it again.                                               *)
LEMMA SendBacked ==
  ASSUME CallInv, CallInv', RowsBacked, NEW w0 \in Wish, Send(w0)
  PROVE  RowsBacked'
<1> SUFFICES ASSUME NEW w \in Wish, NEW u0, u0 = Len(sent) + 1 PROVE Backed(w)'
  BY DEF RowsBacked
<1>0. ConvTyped /\ Known /\ faults \in Nat
  BY DEF CallInv, ConvTyped
<1>1. /\ DOMAIN sent' = DOMAIN sent \cup {u0} /\ u0 \in Update /\ u0 \notin DOMAIN sent
      /\ \A u \in DOMAIN sent : sent'[u] = sent[u]
      /\ sent'[u0].wish = w0
  <2>1. sent'[u0] = [wish |-> w0, after |-> {t \in turns : "reply" \in answered[t.update]}]
    BY SendKeeps
  <2>2. sent'[u0].wish = w0
    BY <2>1
  <2> QED BY <2>2, SendKeeps
<1>2. /\ UNCHANGED <<deliveries, processed, call, turns, clock, added, answered, lost, faults>>
      /\ \A u \in Updates(w0) : Unserved(u)
  BY DEF Send, record, outcome
<1>3. MayAdd(w)' = MayAdd(w)
  <2>1. \A c \in Call : call[c].pc \in {"transcribe", "user", "create", "route", "model"} =>
          Sent(c)' = Sent(c)
    BY <1>0, <1>1, <1>2, Rows DEF Known, Sent
  <2> QED BY <1>2, <2>1, Zenon DEF MayAdd
<1>4. \A u : Excused(u)' <=> Excused(u)
  BY <1>2 DEF Excused, Owned, Told, Dropped
<1>5. Backed(w)
  BY DEF RowsBacked
<1>6. u0 \notin processed /\ u0 \notin lost
  BY <1>0, <1>1 DEF Known
<1> HIDE DEF CallInv
<1>7. CASE w # w0
  <2>1. Updates(w)' = Updates(w)
    BY <1>1, <1>7 DEF Updates
  <2>2. Open(w)' = Open(w) /\ OneToGive(w)' = OneToGive(w)
    BY <1>2, <1>4, <2>1 DEF Open, OneToGive
  <2> QED BY <1>2, <1>3, <1>5, <2>1, <2>2 DEF Backed
<1>8. CASE w = w0
  <2>1. Updates(w)' = Updates(w) \cup {u0}
    BY <1>1, <1>8 DEF Updates
  <2>2. Cardinality(Open(w)') <= Cardinality(Open(w)) + 1
    <3>1. Open(w)' \subseteq Open(w) \cup {u0}
      BY <1>2, <2>1 DEF Open
    <3> QED BY <3>1, Sizes, OneMore
  <2>3. (lost \cap Updates(w))' = lost \cap Updates(w)
    BY <1>2, <1>6, <2>1
  <2>4. OneToGive(w) = 0
    <3>1. \A u \in Updates(w) : Excused(u)
      <4> SUFFICES ASSUME NEW u \in Updates(w), Unserved(u) PROVE Excused(u)
        BY <1>2, <1>8
      <4> QED BY DEF Unserved, Excused, Owned, Dropped, InFlight
    <3> QED BY <3>1 DEF OneToGive
  <2>5. OneToGive(w)' = 1
    <3>1. answered[u0] = {}
      BY <1>0, <1>1 DEF Known
    <3>2. ~Told(u0)
      BY <1>0, <1>1, Rows DEF Told, Known
    <3>3. ~Excused(u0)
      BY <1>6, <3>1, <3>2 DEF Excused, Owned, Dropped
    <3> QED BY <1>4, <2>1, <3>3 DEF OneToGive
  <2>6. /\ added[w] \in Nat /\ Cardinality(MayAdd(w)) \in Nat /\ Cardinality(Open(w)) \in Nat
        /\ Cardinality(lost \cap Updates(w)) \in Nat
    BY Sizes
  <2>7. Cardinality(Open(w)') \in Nat
    BY SizesNext
  <2>8. /\ added'[w] = added[w] /\ faults' = faults
        /\ Cardinality(MayAdd(w)') = Cardinality(MayAdd(w))
        /\ Cardinality((lost \cap Updates(w))') = Cardinality(lost \cap Updates(w))
    BY <1>2, <1>3, <2>3
  <2>9. added[w] + Cardinality(MayAdd(w)) + Cardinality(Open(w))
          <= 0 + faults + Cardinality(lost \cap Updates(w))
    BY <1>5, <2>4 DEF Backed
  <2>10. added'[w] + Cardinality(MayAdd(w)') + Cardinality(Open(w)')
           <= 1 + faults' + Cardinality((lost \cap Updates(w))')
    BY <1>0, <2>2, <2>6, <2>7, <2>8, <2>9
  <2> QED BY <2>5, <2>10 DEF Backed
<1> QED BY <1>7, <1>8

LEMMA RowsNext ==
  ASSUME CallInv, CallInv', Linked, RowsBacked, [Next]_vars
  PROVE  RowsBacked'
<1>0. ConvTyped /\ Fresh /\ faults \in Nat
  BY DEF CallInv, ConvTyped
<1>1. ASSUME NEW c \in Call, ReadHistory(c) PROVE RowsBacked'
  <2>1. UNCHANGED <<inbox, answered, lost, faults, added>>
    BY <1>1 DEF ReadHistory, outcome
  <2>2. Goes(c, {"pc", "seen"}) /\ call[c].pc = "route" /\ call'[c].pc = "model"
    BY <1>0, <1>1, HistoryRead
  <2>3. call'[c].did = call[c].did
    BY <2>2, Zenon DEF Goes, Changes
  <2> QED BY <2>1, <2>2, <2>3, TalksBacked
<1>2. ASSUME NEW c \in Call, AddRow(c) PROVE RowsBacked'
  <2>1. UNCHANGED <<inbox, answered, lost, faults>>
    BY <1>2 DEF AddRow
  <2>2. Goes(c, {"did", "rounds", "seen"}) /\ call[c].pc = "model"
    BY <1>0, <1>2, RowAdded
  <2>3. call'[c].pc = "model"
    BY <2>2 DEF Goes, Changes
  <2> QED BY <1>2, <2>1, <2>2, <2>3, TalksBacked
<1>3. ASSUME NEW c \in Call, OtherTool(c) PROVE RowsBacked'
  <2>1. UNCHANGED <<inbox, answered, lost, faults, added>>
    BY <1>3 DEF OtherTool, outcome
  <2>2. Goes(c, {"rounds", "seen"}) /\ call[c].pc = "model"
    BY <1>0, <1>3, ToolRan
  <2>3. call'[c].pc = "model"
    BY <2>2 DEF Goes, Changes
  <2>4. call'[c].did = call[c].did
    BY <2>2, Zenon DEF Goes, Changes
  <2> QED BY <2>1, <2>2, <2>3, <2>4, TalksBacked
<1>4. ASSUME NEW c \in Call, Compose(c) PROVE RowsBacked'
  <2>1. UNCHANGED <<inbox, answered, lost, faults, added>>
    BY <1>4 DEF Compose, outcome
  <2>2. Goes(c, {"pc", "seen"}) /\ call[c].pc = "model" /\ call'[c].pc = "user turn"
    BY <1>0, <1>4, Composed
  <2>3. call'[c].did = call[c].did
    BY <2>2, Zenon DEF Goes, Changes
  <2> QED BY <2>1, <2>2, <2>3, TalksBacked
<1>5. ASSUME NEW c \in Call, PersistTurn(c) \/ CommitTurn(c) PROVE RowsBacked'
  <2>1. UNCHANGED <<inbox, answered, lost, faults, added>>
    BY <1>5 DEF PersistTurn, CommitTurn, outcome
  <2>2. /\ Goes(c, {"pc", "turn", "gone"})
        /\ call[c].pc \in {"user turn", "assistant turn", "commit"}
        /\ call'[c].pc \in {"commit", "assistant turn", "deliver"}
    BY <1>0, <1>5, TurnWritten, TurnCommitted
  <2>3. call'[c].did = call[c].did
    BY <2>2, Zenon DEF Goes, Changes
  <2> QED BY <2>1, <2>2, <2>3, TalksBacked
<1>6. CASE Crash
  <2>1. /\ \A c \in Call : call'[c].pc = "idle"
        /\ faults' = faults + 1 /\ lost \subseteq lost'
        /\ UNCHANGED <<sent, processed, added>>
    BY <1>0, <1>6, CrashStep
  <2>2. \A w \in Wish : MayAdd(w)' \subseteq MayAdd(w)
    BY <2>1 DEF MayAdd
  <2> QED BY <2>1, <2>2, BackedPays DEF RowsBacked
<1>7. CASE UNCHANGED <<inbox, call, record, outcome>> /\ faults' \in {faults, faults + 1}
  <2>1. UNCHANGED <<sent, processed, call, added, answered, lost>> /\ faults <= faults'
    BY <1>0, <1>7 DEF inbox, outcome
  <2>2. \A w \in Wish : MayAdd(w)' \subseteq MayAdd(w)
    BY <2>1 DEF MayAdd, Sent
  <2>3. \A u : Excused(u)' <=> Excused(u)
    BY <2>1 DEF Excused, Owned, Told, Dropped
  <2> QED BY <2>1, <2>2, <2>3, BackedStays DEF RowsBacked
<1> QED BY <1>0, <1>1, <1>2, <1>3, <1>4, <1>5, <1>6, <1>7, Cases, GoesOnBacked, RepliesBacked,
           ClosesBacked, DeliverBacked, SendBacked

-----------------------------------------------------------------------------
(* Turns, by their age. *)

LEMMA Least ==
  ASSUME NEW T, T \subseteq Nat, T # {}
  PROVE  \E x \in T : \A y \in T : x <= y
<1>1. PICK x \in T : \A y \in T : ~ (<<y, x>> \in OpToRel(<, Nat))
  BY NatLessThanWellFounded, WFMin, Zenon
<1>2. \A y \in T : ~ (y < x)
  BY <1>1 DEF OpToRel
<1> QED BY <1>2

LEMMA TurnAt == \A t \in Turn : t.at \in Nat
BY DEF Turn

LEMMA Oldest ==
  ASSUME NEW S, S \subseteq Turn, S # {}
  PROVE  \E x \in S : \A y \in S : x.at <= y.at
<1>1. {s.at : s \in S} \subseteq Nat /\ {s.at : s \in S} # {}
  BY TurnAt
<1>2. PICK k \in {s.at : s \in S} : \A j \in {s.at : s \in S} : k <= j
  BY <1>1, Least
<1> QED BY <1>2

LEMMA Newest ==
  ASSUME NEW S, S \subseteq Turn, S # {}, NEW n \in Nat, \A s \in S : s.at <= n
  PROVE  \E x \in S : \A y \in S : y.at <= x.at
<1> DEFINE age(s) == n - s.at
<1>1. {age(s) : s \in S} \subseteq Nat /\ {age(s) : s \in S} # {}
  BY TurnAt
<1>2. PICK k \in {age(s) : s \in S} : \A j \in {age(s) : s \in S} : k <= j
  BY <1>1, Least
<1>3. PICK x \in S : \A y \in S : age(x) <= age(y)
  BY <1>2
<1>4. \A s \in S : s.at \in Nat
  BY TurnAt
<1> QED BY <1>3, <1>4

LEMMA NewerSubset ==
  ASSUME NEW t, NEW S, IsFiniteSet(S)
  PROVE  /\ Newer(t, S) \subseteq S /\ IsFiniteSet(Newer(t, S))
         /\ Cardinality(Newer(t, S)) \in Nat
<1>1. Newer(t, S) \subseteq S
  BY DEF Newer
<1> QED BY <1>1, Fewer

(* A transaction that deletes turns with enough newer ones, and adds one,  *)
(* leaves enough newer ones for every turn that had them: for the newest   *)
(* turn it deletes among those that are newer.                             *)
LEMMA EnoughNewerStay ==
  ASSUME NEW T, T \subseteq Turn, IsFiniteSet(T), NEW n \in Nat, \A s \in T : s.at <= n,
         NEW G, NEW p \in Turn, NEW E, IsFiniteSet(E), NEW M \in Nat,
         \A g \in G : Cardinality(Newer(g, T \cup {p})) >= M,
         NEW t \in Turn, Cardinality(Newer(t, T \cup E)) >= M
  PROVE  Cardinality(Newer(t, ((T \ G) \cup {p}) \cup E)) >= M
<1> DEFINE new == ((T \ G) \cup {p}) \cup E
           D == {g \in T \cap G : g.at > t.at}
<1>1. IsFiniteSet(new) /\ IsFiniteSet(T \cup {p}) /\ IsFiniteSet(T \cup E)
  <2>1. IsFiniteSet(T \ G) /\ IsFiniteSet({p})
    BY FS_Subset, FS_Singleton
  <2> QED BY <2>1, FS_Union
<1>2. CASE D = {}
  <2>1. Newer(t, T \cup E) \subseteq Newer(t, new)
    BY <1>2 DEF Newer
  <2>2. IsFiniteSet(Newer(t, new))
    BY <1>1, NewerSubset
  <2>3. Cardinality(Newer(t, T \cup E)) <= Cardinality(Newer(t, new))
        /\ Cardinality(Newer(t, T \cup E)) \in Nat /\ Cardinality(Newer(t, new)) \in Nat
    BY <2>1, <2>2, Fewer
  <2> QED BY <2>3
<1>3. CASE D # {}
  <2>1. PICK x \in D : \A y \in D : y.at <= x.at
    BY <1>3, Newest
  <2>2. /\ x \in T /\ x \in G /\ x.at > t.at /\ x.at \in Nat /\ t.at \in Nat
        /\ \A y \in T \cup {p} : y.at \in Nat
    BY <2>1, TurnAt
  <2>3. Newer(x, T \cup {p}) \subseteq Newer(t, new)
    <3> SUFFICES ASSUME NEW y \in T \cup {p}, y.at > x.at PROVE y \in new /\ y.at > t.at
      BY DEF Newer
    <3>1. y.at > t.at
      BY <2>2
    <3>2. y \notin D
      BY <2>1, <2>2
    <3> QED BY <3>1, <3>2
  <2>4. IsFiniteSet(Newer(t, new))
    BY <1>1, NewerSubset
  <2>5. Cardinality(Newer(x, T \cup {p})) <= Cardinality(Newer(t, new))
        /\ Cardinality(Newer(x, T \cup {p})) \in Nat /\ Cardinality(Newer(t, new)) \in Nat
    BY <2>3, <2>4, Fewer
  <2>6. Cardinality(Newer(x, T \cup {p})) >= M
    BY <2>2
  <2> QED BY <2>5, <2>6
<1> QED BY <1>2, <1>3

LEMMA LatestAtMost ==
  ASSUME NEW S, S \subseteq Turn, IsFiniteSet(S), NEW n \in Nat,
         \A s, t \in S : s.at = t.at => s = t
  PROVE  Cardinality(Latest(S, n)) <= n
<1> DEFINE L == Latest(S, n)
<1>1. L \subseteq S /\ L \subseteq Turn /\ IsFiniteSet(L) /\ Cardinality(L) \in Nat
  <2>1. L \subseteq S
    BY DEF Latest
  <2> QED BY <2>1, Fewer
<1>2. CASE L = {}
  <2>1. Cardinality(L) = 0
    BY <1>2, FS_EmptySet
  <2> QED BY <2>1
<1>3. CASE L # {}
  <2>1. PICK m \in L : \A y \in L : m.at <= y.at
    BY <1>1, <1>3, Oldest
  <2>2. L \ {m} \subseteq Newer(m, S)
    <3> SUFFICES ASSUME NEW y \in L, y # m PROVE y \in S /\ y.at > m.at
      BY DEF Newer
    <3>1. y \in S /\ m \in S /\ y.at \in Nat /\ m.at \in Nat /\ m.at <= y.at
      BY <1>1, <2>1, TurnAt
    <3>2. y.at # m.at
      BY <3>1
    <3> QED BY <3>1, <3>2
  <2>3. Cardinality(Newer(m, S)) < n
    BY <2>1 DEF Latest
  <2>4. Cardinality(L \ {m}) <= Cardinality(Newer(m, S)) /\ Cardinality(Newer(m, S)) \in Nat
        /\ Cardinality(L \ {m}) \in Nat
    BY <2>2, NewerSubset, Fewer
  <2>5. Cardinality(L \ {m}) = Cardinality(L) - 1
    BY <1>1, <2>1, FS_RemoveElement
  <2> QED BY <1>1, <2>3, <2>4, <2>5
<1> QED BY <1>2, <1>3

(* With n turns newer than t, the latest n are all newer.                  *)
LEMMA LatestNewer ==
  ASSUME NEW S, S \subseteq Turn, IsFiniteSet(S), NEW n \in Nat,
         \A s, t \in S : s.at = t.at => s = t,
         NEW k \in Nat, \A s \in S : s.at <= k,
         NEW t \in Turn, Cardinality(Newer(t, S)) >= n
  PROVE  /\ Cardinality(Latest(S, n)) = n
         /\ Newer(t, Latest(S, n)) = Latest(S, n)
<1> DEFINE L == Latest(S, n)
<1>1. L \subseteq S /\ IsFiniteSet(L) /\ Cardinality(L) \in Nat
  <2>1. L \subseteq S
    BY DEF Latest
  <2> QED BY <2>1, Fewer
<1>2. ASSUME NEW s \in L PROVE s.at > t.at
  <2>1. s.at \in Nat /\ t.at \in Nat /\ s \in S /\ \A y \in S : y.at \in Nat
    BY <1>1, TurnAt
  <2>2. Cardinality(Newer(s, S)) < n
    BY DEF Latest
  <2> SUFFICES ASSUME s.at <= t.at PROVE FALSE
    BY <2>1
  <2>3. Newer(t, S) \subseteq Newer(s, S)
    BY <2>1 DEF Newer
  <2>4. Cardinality(Newer(t, S)) <= Cardinality(Newer(s, S))
        /\ Cardinality(Newer(t, S)) \in Nat /\ Cardinality(Newer(s, S)) \in Nat
    BY <2>3, NewerSubset, Fewer
  <2> QED BY <2>2, <2>4
<1>3. Newer(t, L) = L
  BY <1>2 DEF Newer
<1>4. Cardinality(L) >= n
  <2>1. CASE S \ L = {}
    <3>1. Newer(t, S) \subseteq L
      BY <1>1, <2>1 DEF Newer
    <3>2. Cardinality(Newer(t, S)) <= Cardinality(L) /\ Cardinality(Newer(t, S)) \in Nat
      BY <1>1, <3>1, Fewer
    <3> QED BY <1>1, <3>2
  <2>2. CASE S \ L # {}
    <3>1. PICK x \in S \ L : \A y \in S \ L : y.at <= x.at
      BY <2>2, Newest
    <3>2. Newer(x, S) \subseteq L
      <4> SUFFICES ASSUME NEW y \in S, y.at > x.at PROVE y \in L
        BY DEF Newer
      <4>1. y.at \in Nat /\ x.at \in Nat
        BY <3>1, TurnAt
      <4> QED BY <3>1, <4>1
    <3>3. Cardinality(Newer(x, S)) <= Cardinality(L) /\ Cardinality(Newer(x, S)) \in Nat
      BY <1>1, <3>2, Fewer
    <3>4. ~ (Cardinality(Newer(x, S)) < n)
      BY <3>1 DEF Latest
    <3> QED BY <1>1, <3>3, <3>4
  <2> QED BY <2>1, <2>2
<1>5. Cardinality(L) <= n
  BY LatestAtMost
<1> QED BY <1>1, <1>3, <1>4, <1>5

-----------------------------------------------------------------------------
(* The stored turns.  Those a transaction is about to delete have enough   *)
(* newer ones, with the turn it adds; what a user saw answered is stored   *)
(* or has enough newer ones; and what is stored without what a transaction *)
(* is about to delete leaves room for its turn, but for one turn of each   *)
(* call that committed since it read, or is yet to commit a newer one.     *)

Committing(c) == call[c].pc = "commit"

Stamped ==
  /\ IsFiniteSet(turns) /\ \A t \in turns : t.at <= clock
  /\ \A s, t \in turns : s.at = t.at => s = t
  /\ \A c \in Call : Committing(c) =>
       call[c].turn.at <= clock /\ \A t \in turns : t.at # call[c].turn.at
  /\ \A c, d \in Call :
       Committing(c) /\ Committing(d) /\ call[c].turn.at = call[d].turn.at => c = d

Pruned ==
  \A c \in Call : Committing(c) =>
    \A g \in call[c].gone : Cardinality(Newer(g, turns \cup {call[c].turn})) >= MaxTurns

Held(t) == t \in turns \/ Cardinality(Newer(t, turns)) >= MaxTurns

Followed == \A u \in DOMAIN sent : \A t \in sent[u].after : Held(t)

Beside(c) == {d \in Call \ {c} : ~(Committing(d) /\ call[d].turn.at < call[c].turn.at)}

Fitting ==
  \A c \in Call : Committing(c) =>
    Cardinality(turns \ call[c].gone) <= (MaxTurns - 1) + Cardinality(Beside(c))

Recorded ==
  \A c \in Call :
    /\ call[c].pc = "assistant turn" => Kept(call[c].update, "user")
    /\ Committing(c) => call[c].turn.role = "user" \/ Kept(call[c].update, "user")
    /\ call[c].pc = "deliver" /\ call[c].reply = "reply" =>
         Kept(call[c].update, "user") /\ Kept(call[c].update, "assistant")

TurnInv == Stamped /\ Pruned /\ Followed /\ Fitting /\ Recorded /\ HistorySound

LEMMA RoomGrows ==
  \A size, max, n, m \in Nat : size <= (max - 1) + n /\ n <= m => size <= (max - 1) + m
OBVIOUS

LEMMA ReadingKept ==
  ASSUME ConvTyped, Known, HistorySeesAnswered, \A u \in DOMAIN sent : u \in DOMAIN sent' /\ sent'[u] = sent[u],
         \A d \in Call : \/ call'[d] = call[d]
                         \/ call'[d].pc = "model" => call'[d].rounds # 0
  PROVE  HistorySeesAnswered'
<1> SUFFICES ASSUME NEW c \in Call, call'[c].pc = "model", call'[c].rounds = 0
             PROVE  \A t \in Sent(c)'.after : Shown(t, call'[c].seen)
  BY DEF HistorySeesAnswered, At, Shown, Newer
<1>1. call'[c] = call[c]
  OBVIOUS
<1>2. call[c].update \in DOMAIN sent
  BY <1>1, Rows DEF Known
<1>3. Sent(c)' = Sent(c)
  BY <1>1, <1>2 DEF Sent
<1> QED BY <1>1, <1>3 DEF HistorySeesAnswered, At

(* Nothing is stored, and nobody is further with a turn.                   *)
LEMMA TurnsStay ==
  ASSUME CallInv, TurnInv, UNCHANGED <<sent, turns, clock>>,
         \A d \in Call :
           \/ call'[d] = call[d]
           \/ /\ call'[d].pc \notin {"commit", "assistant turn"}
              /\ call'[d].pc = "model" => call'[d].rounds # 0
              /\ call'[d].pc = "deliver" => call'[d].reply # "reply",
         \A u \in Update : "reply" \in answered'[u] =>
           "reply" \in answered[u] \/ (Kept(u, "user") /\ Kept(u, "assistant"))
  PROVE  TurnInv'
<1>0. Stamped /\ Pruned /\ Followed /\ Fitting /\ Recorded /\ ConvTyped /\ Known /\ HistorySound
  BY DEF TurnInv, CallInv
<1>1. \A c \in Call : Committing(c)' => call'[c] = call[c] /\ Committing(c)
  BY DEF Committing
<1>2. Stamped'
  BY <1>0, <1>1 DEF Stamped
<1>3. Pruned'
  BY <1>0, <1>1 DEF Pruned, Newer
<1>4. Followed'
  BY <1>0 DEF Followed, Held, Newer
<1>5. Fitting'
  <2> SUFFICES ASSUME NEW c \in Call, Committing(c)'
               PROVE  Cardinality(turns \ call[c].gone) <= (MaxTurns - 1) + Cardinality(Beside(c)')
    BY <1>1 DEF Fitting
  <2>1. Beside(c) \subseteq Beside(c)' /\ Beside(c)' \subseteq Call
    BY <1>1 DEF Beside
  <2>2. Cardinality(Beside(c)) <= Cardinality(Beside(c)') /\ Cardinality(Beside(c)) \in Nat
        /\ Cardinality(Beside(c)') \in Nat
    BY <2>1, Finite, Fewer
  <2>3. Cardinality(turns \ call[c].gone) <= (MaxTurns - 1) + Cardinality(Beside(c))
    BY <1>0, <1>1 DEF Fitting
  <2>4. Cardinality(turns \ call[c].gone) \in Nat /\ MaxTurns \in Nat
    <3>1. turns \ call[c].gone \subseteq turns
      OBVIOUS
    <3> QED BY <1>0, <3>1, Fewer, ConversationAssumption DEF Stamped
  <2> QED BY <2>2, <2>3, <2>4, RoomGrows, Zenon
<1>6. \A u, r : Kept(u, r)' <=> Kept(u, r)
  BY DEF Kept
<1>7. Recorded'
  BY <1>0, <1>1, <1>6 DEF Recorded
<1>8. HistorySound'
  <2>1. HistorySeesAnswered'
    BY <1>0, ReadingKept DEF HistorySound
  <2>2. AnsweredKept'
    BY <1>0, <1>6 DEF HistorySound, AnsweredKept
  <2>3. TurnsBounded'
    BY <1>0 DEF HistorySound, TurnsBounded
  <2> QED BY <2>1, <2>2, <2>3 DEF HistorySound
<1> QED BY <1>2, <1>3, <1>4, <1>5, <1>7, <1>8 DEF TurnInv

LEMMA SendTurns ==
  ASSUME CallInv, TurnInv, NEW w \in Wish, Send(w)
  PROVE  TurnInv'
<1>0. Stamped /\ Pruned /\ Followed /\ Fitting /\ Recorded /\ ConvTyped /\ Known /\ HistorySound
  BY DEF TurnInv, CallInv
<1>1. /\ DOMAIN sent' = DOMAIN sent \cup {Len(sent) + 1}
      /\ \A u \in DOMAIN sent : sent'[u] = sent[u]
      /\ sent'[Len(sent) + 1].after \subseteq turns
  <2>1. sent'[Len(sent) + 1] =
              [wish |-> w, after |-> {t \in turns : "reply" \in answered[t.update]}]
    BY SendKeeps
  <2>2. sent'[Len(sent) + 1].after \subseteq turns
    BY <2>1
  <2> QED BY <2>2, SendKeeps
<1>2. UNCHANGED <<turns, clock, call, answered>>
  BY DEF Send, record, outcome
<1>3. Stamped' /\ Pruned' /\ Fitting' /\ Recorded'
  BY <1>0, <1>2 DEF Stamped, Pruned, Fitting, Recorded, Committing, Beside, Kept, Newer
<1>4. Followed'
  BY <1>0, <1>1, <1>2 DEF Followed, Held, Newer
<1>5. HistorySound'
  <2>1. HistorySeesAnswered'
    BY <1>0, <1>1, <1>2, ReadingKept DEF HistorySound
  <2>2. AnsweredKept' /\ TurnsBounded'
    BY <1>0, <1>2 DEF HistorySound, AnsweredKept, TurnsBounded, Kept
  <2> QED BY <2>1, <2>2 DEF HistorySound
<1> QED BY <1>3, <1>4, <1>5 DEF TurnInv

(* What the user saw answered is among the latest turns, or they are all   *)
(* newer.                                                                  *)
LEMMA ReadHistoryTurns ==
  ASSUME CallInv, TurnInv, NEW c \in Call, ReadHistory(c)
  PROVE  TurnInv'
<1>0. Stamped /\ Pruned /\ Followed /\ Fitting /\ Recorded /\ ConvTyped /\ Known /\ HistorySound
  BY DEF TurnInv, CallInv
<1> DEFINE n == MAX_HISTORY_TURNS
           seen == Latest(turns, n)
<1>1. /\ Goes(c, {"pc", "seen"}) /\ call'[c].pc = "model" /\ call'[c].seen = seen
      /\ UNCHANGED <<sent, turns, clock, answered>>
  <2>1. UNCHANGED <<sent, turns, clock, answered>>
    BY DEF ReadHistory, inbox, record, outcome
  <2> QED BY <1>0, <2>1, HistoryRead
<1>2. \A d \in Call \ {c} : call'[d] = call[d]
  BY <1>1 DEF Goes, Alone
<1>3. call[c].update \in DOMAIN sent /\ call'[c].update = call[c].update
  BY <1>0, <1>1, Rows DEF Goes, Changes, Known
<1>4. \A d \in Call : Committing(d)' => call'[d] = call[d] /\ Committing(d)
  BY <1>1, <1>2 DEF Committing
<1>5. \A d \in Call : Committing(d) => d # c
  <2>1. call[c].pc = "route"
    BY DEF ReadHistory, At
  <2> QED BY <2>1 DEF Committing
<1>6. Stamped' /\ Pruned' /\ Followed'
  BY <1>0, <1>1, <1>4 DEF Stamped, Pruned, Followed, Held, Newer
<1>7. Fitting'
  <2>1. \A d \in Call : Committing(d)' => Beside(d)' = Beside(d)
    BY <1>2, <1>4, <1>5, <1>1 DEF Beside, Committing
  <2> QED BY <1>0, <1>1, <1>4, <2>1 DEF Fitting
<1>8. Recorded'
  BY <1>0, <1>1, <1>2 DEF Recorded, Kept, Committing
<1>9. \A t \in sent[call[c].update].after : Shown(t, seen)
  <2> SUFFICES ASSUME NEW t \in sent[call[c].update].after, t \notin seen
               PROVE  Cardinality(seen) = n /\ Newer(t, seen) = seen
    BY DEF Shown
  <2>1. t \in Turn /\ turns \subseteq Turn /\ clock \in Nat
    <3>1. sent[call[c].update] \in Message
      BY <1>0, <1>3 DEF ConvTyped
    <3>2. sent[call[c].update].after \subseteq Turn
      BY <3>1 DEF Message
    <3> QED BY <1>0, <3>2 DEF ConvTyped
  <2>2. Held(t)
    BY <1>0, <1>3 DEF Followed
  <2>3. IsFiniteSet(turns) /\ Cardinality(Newer(t, turns)) \in Nat
    BY <1>0, NewerSubset DEF Stamped
  <2>4. n \in Nat /\ MaxTurns \in Nat /\ n <= MaxTurns
    BY ConversationAssumption
  <2>5. Cardinality(Newer(t, turns)) >= n
    <3>1. CASE t \in turns
      <4>1. ~ (Cardinality(Newer(t, turns)) < n)
        BY <3>1 DEF Latest
      <4> QED BY <2>3, <2>4, <4>1
    <3>2. CASE Cardinality(Newer(t, turns)) >= MaxTurns
      BY <2>3, <2>4, <3>2
    <3> QED BY <2>2, <3>1, <3>2 DEF Held
  <2>6. (\A s, r \in turns : s.at = r.at => s = r) /\ \A s \in turns : s.at <= clock
    BY <1>0 DEF Stamped
  <2> QED BY <2>1, <2>3, <2>4, <2>5, <2>6, LatestNewer
<1>10. HistorySound'
  <2>1. HistorySeesAnswered'
    <3> SUFFICES ASSUME NEW d \in Call, call'[d].pc = "model", call'[d].rounds = 0
                 PROVE  \A t \in Sent(d)'.after : Shown(t, call'[d].seen)
      BY DEF HistorySeesAnswered, At, Shown, Newer
    <3>1. CASE d = c
      <4>1. Sent(d)' = sent[call[c].update]
        BY <1>1, <1>3, <3>1 DEF Sent
      <4> QED BY <1>1, <1>9, <3>1, <4>1
    <3>2. CASE d # c
      <4>1. call'[d] = call[d] /\ Sent(d)' = Sent(d)
        BY <1>1, <1>2, <3>2 DEF Sent
      <4> QED BY <1>0, <4>1 DEF HistorySound, HistorySeesAnswered, At
    <3> QED BY <3>1, <3>2
  <2>2. AnsweredKept' /\ TurnsBounded'
    BY <1>0, <1>1 DEF HistorySound, AnsweredKept, TurnsBounded, Kept
  <2> QED BY <2>1, <2>2 DEF HistorySound
<1> QED BY <1>6, <1>7, <1>8, <1>10 DEF TurnInv

(* The new turn is the newest; of the others at most MaxTurns - 1 stay.    *)
LEMMA PersistTurns ==
  ASSUME CallInv, TurnInv, NEW c \in Call, PersistTurn(c)
  PROVE  TurnInv'
<1>0. /\ Stamped /\ Pruned /\ Followed /\ Fitting /\ Recorded /\ ConvTyped /\ Known /\ HistorySound
      /\ turns \subseteq Turn /\ clock \in Nat /\ MaxTurns \in Nat \ {0}
  BY ConversationAssumption DEF TurnInv, CallInv, ConvTyped
<1> SUFFICES ASSUME NEW t, t = NewTurn(c) PROVE TurnInv'
  OBVIOUS
<1> DEFINE gone == Outdated(t)
<1>1. /\ Goes(c, {"pc", "turn", "gone"}) /\ call[c].pc \in {"user turn", "assistant turn"}
      /\ call'[c].pc = "commit" /\ call'[c].turn = t /\ call'[c].gone = gone /\ t \in Turn
      /\ UNCHANGED <<sent, turns, answered>> /\ clock' = clock + 1
  <2>1. UNCHANGED <<sent, turns, answered>> /\ clock' = clock + 1
    BY DEF PersistTurn, inbox, outcome
  <2> QED BY <1>0, <2>1, TurnWritten
<1>2. t.at = clock + 1
  BY DEF NewTurn
<1>2a. t.update = call[c].update /\ (t.role = "user" \/ call[c].pc = "assistant turn")
  <2>1. t.update = call[c].update /\ t.role = Role(c)
    BY DEF NewTurn
  <2>2. Role(c) = "user" \/ call[c].pc = "assistant turn"
    <3>1. CASE call[c].pc = "user turn"
      BY <3>1 DEF Role, At
    <3>2. CASE call[c].pc = "assistant turn"
      BY <3>2
    <3> QED BY <1>1, <3>1, <3>2
  <2> QED BY <2>1, <2>2
<1>3. /\ \A d \in Call \ {c} : call'[d] = call[d]
      /\ ~Committing(c) /\ Committing(c)' /\ call'[c].update = call[c].update
      /\ \A d \in Call \ {c} : Committing(d)' <=> Committing(d)
  BY <1>1 DEF Goes, Alone, Committing, Changes
<1>4. \A d \in Call : Committing(d) => call[d].turn.at \in Nat /\ call[d].turn.at <= clock
  BY <1>0, TurnAt DEF CallInv, Fresh, Committing, Stamped
<1>5. \A s \in turns : s.at \in Nat /\ s.at <= clock
  BY <1>0, TurnAt DEF Stamped
<1>6. Stamped'
  <2>1. \A s \in turns : s.at <= clock + 1 /\ s.at # clock + 1
    BY <1>0, <1>5
  <2>2. \A d \in Call \ {c} : Committing(d) =>
          call[d].turn.at <= clock + 1 /\ call[d].turn.at # clock + 1
    BY <1>0, <1>4
  <2>3. clock + 1 <= clock + 1
    BY <1>0
  <2>4. IsFiniteSet(turns) /\ (\A r, s \in turns : r.at = s.at => r = s)
        /\ \A d, e \in Call : Committing(d) /\ Committing(e) /\ call[d].turn.at = call[e].turn.at
                            => d = e
    BY <1>0 DEF Stamped
  <2>5. \A d \in Call : Committing(d) =>
          call[d].turn.at <= clock /\ \A s \in turns : s.at # call[d].turn.at
    BY <1>0 DEF Stamped
  <2>6. \A d \in Call : Committing(d)' =>
          /\ call'[d].turn.at <= clock + 1
          /\ \A s \in turns : s.at # call'[d].turn.at
    <3>1. \A s \in turns : s.at # t.at
      BY <1>2, <2>1
    <3>2. t.at <= clock + 1
      BY <1>2, <2>3
    <3> QED BY <1>1, <1>3, <2>2, <2>5, <3>1, <3>2
  <2>7. \A d, e \in Call : Committing(d)' /\ Committing(e)'
                         /\ call'[d].turn.at = call'[e].turn.at => d = e
    <3>1. \A d \in Call \ {c} : Committing(d) => call[d].turn.at # t.at
      BY <1>2, <2>2
    <3>2. SUFFICES ASSUME NEW d \in Call, NEW e \in Call, Committing(d)', Committing(e)',
                          call'[d].turn.at = call'[e].turn.at
                   PROVE  d = e
      OBVIOUS
    <3>3. CASE d = c \/ e = c
      BY <1>1, <1>3, <3>1, <3>2, <3>3
    <3>4. CASE d # c /\ e # c
      BY <1>3, <2>4, <3>2, <3>4
    <3> QED BY <3>3, <3>4
  <2>8. \A s \in turns : s.at <= clock + 1
    BY <2>1
  <2> QED BY <1>1, <2>4, <2>6, <2>7, <2>8 DEF Stamped
<1>7. IsFiniteSet(turns) /\ IsFiniteSet(turns \cup {t}) /\ turns \cup {t} \subseteq Turn
  <2>1. IsFiniteSet(turns)
    BY <1>0 DEF Stamped
  <2> QED BY <1>0, <1>1, <2>1, FS_AddElement
<1>8. Pruned'
  <2>1. \A g \in gone : Cardinality(Newer(g, turns \cup {t})) >= MaxTurns
    <3> SUFFICES ASSUME NEW g \in gone PROVE Cardinality(Newer(g, turns \cup {t})) >= MaxTurns
      OBVIOUS
    <3>1. ~ (Cardinality(Newer(g, turns \cup {t})) < MaxTurns)
      BY DEF Outdated, Latest
    <3>2. Cardinality(Newer(g, turns \cup {t})) \in Nat
      BY <1>7, NewerSubset
    <3> QED BY <1>0, <3>1, <3>2
  <2> QED BY <1>0, <1>1, <1>3, <2>1 DEF Pruned, Newer
<1>9. Followed'
  BY <1>0, <1>1 DEF Followed, Held, Newer
<1>10. Fitting'
  <2>1. Cardinality(turns \ gone) <= MaxTurns - 1 /\ Cardinality(turns \ gone) \in Nat
    <3> DEFINE L == Latest(turns \cup {t}, MaxTurns)
    <3>8. \A s \in turns : s.at # t.at /\ ~ (s.at > t.at)
      BY <1>0, <1>2, <1>5
    <3>9. ~ (t.at > t.at)
      BY <1>0, <1>2
    <3>1. \A r, s \in turns \cup {t} : r.at = s.at => r = s
      <4>1. \A r, s \in turns : r.at = s.at => r = s
        BY <1>0 DEF Stamped
      <4> QED BY <3>8, <4>1
    <3>2. Cardinality(L) <= MaxTurns
      BY <1>0, <1>7, <3>1, LatestAtMost
    <3>3. Newer(t, turns \cup {t}) = {}
      <4>1. \A s \in turns \cup {t} : ~ (s.at > t.at)
        BY <3>8, <3>9
      <4> QED BY <4>1 DEF Newer
    <3>4. t \in L
      <4>1. Cardinality(Newer(t, turns \cup {t})) = 0
        BY <3>3, FS_EmptySet
      <4> QED BY <1>0, <4>1 DEF Latest
    <3>5. t \notin turns
      BY <3>8
    <3>6. turns \ gone \subseteq L /\ t \notin turns \ gone /\ IsFiniteSet(L)
      <4>1. L \subseteq turns \cup {t}
        BY DEF Latest
      <4> QED BY <1>7, <3>5, <4>1, Fewer DEF Outdated
    <3>7. Cardinality(turns \ gone) + 1 <= Cardinality(L) /\ Cardinality(turns \ gone) \in Nat
          /\ Cardinality(L) \in Nat
      BY <3>4, <3>6, Fewer
    <3> QED BY <1>0, <3>2, <3>7
  <2>2. \A d \in Call : Cardinality(Beside(d)) \in Nat /\ Cardinality(Beside(d)') \in Nat
    <3>1. \A d \in Call : Beside(d) \subseteq Call /\ Beside(d)' \subseteq Call
      BY DEF Beside
    <3> QED BY <3>1, Finite
  <2>3. Cardinality(turns \ gone) <= (MaxTurns - 1) + Cardinality(Beside(c)')
    BY <1>0, <2>1, <2>2
  <2>4. \A d \in Call \ {c} : Committing(d) => Beside(d)' = Beside(d)
    <3> SUFFICES ASSUME NEW d \in Call \ {c}, Committing(d) PROVE Beside(d)' = Beside(d)
      OBVIOUS
    <3>1. ~ (call'[c].turn.at < call'[d].turn.at)
      <4>1. call[d].turn.at \in Nat /\ call[d].turn.at <= clock
        BY <1>4
      <4>2. ~ (t.at < call[d].turn.at)
        BY <1>0, <1>2, <4>1
      <4> QED BY <1>1, <1>3, <4>2
    <3>2. c \in Beside(d)' /\ c \in Beside(d)
      BY <1>3, <3>1 DEF Beside
    <3>3. \A e \in Call \ {c} : e \in Beside(d)' <=> e \in Beside(d)
      BY <1>3 DEF Beside
    <3>4. Beside(d)' \subseteq Call /\ Beside(d) \subseteq Call
      BY DEF Beside
    <3> QED BY <3>2, <3>3, <3>4
  <2> QED BY <1>0, <1>1, <1>3, <2>3, <2>4 DEF Fitting
<1>11. \A u, r : Kept(u, r)' <=> Kept(u, r)
  BY <1>1 DEF Kept
<1>12. Recorded'
  <2>1. t.role = "user" \/ Kept(call[c].update, "user")
    BY <1>0, <1>2a DEF Recorded
  <2> QED BY <1>0, <1>1, <1>3, <1>11, <1>2a, <2>1 DEF Recorded, Committing
<1>13. HistorySound'
  <2>1. HistorySeesAnswered'
    BY <1>0, <1>1, <1>3, ReadingKept DEF HistorySound
  <2>2. AnsweredKept' /\ TurnsBounded'
    BY <1>0, <1>1, <1>11 DEF HistorySound, AnsweredKept, TurnsBounded
  <2> QED BY <2>1, <2>2 DEF HistorySound
<1> QED BY <1>6, <1>8, <1>9, <1>10, <1>12, <1>13 DEF TurnInv

(* What a turn that is deleted gave, the newer ones give.                  *)
LEMMA CommitTurns ==
  ASSUME CallInv, TurnInv, NEW c \in Call, CommitTurn(c)
  PROVE  TurnInv'
<1> SUFFICES ASSUME NEW p, p = call[c].turn, NEW G, G = call[c].gone PROVE TurnInv'
  OBVIOUS
<1>0. /\ Stamped /\ Pruned /\ Followed /\ Fitting /\ Recorded /\ ConvTyped /\ Known /\ Fresh
      /\ HistorySound /\ turns \subseteq Turn /\ clock \in Nat /\ MaxTurns \in Nat \ {0}
  BY ConversationAssumption DEF TurnInv, CallInv, ConvTyped
<1>1. /\ Goes(c, {"pc", "turn", "gone"}) /\ Committing(c) /\ ~Committing(c)'
      /\ call'[c].pc \in {"assistant turn", "deliver"}
      /\ p \in Turn /\ p.update = call[c].update
  <2>1. Goes(c, {"pc", "turn", "gone"}) /\ call[c].pc = "commit"
        /\ call'[c].pc \in {"assistant turn", "deliver"}
    BY <1>0, TurnCommitted
  <2> QED BY <1>0, <2>1 DEF Committing, Fresh
<1>2. call'[c].pc = "deliver" => p.role # "user"
  BY <1>0, TurnCommitted
<1>3. turns' = (turns \ G) \cup {p} /\ UNCHANGED <<sent, clock, answered>>
  BY DEF CommitTurn, inbox, outcome
<1>4. /\ \A d \in Call \ {c} : call'[d] = call[d] /\ (Committing(d)' <=> Committing(d))
      /\ call'[c].update = call[c].update
  BY <1>1 DEF Goes, Alone, Changes, Committing
<1>5. /\ IsFiniteSet(turns) /\ p.at <= clock
      /\ \A s \in turns : s.at <= clock /\ s.at # p.at
      /\ \A r, s \in turns : r.at = s.at => r = s
      /\ \A d \in Call \ {c} : Committing(d) => call[d].turn.at # p.at
  BY <1>0, <1>1 DEF Stamped
<1>6. IsFiniteSet(turns \ G) /\ IsFiniteSet(turns') /\ turns' \subseteq Turn
  <2>1. IsFiniteSet(turns \ G)
    BY <1>5, FS_Subset
  <2> QED BY <1>0, <1>1, <1>3, <2>1, FS_AddElement
<1>7. ASSUME NEW t \in Turn, NEW E, IsFiniteSet(E),
             Cardinality(Newer(t, turns \cup E)) >= MaxTurns
      PROVE  Cardinality(Newer(t, turns' \cup E)) >= MaxTurns
  <2>1. \A g \in G : Cardinality(Newer(g, turns \cup {p})) >= MaxTurns
    BY <1>0, <1>1 DEF Pruned
  <2>2. MaxTurns \in Nat /\ \A s \in turns : s.at <= clock
    BY <1>0, <1>5
  <2>3. Cardinality(Newer(t, ((turns \ G) \cup {p}) \cup E)) >= MaxTurns
    BY <1>0, <1>1, <1>5, <1>7, <2>1, <2>2, EnoughNewerStay
  <2> QED BY <1>3, <2>3
<1>8. \A g \in G \cap turns : Cardinality(Newer(g, turns')) >= MaxTurns
  <2> SUFFICES ASSUME NEW g \in G \cap turns PROVE Cardinality(Newer(g, turns')) >= MaxTurns
    OBVIOUS
  <2>1. Cardinality(Newer(g, turns \cup {p})) >= MaxTurns /\ g \in Turn /\ IsFiniteSet({p})
    BY <1>0, <1>1, FS_Singleton DEF Pruned
  <2>2. turns' \cup {p} = turns'
    BY <1>3
  <2>3. Cardinality(Newer(g, turns' \cup {p})) >= MaxTurns
    BY <1>7, <2>1
  <2> QED BY <2>2, <2>3
<1>9. \A t \in Turn : Held(t) => t \in turns' \/ Cardinality(Newer(t, turns')) >= MaxTurns
  <2> SUFFICES ASSUME NEW t \in Turn, Held(t), t \notin turns'
               PROVE  Cardinality(Newer(t, turns')) >= MaxTurns
    OBVIOUS
  <2>1. CASE t \in turns
    BY <1>3, <1>8, <2>1
  <2>2. CASE Cardinality(Newer(t, turns)) >= MaxTurns
    <3>1. turns \cup {} = turns /\ turns' \cup {} = turns' /\ IsFiniteSet({})
      BY FS_EmptySet
    <3>2. Cardinality(Newer(t, turns \cup {})) >= MaxTurns
      BY <2>2, <3>1
    <3>3. Cardinality(Newer(t, turns' \cup {})) >= MaxTurns
      BY <1>7, <3>1, <3>2
    <3> QED BY <3>1, <3>3
  <2> QED BY <2>1, <2>2 DEF Held
<1>10. \A u, r : Kept(u, r) => Kept(u, r)'
  <2>1. \A g \in G \cap turns : Cardinality(turns') >= MaxTurns
    <3> SUFFICES ASSUME NEW g \in G \cap turns PROVE Cardinality(turns') >= MaxTurns
      OBVIOUS
    <3>1. Cardinality(Newer(g, turns')) >= MaxTurns
      BY <1>8
    <3>2. Newer(g, turns') \subseteq turns'
      BY DEF Newer
    <3>3. Cardinality(Newer(g, turns')) <= Cardinality(turns')
          /\ Cardinality(turns') \in Nat /\ Cardinality(Newer(g, turns')) \in Nat
      BY <1>6, <3>2, Fewer
    <3> QED BY <1>0, <3>1, <3>3
  <2>2. G \cap turns = {} => Cardinality(turns) <= Cardinality(turns')
                            /\ Cardinality(turns) \in Nat /\ Cardinality(turns') \in Nat
    <3>1. G \cap turns = {} => turns \subseteq turns'
      BY <1>3
    <3> QED BY <1>6, <3>1, Fewer
  <2>3. Cardinality(turns) >= MaxTurns => Cardinality(turns') >= MaxTurns
    BY <1>0, <2>1, <2>2
  <2>4. \A s \in turns : s \in turns' \/ Cardinality(turns') >= MaxTurns
    BY <1>3, <2>1
  <2> QED BY <2>3, <2>4 DEF Kept
<1>11. Stamped'
  <2>1. \A s \in turns' : s \in turns \/ s = p
    BY <1>3
  <2>2. \A s \in turns' : s.at <= clock
    BY <1>5, <2>1
  <2>3. \A r, s \in turns' : r.at = s.at => r = s
    BY <1>5, <2>1
  <2>4. \A d \in Call \ {c} : Committing(d) =>
          call[d].turn.at <= clock /\ \A s \in turns' : s.at # call[d].turn.at
    <3>1. \A d \in Call : Committing(d) =>
            call[d].turn.at <= clock /\ \A s \in turns : s.at # call[d].turn.at
      BY <1>0 DEF Stamped
    <3> QED BY <1>5, <2>1, <3>1
  <2>5. \A d, e \in Call : Committing(d) /\ Committing(e) /\ call[d].turn.at = call[e].turn.at
                           => d = e
    BY <1>0 DEF Stamped
  <2>6. \A d \in Call : Committing(d)' => d # c
    BY <1>1
  <2> QED BY <1>3, <1>4, <1>6, <2>2, <2>3, <2>4, <2>5, <2>6 DEF Stamped
<1>12. Pruned'
  <2> SUFFICES ASSUME NEW d \in Call, Committing(d)', NEW g \in call'[d].gone
               PROVE  Cardinality(Newer(g, turns' \cup {call'[d].turn})) >= MaxTurns
    BY DEF Pruned, Newer
  <2>1. d # c /\ call'[d] = call[d] /\ Committing(d)
    BY <1>1, <1>4
  <2>2. g \in Turn
    <3>1. call[d] \in Handling
      BY <1>0, <2>1, Rows DEF ConvTyped, Committing
    <3> QED BY <2>1, <3>1, HandlingFields
  <2>3. Cardinality(Newer(g, turns \cup {call[d].turn})) >= MaxTurns
    BY <1>0, <2>1 DEF Pruned
  <2> QED BY <1>7, <2>1, <2>2, <2>3, FS_Singleton
<1>13. Followed'
  <2> SUFFICES ASSUME NEW u \in DOMAIN sent, NEW t \in sent[u].after
               PROVE  t \in turns' \/ Cardinality(Newer(t, turns')) >= MaxTurns
    BY <1>3 DEF Followed, Held, Newer
  <2>1. t \in Turn
    <3>1. sent[u] \in Message
      BY <1>0 DEF ConvTyped
    <3>2. sent[u].after \subseteq Turn
      BY <3>1 DEF Message
    <3> QED BY <3>2
  <2> QED BY <1>0, <1>9, <2>1 DEF Followed
<1>14. Cardinality(turns \ G) <= (MaxTurns - 1) + Cardinality(Beside(c))
       /\ Cardinality(turns \ G) \in Nat /\ Cardinality(Beside(c)) \in Nat
  <2>1. Beside(c) \subseteq Call
    BY DEF Beside
  <2>2. Cardinality(turns \ G) <= (MaxTurns - 1) + Cardinality(Beside(c))
    BY <1>0, <1>1 DEF Fitting
  <2>3. Cardinality(turns \ G) \in Nat
    BY <1>6, FS_CardinalityType
  <2> QED BY <2>1, <2>2, <2>3, Finite
<1>15. Fitting'
  <2> SUFFICES ASSUME NEW d \in Call \ {c}, Committing(d)
               PROVE  Cardinality(turns' \ call[d].gone)
                        <= (MaxTurns - 1) + Cardinality(Beside(d)')
    BY <1>1, <1>4 DEF Fitting
  <2> DEFINE kept == turns' \ call[d].gone
             pd == call[d].turn
  <2>1. /\ pd.at \in Nat /\ p.at \in Nat /\ pd.at # p.at
        /\ \A e \in Call : Committing(e) => call[e].turn.at \in Nat
    BY <1>0, <1>1, <1>5, TurnAt DEF Fresh, Committing
  <2>2. Cardinality(kept) \in Nat
    BY <1>6, Fewer
  <2>3. /\ Beside(d) \subseteq Call /\ Beside(d)' \subseteq Call /\ Beside(c) \subseteq Call
        /\ c \in Beside(d)' /\ c \notin Beside(c)
    BY <1>1 DEF Beside
  <2>4. IsFiniteSet(Beside(d)') /\ Cardinality(Beside(d)') \in Nat /\ Cardinality(Beside(d)) \in Nat
    BY <2>3, Finite
  <2>5. \A e \in Call : e \in Beside(d)' <=>
          e # d /\ (e = c \/ ~ (Committing(e) /\ call[e].turn.at < pd.at))
    BY <1>1, <1>4 DEF Beside
  <2>6. CASE pd.at < p.at
    <3>1. Cardinality(kept) <= Cardinality(turns \ G) + 1
      <4>1. kept \subseteq (turns \ G) \cup {p}
        BY <1>3
      <4> QED BY <1>6, <4>1, OneMore
    <3>2. Beside(c) \subseteq Beside(d)'
      <4> SUFFICES ASSUME NEW e \in Beside(c) PROVE e \in Beside(d)'
        OBVIOUS
      <4>1. e \in Call \ {c} /\ ~ (Committing(e) /\ call[e].turn.at < p.at)
        BY DEF Beside
      <4>2. e # d
        BY <2>6, <4>1
      <4>3. ~ (Committing(e) /\ call[e].turn.at < pd.at)
        BY <2>1, <2>6, <4>1
      <4> QED BY <2>5, <4>1, <4>2, <4>3
    <3>3. Cardinality(Beside(c)) + 1 <= Cardinality(Beside(d)')
      BY <2>3, <2>4, <3>2, Fewer
    <3> QED BY <1>0, <1>14, <2>2, <2>4, <3>1, <3>3
  <2>7. CASE p.at < pd.at
    <3>1. Cardinality(kept) <= Cardinality(turns \ call[d].gone) + 1
          /\ Cardinality(turns \ call[d].gone) \in Nat
      <4>1. kept \subseteq (turns \ call[d].gone) \cup {p}
        BY <1>3
      <4>2. IsFiniteSet(turns \ call[d].gone) /\ Cardinality(turns \ call[d].gone) \in Nat
        BY <1>5, Fewer
      <4> QED BY <4>1, <4>2, OneMore
    <3>2. Cardinality(turns \ call[d].gone) <= (MaxTurns - 1) + Cardinality(Beside(d))
      BY <1>0 DEF Fitting
    <3>3. c \notin Beside(d) /\ Beside(d) \subseteq Beside(d)'
      <4>1. c \notin Beside(d)
        BY <1>1, <2>7 DEF Beside
      <4>2. \A e \in Beside(d) : e # d /\ ~ (Committing(e) /\ call[e].turn.at < pd.at)
        BY DEF Beside
      <4> QED BY <2>3, <2>5, <4>1, <4>2
    <3>4. Cardinality(Beside(d)) + 1 <= Cardinality(Beside(d)')
      BY <2>3, <2>4, <3>3, Fewer
    <3> QED BY <1>0, <2>2, <2>4, <3>1, <3>2, <3>4
  <2>8. pd.at < p.at \/ p.at < pd.at
    BY <2>1
  <2> QED BY <2>6, <2>7, <2>8
<1>16. Recorded'
  <2>1. p.role \in {"user", "assistant"} /\ p \in turns'
    BY <1>1, <1>3 DEF Turn
  <2>2. Kept(p.update, p.role)'
    BY <2>1 DEF Kept
  <2>3. p.role = "user" \/ Kept(call[c].update, "user")
    BY <1>0, <1>1 DEF Recorded
  <2>4. call'[c].pc = "assistant turn" => p.role = "user"
    BY <1>0, TurnCommitted
  <2>5. \A d \in Call \ {c} :
          /\ call[d].pc = "assistant turn" => Kept(call[d].update, "user")
          /\ Committing(d) => call[d].turn.role = "user" \/ Kept(call[d].update, "user")
          /\ call[d].pc = "deliver" /\ call[d].reply = "reply" =>
               Kept(call[d].update, "user") /\ Kept(call[d].update, "assistant")
    BY <1>0 DEF Recorded
  <2> DEFINE Has(u, r) == (\E s \in turns' : s.update = u /\ s.role = r)
                          \/ Cardinality(turns') >= MaxTurns
  <2>6. \A u, r : Kept(u, r)' <=> Has(u, r)
    BY DEF Kept
  <2>7. /\ call'[c].pc = "assistant turn" => Has(call[c].update, "user")
        /\ call'[c].pc = "deliver" =>
             Has(call[c].update, "user") /\ Has(call[c].update, "assistant")
    <3> HIDE DEF Has
    <3>1. Has(call[c].update, p.role)
      BY <1>1, <2>2, <2>6
    <3>2. p.role = "user" \/ Has(call[c].update, "user")
      BY <1>10, <2>3, <2>6
    <3> QED BY <1>2, <2>1, <2>4, <3>1, <3>2
  <2>8. \A d \in Call \ {c} :
          /\ call'[d].pc = "assistant turn" => Has(call'[d].update, "user")
          /\ Committing(d) => call'[d].turn.role = "user" \/ Has(call'[d].update, "user")
          /\ call'[d].pc = "deliver" /\ call'[d].reply = "reply" =>
               Has(call'[d].update, "user") /\ Has(call'[d].update, "assistant")
    <3> HIDE DEF Has
    <3>1. \A u, r : Kept(u, r) => Has(u, r)
      BY <1>10, <2>6
    <3> QED BY <1>4, <2>5, <3>1
  <2>9. \A d \in Call :
          /\ call'[d].pc = "assistant turn" => Has(call'[d].update, "user")
          /\ Committing(d)' => call'[d].turn.role = "user" \/ Has(call'[d].update, "user")
          /\ call'[d].pc = "deliver" /\ call'[d].reply = "reply" =>
               Has(call'[d].update, "user") /\ Has(call'[d].update, "assistant")
    <3> HIDE DEF Has
    <3> QED BY <1>1, <1>4, <2>7, <2>8
  <2> QED BY <2>9 DEF Recorded, Kept
<1>17. HistorySound'
  <2>1. HistorySeesAnswered'
    BY <1>0, <1>1, <1>3, <1>4, ReadingKept DEF HistorySound
  <2>2. AnsweredKept'
    BY <1>0, <1>3, <1>10 DEF HistorySound, AnsweredKept
  <2>3. TurnsBounded'
    <3>1. Cardinality(turns') <= Cardinality(turns \ G) + 1 /\ Cardinality(turns') \in Nat
      <4>1. turns' \subseteq (turns \ G) \cup {p}
        BY <1>3
      <4> QED BY <1>6, <4>1, OneMore, Fewer
    <3>2. Beside(c) \subseteq Call /\ c \notin Beside(c)
      BY DEF Beside
    <3>3. IsFiniteSet(Call) /\ Cardinality(Call) \in Nat
      BY Finite
    <3>4. Cardinality(Beside(c)) + 1 <= Cardinality(Call)
      BY <3>2, <3>3, Fewer
    <3> QED BY <1>0, <1>14, <3>1, <3>3, <3>4 DEF TurnsBounded
  <2> QED BY <2>1, <2>2, <2>3 DEF HistorySound
<1> QED BY <1>11, <1>12, <1>13, <1>15, <1>16, <1>17 DEF TurnInv

(* Whatever a call does, the stored turns hold what histories need.        *)
LEMMA TurnNext ==
  ASSUME CallInv, Linked, TurnInv, [Next]_vars PROVE TurnInv'
<1>0. ConvTyped /\ Fresh /\ Recorded
  BY DEF CallInv, TurnInv
<1>1. ASSUME NEW c \in Call, GoesOn(c) PROVE TurnInv'
  <2>1. /\ Goes(c, {"pc"}) /\ UNCHANGED <<inflow, turns, clock, outcome>>
        /\ call'[c].pc \in {"transcribe", "user", "create", "route", "onboard", "user turn"}
    BY <1>0, <1>1, EarlyStep DEF GoesOn
  <2>2. UNCHANGED <<sent, turns, clock, answered>> /\ \A d \in Call \ {c} : call'[d] = call[d]
    BY <2>1 DEF inflow, outcome, Goes, Alone
  <2> QED BY <2>1, <2>2, TurnsStay
<1>2. ASSUME NEW c \in Call, Replies(c), call[c].pc # "idle" PROVE TurnInv'
  <2>1. /\ Goes(c, {"pc", "reply", "turn", "gone", "seen"})
        /\ UNCHANGED <<inflow, turns, clock, outcome>>
        /\ call'[c].pc = "deliver" /\ call'[c].reply # "reply"
    BY <1>0, <1>2, ReplyStep DEF Replies
  <2>2. UNCHANGED <<sent, turns, clock, answered>> /\ \A d \in Call \ {c} : call'[d] = call[d]
    BY <2>1 DEF inflow, outcome, Goes, Alone
  <2> QED BY <2>1, <2>2, TurnsStay
<1>3. ASSUME NEW c \in Call, Closes(c) PROVE TurnInv'
  <2>1. Ends(c) /\ UNCHANGED <<inflow, turns, clock>>
    BY <1>0, <1>3, EndStep DEF Closes
  <2>2. UNCHANGED <<sent, turns, clock>> /\ call'[c].pc = "idle"
        /\ \A d \in Call \ {c} : call'[d] = call[d]
    BY <2>1, Rows DEF inflow, Ends, Alone
  <2>3. \/ UNCHANGED answered
        \/ /\ answered' = [answered EXCEPT ![call[c].update] = @ \cup {call[c].reply}]
           /\ call[c].pc = "deliver"
    BY <1>0, <1>3, EndStep DEF Closes
  <2>4. \A u \in Update : "reply" \in answered'[u] =>
          "reply" \in answered[u] \/ (Kept(u, "user") /\ Kept(u, "assistant"))
    <3> SUFFICES ASSUME NEW u \in Update, "reply" \in answered'[u], "reply" \notin answered[u]
                 PROVE  Kept(u, "user") /\ Kept(u, "assistant")
      OBVIOUS
    <3>1. u = call[c].update /\ call[c].pc = "deliver" /\ call[c].reply = "reply"
      BY <1>0, <2>3 DEF ConvTyped
    <3> QED BY <1>0, <3>1 DEF Recorded
  <2> QED BY <2>2, <2>4, TurnsStay
<1>4. ASSUME NEW c \in Call, AddRow(c) \/ OtherTool(c) PROVE TurnInv'
  <2>1. UNCHANGED <<sent, turns, clock, answered>>
    BY <1>4 DEF AddRow, OtherTool, inbox, record, outcome
  <2>2. Goes(c, {"did", "rounds", "seen"}) /\ call[c].pc = "model" /\ call'[c].rounds # 0
    <3>1. CASE AddRow(c)
      BY <1>0, <3>1, RowAdded
    <3>2. CASE OtherTool(c)
      <4>1. Goes(c, {"rounds", "seen"}) /\ call[c].pc = "model" /\ call'[c].rounds # 0
        BY <1>0, <3>2, ToolRan
      <4> QED BY <4>1, Zenon DEF Goes, Changes
    <3> QED BY <1>4, <3>1, <3>2
  <2>3. call'[c].pc = "model" /\ \A d \in Call \ {c} : call'[d] = call[d]
    BY <2>2 DEF Goes, Alone, Changes
  <2> QED BY <2>1, <2>2, <2>3, TurnsStay
<1>5. ASSUME NEW c \in Call, Compose(c) PROVE TurnInv'
  <2>1. UNCHANGED <<sent, turns, clock, answered>>
    BY <1>5 DEF Compose, inbox, record, outcome
  <2>2. Goes(c, {"pc", "seen"}) /\ call'[c].pc = "user turn"
    BY <1>0, <1>5, Composed
  <2>3. \A d \in Call \ {c} : call'[d] = call[d]
    BY <2>2 DEF Goes, Alone
  <2> QED BY <2>1, <2>2, <2>3, TurnsStay
<1>6. ASSUME NEW c \in Call, NEW u \in Update, NEW v \in Update, Deliver(c, u, v)
      PROVE  TurnInv'
  <2>1. Alone(c) /\ call'[c].pc = "acquire" /\ UNCHANGED <<sent, turns, clock, answered>>
    BY <1>0, <1>6, DeliverStep, Zenon
  <2>2. \A d \in Call \ {c} : call'[d] = call[d]
    BY <2>1 DEF Alone
  <2> QED BY <2>1, <2>2, TurnsStay
<1>7. CASE Crash
  <2>1. UNCHANGED <<sent, turns, clock, answered>> /\ \A d \in Call : call'[d].pc = "idle"
    BY <1>0, <1>7, CrashStep
  <2> QED BY <2>1, TurnsStay
<1>8. CASE UNCHANGED <<inbox, call, record, outcome>>
  <2>1. UNCHANGED <<sent, turns, clock, answered, call>>
    BY <1>8 DEF inbox, record, outcome
  <2> QED BY <2>1, TurnsStay
<1> QED BY <1>0, <1>1, <1>2, <1>3, <1>4, <1>5, <1>6, <1>7, <1>8, Cases, SendTurns,
           ReadHistoryTurns, PersistTurns, CommitTurns

-----------------------------------------------------------------------------
(* All of it together. *)

ConvInv == OnbInv /\ CallInv /\ Linked /\ RowsBacked /\ TurnInv

LEMMA ConvInit == Init => ConvInv
<1> SUFFICES ASSUME Init PROVE ConvInv
  OBVIOUS
<1>1. /\ \A c \in Call : call[c] = NoCall /\ call[c].pc = "idle"
      /\ call \in [Call -> Row]
  <2>1. call = [c \in Call |-> NoCall] /\ NoCall \in Row /\ NoCall.pc = "idle"
    BY Rows DEF Init, Row
  <2> HIDE DEF NoCall, Row
  <2> QED BY <2>1
<1>2. /\ sent = <<>> /\ sent \in Seq(Message) /\ DOMAIN sent = {} /\ Len(sent) = 0
      /\ turns = {} /\ clock = 0 /\ processed = {} /\ lost = {} /\ faults = 0
      /\ \A u \in Update : deliveries[u] = 0 /\ answered[u] = {}
      /\ \A w \in Wish : added[w] = 0
      /\ deliveries \in [Update -> Nat] /\ answered \in [Update -> SUBSET Reply]
      /\ added \in [Wish -> Nat]
  BY DEF Init
<1>3. ConvTyped
  BY <1>1, <1>2, ConversationAssumption DEF ConvTyped
<1>4. CallInv
  <2>1. Known /\ Remembered
    BY <1>1, <1>2 DEF Known, Remembered
  <2>2. Fresh
    BY <1>1 DEF Fresh, BeforeModel
  <2> QED BY <1>3, <2>1, <2>2 DEF CallInv
<1>5. Linked
  <2>1. onb = [c \in Call |-> Idle] /\ Idle.pc = "idle"
    BY OnbIdle DEF Init, OnboardingInit
  <2> QED BY <2>1 DEF Linked
<1>6. RowsBacked
  <2> SUFFICES ASSUME NEW w \in Wish PROVE Backed(w)
    BY DEF RowsBacked
  <2>1. MayAdd(w) = {} /\ Open(w) = {} /\ lost \cap Updates(w) = {}
    BY <1>1, <1>2 DEF MayAdd, Open, Updates
  <2>2. OneToGive(w) \in {0, 1}
    BY DEF OneToGive
  <2>3. /\ Cardinality(MayAdd(w)) = 0 /\ Cardinality(Open(w)) = 0
        /\ Cardinality(lost \cap Updates(w)) = 0 /\ added[w] = 0 /\ faults = 0
    BY <1>2, <2>1, FS_EmptySet
  <2> QED BY <2>2, <2>3 DEF Backed
<1>7. TurnInv
  <2>1. \A c \in Call : ~Committing(c)
    BY <1>1 DEF Committing
  <2>2. Stamped /\ Pruned /\ Followed /\ Fitting /\ Recorded
    BY <1>1, <1>2, <2>1, FS_EmptySet DEF Stamped, Pruned, Followed, Fitting, Recorded
  <2>3. HistorySeesAnswered /\ AnsweredKept
    BY <1>1, <1>2 DEF HistorySeesAnswered, At, AnsweredKept
  <2>4. TurnsBounded
    <3>1. Cardinality(Call) \in Nat /\ Cardinality(turns) = 0 /\ MaxTurns \in Nat \ {0}
      BY <1>2, Finite, FS_EmptySet, ConversationAssumption
    <3> QED BY <3>1 DEF TurnsBounded
  <2> QED BY <2>2, <2>3, <2>4 DEF TurnInv, HistorySound
<1> QED BY <1>4, <1>5, <1>6, <1>7, OnbInit DEF ConvInv

LEMMA ConvBacked == Spec => []ConvInv
<1>1. ASSUME ConvInv, [Next]_vars PROVE ConvInv'
  <2>1. OnbInv' /\ CallInv'
    BY <1>1, OnbNext, CallNext DEF ConvInv
  <2>2. Linked'
    BY <1>1, LinkedNext DEF ConvInv, CallInv
  <2>3. RowsBacked' /\ TurnInv'
    BY <1>1, <2>1, RowsNext, TurnNext DEF ConvInv
  <2> QED BY <2>1, <2>2, <2>3 DEF ConvInv
<1> QED BY <1>1, ConvInit, PTL DEF Spec

(* Set up without a failure, the user has every answer and the daily       *)
(* check-in, and one of them unless two calls looked for it at once.       *)
THEOREM SetUpSoundHolds == Spec => []SetUpSound
<1>1. ConvInv => TypeOK
  BY DEF ConvInv, OnbInv, CallInv, ConvTyped, Row, TypeOK
<1>2. ConvInv => SetUpHasDaily
  <2> SUFFICES ASSUME ConvInv, user.state = "COMPLETED", faults = 0, \A c \in Call : ~Handles(c)
               PROVE  daily > 0
    BY DEF SetUpHasDaily
  <2>1. \A c \in Call : onb[c].pc \notin {"look", "insert"}
    BY DEF Handles, OnbAt
  <2> QED BY <2>1 DEF ConvInv, OnbInv, DailyComes
<1> QED BY <1>1, <1>2, ConvBacked, CompletedHasAllHolds, OneDailyTaskHolds, PTL DEF SetUpSound

(* What the user saw answered is in the history the model is given, or     *)
(* newer turns fill it; an answered message is stored with its reply; and  *)
(* the turns stay within what is kept and one for each other call.         *)
THEOREM HistorySoundHolds == Spec => []HistorySound
<1>1. ConvInv => HistorySound
  BY DEF ConvInv, TurnInv
<1> QED BY <1>1, ConvBacked, PTL

(* Tools add a wish's row once, and once more for each failure and each    *)
(* update of it that was dropped.                                          *)
THEOREM RowsPaidHolds == Spec => []RowsPaid
<1>1. ConvInv => RowsPaid
  <2> SUFFICES ASSUME ConvInv, NEW w \in Wish
               PROVE  added[w] <= 1 + faults + Cardinality(lost \cap Updates(w))
    BY DEF RowsPaid
  <2>1. CallInv /\ Backed(w)
    BY DEF ConvInv, RowsBacked
  <2> HIDE DEF CallInv
  <2>2. /\ added[w] \in Nat /\ faults \in Nat /\ OneToGive(w) \in {0, 1}
        /\ Cardinality(MayAdd(w)) \in Nat /\ Cardinality(Open(w)) \in Nat
        /\ Cardinality(lost \cap Updates(w)) \in Nat
    BY <2>1, Sizes
  <2> QED BY <2>1, <2>2 DEF Backed
<1> QED BY <1>1, ConvBacked, PTL

(* An update that was delivered is being handled, was answered, or was     *)
(* lost to a failure or the parser.                                        *)
THEOREM NothingForgottenHolds == Spec => []NothingForgotten
<1>1. ConvInv => NothingForgotten
  BY DEF ConvInv, CallInv, Remembered, NothingForgotten
<1> QED BY <1>1, ConvBacked, PTL
=============================================================================
