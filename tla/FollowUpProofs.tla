--------------------------- MODULE FollowUpProofs ---------------------------
(***************************************************************************)
(* Proofs about FollowUps, for any number of follow-ups, overlapping       *)
(* calls, answers and faults.                                              *)
(*                                                                         *)
(* OneTaker: the key of an attempt is free until one call takes it, and is *)
(* never free again; only who took it asks, and then has asked.  What the  *)
(* user answers, and what the scanner enqueues meanwhile, changes which    *)
(* attempts are tried and not who may ask.                                 *)
(*                                                                         *)
(* Backed: markDelivered counts without looking, so the calls that have    *)
(* asked and are about to count are counted with the attempts.             *)
(*                                                                         *)
(* Loaded: what may still count an attempt of a follow-up - the scanner's  *)
(* batch, a job that can be claimed, the calls at work - is one job and    *)
(* one place in a batch, and one more for each fault.                      *)
(***************************************************************************)
EXTENDS FollowUps, FiniteSetTheorems, TLAPS

Outcome == {"pending", "delivered", "deferred"}
FollowUpRow == [status : Open \cup {"none", "COMPLETED", "NOT_YET", "CANCELLED"},
                tries : Nat, due : BOOLEAN]
JobRow == [status : {"none", "pending", "active"}, attempts : Nat]
Place == {"idle", "reading", "cancelling", "deciding", "deferring", "reserving",
          "delivering", "recording", "marking", "completing", "failing"}
Dispatch == [pc : Place, fu : FollowUp, try : Nat, mine : BOOLEAN]

(* TypeOK, by these names.                                                 *)
Rows == fu \in [FollowUp -> FollowUpRow] /\ job \in [FollowUp -> JobRow]
Calls == call \in [Call -> Dispatch]
Tables ==
  /\ DOMAIN dedup \subseteq Keys /\ dedup \in [DOMAIN dedup -> Outcome]
  /\ DOMAIN dispatched \subseteq Keys /\ dispatched \in [DOMAIN dispatched -> Nat]
Counters ==
  /\ task \in {"open", "done", "missed"} /\ held \in BOOLEAN /\ scanned \subseteq FollowUp
  /\ replies \in 0..MaxReplies /\ holds \in 0..MaxHolds /\ faults \in 0..MaxFaults

LEMMA Named == TypeOK <=> Rows /\ Calls /\ Tables /\ Counters
BY DEF TypeOK, Rows, Calls, Tables, Counters, Outcome, FollowUpRow, JobRow, Place, Dispatch

-----------------------------------------------------------------------------
(* Types. *)

(* A call of which the place or the key changes.                           *)
LEMMA Placed ==
  \A r \in Dispatch, pc \in Place :
    /\ [r EXCEPT !.pc = pc] \in Dispatch /\ [r EXCEPT !.pc = pc].pc = pc
    /\ [r EXCEPT !.pc = pc].fu = r.fu /\ [r EXCEPT !.pc = pc].try = r.try
    /\ [r EXCEPT !.pc = pc].mine = r.mine
<1> SUFFICES ASSUME NEW r \in Dispatch, NEW b \in BOOLEAN, r.mine = b, NEW pc \in Place
             PROVE  /\ [r EXCEPT !.pc = pc] \in Dispatch /\ [r EXCEPT !.pc = pc].pc = pc
                    /\ [r EXCEPT !.pc = pc].fu = r.fu /\ [r EXCEPT !.pc = pc].try = r.try
                    /\ [r EXCEPT !.pc = pc].mine = r.mine
  BY DEF Dispatch
<1> QED BY SMT DEF Dispatch, Place

LEMMA Tried ==
  \A r \in Dispatch, n \in Nat :
    /\ [r EXCEPT !.try = n] \in Dispatch /\ [r EXCEPT !.try = n].pc = r.pc
    /\ [r EXCEPT !.try = n].fu = r.fu /\ [r EXCEPT !.try = n].mine = r.mine
<1> SUFFICES ASSUME NEW r \in Dispatch, NEW b \in BOOLEAN, r.mine = b, NEW n \in Nat
             PROVE  /\ [r EXCEPT !.try = n] \in Dispatch /\ [r EXCEPT !.try = n].pc = r.pc
                    /\ [r EXCEPT !.try = n].fu = r.fu /\ [r EXCEPT !.try = n].mine = r.mine
  BY DEF Dispatch
<1> QED BY SMT DEF Dispatch, Place

(* A call that goes on keeps its follow-up, its key and its mark.          *)
LEMMA Moves ==
  ASSUME Calls, NEW c \in Call, NEW pc \in Place, call' = [call EXCEPT ![c].pc = pc]
  PROVE  /\ Calls' /\ call'[c].pc = pc
         /\ call'[c].fu = call[c].fu /\ call'[c].try = call[c].try
         /\ call'[c].mine = call[c].mine
         /\ \A d \in Call \ {c} : call'[d] = call[d]
<1>1. LET r == call[c]
      IN  /\ [r EXCEPT !.pc = pc] \in Dispatch /\ [r EXCEPT !.pc = pc].pc = pc
          /\ [r EXCEPT !.pc = pc].fu = r.fu /\ [r EXCEPT !.pc = pc].try = r.try
          /\ [r EXCEPT !.pc = pc].mine = r.mine
  BY Placed DEF Calls
<1>2. call[c] \in Dispatch /\ call' = [call EXCEPT ![c] = [call[c] EXCEPT !.pc = pc]]
  BY DEF Calls
<1> QED BY <1>1, <1>2 DEF Calls

(* The call becomes another one, of this follow-up or idle.                *)
LEMMA Replaced ==
  ASSUME Calls, NEW c \in Call, NEW r \in Dispatch, call' = [call EXCEPT ![c] = r]
  PROVE  Calls' /\ call'[c] = r /\ \A d \in Call \ {c} : call'[d] = call[d]
<1> HIDE DEF Dispatch
<1> QED BY DEF Calls

LEMMA IdleTyped == Idle \in Dispatch /\ Idle.pc = "idle"
<1>1. (CHOOSE f \in FollowUp : TRUE) \in FollowUp
  BY BoundsAssumption
<1> QED BY <1>1 DEF Idle, Dispatch, Place

(* Only the mark of a call changes. *)
LEMMA Marks ==
  ASSUME NEW r \in Dispatch, NEW b \in BOOLEAN
  PROVE  /\ [r EXCEPT !.mine = b] \in Dispatch
         /\ [r EXCEPT !.mine = b].pc = r.pc
         /\ [r EXCEPT !.mine = b].fu = r.fu
         /\ [r EXCEPT !.mine = b].try = r.try
         /\ [r EXCEPT !.mine = b].mine = b
BY SMT DEF Dispatch

(* A row of which the status, the count or the date changes.              *)
Status == Open \cup {"none", "COMPLETED", "NOT_YET", "CANCELLED"}

LEMMA Restated ==
  \A r \in FollowUpRow, s \in {"SCHEDULED", "WAITING_FOR_RESPONSE", "COMPLETED", "NOT_YET", "CANCELLED"} :
    /\ [r EXCEPT !.status = s] \in FollowUpRow
    /\ [r EXCEPT !.status = s].tries = r.tries
<1> SUFFICES ASSUME NEW r \in FollowUpRow, NEW b \in BOOLEAN, r.due = b, NEW s \in Status
             PROVE  [r EXCEPT !.status = s] \in FollowUpRow /\ [r EXCEPT !.status = s].tries = r.tries
  BY DEF FollowUpRow, Status, Open
<1> QED BY SMT DEF FollowUpRow, Status, Open

LEMMA Dated ==
  \A r \in FollowUpRow, b \in BOOLEAN :
    [r EXCEPT !.due = b] \in FollowUpRow /\ [r EXCEPT !.due = b].tries = r.tries
<1> SUFFICES ASSUME NEW r \in FollowUpRow, NEW b \in BOOLEAN
             PROVE  [r EXCEPT !.due = b] \in FollowUpRow /\ [r EXCEPT !.due = b].tries = r.tries
  OBVIOUS
<1> QED BY SMT DEF FollowUpRow

LEMMA Counted ==
  \A r \in FollowUpRow : /\ [r EXCEPT !.tries = r.tries + 1] \in FollowUpRow
                         /\ [r EXCEPT !.tries = r.tries + 1].tries = r.tries + 1
<1> SUFFICES ASSUME NEW r \in FollowUpRow, NEW b \in BOOLEAN, r.due = b, NEW n \in Nat
             PROVE  [r EXCEPT !.tries = n] \in FollowUpRow /\ [r EXCEPT !.tries = n].tries = n
  <2>1. \A r1 \in FollowUpRow : r1.due \in BOOLEAN /\ r1.tries + 1 \in Nat
    BY DEF FollowUpRow
  <2> HIDE DEF FollowUpRow
  <2> QED BY <2>1
<1> QED BY SMT DEF FollowUpRow

(* A key more, or a key rewritten.                                         *)
LEMMA NewKey ==
  ASSUME Tables, NEW k \in Keys, NEW v \in Outcome, dedup' = Put(dedup, k, v),
         dispatched' = dispatched
  PROVE  Tables' /\ DOMAIN dedup' = DOMAIN dedup \cup {k}
<1>1. /\ DOMAIN Put(dedup, k, v) = DOMAIN dedup \cup {k}
      /\ Put(dedup, k, v) \in [DOMAIN dedup \cup {k} -> Outcome]
  BY DEF Put, Tables
<1> QED BY <1>1 DEF Tables

(* handleResponse: whatever was answered, the rows stay rows and no count  *)
(* of attempts grows.                                                      *)
LEMMA ResponseTyped ==
  ASSUME Rows, NEW f \in FollowUp, NEW intent \in Intents
  PROVE  /\ AfterIntent(f, intent) \in [FollowUp -> FollowUpRow]
         /\ \A g \in FollowUp : AfterIntent(f, intent)[g].tries <= fu[g].tries
<1>0. /\ \A r \in FollowUpRow : r.tries \in Nat
      /\ \A g \in FollowUp : fu[g] \in FollowUpRow
  BY DEF Rows, FollowUpRow
<1>1. CASE intent = "completed"
  <2> DEFINE new(g) == IF g = f THEN [fu[g] EXCEPT !.status = "COMPLETED"]
                       ELSE IF fu[g].status \in Open THEN [fu[g] EXCEPT !.status = "CANCELLED"]
                       ELSE fu[g]
  <2>1. AfterIntent(f, intent) = [g \in FollowUp |-> new(g)]
    BY <1>1 DEF AfterIntent
  <2>2. \A g \in FollowUp : new(g) \in FollowUpRow /\ new(g).tries = fu[g].tries
    BY <1>0, Restated
  <2> HIDE DEF new
  <2> QED BY <1>0, <2>1, <2>2
<1>2. CASE intent = "not_yet"
  <2> DEFINE new == [fu[f] EXCEPT !.status = "NOT_YET"]
  <2>1. AfterIntent(f, intent) = [fu EXCEPT ![f] = new]
    BY <1>2 DEF AfterIntent
  <2>2. new \in FollowUpRow /\ new.tries = fu[f].tries
    BY <1>0, Restated
  <2> HIDE DEF new
  <2> QED BY <1>0, <2>1, <2>2 DEF Rows
<1>3. CASE intent = "reschedule"
  <2> DEFINE new == [status |-> "SCHEDULED", tries |-> 0, due |-> FALSE]
  <2>1. AfterIntent(f, intent) = [fu EXCEPT ![f] = new]
    BY <1>3 DEF AfterIntent
  <2>2. new \in FollowUpRow /\ new.tries = 0
    BY DEF FollowUpRow, Open
  <2> HIDE DEF new
  <2> QED BY <1>0, <2>1, <2>2 DEF Rows
<1>4. CASE intent = "snooze"
  <2> DEFINE new == [[fu[f] EXCEPT !.status = "SCHEDULED"] EXCEPT !.due = FALSE]
  <2>1. AfterIntent(f, intent) = [fu EXCEPT ![f] = new]
    BY <1>4 DEF AfterIntent, Rows
  <2>2. new \in FollowUpRow /\ new.tries = fu[f].tries
    BY <1>0, Restated, Dated
  <2> HIDE DEF new
  <2> QED BY <1>0, <2>1, <2>2 DEF Rows
<1>5. CASE intent = "cancelled"
  <2> DEFINE new == [fu[f] EXCEPT !.status = "CANCELLED"]
  <2>1. AfterIntent(f, intent) = [fu EXCEPT ![f] = new]
    BY <1>5 DEF AfterIntent
  <2>2. new \in FollowUpRow /\ new.tries = fu[f].tries
    BY <1>0, Restated
  <2> HIDE DEF new
  <2> QED BY <1>0, <2>1, <2>2 DEF Rows
<1> QED BY <1>1, <1>2, <1>3, <1>4, <1>5 DEF Intents

(* markDelivered leaves a row of the table, with one attempt more.         *)
LEMMA MarkedTyped ==
  ASSUME Rows, Calls, NEW c \in Call
  PROVE  /\ Marked(c) \in [FollowUp -> FollowUpRow]
         /\ Marked(c)[call[c].fu].tries = fu[call[c].fu].tries + 1
         /\ \A g \in FollowUp \ {call[c].fu} : Marked(c)[g] = fu[g]
<1>1. call[c].fu \in FollowUp
  BY DEF Calls, Dispatch
<1>2. fu[call[c].fu] \in FollowUpRow
  BY <1>1 DEF Rows
<1> DEFINE waiting == [fu[call[c].fu] EXCEPT !.status = "WAITING_FOR_RESPONSE"]
           row == [waiting EXCEPT !.tries = waiting.tries + 1]
<1>3. waiting \in FollowUpRow /\ waiting.tries = fu[call[c].fu].tries
  BY <1>2, Restated
<1>4. row \in FollowUpRow /\ row.tries = fu[call[c].fu].tries + 1
  <2> HIDE DEF waiting
  <2> QED BY <1>3, Counted
<1>5. Marked(c) = [fu EXCEPT ![call[c].fu] = row]
  BY <1>1, <1>3 DEF Marked, Rows
<1> HIDE DEF row, waiting, FollowUpRow
<1> QED BY <1>1, <1>4, <1>5 DEF Rows

-----------------------------------------------------------------------------
(* The inductive invariant. *)

(* Who took a key is the only one who asks, once.                          *)
Delivering(c, k) == At(c, "delivering") /\ Key(c) = k

OneTaker ==
  /\ \A k \in DOMAIN dispatched : dispatched[k] = 1 /\ ~FreeKey(k)
  /\ \A k \in Keys, c \in Call : Delivering(c, k) => ~FreeKey(k) /\ k \notin DOMAIN dispatched
  /\ \A k \in Keys, c, d \in Call : Delivering(c, k) /\ Delivering(d, k) => c = d

(* Calls that have asked and have not yet counted it.                      *)
Counts(r, f) == r.pc \in {"recording", "marking"} /\ r.fu = f
Marking(f) == {c \in Call : Counts(call[c], f)}

Backed ==
  /\ IsFiniteSet(DOMAIN dispatched)
  /\ \A f \in FollowUp : fu[f].tries + Cardinality(Marking(f)) <= Asked(f)

(* Calls that work on a follow-up; who holds its job, and is done with it. *)
Works(r, f)   == r.pc \notin {"idle", "completing"} /\ r.fu = f
Holds(r, f)   == r.pc # "idle" /\ r.fu = f /\ r.mine
Settles(r, f) == Holds(r, f) /\ r.pc = "completing"

Working(f) == {c \in Call : Works(call[c], f)}
Live(f)    == IF \/ job[f].status = "pending"
                 \/ job[f].status = "active" /\ \A c \in Call : ~Holds(call[c], f)
              THEN 1 ELSE 0
Load(f)    == Live(f) + Cardinality(Working(f))
Batch(f)   == IF f \in scanned THEN 1 ELSE 0
Settled(f) == job[f].status = "none" \/ \E c \in Call : Settles(call[c], f)

Loaded ==
  \A f \in FollowUp :
    /\ Load(f) <= 1 + faults
    /\ Settled(f) => Load(f) <= faults
    /\ fu[f].tries + Batch(f) + Load(f) <= MaxTries + 1 + faults

IndInv == TypeOK /\ OneTaker /\ Backed /\ Loaded

-----------------------------------------------------------------------------
(* Calls move one at a time. *)

LEMMA FiniteParts == ASSUME NEW f \in FollowUp PROVE IsFiniteSet(Working(f)) /\ IsFiniteSet(Marking(f))
<1>1. Working(f) \subseteq Call /\ Marking(f) \subseteq Call
  BY DEF Working, Marking
<1> QED BY <1>1, FS_Subset, BoundsAssumption

LEMMA PartSizes ==
  ASSUME NEW f \in FollowUp
  PROVE  Cardinality(Working(f)) \in Nat /\ Cardinality(Marking(f)) \in Nat
BY FiniteParts, FS_CardinalityType

(* Where one call moves, the sets of calls gain or lose it.                *)
LEMMA OneMoves ==
  ASSUME NEW c \in Call, NEW f \in FollowUp, \A d \in Call \ {c} : call'[d] = call[d]
  PROVE  /\ Cardinality(Working(f)') = Cardinality(Working(f))
                + (IF Works(call'[c], f) THEN 1 ELSE 0) - (IF Works(call[c], f) THEN 1 ELSE 0)
         /\ Cardinality(Marking(f)') = Cardinality(Marking(f))
                + (IF Counts(call'[c], f) THEN 1 ELSE 0) - (IF Counts(call[c], f) THEN 1 ELSE 0)
<1>1. ASSUME NEW S, NEW T, IsFiniteSet(S), S \ {c} = T \ {c}
      PROVE  Cardinality(T) = Cardinality(S) + (IF c \in T THEN 1 ELSE 0) - (IF c \in S THEN 1 ELSE 0)
  <2>1. CASE c \in S /\ c \notin T
    <3>1. T = S \ {c}
      BY <1>1, <2>1
    <3>2. Cardinality(S) \in Nat /\ Cardinality(S \ {c}) = Cardinality(S) - 1
      BY <1>1, <2>1, FS_RemoveElement, FS_CardinalityType
    <3> QED BY <2>1, <3>1, <3>2
  <2>2. CASE c \in T /\ c \notin S
    <3>1. T = S \cup {c}
      BY <1>1, <2>2
    <3>2. Cardinality(S) \in Nat /\ Cardinality(S \cup {c}) = Cardinality(S) + 1
      BY <1>1, <2>2, FS_AddElement, FS_CardinalityType
    <3> QED BY <2>2, <3>1, <3>2
  <2>3. CASE c \in S <=> c \in T
    <3>1. T = S
      BY <1>1, <2>3
    <3> QED BY <1>1, <2>3, <3>1, FS_CardinalityType
  <2> QED BY <2>1, <2>2, <2>3
<1>2. /\ Working(f) \ {c} = Working(f)' \ {c}
      /\ Marking(f) \ {c} = Marking(f)' \ {c}
  BY DEF Working, Marking
<1>3. /\ (c \in Working(f) <=> Works(call[c], f)) /\ (c \in Working(f)' <=> Works(call'[c], f))
      /\ (c \in Marking(f) <=> Counts(call[c], f)) /\ (c \in Marking(f)' <=> Counts(call'[c], f))
  BY DEF Working, Marking
<1>4. /\ Cardinality(Working(f)') = Cardinality(Working(f))
                + (IF c \in Working(f)' THEN 1 ELSE 0) - (IF c \in Working(f) THEN 1 ELSE 0)
      /\ Cardinality(Marking(f)') = Cardinality(Marking(f))
                + (IF c \in Marking(f)' THEN 1 ELSE 0) - (IF c \in Marking(f) THEN 1 ELSE 0)
  BY <1>1, <1>2, FiniteParts
<1> QED BY <1>3, <1>4

LEMMA NoneMoves ==
  ASSUME NEW f \in FollowUp, \A c \in Call : call'[c].pc = call[c].pc /\ call'[c].fu = call[c].fu
  PROVE  Working(f)' = Working(f) /\ Marking(f)' = Marking(f)
BY DEF Working, Marking, Works, Counts

-----------------------------------------------------------------------------
(* OneTaker is kept by what neither takes a key nor asks. *)

Unasked ==
  /\ dispatched' = dispatched
  /\ DOMAIN dedup \subseteq DOMAIN dedup'
  /\ \A c \in Call : At(c, "delivering")' => At(c, "delivering") /\ Key(c)' = Key(c)

LEMMA UnaskedKeeps == ASSUME OneTaker, Unasked PROVE OneTaker'
<1>1. \A c \in Call, k \in Keys : Delivering(c, k)' => Delivering(c, k)
  BY DEF Unasked, Delivering
<1>2. \A k : ~FreeKey(k) => ~FreeKey(k)'
  BY DEF Unasked, FreeKey
<1> QED BY <1>1, <1>2 DEF OneTaker, Unasked

(* Backed is kept by what does not ask, and counts no attempt and sends    *)
(* nobody to count one.                                                    *)
LEMMA UncountedKeeps ==
  ASSUME TypeOK, Rows', Backed, dispatched' = dispatched,
         \A f \in FollowUp : /\ fu'[f].tries <= fu[f].tries
                             /\ Cardinality(Marking(f)') <= Cardinality(Marking(f))
                             /\ Cardinality(Marking(f)') \in Nat
  PROVE  Backed'
<1>1. \A f \in FollowUp : Asked(f)' = Asked(f) /\ Asked(f) \in Int
  <2>1. \A f \in FollowUp : Asked(f)' = Asked(f) /\ Inquiries(f) \subseteq DOMAIN dispatched
    BY DEF Asked, Inquiries
  <2> QED BY <2>1, FS_Subset, FS_CardinalityType DEF Backed, Asked
<1>2. \A f \in FollowUp : fu[f].tries \in Nat /\ fu'[f].tries \in Nat
  BY Named DEF Rows, FollowUpRow
<1> QED BY <1>1, <1>2, PartSizes DEF Backed

(* Loaded is kept where the load and the count grow by no more than the    *)
(* faults, and a job settles with one call less.                           *)
LEMMA LoadKeeps ==
  ASSUME TypeOK, Rows', Loaded, faults' \in Nat, faults <= faults',
         \A f \in FollowUp :
           /\ Load(f)' <= Load(f) + faults' - faults \/ Load(f)' <= 1 + faults'
           /\ Settled(f)' => \/ Settled(f) /\ Load(f)' <= Load(f) + faults' - faults
                             \/ Load(f)' <= Load(f) - 1
           /\ fu'[f].tries + Batch(f)' + Load(f)'
                 <= fu[f].tries + Batch(f) + Load(f) + faults' - faults,
         \A f \in FollowUp : Cardinality(Working(f)') \in Nat
  PROVE  Loaded'
<1>1. faults \in Nat /\ MaxTries \in Nat
  BY BoundsAssumption DEF TypeOK
<1>2. \A f \in FollowUp : /\ Load(f) \in Nat /\ Load(f)' \in Nat /\ Batch(f) \in Nat /\ Batch(f)' \in Nat
                          /\ fu[f].tries \in Nat /\ fu'[f].tries \in Nat
  BY PartSizes, Named DEF Load, Live, Batch, Rows, FollowUpRow
<1> QED BY <1>1, <1>2 DEF Loaded

-----------------------------------------------------------------------------
(* The user, the clock and the policy change no call and no job.           *)

LEMMA SurroundingsKeep ==
  ASSUME IndInv, Rows', Counters', UNCHANGED <<scanned, job, call, dedup, dispatched, faults>>,
         \A f \in FollowUp : fu'[f].tries <= fu[f].tries
  PROVE  IndInv'
<1>1. TypeOK'
  BY Named DEF IndInv, Rows, Calls, Tables, Counters, TypeOK, FollowUpRow, JobRow, Place, Dispatch, Outcome
<1>2. OneTaker'
  <2>1. Unasked
    BY DEF Unasked, At, Key
  <2> QED BY <2>1, UnaskedKeeps DEF IndInv
<1>3. \A f \in FollowUp : Working(f)' = Working(f) /\ Marking(f)' = Marking(f)
  BY NoneMoves
<1>4. Backed'
  <2>1. \A f \in FollowUp : /\ Cardinality(Marking(f)') \in Nat
                            /\ Cardinality(Marking(f)') <= Cardinality(Marking(f))
    BY <1>3, PartSizes
  <2> QED BY <2>1, UncountedKeeps DEF IndInv
<1>5. Loaded'
  <2>1. \A f \in FollowUp :
          /\ Load(f)' = Load(f) /\ Batch(f)' = Batch(f) /\ Settled(f)' = Settled(f)
          /\ Cardinality(Working(f)') \in Nat
    <3> SUFFICES ASSUME NEW f \in FollowUp
                 PROVE  /\ Load(f)' = Load(f) /\ Batch(f)' = Batch(f) /\ Settled(f)' = Settled(f)
                        /\ Cardinality(Working(f)') \in Nat
      OBVIOUS
    <3>1. Live(f)' = Live(f) /\ Batch(f)' = Batch(f) /\ Settled(f)' = Settled(f)
      BY DEF Live, Batch, Settled
    <3> QED BY <1>3, <3>1, PartSizes DEF Load
  <2>2. \A f \in FollowUp : /\ Load(f) \in Nat /\ Batch(f) \in Nat
                            /\ fu[f].tries \in Nat /\ fu'[f].tries \in Nat
    BY PartSizes, Named DEF Load, Live, Batch, Rows, FollowUpRow, IndInv
  <2>3. faults \in Nat /\ faults' = faults
    BY DEF IndInv, TypeOK
  <2>4. TypeOK /\ Loaded
    BY DEF IndInv
  <2>5. \A f \in FollowUp :
           /\ Load(f)' <= Load(f) + faults' - faults
           /\ Settled(f)' => Settled(f) /\ Load(f)' <= Load(f) + faults' - faults
           /\ fu'[f].tries + Batch(f)' + Load(f)'
                 <= fu[f].tries + Batch(f) + Load(f) + faults' - faults
    BY <2>1, <2>2, <2>3
  <2> QED BY <2>1, <2>3, <2>4, <2>5, LoadKeeps
<1> QED BY <1>1, <1>2, <1>4, <1>5 DEF IndInv

LEMMA UserKeeps == ASSUME IndInv, UserStep PROVE IndInv'
<1>0. Rows /\ Counters
  BY Named DEF IndInv
<1>1. \A g \in FollowUp : fu[g] \in FollowUpRow /\ fu[g].tries \in Nat /\ fu[g].tries <= fu[g].tries
  BY <1>0 DEF Rows, FollowUpRow
<1>2. ASSUME NEW f \in FollowUp, ScheduleFollowUp(f) PROVE IndInv'
  <2> DEFINE new == [fu[f] EXCEPT !.status = "SCHEDULED"]
  <2>1. fu' = [fu EXCEPT ![f] = new]
    BY <1>2 DEF ScheduleFollowUp
  <2>2. new \in FollowUpRow /\ new.tries = fu[f].tries
    BY <1>1, Restated
  <2> HIDE DEF new
  <2>3. fu' \in [FollowUp -> FollowUpRow] /\ \A g \in FollowUp : fu'[g].tries <= fu[g].tries
    BY <1>0, <1>1, <2>1, <2>2 DEF Rows
  <2> QED BY <1>0, <1>2, <2>3, SurroundingsKeep DEF ScheduleFollowUp, Rows, Counters, policy
<1>3. ASSUME NEW f \in FollowUp, NEW intent \in Intents, Reply, HandleResponse(f, intent) PROVE IndInv'
  <2>1. fu' \in [FollowUp -> FollowUpRow] /\ \A g \in FollowUp : fu'[g].tries <= fu[g].tries
    BY <1>0, <1>3, ResponseTyped DEF HandleResponse
  <2>2. Rows' /\ Counters'
    BY <1>0, <1>3, <2>1, BoundsAssumption DEF HandleResponse, Reply, Rows, Counters, policy
  <2> QED BY <1>3, <2>1, <2>2, SurroundingsKeep DEF Reply
<1>4. ASSUME NEW f \in FollowUp, PressDone(f) PROVE IndInv'
  <2>1. CASE "done" \in FollowUp
    <3> DEFINE intent == CallbackIntent(ButtonDone(f))
    <3>1. intent \in Intents
      BY DEF CallbackIntent, Intents
    <3>2. CallbackId(ButtonDone(f)) = "done"
      BY DEF CallbackId, ButtonDone
    <3>3. Reply /\ HandleResponse("done", intent)
      BY <1>4, <2>1, <3>2 DEF PressDone
    <3> HIDE DEF intent
    <3> QED BY <1>3, <2>1, <3>1, <3>3
  <2>2. CASE "done" \notin FollowUp
    <3>1. Reply /\ UNCHANGED domain
      BY <1>4, <2>2 DEF PressDone, CallbackId, ButtonDone
    <3>2. Rows' /\ Counters'
      BY <1>0, <3>1, BoundsAssumption DEF Reply, domain, policy, Rows, Counters
    <3> QED BY <1>1, <3>1, <3>2, SurroundingsKeep DEF Reply, domain
  <2> QED BY <2>1, <2>2
<1>5. ASSUME NEW s \in {"open", "done", "missed"}, MarkStatus(s) PROVE IndInv'
  <2> DEFINE new(g) == IF s # "open" /\ fu[g].status \in Open \cup {"NOT_YET"}
                       THEN [fu[g] EXCEPT !.status = "CANCELLED"] ELSE fu[g]
  <2>1. fu' = [g \in FollowUp |-> new(g)]
    BY <1>5 DEF MarkStatus
  <2>2. \A g \in FollowUp : new(g) \in FollowUpRow /\ new(g).tries = fu[g].tries
    BY <1>1, Restated
  <2> HIDE DEF new
  <2>3. fu' \in [FollowUp -> FollowUpRow] /\ \A g \in FollowUp : fu'[g].tries <= fu[g].tries
    BY <1>1, <2>1, <2>2
  <2>4. Rows' /\ Counters'
    BY <1>0, <1>5, <2>3, BoundsAssumption DEF MarkStatus, Reply, Rows, Counters, policy
  <2> QED BY <1>5, <2>3, <2>4, SurroundingsKeep DEF MarkStatus, Reply
<1> QED BY <1>2, <1>3, <1>4, <1>5 DEF UserStep, Respond

LEMMA PolicyKeeps ==
  ASSUME IndInv, Hold \/ Release \/ \E f \in FollowUp : FallDue(f) PROVE IndInv'
<1>0. Rows /\ Counters
  BY Named DEF IndInv
<1>1. \A g \in FollowUp : fu[g] \in FollowUpRow /\ fu[g].tries \in Nat /\ fu[g].tries <= fu[g].tries
  BY <1>0 DEF Rows, FollowUpRow
<1>2. CASE Hold
  BY <1>0, <1>1, <1>2, SurroundingsKeep, BoundsAssumption DEF Hold, domain, Rows, Counters
<1>3. CASE Release
  BY <1>0, <1>1, <1>3, SurroundingsKeep DEF Release, domain, Rows, Counters
<1>4. ASSUME NEW f \in FollowUp, FallDue(f) PROVE IndInv'
  <2> DEFINE new == [fu[f] EXCEPT !.due = TRUE]
  <2>1. fu' = [fu EXCEPT ![f] = new]
    BY <1>4 DEF FallDue
  <2>2. new \in FollowUpRow /\ new.tries = fu[f].tries
    BY <1>1, Dated
  <2> HIDE DEF new
  <2>3. fu' \in [FollowUp -> FollowUpRow] /\ \A g \in FollowUp : fu'[g].tries <= fu[g].tries
    BY <1>0, <1>1, <2>1, <2>2 DEF Rows
  <2> QED BY <1>0, <1>4, <2>3, SurroundingsKeep DEF FallDue, Rows, Counters, policy
<1> QED BY <1>2, <1>3, <1>4

-----------------------------------------------------------------------------
(* A call goes on with its follow-up. *)

GoesOn(c) ==
  /\ call[c].pc \notin {"idle", "completing"} /\ call'[c].pc # "idle"
  /\ call'[c].fu = call[c].fu /\ call'[c].mine = call[c].mine
  /\ \A d \in Call \ {c} : call'[d] = call[d]
  /\ UNCHANGED <<scanned, job>>
  /\ faults <= faults'

(* It counts its attempt, and ends or was hit by a fault; or counts none.  *)
CountsOnce(c) ==
  \/ \A f \in FollowUp : fu'[f].tries <= fu[f].tries
  \/ /\ call[c].pc = "marking"
     /\ \/ call'[c].pc = "completing"
        \/ call'[c].pc = "failing" /\ faults' = faults + 1
     /\ fu'[call[c].fu].tries = fu[call[c].fu].tries + 1
     /\ \A f \in FollowUp \ {call[c].fu} : fu'[f] = fu[f]

LEMMA GoesOnLoaded ==
  ASSUME IndInv, TypeOK', NEW c \in Call, GoesOn(c), CountsOnce(c)
  PROVE  Loaded'
<1>1. ASSUME NEW f \in FollowUp
      PROVE  /\ Live(f)' = Live(f) /\ Batch(f)' = Batch(f)
             /\ Settled(f)' => \/ Settled(f)
                               \/ call[c].fu = f /\ call'[c].pc = "completing"
             /\ Works(call[c], f) <=> call[c].fu = f
             /\ Works(call'[c], f) <=> call[c].fu = f /\ call'[c].pc # "completing"
  <2>1. \A d \in Call : Holds(call'[d], f) <=> Holds(call[d], f)
    BY DEF GoesOn, Holds
  <2>2. \A d \in Call : Settles(call'[d], f) =>
           \/ Settles(call[d], f)
           \/ d = c /\ call[c].fu = f /\ call'[c].pc = "completing"
    <3>1. \A d \in Call \ {c} : Settles(call'[d], f) <=> Settles(call[d], f)
      BY DEF GoesOn
    <3>2. Settles(call'[c], f) => call[c].fu = f /\ call'[c].pc = "completing"
      BY DEF GoesOn, Settles, Holds
    <3> QED BY <3>1, <3>2
  <2>3. Works(call[c], f) <=> call[c].fu = f
    BY DEF GoesOn, Works
  <2>4. Works(call'[c], f) <=> call[c].fu = f /\ call'[c].pc # "completing"
    BY DEF GoesOn, Works
  <2>5. UNCHANGED <<scanned, job>>
    BY DEF GoesOn
  <2> QED BY <2>1, <2>2, <2>3, <2>4, <2>5 DEF Live, Batch, Settled
<1>2. \A d \in Call \ {c} : call'[d] = call[d]
  BY DEF GoesOn
<1>3. TypeOK /\ Loaded /\ Rows /\ Rows' /\ faults \in Nat /\ faults' \in Nat /\ faults <= faults'
  BY Named DEF IndInv, GoesOn, TypeOK, Rows, FollowUpRow, JobRow
<1>4. \A f \in FollowUp : Cardinality(Working(f)) \in Nat /\ Cardinality(Working(f)') \in Nat
  <2>1. \A f \in FollowUp : Working(f)' \subseteq Call
    BY DEF Working
  <2> QED BY <2>1, PartSizes, FS_Subset, FS_CardinalityType, BoundsAssumption
<1>5. ASSUME NEW f \in FollowUp
      PROVE  /\ Load(f)' <= Load(f) + faults' - faults
             /\ Settled(f)' => \/ Settled(f) /\ Load(f)' <= Load(f) + faults' - faults
                               \/ Load(f)' <= Load(f) - 1
             /\ fu'[f].tries + Batch(f)' + Load(f)'
                   <= fu[f].tries + Batch(f) + Load(f) + faults' - faults
  <2>0. /\ Load(f) = Live(f) + Cardinality(Working(f)) /\ Live(f) \in 0..1 /\ Batch(f) \in 0..1
        /\ Load(f)' = Live(f)' + Cardinality(Working(f)')
        /\ fu[f].tries \in Nat /\ fu'[f].tries \in Nat
    BY <1>3 DEF Load, Live, Batch, Rows, FollowUpRow
  <2>1. Cardinality(Working(f)') = Cardinality(Working(f))
           + (IF Works(call'[c], f) THEN 1 ELSE 0) - (IF Works(call[c], f) THEN 1 ELSE 0)
    BY <1>2, OneMoves
  <2>2. CASE call[c].fu = f /\ call'[c].pc = "completing"
    <3>1. Load(f)' = Load(f) - 1
      BY <1>1, <1>4, <2>0, <2>1, <2>2
    <3>2. fu'[f].tries <= fu[f].tries + 1
      BY <2>0, <2>2 DEF CountsOnce
    <3> QED BY <1>1, <1>3, <1>4, <2>0, <3>1, <3>2
  <2>3. CASE ~(call[c].fu = f /\ call'[c].pc = "completing")
    <3>1. Load(f)' = Load(f)
      BY <1>1, <1>4, <2>0, <2>1, <2>3
    <3>2. fu'[f].tries <= fu[f].tries + faults' - faults
      BY <1>3, <2>0, <2>3 DEF CountsOnce
    <3> QED BY <1>1, <1>3, <1>4, <2>0, <2>3, <3>1, <3>2
  <2> QED BY <2>2, <2>3
<1> QED BY <1>3, <1>4, <1>5, LoadKeeps

LEMMA GoesOnBacked ==
  ASSUME IndInv, TypeOK', NEW c \in Call, GoesOn(c), CountsOnce(c), dispatched' = dispatched,
         call'[c].pc \in {"recording", "marking"} => call[c].pc \in {"recording", "marking"}
  PROVE  Backed'
<1>1. Rows /\ Rows' /\ \A d \in Call \ {c} : call'[d] = call[d]
  BY Named DEF IndInv, GoesOn, TypeOK, Rows, FollowUpRow, JobRow
<1>2. ASSUME NEW f \in FollowUp
      PROVE  fu'[f].tries + Cardinality(Marking(f)') <= fu[f].tries + Cardinality(Marking(f))
  <2>1. Cardinality(Marking(f)') = Cardinality(Marking(f))
           + (IF Counts(call'[c], f) THEN 1 ELSE 0) - (IF Counts(call[c], f) THEN 1 ELSE 0)
    BY <1>1, OneMoves
  <2>2. Counts(call'[c], f) => Counts(call[c], f)
    BY DEF Counts, GoesOn
  <2>3. \/ fu'[f].tries <= fu[f].tries
        \/ fu'[f].tries = fu[f].tries + 1 /\ Counts(call[c], f) /\ ~Counts(call'[c], f)
    <3>1. fu[f].tries \in Nat /\ fu'[f].tries \in Nat
      BY <1>1 DEF Rows, FollowUpRow
    <3>2. CASE f = call[c].fu
      BY <3>1, <3>2 DEF CountsOnce, Counts
    <3>3. CASE f # call[c].fu
      BY <3>1, <3>3 DEF CountsOnce
    <3> QED BY <3>2, <3>3
  <2>4. fu[f].tries \in Nat /\ fu'[f].tries \in Nat /\ Cardinality(Marking(f)) \in Nat
    BY <1>1, PartSizes DEF Rows, FollowUpRow
  <2> QED BY <2>1, <2>2, <2>3, <2>4
<1>3. \A f \in FollowUp : Asked(f)' = Asked(f) /\ Asked(f) \in Int
  <2>1. \A f \in FollowUp : Asked(f)' = Asked(f) /\ Inquiries(f) \subseteq DOMAIN dispatched
    BY DEF Asked, Inquiries
  <2> QED BY <2>1, FS_Subset, FS_CardinalityType DEF IndInv, Backed, Asked
<1>4. \A f \in FollowUp : /\ fu[f].tries \in Nat /\ fu'[f].tries \in Nat
                          /\ Cardinality(Marking(f)) \in Nat /\ Cardinality(Marking(f)') \in Nat
  <2>1. \A f \in FollowUp : Marking(f)' \subseteq Call
    BY DEF Marking
  <2> QED BY <1>1, <2>1, PartSizes, FS_Subset, FS_CardinalityType, BoundsAssumption DEF Rows, FollowUpRow
<1>5. \A f \in FollowUp : fu'[f].tries + Cardinality(Marking(f)') <= Asked(f)'
  BY <1>2, <1>3, <1>4 DEF IndInv, Backed
<1> QED BY <1>5 DEF IndInv, Backed

(* Nobody takes a key, and nobody asks.                                    *)
LEMMA GoneOn ==
  ASSUME IndInv, TypeOK', NEW c \in Call, GoesOn(c), CountsOnce(c),
         call'[c].pc # "delivering", dispatched' = dispatched, DOMAIN dedup \subseteq DOMAIN dedup',
         call'[c].pc \in {"recording", "marking"} => call[c].pc \in {"recording", "marking"}
  PROVE  IndInv'
<1>1. Unasked
  BY DEF Unasked, GoesOn, At, Key
<1> QED BY <1>1, UnaskedKeeps, GoesOnLoaded, GoesOnBacked DEF IndInv

(* What is known of a call, and how one goes on by Goto.                   *)
LEMMA Facts ==
  ASSUME IndInv, NEW c \in Call
  PROVE  /\ TypeOK /\ Rows /\ Calls /\ Tables /\ Counters
         /\ call[c] \in Dispatch /\ call[c].fu \in FollowUp /\ call[c].try \in Nat
         /\ Key(c) \in Keys /\ fu[call[c].fu].tries \in Nat
         /\ \A f \in FollowUp : fu[f].tries <= fu[f].tries
<1>1. TypeOK /\ Rows /\ Calls /\ Tables /\ Counters
  BY Named DEF IndInv
<1>2. call[c] \in Dispatch /\ call[c].fu \in FollowUp /\ call[c].try \in Nat
  BY <1>1 DEF Calls, Dispatch
<1>3. \A f \in FollowUp : fu[f].tries \in Nat
  BY <1>1 DEF Rows, FollowUpRow
<1> QED BY <1>1, <1>2, <1>3 DEF Keys, Key

LEMMA TypesBack == ASSUME Rows', Calls', Tables', Counters' PROVE TypeOK'
BY DEF Rows, Calls, Tables, Counters, TypeOK, FollowUpRow, JobRow, Place, Dispatch, Outcome

LEMMA Going ==
  ASSUME Calls, NEW c \in Call, NEW pc \in Place, Goto(c, pc), pc # "idle",
         call[c].pc \notin {"idle", "completing"}, UNCHANGED <<scanned, job>>, faults <= faults'
  PROVE  GoesOn(c) /\ Calls' /\ call'[c].pc = pc
BY Moves DEF Goto, GoesOn

LEMMA HandlerKeeps ==
  ASSUME IndInv, NEW c \in Call,
         \/ ReadFollowUp(c) \/ CancelForDoneTask(c) \/ EvaluatePolicy(c) \/ RecordDeferred(c)
         \/ RecordDelivered(c) \/ MarkDelivered(c) \/ StatementFails(c)
  PROVE  IndInv'
<1>0. /\ TypeOK /\ Rows /\ Calls /\ Tables /\ Counters
      /\ call[c] \in Dispatch /\ call[c].fu \in FollowUp /\ call[c].try \in Nat
      /\ Key(c) \in Keys /\ fu[call[c].fu].tries \in Nat
      /\ \A f \in FollowUp : fu[f].tries <= fu[f].tries
  BY Facts
<1>1. ASSUME Rows', Calls', Tables', Counters' PROVE TypeOK'
  BY <1>1, TypesBack
<1>2. ASSUME NEW pc \in Place, Goto(c, pc), pc # "idle", call[c].pc \notin {"idle", "completing"},
             UNCHANGED <<scanned, job>>, faults <= faults'
      PROVE  GoesOn(c) /\ Calls' /\ call'[c].pc = pc
  BY <1>0, <1>2, Going
<1>3. faults \in Nat /\ MaxFaults \in Nat
  BY <1>0, BoundsAssumption DEF Counters
<1>4. ASSUME NEW status \in Outcome, dedup' = Recorded(Key(c), status) \/ dedup' = dedup,
             dispatched' = dispatched
      PROVE  Tables' /\ DOMAIN dedup \subseteq DOMAIN dedup'
  <2>1. CASE dedup' = dedup
    BY <1>0, <1>4, <2>1 DEF Tables
  <2>2. CASE dedup' = Put(dedup, Key(c), status)
    BY <1>0, <1>4, <2>2, NewKey
  <2> QED BY <1>4, <2>1, <2>2 DEF Recorded
<1>5. CASE ReadFollowUp(c)
  <2> DEFINE pc == IF task = "done" THEN "cancelling" ELSE "deciding"
             moved == [call[c] EXCEPT !.pc = pc]
             r == [moved EXCEPT !.try = fu[call[c].fu].tries]
  <2>1. call' = [call EXCEPT ![c] = r]
    BY <1>0, <1>5 DEF ReadFollowUp, Calls, Dispatch
  <2>2. r \in Dispatch /\ r.pc = pc /\ r.fu = call[c].fu /\ r.mine = call[c].mine
    <3>1. pc \in Place
      BY DEF Place
    <3> HIDE DEF pc
    <3>2. /\ moved \in Dispatch /\ moved.pc = pc
          /\ moved.fu = call[c].fu /\ moved.mine = call[c].mine
      BY <1>0, <3>1, Placed
    <3> HIDE DEF moved
    <3> QED BY <1>0, <3>2, Tried
  <2>3. pc \in Place /\ pc \notin {"idle", "delivering", "recording", "marking"}
    BY DEF Place
  <2> HIDE DEF pc, moved, r
  <2>4. GoesOn(c) /\ Calls' /\ call'[c].pc = pc
    <3>1. Calls' /\ call'[c] = r /\ \A d \in Call \ {c} : call'[d] = call[d]
      BY <1>0, <2>1, <2>2, Replaced
    <3>2. call[c].pc = "reading" /\ faults <= faults' /\ UNCHANGED <<scanned, job>>
      BY <1>3, <1>5 DEF ReadFollowUp, At
    <3>3. call'[c].pc = pc /\ call'[c].fu = call[c].fu /\ call'[c].mine = call[c].mine
      BY <2>2, <3>1
    <3> QED BY <2>3, <3>1, <3>2, <3>3 DEF GoesOn
  <2>5. Rows' /\ Tables' /\ Counters' /\ UNCHANGED <<fu, dedup, dispatched>>
    BY <1>0, <1>5 DEF ReadFollowUp, Rows, Tables, Counters, domain, policy
  <2>6. CountsOnce(c)
    BY <1>0, <2>5 DEF CountsOnce
  <2> QED BY <1>1, <2>3, <2>4, <2>5, <2>6, GoneOn
<1>6. CASE CancelForDoneTask(c)
  <2>1. GoesOn(c) /\ Calls' /\ call'[c].pc = "completing"
    BY <1>2, <1>3, <1>6 DEF CancelForDoneTask, Place, At
  <2>2. fu' \in [FollowUp -> FollowUpRow] /\ \A g \in FollowUp : fu'[g].tries <= fu[g].tries
    BY <1>0, <1>6, ResponseTyped DEF CancelForDoneTask, HandleResponse, Intents
  <2>3. Rows' /\ Tables' /\ Counters' /\ UNCHANGED <<dedup, dispatched>>
    BY <1>0, <1>6, <2>2 DEF CancelForDoneTask, HandleResponse, Rows, Tables, Counters, policy
  <2> QED BY <1>1, <2>1, <2>2, <2>3, GoneOn DEF CountsOnce
<1>7. CASE EvaluatePolicy(c)
  <2>1. GoesOn(c) /\ Calls' /\ call'[c].pc \in {"deferring", "reserving"}
    BY <1>2, <1>3, <1>7 DEF EvaluatePolicy, Place, At
  <2>2. Rows' /\ Tables' /\ Counters' /\ UNCHANGED <<fu, dedup, dispatched>>
    BY <1>0, <1>7 DEF EvaluatePolicy, Rows, Tables, Counters, domain, policy
  <2> QED BY <1>0, <1>1, <2>1, <2>2, GoneOn DEF CountsOnce
<1>8. CASE RecordDeferred(c)
  <2>1. GoesOn(c) /\ Calls' /\ call'[c].pc = "completing"
    BY <1>2, <1>3, <1>8 DEF RecordDeferred, Place, At
  <2>2. Rows' /\ Counters' /\ UNCHANGED <<fu, dispatched>>
    BY <1>0, <1>8 DEF RecordDeferred, Rows, Counters, domain, policy
  <2>3. Tables' /\ DOMAIN dedup \subseteq DOMAIN dedup'
    BY <1>4, <1>8 DEF RecordDeferred, Outcome
  <2> QED BY <1>0, <1>1, <2>1, <2>2, <2>3, GoneOn DEF CountsOnce
<1>9. CASE RecordDelivered(c)
  <2>1. GoesOn(c) /\ Calls' /\ call'[c].pc = "marking" /\ call[c].pc = "recording"
    BY <1>2, <1>3, <1>9 DEF RecordDelivered, Place, At
  <2>2. Rows' /\ Counters' /\ UNCHANGED <<fu, dispatched>>
    BY <1>0, <1>9 DEF RecordDelivered, Rows, Counters, domain, policy
  <2>3. Tables' /\ DOMAIN dedup \subseteq DOMAIN dedup'
    BY <1>4, <1>9 DEF RecordDelivered, Outcome
  <2> QED BY <1>0, <1>1, <2>1, <2>2, <2>3, GoneOn DEF CountsOnce
<1>10. CASE MarkDelivered(c)
  <2>1. GoesOn(c) /\ Calls' /\ call'[c].pc = "completing" /\ call[c].pc = "marking"
    BY <1>2, <1>3, <1>10 DEF MarkDelivered, Place, At
  <2>2. Rows' /\ Tables' /\ Counters' /\ UNCHANGED <<dedup, dispatched>>
    BY <1>0, <1>10, MarkedTyped DEF MarkDelivered, Rows, Tables, Counters, policy
  <2>3. CountsOnce(c)
    BY <1>0, <1>10, <2>1, MarkedTyped DEF CountsOnce, MarkDelivered
  <2> QED BY <1>1, <2>1, <2>2, <2>3, GoneOn
<1>11. CASE StatementFails(c)
  <2>1. /\ GoesOn(c) /\ Calls' /\ faults' = faults + 1
        /\ \/ call'[c].pc = "failing" /\ dedup' = dedup
              /\ (fu' = fu \/ (At(c, "marking") /\ fu' = Marked(c)))
           \/ /\ call'[c].pc = "completing" /\ fu' = fu
              /\ \/ dedup' = dedup
                 \/ FreeKey(Key(c)) /\ dedup' = Put(dedup, Key(c), "pending")
    <3>1. scanned' = scanned /\ job' = job /\ faults' = faults + 1 /\ faults <= faults'
      BY <1>3, <1>11 DEF StatementFails
    <3>2. CASE Goto(c, "failing")
      BY <1>2, <1>11, <3>1, <3>2 DEF StatementFails, Place, At
    <3>3. CASE Goto(c, "completing") /\ At(c, "reserving")
      BY <1>2, <1>11, <3>1, <3>3, Moves, <1>0 DEF StatementFails, Place, At
    <3> QED BY <1>11, <3>2, <3>3 DEF StatementFails
  <2>2. Tables' /\ DOMAIN dedup \subseteq DOMAIN dedup' /\ dispatched' = dispatched
    <3>1. dispatched' = dispatched
      BY <1>11 DEF StatementFails
    <3>2. CASE dedup' = dedup
      BY <1>0, <3>1, <3>2 DEF Tables
    <3>3. CASE FreeKey(Key(c)) /\ dedup' = Put(dedup, Key(c), "pending")
      BY <1>0, <3>1, <3>3, NewKey DEF Outcome
    <3> QED BY <2>1, <3>1, <3>2, <3>3
  <2>3. Rows' /\ Counters'
    BY <1>0, <1>3, <1>11, <2>1, MarkedTyped DEF StatementFails, Rows, Counters, policy
  <2>4. CountsOnce(c)
    <3>1. CASE fu' = fu
      BY <1>0, <3>1 DEF CountsOnce
    <3>2. CASE At(c, "marking") /\ fu' = Marked(c) /\ call'[c].pc = "failing"
      BY <1>0, <2>1, <3>2, MarkedTyped DEF CountsOnce, At
    <3> QED BY <2>1, <3>1, <3>2
  <2>5. call'[c].pc \in {"failing", "completing"}
    BY <2>1
  <2> QED BY <1>1, <2>1, <2>2, <2>3, <2>4, <2>5, GoneOn
<1> QED BY <1>5, <1>6, <1>7, <1>8, <1>9, <1>10, <1>11

(* Who finds the key free takes it, and is alone with it.                  *)
LEMMA ReserveKeeps == ASSUME IndInv, NEW c \in Call, ReserveNotification(c) PROVE IndInv'
<1>0. /\ TypeOK /\ Rows /\ Calls /\ Tables /\ Counters /\ Key(c) \in Keys
      /\ \A f \in FollowUp : fu[f].tries <= fu[f].tries
  BY Facts
<1>1. /\ Rows' /\ Counters' /\ UNCHANGED <<fu, dispatched, scanned, job>> /\ faults <= faults'
      /\ call[c].pc = "reserving"
  BY <1>0, BoundsAssumption DEF ReserveNotification, Rows, Counters, domain, policy, At
<1>2. CASE ~FreeKey(Key(c))
  <2>1. GoesOn(c) /\ Calls' /\ call'[c].pc = "completing" /\ dedup' = dedup
    BY <1>0, <1>1, <1>2, Going DEF ReserveNotification, SuppressedAt, Place
  <2>2. Tables'
    BY <1>0, <1>1, <2>1 DEF Tables
  <2> QED BY <1>0, <1>1, <2>1, <2>2, TypesBack, GoneOn DEF CountsOnce
<1>3. CASE FreeKey(Key(c))
  <2>1. GoesOn(c) /\ Calls' /\ call'[c].pc = "delivering" /\ dedup' = Put(dedup, Key(c), "pending")
    BY <1>0, <1>1, <1>3, Going DEF ReserveNotification, Place
  <2>2. Tables' /\ DOMAIN dedup' = DOMAIN dedup \cup {Key(c)}
    BY <1>0, <1>1, <2>1, NewKey DEF Outcome
  <2>3. TypeOK' /\ CountsOnce(c)
    BY <1>0, <1>1, <2>1, <2>2, TypesBack DEF CountsOnce
  <2>4. OneTaker'
    <3>1. \A k : ~FreeKey(k)' <=> (~FreeKey(k) \/ k = Key(c))
      BY <2>2 DEF FreeKey
    <3>2. \A d \in Call, k \in Keys : Delivering(d, k)' =>
            \/ d # c /\ Delivering(d, k)
            \/ d = c /\ k = Key(c)'
      BY <2>1 DEF Delivering, At, Key, GoesOn
    <3>3. /\ Key(c) \notin DOMAIN dispatched /\ \A d \in Call : ~Delivering(d, Key(c))
          /\ OneTaker
      BY <1>0, <1>3 DEF IndInv, OneTaker
    <3>4. Key(c)' = Key(c)
      <4>1. call' = [call EXCEPT ![c].pc = "delivering"] /\ "delivering" \in Place
        BY <1>3 DEF ReserveNotification, Goto, Place
      <4> QED BY <1>0, <4>1, Moves DEF Key
    <3>5. dispatched' = dispatched
      BY <1>1
    <3> QED BY <3>1, <3>2, <3>3, <3>4, <3>5 DEF OneTaker
  <2> QED BY <1>1, <2>1, <2>3, <2>4, GoesOnLoaded, GoesOnBacked DEF IndInv
<1> QED BY <1>2, <1>3

(* Who asks has taken the key, so it is asked for the first time.          *)
LEMMA DeliverKeeps == ASSUME IndInv, NEW c \in Call, Deliver(c) PROVE IndInv'
<1> DEFINE k == Key(c)
<1>0. /\ TypeOK /\ Rows /\ Calls /\ Tables /\ Counters /\ k \in Keys
      /\ call[c].fu \in FollowUp /\ k[1] = call[c].fu
      /\ \A f \in FollowUp : fu[f].tries <= fu[f].tries
  BY Facts DEF Key
<1>1. Delivering(c, k) /\ call[c].pc = "delivering"
  BY DEF Deliver, Delivering, At
<1>2. ~FreeKey(k) /\ k \notin DOMAIN dispatched
  BY <1>0, <1>1 DEF IndInv, OneTaker
<1>3. /\ DOMAIN dispatched' = DOMAIN dispatched \cup {k}
      /\ dispatched'[k] = 1 /\ dispatched' \in [DOMAIN dispatched \cup {k} -> Nat]
      /\ \A x \in DOMAIN dispatched : dispatched'[x] = dispatched[x]
  BY <1>0, <1>2 DEF Deliver, Put, Dispatched, Tables
<1>4. /\ Rows' /\ Tables' /\ Counters' /\ UNCHANGED <<fu, dedup, scanned, job>>
      /\ faults <= faults'
  <2>1. UNCHANGED <<fu, job, dedup, scanned, task, held, replies, holds>>
    BY DEF Deliver, domain, policy
  <2>2. faults' \in 0..MaxFaults /\ faults <= faults'
    BY <1>0, BoundsAssumption DEF Deliver, Counters
  <2> QED BY <1>0, <1>3, <2>1, <2>2 DEF Rows, Tables, Counters
<1>5. GoesOn(c) /\ Calls' /\ call'[c].pc \in {"recording", "failing"}
  BY <1>0, <1>1, <1>4, Going DEF Deliver, Place
<1>6. TypeOK' /\ CountsOnce(c)
  BY <1>0, <1>4, <1>5, TypesBack DEF CountsOnce
<1>7. OneTaker'
  <2>1. \A d \in Call, x \in Keys : Delivering(d, x)' => d # c /\ Delivering(d, x)
    BY <1>5 DEF Delivering, At, Key, GoesOn
  <2>2. \A x : FreeKey(x)' <=> FreeKey(x)
    BY <1>4 DEF FreeKey
  <2>3. \A d \in Call, x \in Keys : Delivering(d, x)' => x # k
    BY <1>0, <1>1, <2>1 DEF IndInv, OneTaker
  <2>4. OneTaker
    BY DEF IndInv
  <2> HIDE DEF k
  <2> QED BY <1>2, <1>3, <2>1, <2>2, <2>3, <2>4 DEF OneTaker
<1>8. Backed'
  <2>1. IsFiniteSet(DOMAIN dispatched')
    BY <1>3, FS_AddElement DEF IndInv, Backed
  <2>2. ASSUME NEW f \in FollowUp PROVE fu'[f].tries + Cardinality(Marking(f)') <= Asked(f)'
    <3>1. Cardinality(Marking(f)') = Cardinality(Marking(f))
             + (IF Counts(call'[c], f) THEN 1 ELSE 0) - (IF Counts(call[c], f) THEN 1 ELSE 0)
      BY <1>5, OneMoves DEF GoesOn
    <3>2. /\ Counts(call'[c], f) => call[c].fu = f
          /\ ~Counts(call[c], f)
      BY <1>1, <1>5 DEF Counts, GoesOn
    <3>3. IsFiniteSet(Inquiries(f))
      BY FS_Subset DEF Inquiries, IndInv, Backed
    <3>4. Inquiries(f)' = IF call[c].fu = f THEN Inquiries(f) \cup {k} ELSE Inquiries(f)
      <4>1. Inquiries(f)' = {x \in DOMAIN dispatched \cup {k} : x[1] = f}
        BY <1>3 DEF Inquiries
      <4> HIDE DEF k
      <4> QED BY <1>0, <4>1 DEF Inquiries
    <3>5. k \notin Inquiries(f)
      BY <1>2 DEF Inquiries
    <3>6. Asked(f)' = Asked(f) + (IF call[c].fu = f THEN 1 ELSE 0) /\ Asked(f) \in Nat
      <4> HIDE DEF k
      <4>1. Cardinality(Inquiries(f) \cup {k}) = Cardinality(Inquiries(f)) + 1
        BY <3>3, <3>5, FS_AddElement
      <4> QED BY <3>3, <3>4, <4>1, FS_CardinalityType DEF Asked
    <3>7. /\ fu'[f].tries = fu[f].tries /\ fu[f].tries \in Nat /\ Cardinality(Marking(f)) \in Nat
          /\ fu[f].tries + Cardinality(Marking(f)) <= Asked(f)
      BY <1>0, <1>4, PartSizes DEF IndInv, Backed, Rows, FollowUpRow
    <3> QED BY <3>1, <3>2, <3>6, <3>7
  <2> QED BY <2>1, <2>2 DEF Backed
<1> QED BY <1>5, <1>6, <1>7, <1>8, GoesOnLoaded DEF IndInv

-----------------------------------------------------------------------------
(* A call ends, and with it perhaps its job. *)

Ends(c) == call' = [call EXCEPT ![c] = Idle] /\ UNCHANGED <<fu, scanned, dedup, dispatched>>

LEMMA EndTyped ==
  ASSUME IndInv, NEW c \in Call, Ends(c), UNCHANGED <<task, held, replies, holds>>,
         job' \in [FollowUp -> JobRow], faults' \in 0..MaxFaults
  PROVE  TypeOK' /\ call'[c].pc = "idle" /\ \A d \in Call \ {c} : call'[d] = call[d]
<1>1. Calls' /\ call'[c].pc = "idle" /\ \A d \in Call \ {c} : call'[d] = call[d]
  BY IdleTyped, Replaced, Facts DEF Ends
<1>2. Rows' /\ Tables' /\ Counters'
  BY Facts DEF Ends, Rows, Tables, Counters
<1> QED BY <1>1, <1>2, TypesBack

LEMMA EndKeeps ==
  ASSUME IndInv, TypeOK', NEW c \in Call, Ends(c), call'[c].pc = "idle",
         \A d \in Call \ {c} : call'[d] = call[d]
  PROVE  /\ OneTaker' /\ Backed'
         /\ \A f \in FollowUp :
              /\ ~Works(call'[c], f) /\ ~Holds(call'[c], f)
              /\ (\E d \in Call : Settles(call'[d], f)) => \E d \in Call : Settles(call[d], f)
<1>1. OneTaker'
  <2>1. Unasked
    BY DEF Unasked, Ends, At, Key
  <2> QED BY <2>1, UnaskedKeeps DEF IndInv
<1>2. Backed'
  <2>1. \A f \in FollowUp : Cardinality(Marking(f)') = Cardinality(Marking(f))
             + (IF Counts(call'[c], f) THEN 1 ELSE 0) - (IF Counts(call[c], f) THEN 1 ELSE 0)
    BY OneMoves
  <2>2. \A f \in FollowUp : ~Counts(call'[c], f)
    BY DEF Counts
  <2>3. \A f \in FollowUp : Cardinality(Marking(f)') \in Nat
    <3>1. \A f \in FollowUp : Marking(f)' \subseteq Call
      BY DEF Marking
    <3> QED BY <3>1, FS_Subset, FS_CardinalityType, BoundsAssumption
  <2>4. \A f \in FollowUp : fu'[f].tries <= fu[f].tries
    BY Facts DEF Ends
  <2>5. \A f \in FollowUp : Cardinality(Marking(f)') <= Cardinality(Marking(f))
    BY <2>1, <2>2, PartSizes
  <2>6. Rows' /\ dispatched' = dispatched /\ TypeOK /\ Backed
    BY DEF TypeOK, Rows, FollowUpRow, JobRow, Ends, IndInv
  <2> QED BY <2>3, <2>4, <2>5, <2>6, UncountedKeeps
<1>3. \A f \in FollowUp : ~Works(call'[c], f) /\ ~Holds(call'[c], f)
  BY DEF Works, Holds
<1>4. \A f \in FollowUp, d \in Call : Settles(call'[d], f) => Settles(call[d], f)
  BY <1>3 DEF Settles
<1> QED BY <1>1, <1>2, <1>3, <1>4

(* The numbers of LoadKeeps, for a step that leaves the counts and the     *)
(* batch alone.                                                            *)
Lighter(f) ==
  /\ Load(f)' <= Load(f) + faults' - faults
  /\ Settled(f)' => \/ Settled(f)
                    \/ Load(f)' <= Load(f) - 1

LEMMA LighterKeeps ==
  ASSUME IndInv, TypeOK', UNCHANGED <<fu, scanned>>, faults <= faults',
         \A f \in FollowUp : Lighter(f)
  PROVE  Loaded'
<1>1. TypeOK /\ Rows /\ Rows' /\ Loaded /\ faults \in Nat /\ faults' \in Nat
  BY Named DEF IndInv, TypeOK, Rows, FollowUpRow, JobRow
<1>2. \A f \in FollowUp : Cardinality(Working(f)) \in Nat /\ Cardinality(Working(f)') \in Nat
  <2>1. \A f \in FollowUp : Working(f)' \subseteq Call
    BY DEF Working
  <2> QED BY <2>1, PartSizes, FS_Subset, FS_CardinalityType, BoundsAssumption
<1>3. \A f \in FollowUp : /\ Load(f) \in Nat /\ Load(f)' \in Nat /\ Batch(f) \in Nat
                          /\ Batch(f)' = Batch(f)
                          /\ fu'[f].tries = fu[f].tries /\ fu[f].tries \in Nat
  BY <1>1, <1>2 DEF Load, Live, Batch, Rows, FollowUpRow
<1>4. \A f \in FollowUp :
        /\ Load(f)' <= Load(f) + faults' - faults
        /\ Settled(f)' => \/ Settled(f) /\ Load(f)' <= Load(f) + faults' - faults
                          \/ Load(f)' <= Load(f) - 1
        /\ fu'[f].tries + Batch(f)' + Load(f)'
              <= fu[f].tries + Batch(f) + Load(f) + faults' - faults
  BY <1>1, <1>3 DEF Lighter
<1> QED BY <1>1, <1>2, <1>4, LoadKeeps

(* What ends of a call, for the follow-up it worked on and the others.     *)
LEMMA EndLighter ==
  ASSUME IndInv, TypeOK', NEW c \in Call, Ends(c), call'[c].pc = "idle", call[c].pc # "idle",
         \A d \in Call \ {c} : call'[d] = call[d], NEW f \in FollowUp,
         faults' - faults \in Nat, faults \in Nat,
         \/ job'[f] = job[f] /\ (Holds(call[c], f) => faults' = faults + 1)
         \/ /\ Holds(call[c], f)
            /\ \/ job'[f].status = "none" /\ (call[c].pc = "completing" \/ Works(call[c], f))
               \/ job'[f].status = "pending" /\ Works(call[c], f)
  PROVE  Lighter(f)
<1>1. /\ ~Works(call'[c], f) /\ ~Holds(call'[c], f)
      /\ (\E d \in Call : Settles(call'[d], f)) => \E d \in Call : Settles(call[d], f)
  BY EndKeeps
<1>2. /\ Cardinality(Working(f)') = Cardinality(Working(f)) - (IF Works(call[c], f) THEN 1 ELSE 0)
      /\ Cardinality(Working(f)) \in Nat
  BY <1>1, OneMoves, PartSizes
<1>3. /\ Load(f) = Live(f) + Cardinality(Working(f)) /\ Live(f) \in 0..1 /\ Live(f)' \in 0..1
      /\ Load(f)' = Live(f)' + Cardinality(Working(f)')
  BY DEF Load, Live
<1>4. CASE job'[f] = job[f] /\ ~Holds(call[c], f)
  <2>1. \A d \in Call : Holds(call'[d], f) <=> Holds(call[d], f)
    BY <1>1, <1>4
  <2>2. Live(f)' = Live(f)
    BY <1>4, <2>1 DEF Live
  <2>3. Settled(f)' => Settled(f)
    BY <1>1, <1>4 DEF Settled
  <2> QED BY <1>2, <1>3, <2>2, <2>3 DEF Lighter
<1>5. CASE job'[f] = job[f] /\ faults' = faults + 1
  <2>1. Settled(f)' => Settled(f)
    BY <1>1, <1>5 DEF Settled
  <2> QED BY <1>2, <1>3, <1>5, <2>1 DEF Lighter
<1>6. CASE job'[f].status = "none" /\ Holds(call[c], f) /\ call[c].pc = "completing"
  <2>1. Settles(call[c], f)
    BY <1>6 DEF Settles
  <2>2. Settled(f) /\ Live(f)' = 0
    BY <1>6, <2>1 DEF Settled, Live
  <2> QED BY <1>2, <1>3, <2>2 DEF Lighter
<1>7. CASE job'[f].status = "none" /\ Works(call[c], f)
  <2>1. Live(f)' = 0
    BY <1>7 DEF Live
  <2> QED BY <1>2, <1>3, <1>7, <2>1 DEF Lighter
<1>8. CASE job'[f].status = "pending" /\ Works(call[c], f)
  <2>1. Settled(f)' => Settled(f)
    BY <1>1, <1>8 DEF Settled
  <2> QED BY <1>2, <1>3, <1>8, <2>1 DEF Lighter
<1> QED BY <1>4, <1>5, <1>6, <1>7, <1>8

LEMMA RowSettings ==
  /\ NoJob \in JobRow /\ NoJob.status = "none"
  /\ \A r \in JobRow, s \in {"none", "pending", "active"} :
       [r EXCEPT !.status = s] \in JobRow /\ [r EXCEPT !.status = s].status = s
BY DEF NoJob, JobRow

LEMMA EndingKeeps ==
  ASSUME IndInv, NEW c \in Call, CompleteJob(c) \/ FailJob(c) \/ Crash(c) PROVE IndInv'
<1> DEFINE g == call[c].fu
<1>0. /\ Rows /\ Calls /\ Counters /\ g \in FollowUp /\ call[c] \in Dispatch
      /\ \A f \in FollowUp : job[f] \in JobRow
      /\ faults \in Nat /\ MaxFaults \in Nat
  BY Facts, BoundsAssumption DEF Rows, Counters
<1>1. Ends(c) /\ UNCHANGED <<task, held, replies, holds>>
  BY DEF CompleteJob, FailJob, Crash, Ends, domain, policy
<1>2. job' \in [FollowUp -> JobRow] /\ faults' \in 0..MaxFaults /\ faults' - faults \in Nat
      /\ faults <= faults'
  <2>1. faults' \in 0..MaxFaults /\ (faults' = faults \/ faults' = faults + 1)
    BY <1>0 DEF CompleteJob, FailJob, Crash, Counters
  <2> DEFINE new == [job[g] EXCEPT !.status = "pending"]
  <2>2. new \in JobRow /\ NoJob \in JobRow
    BY <1>0, RowSettings
  <2>3. \/ job' = job
        \/ job' = [job EXCEPT ![g] = NoJob]
        \/ job' = [job EXCEPT ![g] = new]
    BY <1>0 DEF CompleteJob, FailJob, Crash, Rows
  <2> HIDE DEF new, g
  <2>4. job' \in [FollowUp -> JobRow]
    BY <1>0, <2>2, <2>3 DEF Rows
  <2>5. faults' - faults \in Nat /\ faults <= faults'
    <3>1. faults \in Nat
      BY <1>0
    <3>2. CASE faults' = faults
      BY <3>1, <3>2
    <3>3. CASE faults' = faults + 1
      BY <3>1, <3>3
    <3> QED BY <2>1, <3>2, <3>3
  <2> QED BY <2>1, <2>4, <2>5
<1>3. TypeOK' /\ call'[c].pc = "idle" /\ \A d \in Call \ {c} : call'[d] = call[d]
  BY <1>1, <1>2, EndTyped
<1>4. OneTaker' /\ Backed'
  BY <1>1, <1>3, EndKeeps
<1>5. ASSUME NEW f \in FollowUp PROVE Lighter(f)
  <2>1. CASE CompleteJob(c)
    <3>1. call[c].pc = "completing"
      BY <2>1 DEF CompleteJob
    <3>2. \/ job'[f] = job[f] /\ ~Holds(call[c], f)
          \/ Holds(call[c], f) /\ job'[f].status = "none"
      <4>1. CASE call[c].mine /\ f = g
        <5>1. job'[f] = NoJob
          BY <1>0, <2>1, <4>1 DEF CompleteJob, Rows
        <5> QED BY <3>1, <4>1, <5>1, RowSettings DEF Holds
      <4>2. CASE ~(call[c].mine /\ f = g)
        <5>1. job'[f] = job[f]
          BY <1>0, <2>1, <4>2 DEF CompleteJob, Rows
        <5> QED BY <4>2, <5>1 DEF Holds
      <4> QED BY <4>1, <4>2
    <3> QED BY <1>0, <1>1, <1>2, <1>3, <3>1, <3>2, EndLighter
  <2>2. CASE FailJob(c)
    <3>1. call[c].pc = "failing"
      BY <2>2 DEF FailJob
    <3>2. \/ job'[f] = job[f] /\ ~Holds(call[c], f)
          \/ Holds(call[c], f) /\ job'[f].status \in {"none", "pending"} /\ Works(call[c], f)
      <4>1. CASE call[c].mine /\ f = g
        <5>1. job'[f] = NoJob \/ job'[f] = [job[f] EXCEPT !.status = "pending"]
          BY <1>0, <2>2, <4>1 DEF FailJob, Rows
        <5>2. job'[f].status \in {"none", "pending"}
          <6> HIDE DEF g
          <6>1. job[f] \in JobRow /\ [job[f] EXCEPT !.status = "pending"].status = "pending"
            BY <1>0, RowSettings
          <6> QED BY <5>1, <6>1, RowSettings
        <5> QED BY <3>1, <4>1, <5>2 DEF Holds, Works
      <4>2. CASE ~(call[c].mine /\ f = g)
        <5>1. job'[f] = job[f]
          BY <1>0, <2>2, <4>2 DEF FailJob, Rows
        <5> QED BY <4>2, <5>1 DEF Holds
      <4> QED BY <4>1, <4>2
    <3> QED BY <1>0, <1>1, <1>2, <1>3, <3>1, <3>2, EndLighter
  <2>3. CASE Crash(c)
    <3>1. call[c].pc # "idle" /\ job' = job /\ faults' = faults + 1
      BY <2>3 DEF Crash
    <3> QED BY <1>0, <1>1, <1>2, <1>3, <3>1, EndLighter
  <2> QED BY <2>1, <2>2, <2>3
<1>6. Loaded'
  BY <1>1, <1>2, <1>3, <1>5, LighterKeeps DEF Ends
<1> QED BY <1>3, <1>4, <1>6 DEF IndInv

-----------------------------------------------------------------------------
(* The scanner and the queue. *)

(* Only follow-ups with attempts left enter the batch.                     *)
LEMMA ScanKeeps == ASSUME IndInv, NEW f \in FollowUp, ScanDue(f) PROVE IndInv'
<1>0. Rows /\ Calls /\ Tables /\ Counters /\ faults \in Nat /\ MaxTries \in Nat
  BY Named, BoundsAssumption DEF IndInv, Counters
<1>1. UNCHANGED <<task, fu, held, replies, holds, job, call, dedup, dispatched, faults>>
  BY DEF ScanDue, domain, policy
<1>2. TypeOK'
  <2>1. scanned' \subseteq FollowUp
    BY <1>0 DEF ScanDue, Counters
  <2> QED BY <1>0, <1>1, <2>1, TypesBack DEF Rows, Calls, Tables, Counters
<1>3. OneTaker'
  <2>1. Unasked
    BY <1>1 DEF Unasked, At, Key
  <2> QED BY <2>1, UnaskedKeeps DEF IndInv
<1>4. \A g \in FollowUp : Working(g)' = Working(g) /\ Marking(g)' = Marking(g)
  BY <1>1, NoneMoves
<1>5. Backed'
  BY <1>1, <1>4 DEF IndInv, Backed, Asked, Inquiries
<1>6. Loaded'
  <2>1. \A g \in FollowUp : Load(g)' = Load(g) /\ Settled(g)' = Settled(g) /\ Load(g) \in Nat
    <3>1. \A g \in FollowUp : Live(g)' = Live(g) /\ Settled(g)' = Settled(g) /\ Live(g) \in Nat
      BY <1>1 DEF Live, Settled
    <3> QED BY <1>4, <3>1, PartSizes DEF Load
  <2>2. /\ Batch(f)' <= 1
        /\ \A g \in FollowUp \ {f} : Batch(g)' = Batch(g)
    BY DEF Batch, ScanDue
  <2>3. fu[f].tries < MaxTries /\ fu[f].tries \in Nat /\ Batch(f)' \in Nat
    BY <1>0 DEF ScanDue, Askable, Rows, FollowUpRow, Batch
  <2>4. fu[f].tries + Batch(f)' + Load(f) <= MaxTries + 1 + faults
    BY <1>0, <2>1, <2>2, <2>3 DEF IndInv, Loaded
  <2>5. \A g \in FollowUp : fu'[g].tries + Batch(g)' + Load(g)' <= MaxTries + 1 + faults'
    BY <1>1, <2>1, <2>2, <2>4 DEF IndInv, Loaded
  <2> QED BY <1>1, <2>1, <2>5 DEF IndInv, Loaded
<1> QED BY <1>2, <1>3, <1>5, <1>6 DEF IndInv

(* The scanner adds a job where there is none, so nothing works on one.    *)
LEMMA EnqueueKeeps == ASSUME IndInv, NEW f \in FollowUp, EnqueueScanned(f) PROVE IndInv'
<1>0. /\ TypeOK /\ Rows /\ Calls /\ Tables /\ Counters /\ faults \in Nat /\ Loaded
      /\ \A d \in Call : call[d] \in Dispatch
  BY Named DEF IndInv, Counters, Calls
<1>1. UNCHANGED <<task, fu, held, replies, holds, dedup, dispatched, faults>>
  BY DEF EnqueueScanned, domain, policy
<1> DEFINE new == [status |-> "pending", attempts |-> 0]
<1>2. job' = job \/ (job[f].status = "none" /\ job' = [job EXCEPT ![f] = new])
  BY DEF EnqueueScanned
<1>3. new \in JobRow /\ new.status = "pending"
  BY DEF JobRow
<1> HIDE DEF new
<1>4. /\ Calls'
      /\ \A d \in Call :
           /\ call'[d].pc = call[d].pc /\ call'[d].fu = call[d].fu /\ call'[d].try = call[d].try
           /\ call'[d] = call[d] \/ (call[d].fu = f /\ ~call'[d].mine)
      /\ job[f].status = "none" => \A d \in Call : call'[d].fu = f => ~call'[d].mine
      /\ job[f].status # "none" => call' = call /\ job' = job
  <2>1. CASE job[f].status = "none"
    <3> DEFINE lost(d) == IF call[d].fu = f THEN [call[d] EXCEPT !.mine = FALSE] ELSE call[d]
    <3>1. call' = [d \in Call |-> lost(d)]
      BY <2>1 DEF EnqueueScanned
    <3>2. \A d \in Call : /\ lost(d) \in Dispatch /\ lost(d).pc = call[d].pc
                          /\ lost(d).fu = call[d].fu /\ lost(d).try = call[d].try
                          /\ call[d].fu = f => lost(d).mine = FALSE
                          /\ call[d].fu # f => lost(d) = call[d]
      BY <1>0, Marks
    <3> HIDE DEF lost
    <3> QED BY <2>1, <3>1, <3>2 DEF Calls
  <2>2. CASE job[f].status # "none"
    BY <1>0, <2>2 DEF EnqueueScanned, Calls
  <2> QED BY <2>1, <2>2
<1>5. TypeOK'
  <2>1. job' \in [FollowUp -> JobRow]
    BY <1>0, <1>2, <1>3 DEF Rows
  <2>2. scanned' \subseteq FollowUp
    BY <1>0 DEF EnqueueScanned, Counters
  <2> QED BY <1>0, <1>1, <1>4, <2>1, <2>2, TypesBack DEF Rows, Tables, Counters
<1>6. OneTaker'
  <2>1. Unasked
    BY <1>1, <1>4 DEF Unasked, At, Key
  <2> QED BY <2>1, UnaskedKeeps DEF IndInv
<1>7. \A g \in FollowUp : Working(g)' = Working(g) /\ Marking(g)' = Marking(g)
  BY <1>4, NoneMoves
<1>8. Backed'
  BY <1>1, <1>7 DEF IndInv, Backed, Asked, Inquiries
<1>9. Loaded'
  <2>1. ASSUME NEW g \in FollowUp, g # f \/ job[f].status # "none"
        PROVE  Load(g)' = Load(g) /\ Settled(g)' = Settled(g)
    <3>1. job'[g] = job[g]
      BY <1>0, <1>2, <2>1 DEF Rows
    <3>2. \A d \in Call : call'[d] = call[d] \/ (call[d].fu # g /\ call'[d].fu # g)
      BY <1>4, <2>1
    <3>3. \A d \in Call : Holds(call'[d], g) <=> Holds(call[d], g)
      BY <3>2 DEF Holds
    <3>4. \A d \in Call : Settles(call'[d], g) <=> Settles(call[d], g)
      BY <1>4, <3>3 DEF Settles
    <3>5. Live(g)' = Live(g)
      BY <3>1, <3>3 DEF Live
    <3>6. Settled(g)' = Settled(g)
      BY <3>1, <3>4 DEF Settled
    <3> QED BY <1>7, <3>5, <3>6 DEF Load
  <2>2. ASSUME job[f].status = "none"
        PROVE  Load(f)' = Load(f) + 1 /\ ~Settled(f)' /\ Settled(f)
    <3>1. job'[f] = new
      BY <1>0, <2>2 DEF EnqueueScanned, Rows, new
    <3>2. \A d \in Call : ~Settles(call'[d], f)
      BY <1>4, <2>2 DEF Settles, Holds
    <3>3. Live(f)' = 1 /\ Live(f) = 0 /\ ~Settled(f)' /\ Settled(f)
      BY <1>3, <2>2, <3>1, <3>2 DEF Live, Settled
    <3>4. Cardinality(Working(f)) \in Nat
      BY PartSizes
    <3> QED BY <1>7, <3>3, <3>4 DEF Load
  <2>3. Batch(f) = 1 /\ Batch(f)' = 0 /\ \A g \in FollowUp \ {f} : Batch(g)' = Batch(g)
    BY DEF Batch, EnqueueScanned
  <2>4. \A g \in FollowUp : /\ Load(g) \in Nat /\ Batch(g) \in Nat /\ fu[g].tries \in Nat
                            /\ Cardinality(Working(g)') \in Nat
    <3>1. \A g \in FollowUp : Live(g) \in Nat /\ Batch(g) \in Nat /\ fu[g].tries \in Nat
      BY <1>0 DEF Live, Batch, Rows, FollowUpRow
    <3> QED BY <1>7, <3>1, PartSizes DEF Load
  <2>5. ASSUME NEW g \in FollowUp
        PROVE  /\ \/ Load(g)' <= Load(g) + faults' - faults
                  \/ Load(g)' <= 1 + faults'
               /\ Settled(g)' => Settled(g) /\ Load(g)' <= Load(g) + faults' - faults
               /\ fu'[g].tries + Batch(g)' + Load(g)'
                     <= fu[g].tries + Batch(g) + Load(g) + faults' - faults
    <3>1. CASE g # f
      BY <1>0, <1>1, <2>1, <2>3, <2>4, <3>1
    <3>2. CASE g = f /\ job[f].status # "none"
      BY <1>0, <1>1, <2>1, <2>3, <2>4, <3>2
    <3>3. CASE g = f /\ job[f].status = "none"
      <4>1. Load(f) <= faults
        BY <1>0, <2>2, <3>3 DEF Loaded
      <4> QED BY <1>0, <1>1, <2>2, <2>3, <2>4, <3>3, <4>1
    <3> QED BY <3>1, <3>2, <3>3
  <2>6. Rows' /\ faults' \in Nat /\ faults <= faults'
    BY <1>0, <1>1, <1>5 DEF TypeOK, Rows, FollowUpRow, JobRow
  <2> QED BY <1>0, <2>4, <2>5, <2>6, LoadKeeps
<1> QED BY <1>5, <1>6, <1>8, <1>9 DEF IndInv

(* Recovery makes a job live again: that of a dead worker was counted, and *)
(* a lapsed lease is a fault.                                              *)
LEMMA RecoverKeeps == ASSUME IndInv, NEW f \in FollowUp, RecoverStaleJob(f) PROVE IndInv'
<1>0. Rows /\ Calls /\ Tables /\ Counters /\ faults \in Nat /\ MaxFaults \in Nat /\ job[f] \in JobRow
  BY Named, BoundsAssumption DEF IndInv, Counters, Rows
<1>1. /\ UNCHANGED <<task, fu, held, replies, holds, dedup, dispatched, scanned, call>>
      /\ job[f].status = "active" /\ faults' \in 0..MaxFaults /\ faults <= faults'
      /\ faults' = faults \/ faults' = faults + 1
  BY <1>0 DEF RecoverStaleJob, Lost, domain, policy, Counters
<1>2. /\ job' \in [FollowUp -> JobRow] /\ job'[f].status = "pending"
      /\ \A g \in FollowUp \ {f} : job'[g] = job[g]
  <2> DEFINE new == [job[f] EXCEPT !.status = "pending"]
  <2>1. job' = [job EXCEPT ![f] = new]
    BY DEF RecoverStaleJob
  <2>2. new \in JobRow /\ new.status = "pending"
    BY <1>0, RowSettings
  <2> HIDE DEF new
  <2> QED BY <1>0, <2>1, <2>2 DEF Rows
<1>3. TypeOK'
  BY <1>0, <1>1, <1>2, TypesBack DEF Rows, Calls, Tables, Counters
<1>4. OneTaker'
  <2>1. Unasked
    BY <1>1 DEF Unasked, At, Key
  <2> QED BY <2>1, UnaskedKeeps DEF IndInv
<1>5. \A g \in FollowUp : Working(g)' = Working(g) /\ Marking(g)' = Marking(g)
  BY <1>1, NoneMoves
<1>6. Backed'
  BY <1>1, <1>5 DEF IndInv, Backed, Asked, Inquiries
<1>7. faults' - faults \in Nat
  <2>1. CASE faults' = faults
    BY <1>0, <2>1
  <2>2. CASE faults' = faults + 1
    BY <1>0, <2>2
  <2> QED BY <1>1, <2>1, <2>2
<1>8. ASSUME NEW g \in FollowUp PROVE Lighter(g)
  <2>1. Settled(g)' => Settled(g)
    BY <1>1, <1>2 DEF Settled
  <2>2. Live(g)' <= Live(g) + faults' - faults /\ Live(g) \in Nat /\ Live(g)' \in Nat
    <3>1. CASE g # f
      <4>1. Live(g)' = Live(g)
        BY <1>1, <1>2, <3>1 DEF Live
      <4>2. Live(g) \in Nat
        BY DEF Live
      <4> QED BY <1>7, <4>1, <4>2
    <3>2. CASE g = f /\ Abandoned(f)
      <4>1. \A d \in Call : ~Holds(call[d], f)
        BY <3>2 DEF Abandoned, Holds
      <4>2. Live(f) = 1 /\ Live(f)' = 1
        BY <1>1, <1>2, <4>1 DEF Live
      <4> QED BY <1>7, <3>2, <4>2
    <3>3. CASE g = f /\ ~Abandoned(f)
      <4>1. faults' = faults + 1
        BY <3>3 DEF RecoverStaleJob
      <4> QED BY <1>0, <4>1 DEF Live
    <3> QED BY <3>1, <3>2, <3>3
  <2> QED BY <1>0, <1>1, <1>5, <2>1, <2>2, PartSizes DEF Lighter, Load
<1>9. Loaded'
  BY <1>1, <1>3, <1>8, LighterKeeps
<1> QED BY <1>3, <1>4, <1>6, <1>9 DEF IndInv

(* A claimed job is a call at work instead.                                *)
LEMMA ClaimKeeps ==
  ASSUME IndInv, NEW c \in Call, NEW f \in FollowUp, ClaimJob(c, f) PROVE IndInv'
<1> DEFINE r == [pc |-> "reading", fu |-> f, try |-> 0, mine |-> TRUE]
<1>0. /\ Rows /\ Calls /\ Tables /\ Counters /\ faults \in Nat /\ job[f] \in JobRow
      /\ job[f].attempts + 1 \in Nat
  BY Named DEF IndInv, Counters, Rows, JobRow
<1>1. /\ UNCHANGED <<task, fu, held, replies, holds, dedup, dispatched, scanned, faults>>
      /\ job[f].status = "pending" /\ call[c].pc = "idle"
  BY DEF ClaimJob, domain, policy
<1>2. r \in Dispatch /\ r.pc = "reading" /\ r.fu = f /\ r.mine
  BY DEF Dispatch, Place
<1>3. call' = [call EXCEPT ![c] = r]
  BY DEF ClaimJob
<1> HIDE DEF r
<1>4. Calls' /\ call'[c] = r /\ \A d \in Call \ {c} : call'[d] = call[d]
  BY <1>0, <1>2, <1>3, Replaced
<1>5. /\ job' \in [FollowUp -> JobRow] /\ job'[f].status = "active"
      /\ \A g \in FollowUp \ {f} : job'[g] = job[g]
  <2> DEFINE new == [[job[f] EXCEPT !.status = "active"] EXCEPT !.attempts = job[f].attempts + 1]
  <2>1. job' = [job EXCEPT ![f] = new]
    BY <1>0 DEF ClaimJob, Rows, JobRow
  <2>2. new \in JobRow /\ new.status = "active"
    BY <1>0 DEF JobRow
  <2> HIDE DEF new
  <2> QED BY <1>0, <2>1, <2>2 DEF Rows
<1>6. TypeOK'
  BY <1>0, <1>1, <1>4, <1>5, TypesBack DEF Rows, Tables, Counters
<1>7. OneTaker'
  <2>1. Unasked
    BY <1>1, <1>2, <1>4 DEF Unasked, At, Key
  <2> QED BY <2>1, UnaskedKeeps DEF IndInv
<1>8. \A g \in FollowUp :
        /\ ~Counts(call[c], g) /\ ~Counts(call'[c], g)
        /\ ~Works(call[c], g) /\ (Works(call'[c], g) <=> g = f)
        /\ ~Holds(call[c], g) /\ (Holds(call'[c], g) <=> g = f)
        /\ ~Settles(call'[c], g)
  BY <1>1, <1>2, <1>4 DEF Counts, Works, Holds, Settles
<1>9. \A g \in FollowUp :
        /\ Cardinality(Working(g)') = Cardinality(Working(g)) + (IF g = f THEN 1 ELSE 0)
        /\ Cardinality(Marking(g)') = Cardinality(Marking(g))
        /\ Cardinality(Working(g)) \in Nat
  BY <1>4, <1>8, OneMoves, PartSizes
<1>10. Backed'
  BY <1>1, <1>9 DEF IndInv, Backed, Asked, Inquiries
<1>11. ASSUME NEW g \in FollowUp PROVE Lighter(g)
  <2>1. \A d \in Call : Settles(call'[d], g) => Settles(call[d], g)
    BY <1>4, <1>8
  <2>2. Settled(g)' => Settled(g)
    BY <1>5, <2>1 DEF Settled
  <2>3. Load(g)' = Load(g) /\ Load(g) \in Nat
    <3>1. CASE g # f
      <4>1. \A d \in Call : Holds(call'[d], g) <=> Holds(call[d], g)
        BY <1>4, <1>8, <3>1
      <4>2. Live(g)' = Live(g) /\ Live(g) \in Nat
        BY <1>5, <3>1, <4>1 DEF Live
      <4> QED BY <1>9, <3>1, <4>2 DEF Load
    <3>2. CASE g = f
      <4>1. Live(f) = 1 /\ Live(f)' = 0
        BY <1>1, <1>5, <1>8 DEF Live
      <4> QED BY <1>9, <3>2, <4>1 DEF Load
    <3> QED BY <3>1, <3>2
  <2> QED BY <1>0, <1>1, <2>2, <2>3 DEF Lighter
<1>12. Loaded'
  BY <1>0, <1>1, <1>6, <1>11, LighterKeeps
<1> QED BY <1>6, <1>7, <1>10, <1>12 DEF IndInv

-----------------------------------------------------------------------------
(* The theorems. *)

LEMMA InitKeeps == Init => IndInv
<1> SUFFICES ASSUME Init PROVE IndInv
  OBVIOUS
<1>1. TypeOK
  <2>1. NewFollowUp \in FollowUpRow /\ NoJob \in JobRow /\ Idle \in Dispatch
    BY RowSettings, IdleTyped DEF NewFollowUp, FollowUpRow
  <2>2. Rows /\ Calls
    BY <2>1 DEF Init, Rows, Calls
  <2>3. Counters
    <3>1. held \in BOOLEAN /\ task \in {"open", "done", "missed"} /\ scanned \subseteq FollowUp
      BY Zenon DEF Init
    <3>2. replies = 0 /\ holds = 0 /\ faults = 0
      BY DEF Init
    <3> QED BY <3>1, <3>2, BoundsAssumption DEF Counters
  <2>4. dedup \in [{} -> Outcome] /\ dispatched \in [{} -> Nat]
    BY DEF Init
  <2>5. Tables
    <3>1. DOMAIN dedup = {} /\ DOMAIN dispatched = {}
      BY <2>4
    <3> QED BY <2>4, <3>1 DEF Tables
  <2> QED BY <2>2, <2>3, <2>5, Named
<1>2. /\ DOMAIN dispatched = {} /\ \A c \in Call : call[c].pc = "idle"
      /\ \A f \in FollowUp : fu[f].tries = 0 /\ job[f].status = "none"
      /\ scanned = {} /\ faults = 0
  BY IdleTyped DEF Init, NewFollowUp, NoJob
<1>3. \A f \in FollowUp : Working(f) = {} /\ Marking(f) = {} /\ Inquiries(f) = {}
  BY <1>2 DEF Working, Marking, Works, Counts, Inquiries
<1>4. Cardinality({}) = 0 /\ IsFiniteSet({})
  BY FS_EmptySet
<1>5. OneTaker
  BY <1>2 DEF OneTaker, Delivering, At
<1>6. Backed
  <2>1. \A f \in FollowUp : /\ fu[f].tries = 0 /\ Asked(f) = 0
                            /\ Cardinality(Marking(f)) = 0
    BY <1>2, <1>3, <1>4 DEF Asked
  <2> QED BY <1>2, <1>4, <2>1 DEF Backed
<1>7. Loaded
  <2>1. \A f \in FollowUp : Live(f) = 0 /\ Batch(f) = 0 /\ fu[f].tries = 0
    BY <1>2 DEF Live, Batch
  <2>2. \A f \in FollowUp : Load(f) = 0
    <3>1. \A f \in FollowUp : Cardinality(Working(f)) = 0
      BY <1>3, <1>4
    <3> QED BY <2>1, <3>1 DEF Load
  <2>3. MaxTries \in Nat /\ faults = 0
    BY <1>2, BoundsAssumption
  <2> QED BY <2>1, <2>2, <2>3 DEF Loaded
<1> QED BY <1>1, <1>5, <1>6, <1>7 DEF IndInv

LEMMA NextKeeps == IndInv /\ [Next]_vars => IndInv'
<1> SUFFICES ASSUME IndInv, [Next]_vars PROVE IndInv'
  OBVIOUS
<1>1. CASE UserStep \/ Hold \/ Release
  BY <1>1, UserKeeps, PolicyKeeps
<1>2. ASSUME NEW f \in FollowUp,
             FallDue(f) \/ ScanDue(f) \/ EnqueueScanned(f) \/ RecoverStaleJob(f)
      PROVE  IndInv'
  BY <1>2, PolicyKeeps, ScanKeeps, EnqueueKeeps, RecoverKeeps
<1>3. ASSUME NEW c \in Call, NEW f \in FollowUp, ClaimJob(c, f) PROVE IndInv'
  BY <1>3, ClaimKeeps
<1>4. ASSUME NEW c \in Call, HandlerStep(c) \/ Crash(c) \/ StatementFails(c) PROVE IndInv'
  BY <1>4, HandlerKeeps, ReserveKeeps, DeliverKeeps, EndingKeeps DEF HandlerStep
<1>5. CASE UNCHANGED vars
  <2>1. Rows /\ Counters
    BY Named DEF IndInv
  <2>2. \A f \in FollowUp : fu[f].tries <= fu[f].tries
    BY <2>1 DEF Rows, FollowUpRow
  <2> QED BY <1>5, <2>1, <2>2, SurroundingsKeep DEF vars, Rows, Counters
<1> QED BY <1>1, <1>2, <1>3, <1>4, <1>5 DEF Next

(* Keys are taken once, attempts are backed by inquiries, and the load of  *)
(* a follow-up is one job and one place in a batch.                        *)
THEOREM TakenOnce == Spec => []IndInv
BY InitKeeps, NextKeeps, PTL DEF Spec

(* No attempt of a follow-up is asked twice, however many calls, jobs,     *)
(* retries, crashes and answers there are.                                 *)
THEOREM OneDispatchPerTryHolds == Spec => []OneDispatchPerTry
<1>1. IndInv => OneDispatchPerTry
  BY DEF IndInv, OneTaker, OneDispatchPerTry
<1> QED BY <1>1, TakenOnce, PTL

(* attempt_count counts only inquiries that were made, and passes          *)
(* max_attempts by one and one per fault at most.                          *)
THEOREM CountsBackedHolds == Spec => []CountsBacked
<1>1. ASSUME IndInv, NEW f \in FollowUp
      PROVE  fu[f].tries <= Asked(f) /\ fu[f].tries <= MaxTries + 1 + faults
  <2>1. Rows /\ faults \in Nat /\ MaxTries \in Nat
    BY <1>1, Named, BoundsAssumption DEF IndInv, Counters
  <2>2. fu[f].tries \in Nat /\ Cardinality(Marking(f)) \in Nat /\ Load(f) \in Nat /\ Batch(f) \in Nat
    <3>1. Live(f) \in Nat /\ Batch(f) \in Nat /\ fu[f].tries \in Nat
      BY <2>1 DEF Live, Batch, Rows, FollowUpRow
    <3> QED BY <3>1, PartSizes DEF Load
  <2>3. IsFiniteSet(Inquiries(f))
    BY <1>1, FS_Subset DEF Inquiries, IndInv, Backed
  <2>4. Asked(f) \in Nat
    BY <2>3, FS_CardinalityType DEF Asked
  <2>5. /\ fu[f].tries + Cardinality(Marking(f)) <= Asked(f)
        /\ fu[f].tries + Batch(f) + Load(f) <= MaxTries + 1 + faults
    BY <1>1 DEF IndInv, Backed, Loaded
  <2> QED BY <2>1, <2>2, <2>4, <2>5
<1>2. IndInv => CountsBacked
  BY <1>1 DEF CountsBacked, TriesBacked, TriesBounded, IndInv
<1> QED BY <1>2, TakenOnce, PTL
=============================================================================
