--------------------------- MODULE CalendarProofs ---------------------------
(***************************************************************************)
(* Proofs about Calendar: whatever operations overlap, fail or are left    *)
(* behind, an active account holds its tokens, a disconnected one has lost *)
(* its refresh token, an address has one row, and only a consent makes an  *)
(* account active again.                                                   *)
(*                                                                         *)
(* The argument: an operation takes its tokens from an account that was    *)
(* active, so they are a consent (OperationsSound), and afterwards it only *)
(* writes an access token or takes "active" away.  A row that is inserted  *)
(* is one that nobody has, nor is about to insert (InsertionsApart).       *)
(*                                                                         *)
(* And events: while a commitment has a linked event a push finds it, and  *)
(* while it has none one push may make it; each call that may make one, or *)
(* links one that is deleted already, beyond that is paid for by a fault   *)
(* or an overlap (PushInv).                                                *)
(*                                                                         *)
(* And about Availability: the answers to a question are exact.  What was  *)
(* taken so far and the merged intervals cover the same points, a gap      *)
(* between merged intervals has no busy point, and behind the pointer no   *)
(* place for a slot is left (SearchInv).                                   *)
(***************************************************************************)
EXTENDS Calendar, Availability, FiniteSetTheorems, WellFoundedInduction, TLAPS

(* The deletions of a calendar up to the n-th were handed on, or left out  *)
(* of a complete answer.                                                   *)
Settled(a, n) == \A i \in 1..n : changes[a][i] \in handed \cup covered
Passed(a, n) == n <= Len(changes[a]) /\ Settled(a, n)

(* What a call goes on with: a consent that was given, an account, a sync  *)
(* token that skipped nothing, and an event that exists.                   *)
Sound(c) ==
  /\ call[c].access \in 1..grants
  /\ call[c].pc = "save" => call[c].from = -1
  /\ call[c].pc # "save" => row[call[c].acc].status # "absent"
  /\ call[c].pc # "save" => /\ call[c].acc \in Account
                            /\ Passed(call[c].acc, call[c].from)
  /\ call[c].pc \in {"link", "stamp", "unlink"} \/ call[c].op = "delete" =>
       call[c].event # None
  /\ call[c].event # None => event[call[c].event] # NoEvent
  /\ call[c].pc \in {"look", "link"} => call[c].op = "push"
  /\ call[c].op = "push" => call[c].task \in Task
  /\ call[c].pc = "hand" => /\ call[c].from \in 0..call[c].upto
                            /\ call[c].upto <= Len(changes[call[c].acc])
                            /\ call[c].next \in {-1, call[c].upto}
  /\ call[c].pc = "token" => call[c].next = call[c].from

OperationsSound == \A c \in Call : call[c] # Idle => Sound(c)

(* A row is free until its consent is given, and until the call that was   *)
(* given it has saved it.                                                  *)
InsertionsApart ==
  /\ \A a \in Account : row[a].refresh <= grants
  /\ \A a \in Account : a > grants => row[a].status = "absent"
  /\ \A c \in Call : At(c, "save") => row[call[c].access].status = "absent"
  /\ \A c, d \in Call :
       At(c, "save") /\ At(d, "save") /\ call[c].access = call[d].access => c = d

TokensSound == \A a \in Account : Passed(a, token[a])

Secure == ActiveHoldsToken /\ RefreshForgotten /\ OneRowPerEmail

IndInv == TypeOK /\ OperationsSound /\ InsertionsApart /\ TokensSound /\ Secure

Calls == [Call -> Operation \cup {Idle}]

Pc == {"save", "discover", "look", "authorize", "persist", "request", "link",
       "stamp", "unlink", "insert", "hand", "token", "last", "mark"}

(* An operation that is not idle has all its fields; Idle has only one.    *)
LEMMA CallForms ==
  ASSUME call \in Calls, NEW c \in Call
  PROVE  /\ call[c] = Idle <=> call[c].pc = "idle"
         /\ call[c] # Idle => call[c] \in Operation /\ call[c].pc \in Pc
<1>1. Idle.pc = "idle"
  BY DEF Idle
<1>2. ASSUME NEW x \in Operation PROVE x.pc \in Pc /\ x.pc # "idle"
  BY <1>2 DEF Operation, Pc
<1>3. call[c] \in Operation \/ call[c] = Idle
  BY DEF Calls
<1>4. CASE call[c] = Idle
  BY <1>1, <1>4
<1>5. CASE call[c] \in Operation
  BY <1>1, <1>2, <1>5
<1> QED BY <1>3, <1>4, <1>5

(* Going on at another step changes the step only. *)
LEMMA ContinueForms ==
  ASSUME call \in Calls, NEW c \in Call, call[c] # Idle, NEW pc \in Pc, Continue(c, pc)
  PROVE  /\ call' \in Calls
         /\ call'[c] = [call[c] EXCEPT !.pc = pc]
         /\ call'[c] # Idle /\ call'[c].pc = pc
         /\ call'[c].access = call[c].access /\ call'[c].acc = call[c].acc
         /\ call'[c].event = call[c].event
         /\ \A d \in Call \ {c} : call'[d] = call[d]
<1>1. call[c] \in Operation
  BY CallForms
<1>2. [call[c] EXCEPT !.pc = pc] \in Operation
  BY <1>1 DEF Operation, Pc
<1>3. call' = [call EXCEPT ![c] = [call[c] EXCEPT !.pc = pc]]
  BY DEF Continue
<1>4. call'[c] = [call[c] EXCEPT !.pc = pc] /\ \A d \in Call \ {c} : call'[d] = call[d]
  BY <1>3 DEF Calls
<1>5. call' \in Calls
  BY <1>2, <1>3 DEF Calls
<1>6. /\ call'[c].pc = pc /\ call'[c].access = call[c].access
      /\ call'[c].acc = call[c].acc /\ call'[c].event = call[c].event
  BY <1>1, <1>4 DEF Operation
<1>7. call'[c] # Idle
  BY <1>5, <1>6, CallForms DEF Pc, Idle
<1> QED BY <1>4, <1>5, <1>6, <1>7

LEMMA EndForms ==
  ASSUME call \in Calls, NEW c \in Call, End(c)
  PROVE  /\ call' \in Calls /\ call'[c] = Idle
         /\ \A d \in Call \ {c} : call'[d] = call[d]
BY DEF Calls, End

LEMMA OpenedForms ==
  ASSUME IndInv, NEW op \in Op, NEW a \in Account, Active(a)
  PROVE  /\ Opened(op, a) \in Operation
         /\ Opened(op, a).access \in 1..grants
         /\ Opened(op, a).acc = a /\ Opened(op, a).pc = "authorize"
         /\ Opened(op, a).op = op /\ Opened(op, a).event = None
         /\ Opened(op, a).from \in {-1, token[a]}
<1>1. row[a].refresh \in Grant /\ row[a] \in Row
  BY DEF IndInv, TypeOK, Secure, ActiveHoldsToken, Row, None
<1>2. token[a] \in {-1} \cup Nat
  BY DEF IndInv, TypeOK
<1> DEFINE from == IF op = "reconcile" THEN token[a] ELSE -1
<1>3. Opened(op, a) =
        [pc |-> "authorize", op |-> op, task |-> NoTask, event |-> None,
         acc |-> a, access |-> row[a].refresh, email |-> NoEmail,
         from |-> from, upto |-> 0, next |-> -1, tries |-> 0]
  BY DEF Opened, Started
<1>6. from \in {-1, token[a]}
  OBVIOUS
<1> HIDE DEF from
<1>4. Opened(op, a) \in Operation
  BY <1>1, <1>2, <1>3, <1>6, CalendarAssumption DEF Operation
<1>5. row[a].refresh <= grants
  BY <1>1 DEF IndInv, InsertionsApart
<1>7. row[a].refresh \in 1..grants
  BY <1>1, <1>5 DEF Grant, IndInv, TypeOK
<1> QED BY <1>3, <1>4, <1>6, <1>7

(* What a step did keeps the invariant: rows are neither inserted nor      *)
(* deleted, no event is forgotten, deletions are only added, tokens do not *)
(* skip any, and a call goes on as it was, or soundly, or ends.            *)
LEMMA Kept ==
  ASSUME IndInv, TypeOK', Secure', grants' = grants,
         \A a \in Account : /\ row'[a].status = "absent" <=> row[a].status = "absent"
                            /\ row'[a].refresh <= grants,
         \A e \in Event : event[e] # NoEvent => event'[e] # NoEvent,
         \A a \in Account : /\ Len(changes[a]) <= Len(changes'[a])
                            /\ \A i \in 1..Len(changes[a]) : changes'[a][i] = changes[a][i],
         handed \cup covered \subseteq handed' \cup covered',
         \A a \in Account : token'[a] = token[a] \/ Passed(a, token'[a]),
         \A d \in Call : \/ call'[d] = call[d] \/ call'[d] = Idle
                         \/ call'[d].pc # "save" /\ Sound(d)'
  PROVE  IndInv'
<1> USE DEF IndInv
<1>1. \A a \in Account, n \in Int : Passed(a, n) => Passed(a, n)'
  <2> TAKE a \in Account, n \in Int
  <2> HAVE Passed(a, n)
  <2>1. changes[a] \in Seq(Event) /\ changes'[a] \in Seq(Event)
    BY DEF TypeOK
  <2>2. n <= Len(changes[a]) /\ n <= Len(changes'[a])
    BY <2>1 DEF Passed
  <2>3. ASSUME NEW i \in 1..n PROVE changes'[a][i] \in handed' \cup covered'
    <3>1. i \in 1..Len(changes[a])
      BY <2>1, <2>2
    <3> QED BY <3>1 DEF Passed, Settled
  <2> QED BY <2>2, <2>3 DEF Passed, Settled
<1>2. OperationsSound'
  <2> SUFFICES ASSUME NEW d \in Call, call'[d] # Idle PROVE Sound(d)'
    BY DEF OperationsSound
  <2>1. CASE call'[d] # call[d]
    BY <2>1
  <2>2. CASE call'[d] = call[d]
    <3>1. call'[d] = call[d] /\ Sound(d)
      BY <2>2 DEF OperationsSound
    <3>2. call[d] \in Operation
      BY <3>1 DEF TypeOK
    <3>3. call[d].from \in Int /\ call[d].upto \in Nat /\ call[d].event \in {None} \cup Event
      BY <3>2 DEF Operation
    <3>4. call[d].pc # "save" => Passed(call[d].acc, call[d].from)'
      BY <1>1, <3>1, <3>3 DEF Sound
    <3>5. call[d].event # None => event'[call[d].event] # NoEvent
      BY <3>1, <3>3 DEF Sound
    <3>6. call[d].pc = "hand" => call[d].upto <= Len(changes'[call[d].acc])
      <4> SUFFICES ASSUME call[d].pc = "hand"
                   PROVE  call[d].upto <= Len(changes'[call[d].acc])
        OBVIOUS
      <4>1. call[d].acc \in Account /\ call[d].upto <= Len(changes[call[d].acc])
        BY <3>1 DEF Sound
      <4>2. Len(changes[call[d].acc]) \in Nat /\ Len(changes'[call[d].acc]) \in Nat
        BY <4>1 DEF TypeOK
      <4> QED BY <3>3, <4>1, <4>2
    <3>7. call[d].pc # "save" => row'[call[d].acc].status # "absent"
      BY <3>1 DEF Sound
    <3> QED BY <3>1, <3>4, <3>5, <3>6, <3>7 DEF Sound
  <2> QED BY <2>1, <2>2
<1>3. InsertionsApart'
  <2>1. ASSUME NEW d \in Call, At(d, "save")' PROVE At(d, "save") /\ call'[d] = call[d]
    BY <2>1 DEF At, Idle
  <2>2. \A d \in Call : At(d, "save") => call[d].access \in Account
    <3> SUFFICES ASSUME NEW d \in Call, At(d, "save") PROVE call[d].access \in Account
      OBVIOUS
    <3>1. call[d] # Idle
      BY DEF At, Idle
    <3>2. call[d].access \in 1..grants /\ grants \in 0..MaxGrants
      BY <3>1 DEF OperationsSound, Sound, TypeOK
    <3> QED BY <3>2, CalendarAssumption DEF Account
  <2> QED BY <2>1, <2>2 DEF InsertionsApart, At
<1>4. TokensSound'
  <2> SUFFICES ASSUME NEW a \in Account PROVE Passed(a, token[a])'
    BY DEF TokensSound
  <2>1. Passed(a, token'[a])
    BY DEF TokensSound
  <2>2. token'[a] \in Int
    BY DEF TypeOK
  <2> QED BY <1>1, <2>1, <2>2
<1> QED BY <1>2, <1>3, <1>4

(* A call that only goes on, with the fields it has. *)
LEMMA ContinueKept ==
  ASSUME IndInv, TypeOK', NEW c \in Call, call[c] # Idle, call[c].pc # "save",
         NEW pc \in Pc \ {"save", "look", "hand", "token", "link", "stamp", "unlink"},
         Continue(c, pc), Secure', grants' = grants,
         \A a \in Account : /\ row'[a].status = "absent" <=> row[a].status = "absent"
                            /\ row'[a].refresh <= grants,
         UNCHANGED <<event, changes, handed, covered>>,
         \A a \in Account : token'[a] = token[a] \/ Passed(a, token'[a])
  PROVE  IndInv'
<1>1. call \in Calls
  BY DEF IndInv, TypeOK, Calls
<1>2. /\ call'[c] = [call[c] EXCEPT !.pc = pc]
      /\ \A d \in Call \ {c} : call'[d] = call[d]
  BY <1>1, ContinueForms
<1>3. call[c] \in Operation
  BY <1>1, CallForms
<1>4. /\ call'[c].pc = pc /\ call'[c].access = call[c].access
      /\ call'[c].acc = call[c].acc /\ call'[c].event = call[c].event
      /\ call'[c].from = call[c].from /\ call'[c].op = call[c].op
      /\ call'[c].task = call[c].task
  BY <1>2, <1>3 DEF Operation
<1>5. Sound(c)
  BY DEF IndInv, OperationsSound
<1>6. Sound(c)'
  BY <1>4, <1>5 DEF Sound, Passed, Settled
<1>7. \A a \in Account : /\ Len(changes[a]) <= Len(changes'[a])
                        /\ \A i \in 1..Len(changes[a]) : changes'[a][i] = changes[a][i]
  BY DEF IndInv, TypeOK
<1> QED BY <1>2, <1>4, <1>6, <1>7, Kept

(* A call that ends, having left accounts and changes as they are. *)
LEMMA EndKept ==
  ASSUME IndInv, TypeOK', NEW c \in Call, End(c), Secure', grants' = grants,
         \A a \in Account : /\ row'[a].status = "absent" <=> row[a].status = "absent"
                            /\ row'[a].refresh <= grants,
         UNCHANGED <<event, changes, handed, covered, token>>
  PROVE  IndInv'
<1>1. call'[c] = Idle /\ \A d \in Call \ {c} : call'[d] = call[d]
  BY EndForms DEF IndInv, TypeOK, Calls
<1> QED BY <1>1, Kept

(* Rows left alone are as secure as before. *)
LEMMA RowsAlone ==
  ASSUME IndInv, row' = row, grants' = grants
  PROVE  /\ Secure'
         /\ \A a \in Account : /\ row'[a].status = "absent" <=> row[a].status = "absent"
                               /\ row'[a].refresh <= grants
BY DEF IndInv, InsertionsApart, Secure, ActiveHoldsToken, RefreshForgotten, OneRowPerEmail,
       Active, Ids

(* A fault is counted within its bound. *)
LEMMA FaultTyped ==
  ASSUME IndInv, Fault \/ NoFault
  PROVE  faults' \in 0..MaxTrouble
<1>1. IsFiniteSet(1..grants) /\ revoked \subseteq 1..grants
  BY FS_Interval DEF IndInv, TypeOK
<1>2. Cardinality(revoked) \in Nat
  BY <1>1, FS_Subset, FS_CardinalityType
<1> QED BY <1>2, CalendarAssumption DEF IndInv, TypeOK, Fault, NoFault, Trouble

(* In the beginning there are no accounts, no calls and no consents. *)
LEMMA InitEstablishes == Init => IndInv
<1> SUFFICES ASSUME Init PROVE IndInv
  OBVIOUS
<1> USE DEF Init
<1>1. NoRow \in Row
  BY DEF NoRow, Row, Status
<1>2. TypeOK
  BY <1>1, CalendarAssumption DEF TypeOK
<1>3. OperationsSound
  BY DEF OperationsSound
<1>4. InsertionsApart
  BY DEF InsertionsApart, At, Idle, NoRow, None
<1>5. TokensSound
  BY DEF TokensSound, Passed, Settled
<1>6. Secure
  BY DEF Secure, ActiveHoldsToken, RefreshForgotten, OneRowPerEmail, Active, Ids, NoRow
<1> QED BY <1>2, <1>3, <1>4, <1>5, <1>6 DEF IndInv

(* OAuthCallback: a consent no row and no call has yet. *)
LEMMA OAuthCallbackKept ==
  ASSUME IndInv, NEW c \in Call, NEW email \in Email \cup {NoEmail}, OAuthCallback(c, email)
  PROVE  IndInv'
<1> USE DEF IndInv
<1> DEFINE new == Started("save", "discover", None, email, grants + 1, -1)
<1>1. grants \in 0..MaxGrants /\ grants < MaxGrants /\ MaxGrants \in Nat /\ grants' = grants + 1
  BY CalendarAssumption DEF OAuthCallback, TypeOK
<1>2. grants + 1 \in Grant
  BY <1>1 DEF Grant
<1>3. /\ new \in Operation /\ new.pc = "save" /\ new.access = grants + 1
      /\ new.op = "discover" /\ new.event = None /\ new.from = -1
  BY <1>2, CalendarAssumption DEF Started, Operation, Op, None
<1> HIDE DEF new
<1>4. call' = [call EXCEPT ![c] = new]
  BY DEF OAuthCallback, new
<1>5. call' \in Calls /\ call'[c] = new /\ \A d \in Call \ {c} : call'[d] = call[d]
  BY <1>3, <1>4 DEF TypeOK, Calls
<1>6. UNCHANGED <<row, connected, token, lastSync, link, event, changes, removed, revoked,
                  handed, covered, faults, overlaps>> /\ begun' \in 0..MaxBegun
  BY CalendarAssumption
  DEF OAuthCallback, Begins, TypeOK, accounts, remote
<1>7. TypeOK'
  BY <1>1, <1>5, <1>6, CalendarAssumption DEF TypeOK, Calls
<1>8. OperationsSound'
  <2> SUFFICES ASSUME NEW d \in Call, call'[d] # Idle PROVE Sound(d)'
    BY DEF OperationsSound
  <2>1. CASE d = c
    BY <1>1, <1>3, <1>5, <2>1 DEF Sound
  <2>2. CASE d # c
    <3>1. call'[d] = call[d] /\ Sound(d)
      BY <1>5, <2>2 DEF OperationsSound
    <3>2. call[d].access \in 1..grants'
      BY <1>1, <3>1 DEF Sound
    <3> QED BY <1>6, <3>1, <3>2 DEF Sound, Passed, Settled
  <2> QED BY <2>1, <2>2
<1>9. InsertionsApart'
  <2>1. row'[grants + 1].status = "absent"
    BY <1>1, <1>6 DEF InsertionsApart, Account
  <2>2. \A d \in Call \ {c} : At(d, "save")' => At(d, "save") /\ call[d].access <= grants
    BY <1>1, <1>5 DEF At, OperationsSound, Sound, Idle
  <2>3. \A a \in Account : row[a].refresh \in {None} \cup Grant
    BY DEF TypeOK, Row
  <2>4. \A a \in Account : row'[a].refresh <= grants'
    BY <1>1, <1>6, <2>3 DEF InsertionsApart, Grant, None
  <2>5. \A a \in Account : a > grants' => row'[a].status = "absent"
    BY <1>1, <1>6 DEF InsertionsApart, Account
  <2>6. \A d \in Call : At(d, "save")' => row'[call'[d].access].status = "absent"
    BY <1>3, <1>5, <1>6, <2>1, <2>2 DEF InsertionsApart, At
  <2>7. ASSUME NEW d \in Call, NEW e \in Call, At(d, "save")', At(e, "save")',
               call'[d].access = call'[e].access
        PROVE  d = e
    <3>1. CASE d = c \/ e = c
      BY <1>1, <1>3, <1>5, <2>2, <2>7, <3>1
    <3>2. CASE d # c /\ e # c
      BY <1>5, <2>2, <2>7, <3>2 DEF InsertionsApart
    <3> QED BY <3>1, <3>2
  <2> QED BY <2>4, <2>5, <2>6, <2>7 DEF InsertionsApart
<1>10. TokensSound'
  BY <1>6 DEF TokensSound, Passed, Settled
<1>11. Secure'
  BY <1>6 DEF Secure, ActiveHoldsToken, RefreshForgotten, OneRowPerEmail, Active, Ids
<1> QED BY <1>7, <1>8, <1>9, <1>10, <1>11

(* SaveAccount: the consent's own row, or the row with that address. *)
LEMMA SavedRowForms ==
  ASSUME IndInv, NEW c \in Call, At(c, "save")
  PROVE  /\ SavedRow(c) \in 1..grants /\ SavedRow(c) \in Account
         /\ call[c] # Idle /\ call[c] \in Operation /\ call[c].access \in 1..grants
         /\ \/ Conflicting(call[c].email) = {} /\ SavedRow(c) = call[c].access
               /\ row[SavedRow(c)].status = "absent"
            \/ SavedRow(c) \in Ids /\ call[c].email # NoEmail
               /\ row[SavedRow(c)].email = call[c].email
<1> USE DEF IndInv
<1>1. call[c] # Idle /\ call[c] \in Operation
  BY CallForms DEF At, Idle, TypeOK, Calls
<1>2. call[c].access \in 1..grants
  BY <1>1 DEF OperationsSound, Sound
<1>3. grants \in 0..MaxGrants /\ MaxGrants \in Nat
  BY CalendarAssumption DEF TypeOK
<1>4. CASE Conflicting(call[c].email) = {}
  BY <1>1, <1>2, <1>3, <1>4 DEF SavedRow, InsertionsApart, Account
<1>5. CASE Conflicting(call[c].email) # {}
  <2>1. SavedRow(c) \in Conflicting(call[c].email)
    BY <1>5 DEF SavedRow
  <2>2. SavedRow(c) \in Ids /\ call[c].email # NoEmail /\ row[SavedRow(c)].email = call[c].email
    BY <2>1 DEF Conflicting
  <2>3. SavedRow(c) \in 1..grants
    BY <1>3, <2>2 DEF Ids, InsertionsApart, Account
  <2> QED BY <1>1, <1>2, <2>2, <2>3 DEF Ids
<1> QED BY <1>4, <1>5

LEMMA SaveAccountKept ==
  ASSUME IndInv, NEW c \in Call, SaveAccount(c)
  PROVE  IndInv'
<1> USE DEF IndInv
<1> DEFINE a == SavedRow(c)
           new == [status |-> "active", email |-> call[c].email,
                   access |-> call[c].access, refresh |-> call[c].access]
<1>1. At(c, "save")
  BY DEF SaveAccount
<1>2. /\ a \in 1..grants /\ a \in Account /\ call[c] # Idle /\ call[c] \in Operation
      /\ call[c].access \in 1..grants
  BY <1>1, SavedRowForms
<1>3. \/ Conflicting(call[c].email) = {} /\ a = call[c].access /\ row[a].status = "absent"
      \/ a \in Ids /\ call[c].email # NoEmail /\ row[a].email = call[c].email
  BY <1>1, SavedRowForms
<1>4. /\ row' = [row EXCEPT ![a] = new]
      /\ call' = [call EXCEPT ![c] = [call[c] EXCEPT !.pc = "discover", !.acc = a]]
      /\ UNCHANGED <<connected, token, lastSync, link, event, changes, removed, grants,
                     revoked, handed, covered, begun, faults, overlaps>>
  BY DEF SaveAccount, remote, consents, history, seen
<1> HIDE DEF a
<1>5. call[c].access \in Grant
  BY <1>2, CalendarAssumption DEF Grant, TypeOK
<1>6. new \in Row /\ new.status = "active" /\ new.refresh = call[c].access
      /\ new.access = call[c].access /\ new.email = call[c].email
  BY <1>2, <1>5 DEF Row, Status, Operation
<1> HIDE DEF new
<1>7. /\ row' \in [Account -> Row] /\ row'[a] = new
      /\ \A b \in Account \ {a} : row'[b] = row[b]
  BY <1>2, <1>4, <1>6 DEF TypeOK
<1>8. [call[c] EXCEPT !.pc = "discover", !.acc = a] \in Operation
  BY <1>2 DEF Operation
<1>9. /\ call' \in Calls
      /\ call'[c] = [call[c] EXCEPT !.pc = "discover", !.acc = a]
      /\ \A d \in Call \ {c} : call'[d] = call[d]
  BY <1>4, <1>8 DEF TypeOK, Calls
<1>10. TypeOK'
  BY <1>4, <1>7, <1>9 DEF TypeOK, Calls
<1>11. /\ call'[c].pc = "discover" /\ call'[c].acc = a /\ call'[c].event = call[c].event
       /\ call'[c].op = call[c].op /\ call'[c].access = call[c].access
       /\ call'[c].from = call[c].from /\ call'[c].task = call[c].task
  BY <1>2, <1>9 DEF Operation
<1>12. Sound(c) /\ call[c].pc = "save"
  BY <1>1, <1>2 DEF OperationsSound, At
<1>13. OperationsSound'
  <2> SUFFICES ASSUME NEW d \in Call, call'[d] # Idle PROVE Sound(d)'
    BY DEF OperationsSound
  <2>1. CASE d = c
    <3>1. Passed(a, -1)'
      BY <1>2, <1>4 DEF Passed, Settled, TypeOK
    <3>2. Passed(call[c].acc, call[c].from)'
      BY <1>11, <1>12, <3>1 DEF Sound, Passed, Settled
    <3>3. call[c].event # None => event'[call[c].event] # NoEvent
      BY <1>4, <1>12 DEF Sound
    <3>4. row'[a].status # "absent"
      BY <1>6, <1>7
    <3> QED BY <1>2, <1>4, <1>11, <1>12, <2>1, <3>2, <3>3, <3>4 DEF Sound
  <2>2. CASE d # c
    <3>1. call'[d] = call[d] /\ Sound(d)
      BY <1>9, <2>2 DEF OperationsSound
    <3>2. call[d].pc # "save" => row'[call[d].acc].status # "absent"
      BY <1>6, <1>7, <3>1 DEF Sound
    <3> QED BY <1>4, <3>1, <3>2 DEF Sound, Passed, Settled
  <2> QED BY <2>1, <2>2
<1>14. InsertionsApart'
  <2>1. \A d \in Call : At(d, "save")' => d # c /\ At(d, "save") /\ call'[d] = call[d]
    BY <1>9, <1>11 DEF At
  <2>2. \A b \in Account : b > grants => b # a
    BY <1>2, CalendarAssumption DEF TypeOK, Account
  <2>3. \A d \in Call : d # c /\ At(d, "save") => call[d].access # a
    BY <1>1, <1>2, <1>3 DEF InsertionsApart, Ids
  <2>4. \A d \in Call : At(d, "save") => call[d].access \in Account
    <3> SUFFICES ASSUME NEW d \in Call, At(d, "save") PROVE call[d].access \in Account
      OBVIOUS
    <3>1. call[d].access \in 1..grants
      BY ONLY IndInv, At(d, "save"), SavedRowForms
    <3>2. grants \in 0..MaxGrants /\ MaxGrants \in Nat
      BY CalendarAssumption DEF TypeOK
    <3> QED BY ONLY <3>1, <3>2 DEF Account
  <2>5. \A b \in Account : row'[b].refresh <= grants
    BY <1>2, <1>6, <1>7 DEF InsertionsApart
  <2>6. \A b \in Account : b > grants => row'[b].status = "absent"
    BY <1>7, <2>2 DEF InsertionsApart
  <2>7. \A d \in Call : At(d, "save")' => row'[call'[d].access].status = "absent"
    BY <1>7, <2>1, <2>3, <2>4 DEF InsertionsApart
  <2> QED BY <1>4, <2>1, <2>5, <2>6, <2>7 DEF InsertionsApart
<1>15. TokensSound'
  BY <1>4 DEF TokensSound, Passed, Settled
<1>16. ActiveHoldsToken' /\ RefreshForgotten'
  <2>1. new.access # None /\ new.refresh # None
    BY <1>2, <1>6 DEF None
  <2>2. \A b \in Account : row'[b] = row[b] \/ row'[b] = new
    BY <1>7
  <2> QED BY <1>6, <2>1, <2>2 DEF Secure, ActiveHoldsToken, RefreshForgotten, Active
<1>17. OneRowPerEmail'
  <2>1. \A b \in Ids' : b \in Ids \/ b = a
    BY <1>7 DEF Ids
  <2>2. \A b \in Ids : b # a /\ row[b].email = new.email => new.email = NoEmail
    BY <1>3, <1>6 DEF Conflicting, Secure, OneRowPerEmail
  <2> QED BY <1>6, <1>7, <2>1, <2>2 DEF Secure, OneRowPerEmail, Ids
<1> QED BY <1>10, <1>13, <1>14, <1>15, <1>16, <1>17 DEF Secure

(* DisconnectAccount takes both tokens away from every row. *)
LEMMA DisconnectAccountKept ==
  ASSUME IndInv, DisconnectAccount
  PROVE  IndInv'
<1> USE DEF IndInv
<1>1. /\ row' = [a \in Account |-> IF a \in Ids THEN Disconnected(row[a]) ELSE row[a]]
      /\ UNCHANGED <<connected, token, lastSync, link, event, changes, removed, grants,
                     revoked, call, handed, covered, begun, faults, overlaps>>
  BY DEF DisconnectAccount, remote, consents, history, seen
<1>2. ASSUME NEW r \in Row
      PROVE  /\ Disconnected(r) \in Row /\ Disconnected(r).status = "disconnected"
             /\ Disconnected(r).refresh = None /\ Disconnected(r).email = r.email
  BY DEF Row, Status, Disconnected
<1>3. \A a \in Account :
         \/ a \notin Ids /\ row'[a] = row[a]
         \/ /\ a \in Ids /\ row'[a] \in Row /\ row'[a].status = "disconnected"
            /\ row'[a].refresh = None /\ row'[a].email = row[a].email
  BY <1>1, <1>2 DEF TypeOK
<1>4. TypeOK'
  <2>1. row' \in [Account -> Row]
    BY <1>1, <1>3 DEF TypeOK
  <2> QED BY <1>1, <2>1 DEF TypeOK
<1>5. OperationsSound'
  <2> SUFFICES ASSUME NEW d \in Call, call'[d] # Idle PROVE Sound(d)'
    BY DEF OperationsSound
  <2>1. Sound(d)
    BY <1>1 DEF OperationsSound
  <2>2. call[d].pc # "save" => row'[call[d].acc].status # "absent"
    BY <1>3, <2>1 DEF Sound
  <2> QED BY <1>1, <2>1, <2>2 DEF Sound, Passed, Settled
<1>6. InsertionsApart'
  <2>1. \A d \in Call : At(d, "save") => call[d].access \in Account
    BY SavedRowForms, CalendarAssumption DEF TypeOK, Account
  <2>2. \A a \in Account : row[a].status = "absent" => row'[a].status = "absent"
    BY <1>3 DEF Ids
  <2>3. \A a \in Account : row'[a].refresh <= grants
    BY <1>3 DEF InsertionsApart, None, TypeOK
  <2> QED BY <1>1, <2>1, <2>2, <2>3 DEF InsertionsApart, At
<1>7. TokensSound'
  BY <1>1 DEF TokensSound, Passed, Settled
<1>8. ActiveHoldsToken' /\ RefreshForgotten'
  BY <1>3 DEF Secure, ActiveHoldsToken, RefreshForgotten, Active, Ids
<1>9. OneRowPerEmail'
  BY <1>3 DEF Secure, OneRowPerEmail, Ids
<1> QED BY <1>4, <1>5, <1>6, <1>7, <1>8, <1>9 DEF Secure

(* A call that goes on with an account as it was just read. *)
LEMMA OpenedKept ==
  ASSUME IndInv, NEW c \in Call, NEW r \in Operation,
         call' = [call EXCEPT ![c] = r],
         r.pc \in Pc \ {"save", "hand", "token", "link", "stamp", "unlink"},
         r.access \in 1..grants, r.acc \in Account, row[r.acc].status # "absent", r.from \in {-1, token[r.acc]},
         r.op = "delete" => r.event # None, r.pc = "look" => r.op = "push",
         r.op = "push" => r.task \in Task,
         r.event # None => event[r.event] # NoEvent,
         begun' \in 0..MaxBegun, overlaps' \in Nat,
         UNCHANGED <<accounts, token, lastSync, link, remote, consents, handed, covered, faults>>
  PROVE  IndInv'
<1>1. /\ call' \in Calls /\ call'[c] = r
      /\ \A d \in Call \ {c} : call'[d] = call[d]
  BY DEF IndInv, TypeOK, Calls
<1>2. UNCHANGED <<row, connected, token, lastSync, link, event, changes, removed, grants,
                  revoked, handed, covered, faults>>
  BY DEF accounts, remote, consents
<1>3. TypeOK'
  BY <1>1, <1>2 DEF IndInv, TypeOK, Calls
<1>4. Passed(r.acc, -1) /\ Passed(r.acc, token[r.acc])
  BY DEF IndInv, TypeOK, TokensSound, Passed, Settled
<1>5. Sound(c)'
  BY <1>1, <1>2, <1>4 DEF Sound, Passed, Settled
<1>6. \A a \in Account : /\ Len(changes[a]) <= Len(changes'[a])
                        /\ \A i \in 1..Len(changes[a]) : changes'[a][i] = changes[a][i]
  BY <1>2 DEF IndInv, TypeOK
<1> QED BY <1>1, <1>2, <1>3, <1>5, <1>6, RowsAlone, Kept

(* Operations begin with an account that is active and has a calendar. *)
LEMMA BeginKept ==
  ASSUME IndInv, NEW c \in Call,
         \/ Read(c) \/ CreateCalendarEvent(c)
         \/ \E t \in Task : SyncCommitmentToCalendar(c, t)
         \/ \E e \in Event : DeleteCalendarEvent(c, e)
         \/ \E a \in Account : ReconcileAccount(c, a)
  PROVE  IndInv'
<1>1. Begins(c) => begun' \in 0..MaxBegun
  BY CalendarAssumption DEF Begins, IndInv, TypeOK
<1>2. \A a \in Usable : a \in Account /\ Active(a)
  BY DEF Usable, IndInv, TypeOK
<1>10. \A a \in Account : Active(a) => row[a].status # "absent"
  BY DEF Active
<1>3. Op = {"read", "create", "push", "delete", "reconcile", "discover"}
  BY DEF Op
<1>4. overlaps \in Nat
  BY DEF IndInv, TypeOK
<1>5. CASE Read(c)
  <2>1. PICK a \in Usable : call' = [call EXCEPT ![c] = Opened("read", a)]
    BY <1>5 DEF Read
  <2> DEFINE o == Opened("read", a)
  <2>2. /\ o \in Operation /\ o.access \in 1..grants /\ o.acc = a /\ o.pc = "authorize"
        /\ o.op = "read" /\ o.event = None /\ o.from \in {-1, token[a]}
    BY <1>2, <1>3, OpenedForms
  <2>3. call' = [call EXCEPT ![c] = o]
    BY <2>1
  <2> HIDE DEF o
  <2> QED BY <1>1, <1>2, <1>4, <1>5, <2>2, <2>3, <1>10, OpenedKept DEF Read, Pc
<1>6. CASE CreateCalendarEvent(c)
  <2>1. PICK a \in Usable : call' = [call EXCEPT ![c] = Opened("create", a)]
    BY <1>6 DEF CreateCalendarEvent
  <2> DEFINE o == Opened("create", a)
  <2>2. /\ o \in Operation /\ o.access \in 1..grants /\ o.acc = a /\ o.pc = "authorize"
        /\ o.op = "create" /\ o.event = None /\ o.from \in {-1, token[a]}
    BY <1>2, <1>3, OpenedForms
  <2>3. call' = [call EXCEPT ![c] = o]
    BY <2>1
  <2> HIDE DEF o
  <2> QED BY <1>1, <1>2, <1>4, <1>6, <2>2, <2>3, <1>10, OpenedKept DEF CreateCalendarEvent, Pc
<1>7. ASSUME NEW t \in Task, SyncCommitmentToCalendar(c, t) PROVE IndInv'
  <2>1. PICK a \in Usable :
          call' = [call EXCEPT ![c] = [Opened("push", a) EXCEPT !.pc = "look", !.task = t]]
    BY <1>7 DEF SyncCommitmentToCalendar
  <2> DEFINE o == Opened("push", a)
             r == [o EXCEPT !.pc = "look", !.task = t]
  <2>2. /\ o \in Operation /\ o.access \in 1..grants /\ o.acc = a
        /\ o.op = "push" /\ o.event = None /\ o.from \in {-1, token[a]}
    BY <1>2, <1>3, OpenedForms
  <2> HIDE DEF o
  <2>3. /\ r \in Operation /\ r.pc = "look" /\ r.access = o.access /\ r.acc = o.acc
        /\ r.op = o.op /\ r.event = o.event /\ r.from = o.from /\ r.task = t
    BY <2>2 DEF Operation
  <2>4. overlaps' \in Nat
    <3>1. Overlapped(Pushing(t))
      BY <1>7 DEF SyncCommitmentToCalendar
    <3> QED BY <1>4, <3>1 DEF Overlapped
  <2>5. call' = [call EXCEPT ![c] = r]
    BY <2>1 DEF o
  <2> HIDE DEF r
  <2>6. /\ r.acc \in Account /\ row[r.acc].status # "absent" /\ r.access \in 1..grants
        /\ r.from \in {-1, token[r.acc]} /\ r.event = None /\ r.op = "push" /\ r.task \in Task
        /\ r.pc \in Pc \ {"save", "hand", "token", "link", "stamp", "unlink"}
    BY <1>2, <1>10, <2>2, <2>3 DEF Pc
  <2>7. /\ begun' \in 0..MaxBegun
        /\ UNCHANGED <<accounts, token, lastSync, link, remote, consents, handed, covered, faults>>
    BY <1>1, <1>7 DEF SyncCommitmentToCalendar
  <2> QED BY <2>3, <2>4, <2>5, <2>6, <2>7, OpenedKept
<1>8. ASSUME NEW e \in Event, DeleteCalendarEvent(c, e) PROVE IndInv'
  <2> DEFINE a == event[e].account
             o == Opened("delete", a)
             r == [o EXCEPT !.event = e]
  <2>1. a \in Usable /\ event[e] # NoEvent /\ call' = [call EXCEPT ![c] = r]
    BY <1>8 DEF DeleteCalendarEvent
  <2> HIDE DEF a
  <2>2. /\ o \in Operation /\ o.access \in 1..grants /\ o.acc = a /\ o.pc = "authorize"
        /\ o.op = "delete" /\ o.from \in {-1, token[a]}
    BY <1>2, <1>3, <2>1, OpenedForms
  <2> HIDE DEF o
  <2>3. /\ r \in Operation /\ r.pc = "authorize" /\ r.access = o.access /\ r.acc = o.acc
        /\ r.op = o.op /\ r.event = e /\ r.from = o.from
    BY <2>2 DEF Operation
  <2> HIDE DEF r
  <2>4. e # None
    BY CalendarAssumption DEF Event, None
  <2>5. /\ begun' \in 0..MaxBegun /\ overlaps' \in Nat
        /\ UNCHANGED <<accounts, token, lastSync, link, remote, consents, handed, covered, faults>>
    BY <1>1, <1>4, <1>8 DEF DeleteCalendarEvent
  <2>6. /\ r.acc \in Account /\ row[r.acc].status # "absent" /\ r.access \in 1..grants
        /\ r.from \in {-1, token[r.acc]} /\ event[r.event] # NoEvent /\ r.event # None
        /\ r.op = "delete"
        /\ r.pc \in Pc \ {"save", "hand", "token", "link", "stamp", "unlink"}
    BY <1>2, <1>10, <2>1, <2>2, <2>3, <2>4 DEF Pc
  <2> QED BY <2>1, <2>3, <2>5, <2>6, OpenedKept
<1>9. ASSUME NEW a \in Account, ReconcileAccount(c, a) PROVE IndInv'
  <2> DEFINE pc == IF a \in connected THEN "authorize" ELSE "last"
             o == Opened("reconcile", a)
             r == [o EXCEPT !.pc = pc]
  <2>1. Active(a) /\ call' = [call EXCEPT ![c] = r]
    BY <1>9 DEF ReconcileAccount
  <2>2. /\ o \in Operation /\ o.access \in 1..grants /\ o.acc = a
        /\ o.op = "reconcile" /\ o.event = None /\ o.from \in {-1, token[a]}
    BY <1>3, <2>1, OpenedForms
  <2>3. pc \in {"authorize", "last"}
    OBVIOUS
  <2> HIDE DEF o, pc
  <2>4. /\ r \in Operation /\ r.pc = pc /\ r.access = o.access /\ r.acc = o.acc
        /\ r.op = o.op /\ r.event = o.event /\ r.from = o.from
    BY <2>2, <2>3 DEF Operation
  <2> HIDE DEF r
  <2>5. /\ begun' \in 0..MaxBegun /\ overlaps' \in Nat
        /\ UNCHANGED <<accounts, token, lastSync, link, remote, consents, handed, covered, faults>>
    BY <1>1, <1>4, <1>9 DEF ReconcileAccount
  <2>6. /\ r.acc \in Account /\ row[r.acc].status # "absent" /\ r.access \in 1..grants
        /\ r.from \in {-1, token[r.acc]} /\ r.event = None /\ r.op = "reconcile"
        /\ r.pc # "look" /\ r.pc \in Pc \ {"save", "hand", "token", "link", "stamp", "unlink"}
    BY <1>10, <2>1, <2>2, <2>3, <2>4 DEF Pc
  <2> QED BY <2>1, <2>4, <2>5, <2>6, OpenedKept
<1> QED BY <1>5, <1>6, <1>7, <1>8, <1>9

(* Steps that only move the call on, or end it. *)
LEMMA QuietKept ==
  ASSUME IndInv, NEW c \in Call, call[c] # Idle, call[c].pc # "save",
         \/ End(c)
         \/ \E pc \in Pc \ {"save", "look", "hand", "token", "link", "stamp", "unlink"} :
               Continue(c, pc),
         connected' \subseteq Account, lastSync' \subseteq Account, link' \in [Event -> Link \cup {NoLink}],
         faults' \in 0..MaxTrouble,
         UNCHANGED <<row, token, event, changes, removed, grants, revoked, begun, handed,
                     covered, overlaps>>
  PROVE  IndInv'
<1>1. call \in Calls
  BY DEF IndInv, TypeOK, Calls
<1>2. call' \in Calls
  BY <1>1, EndForms, ContinueForms
<1>3. TypeOK'
  BY <1>2 DEF IndInv, TypeOK, Calls
<1>4. CASE End(c)
  BY <1>3, <1>4, RowsAlone, EndKept
<1>5. ASSUME NEW pc \in Pc \ {"save", "look", "hand", "token", "link", "stamp", "unlink"},
             Continue(c, pc)
      PROVE  IndInv'
  BY <1>3, <1>5, RowsAlone, ContinueKept
<1> QED BY <1>4, <1>5

(* A call at a step is not idle. *)
LEMMA AtBusy ==
  ASSUME IndInv, NEW c \in Call, NEW pc \in Pc, At(c, pc)
  PROVE  call[c] # Idle /\ call[c].pc = pc
BY DEF At, Idle, Pc

LEMMA AccountQuiet ==
  ASSUME IndInv, NEW c \in Call,
         \/ TokenFresh(c) \/ TokenRefreshed(c) \/ Rejected(c) \/ EventsRead(c)
         \/ CalendarsListed(c) \/ InsertCalendar(c) \/ SyncFails(c)
         \/ UpdateAccountLastSync(c)
  PROVE  IndInv'
<1> USE DEF accounts, remote, consents, history, seen
<1>1. /\ connected \subseteq Account /\ lastSync \subseteq Account
      /\ link \in [Event -> Link \cup {NoLink}] /\ faults \in 0..MaxTrouble
  BY DEF IndInv, TypeOK
<1>2. CASE TokenFresh(c)
  BY <1>1, <1>2, AtBusy, QuietKept DEF TokenFresh, Pc
<1>3. CASE TokenRefreshed(c)
  <2>1. Continue(c, "persist") \/ Continue(c, "mark")
    BY <1>3 DEF TokenRefreshed
  <2> QED BY <1>1, <1>3, <2>1, AtBusy, QuietKept DEF TokenRefreshed, Pc
<1>4. CASE Rejected(c)
  BY <1>1, <1>4, AtBusy, QuietKept DEF Rejected, Pc
<1>5. CASE EventsRead(c)
  BY <1>1, <1>5, AtBusy, QuietKept DEF EventsRead, Accepted, End, Pc
<1>6. CASE CalendarsListed(c)
  BY <1>1, <1>6, AtBusy, QuietKept DEF CalendarsListed, Accepted, Pc
<1>7. CASE InsertCalendar(c)
  <2>1. call[c] # Idle /\ call[c].pc = "insert"
    BY <1>7, AtBusy DEF InsertCalendar, Pc
  <2>2. call[c].acc \in Account
    BY <2>1 DEF IndInv, OperationsSound, Sound
  <2> QED BY <1>1, <1>7, <2>1, <2>2, QuietKept DEF InsertCalendar
<1>8. CASE SyncFails(c)
  BY <1>1, <1>8, AtBusy, FaultTyped, QuietKept DEF SyncFails, Pc
<1>9. CASE UpdateAccountLastSync(c)
  <2>1. call[c] # Idle /\ call[c].pc = "last"
    BY <1>9, AtBusy DEF UpdateAccountLastSync, Pc
  <2>2. call[c].acc \in Account
    BY <2>1 DEF IndInv, OperationsSound, Sound
  <2> QED BY <1>1, <1>9, <2>1, <2>2, QuietKept DEF UpdateAccountLastSync
<1> QED BY <1>2, <1>3, <1>4, <1>5, <1>6, <1>7, <1>8, <1>9

(* A statement or the process fails. *)
LEMMA AbandonKept ==
  ASSUME IndInv, NEW c \in Call, Abandon(c)
  PROVE  IndInv'
<1>1. call' \in Calls /\ call'[c] = Idle /\ \A d \in Call \ {c} : call'[d] = call[d]
  BY EndForms DEF Abandon, IndInv, TypeOK, Calls
<1>2. faults' \in 0..MaxTrouble
  BY FaultTyped DEF Abandon
<1>3. UNCHANGED <<row, connected, token, lastSync, link, event, changes, removed, grants,
                  revoked, begun, handed, covered, overlaps>>
  BY DEF Abandon, accounts, remote, consents, seen
<1>4. TypeOK'
  BY <1>1, <1>2, <1>3 DEF IndInv, TypeOK, Calls
<1> QED BY <1>3, <1>4, RowsAlone, EndKept DEF Abandon

(* The row is written: an access token, or the loss of "active". *)
LEMMA PersistTokenKept ==
  ASSUME IndInv, NEW c \in Call, PersistToken(c)
  PROVE  IndInv'
<1>1. call[c] # Idle /\ call[c].pc = "persist"
  BY AtBusy DEF PersistToken, Pc
<1>2. call[c].access \in 1..grants /\ call[c].acc \in Account /\ call[c].access \in Grant
  BY <1>1, CalendarAssumption DEF IndInv, OperationsSound, Sound, TypeOK, Grant
<1>3. UNCHANGED <<connected, token, lastSync, link, event, changes, removed, grants,
                  revoked, begun, handed, covered, overlaps>> /\ Continue(c, "request")
  BY DEF PersistToken, remote, consents, seen
<1>4. faults' \in 0..MaxTrouble
  BY FaultTyped DEF PersistToken
<1>5. CASE row' = row
  BY <1>1, <1>3, <1>4, <1>5, QuietKept DEF IndInv, TypeOK, Pc
<1>6. CASE row' = [row EXCEPT ![call[c].acc] = WithAccess(@, call[c].access)]
  <2>1. ASSUME NEW r \in Row
        PROVE  /\ WithAccess(r, call[c].access) \in Row
               /\ WithAccess(r, call[c].access).access = call[c].access
               /\ WithAccess(r, call[c].access).status = r.status
               /\ WithAccess(r, call[c].access).email = r.email
               /\ WithAccess(r, call[c].access).refresh = r.refresh
    BY <1>2 DEF Row, WithAccess
  <2>2. \A a \in Account :
          /\ row'[a] \in Row /\ row'[a].status = row[a].status
          /\ row'[a].refresh = row[a].refresh /\ row'[a].email = row[a].email
          /\ row'[a].access = row[a].access \/ row'[a].access = call[c].access
    BY <1>2, <1>6, <2>1 DEF IndInv, TypeOK
  <2>3. row' \in [Account -> Row]
    BY <1>6, <2>2 DEF IndInv, TypeOK
  <2>4. TypeOK'
    BY <1>1, <1>3, <1>4, <2>3, ContinueForms DEF IndInv, TypeOK, Calls, Pc
  <2>5. call[c].access # None
    BY <1>2 DEF None
  <2>6. Secure'
    BY <2>2, <2>5 DEF IndInv, Secure, ActiveHoldsToken, RefreshForgotten, OneRowPerEmail,
                      Active, Ids
  <2>7. \A a \in Account : row[a].refresh <= grants
    BY DEF IndInv, InsertionsApart
  <2> QED BY <1>1, <1>3, <2>2, <2>4, <2>6, <2>7, ContinueKept DEF Pc
<1> QED BY <1>5, <1>6 DEF PersistToken

LEMMA MarkReauthKept ==
  ASSUME IndInv, NEW c \in Call, MarkReauth(c)
  PROVE  IndInv'
<1>1. call[c] # Idle /\ call[c].pc = "mark"
  BY AtBusy DEF MarkReauth, Pc
<1>2. call[c].acc \in Ids /\ call[c].acc \in Account
  BY <1>1 DEF IndInv, OperationsSound, Sound, Ids
<1>3. /\ UNCHANGED <<connected, token, lastSync, link, event, changes, removed, grants,
                     revoked, begun, handed, covered, faults, overlaps>>
      /\ End(c) /\ row' = [row EXCEPT ![call[c].acc] = [row[call[c].acc] EXCEPT !.status = "reauth_required"]]
  BY DEF MarkReauth, remote, consents, history, seen
<1>4. ASSUME NEW r \in Row
      PROVE  LET m == [r EXCEPT !.status = "reauth_required"]
             IN  m \in Row /\ m.status = "reauth_required" /\ m.refresh = r.refresh
                 /\ m.email = r.email
  BY DEF Row, Status
<1>5. \A a \in Account :
         /\ row'[a] \in Row /\ row'[a].refresh = row[a].refresh /\ row'[a].email = row[a].email
         /\ row'[a] = row[a] \/ (a \in Ids /\ row'[a].status = "reauth_required")
  BY <1>2, <1>3, <1>4 DEF IndInv, TypeOK
<1>6. row' \in [Account -> Row]
  BY <1>3, <1>5 DEF IndInv, TypeOK
<1>7. TypeOK'
  BY <1>3, <1>6, EndForms DEF IndInv, TypeOK, Calls
<1>8. \A a \in Account : row'[a].status = "absent" <=> row[a].status = "absent"
  BY <1>5 DEF Ids
<1>9. Secure'
  BY <1>5 DEF IndInv, Secure, ActiveHoldsToken, RefreshForgotten, OneRowPerEmail, Active, Ids
<1>10. \A a \in Account : row'[a].refresh <= grants
  BY <1>5 DEF IndInv, InsertionsApart
<1> QED BY <1>3, <1>7, <1>8, <1>9, <1>10, EndKept

(* LookForLink goes on with an event that exists; Discover with the account*)
(* as it is now.                                                           *)
LEMMA LookForLinkKept ==
  ASSUME IndInv, NEW c \in Call, LookForLink(c)
  PROVE  IndInv'
<1> DEFINE found == Linked(call[c].task, call[c].acc)
           e == IF found = {} THEN None ELSE CHOOSE f \in found : TRUE
           r == [call[c] EXCEPT !.pc = "authorize", !.event = e]
<1>1. call[c] # Idle /\ call[c].pc = "look" /\ call[c] \in Operation
  BY AtBusy, CallForms DEF LookForLink, Pc, IndInv, TypeOK, Calls
<1>2. Sound(c)
  BY <1>1 DEF IndInv, OperationsSound
<1>3. call' = [call EXCEPT ![c] = r]
  BY DEF LookForLink
<1>4. UNCHANGED <<row, connected, token, lastSync, link, event, changes, removed, grants,
                  revoked, handed, covered, begun, faults, overlaps>>
  BY DEF LookForLink, accounts, remote, consents, history, seen
<1>5. \A f \in found : f \in Event /\ event[f] # NoEvent
  BY <1>1, <1>2, CalendarAssumption DEF Linked, Sound, NoEvent, Account, None
<1>6. e \in {None} \cup Event /\ (e # None => event[e] # NoEvent)
  BY <1>5
<1> HIDE DEF e
<1>7. /\ r \in Operation /\ r.pc = "authorize" /\ r.event = e /\ r.acc = call[c].acc
      /\ r.access = call[c].access /\ r.from = call[c].from /\ r.op = call[c].op
      /\ r.task = call[c].task
  BY <1>1, <1>6 DEF Operation
<1> HIDE DEF r
<1>8. call' \in Calls /\ call'[c] = r /\ \A d \in Call \ {c} : call'[d] = call[d]
  BY <1>3, <1>7 DEF IndInv, TypeOK, Calls
<1>9. TypeOK'
  BY <1>4, <1>8 DEF IndInv, TypeOK, Calls
<1>10. Sound(c)'
  <2>1. /\ call'[c].pc = "authorize" /\ call'[c].event = e /\ call'[c].acc = call[c].acc
        /\ call'[c].access = call[c].access /\ call'[c].from = call[c].from
        /\ call'[c].op = "push" /\ call'[c].task = call[c].task /\ call[c].op = "push"
    BY <1>1, <1>2, <1>7, <1>8 DEF Sound
  <2> QED BY <1>1, <1>2, <1>4, <1>6, <2>1 DEF Sound, Passed, Settled
<1>11. \A a \in Account : /\ Len(changes[a]) <= Len(changes'[a])
                         /\ \A i \in 1..Len(changes[a]) : changes'[a][i] = changes[a][i]
  BY <1>4 DEF IndInv, TypeOK
<1> QED BY <1>4, <1>7, <1>8, <1>9, <1>10, <1>11, RowsAlone, Kept

LEMMA DiscoverKept ==
  ASSUME IndInv, NEW c \in Call, Discover(c)
  PROVE  IndInv'
<1>1. call[c] # Idle /\ call[c].pc = "discover"
  BY AtBusy DEF Discover, Pc
<1>2. call[c].acc \in Account /\ row[call[c].acc].status # "absent"
  BY <1>1 DEF IndInv, OperationsSound, Sound
<1>3. UNCHANGED <<accounts, token, lastSync, link, remote, consents, begun, handed, covered,
                  faults, overlaps>>
  BY DEF Discover, history, seen
<1>4. CASE Active(call[c].acc)
  <2> DEFINE o == Opened("discover", call[c].acc)
  <2>1. call' = [call EXCEPT ![c] = o]
    BY <1>4 DEF Discover
  <2>2. /\ o \in Operation /\ o.access \in 1..grants /\ o.acc = call[c].acc
        /\ o.pc = "authorize" /\ o.op = "discover" /\ o.event = None
        /\ o.from \in {-1, token[call[c].acc]}
    BY <1>2, <1>4, OpenedForms DEF Op
  <2> HIDE DEF o
  <2>3. begun' \in 0..MaxBegun /\ overlaps' \in Nat
    BY <1>3 DEF IndInv, TypeOK
  <2>4. o.pc \in Pc \ {"save", "hand", "token", "link", "stamp", "unlink"}
    BY <2>2 DEF Pc
  <2> QED BY <1>2, <1>3, <2>1, <2>2, <2>3, <2>4, OpenedKept
<1>5. CASE ~Active(call[c].acc)
  <2>1. End(c)
    BY <1>5 DEF Discover, End
  <2> QED BY <1>1, <1>3, <2>1, QuietKept DEF IndInv, TypeOK, accounts, remote, consents
<1> QED BY <1>4, <1>5

(* What Google did to events leaves the calls and accounts alone. *)
LEMMA Unchanging ==
  ASSUME IndInv, changes' = changes
  PROVE  \A a \in Account : /\ Len(changes[a]) <= Len(changes'[a])
                            /\ \A i \in 1..Len(changes[a]) : changes'[a][i] = changes[a][i]
BY DEF IndInv, TypeOK

(* A request to create an event makes one that was not there. *)
LEMMA CreatedForms ==
  ASSUME IndInv, NEW c \in Call, Creating(c), Created(c)
  PROVE  /\ NextEvent \in Event /\ event' \in [Event -> RemoteEvent \cup {NoEvent}]
         /\ event'[NextEvent] # NoEvent
         /\ \A e \in Event : event[e] # NoEvent => event'[e] # NoEvent
         /\ call[c] # Idle /\ call[c].pc = "request" /\ call[c] \in Operation /\ Sound(c)
<1>1. call[c] # Idle /\ call[c].pc = "request" /\ call[c] \in Operation
  BY AtBusy, CallForms DEF Creating, Pc, IndInv, TypeOK, Calls
<1>2. Sound(c)
  BY <1>1 DEF IndInv, OperationsSound
<1>3. NextEvent \in Event
  BY DEF Creating, NextEvent, Unused
<1> DEFINE new == [account |-> call[c].acc, task |-> call[c].task,
                   shows |-> call[c].task, live |-> TRUE]
<1>4. new \in RemoteEvent /\ new.account = call[c].acc
  BY <1>1, <1>2 DEF Sound, RemoteEvent, Operation
<1>5. call[c].acc # None
  BY <1>1, <1>2, CalendarAssumption DEF Sound, Account, None
<1>6. new # NoEvent
  BY <1>4, <1>5 DEF NoEvent
<1>7. event' = [event EXCEPT ![NextEvent] = new]
  BY DEF Created
<1> HIDE DEF new
<1> QED BY <1>1, <1>2, <1>3, <1>4, <1>6, <1>7 DEF IndInv, TypeOK

LEMMA EventCreatedKept ==
  ASSUME IndInv, NEW c \in Call, EventCreated(c)
  PROVE  IndInv'
<1>1. /\ NextEvent \in Event /\ event' \in [Event -> RemoteEvent \cup {NoEvent}]
      /\ event'[NextEvent] # NoEvent
      /\ \A e \in Event : event[e] # NoEvent => event'[e] # NoEvent
      /\ call[c] # Idle /\ call[c].pc = "request" /\ call[c] \in Operation /\ Sound(c)
  BY CreatedForms DEF EventCreated
<1>2. UNCHANGED <<row, connected, token, lastSync, link, changes, removed, grants,
                  revoked, handed, covered, begun, faults, overlaps>>
  BY DEF EventCreated, accounts, consents, history, seen
<1> DEFINE r == [call[c] EXCEPT !.pc = "link", !.event = NextEvent]
<1>3. call' = [call EXCEPT ![c] = IF call[c].op = "create" THEN Idle ELSE r]
  BY DEF EventCreated
<1>4. /\ r \in Operation /\ r.pc = "link" /\ r.event = NextEvent /\ r.acc = call[c].acc
      /\ r.access = call[c].access /\ r.from = call[c].from /\ r.op = call[c].op
      /\ r.task = call[c].task
  BY <1>1 DEF Operation
<1> HIDE DEF r
<1>5. /\ call' \in Calls /\ \A d \in Call \ {c} : call'[d] = call[d]
      /\ call'[c] = Idle \/ (call'[c] = r /\ call[c].op = "push")
  BY <1>3, <1>4 DEF IndInv, TypeOK, Calls, EventCreated, Creating
<1>6. TypeOK'
  BY <1>1, <1>2, <1>5 DEF IndInv, TypeOK, Calls
<1>7. CASE call'[c] = Idle
  BY <1>1, <1>2, <1>5, <1>6, <1>7, RowsAlone, Unchanging, Kept
<1>8. CASE call'[c] = r /\ call[c].op = "push"
  <2>1. NextEvent # None
    BY <1>1, CalendarAssumption DEF Event, None
  <2>2. Sound(c)'
    BY <1>1, <1>2, <1>4, <1>8, <2>1 DEF Sound, Passed, Settled
  <2> QED BY <1>1, <1>2, <1>4, <1>5, <1>6, <1>8, <2>2, RowsAlone, Unchanging, Kept
<1> QED BY <1>5, <1>7, <1>8

LEMMA CreationUnansweredKept ==
  ASSUME IndInv, NEW c \in Call, CreationUnanswered(c)
  PROVE  IndInv'
<1>1. /\ NextEvent \in Event /\ event' \in [Event -> RemoteEvent \cup {NoEvent}]
      /\ \A e \in Event : event[e] # NoEvent => event'[e] # NoEvent
      /\ call[c] # Idle /\ call[c].pc = "request" /\ call[c] \in Operation /\ Sound(c)
  BY CreatedForms DEF CreationUnanswered
<1>2. UNCHANGED <<row, connected, token, lastSync, link, changes, removed, grants,
                  revoked, handed, covered, begun, overlaps>> /\ faults' \in 0..MaxTrouble
  BY FaultTyped DEF CreationUnanswered, accounts, consents, seen
<1> DEFINE r == [call[c] EXCEPT !.tries = call[c].tries + 1]
<1>3. call' = [call EXCEPT ![c] = IF call[c].tries = MaxRetries THEN Idle ELSE r]
  BY DEF CreationUnanswered, End
<1>4. call[c].tries # MaxRetries =>
        /\ r \in Operation /\ r.pc = "request" /\ r.event = call[c].event
        /\ r.acc = call[c].acc /\ r.access = call[c].access /\ r.from = call[c].from
        /\ r.op = call[c].op /\ r.task = call[c].task
  BY <1>1, CalendarAssumption DEF Operation
<1> HIDE DEF r
<1>5. /\ call' \in Calls /\ \A d \in Call \ {c} : call'[d] = call[d]
      /\ call'[c] = Idle \/ (call'[c] = r /\ call[c].tries # MaxRetries)
  BY <1>3, <1>4 DEF IndInv, TypeOK, Calls
<1>6. TypeOK'
  BY <1>1, <1>2, <1>5 DEF IndInv, TypeOK, Calls
<1>7. CASE call'[c] = Idle
  BY <1>1, <1>2, <1>5, <1>6, <1>7, RowsAlone, Unchanging, Kept
<1>8. CASE call'[c] = r /\ call[c].tries # MaxRetries
  <2>1. call[c].event # None => event'[call[c].event] # NoEvent
    BY <1>1 DEF Sound, Operation
  <2>2. Sound(c)'
    BY <1>1, <1>2, <1>4, <1>8, <2>1 DEF Sound, Passed, Settled
  <2> QED BY <1>1, <1>2, <1>4, <1>5, <1>6, <1>8, <2>2, RowsAlone, Unchanging, Kept
<1> QED BY <1>5, <1>7, <1>8

(* Links and the titles of events. *)
LEMMA LinkForms ==
  /\ NoLink \notin Link
  /\ \A t \in Task : InsertedLink(t) \in Link
  /\ \A l \in Link \cup {NoLink} :
       /\ (IF l = NoLink THEN l ELSE [l EXCEPT !.status = "synced"]) \in Link \cup {NoLink}
       /\ \A s : WithStatus(l, s) \in Link \cup {NoLink}
<1>1. NoLink \notin Link
  <2>1. NoLink.status = "absent"
    BY DEF NoLink
  <2>2. \A l \in Link : l.status # "absent"
    BY DEF Link, LinkStatus
  <2> QED BY <2>1, <2>2
<1>2. \A t \in Task : InsertedLink(t) \in Link
  BY DEF InsertedLink, Link, LinkStatus
<1>3. ASSUME NEW l \in Link, NEW s \in LinkStatus PROVE [l EXCEPT !.status = s] \in Link
  BY DEF Link
<1>4. "synced" \in LinkStatus
  BY DEF LinkStatus
<1> QED BY <1>1, <1>2, <1>3, <1>4 DEF WithStatus

LEMMA LinkWritten ==
  ASSUME IndInv, NEW c \in Call, InsertLink(c) \/ StampLink(c) \/ DeleteLink(c)
  PROVE  IndInv'
<1>1. call[c] # Idle /\ call[c].pc \in {"link", "stamp", "unlink"} /\ call[c] \in Operation
  BY AtBusy, CallForms DEF InsertLink, StampLink, DeleteLink, Pc, IndInv, TypeOK, Calls
<1>2. call[c].event \in Event /\ Sound(c)
  BY <1>1 DEF IndInv, OperationsSound, Sound, Operation
<1>3. UNCHANGED <<row, connected, token, lastSync, event, changes, removed, grants,
                  revoked, begun, handed, covered, faults, overlaps>> /\ End(c)
  BY DEF InsertLink, StampLink, DeleteLink, accounts, remote, consents, history, seen
<1>4. link \in [Event -> Link \cup {NoLink}]
  BY DEF IndInv, TypeOK
<1>5. CASE StampLink(c)
  BY <1>2, <1>4, <1>5, <1>1, <1>3, LinkForms, QuietKept DEF StampLink, IndInv, TypeOK
<1>6. CASE DeleteLink(c)
  BY <1>2, <1>4, <1>6, <1>1, <1>3, QuietKept DEF DeleteLink, Unlinked, IndInv, TypeOK
<1>7. CASE InsertLink(c)
  <2>1. call[c].task \in Task
    BY <1>1, <1>2, <1>7, AtBusy DEF Sound, InsertLink, Pc
  <2> QED BY <1>2, <1>4, <1>7, <1>1, <1>3, <2>1, LinkForms, QuietKept
          DEF InsertLink, IndInv, TypeOK
<1> QED BY <1>5, <1>6, <1>7

(* An event is changed or deleted: it is still one. *)
LEMMA EventForms ==
  ASSUME NEW r \in RemoteEvent, NEW t \in Task \cup {NoTask}
  PROVE  /\ r # NoEvent /\ r.account \in Account
         /\ [r EXCEPT !.live = FALSE] \in RemoteEvent
         /\ [r EXCEPT !.shows = t] \in RemoteEvent
<1>1. r.account \in Account /\ r.account # None
  BY CalendarAssumption DEF RemoteEvent, Account, None
<1>2. r # NoEvent
  BY <1>1 DEF NoEvent
<1>3. [r EXCEPT !.live = FALSE] \in RemoteEvent /\ [r EXCEPT !.shows = t] \in RemoteEvent
  BY DEF RemoteEvent
<1> QED BY <1>1, <1>2, <1>3

(* A deletion at Google is added to the changes of its calendar. *)
LEMMA GoneForms ==
  ASSUME IndInv, NEW e \in Event, event[e] # NoEvent, Gone(e)
  PROVE  /\ event' \in [Event -> RemoteEvent \cup {NoEvent}]
         /\ changes' \in [Account -> Seq(Event)]
         /\ \A f \in Event : event[f] # NoEvent => event'[f] # NoEvent
         /\ \A a \in Account : /\ Len(changes[a]) <= Len(changes'[a])
                              /\ \A i \in 1..Len(changes[a]) : changes'[a][i] = changes[a][i]
<1> DEFINE a == event[e].account
<1>1. event[e] \in RemoteEvent /\ a \in Account
  BY EventForms DEF IndInv, TypeOK
<1>2. event' = [event EXCEPT ![e] = [event[e] EXCEPT !.live = FALSE]]
  BY DEF Gone
<1>3. [event[e] EXCEPT !.live = FALSE] \in RemoteEvent
  BY <1>1, EventForms
<1>4. [event[e] EXCEPT !.live = FALSE] # NoEvent
  BY <1>3, EventForms
<1>5. changes' = changes \/ changes' = [changes EXCEPT ![a] = Append(changes[a], e)]
  BY DEF Gone
<1>6. changes \in [Account -> Seq(Event)]
  BY DEF IndInv, TypeOK
<1> HIDE DEF a
<1>7. /\ changes' \in [Account -> Seq(Event)]
      /\ \A b \in Account : changes'[b] = changes[b] \/ changes'[b] = Append(changes[b], e)
  <2>1. changes[a] \in Seq(Event) /\ Append(changes[a], e) \in Seq(Event)
    BY <1>1, <1>6
  <2> QED BY <1>1, <1>5, <1>6, <2>1
<1>8. ASSUME NEW s \in Seq(Event)
      PROVE  /\ Len(s) <= Len(Append(s, e))
             /\ \A i \in 1..Len(s) : Append(s, e)[i] = s[i]
  OBVIOUS
<1>9. \A b \in Account : /\ Len(changes[b]) <= Len(changes'[b])
                        /\ \A i \in 1..Len(changes[b]) : changes'[b][i] = changes[b][i]
  <2> SUFFICES ASSUME NEW b \in Account
               PROVE  /\ Len(changes[b]) <= Len(changes'[b])
                      /\ \A i \in 1..Len(changes[b]) : changes'[b][i] = changes[b][i]
    OBVIOUS
  <2>1. changes[b] \in Seq(Event)
    BY <1>6
  <2>2. CASE changes'[b] = changes[b]
    BY <2>1, <2>2
  <2>3. CASE changes'[b] = Append(changes[b], e)
    BY <1>8, <2>1, <2>3
  <2> QED BY <1>7, <2>2, <2>3
<1> QED BY <1>2, <1>3, <1>4, <1>7, <1>9 DEF IndInv, TypeOK

(* An event of the call's own calendar is changed; the call goes on to its *)
(* link.                                                                   *)
LEMMA EventChangedKept ==
  ASSUME IndInv, NEW c \in Call, EventUpdated(c) \/ EventDeleted(c)
  PROVE  IndInv'
<1>1. call[c] # Idle /\ call[c].pc = "request" /\ call[c] \in Operation /\ call \in Calls
  BY AtBusy, CallForms DEF EventUpdated, EventDeleted, Accepted, Pc, IndInv, TypeOK, Calls
<1>2. Sound(c)
  BY <1>1 DEF IndInv, OperationsSound
<1>3. call[c].event # None /\ call[c].op \in {"push", "delete"}
  BY <1>1, <1>2 DEF EventUpdated, EventDeleted, Accepted, Sound
<1>4. call[c].event \in Event /\ event[call[c].event] \in RemoteEvent
  BY <1>1, <1>2, <1>3 DEF Sound, Operation, IndInv, TypeOK
<1>5. UNCHANGED <<row, connected, token, lastSync, link, removed, grants, revoked, handed,
                  covered, begun, faults>>
  BY DEF EventUpdated, EventDeleted, accounts, consents, history, seen
<1>6. /\ event' \in [Event -> RemoteEvent \cup {NoEvent}]
      /\ changes' \in [Account -> Seq(Event)]
      /\ \A f \in Event : event[f] # NoEvent => event'[f] # NoEvent
      /\ \A a \in Account : /\ Len(changes[a]) <= Len(changes'[a])
                           /\ \A i \in 1..Len(changes[a]) : changes'[a][i] = changes[a][i]
  <2>1. CASE EventDeleted(c)
    BY <1>4, <2>1, EventForms, GoneForms DEF EventDeleted
  <2>2. CASE EventUpdated(c)
    <3> DEFINE u == [event[call[c].event] EXCEPT !.shows = call[c].task]
    <3>1. u \in RemoteEvent
      BY <1>1, <1>4, EventForms DEF Operation
    <3>2. u # NoEvent
      BY <3>1, EventForms
    <3>3. event' = event \/ event' = [event EXCEPT ![call[c].event] = u]
      BY <2>2 DEF EventUpdated
    <3> HIDE DEF u
    <3>4. changes' = changes
      BY <2>2 DEF EventUpdated
    <3> QED BY <1>4, <3>1, <3>2, <3>3, <3>4, Unchanging DEF IndInv, TypeOK
  <2> QED BY <2>1, <2>2
<1>7. overlaps' \in Nat
  BY DEF EventUpdated, EventDeleted, Overlapped, history, IndInv, TypeOK
<1>8. End(c) \/ Continue(c, "stamp") \/ Continue(c, "unlink")
  BY DEF EventUpdated, EventDeleted
<1>9. call' \in Calls
  BY <1>1, <1>8, EndForms, ContinueForms DEF Pc
<1>10. TypeOK'
  BY <1>5, <1>6, <1>7, <1>9 DEF IndInv, TypeOK, Calls
<1>11. CASE End(c)
  BY <1>1, <1>5, <1>6, <1>10, <1>11, EndForms, RowsAlone, Kept
<1>12. ASSUME NEW pc \in {"stamp", "unlink"}, Continue(c, pc) PROVE IndInv'
  <2>1. /\ call'[c] = [call[c] EXCEPT !.pc = pc]
        /\ \A d \in Call \ {c} : call'[d] = call[d]
    BY <1>1, <1>12, ContinueForms DEF Pc
  <2>2. /\ call'[c].pc = pc /\ call'[c].access = call[c].access
        /\ call'[c].acc = call[c].acc /\ call'[c].event = call[c].event
        /\ call'[c].from = call[c].from /\ call'[c].op = call[c].op
        /\ call'[c].task = call[c].task
    BY <1>1, <2>1 DEF Operation
  <2>3. Passed(call[c].acc, call[c].from)'
    <3>1. call[c].acc \in Account /\ Passed(call[c].acc, call[c].from)
      BY <1>1, <1>2 DEF Sound
    <3>2. call[c].from \in Int
      BY <1>1 DEF Operation
    <3>3. Len(changes[call[c].acc]) \in Nat /\ Len(changes'[call[c].acc]) \in Nat
      BY <1>6, <3>1 DEF IndInv, TypeOK
    <3>4. \A i \in 1..call[c].from : i \in 1..Len(changes[call[c].acc])
      BY <3>1, <3>2, <3>3 DEF Passed
    <3>5. \A i \in 1..call[c].from :
            changes'[call[c].acc][i] = changes[call[c].acc][i]
      BY <1>6, <3>1, <3>4
    <3>6. call[c].from <= Len(changes'[call[c].acc])
      BY <1>6, <3>1, <3>2, <3>3 DEF Passed
    <3> QED BY <1>5, <2>2, <3>1, <3>5, <3>6 DEF Passed, Settled
  <2>4. event'[call[c].event] # NoEvent
    BY <1>2, <1>3, <1>4, <1>6 DEF Sound
  <2>5. Sound(c)'
    BY <1>1, <1>2, <1>3, <1>5, <2>2, <2>3, <2>4 DEF Sound, Passed, Settled
  <2> QED BY <1>5, <1>6, <1>10, <2>1, <2>2, <2>5, RowsAlone, Kept
<1> QED BY <1>8, <1>11, <1>12

(* The answer of Google: it begins where the token stopped, or is complete.*)
LEMMA ChangesReadKept ==
  ASSUME IndInv, NEW c \in Call, ChangesRead(c)
  PROVE  IndInv'
<1> DEFINE a == call[c].acc
           all == Len(changes[a])
<1>1. call[c] # Idle /\ call[c].pc = "request" /\ call[c] \in Operation
  BY AtBusy, CallForms DEF ChangesRead, Accepted, Pc, IndInv, TypeOK, Calls
<1>2. Sound(c) /\ call[c].op = "reconcile"
  BY <1>1 DEF IndInv, OperationsSound, ChangesRead, Accepted
<1>3. a \in Account /\ Passed(a, call[c].from) /\ changes[a] \in Seq(Event)
  BY <1>1, <1>2 DEF Sound, IndInv, TypeOK
<1>4. call[c].from \in {-1} \cup Nat /\ all \in Nat /\ call[c].from <= all
  BY <1>1, <1>3 DEF Operation, Passed
<1>5. UNCHANGED <<row, connected, lastSync, link, event, changes, removed, grants, revoked,
                  begun, handed, faults, overlaps>>
  BY DEF ChangesRead, accounts, remote, consents
<1>6. ToSet(changes[a]) \subseteq Event /\ \A i \in 1..all : changes[a][i] \in ToSet(changes[a])
  BY <1>3 DEF ToSet
<1>7. covered' \in {covered, covered \cup ToSet(changes[a])}
  BY DEF ChangesRead
<1>8. ASSUME NEW from \in 0..all, NEW upto \in from..all, NEW next \in {-1, upto},
             Answer(c, from, upto, next),
             \A i \in 1..from : changes[a][i] \in handed \cup covered'
      PROVE  IndInv'
  <2> DEFINE r == [call[c] EXCEPT !.pc = "hand", !.from = from, !.upto = upto, !.next = next]
  <2>1. from \in Nat /\ upto \in Nat /\ next \in {-1} \cup Nat /\ from \in 0..upto /\ upto <= all
    BY <1>4
  <2>2. /\ r \in Operation /\ r.pc = "hand" /\ r.from = from /\ r.upto = upto /\ r.next = next
        /\ r.event = call[c].event /\ r.acc = a /\ r.access = call[c].access
        /\ r.op = call[c].op /\ r.task = call[c].task
    BY <1>1, <2>1 DEF Operation
  <2>3. call' = [call EXCEPT ![c] = r] /\ token' = token
    BY <1>8 DEF Answer, TokenAfterFetch
  <2> HIDE DEF r
  <2>4. call' \in Calls /\ call'[c] = r /\ \A d \in Call \ {c} : call'[d] = call[d]
    BY <2>2, <2>3 DEF IndInv, TypeOK, Calls
  <2>5. TypeOK'
    BY <1>5, <1>6, <1>7, <2>3, <2>4 DEF IndInv, TypeOK, Calls
  <2>6. /\ call'[c].from <= Len(changes'[call'[c].acc])
        /\ \A i \in 1..call'[c].from : changes'[call'[c].acc][i] \in handed' \cup covered'
    BY <1>8, <2>1, <2>2, <2>4, <1>4, <1>5
  <2>7. /\ call'[c].pc = "hand" /\ call'[c].from \in 0..call'[c].upto
        /\ call'[c].upto <= Len(changes'[call'[c].acc])
        /\ call'[c].next \in {-1, call'[c].upto}
    BY <1>5, <1>8, <2>1, <2>2, <2>4
  <2>8. /\ call'[c].access \in 1..grants' /\ call'[c].acc \in Account
        /\ row'[call'[c].acc].status # "absent"
        /\ call'[c].op = "reconcile"
        /\ call'[c].event # None => event'[call'[c].event] # NoEvent
    BY <1>1, <1>2, <1>3, <1>5, <2>2, <2>4 DEF Sound
  <2>9. Sound(c)'
    BY <2>6, <2>7, <2>8 DEF Sound, Passed, Settled
  <2> QED BY <1>5, <1>7, <2>3, <2>4, <2>5, <2>7, <2>9, RowsAlone, Unchanging, Kept
<1>9. CASE call[c].from # -1 /\ covered' = covered
           /\ \/ Answer(c, call[c].from, all, all)
              \/ \E n \in call[c].from..(all - 1) : Answer(c, call[c].from, n, -1)
  <2>1. call[c].from \in 0..all
    BY <1>4, <1>9
  <2>2. \A i \in 1..call[c].from : changes[a][i] \in handed \cup covered'
    BY <1>3, <1>9 DEF Passed, Settled
  <2> QED BY <1>4, <1>8, <1>9, <2>1, <2>2
<1>10. CASE covered' = covered \cup ToSet(changes[a])
            /\ \E next \in {-1, all} : Answer(c, all, all, next)
  <2>1. \A i \in 1..all : changes[a][i] \in handed \cup covered'
    BY <1>6, <1>10
  <2>2. all \in 0..all /\ all \in all..all
    BY <1>4
  <2> QED BY <1>8, <1>10, <2>1, <2>2
<1> QED BY <1>9, <1>10 DEF ChangesRead

LEMMA HandDeletedKept ==
  ASSUME IndInv, NEW c \in Call, HandDeleted(c)
  PROVE  IndInv'
<1> DEFINE a == call[c].acc
           n == call[c].from
           e == changes[a][n + 1]
           r == [call[c] EXCEPT !.from = n + 1]
<1>1. call[c] # Idle /\ call[c].pc = "hand" /\ call[c] \in Operation
  BY AtBusy, CallForms DEF HandDeleted, Pc, IndInv, TypeOK, Calls
<1>2. Sound(c)
  BY <1>1 DEF IndInv, OperationsSound
<1>3. a \in Account /\ changes[a] \in Seq(Event) /\ Passed(a, n)
  BY <1>1, <1>2 DEF Sound, IndInv, TypeOK
<1>4. /\ call[c].upto \in Nat /\ n \in Nat /\ n < call[c].upto
      /\ call[c].upto <= Len(changes[a]) /\ Len(changes[a]) \in Nat
  BY <1>1, <1>2, <1>3 DEF Operation, Sound, HandDeleted
<1>5. e \in Event
  BY <1>3, <1>4
<1>6. /\ UNCHANGED <<row, connected, token, lastSync, event, changes, removed, grants, revoked,
                     begun, covered, faults, overlaps>>
      /\ link' = [link EXCEPT ![e] = WithStatus(link[e], "deleted_remotely")]
      /\ handed' = handed \cup {e} /\ call' = [call EXCEPT ![c] = r]
  BY DEF HandDeleted, accounts, remote, consents
<1>7. link' \in [Event -> Link \cup {NoLink}]
  BY <1>5, <1>6, LinkForms DEF IndInv, TypeOK
<1>8. /\ r \in Operation /\ r.pc = "hand" /\ r.from = n + 1 /\ r.upto = call[c].upto
      /\ r.next = call[c].next /\ r.event = call[c].event /\ r.acc = a
      /\ r.access = call[c].access /\ r.op = call[c].op /\ r.task = call[c].task
  BY <1>1, <1>4 DEF Operation
<1>9. \A i \in 1..(n + 1) : changes[a][i] \in handed' \cup covered'
  <2> SUFFICES ASSUME NEW i \in 1..(n + 1) PROVE changes[a][i] \in handed' \cup covered'
    OBVIOUS
  <2>1. i = n + 1 \/ i \in 1..n
    BY <1>4
  <2> QED BY <1>3, <1>6, <2>1 DEF Passed, Settled
<1> HIDE DEF r
<1>10. call' \in Calls /\ call'[c] = r /\ \A d \in Call \ {c} : call'[d] = call[d]
  BY <1>6, <1>8 DEF IndInv, TypeOK, Calls
<1>11. TypeOK'
  BY <1>5, <1>6, <1>7, <1>10 DEF IndInv, TypeOK, Calls
<1>12. /\ call'[c].acc = a /\ call'[c].from = n + 1 /\ call'[c].upto = call[c].upto
       /\ call'[c].next = call[c].next /\ call'[c].pc = "hand"
       /\ call'[c].event = call[c].event /\ call'[c].access = call[c].access
       /\ call'[c].op = call[c].op /\ call'[c].task = call[c].task
  BY <1>8, <1>10
<1>13. /\ call'[c].from <= Len(changes'[call'[c].acc])
       /\ \A i \in 1..call'[c].from : changes'[call'[c].acc][i] \in handed' \cup covered'
  BY <1>4, <1>6, <1>9, <1>12
<1>14. call'[c].from \in 0..call'[c].upto
  BY <1>4, <1>12
<1>15. Sound(c)'
  <2>1. /\ call'[c].access \in 1..grants' /\ call'[c].acc \in Account
        /\ row'[call'[c].acc].status # "absent"
        /\ call'[c].op = "delete" => call'[c].event # None
        /\ call'[c].op = "push" => call'[c].task \in Task
        /\ call'[c].event # None => event'[call'[c].event] # NoEvent
    BY <1>1, <1>2, <1>6, <1>12 DEF Sound
  <2>2. /\ call'[c].upto <= Len(changes'[call'[c].acc])
        /\ call'[c].next \in {-1, call'[c].upto}
    BY <1>1, <1>2, <1>6, <1>12 DEF Sound
  <2> QED BY <1>12, <1>13, <1>14, <2>1, <2>2 DEF Sound, Passed, Settled
<1> QED BY <1>6, <1>10, <1>11, <1>12, <1>15, RowsAlone, Unchanging, Kept

(* All is handed on; the token is stored. *)
LEMMA AllHandedKept ==
  ASSUME IndInv, NEW c \in Call, AllHanded(c)
  PROVE  IndInv'
<1>1. call[c] # Idle /\ call[c].pc = "hand" /\ call[c] \in Operation /\ call \in Calls
  BY AtBusy, CallForms DEF AllHanded, Pc, IndInv, TypeOK, Calls
<1>2. Sound(c)
  BY <1>1 DEF IndInv, OperationsSound
<1>3. UNCHANGED <<row, connected, token, lastSync, link, event, changes, removed, grants, revoked,
                  begun, handed, covered, faults, overlaps>>
  BY DEF AllHanded, accounts, remote, consents, history, seen
<1>4. CASE Continue(c, "last")
  BY <1>1, <1>3, <1>4, QuietKept DEF IndInv, TypeOK, Pc
<1>5. CASE Continue(c, "token") /\ call[c].next # -1
  <2>1. /\ call' \in Calls /\ call'[c] = [call[c] EXCEPT !.pc = "token"]
        /\ \A d \in Call \ {c} : call'[d] = call[d]
    BY <1>1, <1>5, ContinueForms DEF Pc
  <2>2. /\ call'[c].pc = "token" /\ call'[c].access = call[c].access
        /\ call'[c].acc = call[c].acc /\ call'[c].event = call[c].event
        /\ call'[c].from = call[c].from /\ call'[c].op = call[c].op
        /\ call'[c].task = call[c].task /\ call'[c].next = call[c].next
    BY <1>1, <2>1 DEF Operation
  <2>3. call[c].next = call[c].from
    BY <1>1, <1>2, <1>5 DEF Sound, AllHanded
  <2>4. Sound(c)'
    BY <1>1, <1>2, <1>3, <2>2, <2>3 DEF Sound, Passed, Settled
  <2>5. TypeOK'
    BY <1>3, <2>1 DEF IndInv, TypeOK, Calls
  <2> QED BY <1>3, <2>1, <2>2, <2>4, <2>5, RowsAlone, Unchanging, Kept
<1> QED BY <1>4, <1>5 DEF AllHanded

LEMMA UpdateSyncTokenKept ==
  ASSUME IndInv, NEW c \in Call, UpdateSyncToken(c)
  PROVE  IndInv'
<1>1. call[c] # Idle /\ call[c].pc = "token" /\ call[c] \in Operation /\ call \in Calls
  BY AtBusy, CallForms DEF UpdateSyncToken, Pc, IndInv, TypeOK, Calls
<1>2. Sound(c)
  BY <1>1 DEF IndInv, OperationsSound
<1>3. /\ call[c].acc \in Account /\ call[c].next = call[c].from
      /\ Passed(call[c].acc, call[c].next) /\ call[c].next \in {-1} \cup Nat
  BY <1>1, <1>2 DEF Sound, Operation
<1>4. /\ UNCHANGED <<row, connected, lastSync, link, event, changes, removed, grants, revoked,
                     begun, handed, covered, overlaps>>
      /\ Continue(c, "last")
      /\ token' \in {token, [token EXCEPT ![call[c].acc] = call[c].next]}
  BY DEF UpdateSyncToken, accounts, remote, consents, seen
<1>5. faults' \in 0..MaxTrouble
  BY FaultTyped DEF UpdateSyncToken
<1>6. /\ token' \in [Account -> {-1} \cup Nat]
      /\ \A a \in Account : token'[a] = token[a] \/ Passed(a, token'[a])
  BY <1>3, <1>4 DEF IndInv, TypeOK
<1>7. TypeOK'
  BY <1>1, <1>4, <1>5, <1>6, ContinueForms DEF IndInv, TypeOK, Calls, Pc
<1> QED BY <1>1, <1>4, <1>6, <1>7, RowsAlone, ContinueKept DEF Pc

(* The user at Google changes no account and no call. *)
LEMMA UserKept ==
  ASSUME IndInv, (\E g \in Grant : Revoke(g)) \/ (\E e \in Event : RemoveEvent(e))
  PROVE  IndInv'
<1>1. UNCHANGED <<row, connected, token, lastSync, link, grants, call, handed, covered, begun,
                  faults, overlaps>>
  BY DEF Revoke, RemoveEvent, accounts, consents, history, seen
<1>2. /\ event' \in [Event -> RemoteEvent \cup {NoEvent}]
      /\ changes' \in [Account -> Seq(Event)] /\ removed' \subseteq Event
      /\ revoked' \subseteq 1..grants
      /\ \A f \in Event : event[f] # NoEvent => event'[f] # NoEvent
      /\ \A a \in Account : /\ Len(changes[a]) <= Len(changes'[a])
                           /\ \A i \in 1..Len(changes[a]) : changes'[a][i] = changes[a][i]
  <2>1. ASSUME NEW g \in Grant, Revoke(g)
        PROVE  /\ UNCHANGED <<event, changes, removed>> /\ revoked' \subseteq 1..grants
    <3>1. g \in 1..grants
      BY <2>1 DEF Revoke, Grant, IndInv, TypeOK
    <3> QED BY <2>1, <3>1 DEF Revoke, remote, IndInv, TypeOK
  <2>2. ASSUME NEW e \in Event, RemoveEvent(e)
        PROVE  event[e] # NoEvent /\ Gone(e) /\ removed' = removed \cup {e} /\ revoked' = revoked
    BY <2>2 DEF RemoveEvent, consents
  <2>3. CASE \E g \in Grant : Revoke(g)
    BY <2>1, <2>3, Unchanging DEF IndInv, TypeOK
  <2>4. CASE \E e \in Event : RemoveEvent(e)
    <3>1. PICK e \in Event : RemoveEvent(e)
      BY <2>4
    <3>2. event[e] # NoEvent /\ Gone(e) /\ removed' = removed \cup {e} /\ revoked' = revoked
      BY <2>2, <3>1
    <3> QED BY <3>2, GoneForms DEF IndInv, TypeOK
  <2> QED BY <2>3, <2>4
<1>3. TypeOK'
  BY <1>1, <1>2 DEF IndInv, TypeOK
<1> QED BY <1>1, <1>2, <1>3, RowsAlone, Kept

(* Every step keeps the invariant. *)
LEMMA StepKept == IndInv /\ [Next]_vars => IndInv'
<1> SUFFICES ASSUME IndInv, [Next]_vars PROVE IndInv'
  OBVIOUS
<1>1. ASSUME NEW c \in Call, Begin(c) PROVE IndInv'
  BY <1>1, OAuthCallbackKept, BeginKept DEF Begin
<1>2. ASSUME NEW c \in Call, AccountStep(c) PROVE IndInv'
  BY <1>2, SaveAccountKept, DiscoverKept, PersistTokenKept, MarkReauthKept, AccountQuiet
  DEF AccountStep
<1>3. ASSUME NEW c \in Call, EventStep(c) PROVE IndInv'
  BY <1>3, LookForLinkKept, EventCreatedKept, CreationUnansweredKept, LinkWritten,
     EventChangedKept DEF EventStep
<1>4. ASSUME NEW c \in Call, SyncStep(c) PROVE IndInv'
  BY <1>4, ChangesReadKept, HandDeletedKept, AllHandedKept, UpdateSyncTokenKept, AccountQuiet
  DEF SyncStep
<1>5. CASE UNCHANGED vars
  BY <1>5
  DEF vars, accounts, remote, consents, history, seen, IndInv, TypeOK, OperationsSound, Sound,
      InsertionsApart, TokensSound, Passed, Settled, Secure, ActiveHoldsToken, RefreshForgotten,
      OneRowPerEmail, Active, Ids, At
<1> QED BY <1>1, <1>2, <1>3, <1>4, <1>5, AbandonKept, DisconnectAccountKept, UserKept DEF Next

LEMMA Invariance == Spec => []IndInv
BY InitEstablishes, StepKept, PTL DEF Spec

(* The state keeps its types. *)
THEOREM TypeCorrect == Spec => []TypeOK
<1>1. IndInv => TypeOK
  BY DEF IndInv
<1> QED BY <1>1, Invariance, PTL

(* An account that is active holds an access token and a refresh token,    *)
(* whatever reconnections, disconnections and late refreshes overlapped    *)
(* (saveAccount, disconnectAccount, updateAccountStatus and the callback   *)
(* that stores a refreshed token, CalendarService.ts).                     *)
THEOREM ActiveAccountsHoldTokens == Spec => []ActiveHoldsToken
<1>1. IndInv => ActiveHoldsToken
  BY DEF IndInv, Secure
<1> QED BY <1>1, Invariance, PTL

(* After disconnectAccount no refresh token is left, though refreshes in   *)
(* flight still write to the row.                                          *)
THEOREM DisconnectedForgets == Spec => []RefreshForgotten
<1>1. IndInv => RefreshForgotten
  BY DEF IndInv, Secure
<1> QED BY <1>1, Invariance, PTL

(* However many consents are given for an address, and however their       *)
(* callbacks overlap, saveAccount keeps one row for it.                    *)
THEOREM OneRow == Spec => []OneRowPerEmail
<1>1. IndInv => OneRowPerEmail
  BY DEF IndInv, Secure
<1> QED BY <1>1, Invariance, PTL

(* Rows, tokens and addresses of calendar_accounts agree.                  *)
THEOREM AccountsAgree == Spec => []AccountsSound
<1>1. IndInv => AccountsSound
  BY DEF IndInv, Secure, AccountsSound
<1> QED BY <1>1, Invariance, PTL

(* The sync token of a calendar passes no deletion that was not handed on, *)
(* whatever reconciliations of one account overlap, fail or are repeated   *)
(* (reconcileAccount, updateSyncToken).                                    *)
THEOREM TokensSkipNothing == Spec => []NothingSkipped
<1>1. IndInv => NothingSkipped
  BY DEF IndInv, TokensSound, Passed, Settled, NothingSkipped
<1> QED BY <1>1, Invariance, PTL

(* No step but a callback with a new consent makes an account active.      *)
THEOREM ConsentRevives == Spec => OnlyConsentRevives
<1> DEFINE Revives ==
      \A a \in Account : ~Active(a) /\ Active(a)' =>
        \E c \in Call : At(c, "save") /\ row'[a].refresh = call[c].access
<1>1. IndInv /\ [Next]_vars => [Revives]_vars
  <2> SUFFICES ASSUME IndInv, Next, NEW a \in Account, ~Active(a), Active(a)'
               PROVE  \E c \in Call : At(c, "save") /\ row'[a].refresh = call[c].access
    BY DEF vars
  <2>1. row \in [Account -> Row] /\ row' \in [Account -> Row]
    BY StepKept DEF IndInv, TypeOK
  <2>2. row'[a].status = "active" /\ row[a].status # "active"
    BY DEF Active
  <2>3. row' # row
    BY <2>2
  <2>4. ASSUME NEW c \in Call, SaveAccount(c)
        PROVE  At(c, "save") /\ row'[a].refresh = call[c].access
    BY <2>1, <2>2, <2>4 DEF SaveAccount
  <2>5. ASSUME NEW c \in Call, PersistToken(c) PROVE FALSE
    BY <2>1, <2>2, <2>3, <2>5 DEF PersistToken, WithAccess, Row
  <2>6. ASSUME NEW c \in Call, MarkReauth(c) PROVE FALSE
    BY <2>1, <2>2, <2>6 DEF MarkReauth, Row
  <2>7. ~DisconnectAccount
    <3>1. DisconnectAccount => row'[a] \in {Disconnected(row[a]), row[a]}
      BY DEF DisconnectAccount
    <3>2. Disconnected(row[a]).status = "disconnected"
      BY <2>1 DEF Disconnected, Row
    <3> QED BY <2>2, <3>1, <3>2
  <2>8. \A c \in Call : ~Begin(c) /\ ~EventStep(c) /\ ~SyncStep(c) /\ ~Abandon(c)
    BY <2>3
    DEF accounts, Begin, OAuthCallback, Read, CreateCalendarEvent, SyncCommitmentToCalendar,
        DeleteCalendarEvent, ReconcileAccount, EventStep, LookForLink, EventCreated,
        CreationUnanswered, InsertLink, EventUpdated, StampLink, EventDeleted, DeleteLink,
        SyncStep, ChangesRead, SyncFails, HandDeleted, AllHanded, UpdateSyncToken,
        UpdateAccountLastSync, Abandon
  <2>9. \A c \in Call : AccountStep(c) => SaveAccount(c) \/ PersistToken(c) \/ MarkReauth(c)
    BY <2>3
    DEF accounts, AccountStep, Discover, TokenFresh, TokenRefreshed, Rejected, EventsRead,
        CalendarsListed, InsertCalendar
  <2>10. (\A g \in Grant : ~Revoke(g)) /\ (\A e \in Event : ~RemoveEvent(e))
    BY <2>3 DEF accounts, Revoke, RemoveEvent
  <2> QED BY <2>4, <2>5, <2>6, <2>7, <2>8, <2>9, <2>10 DEF Next
<1> HIDE DEF Revives
<1>2. [][Revives]_vars => OnlyConsentRevives
  BY DEF OnlyConsentRevives, Revives
<1> QED BY <1>1, <1>2, Invariance, PTL DEF Spec

-----------------------------------------------------------------------------
(* Pushes: whose each event, link and call is.                             *)

Pushes(r) == r.pc # "idle" /\ r.op = "push"

Owned ==
  /\ \A e \in Event : link[e] # NoLink => event[e] # NoEvent /\ link[e].task = event[e].task
  /\ \A c \in Call : Pushes(call[c]) /\ call[c].event # None =>
       /\ event[call[c].event].task = call[c].task
       /\ event[call[c].event].account = call[c].acc
  /\ \A c \in Call : At(c, "save") => call[c].op = "discover"
  /\ \A c \in Call : call[c].pc # "idle" /\ call[c].op # "push" => call[c].task = NoTask
  /\ \A c \in Call : At(c, "unlink") => call[c].op = "delete" /\ ~event[call[c].event].live

(* The calls that are about to make an event for a commitment, to look for *)
(* one, and to link one.                                                   *)
Makes(r, t, a) == Pushes(r) /\ r.pc # "look" /\ r.task = t /\ r.acc = a /\ r.event = None
Looks(r, t, a) == r.pc = "look" /\ r.task = t /\ r.acc = a
Links(r, e)    == r.pc = "link" /\ r.event = e
Unlinks(r, e)  == r.pc = "unlink" /\ r.event = e

Makers(t, a)  == {c \in Call : Makes(call[c], t, a)}
Lookers(t, a) == {c \in Call : Looks(call[c], t, a)}
Linkers(t, a) == {c \in Call : \E e \in Entries(t, a) : Links(call[c], e)}
Found(t, a)   == {e \in Entries(t, a) : link[e] # NoLink}

(* While an entry is linked there is room for it and for one push that is  *)
(* about to find it; while none is, for the one push that makes it.        *)
Free(t, a) ==
  IF Found(t, a) # {} THEN 2
  ELSE IF Makers(t, a) \cup Lookers(t, a) \cup Linkers(t, a) # {} THEN 1 ELSE 0

(* What went wrong, or overlapped.                                         *)
Slack == faults + overlaps

Few(t, a) ==
  /\ Cardinality(Entries(t, a)) + Cardinality(Makers(t, a)) <= 1 + Slack
  /\ Cardinality(Entries(t, a)) + Cardinality(Makers(t, a)) + Cardinality(Lookers(t, a))
       <= Free(t, a) + Slack

EntriesFew == \A t \in Task, a \in Account : Few(t, a)

(* The events that were deleted by Hevn, or else in passing, and are linked *)
(* with nobody about to unlink them, or are about to be linked.            *)
Loose ==
  {e \in Event :
     /\ event[e] # NoEvent /\ ~event[e].live /\ e \notin removed
     /\ \/ link[e] # NoLink /\ \A c \in Call : ~Unlinks(call[c], e)
        \/ \E c \in Call : Links(call[c], e)}

LooseFew == Cardinality(Loose) <= Slack

PushInv == Owned /\ ShowsOwnTask /\ EntriesFew /\ LooseFew

(* Few in terms of the sets alone, and how they change.                    *)
Spared(A, B) == IF A # {} THEN 2 ELSE IF B # {} THEN 1 ELSE 0

FewSets(E, M, L, K, A, n) ==
  /\ Cardinality(E) + Cardinality(M) <= 1 + n
  /\ Cardinality(E) + Cardinality(M) + Cardinality(L) <= Spared(A, M \cup L \cup K) + n

LEMMA Fewer ==
  ASSUME NEW T, IsFiniteSet(T), NEW S, S \subseteq T
  PROVE  /\ IsFiniteSet(S) /\ Cardinality(S) \in Nat /\ Cardinality(T) \in Nat
         /\ Cardinality(S) <= Cardinality(T)
         /\ S # T => Cardinality(S) + 1 <= Cardinality(T)
         /\ S = {} <=> Cardinality(S) = 0
<1>1. /\ IsFiniteSet(S) /\ Cardinality(S) <= Cardinality(T)
      /\ Cardinality(S) = Cardinality(T) => S = T
  BY FS_Subset
<1>2. Cardinality(S) \in Nat /\ Cardinality(T) \in Nat /\ (Cardinality(S) = 0 <=> S = {})
  BY <1>1, FS_CardinalityType, FS_EmptySet
<1> QED BY <1>1, <1>2

LEMMA OneMore ==
  ASSUME NEW S, IsFiniteSet(S), NEW x, x \notin S
  PROVE  /\ IsFiniteSet(S \cup {x}) /\ Cardinality(S \cup {x}) = Cardinality(S) + 1
         /\ Cardinality(S) \in Nat
BY FS_AddElement, FS_CardinalityType

LEMMA OneLess ==
  ASSUME NEW S, IsFiniteSet(S), NEW x, x \in S
  PROVE  /\ IsFiniteSet(S \ {x}) /\ Cardinality(S \ {x}) = Cardinality(S) - 1
         /\ Cardinality(S) \in Nat /\ Cardinality(S \ {x}) \in Nat
BY FS_RemoveElement, FS_CardinalityType

(* Nobody is to make or look for more than before.                         *)
LEMMA FewDrops ==
  ASSUME NEW E, NEW M, NEW L, NEW K, NEW A, NEW n \in Nat, IsFiniteSet(E), IsFiniteSet(M), IsFiniteSet(L),
         FewSets(E, M, L, K, A, n),
         NEW M2, NEW L2, NEW K2, NEW A2, NEW n2 \in Nat, M2 \subseteq M, L2 \subseteq L, n2 >= n,
         A # {} => A2 # {}, K \subseteq K2 \/ n2 >= n + 1
  PROVE  FewSets(E, M2, L2, K2, A2, n2)
<1>1. /\ Cardinality(M2) \in Nat /\ Cardinality(M) \in Nat /\ Cardinality(M2) <= Cardinality(M)
      /\ M2 # M => Cardinality(M2) + 1 <= Cardinality(M)
  BY Fewer
<1>2. /\ Cardinality(L2) \in Nat /\ Cardinality(L) \in Nat /\ Cardinality(L2) <= Cardinality(L)
      /\ L2 # L => Cardinality(L2) + 1 <= Cardinality(L)
  BY Fewer
<1>3. Cardinality(E) \in Nat
  BY FS_CardinalityType
<1>4. CASE A2 # {}
  BY <1>1, <1>2, <1>3, <1>4 DEF FewSets, Spared
<1>5. CASE A2 = {} /\ M2 \cup L2 \cup K2 # {}
  BY <1>1, <1>2, <1>3, <1>5 DEF FewSets, Spared
<1>6. CASE A2 = {} /\ M2 \cup L2 \cup K2 = {} /\ n2 >= n + 1
  BY <1>1, <1>2, <1>3, <1>6 DEF FewSets, Spared
<1>7. CASE A2 = {} /\ M2 \cup L2 \cup K2 = {} /\ K \subseteq K2
  <2>1. A = {} /\ K = {}
    BY <1>7
  <2>2. CASE M = {} /\ L = {}
    BY <1>1, <1>2, <1>3, <1>7, <2>1, <2>2 DEF FewSets, Spared
  <2>3. CASE M # {} \/ L # {}
    <3>1. M2 # M \/ L2 # L
      BY <1>7, <2>3
    <3>2. Cardinality(M2) + Cardinality(L2) + 1 <= Cardinality(M) + Cardinality(L)
      BY <1>1, <1>2, <3>1
    <3> QED BY <1>1, <1>2, <1>3, <1>7, <2>1, <3>2 DEF FewSets, Spared
  <2> QED BY <2>2, <2>3
<1> QED BY <1>4, <1>5, <1>6, <1>7

(* A push begins: nobody else is at it, or the overlap is counted.         *)
LEMMA FewBegins ==
  ASSUME NEW E, NEW M, NEW L, NEW K, NEW A, NEW n \in Nat, IsFiniteSet(E), IsFiniteSet(M), IsFiniteSet(L),
         FewSets(E, M, L, K, A, n), NEW c, c \notin L, NEW n2 \in Nat,
         n2 = n + 1 \/ (n2 = n /\ M = {} /\ L = {} /\ K = {})
  PROVE  FewSets(E, M, L \cup {c}, K, A, n2)
<1>1. /\ Cardinality(L \cup {c}) = Cardinality(L) + 1 /\ Cardinality(L) \in Nat
      /\ Cardinality(M) \in Nat /\ Cardinality(E) \in Nat
  BY OneMore, FS_CardinalityType
<1>2. M \cup (L \cup {c}) \cup K # {}
  OBVIOUS
<1>3. CASE n2 = n + 1
  BY <1>1, <1>2, <1>3 DEF FewSets, Spared
<1>4. CASE n2 = n /\ M = {} /\ L = {} /\ K = {}
  <2>1. Cardinality(M) = 0 /\ Cardinality(L) = 0
    BY <1>4, FS_EmptySet
  <2> QED BY <1>1, <1>2, <1>4, <2>1 DEF FewSets, Spared
<1> QED BY <1>3, <1>4

(* A push finds no link: it may make an event.                             *)
LEMMA FewLooks ==
  ASSUME NEW E, NEW M, NEW L, NEW K, NEW n \in Nat, IsFiniteSet(E), IsFiniteSet(M), IsFiniteSet(L),
         FewSets(E, M, L, K, {}, n), NEW c, c \in L, c \notin M
  PROVE  FewSets(E, M \cup {c}, L \ {c}, K, {}, n)
<1>1. /\ Cardinality(L \ {c}) = Cardinality(L) - 1 /\ Cardinality(L \ {c}) \in Nat
      /\ Cardinality(L) \in Nat /\ Cardinality(M \cup {c}) = Cardinality(M) + 1 /\ Cardinality(M) \in Nat
      /\ Cardinality(E) \in Nat
  BY OneMore, OneLess, FS_CardinalityType
<1>2. M \cup L \cup K # {}
  OBVIOUS
<1>3. (M \cup {c}) \cup (L \ {c}) \cup K # {}
  OBVIOUS
<1>4. Cardinality(E) + Cardinality(M) + Cardinality(L) <= 1 + n
  BY <1>2 DEF FewSets, Spared
<1>5. Spared({}, (M \cup {c}) \cup (L \ {c}) \cup K) = 1
  BY <1>3 DEF Spared
<1>6. /\ Cardinality(E) + Cardinality(M \cup {c}) <= 1 + n
      /\ Cardinality(E) + Cardinality(M \cup {c}) + Cardinality(L \ {c}) <= 1 + n
  BY <1>1, <1>4
<1> QED BY <1>5, <1>6 DEF FewSets

(* It makes the event and is about to link it, or its answer is lost.      *)
LEMMA FewMakes ==
  ASSUME NEW E, NEW M, NEW L, NEW K, NEW A, NEW n \in Nat, IsFiniteSet(E), IsFiniteSet(M), IsFiniteSet(L),
         FewSets(E, M, L, K, A, n), NEW e, e \notin E, NEW c, c \in M, NEW M2, NEW K2, NEW n2 \in Nat,
         \/ M2 = M \ {c} /\ K2 # {} /\ n2 = n
         \/ M2 = M \ {c} /\ n2 = n + 1
         \/ M2 = M /\ n2 = n + 1
  PROVE  FewSets(E \cup {e}, M2, L, K2, A, n2)
<1>1. /\ Cardinality(M \ {c}) = Cardinality(M) - 1 /\ Cardinality(M) \in Nat
      /\ Cardinality(E \cup {e}) = Cardinality(E) + 1 /\ Cardinality(E) \in Nat
      /\ Cardinality(L) \in Nat
  BY OneMore, OneLess, FS_CardinalityType
<1>2. M \cup L \cup K # {}
  OBVIOUS
<1>3. CASE M2 = M \ {c} /\ K2 # {} /\ n2 = n
  <2>1. M2 \cup L \cup K2 # {}
    BY <1>3
  <2> QED BY <1>1, <1>2, <1>3, <2>1 DEF FewSets, Spared
<1>4. CASE M2 = M \ {c} /\ n2 = n + 1
  BY <1>1, <1>2, <1>4 DEF FewSets, Spared
<1>5. CASE M2 = M /\ n2 = n + 1
  <2>1. M2 \cup L \cup K2 # {}
    BY <1>5
  <2> QED BY <1>1, <1>2, <1>5, <2>1 DEF FewSets, Spared
<1> QED BY <1>3, <1>4, <1>5

(* It links the event.                                                     *)
LEMMA FewLinks ==
  ASSUME NEW E, NEW M, NEW L, NEW K, NEW A, NEW n \in Nat, IsFiniteSet(E), IsFiniteSet(M), IsFiniteSet(L),
         FewSets(E, M, L, K, A, n), NEW K2, NEW A2, A # {} => A2 # {}, K2 = K \/ A2 # {}
  PROVE  FewSets(E, M, L, K2, A2, n)
<1>1. Cardinality(M) \in Nat /\ Cardinality(E) \in Nat /\ Cardinality(L) \in Nat
  BY FS_CardinalityType
<1> QED BY <1>1 DEF FewSets, Spared

(* An entry is deleted.                                                    *)
LEMMA FewGoes ==
  ASSUME NEW E, NEW M, NEW L, NEW K, NEW A, NEW n \in Nat, IsFiniteSet(E), IsFiniteSet(M), IsFiniteSet(L),
         FewSets(E, M, L, K, A, n), NEW e, NEW K2, A \subseteq E, e \in E \/ K2 = K,
         NEW n2 \in Nat, n2 >= n
  PROVE  FewSets(E \ {e}, M, L, K2, A \ {e}, n2)
<1>1. Cardinality(M) \in Nat /\ Cardinality(E) \in Nat /\ Cardinality(L) \in Nat
  BY FS_CardinalityType
<1>2. CASE e \notin E
  <2>1. E \ {e} = E /\ A \ {e} = A /\ K2 = K
    BY <1>2
  <2> QED BY <1>1, <2>1 DEF FewSets, Spared
<1>3. CASE e \in E
  <2>1. Cardinality(E \ {e}) = Cardinality(E) - 1
    BY <1>3, OneLess
  <2>2. CASE M \cup L \cup K2 = {} /\ A \ {e} = {}
    <3>1. Cardinality(M) = 0 /\ Cardinality(L) = 0
      BY <2>2, FS_EmptySet
    <3> QED BY <1>1, <2>1, <2>2, <3>1 DEF FewSets, Spared
  <2>3. CASE M \cup L \cup K2 # {} \/ A \ {e} # {}
    BY <1>1, <2>1, <2>3 DEF FewSets, Spared
  <2> QED BY <2>2, <2>3
<1> QED BY <1>2, <1>3

LEMMA EventsFinite == IsFiniteSet(Event)
<1>1. 1 \in Int /\ MaxEvents \in Int
  BY CalendarAssumption
<1> QED BY <1>1, FS_Interval DEF Event

LEMMA Counted ==
  ASSUME IndInv
  PROVE  faults \in Nat /\ overlaps \in Nat /\ Slack \in Nat
<1>1. faults \in Nat /\ overlaps \in Nat
  BY CalendarAssumption DEF IndInv, TypeOK
<1> QED BY <1>1 DEF Slack

LEMMA Slacker ==
  ASSUME IndInv, IndInv'
  PROVE  /\ faults' \in Nat /\ overlaps' \in Nat /\ Slack \in Nat /\ Slack' \in Nat
         /\ faults' >= faults /\ overlaps' >= overlaps => Slack' >= Slack
         /\ /\ faults' >= faults /\ overlaps' >= overlaps
            /\ faults' = faults + 1 \/ overlaps' = overlaps + 1
            => Slack' >= Slack + 1
         /\ faults' = faults /\ overlaps' = overlaps => Slack' = Slack
         /\ faults' = faults /\ overlaps' = overlaps + 1 => Slack' = Slack + 1
         /\ faults' = faults + 1 /\ overlaps' = overlaps => Slack' = Slack + 1
<1>1. faults \in Nat /\ overlaps \in Nat
  BY Counted
<1>2. faults' \in Nat /\ overlaps' \in Nat
  BY CalendarAssumption DEF IndInv, TypeOK
<1>3. ASSUME NEW f, f = faults, NEW o, o = overlaps, NEW n, n = Slack,
             NEW g, g = faults', NEW p, p = overlaps', NEW m, m = Slack'
      PROVE  /\ n \in Nat /\ m \in Nat
             /\ g >= f /\ p >= o => m >= n
             /\ g >= f /\ p >= o /\ (g = f + 1 \/ p = o + 1) => m >= n + 1
             /\ g = f /\ p = o => m = n
             /\ g = f /\ p = o + 1 => m = n + 1
             /\ g = f + 1 /\ p = o => m = n + 1
  <2>1. n = f + o
    BY <1>3 DEF Slack
  <2>2. m = g + p
    BY <1>3 DEF Slack
  <2>3. f \in Nat /\ o \in Nat /\ g \in Nat /\ p \in Nat
    BY <1>1, <1>2, <1>3
  <2> HIDE <1>3
  <2> QED BY <2>1, <2>2, <2>3
<1> QED BY <1>1, <1>2, <1>3

LEMMA PushSets ==
  ASSUME IndInv, NEW t \in Task, NEW a \in Account
  PROVE  /\ IsFiniteSet(Entries(t, a)) /\ IsFiniteSet(Makers(t, a)) /\ IsFiniteSet(Lookers(t, a))
         /\ Slack \in Nat
         /\ Found(t, a) \subseteq Entries(t, a)
         /\ Few(t, a) <=> FewSets(Entries(t, a), Makers(t, a), Lookers(t, a), Linkers(t, a),
                                  Found(t, a), Slack)
<1>1. IsFiniteSet(Event)
  BY EventsFinite
<1>2. Entries(t, a) \subseteq Event /\ Makers(t, a) \subseteq Call /\ Lookers(t, a) \subseteq Call
  BY DEF Entries, Makers, Lookers
<1>3. IsFiniteSet(Entries(t, a)) /\ IsFiniteSet(Makers(t, a)) /\ IsFiniteSet(Lookers(t, a))
  BY <1>1, <1>2, Fewer, CalendarAssumption
<1>4. Slack \in Nat
  BY Counted
<1>5. /\ Cardinality(Entries(t, a)) \in Nat /\ Cardinality(Makers(t, a)) \in Nat
      /\ Cardinality(Lookers(t, a)) \in Nat
  BY <1>3, FS_CardinalityType
<1>6. Free(t, a) = Spared(Found(t, a), Makers(t, a) \cup Lookers(t, a) \cup Linkers(t, a))
  BY DEF Free, Spared
<1>7. Free(t, a) \in Nat
  BY DEF Free
<1>8. Few(t, a) <=> FewSets(Entries(t, a), Makers(t, a), Lookers(t, a), Linkers(t, a),
                            Found(t, a), Slack)
  BY <1>4, <1>5, <1>6, <1>7 DEF Few, FewSets
<1> QED BY <1>3, <1>4, <1>8 DEF Found

(* Few', from the sets after a step.                                       *)
LEMMA FewAfter ==
  ASSUME IndInv, IndInv', NEW t \in Task, NEW a \in Account,
         FewSets(Entries(t, a)', Makers(t, a)', Lookers(t, a)', Linkers(t, a)', Found(t, a)',
                 Slack')
  PROVE  Few(t, a)'
<1>1. IsFiniteSet(Event)
  BY EventsFinite
<1>2. Entries(t, a)' \subseteq Event /\ Makers(t, a)' \subseteq Call /\ Lookers(t, a)' \subseteq Call
  BY DEF Entries, Makers, Lookers
<1>3. IsFiniteSet(Entries(t, a)') /\ IsFiniteSet(Makers(t, a)') /\ IsFiniteSet(Lookers(t, a)')
  BY <1>1, <1>2, Fewer, CalendarAssumption
<1>4. Slack' \in Nat
  BY Slacker
<1>5. /\ Cardinality(Entries(t, a)') \in Nat /\ Cardinality(Makers(t, a)') \in Nat
      /\ Cardinality(Lookers(t, a)') \in Nat
  BY <1>3, FS_CardinalityType
<1>6. Free(t, a)' = Spared(Found(t, a)', Makers(t, a)' \cup Lookers(t, a)' \cup Linkers(t, a)')
  BY DEF Free, Spared
<1>7. Free(t, a)' \in Nat
  BY DEF Free
<1> QED BY <1>4, <1>5, <1>6, <1>7 DEF Few, FewSets

(* A call that is at work.                                                 *)
LEMMA Busy ==
  ASSUME IndInv, NEW c \in Call
  PROVE  /\ call[c] = Idle <=> call[c].pc = "idle"
         /\ call[c] # Idle => /\ call[c] \in Operation /\ Sound(c) /\ call[c].pc \in Pc
                              /\ call[c].acc \in {None} \cup Account
                              /\ call[c].task \in Task \cup {NoTask}
                              /\ call[c].event \in {None} \cup Event
<1>1. /\ call[c] = Idle <=> call[c].pc = "idle"
      /\ call[c] # Idle => call[c] \in Operation /\ call[c].pc \in Pc
  BY CallForms DEF IndInv, TypeOK, Calls
<1>2. call[c] # Idle => Sound(c)
  BY DEF IndInv, OperationsSound
<1>3. \A r \in Operation : /\ r.acc \in {None} \cup Account /\ r.task \in Task \cup {NoTask}
                           /\ r.event \in {None} \cup Event
  BY DEF Operation
<1> QED BY <1>1, <1>2, <1>3

LEMMA BusyAfter ==
  ASSUME IndInv', NEW c \in Call
  PROVE  /\ call'[c] = Idle <=> call'[c].pc = "idle"
         /\ call'[c] # Idle => /\ call'[c] \in Operation /\ Sound(c)' /\ call'[c].pc \in Pc
                               /\ call'[c].event \in {None} \cup Event
<1>0. call' \in Calls
  BY DEF IndInv, TypeOK, Calls
<1>1. call'[c] \in Operation \cup {Idle}
  BY <1>0 DEF Calls
<1>2. Idle.pc = "idle"
  BY DEF Idle
<1>3. \A r \in Operation : r.pc \in Pc /\ r.pc # "idle" /\ r.event \in {None} \cup Event
  BY DEF Operation, Pc
<1>4. call'[c] # Idle => Sound(c)'
  BY DEF IndInv, OperationsSound
<1> QED BY <1>1, <1>2, <1>3, <1>4

(* What an event or its link says of a commitment.                         *)
LinksStay ==
  \A e \in Event : /\ link'[e] = NoLink <=> link[e] = NoLink
                   /\ link[e] # NoLink => link'[e].task = link[e].task

EventsStay ==
  \A e \in Event :
    \/ event'[e] = event[e]
    \/ /\ event[e] # NoEvent /\ event'[e] # NoEvent
       /\ event'[e].account = event[e].account /\ event'[e].task = event[e].task
       /\ event'[e].live = event[e].live /\ event'[e].shows = event'[e].task

Others(c) == \A d \in Call \ {c} : call'[d] = call[d]

(* A call that takes no part in pushes, goes on as it was, or ends.        *)
Quieter(s, r) ==
  \/ s.pc = "idle"
  \/ /\ s.pc \notin {"look", "link", "unlink"} /\ s.op # "push" /\ s.task = NoTask
     /\ s.pc = "save" => s.op = "discover"
  \/ /\ s.pc \notin {"look", "link", "unlink", "save"} /\ r.pc \notin {"idle", "look"}
     /\ s.op = r.op /\ s.task = r.task /\ s.acc = r.acc /\ s.event = r.event

Quiet(c) ==
  /\ Others(c) /\ Quieter(call'[c], call[c]) /\ LinksStay /\ EventsStay
  /\ removed' = removed /\ overlaps' = overlaps
  /\ \/ call[c].pc \notin {"link", "unlink"} /\ faults' \in {faults, faults + 1}
     \/ call'[c].pc = "idle" /\ faults' = faults + 1

LEMMA SameEntries ==
  ASSUME EventsStay, LinksStay, NEW t \in Task, NEW a \in Account
  PROVE  Entries(t, a)' = Entries(t, a) /\ Found(t, a)' = Found(t, a)
<1>1. Entries(t, a)' = Entries(t, a)
  BY DEF EventsStay, Entries
<1>2. \A e \in Event : link'[e] = NoLink <=> link[e] = NoLink
  BY DEF LinksStay
<1>3. Entries(t, a) \subseteq Event
  BY DEF Entries
<1> QED BY <1>1, <1>2, <1>3 DEF Found

LEMMA QuietFew ==
  ASSUME IndInv, IndInv', NEW t \in Task, NEW a \in Account, Few(t, a), NEW c \in Call, Quiet(c)
  PROVE  Few(t, a)'
<1>1. Entries(t, a)' = Entries(t, a) /\ Found(t, a)' = Found(t, a)
  BY SameEntries DEF Quiet
<1>2. /\ Makes(call'[c], t, a) => Makes(call[c], t, a)
      /\ ~Looks(call'[c], t, a) /\ \A e \in Event : ~Links(call'[c], e)
  <2>1. NoTask # t
    BY CalendarAssumption
  <2> QED BY <2>1 DEF Quiet, Quieter, Makes, Looks, Links, Pushes
<1>3. Makers(t, a)' \subseteq Makers(t, a)
  BY <1>2 DEF Makers, Quiet, Others
<1>4. Lookers(t, a)' \subseteq Lookers(t, a)
  BY <1>2 DEF Lookers, Quiet, Others
<1>5. Linkers(t, a) \subseteq Linkers(t, a)' \/ faults' = faults + 1
  <2>1. CASE call[c].pc # "link"
    <3>1. \A e \in Event : ~Links(call[c], e)
      BY <2>1 DEF Links
    <3>2. \A d \in Linkers(t, a) : d # c
      BY <3>1 DEF Linkers, Entries
    <3>3. \A d \in Linkers(t, a) : d \in Call /\ call'[d] = call[d]
      BY <3>2 DEF Linkers, Quiet, Others
    <3> QED BY <1>1, <3>3 DEF Linkers
  <2>2. CASE call[c].pc = "link"
    BY <2>2 DEF Quiet
  <2> QED BY <2>1, <2>2
<1>6. /\ Slack \in Nat /\ Slack' \in Nat /\ Slack' >= Slack
      /\ faults' = faults + 1 => Slack' >= Slack + 1
  <2>1. faults' >= faults /\ overlaps' >= overlaps
    BY Counted DEF Quiet
  <2> QED BY <2>1, Slacker
<1>7. Linkers(t, a) \subseteq Linkers(t, a)' \/ Slack' >= Slack + 1
  BY <1>5, <1>6
<1>8. /\ IsFiniteSet(Entries(t, a)) /\ IsFiniteSet(Makers(t, a)) /\ IsFiniteSet(Lookers(t, a))
      /\ FewSets(Entries(t, a), Makers(t, a), Lookers(t, a), Linkers(t, a), Found(t, a), Slack)
  BY PushSets
<1>9. FewSets(Entries(t, a), Makers(t, a)', Lookers(t, a)', Linkers(t, a)', Found(t, a), Slack')
  BY <1>3, <1>4, <1>6, <1>7, <1>8, FewDrops
<1> QED BY <1>1, <1>9, FewAfter

LEMMA Raised ==
  ASSUME NEW S, IsFiniteSet(S), NEW T, NEW e, NEW n \in Nat, NEW m \in Nat, m >= n,
         T \subseteq S \/ (m >= n + 1 /\ T \subseteq S \cup {e}),
         Cardinality(S) <= n
  PROVE  Cardinality(T) <= m
<1>1. IsFiniteSet(S \cup {e}) /\ Cardinality(S \cup {e}) <= Cardinality(S) + 1
  <2>1. /\ IsFiniteSet(S \cup {e}) /\ Cardinality(S) \in Nat
        /\ Cardinality(S \cup {e}) = IF e \in S THEN Cardinality(S) ELSE Cardinality(S) + 1
    BY FS_AddElement, FS_CardinalityType
  <2> QED BY <2>1
<1>2. /\ Cardinality(S) \in Nat /\ Cardinality(S \cup {e}) \in Nat
  BY <1>1, FS_CardinalityType
<1>3. CASE T \subseteq S
  <2>1. Cardinality(T) <= Cardinality(S) /\ Cardinality(T) \in Nat
    BY <1>3, Fewer
  <2> QED BY <1>2, <2>1
<1>4. CASE m >= n + 1 /\ T \subseteq S \cup {e}
  <2>1. Cardinality(T) <= Cardinality(S \cup {e}) /\ Cardinality(T) \in Nat
    BY <1>1, <1>4, Fewer
  <2> QED BY <1>1, <1>2, <1>4, <2>1
<1> QED BY <1>3, <1>4

(* The links of nobody: they are few, and only one is added at a time.     *)
LEMMA LooseAdds ==
  ASSUME IndInv, IndInv', LooseFew, Slack' >= Slack, NEW e,
         \/ Loose' \subseteq Loose
         \/ /\ Slack' >= Slack + 1
            /\ Loose' \subseteq Loose \cup {e}
  PROVE  LooseFew'
<1>1. Loose \subseteq Event
  BY DEF Loose
<1>2. IsFiniteSet(Loose)
  BY <1>1, EventsFinite, Fewer
<1>3. Slack \in Nat /\ Slack' \in Nat
  BY Slacker
<1>4. Cardinality(Loose) <= Slack
  BY DEF LooseFew
<1>5. Cardinality(Loose') <= Slack'
  BY <1>2, <1>3, <1>4, Raised
<1> QED BY <1>5 DEF LooseFew

LEMMA QuietLoose ==
  ASSUME IndInv, IndInv', LooseFew, NEW c \in Call, Quiet(c)
  PROVE  LooseFew'
<1>0. /\ Slack' >= Slack
      /\ faults' = faults + 1 => Slack' >= Slack + 1
  <2>1. faults' >= faults /\ overlaps' >= overlaps
    BY Counted DEF Quiet
  <2> QED BY <2>1, Slacker
<1>1. \A e \in Event : /\ ~Links(call'[c], e) /\ ~Unlinks(call'[c], e)
                       /\ \A d \in Call \ {c} : call'[d] = call[d]
  BY DEF Quiet, Others, Quieter, Links, Unlinks
<1>2. ASSUME NEW e \in Loose', ~Unlinks(call[c], e) PROVE e \in Loose
  <2>1. e \in Event /\ event'[e] # NoEvent /\ ~event'[e].live /\ e \notin removed
    BY DEF Loose, Quiet
  <2>2. event[e] # NoEvent /\ ~event[e].live
    BY <2>1 DEF Quiet, EventsStay
  <2>3. CASE \E d \in Call : Links(call'[d], e)
    BY <1>1, <2>1, <2>2, <2>3 DEF Loose
  <2>4. CASE link'[e] # NoLink /\ \A d \in Call : ~Unlinks(call'[d], e)
    <3>1. link[e] # NoLink
      BY <2>1, <2>4 DEF Quiet, LinksStay
    <3>2. \A d \in Call : ~Unlinks(call[d], e)
      BY <1>1, <1>2, <2>1, <2>4
    <3> QED BY <2>1, <2>2, <3>1, <3>2 DEF Loose
  <2> QED BY <2>3, <2>4 DEF Loose
<1>3. CASE call[c].pc # "unlink"
  <2>1. Loose' \subseteq Loose
    BY <1>2, <1>3 DEF Unlinks
  <2> QED BY <1>0, <2>1, LooseAdds
<1>4. CASE call[c].pc = "unlink"
  <2>1. Slack' >= Slack + 1
    BY <1>0, <1>4 DEF Quiet
  <2>2. call[c].event \in Event
    BY <1>4, Busy DEF Sound, Idle
  <2>3. Loose' \subseteq Loose \cup {call[c].event}
    BY <1>2 DEF Unlinks
  <2> QED BY <1>0, <2>1, <2>2, <2>3, LooseAdds
<1> QED BY <1>3, <1>4

LEMMA QuietOwned ==
  ASSUME IndInv, IndInv', Owned, ShowsOwnTask, NEW c \in Call, Quiet(c)
  PROVE  Owned' /\ ShowsOwnTask'
<1>1. \A e \in Event : /\ event'[e] # NoEvent <=> event[e] # NoEvent
                       /\ event[e] # NoEvent => /\ event'[e].task = event[e].task
                                                /\ event'[e].account = event[e].account
                                                /\ event'[e].live = event[e].live
  BY DEF Quiet, EventsStay
<1>2. ASSUME NEW e \in Event, link'[e] # NoLink
      PROVE  event'[e] # NoEvent /\ link'[e].task = event'[e].task
  BY <1>1, <1>2 DEF Quiet, LinksStay, Owned
<1>3. ASSUME NEW d \in Call, Pushes(call'[d]), call'[d].event # None
      PROVE  /\ event'[call'[d].event].task = call'[d].task
             /\ event'[call'[d].event].account = call'[d].acc
  <2>1. /\ Pushes(call[d]) /\ call'[d].event = call[d].event
        /\ call'[d].task = call[d].task /\ call'[d].acc = call[d].acc
    BY <1>3 DEF Quiet, Others, Quieter, Pushes
  <2>2. call[d] # Idle
    BY <2>1, Busy DEF Pushes
  <2>3. call[d].event \in Event /\ event[call[d].event] # NoEvent
    BY <1>3, <2>1, <2>2, Busy DEF Sound
  <2> QED BY <1>1, <1>3, <2>1, <2>3 DEF Owned
<1>4. \A d \in Call : At(d, "save")' => call'[d].op = "discover"
  BY DEF Quiet, Others, Quieter, At, Owned
<1>5. \A d \in Call : call'[d].pc # "idle" /\ call'[d].op # "push" => call'[d].task = NoTask
  BY DEF Quiet, Others, Quieter, Owned
<1>6. ASSUME NEW d \in Call, At(d, "unlink")' 
      PROVE  call'[d].op = "delete" /\ ~event'[call'[d].event].live
  <2>1. At(d, "unlink") /\ call'[d] = call[d]
    BY <1>6 DEF Quiet, Others, Quieter, At
  <2>2. call[d] # Idle
    BY <2>1, Busy DEF At
  <2>3. call[d].event \in Event /\ event[call[d].event] # NoEvent
    BY <2>1, <2>2, Busy DEF Sound, At
  <2> QED BY <1>1, <2>1, <2>3 DEF Owned
<1>7. ShowsOwnTask'
  BY DEF Quiet, EventsStay, ShowsOwnTask
<1> QED BY <1>2, <1>3, <1>4, <1>5, <1>6, <1>7 DEF Owned

LEMMA QuietPush ==
  ASSUME IndInv, IndInv', PushInv, NEW c \in Call, Quiet(c)
  PROVE  PushInv'
<1>1. EntriesFew'
  BY QuietFew DEF PushInv, EntriesFew
<1> QED BY <1>1, QuietOwned, QuietLoose DEF PushInv

(* The ordinary steps.                                                     *)
Calm == /\ LinksStay /\ EventsStay /\ removed' = removed /\ overlaps' = overlaps
        /\ faults' \in {faults, faults + 1}

LEMMA GoesOn ==
  ASSUME IndInv, Calm, NEW c \in Call, NEW r, call' = [call EXCEPT ![c] = r],
         call[c].pc \notin {"idle", "look", "link", "unlink"},
         r.pc \notin {"look", "link", "unlink", "save"},
         r.op = call[c].op, r.task = call[c].task, r.acc = call[c].acc, r.event = call[c].event
  PROVE  Quiet(c)
<1>1. call'[c] = r /\ Others(c)
  BY DEF IndInv, TypeOK, Others
<1> QED BY <1>1 DEF Quiet, Quieter, Calm

LEMMA Continues ==
  ASSUME IndInv, Calm, NEW c \in Call, NEW pc \in Pc \ {"look", "link", "unlink", "save"},
         call[c] # Idle, call[c].pc \notin {"look", "link", "unlink"}, Continue(c, pc)
  PROVE  Quiet(c)
<1>1. call \in Calls
  BY DEF IndInv, TypeOK, Calls
<1>2. call[c] \in Operation /\ call[c].pc # "idle"
  BY <1>1, CallForms DEF Pc
<1> DEFINE r == [call[c] EXCEPT !.pc = pc]
<1>3. /\ r \in Operation /\ r.pc = pc /\ r.op = call[c].op /\ r.task = call[c].task
      /\ r.acc = call[c].acc /\ r.event = call[c].event
  BY <1>2 DEF Operation, Pc
<1>4. call' = [call EXCEPT ![c] = r]
  BY DEF Continue
<1> HIDE DEF r
<1> QED BY <1>2, <1>3, <1>4, GoesOn

LEMMA Ends ==
  ASSUME IndInv, Calm, NEW c \in Call, End(c),
         call[c].pc \notin {"link", "unlink"} \/ faults' = faults + 1
  PROVE  Quiet(c)
<1>1. call'[c] = Idle /\ Others(c)
  BY EndForms DEF IndInv, TypeOK, Calls, Others
<1>2. Idle.pc = "idle"
  BY DEF Idle
<1> QED BY <1>1, <1>2 DEF Quiet, Quieter, Calm

LEMMA Opens ==
  ASSUME IndInv, Calm, NEW c \in Call, NEW r, call' = [call EXCEPT ![c] = r],
         call[c].pc \notin {"link", "unlink"},
         r.pc \notin {"look", "link", "unlink"}, r.pc = "save" => r.op = "discover",
         r.op # "push", r.task = NoTask
  PROVE  Quiet(c)
<1>1. call'[c] = r /\ Others(c)
  BY DEF IndInv, TypeOK, Others
<1> QED BY <1>1 DEF Quiet, Quieter, Calm

LEMMA CalmAlone ==
  ASSUME IndInv, UNCHANGED <<link, event, removed, overlaps>>, NoFault \/ Fault
  PROVE  Calm
BY DEF Calm, LinksStay, EventsStay, NoFault, Fault

LEMMA StartedForms ==
  \A pc, op, acc, email, access, from :
    LET r == Started(pc, op, acc, email, access, from)
    IN  r.pc = pc /\ r.op = op /\ r.task = NoTask
BY DEF Started

LEMMA OpenedTask ==
  \A op, a : Opened(op, a).pc = "authorize" /\ Opened(op, a).op = op /\ Opened(op, a).task = NoTask
BY StartedForms DEF Opened

(* Operations that are no pushes begin.                                    *)
LEMMA BeginQuiet ==
  ASSUME IndInv, NEW c \in Call,
         \/ \E email \in Email \cup {NoEmail} : OAuthCallback(c, email)
         \/ Read(c) \/ CreateCalendarEvent(c)
         \/ \E e \in Event : DeleteCalendarEvent(c, e)
         \/ \E a \in Account : ReconcileAccount(c, a)
  PROVE  Quiet(c)
<1> USE DEF remote
<1>1. Begins(c) => call[c].pc = "idle"
  BY DEF Begins, At
<1>2. ASSUME NEW email \in Email \cup {NoEmail}, OAuthCallback(c, email) PROVE Quiet(c)
  <2> DEFINE r == Started("save", "discover", None, email, grants + 1, -1)
  <2>1. r.pc = "save" /\ r.op = "discover" /\ r.task = NoTask
    BY StartedForms
  <2>2. call' = [call EXCEPT ![c] = r]
    BY <1>2 DEF OAuthCallback
  <2>3. Calm
    BY <1>2, CalmAlone DEF OAuthCallback, NoFault
  <2>4. call[c].pc = "idle"
    BY <1>1, <1>2 DEF OAuthCallback
  <2> HIDE DEF r
  <2> QED BY <2>1, <2>2, <2>3, <2>4, Opens
<1>3. CASE Read(c)
  <2>1. PICK a \in Usable : call' = [call EXCEPT ![c] = Opened("read", a)]
    BY <1>3 DEF Read
  <2> DEFINE r == Opened("read", a)
  <2>2. r.pc = "authorize" /\ r.op = "read" /\ r.task = NoTask
    BY OpenedTask
  <2>3. Calm
    BY <1>3, CalmAlone DEF Read, NoFault
  <2>4. call[c].pc = "idle"
    BY <1>1, <1>3 DEF Read
  <2>5. call' = [call EXCEPT ![c] = r]
    BY <2>1
  <2> HIDE DEF r
  <2> QED BY <2>2, <2>3, <2>4, <2>5, Opens
<1>4. CASE CreateCalendarEvent(c)
  <2>1. PICK a \in Usable : call' = [call EXCEPT ![c] = Opened("create", a)]
    BY <1>4 DEF CreateCalendarEvent
  <2> DEFINE r == Opened("create", a)
  <2>2. r.pc = "authorize" /\ r.op = "create" /\ r.task = NoTask
    BY OpenedTask
  <2>3. Calm
    BY <1>4, CalmAlone DEF CreateCalendarEvent, NoFault
  <2>4. call[c].pc = "idle"
    BY <1>1, <1>4 DEF CreateCalendarEvent
  <2>5. call' = [call EXCEPT ![c] = r]
    BY <2>1
  <2> HIDE DEF r
  <2> QED BY <2>2, <2>3, <2>4, <2>5, Opens
<1>5. ASSUME NEW e \in Event, DeleteCalendarEvent(c, e) PROVE Quiet(c)
  <2> DEFINE r == [Opened("delete", event[e].account) EXCEPT !.event = e]
  <2>1. r.pc = "authorize" /\ r.op = "delete" /\ r.task = NoTask
    BY DEF Opened, Started
  <2>2. call' = [call EXCEPT ![c] = r]
    BY <1>5 DEF DeleteCalendarEvent
  <2>3. Calm
    BY <1>5, CalmAlone DEF DeleteCalendarEvent, NoFault
  <2>4. call[c].pc = "idle"
    BY <1>1, <1>5 DEF DeleteCalendarEvent
  <2> HIDE DEF r
  <2> QED BY <2>1, <2>2, <2>3, <2>4, Opens
<1>6. ASSUME NEW a \in Account, ReconcileAccount(c, a) PROVE Quiet(c)
  <2> DEFINE pc == IF a \in connected THEN "authorize" ELSE "last"
             r == [Opened("reconcile", a) EXCEPT !.pc = pc]
  <2>1. pc \in {"authorize", "last"}
    OBVIOUS
  <2>2. call' = [call EXCEPT ![c] = r]
    BY <1>6 DEF ReconcileAccount
  <2> HIDE DEF pc
  <2>3. r.pc \in {"authorize", "last"} /\ r.op = "reconcile" /\ r.task = NoTask
    BY <2>1 DEF Opened, Started
  <2>4. Calm
    BY <1>6, CalmAlone DEF ReconcileAccount, NoFault
  <2>5. call[c].pc = "idle"
    BY <1>1, <1>6 DEF ReconcileAccount
  <2> HIDE DEF r
  <2> QED BY <2>2, <2>3, <2>4, <2>5, Opens
<1> QED BY <1>2, <1>3, <1>4, <1>5, <1>6

(* Accounts are saved, discovered and authorized.                          *)
LEMMA AccountStepQuiet ==
  ASSUME IndInv, Owned, NEW c \in Call, AccountStep(c)
  PROVE  Quiet(c)
<1> USE DEF remote, history, seen
<1>1. CASE SaveAccount(c)
  <2> DEFINE r == [call[c] EXCEPT !.pc = "discover", !.acc = SavedRow(c)]
  <2>1. call[c] # Idle /\ call[c].pc = "save" /\ call[c] \in Operation
    BY <1>1, AtBusy, CallForms DEF SaveAccount, Pc, IndInv, TypeOK, Calls
  <2>2. r.pc = "discover" /\ r.op = "discover" /\ r.task = NoTask
    BY <2>1 DEF Operation, Owned, At
  <2>3. call' = [call EXCEPT ![c] = r]
    BY <1>1 DEF SaveAccount
  <2>4. Calm
    BY <1>1, CalmAlone DEF SaveAccount, NoFault
  <2> HIDE DEF r
  <2> QED BY <2>1, <2>2, <2>3, <2>4, Opens
<1>2. CASE Discover(c)
  <2>1. call[c].pc = "discover" /\ Calm
    BY <1>2, CalmAlone DEF Discover, NoFault, At
  <2>2. CASE call' = [call EXCEPT ![c] = Idle]
    BY <2>1, <2>2, Ends DEF End
  <2>3. CASE call' = [call EXCEPT ![c] = Opened("discover", call[c].acc)]
    BY <2>1, <2>3, OpenedTask, Opens
  <2> QED BY <1>2, <2>2, <2>3 DEF Discover
<1>3. CASE TokenFresh(c)
  BY <1>3, AtBusy, CalmAlone, Continues DEF TokenFresh, NoFault, Pc
<1>4. CASE TokenRefreshed(c)
  <2>1. Continue(c, "persist") \/ Continue(c, "mark")
    BY <1>4 DEF TokenRefreshed
  <2> QED BY <1>4, <2>1, AtBusy, CalmAlone, Continues DEF TokenRefreshed, NoFault, Pc
<1>5. CASE PersistToken(c)
  BY <1>5, AtBusy, CalmAlone, Continues DEF PersistToken, Pc
<1>6. CASE Rejected(c)
  BY <1>6, AtBusy, CalmAlone, Continues DEF Rejected, NoFault, Pc
<1>7. CASE MarkReauth(c)
  BY <1>7, AtBusy, CalmAlone, Ends DEF MarkReauth, NoFault, Pc
<1>8. CASE EventsRead(c)
  BY <1>8, AtBusy, CalmAlone, Ends DEF EventsRead, Accepted, End, NoFault, Pc
<1>9. CASE CalendarsListed(c)
  BY <1>9, AtBusy, CalmAlone, Continues DEF CalendarsListed, Accepted, NoFault, Pc
<1>10. CASE InsertCalendar(c)
  BY <1>10, AtBusy, CalmAlone, Ends DEF InsertCalendar, NoFault, Pc
<1> QED BY <1>1, <1>2, <1>3, <1>4, <1>5, <1>6, <1>7, <1>8, <1>9, <1>10 DEF AccountStep

LEMMA SyncStepQuiet ==
  ASSUME IndInv, NEW c \in Call, SyncStep(c)
  PROVE  Quiet(c)
<1> USE DEF remote, history, seen
<1>1. CASE ChangesRead(c)
  <2>1. PICK from, upto, next : Answer(c, from, upto, next)
    BY <1>1 DEF ChangesRead
  <2> DEFINE r == [call[c] EXCEPT !.pc = "hand", !.from = from, !.upto = upto, !.next = next]
  <2>2. call[c] # Idle /\ call[c].pc = "request" /\ call[c] \in Operation
    BY <1>1, AtBusy, CallForms DEF ChangesRead, Accepted, Pc, IndInv, TypeOK, Calls
  <2>3. /\ r.pc = "hand" /\ r.op = call[c].op /\ r.task = call[c].task
        /\ r.acc = call[c].acc /\ r.event = call[c].event
    BY <2>2 DEF Operation
  <2>4. call' = [call EXCEPT ![c] = r]
    BY <2>1 DEF Answer
  <2>5. Calm
    BY <1>1, CalmAlone DEF ChangesRead, NoFault
  <2> HIDE DEF r
  <2> QED BY <2>2, <2>3, <2>4, <2>5, GoesOn
<1>2. CASE SyncFails(c)
  BY <1>2, AtBusy, CalmAlone, Continues DEF SyncFails, Pc
<1>3. CASE HandDeleted(c)
  <2> DEFINE e == changes[call[c].acc][call[c].from + 1]
             r == [call[c] EXCEPT !.from = call[c].from + 1]
  <2>1. call[c] # Idle /\ call[c].pc = "hand" /\ call[c] \in Operation
    BY <1>3, AtBusy, CallForms DEF HandDeleted, Pc, IndInv, TypeOK, Calls
  <2>2. /\ r.pc = "hand" /\ r.op = call[c].op /\ r.task = call[c].task
        /\ r.acc = call[c].acc /\ r.event = call[c].event
    BY <2>1 DEF Operation
  <2>3. call' = [call EXCEPT ![c] = r]
    BY <1>3 DEF HandDeleted
  <2>4. link' = [link EXCEPT ![e] = WithStatus(link[e], "deleted_remotely")]
    BY <1>3 DEF HandDeleted
  <2>5. \A l \in Link \cup {NoLink} :
          /\ WithStatus(l, "deleted_remotely") = NoLink <=> l = NoLink
          /\ l # NoLink => WithStatus(l, "deleted_remotely").task = l.task
    BY LinkForms DEF WithStatus, Link, LinkStatus
  <2>6. LinksStay
    BY <2>4, <2>5 DEF LinksStay, IndInv, TypeOK
  <2>7. Calm
    BY <1>3, <2>6 DEF HandDeleted, Calm, EventsStay
  <2> HIDE DEF r
  <2> QED BY <2>1, <2>2, <2>3, <2>7, GoesOn
<1>4. CASE AllHanded(c)
  <2>1. Continue(c, "last") \/ Continue(c, "token")
    BY <1>4 DEF AllHanded
  <2> QED BY <1>4, <2>1, AtBusy, CalmAlone, Continues DEF AllHanded, NoFault, Pc
<1>5. CASE UpdateSyncToken(c)
  BY <1>5, AtBusy, CalmAlone, Continues DEF UpdateSyncToken, Pc
<1>6. CASE UpdateAccountLastSync(c)
  BY <1>6, AtBusy, CalmAlone, Ends DEF UpdateAccountLastSync, NoFault, Pc
<1> QED BY <1>1, <1>2, <1>3, <1>4, <1>5, <1>6 DEF SyncStep

LEMMA AbandonQuiet ==
  ASSUME IndInv, NEW c \in Call, Abandon(c)
  PROVE  Quiet(c)
BY CalmAlone, Ends DEF Abandon, remote, Fault

(* An event is updated by the push it belongs to, and its link stamped.    *)
LEMMA UpdateQuiet ==
  ASSUME IndInv, Owned, NEW c \in Call, EventUpdated(c) \/ StampLink(c)
  PROVE  Quiet(c)
<1> USE DEF remote, history, seen
<1>1. call[c] # Idle /\ call[c].pc \in {"request", "stamp"} /\ call[c] \in Operation
  BY AtBusy, CallForms DEF EventUpdated, StampLink, Accepted, Pc, IndInv, TypeOK, Calls
<1>2. CASE EventUpdated(c)
  <2> DEFINE e == call[c].event
             u == [event[e] EXCEPT !.shows = call[c].task]
  <2>1. e \in Event /\ event[e] # NoEvent /\ event[e] \in RemoteEvent
    BY <1>1, <1>2, Busy DEF EventUpdated, Sound, IndInv, TypeOK
  <2>2. Pushes(call[c])
    BY <1>1, <1>2 DEF EventUpdated, Accepted, Pushes
  <2>3. event[e].task = call[c].task
    BY <1>2, <2>2 DEF EventUpdated, Owned
  <2>4. /\ u # NoEvent /\ u.account = event[e].account /\ u.task = event[e].task
        /\ u.live = event[e].live /\ u.shows = u.task
    <3>1. u \in RemoteEvent
      BY <1>1, <2>1, EventForms DEF Operation
    <3> QED BY <2>1, <2>3, <3>1, EventForms DEF RemoteEvent
  <2>5. event' = event \/ event' = [event EXCEPT ![e] = u]
    BY <1>2 DEF EventUpdated
  <2> HIDE DEF e, u
  <2>6. EventsStay
    BY <2>1, <2>4, <2>5 DEF EventsStay, IndInv, TypeOK
  <2>7. Calm
    BY <1>2, <2>6 DEF EventUpdated, Calm, LinksStay
  <2>8. Continue(c, "stamp") \/ End(c)
    BY <1>2 DEF EventUpdated
  <2> QED BY <1>1, <2>7, <2>8, Continues, Ends DEF Pc
<1>3. CASE StampLink(c)
  <2>1. \A l \in Link : LET s == [l EXCEPT !.status = "synced"] IN s # NoLink /\ s.task = l.task
    BY DEF Link, NoLink
  <2>2. link' = [link EXCEPT ![call[c].event] = IF @ = NoLink THEN @ ELSE [@ EXCEPT !.status = "synced"]]
    BY <1>3 DEF StampLink
  <2>3. LinksStay
    BY <2>1, <2>2 DEF LinksStay, IndInv, TypeOK
  <2>4. Calm /\ End(c) /\ call[c].pc = "stamp"
    BY <1>3, <2>3 DEF StampLink, Calm, EventsStay, At
  <2> QED BY <2>4, Ends
<1> QED BY <1>2, <1>3

(* What went wrong, or overlapped, only grows.                             *)
LEMMA AtLeast == ASSUME NEW n \in Nat, NEW m, m = n \/ m = n + 1 PROVE m >= n
  OBVIOUS

LEMMA More ==
  ASSUME IndInv, IndInv',
         \/ faults' = faults /\ overlaps' \in {overlaps, overlaps + 1}
         \/ faults' = faults + 1 /\ overlaps' = overlaps
  PROVE  /\ Slack' >= Slack /\ Slack \in Nat /\ Slack' \in Nat
         /\ overlaps' = overlaps + 1 => Slack' >= Slack + 1
<1>1. Slack \in Nat /\ Slack' \in Nat /\ (Slack' = Slack \/ Slack' = Slack + 1)
  BY Slacker
<1>2. Slack' >= Slack
  BY <1>1, AtLeast
<1>3. overlaps' = overlaps + 1 => Slack' >= Slack + 1
  <2>1. overlaps' = overlaps + 1 => faults' = faults
    BY Counted
  <2>2. overlaps' = overlaps + 1 => Slack' = Slack + 1
    BY <2>1, Slacker
  <2>3. Slack + 1 \in Nat
    BY <1>1
  <2> QED BY <2>2, <2>3, AtLeast
<1> QED BY <1>1, <1>2, <1>3

LEMMA Same ==
  ASSUME IndInv, IndInv', faults' = faults, overlaps' = overlaps
  PROVE  Slack' >= Slack /\ Slack' = Slack
BY More, Slacker

(* How the sets of calls change when one call does.                        *)
LEMMA OneCall ==
  ASSUME NEW c \in Call, Others(c), NEW t, NEW a
  PROVE  /\ Makers(t, a)' = IF Makes(call'[c], t, a) THEN Makers(t, a) \cup {c}
                                                     ELSE Makers(t, a) \ {c}
         /\ Lookers(t, a)' = IF Looks(call'[c], t, a) THEN Lookers(t, a) \cup {c}
                                                      ELSE Lookers(t, a) \ {c}
         /\ Entries(t, a)' = Entries(t, a) =>
              Linkers(t, a)' = IF \E e \in Entries(t, a) : Links(call'[c], e)
                               THEN Linkers(t, a) \cup {c} ELSE Linkers(t, a) \ {c}
<1>1. \A d \in Call \ {c} : call'[d] = call[d]
  BY DEF Others
<1>2. Makers(t, a)' = IF Makes(call'[c], t, a) THEN Makers(t, a) \cup {c} ELSE Makers(t, a) \ {c}
  BY <1>1 DEF Makers
<1>3. Lookers(t, a)' = IF Looks(call'[c], t, a) THEN Lookers(t, a) \cup {c} ELSE Lookers(t, a) \ {c}
  BY <1>1 DEF Lookers
<1>4. Entries(t, a)' = Entries(t, a) =>
        Linkers(t, a)' = IF \E e \in Entries(t, a) : Links(call'[c], e)
                         THEN Linkers(t, a) \cup {c} ELSE Linkers(t, a) \ {c}
  BY <1>1 DEF Linkers
<1> QED BY <1>2, <1>3, <1>4

LEMMA FewKept ==
  ASSUME IndInv, IndInv', NEW t \in Task, NEW a \in Account, Few(t, a), Slack' >= Slack,
         Entries(t, a)' = Entries(t, a), Found(t, a) # {} => Found(t, a)' # {},
         Makers(t, a)' \subseteq Makers(t, a), Lookers(t, a)' \subseteq Lookers(t, a),
         Linkers(t, a) \subseteq Linkers(t, a)'
  PROVE  Few(t, a)'
<1>1. Slack \in Nat /\ Slack' \in Nat
  BY Slacker
<1>2. /\ IsFiniteSet(Entries(t, a)) /\ IsFiniteSet(Makers(t, a)) /\ IsFiniteSet(Lookers(t, a))
      /\ FewSets(Entries(t, a), Makers(t, a), Lookers(t, a), Linkers(t, a), Found(t, a), Slack)
  BY PushSets
<1>3. FewSets(Entries(t, a), Makers(t, a)', Lookers(t, a)', Linkers(t, a)', Found(t, a)', Slack')
  BY <1>1, <1>2, FewDrops
<1> QED BY <1>3, FewAfter

LEMMA OwnedKept ==
  ASSUME IndInv, IndInv', Owned,
         \A e \in Event : event[e] # NoEvent =>
           /\ event'[e] # NoEvent /\ event'[e].task = event[e].task
           /\ event'[e].account = event[e].account
           /\ event'[e].live => event[e].live,
         \A e \in Event : link'[e] # NoLink => event'[e] # NoEvent /\ link'[e].task = event'[e].task,
         \A d \in Call :
           \/ call'[d] = call[d]
           \/ /\ Pushes(call'[d]) /\ call'[d].event # None =>
                   /\ event'[call'[d].event].task = call'[d].task
                   /\ event'[call'[d].event].account = call'[d].acc
              /\ call'[d].pc # "save"
              /\ call'[d].pc # "idle" /\ call'[d].op # "push" => call'[d].task = NoTask
              /\ call'[d].pc = "unlink" => call'[d].op = "delete" /\ ~event'[call'[d].event].live
  PROVE  Owned'
<1>1. ASSUME NEW d \in Call, Pushes(call'[d]), call'[d].event # None
      PROVE  /\ event'[call'[d].event].task = call'[d].task
             /\ event'[call'[d].event].account = call'[d].acc
  <2>1. CASE call'[d] # call[d]
    BY <1>1, <2>1
  <2>2. CASE call'[d] = call[d]
    <3>1. call[d] # Idle /\ Pushes(call[d]) /\ call[d].event # None
      BY <1>1, <2>2, Busy DEF Pushes
    <3>2. call[d].event \in Event /\ event[call[d].event] # NoEvent
      BY <3>1, Busy DEF Sound
    <3>3. /\ event[call[d].event].task = call[d].task
          /\ event[call[d].event].account = call[d].acc
      BY <3>1 DEF Owned
    <3> QED BY <2>2, <3>2, <3>3
  <2> QED BY <2>1, <2>2
<1>2. \A d \in Call : At(d, "save")' => call'[d].op = "discover"
  BY DEF Owned, At
<1>3. \A d \in Call : call'[d].pc # "idle" /\ call'[d].op # "push" => call'[d].task = NoTask
  BY DEF Owned
<1>4. ASSUME NEW d \in Call, At(d, "unlink")' 
      PROVE  call'[d].op = "delete" /\ ~event'[call'[d].event].live
  <2>1. CASE call'[d] # call[d]
    BY <1>4, <2>1 DEF At
  <2>2. CASE call'[d] = call[d]
    <3>1. call[d] # Idle /\ At(d, "unlink")
      BY <1>4, <2>2, Busy DEF At
    <3>2. call[d].event \in Event /\ event[call[d].event] # NoEvent
      BY <3>1, Busy DEF Sound, At
    <3>3. call[d].op = "delete" /\ ~event[call[d].event].live
      BY <3>1 DEF Owned
    <3> QED BY <2>2, <3>2, <3>3
  <2> QED BY <2>1, <2>2
<1> QED BY <1>1, <1>2, <1>3, <1>4 DEF Owned

(* A push begins.                                                          *)
LEMMA BeginPush ==
  ASSUME IndInv, IndInv', PushInv, NEW c \in Call, NEW t \in Task, SyncCommitmentToCalendar(c, t)
  PROVE  PushInv'
<1> USE DEF PushInv
<1>1. PICK a \in Usable :
        call' = [call EXCEPT ![c] = [Opened("push", a) EXCEPT !.pc = "look", !.task = t]]
  BY DEF SyncCommitmentToCalendar
<1> DEFINE r == [Opened("push", a) EXCEPT !.pc = "look", !.task = t]
<1>2. /\ r.pc = "look" /\ r.op = "push" /\ r.task = t /\ r.acc = a /\ r.event = None
  BY DEF Opened, Started
<1>3. call' = [call EXCEPT ![c] = r]
  BY <1>1
<1> HIDE DEF r
<1>4. call'[c] = r /\ Others(c)
  BY <1>3 DEF IndInv, TypeOK, Others
<1>5. call[c].pc = "idle" /\ UNCHANGED <<link, event, removed, faults>>
  BY DEF SyncCommitmentToCalendar, Begins, At, remote
<1>6. /\ overlaps' \in {overlaps, overlaps + 1}
      /\ Pushing(t) # {} => overlaps' = overlaps + 1
  BY Counted DEF SyncCommitmentToCalendar, Overlapped
<1>7. /\ Slack \in Nat /\ Slack' \in Nat /\ Slack' \in {Slack, Slack + 1}
      /\ Pushing(t) # {} => Slack' = Slack + 1
  BY <1>5, <1>6, Slacker
<1>8. Slack' >= Slack
  <2> DEFINE n == Slack
             m == Slack'
  <2>1. n \in Nat /\ (m = n \/ m = n + 1)
    BY <1>7
  <2> HIDE DEF n, m
  <2>2. m >= n
    BY <2>1
  <2> QED BY <2>2 DEF n, m
<1>9. Owned'
  <2>1. \A e \in Event : link'[e] # NoLink => event'[e] # NoEvent /\ link'[e].task = event'[e].task
    BY <1>5 DEF Owned
  <2>2. \A d \in Call \ {c} : call'[d] = call[d]
    BY <1>4 DEF Others
  <2> QED BY <1>2, <1>4, <1>5, <2>1, <2>2, OwnedKept
<1>10. ASSUME NEW s \in Task, NEW b \in Account PROVE Few(s, b)'
  <2>1. Entries(s, b)' = Entries(s, b) /\ Found(s, b)' = Found(s, b)
    BY <1>5 DEF Entries, Found
  <2>2. /\ ~Makes(call[c], s, b) /\ ~Looks(call[c], s, b) /\ \A e : ~Links(call[c], e)
        /\ ~Makes(call'[c], s, b) /\ \A e : ~Links(call'[c], e)
        /\ Looks(call'[c], s, b) <=> s = t /\ b = a
    BY <1>2, <1>4, <1>5 DEF Makes, Looks, Links, Pushes
  <2>3. c \notin Makers(s, b) /\ c \notin Lookers(s, b) /\ c \notin Linkers(s, b)
    BY <2>2 DEF Makers, Lookers, Linkers
  <2>4. /\ Makers(s, b)' = Makers(s, b) /\ Linkers(s, b)' = Linkers(s, b)
        /\ Lookers(s, b)' = IF s = t /\ b = a THEN Lookers(s, b) \cup {c} ELSE Lookers(s, b)
    BY <1>4, <2>1, <2>2, <2>3, OneCall
  <2>5. Few(s, b)
    BY DEF EntriesFew
  <2>6. CASE ~(s = t /\ b = a)
    BY <1>8, <2>1, <2>4, <2>5, <2>6, FewKept
  <2>7. CASE s = t /\ b = a
    <3>1. Pushing(t) = {} => Makers(s, b) = {} /\ Lookers(s, b) = {} /\ Linkers(s, b) = {}
      <4> SUFFICES ASSUME NEW d \in Call, d \notin Pushing(t)
                   PROVE  d \notin Makers(s, b) /\ d \notin Lookers(s, b) /\ d \notin Linkers(s, b)
        BY DEF Makers, Lookers, Linkers
      <4>1. d \notin Makers(s, b)
        BY <2>7 DEF Makers, Makes, Pushes, Pushing, At
      <4>2. call[d].pc \in {"look", "link"} => call[d] # Idle /\ call[d].op = "push"
        BY Busy DEF Sound
      <4>3. d \notin Lookers(s, b)
        BY <2>7, <4>2 DEF Lookers, Looks, Pushing, At
      <4>4. ASSUME NEW e \in Entries(s, b), Links(call[d], e) PROVE FALSE
        <5>1. call[d].pc = "link" /\ call[d].event = e /\ call[d].op = "push"
          BY <4>2, <4>4 DEF Links
        <5>2. e # None /\ event[e].task = t
          BY <2>7, <4>4, CalendarAssumption DEF Entries, Event, None
        <5>3. call[d].task = t
          BY <5>1, <5>2 DEF Owned, Pushes
        <5> QED BY <5>1, <5>3 DEF Pushing, At
      <4> QED BY <4>1, <4>3, <4>4 DEF Linkers
    <3>2. /\ IsFiniteSet(Entries(s, b)) /\ IsFiniteSet(Makers(s, b)) /\ IsFiniteSet(Lookers(s, b))
          /\ FewSets(Entries(s, b), Makers(s, b), Lookers(s, b), Linkers(s, b), Found(s, b), Slack)
      BY <2>5, PushSets
    <3>3. \/ Slack' = Slack + 1
          \/ Slack' = Slack /\ Makers(s, b) = {} /\ Lookers(s, b) = {} /\ Linkers(s, b) = {}
      BY <1>7, <3>1
    <3>4. FewSets(Entries(s, b), Makers(s, b), Lookers(s, b) \cup {c}, Linkers(s, b), Found(s, b), Slack')
      BY <1>7, <2>3, <3>2, <3>3, FewBegins
    <3> QED BY <2>1, <2>4, <2>7, <3>4, FewAfter
  <2> QED BY <2>6, <2>7
<1>11. Loose' \subseteq Loose
  <2>1. \A d \in Call \ {c} : call'[d] = call[d]
    BY <1>4 DEF Others
  <2>2. \A e : ~Links(call'[c], e) /\ ~Unlinks(call'[c], e) /\ ~Links(call[c], e) /\ ~Unlinks(call[c], e)
    BY <1>2, <1>4, <1>5 DEF Links, Unlinks
  <2> QED BY <1>5, <2>1, <2>2 DEF Loose
<1> QED BY <1>5, <1>8, <1>9, <1>10, <1>11, LooseAdds DEF EntriesFew, ShowsOwnTask

(* A push looks for the link: it finds one, or may make an event.          *)
LEMMA LookForLinkPush ==
  ASSUME IndInv, IndInv', PushInv, NEW c \in Call, LookForLink(c)
  PROVE  PushInv'
<1> USE DEF PushInv
<1> DEFINE t == call[c].task
           a == call[c].acc
           found == Linked(t, a)
           e == IF found = {} THEN None ELSE CHOOSE f \in found : TRUE
           r == [call[c] EXCEPT !.pc = "authorize", !.event = e]
<1>1. call[c] # Idle /\ call[c].pc = "look" /\ call[c] \in Operation
  BY AtBusy, CallForms DEF LookForLink, Pc, IndInv, TypeOK, Calls
<1>2. call[c].op = "push" /\ t \in Task /\ a \in Account
  BY <1>1, Busy DEF Sound
<1>3. call' = [call EXCEPT ![c] = r]
  BY DEF LookForLink
<1>4. UNCHANGED <<link, event, removed, faults, overlaps>>
  BY DEF LookForLink, remote, history
<1>5. \A f \in found : f \in Event /\ f # None /\ link[f] # NoLink /\ link[f].task = t /\ event[f].account = a
  BY CalendarAssumption DEF Linked, Event, None
<1>6. /\ found = {} => e = None
      /\ found # {} => e \in found
  OBVIOUS
<1> HIDE DEF e
<1>7. r.pc = "authorize" /\ r.event = e /\ r.acc = a /\ r.op = call[c].op /\ r.task = t
  BY <1>1 DEF Operation
<1> HIDE DEF r, found
<1>8. call'[c] = r /\ Others(c)
  BY <1>3 DEF IndInv, TypeOK, Others
<1>9. Slack \in Nat /\ Slack' = Slack
  BY <1>4, Slacker
<1>10. Slack' >= Slack
  <2> DEFINE n == Slack
             m == Slack'
  <2>1. n \in Nat /\ m = n
    BY <1>9
  <2> HIDE DEF n, m
  <2>2. m >= n
    BY <2>1
  <2> QED BY <2>2 DEF n, m
<1>11. Owned'
  <2>1. \A f \in Event : link'[f] # NoLink => event'[f] # NoEvent /\ link'[f].task = event'[f].task
    BY <1>4 DEF Owned
  <2>2. \A d \in Call \ {c} : call'[d] = call[d]
    BY <1>8 DEF Others
  <2>3. e # None => event[e].task = t /\ event[e].account = a
    BY <1>5, <1>6 DEF Owned
  <2> QED BY <1>2, <1>4, <1>7, <1>8, <2>1, <2>2, <2>3, OwnedKept
<1>12. ASSUME NEW s \in Task, NEW b \in Account PROVE Few(s, b)'
  <2>1. Entries(s, b)' = Entries(s, b) /\ Found(s, b)' = Found(s, b)
    BY <1>4 DEF Entries, Found
  <2>2. /\ ~Makes(call[c], s, b) /\ \A f : ~Links(call[c], f)
        /\ ~Looks(call'[c], s, b) /\ \A f : ~Links(call'[c], f)
        /\ Looks(call[c], s, b) <=> s = t /\ b = a
        /\ Makes(call'[c], s, b) <=> s = t /\ b = a /\ e = None
    BY <1>1, <1>2, <1>7, <1>8 DEF Makes, Looks, Links, Pushes
  <2>3. /\ c \notin Makers(s, b) /\ c \notin Linkers(s, b)
        /\ c \in Lookers(s, b) <=> s = t /\ b = a
    BY <2>2 DEF Makers, Lookers, Linkers
  <2>4. /\ Linkers(s, b)' = Linkers(s, b) /\ Lookers(s, b)' = Lookers(s, b) \ {c}
        /\ Makers(s, b)' = IF s = t /\ b = a /\ e = None THEN Makers(s, b) \cup {c} ELSE Makers(s, b)
    BY <1>8, <2>1, <2>2, <2>3, OneCall
  <2>5. Few(s, b)
    BY DEF EntriesFew
  <2>6. CASE ~(s = t /\ b = a /\ e = None)
    <3>1. Makers(s, b)' \subseteq Makers(s, b) /\ Lookers(s, b)' \subseteq Lookers(s, b)
      BY <2>4, <2>6
    <3> QED BY <1>10, <2>1, <2>4, <2>5, <3>1, FewKept
  <2>7. CASE s = t /\ b = a /\ e = None
    <3>1. Found(s, b) = {}
      <4>1. found = {}
        BY <1>5, <1>6, <2>7
      <4>2. \A f \in Found(s, b) : f \in found
        BY <2>7 DEF Found, Entries, Linked, Owned, found
      <4> QED BY <4>1, <4>2
    <3>2. /\ IsFiniteSet(Entries(s, b)) /\ IsFiniteSet(Makers(s, b)) /\ IsFiniteSet(Lookers(s, b))
          /\ FewSets(Entries(s, b), Makers(s, b), Lookers(s, b), Linkers(s, b), {}, Slack)
      BY <2>5, <3>1, PushSets
    <3>3. FewSets(Entries(s, b), Makers(s, b) \cup {c}, Lookers(s, b) \ {c}, Linkers(s, b), {}, Slack)
      BY <1>9, <2>3, <2>7, <3>2, FewLooks
    <3> QED BY <1>9, <2>1, <2>4, <2>7, <3>1, <3>3, FewAfter
  <2> QED BY <2>6, <2>7
<1>13. Loose' \subseteq Loose
  <2>1. \A d \in Call \ {c} : call'[d] = call[d]
    BY <1>8 DEF Others
  <2>2. \A f : ~Links(call'[c], f) /\ ~Unlinks(call'[c], f) /\ ~Links(call[c], f) /\ ~Unlinks(call[c], f)
    BY <1>1, <1>7, <1>8 DEF Links, Unlinks
  <2> QED BY <1>4, <2>1, <2>2 DEF Loose
<1> QED BY <1>4, <1>10, <1>11, <1>12, <1>13, LooseAdds DEF EntriesFew, ShowsOwnTask

(* An event is made: for the push that may make it, or for no commitment.  *)
LEMMA CreationPush ==
  ASSUME IndInv, IndInv', PushInv, NEW c \in Call, EventCreated(c) \/ CreationUnanswered(c)
  PROVE  PushInv'
<1> USE DEF PushInv
<1> DEFINE t == call[c].task
           a == call[c].acc
           e == NextEvent
           new == [account |-> a, task |-> t, shows |-> t, live |-> TRUE]
<1>1. /\ call[c] # Idle /\ call[c].pc = "request" /\ call[c] \in Operation /\ Sound(c)
      /\ e \in Event /\ event'[e] # NoEvent
  BY CreatedForms DEF EventCreated, CreationUnanswered
<1>2. event[e] = NoEvent
  BY DEF NextEvent, Unused, EventCreated, CreationUnanswered, Creating
<1>3. event' = [event EXCEPT ![e] = new]
  BY DEF EventCreated, CreationUnanswered, Created
<1> HIDE DEF e
<1>4. /\ event'[e] = new /\ \A f \in Event \ {e} : event'[f] = event[f]
      /\ new.account = a /\ new.task = t /\ new.shows = t /\ new.live
  BY <1>1, <1>3 DEF IndInv, TypeOK
<1> HIDE DEF new
<1>5. UNCHANGED <<link, removed, overlaps>>
  BY DEF EventCreated, CreationUnanswered, history
<1>6. a \in Account /\ e # None
  BY <1>1, CalendarAssumption DEF Sound, Event, None
<1>7. \/ call[c].op = "create" /\ t = NoTask
      \/ call[c].op = "push" /\ call[c].event = None /\ t \in Task
  BY <1>1 DEF EventCreated, CreationUnanswered, Creating, Owned, Sound
<1>8. /\ Others(c)
      /\ \/ /\ EventCreated(c) /\ faults' = faults
            /\ \/ call[c].op = "create" /\ call'[c] = Idle
               \/ call[c].op = "push" /\ call'[c] = [call[c] EXCEPT !.pc = "link", !.event = e]
         \/ /\ CreationUnanswered(c) /\ faults' = faults + 1
            /\ \/ call'[c] = Idle
               \/ call'[c] = [call[c] EXCEPT !.tries = call[c].tries + 1]
  <2>1. CASE EventCreated(c)
    BY <1>7, <2>1 DEF EventCreated, e, Others, IndInv, TypeOK, history
  <2>2. CASE CreationUnanswered(c)
    BY <2>2 DEF CreationUnanswered, End, Fault, Others, IndInv, TypeOK
  <2> QED BY <2>1, <2>2
<1>9. \/ faults' = faults /\ call[c].op = "create" /\ call'[c].pc = "idle"
      \/ /\ faults' = faults /\ call[c].op = "push" /\ call'[c].pc = "link" /\ call'[c].event = e
         /\ call'[c].op = "push" /\ call'[c].task = t /\ call'[c].acc = a
      \/ faults' = faults + 1 /\ call'[c].pc = "idle"
      \/ /\ faults' = faults + 1 /\ call'[c].pc = "request" /\ call'[c].event = call[c].event
         /\ call'[c].op = call[c].op /\ call'[c].task = t /\ call'[c].acc = a
  <2>1. /\ LET r == [call[c] EXCEPT !.pc = "link", !.event = e]
           IN  /\ r.pc = "link" /\ r.event = e /\ r.op = call[c].op /\ r.task = t /\ r.acc = a
        /\ LET r == [call[c] EXCEPT !.tries = call[c].tries + 1]
           IN  /\ r.pc = "request" /\ r.event = call[c].event /\ r.op = call[c].op
               /\ r.task = t /\ r.acc = a
    BY <1>1 DEF Operation
  <2>2. Idle.pc = "idle"
    BY DEF Idle
  <2> QED BY <1>8, <2>1, <2>2
<1>10. /\ Slack \in Nat /\ Slack' \in Nat
       /\ faults' = faults => Slack' = Slack
       /\ faults' = faults + 1 => Slack' = Slack + 1
  BY <1>5, Slacker
<1>11. Slack' >= Slack
  <2> DEFINE n == Slack
             m == Slack'
  <2>1. n \in Nat /\ (m = n \/ m = n + 1)
    BY <1>9, <1>10
  <2> HIDE DEF n, m
  <2>2. m >= n
    BY <2>1
  <2> QED BY <2>2 DEF n, m
<1>12. link[e] = NoLink
  BY <1>1, <1>2 DEF Owned
<1>13. \A d \in Call \ {c} : call'[d] = call[d]
  BY <1>8 DEF Others
<1>14. Owned'
  <2>1. \A f \in Event : event[f] # NoEvent => event'[f] = event[f]
    BY <1>2, <1>4
  <2>2. \A f \in Event : link'[f] # NoLink => event'[f] # NoEvent /\ link'[f].task = event'[f].task
    BY <1>5, <2>1 DEF Owned
  <2>3. Pushes(call'[c]) /\ call'[c].event # None =>
          /\ event'[call'[c].event].task = call'[c].task
          /\ event'[call'[c].event].account = call'[c].acc
    BY <1>4, <1>7, <1>9 DEF Pushes
  <2>4. call'[c].pc \notin {"save", "unlink"}
    BY <1>9
  <2>5. call'[c].pc # "idle" /\ call'[c].op # "push" => call'[c].task = NoTask
    BY <1>7, <1>9
  <2> QED BY <1>13, <2>1, <2>2, <2>3, <2>4, <2>5, OwnedKept
<1>15. ASSUME NEW s \in Task, NEW b \in Account PROVE Few(s, b)'
  <2>1. Few(s, b)
    BY DEF EntriesFew
  <2>2. NoTask # s
    BY CalendarAssumption
  <2>3. e \notin Entries(s, b) /\ Found(s, b) = {f \in Entries(s, b) : link[f] # NoLink}
    BY <1>2 DEF Entries, Found
  <2>4. /\ ~Looks(call[c], s, b) /\ ~Looks(call'[c], s, b) /\ \A f : ~Links(call[c], f)
        /\ \A f \in Event \ {e} : ~Links(call'[c], f)
    BY <1>1, <1>9 DEF Looks, Links
  <2>5. c \notin Lookers(s, b) /\ c \notin Linkers(s, b)
    BY <2>4 DEF Lookers, Linkers
  <2>6. CASE ~(call[c].op = "push" /\ s = t /\ b = a)
    <3>1. Entries(s, b)' = Entries(s, b)
      BY <1>2, <1>4, <1>7, <2>2, <2>6 DEF Entries
    <3>2. Found(s, b)' = Found(s, b)
      BY <1>5, <3>1 DEF Found
    <3>3. ~Makes(call'[c], s, b) /\ \A f \in Entries(s, b) : ~Links(call'[c], f)
      <4>1. Entries(s, b) \subseteq Event
        BY DEF Entries
      <4> QED BY <1>9, <2>3, <2>4, <2>6, <4>1 DEF Makes, Pushes
    <3>4. /\ Makers(s, b)' = Makers(s, b) \ {c} /\ Lookers(s, b)' = Lookers(s, b) \ {c}
          /\ Linkers(s, b)' = Linkers(s, b) \ {c}
      BY <1>8, <2>4, <3>1, <3>3, OneCall
    <3> QED BY <1>11, <2>1, <2>5, <3>1, <3>2, <3>4, FewKept
  <2>7. CASE call[c].op = "push" /\ s = t /\ b = a
    <3>1. c \in Makers(s, b)
      BY <1>1, <1>7, <2>7 DEF Makers, Makes, Pushes
    <3>2. Entries(s, b)' = Entries(s, b) \cup {e}
      BY <1>1, <1>2, <1>4, <2>7 DEF Entries
    <3>3. Found(s, b)' = Found(s, b)
      BY <1>5, <1>12, <3>2 DEF Found
    <3>4. Lookers(s, b)' = Lookers(s, b)
      BY <1>8, <2>4, <2>5, OneCall
    <3>5. /\ IsFiniteSet(Entries(s, b)) /\ IsFiniteSet(Makers(s, b)) /\ IsFiniteSet(Lookers(s, b))
          /\ FewSets(Entries(s, b), Makers(s, b), Lookers(s, b), Linkers(s, b), Found(s, b), Slack)
      BY <2>1, PushSets
    <3>6. \/ Makers(s, b)' = Makers(s, b) \ {c} /\ Linkers(s, b)' # {} /\ Slack' = Slack
          \/ Makers(s, b)' = Makers(s, b) \ {c} /\ Slack' = Slack + 1
          \/ Makers(s, b)' = Makers(s, b) /\ Slack' = Slack + 1
      <4>1. CASE faults' = faults
        <5>1. Links(call'[c], e) /\ ~Makes(call'[c], s, b)
          BY <1>6, <1>9, <1>10, <2>7, <4>1 DEF Links, Makes, IndInv, TypeOK
        <5>2. c \in Linkers(s, b)'
          BY <3>2, <5>1 DEF Linkers
        <5> QED BY <1>8, <1>10, <4>1, <5>1, <5>2, OneCall
      <4>2. CASE faults' = faults + 1
        <5>1. Makers(s, b)' = Makers(s, b) \cup {c} \/ Makers(s, b)' = Makers(s, b) \ {c}
          BY <1>8, OneCall
        <5>2. Makers(s, b) \cup {c} = Makers(s, b)
          BY <3>1
        <5> QED BY <1>10, <4>2, <5>1, <5>2
      <4> QED BY <1>9, <4>1, <4>2
    <3>7. FewSets(Entries(s, b) \cup {e}, Makers(s, b)', Lookers(s, b), Linkers(s, b)', Found(s, b), Slack')
      BY <1>10, <2>3, <3>1, <3>5, <3>6, FewMakes
    <3> QED BY <3>2, <3>3, <3>4, <3>7, FewAfter
  <2> QED BY <2>6, <2>7
<1>16. Loose' \subseteq Loose
  <2>1. \A f \in Event \ {e} : ~Links(call'[c], f) /\ ~Unlinks(call[c], f)
    BY <1>1, <1>9 DEF Links, Unlinks
  <2> QED BY <1>4, <1>5, <1>13, <2>1 DEF Loose
<1>17. ShowsOwnTask'
  BY <1>4 DEF ShowsOwnTask
<1> QED BY <1>11, <1>14, <1>15, <1>16, <1>17, LooseAdds DEF EntriesFew

(* The event is linked.                                                    *)
LEMMA InsertLinkPush ==
  ASSUME IndInv, IndInv', PushInv, NEW c \in Call, InsertLink(c)
  PROVE  PushInv'
<1> USE DEF PushInv
<1> DEFINE e == call[c].event
<1>1. call[c] # Idle /\ call[c].pc = "link" /\ call[c] \in Operation
  BY AtBusy, CallForms DEF InsertLink, Pc, IndInv, TypeOK, Calls
<1>2. /\ call[c].op = "push" /\ call[c].task \in Task /\ e \in Event /\ e # None
      /\ event[e] # NoEvent
  BY <1>1, Busy DEF Sound
<1>3. event[e].task = call[c].task
  BY <1>1, <1>2 DEF Owned, Pushes
<1>4. UNCHANGED <<event, removed, faults, overlaps>>
  BY DEF InsertLink, remote, history
<1>5. /\ link'[e] = InsertedLink(call[c].task)
      /\ \A f \in Event \ {e} : link'[f] = link[f]
  BY <1>2 DEF InsertLink, IndInv, TypeOK
<1>6. InsertedLink(call[c].task) # NoLink /\ InsertedLink(call[c].task).task = call[c].task
  BY <1>2, LinkForms DEF InsertedLink
<1>7. call'[c].pc = "idle" /\ Others(c) /\ \A d \in Call \ {c} : call'[d] = call[d]
  BY EndForms DEF InsertLink, IndInv, TypeOK, Calls, Idle, Others
<1>8. Slack' >= Slack
  BY <1>4, Same
<1>9. Owned'
  <2>1. \A f \in Event : link'[f] # NoLink => event'[f] # NoEvent /\ link'[f].task = event'[f].task
    BY <1>2, <1>3, <1>4, <1>5, <1>6 DEF Owned
  <2> QED BY <1>4, <1>7, <2>1, OwnedKept DEF Pushes
<1>10. ASSUME NEW s \in Task, NEW b \in Account PROVE Few(s, b)'
  <2>1. Entries(s, b)' = Entries(s, b) /\ Entries(s, b) \subseteq Event
    BY <1>4 DEF Entries
  <2>2. Found(s, b) \subseteq Found(s, b)' /\ (e \in Entries(s, b) => e \in Found(s, b)')
    BY <1>5, <1>6, <2>1 DEF Found
  <2>3. ~Makes(call[c], s, b) /\ ~Looks(call[c], s, b) /\ \A f : Links(call[c], f) <=> f = e
    BY <1>1, <1>2 DEF Makes, Looks, Links
  <2>4. ~Makes(call'[c], s, b) /\ ~Looks(call'[c], s, b) /\ \A f : ~Links(call'[c], f)
    BY <1>7 DEF Makes, Looks, Links, Pushes
  <2>5. /\ c \notin Makers(s, b) /\ c \notin Lookers(s, b)
        /\ c \in Linkers(s, b) => e \in Entries(s, b)
    BY <2>3 DEF Makers, Lookers, Linkers
  <2>6. /\ Makers(s, b)' = Makers(s, b) /\ Lookers(s, b)' = Lookers(s, b)
        /\ Linkers(s, b)' = Linkers(s, b) \ {c}
    BY <1>7, <2>1, <2>4, <2>5, OneCall
  <2>7. /\ IsFiniteSet(Entries(s, b)) /\ IsFiniteSet(Makers(s, b)) /\ IsFiniteSet(Lookers(s, b))
        /\ FewSets(Entries(s, b), Makers(s, b), Lookers(s, b), Linkers(s, b), Found(s, b), Slack)
    BY PushSets DEF EntriesFew
  <2>8. Slack \in Nat /\ Slack' = Slack
    BY <1>4, Slacker
  <2>9. FewSets(Entries(s, b), Makers(s, b), Lookers(s, b), Linkers(s, b)', Found(s, b)', Slack)
    BY <2>2, <2>5, <2>6, <2>7, <2>8, FewLinks
  <2> QED BY <2>1, <2>6, <2>8, <2>9, FewAfter
<1>11. Loose' \subseteq Loose
  <2>1. \A f : ~Links(call'[c], f) /\ ~Unlinks(call[c], f) /\ (Links(call[c], f) <=> f = e)
    BY <1>1, <1>7 DEF Links, Unlinks
  <2> QED BY <1>2, <1>4, <1>5, <1>7, <2>1 DEF Loose
<1> QED BY <1>4, <1>8, <1>9, <1>10, <1>11, LooseAdds DEF EntriesFew, ShowsOwnTask

(* What the sets lose when an event goes.                                  *)
Goes(e) ==
  /\ event'[e] # NoEvent /\ ~event'[e].live
  /\ event'[e].task = event[e].task /\ event'[e].account = event[e].account
  /\ event'[e].shows = event[e].shows
  /\ \A f \in Event \ {e} : event'[f] = event[f]

LEMMA GoneGoes ==
  ASSUME IndInv, NEW e \in Event, event[e] # NoEvent, Gone(e)
  PROVE  Goes(e)
<1> DEFINE r == [event[e] EXCEPT !.live = FALSE]
<1>1. event[e] \in RemoteEvent
  BY DEF IndInv, TypeOK
<1>2. /\ r \in RemoteEvent /\ r # NoEvent /\ ~r.live /\ r.task = event[e].task
      /\ r.account = event[e].account /\ r.shows = event[e].shows
  <2>1. r \in RemoteEvent
    BY <1>1, EventForms
  <2>2. r # NoEvent
    BY <2>1, EventForms
  <2> QED BY <1>1, <2>1, <2>2 DEF RemoteEvent
<1>3. event' = [event EXCEPT ![e] = r]
  BY DEF Gone
<1> HIDE DEF r
<1> QED BY <1>2, <1>3 DEF Goes, IndInv, TypeOK

LEMMA GoneFew ==
  ASSUME IndInv, IndInv', NEW e \in Event, event[e] # NoEvent, Goes(e), link' = link, Slack' >= Slack,
         NEW t \in Task, NEW a \in Account, Few(t, a),
         \A d \in Call : \/ call'[d] = call[d]
                        \/ /\ ~Makes(call[d], t, a) /\ ~Makes(call'[d], t, a)
                           /\ ~Looks(call[d], t, a) /\ ~Looks(call'[d], t, a)
                           /\ \A f : ~Links(call[d], f) /\ ~Links(call'[d], f)
  PROVE  Few(t, a)'
<1>1. Entries(t, a)' = Entries(t, a) \ {e}
  BY DEF Goes, Entries
<1>2. Found(t, a)' = Found(t, a) \ {e} /\ Found(t, a) \subseteq Entries(t, a)
  BY <1>1 DEF Found
<1>3. Makers(t, a)' = Makers(t, a) /\ Lookers(t, a)' = Lookers(t, a)
  BY DEF Makers, Lookers
<1>4. e \in Entries(t, a) \/ Linkers(t, a)' = Linkers(t, a)
  BY <1>1 DEF Linkers
<1>5. /\ IsFiniteSet(Entries(t, a)) /\ IsFiniteSet(Makers(t, a)) /\ IsFiniteSet(Lookers(t, a))
      /\ FewSets(Entries(t, a), Makers(t, a), Lookers(t, a), Linkers(t, a), Found(t, a), Slack)
  BY PushSets
<1>6. Slack \in Nat /\ Slack' \in Nat
  BY Slacker
<1>7. FewSets(Entries(t, a) \ {e}, Makers(t, a), Lookers(t, a), Linkers(t, a)', Found(t, a) \ {e}, Slack')
  BY <1>2, <1>4, <1>5, <1>6, FewGoes
<1> QED BY <1>1, <1>2, <1>3, <1>7, FewAfter

(* It is deleted by Hevn, or by the user.                                  *)
LEMMA EventDeletedPush ==
  ASSUME IndInv, IndInv', PushInv, NEW c \in Call, EventDeleted(c)
  PROVE  PushInv'
<1> USE DEF PushInv
<1> DEFINE e == call[c].event
<1>1. call[c] # Idle /\ call[c].pc = "request" /\ call[c] \in Operation /\ call \in Calls
  BY AtBusy, CallForms DEF EventDeleted, Accepted, Pc, IndInv, TypeOK, Calls
<1>2. call[c].op = "delete" /\ e \in Event /\ event[e] # NoEvent
  BY <1>1, Busy DEF EventDeleted, Accepted, Sound
<1>3. /\ call'[c].pc = "unlink" /\ call'[c].event = e /\ call'[c].op = "delete"
      /\ call'[c].task = call[c].task /\ \A d \in Call \ {c} : call'[d] = call[d]
  <2>1. call'[c] = [call[c] EXCEPT !.pc = "unlink"] /\ \A d \in Call \ {c} : call'[d] = call[d]
    BY <1>1, ContinueForms DEF EventDeleted, Pc
  <2> QED BY <1>1, <1>2, <2>1 DEF Operation
<1>4. Goes(e) /\ UNCHANGED <<link, removed, faults>>
  BY <1>2, GoneGoes DEF EventDeleted
<1> DEFINE ahead == {d \in Call : At(d, "link") /\ call[d].event = e}
<1>5. /\ overlaps' \in {overlaps, overlaps + 1}
      /\ ahead # {} => overlaps' = overlaps + 1
  BY Counted DEF EventDeleted, Overlapped
<1>6. /\ Slack' >= Slack
      /\ ahead # {} => Slack' >= Slack + 1
  BY <1>4, <1>5, More
<1>7. Owned'
  <2>1. \A f \in Event : link'[f] # NoLink => event'[f] # NoEvent /\ link'[f].task = event'[f].task
    BY <1>4 DEF Owned, Goes
  <2>2. \A f \in Event : event[f] # NoEvent =>
           /\ event'[f] # NoEvent /\ event'[f].task = event[f].task
           /\ event'[f].account = event[f].account
           /\ event'[f].live => event[f].live
    BY <1>4 DEF Goes
  <2>3. call'[c].task = NoTask
    BY <1>1, <1>2, <1>3 DEF Owned
  <2>4. ~event'[e].live
    BY <1>4 DEF Goes
  <2> QED BY <1>3, <2>1, <2>2, <2>3, <2>4, OwnedKept DEF Pushes
<1>8. ASSUME NEW s \in Task, NEW b \in Account PROVE Few(s, b)'
  <2>1. /\ ~Makes(call[c], s, b) /\ ~Makes(call'[c], s, b)
        /\ ~Looks(call[c], s, b) /\ ~Looks(call'[c], s, b)
        /\ \A f : ~Links(call[c], f) /\ ~Links(call'[c], f)
    BY <1>1, <1>2, <1>3 DEF Makes, Looks, Links, Pushes
  <2>2. Few(s, b)
    BY DEF EntriesFew
  <2> QED BY <1>2, <1>3, <1>4, <1>6, <2>1, <2>2, GoneFew
<1>9. ASSUME NEW f \in Loose', f # e PROVE f \in Loose
  <2>1. /\ ~Links(call'[c], f) /\ ~Unlinks(call[c], f)
    BY <1>1, <1>3 DEF Links, Unlinks
  <2>2. f \in Event /\ event'[f] = event[f]
    BY <1>4, <1>9 DEF Loose, Goes
  <2> QED BY <1>3, <1>4, <1>9, <2>1, <2>2 DEF Loose
<1>10. e \in Loose' => ahead # {}
  <2> SUFFICES ASSUME e \in Loose' PROVE ahead # {}
    OBVIOUS
  <2>1. Unlinks(call'[c], e) /\ ~Links(call'[c], e)
    BY <1>3 DEF Unlinks, Links
  <2>2. PICK d \in Call : Links(call'[d], e)
    BY <2>1 DEF Loose
  <2>3. d # c /\ Links(call[d], e)
    BY <1>3, <2>1, <2>2
  <2> QED BY <2>3 DEF Links, At
<1>11. CASE ahead = {}
  <2>1. Loose' \subseteq Loose
    BY <1>9, <1>10, <1>11
  <2> QED BY <1>2, <1>4, <1>6, <1>7, <1>8, <2>1, LooseAdds DEF EntriesFew, ShowsOwnTask, Goes
<1>12. CASE ahead # {}
  <2>1. Loose' \subseteq Loose \cup {e}
    BY <1>9
  <2>2. LooseFew'
    BY <1>6, <1>12, <2>1, LooseAdds
  <2> QED BY <1>2, <1>4, <1>7, <1>8, <2>2 DEF EntriesFew, ShowsOwnTask, Goes
<1> QED BY <1>11, <1>12

LEMMA RemoveEventPush ==
  ASSUME IndInv, IndInv', PushInv, NEW e \in Event, RemoveEvent(e)
  PROVE  PushInv'
<1> USE DEF PushInv
<1>1. Goes(e) /\ event[e] # NoEvent
  BY GoneGoes DEF RemoveEvent
<1>2. UNCHANGED <<link, call, faults, overlaps>> /\ removed' = removed \cup {e}
  BY DEF RemoveEvent, history
<1>3. Slack' >= Slack
  BY <1>2, Same
<1>4. Owned'
  <2>1. \A f \in Event : link'[f] # NoLink => event'[f] # NoEvent /\ link'[f].task = event'[f].task
    BY <1>1, <1>2 DEF Owned, Goes
  <2>2. \A f \in Event : event[f] # NoEvent =>
           /\ event'[f] # NoEvent /\ event'[f].task = event[f].task
           /\ event'[f].account = event[f].account
           /\ event'[f].live => event[f].live
    BY <1>1 DEF Goes
  <2> QED BY <1>2, <2>1, <2>2, OwnedKept
<1>5. ASSUME NEW s \in Task, NEW b \in Account PROVE Few(s, b)'
  BY <1>1, <1>2, <1>3, GoneFew DEF EntriesFew
<1>6. Loose' \subseteq Loose
  BY <1>1, <1>2 DEF Loose, Goes
<1> QED BY <1>1, <1>3, <1>4, <1>5, <1>6, LooseAdds DEF EntriesFew, ShowsOwnTask, Goes

(* The link of the event that was deleted goes.                            *)
LEMMA DeleteLinkPush ==
  ASSUME IndInv, IndInv', PushInv, NEW c \in Call, DeleteLink(c)
  PROVE  PushInv'
<1> USE DEF PushInv
<1> DEFINE e == call[c].event
<1>1. call[c] # Idle /\ call[c].pc = "unlink"
  BY AtBusy DEF DeleteLink, Pc
<1>2. e \in Event /\ event[e] # NoEvent /\ e # None
  BY <1>1, Busy DEF Sound
<1>3. ~event[e].live
  BY <1>1 DEF Owned, At
<1>4. UNCHANGED <<event, removed, faults, overlaps>>
  BY DEF DeleteLink, remote, history
<1>5. link'[e] = NoLink /\ \A f \in Event \ {e} : link'[f] = link[f]
  BY <1>2 DEF DeleteLink, Unlinked, IndInv, TypeOK
<1>6. call'[c].pc = "idle" /\ Others(c) /\ \A d \in Call \ {c} : call'[d] = call[d]
  BY EndForms DEF DeleteLink, IndInv, TypeOK, Calls, Idle, Others
<1>7. Slack' >= Slack
  BY <1>4, Same
<1>8. Owned'
  <2>1. \A f \in Event : link'[f] # NoLink => event'[f] # NoEvent /\ link'[f].task = event'[f].task
    BY <1>4, <1>5 DEF Owned
  <2> QED BY <1>4, <1>6, <2>1, OwnedKept DEF Pushes
<1>9. ASSUME NEW s \in Task, NEW b \in Account PROVE Few(s, b)'
  <2>1. Entries(s, b)' = Entries(s, b) /\ e \notin Entries(s, b) /\ Entries(s, b) \subseteq Event
    BY <1>3, <1>4 DEF Entries
  <2>2. Found(s, b)' = Found(s, b)
    BY <1>5, <2>1 DEF Found
  <2>3. ~Makes(call'[c], s, b) /\ ~Looks(call'[c], s, b) /\ \A f : ~Links(call'[c], f)
    BY <1>6 DEF Makes, Looks, Links, Pushes
  <2>4. c \notin Linkers(s, b)
    BY <1>1 DEF Linkers, Links
  <2>5. /\ Makers(s, b)' = Makers(s, b) \ {c} /\ Lookers(s, b)' = Lookers(s, b) \ {c}
        /\ Linkers(s, b)' = Linkers(s, b) \ {c}
    BY <1>6, <2>1, <2>3, OneCall
  <2>6. Few(s, b)
    BY DEF EntriesFew
  <2> QED BY <1>7, <2>1, <2>2, <2>4, <2>5, <2>6, FewKept
<1>10. Loose' \subseteq Loose
  <2>1. /\ \A f : ~Links(call'[c], f) /\ ~Unlinks(call'[c], f) /\ ~Links(call[c], f)
        /\ \A f \in Event \ {e} : ~Unlinks(call[c], f)
    BY <1>1, <1>6 DEF Links, Unlinks
  <2> QED BY <1>2, <1>4, <1>5, <1>6, <2>1 DEF Loose
<1> QED BY <1>4, <1>7, <1>8, <1>9, <1>10, LooseAdds DEF EntriesFew, ShowsOwnTask

(* Everything else leaves events, links and calls alone.                   *)
LEMMA RestPush ==
  ASSUME PushInv, UNCHANGED <<link, event, call, removed, faults, overlaps>>
  PROVE  PushInv'
<1>1. \A t, a : /\ Entries(t, a)' = Entries(t, a) /\ Makers(t, a)' = Makers(t, a)
               /\ Lookers(t, a)' = Lookers(t, a)
  BY DEF Entries, Makers, Lookers
<1>2. \A t, a : Linkers(t, a)' = Linkers(t, a) /\ Found(t, a)' = Found(t, a)
  BY <1>1 DEF Linkers, Found
<1>3. Slack' = Slack /\ Loose' = Loose
  BY DEF Slack, Loose
<1>4. \A t, a : Few(t, a) => Few(t, a)'
  BY <1>1, <1>2, <1>3 DEF Few, Free
<1> QED BY <1>3, <1>4 DEF PushInv, Owned, ShowsOwnTask, EntriesFew, LooseFew, At

LEMMA PushStep == IndInv /\ PushInv /\ [Next]_vars => PushInv'
<1> SUFFICES ASSUME IndInv, PushInv, [Next]_vars PROVE PushInv'
  OBVIOUS
<1>1. IndInv'
  BY StepKept
<1>2. Owned
  BY DEF PushInv
<1>3. ASSUME NEW c \in Call, Quiet(c) PROVE PushInv'
  BY <1>1, <1>3, QuietPush
<1>4. ASSUME NEW c \in Call, Begin(c) PROVE PushInv'
  <2>1. CASE \E t \in Task : SyncCommitmentToCalendar(c, t)
    BY <1>1, <2>1, BeginPush
  <2>2. CASE ~\E t \in Task : SyncCommitmentToCalendar(c, t)
    BY <1>3, <1>4, <2>2, BeginQuiet DEF Begin
  <2> QED BY <2>1, <2>2
<1>5. ASSUME NEW c \in Call, EventStep(c) PROVE PushInv'
  BY <1>1, <1>2, <1>3, <1>5, LookForLinkPush, CreationPush, InsertLinkPush, UpdateQuiet,
     EventDeletedPush, DeleteLinkPush DEF EventStep
<1>6. ASSUME NEW c \in Call, AccountStep(c) \/ SyncStep(c) \/ Abandon(c) PROVE PushInv'
  BY <1>2, <1>3, <1>6, AccountStepQuiet, SyncStepQuiet, AbandonQuiet
<1>7. CASE DisconnectAccount
  BY <1>7, RestPush DEF DisconnectAccount, remote, history
<1>8. ASSUME NEW g \in Grant, Revoke(g) PROVE PushInv'
  BY <1>8, RestPush DEF Revoke, remote, history
<1>9. ASSUME NEW e \in Event, RemoveEvent(e) PROVE PushInv'
  BY <1>1, <1>9, RemoveEventPush
<1>10. CASE UNCHANGED vars
  BY <1>10, RestPush DEF vars, remote, history
<1> QED BY <1>4, <1>5, <1>6, <1>7, <1>8, <1>9, <1>10 DEF Next

LEMMA PushInit == Init => PushInv
<1> SUFFICES ASSUME Init PROVE PushInv
  OBVIOUS
<1>1. \A c \in Call : call[c] = Idle /\ call[c].pc = "idle"
  BY DEF Init, Idle
<1>2. \A e \in Event : event[e] = NoEvent /\ link[e] = NoLink
  BY DEF Init
<1>3. \A t, a : Entries(t, a) = {} /\ Makers(t, a) = {} /\ Lookers(t, a) = {}
  BY <1>1, <1>2 DEF Entries, Makers, Lookers, Makes, Looks, Pushes
<1>4. \A t, a : Linkers(t, a) = {} /\ Found(t, a) = {}
  BY <1>3 DEF Linkers, Found
<1>5. Loose = {}
  BY <1>2 DEF Loose
<1>6. Slack = 0 /\ Cardinality({}) = 0
  BY FS_EmptySet DEF Init, Slack
<1>7. ASSUME NEW t \in Task, NEW a \in Account PROVE Few(t, a)
  <2>1. Free(t, a) = 0
    BY <1>3, <1>4 DEF Free
  <2>2. /\ Cardinality(Entries(t, a)) = 0 /\ Cardinality(Makers(t, a)) = 0
        /\ Cardinality(Lookers(t, a)) = 0
    BY <1>3, <1>6
  <2> QED BY <1>6, <2>1, <2>2 DEF Few
<1>8. LooseFew
  BY <1>5, <1>6 DEF LooseFew
<1> QED BY <1>1, <1>2, <1>7, <1>8 DEF PushInv, EntriesFew, Owned, ShowsOwnTask, Pushes, At

(* A push writes only to the event of its own commitment; a calendar has   *)
(* one live event for a commitment, and each further one, as each link     *)
(* left behind by a deletion, is paid for by a lost answer, a failing      *)
(* statement, a crash or two operations that overlapped                    *)
(* (syncCommitmentToCalendar, deleteCalendarEvent, fetchWithRetry).        *)
THEOREM PushesPaidHolds == Spec => []PushesPaid
<1>1. IndInv /\ PushInv => PushesPaid
  <2> SUFFICES ASSUME IndInv, PushInv PROVE PushesPaid
    OBVIOUS
  <2>1. ASSUME NEW t \in Task, NEW a \in Account
        PROVE  Cardinality(Entries(t, a)) <= 1 + faults + overlaps
    <3>1. /\ IsFiniteSet(Entries(t, a)) /\ IsFiniteSet(Makers(t, a))
      BY PushSets
    <3>2. Cardinality(Entries(t, a)) \in Nat /\ Cardinality(Makers(t, a)) \in Nat
      BY <3>1, FS_CardinalityType
    <3>3. Cardinality(Entries(t, a)) + Cardinality(Makers(t, a)) <= 1 + Slack
      BY DEF PushInv, EntriesFew, Few
    <3> QED BY <3>2, <3>3, Counted DEF Slack
  <2>2. DanglingPaid
    <3> DEFINE left == {e \in Dangling : ~BeingDeleted(e)}
    <3>1. left \subseteq Loose
      <4> SUFFICES ASSUME NEW e \in left PROVE e \in Loose
        OBVIOUS
      <4>1. e \in Event /\ link[e] # NoLink /\ ~event[e].live /\ e \notin removed
        BY DEF Dangling
      <4>2. event[e] # NoEvent
        BY <4>1 DEF PushInv, Owned
      <4>3. ASSUME NEW c \in Call PROVE ~Unlinks(call[c], e)
        <5> SUFFICES ASSUME Unlinks(call[c], e) PROVE FALSE
          OBVIOUS
        <5>1. call[c] # Idle /\ call[c].pc = "unlink" /\ call[c].event = e
          BY Busy DEF Unlinks
        <5>2. call[c].op # "delete"
          BY <5>1 DEF BeingDeleted
        <5> QED BY <5>1, <5>2 DEF PushInv, Owned, At
      <4> QED BY <4>1, <4>2, <4>3 DEF Loose
    <3>2. IsFiniteSet(Loose)
      BY EventsFinite, Fewer DEF Loose
    <3>3. Cardinality(left) <= Cardinality(Loose) /\ Cardinality(left) \in Nat /\ Cardinality(Loose) \in Nat
      BY <3>1, <3>2, Fewer
    <3>4. Cardinality(Loose) <= faults + overlaps
      BY DEF PushInv, LooseFew, Slack
    <3> HIDE DEF left
    <3>5. Cardinality(left) <= faults + overlaps
      BY <3>3, <3>4, Counted
    <3> QED BY <3>5 DEF left, DanglingPaid
  <2> QED BY <2>1, <2>2 DEF PushesPaid, DuplicatesPaid, PushInv
<1> QED BY <1>1, InitEstablishes, StepKept, PushInit, PushStep, PTL DEF Spec

-----------------------------------------------------------------------------
(* The search for free time: days and quiet hours. *)

(* Facts of multiplication the provers need told.                          *)
LEMMA Times ==
  ASSUME NEW a \in Int, NEW b \in Int, NEW n \in Nat \ {0}
  PROVE  /\ a * n \in Int /\ (a + 1) * n = a * n + n
         /\ a <= b => a * n <= b * n
         /\ a * n < b * n => a < b
<1>1. a * n \in Int /\ b * n \in Int /\ (a + 1) * n = a * n + n
  OBVIOUS
<1>2. ASSUME NEW c \in Int, NEW d \in Int, c <= d PROVE c * n <= d * n
  <2>1. d - c \in Nat
    BY <1>2
  <2>2. (d - c) * n \in Nat
    BY <2>1
  <2>3. (d - c) * n = d * n - c * n
    OBVIOUS
  <2> QED BY <2>2, <2>3
<1>3. a * n < b * n => a < b
  BY <1>1, <1>2
<1> QED BY <1>1, <1>2, <1>3

(* Division by the length of a day, and back.                              *)
LEMMA Divides ==
  ASSUME NEW t \in Int
  PROVE  /\ t \div Day \in Int /\ t % Day \in 0..(Day - 1)
         /\ t = (t \div Day) * Day + (t % Day)
<1>1. Day \in Int /\ Day > 0
  BY AvailabilityAssumption
<1>2. t \div Day \in Int
  BY <1>1
<1>3. t % Day \in 0..(Day - 1)
  BY <1>1
<1>4. t = (t \div Day) * Day + (t % Day)
  BY <1>1, Z3
<1> QED BY <1>2, <1>3, <1>4

LEMMA Remains ==
  ASSUME NEW q \in Int, NEW r \in 0..(Day - 1)
  PROVE  (q * Day + r) % Day = r /\ (q * Day + r) \div Day = q
<1>1. Day \in Nat \ {0} /\ r \in Int
  BY AvailabilityAssumption
<1> DEFINE t == q * Day + r
           p == t \div Day
           s == t % Day
<1>2. t \in Int
  BY <1>1
<1>3. p \in Int /\ s \in 0..(Day - 1) /\ t = p * Day + s
  BY <1>2, Divides
<1>4. q * Day < p * Day + Day /\ p * Day < q * Day + Day
  <2>1. q * Day \in Int /\ p * Day \in Int
    BY <1>1, <1>3, Times
  <2> HIDE DEF p, s
  <2> QED BY <1>1, <1>3, <2>1
<1>5. (p + 1) * Day = p * Day + Day /\ (q + 1) * Day = q * Day + Day
  BY <1>1, <1>3, Times
<1>6. q < p + 1 /\ p < q + 1
  <2>1. p + 1 \in Int /\ q + 1 \in Int
    BY <1>3
  <2> HIDE DEF p
  <2> QED BY <1>1, <1>3, <1>4, <1>5, <2>1, Times
<1>7. p = q
  BY <1>3, <1>6
<1>8. s = r
  BY <1>1, <1>3, <1>7
<1> QED BY <1>7, <1>8

(* The days that are scanned are those of the window and the one before.   *)
LEMMA DaysCover ==
  /\ Days \subseteq Int
  /\ \A t \in Whole : t \in Int /\ t \div Day \in Days /\ t \div Day - 1 \in Days
<1> DEFINE m == TimeMin \div Day
           w == (TimeMax - TimeMin) \div Day
<1>1. Day \in Nat \ {0} /\ TimeMin \in Int /\ TimeMax \in Int
  BY AvailabilityAssumption
<1>2. m \in Int /\ m * Day \in Int /\ (m + 1) * Day \in Int
      /\ m * Day <= TimeMin /\ TimeMin < (m + 1) * Day
  <2>1. m \in Int /\ TimeMin % Day \in 0..(Day - 1) /\ TimeMin = m * Day + (TimeMin % Day)
    BY <1>1, Divides
  <2>2. m * Day \in Int /\ (m + 1) * Day = m * Day + Day
    BY <1>1, <2>1, Times
  <2> HIDE DEF m
  <2> QED BY <1>1, <2>1, <2>2
<1>3. w \in Int /\ w >= 0 /\ w * Day \in Int /\ (w + 1) * Day \in Int
      /\ TimeMax - TimeMin < (w + 1) * Day
  <2> DEFINE u == TimeMax - TimeMin
  <2>1. u \in Int /\ u > 0
    BY AvailabilityAssumption
  <2>2. w \in Int /\ u % Day \in 0..(Day - 1) /\ u = w * Day + (u % Day)
    BY <2>1, Divides
  <2>3. w * Day \in Int /\ (w + 1) * Day = w * Day + Day /\ 0 * Day = 0
    BY <1>1, <2>2, Times
  <2> HIDE DEF w, u
  <2>4. 0 * Day < (w + 1) * Day
    BY <1>1, <2>1, <2>2, <2>3
  <2>5. 0 < w + 1
    BY <1>1, <2>2, <2>4, Times, 0 \in Int, w + 1 \in Int
  <2>6. u < (w + 1) * Day
    BY <1>1, <2>1, <2>2, <2>3
  <2> QED BY <1>1, <2>2, <2>3, <2>5, <2>6 DEF u
<1>4. Days = {m + k : k \in -1..(w + 1)}
  BY DEF Days
<1>5. ASSUME NEW t \in Whole
      PROVE  t \in Int /\ t \div Day \in m..(m + w + 1)
  <2> DEFINE q == t \div Day
  <2>1. t \in Int /\ TimeMin <= t /\ t < TimeMax
    BY <1>1 DEF Whole, Points, Interval
  <2>2. q \in Int /\ t % Day \in 0..(Day - 1) /\ t = q * Day + (t % Day)
    BY <2>1, Divides
  <2>3. q * Day \in Int /\ (q + 1) * Day = q * Day + Day
    BY <1>1, <2>2, Times
  <2>4. (m + 1) * Day + (w + 1) * Day = (m + w + 2) * Day
    <3> HIDE DEF m, w
    <3> QED BY <1>1, <1>2, <1>3
  <2>9. m + w + 2 \in Int /\ q + 1 \in Int
    BY <1>2, <1>3, <2>2
  <2> HIDE DEF m, w, q
  <2>5. q * Day < (m + w + 2) * Day /\ m * Day < (q + 1) * Day
    BY <1>1, <1>2, <1>3, <2>1, <2>2, <2>3, <2>4
  <2>6. q < m + w + 2
    BY <1>1, <2>2, <2>5, <2>9, Times
  <2>7. m < q + 1
    BY <1>1, <1>2, <2>5, <2>9, Times
  <2>8. q \in m..(m + w + 1)
    BY <1>2, <1>3, <2>2, <2>6, <2>7
  <2> QED BY <2>1, <2>8 DEF q
<1> HIDE DEF m, w
<1>6. ASSUME NEW q \in m..(m + w + 1) PROVE q \in Days /\ q - 1 \in Days
  <2>1. q - m \in -1..(w + 1) /\ q - 1 - m \in -1..(w + 1) /\ q = m + (q - m) /\ q - 1 = m + (q - 1 - m)
    BY <1>2, <1>3
  <2> QED BY <1>4, <2>1
<1>7. Days \subseteq Int
  BY <1>2, <1>3, <1>4
<1> QED BY <1>5, <1>6, <1>7

(* The quiet hours of those days are the quiet points of the window: a     *)
(* point is quiet by its own day, or by the night that began the day       *)
(* before.                                                                 *)
LEMMA QuietCovered ==
  ASSUME hours \in QuietHours, hours # <<>>, NEW t \in Whole
  PROVE  IsQuiet(t, hours) <=> \E d \in Days : t \in Points(QuietSpan(d))
<1> DEFINE h1 == hours[1]
           h2 == hours[2]
           q == t \div Day
           r == t % Day
<1>1. h1 \in 0..(Day - 1) /\ h2 \in 0..(Day - 1) /\ Day \in Nat \ {0}
  BY AvailabilityAssumption
<1>2. t \in Int /\ q \in Days /\ q - 1 \in Days /\ Days \subseteq Int
  BY DaysCover
<1>3. q \in Int /\ r \in 0..(Day - 1) /\ t = q * Day + r
  BY <1>2, Divides
<1>4. IsQuiet(t, hours) <=> IF h1 < h2 THEN h1 <= r /\ r < h2 ELSE h1 <= r \/ r < h2
  BY DEF IsQuiet
<1>5. ASSUME NEW d \in Int
      PROVE  /\ d * Day \in Int /\ (d + 1) * Day = d * Day + Day
             /\ t \in Points(QuietSpan(d)) <=>
                  /\ d * Day + h1 <= t
                  /\ t < (IF h1 < h2 THEN d * Day ELSE d * Day + Day) + h2
  <2>1. d * Day \in Int /\ (d + 1) * Day = d * Day + Day
    BY <1>1, Times
  <2>2. QuietSpan(d) = [from |-> d * Day + h1, to |-> (IF h1 < h2 THEN d ELSE d + 1) * Day + h2]
    BY DEF QuietSpan, Interval
  <2>3. QuietSpan(d).from = d * Day + h1
        /\ QuietSpan(d).to = (IF h1 < h2 THEN d * Day ELSE d * Day + Day) + h2
    BY <2>1, <2>2
  <2> HIDE DEF h1, h2
  <2>4. QuietSpan(d).from \in Int /\ QuietSpan(d).to \in Int
    BY <1>1, <2>1, <2>3
  <2>5. t \in Points(QuietSpan(d)) <=> QuietSpan(d).from <= t /\ t < QuietSpan(d).to
    BY <1>2, <2>4 DEF Points
  <2> QED BY <2>1, <2>3, <2>5
<1>6. q - 1 \in Int /\ (q - 1) * Day = q * Day - Day
  <2>3. q - 1 \in Int
    BY <1>3
  <2>1. ((q - 1) + 1) * Day = (q - 1) * Day + Day /\ (q - 1) * Day \in Int
    BY <1>1, <2>3, Times
  <2>2. (q - 1) + 1 = q
    BY <1>3
  <2> HIDE DEF q
  <2> QED BY <1>1, <2>1, <2>2, <2>3
<1>11. q * Day \in Int
  BY <1>1, <1>3, Times
<1> HIDE DEF h1, h2, r, q
<1>7. ASSUME IsQuiet(t, hours) PROVE \E d \in Days : t \in Points(QuietSpan(d))
  <2>1. CASE h1 <= r
    <3>1. t < (IF h1 < h2 THEN q * Day ELSE q * Day + Day) + h2
      BY <1>1, <1>3, <1>4, <1>7, <1>11, <2>1
    <3>2. t \in Points(QuietSpan(q))
      BY <1>1, <1>3, <1>5, <1>11, <2>1, <3>1
    <3> QED BY <1>2, <3>2
  <2>2. CASE ~(h1 <= r)
    <3>1. ~(h1 < h2) /\ r < h2
      BY <1>1, <1>3, <1>4, <1>7, <2>2
    <3>2. (q - 1) * Day + h1 <= t /\ t < (q - 1) * Day + Day + h2
      BY <1>1, <1>3, <1>6, <1>11, <3>1
    <3>3. t \in Points(QuietSpan(q - 1))
      BY <1>5, <1>6, <3>1, <3>2
    <3> QED BY <1>2, <3>3
  <2> QED BY <2>1, <2>2
<1>8. ASSUME NEW d \in Days, t \in Points(QuietSpan(d)) PROVE IsQuiet(t, hours)
  <2>1. d \in Int
    BY <1>2
  <2>2. d * Day \in Int /\ (d + 1) * Day = d * Day + Day /\ d + 1 \in Int
        /\ d * Day + h1 <= t
        /\ t < (IF h1 < h2 THEN d * Day ELSE d * Day + Day) + h2
    BY <1>5, <1>8, <2>1
  <2>3. CASE t < d * Day + Day
    <3>1. t - d * Day \in 0..(Day - 1) /\ t = d * Day + (t - d * Day)
      BY <1>1, <1>2, <2>2, <2>3
    <3>2. r = t - d * Day
      BY <2>1, <3>1, Remains DEF r
    <3>3. h1 <= r
      BY <1>1, <1>2, <2>2, <3>2
    <3>4. h1 < h2 => r < h2
      BY <1>1, <1>2, <2>2, <3>2
    <3> QED BY <1>4, <3>3, <3>4
  <2>4. CASE ~(t < d * Day + Day)
    <3>1. ~(h1 < h2) /\ t < d * Day + Day + h2
      BY <1>1, <1>2, <2>2, <2>4
    <3>2. t - (d + 1) * Day \in 0..(Day - 1) /\ t = (d + 1) * Day + (t - (d + 1) * Day)
      BY <1>1, <1>2, <2>2, <2>4, <3>1
    <3>3. r = t - (d + 1) * Day
      BY <2>2, <3>2, Remains DEF r
    <3>4. r < h2
      BY <1>1, <1>2, <2>2, <3>1, <3>3
    <3> QED BY <1>4, <3>1, <3>4
  <2> QED BY <2>3, <2>4
<1> QED BY <1>7, <1>8

(* The points of an interval, and the window.                              *)
LEMMA PointsOf ==
  ASSUME NEW i \in TimeSpan
  PROVE  \A t : t \in Points(i) <=> t \in Int /\ i.from <= t /\ t < i.to
BY DEF Points, TimeSpan

LEMMA WindowTyped ==
  /\ TimeMin \in Nat /\ TimeMax \in Nat /\ TimeMin < TimeMax /\ Window \subseteq TimeSpan
  /\ \A t : t \in Whole <=> t \in Int /\ TimeMin <= t /\ t < TimeMax
<1>1. TimeMin \in Nat /\ TimeMax \in Nat /\ TimeMin < TimeMax
  BY AvailabilityAssumption
<1>2. Window \subseteq TimeSpan
  BY <1>1 DEF Window, TimeSpan
<1>3. \A t : t \in Whole <=> t \in Int /\ TimeMin <= t /\ t < TimeMax
  BY <1>1 DEF Whole, Points, Interval
<1> QED BY <1>1, <1>2, <1>3

(* Clipping keeps what lies in the window. *)
LEMMA ClippedPoints ==
  ASSUME NEW i \in TimeSpan
  PROVE  /\ Clipped(i) \in TimeSpan
         /\ Clipped(i).to > Clipped(i).from => Clipped(i) \in Window
         /\ \A t : t \in Points(Clipped(i)) <=> t \in Whole /\ t \in Points(i)
<1>1. i.from \in Int /\ i.to \in Int
  BY DEF TimeSpan
<1> DEFINE a == Greatest(TimeMin, i.from)
           b == Least(TimeMax, i.to)
<1>2. /\ a \in Int /\ b \in Int /\ TimeMin <= a /\ b <= TimeMax
      /\ \A t \in Int : a <= t <=> TimeMin <= t /\ i.from <= t
      /\ \A t \in Int : t < b <=> t < TimeMax /\ t < i.to
  BY <1>1, WindowTyped DEF Greatest, Least
<1>3. Clipped(i) = [from |-> a, to |-> b]
  BY DEF Clipped, Interval
<1> HIDE DEF a, b
<1>4. Clipped(i) \in TimeSpan /\ Clipped(i).from = a /\ Clipped(i).to = b
  BY <1>2, <1>3 DEF TimeSpan
<1>5. b > a => a \in TimeMin..TimeMax /\ b \in TimeMin..TimeMax
  BY <1>2, WindowTyped
<1>6. Clipped(i).to > Clipped(i).from => Clipped(i) \in Window
  BY <1>3, <1>4, <1>5 DEF Window
<1>7. \A t : t \in Points(Clipped(i)) <=> t \in Int /\ a <= t /\ t < b
  BY <1>4, PointsOf
<1>8. \A t : t \in Points(Clipped(i)) <=> t \in Whole /\ t \in Points(i)
  BY <1>2, <1>7, WindowTyped, PointsOf
<1> QED BY <1>4, <1>6, <1>8

(* What was read consists of intervals.                                    *)
LEMMA OccupiedTyped ==
  ASSUME SearchTypeOK
  PROVE  /\ Occupied \subseteq TimeSpan /\ Margin \in Nat /\ ask.duration \in Nat \ {0}
         /\ \A i \in TimeSpan, n \in Nat : Wider(i, n) \in TimeSpan
         /\ \A d \in DueTime : AroundDue(d) \in TimeSpan
         /\ \A e \in calendar : e.at \in TimeSpan
<1>1. ask.duration \in Nat \ {0} /\ ask.buffer \in Nat /\ Margin \in Nat
  BY AvailabilityAssumption DEF SearchTypeOK, Question, Margin
<1>2. \A i \in TimeSpan, n \in Nat : Wider(i, n) \in TimeSpan
  BY DEF Wider, TimeSpan, Interval
<1>3. \A d \in DueTime : AroundDue(d) \in TimeSpan
  BY AvailabilityAssumption DEF AroundDue, TimeSpan, Interval
<1>4. \A e \in Meeting : e.at \in TimeSpan
  <2>1. \A s \in Span : Interval(s[1], s[2]) \in TimeSpan
    BY AvailabilityAssumption DEF TimeSpan, Interval
  <2> QED BY <2>1 DEF Meeting
<1>5. Occupied \subseteq TimeSpan /\ \A e \in calendar : e.at \in TimeSpan
  BY <1>3, <1>4 DEF SearchTypeOK, Occupied
<1> QED BY <1>1, <1>2, <1>3, <1>5

(* The busy intervals are within the window, none is empty, and together   *)
(* they are the busy points.                                               *)
LEMMA BusyCovered ==
  ASSUME SearchTypeOK
  PROVE  /\ BusySpans \subseteq Window /\ \A i \in BusySpans : i.from < i.to
         /\ \A t : t \in BusyPoints <=> \E i \in BusySpans : t \in Points(i)
<1>1. BusyTimes \subseteq TimeSpan
  <2>1. \A d \in Days : hours # <<>> => QuietSpan(d) \in TimeSpan
    <3> SUFFICES ASSUME NEW d \in Days, hours # <<>> PROVE QuietSpan(d) \in TimeSpan
      OBVIOUS
    <3>1. d \in Int /\ d + 1 \in Int
      BY DaysCover
    <3>2. hours[1] \in Int /\ hours[2] \in Int /\ Day \in Nat \ {0}
      BY AvailabilityAssumption DEF SearchTypeOK
    <3>3. d * Day \in Int /\ (d + 1) * Day \in Int
      BY <3>1, <3>2, Times
    <3>4. d * Day + hours[1] \in Int /\ (IF hours[1] < hours[2] THEN d ELSE d + 1) * Day + hours[2] \in Int
      BY <3>2, <3>3
    <3> QED BY <3>4 DEF QuietSpan, Interval, TimeSpan
  <2>2. \A i \in Occupied : i \in TimeSpan /\ Wider(i, ask.buffer) \in TimeSpan
    <3>1. ask.buffer \in Nat
      BY AvailabilityAssumption DEF SearchTypeOK, Question
    <3> QED BY <3>1, OccupiedTyped
  <2> QED BY <2>1, <2>2 DEF BusyTimes
<1>2. BusySpans \subseteq Window /\ \A i \in BusySpans : i.from < i.to
  <2> SUFFICES ASSUME NEW i \in BusySpans PROVE i \in Window /\ i.from < i.to
    OBVIOUS
  <2>1. PICK j \in BusyTimes : i = Clipped(j) /\ i.to > i.from
    BY DEF BusySpans
  <2>2. j \in TimeSpan
    BY <1>1
  <2>3. i \in Window /\ i.from \in Int /\ i.to \in Int
    BY <2>1, <2>2, ClippedPoints DEF TimeSpan
  <2> QED BY <2>1, <2>3
<1>3. \A t : t \in BusyPoints <=> t \in Whole /\ \E j \in BusyTimes : t \in Points(j)
  <2>1. CASE ask.kind = "check"
    <3>1. \A i \in Occupied : Wider(i, Margin) = i
      <4>1. Margin = 0
        BY <2>1 DEF Margin
      <4> SUFFICES ASSUME NEW i \in Occupied PROVE Wider(i, 0) = i
        BY <4>1
      <4>2. i \in TimeSpan
        BY OccupiedTyped
      <4>3. i = [from |-> i.from, to |-> i.to] /\ i.from \in Int /\ i.to \in Int
        BY <4>2 DEF TimeSpan
      <4>4. i.from - 0 = i.from /\ i.to + 0 = i.to
        BY <4>3
      <4>5. Wider(i, 0) = [from |-> i.from, to |-> i.to]
        BY <4>4 DEF Wider, Interval
      <4> QED BY <4>3, <4>5, Zenon
    <3> QED BY <2>1, <3>1 DEF BusyPoints, BusyTimes
  <2>2. CASE ask.kind # "check"
    <3>1. ask.kind = "find" /\ Margin = ask.buffer
      BY <2>2 DEF SearchTypeOK, Question, Margin
    <3>2. \A t \in Whole : IsQuiet(t, hours) <=>
            \E j \in (IF hours = <<>> THEN {} ELSE {QuietSpan(d) : d \in Days}) : t \in Points(j)
      <4>1. CASE hours = <<>>
        BY <4>1 DEF IsQuiet
      <4>2. CASE hours # <<>>
        <5>1. hours \in QuietHours
          BY <4>2 DEF SearchTypeOK
        <5> QED BY <4>2, <5>1, QuietCovered
      <4> QED BY <4>1, <4>2
    <3>3. BusyTimes = {Wider(i, Margin) : i \in Occupied}
                      \cup (IF hours = <<>> THEN {} ELSE {QuietSpan(d) : d \in Days})
      BY <3>1 DEF BusyTimes
    <3> QED BY <3>1, <3>2, <3>3 DEF BusyPoints
  <2> QED BY <2>1, <2>2
<1>4. ASSUME NEW t PROVE t \in BusyPoints <=> \E i \in BusySpans : t \in Points(i)
  <2>1. ASSUME t \in BusyPoints PROVE \E i \in BusySpans : t \in Points(i)
    <3>1. PICK j \in BusyTimes : t \in Whole /\ t \in Points(j)
      BY <1>3, <2>1
    <3>2. j \in TimeSpan
      BY <1>1
    <3>3. t \in Points(Clipped(j)) /\ Clipped(j) \in TimeSpan
      BY <3>1, <3>2, ClippedPoints
    <3>4. Clipped(j).to > Clipped(j).from
      BY <3>3, PointsOf DEF TimeSpan
    <3> QED BY <3>3, <3>4 DEF BusySpans
  <2>2. ASSUME NEW i \in BusySpans, t \in Points(i) PROVE t \in BusyPoints
    <3>1. PICK j \in BusyTimes : i = Clipped(j)
      BY DEF BusySpans
    <3>2. j \in TimeSpan
      BY <1>1
    <3> QED BY <1>3, <2>2, <3>1, <3>2, ClippedPoints
  <2> QED BY <2>1, <2>2
<1> QED BY <1>2, <1>4

(* Intervals apart from each other, in order; and what they cover.         *)
Apart(s) ==
  /\ \A k \in 1..Len(s) : s[k].from < s[k].to
  /\ \A k, l \in 1..Len(s) : k < l => s[k].to < s[l].from

Covers(s, t) == \E k \in 1..Len(s) : t \in Points(s[k])

(* Joining the next interval, which starts after all others have started,  *)
(* leaves them apart and adds the points of it.                            *)
LEMMA JoinKeeps ==
  ASSUME NEW s \in Seq(Window), Apart(s), NEW i \in Window, i.from < i.to,
         \A k \in 1..Len(s) : s[k].from <= i.from
  PROVE  /\ Join(s, i) \in Seq(Window) /\ Apart(Join(s, i))
         /\ \A t : Covers(Join(s, i), t) <=> Covers(s, t) \/ t \in Points(i)
         /\ \A k \in 1..Len(Join(s, i)) : Join(s, i)[k].from <= i.from
<1> DEFINE n == Len(s)
<1>1. n \in Nat /\ \A k \in 1..n : s[k] \in Window
  OBVIOUS
<1>2. Window \subseteq TimeSpan /\ \A j \in Window : j.from \in Int /\ j.to \in Int /\ j \in TimeSpan
  BY WindowTyped DEF Window
<1>3. \A j \in Window : \A t : t \in Points(j) <=> t \in Int /\ j.from <= t /\ t < j.to
  BY <1>2, PointsOf
<1>4. CASE s # <<>> /\ i.from <= s[n].to
  <2> DEFINE e == Extended(s[n], i)
             m == [s EXCEPT ![n] = e]
  <2>1. n \in 1..n /\ n >= 1
    BY <1>1, <1>4
  <2>2. Join(s, i) = m
    BY <1>4 DEF Join, Last
  <2>3. e \in Window /\ e.from = s[n].from /\ e.to = Greatest(s[n].to, i.to)
    BY <1>1, <2>1 DEF Extended, Window, Greatest
  <2>4. m \in Seq(Window) /\ Len(m) = n /\ m[n] = e /\ \A k \in 1..n : k # n => m[k] = s[k]
    <3> HIDE DEF e
    <3> QED BY <2>1, <2>3
  <2>5. e.from <= i.from /\ e.to >= s[n].to /\ e.to >= i.to /\ (e.to = s[n].to \/ e.to = i.to)
    BY <1>1, <1>2, <2>1, <2>3 DEF Greatest
  <2> HIDE DEF e, m
  <2>6. \A k \in 1..Len(m) : m[k].from < m[k].to /\ m[k].from <= i.from
    <3> SUFFICES ASSUME NEW k \in 1..n PROVE m[k].from < m[k].to /\ m[k].from <= i.from
      BY <2>4
    <3>1. CASE k = n
      BY <1>1, <1>2, <2>1, <2>3, <2>4, <2>5, <3>1 DEF Apart
    <3>2. CASE k # n
      BY <2>4, <3>2 DEF Apart
    <3> QED BY <3>1, <3>2
  <2>7. ASSUME NEW k \in 1..n, NEW l \in 1..n, k < l PROVE m[k].to < m[l].from
    <3>1. k # n
      BY <1>1, <2>7
    <3>2. m[k] = s[k] /\ s[k].to < s[l].from
      BY <2>4, <2>7, <3>1 DEF Apart
    <3>3. m[l].from = s[l].from
      BY <2>3, <2>4
    <3> QED BY <3>2, <3>3
  <2>8. Apart(m)
    BY <2>4, <2>6, <2>7 DEF Apart
  <2>9. \A t : t \in Points(e) <=> t \in Points(s[n]) \/ t \in Points(i)
    <3>1. s[n] \in Window /\ s[n].from \in Int /\ s[n].to \in Int /\ i.from \in Int /\ i.to \in Int
          /\ e.from \in Int /\ e.to \in Int /\ s[n].from <= i.from
      BY <1>1, <1>2, <2>1, <2>3
    <3>2. \A t \in Int : e.from <= t /\ t < e.to <=>
            (s[n].from <= t /\ t < s[n].to) \/ (i.from <= t /\ t < i.to)
      BY <1>4, <2>3, <2>5, <3>1
    <3> QED BY <1>3, <2>3, <3>1, <3>2
  <2>10. \A t : Covers(m, t) <=> Covers(s, t) \/ t \in Points(i)
    BY <2>1, <2>4, <2>9 DEF Covers
  <2> QED BY <2>2, <2>4, <2>6, <2>8, <2>10
<1>5. CASE ~(s # <<>> /\ i.from <= s[n].to)
  <2> DEFINE m == Append(s, i)
  <2>1. Join(s, i) = m
    BY <1>5 DEF Join, Last
  <2>2. m \in Seq(Window) /\ Len(m) = n + 1 /\ m[n + 1] = i /\ \A k \in 1..n : m[k] = s[k]
    OBVIOUS
  <2> HIDE DEF m
  <2>3. \A k \in 1..(n + 1) : k \in 1..n \/ k = n + 1
    BY <1>1
  <2>4. ASSUME NEW k \in 1..n PROVE s[k].to < i.from
    <3>1. s # <<>> /\ n \in 1..n
      BY <1>1
    <3>2. s[n].to \in Int /\ s[n].from \in Int /\ i.from \in Int /\ s[k].to \in Int
      BY <1>1, <1>2, <3>1
    <3>3. s[n].to < i.from /\ s[n].from < s[n].to
      BY <1>5, <3>1, <3>2 DEF Apart
    <3>4. k # n => s[k].to < s[n].from
      BY <1>1, <3>1 DEF Apart
    <3> QED BY <3>2, <3>3, <3>4
  <2>5. \A k \in 1..(n + 1) : m[k].from < m[k].to /\ m[k].from <= i.from
    <3> SUFFICES ASSUME NEW k \in 1..(n + 1) PROVE m[k].from < m[k].to /\ m[k].from <= i.from
      OBVIOUS
    <3>1. CASE k \in 1..n
      BY <2>2, <3>1 DEF Apart
    <3>2. CASE k = n + 1
      BY <1>2, <2>2, <3>2
    <3> QED BY <2>3, <3>1, <3>2
  <2>6. ASSUME NEW k \in 1..(n + 1), NEW l \in 1..(n + 1), k < l PROVE m[k].to < m[l].from
    <3>1. k \in 1..n
      BY <1>1, <2>6
    <3>2. CASE l \in 1..n
      BY <2>2, <2>6, <3>1, <3>2 DEF Apart
    <3>3. CASE l = n + 1
      BY <2>2, <2>4, <3>1, <3>3
    <3> QED BY <2>3, <3>2, <3>3
  <2>7. Apart(m)
    BY <2>2, <2>5, <2>6 DEF Apart
  <2>8. \A t : Covers(m, t) <=> Covers(s, t) \/ t \in Points(i)
    <3> SUFFICES ASSUME NEW t PROVE Covers(m, t) <=> Covers(s, t) \/ t \in Points(i)
      OBVIOUS
    <3>1. n + 1 \in 1..(n + 1) /\ \A k \in 1..n : k \in 1..(n + 1)
      BY <1>1
    <3>2. Covers(m, t) => Covers(s, t) \/ t \in Points(i)
      BY <2>2, <2>3 DEF Covers
    <3>3. Covers(s, t) \/ t \in Points(i) => Covers(m, t)
      BY <2>2, <3>1 DEF Covers
    <3> QED BY <3>2, <3>3
  <2> QED BY <2>1, <2>2, <2>5, <2>7, <2>8
<1> QED BY <1>4, <1>5

(* A set of natural numbers has a least one.                               *)
LEMMA LeastOf ==
  ASSUME NEW T, T \subseteq Nat, T # {}
  PROVE  \E x \in T : \A y \in T : x <= y
<1>1. PICK x \in T : \A y \in T : ~ (<<y, x>> \in OpToRel(<, Nat))
  BY NatLessThanWellFounded, WFMin, Zenon
<1>2. \A y \in T : ~ (y < x)
  BY <1>1 DEF OpToRel
<1> QED BY <1>2

(* The gap after k of the merged intervals.                                *)
GapAfter(s, k) ==
  Interval(IF k = 0 THEN TimeMin ELSE s[k].to, IF k = Len(s) THEN TimeMax ELSE s[k + 1].from)

(* What a sequence of intervals of the window consists of.                 *)
LEMMA Bounds ==
  ASSUME NEW s \in Seq(Window)
  PROVE  /\ Len(s) \in Nat
         /\ \A k \in 1..Len(s) : /\ s[k] \in Window /\ s[k] \in TimeSpan /\ s[k] = Interval(s[k].from, s[k].to)
                                 /\ s[k].from \in TimeMin..TimeMax /\ s[k].to \in TimeMin..TimeMax
         /\ \A t : Covers(s, t) <=> t \in Int /\ \E k \in 1..Len(s) : s[k].from <= t /\ t < s[k].to
<1>1. Len(s) \in Nat /\ \A k \in 1..Len(s) : s[k] \in Window
  OBVIOUS
<1>2. \A k \in 1..Len(s) : /\ s[k] \in TimeSpan /\ s[k] = Interval(s[k].from, s[k].to)
                           /\ s[k].from \in TimeMin..TimeMax /\ s[k].to \in TimeMin..TimeMax
  BY <1>1, WindowTyped DEF Window, Interval
<1>3. \A k \in 1..Len(s) : \A t : t \in Points(s[k]) <=> t \in Int /\ s[k].from <= t /\ t < s[k].to
  BY <1>2, PointsOf
<1>4. \A t : Covers(s, t) <=> t \in Int /\ \E k \in 1..Len(s) : s[k].from <= t /\ t < s[k].to
  BY <1>3 DEF Covers
<1> QED BY <1>1, <1>2, <1>4

(* A gap lies in the window, nothing in it is covered, and what bounds it  *)
(* is covered or is the edge of the window.                                *)
LEMMA GapClear ==
  ASSUME NEW s \in Seq(Window), Apart(s), NEW k \in 0..Len(s), NEW g, g = GapAfter(s, k)
  PROVE  /\ g \in Window /\ g.from <= g.to /\ g = Interval(g.from, g.to)
         /\ \A t \in Int : g.from <= t /\ t < g.to => ~Covers(s, t)
         /\ k = 0 => g.from = TimeMin
         /\ k # 0 => g.from = s[k].to /\ Covers(s, g.from - 1)
         /\ k = Len(s) => g.to = TimeMax
         /\ k # Len(s) => g.to = s[k + 1].from /\ Covers(s, g.to)
<1> DEFINE n == Len(s)
<1>1. n \in Nat /\ k \in Int /\ TimeMin \in Int /\ TimeMax \in Int /\ TimeMin < TimeMax
  BY Bounds, WindowTyped
<1>2. \A j \in 1..n : s[j].from \in Int /\ s[j].to \in Int /\ TimeMin <= s[j].from /\ s[j].to <= TimeMax
                      /\ s[j].from < s[j].to /\ s[j].from <= TimeMax /\ TimeMin <= s[j].to
  BY <1>1, Bounds DEF Apart
<1>3. g.from = (IF k = 0 THEN TimeMin ELSE s[k].to) /\ g.to = (IF k = n THEN TimeMax ELSE s[k + 1].from)
      /\ g = [from |-> g.from, to |-> g.to]
  BY DEF GapAfter, Interval
<1>4. (k # 0 => k \in 1..n) /\ (k # n => k + 1 \in 1..n)
  BY <1>1
<1>5. g.from \in TimeMin..TimeMax /\ g.to \in TimeMin..TimeMax
  BY <1>1, <1>2, <1>3, <1>4
<1>6. g.from <= g.to
  <2>1. CASE k = 0 \/ k = n
    BY <1>1, <1>3, <1>5, <2>1
  <2>2. CASE k # 0 /\ k # n
    <3>1. s[k].to < s[k + 1].from
      BY <1>1, <1>4, <2>2 DEF Apart
    <3> QED BY <1>1, <1>2, <1>3, <1>4, <2>2, <3>1
  <2> QED BY <2>1, <2>2
<1>7. ASSUME NEW t \in Int, g.from <= t, t < g.to, NEW j \in 1..n, s[j].from <= t, t < s[j].to
      PROVE  FALSE
  <2>1. CASE j <= k
    <3>1. k \in 1..n /\ g.from = s[k].to
      BY <1>1, <1>3, <1>4, <2>1
    <3>2. CASE j = k
      BY <1>2, <1>7, <3>1, <3>2
    <3>3. CASE j < k
      <4>1. s[j].to < s[k].from
        BY <3>1, <3>3 DEF Apart
      <4> QED BY <1>2, <1>7, <3>1, <4>1
    <3> QED BY <1>1, <2>1, <3>2, <3>3
  <2>2. CASE j > k
    <3>1. k + 1 \in 1..n /\ g.to = s[k + 1].from
      BY <1>1, <1>3, <1>4, <2>2
    <3>2. CASE j = k + 1
      BY <1>2, <1>7, <3>1, <3>2
    <3>3. CASE j > k + 1
      <4>1. s[k + 1].to < s[j].from
        BY <1>1, <3>1, <3>3 DEF Apart
      <4> QED BY <1>2, <1>7, <3>1, <4>1
    <3> QED BY <1>1, <2>2, <3>2, <3>3
  <2> QED BY <1>1, <2>1, <2>2
<1>8. \A t \in Int : g.from <= t /\ t < g.to => ~Covers(s, t)
  BY <1>7, Bounds
<1>9. k # 0 => Covers(s, g.from - 1)
  <2> SUFFICES ASSUME k # 0 PROVE Covers(s, g.from - 1)
    OBVIOUS
  <2>1. g.from - 1 \in Int /\ s[k].from <= g.from - 1 /\ g.from - 1 < s[k].to
    BY <1>2, <1>3, <1>4
  <2> QED BY <1>4, <2>1, Bounds
<1>10. k # n => Covers(s, g.to)
  <2> SUFFICES ASSUME k # n PROVE Covers(s, g.to)
    OBVIOUS
  <2>1. g.to \in Int /\ s[k + 1].from <= g.to /\ g.to < s[k + 1].to
    BY <1>2, <1>3, <1>4
  <2> QED BY <1>4, <2>1, Bounds
<1>11. g \in Window
  BY <1>3, <1>5 DEF Window
<1> QED BY <1>3, <1>6, <1>8, <1>9, <1>10, <1>11 DEF Interval

(* What Stretches asks, in points.                                         *)
LEMMA StretchOf ==
  ASSUME NEW S, NEW i
  PROVE  i \in Stretches(S) <=>
           /\ i \in Window /\ i.from < i.to /\ i.from - 1 \notin S /\ i.to \notin S
           /\ \A t \in Int : i.from <= t /\ t < i.to => t \in S
<1>1. \A j \in Window : j \in TimeSpan
  BY WindowTyped
<1>2. i \in Window => (Points(i) \subseteq S <=> \A t \in Int : i.from <= t /\ t < i.to => t \in S)
  BY <1>1, PointsOf
<1> QED BY <1>2 DEF Stretches

(* Intervals apart are the stretches of what they cover.                   *)
LEMMA BusyStretches ==
  ASSUME NEW s \in Seq(Window), Apart(s), NEW B, \A t : t \in B <=> Covers(s, t)
  PROVE  {s[k] : k \in 1..Len(s)} = Stretches(B)
<1> DEFINE n == Len(s)
<1>1. \A j \in 1..n : s[j].from \in Int /\ s[j].to \in Int /\ s[j].from < s[j].to /\ s[j] \in Window
  BY Bounds DEF Apart
<1>2. \A t : t \in B <=> t \in Int /\ \E k \in 1..n : s[k].from <= t /\ t < s[k].to
  BY Bounds
<1>3. ASSUME NEW k \in 1..n PROVE s[k].from - 1 \notin B /\ s[k].to \notin B
  <2>1. ASSUME NEW l \in 1..n, NEW t \in Int, t = s[k].from - 1 \/ t = s[k].to,
               s[l].from <= t, t < s[l].to
        PROVE  FALSE
    <3>1. CASE l = k
      BY <1>1, <2>1, <3>1
    <3>2. CASE l < k
      <4>1. s[l].to < s[k].from
        BY <3>2 DEF Apart
      <4> QED BY <1>1, <2>1, <4>1
    <3>3. CASE k < l
      <4>1. s[k].to < s[l].from
        BY <3>3 DEF Apart
      <4> QED BY <1>1, <2>1, <4>1
    <3> QED BY <3>1, <3>2, <3>3
  <2>2. \A t \in Int : t = s[k].from - 1 \/ t = s[k].to => t \notin B
    BY <1>2, <2>1
  <2>3. s[k].from - 1 \in Int /\ s[k].to \in Int
    BY <1>1
  <2> QED BY <2>2, <2>3
<1>4. ASSUME NEW k \in 1..n PROVE s[k] \in Stretches(B)
  <2>1. \A t \in Int : s[k].from <= t /\ t < s[k].to => t \in B
    BY <1>2
  <2> QED BY <1>1, <1>3, <2>1, StretchOf
<1>5. ASSUME NEW i \in Stretches(B) PROVE \E k \in 1..n : i = s[k]
  <2>1. i \in Window /\ i.from < i.to /\ i.from - 1 \notin B /\ i.to \notin B
        /\ \A t \in Int : i.from <= t /\ t < i.to => t \in B
    BY StretchOf
  <2>2. i.from \in Int /\ i.to \in Int /\ i = [from |-> i.from, to |-> i.to]
    BY <2>1, WindowTyped DEF Window
  <2>3. PICK k \in 1..n : s[k].from <= i.from /\ i.from < s[k].to
    BY <1>2, <2>1, <2>2
  <2>4. s[k].from \in Int /\ s[k].to \in Int /\ s[k].from - 1 \notin B /\ s[k].to \notin B
    BY <1>1, <1>3
  <2>5. i.from = s[k].from
    <3>1. ~(s[k].from < i.from)
      BY <1>2, <2>1, <2>2, <2>3, <2>4
    <3> QED BY <2>2, <2>3, <2>4, <3>1
  <2>6. i.to = s[k].to
    <3>1. ~(i.to < s[k].to)
      BY <1>2, <2>1, <2>2, <2>4, <2>5
    <3>2. ~(s[k].to < i.to)
      BY <2>1, <2>2, <2>3, <2>4
    <3> QED BY <2>2, <2>4, <3>1, <3>2
  <2>7. s[k] = [from |-> s[k].from, to |-> s[k].to]
    BY <1>1 DEF Window
  <2> QED BY <2>2, <2>5, <2>6, <2>7
<1> QED BY <1>4, <1>5

(* The gaps between them that are not empty are the stretches of the rest. *)
LEMMA FreeStretches ==
  ASSUME NEW s \in Seq(Window), Apart(s), NEW B, \A t : t \in B <=> Covers(s, t), NEW i
  PROVE  i \in Stretches(Whole \ B) <=>
           \E k \in 0..Len(s) : i = GapAfter(s, k) /\ i.from < i.to
<1> DEFINE n == Len(s)
           W == Whole \ B
<1>1. n \in Nat
  BY Bounds
<1>2. \A t : t \in W <=> t \in Int /\ TimeMin <= t /\ t < TimeMax /\ ~Covers(s, t)
  BY WindowTyped
<1>3. TimeMin \in Int /\ TimeMax \in Int
  BY WindowTyped
<1> HIDE DEF W
<1>4. ASSUME NEW k \in 0..n, i = GapAfter(s, k), i.from < i.to PROVE i \in Stretches(W)
  <2>1. /\ i \in Window
        /\ \A t \in Int : i.from <= t /\ t < i.to => ~Covers(s, t)
        /\ k = 0 => i.from = TimeMin
        /\ k # 0 => Covers(s, i.from - 1)
        /\ k = n => i.to = TimeMax
        /\ k # n => Covers(s, i.to)
    BY <1>4, GapClear
  <2>2. i.from \in Int /\ i.to \in Int /\ TimeMin <= i.from /\ i.to <= TimeMax
    BY <1>3, <2>1 DEF Window
  <2>3. i.from - 1 \notin W
    BY <1>2, <1>3, <2>1, <2>2
  <2>4. i.to \notin W
    BY <1>2, <1>3, <2>1, <2>2
  <2>5. \A t \in Int : i.from <= t /\ t < i.to => t \in W
    BY <1>2, <1>3, <2>1, <2>2
  <2> QED BY <1>4, <2>1, <2>3, <2>4, <2>5, StretchOf
<1>5. ASSUME i \in Stretches(W) PROVE \E k \in 0..n : i = GapAfter(s, k) /\ i.from < i.to
  <2>1. i \in Window /\ i.from < i.to /\ i.from - 1 \notin W /\ i.to \notin W
        /\ \A t \in Int : i.from <= t /\ t < i.to => t \in W
    BY <1>5, StretchOf
  <2>2. i.from \in Int /\ i.to \in Int /\ i = Interval(i.from, i.to) /\ TimeMin <= i.from /\ i.to <= TimeMax
    BY <1>3, <2>1 DEF Window, Interval
  <2> DEFINE T == {l \in 1..(n + 1) : l = n + 1 \/ s[l].from >= i.to}
  <2>3. T \subseteq Nat /\ n + 1 \in T
    BY <1>1
  <2>4. PICK l \in T : \A m \in T : l <= m
    BY <2>3, LeastOf, Zenon
  <2> DEFINE k == l - 1
             g == GapAfter(s, k)
  <2>5. k \in 0..n /\ l \in 1..(n + 1) /\ l = k + 1 /\ (k = n \/ s[k + 1].from >= i.to)
    BY <1>1, <2>4
  <2>6. k # 0 => k \in 1..n /\ ~(s[k].from >= i.to)
    <3> SUFFICES ASSUME k # 0 PROVE k \in 1..n /\ ~(s[k].from >= i.to)
      OBVIOUS
    <3>1. k \in 1..n /\ k \in 1..(n + 1) /\ ~(l <= k)
      BY <1>1, <2>5
    <3>2. k \notin T
      BY <2>4, <3>1
    <3> QED BY <3>1, <3>2
  <2> HIDE DEF T, k
  <2>7. /\ g \in Window /\ g.from <= g.to /\ g = Interval(g.from, g.to)
        /\ \A t \in Int : g.from <= t /\ t < g.to => ~Covers(s, t)
        /\ k = 0 => g.from = TimeMin
        /\ k # 0 => g.from = s[k].to /\ Covers(s, g.from - 1)
        /\ k = n => g.to = TimeMax
        /\ k # n => g.to = s[k + 1].from /\ Covers(s, g.to)
    <3> HIDE DEF g
    <3> QED BY <2>5, GapClear DEF g
  <2> HIDE DEF g
  <2>8. g.from \in Int /\ g.to \in Int /\ TimeMin <= g.from /\ g.to <= TimeMax
    BY <1>3, <2>7 DEF Window
  <2>9. i.to <= g.to
    BY <2>2, <2>5, <2>7
  <2>10. g.from <= i.from
    <3>1. CASE k = 0
      BY <2>2, <2>7, <3>1
    <3>2. CASE k # 0
      <4>1. s[k].from \in Int /\ s[k].to \in Int /\ s[k].from < s[k].to /\ s[k].from < i.to
            /\ g.from = s[k].to
        BY <2>2, <2>6, <2>7, <3>2, Bounds DEF Apart
      <4>2. SUFFICES ASSUME i.from < s[k].to PROVE FALSE
        BY <2>2, <4>1
      <4>3. PICK t \in Int : i.from <= t /\ t < i.to /\ s[k].from <= t /\ t < s[k].to
        <5>1. CASE s[k].from <= i.from
          BY <2>1, <2>2, <4>1, <4>2, <5>1
        <5>2. CASE i.from < s[k].from
          BY <2>1, <2>2, <4>1, <4>2, <5>2
        <5> QED BY <2>2, <4>1, <5>1, <5>2
      <4>4. Covers(s, t) /\ t \in W
        BY <2>1, <2>6, <3>2, <4>3, Bounds
      <4> QED BY <1>2, <4>4
    <3> QED BY <3>1, <3>2
  <2>11. i.from = g.from
    <3>1. SUFFICES ASSUME g.from < i.from PROVE FALSE
      BY <2>2, <2>8, <2>10
    <3>2. i.from - 1 \in Int /\ g.from <= i.from - 1 /\ i.from - 1 < g.to
          /\ TimeMin <= i.from - 1 /\ i.from - 1 < TimeMax
      BY <1>3, <2>1, <2>2, <2>8, <2>9, <3>1
    <3> QED BY <1>2, <2>1, <2>7, <3>2
  <2>12. i.to = g.to
    <3>1. SUFFICES ASSUME i.to < g.to PROVE FALSE
      BY <2>2, <2>8, <2>9
    <3>2. i.to \in Int /\ g.from <= i.to /\ TimeMin <= i.to /\ i.to < TimeMax
      BY <1>3, <2>1, <2>2, <2>8, <2>10, <3>1
    <3> QED BY <1>2, <2>1, <2>7, <3>1, <3>2
  <2>13. i = g
    BY <2>2, <2>7, <2>11, <2>12
  <2> QED BY <2>1, <2>5, <2>13 DEF g
<1> QED BY <1>4, <1>5 DEF W

(* No two of them are the same.                                            *)
LEMMA AllDifferent ==
  ASSUME NEW s \in Seq(Window), Apart(s)
  PROVE  Len(s) = Cardinality({s[k] : k \in 1..Len(s)})
<1> DEFINE n == Len(s)
           R == {s[k] : k \in 1..n}
<1>1. n \in Nat /\ IsFiniteSet(1..n) /\ Cardinality(1..n) = n
  <2>1. n \in Nat
    BY Bounds
  <2>2. IsFiniteSet(1..n) /\ Cardinality(1..n) = IF 1 > n THEN 0 ELSE n - 1 + 1
    BY <2>1, FS_Interval
  <2> QED BY <2>1, <2>2
<1>2. ASSUME NEW k \in 1..n, NEW l \in 1..n, s[k] = s[l] PROVE k = l
  <2>1. ASSUME NEW a \in 1..n, NEW b \in 1..n, a < b, s[a] = s[b] PROVE FALSE
    <3>1. s[a].to < s[b].from /\ s[b].from < s[b].to /\ s[b].from \in Int /\ s[b].to \in Int
      BY <2>1, Bounds DEF Apart
    <3> QED BY <2>1, <3>1
  <2> QED BY <1>1, <1>2, <2>1
<1> DEFINE f == [k \in 1..n |-> s[k]]
<1>3. f \in Bijection(1..n, R)
  BY <1>2 DEF Bijection, Injection, Surjection, IsInjective
<1>4. ExistsBijection(1..n, R)
  BY <1>3 DEF ExistsBijection
<1> QED BY <1>1, <1>4, FS_Bijection

-----------------------------------------------------------------------------
(* The invariant of the search. *)

(* What was read without a fault is what there was. *)
ReadTruly ==
  /\ IsFiniteSet(calendar)
  /\ stage # "user" /\ "user" \notin lost => hours = quiet
  /\ stage \notin {"user", "events"} /\ "events" \notin lost => listed \in FirstOf(InWindow, ListLimit)
  /\ stage \in {"merge", "walk", "answered"} /\ "tasks" \notin lost => dueRead = DueInWindow

(* The merged intervals are apart, cover what was taken, and none starts   *)
(* after an interval that is left.                                         *)
MergedSound ==
  /\ Apart(merged)
  /\ \A t : Covers(merged, t) <=> \E i \in taken : t \in Points(i)
  /\ \A i \in BusySpans \ taken, k \in 1..Len(merged) : merged[k].from <= i.from

(* Nothing is taken before the merge, everything is after it.              *)
TakenInTime ==
  /\ stage \in {"merge", "walk", "answered"} => taken \subseteq BusySpans
  /\ stage \in {"walk", "answered"} => taken = BusySpans
  /\ stage \in Reads \cup {"failed"} => taken = {} /\ merged = <<>>

(* The pointer is between what was passed and what is ahead.               *)
PointerBetween ==
  /\ stage \notin {"walk", "answered"} => walked = 0 /\ pointer = TimeMin /\ free = <<>>
  /\ walked # 0 => merged[walked].to <= pointer
  /\ stage = "walk" => pointer <= GapEnd

(* checkAvailability has listed the long gaps it has passed.               *)
GapsListed ==
  ask.kind = "check" =>
    /\ stage = "walk" => pointer = GapAfter(merged, walked).from
    /\ stage \in {"walk", "answered"} =>
         \A g : g \in Offered <=>
           \E k \in 0..Len(merged) : /\ k < walked \/ stage = "answered"
                                     /\ g = GapAfter(merged, k) /\ LongEnough(g)

(* The slots offered so far have the right length, lie in free time before *)
(* the pointer, and do not overlap.                                        *)
SlotsClear ==
  ask.kind = "find" =>
    /\ \A s \in Offered : /\ s.to - s.from = ask.duration /\ s.to <= pointer
                          /\ \A t \in Points(s) : t \notin BusyPoints
    /\ \A r, s \in Offered : r # s => Points(r) \cap Points(s) = {}

Used(t) == t \in BusyPoints \/ \E s \in Offered : t \in Points(s)

(* While the list is not full, no place for a slot is left before the      *)
(* pointer, nor one that begins before it.                                 *)
NonePassed ==
  ask.kind = "find" /\ Len(free) < MaxSlots =>
    /\ stage = "walk" => pointer = TimeMin \/ Used(pointer - 1)
    /\ \A t \in TimeMin..(TimeMax - ask.duration) :
         stage = "answered" \/ (stage = "walk" /\ t + ask.duration <= pointer) =>
           \E p \in Points(Interval(t, t + ask.duration)) : Used(p)

SearchInv ==
  /\ SearchTypeOK /\ ReadTruly /\ MergedSound /\ TakenInTime /\ PointerBetween
  /\ GapsListed /\ SlotsClear /\ NonePassed

(* A step that reads nothingchanges nothing about what is busy. *)
LEMMA SameBusy ==
  ASSUME UNCHANGED <<world, readings>>
  PROVE  /\ BusySpans' = BusySpans /\ BusyPoints' = BusyPoints
         /\ ReadTruly /\ stage \in {"merge", "walk"} => ReadTruly'
<1>1. calendar' = calendar /\ tasks' = tasks /\ quiet' = quiet /\ ask' = ask
      /\ hours' = hours /\ listed' = listed /\ dueRead' = dueRead /\ lost' = lost
  BY DEF world, readings
<1>2. Occupied' = Occupied /\ Margin' = Margin /\ (\A d : QuietSpan(d)' = QuietSpan(d))
      /\ InWindow' = InWindow /\ DueInWindow' = DueInWindow
  BY <1>1 DEF Occupied, Margin, QuietSpan, InWindow, DueInWindow
<1>3. BusySpans' = BusySpans
  BY <1>1, <1>2 DEF BusySpans, BusyTimes
<1>4. BusyPoints' = BusyPoints
  BY <1>1, <1>2 DEF BusyPoints
<1>5. ReadTruly /\ stage \in {"merge", "walk"} => ReadTruly'
  BY <1>1, <1>2 DEF ReadTruly, Reads
<1> QED BY <1>3, <1>4, <1>5

(* Nothing is offered or covered at first.                                 *)
LEMMA NoneOffered ==
  ASSUME free = <<>>
  PROVE  Offered = {}
BY DEF Offered, ToSet

LEMMA Empty ==
  /\ <<>> \in Seq(Window) /\ Len(<<>>) = 0 /\ Apart(<<>>) /\ \A t : ~Covers(<<>>, t)
BY DEF Apart, Covers

(* While the call reads, nothing is merged and nothing is walked. *)
LEMMA NothingYet ==
  ASSUME taken = {}, merged = <<>>, walked = 0, pointer = TimeMin, free = <<>>,
         stage \in Reads \cup {"merge", "failed"}
  PROVE  MergedSound /\ TakenInTime /\ PointerBetween /\ GapsListed /\ SlotsClear /\ NonePassed
<1>1. MergedSound
  BY Empty DEF MergedSound
<1>2. TakenInTime /\ PointerBetween /\ GapsListed /\ NonePassed
  BY DEF TakenInTime, PointerBetween, GapsListed, NonePassed, Reads
<1>3. SlotsClear
  BY NoneOffered DEF SlotsClear
<1> QED BY <1>1, <1>2, <1>3

(* The invariant holds at first. *)
LEMMA SearchBegins ==
  ASSUME SearchInit
  PROVE  SearchInv
<1>1. SearchTypeOK
  <2>1. TimeMin \in TimeMin..TimeMax /\ 0 \in 0..Len(<<>>) /\ ListLimit \in Nat /\ MaxSlots \in Nat
    BY AvailabilityAssumption
  <2> QED BY <2>1, Empty, FS_EmptySet DEF SearchInit, SearchTypeOK, Reads
<1>2. ReadTruly
  BY DEF SearchInit, ReadTruly, Reads
<1>3. MergedSound /\ TakenInTime /\ PointerBetween /\ GapsListed /\ SlotsClear /\ NonePassed
  BY NothingYet DEF SearchInit, Reads
<1> QED BY <1>1, <1>2, <1>3 DEF SearchInv

(* The steps that read. *)
LEMMA FirstTyped ==
  ASSUME SearchTypeOK, IsFiniteSet(calendar), NEW first \in FirstOf(InWindow, ListLimit)
  PROVE  first \subseteq calendar /\ Cardinality(first) <= ListLimit
<1>1. InWindow \subseteq calendar /\ IsFiniteSet(InWindow) /\ Cardinality(InWindow) \in Nat
  <2>1. InWindow \subseteq calendar
    BY DEF InWindow
  <2> QED BY <2>1, FS_Subset, FS_CardinalityType
<1>2. ListLimit \in Nat
  BY AvailabilityAssumption
<1> QED BY <1>1, <1>2 DEF FirstOf

LEMMA ReadingKept ==
  ASSUME SearchInv, ReadUser \/ ListEvents \/ EventsUnread \/ ReadTasks
  PROVE  SearchInv'
<1>1. SearchTypeOK /\ ReadTruly /\ TakenInTime /\ PointerBetween
  BY DEF SearchInv
<1>2. stage \in Reads /\ stage' \in Reads \cup {"merge", "failed"}
      /\ UNCHANGED <<calendar, tasks, quiet, ask, taken, merged, walked, pointer, free>>
  BY DEF ReadUser, ListEvents, EventsUnread, ReadTasks, world, walk, Reads
<1>3. taken = {} /\ merged = <<>> /\ walked = 0 /\ pointer = TimeMin /\ free = <<>>
  BY <1>1, <1>2 DEF TakenInTime, PointerBetween, Reads
<1>4. MergedSound' /\ TakenInTime' /\ PointerBetween' /\ GapsListed' /\ SlotsClear' /\ NonePassed'
  <2>1. MergedSound'
    BY <1>2, <1>3, Empty DEF MergedSound
  <2>2. TakenInTime' /\ PointerBetween' /\ GapsListed' /\ NonePassed'
    BY <1>2, <1>3 DEF TakenInTime, PointerBetween, GapsListed, NonePassed, Reads
  <2>3. Offered' = {}
    BY <1>2, <1>3 DEF Offered, ToSet
  <2> QED BY <2>1, <2>2, <2>3 DEF SlotsClear
<1>5. InWindow' = InWindow /\ DueInWindow' = DueInWindow
  BY <1>2 DEF InWindow, DueInWindow
<1>6. SearchTypeOK' /\ ReadTruly'
  <2>1. CASE ReadUser
    <3>1. hours' \in QuietHours \cup {<<>>} /\ lost' \subseteq Reads
      BY <1>1, <2>1 DEF ReadUser, SearchTypeOK, Failed, Reads
    <3>2. UNCHANGED <<listed, dueRead>> /\ stage' = "events" /\ stage = "user"
      BY <2>1 DEF ReadUser
    <3>3. ReadTruly'
      BY <1>1, <1>2, <2>1, <3>2 DEF ReadUser, ReadTruly, Failed
    <3> QED BY <1>1, <1>2, <3>1, <3>2, <3>3 DEF SearchTypeOK, Reads
  <2>2. CASE ListEvents
    <3>1. listed' \subseteq calendar /\ Cardinality(listed') <= ListLimit
      BY <1>1, <2>2, FirstTyped DEF ListEvents, ReadTruly
    <3>2. UNCHANGED <<hours, dueRead, lost>> /\ stage' = "tasks" /\ stage = "events"
      BY <2>2 DEF ListEvents
    <3>3. ReadTruly'
      <4>1. listed' \in FirstOf(InWindow, ListLimit)'
        BY <1>5, <2>2 DEF ListEvents, FirstOf
      <4> QED BY <1>1, <1>2, <3>2, <4>1 DEF ReadTruly
    <3> QED BY <1>1, <1>2, <3>1, <3>2, <3>3 DEF SearchTypeOK, Reads
  <2>3. CASE EventsUnread
    <3>1. UNCHANGED <<hours, listed, dueRead>> /\ lost' = lost \cup {"events"} /\ stage = "events"
          /\ stage' \in {"tasks", "failed"}
      BY <2>3 DEF EventsUnread, Failed
    <3>2. ReadTruly'
      BY <1>1, <1>2, <3>1 DEF ReadTruly
    <3> QED BY <1>1, <1>2, <3>1, <3>2 DEF SearchTypeOK, Reads
  <2>4. CASE ReadTasks
    <3>1. dueRead' \subseteq tasks /\ lost' \subseteq Reads
      BY <1>1, <2>4 DEF ReadTasks, SearchTypeOK, Failed, Reads, DueInWindow
    <3>2. UNCHANGED <<hours, listed>> /\ stage = "tasks" /\ stage' = "merge"
          /\ ("tasks" \notin lost' => dueRead' = DueInWindow) /\ lost \subseteq lost'
      BY <2>4 DEF ReadTasks, Failed
    <3>3. ReadTruly'
      <4>1. FirstOf(InWindow, ListLimit)' = FirstOf(InWindow, ListLimit)
        BY <1>5 DEF FirstOf
      <4> QED BY <1>1, <1>2, <1>5, <3>2, <4>1 DEF ReadTruly
    <3> QED BY <1>1, <1>2, <3>1, <3>2, <3>3 DEF SearchTypeOK, Reads
  <2> QED BY <2>1, <2>2, <2>3, <2>4
<1> QED BY <1>4, <1>6 DEF SearchInv

(* The merge. *)
LEMMA MergeNextKept ==
  ASSUME SearchInv, MergeNext
  PROVE  SearchInv'
<1>1. SearchTypeOK /\ ReadTruly /\ MergedSound /\ TakenInTime /\ PointerBetween
      /\ GapsListed /\ SlotsClear /\ NonePassed
  BY DEF SearchInv
<1>2. stage = "merge" /\ UNCHANGED <<stage, walked, pointer, free, world, readings>>
      /\ UNCHANGED <<calendar, tasks, quiet, ask, hours, listed, dueRead, lost>>
  BY DEF MergeNext, walk, world, readings
<1>3. PICK i \in BusySpans \ taken :
        /\ \A j \in BusySpans \ taken : i.from <= j.from
        /\ taken' = taken \cup {i} /\ merged' = Join(merged, i)
  BY DEF MergeNext
<1>4. BusySpans' = BusySpans /\ BusyPoints' = BusyPoints /\ ReadTruly'
  BY <1>1, <1>2, SameBusy
<1>5. i \in Window /\ i.from < i.to
  BY <1>1, BusyCovered
<1>6. merged \in Seq(Window) /\ Apart(merged) /\ \A k \in 1..Len(merged) : merged[k].from <= i.from
  BY <1>1 DEF SearchTypeOK, MergedSound
<1>7. /\ merged' \in Seq(Window) /\ Apart(merged')
      /\ \A t : Covers(merged', t) <=> Covers(merged, t) \/ t \in Points(i)
      /\ \A k \in 1..Len(merged') : merged'[k].from <= i.from
  BY <1>3, <1>5, <1>6, JoinKeeps
<1>8. walked = 0 /\ pointer = TimeMin /\ free = <<>>
  BY <1>1, <1>2 DEF PointerBetween
<1>9. SearchTypeOK'
  <2>1. taken' \subseteq Window
    BY <1>1, <1>3, <1>5 DEF SearchTypeOK
  <2>2. walked' \in 0..Len(merged')
    BY <1>2, <1>7, <1>8
  <2> QED BY <1>1, <1>2, <1>7, <2>1, <2>2 DEF SearchTypeOK
<1>10. MergedSound'
  <2>1. \A t : Covers(merged', t) <=> \E j \in taken' : t \in Points(j)
    BY <1>1, <1>3, <1>7 DEF MergedSound
  <2>2. ASSUME NEW j \in BusySpans \ taken', NEW k \in 1..Len(merged') PROVE merged'[k].from <= j.from
    <3>1. i.from <= j.from /\ merged'[k].from <= i.from
      BY <1>3, <1>7, <2>2
    <3>2. j \in Window /\ j.from \in Int /\ i.from \in Int /\ merged'[k].from \in Int
      <4>1. j \in Window /\ merged'[k] \in Window
        BY <1>1, <1>7, <2>2, BusyCovered
      <4> QED BY <1>5, <4>1, WindowTyped DEF Window
    <3> QED BY <3>1, <3>2
  <2>3. Apart(merged)'
    BY <1>7 DEF Apart
  <2>4. \A t : Covers(merged, t)' <=> \E j \in taken' : t \in Points(j)
    BY <2>1 DEF Covers
  <2> QED BY <1>4, <2>2, <2>3, <2>4 DEF MergedSound
<1>11. TakenInTime' /\ PointerBetween' /\ GapsListed' /\ NonePassed'
  BY <1>1, <1>2, <1>3, <1>4, <1>8 DEF TakenInTime, PointerBetween, GapsListed, NonePassed, Reads
<1>12. SlotsClear'
  <2>1. Offered' = {}
    BY <1>2, <1>8 DEF Offered, ToSet
  <2> QED BY <2>1 DEF SlotsClear
<1> QED BY <1>4, <1>9, <1>10, <1>11, <1>12 DEF SearchInv

(* The walk begins before the first gap. *)
LEMMA AllMergedKept ==
  ASSUME SearchInv, AllMerged
  PROVE  SearchInv'
<1>1. SearchTypeOK /\ ReadTruly /\ MergedSound /\ TakenInTime /\ PointerBetween
      /\ GapsListed /\ SlotsClear /\ NonePassed
  BY DEF SearchInv
<1>2. stage = "merge" /\ stage' = "walk" /\ taken = BusySpans
      /\ UNCHANGED <<walked, pointer, free, world, readings, taken, merged>>
      /\ UNCHANGED <<calendar, tasks, quiet, ask, hours, listed, dueRead, lost>>
  BY DEF AllMerged, walk, world, readings
<1>3. BusySpans' = BusySpans /\ BusyPoints' = BusyPoints /\ ReadTruly'
  BY <1>1, <1>2, SameBusy
<1>4. walked = 0 /\ pointer = TimeMin /\ free = <<>> /\ Offered' = {}
  BY <1>1, <1>2 DEF PointerBetween, Offered, ToSet
<1>5. SearchTypeOK'
  BY <1>1, <1>2 DEF SearchTypeOK
<1>6. MergedSound'
  BY <1>1, <1>2, <1>3 DEF MergedSound, Apart, Covers
<1>7. TakenInTime'
  BY <1>2, <1>3 DEF TakenInTime, Reads
<1>8. merged \in Seq(Window) /\ Len(merged) \in Nat
  BY <1>1, Bounds DEF SearchTypeOK
<1>9. PointerBetween'
  <2>1. TimeMin <= GapEnd'
    <3>1. CASE Len(merged) = 0
      BY <1>2, <1>4, <3>1, WindowTyped DEF GapEnd, Ahead
    <3>2. CASE Len(merged) # 0
      <4>1. 1 \in 1..Len(merged) /\ 0 < Len(merged) /\ 0 + 1 = 1
        BY <1>8, <3>2
      <4>2. merged[1].from \in TimeMin..TimeMax
        BY <1>8, <4>1, Bounds
      <4>3. GapEnd' = merged[1].from
        BY <1>2, <1>4, <4>1 DEF GapEnd, Ahead
      <4> QED BY <4>2, <4>3
    <3> QED BY <3>1, <3>2
  <2> QED BY <1>2, <1>4, <2>1 DEF PointerBetween
<1>10. GapsListed'
  <2>1. (GapAfter(merged, walked).from)' = TimeMin
    BY <1>2, <1>4 DEF GapAfter, Interval
  <2>2. \A k \in 0..Len(merged) : ~(k < 0)
    OBVIOUS
  <2> QED BY <1>2, <1>4, <2>1, <2>2 DEF GapsListed
<1>11. SlotsClear'
  BY <1>4 DEF SlotsClear
<1>12. NonePassed'
  <2>1. ask.duration \in Nat \ {0} /\ TimeMin \in Nat /\ TimeMax \in Nat
    BY <1>1, OccupiedTyped, WindowTyped
  <2>2. \A t \in TimeMin..(TimeMax - ask.duration) : ~(t + ask.duration <= TimeMin)
    BY <2>1
  <2> QED BY <1>2, <1>4, <2>2 DEF NonePassed
<1> QED BY <1>3, <1>5, <1>6, <1>7, <1>9, <1>10, <1>11, <1>12 DEF SearchInv

(* Once everything is merged, what the merged intervals cover is busy.     *)
LEMMA CoveredBusy ==
  ASSUME SearchInv, stage \in {"walk", "answered"}
  PROVE  merged \in Seq(Window) /\ Apart(merged) /\ \A t : t \in BusyPoints <=> Covers(merged, t)
<1>1. SearchTypeOK /\ MergedSound /\ taken = BusySpans
  BY DEF SearchInv, TakenInTime
<1> QED BY <1>1, BusyCovered DEF SearchTypeOK, MergedSound

(* Where the walk is: in the gap after what was passed, none of which is   *)
(* busy.                                                                   *)
LEMMA Walking ==
  ASSUME SearchInv, stage = "walk"
  PROVE  /\ walked \in 0..Len(merged) /\ Len(merged) \in Nat /\ (Ahead <=> walked # Len(merged))
         /\ pointer \in TimeMin..TimeMax /\ GapEnd \in TimeMin..TimeMax /\ pointer <= GapEnd
         /\ GapEnd = GapAfter(merged, walked).to
         /\ ~Ahead => GapEnd = TimeMax
         /\ \A t \in Int : pointer <= t /\ t < GapEnd => t \notin BusyPoints
<1>1. SearchTypeOK /\ PointerBetween
  BY DEF SearchInv
<1>2. merged \in Seq(Window) /\ Apart(merged) /\ \A t : t \in BusyPoints <=> Covers(merged, t)
  BY CoveredBusy
<1>3. walked \in 0..Len(merged) /\ Len(merged) \in Nat /\ pointer \in TimeMin..TimeMax /\ pointer <= GapEnd
  BY <1>1, <1>2, Bounds DEF SearchTypeOK, PointerBetween
<1>4. Ahead <=> walked # Len(merged)
  BY <1>3 DEF Ahead
<1> DEFINE g == GapAfter(merged, walked)
<1>5. /\ g \in Window /\ g.from <= g.to
      /\ \A t \in Int : g.from <= t /\ t < g.to => ~Covers(merged, t)
      /\ walked = 0 => g.from = TimeMin
      /\ walked # 0 => g.from = merged[walked].to
      /\ walked = Len(merged) => g.to = TimeMax
      /\ walked # Len(merged) => g.to = merged[walked + 1].from
  <2> HIDE DEF g
  <2> QED BY <1>2, <1>3, GapClear DEF g
<1> HIDE DEF g
<1>6. GapEnd = g.to
  BY <1>4, <1>5 DEF GapEnd
<1>7. g.from <= pointer
  BY <1>1, <1>3, <1>5, WindowTyped DEF PointerBetween
<1>8. g.from \in Int /\ g.to \in TimeMin..TimeMax /\ pointer \in Int
  BY <1>3, <1>5, WindowTyped DEF Window
<1>9. \A t \in Int : pointer <= t /\ t < GapEnd => t \notin BusyPoints
  BY <1>2, <1>5, <1>6, <1>7, <1>8
<1>10. ~Ahead => GapEnd = TimeMax
  BY DEF GapEnd
<1> QED BY <1>3, <1>4, <1>6, <1>8, <1>9, <1>10 DEF g

(* The walk passes the next busy interval. *)
LEMMA BusyPassed ==
  ASSUME SearchInv, stage = "walk", Ahead, PassBusy
  PROVE  /\ walked' = walked + 1 /\ walked' \in 1..Len(merged) /\ walked' \in 0..Len(merged)
         /\ pointer' \in TimeMin..TimeMax /\ pointer < pointer' /\ GapEnd < pointer'
         /\ pointer' = merged[walked'].to
         /\ pointer' = GapAfter(merged, walked').from /\ pointer' <= GapAfter(merged, walked').to
         /\ \A t \in Int : GapEnd <= t /\ t < pointer' => t \in BusyPoints
<1>1. merged \in Seq(Window) /\ Apart(merged) /\ \A t : t \in BusyPoints <=> Covers(merged, t)
  BY CoveredBusy
<1>2. walked \in 0..Len(merged) /\ Len(merged) \in Nat /\ walked # Len(merged)
      /\ pointer \in TimeMin..TimeMax /\ pointer <= GapEnd
  BY Walking
<1> DEFINE n == walked + 1
           b == merged[n]
<1>3. n \in 1..Len(merged) /\ n \in 0..Len(merged) /\ n # 0
  BY <1>2
<1>4. b.from < b.to /\ b.from \in Int /\ b.to \in TimeMin..TimeMax /\ b.to \in Int
  <2>1. b.from < b.to
    BY <1>1, <1>3 DEF Apart
  <2>2. b.from \in TimeMin..TimeMax /\ b.to \in TimeMin..TimeMax
    BY <1>1, <1>3, Bounds
  <2> QED BY <2>1, <2>2
<1>5. GapEnd = b.from /\ walked' = n /\ pointer' = Greatest(pointer, b.to)
  BY DEF GapEnd, PassBusy
<1>6. pointer' = b.to /\ pointer < pointer' /\ GapEnd < pointer'
  <2> HIDE DEF b, n
  <2>1. pointer \in Int
    BY <1>2
  <2> QED BY <1>2, <1>4, <1>5, <2>1 DEF Greatest
<1>7. \A t \in Int : GapEnd <= t /\ t < pointer' => t \in BusyPoints
  BY <1>1, <1>3, <1>5, <1>6, Bounds
<1>8. GapAfter(merged, n).from = b.to /\ GapAfter(merged, n).from <= GapAfter(merged, n).to
  BY <1>1, <1>3, GapClear
<1> QED BY <1>3, <1>4, <1>5, <1>6, <1>7, <1>8

(* Appending adds one element.                                             *)
LEMMA OneMoreOffered ==
  ASSUME NEW s \in Seq(Window), NEW x \in Window
  PROVE  /\ Append(s, x) \in Seq(Window) /\ Len(Append(s, x)) = Len(s) + 1 /\ Len(s) \in Nat
         /\ ToSet(Append(s, x)) = ToSet(s) \cup {x}
<1>1. Append(s, x) \in Seq(Window) /\ Len(Append(s, x)) = Len(s) + 1 /\ Len(s) \in Nat
  OBVIOUS
<1>2. \A k \in 1..Len(s) : Append(s, x)[k] = s[k] /\ k \in 1..(Len(s) + 1)
  BY <1>1
<1>3. Append(s, x)[Len(s) + 1] = x /\ Len(s) + 1 \in 1..(Len(s) + 1)
  BY <1>1
<1>4. \A k \in 1..(Len(s) + 1) : k \in 1..Len(s) \/ k = Len(s) + 1
  BY <1>1
<1>5. DOMAIN s = 1..Len(s) /\ DOMAIN Append(s, x) = 1..(Len(s) + 1)
  BY <1>1
<1> HIDE <1>1
<1>6. ToSet(s) = {s[k] : k \in 1..Len(s)} /\ ToSet(Append(s, x)) = {Append(s, x)[k] : k \in 1..(Len(s) + 1)}
  BY <1>5 DEF ToSet
<1> DEFINE a == Append(s, x)
<1> HIDE DEF a
<1>7. {a[k] : k \in 1..(Len(s) + 1)} = {s[k] : k \in 1..Len(s)} \cup {x}
  BY <1>2, <1>3, <1>4 DEF a
<1> QED BY <1>1, <1>6, <1>7 DEF a

(* What a step of the walk leaves alone. *)
LEMMA WalkFrame ==
  ASSUME SearchInv, stage = "walk", UNCHANGED <<world, readings, taken, merged>>,
         stage' \in {"walk", "answered"}
  PROVE  /\ UNCHANGED <<calendar, tasks, quiet, ask, hours, listed, dueRead, lost>>
         /\ BusyPoints' = BusyPoints /\ ReadTruly' /\ MergedSound' /\ TakenInTime'
         /\ free' \in Seq(Window) /\ walked' \in 0..Len(merged) /\ pointer' \in TimeMin..TimeMax
            /\ (ask.kind = "find" => Len(free') <= MaxSlots) => SearchTypeOK'
<1>1. UNCHANGED <<calendar, tasks, quiet, ask, hours, listed, dueRead, lost>>
  BY DEF world, readings
<1>2. SearchTypeOK /\ ReadTruly /\ MergedSound /\ TakenInTime
  BY DEF SearchInv
<1>3. BusySpans' = BusySpans /\ BusyPoints' = BusyPoints /\ ReadTruly'
  BY <1>2, SameBusy
<1>4. MergedSound' /\ TakenInTime'
  BY <1>2, <1>3 DEF MergedSound, TakenInTime, Apart, Covers, Reads
<1>5. free' \in Seq(Window) /\ walked' \in 0..Len(merged) /\ pointer' \in TimeMin..TimeMax
      /\ (ask.kind = "find" => Len(free') <= MaxSlots) => SearchTypeOK'
  BY <1>1, <1>2 DEF SearchTypeOK
<1> QED BY <1>1, <1>3, <1>4, <1>5

(* The pointer after a busy interval was passed, or at the end. *)
LEMMA PointerKept ==
  ASSUME SearchInv, stage = "walk", UNCHANGED <<merged>>,
         \/ Ahead /\ PassBusy /\ stage' \in {"walk", "answered"}
         \/ stage' = "answered" /\ UNCHANGED <<walked, pointer>>
  PROVE  PointerBetween' /\ walked' \in 0..Len(merged) /\ pointer' \in TimeMin..TimeMax
<1>1. PointerBetween
  BY DEF SearchInv
<1>2. CASE Ahead /\ PassBusy /\ stage' \in {"walk", "answered"}
  <2>1. /\ walked' \in 0..Len(merged)
        /\ pointer' \in TimeMin..TimeMax /\ pointer' = merged[walked'].to
        /\ pointer' <= GapAfter(merged, walked').to
    BY <1>2, BusyPassed
  <2>2. merged \in Seq(Window) /\ Apart(merged) /\ Len(merged) \in Nat
    BY CoveredBusy, Bounds
  <2>3. GapAfter(merged, walked').to = GapEnd'
    BY <2>1, <2>2 DEF GapAfter, Interval, GapEnd, Ahead
  <2>4. pointer' \in Int /\ merged[walked'].to <= pointer'
    BY <2>1
  <2> QED BY <1>2, <2>1, <2>3, <2>4 DEF PointerBetween
<1>3. CASE stage' = "answered" /\ UNCHANGED <<walked, pointer>>
  BY <1>1, <1>3, Walking DEF PointerBetween
<1> QED BY <1>2, <1>3

(* The steps of the walk. *)
LEMMA CheckGapKept ==
  ASSUME SearchInv, CheckGap
  PROVE  SearchInv'
<1> DEFINE gap == Interval(pointer, GapEnd)
<1>1. /\ stage = "walk" /\ ask.kind = "check" /\ UNCHANGED <<world, readings, taken, merged>>
      /\ free' = (IF LongEnough(gap) THEN Append(free, gap) ELSE free)
      /\ IF Ahead THEN PassBusy /\ stage' = stage ELSE stage' = "answered" /\ UNCHANGED <<walked, pointer>>
  BY DEF CheckGap
<1>2. stage' \in {"walk", "answered"}
  BY <1>1
<1>3. UNCHANGED ask /\ ReadTruly' /\ MergedSound' /\ TakenInTime'
  BY <1>1, <1>2, WalkFrame
<1>4. PointerBetween' /\ walked' \in 0..Len(merged) /\ pointer' \in TimeMin..TimeMax
  BY <1>1, PointerKept
<1>5. free \in Seq(Window) /\ GapsListed /\ pointer = GapAfter(merged, walked).from
  BY <1>1 DEF SearchInv, SearchTypeOK, GapsListed
<1>6. walked \in 0..Len(merged) /\ Len(merged) \in Nat /\ pointer \in TimeMin..TimeMax /\ GapEnd \in TimeMin..TimeMax
      /\ GapEnd = GapAfter(merged, walked).to /\ (Ahead <=> walked # Len(merged))
  BY <1>1, Walking
<1>7. gap \in Window /\ gap = GapAfter(merged, walked)
  <2>1. gap \in Window
    BY <1>6 DEF Window, Interval
  <2>2. merged \in Seq(Window) /\ Apart(merged)
    BY <1>1, CoveredBusy
  <2>3. GapAfter(merged, walked) = Interval(GapAfter(merged, walked).from, GapAfter(merged, walked).to)
    BY <1>6, <2>2, GapClear
  <2> QED BY <1>5, <1>6, <2>1, <2>3
<1> HIDE DEF gap
<1>8. free' \in Seq(Window) /\ \A g : g \in Offered' <=> g \in Offered \/ (g = gap /\ LongEnough(gap))
  BY <1>1, <1>5, <1>7, OneMoreOffered DEF Offered
<1>9. SearchTypeOK'
  BY <1>1, <1>2, <1>4, <1>8, WalkFrame
<1>10. \A g : g \in Offered <=> \E k \in 0..Len(merged) : k < walked /\ g = GapAfter(merged, k) /\ LongEnough(g)
  BY <1>1, <1>5 DEF GapsListed
<1>11. \A g : g \in Offered' <=> \E k \in 0..Len(merged) : k <= walked /\ g = GapAfter(merged, k) /\ LongEnough(g)
  <2>1. \A k \in 0..Len(merged) : k <= walked <=> k < walked \/ k = walked
    BY <1>6
  <2> QED BY <1>6, <1>7, <1>8, <1>10, <2>1
<1>12. \A k \in 0..Len(merged) : (k < walked' \/ stage' = "answered") <=> k <= walked
  <2>1. CASE Ahead
    BY <1>1, <1>6, <2>1 DEF PassBusy
  <2>2. CASE ~Ahead
    BY <1>1, <1>6, <2>2
  <2> QED BY <2>1, <2>2
<1>13. GapsListed'
  <2>1. \A g : LongEnough(g)' <=> LongEnough(g)
    BY <1>3 DEF LongEnough
  <2>2. \A g : g \in Offered' <=> \E k \in 0..Len(merged) : /\ k < walked' \/ stage' = "answered"
                                                       /\ g = GapAfter(merged, k) /\ LongEnough(g)
    BY <1>11, <1>12
  <2>3. stage' = "walk" => pointer' = GapAfter(merged, walked').from
    BY <1>1, BusyPassed
  <2>4. \A g : g \in Offered' <=> \E k \in 0..Len(merged) : /\ k < walked' \/ stage' = "answered"
                                                       /\ g = GapAfter(merged, k)' /\ LongEnough(g)'
    BY <1>1, <2>1, <2>2 DEF GapAfter
  <2>5. GapAfter(merged', walked').from = GapAfter(merged, walked').from
    BY <1>1
  <2> QED BY <1>1, <2>3, <2>4, <2>5 DEF GapsListed
<1>14. SlotsClear' /\ NonePassed'
  BY <1>1, <1>3 DEF SlotsClear, NonePassed
<1> QED BY <1>3, <1>4, <1>9, <1>13, <1>14 DEF SearchInv

LEMMA OfferSlotKept ==
  ASSUME SearchInv, OfferSlot
  PROVE  SearchInv'
<1> DEFINE d == ask.duration
           x == Interval(pointer, pointer + d)
<1>1. /\ stage = "walk" /\ stage' = "walk" /\ ask.kind = "find"
      /\ UNCHANGED <<world, readings, taken, merged, walked>>
      /\ pointer + d <= GapEnd /\ Len(free) < MaxSlots
      /\ free' = Append(free, x) /\ pointer' = pointer + d
  BY DEF OfferSlot, Room
<1>2. UNCHANGED ask /\ BusyPoints' = BusyPoints /\ ReadTruly' /\ MergedSound' /\ TakenInTime'
  BY <1>1, WalkFrame
<1>3. walked \in 0..Len(merged) /\ pointer \in TimeMin..TimeMax /\ GapEnd \in TimeMin..TimeMax
      /\ \A t \in Int : pointer <= t /\ t < GapEnd => t \notin BusyPoints
  BY <1>1, Walking
<1>4. d \in Nat \ {0} /\ free \in Seq(Window) /\ MaxSlots \in Nat /\ TimeMin \in Nat /\ TimeMax \in Nat
  BY AvailabilityAssumption, OccupiedTyped DEF SearchInv, SearchTypeOK
<1> HIDE DEF d
<1>5. pointer \in Int /\ pointer' \in TimeMin..TimeMax /\ pointer < pointer' /\ pointer' <= GapEnd
  BY <1>1, <1>3, <1>4
<1>6. x \in Window /\ x.from = pointer /\ x.to = pointer' /\ x.to - x.from = d
  BY <1>1, <1>3, <1>4, <1>5 DEF Window, Interval
<1>7. \A t : t \in Points(x) <=> t \in Int /\ pointer <= t /\ t < pointer'
  <2>1. x \in TimeSpan
    BY <1>6, WindowTyped
  <2> HIDE DEF x
  <2> QED BY <1>6, <2>1, PointsOf
<1> HIDE DEF x
<1>8. free' \in Seq(Window) /\ Offered' = Offered \cup {x} /\ Len(free') <= MaxSlots /\ Len(free) < Len(free')
  BY <1>1, <1>4, <1>6, OneMoreOffered DEF Offered
<1>9. SearchTypeOK'
  BY <1>1, <1>3, <1>5, <1>8, WalkFrame
<1>10. PointerBetween'
  <2>1. GapEnd' = GapEnd
    BY <1>1 DEF GapEnd, Ahead
  <2>2. walked # 0 => merged[walked].to <= pointer'
    <3> SUFFICES ASSUME walked # 0 PROVE merged[walked].to <= pointer'
      OBVIOUS
    <3>1. merged[walked].to <= pointer /\ merged \in Seq(Window) /\ walked \in 1..Len(merged)
      BY <1>3 DEF SearchInv, PointerBetween, SearchTypeOK
    <3>2. merged[walked].to \in Int
      BY <3>1, Bounds
    <3> QED BY <1>5, <3>1, <3>2
  <2> QED BY <1>1, <1>5, <2>1, <2>2 DEF PointerBetween
<1>11. GapsListed'
  BY <1>1, <1>2 DEF GapsListed
<1>12. SlotsClear /\ NonePassed
  BY DEF SearchInv
<1>13. \A s \in Offered : s \in Window /\ s.to \in Int /\ s.to <= pointer /\ s.to - s.from = d
                          /\ (\A t \in Points(s) : t \notin BusyPoints /\ t \in Int /\ t < pointer)
  <2> SUFFICES ASSUME NEW s \in Offered
               PROVE  s \in Window /\ s.to \in Int /\ s.to <= pointer /\ s.to - s.from = d
                      /\ (\A t \in Points(s) : t \notin BusyPoints /\ t \in Int /\ t < pointer)
    OBVIOUS
  <2>1. s \in Window
    BY <1>4 DEF Offered, ToSet
  <2>2. s.to \in Int /\ s \in TimeSpan
    BY <2>1, WindowTyped DEF Window
  <2>3. s.to <= pointer /\ s.to - s.from = d /\ \A t \in Points(s) : t \notin BusyPoints
    BY <1>1, <1>12 DEF SlotsClear, d
  <2>4. \A t \in Points(s) : t \in Int /\ t < s.to
    BY <2>2, PointsOf
  <2>5. \A t \in Points(s) : t < pointer
    BY <1>5, <2>2, <2>3, <2>4
  <2> QED BY <2>1, <2>2, <2>3, <2>4, <2>5
<1>14. SlotsClear'
  <2>1. \A s \in Offered' : /\ s.to - s.from = d /\ s.to <= pointer'
                            /\ \A t \in Points(s) : t \notin BusyPoints
    <3> SUFFICES ASSUME NEW s \in Offered'
                 PROVE  /\ s.to - s.from = d /\ s.to <= pointer'
                        /\ \A t \in Points(s) : t \notin BusyPoints
      OBVIOUS
    <3>1. CASE s = x
      <4>1. s.to <= pointer'
        BY <1>5, <1>6, <3>1
      <4>2. \A t \in Points(x) : t \notin BusyPoints
        BY <1>3, <1>5, <1>7
      <4> QED BY <1>6, <3>1, <4>1, <4>2
    <3>2. CASE s \in Offered
      BY <1>5, <1>13, <3>2
    <3> QED BY <1>8, <3>1, <3>2
  <2>2. ASSUME NEW s \in Offered PROVE Points(s) \cap Points(x) = {}
    BY <1>5, <1>7, <1>13
  <2>3. \A r, s \in Offered' : r # s => Points(r) \cap Points(s) = {}
    BY <1>1, <1>8, <1>12, <2>2 DEF SlotsClear
  <2> QED BY <1>2, <2>1, <2>3 DEF SlotsClear, d
<1>15. NonePassed'
  <2>1. \A p : Used(p)' <=> Used(p) \/ p \in Points(x)
    BY <1>2, <1>8 DEF Used
  <2>2. Used(pointer - 1)'
    <3>1. pointer' - 1 \in Points(x)
      BY <1>5, <1>7
    <3>2. \E s \in Offered' : pointer' - 1 \in Points(s)
      BY <1>8, <3>1
    <3> QED BY <3>2 DEF Used
  <2>3. ASSUME NEW t \in TimeMin..(TimeMax - d), t + d <= pointer'
        PROVE  \E p \in Points(Interval(t, t + d)) : Used(p)'
    <3>1. t \in Int /\ Interval(t, t + d) \in TimeSpan
      BY <1>4 DEF Interval, TimeSpan
    <3>2. \A p : p \in Points(Interval(t, t + d)) <=> p \in Int /\ t <= p /\ p < t + d
      BY <3>1, PointsOf DEF Interval
    <3>3. CASE t + d <= pointer
      BY <1>1, <1>12, <2>1, <2>3, <3>3 DEF NonePassed, d
    <3>4. CASE ~(t + d <= pointer)
      <4>1. t + d - 1 \in Points(x)
        BY <1>4, <1>5, <1>7, <2>3, <3>1, <3>4
      <4>2. t + d - 1 \in Points(Interval(t, t + d))
        BY <1>4, <3>1, <3>2
      <4> QED BY <2>1, <4>1, <4>2
    <3> QED BY <3>3, <3>4
  <2> QED BY <1>1, <1>2, <2>2, <2>3 DEF NonePassed, d
<1> QED BY <1>2, <1>9, <1>10, <1>11, <1>14, <1>15 DEF SearchInv

LEMMA LeaveGapKept ==
  ASSUME SearchInv, LeaveGap
  PROVE  SearchInv'
<1> DEFINE d == ask.duration
<1>1. /\ stage = "walk" /\ ask.kind = "find" /\ ~Room
      /\ UNCHANGED <<world, readings, taken, merged, free>>
      /\ stage' \in {"walk", "answered"}
      /\ IF Ahead THEN PassBusy /\ (stage' = "answered" => Len(free) >= MaxSlots)
         ELSE stage' = "answered" /\ UNCHANGED <<walked, pointer>>
  BY DEF LeaveGap
<1>2. UNCHANGED ask /\ BusyPoints' = BusyPoints /\ ReadTruly' /\ MergedSound' /\ TakenInTime'
  BY <1>1, WalkFrame
<1>3. walked \in 0..Len(merged) /\ pointer \in TimeMin..TimeMax /\ GapEnd \in TimeMin..TimeMax
      /\ pointer <= GapEnd /\ (~Ahead => GapEnd = TimeMax)
  BY <1>1, Walking
<1>4. d \in Nat \ {0} /\ free \in Seq(Window) /\ MaxSlots \in Nat /\ TimeMin \in Nat /\ TimeMax \in Nat
      /\ Len(free) \in Nat /\ Len(free) <= MaxSlots
  BY <1>1, AvailabilityAssumption, OccupiedTyped, Bounds DEF SearchInv, SearchTypeOK
<1> HIDE DEF d
<1>5. PointerBetween' /\ walked' \in 0..Len(merged) /\ pointer' \in TimeMin..TimeMax
  BY <1>1, PointerKept
<1>6. SearchTypeOK'
  BY <1>1, <1>4, <1>5, WalkFrame
<1>7. GapsListed'
  BY <1>1, <1>2 DEF GapsListed
<1>8. pointer \in Int /\ pointer' \in Int /\ pointer <= pointer' /\ Offered' = Offered
  <2>1. CASE Ahead
    BY <1>1, <1>3, <1>5, <2>1, BusyPassed DEF Offered
  <2>2. CASE ~Ahead
    BY <1>1, <1>3, <2>2 DEF Offered
  <2> QED BY <2>1, <2>2
<1>9. SlotsClear /\ NonePassed
  BY DEF SearchInv
<1>10. SlotsClear'
  <2>1. ASSUME NEW s \in Offered PROVE s.to <= pointer'
    <3>1. s \in Window /\ s.to <= pointer
      BY <1>1, <1>4, <1>9 DEF SlotsClear, Offered, ToSet
    <3>2. s.to \in Int
      BY <3>1, WindowTyped DEF Window
    <3> QED BY <1>8, <3>1, <3>2
  <2> QED BY <1>1, <1>2, <1>8, <1>9, <2>1 DEF SlotsClear
<1>11. NonePassed'
  <2>1. \A p : Used(p)' <=> Used(p)
    BY <1>2, <1>8 DEF Used
  <2> SUFFICES ASSUME Len(free) < MaxSlots PROVE NonePassed'
    BY <1>1 DEF NonePassed
  <2>2. pointer + d > GapEnd
    <3>1. ~(pointer + d <= GapEnd)
      BY <1>1 DEF Room, d
    <3> QED BY <1>3, <1>4, <3>1
  <2>3. pointer = TimeMin \/ Used(pointer - 1)
    BY <1>1, <1>9 DEF NonePassed
  <2>4. \A t \in TimeMin..(TimeMax - d) :
           t + d <= pointer => \E p \in Points(Interval(t, t + d)) : Used(p)
    BY <1>1, <1>9 DEF NonePassed, d
  <2>5. ASSUME NEW t \in TimeMin..(TimeMax - d), t + d <= GapEnd
        PROVE  \E p \in Points(Interval(t, t + d)) : Used(p)
    <3>1. t \in Int /\ Interval(t, t + d) \in TimeSpan
      BY <1>4 DEF Interval, TimeSpan
    <3>2. \A p : p \in Points(Interval(t, t + d)) <=> p \in Int /\ t <= p /\ p < t + d
      BY <3>1, PointsOf DEF Interval
    <3>3. CASE t + d <= pointer
      BY <2>4, <3>3
    <3>4. CASE ~(t + d <= pointer)
      <4>1. t < pointer /\ t <= pointer - 1 /\ pointer - 1 < t + d /\ pointer # TimeMin /\ pointer - 1 \in Int
        BY <1>3, <1>4, <1>8, <2>2, <2>5, <3>1, <3>4
      <4> QED BY <2>3, <3>2, <4>1
    <3> QED BY <3>3, <3>4
  <2>6. CASE Ahead
    <3>1. /\ GapEnd < pointer' /\ \A t \in Int : GapEnd <= t /\ t < pointer' => t \in BusyPoints
      BY <1>1, <2>6, BusyPassed
    <3>2. Used(pointer' - 1)
      <4>1. pointer' - 1 \in BusyPoints
        BY <1>3, <1>8, <3>1
      <4> QED BY <4>1 DEF Used
    <3>3. stage' = "walk"
      BY <1>1, <1>4, <2>6
    <3>4. ASSUME NEW t \in TimeMin..(TimeMax - d), t + d <= pointer'
          PROVE  \E p \in Points(Interval(t, t + d)) : Used(p)
      <4>1. CASE t + d <= GapEnd
        BY <2>5, <4>1
      <4>2. CASE ~(t + d <= GapEnd)
        <5>1. t \in Int /\ Interval(t, t + d) \in TimeSpan
          BY <1>4 DEF Interval, TimeSpan
        <5>2. \A p : p \in Points(Interval(t, t + d)) <=> p \in Int /\ t <= p /\ p < t + d
          BY <5>1, PointsOf DEF Interval
        <5>3. t + d - 1 \in Int /\ t <= t + d - 1 /\ t + d - 1 < t + d
              /\ GapEnd <= t + d - 1 /\ t + d - 1 < pointer'
          BY <1>3, <1>4, <1>8, <3>4, <4>2, <5>1
        <5>4. Used(t + d - 1)
          BY <3>1, <5>3 DEF Used
        <5> QED BY <5>2, <5>3, <5>4
      <4> QED BY <4>1, <4>2
    <3>5. \E p : p = pointer' - 1 /\ Used(p)'
      BY <2>1, <3>2
    <3>6. Used(pointer - 1)'
      BY <3>5 DEF Used
    <3> QED BY <1>1, <1>2, <2>1, <3>3, <3>4, <3>6 DEF NonePassed, d
  <2>7. CASE ~Ahead
    <3>1. \A t \in TimeMin..(TimeMax - d) : t + d <= GapEnd
      BY <1>3, <1>4, <2>7
    <3>2. stage' = "answered"
      BY <1>1, <2>7
    <3> QED BY <1>1, <1>2, <2>1, <2>5, <3>1, <3>2 DEF NonePassed, d
  <2> QED BY <2>6, <2>7
<1> QED BY <1>2, <1>5, <1>6, <1>7, <1>10, <1>11 DEF SearchInv

(* No step breaks the invariant. *)
LEMMA SearchStepKept ==
  ASSUME SearchInv, [SearchNext]_searchVars
  PROVE  SearchInv'
<1>1. CASE SearchNext
  BY <1>1, ReadingKept, MergeNextKept, AllMergedKept, CheckGapKept, OfferSlotKept, LeaveGapKept DEF SearchNext
<1>2. CASE UNCHANGED searchVars
  <2>1. UNCHANGED <<calendar, tasks, quiet, ask, stage, hours, listed, dueRead, lost, taken, merged, walked, pointer, free>>
    BY <1>2 DEF searchVars, world, readings, walk
  <2>2. UNCHANGED <<world, readings>>
    BY <2>1 DEF world, readings
  <2>3. BusySpans' = BusySpans /\ BusyPoints' = BusyPoints
    BY <2>2, SameBusy
  <2>4. Offered' = Offered /\ GapEnd' = GapEnd /\ InWindow' = InWindow /\ DueInWindow' = DueInWindow
        /\ \A t : Used(t)' <=> Used(t)
    BY <2>1, <2>3 DEF Offered, GapEnd, Ahead, InWindow, DueInWindow, Used
  <2>5. SearchTypeOK' /\ MergedSound' /\ TakenInTime' /\ PointerBetween'
    BY <2>1, <2>3, <2>4 DEF SearchInv, SearchTypeOK, MergedSound, TakenInTime, PointerBetween, Apart, Covers
  <2>6. GapsListed' /\ SlotsClear'
    BY <2>1, <2>3, <2>4 DEF SearchInv, GapsListed, SlotsClear, GapAfter, LongEnough
  <2>7. NonePassed'
    BY <2>1, <2>4 DEF SearchInv, NonePassed, Used
  <2>8. ReadTruly'
    BY <2>1, <2>4 DEF SearchInv, ReadTruly, FirstOf
  <2> QED BY <2>5, <2>6, <2>7, <2>8 DEF SearchInv
<1> QED BY <1>1, <1>2

(* What the invariant says of the answers. *)
LEMMA CheckExact ==
  ASSUME SearchInv
  PROVE  StretchesExact
<1> SUFFICES ASSUME stage = "answered", ask.kind = "check"
             PROVE  /\ ToSet(merged) = Stretches(BusyPoints) /\ Len(merged) = Cardinality(ToSet(merged))
                    /\ Offered = {i \in Stretches(Whole \ BusyPoints) : LongEnough(i)}
  BY DEF StretchesExact
<1>1. merged \in Seq(Window) /\ Apart(merged) /\ \A t : t \in BusyPoints <=> Covers(merged, t)
  BY CoveredBusy
<1>2. ToSet(merged) = {merged[k] : k \in 1..Len(merged)}
  BY <1>1 DEF ToSet
<1>3. ToSet(merged) = Stretches(BusyPoints)
  BY <1>1, <1>2, BusyStretches
<1>4. Len(merged) = Cardinality(ToSet(merged))
  BY <1>1, <1>2, AllDifferent
<1>5. \A g : g \in Offered <=> \E k \in 0..Len(merged) : g = GapAfter(merged, k) /\ LongEnough(g)
  BY DEF SearchInv, GapsListed
<1>6. ASSUME NEW k \in 0..Len(merged), NEW g, g = GapAfter(merged, k), LongEnough(g)
      PROVE  g.from < g.to
  <2>1. g \in Window
    BY <1>1, <1>6, GapClear
  <2>2. g.from \in Int /\ g.to \in Int
    BY <2>1, WindowTyped DEF Window
  <2>3. ask.duration \in Nat \ {0}
    BY OccupiedTyped DEF SearchInv
  <2> QED BY <1>6, <2>2, <2>3 DEF LongEnough
<1>7. \A g : g \in Stretches(Whole \ BusyPoints) <=>
               \E k \in 0..Len(merged) : g = GapAfter(merged, k) /\ g.from < g.to
  BY <1>1, FreeStretches
<1>8. Offered = {i \in Stretches(Whole \ BusyPoints) : LongEnough(i)}
  BY <1>5, <1>6, <1>7
<1> QED BY <1>3, <1>4, <1>8

LEMMA FindFree ==
  ASSUME SearchInv
  PROVE  SlotsFree
<1>1. SearchTypeOK /\ ReadTruly /\ SlotsClear
  BY DEF SearchInv
<1> SUFFICES ASSUME stage = "answered", ask.kind = "find", NEW s \in Offered
             PROVE  LET clear(i) == Points(s) \cap Points(Wider(i, ask.buffer)) = {} IN
                    /\ s.to - s.from = ask.duration /\ Points(s) \subseteq Whole
                    /\ "events" \notin lost /\ Cardinality(InWindow) <= ListLimit =>
                         \A e \in InWindow : e.opaque => clear(e.at)
                    /\ "tasks" \notin lost =>
                         \A d \in tasks : TimeMin <= d /\ d <= TimeMax => clear(AroundDue(d))
                    /\ "user" \notin lost => \A t \in Points(s) : ~IsQuiet(t, quiet)
                    /\ \A r \in Offered : r # s => Points(r) \cap Points(s) = {}
  BY DEF SlotsFree, Finds
<1>2. s \in Window /\ s \in TimeSpan
  BY <1>1, WindowTyped DEF SearchTypeOK, Offered, ToSet
<1>3. /\ s.to - s.from = ask.duration
      /\ \A t \in Points(s) : t \notin BusyPoints
      /\ \A r \in Offered : r # s => Points(r) \cap Points(s) = {}
  BY <1>1 DEF SlotsClear
<1>4. Points(s) \subseteq Whole
  <2> SUFFICES ASSUME NEW t \in Points(s) PROVE t \in Whole
    OBVIOUS
  <2>1. t \in Int /\ s.from <= t /\ t < s.to
    BY <1>2, PointsOf
  <2>2. s.from \in TimeMin..TimeMax /\ s.to \in TimeMin..TimeMax
    BY <1>2 DEF Window
  <2> QED BY <2>1, <2>2, WindowTyped
<1>5. Margin = ask.buffer
  BY DEF Margin
<1>6. ASSUME NEW i \in Occupied PROVE Points(s) \cap Points(Wider(i, ask.buffer)) = {}
  BY <1>3, <1>4, <1>5 DEF BusyPoints
<1>7. ASSUME "events" \notin lost, Cardinality(InWindow) <= ListLimit, NEW e \in InWindow, e.opaque
      PROVE  Points(s) \cap Points(Wider(e.at, ask.buffer)) = {}
  <2>1. IsFiniteSet(InWindow) /\ Cardinality(InWindow) \in Nat
    <3>1. InWindow \subseteq calendar /\ IsFiniteSet(calendar)
      BY <1>1 DEF InWindow, ReadTruly
    <3> QED BY <3>1, FS_Subset, FS_CardinalityType
  <2>2. listed \in FirstOf(InWindow, ListLimit)
    BY <1>1, <1>7 DEF ReadTruly
  <2>3. listed \subseteq InWindow /\ Cardinality(listed) = Cardinality(InWindow)
    <3>1. ListLimit \in Nat
      BY AvailabilityAssumption
    <3> QED BY <1>7, <2>1, <2>2, <3>1 DEF FirstOf
  <2>4. listed = InWindow
    BY <2>1, <2>3, FS_Subset
  <2>5. e.at \in Occupied
    BY <1>7, <2>4 DEF Occupied
  <2> QED BY <1>6, <2>5
<1>8. ASSUME "tasks" \notin lost, NEW d \in tasks, TimeMin <= d, d <= TimeMax
      PROVE  Points(s) \cap Points(Wider(AroundDue(d), ask.buffer)) = {}
  <2>1. d \in dueRead
    BY <1>1, <1>8 DEF ReadTruly, DueInWindow
  <2> QED BY <1>6, <2>1 DEF Occupied
<1>9. ASSUME "user" \notin lost, NEW t \in Points(s) PROVE ~IsQuiet(t, quiet)
  <2>1. hours = quiet
    BY <1>1, <1>9 DEF ReadTruly
  <2> QED BY <1>3, <1>4, <2>1 DEF BusyPoints
<1> QED BY <1>3, <1>4, <1>7, <1>8, <1>9

LEMMA FindComplete ==
  ASSUME SearchInv
  PROVE  SlotsComplete
<1> SUFFICES ASSUME stage = "answered", ask.kind = "find", Len(free) < MaxSlots,
                    NEW t \in TimeMin..(TimeMax - ask.duration)
             PROVE  Points(Interval(t, t + ask.duration))
                      \cap (BusyPoints \cup UNION {Points(s) : s \in Offered}) # {}
  BY DEF SlotsComplete, Finds
<1>1. PICK p \in Points(Interval(t, t + ask.duration)) : Used(p)
  BY DEF SearchInv, NonePassed
<1> QED BY <1>1 DEF Used

LEMMA SearchInvariant == SearchSpec => []SearchInv
<1>1. SearchInit => SearchInv
  BY SearchBegins
<1>2. SearchInv /\ [SearchNext]_searchVars => SearchInv'
  BY SearchStepKept
<1> QED BY <1>1, <1>2, PTL DEF SearchSpec

(* checkAvailability reports the busy stretches and the long free ones,    *)
(* exactly.                                                                *)
THEOREM StretchesExactHolds == SearchSpec => []StretchesExact
<1>1. SearchInv => StretchesExact
  BY CheckExact
<1> QED BY <1>1, SearchInvariant, PTL

(* findAvailableSlots offers free time only, and all there is.             *)
THEOREM SlotsSoundHolds == SearchSpec => []SlotsSound
<1>1. SearchInv => SlotsSound
  BY FindFree, FindComplete DEF SlotsSound, SearchInv
<1> QED BY <1>1, SearchInvariant, PTL
=============================================================================
