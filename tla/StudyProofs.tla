----------------------------- MODULE StudyProofs -----------------------------
(***************************************************************************)
(* What Study promises, proved for any number of calls, connections,       *)
(* questions and topics:                                                   *)
(*   - the pool cannot lock up while it is not overcommitted;              *)
(*   - the quizzes agree with the answers acknowledged, and one is live;   *)
(*   - the plans agree with the tasks that remind of them;                 *)
(*   - mastery is backed by work.                                          *)
(*                                                                         *)
(* Typed is the invariant of each row and of each call; what every action  *)
(* does to its call (it goes on, leaves a scope, is thrown back or ends)   *)
(* is stated once and used for all four.                                   *)
(***************************************************************************)
EXTENDS Study, FiniteSetTheorems, TLAPS

-----------------------------------------------------------------------------
(* Calls: where each can be, and what it carries there.                    *)

Flag == BOOLEAN
Index == 0..TotalQuestions
Status == {"CREATED", "ACTIVE", "ANSWERING", "COMPLETED", "REVIEWED"}
Op == {"none", "generateQuiz", "submitAnswer", "generateStudyPlan", "createAssessment",
       "rescheduleStudySession", "completeStudySession"}
Point == {"idle", "closePrior", "insertQuiz", "getQuiz", "writeAnswer", "getTopic",
          "setMastery", "insertPlan", "createTask", "commitPlan", "createExamTask",
          "insertExam", "readSession", "markDone", "completeSession", "moveTask",
          "moveSession"}

CallRow ==
  [op : Op, at : Point, held : 0..3, again : SUBSET (1..3), serial : 0..MaxCalls,
   quiz : Nat, session : Nat \X Nat, right : Flag, copy : Rows, prior : SUBSET Nat,
   made : Seq(Nat), topic : Nat, delta : Int, base : Nat]

Same(s, r, fields) ==
  /\ s \in CallRow
  /\ "op" \in fields \/ s.op = r.op
  /\ "at" \in fields \/ s.at = r.at
  /\ "held" \in fields \/ s.held = r.held
  /\ "again" \in fields \/ s.again = r.again
  /\ "serial" \in fields \/ s.serial = r.serial
  /\ "quiz" \in fields \/ s.quiz = r.quiz
  /\ "session" \in fields \/ s.session = r.session
  /\ "right" \in fields \/ s.right = r.right
  /\ "copy" \in fields \/ s.copy = r.copy
  /\ "prior" \in fields \/ s.prior = r.prior
  /\ "made" \in fields \/ s.made = r.made
  /\ "topic" \in fields \/ s.topic = r.topic
  /\ "delta" \in fields \/ s.delta = r.delta
  /\ "base" \in fields \/ s.base = r.base

LEMMA RowFields ==
  ASSUME NEW r \in CallRow
  PROVE  /\ r.op \in Op /\ r.at \in Point /\ r.held \in 0..3 /\ r.again \subseteq 1..3
         /\ r.serial \in 0..MaxCalls /\ r.quiz \in Nat /\ r.session \in Nat \X Nat
         /\ r.right \in Flag /\ r.copy \in Rows /\ r.prior \subseteq Nat /\ r.made \in Seq(Nat)
         /\ r.topic \in Nat /\ r.delta \in Int /\ r.base \in Nat
<1> HIDE DEF Op, Point, Flag, Rows
<1> QED BY DEF CallRow

LEMMA RowChange ==
  ASSUME NEW r \in CallRow
  PROVE  /\ \A x \in Op : LET s == [r EXCEPT !.op = x] IN s.op = x /\ Same(s, r, {"op"})
         /\ \A x \in Point : LET s == [r EXCEPT !.at = x] IN s.at = x /\ Same(s, r, {"at"})
         /\ \A x \in 0..3 : LET s == [r EXCEPT !.held = x] IN s.held = x /\ Same(s, r, {"held"})
         /\ \A x \in SUBSET (1..3) : LET s == [r EXCEPT !.again = x] IN
              s.again = x /\ Same(s, r, {"again"})
         /\ \A x \in 0..MaxCalls : LET s == [r EXCEPT !.serial = x] IN
              s.serial = x /\ Same(s, r, {"serial"})
         /\ \A x \in Nat : LET s == [r EXCEPT !.quiz = x] IN s.quiz = x /\ Same(s, r, {"quiz"})
         /\ \A x \in Nat \X Nat : LET s == [r EXCEPT !.session = x] IN
              s.session = x /\ Same(s, r, {"session"})
         /\ \A x \in Flag : LET s == [r EXCEPT !.right = x] IN
              s.right = x /\ Same(s, r, {"right"})
         /\ \A x \in Rows : LET s == [r EXCEPT !.copy = x] IN s.copy = x /\ Same(s, r, {"copy"})
         /\ \A x \in SUBSET Nat : LET s == [r EXCEPT !.prior = x] IN
              s.prior = x /\ Same(s, r, {"prior"})
         /\ \A x \in Seq(Nat) : LET s == [r EXCEPT !.made = x] IN
              s.made = x /\ Same(s, r, {"made"})
         /\ \A x \in Nat : LET s == [r EXCEPT !.topic = x] IN
              s.topic = x /\ Same(s, r, {"topic"})
         /\ \A x \in Int : LET s == [r EXCEPT !.delta = x] IN
              s.delta = x /\ Same(s, r, {"delta"})
         /\ \A x \in Nat : LET s == [r EXCEPT !.base = x] IN s.base = x /\ Same(s, r, {"base"})
<1> HIDE DEF Op, Point, Flag, Rows
<1>1. \A x \in Op : LET s == [r EXCEPT !.op = x] IN s.op = x /\ Same(s, r, {"op"})
  BY DEF CallRow, Same
<1>2. \A x \in Point : LET s == [r EXCEPT !.at = x] IN s.at = x /\ Same(s, r, {"at"})
  BY DEF CallRow, Same
<1>3. \A x \in 0..3 : LET s == [r EXCEPT !.held = x] IN s.held = x /\ Same(s, r, {"held"})
  BY DEF CallRow, Same
<1>4. \A x \in SUBSET (1..3) : LET s == [r EXCEPT !.again = x] IN
        s.again = x /\ Same(s, r, {"again"})
  BY DEF CallRow, Same
<1>5. \A x \in 0..MaxCalls : LET s == [r EXCEPT !.serial = x] IN
        s.serial = x /\ Same(s, r, {"serial"})
  BY DEF CallRow, Same
<1>6. \A x \in Nat : LET s == [r EXCEPT !.quiz = x] IN s.quiz = x /\ Same(s, r, {"quiz"})
  BY DEF CallRow, Same
<1>7. \A x \in Nat \X Nat : LET s == [r EXCEPT !.session = x] IN
        s.session = x /\ Same(s, r, {"session"})
  BY DEF CallRow, Same
<1>8. \A x \in Flag : LET s == [r EXCEPT !.right = x] IN s.right = x /\ Same(s, r, {"right"})
  BY DEF CallRow, Same
<1>9. \A x \in Rows : LET s == [r EXCEPT !.copy = x] IN s.copy = x /\ Same(s, r, {"copy"})
  BY DEF CallRow, Same
<1>10. \A x \in SUBSET Nat : LET s == [r EXCEPT !.prior = x] IN
         s.prior = x /\ Same(s, r, {"prior"})
  BY DEF CallRow, Same
<1>11. \A x \in Seq(Nat) : LET s == [r EXCEPT !.made = x] IN
         s.made = x /\ Same(s, r, {"made"})
  BY DEF CallRow, Same
<1>12. \A x \in Nat : LET s == [r EXCEPT !.topic = x] IN s.topic = x /\ Same(s, r, {"topic"})
  BY DEF CallRow, Same
<1>13. \A x \in Int : LET s == [r EXCEPT !.delta = x] IN s.delta = x /\ Same(s, r, {"delta"})
  BY DEF CallRow, Same
<1>14. \A x \in Nat : LET s == [r EXCEPT !.base = x] IN s.base = x /\ Same(s, r, {"base"})
  BY DEF CallRow, Same
<1> QED BY <1>1, <1>2, <1>3, <1>4, <1>5, <1>6, <1>7, <1>8, <1>9, <1>10, <1>11, <1>12,
           <1>13, <1>14

LEMMA IdleRow ==
  /\ NewQuiz \in Rows /\ Idle \in CallRow
  /\ Idle.op = "none" /\ Idle.at = "idle" /\ Idle.held = 0 /\ Idle.made = <<>>
  /\ Idle.base = 0 /\ Idle.again = {} /\ Idle.serial = 0
<1>1. NewQuiz \in Rows
  BY StudyAssumption DEF NewQuiz, Rows
<1>2. /\ "none" \in Op /\ "idle" \in Point /\ FALSE \in Flag /\ 0 \in 0..MaxCalls
      /\ <<>> \in Seq(Nat) /\ {} \subseteq 1..3 /\ <<0, 0>> \in Nat \X Nat
  BY StudyAssumption DEF Op, Point, Flag
<1> HIDE DEF Op, Point, Flag, Rows, NewQuiz
<1>3. Idle \in CallRow
  <2>1. /\ 0 \in 0..3 /\ {} \in SUBSET (1..3) /\ 0 \in Nat /\ 0 \in Int /\ {} \in SUBSET Nat
    OBVIOUS
  <2> QED BY <1>1, <1>2, <2>1, Zenon DEF Idle, CallRow
<1>4. /\ Idle.op = "none" /\ Idle.at = "idle" /\ Idle.held = 0 /\ Idle.made = <<>>
      /\ Idle.base = 0 /\ Idle.again = {} /\ Idle.serial = 0
  BY DEF Idle
<1> QED BY <1>1, <1>3, <1>4

(* Where a call of each kind can be, and the scopes it then runs in.       *)

Staged(op, at) ==
  \/ op = "none" /\ at = "idle"
  \/ op = "generateQuiz" /\ at \in {"closePrior", "insertQuiz"}
  \/ op = "submitAnswer" /\ at \in {"getQuiz", "writeAnswer", "getTopic", "setMastery"}
  \/ op = "generateStudyPlan" /\ at \in {"insertPlan", "createTask", "commitPlan"}
  \/ op = "createAssessment" /\ at \in {"createExamTask", "insertExam"}
  \/ op = "rescheduleStudySession" /\ at \in {"readSession", "moveTask", "moveSession"}
  \/ op = "completeStudySession" /\ at \in {"readSession", "markDone", "getTopic",
                                            "setMastery", "completeSession"}

Deep(op, at) == Len(Scopes(op, at))

LEMMA ScopesAt ==
  ASSUME NEW op, NEW at, Staged(op, at)
  PROVE  /\ op = "submitAnswer" /\ at = "getTopic" => Scopes(op, at) = <<"getTopic", "getTopic">>
         /\ op = "submitAnswer" /\ at = "setMastery" => Scopes(op, at) = <<"getTopic">>
         /\ at = "createTask" => Scopes(op, at) = <<"insertPlan", "createTask">>
         /\ at \in {"insertPlan", "commitPlan"} => Scopes(op, at) = <<"insertPlan">>
         /\ at \in {"closePrior", "insertQuiz"} => Scopes(op, at) = <<"closePrior">>
         /\ at = "markDone" => Scopes(op, at) = <<"readSession", "markDone">>
         /\ at = "moveTask" => Scopes(op, at) = <<"readSession", "moveTask">>
         /\ op = "completeStudySession" /\ at = "getTopic" =>
              Scopes(op, at) = <<"readSession", "getTopic", "getTopic">>
         /\ op = "completeStudySession" /\ at = "setMastery" =>
              Scopes(op, at) = <<"readSession", "getTopic">>
         /\ at \in {"readSession", "completeSession", "moveSession"} =>
              Scopes(op, at) = <<"readSession">>
         /\ at \in {"idle", "getQuiz", "writeAnswer", "createExamTask", "insertExam"} =>
              Scopes(op, at) = <<at>>
BY DEF Staged, Scopes

LEMMA Deeps ==
  ASSUME NEW op, NEW at, Staged(op, at)
  PROVE  /\ op \in Op /\ at \in Point /\ Deep(op, at) \in 1..3
         /\ op = "submitAnswer" /\ at = "getTopic" => Deep(op, at) = 2
         /\ op = "completeStudySession" /\ at = "getTopic" => Deep(op, at) = 3
         /\ op = "submitAnswer" /\ at = "setMastery" => Deep(op, at) = 1
         /\ op = "completeStudySession" /\ at = "setMastery" => Deep(op, at) = 2
         /\ at \in {"createTask", "markDone", "moveTask"} => Deep(op, at) = 2
         /\ at \in Point \ {"getTopic", "setMastery", "createTask", "markDone", "moveTask"} =>
              Deep(op, at) = 1
<1>1. op \in Op /\ at \in Point
  BY DEF Staged, Op, Point
<1>2. \A x, y, z : Len(<<x>>) = 1 /\ Len(<<x, y>>) = 2 /\ Len(<<x, y, z>>) = 3
  OBVIOUS
<1>3. op = "submitAnswer" /\ at = "getTopic" => Deep(op, at) = 2
  BY <1>2, ScopesAt DEF Deep
<1>4. op = "completeStudySession" /\ at = "getTopic" => Deep(op, at) = 3
  BY <1>2, ScopesAt DEF Deep
<1>5. op = "submitAnswer" /\ at = "setMastery" => Deep(op, at) = 1
  BY <1>2, ScopesAt DEF Deep
<1>6. op = "completeStudySession" /\ at = "setMastery" => Deep(op, at) = 2
  BY <1>2, ScopesAt DEF Deep
<1>7. at \in {"createTask", "markDone", "moveTask"} => Deep(op, at) = 2
  BY <1>2, ScopesAt DEF Deep
<1>8. at \in Point \ {"getTopic", "setMastery", "createTask", "markDone", "moveTask"} =>
        Deep(op, at) = 1
  <2>1. at \in {"insertPlan", "commitPlan", "closePrior", "insertQuiz", "readSession",
                "completeSession", "moveSession", "idle", "getQuiz", "writeAnswer",
                "createExamTask", "insertExam"}
          => Deep(op, at) = 1
    BY <1>2, ScopesAt DEF Deep
  <2> QED BY <2>1 DEF Point
<1>9. at \in {"getTopic", "setMastery"} => op \in {"submitAnswer", "completeStudySession"}
  BY DEF Staged
<1>10. Deep(op, at) \in 1..3
  BY <1>1, <1>3, <1>4, <1>5, <1>6, <1>7, <1>8, <1>9
<1> QED BY <1>1, <1>3, <1>4, <1>5, <1>6, <1>7, <1>8, <1>10

(* A scope that waits for the next one is not the widest.                  *)
LEMMA WithinWidest ==
  ASSUME NEW op, NEW at, Staged(op, at), op # "none"
  PROVE  Deep(op, at) <= Widest(op) /\ Widest(op) \in 1..3
<1> HIDE DEF Deep
<1>1. /\ op \in {"submitAnswer", "generateStudyPlan", "rescheduleStudySession"} => Widest(op) = 2
      /\ op = "completeStudySession" => Widest(op) = 3
      /\ op \in {"generateQuiz", "createAssessment"} => Widest(op) = 1
  BY DEF Widest
<1>2. Deep(op, at) \in 1..3 /\ op \in Op
  BY Deeps
<1>3. /\ op \in {"submitAnswer", "generateStudyPlan", "rescheduleStudySession"} =>
           Deep(op, at) <= 2
      /\ op \in {"generateQuiz", "createAssessment"} => Deep(op, at) = 1
  BY Deeps DEF Staged, Point
<1> QED BY <1>1, <1>2, <1>3 DEF Op

(* What is thrown in a step: the points a call can go on from.             *)
Back(op, at) ==
  {x \in Point :
     \/ at = "insertQuiz" /\ x = "closePrior"
     \/ at \in {"setMastery"} /\ x = "getTopic"
     \/ at \in {"createTask", "commitPlan"} /\ x = "insertPlan"
     \/ at = "createExamTask" /\ x = "insertExam"
     \/ op \in SessionCalls /\ x = "readSession"
     \/ at = "moveTask" /\ x = "moveSession"
     \/ at = "markDone" /\ x = "getTopic"
     \/ op = "completeStudySession" /\ at \in {"getTopic", "setMastery"} /\ x = "completeSession"
     \/ at \in {"closePrior", "getQuiz", "writeAnswer", "getTopic", "insertPlan", "createTask",
                "createExamTask", "insertExam", "readSession", "markDone", "moveTask"}
        /\ x = at}

LEMMA Backs ==
  ASSUME NEW op, NEW at, Staged(op, at), op # "none"
  PROVE  /\ \A k \in 1..Deep(op, at) :
              /\ Scopes(op, at)[k] \in Back(op, at)
              /\ Staged(op, Scopes(op, at)[k]) /\ Deep(op, Scopes(op, at)[k]) >= k
         /\ CaughtAt(op, at) \in 1..2
         /\ Swallowed(op, at) # "idle" =>
              /\ Swallowed(op, at) \in Back(op, at) /\ Staged(op, Swallowed(op, at))
              /\ CaughtAt(op, at) <= Deep(op, at)
              /\ Deep(op, Swallowed(op, at)) >= CaughtAt(op, at) - 1
<1>1. \A k \in 1..Deep(op, at) :
        /\ Scopes(op, at)[k] \in Back(op, at)
        /\ Staged(op, Scopes(op, at)[k]) /\ Deep(op, Scopes(op, at)[k]) >= k
  <2> SUFFICES ASSUME NEW k \in 1..Deep(op, at)
               PROVE  /\ Scopes(op, at)[k] \in Back(op, at)
                      /\ Staged(op, Scopes(op, at)[k]) /\ Deep(op, Scopes(op, at)[k]) >= k
    OBVIOUS
  <2> DEFINE x == Scopes(op, at)[k]
  <2>1. Deep(op, at) \in 1..3 /\ op \in Op /\ at \in Point
    BY Deeps
  <2>2. x \in Back(op, at) /\ Staged(op, x)
    <3>1. CASE op \in {"generateQuiz", "generateStudyPlan", "createAssessment"}
      BY <2>1, <3>1, ScopesAt, Deeps DEF Staged, Back, Point
    <3>2. CASE op = "submitAnswer"
      BY <2>1, <3>2, ScopesAt, Deeps DEF Staged, Back, Point
    <3>3. CASE op = "rescheduleStudySession"
      BY <2>1, <3>3, ScopesAt, Deeps DEF Staged, Back, Point, SessionCalls
    <3>4. CASE op = "completeStudySession"
      BY <2>1, <3>4, ScopesAt, Deeps DEF Staged, Back, Point, SessionCalls
    <3> QED BY <2>1, <3>1, <3>2, <3>3, <3>4 DEF Op
  <2>3. Deep(op, x) \in 1..3
    BY <2>2, Deeps
  <2>4. k = 2 => x \in {"getTopic", "createTask", "markDone", "moveTask"}
    <3>1. ASSUME k = 2
          PROVE  \/ op = "submitAnswer" /\ at = "getTopic"
                 \/ op = "completeStudySession" /\ at \in {"getTopic", "setMastery"}
                 \/ at \in {"createTask", "markDone", "moveTask"}
      BY <2>1, <3>1, Deeps DEF Staged
    <3> QED BY <3>1, ScopesAt
  <2>5. k = 3 => op = "completeStudySession" /\ x = "getTopic"
    BY <2>1, ScopesAt, Deeps DEF Staged
  <2>6. Deep(op, x) >= k
    <3>1. k = 2 => Deep(op, x) >= 2
      BY <2>2, <2>4, Deeps DEF Staged
    <3>2. k = 3 => Deep(op, x) = 3
      BY <2>2, <2>5, Deeps
    <3> HIDE DEF x
    <3> QED BY <2>1, <2>3, <3>1, <3>2
  <2> QED BY <2>2, <2>6
<1>2. CaughtAt(op, at) \in 1..2
  BY DEF CaughtAt
<1>3. ASSUME Swallowed(op, at) # "idle"
      PROVE  /\ Swallowed(op, at) \in Back(op, at) /\ Staged(op, Swallowed(op, at))
             /\ CaughtAt(op, at) <= Deep(op, at)
             /\ Deep(op, Swallowed(op, at)) >= CaughtAt(op, at) - 1
  <2>1. \/ at = "markDone" /\ Swallowed(op, at) = "getTopic"
        \/ op = "completeStudySession" /\ at \in {"getTopic", "setMastery"}
             /\ Swallowed(op, at) = "completeSession"
        \/ at = "moveTask" /\ Swallowed(op, at) = "moveSession"
        \/ at = "createExamTask" /\ Swallowed(op, at) = "insertExam"
    BY <1>3 DEF Swallowed
  <2>2. Swallowed(op, at) \in Back(op, at) /\ Staged(op, Swallowed(op, at))
    BY <2>1 DEF Back, Point, Staged
  <2>3. Deep(op, at) \in 1..3 /\ Deep(op, Swallowed(op, at)) \in 1..3
    BY <2>2, Deeps
  <2>4. at # "createExamTask" => Deep(op, at) >= 2
    BY <2>1, Deeps
  <2>5. at = "createExamTask" => op = "createAssessment" /\ CaughtAt(op, at) = 1
    BY DEF Staged, CaughtAt
  <2>6. CaughtAt(op, at) <= Deep(op, at) /\ CaughtAt(op, at) - 1 <= 1
    BY <1>2, <2>3, <2>4, <2>5
  <2> QED BY <1>2, <2>2, <2>3, <2>6
<1> QED BY <1>1, <1>2, <1>3

-----------------------------------------------------------------------------
(* What a step does to its call: it goes on within the scope, leaves the   *)
(* scope, is thrown back, or ends.                                         *)

LeftFields == {"at", "held", "again", "copy", "base"}

LEMMA LeftRow ==
  ASSUME NEW c \in Call, call[c] \in CallRow, call[c].held >= 1, NEW at \in Point \ {"idle"}
  PROVE  /\ Same(Left(c, at), call[c], LeftFields)
         /\ Left(c, at).at = at /\ Left(c, at).held = call[c].held - 1
         /\ Left(c, at).copy = NewQuiz /\ Left(c, at).base = 0
<1> DEFINE r == call[c]
           a == [r EXCEPT !.at = at]
           h == [a EXCEPT !.held = @ - 1]
           k == [h EXCEPT !.copy = NewQuiz]
           b == [k EXCEPT !.base = 0]
           w == [b EXCEPT !.again = @ \cap 1..(r.held - 1)]
<1>1. Left(c, at) = w
  BY DEF Left
<1>2. /\ r \in CallRow /\ r.held \in 0..3 /\ r.held >= 1 /\ at \in Point /\ NewQuiz \in Rows
      /\ 0 \in Nat
  BY RowFields, IdleRow
<1> HIDE DEF r
<1>3. a.at = at /\ Same(a, r, {"at"})
  BY <1>2, RowChange
<1>4. a \in CallRow /\ a.held = r.held
  BY <1>3 DEF Same
<1> HIDE DEF a
<1>5. h.held = r.held - 1 /\ Same(h, a, {"held"})
  <2>1. a.held - 1 \in 0..3 /\ a.held - 1 = r.held - 1
    BY <1>2, <1>4
  <2>2. \A x \in 0..3 : /\ [a EXCEPT !.held = x].held = x
                        /\ Same([a EXCEPT !.held = x], a, {"held"})
    BY <1>4, RowChange
  <2>3. h.held = a.held - 1 /\ Same(h, a, {"held"})
    BY <2>1, <2>2, Zenon
  <2> QED BY <2>1, <2>3
<1> HIDE DEF h
<1>6. k.copy = NewQuiz /\ Same(k, h, {"copy"})
  BY <1>2, <1>5, RowChange DEF Same
<1> HIDE DEF k
<1>7. b.base = 0 /\ Same(b, k, {"base"})
  BY <1>2, <1>6, RowChange DEF Same
<1> HIDE DEF b
<1>8. Same(w, b, {"again"})
  <2>1. b \in CallRow
    BY <1>7 DEF Same
  <2>2. b.again \cap 1..(r.held - 1) \in SUBSET (1..3)
    BY <2>1, RowFields
  <2> QED BY <2>1, <2>2, RowChange
<1> HIDE DEF w
<1>9. w.at = at /\ w.held = r.held - 1 /\ w.copy = NewQuiz /\ w.base = 0
  BY <1>3, <1>5, <1>6, <1>7, <1>8 DEF Same
<1>10. Same(w, r, LeftFields)
  BY <1>3, <1>5, <1>6, <1>7, <1>8 DEF Same, LeftFields
<1> QED BY <1>1, <1>9, <1>10 DEF r

Threw(s, r) ==
  \/ s = Idle
  \/ /\ Same(s, r, {"at", "held", "again"})
     /\ s.at \in Back(r.op, r.at) /\ Staged(r.op, s.at)
     /\ s.held < r.held /\ s.held <= Deep(r.op, s.at)

LEMMA ThrownRow ==
  ASSUME NEW c \in Call, call[c] \in CallRow, Staged(call[c].op, call[c].at),
         call[c].op # "none", call[c].held = Depth(c), NEW lost
  PROVE  Threw(Thrown(c, lost), call[c])
<1> DEFINE r == call[c]
           outer == CaughtAt(r.op, r.at)
           then == Swallowed(r.op, r.at)
           retried == {k \in outer..r.held : lost /\ k \notin r.again}
<1>1. /\ r.held = Deep(r.op, r.at) /\ r.held \in 1..3 /\ r.at \in Point /\ r.again \subseteq 1..3
      /\ r \in CallRow
  BY RowFields, Deeps DEF Depth, Deep
<1>2. outer \in 1..2
  BY Backs
<1>3. ASSUME NEW at \in Back(r.op, r.at), NEW held \in 0..3, NEW again \in SUBSET (1..3),
             Staged(r.op, at), held < r.held, held <= Deep(r.op, at)
      PROVE  Threw([r EXCEPT !.at = at, !.held = held, !.again = again], r)
  <2> DEFINE a == [r EXCEPT !.at = at]
             h == [a EXCEPT !.held = held]
             w == [h EXCEPT !.again = again]
  <2>0. at \in Point
    BY DEF Back
  <2>1. a.at = at /\ Same(a, r, {"at"})
    BY <1>1, <2>0, RowChange
  <2> HIDE DEF a
  <2>2. h.held = held /\ Same(h, a, {"held"})
    BY <2>1, RowChange DEF Same
  <2> HIDE DEF h
  <2>3. w.again = again /\ Same(w, h, {"again"})
    BY <2>2, RowChange DEF Same
  <2> HIDE DEF w
  <2>4. Same(w, r, {"at", "held", "again"}) /\ w.at = at /\ w.held = held
    BY <2>1, <2>2, <2>3 DEF Same
  <2>5. Threw(w, r)
    BY <1>3, <2>4 DEF Threw
  <2> QED BY <2>5 DEF w, h, a
<1>4. CASE retried # {}
  <2> DEFINE k == CHOOSE k \in retried : \A j \in retried : j <= k
  <2>1. retried \subseteq 1..3
    BY <1>1, <1>2
  <2>2. k \in retried
    <3>1. \A S \in SUBSET (1..3) : S # {} => \E i \in S : \A j \in S : j <= i
      <4> SUFFICES ASSUME NEW S \in SUBSET (1..3), S # {}
                   PROVE  \E i \in S : \A j \in S : j <= i
        OBVIOUS
      <4>1. CASE 3 \in S
        BY <4>1
      <4>2. CASE 3 \notin S /\ 2 \in S
        <5>1. \A j \in S : j <= 2
          BY <4>2
        <5> QED BY <4>2, <5>1
      <4>3. CASE 3 \notin S /\ 2 \notin S
        <5>1. \A j \in S : j \in {1, 2, 3}
          OBVIOUS
        <5>2. \A j \in S : j = 1
          BY <4>3, <5>1
        <5>3. PICK i : i \in S
          OBVIOUS
        <5>4. i = 1
          BY <5>2, <5>3
        <5> QED BY <5>2, <5>3, <5>4
      <4> QED BY <4>1, <4>2, <4>3
    <3> HIDE DEF retried
    <3>2. \E i \in retried : \A j \in retried : j <= i
      BY <1>4, <2>1, <3>1
    <3> QED BY <3>2
  <2>3. k \in outer..r.held
    BY <2>2
  <2>4. k \in 1..3 /\ k <= r.held /\ k \in 1..Deep(r.op, r.at)
    BY <1>1, <1>2, <2>3
  <2>5. Thrown(c, lost) = [r EXCEPT !.at = Scopes(r.op, r.at)[k], !.held = k - 1,
                                    !.again = (@ \cap 1..(k - 1)) \cup {k}]
    BY <1>4 DEF Thrown
  <2> HIDE DEF k, retried, outer, then
  <2>6. /\ Scopes(r.op, r.at)[k] \in Back(r.op, r.at) /\ Staged(r.op, Scopes(r.op, r.at)[k])
        /\ Deep(r.op, Scopes(r.op, r.at)[k]) >= k
    BY <2>4, Backs DEF r
  <2>7. /\ k - 1 \in 0..3 /\ k - 1 < r.held
        /\ (r.again \cap 1..(k - 1)) \cup {k} \in SUBSET (1..3)
    BY <1>1, <2>4
  <2>8. k - 1 <= Deep(r.op, Scopes(r.op, r.at)[k])
    <3>1. Deep(r.op, Scopes(r.op, r.at)[k]) \in 1..3
      BY <2>6, Deeps
    <3> HIDE DEF r
    <3> QED BY <2>4, <2>6, <3>1
  <2> HIDE DEF r
  <2>9. [r EXCEPT !.at = Scopes(r.op, r.at)[k], !.held = k - 1,
                  !.again = (@ \cap 1..(k - 1)) \cup {k}]
         = [r EXCEPT !.at = Scopes(r.op, r.at)[k], !.held = k - 1,
                     !.again = (r.again \cap 1..(k - 1)) \cup {k}]
    BY <1>1, SMT DEF CallRow
  <2>10. Threw([r EXCEPT !.at = Scopes(r.op, r.at)[k], !.held = k - 1,
                         !.again = (r.again \cap 1..(k - 1)) \cup {k}], r)
    BY <1>3, <2>6, <2>7, <2>8
  <2>11. Threw(Thrown(c, lost), r)
    BY <2>5, <2>9, <2>10, Zenon
  <2> QED BY <2>11 DEF r
<1>5. CASE retried = {} /\ then # "idle"
  <2>1. Thrown(c, lost) = [r EXCEPT !.at = then, !.held = outer - 1,
                                    !.again = @ \cap 1..(outer - 1)]
    BY <1>5 DEF Thrown
  <2>2. /\ then \in Back(r.op, r.at) /\ Staged(r.op, then)
        /\ outer <= Deep(r.op, r.at) /\ Deep(r.op, then) >= outer - 1
    BY <1>5, Backs
  <2> HIDE DEF retried, outer, then, r
  <2>3. /\ outer - 1 \in 0..3 /\ outer - 1 < r.held
        /\ r.again \cap 1..(outer - 1) \in SUBSET (1..3)
    BY <1>1, <1>2, <2>2
  <2>4. outer - 1 <= Deep(r.op, then)
    <3>1. Deep(r.op, then) \in 1..3
      BY <2>2, Deeps
    <3> QED BY <1>2, <2>2, <3>1
  <2>5. [r EXCEPT !.at = then, !.held = outer - 1, !.again = @ \cap 1..(outer - 1)]
         = [r EXCEPT !.at = then, !.held = outer - 1, !.again = r.again \cap 1..(outer - 1)]
    BY <1>1, SMT DEF CallRow
  <2>6. Threw([r EXCEPT !.at = then, !.held = outer - 1,
                        !.again = r.again \cap 1..(outer - 1)], r)
    BY <1>3, <2>2, <2>3, <2>4
  <2>7. Threw(Thrown(c, lost), r)
    BY <2>1, <2>5, <2>6, Zenon
  <2> QED BY <2>7 DEF r
<1>6. CASE retried = {} /\ then = "idle"
  <2>1. Thrown(c, lost) = Idle
    BY <1>6 DEF Thrown
  <2> QED BY <2>1 DEF Threw
<1> QED BY <1>4, <1>5, <1>6

-----------------------------------------------------------------------------
(* What holds of the rows and of the calls one by one.                     *)

RightOnes(answers) == {i \in DOMAIN answers : answers[i]}

Sound(row) ==
  /\ row \in Rows /\ row.status \in {"ACTIVE", "ANSWERING", "COMPLETED"}
  /\ row.index = Len(row.answers) /\ row.score = Cardinality(RightOnes(row.answers))
  /\ Answerable(row) => ~LastAnswered(row.index)

SessionRow == [status : {"scheduled", "rescheduled", "completed"}, task : Nat,
               start : 0..MaxCalls]
TaskRow == [done : Flag, due : 0..MaxCalls]
Plan == [1..Topics -> SessionRow]

Data ==
  /\ quizzes \in Seq(Rows) /\ acked \in Seq(Nat) /\ Len(acked) = Len(quizzes)
  /\ \A q \in DOMAIN quizzes : Sound(quizzes[q])
  /\ plans \in Seq(Plan) /\ tasks \in Seq(TaskRow) /\ exams \in Seq(Nat)
  /\ level \in [1..Topics -> 0..MasteryTop] /\ completed \subseteq Sessions

Counts == begun \in 0..MaxCalls /\ trouble \in 0..MaxTrouble /\ overlaps \in Nat /\ repeats \in Nat

\* What a call is whatever the rows are, and what it names in them.
RowOK(r) ==
  /\ r \in CallRow /\ Staged(r.op, r.at) /\ r.held <= Deep(r.op, r.at)
  /\ r.op = "none" => r.held = 0
  /\ r.op = "completeStudySession" => r.topic = r.session[2] /\ r.delta = SessionDelta
  /\ r.op = "submitAnswer" /\ r.at \in {"getTopic", "setMastery"} =>
       r.topic = 1 /\ r.delta \in {-2, 0, 2}
  /\ r.at = "createTask" => Len(r.made) < Topics
  /\ r.at = "commitPlan" => Len(r.made) = Topics
  /\ Len(r.made) <= Topics /\ r.base <= MasteryTop
  /\ r.at = "writeAnswer" => Sound(r.copy) /\ ~LastAnswered(r.copy.index)

Names(r, rows, made) ==
  /\ r.op = "submitAnswer" => r.quiz \in 1..rows
  /\ r.op \in SessionCalls => r.session \in (1..made) \X (1..Topics)
  /\ r.at = "insertQuiz" => r.prior \subseteq 1..rows

Placed ==
  /\ call \in [Call -> CallRow]
  /\ \A c \in Call : RowOK(call[c]) /\ Names(call[c], Len(quizzes), Len(plans))

Typed == Data /\ Counts /\ Placed

LEMMA RowsNamed == Rows = [status : Status, index : Index, score : Index, answers : Seq(Flag)]
BY Zenon DEF Rows, Status, Index, Flag

LEMMA SessionsAre ==
  ASSUME plans \in Seq(Plan) PROVE Sessions = (1..Len(plans)) \X (1..Topics)
<1>1. \A p \in 1..Len(plans) : DOMAIN plans[p] = 1..Topics
  BY DEF Plan
<1>2. \A s \in (1..Len(plans)) \X (1..Topics) : s[1] \in 1..Len(plans) /\ s[2] \in 1..Topics
  OBVIOUS
<1> QED BY <1>1, <1>2 DEF Sessions

LEMMA ThrewKeeps ==
  ASSUME NEW r, NEW s, RowOK(r), r.op # "none", Threw(s, r), NEW rows \in Nat, NEW made \in Nat,
         Names(r, rows, made)
  PROVE  RowOK(s) /\ Names(s, rows, made)
<1>1. CASE s = Idle
  <2>1. Len(<<>>) = 0
    OBVIOUS
  <2>2. Staged(Idle.op, Idle.at) /\ Deep(Idle.op, Idle.at) \in 1..3
    BY IdleRow, Deeps DEF Staged
  <2> QED BY <1>1, <2>1, <2>2, IdleRow, StudyAssumption DEF RowOK, Names, SessionCalls
<1>2. CASE s # Idle
  <2>1. /\ Same(s, r, {"at", "held", "again"}) /\ s.at \in Back(r.op, r.at)
        /\ Staged(r.op, s.at) /\ s.held <= Deep(r.op, s.at)
    BY <1>2 DEF Threw
  <2>2. s \in CallRow
    BY <2>1 DEF Same
  <2>3. /\ s.op = r.op /\ s.session = r.session /\ s.quiz = r.quiz /\ s.prior = r.prior
        /\ s.made = r.made /\ s.topic = r.topic /\ s.delta = r.delta /\ s.copy = r.copy
        /\ s.base = r.base
    BY <2>1 DEF Same
  <2>4. /\ s.at = "createTask" => r.at = "createTask"
        /\ s.at = "writeAnswer" => r.at = "writeAnswer"
        /\ s.at # "commitPlan" /\ s.at # "insertQuiz"
        /\ r.op = "submitAnswer" /\ s.at \in {"getTopic", "setMastery"} =>
             r.at \in {"getTopic", "setMastery"}
    BY <2>1 DEF Back, RowOK, Staged, SessionCalls
  <2>5. Staged(s.op, s.at) /\ s.held <= Deep(s.op, s.at)
    BY <2>1, <2>3
  <2>6. RowOK(s)
    <3>1. s.op # "none"
      BY <2>3
    <3>2. s.op = "submitAnswer" /\ s.at \in {"getTopic", "setMastery"} =>
            s.topic = 1 /\ s.delta \in {-2, 0, 2}
      BY <2>3, <2>4 DEF RowOK
    <3>3. s.op = "completeStudySession" => s.topic = s.session[2] /\ s.delta = SessionDelta
      BY <2>3 DEF RowOK
    <3>4. /\ s.at = "createTask" => Len(s.made) < Topics
          /\ Len(s.made) <= Topics /\ s.base <= MasteryTop
          /\ s.at = "writeAnswer" => Sound(s.copy) /\ ~LastAnswered(s.copy.index)
      BY <2>3, <2>4 DEF RowOK
    <3> HIDE DEF CallRow, Sound, Staged, Deep
    <3> QED BY <2>2, <2>4, <2>5, <3>1, <3>2, <3>3, <3>4 DEF RowOK
  <2>7. Names(s, rows, made)
    BY <2>3, <2>4 DEF Names
  <2> QED BY <2>6, <2>7
<1> QED BY <1>1, <1>2

LEMMA NamesGrow ==
  ASSUME NEW r, NEW rows \in Nat, NEW made \in Nat, NEW rows2 \in Nat, NEW made2 \in Nat,
         Names(r, rows, made), rows <= rows2, made <= made2
  PROVE  Names(r, rows2, made2)
<1>1. 1..rows \subseteq 1..rows2 /\ 1..made \subseteq 1..made2
  OBVIOUS
<1>2. (1..made) \X (1..Topics) \subseteq (1..made2) \X (1..Topics)
  BY <1>1
<1> QED BY <1>1, <1>2 DEF Names

(* Call c may change, the others stay.                                     *)
Alone(c) == call' \in [Call -> CallRow] /\ \A d \in Call \ {c} : call'[d] = call[d]
Goes(c, fields) == Alone(c) /\ Same(call'[c], call[c], fields) /\ trouble' = trouble
Ends(c) == Alone(c) /\ call'[c] = Idle /\ trouble' = trouble
Falls(c) == Alone(c) /\ Threw(call'[c], call[c]) /\ trouble' = trouble + 1

LEMMA Moves ==
  ASSUME Placed, NEW c \in Call, NEW r \in CallRow, call' = [call EXCEPT ![c] = r]
  PROVE  Alone(c) /\ call'[c] = r
<1> HIDE DEF CallRow
<1> QED BY DEF Placed, Alone

LEMMA ThrewRow ==
  ASSUME NEW r, NEW s, Threw(s, r) PROVE s \in CallRow
BY IdleRow DEF Threw, Same

LEMMA RowAt ==
  ASSUME Placed, NEW c \in Call
  PROVE  /\ call[c] \in CallRow /\ RowOK(call[c]) /\ Staged(call[c].op, call[c].at)
         /\ Depth(c) = Deep(call[c].op, call[c].at) /\ Depth(c) \in 1..3
         /\ call[c].held \in 0..3 /\ call[c].held <= Depth(c)
<1>1. call[c] \in CallRow /\ RowOK(call[c])
  BY DEF Placed
<1>2. Staged(call[c].op, call[c].at) /\ call[c].held <= Deep(call[c].op, call[c].at)
  BY <1>1 DEF RowOK
<1>3. Depth(c) = Deep(call[c].op, call[c].at)
  BY DEF Depth, Deep
<1>4. Deep(call[c].op, call[c].at) \in 1..3
  BY <1>2, Deeps
<1> QED BY <1>1, <1>2, <1>3, <1>4, RowFields

LEMMA Committed ==
  ASSUME Placed, NEW c \in Call, call[c].op # "none", call[c].held = Depth(c),
         NEW next \in CallRow, Commits(c, next)
  PROVE  \/ Alone(c) /\ call'[c] = next /\ trouble' = trouble
         \/ Falls(c)
<1>1. CASE call' = [call EXCEPT ![c] = next] /\ UNCHANGED trouble
  BY <1>1, Moves
<1>2. CASE MoreTrouble /\ call' = [call EXCEPT ![c] = Thrown(c, TRUE)]
  <2>1. Threw(Thrown(c, TRUE), call[c])
    BY RowAt, ThrownRow
  <2>2. Thrown(c, TRUE) \in CallRow
    BY <2>1, ThrewRow
  <2>3. Alone(c) /\ call'[c] = Thrown(c, TRUE)
    BY <1>2, <2>2, Moves
  <2> QED BY <1>2, <2>1, <2>3 DEF Falls, MoreTrouble
<1> QED BY <1>1, <1>2 DEF Commits

-----------------------------------------------------------------------------
(* What each action does to its call.                                      *)

Begun(c, op, at) ==
  /\ Alone(c) /\ trouble' = trouble /\ begun < MaxCalls
  /\ call[c].op = "none" /\ call'[c].op = op /\ call'[c].at = at
  /\ call'[c].held = 0 /\ call'[c].made = <<>> /\ call'[c].base = 0

LEMMA Called ==
  ASSUME Placed, NEW c \in Call, NEW r \in CallRow, r.held = 0, NEW concern,
         Calling(c, r, concern)
  PROVE  Alone(c) /\ Same(call'[c], r, {}) /\ call'[c].held = 0
<1> DEFINE s == [r EXCEPT !.held = call[c].held]
<1>1. call[c].held = 0
  <2>1. RowOK(call[c]) /\ call[c].op = "none"
    BY DEF Calling, Placed
  <2> QED BY <2>1 DEF RowOK
<1>2. s.held = 0 /\ Same(s, r, {"held"})
  <2>1. \A x \in 0..3 : /\ [r EXCEPT !.held = x].held = x
                        /\ Same([r EXCEPT !.held = x], r, {"held"})
    BY RowChange
  <2>2. call[c].held \in 0..3
    BY <1>1
  <2> QED BY <1>1, <2>1, <2>2, Zenon
<1>3. call' = [call EXCEPT ![c] = s]
  BY DEF Calling
<1> HIDE DEF s
<1>4. s \in CallRow
  BY <1>2 DEF Same
<1>5. Alone(c) /\ call'[c] = s
  BY <1>3, <1>4, Moves
<1> QED BY <1>2, <1>5 DEF Same

\* The row a call of a kind begins with.
Fresh(r, op, at) ==
  /\ r \in CallRow /\ r.op = op /\ r.at = at
  /\ r.held = 0 /\ r.made = <<>> /\ r.base = 0

LEMMA FreshRow ==
  ASSUME NEW op \in Op, NEW at \in Point
  PROVE  Fresh([Idle EXCEPT !.op = op, !.at = at], op, at)
<1> DEFINE a == [Idle EXCEPT !.op = op]
           b == [a EXCEPT !.at = at]
<1>1. a.op = op /\ Same(a, Idle, {"op"})
  BY IdleRow, RowChange
<1> HIDE DEF a
<1>2. b.at = at /\ Same(b, a, {"at"})
  BY <1>1, RowChange DEF Same
<1> HIDE DEF b
<1>3. Fresh(b, op, at)
  BY <1>1, <1>2, IdleRow DEF Same, Fresh
<1> QED BY <1>3 DEF a, b

LEMMA FreshSame ==
  ASSUME NEW op, NEW at, NEW r, NEW s, Fresh(r, op, at),
         NEW fields \in SUBSET {"serial", "quiz", "session", "right", "topic", "delta"},
         Same(s, r, fields)
  PROVE  Fresh(s, op, at)
BY DEF Fresh, Same

LEMMA BegunRow ==
  ASSUME Placed, NEW c \in Call, NEW op, NEW at, NEW r, Fresh(r, op, at), NEW concern,
         Calling(c, r, concern), trouble' = trouble
  PROVE  Begun(c, op, at) /\ Same(call'[c], r, {})
<1>1. r \in CallRow /\ r.held = 0 /\ begun < MaxCalls /\ call[c].op = "none"
  BY DEF Fresh, Calling
<1>2. Alone(c) /\ Same(call'[c], r, {}) /\ call'[c].held = 0
  BY <1>1, Called
<1> QED BY <1>1, <1>2 DEF Begun, Same, Fresh

LEMMA BeginDoes ==
  ASSUME Typed, NEW c \in Call, Begin(c)
  PROVE  \/ /\ Begun(c, "generateQuiz", "closePrior") /\ repeats' = repeats
            /\ overlaps' = overlaps + Cardinality({d \in Running : call[d].op \in QuizCalls})
         \/ /\ Begun(c, "submitAnswer", "getQuiz") /\ call'[c].quiz \in DOMAIN quizzes
            /\ overlaps' = overlaps + Cardinality({d \in Running : call[d].op \in QuizCalls})
            /\ repeats' = repeats
         \/ /\ \/ Begun(c, "generateStudyPlan", "insertPlan")
               \/ Begun(c, "createAssessment", "createExamTask")
            /\ overlaps' = overlaps + Cardinality({d \in Running : call[d].op \in {}})
            /\ repeats' = repeats
         \/ /\ Begun(c, "rescheduleStudySession", "readSession") /\ call'[c].session \in Sessions
            /\ overlaps' = overlaps + Cardinality({d \in Running : call[d].op \in SessionCalls})
            /\ repeats' = repeats
         \/ /\ Begun(c, "completeStudySession", "readSession") /\ call'[c].session \in Sessions
            /\ call'[c].topic = call'[c].session[2] /\ call'[c].delta = SessionDelta
            /\ overlaps' = overlaps + Cardinality({d \in Running : call[d].op \in SessionCalls})
            /\ BeginCompletion(c)
<1>0. Placed /\ Counts /\ trouble' = trouble /\ Data
  BY DEF Typed, Begin
<1>1. CASE BeginQuiz(c) /\ UNCHANGED repeats
  <2>1. CASE Calling(c, [Idle EXCEPT !.op = "generateQuiz", !.at = "closePrior"], QuizCalls)
    <3>1. Fresh([Idle EXCEPT !.op = "generateQuiz", !.at = "closePrior"],
                "generateQuiz", "closePrior")
      BY FreshRow DEF Op, Point
    <3>2. Begun(c, "generateQuiz", "closePrior")
      BY <1>0, <2>1, <3>1, BegunRow
    <3> QED BY <1>1, <2>1, <3>2 DEF Calling
  <2>2. ASSUME NEW q \in DOMAIN quizzes, NEW right \in BOOLEAN,
               Calling(c, [Idle EXCEPT !.op = "submitAnswer", !.at = "getQuiz",
                                       !.quiz = q, !.right = right], QuizCalls)
        PROVE  /\ Begun(c, "submitAnswer", "getQuiz") /\ call'[c].quiz \in DOMAIN quizzes
               /\ overlaps' = overlaps + Cardinality({d \in Running : call[d].op \in QuizCalls})
    <3> DEFINE a == [Idle EXCEPT !.op = "submitAnswer", !.at = "getQuiz"]
               b == [a EXCEPT !.quiz = q]
               r == [b EXCEPT !.right = right]
    <3>1. Calling(c, r, QuizCalls)
      BY <2>2
    <3>2. Fresh(a, "submitAnswer", "getQuiz") /\ a \in CallRow
      BY FreshRow DEF Op, Point, Fresh
    <3> HIDE DEF a
    <3>3. b.quiz = q /\ Same(b, a, {"quiz"})
      <4>1. q \in Nat
        BY <1>0 DEF Data
      <4> QED BY <3>2, <4>1, RowChange
    <3>4. Fresh(b, "submitAnswer", "getQuiz") /\ b \in CallRow
      BY <3>2, <3>3, FreshSame DEF Fresh
    <3> HIDE DEF b
    <3>5. Same(r, b, {"right"})
      BY <3>4, RowChange DEF Flag
    <3> HIDE DEF r
    <3>6. Fresh(r, "submitAnswer", "getQuiz") /\ r.quiz = q
      BY <3>3, <3>4, <3>5, FreshSame DEF Same
    <3>7. Begun(c, "submitAnswer", "getQuiz") /\ Same(call'[c], r, {})
      BY <1>0, <3>1, <3>6, BegunRow
    <3> QED BY <3>1, <3>6, <3>7 DEF Same, Calling
  <2> QED BY <1>1, <2>1, <2>2 DEF BeginQuiz
<1>2. CASE BeginPlan(c) /\ UNCHANGED repeats
  <2>1. ASSUME NEW op \in Op, NEW at \in Point, NEW concern,
               Calling(c, [Idle EXCEPT !.op = op, !.at = at, !.serial = begun + 1], concern)
        PROVE  Begun(c, op, at)
    <3> DEFINE a == [Idle EXCEPT !.op = op, !.at = at]
               r == [a EXCEPT !.serial = begun + 1]
    <3>1. Fresh(a, op, at) /\ a \in CallRow
      BY FreshRow DEF Fresh
    <3>2. begun + 1 \in 0..MaxCalls
      BY <1>0, <2>1, StudyAssumption DEF Calling, Counts
    <3>3. Calling(c, r, concern)
      BY <2>1
    <3> HIDE DEF a
    <3>4. Same(r, a, {"serial"})
      BY <3>1, <3>2, RowChange
    <3> HIDE DEF r
    <3>5. Fresh(r, op, at)
      BY <3>1, <3>4, FreshSame
    <3> QED BY <1>0, <3>3, <3>5, BegunRow
  <2>2. CASE Calling(c, [Idle EXCEPT !.op = "generateStudyPlan", !.at = "insertPlan",
                                     !.serial = begun + 1], {})
    <3>1. Begun(c, "generateStudyPlan", "insertPlan")
      BY <2>1, <2>2 DEF Op, Point
    <3> QED BY <1>2, <2>2, <3>1 DEF Calling
  <2>3. CASE Calling(c, [Idle EXCEPT !.op = "createAssessment", !.at = "createExamTask",
                                     !.serial = begun + 1], {})
    <3>1. Begun(c, "createAssessment", "createExamTask")
      BY <2>1, <2>3 DEF Op, Point
    <3> QED BY <1>2, <2>3, <3>1 DEF Calling
  <2>4. ASSUME NEW s \in Sessions,
               Calling(c, [Idle EXCEPT !.op = "rescheduleStudySession", !.at = "readSession",
                                       !.session = s, !.serial = begun + 1], SessionCalls)
        PROVE  /\ Begun(c, "rescheduleStudySession", "readSession")
               /\ call'[c].session \in Sessions
               /\ overlaps' = overlaps + Cardinality({d \in Running : call[d].op \in SessionCalls})
    <3> DEFINE a == [Idle EXCEPT !.op = "rescheduleStudySession", !.at = "readSession"]
               b == [a EXCEPT !.session = s]
               r == [b EXCEPT !.serial = begun + 1]
    <3>1. Calling(c, r, SessionCalls)
      BY <2>4
    <3>2. Fresh(a, "rescheduleStudySession", "readSession") /\ a \in CallRow
      BY FreshRow DEF Op, Point, Fresh
    <3>3. begun + 1 \in 0..MaxCalls
      BY <1>0, <2>4, StudyAssumption DEF Calling, Counts
    <3> HIDE DEF a
    <3>4. b.session = s /\ Same(b, a, {"session"})
      <4>1. s \in Nat \X Nat
        BY <1>0, SessionsAre DEF Data
      <4> QED BY <3>2, <4>1, RowChange
    <3>5. Fresh(b, "rescheduleStudySession", "readSession") /\ b \in CallRow
      BY <3>2, <3>4, FreshSame DEF Fresh
    <3> HIDE DEF b
    <3>6. Same(r, b, {"serial"})
      BY <3>3, <3>5, RowChange
    <3> HIDE DEF r
    <3>7. Fresh(r, "rescheduleStudySession", "readSession") /\ r.session = s
      BY <3>4, <3>5, <3>6, FreshSame DEF Same
    <3>8. Begun(c, "rescheduleStudySession", "readSession") /\ Same(call'[c], r, {})
      BY <1>0, <3>1, <3>7, BegunRow
    <3> QED BY <3>1, <3>7, <3>8 DEF Same, Calling
  <2> QED BY <1>2, <2>2, <2>3, <2>4 DEF BeginPlan
<1>3. CASE BeginCompletion(c)
  <2>1. PICK s \in Sessions :
          Calling(c, [Idle EXCEPT !.op = "completeStudySession", !.at = "readSession",
                                  !.session = s, !.topic = s[2],
                                  !.delta = SessionDelta], SessionCalls)
    BY <1>3 DEF BeginCompletion
  <2> DEFINE a == [Idle EXCEPT !.op = "completeStudySession", !.at = "readSession"]
             b == [a EXCEPT !.session = s]
             t == [b EXCEPT !.topic = s[2]]
             r == [t EXCEPT !.delta = SessionDelta]
  <2>2. Calling(c, r, SessionCalls)
    BY <2>1
  <2>3. Fresh(a, "completeStudySession", "readSession") /\ a \in CallRow
    BY FreshRow DEF Op, Point, Fresh
  <2> HIDE DEF a
  <2>4. s \in Nat \X Nat /\ s[2] \in Nat
    BY <1>0, SessionsAre DEF Data
  <2>5. b.session = s /\ Same(b, a, {"session"})
    BY <2>3, <2>4, RowChange
  <2>6. Fresh(b, "completeStudySession", "readSession") /\ b \in CallRow
    BY <2>3, <2>5, FreshSame DEF Fresh
  <2> HIDE DEF b
  <2>7. t.topic = s[2] /\ Same(t, b, {"topic"})
    <3>1. \A x \in Nat : /\ [b EXCEPT !.topic = x].topic = x
                         /\ Same([b EXCEPT !.topic = x], b, {"topic"})
      BY <2>6, RowChange
    <3> QED BY <2>4, <3>1, Zenon
  <2>8. Fresh(t, "completeStudySession", "readSession") /\ t \in CallRow
    BY <2>6, <2>7, FreshSame DEF Fresh
  <2> HIDE DEF t
  <2>9. r.delta = SessionDelta /\ Same(r, t, {"delta"})
    <3>1. \A x \in Int : /\ [t EXCEPT !.delta = x].delta = x
                         /\ Same([t EXCEPT !.delta = x], t, {"delta"})
      BY <2>8, RowChange
    <3>2. SessionDelta \in Int
      BY DEF SessionDelta
    <3> QED BY <3>1, <3>2, Zenon
  <2> HIDE DEF r
  <2>10. /\ Fresh(r, "completeStudySession", "readSession") /\ r.session = s /\ r.topic = s[2]
         /\ r.delta = SessionDelta
    BY <2>5, <2>7, <2>8, <2>9, FreshSame DEF Same
  <2>11. Begun(c, "completeStudySession", "readSession") /\ Same(call'[c], r, {})
    BY <1>0, <2>2, <2>10, BegunRow
  <2> QED BY <1>3, <2>2, <2>10, <2>11 DEF Same, Calling
<1> QED BY <1>1, <1>2, <1>3 DEF Begin

LEMMA AtRow ==
  ASSUME Placed, NEW c \in Call, NEW at \in Point, At(c, at)
  PROVE  /\ call[c] \in CallRow /\ call[c].at = at /\ Staged(call[c].op, at)
         /\ call[c].held = Depth(c) /\ call[c].held \in 1..3
         /\ (at # "idle" => call[c].op # "none")
BY RowAt DEF At, Staged

Leaves(c, at, fields) ==
  /\ Goes(c, fields) /\ call'[c].at = at /\ call'[c].held = call[c].held - 1
  /\ call'[c].base \in 0..MasteryTop

LEMMA ConnectDoes ==
  ASSUME Placed, NEW c \in Call, Connect(c)
  PROVE  /\ Goes(c, {"held"}) /\ call'[c].held = call[c].held + 1
         /\ call[c].held < Depth(c) /\ call[c].op # "none"
<1> DEFINE r == [call[c] EXCEPT !.held = @ + 1]
<1>1. call[c].held + 1 \in 0..3 /\ call[c] \in CallRow /\ call[c].held < Depth(c)
  BY RowAt DEF Connect
<1>2. r.held = call[c].held + 1 /\ Same(r, call[c], {"held"})
  <2>1. \A x \in 0..3 : /\ [call[c] EXCEPT !.held = x].held = x
                        /\ Same([call[c] EXCEPT !.held = x], call[c], {"held"})
    BY <1>1, RowChange
  <2> QED BY <1>1, <2>1, Zenon
<1>3. call' = [call EXCEPT ![c] = r] /\ trouble' = trouble /\ call[c].op # "none"
  BY DEF Connect
<1> HIDE DEF r
<1>4. r \in CallRow
  BY <1>2 DEF Same
<1>5. Alone(c) /\ call'[c] = r
  BY <1>3, <1>4, Moves
<1> QED BY <1>1, <1>2, <1>3, <1>5 DEF Goes

LEMMA ClosePriorDoes ==
  ASSUME Typed, NEW c \in Call, ClosePrior(c)
  PROVE  /\ call[c].at = "closePrior" /\ call[c].op = "generateQuiz"
         /\ Goes(c, {"at", "prior"}) /\ call'[c].at = "insertQuiz" /\ call'[c].prior = Prior
<1> DEFINE a == [call[c] EXCEPT !.at = "insertQuiz"]
           r == [a EXCEPT !.prior = Prior]
<1>1. /\ call[c] \in CallRow /\ call[c].at = "closePrior" /\ call[c].op = "generateQuiz"
      /\ "insertQuiz" \in Point
  BY AtRow DEF Typed, ClosePrior, Staged, Point
<1>2. a.at = "insertQuiz" /\ Same(a, call[c], {"at"})
  BY <1>1, RowChange
<1>3. call' = [call EXCEPT ![c] = r] /\ trouble' = trouble
  <2>1. call' = [[call EXCEPT ![c].at = "insertQuiz"] EXCEPT ![c].prior = Prior]
        /\ trouble' = trouble
    BY DEF ClosePrior
  <2>2. [[call EXCEPT ![c].at = "insertQuiz"] EXCEPT ![c].prior = Prior]
         = [call EXCEPT ![c] = r]
    <3>1. call \in [Call -> CallRow]
      BY DEF Typed, Placed
    <3> HIDE DEF CallRow
    <3> QED BY <3>1
  <2> QED BY <2>1, <2>2
<1> HIDE DEF a
<1>4. r.prior = Prior /\ Same(r, a, {"prior"})
  <2>1. Prior \subseteq Nat
    BY DEF Prior, Typed, Data
  <2>2. \A x \in SUBSET Nat : /\ [a EXCEPT !.prior = x].prior = x
                              /\ Same([a EXCEPT !.prior = x], a, {"prior"})
    BY <1>2, RowChange DEF Same
  <2> QED BY <2>1, <2>2, Zenon
<1> HIDE DEF r
<1>5. r \in CallRow
  BY <1>4 DEF Same
<1>6. Alone(c) /\ call'[c] = r
  BY <1>3, <1>5, Moves DEF Typed
<1>7. Same(r, call[c], {"at", "prior"}) /\ r.at = "insertQuiz"
  BY <1>2, <1>4 DEF Same
<1> QED BY <1>1, <1>3, <1>4, <1>6, <1>7 DEF Goes

LEMMA InsertQuizDoes ==
  ASSUME Typed, NEW c \in Call, InsertQuiz(c)
  PROVE  /\ call[c].at = "insertQuiz" /\ call[c].op = "generateQuiz"
         /\ Ends(c) \/ Falls(c)
<1>1. /\ call[c].at = "insertQuiz" /\ call[c].op = "generateQuiz" /\ call[c].held = Depth(c)
  BY AtRow DEF Typed, InsertQuiz, Staged, Point
<1> QED BY <1>1, Committed, IdleRow DEF Typed, InsertQuiz, Ends

LEMMA GetQuizDoes ==
  ASSUME Typed, NEW c \in Call, GetQuiz(c)
  PROVE  /\ call[c].at = "getQuiz" /\ call[c].op = "submitAnswer"
         /\ \/ Ends(c)
            \/ /\ Leaves(c, "writeAnswer", LeftFields) /\ call'[c].copy = quizzes[call[c].quiz]
               /\ call'[c].base = 0
               /\ Answerable(quizzes[call[c].quiz])
               /\ ~LastAnswered(quizzes[call[c].quiz].index)
<1> DEFINE quiz == quizzes[call[c].quiz]
           a == Left(c, "writeAnswer")
           r == [a EXCEPT !.copy = quiz]
<1>1. /\ call[c] \in CallRow /\ call[c].at = "getQuiz" /\ call[c].op = "submitAnswer"
      /\ call[c].held \in 1..3
  BY AtRow DEF Typed, GetQuiz, Staged, Point
<1>2. CASE Answerable(quiz) /\ ~LastAnswered(quiz.index)
  <2>1. call' = [call EXCEPT ![c] = r] /\ trouble' = trouble
    BY <1>2 DEF GetQuiz
  <2>2. /\ Same(a, call[c], LeftFields) /\ a.at = "writeAnswer" /\ a.held = call[c].held - 1
        /\ a.base = 0
    BY <1>1, LeftRow DEF Point
  <2>3. quiz \in Rows
    <3>1. call[c].quiz \in 1..Len(quizzes)
      BY <1>1 DEF Typed, Placed, Names
    <3> QED BY <3>1 DEF Typed, Data
  <2> HIDE DEF a, quiz
  <2>4. r.copy = quiz /\ Same(r, a, {"copy"})
    BY <2>2, <2>3, RowChange DEF Same
  <2> HIDE DEF r
  <2>5. r \in CallRow
    BY <2>4 DEF Same
  <2>6. Alone(c) /\ call'[c] = r
    BY <2>1, <2>5, Moves DEF Typed
  <2>7. /\ Same(r, call[c], LeftFields) /\ r.at = "writeAnswer" /\ r.held = call[c].held - 1
        /\ r.base = 0
    BY <2>2, <2>4 DEF Same, LeftFields
  <2> QED BY <1>1, <1>2, <2>1, <2>4, <2>6, <2>7, StudyAssumption DEF Leaves, Goes, quiz
<1>3. CASE ~(Answerable(quiz) /\ ~LastAnswered(quiz.index))
  <2>1. call' = [call EXCEPT ![c] = Idle] /\ trouble' = trouble
    BY <1>3 DEF GetQuiz
  <2> QED BY <1>1, <2>1, Moves, IdleRow DEF Ends, Typed
<1> QED BY <1>2, <1>3

LEMMA QuizDeltas == \A score : QuizDelta(score) \in {-2, 0, 2}
BY DEF QuizDelta

WrittenBy(c) == Written(quizzes[call[c].quiz], call[c].copy, call[c].right)

LEMMA WriteAnswerDoes ==
  ASSUME Typed, NEW c \in Call, WriteAnswer(c)
  PROVE  /\ call[c].at = "writeAnswer" /\ call[c].op = "submitAnswer"
         /\ quizzes' = [quizzes EXCEPT ![call[c].quiz] = WrittenBy(c)]
         /\ \/ acked' = acked
            \/ /\ acked' = [acked EXCEPT ![call[c].quiz] = @ + 1]
               /\ call'[c].at # "writeAnswer"
         /\ \/ Ends(c) /\ ~LastAnswered(WrittenBy(c).index)
            \/ /\ LastAnswered(WrittenBy(c).index)
               /\ Leaves(c, "getTopic", LeftFields \cup {"topic", "delta"})
               /\ call'[c].topic = 1 /\ call'[c].delta \in {-2, 0, 2} /\ call'[c].base = 0
            \/ Falls(c)
<1> DEFINE row == WrittenBy(c)
           a == Left(c, "getTopic")
           t == [a EXCEPT !.topic = 1]
           r == [t EXCEPT !.delta = QuizDelta(row.score)]
           next == IF LastAnswered(row.index) THEN r ELSE Idle
<1>1. /\ call[c] \in CallRow /\ call[c].at = "writeAnswer" /\ call[c].op = "submitAnswer"
      /\ call[c].held \in 1..3 /\ call[c].held = Depth(c)
  BY AtRow DEF Typed, WriteAnswer, Staged, Point
<1>2. /\ Commits(c, next) /\ quizzes' = [quizzes EXCEPT ![call[c].quiz] = WrittenBy(c)]
      /\ acked' = IF call'[c] = next THEN [acked EXCEPT ![call[c].quiz] = @ + 1] ELSE acked
  BY DEF WriteAnswer, WrittenBy
<1>3. /\ Same(a, call[c], LeftFields) /\ a.at = "getTopic" /\ a.held = call[c].held - 1
      /\ a.base = 0
  BY <1>1, LeftRow DEF Point
<1> HIDE DEF a, row
<1>4. t.topic = 1 /\ Same(t, a, {"topic"})
  <2>1. \A x \in Nat : /\ [a EXCEPT !.topic = x].topic = x
                       /\ Same([a EXCEPT !.topic = x], a, {"topic"})
    BY <1>3, RowChange DEF Same
  <2>2. 1 \in Nat
    OBVIOUS
  <2> QED BY <2>1, <2>2, Zenon
<1> HIDE DEF t
<1>5. r.delta = QuizDelta(row.score) /\ Same(r, t, {"delta"})
  <2>1. QuizDelta(row.score) \in Int
    BY QuizDeltas
  <2> QED BY <1>4, <2>1, RowChange DEF Same
<1> HIDE DEF r
<1>6. /\ Same(r, call[c], LeftFields \cup {"topic", "delta"}) /\ r.at = "getTopic"
      /\ r.held = call[c].held - 1 /\ r.topic = 1 /\ r.delta \in {-2, 0, 2} /\ r.base = 0
  BY <1>3, <1>4, <1>5, QuizDeltas DEF Same, LeftFields
<1>7. next \in CallRow /\ next.at # "writeAnswer"
  BY <1>6, IdleRow DEF Same
<1> HIDE DEF next
<1>8. (Alone(c) /\ call'[c] = next /\ trouble' = trouble) \/ Falls(c)
  BY <1>1, <1>2, <1>7, Committed DEF Typed
<1>9. CASE LastAnswered(row.index) /\ ~Falls(c)
  <2>1. Alone(c) /\ call'[c] = r /\ trouble' = trouble
    BY <1>8, <1>9 DEF next
  <2> QED BY <1>1, <1>2, <1>6, <1>7, <1>9, <2>1, StudyAssumption DEF Leaves, Goes, row
<1>10. CASE ~LastAnswered(row.index) /\ ~Falls(c)
  <2>1. Ends(c)
    BY <1>8, <1>10 DEF Ends, next
  <2> QED BY <1>1, <1>2, <1>7, <1>10, <2>1 DEF row
<1> QED BY <1>1, <1>2, <1>7, <1>9, <1>10

(* The mastery and the assessments.                                        *)
LEMMA GetTopicDoes ==
  ASSUME Typed, NEW c \in Call, GetTopic(c)
  PROVE  /\ call[c].at = "getTopic" /\ call[c].op \in {"submitAnswer", "completeStudySession"}
         /\ Leaves(c, "setMastery", LeftFields) /\ call'[c].base = level[call[c].topic]
         /\ call[c].topic \in 1..Topics
<1> DEFINE a == Left(c, "setMastery")
           r == [a EXCEPT !.base = level[call[c].topic]]
<1>1. /\ call[c] \in CallRow /\ call[c].at = "getTopic" /\ call[c].held \in 1..3
      /\ call[c].op \in {"submitAnswer", "completeStudySession"}
  BY AtRow DEF Typed, GetTopic, Staged, Point
<1>2. call[c].topic \in 1..Topics
  <2>1. RowOK(call[c]) /\ Names(call[c], Len(quizzes), Len(plans))
    BY DEF Typed, Placed
  <2>2. CASE call[c].op = "submitAnswer"
    BY <1>1, <2>1, <2>2, StudyAssumption DEF RowOK
  <2>3. CASE call[c].op = "completeStudySession"
    BY <1>1, <2>1, <2>3 DEF RowOK, Names, SessionCalls
  <2> QED BY <1>1, <2>2, <2>3
<1>3. level[call[c].topic] \in Nat /\ level[call[c].topic] \in 0..MasteryTop
  BY <1>2, StudyAssumption DEF Typed, Data
<1>4. call' = [call EXCEPT ![c] = r] /\ trouble' = trouble
  BY DEF GetTopic
<1>5. Same(a, call[c], LeftFields) /\ a.at = "setMastery" /\ a.held = call[c].held - 1
  BY <1>1, LeftRow DEF Point
<1> HIDE DEF a
<1>6. r.base = level[call[c].topic] /\ Same(r, a, {"base"})
  <2>1. \A x \in Nat : /\ [a EXCEPT !.base = x].base = x
                       /\ Same([a EXCEPT !.base = x], a, {"base"})
    BY <1>5, RowChange DEF Same
  <2> QED BY <1>3, <2>1, Zenon
<1> HIDE DEF r
<1>7. r \in CallRow /\ Same(r, call[c], LeftFields) /\ r.at = "setMastery" /\ r.held = call[c].held - 1
  BY <1>5, <1>6 DEF Same, LeftFields
<1>8. Alone(c) /\ call'[c] = r
  BY <1>4, <1>7, Moves DEF Typed
<1> QED BY <1>1, <1>2, <1>3, <1>4, <1>6, <1>7, <1>8 DEF Leaves, Goes

LEMMA LeavesOrFalls ==
  ASSUME Placed, NEW c \in Call, call[c].op # "none", call[c].held = Depth(c),
         NEW at \in Point \ {"idle"}, Commits(c, Left(c, at))
  PROVE  Leaves(c, at, LeftFields) \/ Falls(c)
<1> DEFINE r == Left(c, at)
<1>1. call[c].held >= 1 /\ call[c] \in CallRow
  BY RowAt
<1>2. Same(r, call[c], LeftFields) /\ r.at = at /\ r.held = call[c].held - 1 /\ r.base = 0
  BY <1>1, LeftRow
<1>3. Commits(c, r)
  OBVIOUS
<1> HIDE DEF r
<1>4. r \in CallRow
  BY <1>2 DEF Same
<1>5. (Alone(c) /\ call'[c] = r /\ trouble' = trouble) \/ Falls(c)
  BY <1>3, <1>4, Committed
<1> QED BY <1>2, <1>5, StudyAssumption DEF Leaves, Goes

LEMMA SetMasteryDoes ==
  ASSUME Typed, NEW c \in Call, SetMastery(c)
  PROVE  /\ call[c].at = "setMastery"
         /\ \/ call[c].op = "submitAnswer" /\ Ends(c)
            \/ call[c].op = "completeStudySession" /\ Leaves(c, "completeSession", LeftFields)
            \/ call[c].op \in {"submitAnswer", "completeStudySession"} /\ Falls(c)
<1>1. /\ call[c].at = "setMastery" /\ call[c].held = Depth(c)
      /\ call[c].op \in {"submitAnswer", "completeStudySession"}
  BY AtRow DEF Typed, SetMastery, Staged, Point
<1>2. CASE call[c].op = "submitAnswer"
  <2>1. Commits(c, Idle)
    BY <1>2 DEF SetMastery
  <2> QED BY <1>1, <1>2, <2>1, Committed, IdleRow DEF Typed, Ends
<1>3. CASE call[c].op = "completeStudySession"
  <2>1. Commits(c, Left(c, "completeSession"))
    BY <1>3 DEF SetMastery
  <2> QED BY <1>1, <1>3, <2>1, LeavesOrFalls DEF Typed, Point
<1> QED BY <1>1, <1>2, <1>3

LEMMA MadeRow ==
  ASSUME Placed, NEW c \in Call, call[c].op # "none", call[c].held = Depth(c),
         NEW at \in Point \ {"idle"}, NEW made \in Seq(Nat),
         Commits(c, [Left(c, at) EXCEPT !.made = made])
  PROVE  \/ Leaves(c, at, LeftFields \cup {"made"}) /\ call'[c].made = made /\ call'[c].base = 0
         \/ Falls(c)
<1> DEFINE a == Left(c, at)
           r == [a EXCEPT !.made = made]
<1>1. call[c].held >= 1 /\ call[c] \in CallRow
  BY RowAt
<1>2. Same(a, call[c], LeftFields) /\ a.at = at /\ a.held = call[c].held - 1 /\ a.base = 0
  BY <1>1, LeftRow
<1>3. Commits(c, r)
  OBVIOUS
<1> HIDE DEF a
<1>4. r.made = made /\ Same(r, a, {"made"})
  <2>1. \A x \in Seq(Nat) : /\ [a EXCEPT !.made = x].made = x
                            /\ Same([a EXCEPT !.made = x], a, {"made"})
    BY <1>2, RowChange DEF Same
  <2> QED BY <2>1, Zenon
<1> HIDE DEF r
<1>5. /\ r \in CallRow /\ Same(r, call[c], LeftFields \cup {"made"}) /\ r.at = at
      /\ r.held = call[c].held - 1 /\ r.base = 0
  BY <1>2, <1>4 DEF Same, LeftFields
<1>6. (Alone(c) /\ call'[c] = r /\ trouble' = trouble) \/ Falls(c)
  BY <1>3, <1>5, Committed
<1> QED BY <1>4, <1>5, <1>6, StudyAssumption DEF Leaves, Goes

LEMMA CreateExamTaskDoes ==
  ASSUME Typed, NEW c \in Call, CreateExamTask(c)
  PROVE  /\ call[c].at = "createExamTask" /\ call[c].op = "createAssessment"
         /\ \/ /\ Leaves(c, "insertExam", LeftFields \cup {"made"})
               /\ call'[c].made = <<Len(tasks) + 1>> /\ call'[c].base = 0
            \/ Falls(c)
<1>1. /\ call[c].at = "createExamTask" /\ call[c].op = "createAssessment"
      /\ call[c].held = Depth(c) /\ "insertExam" \in Point \ {"idle"}
  BY AtRow DEF Typed, CreateExamTask, Staged, Point
<1>2. tasks \in Seq(TaskRow) /\ Len(tasks) \in Nat
  BY DEF Typed, Data
<1>3. Len(tasks') = Len(tasks) + 1
  BY <1>2 DEF CreateExamTask
<1>4. Commits(c, [Left(c, "insertExam") EXCEPT !.made = <<Len(tasks) + 1>>])
  BY <1>3 DEF CreateExamTask
<1>5. <<Len(tasks) + 1>> \in Seq(Nat)
  BY <1>2
<1> QED BY <1>1, <1>4, <1>5, MadeRow DEF Typed

LEMMA InsertExamDoes ==
  ASSUME Typed, NEW c \in Call, InsertExam(c)
  PROVE  /\ call[c].at = "insertExam" /\ call[c].op = "createAssessment"
         /\ Ends(c) \/ Falls(c)
<1>1. /\ call[c].at = "insertExam" /\ call[c].op = "createAssessment" /\ call[c].held = Depth(c)
  BY AtRow DEF Typed, InsertExam, Staged, Point
<1> QED BY <1>1, Committed, IdleRow DEF Typed, InsertExam, Ends

(* The plans and their sessions.                                           *)
LEMMA InsertPlanDoes ==
  ASSUME Typed, NEW c \in Call, InsertPlan(c)
  PROVE  /\ call[c].at = "insertPlan" /\ call[c].op = "generateStudyPlan"
         /\ Goes(c, {"at", "made"}) /\ call'[c].at = "createTask" /\ call'[c].made = <<>>
<1> DEFINE a == [call[c] EXCEPT !.at = "createTask"]
           r == [a EXCEPT !.made = <<>>]
<1>1. /\ call[c] \in CallRow /\ call[c].at = "insertPlan" /\ call[c].op = "generateStudyPlan"
      /\ "createTask" \in Point
  BY AtRow DEF Typed, InsertPlan, Staged, Point
<1>2. a.at = "createTask" /\ Same(a, call[c], {"at"})
  BY <1>1, RowChange
<1>3. call' = [call EXCEPT ![c] = r] /\ trouble' = trouble
  <2>1. call' = [[call EXCEPT ![c].at = "createTask"] EXCEPT ![c].made = <<>>]
        /\ trouble' = trouble
    BY DEF InsertPlan
  <2>2. [[call EXCEPT ![c].at = "createTask"] EXCEPT ![c].made = <<>>]
         = [call EXCEPT ![c] = r]
    <3>1. call \in [Call -> CallRow]
      BY DEF Typed, Placed
    <3> HIDE DEF CallRow
    <3> QED BY <3>1
  <2> QED BY <2>1, <2>2
<1> HIDE DEF a
<1>4. r.made = <<>> /\ Same(r, a, {"made"})
  <2>1. <<>> \in Seq(Nat)
    OBVIOUS
  <2> QED BY <1>2, <2>1, RowChange DEF Same
<1> HIDE DEF r
<1>5. r \in CallRow
  BY <1>4 DEF Same
<1>6. Alone(c) /\ call'[c] = r
  BY <1>3, <1>5, Moves DEF Typed
<1>7. Same(r, call[c], {"at", "made"}) /\ r.at = "createTask"
  BY <1>2, <1>4 DEF Same
<1> QED BY <1>1, <1>3, <1>4, <1>6, <1>7 DEF Goes

LEMMA CreateTaskDoes ==
  ASSUME Typed, NEW c \in Call, CreateTask(c)
  PROVE  /\ call[c].at = "createTask" /\ call[c].op = "generateStudyPlan"
         /\ \/ /\ \/ /\ Leaves(c, "commitPlan", LeftFields \cup {"made"})
                     /\ Len(call[c].made) + 1 = Topics
                  \/ /\ Leaves(c, "createTask", LeftFields \cup {"made"})
                     /\ Len(call[c].made) + 1 # Topics
               /\ call'[c].made = Append(call[c].made, Len(tasks) + 1) /\ call'[c].base = 0
            \/ Falls(c)
<1> DEFINE made == Append(call[c].made, Len(tasks) + 1)
<1>1. /\ call[c].at = "createTask" /\ call[c].op = "generateStudyPlan" /\ call[c] \in CallRow
      /\ call[c].held = Depth(c) /\ {"createTask", "commitPlan"} \subseteq Point \ {"idle"}
  BY AtRow DEF Typed, CreateTask, Staged, Point
<1>2. call[c].made \in Seq(Nat) /\ Len(tasks) \in Nat
  BY <1>1, RowFields DEF Typed, Data
<1>3. made \in Seq(Nat) /\ Len(made) = Len(call[c].made) + 1
  BY <1>2
<1>4. Commits(c, [Left(c, IF AllCreated(made) THEN "commitPlan" ELSE "createTask")
                     EXCEPT !.made = made])
  BY DEF CreateTask
<1>5. CASE AllCreated(made)
  <2>1. Commits(c, [Left(c, "commitPlan") EXCEPT !.made = made])
    BY <1>4, <1>5
  <2> HIDE DEF made
  <2>2. \/ /\ Leaves(c, "commitPlan", LeftFields \cup {"made"})
           /\ call'[c].made = made /\ call'[c].base = 0
        \/ Falls(c)
    BY <1>1, <1>3, <2>1, MadeRow DEF Typed
  <2> QED BY <1>1, <1>3, <1>5, <2>2 DEF AllCreated, made
<1>6. CASE ~AllCreated(made)
  <2>1. Commits(c, [Left(c, "createTask") EXCEPT !.made = made])
    BY <1>4, <1>6
  <2> HIDE DEF made
  <2>2. \/ /\ Leaves(c, "createTask", LeftFields \cup {"made"})
           /\ call'[c].made = made /\ call'[c].base = 0
        \/ Falls(c)
    BY <1>1, <1>3, <2>1, MadeRow DEF Typed
  <2> QED BY <1>1, <1>3, <1>6, <2>2 DEF AllCreated, made
<1> QED BY <1>5, <1>6

LEMMA CommitPlanDoes ==
  ASSUME Typed, NEW c \in Call, CommitPlan(c)
  PROVE  /\ call[c].at = "commitPlan" /\ call[c].op = "generateStudyPlan"
         /\ Ends(c) \/ Falls(c)
<1>1. /\ call[c].at = "commitPlan" /\ call[c].op = "generateStudyPlan" /\ call[c].held = Depth(c)
  BY AtRow DEF Typed, CommitPlan, Staged, Point
<1> QED BY <1>1, Committed, IdleRow DEF Typed, CommitPlan, Ends

LEMMA ReadSessionDoes ==
  ASSUME Typed, NEW c \in Call, ReadSession(c)
  PROVE  /\ call[c].at = "readSession" /\ Goes(c, {"at"})
         /\ \/ call[c].op = "completeStudySession" /\ call'[c].at = "markDone"
            \/ call[c].op = "rescheduleStudySession" /\ call'[c].at = "moveTask"
<1> DEFINE r == [call[c] EXCEPT !.at = AfterReading(c)]
<1>1. /\ call[c] \in CallRow /\ call[c].at = "readSession"
      /\ call[c].op \in {"completeStudySession", "rescheduleStudySession"}
  BY AtRow DEF Typed, ReadSession, Staged, Point
<1>2. /\ AfterReading(c) \in Point
      /\ call[c].op = "completeStudySession" => AfterReading(c) = "markDone"
      /\ call[c].op = "rescheduleStudySession" => AfterReading(c) = "moveTask"
  BY DEF AfterReading, Point
<1>3. r.at = AfterReading(c) /\ Same(r, call[c], {"at"})
  BY <1>1, <1>2, RowChange
<1>4. call' = [call EXCEPT ![c] = r] /\ trouble' = trouble
  <2>1. call' = [call EXCEPT ![c].at = AfterReading(c)] /\ trouble' = trouble
    BY DEF ReadSession
  <2> QED BY <2>1
<1> HIDE DEF r
<1>5. r \in CallRow
  BY <1>3 DEF Same
<1>6. Alone(c) /\ call'[c] = r
  BY <1>4, <1>5, Moves DEF Typed
<1> QED BY <1>1, <1>2, <1>3, <1>4, <1>6 DEF Goes

LEMMA MarkDoneDoes ==
  ASSUME Typed, NEW c \in Call, MarkDone(c)
  PROVE  /\ call[c].at = "markDone" /\ call[c].op = "completeStudySession"
         /\ Leaves(c, "getTopic", LeftFields) \/ Falls(c)
<1>1. /\ call[c].at = "markDone" /\ call[c].op = "completeStudySession"
      /\ call[c].held = Depth(c) /\ "getTopic" \in Point \ {"idle"}
  BY AtRow DEF Typed, MarkDone, Staged, Point
<1> QED BY <1>1, LeavesOrFalls DEF Typed, MarkDone

LEMMA CompleteSessionDoes ==
  ASSUME Typed, NEW c \in Call, CompleteSession(c)
  PROVE  /\ call[c].at = "completeSession" /\ call[c].op = "completeStudySession"
         /\ Ends(c) \/ Falls(c)
<1>1. /\ call[c].at = "completeSession" /\ call[c].op = "completeStudySession"
      /\ call[c].held = Depth(c)
  BY AtRow DEF Typed, CompleteSession, Staged, Point
<1> QED BY <1>1, Committed, IdleRow DEF Typed, CompleteSession, Ends

LEMMA MoveTaskDoes ==
  ASSUME Typed, NEW c \in Call, MoveTask(c)
  PROVE  /\ call[c].at = "moveTask" /\ call[c].op = "rescheduleStudySession"
         /\ Leaves(c, "moveSession", LeftFields) \/ Falls(c)
<1>1. /\ call[c].at = "moveTask" /\ call[c].op = "rescheduleStudySession"
      /\ call[c].held = Depth(c) /\ "moveSession" \in Point \ {"idle"}
  BY AtRow DEF Typed, MoveTask, Staged, Point
<1> QED BY <1>1, LeavesOrFalls DEF Typed, MoveTask

LEMMA MoveSessionDoes ==
  ASSUME Typed, NEW c \in Call, MoveSession(c)
  PROVE  /\ call[c].at = "moveSession" /\ call[c].op = "rescheduleStudySession"
         /\ Ends(c) \/ Falls(c)
<1>1. /\ call[c].at = "moveSession" /\ call[c].op = "rescheduleStudySession"
      /\ call[c].held = Depth(c)
  BY AtRow DEF Typed, MoveSession, Staged, Point
<1> QED BY <1>1, Committed, IdleRow DEF Typed, MoveSession, Ends

LEMMA FailsDoes ==
  ASSUME Placed, NEW c \in Call, Fails(c)
  PROVE  call[c].op # "none" /\ Falls(c)
<1>1. PICK lost \in BOOLEAN : call' = [call EXCEPT ![c] = Thrown(c, lost)]
  BY DEF Fails
<1>2. Threw(Thrown(c, lost), call[c]) /\ Thrown(c, lost) \in CallRow
  <2>1. Threw(Thrown(c, lost), call[c])
    BY RowAt, ThrownRow DEF Fails
  <2> QED BY <2>1, ThrewRow
<1> QED BY <1>1, <1>2, Moves DEF Falls, Fails, MoreTrouble

-----------------------------------------------------------------------------
(* A row computed from a sound copy is sound.                              *)

LEMMA SoundNew == Sound(NewQuiz) /\ NewQuiz.status = "ACTIVE" /\ NewQuiz.index = 0
<1>1. NewQuiz \in Rows
  BY IdleRow
<1>2. /\ NewQuiz.status = "ACTIVE" /\ NewQuiz.index = 0 /\ NewQuiz.score = 0
      /\ NewQuiz.answers = <<>>
  BY DEF NewQuiz
<1>3. RightOnes(<<>>) = {} /\ Len(<<>>) = 0
  BY DEF RightOnes
<1>4. Cardinality(RightOnes(<<>>)) = 0
  BY <1>3, FS_EmptySet
<1>5. ~LastAnswered(0)
  BY StudyAssumption DEF LastAnswered
<1> HIDE DEF NewQuiz, Rows, RightOnes
<1> QED BY <1>1, <1>2, <1>3, <1>4, <1>5 DEF Sound

LEMMA RowParts ==
  ASSUME NEW row \in Rows
  PROVE  /\ row.status \in Status /\ row.index \in Index /\ row.score \in Index
         /\ row.answers \in Seq(Flag)
<1> HIDE DEF Flag, Index, Status
<1> QED BY RowsNamed

LEMMA SoundClosed ==
  ASSUME NEW row, Sound(row)
  PROVE  /\ Sound([row EXCEPT !.status = "COMPLETED"])
         /\ [row EXCEPT !.status = "COMPLETED"].index = row.index
         /\ [row EXCEPT !.status = "COMPLETED"].status = "COMPLETED"
<1> DEFINE s == [row EXCEPT !.status = "COMPLETED"]
<1>1. row \in Rows
  BY DEF Sound
<1>2. /\ s \in Rows /\ s.status = "COMPLETED" /\ s.index = row.index /\ s.score = row.score
      /\ s.answers = row.answers
  <2>1. "COMPLETED" \in Status
    BY DEF Status
  <2> HIDE DEF Status, Flag, Index
  <2> QED BY <1>1, <2>1, RowsNamed
<1> HIDE DEF s, Rows
<1>3. Sound(s)
  BY <1>2 DEF Sound, Answerable
<1> QED BY <1>2, <1>3 DEF s

LEMMA RightAppended ==
  ASSUME NEW answers \in Seq(Flag), NEW right \in BOOLEAN
  PROVE  /\ Append(answers, right) \in Seq(Flag)
         /\ Len(Append(answers, right)) = Len(answers) + 1
         /\ Cardinality(RightOnes(answers)) \in 0..Len(answers)
         /\ Cardinality(RightOnes(Append(answers, right)))
              = Cardinality(RightOnes(answers)) + (IF right THEN 1 ELSE 0)
<1> DEFINE n == Len(answers)
<1>1. n \in Nat /\ DOMAIN answers = 1..n
  OBVIOUS
<1>2. /\ Append(answers, right) \in Seq(Flag) /\ Len(Append(answers, right)) = n + 1
      /\ DOMAIN Append(answers, right) = 1..(n + 1)
  BY DEF Flag
<1>3. \A i \in 1..n : Append(answers, right)[i] = answers[i]
  OBVIOUS
<1>4. Append(answers, right)[n + 1] = right
  OBVIOUS
<1>5. 1..(n + 1) = (1..n) \cup {n + 1} /\ n + 1 \notin 1..n
  BY <1>1
<1>6. IsFiniteSet(RightOnes(answers)) /\ Cardinality(RightOnes(answers)) \in 0..n
  <2>1. IsFiniteSet(1..n) /\ Cardinality(1..n) = n
    <3> HIDE DEF n
    <3>1. 1 \in Int /\ n \in Int
      BY <1>1
    <3>2. IsFiniteSet(1..n) /\ Cardinality(1..n) = IF 1 > n THEN 0 ELSE n - 1 + 1
      BY <3>1, FS_Interval
    <3> QED BY <1>1, <3>2
  <2>2. RightOnes(answers) \in SUBSET (1..n)
    BY <1>1, Zenon DEF RightOnes
  <2>3. IsFiniteSet(RightOnes(answers)) /\ Cardinality(RightOnes(answers)) <= n
    BY <2>1, <2>2, FS_Subset
  <2>4. Cardinality(RightOnes(answers)) \in Nat
    BY <2>3, FS_CardinalityType
  <2> QED BY <1>1, <2>3, <2>4
<1>7. n + 1 \notin RightOnes(answers)
  BY <1>1, <1>5, Zenon DEF RightOnes
<1>8. CASE right
  <2>1. RightOnes(Append(answers, right)) = RightOnes(answers) \cup {n + 1}
    BY <1>1, <1>2, <1>3, <1>4, <1>5, <1>8, Zenon DEF RightOnes
  <2> QED BY <1>2, <1>6, <1>7, <1>8, <2>1, FS_AddElement
<1>9. CASE ~right
  <2>1. RightOnes(Append(answers, right)) = RightOnes(answers)
    BY <1>1, <1>2, <1>3, <1>4, <1>5, <1>9, Zenon DEF RightOnes
  <2> QED BY <1>2, <1>6, <1>9, <2>1
<1> QED BY <1>8, <1>9

LEMMA SoundWritten ==
  ASSUME NEW now, NEW copy, Sound(copy), ~LastAnswered(copy.index), NEW right \in BOOLEAN
  PROVE  /\ Sound(Written(now, copy, right))
         /\ Written(now, copy, right).index = copy.index + 1
         /\ copy.index \in 0..(TotalQuestions - 1)
         /\ Written(now, copy, right).status \in {"ANSWERING", "COMPLETED"}
<1> DEFINE row == Written(now, copy, right)
<1>1. /\ copy \in Rows /\ copy.index = Len(copy.answers)
      /\ copy.score = Cardinality(RightOnes(copy.answers))
  BY DEF Sound
<1>2. copy.answers \in Seq(Flag) /\ copy.index \in Index /\ copy.score \in Index
  BY <1>1, RowParts
<1>3. /\ Append(copy.answers, right) \in Seq(Flag)
      /\ Len(Append(copy.answers, right)) = Len(copy.answers) + 1
      /\ Cardinality(RightOnes(copy.answers)) \in 0..Len(copy.answers)
      /\ Cardinality(RightOnes(Append(copy.answers, right)))
           = Cardinality(RightOnes(copy.answers)) + (IF right THEN 1 ELSE 0)
  BY <1>2, RightAppended
<1>4. copy.index + 1 \in Index /\ copy.index \in 0..(TotalQuestions - 1)
  BY <1>2, StudyAssumption DEF LastAnswered, Index
<1>5. copy.score + (IF right THEN 1 ELSE 0) \in Index
  <2>1. copy.score <= copy.index
    BY <1>1, <1>2, <1>3 DEF Index
  <2> QED BY <1>2, <1>4, <2>1, StudyAssumption DEF Index
<1>6. /\ row.status = (IF LastAnswered(copy.index + 1) THEN "COMPLETED" ELSE "ANSWERING")
      /\ row.index = copy.index + 1 /\ row.score = copy.score + (IF right THEN 1 ELSE 0)
      /\ row.answers = Append(copy.answers, right)
  BY DEF Written
<1>7. row \in Rows
  <2>1. (IF LastAnswered(copy.index + 1) THEN "COMPLETED" ELSE "ANSWERING") \in Status
    BY DEF Status
  <2> HIDE DEF Status, Flag, Index, LastAnswered
  <2> QED BY <1>3, <1>4, <1>5, <2>1, RowsNamed, Zenon DEF Written
<1> HIDE DEF row
<1>8. row.index = Len(row.answers) /\ row.score = Cardinality(RightOnes(row.answers))
  BY <1>1, <1>3, <1>6
<1>9. Answerable(row) => ~LastAnswered(row.index)
  BY <1>6 DEF Answerable
<1>10. row.status \in {"ANSWERING", "COMPLETED"}
  BY <1>6
<1>11. Sound(row)
  BY <1>7, <1>8, <1>9, <1>10 DEF Sound
<1> QED BY <1>4, <1>6, <1>10, <1>11 DEF row

-----------------------------------------------------------------------------
(* The types hold after every step.                                        *)

LEMMA CountsKeep ==
  ASSUME Counts, UNCHANGED history, trouble' = trouble \/ MoreTrouble
  PROVE  Counts'
BY StudyAssumption DEF Counts, history, MoreTrouble

LEMMA PlacedKept ==
  ASSUME Placed, NEW c \in Call, Alone(c), RowOK(call'[c]),
         quizzes \in Seq(Rows), quizzes' \in Seq(Rows), plans \in Seq(Plan), plans' \in Seq(Plan),
         Len(quizzes) <= Len(quizzes'), Len(plans) <= Len(plans'),
         Names(call'[c], Len(quizzes'), Len(plans'))
  PROVE  Placed'
<1>1. /\ Len(quizzes) \in Nat /\ Len(quizzes') \in Nat
      /\ Len(plans) \in Nat /\ Len(plans') \in Nat
  OBVIOUS
<1>2. ASSUME NEW d \in Call PROVE RowOK(call'[d]) /\ Names(call'[d], Len(quizzes'), Len(plans'))
  <2>1. CASE d = c
    BY <2>1
  <2>2. CASE d # c
    <3>1. call'[d] = call[d]
      BY <2>2 DEF Alone
    <3>2. RowOK(call[d]) /\ Names(call[d], Len(quizzes), Len(plans))
      BY DEF Placed
    <3>3. Names(call[d], Len(quizzes'), Len(plans'))
      BY <1>1, <3>2, NamesGrow
    <3> QED BY <3>1, <3>2, <3>3
  <2> QED BY <2>1, <2>2
<1> QED BY <1>2 DEF Placed, Alone

LEMMA RowIdle ==
  \A rows, made : RowOK(Idle) /\ Names(Idle, rows, made)
<1>1. Len(<<>>) = 0
  OBVIOUS
<1>2. Staged(Idle.op, Idle.at) /\ Deep(Idle.op, Idle.at) \in 1..3
  BY IdleRow, Deeps DEF Staged
<1> QED BY <1>1, <1>2, IdleRow, StudyAssumption DEF RowOK, Names, SessionCalls

\* What call c names in the rows before the step.
LEMMA NamedBefore ==
  ASSUME Typed, NEW c \in Call
  PROVE  /\ RowOK(call[c]) /\ Names(call[c], Len(quizzes), Len(plans))
         /\ call[c].op = "submitAnswer" =>
              /\ call[c].quiz \in DOMAIN quizzes /\ DOMAIN quizzes = 1..Len(quizzes)
              /\ Sound(quizzes[call[c].quiz])
         /\ call[c].op \in SessionCalls =>
              /\ call[c].session \in Sessions /\ Session(call[c].session) \in SessionRow
              /\ call[c].session[1] \in DOMAIN plans /\ call[c].session[2] \in 1..Topics
<1>1. /\ RowOK(call[c]) /\ Names(call[c], Len(quizzes), Len(plans))
  BY DEF Typed, Placed
<1>2. /\ quizzes \in Seq(Rows) /\ plans \in Seq(Plan) /\ \A q \in DOMAIN quizzes : Sound(quizzes[q])
  BY DEF Typed, Data
<1>3. DOMAIN quizzes = 1..Len(quizzes) /\ DOMAIN plans = 1..Len(plans)
  BY <1>2
<1>4. Sessions = (1..Len(plans)) \X (1..Topics)
  BY <1>2, SessionsAre
<1>5. \A p \in 1..Len(plans), t \in 1..Topics : plans[p][t] \in SessionRow
  <2>1. \A p \in 1..Len(plans) : plans[p] \in Plan
    <3> HIDE DEF Plan
    <3> QED BY <1>2
  <2>2. \A f \in Plan, t \in 1..Topics : f[t] \in SessionRow
    <3> HIDE DEF SessionRow
    <3> QED BY DEF Plan
  <2> QED BY <2>1, <2>2
<1>6. \A s \in Sessions : s[1] \in 1..Len(plans) /\ s[2] \in 1..Topics
  BY <1>4
<1> QED BY <1>1, <1>2, <1>3, <1>4, <1>5, <1>6 DEF Names, Session

LEMMA FallsPlaced ==
  ASSUME Typed, NEW c \in Call, call[c].op # "none", Falls(c) \/ Ends(c),
         quizzes' \in Seq(Rows), plans' \in Seq(Plan),
         Len(quizzes) <= Len(quizzes'), Len(plans) <= Len(plans')
  PROVE  Placed'
<1>1. /\ RowOK(call[c]) /\ Names(call[c], Len(quizzes), Len(plans)) /\ Alone(c)
      /\ quizzes \in Seq(Rows) /\ plans \in Seq(Plan) /\ Placed
  BY NamedBefore DEF Falls, Ends, Typed, Data
<1>2. /\ Len(quizzes) \in Nat /\ Len(quizzes') \in Nat
      /\ Len(plans) \in Nat /\ Len(plans') \in Nat
  BY <1>1
<1>3. RowOK(call'[c]) /\ Names(call'[c], Len(quizzes), Len(plans))
  <2>1. CASE Falls(c)
    <3> DEFINE s == call'[c]
    <3>1. Threw(s, call[c])
      BY <2>1 DEF Falls
    <3> HIDE DEF s
    <3>2. RowOK(s) /\ Names(s, Len(quizzes), Len(plans))
      BY <1>1, <1>2, <3>1, ThrewKeeps
    <3> QED BY <3>2 DEF s
  <2>2. CASE Ends(c)
    BY <2>2, RowIdle DEF Ends
  <2> QED BY <2>1, <2>2
<1>4. Names(call'[c], Len(quizzes'), Len(plans'))
  BY <1>2, <1>3, NamesGrow
<1> QED BY <1>1, <1>3, <1>4, PlacedKept

\* A step within the rows as they are: the row of the call is checked.
LEMMA GoesPlaced ==
  ASSUME Typed, NEW c \in Call, Alone(c), RowOK(call'[c]),
         quizzes' \in Seq(Rows), Len(quizzes') = Len(quizzes), plans' = plans,
         Names(call'[c], Len(quizzes), Len(plans))
  PROVE  Placed'
<1>1. quizzes \in Seq(Rows) /\ plans \in Seq(Plan) /\ Placed
  BY DEF Typed, Data
<1>2. Len(quizzes) \in Nat /\ Len(plans) \in Nat
  BY <1>1
<1> QED BY <1>1, <1>2, PlacedKept

LEMMA DataKeep ==
  ASSUME Data, UNCHANGED <<quizVars, planVars, level>> PROVE Data'
BY DEF Data, quizVars, planVars, Sessions

LEMMA BeginTyped ==
  ASSUME Typed, NEW c \in Call, Begin(c) PROVE Typed'
<1>1. UNCHANGED <<quizVars, planVars, level, trouble>>
  BY DEF Begin
<1>2. Data'
  BY <1>1, DataKeep DEF Typed
<1>3. \A concern : Cardinality({d \in Running : call[d].op \in concern}) \in Nat
  <2> SUFFICES ASSUME NEW concern
               PROVE  Cardinality({d \in Running : call[d].op \in concern}) \in Nat
    OBVIOUS
  <2>1. {d \in Running : call[d].op \in concern} \in SUBSET Call
    BY DEF Running
  <2> QED BY <2>1, StudyAssumption, FS_Subset, FS_CardinalityType
<1>4. begun' = begun + 1 /\ begun < MaxCalls
  BY DEF Begin, BeginQuiz, BeginPlan, BeginCompletion, Calling
<1>5. overlaps' \in Nat /\ repeats' \in Nat
  <2>1. overlaps \in Nat /\ repeats \in Nat
    BY DEF Typed, Counts
  <2>2. repeats' \in Nat
    <3>1. repeats' = repeats \/ repeats' = repeats + 1
      BY DEF Begin, BeginCompletion
    <3> QED BY <2>1, <3>1
  <2>3. \E n \in Nat : overlaps' = overlaps + n
    BY <1>3, BeginDoes
  <2> QED BY <2>1, <2>2, <2>3
<1>6. Counts'
  BY <1>1, <1>4, <1>5, StudyAssumption DEF Typed, Counts
<1>7. Placed'
  <2> DEFINE s == call'[c]
  <2>0. /\ quizzes \in Seq(Rows) /\ plans \in Seq(Plan) /\ quizzes' = quizzes /\ plans' = plans
    BY <1>1 DEF Typed, Data, quizVars, planVars
  <2>1. ASSUME NEW op, NEW at, Begun(c, op, at), Staged(op, at), op # "none",
               at \notin {"getTopic", "setMastery", "createTask", "commitPlan", "writeAnswer",
                          "insertQuiz"},
               op = "submitAnswer" => s.quiz \in DOMAIN quizzes,
               op \in SessionCalls => s.session \in Sessions,
               op = "completeStudySession" => s.topic = s.session[2] /\ s.delta = SessionDelta
        PROVE  Placed'
    <3>1. /\ Alone(c) /\ s \in CallRow /\ s.op = op /\ s.at = at /\ s.held = 0 /\ s.base = 0
          /\ s.made = <<>>
      BY <2>1 DEF Begun, Alone
    <3>2. Len(s.made) = 0
      BY <3>1
    <3>3. Deep(op, at) \in 1..3
      BY <2>1, Deeps
    <3>4. Sessions = (1..Len(plans)) \X (1..Topics) /\ DOMAIN quizzes = 1..Len(quizzes)
      BY <2>0, SessionsAre
    <3> HIDE DEF s
    <3>5. RowOK(s)
      BY <2>1, <3>1, <3>2, <3>3, StudyAssumption DEF RowOK
    <3>6. Names(s, Len(quizzes), Len(plans))
      BY <2>1, <3>1, <3>4 DEF Names
    <3> QED BY <2>0, <3>1, <3>5, <3>6, GoesPlaced DEF s
  <2>2. CASE Begun(c, "generateQuiz", "closePrior")
    BY <2>1, <2>2 DEF Staged, SessionCalls
  <2>3. CASE Begun(c, "submitAnswer", "getQuiz") /\ call'[c].quiz \in DOMAIN quizzes
    BY <2>1, <2>3 DEF Staged, SessionCalls
  <2>4. CASE Begun(c, "generateStudyPlan", "insertPlan")
    BY <2>1, <2>4 DEF Staged, SessionCalls
  <2>5. CASE Begun(c, "createAssessment", "createExamTask")
    BY <2>1, <2>5 DEF Staged, SessionCalls
  <2>6. CASE Begun(c, "rescheduleStudySession", "readSession") /\ call'[c].session \in Sessions
    BY <2>1, <2>6 DEF Staged, SessionCalls
  <2>7. CASE /\ Begun(c, "completeStudySession", "readSession") /\ call'[c].session \in Sessions
             /\ call'[c].topic = call'[c].session[2] /\ call'[c].delta = SessionDelta
    BY <2>1, <2>7 DEF Staged, SessionCalls
  <2> QED BY <2>2, <2>3, <2>4, <2>5, <2>6, <2>7, BeginDoes
<1> QED BY <1>2, <1>6, <1>7 DEF Typed

LEMMA ConnectTyped ==
  ASSUME Typed, NEW c \in Call, Connect(c) \/ Fails(c) PROVE Typed'
<1>1. UNCHANGED <<quizVars, planVars, level>> /\ UNCHANGED history /\ (trouble' = trouble \/ MoreTrouble)
  BY DEF Connect, Fails
<1>2. Data' /\ Counts'
  BY <1>1, DataKeep, CountsKeep DEF Typed
<1>3. /\ quizzes \in Seq(Rows) /\ plans \in Seq(Plan) /\ quizzes' = quizzes /\ plans' = plans
      /\ Len(quizzes) \in Nat /\ Len(plans) \in Nat
  BY <1>1 DEF Typed, Data, quizVars, planVars
<1>4. CASE Connect(c)
  <2> DEFINE s == call'[c]
             r == call[c]
  <2>1. /\ Goes(c, {"held"}) /\ s.held = r.held + 1 /\ r.held < Depth(c) /\ r.op # "none"
    BY <1>4, ConnectDoes DEF Typed
  <2>2. /\ RowOK(r) /\ Names(r, Len(quizzes), Len(plans)) /\ r.held \in 0..3
        /\ Depth(c) = Deep(r.op, r.at) /\ Depth(c) \in 1..3
    BY RowAt, NamedBefore DEF Typed
  <2>3. Alone(c) /\ Same(s, r, {"held"})
    BY <2>1 DEF Goes
  <2> HIDE DEF s, r
  <2>4. s \in CallRow
    BY <2>3 DEF Same
  <2>5. /\ s.op = r.op /\ s.at = r.at /\ s.session = r.session /\ s.quiz = r.quiz
        /\ s.prior = r.prior /\ s.made = r.made /\ s.topic = r.topic /\ s.delta = r.delta
        /\ s.copy = r.copy /\ s.base = r.base
    BY <2>3 DEF Same
  <2>6. s.held <= Deep(r.op, r.at)
    BY <2>1, <2>2
  <2>7. RowOK(s)
    <3> HIDE DEF Staged, Deep, Sound, LastAnswered, CallRow
    <3> QED BY <2>1, <2>2, <2>4, <2>5, <2>6 DEF RowOK
  <2>8. Names(s, Len(quizzes), Len(plans))
    BY <2>2, <2>5 DEF Names
  <2> QED BY <1>2, <1>3, <2>3, <2>7, <2>8, GoesPlaced DEF s, Typed
<1>5. CASE Fails(c)
  <2>1. call[c].op # "none" /\ Falls(c)
    BY <1>5, FailsDoes DEF Typed
  <2> QED BY <1>2, <1>3, <2>1, FallsPlaced DEF Typed
<1> QED BY <1>4, <1>5

LEMMA CrashTyped ==
  ASSUME Typed, Crash PROVE Typed'
<1>1. UNCHANGED <<quizVars, planVars, level>> /\ UNCHANGED history /\ (trouble' = trouble \/ MoreTrouble)
  BY DEF Crash
<1>2. Data' /\ Counts'
  BY <1>1, DataKeep, CountsKeep DEF Typed
<1>3. call' = [c \in Call |-> Idle]
  BY DEF Crash
<1>4. call' \in [Call -> CallRow] /\ \A c \in Call : call'[c] = Idle
  <2> HIDE DEF Idle, CallRow
  <2> QED BY <1>3, IdleRow
<1>5. Placed'
  BY <1>4, RowIdle DEF Placed
<1> QED BY <1>2, <1>5 DEF Typed

\* A step that leaves a scope, the rows as many as they were.
LEMMA LeavesPlaced ==
  ASSUME Typed, NEW c \in Call, NEW at,
         NEW fields \in SUBSET (LeftFields \cup {"topic", "delta", "made"}),
         Leaves(c, at, fields), call[c].op # "none", call[c].held = Depth(c),
         Staged(call[c].op, at), Deep(call[c].op, at) >= Deep(call[c].op, call[c].at) - 1,
         at # "insertQuiz",
         call[c].op = "completeStudySession" =>
           call'[c].topic = call[c].topic /\ call'[c].delta = call[c].delta,
         call[c].op = "submitAnswer" /\ at \in {"getTopic", "setMastery"} =>
           call'[c].topic = 1 /\ call'[c].delta \in {-2, 0, 2},
         Len(call'[c].made) <= Topics,
         at = "createTask" => Len(call'[c].made) < Topics,
         at = "commitPlan" => Len(call'[c].made) = Topics,
         at = "writeAnswer" => Sound(call'[c].copy) /\ ~LastAnswered(call'[c].copy.index),
         quizzes' \in Seq(Rows), Len(quizzes') = Len(quizzes), plans' = plans
  PROVE  Placed'
<1> DEFINE s == call'[c]
           r == call[c]
<1>1. /\ Alone(c) /\ Same(s, r, fields) /\ s.at = at /\ s.held = r.held - 1 /\ s.base <= MasteryTop
  BY StudyAssumption DEF Leaves, Goes
<1>2. /\ RowOK(r) /\ Names(r, Len(quizzes), Len(plans)) /\ r.held = Deep(r.op, r.at)
      /\ Deep(r.op, r.at) \in 1..3
  BY RowAt, NamedBefore DEF Typed
<1>3. Deep(r.op, at) \in 1..3
  BY Deeps
<1> HIDE DEF s, r
<1>4. s \in CallRow
  BY <1>1 DEF Same
<1>5. s.op = r.op /\ s.session = r.session /\ s.quiz = r.quiz
  BY <1>1 DEF Same, LeftFields
<1>6. s.held <= Deep(s.op, s.at)
  BY <1>1, <1>2, <1>3, <1>5 DEF r
<1>7. Staged(s.op, s.at) /\ s.op # "none"
  BY <1>1, <1>5 DEF r
<1>8. RowOK(s)
  <2>1. s.op = "completeStudySession" => s.topic = s.session[2] /\ s.delta = SessionDelta
    BY <1>2, <1>5 DEF RowOK, r, s
  <2>2. s.op = "submitAnswer" /\ s.at \in {"getTopic", "setMastery"} =>
          s.topic = 1 /\ s.delta \in {-2, 0, 2}
    BY <1>1, <1>5 DEF r, s
  <2>3. /\ s.at = "createTask" => Len(s.made) < Topics
        /\ s.at = "commitPlan" => Len(s.made) = Topics
        /\ Len(s.made) <= Topics
        /\ s.at = "writeAnswer" => Sound(s.copy) /\ ~LastAnswered(s.copy.index)
    BY <1>1 DEF s
  <2> HIDE DEF Sound, LastAnswered, Deep, Staged, CallRow
  <2> QED BY <1>1, <1>4, <1>6, <1>7, <2>1, <2>2, <2>3 DEF RowOK
<1>9. Names(s, Len(quizzes), Len(plans))
  BY <1>1, <1>2, <1>5 DEF Names, r
<1> QED BY <1>1, <1>8, <1>9, GoesPlaced DEF s

LEMMA DataOf ==
  ASSUME Typed
  PROVE  /\ quizzes \in Seq(Rows) /\ plans \in Seq(Plan) /\ tasks \in Seq(TaskRow)
         /\ Len(quizzes) \in Nat /\ Len(plans) \in Nat /\ Len(tasks) \in Nat
         /\ DOMAIN quizzes = 1..Len(quizzes) /\ DOMAIN acked = DOMAIN quizzes
         /\ Len(acked) = Len(quizzes)
         /\ acked \in Seq(Nat) /\ exams \in Seq(Nat) /\ Data /\ Counts /\ Placed
BY DEF Typed, Data

LEMMA ClosePriorTyped ==
  ASSUME Typed, NEW c \in Call, ClosePrior(c) PROVE Typed'
<1>1. UNCHANGED <<quizVars, planVars, level>> /\ UNCHANGED history /\ trouble' = trouble
  BY DEF ClosePrior
<1>2. Data' /\ Counts'
  BY <1>1, DataKeep, CountsKeep DEF Typed
<1>3. /\ quizzes \in Seq(Rows) /\ quizzes' = quizzes /\ plans' = plans
  BY <1>1, DataOf DEF quizVars, planVars
<1> DEFINE s == call'[c]
           r == call[c]
<1>4. /\ r.at = "closePrior" /\ r.op = "generateQuiz" /\ Alone(c) /\ Same(s, r, {"at", "prior"})
      /\ s.at = "insertQuiz" /\ s.prior = Prior
  BY ClosePriorDoes DEF Goes
<1>5. RowOK(r) /\ Prior \subseteq 1..Len(quizzes)
  BY <1>3, NamedBefore DEF Prior
<1> HIDE DEF s, r
<1>6. /\ s.op = "generateQuiz" /\ s.held = r.held /\ s.made = r.made /\ s.base = r.base
      /\ s \in CallRow
  BY <1>4 DEF Same
<1>7. Deep("generateQuiz", "closePrior") = 1 /\ Deep("generateQuiz", "insertQuiz") = 1
  BY Deeps DEF Staged, Point
<1>8. RowOK(s)
  <2>1. s.held <= Deep(s.op, s.at)
    BY <1>4, <1>5, <1>6, <1>7 DEF RowOK
  <2> QED BY <1>4, <1>5, <1>6, <2>1 DEF RowOK, Staged
<1>9. Names(s, Len(quizzes), Len(plans))
  BY <1>4, <1>5, <1>6 DEF Names, SessionCalls
<1> QED BY <1>2, <1>3, <1>4, <1>8, <1>9, GoesPlaced DEF s, Typed

LEMMA InsertQuizTyped ==
  ASSUME Typed, NEW c \in Call, InsertQuiz(c) PROVE Typed'
<1> DEFINE closed == [q \in DOMAIN quizzes |->
                        IF q \in call[c].prior THEN [quizzes[q] EXCEPT !.status = "COMPLETED"]
                        ELSE quizzes[q]]
<1>1. /\ quizzes' = Append(closed, NewQuiz) /\ acked' = Append(acked, 0)
      /\ UNCHANGED planVars /\ UNCHANGED level /\ UNCHANGED history
      /\ trouble' = trouble \/ MoreTrouble
  BY DEF InsertQuiz, Commits
<1>2. \A q \in 1..Len(quizzes) : Sound(closed[q])
  BY DataOf, SoundClosed DEF Data
<1>3. closed \in Seq(Rows) /\ Len(closed) = Len(quizzes) /\ DOMAIN closed = 1..Len(quizzes)
  <2>1. \A q \in 1..Len(quizzes) : closed[q] \in Rows
    BY <1>2 DEF Sound
  <2>2. closed = [q \in 1..Len(quizzes) |-> closed[q]] /\ Len(quizzes) \in Nat
    BY DataOf
  <2> HIDE DEF closed
  <2>3. closed \in [1..Len(quizzes) -> Rows]
    BY <2>1, <2>2
  <2> QED BY <2>2, <2>3
<1> HIDE DEF closed
<1>4. /\ quizzes' \in Seq(Rows) /\ Len(quizzes') = Len(quizzes) + 1
      /\ DOMAIN quizzes' = 1..(Len(quizzes) + 1)
      /\ \A q \in 1..Len(quizzes) : quizzes'[q] = closed[q]
      /\ quizzes'[Len(quizzes) + 1] = NewQuiz
  <2>1. NewQuiz \in Rows /\ Len(quizzes) \in Nat
    BY IdleRow, DataOf
  <2> HIDE DEF NewQuiz, Rows
  <2> QED BY <1>1, <1>3, <2>1
<1>5. \A q \in DOMAIN quizzes' : Sound(quizzes'[q])
  <2> SUFFICES ASSUME NEW q \in 1..(Len(quizzes) + 1) PROVE Sound(quizzes'[q])
    BY <1>4
  <2>1. CASE q = Len(quizzes) + 1
    BY <1>4, <2>1, SoundNew
  <2>2. CASE q # Len(quizzes) + 1
    <3>1. q \in 1..Len(quizzes)
      BY <2>2, DataOf
    <3>2. quizzes'[q] = closed[q] /\ Sound(closed[q])
      BY <1>2, <1>4, <3>1
    <3> QED BY <3>2
  <2> QED BY <2>1, <2>2
<1>6. Data'
  <2>1. acked' \in Seq(Nat) /\ Len(acked') = Len(quizzes')
    BY <1>1, <1>4, DataOf DEF Data
  <2> HIDE DEF Rows
  <2> QED BY <1>1, <1>4, <1>5, <2>1, DataOf DEF Data, planVars, Sessions
<1>7. Counts'
  BY <1>1, CountsKeep DEF Typed
<1>8. Placed'
  <2>1. call[c].op # "none" /\ (Falls(c) \/ Ends(c))
    BY InsertQuizDoes
  <2>2. plans' = plans /\ plans \in Seq(Plan) /\ Len(quizzes) <= Len(quizzes')
        /\ Len(plans) <= Len(plans')
    BY <1>1, <1>4, DataOf DEF planVars
  <2> QED BY <1>4, <2>1, <2>2, FallsPlaced
<1> QED BY <1>6, <1>7, <1>8 DEF Typed

LEMMA GetQuizTyped ==
  ASSUME Typed, NEW c \in Call, GetQuiz(c) PROVE Typed'
<1>1. UNCHANGED <<quizVars, planVars, level>> /\ UNCHANGED history /\ trouble' = trouble
  BY DEF GetQuiz
<1>2. Data' /\ Counts'
  BY <1>1, DataKeep, CountsKeep DEF Typed
<1>3. /\ quizzes \in Seq(Rows) /\ plans \in Seq(Plan) /\ quizzes' = quizzes /\ plans' = plans
      /\ Len(quizzes) \in Nat /\ Len(plans) \in Nat
  BY <1>1, DataOf DEF quizVars, planVars
<1>4. call[c].at = "getQuiz" /\ call[c].op = "submitAnswer" /\ call[c].held = Depth(c)
  BY GetQuizDoes DEF GetQuiz, At
<1>5. CASE Ends(c)
  BY <1>2, <1>3, <1>4, <1>5, FallsPlaced DEF Typed
<1>6. CASE /\ Leaves(c, "writeAnswer", LeftFields) /\ call'[c].copy = quizzes[call[c].quiz]
           /\ ~LastAnswered(quizzes[call[c].quiz].index)
  <2>1. Deep("submitAnswer", "writeAnswer") = 1 /\ Deep("submitAnswer", "getQuiz") = 1
    BY Deeps DEF Staged, Point
  <2>2. Sound(quizzes[call[c].quiz]) /\ Len(call[c].made) <= Topics
    BY <1>4, NamedBefore DEF RowOK
  <2>3. call'[c].made = call[c].made
    BY <1>6 DEF Leaves, Goes, Same, LeftFields
  <2> QED BY <1>2, <1>3, <1>4, <1>6, <2>1, <2>2, <2>3, LeavesPlaced DEF Typed, Staged
<1> QED BY <1>5, <1>6, GetQuizDoes

LEMMA WriteAnswerTyped ==
  ASSUME Typed, NEW c \in Call, WriteAnswer(c) PROVE Typed'
<1> DEFINE q == call[c].quiz
           row == WrittenBy(c)
<1>1. /\ call[c].at = "writeAnswer" /\ call[c].op = "submitAnswer" /\ call[c].held = Depth(c)
      /\ quizzes' = [quizzes EXCEPT ![q] = row]
      /\ acked' = acked \/ acked' = [acked EXCEPT ![q] = @ + 1]
      /\ UNCHANGED planVars /\ UNCHANGED level /\ UNCHANGED history
      /\ trouble' = trouble \/ MoreTrouble
  BY WriteAnswerDoes DEF WriteAnswer, Commits, At
<1>2. Sound(row)
  <2>1. Sound(call[c].copy) /\ ~LastAnswered(call[c].copy.index)
    BY <1>1, NamedBefore DEF RowOK
  <2>2. call[c].right \in BOOLEAN
    BY RowFields, RowAt DEF Typed, Flag
  <2> QED BY <2>1, <2>2, SoundWritten DEF WrittenBy
<1>3. q \in DOMAIN quizzes
  BY <1>1, NamedBefore
<1> HIDE DEF row, q
<1>4. row \in Rows
  BY <1>2 DEF Sound
<1>5. /\ quizzes' \in Seq(Rows) /\ Len(quizzes') = Len(quizzes) /\ DOMAIN quizzes' = DOMAIN quizzes
      /\ \A p \in DOMAIN quizzes : quizzes'[p] = IF p = q THEN row ELSE quizzes[p]
  <2> HIDE DEF Rows
  <2> QED BY <1>1, <1>3, <1>4, DataOf
<1>6. acked' \in Seq(Nat) /\ Len(acked') = Len(acked)
  <2>1. acked \in [DOMAIN quizzes -> Nat]
    BY DataOf
  <2>2. \A n : n = acked[q] + 1 => [acked EXCEPT ![q] = n] \in [DOMAIN quizzes -> Nat]
    BY <1>3, <2>1
  <2>3. acked' \in [DOMAIN quizzes -> Nat]
    BY <1>1, <2>1, <2>2, Zenon
  <2>4. acked' \in [1..Len(quizzes) -> Nat] /\ Len(acked) = Len(quizzes) /\ Len(quizzes) \in Nat
    BY <2>3, DataOf
  <2> QED BY <2>4
<1>7. Data'
  <2>1. \A p \in DOMAIN quizzes' : Sound(quizzes'[p])
    BY <1>2, <1>5, DataOf DEF Data
  <2> HIDE DEF Rows
  <2> QED BY <1>1, <1>5, <1>6, <2>1, DataOf DEF Data, planVars, Sessions
<1>8. Counts'
  BY <1>1, CountsKeep DEF Typed
<1>9. plans' = plans /\ plans \in Seq(Plan) /\ Len(plans) \in Nat /\ Len(quizzes) \in Nat
  BY <1>1, DataOf DEF planVars
<1>10. Placed'
  <2>1. CASE Ends(c) \/ Falls(c)
    BY <1>1, <1>5, <1>9, <2>1, FallsPlaced
  <2>2. CASE /\ Leaves(c, "getTopic", LeftFields \cup {"topic", "delta"})
             /\ call'[c].topic = 1 /\ call'[c].delta \in {-2, 0, 2}
    <3>1. Deep("submitAnswer", "writeAnswer") = 1 /\ Deep("submitAnswer", "getTopic") = 2
      BY Deeps DEF Staged, Point
    <3>2. Len(call[c].made) <= Topics
      BY NamedBefore DEF RowOK
    <3>3. call'[c].made = call[c].made
      BY <2>2 DEF Leaves, Goes, Same, LeftFields
    <3> QED BY <1>1, <1>5, <1>9, <2>2, <3>1, <3>2, <3>3, LeavesPlaced DEF Staged
  <2> QED BY <2>1, <2>2, WriteAnswerDoes
<1> QED BY <1>7, <1>8, <1>10 DEF Typed

LEMMA GetTopicTyped ==
  ASSUME Typed, NEW c \in Call, GetTopic(c) PROVE Typed'
<1>1. UNCHANGED <<quizVars, planVars, level>> /\ UNCHANGED history /\ trouble' = trouble
  BY DEF GetTopic
<1>2. Data' /\ Counts'
  BY <1>1, DataKeep, CountsKeep DEF Typed
<1>3. quizzes' \in Seq(Rows) /\ Len(quizzes') = Len(quizzes) /\ plans' = plans
  BY <1>1, DataOf DEF quizVars, planVars
<1>4. /\ call[c].at = "getTopic" /\ call[c].op \in {"submitAnswer", "completeStudySession"}
      /\ call[c].held = Depth(c) /\ Leaves(c, "setMastery", LeftFields)
  BY GetTopicDoes DEF GetTopic, At
<1>5. /\ Deep("submitAnswer", "getTopic") = 2 /\ Deep("submitAnswer", "setMastery") = 1
      /\ Deep("completeStudySession", "getTopic") = 3
      /\ Deep("completeStudySession", "setMastery") = 2
  BY Deeps DEF Staged, Point
<1>6. /\ call'[c].made = call[c].made /\ call'[c].topic = call[c].topic
      /\ call'[c].delta = call[c].delta
  BY <1>4 DEF Leaves, Goes, Same, LeftFields
<1>7. RowOK(call[c])
  BY NamedBefore
<1>8. /\ Len(call'[c].made) <= Topics
      /\ call[c].op = "submitAnswer" => call'[c].topic = 1 /\ call'[c].delta \in {-2, 0, 2}
  BY <1>4, <1>6, <1>7 DEF RowOK
<1>9. /\ Staged(call[c].op, "setMastery")
      /\ Deep(call[c].op, "setMastery") >= Deep(call[c].op, call[c].at) - 1
  BY <1>4, <1>5 DEF Staged
<1>10. Placed'
  BY <1>3, <1>4, <1>6, <1>8, <1>9, LeavesPlaced
<1> QED BY <1>2, <1>10 DEF Typed

LEMMA SetMasteryTyped ==
  ASSUME Typed, NEW c \in Call, SetMastery(c) PROVE Typed'
<1>1. /\ level' = [level EXCEPT ![call[c].topic] = Bounded(call[c].base + call[c].delta)]
      /\ UNCHANGED <<quizVars, planVars>> /\ UNCHANGED history
      /\ trouble' = trouble \/ MoreTrouble
  BY DEF SetMastery, Commits
<1>2. /\ quizzes' = quizzes /\ plans' = plans /\ acked' = acked /\ tasks' = tasks
      /\ exams' = exams /\ completed' = completed /\ Sessions' = Sessions
  BY <1>1 DEF quizVars, planVars, Sessions
<1>3. call[c].at = "setMastery" /\ call[c].held = Depth(c) /\ call[c] \in CallRow /\ RowOK(call[c])
  BY RowAt DEF Typed, SetMastery, At
<1>4. Bounded(call[c].base + call[c].delta) \in 0..MasteryTop
  <2>1. call[c].base \in Nat /\ call[c].delta \in Int
    BY <1>3, RowFields
  <2> QED BY <2>1, StudyAssumption DEF Bounded
<1>5. level' \in [1..Topics -> 0..MasteryTop]
  BY <1>1, <1>4, DataOf DEF Data
<1>6. Data'
  BY <1>2, <1>5, DataOf DEF Data
<1>7. Counts'
  BY <1>1, CountsKeep DEF Typed
<1>8. /\ quizzes \in Seq(Rows) /\ plans \in Seq(Plan) /\ Len(quizzes) \in Nat /\ Len(plans) \in Nat
  BY DataOf
<1>9. Placed'
  <2>1. CASE /\ call[c].op \in {"submitAnswer", "completeStudySession"}
             /\ Ends(c) \/ Falls(c)
    BY <1>2, <1>8, <2>1, FallsPlaced
  <2>2. CASE call[c].op = "completeStudySession" /\ Leaves(c, "completeSession", LeftFields)
    <3>1. /\ Deep("completeStudySession", "setMastery") = 2
          /\ Deep("completeStudySession", "completeSession") = 1
      BY Deeps DEF Staged, Point
    <3>2. /\ call'[c].made = call[c].made /\ call'[c].topic = call[c].topic
          /\ call'[c].delta = call[c].delta
      BY <2>2 DEF Leaves, Goes, Same, LeftFields
    <3>3. Len(call'[c].made) <= Topics
      BY <1>3, <3>2 DEF RowOK
    <3> QED BY <1>2, <1>3, <1>8, <2>2, <3>1, <3>2, <3>3, LeavesPlaced DEF Staged
  <2> QED BY <2>1, <2>2, SetMasteryDoes
<1> QED BY <1>6, <1>7, <1>9 DEF Typed

LEMMA TaskRows ==
  /\ \A serial \in 0..MaxCalls : [done |-> FALSE, due |-> serial] \in TaskRow
  /\ \A r \in TaskRow : /\ r.done \in Flag /\ r.due \in 0..MaxCalls
                        /\ [r EXCEPT !.done = TRUE] \in TaskRow
                        /\ [r EXCEPT !.done = TRUE].done = TRUE
                        /\ [r EXCEPT !.done = TRUE].due = r.due
                        /\ \A serial \in 0..MaxCalls :
                             /\ [r EXCEPT !.due = serial] \in TaskRow
                             /\ [r EXCEPT !.due = serial].due = serial
                             /\ [r EXCEPT !.due = serial].done = r.done
<1>1. TRUE \in Flag /\ FALSE \in Flag
  BY DEF Flag
<1> HIDE DEF Flag
<1>2. \A serial \in 0..MaxCalls : [done |-> FALSE, due |-> serial] \in TaskRow
  BY <1>1 DEF TaskRow
<1>3. \A r \in TaskRow : /\ r.done \in Flag /\ r.due \in 0..MaxCalls
                         /\ [r EXCEPT !.done = TRUE] \in TaskRow
                         /\ [r EXCEPT !.done = TRUE].done = TRUE
                         /\ [r EXCEPT !.done = TRUE].due = r.due
  BY <1>1 DEF TaskRow
<1>4. \A r \in TaskRow, serial \in 0..MaxCalls :
        /\ [r EXCEPT !.due = serial] \in TaskRow
        /\ [r EXCEPT !.due = serial].due = serial
        /\ [r EXCEPT !.due = serial].done = r.done
  BY <1>1 DEF TaskRow
<1> QED BY <1>2, <1>3, <1>4

\* A task more.
LEMMA TaskAppended ==
  ASSUME Typed, NEW c \in Call,
         tasks' = Append(tasks, [done |-> FALSE, due |-> call[c].serial])
  PROVE  /\ tasks' \in Seq(TaskRow) /\ Len(tasks') = Len(tasks) + 1
         /\ \A t \in 1..Len(tasks) : tasks'[t] = tasks[t]
         /\ tasks'[Len(tasks) + 1] = [done |-> FALSE, due |-> call[c].serial]
<1> DEFINE row == [done |-> FALSE, due |-> call[c].serial]
<1>1. call[c].serial \in 0..MaxCalls
  BY RowAt, RowFields DEF Typed
<1>2. row \in TaskRow /\ tasks' = Append(tasks, row) /\ tasks \in Seq(TaskRow) /\ Len(tasks) \in Nat
  BY <1>1, TaskRows, DataOf
<1> HIDE DEF row, TaskRow
<1>3. /\ tasks' \in Seq(TaskRow) /\ Len(tasks') = Len(tasks) + 1
      /\ \A t \in 1..Len(tasks) : tasks'[t] = tasks[t]
      /\ tasks'[Len(tasks) + 1] = row
  BY <1>2
<1> QED BY <1>3 DEF row

LEMMA TasksData ==
  ASSUME Data, tasks' \in Seq(TaskRow), UNCHANGED <<quizVars, plans, exams, completed, level>>
  PROVE  Data'
BY DEF Data, quizVars, Sessions

LEMMA CreateExamTaskTyped ==
  ASSUME Typed, NEW c \in Call, CreateExamTask(c) PROVE Typed'
<1>1. /\ tasks' = Append(tasks, [done |-> FALSE, due |-> call[c].serial])
      /\ UNCHANGED <<quizVars, plans, exams, completed, level>> /\ UNCHANGED history
      /\ trouble' = trouble \/ MoreTrouble
  BY DEF CreateExamTask, Commits
<1>2. Data' /\ Counts'
  BY <1>1, TaskAppended, TasksData, CountsKeep DEF Typed
<1>3. /\ quizzes \in Seq(Rows) /\ plans \in Seq(Plan) /\ quizzes' = quizzes /\ plans' = plans
      /\ Len(quizzes) \in Nat /\ Len(plans) \in Nat
  BY <1>1, DataOf DEF quizVars
<1>4. /\ call[c].at = "createExamTask" /\ call[c].op = "createAssessment" /\ call[c].held = Depth(c)
  BY CreateExamTaskDoes DEF CreateExamTask, At
<1>5. Placed'
  <2>1. CASE Falls(c)
    BY <1>3, <1>4, <2>1, FallsPlaced
  <2>2. CASE Leaves(c, "insertExam", LeftFields \cup {"made"}) /\ call'[c].made = <<Len(tasks) + 1>>
    <3>1. /\ Deep("createAssessment", "createExamTask") = 1
          /\ Deep("createAssessment", "insertExam") = 1
      BY Deeps DEF Staged, Point
    <3>2. Len(call'[c].made) = 1
      BY <2>2
    <3>3. Len(call'[c].made) <= Topics
      BY <3>2, StudyAssumption
    <3>4. /\ Staged(call[c].op, "insertExam")
          /\ Deep(call[c].op, "insertExam") >= Deep(call[c].op, call[c].at) - 1
          /\ call[c].op # "completeStudySession" /\ call[c].op # "submitAnswer"
          /\ LeftFields \cup {"made"} \in SUBSET (LeftFields \cup {"topic", "delta", "made"})
      BY <1>4, <3>1 DEF Staged
    <3>5. Leaves(c, "insertExam", LeftFields \cup {"made"})
      BY <2>2
    <3> HIDE DEF Leaves, Deep, Staged, LeftFields, Names
    <3> QED BY <1>3, <1>4, <3>3, <3>4, <3>5, LeavesPlaced
  <2> QED BY <2>1, <2>2, CreateExamTaskDoes
<1> QED BY <1>2, <1>5 DEF Typed

LEMMA InsertExamTyped ==
  ASSUME Typed, NEW c \in Call, InsertExam(c) PROVE Typed'
<1>1. /\ exams' = Append(exams, LinkedTask(c))
      /\ UNCHANGED <<quizVars, plans, tasks, completed, level>> /\ UNCHANGED history
      /\ trouble' = trouble \/ MoreTrouble
  BY DEF InsertExam, Commits
<1>2. LinkedTask(c) \in Nat
  <2>1. call[c].made \in Seq(Nat)
    BY RowAt, RowFields DEF Typed
  <2>2. call[c].made # <<>> => call[c].made[1] \in Nat
    BY <2>1
  <2> QED BY <2>2 DEF LinkedTask, NoTask
<1>3. Data'
  <2>1. exams' \in Seq(Nat)
    BY <1>1, <1>2, DataOf
  <2> QED BY <1>1, <2>1, DataOf DEF Data, quizVars, Sessions
<1>4. /\ quizzes \in Seq(Rows) /\ plans \in Seq(Plan) /\ quizzes' = quizzes /\ plans' = plans
      /\ Len(quizzes) \in Nat /\ Len(plans) \in Nat
  BY <1>1, DataOf DEF quizVars
<1>5. Counts'
  BY <1>1, CountsKeep DEF Typed
<1>6. Placed'
  BY <1>4, InsertExamDoes, FallsPlaced
<1> QED BY <1>3, <1>5, <1>6 DEF Typed

LEMMA InsertPlanTyped ==
  ASSUME Typed, NEW c \in Call, InsertPlan(c) PROVE Typed'
<1>1. UNCHANGED <<quizVars, planVars, level>> /\ UNCHANGED history /\ trouble' = trouble
  BY DEF InsertPlan
<1>2. Data' /\ Counts'
  BY <1>1, DataKeep, CountsKeep DEF Typed
<1>3. /\ quizzes \in Seq(Rows) /\ quizzes' = quizzes /\ plans' = plans
  BY <1>1, DataOf DEF quizVars, planVars
<1> DEFINE s == call'[c]
           r == call[c]
<1>4. /\ r.at = "insertPlan" /\ r.op = "generateStudyPlan" /\ Alone(c) /\ Same(s, r, {"at", "made"})
      /\ s.at = "createTask" /\ s.made = <<>>
  BY InsertPlanDoes DEF Goes
<1>5. RowOK(r)
  BY NamedBefore
<1> HIDE DEF s, r
<1>6. s.op = "generateStudyPlan" /\ s.held = r.held /\ s.base = r.base /\ s \in CallRow
  BY <1>4 DEF Same
<1>7. /\ Deep("generateStudyPlan", "insertPlan") = 1
      /\ Deep("generateStudyPlan", "createTask") = 2
  BY Deeps DEF Staged, Point
<1>8. Len(s.made) = 0
  BY <1>4
<1>9. r.held \in 0..3
  BY RowAt DEF r, Typed
<1>10. RowOK(s)
  <2>1. s.held <= Deep(s.op, s.at)
    BY <1>4, <1>5, <1>6, <1>7, <1>9 DEF RowOK
  <2> QED BY <1>4, <1>5, <1>6, <1>8, <2>1, StudyAssumption DEF RowOK, Staged
<1>11. Names(s, Len(quizzes), Len(plans))
  BY <1>4, <1>6 DEF Names, SessionCalls
<1> QED BY <1>2, <1>3, <1>4, <1>10, <1>11, GoesPlaced DEF s, Typed

LEMMA CreateTaskTyped ==
  ASSUME Typed, NEW c \in Call, CreateTask(c) PROVE Typed'
<1>1. /\ tasks' = Append(tasks, [done |-> FALSE, due |-> call[c].serial])
      /\ UNCHANGED <<quizVars, plans, exams, completed, level>> /\ UNCHANGED history
      /\ trouble' = trouble \/ MoreTrouble
  BY DEF CreateTask, Commits
<1>2. Data' /\ Counts'
  BY <1>1, TaskAppended, TasksData, CountsKeep DEF Typed
<1>3. /\ quizzes \in Seq(Rows) /\ plans \in Seq(Plan) /\ quizzes' = quizzes /\ plans' = plans
      /\ Len(quizzes) \in Nat /\ Len(plans) \in Nat
  BY <1>1, DataOf DEF quizVars
<1>4. /\ call[c].at = "createTask" /\ call[c].op = "generateStudyPlan" /\ call[c].held = Depth(c)
  BY CreateTaskDoes DEF CreateTask, At
<1>5. Placed'
  <2>0. Len(call[c].made) < Topics /\ call[c].made \in Seq(Nat) /\ Len(call[c].made) \in Nat
    BY <1>4, NamedBefore, RowFields DEF RowOK
  <2>1. CASE Falls(c)
    BY <1>3, <1>4, <2>1, FallsPlaced
  <2>2. CASE ~Falls(c)
    <3>1. /\ \/ /\ Leaves(c, "commitPlan", LeftFields \cup {"made"})
                /\ Len(call[c].made) + 1 = Topics
             \/ /\ Leaves(c, "createTask", LeftFields \cup {"made"})
                /\ Len(call[c].made) + 1 # Topics
          /\ call'[c].made = Append(call[c].made, Len(tasks) + 1)
      BY <2>2, CreateTaskDoes
    <3>2. Len(call'[c].made) = Len(call[c].made) + 1
      BY <2>0, <3>1
    <3>3. /\ Deep("generateStudyPlan", "createTask") = 2
          /\ Deep("generateStudyPlan", "commitPlan") = 1
      BY Deeps DEF Staged, Point
    <3>4. CASE Leaves(c, "commitPlan", LeftFields \cup {"made"}) /\ Len(call[c].made) + 1 = Topics
      <4>1. Len(call'[c].made) = Topics /\ Len(call'[c].made) <= Topics
        BY <3>2, <3>4, StudyAssumption
      <4> QED BY <1>3, <1>4, <3>3, <3>4, <4>1, LeavesPlaced DEF Staged
    <3>5. CASE Leaves(c, "createTask", LeftFields \cup {"made"}) /\ Len(call[c].made) + 1 # Topics
      <4>1. Len(call'[c].made) < Topics /\ Len(call'[c].made) <= Topics
        BY <2>0, <3>2, <3>5, StudyAssumption
      <4> QED BY <1>3, <1>4, <3>3, <3>5, <4>1, LeavesPlaced DEF Staged
    <3> QED BY <3>1, <3>4, <3>5
  <2> QED BY <2>1, <2>2
<1> QED BY <1>2, <1>5 DEF Typed

LEMMA SessionRows ==
  /\ \A r \in SessionRow :
       /\ r.status \in {"scheduled", "rescheduled", "completed"} /\ r.task \in Nat
       /\ r.start \in 0..MaxCalls
       /\ Done(r) \in SessionRow /\ Done(r).task = r.task /\ Done(r).start = r.start
       /\ Done(r).status = "completed"
       /\ \A start \in 0..MaxCalls : /\ Moved(r, start) \in SessionRow
                                     /\ Moved(r, start).task = r.task
                                     /\ Moved(r, start).start = start
  /\ \A task \in Nat, start \in 0..MaxCalls :
       [status |-> "scheduled", task |-> task, start |-> start] \in SessionRow
<1>1. \A r \in SessionRow :
        /\ r.status \in {"scheduled", "rescheduled", "completed"} /\ r.task \in Nat
        /\ r.start \in 0..MaxCalls
        /\ Done(r) \in SessionRow /\ Done(r).task = r.task /\ Done(r).start = r.start
        /\ Done(r).status = "completed"
  BY DEF SessionRow, Done
<1>2. \A r \in SessionRow, start \in 0..MaxCalls :
        /\ Moved(r, start) \in SessionRow /\ Moved(r, start).task = r.task
        /\ Moved(r, start).start = start
  <2> SUFFICES ASSUME NEW r \in SessionRow, NEW start \in 0..MaxCalls
               PROVE  /\ Moved(r, start) \in SessionRow /\ Moved(r, start).task = r.task
                      /\ Moved(r, start).start = start
    OBVIOUS
  <2> DEFINE a == [r EXCEPT !.status = "rescheduled"]
             b == [a EXCEPT !.start = start]
  <2>1. a \in SessionRow /\ a.task = r.task
    BY DEF SessionRow
  <2> HIDE DEF a
  <2>2. b \in SessionRow /\ b.task = r.task /\ b.start = start
    BY <2>1 DEF SessionRow
  <2>3. Moved(r, start) = b
    BY DEF Moved, a
  <2> QED BY <2>2, <2>3
<1>3. \A task \in Nat, start \in 0..MaxCalls :
        [status |-> "scheduled", task |-> task, start |-> start] \in SessionRow
  BY DEF SessionRow
<1> QED BY <1>1, <1>2, <1>3

\* The plan a call has made, a session for every topic.
LEMMA PlanMade ==
  ASSUME Typed, NEW c \in Call, call[c].at = "commitPlan"
  PROVE  /\ Planned(c) \in Plan /\ call[c].made \in [1..Topics -> Nat]
         /\ \A t \in 1..Topics : /\ Planned(c)[t].task = call[c].made[t]
                                 /\ Planned(c)[t].start = call[c].serial
<1>1. call[c].made \in Seq(Nat) /\ Len(call[c].made) = Topics /\ call[c].serial \in 0..MaxCalls
  BY RowAt, RowFields DEF Typed, RowOK
<1>2. DOMAIN call[c].made = 1..Topics /\ call[c].made \in [1..Topics -> Nat]
  BY <1>1
<1>3. Planned(c) = [t \in 1..Topics |-> [status |-> "scheduled", task |-> call[c].made[t],
                                         start |-> call[c].serial]]
  BY <1>2 DEF Planned
<1>4. \A t \in 1..Topics : [status |-> "scheduled", task |-> call[c].made[t],
                            start |-> call[c].serial] \in SessionRow
  BY <1>1, <1>2, SessionRows
<1>5. Planned(c) \in Plan
  <2> HIDE DEF SessionRow
  <2> QED BY <1>3, <1>4 DEF Plan
<1> QED BY <1>2, <1>3, <1>5

\* A plan more: the sessions there were are as they were.
LEMMA PlanAppended ==
  ASSUME Typed, NEW plan \in Plan, plans' = Append(plans, plan)
  PROVE  /\ plans' \in Seq(Plan) /\ Len(plans') = Len(plans) + 1
         /\ \A p \in 1..Len(plans) : plans'[p] = plans[p]
         /\ plans'[Len(plans) + 1] = plan /\ Sessions \subseteq Sessions'
         /\ Sessions' = Sessions \cup {<<Len(plans) + 1, t>> : t \in 1..Topics}
         /\ \A s \in Sessions : Session(s)' = Session(s)
<1>1. plans \in Seq(Plan) /\ Len(plans) \in Nat
  BY DataOf
<1>2. /\ plans' \in Seq(Plan) /\ Len(plans') = Len(plans) + 1
      /\ \A p \in 1..Len(plans) : plans'[p] = plans[p]
      /\ plans'[Len(plans) + 1] = plan
  <2> HIDE DEF Plan
  <2> QED BY <1>1
<1>3. Sessions = (1..Len(plans)) \X (1..Topics)
  BY <1>1, SessionsAre
<1>4. Sessions' = (1..(Len(plans) + 1)) \X (1..Topics)
  <2>1. (1..Len(plans')) \X (1..Topics) = Sessions'
    <3>1. \A p \in 1..Len(plans') : DOMAIN plans'[p] = 1..Topics
      BY <1>2 DEF Plan
    <3>2. \A s \in (1..Len(plans')) \X (1..Topics) : s[1] \in 1..Len(plans') /\ s[2] \in 1..Topics
      OBVIOUS
    <3> QED BY <3>1, <3>2 DEF Sessions
  <2> QED BY <1>2, <2>1
<1>5. 1..(Len(plans) + 1) = (1..Len(plans)) \cup {Len(plans) + 1}
  BY <1>1
<1>6. Sessions' = Sessions \cup {<<Len(plans) + 1, t>> : t \in 1..Topics}
  BY <1>3, <1>4, <1>5
<1>7. \A s \in Sessions : s[1] \in 1..Len(plans)
  BY <1>3
<1> QED BY <1>2, <1>6, <1>7 DEF Session

LEMMA CommitPlanTyped ==
  ASSUME Typed, NEW c \in Call, CommitPlan(c) PROVE Typed'
<1>1. /\ plans' = Append(plans, Planned(c))
      /\ UNCHANGED <<quizVars, tasks, exams, completed, level>> /\ UNCHANGED history
      /\ trouble' = trouble \/ MoreTrouble
  BY DEF CommitPlan, Commits
<1>2. call[c].at = "commitPlan" /\ call[c].op = "generateStudyPlan" /\ (Ends(c) \/ Falls(c))
  BY CommitPlanDoes
<1>3. plans' \in Seq(Plan) /\ Len(plans') = Len(plans) + 1 /\ Sessions \subseteq Sessions'
  BY <1>1, <1>2, PlanMade, PlanAppended
<1>4. Data'
  BY <1>1, <1>3, DataOf DEF Data, quizVars
<1>5. /\ quizzes \in Seq(Rows) /\ quizzes' = quizzes /\ Len(quizzes) \in Nat /\ Len(plans) \in Nat
  BY <1>1, DataOf DEF quizVars
<1>6. Placed'
  BY <1>2, <1>3, <1>5, FallsPlaced
<1>7. Counts'
  BY <1>1, CountsKeep DEF Typed
<1> QED BY <1>4, <1>6, <1>7 DEF Typed

LEMMA ReadSessionTyped ==
  ASSUME Typed, NEW c \in Call, ReadSession(c) PROVE Typed'
<1>1. UNCHANGED <<quizVars, planVars, level>> /\ UNCHANGED history /\ trouble' = trouble
  BY DEF ReadSession
<1>2. Data' /\ Counts'
  BY <1>1, DataKeep, CountsKeep DEF Typed
<1>3. /\ quizzes \in Seq(Rows) /\ quizzes' = quizzes /\ plans' = plans
  BY <1>1, DataOf DEF quizVars, planVars
<1> DEFINE s == call'[c]
           r == call[c]
<1>4. /\ r.at = "readSession" /\ Alone(c) /\ Same(s, r, {"at"})
      /\ \/ r.op = "completeStudySession" /\ s.at = "markDone"
         \/ r.op = "rescheduleStudySession" /\ s.at = "moveTask"
  BY ReadSessionDoes DEF Goes
<1>5. RowOK(r) /\ Names(r, Len(quizzes), Len(plans)) /\ r.held \in 0..3
  BY NamedBefore, RowAt DEF Typed
<1> HIDE DEF s, r
<1>6. /\ s.op = r.op /\ s.held = r.held /\ s.base = r.base /\ s.made = r.made
      /\ s.topic = r.topic /\ s.delta = r.delta /\ s.session = r.session /\ s \in CallRow
  BY <1>4 DEF Same
<1>7. /\ Deep("completeStudySession", "readSession") = 1
      /\ Deep("completeStudySession", "markDone") = 2
      /\ Deep("rescheduleStudySession", "readSession") = 1
      /\ Deep("rescheduleStudySession", "moveTask") = 2
  BY Deeps DEF Staged, Point
<1>8. RowOK(s)
  <2>1. s.held <= Deep(s.op, s.at)
    BY <1>4, <1>5, <1>6, <1>7 DEF RowOK
  <2> QED BY <1>4, <1>5, <1>6, <2>1 DEF RowOK, Staged
<1>9. Names(s, Len(quizzes), Len(plans))
  BY <1>4, <1>5, <1>6 DEF Names, SessionCalls
<1> QED BY <1>2, <1>3, <1>4, <1>8, <1>9, GoesPlaced DEF s, Typed

\* A task changed in place.
LEMMA TaskChanged ==
  ASSUME Typed, NEW i, NEW row, i \in DOMAIN tasks => row \in TaskRow,
         tasks' = [tasks EXCEPT ![i] = row]
  PROVE  /\ tasks' \in Seq(TaskRow) /\ Len(tasks') = Len(tasks)
         /\ \A t \in 1..Len(tasks) : tasks'[t] = IF t = i THEN row ELSE tasks[t]
<1>1. tasks \in Seq(TaskRow) /\ Len(tasks) \in Nat
  BY DataOf
<1>2. tasks \in [1..Len(tasks) -> TaskRow] /\ DOMAIN tasks = 1..Len(tasks)
  BY <1>1
<1> HIDE DEF TaskRow
<1>3. /\ tasks' \in [1..Len(tasks) -> TaskRow]
      /\ \A t \in 1..Len(tasks) : tasks'[t] = IF t = i THEN row ELSE tasks[t]
  BY <1>2
<1> QED BY <1>1, <1>3

LEMMA MarkDoneTyped ==
  ASSUME Typed, NEW c \in Call, MarkDone(c) PROVE Typed'
<1> DEFINE row == [tasks[TaskOf(c)] EXCEPT !.done = TRUE]
<1>1. /\ tasks' = [tasks EXCEPT ![TaskOf(c)] = row]
      /\ UNCHANGED <<quizVars, plans, exams, completed, level>> /\ UNCHANGED history
      /\ trouble' = trouble \/ MoreTrouble
  BY DEF MarkDone, Commits
<1>2. TaskOf(c) \in DOMAIN tasks => row \in TaskRow
  <2>1. TaskOf(c) \in DOMAIN tasks => tasks[TaskOf(c)] \in TaskRow
    <3> HIDE DEF TaskRow
    <3> QED BY DataOf
  <2> QED BY <2>1, TaskRows
<1>3. Data' /\ Counts'
  <2>1. tasks' \in Seq(TaskRow)
    <3> HIDE DEF row
    <3> QED BY <1>1, <1>2, TaskChanged
  <2> QED BY <1>1, <2>1, TasksData, CountsKeep DEF Typed
<1>4. /\ quizzes \in Seq(Rows) /\ plans \in Seq(Plan) /\ quizzes' = quizzes /\ plans' = plans
      /\ Len(quizzes) \in Nat /\ Len(plans) \in Nat
  BY <1>1, DataOf DEF quizVars
<1>5. Placed'
  <2>0. call[c].at = "markDone" /\ call[c].op = "completeStudySession" /\ call[c].held = Depth(c)
    BY MarkDoneDoes DEF MarkDone, At
  <2>1. CASE Falls(c)
    BY <1>4, <2>0, <2>1, FallsPlaced
  <2>2. CASE Leaves(c, "getTopic", LeftFields)
    <3>1. /\ Deep("completeStudySession", "markDone") = 2
          /\ Deep("completeStudySession", "getTopic") = 3
      BY Deeps DEF Staged, Point
    <3>2. /\ call'[c].made = call[c].made /\ call'[c].topic = call[c].topic
          /\ call'[c].delta = call[c].delta
      BY <2>2 DEF Leaves, Goes, Same, LeftFields
    <3>3. Len(call'[c].made) <= Topics
      BY <3>2, NamedBefore DEF RowOK
    <3> QED BY <1>4, <2>0, <2>2, <3>1, <3>2, <3>3, LeavesPlaced DEF Staged
  <2> QED BY <2>1, <2>2, MarkDoneDoes
<1> QED BY <1>3, <1>5 DEF Typed

LEMMA MoveTaskTyped ==
  ASSUME Typed, NEW c \in Call, MoveTask(c) PROVE Typed'
<1> DEFINE row == [tasks[TaskOf(c)] EXCEPT !.due = call[c].serial]
<1>1. /\ tasks' = [tasks EXCEPT ![TaskOf(c)] = row]
      /\ UNCHANGED <<quizVars, plans, exams, completed, level>> /\ UNCHANGED history
      /\ trouble' = trouble \/ MoreTrouble
  BY DEF MoveTask, Commits
<1>2. TaskOf(c) \in DOMAIN tasks => row \in TaskRow
  <2>1. TaskOf(c) \in DOMAIN tasks => tasks[TaskOf(c)] \in TaskRow
    <3> HIDE DEF TaskRow
    <3> QED BY DataOf
  <2>2. call[c].serial \in 0..MaxCalls
    BY RowAt, RowFields DEF Typed
  <2> QED BY <2>1, <2>2, TaskRows
<1>3. Data' /\ Counts'
  <2>1. tasks' \in Seq(TaskRow)
    <3> HIDE DEF row
    <3> QED BY <1>1, <1>2, TaskChanged
  <2> QED BY <1>1, <2>1, TasksData, CountsKeep DEF Typed
<1>4. /\ quizzes \in Seq(Rows) /\ plans \in Seq(Plan) /\ quizzes' = quizzes /\ plans' = plans
      /\ Len(quizzes) \in Nat /\ Len(plans) \in Nat
  BY <1>1, DataOf DEF quizVars
<1>5. Placed'
  <2>0. call[c].at = "moveTask" /\ call[c].op = "rescheduleStudySession" /\ call[c].held = Depth(c)
    BY MoveTaskDoes DEF MoveTask, At
  <2>1. CASE Falls(c)
    BY <1>4, <2>0, <2>1, FallsPlaced
  <2>2. CASE Leaves(c, "moveSession", LeftFields)
    <3>1. /\ Deep("rescheduleStudySession", "moveTask") = 2
          /\ Deep("rescheduleStudySession", "moveSession") = 1
      BY Deeps DEF Staged, Point
    <3>2. call'[c].made = call[c].made
      BY <2>2 DEF Leaves, Goes, Same, LeftFields
    <3>3. Len(call'[c].made) <= Topics
      BY <3>2, NamedBefore DEF RowOK
    <3> QED BY <1>4, <2>0, <2>2, <3>1, <3>3, LeavesPlaced DEF Staged
  <2> QED BY <2>1, <2>2, MoveTaskDoes
<1> QED BY <1>3, <1>5 DEF Typed

\* One session changed in place.
LEMMA SessionChanged ==
  ASSUME Typed, NEW s \in Sessions, NEW row \in SessionRow,
         plans' = [plans EXCEPT ![s[1]] = [plans[s[1]] EXCEPT ![s[2]] = row]]
  PROVE  /\ plans' \in Seq(Plan) /\ Len(plans') = Len(plans) /\ Sessions' = Sessions
         /\ \A r \in Sessions : Session(r)' = IF r = s THEN row ELSE Session(r)
<1>1. plans \in Seq(Plan) /\ Len(plans) \in Nat
  BY DataOf
<1>2. Sessions = (1..Len(plans)) \X (1..Topics)
  BY <1>1, SessionsAre
<1>3. s[1] \in 1..Len(plans) /\ s[2] \in 1..Topics
  BY <1>2
<1> DEFINE plan == [plans[s[1]] EXCEPT ![s[2]] = row]
<1>4. plans \in [1..Len(plans) -> Plan]
  <2> HIDE DEF Plan
  <2> QED BY <1>1
<1>5. plan \in Plan /\ \A t \in 1..Topics : plan[t] = IF t = s[2] THEN row ELSE plans[s[1]][t]
  <2>1. plans[s[1]] \in Plan
    <3> HIDE DEF Plan
    <3> QED BY <1>3, <1>4
  <2> HIDE DEF SessionRow
  <2> QED BY <1>3, <2>1 DEF Plan
<1> HIDE DEF plan, Plan
<1>6. /\ plans' \in [1..Len(plans) -> Plan]
      /\ \A p \in 1..Len(plans) : plans'[p] = IF p = s[1] THEN plan ELSE plans[p]
  BY <1>3, <1>4, <1>5 DEF plan
<1>7. plans' \in Seq(Plan) /\ Len(plans') = Len(plans)
  BY <1>1, <1>6
<1>8. Sessions' = Sessions
  <2>1. \A p \in 1..Len(plans') : DOMAIN plans'[p] = 1..Topics
    BY <1>7 DEF Plan
  <2>2. \A r \in (1..Len(plans')) \X (1..Topics) : r[1] \in 1..Len(plans') /\ r[2] \in 1..Topics
    OBVIOUS
  <2>3. (1..Len(plans')) \X (1..Topics) = Sessions'
    BY <2>1, <2>2 DEF Sessions
  <2> QED BY <1>2, <1>7, <2>3
<1>9. ASSUME NEW r \in Sessions PROVE Session(r)' = IF r = s THEN row ELSE Session(r)
  <2>1. r[1] \in 1..Len(plans) /\ r[2] \in 1..Topics
    BY <1>2
  <2>2. r = s <=> r[1] = s[1] /\ r[2] = s[2]
    BY <1>2
  <2> QED BY <1>5, <1>6, <2>1, <2>2 DEF Session
<1> QED BY <1>7, <1>8, <1>9

LEMMA SessionCompleted ==
  ASSUME Typed, NEW c \in Call, CompleteSession(c)
  PROVE  LET s == call[c].session
         IN  /\ s \in Sessions /\ Session(s) \in SessionRow
             /\ plans' = [plans EXCEPT ![s[1]] = [plans[s[1]] EXCEPT ![s[2]] = Done(Session(s))]]
             /\ plans' \in Seq(Plan) /\ Len(plans') = Len(plans) /\ Sessions' = Sessions
             /\ \A r \in Sessions : Session(r)' = IF r = s THEN Done(Session(s)) ELSE Session(r)
             /\ completed' = completed \cup {s}
             /\ UNCHANGED <<quizVars, tasks, exams, level>> /\ UNCHANGED history
             /\ trouble' = trouble \/ MoreTrouble
<1> DEFINE s == call[c].session
<1>1. s \in Sessions /\ Session(s) \in SessionRow
  BY CompleteSessionDoes, NamedBefore DEF SessionCalls
<1>2. plans' = [plans EXCEPT ![s[1]] = [plans[s[1]] EXCEPT ![s[2]] = Done(Session(s))]]
  BY DEF CompleteSession, Session
<1>3. completed' = completed \cup {s}
  BY <1>1, SessionRows DEF CompleteSession
<1>4. Done(Session(s)) \in SessionRow
  BY <1>1, SessionRows
<1>5. /\ UNCHANGED <<quizVars, tasks, exams, level>> /\ UNCHANGED history
      /\ trouble' = trouble \/ MoreTrouble
  BY DEF CompleteSession, Commits
<1> HIDE DEF s
<1>6. /\ plans' \in Seq(Plan) /\ Len(plans') = Len(plans) /\ Sessions' = Sessions
      /\ \A r \in Sessions : Session(r)' = IF r = s THEN Done(Session(s)) ELSE Session(r)
  BY <1>1, <1>2, <1>4, SessionChanged
<1> QED BY <1>1, <1>2, <1>3, <1>5, <1>6 DEF s

LEMMA SessionMoved ==
  ASSUME Typed, NEW c \in Call, MoveSession(c)
  PROVE  LET s == call[c].session
             row == Moved(Session(s), call[c].serial)
         IN  /\ s \in Sessions /\ Session(s) \in SessionRow /\ call[c].serial \in 0..MaxCalls
             /\ plans' \in Seq(Plan) /\ Len(plans') = Len(plans) /\ Sessions' = Sessions
             /\ \A r \in Sessions : Session(r)' = IF r = s THEN row ELSE Session(r)
             /\ UNCHANGED <<quizVars, tasks, exams, completed, level>> /\ UNCHANGED history
             /\ trouble' = trouble \/ MoreTrouble
<1> DEFINE s == call[c].session
           row == Moved(Session(s), call[c].serial)
<1>1. s \in Sessions /\ Session(s) \in SessionRow
  BY MoveSessionDoes, NamedBefore DEF SessionCalls
<1>2. plans' = [plans EXCEPT ![s[1]] = [plans[s[1]] EXCEPT ![s[2]] = row]]
  BY DEF MoveSession, Session
<1>3. call[c].serial \in 0..MaxCalls
  BY RowAt, RowFields DEF Typed
<1>4. row \in SessionRow
  BY <1>1, <1>3, SessionRows
<1>5. /\ UNCHANGED <<quizVars, tasks, exams, completed, level>> /\ UNCHANGED history
      /\ trouble' = trouble \/ MoreTrouble
  BY DEF MoveSession, Commits
<1> HIDE DEF s, row
<1>6. /\ plans' \in Seq(Plan) /\ Len(plans') = Len(plans) /\ Sessions' = Sessions
      /\ \A r \in Sessions : Session(r)' = IF r = s THEN row ELSE Session(r)
  BY <1>1, <1>2, <1>4, SessionChanged
<1> QED BY <1>1, <1>3, <1>5, <1>6 DEF s, row

LEMMA SessionTyped ==
  ASSUME Typed, NEW c \in Call, CompleteSession(c) \/ MoveSession(c) PROVE Typed'
<1>1. /\ plans' \in Seq(Plan) /\ Len(plans') = Len(plans) /\ Sessions' = Sessions
      /\ UNCHANGED <<quizVars, tasks, exams, level>> /\ UNCHANGED history
      /\ trouble' = trouble \/ MoreTrouble
      /\ completed' \subseteq completed \cup Sessions
  BY SessionCompleted, SessionMoved
<1>2. Data'
  BY <1>1, DataOf DEF Data, quizVars
<1>3. Counts'
  BY <1>1, CountsKeep DEF Typed
<1>4. /\ quizzes \in Seq(Rows) /\ quizzes' = quizzes /\ Len(quizzes) \in Nat /\ Len(plans) \in Nat
  BY <1>1, DataOf DEF quizVars
<1>5. call[c].op # "none" /\ (Falls(c) \/ Ends(c))
  BY CompleteSessionDoes, MoveSessionDoes
<1>6. Placed'
  BY <1>1, <1>4, <1>5, FallsPlaced
<1> QED BY <1>2, <1>3, <1>6 DEF Typed

LEMMA TypedInit ==
  ASSUME Init PROVE Typed
<1>1. quizzes \in Seq(Rows) /\ Len(quizzes) = 1 /\ \A q \in DOMAIN quizzes : Sound(quizzes[q])
  <2>1. quizzes = <<NewQuiz>> /\ NewQuiz \in Rows /\ Sound(NewQuiz)
    BY IdleRow, SoundNew DEF Init
  <2> HIDE DEF NewQuiz, Rows, Sound
  <2> QED BY <2>1
<1>2. acked \in Seq(Nat) /\ Len(acked) = 1
  <2>1. acked = <<0>>
    BY DEF Init
  <2> QED BY <2>1
<1>3. plans \in Seq(Plan) /\ Len(plans) = 1
  <2> DEFINE plan == [i \in 1..Topics |-> [status |-> "scheduled", task |-> i, start |-> 0]]
  <2>1. plan \in Plan
    <3>1. \A i \in 1..Topics : [status |-> "scheduled", task |-> i, start |-> 0] \in SessionRow
      BY SessionRows, StudyAssumption
    <3> HIDE DEF SessionRow
    <3> QED BY <3>1 DEF Plan
  <2>2. plans = <<plan>>
    BY DEF Init
  <2> HIDE DEF plan, Plan
  <2> QED BY <2>1, <2>2
<1>4. tasks \in Seq(TaskRow)
  <2>1. [done |-> FALSE, due |-> 0] \in TaskRow
    BY TaskRows, StudyAssumption
  <2>2. tasks = [i \in 1..Topics |-> [done |-> FALSE, due |-> 0]]
    BY DEF Init
  <2> HIDE DEF TaskRow
  <2>3. tasks \in [1..Topics -> TaskRow]
    BY <2>1, <2>2
  <2> QED BY <2>3, StudyAssumption
<1>5. exams \in Seq(Nat) /\ level \in [1..Topics -> 0..MasteryTop] /\ completed = {}
  BY StudyAssumption DEF Init
<1>6. Data
  BY <1>1, <1>2, <1>3, <1>4, <1>5 DEF Data
<1>7. Counts
  BY StudyAssumption DEF Init, Counts
<1>8. Placed
  <2>1. call = [c \in Call |-> Idle] /\ Idle \in CallRow
    BY IdleRow DEF Init
  <2> HIDE DEF Idle, CallRow
  <2> QED BY <2>1, RowIdle DEF Placed
<1> QED BY <1>6, <1>7, <1>8 DEF Typed

LEMMA TypedStep ==
  ASSUME Typed, [Next]_vars PROVE Typed'
<1>1. CASE UNCHANGED vars
  BY <1>1 DEF vars, Typed, Data, Counts, Placed, Sessions
<1>2. CASE Crash
  BY <1>2, CrashTyped
<1>3. ASSUME NEW c \in Call, Begin(c) \/ Step(c) \/ Fails(c) PROVE Typed'
  <2>1. CASE Begin(c)
    BY <2>1, BeginTyped
  <2>2. CASE Connect(c) \/ Fails(c)
    BY <2>2, ConnectTyped
  <2>3. CASE QuizStep(c)
    BY <2>3, ClosePriorTyped, InsertQuizTyped, GetQuizTyped, WriteAnswerTyped DEF QuizStep
  <2>4. CASE CourseStep(c)
    BY <2>4, GetTopicTyped, SetMasteryTyped, CreateExamTaskTyped, InsertExamTyped DEF CourseStep
  <2>5. CASE PlanStep(c)
    BY <2>5, InsertPlanTyped, CreateTaskTyped, CommitPlanTyped, ReadSessionTyped, MarkDoneTyped,
       SessionTyped, MoveTaskTyped DEF PlanStep
  <2> QED BY <1>3, <2>1, <2>2, <2>3, <2>4, <2>5 DEF Step
<1> QED BY <1>1, <1>2, <1>3 DEF Next

-----------------------------------------------------------------------------
(* The pool: a call waits only for a connection, and holds less than its   *)
(* kind may hold at most while it does.                                    *)

Pooled == Connections <= PoolSize

LEMMA TakenFinite ==
  /\ IsFiniteSet(Taken) /\ Cardinality(Taken) \in Nat
  /\ \A S \in SUBSET Taken : IsFiniteSet(S) /\ Cardinality(S) <= Cardinality(Taken)
<1>1. IsFiniteSet(1..3)
  <2>1. 1 \in Int /\ 3 \in Int
    OBVIOUS
  <2> QED BY <2>1, FS_Interval, Zenon
<1>2. IsFiniteSet(Call \X (1..3))
  BY <1>1, StudyAssumption, FS_Product
<1>3. Taken \in SUBSET (Call \X (1..3))
  BY DEF Taken
<1>4. IsFiniteSet(Taken)
  BY <1>2, <1>3, FS_Subset
<1> QED BY <1>4, FS_CardinalityType, FS_Subset

LEMMA FewerTaken ==
  ASSUME Typed, Pooled, NEW c \in Call, Alone(c), call'[c].held <= call[c].held,
         call'[c].held \in Nat, call[c].held \in Nat
  PROVE  Pooled'
<1>1. \A d \in Call : call'[d].held <= call[d].held /\ call'[d].held \in Nat /\ call[d].held \in Nat
  <2> SUFFICES ASSUME NEW d \in Call
               PROVE  call'[d].held <= call[d].held /\ call'[d].held \in Nat /\ call[d].held \in Nat
    OBVIOUS
  <2>1. call[d].held \in Nat
    BY RowAt DEF Typed
  <2>2. CASE d = c
    BY <2>2
  <2>3. CASE d # c
    <3>1. call'[d] = call[d]
      BY <2>3 DEF Alone
    <3> QED BY <2>1, <3>1
  <2> QED BY <2>2, <2>3
<1>2. Taken' \in SUBSET Taken
  <2> SUFFICES ASSUME NEW h \in Call \X (1..3), h[2] <= call'[h[1]].held
               PROVE  h[2] <= call[h[1]].held
    BY DEF Taken
  <2>1. h[1] \in Call /\ h[2] \in 1..3
    OBVIOUS
  <2> QED BY <1>1, <2>1
<1>3. Cardinality(Taken') <= Cardinality(Taken) /\ Cardinality(Taken) \in Nat
  BY <1>2, TakenFinite
<1>4. Cardinality(Taken') \in Nat
  BY <1>2, TakenFinite, FS_CardinalityType
<1> QED BY <1>3, <1>4, StudyAssumption DEF Pooled, Connections

\* No step but a connect takes more than the call had.
LEMMA HeldDown ==
  ASSUME Typed, NEW c \in Call,
         Begin(c) \/ QuizStep(c) \/ CourseStep(c) \/ PlanStep(c) \/ Fails(c)
  PROVE  Alone(c) /\ call'[c].held <= call[c].held /\ call'[c].held \in Nat
<1>1. call[c].held \in 0..3
  BY RowAt DEF Typed
<1>2. ASSUME Alone(c) PROVE call'[c].held \in Nat
  <2>1. call'[c] \in CallRow
    BY <1>2 DEF Alone
  <2> QED BY <2>1, RowFields
<1>3. ASSUME Ends(c) \/ Falls(c)
      PROVE  Alone(c) /\ call'[c].held <= call[c].held
  <2>1. CASE call'[c] = Idle
    BY <1>1, <1>3, <2>1, IdleRow DEF Ends, Falls
  <2>2. CASE call'[c] # Idle
    <3>1. Alone(c) /\ call'[c].held < call[c].held
      BY <1>3, <2>2 DEF Ends, Falls, Threw
    <3> QED BY <1>1, <1>2, <3>1
  <2> QED BY <2>1, <2>2
<1>4. ASSUME NEW fields \in SUBSET {"at", "prior", "made"}, Goes(c, fields)
      PROVE  Alone(c) /\ call'[c].held <= call[c].held
  <2>1. Alone(c) /\ call'[c].held = call[c].held
    BY <1>4 DEF Goes, Same
  <2> QED BY <1>1, <2>1
<1>5. ASSUME NEW at, NEW fields, Leaves(c, at, fields)
      PROVE  Alone(c) /\ call'[c].held <= call[c].held
  BY <1>1, <1>5 DEF Leaves, Goes
<1>6. CASE Begin(c)
  <2>1. Alone(c) /\ call'[c].held = 0
    BY <1>6, BeginDoes DEF Begun
  <2> QED BY <1>1, <2>1
<1>7. CASE QuizStep(c)
  <2>1. CASE ClosePrior(c)
    BY <1>2, <1>4, <2>1, ClosePriorDoes
  <2>2. CASE InsertQuiz(c)
    BY <1>2, <1>3, <2>2, InsertQuizDoes
  <2>3. CASE GetQuiz(c)
    BY <1>2, <1>3, <1>5, <2>3, GetQuizDoes
  <2>4. CASE WriteAnswer(c)
    BY <1>2, <1>3, <1>5, <2>4, WriteAnswerDoes
  <2> QED BY <1>7, <2>1, <2>2, <2>3, <2>4 DEF QuizStep
<1>8. CASE CourseStep(c)
  <2>1. CASE GetTopic(c)
    BY <1>2, <1>5, <2>1, GetTopicDoes
  <2>2. CASE SetMastery(c)
    BY <1>2, <1>3, <1>5, <2>2, SetMasteryDoes
  <2>3. CASE CreateExamTask(c)
    BY <1>2, <1>3, <1>5, <2>3, CreateExamTaskDoes
  <2>4. CASE InsertExam(c)
    BY <1>2, <1>3, <2>4, InsertExamDoes
  <2> QED BY <1>8, <2>1, <2>2, <2>3, <2>4 DEF CourseStep
<1>9. CASE PlanStep(c)
  <2>1. CASE InsertPlan(c)
    BY <1>2, <1>4, <2>1, InsertPlanDoes
  <2>2. CASE CreateTask(c)
    BY <1>2, <1>3, <1>5, <2>2, CreateTaskDoes
  <2>3. CASE CommitPlan(c) \/ CompleteSession(c) \/ MoveSession(c)
    BY <1>2, <1>3, <2>3, CommitPlanDoes, CompleteSessionDoes, MoveSessionDoes
  <2>4. CASE ReadSession(c)
    BY <1>2, <1>4, <2>4, ReadSessionDoes
  <2>5. CASE MarkDone(c)
    BY <1>2, <1>3, <1>5, <2>5, MarkDoneDoes
  <2>6. CASE MoveTask(c)
    BY <1>2, <1>3, <1>5, <2>6, MoveTaskDoes
  <2> QED BY <1>9, <2>1, <2>2, <2>3, <2>4, <2>5, <2>6 DEF PlanStep
<1>10. CASE Fails(c)
  BY <1>2, <1>3, <1>10, FailsDoes DEF Typed
<1> QED BY <1>6, <1>7, <1>8, <1>9, <1>10

LEMMA PooledInit ==
  ASSUME Init PROVE Pooled
<1>1. \A c \in Call : call[c].held = 0
  <2>1. call = [c \in Call |-> Idle]
    BY DEF Init
  <2> HIDE DEF Idle
  <2> QED BY <2>1, IdleRow
<1>2. \A h \in Call \X (1..3) : ~(h[2] <= call[h[1]].held)
  <2> SUFFICES ASSUME NEW h \in Call \X (1..3) PROVE ~(h[2] <= call[h[1]].held)
    OBVIOUS
  <2>1. h[1] \in Call /\ h[2] \in 1..3
    OBVIOUS
  <2> QED BY <1>1, <2>1
<1>3. Taken = {}
  BY <1>2 DEF Taken
<1> QED BY <1>3, FS_EmptySet, StudyAssumption DEF Pooled, Connections

LEMMA PooledStep ==
  ASSUME Typed, Pooled, [Next]_vars PROVE Pooled'
<1>1. CASE UNCHANGED vars
  BY <1>1 DEF vars, Pooled, Connections, Taken
<1>2. CASE Crash
  <2>1. \A d \in Call : call'[d].held = 0
    <3>1. call' = [c \in Call |-> Idle]
      BY <1>2 DEF Crash
    <3> HIDE DEF Idle
    <3> QED BY <3>1, IdleRow
  <2>2. \A h \in Call \X (1..3) : ~(h[2] <= call'[h[1]].held)
    <3> SUFFICES ASSUME NEW h \in Call \X (1..3) PROVE ~(h[2] <= call'[h[1]].held)
      OBVIOUS
    <3>1. h[1] \in Call /\ h[2] \in 1..3
      OBVIOUS
    <3> QED BY <2>1, <3>1
  <2>3. Taken' = {}
    BY <2>2 DEF Taken
  <2> QED BY <2>3, FS_EmptySet, StudyAssumption DEF Pooled, Connections
<1>3. ASSUME NEW c \in Call, Connect(c) PROVE Pooled'
  <2>1. /\ Alone(c) /\ call'[c].held = call[c].held + 1 /\ Connections < PoolSize
    BY <1>3, ConnectDoes DEF Goes, Connect, Typed
  <2>2. \A d \in Call : call[d].held \in Nat
    BY RowAt DEF Typed
  <2> DEFINE more == <<c, call[c].held + 1>>
  <2>3. Taken' \in SUBSET (Taken \cup {more})
    <3> SUFFICES ASSUME NEW h \in Call \X (1..3), h[2] <= call'[h[1]].held
                 PROVE  h[2] <= call[h[1]].held \/ h = more
      BY DEF Taken
    <3>1. h[1] \in Call /\ h[2] \in 1..3 /\ h = <<h[1], h[2]>>
      OBVIOUS
    <3>2. CASE h[1] # c
      BY <2>1, <3>1, <3>2 DEF Alone
    <3>3. CASE h[1] = c
      BY <2>1, <2>2, <3>1, <3>3
    <3> QED BY <3>2, <3>3
  <2>4. IsFiniteSet(Taken \cup {more}) /\ Cardinality(Taken \cup {more}) <= Cardinality(Taken) + 1
        /\ Cardinality(Taken \cup {more}) \in Nat /\ Cardinality(Taken) \in Nat
    <3> HIDE DEF more
    <3>1. IsFiniteSet(Taken \cup {more})
      BY TakenFinite, FS_AddElement
    <3>2. Cardinality(Taken \cup {more}) \in Nat /\ Cardinality(Taken) \in Nat
      BY <3>1, TakenFinite, FS_CardinalityType
    <3>3. Cardinality(Taken \cup {more})
            = IF more \in Taken THEN Cardinality(Taken) ELSE Cardinality(Taken) + 1
      BY TakenFinite, FS_AddElement
    <3> QED BY <3>1, <3>2, <3>3
  <2>5. Cardinality(Taken') <= Cardinality(Taken \cup {more}) /\ Cardinality(Taken') \in Nat
    <3> HIDE DEF more
    <3> QED BY <2>3, <2>4, FS_Subset, FS_CardinalityType
  <2> QED BY <2>1, <2>4, <2>5, StudyAssumption DEF Pooled, Connections
<1>4. ASSUME NEW c \in Call, Begin(c) \/ Step(c) \/ Fails(c), ~Connect(c) PROVE Pooled'
  <2>1. call[c].held \in Nat
    BY RowAt DEF Typed
  <2>2. Begin(c) \/ QuizStep(c) \/ CourseStep(c) \/ PlanStep(c) \/ Fails(c)
    BY <1>4 DEF Step
  <2>3. Alone(c) /\ call'[c].held <= call[c].held /\ call'[c].held \in Nat
    BY <2>2, HeldDown
  <2> QED BY <2>1, <2>3, FewerTaken
<1> QED BY <1>1, <1>2, <1>3, <1>4 DEF Next, Step

LEMMA PooledHolds == Spec => [](Typed /\ Pooled)
<1>1. Init => Typed /\ Pooled
  BY TypedInit, PooledInit
<1>2. Typed /\ Pooled /\ [Next]_vars => (Typed /\ Pooled)'
  BY TypedStep, PooledStep
<1> QED BY <1>1, <1>2, PTL DEF Spec

(* What the calls that are running may hold while they wait for one more   *)
(* connection does not fill the pool: then one of them has all it needs, or *)
(* a connection is free (SomeoneProceeds).                                  *)
THEOREM SomeoneProceedsHolds == Spec => []SomeoneProceeds
<1>1. ASSUME Typed, Pooled PROVE SomeoneProceeds
  <2> SUFFICES ASSUME ~Overcommitted, Running # {},
                      \A c \in Running : /\ call[c].held # Depth(c)
                                         /\ ~(call[c].held < Depth(c) /\ Connections < PoolSize)
               PROVE  FALSE
    BY DEF SomeoneProceeds
  <2>1. \A c \in Running : call[c].held < Depth(c) /\ call[c].held \in 0..3 /\ Depth(c) \in 1..3
    <3> SUFFICES ASSUME NEW c \in Running
                 PROVE  call[c].held < Depth(c) /\ call[c].held \in 0..3 /\ Depth(c) \in 1..3
      OBVIOUS
    <3>1. call[c].held \in 0..3 /\ Depth(c) \in 1..3 /\ call[c].held <= Depth(c)
      BY <1>1, RowAt DEF Typed, Running
    <3> QED BY <3>1
  <2>2. Connections >= PoolSize
    <3>1. PICK c \in Running : TRUE
      OBVIOUS
    <3>2. ~(Connections < PoolSize)
      BY <2>1, <3>1
    <3> QED BY <3>2, TakenFinite, StudyAssumption DEF Connections
  <2>3. Taken \in SUBSET Holdable
    <3> SUFFICES ASSUME NEW h \in Call \X (1..3), h[2] <= call[h[1]].held PROVE h \in Holdable
      BY DEF Taken
    <3>1. h[1] \in Call /\ h[2] \in 1..3 /\ h = <<h[1], h[2]>>
      OBVIOUS
    <3> DEFINE c == h[1]
    <3>2. Staged(call[c].op, call[c].at) /\ Depth(c) = Deep(call[c].op, call[c].at) /\ RowOK(call[c])
          /\ call[c].held \in 0..3
      BY <1>1, <3>1, RowAt DEF Typed
    <3>3. call[c].op # "none"
      <4>1. call[c].op = "none" => call[c].held = 0
        BY <3>2 DEF RowOK
      <4> QED BY <3>1, <3>2, <4>1
    <3>4. c \in Running
      BY <3>1, <3>3 DEF Running
    <3>5. Depth(c) <= Widest(call[c].op) /\ Widest(call[c].op) \in 1..3
      BY <3>2, <3>3, WithinWidest
    <3>6. h[2] < Widest(call[c].op) /\ h[2] \in 1..2
      BY <2>1, <3>1, <3>4, <3>5
    <3>7. h \in Running \X (1..2)
      BY <3>1, <3>4, <3>6
    <3> QED BY <3>6, <3>7 DEF Holdable
  <2>4. IsFiniteSet(Holdable)
    <3>1. IsFiniteSet(Running)
      BY StudyAssumption, FS_Subset DEF Running
    <3>2. IsFiniteSet(Running \X (1..2))
      <4>1. 1 \in Int /\ 2 \in Int
        OBVIOUS
      <4>2. IsFiniteSet(1..2)
        BY <4>1, FS_Interval, Zenon
      <4> QED BY <3>1, <4>2, FS_Product
    <3>3. Holdable \in SUBSET (Running \X (1..2))
      BY DEF Holdable
    <3> QED BY <3>2, <3>3, FS_Subset
  <2>5. Cardinality(Taken) <= Cardinality(Holdable) /\ Cardinality(Holdable) \in Nat
    BY <2>3, <2>4, FS_Subset, FS_CardinalityType
  <2> QED BY <2>2, <2>5, TakenFinite, StudyAssumption DEF Overcommitted, Connections
<1> QED BY <1>1, PooledHolds, PTL

-----------------------------------------------------------------------------
(* The quizzes: what a call may still do to them.                          *)

Gens == {c \in Call : call[c].op = "generateQuiz"}
Writers == {c \in Call : call[c].at = "writeAnswer"}
Askers == {c \in Call : call[c].at = "getQuiz"}
Writing == {call[c].quiz : c \in Writers}

\* What is closed when call c inserts its quiz, and what is then still live,
\* or made so by an answer under way, if the calls of S have inserted theirs.
Closes(c) == IF call[c].at = "insertQuiz" THEN call[c].prior ELSE DOMAIN quizzes
Closed(S) == {q \in DOMAIN quizzes : \E c \in S : q \in Closes(c)}
Survive(S) == (Live \ Closed(S)) \cup Writing

OnePaid ==
  /\ Cardinality(Live \cup Writing) <= 1 + overlaps
  /\ \A S \in SUBSET Gens :
       S # {} => Cardinality(Survive(S)) + Cardinality(S) + Cardinality(Askers) <= 1 + overlaps

\* The answers under way for a quiz, and the index each counts from.
Subs(q) == {c \in Writers \cup Askers : call[c].quiz = q}
Base(c) == IF call[c].at = "writeAnswer" THEN call[c].copy.index ELSE quizzes[call[c].quiz].index

AckPaid ==
  /\ \A q \in DOMAIN quizzes : acked[q] <= quizzes[q].index + overlaps
  /\ \A q \in DOMAIN quizzes : \A U \in SUBSET Subs(q) : \A c \in U :
       acked[q] + Cardinality(U) <= Base(c) + 1 + overlaps

\* A row with no more to do to quizzes than before.
Calmer(s, r) ==
  /\ s.op = "generateQuiz" => r.op = "generateQuiz"
  /\ s.at = "writeAnswer" => r.at = "writeAnswer" /\ s.quiz = r.quiz /\ s.copy = r.copy
  /\ s.at = "getQuiz" => r.at = "getQuiz" /\ s.quiz = r.quiz

\* A row that is to close no fewer quizzes than before.
Closing(s, r) == s.at = "insertQuiz" => r.at = "insertQuiz" /\ s.prior = r.prior

LEMMA CalmerRow ==
  ASSUME NEW r \in CallRow, Staged(r.op, r.at), NEW s
  PROVE  /\ s = Idle => Calmer(s, r) /\ Closing(s, r)
         /\ Threw(s, r) => Calmer(s, r) /\ Closing(s, r)
         /\ Same(s, r, {"held"}) => Calmer(s, r) /\ Closing(s, r)
         /\ \A fields \in SUBSET (LeftFields \cup {"topic", "delta", "made"}) :
              Same(s, r, fields) /\ s.at \notin {"writeAnswer", "getQuiz", "insertQuiz"} =>
                Calmer(s, r) /\ Closing(s, r)
<1>1. s = Idle => Calmer(s, r) /\ Closing(s, r)
  BY IdleRow DEF Calmer, Closing
<1>2. Threw(s, r) => Calmer(s, r) /\ Closing(s, r)
  <2>1. CASE s = Idle
    BY <1>1, <2>1
  <2>2. ASSUME Same(s, r, {"at", "held", "again"}), s.at \in Back(r.op, r.at)
        PROVE  Calmer(s, r) /\ Closing(s, r)
    <3>1. s.op = r.op /\ s.quiz = r.quiz /\ s.copy = r.copy /\ s.prior = r.prior
      BY <2>2 DEF Same
    <3>2. /\ s.at # "insertQuiz"
          /\ s.at = "writeAnswer" => r.at = "writeAnswer"
          /\ s.at = "getQuiz" => r.at = "getQuiz"
      BY <2>2 DEF Back
    <3> QED BY <3>1, <3>2 DEF Calmer, Closing
  <2> QED BY <2>1, <2>2 DEF Threw
<1>3. Same(s, r, {"held"}) => Calmer(s, r) /\ Closing(s, r)
  BY DEF Calmer, Closing, Same
<1>4. ASSUME NEW fields \in SUBSET (LeftFields \cup {"topic", "delta", "made"}),
             Same(s, r, fields), s.at \notin {"writeAnswer", "getQuiz", "insertQuiz"}
      PROVE  Calmer(s, r) /\ Closing(s, r)
  <2>1. s.op = r.op
    BY <1>4 DEF Same, LeftFields
  <2> QED BY <1>4, <2>1 DEF Calmer, Closing
<1> QED BY <1>1, <1>2, <1>3, <1>4

\* Every step of a call but two leaves it with no more to do to quizzes.
LEMMA CalmerStep ==
  ASSUME Typed, NEW c \in Call,
         \/ Connect(c) \/ Fails(c) \/ InsertQuiz(c) \/ WriteAnswer(c)
         \/ CourseStep(c) \/ PlanStep(c)
  PROVE  Alone(c) /\ Calmer(call'[c], call[c]) /\ Closing(call'[c], call[c])
<1> DEFINE s == call'[c]
           r == call[c]
<1>1. r \in CallRow /\ Staged(r.op, r.at)
  BY RowAt DEF Typed
<1>2. ASSUME Ends(c) \/ Falls(c) PROVE Alone(c) /\ Calmer(s, r) /\ Closing(s, r)
  <2>1. Alone(c) /\ (s = Idle \/ Threw(s, r))
    BY <1>2 DEF Ends, Falls
  <2> HIDE DEF s
  <2> QED BY <1>1, <2>1, CalmerRow
<1>3. ASSUME NEW fields \in SUBSET (LeftFields \cup {"topic", "delta", "made"}),
             Goes(c, fields), s.at \notin {"writeAnswer", "getQuiz", "insertQuiz"}
      PROVE  Alone(c) /\ Calmer(s, r) /\ Closing(s, r)
  <2>1. Alone(c) /\ Same(s, r, fields)
    BY <1>3 DEF Goes
  <2> HIDE DEF s
  <2> QED BY <1>1, <1>3, <2>1, CalmerRow
<1>4. ASSUME NEW fields \in SUBSET (LeftFields \cup {"topic", "delta", "made"}), NEW at,
             Leaves(c, at, fields), at \notin {"writeAnswer", "getQuiz", "insertQuiz"}
      PROVE  Alone(c) /\ Calmer(s, r) /\ Closing(s, r)
  BY <1>3, <1>4 DEF Leaves
<1>5. CASE Connect(c)
  <2>1. Alone(c) /\ Same(s, r, {"held"})
    BY <1>5, ConnectDoes DEF Goes, Typed
  <2> QED BY <2>1 DEF Calmer, Closing, Same
<1>6. CASE Fails(c)
  BY <1>2, <1>6, FailsDoes DEF Typed
<1>7. CASE InsertQuiz(c)
  BY <1>2, <1>7, InsertQuizDoes
<1>8. CASE WriteAnswer(c)
  BY <1>2, <1>4, <1>8, WriteAnswerDoes
<1>9. CASE CourseStep(c)
  <2>1. CASE GetTopic(c)
    BY <1>4, <2>1, GetTopicDoes
  <2>2. CASE SetMastery(c)
    BY <1>2, <1>4, <2>2, SetMasteryDoes
  <2>3. CASE CreateExamTask(c)
    BY <1>2, <1>4, <2>3, CreateExamTaskDoes
  <2>4. CASE InsertExam(c)
    BY <1>2, <2>4, InsertExamDoes
  <2> QED BY <1>9, <2>1, <2>2, <2>3, <2>4 DEF CourseStep
<1>10. CASE PlanStep(c)
  <2>1. CASE InsertPlan(c)
    BY <1>3, <2>1, InsertPlanDoes DEF LeftFields
  <2>2. CASE CreateTask(c)
    BY <1>2, <1>4, <2>2, CreateTaskDoes
  <2>3. CASE CommitPlan(c) \/ CompleteSession(c) \/ MoveSession(c)
    BY <1>2, <2>3, CommitPlanDoes, CompleteSessionDoes, MoveSessionDoes
  <2>4. CASE ReadSession(c)
    BY <1>3, <2>4, ReadSessionDoes DEF LeftFields
  <2>5. CASE MarkDone(c)
    BY <1>2, <1>4, <2>5, MarkDoneDoes
  <2>6. CASE MoveTask(c)
    BY <1>2, <1>4, <2>6, MoveTaskDoes
  <2> QED BY <1>10, <2>1, <2>2, <2>3, <2>4, <2>5, <2>6 DEF PlanStep
<1> QED BY <1>5, <1>6, <1>7, <1>8, <1>9, <1>10

(* Counting the sets.                                                      *)
LEMMA QuizSets ==
  ASSUME Typed
  PROVE  /\ Live \subseteq DOMAIN quizzes /\ Writing \subseteq DOMAIN quizzes
         /\ IsFiniteSet(DOMAIN quizzes) /\ IsFiniteSet(Live \cup Writing)
         /\ IsFiniteSet(Gens) /\ IsFiniteSet(Writers) /\ IsFiniteSet(Askers)
         /\ \A S : Survive(S) \subseteq DOMAIN quizzes /\ IsFiniteSet(Survive(S))
         /\ \A q : IsFiniteSet(Subs(q)) /\ Subs(q) \subseteq Writers \cup Askers
         /\ overlaps \in Nat
<1>1. Live \subseteq DOMAIN quizzes
  BY DEF Live
<1>2. Writing \subseteq DOMAIN quizzes
  <2> SUFFICES ASSUME NEW c \in Writers PROVE call[c].quiz \in DOMAIN quizzes
    BY DEF Writing
  <2>1. c \in Call /\ call[c].at = "writeAnswer" /\ Staged(call[c].op, call[c].at)
    BY RowAt DEF Writers, Typed
  <2>2. call[c].op = "submitAnswer"
    BY <2>1 DEF Staged
  <2> QED BY <2>1, <2>2, NamedBefore
<1>3. IsFiniteSet(DOMAIN quizzes)
  <2>1. DOMAIN quizzes = 1..Len(quizzes) /\ 1 \in Int /\ Len(quizzes) \in Int
    BY DataOf
  <2>2. IsFiniteSet(1..Len(quizzes))
    BY <2>1, FS_Interval, Zenon
  <2> QED BY <2>1, <2>2
<1>4. IsFiniteSet(Live \cup Writing)
  BY <1>1, <1>2, <1>3, FS_Subset
<1>5. IsFiniteSet(Gens) /\ IsFiniteSet(Writers) /\ IsFiniteSet(Askers)
  <2>1. Gens \in SUBSET Call /\ Writers \in SUBSET Call /\ Askers \in SUBSET Call
    BY DEF Gens, Writers, Askers
  <2> QED BY <2>1, StudyAssumption, FS_Subset
<1>6. ASSUME NEW S PROVE Survive(S) \subseteq DOMAIN quizzes /\ IsFiniteSet(Survive(S))
  <2>1. Survive(S) \in SUBSET DOMAIN quizzes
    BY <1>1, <1>2 DEF Survive
  <2> QED BY <1>3, <2>1, FS_Subset
<1>7. ASSUME NEW q PROVE IsFiniteSet(Subs(q)) /\ Subs(q) \subseteq Writers \cup Askers
  <2>1. Subs(q) \in SUBSET (Writers \cup Askers)
    BY DEF Subs
  <2>2. IsFiniteSet(Writers \cup Askers)
    BY <1>5, FS_Union
  <2> QED BY <2>1, <2>2, FS_Subset
<1> QED BY <1>1, <1>2, <1>3, <1>4, <1>5, <1>6, <1>7 DEF Typed, Counts

LEMMA Fewer ==
  ASSUME NEW T, IsFiniteSet(T), NEW S \in SUBSET T
  PROVE  /\ IsFiniteSet(S) /\ Cardinality(S) \in Nat /\ Cardinality(T) \in Nat
         /\ Cardinality(S) <= Cardinality(T)
BY FS_Subset, FS_CardinalityType

LEMMA OneMore ==
  ASSUME NEW S, IsFiniteSet(S), NEW x
  PROVE  /\ IsFiniteSet(S \cup {x}) /\ Cardinality(S \cup {x}) \in Nat /\ Cardinality(S) \in Nat
         /\ Cardinality(S \cup {x}) <= Cardinality(S) + 1
         /\ x \notin S => Cardinality(S \cup {x}) = Cardinality(S) + 1
<1>1. IsFiniteSet(S \cup {x}) /\ Cardinality(S) \in Nat /\ Cardinality(S \cup {x}) \in Nat
  BY FS_AddElement, FS_CardinalityType
<1>2. Cardinality(S \cup {x}) = IF x \in S THEN Cardinality(S) ELSE Cardinality(S) + 1
  BY FS_AddElement
<1> QED BY <1>1, <1>2

LEMMA OneLess ==
  ASSUME NEW S, IsFiniteSet(S), NEW x \in S
  PROVE  /\ IsFiniteSet(S \ {x}) /\ Cardinality(S \ {x}) \in Nat /\ Cardinality(S) \in Nat
         /\ Cardinality(S \ {x}) = Cardinality(S) - 1 /\ Cardinality(S) >= 1
<1>1. IsFiniteSet(S \ {x}) /\ Cardinality(S) \in Nat /\ Cardinality(S \ {x}) \in Nat
  BY FS_RemoveElement, FS_CardinalityType
<1>2. Cardinality(S \ {x}) = Cardinality(S) - 1
  BY FS_RemoveElement
<1> QED BY <1>1, <1>2

\* Fewer quizzes, answers and inserts to come are paid by what was.
LEMMA PaidKept ==
  ASSUME Typed, Typed', OnePaid, overlaps <= overlaps', Gens' \subseteq Gens,
         Askers' \subseteq Askers, (Live \cup Writing)' \subseteq Live \cup Writing,
         \A S \in SUBSET Gens' : Survive(S)' \subseteq Survive(S)
  PROVE  OnePaid'
<1>1. overlaps \in Nat /\ overlaps' \in Nat
  BY DEF Typed, Counts
<1>2. Cardinality((Live \cup Writing)') <= 1 + overlaps'
  <2>1. /\ Cardinality((Live \cup Writing)') <= Cardinality(Live \cup Writing)
        /\ Cardinality((Live \cup Writing)') \in Nat /\ Cardinality(Live \cup Writing) \in Nat
    BY QuizSets, Fewer
  <2> QED BY <1>1, <2>1 DEF OnePaid
<1>3. ASSUME NEW S \in SUBSET Gens', S # {}
      PROVE  Cardinality(Survive(S)') + Cardinality(S) + Cardinality(Askers') <= 1 + overlaps'
  <2>1. S \in SUBSET Gens
    OBVIOUS
  <2>2. Cardinality(Survive(S)) + Cardinality(S) + Cardinality(Askers) <= 1 + overlaps
    BY <1>3, <2>1 DEF OnePaid
  <2>3. /\ Cardinality(Survive(S)') <= Cardinality(Survive(S))
        /\ Cardinality(Survive(S)') \in Nat /\ Cardinality(Survive(S)) \in Nat
    BY QuizSets, Fewer
  <2>4. /\ Cardinality(Askers') <= Cardinality(Askers)
        /\ Cardinality(Askers') \in Nat /\ Cardinality(Askers) \in Nat
    BY QuizSets, Fewer
  <2>5. Cardinality(S) \in Nat
    BY <2>1, QuizSets, Fewer
  <2> QED BY <1>1, <2>2, <2>3, <2>4, <2>5
<1> QED BY <1>2, <1>3 DEF OnePaid

(* A step after which the calls have no more to do.                        *)
LEMMA CalmCalls ==
  ASSUME Typed, Typed', NEW c \in Call, Alone(c), Calmer(call'[c], call[c])
  PROVE  \A d \in Call : Calmer(call'[d], call[d])
BY DEF Alone, Calmer

LEMMA CalmSets ==
  ASSUME \A d \in Call : Calmer(call'[d], call[d])
  PROVE  /\ Gens' \subseteq Gens /\ Writers' \subseteq Writers /\ Askers' \subseteq Askers
         /\ Writing' \subseteq Writing
         /\ \A d \in Writers' : call'[d].quiz = call[d].quiz /\ call'[d].copy = call[d].copy
         /\ \A d \in Askers' : call'[d].quiz = call[d].quiz
<1>1. /\ Gens' \subseteq Gens /\ Writers' \subseteq Writers /\ Askers' \subseteq Askers
      /\ \A d \in Writers' : call'[d].quiz = call[d].quiz /\ call'[d].copy = call[d].copy
      /\ \A d \in Askers' : call'[d].quiz = call[d].quiz
  BY DEF Calmer, Gens, Writers, Askers
<1>2. Writing' \subseteq Writing
  <2> SUFFICES ASSUME NEW d \in Writers' PROVE call'[d].quiz \in Writing
    BY DEF Writing
  <2>1. d \in Writers /\ call'[d].quiz = call[d].quiz
    BY <1>1
  <2> QED BY <2>1 DEF Writing
<1> QED BY <1>1, <1>2

\* Calls that are to close no fewer quizzes than before.
LEMMA ClosesMore ==
  ASSUME Typed, DOMAIN quizzes \subseteq DOMAIN quizzes', Gens' \subseteq Gens,
         \A d \in Call : Closing(call'[d], call[d])
  PROVE  \A S \in SUBSET Gens' : Closed(S) \subseteq Closed(S)'
<1>1. ASSUME NEW d \in Gens, NEW q \in DOMAIN quizzes, q \in Closes(d) PROVE q \in Closes(d)'
  <2>1. CASE call'[d].at = "insertQuiz"
    <3>1. d \in Call
      BY DEF Gens
    <3>2. call[d].at = "insertQuiz" /\ call'[d].prior = call[d].prior
      BY <2>1, <3>1 DEF Closing
    <3> QED BY <1>1, <2>1, <3>2 DEF Closes
  <2>2. CASE call'[d].at # "insertQuiz"
    BY <2>2 DEF Closes
  <2> QED BY <2>1, <2>2
<1>2. ASSUME NEW S \in SUBSET Gens', NEW q \in Closed(S) PROVE q \in Closed(S)'
  <2>1. q \in DOMAIN quizzes
    BY DEF Closed
  <2>2. PICK d \in S : q \in Closes(d)
    BY DEF Closed
  <2>3. d \in Gens
    OBVIOUS
  <2>4. q \in Closes(d)'
    BY <1>1, <2>1, <2>2, <2>3
  <2> QED BY <2>1, <2>4 DEF Closed
<1> QED BY <1>2

LEMMA AckKept ==
  ASSUME Typed, Typed', AckPaid, overlaps <= overlaps', acked' = acked,
         DOMAIN quizzes' = DOMAIN quizzes,
         \A q \in DOMAIN quizzes : quizzes'[q].index = quizzes[q].index,
         Writers' \subseteq Writers, Askers' \subseteq Askers,
         \A d \in Writers' : call'[d].quiz = call[d].quiz /\ call'[d].copy = call[d].copy,
         \A d \in Askers' : call'[d].quiz = call[d].quiz
  PROVE  AckPaid'
<1>0. overlaps \in Nat /\ overlaps' \in Nat /\ \A q \in DOMAIN quizzes : acked[q] \in Nat
  BY DataOf DEF Typed, Counts
<1>1. ASSUME NEW q \in DOMAIN quizzes PROVE acked[q] <= quizzes'[q].index + overlaps'
  <2>1. acked[q] <= quizzes[q].index + overlaps
    BY DEF AckPaid
  <2>2. quizzes[q].index \in Nat
    BY DataOf, RowParts DEF Index
  <2> QED BY <1>0, <2>1, <2>2
<1>2. ASSUME NEW q \in DOMAIN quizzes, NEW U \in SUBSET Subs(q)', NEW c \in U
      PROVE  acked[q] + Cardinality(U) <= Base(c)' + 1 + overlaps'
  <2>1. Subs(q)' \subseteq Subs(q)
    BY DEF Subs
  <2>2. c \in Writers' \cup Askers' /\ call'[c].quiz = q /\ call[c].quiz = q
    BY <2>1 DEF Subs
  <2>3. Base(c)' = Base(c) /\ Base(c) \in Nat
    <3>1. CASE c \in Writers'
      <4>1. /\ call'[c].at = "writeAnswer" /\ call[c].at = "writeAnswer" /\ c \in Call
            /\ call'[c].copy = call[c].copy
        BY <3>1 DEF Writers
      <4>2. call[c].copy.index \in Nat
        BY <4>1, RowAt, RowFields, RowParts DEF Typed, Index
      <4> QED BY <4>1, <4>2 DEF Base
    <3>2. CASE c \in Askers' \ Writers'
      <4>1. call'[c].at = "getQuiz" /\ call[c].at = "getQuiz"
        BY <3>2 DEF Askers
      <4>2. quizzes[q].index \in Nat
        BY DataOf, RowParts DEF Index
      <4> QED BY <2>2, <4>1, <4>2 DEF Base
    <3> QED BY <2>2, <3>1, <3>2
  <2>4. acked[q] + Cardinality(U) <= Base(c) + 1 + overlaps
    <3>1. U \in SUBSET Subs(q)
      BY <2>1
    <3> QED BY <3>1 DEF AckPaid
  <2>5. Cardinality(U) \in Nat
    <3>1. IsFiniteSet(Subs(q)) /\ U \in SUBSET Subs(q)
      BY <2>1, QuizSets
    <3> QED BY <3>1, Fewer
  <2> QED BY <1>0, <2>3, <2>4, <2>5
<1> QED BY <1>1, <1>2 DEF AckPaid

Paid == OnePaid /\ AckPaid

\* Nothing is done to the quizzes, and no more is to be done.
LEMMA QuietPaid ==
  ASSUME Typed, Typed', Paid, UNCHANGED quizVars, overlaps <= overlaps',
         \A d \in Call : Calmer(call'[d], call[d]) /\ Closing(call'[d], call[d])
  PROVE  Paid'
<1>1. quizzes' = quizzes /\ acked' = acked /\ Live' = Live
  BY DEF quizVars, Live
<1>2. /\ Gens' \subseteq Gens /\ Writers' \subseteq Writers /\ Askers' \subseteq Askers
      /\ Writing' \subseteq Writing
      /\ \A d \in Writers' : call'[d].quiz = call[d].quiz /\ call'[d].copy = call[d].copy
      /\ \A d \in Askers' : call'[d].quiz = call[d].quiz
  BY CalmSets
<1>3. \A S \in SUBSET Gens' : Closed(S) \subseteq Closed(S)'
  BY <1>1, <1>2, ClosesMore
<1>4. \A S \in SUBSET Gens' : Survive(S)' \subseteq Survive(S)
  <2> SUFFICES ASSUME NEW S \in SUBSET Gens' PROVE Survive(S)' \subseteq Survive(S)
    OBVIOUS
  <2>1. Closed(S) \subseteq Closed(S)'
    BY <1>3
  <2> HIDE DEF Closed, Live, Writing
  <2> QED BY <1>1, <1>2, <2>1 DEF Survive
<1>5. OnePaid'
  <2>1. (Live \cup Writing)' \subseteq Live \cup Writing
    BY <1>1, <1>2
  <2> QED BY <1>2, <1>4, <2>1, PaidKept DEF Paid
<1>6. AckPaid'
  BY <1>1, <1>2, AckKept DEF Paid
<1> QED BY <1>5, <1>6 DEF Paid

LEMMA ClosePriorPaid ==
  ASSUME Typed, Typed', Paid, NEW c \in Call, ClosePrior(c) PROVE Paid'
<1>1. /\ call[c].at = "closePrior" /\ call[c].op = "generateQuiz" /\ Alone(c)
      /\ Same(call'[c], call[c], {"at", "prior"}) /\ call'[c].at = "insertQuiz"
      /\ call'[c].prior = Prior
  BY ClosePriorDoes DEF Goes
<1>2. quizzes' = quizzes /\ acked' = acked /\ overlaps' = overlaps /\ Live' = Live
  BY DEF ClosePrior, quizVars, history, Live
<1>3. \A d \in Call : Calmer(call'[d], call[d])
  BY <1>1 DEF Alone, Calmer, Same
<1>4. /\ Gens' \subseteq Gens /\ Writers' \subseteq Writers /\ Askers' \subseteq Askers
      /\ Writing' \subseteq Writing
      /\ \A d \in Writers' : call'[d].quiz = call[d].quiz /\ call'[d].copy = call[d].copy
      /\ \A d \in Askers' : call'[d].quiz = call[d].quiz
  BY <1>3, CalmSets
<1>5. overlaps \in Nat
  BY DEF Typed, Counts
<1>6. ASSUME NEW S \in SUBSET Gens' PROVE Survive(S)' \subseteq Survive(S)
  <2> SUFFICES ASSUME NEW q \in Live, q \notin Closed(S)', q \in Closed(S) PROVE FALSE
    BY <1>2, <1>4 DEF Survive
  <2>1. q \in DOMAIN quizzes /\ q \in Prior
    BY DEF Live, Prior
  <2>2. PICK d \in S : q \in Closes(d)
    BY DEF Closed
  <2>3. q \in Closes(d)'
    <3>1. CASE d = c
      BY <1>1, <2>1, <3>1 DEF Closes
    <3>2. CASE d # c
      <4>1. d \in Call
        BY DEF Gens
      <4>2. call'[d] = call[d]
        BY <1>1, <3>2, <4>1 DEF Alone
      <4> QED BY <1>2, <2>2, <4>2 DEF Closes
    <3> QED BY <3>1, <3>2
  <2> QED BY <1>2, <2>1, <2>3 DEF Closed
<1>7. OnePaid'
  <2>1. (Live \cup Writing)' \subseteq Live \cup Writing
    BY <1>2, <1>4
  <2> QED BY <1>2, <1>4, <1>5, <1>6, <2>1, PaidKept DEF Paid
<1>8. AckPaid'
  BY <1>2, <1>4, <1>5, AckKept DEF Paid
<1> QED BY <1>7, <1>8 DEF Paid

LEMMA GetQuizPaid ==
  ASSUME Typed, Typed', Paid, NEW c \in Call, GetQuiz(c) PROVE Paid'
<1> DEFINE q == call[c].quiz
<1>1. quizzes' = quizzes /\ acked' = acked /\ overlaps' = overlaps /\ Live' = Live
  BY DEF GetQuiz, quizVars, history, Live
<1>2. call[c].at = "getQuiz" /\ call[c].op = "submitAnswer" /\ overlaps \in Nat
  BY GetQuizDoes DEF Typed, Counts
<1>3. CASE Ends(c)
  <2>1. Alone(c) /\ call'[c] = Idle
    BY <1>3 DEF Ends
  <2>2. Calmer(call'[c], call[c]) /\ Closing(call'[c], call[c])
    BY <2>1, IdleRow DEF Calmer, Closing
  <2>3. \A d \in Call : Calmer(call'[d], call[d]) /\ Closing(call'[d], call[d])
    BY <2>1, <2>2 DEF Alone, Calmer, Closing
  <2> QED BY <1>1, <1>2, <2>3, QuietPaid DEF quizVars
<1>4. CASE /\ Leaves(c, "writeAnswer", LeftFields) /\ call'[c].copy = quizzes[q]
           /\ Answerable(quizzes[q])
  <2>1. /\ Alone(c) /\ call'[c].at = "writeAnswer" /\ call'[c].quiz = q
        /\ call'[c].copy = quizzes[q] /\ call'[c].op = call[c].op
    BY <1>4 DEF Leaves, Goes, Same, LeftFields
  <2>2. q \in Live
    <3>1. q \in DOMAIN quizzes /\ Sound(quizzes[q])
      BY <1>2, NamedBefore
    <3> QED BY <1>4, <3>1 DEF Sound, Answerable, Live
  <2>3. /\ Gens' = Gens /\ Writers' = Writers \cup {c} /\ Askers' = Askers \ {c} /\ c \in Askers
        /\ c \notin Writers
    BY <1>2, <2>1 DEF Alone, Gens, Writers, Askers
  <2>4. Writing' = Writing \cup {q}
    <3>1. \A d \in Writers : d # c /\ call'[d].quiz = call[d].quiz
      BY <2>1, <2>3 DEF Alone, Writers
    <3> HIDE DEF Writers
    <3> QED BY <2>1, <2>3, <3>1 DEF Writing
  <2>5. \A S \in SUBSET Gens' : Closed(S) = Closed(S)'
    <3>1. \A d \in Gens : Closes(d)' = Closes(d)
      BY <1>1, <1>2, <2>1 DEF Gens, Alone, Closes
    <3> HIDE DEF Gens, Closes
    <3> QED BY <1>1, <2>3, <3>1 DEF Closed
  <2>6. ASSUME NEW S \in SUBSET Gens', S # {}
        PROVE  Cardinality(Survive(S)') + Cardinality(S) + Cardinality(Askers') <= 1 + overlaps'
    <3>1. Survive(S)' \in SUBSET (Survive(S) \cup {q})
      <4>1. Closed(S)' = Closed(S)
        BY <2>5
      <4> HIDE DEF Closed, Live, Writing, q
      <4> QED BY <1>1, <2>4, <4>1 DEF Survive
    <3>2. /\ IsFiniteSet(Survive(S) \cup {q}) /\ Cardinality(Survive(S)) \in Nat
          /\ Cardinality(Survive(S) \cup {q}) \in Nat
          /\ Cardinality(Survive(S) \cup {q}) <= Cardinality(Survive(S)) + 1
      BY QuizSets, OneMore
    <3>3. /\ Cardinality(Survive(S)') <= Cardinality(Survive(S) \cup {q})
          /\ Cardinality(Survive(S)') \in Nat
      <4> HIDE DEF Survive, q
      <4> QED BY <3>1, <3>2, Fewer
    <3>4. Cardinality(Askers') = Cardinality(Askers) - 1 /\ Cardinality(Askers) \in Nat
      BY <2>3, QuizSets, OneLess
    <3>5. Cardinality(Survive(S)) + Cardinality(S) + Cardinality(Askers) <= 1 + overlaps
      BY <2>3, <2>6 DEF Paid, OnePaid
    <3>6. Cardinality(S) \in Nat
      BY <2>3, QuizSets, Fewer
    <3> HIDE DEF q
    <3> QED BY <1>1, <1>2, <3>2, <3>3, <3>4, <3>5, <3>6
  <2>7. OnePaid'
    <3>1. (Live \cup Writing)' = Live \cup Writing
      BY <1>1, <2>2, <2>4
    <3> QED BY <1>1, <2>6, <3>1 DEF Paid, OnePaid
  <2>8. AckPaid'
    <3>1. \A x \in DOMAIN quizzes : Subs(x)' = Subs(x)
      <4>1. Writers' \cup Askers' = Writers \cup Askers
        BY <2>3
      <4>2. \A d \in Writers \cup Askers : call'[d].quiz = call[d].quiz
        BY <2>1 DEF Alone, Writers, Askers
      <4> HIDE DEF Writers, Askers
      <4> QED BY <4>1, <4>2 DEF Subs
    <3>2. \A d \in Writers \cup Askers : Base(d)' = Base(d)
      <4>1. Base(c)' = Base(c)
        BY <1>2, <2>1 DEF Base
      <4>2. ASSUME NEW d \in (Writers \cup Askers) \ {c} PROVE Base(d)' = Base(d)
        <5>1. d \in Call /\ call'[d] = call[d]
          BY <2>1 DEF Writers, Askers, Alone
        <5> QED BY <1>1, <5>1 DEF Base
      <4> QED BY <4>1, <4>2
    <3>3. \A x \in DOMAIN quizzes : \A d \in Subs(x) : Base(d)' = Base(d)
      BY <3>2 DEF Subs
    <3> HIDE DEF Subs, Base
    <3> QED BY <1>1, <3>1, <3>3 DEF Paid, AckPaid
  <2> QED BY <2>7, <2>8 DEF Paid
<1> QED BY <1>3, <1>4, GetQuizDoes

LEMMA CrashPaid ==
  ASSUME Typed, Typed', Paid, Crash PROVE Paid'
<1>1. \A d \in Call : Calmer(call'[d], call[d]) /\ Closing(call'[d], call[d])
  BY IdleRow DEF Crash, Calmer, Closing
<1>2. UNCHANGED quizVars /\ overlaps <= overlaps'
  BY DEF Crash, history, Typed, Counts
<1> QED BY <1>1, <1>2, QuietPaid

LEMMA OtherPaid ==
  ASSUME Typed, Typed', Paid, NEW c \in Call,
         Connect(c) \/ Fails(c) \/ CourseStep(c) \/ PlanStep(c)
  PROVE  Paid'
<1>1. \A d \in Call : Calmer(call'[d], call[d]) /\ Closing(call'[d], call[d])
  BY CalmerStep DEF Alone, Calmer, Closing
<1>2. quizVars' = quizVars /\ overlaps' = overlaps
  <2>1. CASE CourseStep(c)
    BY <2>1 DEF CourseStep, GetTopic, SetMastery, CreateExamTask, InsertExam, history
  <2>2. CASE PlanStep(c)
    BY <2>2 DEF PlanStep, InsertPlan, CreateTask, CommitPlan, ReadSession, MarkDone,
                CompleteSession, MoveTask, MoveSession, history
  <2> QED BY <2>1, <2>2 DEF Connect, Fails, history
<1>3. overlaps \in Nat
  BY DEF Typed, Counts
<1> QED BY <1>1, <1>2, <1>3, QuietPaid

(* The rows an insert leaves.                                              *)
LEMMA RowsInserted ==
  ASSUME Typed, NEW c \in Call, InsertQuiz(c)
  PROVE  /\ DOMAIN quizzes' = DOMAIN quizzes \cup {Len(quizzes) + 1}
         /\ Len(quizzes) + 1 \notin DOMAIN quizzes
         /\ \A q \in DOMAIN quizzes :
              /\ quizzes'[q].index = quizzes[q].index /\ acked'[q] = acked[q]
              /\ q \in call[c].prior => quizzes'[q].status = "COMPLETED"
              /\ q \notin call[c].prior => quizzes'[q] = quizzes[q]
         /\ quizzes'[Len(quizzes) + 1].index = 0 /\ acked'[Len(quizzes) + 1] = 0
<1> DEFINE closed == [q \in DOMAIN quizzes |->
                        IF q \in call[c].prior THEN [quizzes[q] EXCEPT !.status = "COMPLETED"]
                        ELSE quizzes[q]]
           new == Len(quizzes) + 1
<1>1. quizzes' = Append(closed, NewQuiz) /\ acked' = Append(acked, 0)
  BY DEF InsertQuiz
<1>2. \A q \in 1..Len(quizzes) :
        /\ closed[q].index = quizzes[q].index
        /\ q \in call[c].prior => closed[q].status = "COMPLETED"
        /\ q \notin call[c].prior => closed[q] = quizzes[q]
  BY DataOf, SoundClosed DEF Data
<1>3. closed \in Seq(Rows) /\ Len(closed) = Len(quizzes) /\ DOMAIN closed = 1..Len(quizzes)
  <2>1. \A q \in 1..Len(quizzes) : closed[q] \in Rows
    BY DataOf, SoundClosed DEF Data, Sound
  <2>2. closed = [q \in 1..Len(quizzes) |-> closed[q]] /\ Len(quizzes) \in Nat
    BY DataOf
  <2> HIDE DEF closed
  <2>3. closed \in [1..Len(quizzes) -> Rows]
    BY <2>1, <2>2
  <2> QED BY <2>2, <2>3
<1> HIDE DEF closed
<1>4. /\ DOMAIN quizzes' = 1..new
      /\ \A q \in 1..Len(quizzes) : quizzes'[q] = closed[q]
      /\ quizzes'[new] = NewQuiz
  <2>1. NewQuiz \in Rows /\ Len(quizzes) \in Nat
    BY IdleRow, DataOf
  <2> HIDE DEF NewQuiz, Rows
  <2> QED BY <1>1, <1>3, <2>1
<1>5. (\A q \in 1..Len(quizzes) : acked'[q] = acked[q]) /\ acked'[new] = 0
  <2>1. acked \in Seq(Nat) /\ Len(acked) = Len(quizzes) /\ Len(quizzes) \in Nat
    BY DataOf
  <2> QED BY <1>1, <2>1
<1>6. 1..new = 1..Len(quizzes) \cup {new} /\ new \notin 1..Len(quizzes)
  BY DataOf
<1>7. DOMAIN quizzes = 1..Len(quizzes) /\ NewQuiz.index = 0
  BY DataOf, SoundNew
<1> QED BY <1>2, <1>4, <1>5, <1>6, <1>7

\* The call inserts its quiz: what it leaves live and the new quiz are what it
\* paid for when it began.
LEMMA InsertQuizPaid ==
  ASSUME Typed, Typed', Paid, NEW c \in Call, InsertQuiz(c) PROVE Paid'
<1>0. PICK new : new = Len(quizzes) + 1
  OBVIOUS
<1>1. /\ call[c].at = "insertQuiz" /\ call[c].op = "generateQuiz" /\ c \in Gens
      /\ overlaps' = overlaps /\ overlaps \in Nat
  BY InsertQuizDoes DEF Gens, InsertQuiz, history, Typed, Counts
<1>2. Alone(c) /\ Calmer(call'[c], call[c]) /\ Closing(call'[c], call[c])
  BY CalmerStep
<1>3. \A d \in Call : Calmer(call'[d], call[d]) /\ Closing(call'[d], call[d])
  BY <1>2 DEF Alone, Calmer, Closing
<1>4. /\ Gens' \subseteq Gens /\ Writers' \subseteq Writers /\ Askers' \subseteq Askers
      /\ Writing' \subseteq Writing
      /\ \A d \in Writers' : call'[d].quiz = call[d].quiz /\ call'[d].copy = call[d].copy
      /\ \A d \in Askers' : call'[d].quiz = call[d].quiz
  BY <1>3, CalmSets
<1>5. /\ DOMAIN quizzes' = DOMAIN quizzes \cup {new} /\ new \notin DOMAIN quizzes
      /\ \A q \in DOMAIN quizzes :
           /\ quizzes'[q].index = quizzes[q].index /\ acked'[q] = acked[q]
           /\ q \in call[c].prior => quizzes'[q].status = "COMPLETED"
           /\ q \notin call[c].prior => quizzes'[q] = quizzes[q]
      /\ quizzes'[new].index = 0 /\ acked'[new] = 0
  BY <1>0, RowsInserted
<1>6. \A S \in SUBSET Gens' : Closed(S) \subseteq Closed(S)'
  <2>1. DOMAIN quizzes \subseteq DOMAIN quizzes'
    BY <1>5
  <2> QED BY <1>3, <1>4, <2>1, ClosesMore
<1>7. Live' \subseteq (Live \ call[c].prior) \cup {new}
  BY <1>5 DEF Live
<1>8. c \in Gens' => Closes(c)' = DOMAIN quizzes'
  <2>1. ASSUME c \in Gens' PROVE call'[c].at = "closePrior"
    <3>1. call'[c].op = "generateQuiz"
      BY <2>1 DEF Gens
    <3>2. Threw(call'[c], call[c])
      BY <3>1, InsertQuizDoes, IdleRow DEF Ends, Falls
    <3>3. call'[c].at \in Back(call[c].op, call[c].at)
      BY <3>1, <3>2, IdleRow DEF Threw
    <3> QED BY <1>1, <3>3 DEF Back, SessionCalls
  <2> QED BY <2>1 DEF Closes
<1>9. Cardinality((Live \cup Writing)') <= 1 + overlaps'
  <2>1. (Live \cup Writing)' \in SUBSET (Survive({c}) \cup {new})
    <3>1. Closed({c}) \subseteq call[c].prior
      BY <1>1 DEF Closed, Closes
    <3> HIDE DEF Closed, Live, Writing
    <3> QED BY <1>4, <1>7, <3>1 DEF Survive
  <2>2. /\ IsFiniteSet(Survive({c}) \cup {new}) /\ Cardinality(Survive({c})) \in Nat
        /\ Cardinality(Survive({c}) \cup {new}) \in Nat
        /\ Cardinality(Survive({c}) \cup {new}) <= Cardinality(Survive({c})) + 1
    BY QuizSets, OneMore
  <2>3. /\ Cardinality((Live \cup Writing)') <= Cardinality(Survive({c}) \cup {new})
        /\ Cardinality((Live \cup Writing)') \in Nat
    <3> HIDE DEF Survive, Live, Writing
    <3> QED BY <2>1, <2>2, Fewer
  <2>4. Cardinality(Survive({c})) + Cardinality({c}) + Cardinality(Askers) <= 1 + overlaps
    BY <1>1 DEF Paid, OnePaid
  <2>5. Cardinality({c}) = 1 /\ Cardinality(Askers) \in Nat
    BY FS_Singleton, QuizSets, FS_CardinalityType
  <2> QED BY <1>1, <2>2, <2>3, <2>4, <2>5
<1>10. ASSUME NEW S \in SUBSET Gens', S # {}
       PROVE  Cardinality(Survive(S)') + Cardinality(S) + Cardinality(Askers') <= 1 + overlaps'
  <2>1. /\ Cardinality(Askers') <= Cardinality(Askers)
        /\ Cardinality(Askers') \in Nat /\ Cardinality(Askers) \in Nat
    BY <1>4, QuizSets, Fewer
  <2>2. IsFiniteSet(S) /\ Cardinality(S) \in Nat /\ S \in SUBSET Gens
    BY <1>4, QuizSets, Fewer
  <2>3. CASE c \in S
    <3>1. Survive(S)' \in SUBSET Survive(S)
      <4>1. DOMAIN quizzes' \subseteq Closed(S)'
        BY <1>8, <2>3 DEF Closed
      <4>2. Live' \subseteq DOMAIN quizzes'
        BY DEF Live
      <4> HIDE DEF Closed, Live, Writing
      <4> QED BY <1>4, <4>1, <4>2 DEF Survive
    <3>2. /\ Cardinality(Survive(S)') <= Cardinality(Survive(S))
          /\ Cardinality(Survive(S)') \in Nat /\ Cardinality(Survive(S)) \in Nat
      <4>1. IsFiniteSet(Survive(S))
        BY QuizSets
      <4> HIDE DEF Survive
      <4> QED BY <3>1, <4>1, Fewer
    <3>3. Cardinality(Survive(S)) + Cardinality(S) + Cardinality(Askers) <= 1 + overlaps
      BY <1>10, <2>2 DEF Paid, OnePaid
    <3> QED BY <1>1, <2>1, <2>2, <3>2, <3>3
  <2>4. CASE c \notin S
    <3> DEFINE T == S \cup {c}
    <3>1. Survive(S)' \in SUBSET (Survive(T) \cup {new})
      <4>1. Closed(T) \subseteq Closed(S)' \cup call[c].prior
        <5>1. Closed(S) \subseteq Closed(S)'
          BY <1>6
        <5>2. Closed(T) \subseteq Closed(S) \cup call[c].prior
          BY <1>1 DEF Closed, Closes
        <5> QED BY <5>1, <5>2
      <4> HIDE DEF Closed, Live, Writing, T
      <4> QED BY <1>4, <1>7, <4>1 DEF Survive
    <3>2. Cardinality(T) = Cardinality(S) + 1
      BY <2>2, <2>4, OneMore
    <3>3. T \in SUBSET Gens /\ T # {}
      BY <1>1, <2>2
    <3> HIDE DEF T
    <3>4. Cardinality(Survive(T)) + Cardinality(T) + Cardinality(Askers) <= 1 + overlaps
      BY <3>3 DEF Paid, OnePaid
    <3>5. /\ IsFiniteSet(Survive(T) \cup {new}) /\ Cardinality(Survive(T)) \in Nat
          /\ Cardinality(Survive(T) \cup {new}) \in Nat
          /\ Cardinality(Survive(T) \cup {new}) <= Cardinality(Survive(T)) + 1
      BY QuizSets, OneMore
    <3>6. /\ Cardinality(Survive(S)') <= Cardinality(Survive(T) \cup {new})
          /\ Cardinality(Survive(S)') \in Nat
      <4> HIDE DEF Survive
      <4> QED BY <3>1, <3>5, Fewer
    <3> QED BY <1>1, <2>1, <2>2, <3>2, <3>4, <3>5, <3>6
  <2> QED BY <2>3, <2>4
<1>11. OnePaid'
  BY <1>9, <1>10 DEF OnePaid
<1>12. AckPaid'
  <2>1. \A d \in Writers' \cup Askers' : call'[d].quiz \in DOMAIN quizzes
    <3> SUFFICES ASSUME NEW d \in Writers' \cup Askers' PROVE call'[d].quiz \in DOMAIN quizzes
      OBVIOUS
    <3>1. d \in Writers \cup Askers /\ call'[d].quiz = call[d].quiz
      BY <1>4
    <3>2. d \in Call /\ call[d].at \in {"writeAnswer", "getQuiz"}
      BY <3>1 DEF Writers, Askers
    <3>3. call[d].op = "submitAnswer"
      BY <3>2, RowAt DEF Typed, Staged
    <3> QED BY <3>1, <3>2, <3>3, NamedBefore
  <2>2. Subs(new)' = {}
    <3> SUFFICES ASSUME NEW d \in Subs(new)' PROVE FALSE
      OBVIOUS
    <3>1. d \in Writers' \cup Askers' /\ call'[d].quiz = new
      BY DEF Subs
    <3> QED BY <1>5, <2>1, <3>1
  <2>3. \A q \in DOMAIN quizzes : Subs(q)' \subseteq Subs(q)
    BY <1>4 DEF Subs
  <2>4. \A q \in DOMAIN quizzes : \A d \in Subs(q)' : Base(d)' = Base(d)
    <3> SUFFICES ASSUME NEW q \in DOMAIN quizzes, NEW d \in Subs(q)' PROVE Base(d)' = Base(d)
      OBVIOUS
    <3>1. d \in Writers' \cup Askers' /\ call'[d].quiz = q /\ call[d].quiz = q
      BY <2>3 DEF Subs
    <3>2. CASE d \in Writers'
      <4>1. call'[d].at = "writeAnswer" /\ call[d].at = "writeAnswer" /\ call'[d].copy = call[d].copy
        BY <1>4, <3>2 DEF Writers
      <4> QED BY <4>1 DEF Base
    <3>3. CASE d \in Askers'
      <4>1. call'[d].at = "getQuiz" /\ call[d].at = "getQuiz"
        BY <1>4, <3>3 DEF Askers
      <4>2. quizzes'[q].index = quizzes[q].index
        BY <1>5
      <4> QED BY <3>1, <4>1, <4>2 DEF Base
    <3> QED BY <3>1, <3>2, <3>3
  <2>5. \A q \in DOMAIN quizzes' : acked'[q] <= quizzes'[q].index + overlaps'
    <3>1. \A q \in DOMAIN quizzes : acked[q] <= quizzes[q].index + overlaps
      BY DEF Paid, AckPaid
    <3> QED BY <1>1, <1>5, <3>1
  <2>6. ASSUME NEW q \in DOMAIN quizzes', NEW U \in SUBSET Subs(q)', NEW d \in U
        PROVE  acked'[q] + Cardinality(U) <= Base(d)' + 1 + overlaps'
    <3>1. q \in DOMAIN quizzes
      BY <1>5, <2>2, <2>6
    <3>2. U \in SUBSET Subs(q) /\ Base(d)' = Base(d) /\ acked'[q] = acked[q]
      BY <1>5, <2>3, <2>4, <3>1
    <3>3. acked[q] + Cardinality(U) <= Base(d) + 1 + overlaps
      BY <3>1, <3>2 DEF Paid, AckPaid
    <3> QED BY <1>1, <3>2, <3>3
  <2> QED BY <2>5, <2>6 DEF AckPaid
<1> QED BY <1>11, <1>12 DEF Paid

\* A written answer counts its quiz one further than the copy it was computed
\* from: what is acknowledged beyond was paid by the calls that overlapped.
LEMMA WriteAnswerPaid ==
  ASSUME Typed, Typed', Paid, NEW c \in Call, WriteAnswer(c) PROVE Paid'
<1>0. PICK q : q = call[c].quiz
  OBVIOUS
<1>1. /\ call[c].at = "writeAnswer" /\ call[c].op = "submitAnswer" /\ c \in Writers
      /\ quizzes' = [quizzes EXCEPT ![q] = WrittenBy(c)]
      /\ \/ acked' = acked
         \/ acked' = [acked EXCEPT ![q] = @ + 1] /\ call'[c].at # "writeAnswer"
      /\ overlaps' = overlaps /\ overlaps \in Nat
  BY <1>0, WriteAnswerDoes DEF Writers, WriteAnswer, history, Typed, Counts
<1>2. Alone(c) /\ Calmer(call'[c], call[c]) /\ Closing(call'[c], call[c])
  BY CalmerStep
<1>3. \A d \in Call : Calmer(call'[d], call[d]) /\ Closing(call'[d], call[d])
  BY <1>2 DEF Alone, Calmer, Closing
<1>4. /\ Gens' \subseteq Gens /\ Writers' \subseteq Writers /\ Askers' \subseteq Askers
      /\ Writing' \subseteq Writing
      /\ \A d \in Writers' : call'[d].quiz = call[d].quiz /\ call'[d].copy = call[d].copy
      /\ \A d \in Askers' : call'[d].quiz = call[d].quiz
  BY <1>3, CalmSets
<1>5. q \in DOMAIN quizzes /\ q \in Writing /\ DOMAIN quizzes' = DOMAIN quizzes
  BY <1>0, <1>1, NamedBefore DEF Writing
<1>6. /\ quizzes'[q].index = call[c].copy.index + 1 /\ call[c].copy.index \in Nat
      /\ \A x \in DOMAIN quizzes \ {q} : quizzes'[x] = quizzes[x]
  <2>1. RowOK(call[c]) /\ call[c] \in CallRow
    BY NamedBefore DEF RowOK
  <2>2. Sound(call[c].copy) /\ ~LastAnswered(call[c].copy.index) /\ call[c].right \in BOOLEAN
    BY <1>1, <2>1, RowFields DEF RowOK, Flag
  <2>3. WrittenBy(c).index = call[c].copy.index + 1 /\ call[c].copy.index \in 0..(TotalQuestions - 1)
    BY <2>2, SoundWritten DEF WrittenBy
  <2> HIDE DEF WrittenBy
  <2> QED BY <1>1, <1>5, <2>3
<1>7. \A S \in SUBSET Gens' : Closed(S) \subseteq Closed(S)'
  BY <1>3, <1>4, <1>5, ClosesMore
<1>8. Live' \subseteq Live \cup Writing
  BY <1>5, <1>6 DEF Live
<1>9. OnePaid'
  <2>1. (Live \cup Writing)' \subseteq Live \cup Writing
    BY <1>4, <1>8
  <2>2. \A S \in SUBSET Gens' : Survive(S)' \subseteq Survive(S)
    <3> SUFFICES ASSUME NEW S \in SUBSET Gens' PROVE Survive(S)' \subseteq Survive(S)
      OBVIOUS
    <3>1. Closed(S) \subseteq Closed(S)'
      BY <1>7
    <3> HIDE DEF Closed, Live, Writing
    <3> QED BY <1>4, <1>8, <3>1 DEF Survive
  <2> QED BY <1>1, <1>4, <2>1, <2>2, PaidKept DEF Paid
<1>10. \A x \in DOMAIN quizzes : acked[x] \in Nat /\ quizzes[x].index \in Nat
  <2>1. \A x \in DOMAIN quizzes : quizzes[x] \in Rows /\ acked[x] \in Nat
    BY DataOf
  <2> QED BY <2>1, RowParts DEF Index
<1>11. ASSUME NEW x \in DOMAIN quizzes, x # q
       PROVE  /\ acked'[x] <= quizzes'[x].index + overlaps'
              /\ \A U \in SUBSET Subs(x)' : \A d \in U :
                   acked'[x] + Cardinality(U) <= Base(d)' + 1 + overlaps'
  <2>1. acked'[x] = acked[x] /\ quizzes'[x] = quizzes[x]
    <3>1. acked \in Seq(Nat) /\ DOMAIN acked = DOMAIN quizzes
      BY DataOf
    <3> QED BY <1>1, <1>6, <1>11, <3>1
  <2>2. acked[x] <= quizzes[x].index + overlaps
    BY DEF Paid, AckPaid
  <2>3. ASSUME NEW U \in SUBSET Subs(x)', NEW d \in U
        PROVE  acked'[x] + Cardinality(U) <= Base(d)' + 1 + overlaps'
    <3>1. U \in SUBSET Subs(x)
      BY <1>4 DEF Subs
    <3>2. d \in Writers' \cup Askers' /\ call'[d].quiz = x /\ call[d].quiz = x
      BY <3>1 DEF Subs
    <3>3. Base(d)' = Base(d)
      <4>1. CASE d \in Writers'
        <5>1. /\ call'[d].at = "writeAnswer" /\ call[d].at = "writeAnswer"
              /\ call'[d].copy = call[d].copy
          BY <1>4, <4>1 DEF Writers
        <5> QED BY <5>1 DEF Base
      <4>2. CASE d \in Askers'
        <5>1. call'[d].at = "getQuiz" /\ call[d].at = "getQuiz"
          BY <1>4, <4>2 DEF Askers
        <5> QED BY <2>1, <3>2, <5>1 DEF Base
      <4> QED BY <3>2, <4>1, <4>2
    <3>4. acked[x] + Cardinality(U) <= Base(d) + 1 + overlaps
      BY <3>1 DEF Paid, AckPaid
    <3> QED BY <1>1, <2>1, <3>3, <3>4
  <2> QED BY <1>1, <2>1, <2>2, <2>3
\* The calls that still answer the quiz, and this one with them, were paid.
<1>12. ASSUME NEW U \in SUBSET Subs(q)'
       PROVE  /\ U \cup {c} \in SUBSET Subs(q) /\ IsFiniteSet(U) /\ Cardinality(U) \in Nat
              /\ Cardinality(U) <= Cardinality(U \cup {c}) /\ Cardinality(U \cup {c}) \in Nat
              /\ c \notin U => Cardinality(U \cup {c}) = Cardinality(U) + 1
              /\ acked[q] + Cardinality(U \cup {c}) <= call[c].copy.index + 1 + overlaps
              /\ \A d \in U : /\ acked[q] + Cardinality(U \cup {c}) <= Base(d) + 1 + overlaps
                              /\ d \in Writers' => Base(d)' = Base(d) /\ Base(d) \in Nat
                              /\ d \notin Writers' => Base(d)' = call[c].copy.index + 1
  <2>1. U \cup {c} \in SUBSET Subs(q) /\ U \in SUBSET Subs(q)
    BY <1>0, <1>1, <1>4 DEF Subs
  <2>2. IsFiniteSet(U \cup {c}) /\ Cardinality(U \cup {c}) \in Nat /\ U \in SUBSET (U \cup {c})
    BY <2>1, QuizSets, FS_Subset, FS_CardinalityType
  <2>3. IsFiniteSet(U) /\ Cardinality(U) \in Nat /\ Cardinality(U) <= Cardinality(U \cup {c})
    BY <2>2, Fewer
  <2>4. c \notin U => Cardinality(U \cup {c}) = Cardinality(U) + 1
    BY <2>3, OneMore
  <2>5. \A d \in U \cup {c} : acked[q] + Cardinality(U \cup {c}) <= Base(d) + 1 + overlaps
    BY <1>5, <2>1 DEF Paid, AckPaid
  <2>6. Base(c) = call[c].copy.index
    BY <1>1 DEF Base
  <2>7. ASSUME NEW d \in U
        PROVE  /\ d \in Writers' => Base(d)' = Base(d) /\ Base(d) \in Nat
               /\ d \notin Writers' => Base(d)' = call[c].copy.index + 1
    <3>1. d \in Writers' \cup Askers' /\ call'[d].quiz = q
      BY DEF Subs
    <3>2. CASE d \in Writers'
      <4>1. /\ call'[d].at = "writeAnswer" /\ call[d].at = "writeAnswer" /\ d \in Call
            /\ call'[d].copy = call[d].copy
        BY <1>4, <3>2 DEF Writers
      <4>2. call[d].copy.index \in Nat
        BY <4>1, RowAt, RowFields, RowParts DEF Typed, Index
      <4> QED BY <3>2, <4>1, <4>2 DEF Base
    <3>3. CASE d \notin Writers'
      <4>1. call'[d].at = "getQuiz"
        BY <3>1, <3>3 DEF Askers
      <4> QED BY <1>6, <3>1, <3>3, <4>1 DEF Base
    <3> QED BY <3>2, <3>3
  <2> QED BY <2>1, <2>2, <2>3, <2>4, <2>5, <2>6, <2>7
<1>13. /\ acked'[q] <= quizzes'[q].index + overlaps'
       /\ \A U \in SUBSET Subs(q)' : \A d \in U :
            acked'[q] + Cardinality(U) <= Base(d)' + 1 + overlaps'
  <2>1. acked[q] <= call[c].copy.index + overlaps
    <3>1. Cardinality({} \cup {c}) = 1
      BY FS_Singleton
    <3>2. acked[q] + Cardinality({} \cup {c}) <= call[c].copy.index + 1 + overlaps
      BY <1>12
    <3> QED BY <1>1, <1>5, <1>6, <1>10, <3>1, <3>2
  <2>2. CASE acked' = acked
    <3>1. acked'[q] <= quizzes'[q].index + overlaps'
      BY <1>1, <1>5, <1>6, <1>10, <2>1, <2>2
    <3>2. ASSUME NEW U \in SUBSET Subs(q)', NEW d \in U
          PROVE  acked'[q] + Cardinality(U) <= Base(d)' + 1 + overlaps'
      <4>1. /\ Cardinality(U) <= Cardinality(U \cup {c}) /\ Cardinality(U \cup {c}) \in Nat
            /\ Cardinality(U) \in Nat
            /\ acked[q] + Cardinality(U \cup {c}) <= call[c].copy.index + 1 + overlaps
            /\ acked[q] + Cardinality(U \cup {c}) <= Base(d) + 1 + overlaps
            /\ d \in Writers' => Base(d)' = Base(d) /\ Base(d) \in Nat
            /\ d \notin Writers' => Base(d)' = call[c].copy.index + 1
        BY <1>12
      <4> QED BY <1>1, <1>5, <1>6, <1>10, <2>2, <4>1
    <3> QED BY <3>1, <3>2
  <2>3. CASE acked' = [acked EXCEPT ![q] = @ + 1] /\ call'[c].at # "writeAnswer"
    <3>0. acked'[q] = acked[q] + 1
      BY <1>5, <2>3, DataOf
    <3>1. acked'[q] <= quizzes'[q].index + overlaps'
      BY <1>1, <1>5, <1>6, <1>10, <2>1, <3>0
    <3>2. ASSUME NEW U \in SUBSET Subs(q)', NEW d \in U
          PROVE  acked'[q] + Cardinality(U) <= Base(d)' + 1 + overlaps'
      <4>1. c \notin U
        <5>1. c \notin Writers' /\ c \notin Askers'
          <6>1. c \notin Writers'
            BY <2>3 DEF Writers
          <6>2. c \notin Askers
            BY <1>1 DEF Askers
          <6> QED BY <1>4, <6>1, <6>2
        <5> QED BY <5>1 DEF Subs
      <4>2. /\ Cardinality(U \cup {c}) = Cardinality(U) + 1 /\ Cardinality(U) \in Nat
            /\ acked[q] + Cardinality(U \cup {c}) <= call[c].copy.index + 1 + overlaps
            /\ acked[q] + Cardinality(U \cup {c}) <= Base(d) + 1 + overlaps
            /\ d \in Writers' => Base(d)' = Base(d) /\ Base(d) \in Nat
            /\ d \notin Writers' => Base(d)' = call[c].copy.index + 1
        BY <1>12, <4>1
      <4> QED BY <1>1, <1>5, <1>6, <1>10, <3>0, <4>2
    <3> QED BY <3>1, <3>2
  <2> QED BY <1>1, <2>2, <2>3
<1>14. AckPaid'
  <2>1. \A x \in DOMAIN quizzes :
          /\ acked'[x] <= quizzes'[x].index + overlaps'
          /\ \A U \in SUBSET Subs(x)' : \A d \in U :
               acked'[x] + Cardinality(U) <= Base(d)' + 1 + overlaps'
    BY <1>11, <1>13
  <2> QED BY <1>5, <2>1 DEF AckPaid
<1> QED BY <1>9, <1>14 DEF Paid

LEMMA Apart ==
  ASSUME NEW S, IsFiniteSet(S), NEW T, IsFiniteSet(T), S \cap T = {}
  PROVE  /\ IsFiniteSet(S \cup T) /\ Cardinality(S \cup T) \in Nat
         /\ Cardinality(S) \in Nat /\ Cardinality(T) \in Nat
         /\ Cardinality(S \cup T) = Cardinality(S) + Cardinality(T)
<1>1. /\ IsFiniteSet(S \cup T)
      /\ Cardinality(S \cup T) = Cardinality(S) + Cardinality(T) - Cardinality({})
  BY FS_Union
<1>2. Cardinality({}) = 0
  BY FS_EmptySet
<1>3. Cardinality(S) \in Nat /\ Cardinality(T) \in Nat /\ Cardinality(S \cup T) \in Nat
  BY <1>1, FS_CardinalityType
<1> QED BY <1>1, <1>2, <1>3

LEMMA WithOne ==
  ASSUME NEW S, IsFiniteSet(S), NEW x, NEW U \in SUBSET (S \cup {x})
  PROVE  /\ IsFiniteSet(U) /\ Cardinality(U) \in Nat /\ Cardinality(S) \in Nat
         /\ Cardinality(U) <= Cardinality(S) + 1
<1>1. /\ IsFiniteSet(S \cup {x}) /\ Cardinality(S \cup {x}) \in Nat /\ Cardinality(S) \in Nat
      /\ Cardinality(S \cup {x}) <= Cardinality(S) + 1
  BY OneMore
<1>2. /\ IsFiniteSet(U) /\ Cardinality(U) \in Nat
      /\ Cardinality(U) <= Cardinality(S \cup {x})
  BY <1>1, Fewer
<1> QED BY <1>1, <1>2

(* A quiz call that begins pays for every other that is running.           *)
LEMMA BusyCounted ==
  ASSUME Typed
  PROVE  /\ IsFiniteSet({d \in Running : call[d].op \in QuizCalls})
         /\ Cardinality({d \in Running : call[d].op \in QuizCalls}) \in Nat
         /\ Writers \cup Askers \cup Gens \subseteq {d \in Running : call[d].op \in QuizCalls}
         /\ Cardinality(Writing) + Cardinality(Gens) + Cardinality(Askers)
              <= Cardinality({d \in Running : call[d].op \in QuizCalls})
         /\ Cardinality(Writing) \in Nat /\ Cardinality(Gens) \in Nat /\ Cardinality(Askers) \in Nat
<1> DEFINE busy == {d \in Running : call[d].op \in QuizCalls}
<1>1. IsFiniteSet(busy) /\ Cardinality(busy) \in Nat
  <2>1. busy \in SUBSET Call
    BY DEF Running
  <2> QED BY <2>1, StudyAssumption, FS_Subset, FS_CardinalityType
<1>2. Writers \cup Askers \cup Gens \subseteq busy
  <2> SUFFICES ASSUME NEW d \in Writers \cup Askers \cup Gens PROVE d \in busy
    OBVIOUS
  <2>1. d \in Call /\ (call[d].op = "generateQuiz" \/ call[d].at \in {"writeAnswer", "getQuiz"})
    BY DEF Writers, Askers, Gens
  <2>2. call[d].op \in QuizCalls
    BY <2>1, RowAt DEF Typed, Staged, QuizCalls
  <2> QED BY <2>1, <2>2 DEF QuizCalls, Running
<1>3. /\ IsFiniteSet(Writing) /\ Cardinality(Writing) <= Cardinality(Writers)
      /\ Cardinality(Writing) \in Nat /\ Cardinality(Writers) \in Nat
  <2> DEFINE f == [d \in Writers |-> call[d].quiz]
  <2>1. f \in Surjection(Writers, Writing)
    BY DEF Surjection, Writing
  <2>2. IsFiniteSet(Writers)
    BY QuizSets
  <2> HIDE DEF f, Writers, Writing
  <2> QED BY <2>1, <2>2, FS_Surjection, FS_CardinalityType
<1>4. /\ IsFiniteSet(Writers) /\ IsFiniteSet(Askers) /\ IsFiniteSet(Gens)
      /\ Cardinality(Askers) \in Nat /\ Cardinality(Gens) \in Nat
  BY QuizSets, FS_CardinalityType
<1>5. /\ IsFiniteSet(Writers \cup Askers) /\ Cardinality(Writers \cup Askers) \in Nat
      /\ Cardinality(Writers \cup Askers) = Cardinality(Writers) + Cardinality(Askers)
  <2>1. Writers \cap Askers = {}
    BY DEF Writers, Askers
  <2> HIDE DEF Writers, Askers
  <2> QED BY <1>4, <2>1, Apart
<1>6. /\ IsFiniteSet(Writers \cup Askers \cup Gens)
      /\ Cardinality(Writers \cup Askers \cup Gens) \in Nat
      /\ Cardinality(Writers \cup Askers \cup Gens)
           = Cardinality(Writers) + Cardinality(Askers) + Cardinality(Gens)
  <2>1. (Writers \cup Askers) \cap Gens = {}
    <3> SUFFICES ASSUME NEW d \in Gens, d \in Writers \cup Askers PROVE FALSE
      OBVIOUS
    <3>1. d \in Call /\ call[d].op = "generateQuiz" /\ call[d].at \in {"writeAnswer", "getQuiz"}
      BY DEF Writers, Askers, Gens
    <3> QED BY <3>1, RowAt DEF Typed, Staged
  <2> HIDE DEF Writers, Askers, Gens
  <2> DEFINE asked == Writers \cup Askers
  <2>2. IsFiniteSet(asked) /\ asked \cap Gens = {} /\ Cardinality(asked) \in Nat
    BY <1>5, <2>1
  <2> HIDE DEF asked
  <2>3. /\ IsFiniteSet(asked \cup Gens) /\ Cardinality(asked \cup Gens) \in Nat
        /\ Cardinality(asked \cup Gens) = Cardinality(asked) + Cardinality(Gens)
    BY <1>4, <2>2, Apart
  <2> QED BY <1>5, <2>3 DEF asked
<1>7. Cardinality(Writers \cup Askers \cup Gens) <= Cardinality(busy)
  BY <1>1, <1>2, FS_Subset
<1> QED BY <1>1, <1>2, <1>3, <1>4, <1>6, <1>7

LEMMA GeneratePaid ==
  ASSUME Typed, Typed', Paid, NEW c \in Call, Begun(c, "generateQuiz", "closePrior"),
         UNCHANGED quizVars,
         overlaps' = overlaps + Cardinality({d \in Running : call[d].op \in QuizCalls})
  PROVE  Paid'
<1>0. PICK n : n = Cardinality({d \in Running : call[d].op \in QuizCalls})
  OBVIOUS
<1>1. /\ quizzes' = quizzes /\ acked' = acked /\ Live' = Live /\ overlaps' = overlaps + n
      /\ n \in Nat /\ overlaps \in Nat /\ overlaps <= overlaps'
  BY <1>0, BusyCounted DEF quizVars, Live, Typed, Counts
<1>2. /\ Alone(c) /\ call[c].op = "none" /\ call[c].at = "idle"
      /\ call'[c].op = "generateQuiz" /\ call'[c].at = "closePrior"
  BY RowAt DEF Begun, Typed, Staged
<1>3. /\ Gens' = Gens \cup {c} /\ c \notin Gens /\ Writers' = Writers /\ Askers' = Askers
      /\ \A d \in Writers \cup Askers : call'[d] = call[d]
  BY <1>2 DEF Alone, Gens, Writers, Askers
<1>4. Writing' = Writing
  <2>1. \A d \in Writers : call'[d].quiz = call[d].quiz
    BY <1>3
  <2> HIDE DEF Writers
  <2> QED BY <1>3, <2>1 DEF Writing
<1>5. /\ Cardinality(Writing) + Cardinality(Gens) + Cardinality(Askers) <= n
      /\ Cardinality(Writing) \in Nat /\ Cardinality(Gens) \in Nat /\ Cardinality(Askers) \in Nat
  BY <1>0, BusyCounted
<1>6. ASSUME NEW S \in SUBSET Gens', S # {}
      PROVE  Cardinality(Survive(S)') + Cardinality(S) + Cardinality(Askers') <= 1 + overlaps'
  <2>1. CASE c \in S
    <3>1. Survive(S)' \in SUBSET Writing
      <4>1. Closes(c)' = DOMAIN quizzes'
        BY <1>2 DEF Closes
      <4>2. DOMAIN quizzes' \subseteq Closed(S)'
        BY <2>1, <4>1 DEF Closed
      <4>3. Live' \subseteq DOMAIN quizzes'
        BY DEF Live
      <4> HIDE DEF Closed, Live, Writing
      <4> QED BY <1>4, <4>2, <4>3 DEF Survive
    <3>2. Cardinality(Survive(S)') <= Cardinality(Writing) /\ Cardinality(Survive(S)') \in Nat
      <4>1. IsFiniteSet(Writing)
        BY QuizSets, FS_Subset
      <4> HIDE DEF Survive, Writing
      <4> QED BY <3>1, <4>1, Fewer
    <3>3. Cardinality(S) <= Cardinality(Gens) + 1 /\ Cardinality(S) \in Nat
      <4>1. IsFiniteSet(Gens)
        BY QuizSets
      <4>2. S \in SUBSET (Gens \cup {c})
        BY <1>3
      <4> HIDE DEF Gens
      <4> QED BY <4>1, <4>2, WithOne
    <3> QED BY <1>1, <1>3, <1>5, <3>2, <3>3
  <2>2. CASE c \notin S
    <3>1. S \in SUBSET Gens
      BY <1>3, <2>2
    <3>2. Survive(S)' = Survive(S)
      <4>1. \A d \in S : Closes(d)' = Closes(d)
        <5> SUFFICES ASSUME NEW d \in S PROVE Closes(d)' = Closes(d)
          OBVIOUS
        <5>1. call'[d] = call[d]
          BY <1>2, <2>2, <3>1 DEF Alone, Gens
        <5> QED BY <1>1, <5>1 DEF Closes
      <4>2. Closed(S)' = Closed(S)
        <5> HIDE DEF Closes
        <5> QED BY <1>1, <4>1 DEF Closed
      <4> HIDE DEF Closed, Live, Writing
      <4> QED BY <1>1, <1>4, <4>2 DEF Survive
    <3>3. Cardinality(Survive(S)) + Cardinality(S) + Cardinality(Askers) <= 1 + overlaps
      BY <1>6, <3>1 DEF Paid, OnePaid
    <3>4. Cardinality(Survive(S)) \in Nat /\ Cardinality(S) \in Nat
      BY <3>1, QuizSets, Fewer, FS_CardinalityType
    <3> HIDE DEF Survive
    <3> QED BY <1>1, <1>3, <1>5, <3>2, <3>3, <3>4
  <2> QED BY <2>1, <2>2
<1>7. OnePaid'
  <2>1. Cardinality((Live \cup Writing)') <= 1 + overlaps'
    <3>1. (Live \cup Writing)' = Live \cup Writing
      BY <1>1, <1>4
    <3>2. Cardinality(Live \cup Writing) <= 1 + overlaps /\ Cardinality(Live \cup Writing) \in Nat
      BY QuizSets, FS_CardinalityType DEF Paid, OnePaid
    <3> HIDE DEF Live, Writing
    <3> QED BY <1>1, <3>1, <3>2
  <2> QED BY <1>6, <2>1 DEF OnePaid
<1>8. AckPaid'
  BY <1>1, <1>3, AckKept DEF Paid
<1> QED BY <1>7, <1>8 DEF Paid

LEMMA SubmitPaid ==
  ASSUME Typed, Typed', Paid, NEW c \in Call, Begun(c, "submitAnswer", "getQuiz"),
         UNCHANGED quizVars,
         overlaps' = overlaps + Cardinality({d \in Running : call[d].op \in QuizCalls})
  PROVE  Paid'
<1>0. PICK n : n = Cardinality({d \in Running : call[d].op \in QuizCalls})
  OBVIOUS
<1>1. /\ quizzes' = quizzes /\ acked' = acked /\ Live' = Live /\ overlaps' = overlaps + n
      /\ n \in Nat /\ overlaps \in Nat /\ overlaps <= overlaps'
  BY <1>0, BusyCounted DEF quizVars, Live, Typed, Counts
<1>2. /\ Alone(c) /\ call[c].op = "none" /\ call[c].at = "idle"
      /\ call'[c].op = "submitAnswer" /\ call'[c].at = "getQuiz"
  BY RowAt DEF Begun, Typed, Staged
<1>3. /\ Gens' = Gens /\ Writers' = Writers /\ Askers' = Askers \cup {c}
      /\ c \notin Askers \cup Writers \cup Gens
      /\ \A d \in Writers \cup Askers \cup Gens : call'[d] = call[d]
  BY <1>2 DEF Alone, Gens, Writers, Askers
<1>4. Writing' = Writing
  <2>1. \A d \in Writers : call'[d].quiz = call[d].quiz
    BY <1>3
  <2> HIDE DEF Writers
  <2> QED BY <1>3, <2>1 DEF Writing
<1>5. Cardinality(Askers') = Cardinality(Askers) + 1 /\ Cardinality(Askers) \in Nat
  <2>1. IsFiniteSet(Askers)
    BY QuizSets
  <2> HIDE DEF Askers
  <2> QED BY <1>3, <2>1, OneMore
<1>6. \A S \in SUBSET (Writers \cup Askers \cup Gens) :
         IsFiniteSet(S) /\ Cardinality(S) \in Nat /\ Cardinality(S) <= n
  <2>1. /\ IsFiniteSet({d \in Running : call[d].op \in QuizCalls})
        /\ Writers \cup Askers \cup Gens \subseteq {d \in Running : call[d].op \in QuizCalls}
    BY BusyCounted
  <2> HIDE DEF Writers, Askers, Gens
  <2> QED BY <1>0, <2>1, Fewer
<1>7. ASSUME NEW S \in SUBSET Gens', S # {}
      PROVE  Cardinality(Survive(S)') + Cardinality(S) + Cardinality(Askers') <= 1 + overlaps'
  <2>1. S \in SUBSET Gens
    BY <1>3
  <2>2. Survive(S)' = Survive(S)
    <3>1. \A d \in S : Closes(d)' = Closes(d)
      BY <1>1, <1>3, <2>1 DEF Closes
    <3>2. Closed(S)' = Closed(S)
      <4> HIDE DEF Closes
      <4> QED BY <1>1, <3>1 DEF Closed
    <3> HIDE DEF Closed, Live, Writing
    <3> QED BY <1>1, <1>4, <3>2 DEF Survive
  <2>3. Cardinality(Survive(S)) + Cardinality(S) + Cardinality(Askers) <= 1 + overlaps
    BY <1>7, <2>1 DEF Paid, OnePaid
  <2>4. Cardinality(Survive(S)) \in Nat
    BY QuizSets, FS_CardinalityType
  <2>5. Cardinality(S) \in Nat /\ Cardinality(S) >= 1 /\ Cardinality(S) <= n
    <3>1. IsFiniteSet(S) /\ Cardinality(S) \in Nat /\ Cardinality(S) <= n
      BY <1>6, <2>1
    <3>2. Cardinality(S) # 0
      BY <1>7, <3>1, FS_EmptySet
    <3> QED BY <3>1, <3>2
  <2> HIDE DEF Survive
  <2> QED BY <1>1, <1>5, <2>2, <2>3, <2>4, <2>5
<1>8. OnePaid'
  <2>1. Cardinality((Live \cup Writing)') <= 1 + overlaps'
    <3>1. (Live \cup Writing)' = Live \cup Writing
      BY <1>1, <1>4
    <3>2. Cardinality(Live \cup Writing) <= 1 + overlaps /\ Cardinality(Live \cup Writing) \in Nat
      BY QuizSets, FS_CardinalityType DEF Paid, OnePaid
    <3>3. overlaps <= overlaps' /\ overlaps \in Nat /\ overlaps' \in Nat
      BY <1>1
    <3>4. Cardinality((Live \cup Writing)') = Cardinality(Live \cup Writing)
      BY <3>1, Zenon
    <3> QED BY <3>2, <3>3, <3>4
  <2> QED BY <1>7, <2>1 DEF OnePaid
<1>9. \A x \in DOMAIN quizzes : acked[x] \in Nat /\ quizzes[x].index \in Nat
  <2>1. \A x \in DOMAIN quizzes : quizzes[x] \in Rows /\ acked[x] \in Nat
    BY DataOf
  <2> QED BY <2>1, RowParts DEF Index
<1>10. ASSUME NEW q \in DOMAIN quizzes, NEW U \in SUBSET Subs(q)', NEW d \in U
       PROVE  acked[q] + Cardinality(U) <= Base(d)' + 1 + overlaps'
  <2> DEFINE W == U \ {c}
  <2>1. W \in SUBSET Subs(q)
    BY <1>3 DEF Subs
  <2>2. /\ IsFiniteSet(W) /\ Cardinality(W) \in Nat /\ Cardinality(W) <= n
        /\ Cardinality(U) <= Cardinality(W) + 1 /\ Cardinality(U) \in Nat
    <3>1. W \in SUBSET (Writers \cup Askers \cup Gens)
      BY <2>1, QuizSets
    <3>2. U \in SUBSET (W \cup {c})
      OBVIOUS
    <3>3. IsFiniteSet(W) /\ Cardinality(W) \in Nat /\ Cardinality(W) <= n
      BY <1>6, <3>1
    <3> HIDE DEF W
    <3> QED BY <3>2, <3>3, WithOne
  <2>3. CASE d = c
    <3>1. Base(c)' = quizzes[q].index
      <4>1. call'[c].quiz = q
        BY <2>3 DEF Subs
      <4> QED BY <1>1, <1>2, <4>1 DEF Base
    <3>2. acked[q] <= quizzes[q].index + overlaps
      BY DEF Paid, AckPaid
    <3> HIDE DEF W
    <3> QED BY <1>1, <1>9, <2>2, <2>3, <3>1, <3>2
  <2>4. CASE d # c
    <3>1. d \in W /\ d \in Writers \cup Askers
      BY <2>1, <2>4, QuizSets
    <3>2. Base(d)' = Base(d) /\ Base(d) \in Nat
      <4>1. call'[d] = call[d] /\ d \in Call /\ call[d].quiz = q
        BY <1>3, <2>1, <3>1 DEF Subs, Writers, Askers
      <4>2. call[d].copy.index \in Nat
        BY <4>1, RowAt, RowFields, RowParts DEF Typed, Index
      <4> QED BY <1>1, <1>9, <4>1, <4>2 DEF Base
    <3>3. acked[q] + Cardinality(W) <= Base(d) + 1 + overlaps
      BY <2>1, <3>1 DEF Paid, AckPaid
    <3>4. Cardinality(W) >= 1
      BY <2>2, <3>1, FS_EmptySet
    <3> HIDE DEF W
    <3> QED BY <1>1, <1>9, <2>2, <3>2, <3>3, <3>4
  <2> QED BY <2>3, <2>4
<1>11. AckPaid'
  <2>1. \A q \in DOMAIN quizzes : acked[q] <= quizzes[q].index + overlaps'
    <3>1. \A q \in DOMAIN quizzes : acked[q] <= quizzes[q].index + overlaps
      BY DEF Paid, AckPaid
    <3> QED BY <1>1, <1>9, <3>1
  <2> HIDE DEF Subs, Base
  <2> QED BY <1>1, <1>10, <2>1 DEF AckPaid
<1> QED BY <1>8, <1>11 DEF Paid

LEMMA BeginPaid ==
  ASSUME Typed, Typed', Paid, NEW c \in Call, Begin(c) PROVE Paid'
<1>1. UNCHANGED quizVars
  BY DEF Begin
<1>2. ASSUME NEW op \in Op \ {"generateQuiz"}, NEW at \in Point \ {"getQuiz", "writeAnswer", "insertQuiz"},
             Begun(c, op, at), overlaps <= overlaps'
      PROVE  Paid'
  <2>1. Alone(c) /\ call'[c].op = op /\ call'[c].at = at
    BY <1>2 DEF Begun
  <2>2. Calmer(call'[c], call[c]) /\ Closing(call'[c], call[c])
    BY <2>1 DEF Calmer, Closing
  <2>3. \A d \in Call : Calmer(call'[d], call[d]) /\ Closing(call'[d], call[d])
    BY <2>1, <2>2 DEF Alone, Calmer, Closing
  <2> QED BY <1>1, <1>2, <2>3, QuietPaid
<1>3. ASSUME NEW concern,
             overlaps' = overlaps + Cardinality({d \in Running : call[d].op \in concern})
      PROVE  overlaps <= overlaps'
  <2>1. {d \in Running : call[d].op \in concern} \in SUBSET Call
    BY DEF Running
  <2>2. Cardinality({d \in Running : call[d].op \in concern}) \in Nat
    BY <2>1, StudyAssumption, FS_Subset, FS_CardinalityType
  <2> QED BY <1>3, <2>2 DEF Typed, Counts
<1>4. CASE /\ Begun(c, "generateQuiz", "closePrior")
           /\ overlaps' = overlaps + Cardinality({d \in Running : call[d].op \in QuizCalls})
  BY <1>1, <1>4, GeneratePaid
<1>5. CASE /\ Begun(c, "submitAnswer", "getQuiz")
           /\ overlaps' = overlaps + Cardinality({d \in Running : call[d].op \in QuizCalls})
  BY <1>1, <1>5, SubmitPaid
<1>6. CASE /\ \/ Begun(c, "generateStudyPlan", "insertPlan")
              \/ Begun(c, "createAssessment", "createExamTask")
           /\ overlaps' = overlaps + Cardinality({d \in Running : call[d].op \in {}})
  <2>1. overlaps <= overlaps'
    BY <1>3, <1>6
  <2> QED BY <1>2, <1>6, <2>1 DEF Op, Point
<1>7. CASE /\ \/ Begun(c, "rescheduleStudySession", "readSession")
              \/ Begun(c, "completeStudySession", "readSession")
           /\ overlaps' = overlaps + Cardinality({d \in Running : call[d].op \in SessionCalls})
  <2>1. overlaps <= overlaps'
    BY <1>3, <1>7
  <2> QED BY <1>2, <1>7, <2>1 DEF Op, Point
<1> QED BY <1>4, <1>5, <1>6, <1>7, BeginDoes

LEMMA PaidInit ==
  ASSUME Init PROVE Paid
<1>1. /\ quizzes = <<NewQuiz>> /\ acked = <<0>> /\ overlaps = 0 /\ DOMAIN quizzes = {1}
      /\ quizzes[1] = NewQuiz /\ acked[1] = 0
  BY DEF Init
<1>2. \A d \in Call : call[d] = Idle
  BY DEF Init
<1>3. Gens = {} /\ Writers = {} /\ Askers = {} /\ Writing = {}
  BY <1>2, IdleRow DEF Gens, Writers, Askers, Writing
<1>4. Cardinality(Live \cup Writing) <= 1
  <2>1. Live \cup Writing \in SUBSET {1}
    BY <1>1, <1>3 DEF Live
  <2>2. IsFiniteSet({1}) /\ Cardinality({1}) = 1
    BY FS_Singleton
  <2> QED BY <2>1, <2>2, Fewer
<1>5. OnePaid
  BY <1>1, <1>3, <1>4 DEF OnePaid
<1>6. AckPaid
  <2>1. \A q : Subs(q) = {}
    BY <1>3 DEF Subs
  <2> QED BY <1>1, <2>1, SoundNew DEF AckPaid
<1> QED BY <1>5, <1>6 DEF Paid

LEMMA PaidStep ==
  ASSUME Typed, Typed', Paid, [Next]_vars PROVE Paid'
<1>1. CASE UNCHANGED vars
  <2>1. \A d \in Call : Calmer(call'[d], call[d]) /\ Closing(call'[d], call[d])
    BY <1>1 DEF vars, Calmer, Closing
  <2>2. UNCHANGED quizVars /\ overlaps <= overlaps'
    BY <1>1 DEF vars, quizVars, Typed, Counts
  <2> QED BY <2>1, <2>2, QuietPaid
<1>2. CASE Crash
  BY <1>2, CrashPaid
<1>3. ASSUME NEW c \in Call, Begin(c) PROVE Paid'
  BY <1>3, BeginPaid
<1>4. ASSUME NEW c \in Call, QuizStep(c) PROVE Paid'
  BY <1>4, ClosePriorPaid, InsertQuizPaid, GetQuizPaid, WriteAnswerPaid DEF QuizStep
<1>5. ASSUME NEW c \in Call, Connect(c) \/ Fails(c) \/ CourseStep(c) \/ PlanStep(c) PROVE Paid'
  BY <1>5, OtherPaid
<1> QED BY <1>1, <1>2, <1>3, <1>4, <1>5 DEF Next, Step

(* The quizzes of one user: a row never contradicts itself, one quiz is     *)
(* live but for those that overlapping calls paid for, and no acknowledged  *)
(* answer is lost but for those (QuizzesSound).                             *)
THEOREM QuizzesSoundHolds == Spec => []QuizzesSound
<1>1. Init => Paid
  BY PaidInit
<1>2. Typed /\ Typed' /\ Paid /\ [Next]_vars => Paid'
  BY PaidStep
<1>3. ASSUME Typed, Pooled PROVE TypeOK
  <2>1. /\ quizzes \in Seq(Rows) /\ Len(acked) = Len(quizzes)
        /\ level \in [1..Topics -> 0..MasteryTop]
        /\ begun \in 0..MaxCalls /\ trouble \in 0..MaxTrouble /\ Connections <= PoolSize
    BY <1>3 DEF Typed, Data, Counts, Pooled
  <2>2. \A p \in DOMAIN plans : \A i \in DOMAIN plans[p] :
          plans[p][i].status \in {"scheduled", "rescheduled", "completed"}
    <3>1. \A p \in DOMAIN plans : plans[p] \in Plan
      BY <1>3, DataOf
    <3>2. \A p \in DOMAIN plans : \A i \in DOMAIN plans[p] : plans[p][i] \in SessionRow
      <4> HIDE DEF SessionRow
      <4> QED BY <3>1 DEF Plan
    <3> QED BY <3>2 DEF SessionRow
  <2>3. \A t \in DOMAIN tasks : tasks[t].done \in BOOLEAN /\ tasks[t].due \in 0..MaxCalls
    <3>1. \A t \in DOMAIN tasks : tasks[t] \in TaskRow
      BY <1>3, DataOf
    <3>2. \A row \in TaskRow : row.done \in Flag /\ row.due \in 0..MaxCalls
      <4> HIDE DEF Flag
      <4> QED BY DEF TaskRow
    <3> QED BY <3>1, <3>2 DEF Flag
  <2>4. \A c \in Call : call[c].held \in 0..3 /\ call[c].again \subseteq 1..3
    BY <1>3, RowAt, RowFields DEF Typed
  <2> QED BY <2>1, <2>2, <2>3, <2>4 DEF TypeOK
<1>4. ASSUME Typed PROVE QuizRowSound
  BY <1>4 DEF Typed, Data, Sound, RightOnes, QuizRowSound
<1>5. ASSUME Typed, Paid PROVE OneActive /\ AnswersKept
  <2>1. OneActive
    <3>1. Live \in SUBSET (Live \cup Writing) /\ IsFiniteSet(Live \cup Writing)
      BY <1>5, QuizSets
    <3>2. /\ Cardinality(Live) <= Cardinality(Live \cup Writing) /\ Cardinality(Live) \in Nat
          /\ Cardinality(Live \cup Writing) \in Nat
      BY <3>1, Fewer
    <3> QED BY <1>5, <3>2 DEF Paid, OnePaid, OneActive, Typed, Counts
  <2> QED BY <1>5, <2>1 DEF Paid, AckPaid, AnswersKept
<1>6. Typed /\ Pooled /\ Paid => QuizzesSound
  BY <1>3, <1>4, <1>5 DEF QuizzesSound
<1> QED BY <1>1, <1>2, <1>6, PooledHolds, PTL DEF Spec

-----------------------------------------------------------------------------
(* The plans: whose each task is.                                          *)

TaskAt(s) == Session(s).task

\* The tasks a call has created and is about to link; what it began to make
\* before its plan was rolled back is no longer among them.
Owned(c) == IF call[c].at = "insertPlan" THEN {} ELSE Range(call[c].made)

Own ==
  /\ \A s \in Sessions : TaskAt(s) \in DOMAIN tasks
  /\ \A s, r \in Sessions : TaskAt(s) = TaskAt(r) => s = r
  /\ \A c \in Call : Owned(c) \subseteq DOMAIN tasks
  /\ \A c \in Call : \A s \in Sessions : TaskAt(s) \notin Owned(c)
  /\ \A c, d \in Call : c # d => Owned(c) \cap Owned(d) = {}
  /\ \A c \in Call : \A i, j \in DOMAIN call[c].made :
       call[c].made[i] = call[c].made[j] => i = j
  /\ \A c \in Call : /\ call[c].op = "createAssessment" => Len(call[c].made) <= 1
                     /\ call[c].at = "createExamTask" => call[c].made = <<>>
  /\ \A c \in Call : call[c].op \notin {"createAssessment", "generateStudyPlan"} =>
       call[c].made = <<>>

\* A row that has made no more than before.
Kept(s, r) ==
  \/ s.made = <<>>
  \/ /\ s.made = r.made /\ s.op = r.op
     /\ r.at = "insertPlan" => s.at = "insertPlan"
     /\ s.at = "createExamTask" => r.at = "createExamTask"

LEMMA RangeAppended ==
  ASSUME NEW T, NEW seq \in Seq(T), NEW x \in T
  PROVE  Range(Append(seq, x)) = Range(seq) \cup {x}
<1> DEFINE f == Append(seq, x)
           n == Len(seq)
<1>1. /\ n \in Nat /\ DOMAIN f = 1..(n + 1) /\ DOMAIN seq = 1..n
      /\ (\A i \in 1..n : f[i] = seq[i]) /\ f[n + 1] = x
  OBVIOUS
<1>2. 1..(n + 1) = 1..n \cup {n + 1}
  BY <1>1
<1> HIDE DEF f, n
<1>3. {f[i] : i \in 1..(n + 1)} = {seq[i] : i \in 1..n} \cup {x}
  BY <1>1, <1>2
<1>4. Range(f) = Range(seq) \cup {x}
  BY <1>1, <1>3 DEF Range
<1> QED BY <1>4 DEF f

LEMMA KeptRow ==
  ASSUME NEW r \in CallRow, Staged(r.op, r.at), NEW s
  PROVE  /\ s = Idle => Kept(s, r)
         /\ Threw(s, r) => Kept(s, r)
         /\ Same(s, r, {"held"}) => Kept(s, r)
         /\ \A fields \in SUBSET (LeftFields \cup {"topic", "delta", "prior"}) :
              Same(s, r, fields) /\ s.at # "createExamTask" /\ r.at # "insertPlan" => Kept(s, r)
<1>1. s = Idle => Kept(s, r)
  BY IdleRow DEF Kept
<1>2. Threw(s, r) => Kept(s, r)
  <2>1. CASE s = Idle
    BY <1>1, <2>1
  <2>2. ASSUME Same(s, r, {"at", "held", "again"}), s.at \in Back(r.op, r.at)
        PROVE  Kept(s, r)
    <3>1. s.op = r.op /\ s.made = r.made
      BY <2>2 DEF Same
    <3>2. s.at = "createExamTask" => r.at = "createExamTask"
      BY <2>2 DEF Back
    <3>3. r.at = "insertPlan" => s.at = "insertPlan"
      BY <2>2 DEF Back, Staged, SessionCalls
    <3> QED BY <3>1, <3>2, <3>3 DEF Kept
  <2> QED BY <2>1, <2>2 DEF Threw
<1>3. Same(s, r, {"held"}) => Kept(s, r)
  BY DEF Kept, Same
<1>4. ASSUME NEW fields \in SUBSET (LeftFields \cup {"topic", "delta", "prior"}),
             Same(s, r, fields), s.at # "createExamTask", r.at # "insertPlan"
      PROVE  Kept(s, r)
  BY <1>4 DEF Same, LeftFields, Kept
<1> QED BY <1>1, <1>2, <1>3, <1>4

MakesTask(c) ==
  /\ CreateTask(c) \/ CreateExamTask(c)
  /\ \/ Leaves(c, "commitPlan", LeftFields \cup {"made"})
     \/ Leaves(c, "createTask", LeftFields \cup {"made"})
     \/ Leaves(c, "insertExam", LeftFields \cup {"made"})
  /\ call'[c].made = Append(call[c].made, Len(tasks) + 1)

\* Every step of a call leaves it with no more made, but one that makes a task.
LEMMA KeptStep ==
  ASSUME Typed, Own, NEW c \in Call, Begin(c) \/ Step(c) \/ Fails(c)
  PROVE  Alone(c) /\ (Kept(call'[c], call[c]) \/ MakesTask(c))
<1> DEFINE s == call'[c]
           r == call[c]
<1>1. r \in CallRow /\ Staged(r.op, r.at)
  BY RowAt DEF Typed
<1>2. ASSUME Ends(c) \/ Falls(c) PROVE Alone(c) /\ Kept(s, r)
  <2>1. Alone(c) /\ (s = Idle \/ Threw(s, r))
    BY <1>2 DEF Ends, Falls
  <2> HIDE DEF s
  <2> QED BY <1>1, <2>1, KeptRow
<1>3. ASSUME NEW fields \in SUBSET (LeftFields \cup {"topic", "delta", "prior"}),
             Goes(c, fields), s.at # "createExamTask", r.at # "insertPlan"
      PROVE  Alone(c) /\ Kept(s, r)
  <2>1. Alone(c) /\ Same(s, r, fields)
    BY <1>3 DEF Goes
  <2> HIDE DEF s
  <2> QED BY <1>1, <1>3, <2>1, KeptRow
<1>4. ASSUME NEW fields \in SUBSET (LeftFields \cup {"topic", "delta", "prior"}), NEW at,
             Leaves(c, at, fields), at # "createExamTask", r.at # "insertPlan"
      PROVE  Alone(c) /\ Kept(s, r)
  BY <1>3, <1>4 DEF Leaves
<1>5. CASE Begin(c)
  BY <1>5, BeginDoes DEF Begun, Kept
<1>6. CASE Connect(c)
  <2>1. Alone(c) /\ Same(s, r, {"held"})
    BY <1>6, ConnectDoes DEF Goes, Typed
  <2> QED BY <2>1 DEF Kept, Same
<1>7. CASE Fails(c)
  BY <1>2, <1>7, FailsDoes DEF Typed
<1>8. CASE QuizStep(c)
  <2>1. CASE ClosePrior(c)
    <3>1. Goes(c, {"at", "prior"}) /\ s.at = "insertQuiz" /\ r.at = "closePrior"
      BY <2>1, ClosePriorDoes
    <3>2. {"at", "prior"} \in SUBSET (LeftFields \cup {"topic", "delta", "prior"})
      BY DEF LeftFields
    <3> QED BY <1>3, <3>1, <3>2
  <2>2. CASE InsertQuiz(c)
    BY <1>2, <2>2, InsertQuizDoes
  <2>3. CASE GetQuiz(c)
    BY <1>2, <1>4, <2>3, GetQuizDoes
  <2>4. CASE WriteAnswer(c)
    BY <1>2, <1>4, <2>4, WriteAnswerDoes
  <2> QED BY <1>8, <2>1, <2>2, <2>3, <2>4 DEF QuizStep
<1>9. CASE CourseStep(c)
  <2>1. CASE GetTopic(c)
    BY <1>4, <2>1, GetTopicDoes
  <2>2. CASE SetMastery(c)
    BY <1>2, <1>4, <2>2, SetMasteryDoes
  <2>3. CASE CreateExamTask(c)
    <3>1. CASE Falls(c)
      BY <1>2, <3>1
    <3>2. CASE /\ Leaves(c, "insertExam", LeftFields \cup {"made"})
               /\ s.made = <<Len(tasks) + 1>>
      <4>1. call[c].made = <<>>
        BY <2>3, CreateExamTaskDoes DEF Own
      <4>2. s.made = Append(call[c].made, Len(tasks) + 1)
        BY <3>2, <4>1
      <4> QED BY <2>3, <3>2, <4>2 DEF MakesTask, Leaves, Goes
    <3> QED BY <2>3, <3>1, <3>2, CreateExamTaskDoes
  <2>4. CASE InsertExam(c)
    BY <1>2, <2>4, InsertExamDoes
  <2> QED BY <1>9, <2>1, <2>2, <2>3, <2>4 DEF CourseStep
<1>10. CASE PlanStep(c)
  <2>1. CASE InsertPlan(c)
    BY <2>1, InsertPlanDoes DEF Goes, Kept
  <2>2. CASE CreateTask(c)
    <3>1. CASE Falls(c)
      BY <1>2, <3>1
    <3>2. CASE ~Falls(c)
      BY <2>2, <3>2, CreateTaskDoes DEF MakesTask, Leaves, Goes
    <3> QED BY <3>1, <3>2
  <2>3. CASE CommitPlan(c) \/ CompleteSession(c) \/ MoveSession(c)
    BY <1>2, <2>3, CommitPlanDoes, CompleteSessionDoes, MoveSessionDoes
  <2>4. CASE ReadSession(c)
    <3>1. Goes(c, {"at"}) /\ s.at # "createExamTask" /\ r.at = "readSession"
      BY <2>4, ReadSessionDoes
    <3>2. {"at"} \in SUBSET (LeftFields \cup {"topic", "delta", "prior"})
      BY DEF LeftFields
    <3> QED BY <1>3, <3>1, <3>2
  <2>5. CASE MarkDone(c)
    BY <1>2, <1>4, <2>5, MarkDoneDoes
  <2>6. CASE MoveTask(c)
    BY <1>2, <1>4, <2>6, MoveTaskDoes
  <2> QED BY <1>10, <2>1, <2>2, <2>3, <2>4, <2>5, <2>6 DEF PlanStep
<1> QED BY <1>5, <1>6, <1>7, <1>8, <1>9, <1>10 DEF Step

LEMMA KeptCalls ==
  ASSUME Typed, Typed', NEW c \in Call, Alone(c), Kept(call'[c], call[c])
  PROVE  \A d \in Call : Kept(call'[d], call[d])
BY DEF Alone, Kept

\* No task is taken from a session, and no call makes any.
LEMMA OwnKept ==
  ASSUME Typed, Typed', Own, \A d \in Call : Kept(call'[d], call[d]),
         DOMAIN tasks \subseteq DOMAIN tasks', Sessions' = Sessions,
         \A s \in Sessions : TaskAt(s)' = TaskAt(s)
  PROVE  Own' /\ \A d \in Call : Owned(d)' \subseteq Owned(d)
<1>1. ASSUME NEW d \in Call
      PROVE  /\ Owned(d)' \subseteq Owned(d)
             /\ \A i, j \in DOMAIN call'[d].made : call'[d].made[i] = call'[d].made[j] => i = j
             /\ call'[d].op = "createAssessment" => Len(call'[d].made) <= 1
             /\ call'[d].at = "createExamTask" => call'[d].made = <<>>
             /\ call'[d].op \notin {"createAssessment", "generateStudyPlan"} =>
                  call'[d].made = <<>>
  <2>1. CASE call'[d].made = <<>>
    <3>1. DOMAIN <<>> = {} /\ Len(<<>>) = 0 /\ Range(<<>>) = {}
      BY DEF Range
    <3> QED BY <2>1, <3>1 DEF Owned
  <2>2. CASE /\ call'[d].made = call[d].made /\ call'[d].op = call[d].op
             /\ call[d].at = "insertPlan" => call'[d].at = "insertPlan"
             /\ call'[d].at = "createExamTask" => call[d].at = "createExamTask"
    BY <2>2 DEF Owned, Own
  <2> QED BY <2>1, <2>2 DEF Kept
<1>2. \A d \in Call : Owned(d)' \subseteq Owned(d)
  BY <1>1
<1>3. /\ \A s \in Sessions : TaskAt(s)' \in DOMAIN tasks'
      /\ \A s, r \in Sessions : TaskAt(s)' = TaskAt(r)' => s = r
  BY DEF Own
<1>4. \A d \in Call : Owned(d)' \subseteq DOMAIN tasks'
  BY <1>2 DEF Own
<1>5. \A d \in Call : \A s \in Sessions : TaskAt(s)' \notin Owned(d)'
  BY <1>2 DEF Own
<1>6. \A d, e \in Call : d # e => Owned(d)' \cap Owned(e)' = {}
  BY <1>2 DEF Own
<1> HIDE DEF Owned, TaskAt, Sessions
<1> QED BY <1>1, <1>2, <1>3, <1>4, <1>5, <1>6 DEF Own

\* The task a call makes is nobody's yet.
LEMMA OwnMade ==
  ASSUME Typed, Typed', Own, NEW c \in Call, MakesTask(c)
  PROVE  /\ Own' /\ Sessions' = Sessions /\ DOMAIN tasks' = DOMAIN tasks \cup {Len(tasks) + 1}
         /\ Owned(c)' = Owned(c) \cup {Len(tasks) + 1}
         /\ \A s \in Sessions : Session(s)' = Session(s)
         /\ \A d \in Call \ {c} : Owned(d)' = Owned(d)
<1>0. PICK new : new = Len(tasks) + 1
  OBVIOUS
<1>1. /\ Alone(c) /\ call'[c].made = Append(call[c].made, new) /\ call'[c].op = call[c].op
      /\ call'[c].at \in {"commitPlan", "createTask", "insertExam"}
  BY <1>0 DEF MakesTask, Leaves, Goes, Same, LeftFields
<1>2. /\ plans' = plans /\ tasks' = Append(tasks, [done |-> FALSE, due |-> call[c].serial])
      /\ call[c].at \in {"createTask", "createExamTask"}
  BY CreateTaskDoes, CreateExamTaskDoes DEF MakesTask, CreateTask, CreateExamTask
<1>3. /\ Sessions' = Sessions /\ \A s \in Sessions : Session(s)' = Session(s)
      /\ \A s \in Sessions : TaskAt(s)' = TaskAt(s)
  BY <1>2 DEF Sessions, Session, TaskAt
<1>4. /\ DOMAIN tasks' = DOMAIN tasks \cup {new} /\ new \notin DOMAIN tasks
  <2>1. tasks' \in Seq(TaskRow) /\ Len(tasks') = new /\ tasks \in Seq(TaskRow) /\ Len(tasks) \in Nat
    BY <1>0, <1>2, TaskAppended, DataOf
  <2> HIDE DEF TaskRow
  <2>2. DOMAIN tasks' = 1..new /\ DOMAIN tasks = 1..Len(tasks)
    BY <2>1
  <2> QED BY <1>0, <2>1, <2>2
<1>5. /\ call[c].made \in Seq(Nat) /\ Len(call'[c].made) = Len(call[c].made) + 1
      /\ Len(call[c].made) \in Nat
      /\ DOMAIN call'[c].made = 1..(Len(call[c].made) + 1)
      /\ DOMAIN call[c].made = 1..Len(call[c].made)
      /\ \A i \in 1..Len(call[c].made) : call'[c].made[i] = call[c].made[i]
      /\ call'[c].made[Len(call[c].made) + 1] = new
  <2>1. call[c].made \in Seq(Nat) /\ new \in Nat
    BY <1>0, RowAt, RowFields, DataOf DEF Typed
  <2> QED BY <1>1, <2>1
<1>6. Owned(c)' = Owned(c) \cup {new} /\ Owned(c) = Range(call[c].made)
  <2>1. Owned(c)' = Range(call'[c].made) /\ Owned(c) = Range(call[c].made)
    BY <1>1, <1>2 DEF Owned
  <2>2. Range(call'[c].made) = Range(call[c].made) \cup {new}
    <3>1. call[c].made \in Seq(Nat) /\ new \in Nat
      BY <1>0, <1>5, DataOf
    <3> QED BY <1>1, <3>1, RangeAppended
  <2> QED BY <2>1, <2>2
<1>7. \A d \in Call \ {c} : call'[d] = call[d] /\ Owned(d)' = Owned(d)
  BY <1>1 DEF Alone, Owned
<1>8. \A i, j \in DOMAIN call'[c].made : call'[c].made[i] = call'[c].made[j] => i = j
  <2> SUFFICES ASSUME NEW i \in 1..(Len(call[c].made) + 1), NEW j \in 1..(Len(call[c].made) + 1),
                      call'[c].made[i] = call'[c].made[j]
               PROVE  i = j
    BY <1>5
  <2>1. \A k \in 1..Len(call[c].made) : call[c].made[k] # new
    <3>1. Owned(c) \subseteq DOMAIN tasks
      BY DEF Own
    <3> QED BY <1>4, <1>5, <1>6, <3>1 DEF Range
  <2>2. \A k, l \in 1..Len(call[c].made) : call[c].made[k] = call[c].made[l] => k = l
    BY <1>5 DEF Own
  <2>3. \A k \in 1..(Len(call[c].made) + 1) :
          k \in 1..Len(call[c].made) \/ k = Len(call[c].made) + 1
    BY <1>5
  <2> QED BY <1>5, <2>1, <2>2, <2>3
<1>9. /\ call'[c].op = "createAssessment" => Len(call'[c].made) <= 1
      /\ call'[c].at # "createExamTask"
      /\ call'[c].op \in {"createAssessment", "generateStudyPlan"}
  <2>1. ASSUME call'[c].op = "createAssessment" PROVE Len(call'[c].made) <= 1
    <3>1. call[c].at = "createExamTask"
      BY <1>1, <1>2, <2>1, RowAt DEF Typed, Staged
    <3>2. Len(<<>>) = 0 /\ call[c].made = <<>>
      BY <3>1 DEF Own
    <3> QED BY <1>1, <1>5, <3>2
  <2>2. call[c].op \in {"createAssessment", "generateStudyPlan"}
    BY <1>2, RowAt DEF Typed, Staged
  <2> QED BY <1>1, <2>1, <2>2
<1>10. Own'
  <2>1. /\ \A s \in Sessions' : TaskAt(s)' \in DOMAIN tasks'
        /\ \A s, r \in Sessions' : TaskAt(s)' = TaskAt(r)' => s = r
    BY <1>3, <1>4 DEF Own
  <2>2. \A d \in Call : Owned(d)' \subseteq Owned(d) \cup {new} /\ (d # c => Owned(d)' = Owned(d))
    BY <1>6, <1>7
  <2>3. \A d \in Call : Owned(d)' \subseteq DOMAIN tasks'
    BY <1>4, <2>2 DEF Own
  <2>4. \A d \in Call : \A s \in Sessions' : TaskAt(s)' \notin Owned(d)'
    BY <1>3, <1>4, <2>2 DEF Own
  <2>5. \A d, e \in Call : d # e => Owned(d)' \cap Owned(e)' = {}
    BY <1>4, <2>2 DEF Own
  <2>6. \A d \in Call : \A i, j \in DOMAIN call'[d].made :
          call'[d].made[i] = call'[d].made[j] => i = j
    BY <1>7, <1>8 DEF Own
  <2>7. \A d \in Call : /\ call'[d].op = "createAssessment" => Len(call'[d].made) <= 1
                        /\ call'[d].at = "createExamTask" => call'[d].made = <<>>
                        /\ call'[d].op \notin {"createAssessment", "generateStudyPlan"} =>
                             call'[d].made = <<>>
    BY <1>7, <1>9 DEF Own
  <2> HIDE DEF Owned, TaskAt, Sessions
  <2> QED BY <2>1, <2>3, <2>4, <2>5, <2>6, <2>7 DEF Own
<1> QED BY <1>0, <1>3, <1>4, <1>6, <1>7, <1>10

\* A plan is committed with all its tasks.
LEMMA OwnCommitted ==
  ASSUME Typed, Typed', Own, NEW c \in Call, CommitPlan(c), NEW new, new = Len(plans) + 1
  PROVE  /\ Own' /\ tasks' = tasks /\ Owned(c)' = {}
         /\ \A d \in Call \ {c} : call'[d] = call[d] /\ Owned(d)' = Owned(d)
         /\ Sessions' = Sessions \cup {<<new, t>> : t \in 1..Topics}
         /\ \A t \in 1..Topics : /\ <<new, t>> \notin Sessions
                                 /\ Session(<<new, t>>)' = Planned(c)[t]
                                 /\ Planned(c)[t].task = call[c].made[t]
                                 /\ Planned(c)[t].start = call[c].serial
                                 /\ call[c].made[t] \in Owned(c)
         /\ Owned(c) = {call[c].made[t] : t \in 1..Topics}
         /\ \A s \in Sessions : Session(s)' = Session(s)
<1>1. /\ call[c].at = "commitPlan" /\ call[c].op = "generateStudyPlan" /\ Alone(c)
      /\ call'[c] = Idle \/ Threw(call'[c], call[c])
  BY CommitPlanDoes DEF Ends, Falls
<1>2. plans' = Append(plans, Planned(c)) /\ tasks' = tasks
  BY DEF CommitPlan
<1>3. /\ Planned(c) \in Plan /\ call[c].made \in [1..Topics -> Nat]
      /\ \A t \in 1..Topics : /\ Planned(c)[t].task = call[c].made[t]
                              /\ Planned(c)[t].start = call[c].serial
  BY <1>1, PlanMade
<1>4. /\ Sessions' = Sessions \cup {<<new, t>> : t \in 1..Topics}
      /\ plans'[new] = Planned(c)
      /\ \A s \in Sessions : Session(s)' = Session(s) /\ TaskAt(s)' = TaskAt(s)
  <2> HIDE DEF Plan
  <2> QED BY <1>2, <1>3, PlanAppended DEF TaskAt
<1>5. \A t \in 1..Topics : /\ <<new, t>> \notin Sessions /\ Session(<<new, t>>)' = Planned(c)[t]
                           /\ TaskAt(<<new, t>>)' = call[c].made[t]
  <2>1. Sessions = (1..Len(plans)) \X (1..Topics) /\ Len(plans) \in Nat
    BY SessionsAre, DataOf
  <2>2. \A t \in 1..Topics : <<new, t>> \notin Sessions
    BY <2>1
  <2> QED BY <1>3, <1>4, <2>2 DEF Session, TaskAt
<1>6. Owned(c) = {call[c].made[t] : t \in 1..Topics}
  BY <1>1, <1>3 DEF Owned, Range
<1>7. call'[c].made = <<>> \/ call'[c].at = "insertPlan"
  BY <1>1, IdleRow DEF Threw, Back, SessionCalls
<1>8. Owned(c)' = {}
  <2>1. Range(<<>>) = {}
    BY DEF Range
  <2> QED BY <1>7, <2>1 DEF Owned
<1>9. \A d \in Call \ {c} : call'[d] = call[d] /\ Owned(d)' = Owned(d)
  BY <1>1 DEF Alone, Owned
<1>10. /\ \A i, j \in DOMAIN call'[c].made : call'[c].made[i] = call'[c].made[j] => i = j
       /\ call'[c].op = "createAssessment" => Len(call'[c].made) <= 1
       /\ call'[c].at = "createExamTask" => call'[c].made = <<>>
       /\ call'[c].op \notin {"createAssessment", "generateStudyPlan"} => call'[c].made = <<>>
  <2>1. Kept(call'[c], call[c])
    BY <1>1, RowAt, KeptRow DEF Typed
  <2>2. DOMAIN <<>> = {} /\ Len(<<>>) = 0
    OBVIOUS
  <2> QED BY <1>1, <2>1, <2>2 DEF Kept, Own
<1>11. Own'
  <2>1. \A t \in 1..Topics : call[c].made[t] \in Owned(c)
    BY <1>6
  <2>2. \A s \in Sessions' : TaskAt(s)' \in DOMAIN tasks'
    BY <1>2, <1>4, <1>5, <2>1 DEF Own
  <2>3. ASSUME NEW s \in Sessions', NEW r \in Sessions', TaskAt(s)' = TaskAt(r)' PROVE s = r
    <3>1. CASE s \in Sessions /\ r \in Sessions
      BY <1>4, <2>3, <3>1 DEF Own
    <3>2. ASSUME NEW x \in Sessions, NEW t \in 1..Topics, TaskAt(x)' = TaskAt(<<new, t>>)'
          PROVE  FALSE
      BY <1>4, <1>5, <2>1, <3>2 DEF Own
    <3>3. ASSUME NEW t \in 1..Topics, NEW u \in 1..Topics,
                 TaskAt(<<new, t>>)' = TaskAt(<<new, u>>)'
          PROVE  t = u
      <4>1. call[c].made[t] = call[c].made[u] /\ DOMAIN call[c].made = 1..Topics
        BY <1>3, <1>5, <3>3
      <4> QED BY <4>1 DEF Own
    <3> HIDE DEF TaskAt, Sessions
    <3> QED BY <1>4, <2>3, <3>1, <3>2, <3>3
  <2>4. \A d \in Call : Owned(d)' \subseteq Owned(d) /\ (d = c => Owned(d)' = {})
    BY <1>8, <1>9
  <2>5. \A d \in Call : Owned(d)' \subseteq DOMAIN tasks'
    BY <1>2, <2>4 DEF Own
  <2>6. ASSUME NEW d \in Call, NEW s \in Sessions' PROVE TaskAt(s)' \notin Owned(d)'
    <3>1. CASE s \in Sessions
      BY <1>4, <2>4, <3>1 DEF Own
    <3>2. ASSUME NEW t \in 1..Topics, s = <<new, t>> PROVE TaskAt(s)' \notin Owned(d)'
      <4>1. TaskAt(s)' \in Owned(c)
        BY <1>5, <2>1, <3>2
      <4> QED BY <2>4, <4>1 DEF Own
    <3> HIDE DEF TaskAt, Sessions
    <3> QED BY <1>4, <3>1, <3>2
  <2>7. \A d, e \in Call : d # e => Owned(d)' \cap Owned(e)' = {}
    BY <2>4 DEF Own
  <2>8. \A d \in Call : /\ \A i, j \in DOMAIN call'[d].made :
                             call'[d].made[i] = call'[d].made[j] => i = j
                        /\ call'[d].op = "createAssessment" => Len(call'[d].made) <= 1
                        /\ call'[d].at = "createExamTask" => call'[d].made = <<>>
                        /\ call'[d].op \notin {"createAssessment", "generateStudyPlan"} =>
                             call'[d].made = <<>>
    BY <1>9, <1>10 DEF Own
  <2> HIDE DEF Owned, TaskAt, Sessions
  <2> QED BY <2>2, <2>3, <2>5, <2>6, <2>7, <2>8 DEF Own
<1>12. \A t \in 1..Topics : call[c].made[t] \in Owned(c)
  BY <1>6
<1>13. /\ Own' /\ tasks' = tasks /\ Owned(c)' = {}
       /\ \A d \in Call \ {c} : call'[d] = call[d] /\ Owned(d)' = Owned(d)
       /\ Owned(c) = {call[c].made[t] : t \in 1..Topics}
  BY <1>2, <1>6, <1>8, <1>9, <1>11
<1> HIDE DEF Owned, Session, Sessions, Planned
<1>14. /\ Sessions' = Sessions \cup {<<new, t>> : t \in 1..Topics}
       /\ \A s \in Sessions : Session(s)' = Session(s)
       /\ \A t \in 1..Topics : /\ <<new, t>> \notin Sessions
                               /\ Session(<<new, t>>)' = Planned(c)[t]
                               /\ Planned(c)[t].task = call[c].made[t]
                               /\ Planned(c)[t].start = call[c].serial
                               /\ call[c].made[t] \in Owned(c)
  BY <1>3, <1>4, <1>5, <1>12
<1> QED BY <1>13, <1>14

\* Who has a task is changed by no step but those that make one or commit a plan.
LEMMA OwnActs ==
  ASSUME Typed, NEW c \in Call,
         \/ Begin(c) \/ Connect(c) \/ Fails(c) \/ QuizStep(c) \/ CourseStep(c)
         \/ InsertPlan(c) \/ CreateTask(c) \/ ReadSession(c) \/ MarkDone(c)
         \/ CompleteSession(c) \/ MoveTask(c) \/ MoveSession(c)
  PROVE  /\ DOMAIN tasks \subseteq DOMAIN tasks' /\ Sessions' = Sessions
         /\ \A s \in Sessions : TaskAt(s)' = TaskAt(s)
<1> DEFINE Quiet == /\ DOMAIN tasks \subseteq DOMAIN tasks' /\ Sessions' = Sessions
                    /\ \A s \in Sessions : TaskAt(s)' = TaskAt(s)
<1>1. ASSUME plans' = plans, tasks' = tasks PROVE Quiet
  BY <1>1 DEF Sessions, TaskAt, Session
<1>2. CASE Begin(c) \/ Connect(c) \/ Fails(c) \/ QuizStep(c)
  BY <1>1, <1>2 DEF Begin, Connect, Fails, QuizStep, ClosePrior, InsertQuiz, GetQuiz,
                    WriteAnswer, planVars
<1>3. CASE GetTopic(c) \/ SetMastery(c) \/ InsertExam(c) \/ InsertPlan(c) \/ ReadSession(c)
  BY <1>1, <1>3 DEF GetTopic, SetMastery, InsertExam, InsertPlan, ReadSession, planVars
<1>4. CASE CreateTask(c) \/ CreateExamTask(c)
  <2>1. /\ plans' = plans
        /\ tasks' = Append(tasks, [done |-> FALSE, due |-> call[c].serial])
    BY <1>4 DEF CreateTask, CreateExamTask
  <2>2. DOMAIN tasks \subseteq DOMAIN tasks'
    <3>1. /\ tasks' \in Seq(TaskRow) /\ Len(tasks') = Len(tasks) + 1
          /\ tasks \in Seq(TaskRow) /\ Len(tasks) \in Nat
      BY <2>1, TaskAppended, DataOf
    <3> HIDE DEF TaskRow
    <3>2. DOMAIN tasks' = 1..(Len(tasks) + 1) /\ DOMAIN tasks = 1..Len(tasks)
      BY <3>1
    <3> QED BY <3>1, <3>2
  <2> QED BY <2>1, <2>2 DEF Sessions, TaskAt, Session
<1>5. CASE MarkDone(c) \/ MoveTask(c)
  <2>1. plans' = plans /\ DOMAIN tasks' = DOMAIN tasks
    BY <1>5 DEF MarkDone, MoveTask
  <2> QED BY <2>1 DEF Sessions, TaskAt, Session
<1>6. CASE CompleteSession(c)
  <2> DEFINE s == call[c].session
  <2>1. /\ Session(s) \in SessionRow /\ Sessions' = Sessions /\ tasks' = tasks
        /\ \A r \in Sessions : Session(r)' = IF r = s THEN Done(Session(s)) ELSE Session(r)
    BY <1>6, SessionCompleted
  <2>2. Done(Session(s)).task = Session(s).task
    BY <2>1, SessionRows
  <2> HIDE DEF Session, Sessions, Done
  <2> QED BY <2>1, <2>2 DEF TaskAt
<1>7. CASE MoveSession(c)
  <2> DEFINE s == call[c].session
             row == Moved(Session(s), call[c].serial)
  <2>1. /\ Session(s) \in SessionRow /\ Sessions' = Sessions /\ tasks' = tasks
        /\ call[c].serial \in 0..MaxCalls
        /\ \A r \in Sessions : Session(r)' = IF r = s THEN row ELSE Session(r)
    BY <1>7, SessionMoved
  <2>2. row.task = Session(s).task
    BY <2>1, SessionRows
  <2> HIDE DEF Session, Sessions, row
  <2> QED BY <2>1, <2>2 DEF TaskAt
<1> QED BY <1>2, <1>3, <1>4, <1>5, <1>6, <1>7 DEF Step, CourseStep, PlanStep

\* All but the steps that make a task or commit a plan leave the tasks to
\* those that have them.
LEMMA OwnSteps ==
  ASSUME Typed, Own, [Next]_vars
  PROVE  \/ \E c \in Call : MakesTask(c) \/ CommitPlan(c)
         \/ /\ \A d \in Call : Kept(call'[d], call[d])
            /\ DOMAIN tasks \subseteq DOMAIN tasks' /\ Sessions' = Sessions
            /\ \A s \in Sessions : TaskAt(s)' = TaskAt(s)
<1> DEFINE Quiet == /\ DOMAIN tasks \subseteq DOMAIN tasks' /\ Sessions' = Sessions
                    /\ \A s \in Sessions : TaskAt(s)' = TaskAt(s)
<1>1. ASSUME plans' = plans, tasks' = tasks PROVE Quiet
  BY <1>1 DEF Sessions, TaskAt, Session
<1>2. CASE UNCHANGED vars
  <2>1. \A d \in Call : Kept(call'[d], call[d])
    BY <1>2 DEF vars, Kept
  <2> QED BY <1>1, <1>2, <2>1 DEF vars
<1>3. CASE Crash
  <2>1. \A d \in Call : Kept(call'[d], call[d])
    BY <1>3, IdleRow DEF Crash, Kept
  <2> QED BY <1>1, <1>3, <2>1 DEF Crash, planVars
<1>4. ASSUME NEW c \in Call, Begin(c) \/ Step(c) \/ Fails(c), ~CommitPlan(c) PROVE Quiet
  BY <1>4, OwnActs DEF Step, PlanStep
<1>5. ASSUME NEW c \in Call, Begin(c) \/ Step(c) \/ Fails(c), ~MakesTask(c)
      PROVE  \A d \in Call : Kept(call'[d], call[d])
  BY <1>5, KeptStep DEF Alone, Kept
<1> HIDE DEF Quiet
<1>6. CASE \E c \in Call : Begin(c) \/ Step(c) \/ Fails(c)
  BY <1>4, <1>5, <1>6 DEF Quiet
<1> QED BY <1>2, <1>3, <1>6 DEF Next

LEMMA OwnStep ==
  ASSUME Typed, Typed', Own, [Next]_vars PROVE Own'
<1>1. CASE \E c \in Call : MakesTask(c)
  BY <1>1, OwnMade
<1>2. CASE \E c \in Call : CommitPlan(c)
  <2>1. PICK new : new = Len(plans) + 1
    OBVIOUS
  <2> QED BY <1>2, <2>1, OwnCommitted
<1> QED BY <1>1, <1>2, OwnSteps, OwnKept

LEMMA OwnInit ==
  ASSUME Init PROVE Own
<1>1. /\ Sessions = {1} \X (1..Topics) /\ DOMAIN tasks = 1..Topics
      /\ \A t \in 1..Topics : TaskAt(<<1, t>>) = t
  <2> DEFINE plan == [i \in 1..Topics |-> [status |-> "scheduled", task |-> i, start |-> 0]]
  <2>1. plans = <<plan>> /\ DOMAIN tasks = 1..Topics
    BY DEF Init
  <2>2. /\ plans[1] = plan /\ Len(plans) = 1 /\ DOMAIN plan = 1..Topics
        /\ \A t \in 1..Topics : plan[t].task = t
    BY <2>1
  <2>3. 1..Len(plans) = {1}
    BY <2>2
  <2> HIDE DEF plan
  <2> QED BY <2>1, <2>2, <2>3 DEF Sessions, TaskAt, Session
<1>2. \A c \in Call : call[c] = Idle
  BY DEF Init
<1>3. \A c \in Call : call[c].made = <<>> /\ Owned(c) = {} /\ call[c].op = "none"
  <2>1. Range(<<>>) = {}
    BY DEF Range
  <2> QED BY <1>2, <2>1, IdleRow DEF Owned
<1>4. DOMAIN <<>> = {} /\ Len(<<>>) = 0
  OBVIOUS
<1>5. \A s \in Sessions : TaskAt(s) = s[2] /\ s[1] = 1 /\ s[2] \in 1..Topics /\ s = <<1, s[2]>>
  BY <1>1
<1> HIDE DEF Sessions, TaskAt
<1>6. /\ \A s \in Sessions : TaskAt(s) \in DOMAIN tasks
      /\ \A s, r \in Sessions : TaskAt(s) = TaskAt(r) => s = r
  BY <1>1, <1>5
<1> QED BY <1>3, <1>4, <1>6 DEF Own

(* The tasks nobody links: each trouble sheds at most what the running      *)
(* calls own.                                                              *)
Being == UNION {Owned(c) : c \in Call}
Adrift == (DOMAIN tasks) \ (Linked \cup Being)

Shed == Topics * Cardinality(Call)

FewAdrift == IsFiniteSet(Adrift) /\ Cardinality(Adrift) <= Shed * trouble

LEMMA ShedNat == Shed \in Nat /\ Cardinality(Call) \in Nat /\ \A c \in Call : Shed >= Topics
<1>1. Cardinality(Call) \in Nat
  BY StudyAssumption, FS_CardinalityType
<1>2. \A c \in Call : Cardinality(Call) # 0
  BY StudyAssumption, FS_EmptySet
<1>3. \A n \in Nat : Topics * n \in Nat /\ (n # 0 => Topics * n >= Topics)
  BY StudyAssumption
<1> QED BY <1>1, <1>2, <1>3 DEF Shed

LEMMA MadeFew ==
  ASSUME Typed, NEW c \in Call
  PROVE  /\ IsFiniteSet(Owned(c)) /\ Cardinality(Owned(c)) \in Nat
         /\ Cardinality(Owned(c)) <= Len(call[c].made)
         /\ Len(call[c].made) \in 0..Topics
         /\ DOMAIN call[c].made = 1..Len(call[c].made)
<1> DEFINE made == call[c].made
           n == Len(made)
<1>1. made \in Seq(Nat) /\ n \in Nat /\ DOMAIN made = 1..n /\ n <= Topics
  <2>1. made \in Seq(Nat) /\ n <= Topics
    BY RowAt, RowFields DEF Typed, RowOK
  <2> QED BY <2>1
<1>2. IsFiniteSet(Range(made)) /\ Cardinality(Range(made)) <= n /\ Cardinality(Range(made)) \in Nat
  <2>1. IsFiniteSet(1..n) /\ Cardinality(1..n) = n
    <3>1. 1 \in Int /\ n \in Int
      BY <1>1
    <3>2. IsFiniteSet(1..n) /\ Cardinality(1..n) = IF 1 > n THEN 0 ELSE n - 1 + 1
      BY <3>1, FS_Interval, Zenon
    <3> QED BY <1>1, <3>2
  <2>2. made \in Surjection(1..n, Range(made))
    BY <1>1 DEF Surjection, Range
  <2> HIDE DEF made, n
  <2> QED BY <2>1, <2>2, FS_Surjection, FS_CardinalityType
<1>3. Cardinality({}) = 0 /\ IsFiniteSet({})
  BY FS_EmptySet
<1> QED BY <1>1, <1>2, <1>3, StudyAssumption DEF Owned

LEMMA BeingFew ==
  ASSUME Typed
  PROVE  IsFiniteSet(Being) /\ Cardinality(Being) \in Nat /\ Cardinality(Being) <= Shed
<1> DEFINE pairs == Call \X (1..Topics)
           f == [p \in pairs |-> IF p[2] \in DOMAIN call[p[1]].made
                                 THEN call[p[1]].made[p[2]] ELSE 0]
           all == {f[p] : p \in pairs}
<1>1. IsFiniteSet(pairs) /\ Cardinality(pairs) = Cardinality(Call) * Topics
  <2>1. IsFiniteSet(1..Topics) /\ Cardinality(1..Topics) = Topics
    <3>1. 1 \in Int /\ Topics \in Int /\ Topics >= 1
      BY StudyAssumption
    <3>2. IsFiniteSet(1..Topics) /\ Cardinality(1..Topics) = IF 1 > Topics THEN 0 ELSE Topics - 1 + 1
      BY <3>1, FS_Interval, Zenon
    <3> QED BY <3>1, <3>2
  <2> QED BY <2>1, StudyAssumption, FS_Product
<1>2. f \in Surjection(pairs, all)
  BY DEF Surjection
<1>3. Being \subseteq all
  <2> SUFFICES ASSUME NEW c \in Call, NEW x \in Owned(c) PROVE x \in all
    BY DEF Being
  <2>1. x \in Range(call[c].made)
    BY DEF Owned
  <2>2. PICK i \in DOMAIN call[c].made : x = call[c].made[i]
    BY <2>1 DEF Range
  <2>3. i \in 1..Topics
    BY MadeFew, StudyAssumption
  <2>4. <<c, i>> \in pairs /\ f[<<c, i>>] = x
    BY <2>2, <2>3
  <2> HIDE DEF f, pairs
  <2> QED BY <2>4
<1> HIDE DEF f, all, pairs
<1>4. IsFiniteSet(all) /\ Cardinality(all) <= Cardinality(pairs)
  BY <1>1, <1>2, FS_Surjection
<1>5. IsFiniteSet(Being) /\ Cardinality(Being) <= Cardinality(all)
  BY <1>3, <1>4, FS_Subset
<1>6. /\ Cardinality(Being) \in Nat /\ Cardinality(all) \in Nat /\ Cardinality(pairs) \in Nat
  BY <1>1, <1>4, <1>5, FS_CardinalityType
<1>7. Cardinality(pairs) = Shed
  BY <1>1, ShedNat, StudyAssumption DEF Shed
<1> QED BY <1>4, <1>5, <1>6, <1>7

LEMMA FewKept ==
  ASSUME Typed, Typed', FewAdrift, Adrift' \subseteq Adrift,
         trouble' \in {trouble, trouble + 1}
  PROVE  FewAdrift'
<1>1. /\ IsFiniteSet(Adrift') /\ Cardinality(Adrift') <= Cardinality(Adrift)
      /\ Cardinality(Adrift') \in Nat /\ Cardinality(Adrift) \in Nat
  <2>1. Adrift' \in SUBSET Adrift /\ IsFiniteSet(Adrift)
    BY DEF FewAdrift
  <2> HIDE DEF Adrift
  <2> QED BY <2>1, Fewer
<1>2. trouble \in Nat /\ trouble' \in Nat
  BY DEF Typed, Counts
<1>3. \A k \in Nat : k * (trouble + 1) = k * trouble + k /\ k * trouble \in Nat
  BY <1>2
<1>4. Shed * trouble <= Shed * trouble' /\ Shed * trouble \in Nat /\ Shed * trouble' \in Nat
  <2>1. /\ Shed * (trouble + 1) = Shed * trouble + Shed /\ Shed * trouble \in Nat
        /\ Shed \in Nat
    BY <1>3, ShedNat
  <2> QED BY <2>1
<1>5. Cardinality(Adrift) <= Shed * trouble
  BY DEF FewAdrift
<1> HIDE DEF Shed, Adrift
<1> QED BY <1>1, <1>4, <1>5, ShedNat DEF FewAdrift, Shed

LEMMA FewShed ==
  ASSUME Typed, Typed', FewAdrift, NEW lost, IsFiniteSet(lost), Cardinality(lost) <= Shed,
         Adrift' \subseteq Adrift \cup lost, trouble' = trouble + 1
  PROVE  FewAdrift'
<1>1. /\ IsFiniteSet(Adrift') /\ Cardinality(Adrift') <= Cardinality(Adrift) + Cardinality(lost)
      /\ Cardinality(Adrift') \in Nat /\ Cardinality(Adrift) \in Nat /\ Cardinality(lost) \in Nat
  <2>1. Adrift' \in SUBSET (Adrift \cup lost) /\ IsFiniteSet(Adrift)
    BY DEF FewAdrift
  <2> HIDE DEF Adrift
  <2>2. /\ IsFiniteSet(Adrift \cup lost) /\ IsFiniteSet(Adrift \cap lost)
        /\ Cardinality(Adrift \cup lost)
             = Cardinality(Adrift) + Cardinality(lost) - Cardinality(Adrift \cap lost)
    BY <2>1, FS_Union, FS_Intersection
  <2>3. /\ Cardinality(Adrift) \in Nat /\ Cardinality(lost) \in Nat
        /\ Cardinality(Adrift \cap lost) \in Nat /\ Cardinality(Adrift \cup lost) \in Nat
    BY <2>1, <2>2, FS_CardinalityType
  <2>4. /\ IsFiniteSet(Adrift') /\ Cardinality(Adrift') \in Nat
        /\ Cardinality(Adrift') <= Cardinality(Adrift \cup lost)
    BY <2>1, <2>2, Fewer
  <2> QED BY <2>2, <2>3, <2>4
<1>2. trouble \in Nat
  BY DEF Typed, Counts
<1>3. \A k \in Nat : k * (trouble + 1) = k * trouble + k /\ k * trouble \in Nat
  BY <1>2
<1>4. Shed * trouble' = Shed * trouble + Shed /\ Shed * trouble \in Nat /\ Shed \in Nat
  BY <1>3, ShedNat
<1>5. Cardinality(Adrift) <= Shed * trouble
  BY DEF FewAdrift
<1>6. Cardinality(Adrift') <= Shed * trouble'
  <2> HIDE DEF Shed, Adrift
  <2> QED BY <1>1, <1>4, <1>5
<1> QED BY <1>1, <1>6 DEF FewAdrift, Shed

LEMMA TroubleUp ==
  ASSUME [Next]_vars PROVE trouble' \in {trouble, trouble + 1}
<1>1. CASE UNCHANGED vars \/ Crash
  BY <1>1 DEF vars, Crash, MoreTrouble
<1>2. ASSUME NEW c \in Call, Begin(c) \/ Connect(c) \/ Fails(c) \/ QuizStep(c)
      PROVE  trouble' \in {trouble, trouble + 1}
  BY <1>2 DEF Begin, Connect, Fails, QuizStep, ClosePrior, InsertQuiz, GetQuiz, WriteAnswer,
              Commits, MoreTrouble
<1>3. ASSUME NEW c \in Call, CourseStep(c) PROVE trouble' \in {trouble, trouble + 1}
  BY <1>3 DEF CourseStep, GetTopic, SetMastery, CreateExamTask, InsertExam, Commits, MoreTrouble
<1>4. ASSUME NEW c \in Call, PlanStep(c) PROVE trouble' \in {trouble, trouble + 1}
  BY <1>4 DEF PlanStep, InsertPlan, CreateTask, CommitPlan, ReadSession, MarkDone,
              CompleteSession, MoveTask, MoveSession, Commits, MoreTrouble
<1> QED BY <1>1, <1>2, <1>3, <1>4 DEF Next, Step

\* Linked tasks stay linked.
LEMMA LinkedKept ==
  ASSUME Sessions \subseteq Sessions', \A s \in Sessions : TaskAt(s)' = TaskAt(s),
         Range(exams) \subseteq Range(exams')
  PROVE  Linked \subseteq Linked'
<1>1. Linked = {TaskAt(s) : s \in Sessions} \cup (Range(exams) \ {NoTask})
  BY DEF Linked, TaskAt
<1>2. Linked' = {TaskAt(s)' : s \in Sessions'} \cup (Range(exams') \ {NoTask})
  BY DEF Linked, TaskAt
<1> HIDE DEF TaskAt, Sessions, Linked
<1> QED BY <1>1, <1>2

\* The steps of a call that owns no task, or keeps those it owns.
LEMMA FewQuiet ==
  ASSUME Typed, Typed', FewAdrift, NEW c \in Call, Alone(c), Owned(c) \subseteq Owned(c)',
         DOMAIN tasks' = DOMAIN tasks, Linked \subseteq Linked',
         trouble' \in {trouble, trouble + 1}
  PROVE  FewAdrift'
<1>1. \A d \in Call : Owned(d) \subseteq Owned(d)'
  <2>1. \A d \in Call \ {c} : Owned(d)' = Owned(d)
    BY DEF Alone, Owned
  <2> QED BY <2>1
<1>2. Being \subseteq Being'
  BY <1>1 DEF Being
<1>3. Adrift' \subseteq Adrift
  BY <1>2 DEF Adrift
<1> QED BY <1>3, FewKept

\* A trouble sheds what the call owned.
LEMMA FewFalls ==
  ASSUME Typed, Typed', Own, FewAdrift, NEW c \in Call, Falls(c) \/ Ends(c),
         NEW lost, IsFiniteSet(lost), Cardinality(lost) <= Shed, Owned(c) \subseteq lost,
         DOMAIN tasks' \subseteq DOMAIN tasks \cup lost, Linked \subseteq Linked',
         trouble' = trouble + 1
  PROVE  FewAdrift'
<1>1. \A d \in Call \ {c} : Owned(d)' = Owned(d)
  BY DEF Falls, Ends, Alone, Owned
<1>2. Being \subseteq Being' \cup lost
  BY <1>1 DEF Being
<1>3. Adrift' \subseteq Adrift \cup lost
  BY <1>2 DEF Adrift
<1> QED BY <1>3, FewShed

LEMMA OwnsNone ==
  ASSUME Typed, Own, NEW c \in Call,
         \/ call[c].op \notin {"createAssessment", "generateStudyPlan"}
         \/ call[c].at = "insertPlan"
  PROVE  Owned(c) = {}
<1>1. Range(<<>>) = {}
  BY DEF Range
<1> QED BY <1>1 DEF Own, Owned

LEMMA FewOthers ==
  ASSUME Typed, Typed', Own, FewAdrift, NEW c \in Call,
         \/ Begin(c) \/ Connect(c) \/ QuizStep(c) \/ GetTopic(c) \/ SetMastery(c)
         \/ InsertPlan(c) \/ ReadSession(c) \/ MarkDone(c) \/ CompleteSession(c)
         \/ MoveTask(c) \/ MoveSession(c)
  PROVE  FewAdrift'
<1>0. [Next]_vars
  BY DEF Next, Step, CourseStep, PlanStep
<1>1. trouble' \in {trouble, trouble + 1}
  BY <1>0, TroubleUp
<1>2. Alone(c) /\ Owned(c) \subseteq Owned(c)'
  <2>1. Alone(c)
    BY KeptStep DEF Step, CourseStep, PlanStep
  <2>2. CASE Connect(c)
    <3>1. call'[c].made = call[c].made /\ call'[c].at = call[c].at
      BY <2>2, ConnectDoes DEF Goes, Same, Typed
    <3> QED BY <2>1, <3>1 DEF Owned
  <2>3. CASE ~Connect(c)
    <3>1. \/ call[c].op \notin {"createAssessment", "generateStudyPlan"}
          \/ call[c].at = "insertPlan"
      <4>1. CASE Begin(c)
        BY <4>1, BeginDoes DEF Begun
      <4>2. CASE QuizStep(c) \/ GetTopic(c) \/ SetMastery(c)
        BY <4>2, ClosePriorDoes, InsertQuizDoes, GetQuizDoes, WriteAnswerDoes, GetTopicDoes,
           SetMasteryDoes DEF QuizStep
      <4>3. CASE InsertPlan(c) \/ ReadSession(c) \/ MarkDone(c) \/ CompleteSession(c)
                 \/ MoveTask(c) \/ MoveSession(c)
        BY <4>3, InsertPlanDoes, ReadSessionDoes, MarkDoneDoes, CompleteSessionDoes, MoveTaskDoes,
           MoveSessionDoes
      <4> QED BY <2>3, <4>1, <4>2, <4>3
    <3> QED BY <2>1, <3>1, OwnsNone
  <2> QED BY <2>2, <2>3
<1>3. DOMAIN tasks' = DOMAIN tasks /\ exams' = exams
  <2>1. CASE Begin(c) \/ Connect(c) \/ QuizStep(c) \/ GetTopic(c) \/ SetMastery(c)
    BY <2>1 DEF Begin, Connect, QuizStep, ClosePrior, InsertQuiz, GetQuiz, WriteAnswer,
                GetTopic, SetMastery, planVars
  <2>2. CASE InsertPlan(c) \/ ReadSession(c) \/ MarkDone(c) \/ CompleteSession(c)
             \/ MoveTask(c) \/ MoveSession(c)
    BY <2>2 DEF InsertPlan, ReadSession, MarkDone, CompleteSession, MoveTask, MoveSession, planVars
  <2> QED BY <2>1, <2>2
<1>4. Linked \subseteq Linked'
  <2>1. Sessions' = Sessions /\ \A s \in Sessions : TaskAt(s)' = TaskAt(s)
    BY OwnActs DEF CourseStep
  <2> QED BY <1>3, <2>1, LinkedKept
<1> QED BY <1>1, <1>2, <1>3, <1>4, FewQuiet

\* A task created by a call that does not hear of it is lost with the others.
LEMMA FewUnheard ==
  ASSUME Typed, Typed', Own, FewAdrift, NEW c \in Call, CreateTask(c) \/ CreateExamTask(c),
         Falls(c)
  PROVE  FewAdrift'
<1>0. PICK new : new = Len(tasks) + 1
  OBVIOUS
<1> DEFINE lost == Owned(c) \cup {new}
<1>1. /\ plans' = plans /\ exams' = exams
      /\ tasks' = Append(tasks, [done |-> FALSE, due |-> call[c].serial])
  BY DEF CreateTask, CreateExamTask
<1>2. DOMAIN tasks' \subseteq DOMAIN tasks \cup lost
  <2>1. tasks' \in Seq(TaskRow) /\ Len(tasks') = new /\ tasks \in Seq(TaskRow) /\ Len(tasks) \in Nat
    BY <1>0, <1>1, TaskAppended, DataOf
  <2> HIDE DEF TaskRow
  <2>2. DOMAIN tasks' = 1..new /\ DOMAIN tasks = 1..Len(tasks)
    BY <2>1
  <2>3. 1..new \subseteq 1..Len(tasks) \cup {new}
    BY <1>0, <2>1
  <2> QED BY <2>2, <2>3
<1>3. Len(call[c].made) < Topics
  <2>1. CASE CreateTask(c)
    BY <2>1, CreateTaskDoes, RowAt DEF RowOK, Typed
  <2>2. CASE CreateExamTask(c)
    <3>1. call[c].made = <<>>
      BY <2>2, CreateExamTaskDoes DEF Own
    <3>2. Len(<<>>) = 0
      OBVIOUS
    <3> QED BY <3>1, <3>2, StudyAssumption
  <2> QED BY <2>1, <2>2
<1>4. IsFiniteSet(lost) /\ Cardinality(lost) <= Shed
  <2>1. /\ IsFiniteSet(Owned(c)) /\ Cardinality(Owned(c)) \in Nat
        /\ Cardinality(Owned(c)) <= Len(call[c].made) /\ Len(call[c].made) \in 0..Topics
    BY MadeFew
  <2> HIDE DEF Owned
  <2>2. /\ IsFiniteSet(lost)
        /\ Cardinality(lost) = Cardinality(Owned(c)) \/ Cardinality(lost) = Cardinality(Owned(c)) + 1
    BY <2>1, FS_AddElement
  <2>3. Shed \in Nat /\ Shed >= Topics /\ Topics \in Nat
    BY ShedNat, StudyAssumption
  <2> HIDE DEF lost, Shed
  <2> QED BY <1>3, <2>1, <2>2, <2>3
<1>5. Linked \subseteq Linked'
  <2>1. Sessions' = Sessions /\ \A s \in Sessions : TaskAt(s)' = TaskAt(s)
    BY <1>1 DEF Sessions, TaskAt, Session
  <2> QED BY <1>1, <2>1, LinkedKept
<1>6. trouble' = trouble + 1 /\ Owned(c) \subseteq lost
  BY DEF Falls
<1> HIDE DEF lost
<1> QED BY <1>2, <1>4, <1>5, <1>6, FewFalls

LEMMA FewMade ==
  ASSUME Typed, Typed', Own, FewAdrift, NEW c \in Call, MakesTask(c)
  PROVE  FewAdrift'
<1>1. /\ plans' = plans /\ exams' = exams /\ trouble' = trouble
  BY DEF MakesTask, CreateTask, CreateExamTask, Leaves, Goes
<1>2. /\ DOMAIN tasks' = DOMAIN tasks \cup {Len(tasks) + 1}
      /\ Owned(c)' = Owned(c) \cup {Len(tasks) + 1}
      /\ \A d \in Call \ {c} : Owned(d)' = Owned(d)
  BY OwnMade
<1>3. Being \subseteq Being' /\ Len(tasks) + 1 \in Being'
  BY <1>2 DEF Being
<1>4. Linked \subseteq Linked'
  <2>1. Sessions' = Sessions /\ \A s \in Sessions : TaskAt(s)' = TaskAt(s)
    BY <1>1 DEF Sessions, TaskAt, Session
  <2> QED BY <1>1, <2>1, LinkedKept
<1>5. Adrift' \subseteq Adrift
  BY <1>2, <1>3, <1>4 DEF Adrift
<1> QED BY <1>1, <1>5, FewKept

\* The tasks of a committed plan are linked by its sessions.
LEMMA FewCommitted ==
  ASSUME Typed, Typed', Own, FewAdrift, NEW c \in Call, CommitPlan(c)
  PROVE  FewAdrift'
<1>0. PICK new : new = Len(plans) + 1
  OBVIOUS
<1>1. /\ tasks' = tasks /\ exams' = exams /\ trouble' \in {trouble, trouble + 1}
  BY OwnCommitted DEF CommitPlan, Commits, MoreTrouble
<1>2. /\ \A d \in Call \ {c} : Owned(d)' = Owned(d)
      /\ Owned(c) = {call[c].made[t] : t \in 1..Topics}
      /\ Sessions' = Sessions \cup {<<new, t>> : t \in 1..Topics}
      /\ \A s \in Sessions : Session(s)' = Session(s)
      /\ \A t \in 1..Topics : Session(<<new, t>>)'.task = call[c].made[t]
  BY <1>0, OwnCommitted
<1>3. Linked \subseteq Linked'
  <2>1. Sessions \subseteq Sessions' /\ \A s \in Sessions : TaskAt(s)' = TaskAt(s)
    BY <1>2 DEF TaskAt
  <2> QED BY <1>1, <2>1, LinkedKept
<1>4. Owned(c) \subseteq Linked'
  BY <1>2 DEF Linked
<1>5. Being \subseteq Being' \cup Linked'
  BY <1>2, <1>4 DEF Being
<1>6. Adrift' \subseteq Adrift
  BY <1>1, <1>3, <1>5 DEF Adrift
<1> QED BY <1>1, <1>6, FewKept

\* An assessment links the task its call made.
LEMMA FewExamined ==
  ASSUME Typed, Typed', Own, FewAdrift, NEW c \in Call, InsertExam(c)
  PROVE  FewAdrift'
<1>1. /\ plans' = plans /\ tasks' = tasks /\ exams' = Append(exams, LinkedTask(c))
      /\ trouble' \in {trouble, trouble + 1}
  BY DEF InsertExam, Commits, MoreTrouble
<1>2. /\ call[c].at = "insertExam" /\ call[c].op = "createAssessment" /\ Alone(c)
  BY InsertExamDoes DEF Ends, Falls
<1>3. /\ call[c].made \in Seq(Nat) /\ Len(call[c].made) <= 1 /\ exams \in Seq(Nat)
  BY <1>2, RowAt, RowFields, DataOf DEF Own
<1>4. Owned(c) \subseteq {LinkedTask(c)} /\ LinkedTask(c) \in Nat
  <2>1. CASE call[c].made = <<>>
    <3>1. Range(<<>>) = {}
      BY DEF Range
    <3> QED BY <1>2, <2>1, <3>1 DEF Owned, LinkedTask, NoTask
  <2>2. CASE call[c].made # <<>>
    <3>1. \A made \in Seq(Nat) : made # <<>> /\ Len(made) <= 1 =>
            Len(made) = 1 /\ made[1] \in Nat /\ DOMAIN made = 1..1
      <4> SUFFICES ASSUME NEW made \in Seq(Nat), made # <<>>, Len(made) <= 1
                   PROVE  Len(made) = 1 /\ made[1] \in Nat /\ DOMAIN made = 1..1
        OBVIOUS
      <4>1. PICK n : n = Len(made)
        OBVIOUS
      <4>2. n # 0 /\ n \in Nat /\ n <= 1 /\ DOMAIN made = 1..n
        BY <4>1
      <4>3. n = 1
        BY <4>2
      <4> QED BY <4>1, <4>2, <4>3
    <3>2. 1..1 = {1}
      OBVIOUS
    <3>3. Len(call[c].made) = 1 /\ DOMAIN call[c].made = {1} /\ call[c].made[1] \in Nat
      BY <1>3, <2>2, <3>1, <3>2
    <3> QED BY <1>2, <2>2, <3>3 DEF Owned, LinkedTask, Range
  <2> QED BY <2>1, <2>2
<1>5. Range(exams') = Range(exams) \cup {LinkedTask(c)}
  BY <1>1, <1>3, <1>4, RangeAppended
<1>6. Linked \subseteq Linked'
  <2>1. Sessions' = Sessions /\ \A s \in Sessions : TaskAt(s)' = TaskAt(s)
    BY <1>1 DEF Sessions, TaskAt, Session
  <2> QED BY <1>5, <2>1, LinkedKept
<1>7. Owned(c) \subseteq Linked'
  <2>1. Owned(c) \subseteq DOMAIN tasks /\ DOMAIN tasks = 1..Len(tasks)
    BY DataOf DEF Own
  <2>2. NoTask \notin Owned(c)
    BY <2>1 DEF NoTask
  <2> QED BY <1>4, <1>5, <2>2 DEF Linked
<1>8. \A d \in Call \ {c} : Owned(d)' = Owned(d)
  BY <1>2 DEF Alone, Owned
<1>9. Being \subseteq Being' \cup Linked'
  BY <1>7, <1>8 DEF Being
<1>10. Adrift' \subseteq Adrift
  BY <1>1, <1>6, <1>9 DEF Adrift
<1> QED BY <1>1, <1>10, FewKept

LEMMA FewStep ==
  ASSUME Typed, Typed', Own, FewAdrift, [Next]_vars PROVE FewAdrift'
<1>1. CASE UNCHANGED vars
  <2>1. Adrift' = Adrift /\ trouble' = trouble
    BY <1>1 DEF vars, Adrift, Linked, Being, Owned, Sessions, Session
  <2> QED BY <2>1, FewKept
<1>2. ASSUME Crash \/ \E c \in Call : Fails(c) PROVE FewAdrift'
  <2>1. UNCHANGED planVars /\ trouble' = trouble + 1
    BY <1>2 DEF Crash, Fails, MoreTrouble
  <2>2. Adrift' \subseteq Adrift \cup Being
    BY <2>1 DEF planVars, Adrift, Linked, Sessions, Session
  <2> QED BY <2>1, <2>2, BeingFew, FewShed
<1>3. ASSUME NEW c \in Call, CreateTask(c) \/ CreateExamTask(c) PROVE FewAdrift'
  <2>1. CASE MakesTask(c)
    BY <2>1, FewMade
  <2>2. CASE ~MakesTask(c)
    <3>1. CASE CreateTask(c)
      <4>1. Falls(c)
        BY <2>2, <3>1, CreateTaskDoes DEF MakesTask
      <4> QED BY <3>1, <4>1, FewUnheard
    <3>2. CASE CreateExamTask(c)
      <4>1. Falls(c)
        <5>1. SUFFICES ASSUME Leaves(c, "insertExam", LeftFields \cup {"made"}),
                              call'[c].made = <<Len(tasks) + 1>>
                       PROVE  MakesTask(c)
          BY <2>2, <3>2, CreateExamTaskDoes
        <5>2. call[c].made = <<>>
          BY <3>2, CreateExamTaskDoes DEF Own
        <5> QED BY <3>2, <5>1, <5>2 DEF MakesTask
      <4> QED BY <3>2, <4>1, FewUnheard
    <3> QED BY <1>3, <3>1, <3>2
  <2> QED BY <2>1, <2>2
<1>4. ASSUME NEW c \in Call, Begin(c) \/ Step(c) PROVE FewAdrift'
  BY <1>3, <1>4, FewCommitted, FewExamined, FewOthers DEF Step, CourseStep, PlanStep
<1> QED BY <1>1, <1>2, <1>4 DEF Next

LEMMA FewInit ==
  ASSUME Init PROVE FewAdrift
<1>1. DOMAIN tasks \subseteq {TaskAt(s) : s \in Sessions}
  <2> DEFINE plan == [i \in 1..Topics |-> [status |-> "scheduled", task |-> i, start |-> 0]]
  <2>1. plans = <<plan>> /\ DOMAIN tasks = 1..Topics
    BY DEF Init
  <2>2. /\ plans[1] = plan /\ Len(plans) = 1 /\ DOMAIN plan = 1..Topics
        /\ \A t \in 1..Topics : plan[t].task = t
    BY <2>1
  <2> HIDE DEF plan
  <2>3. \A t \in 1..Topics : <<1, t>> \in Sessions /\ TaskAt(<<1, t>>) = t
    <3> SUFFICES ASSUME NEW t \in 1..Topics PROVE <<1, t>> \in Sessions /\ TaskAt(<<1, t>>) = t
      OBVIOUS
    <3>1. <<1, t>>[1] = 1 /\ <<1, t>>[2] = t /\ 1 \in 1..Len(plans)
      BY <2>2
    <3>2. <<1, t>> \in (1..Len(plans)) \X (1..Topics)
      BY <3>1
    <3> QED BY <2>2, <3>1, <3>2 DEF Sessions, TaskAt, Session
  <2> QED BY <2>1, <2>3
<1>2. Adrift = {}
  BY <1>1 DEF Adrift, Linked, TaskAt
<1>3. trouble = 0 /\ Shed * 0 = 0
  BY ShedNat DEF Init
<1> QED BY <1>2, <1>3, FS_EmptySet DEF FewAdrift

\* What the running calls have made covers what they own.
LEMMA OrphansFew ==
  ASSUME Typed, Own, FewAdrift PROVE OrphansPaid
<1>1. Being \subseteq BeingLinked
  <2>1. Range(<<>>) = {}
    BY DEF Range
  <2>2. \A c \in Call : call[c].op = "none" => Owned(c) = {}
    <3>1. SUFFICES ASSUME NEW c \in Call, call[c].op = "none" PROVE Range(call[c].made) = {}
      BY DEF Owned
    <3> QED BY <2>1, <3>1 DEF Own
  <2> QED BY <2>2 DEF Being, BeingLinked, Running, Owned
<1>2. (DOMAIN tasks) \ (Linked \cup BeingLinked) \in SUBSET Adrift /\ IsFiniteSet(Adrift)
  BY <1>1 DEF Adrift, FewAdrift
<1> HIDE DEF Adrift
<1>3. /\ Cardinality((DOMAIN tasks) \ (Linked \cup BeingLinked)) <= Cardinality(Adrift)
      /\ Cardinality((DOMAIN tasks) \ (Linked \cup BeingLinked)) \in Nat
      /\ Cardinality(Adrift) \in Nat
  BY <1>2, Fewer
<1>4. Cardinality(Adrift) <= Shed * trouble /\ Shed * trouble \in Nat
  <2>1. trouble \in Nat
    BY DEF Typed, Counts
  <2>2. \A k \in Nat : k * trouble \in Nat
    BY <2>1
  <2> QED BY <2>2, ShedNat DEF FewAdrift
<1> HIDE DEF Linked, BeingLinked
<1> QED BY <1>3, <1>4 DEF OrphansPaid, Shed

-----------------------------------------------------------------------------
(* The reminders follow the sessions while nothing overlaps or goes wrong. *)

Calm == trouble = 0 /\ overlaps = 0

Start(s) == Session(s).start

\* Between the task and the session: the task is moved, or done, already.
Moving(c) == call[c].at = "moveSession"
Marked(c) == /\ call[c].op = "completeStudySession"
             /\ call[c].at \in {"getTopic", "setMastery", "completeSession"}

OneAtATime ==
  \A c, d \in Call : call[c].op \in SessionCalls /\ call[d].op \in SessionCalls => c = d

DueFollows ==
  /\ \A s \in Sessions : (\A c \in Call : Moving(c) => call[c].session # s) =>
       tasks[TaskAt(s)].due = Start(s)
  /\ \A c \in Call : Moving(c) => tasks[TaskAt(call[c].session)].due = call[c].serial

DoneFollows ==
  /\ \A s \in Sessions : (\A c \in Call : Marked(c) => call[c].session # s) =>
       (tasks[TaskAt(s)].done <=> s \in completed)
  /\ \A c \in Call : Marked(c) => tasks[TaskAt(call[c].session)].done

PlansFresh ==
  \A c \in Call : call[c].op = "generateStudyPlan" =>
    \A t \in Owned(c) : tasks[t] = [done |-> FALSE, due |-> call[c].serial]

Follows == Calm => OneAtATime /\ DueFollows /\ DoneFollows /\ PlansFresh

LEMMA SessionNamed ==
  ASSUME Typed, NEW c \in Call
  PROVE  /\ call[c].op \in SessionCalls => call[c].session \in Sessions
         /\ Moving(c) \/ Marked(c) => call[c].op \in SessionCalls
<1>1. call[c].op \in SessionCalls => call[c].session \in Sessions
  <2>1. Names(call[c], Len(quizzes), Len(plans)) /\ Sessions = (1..Len(plans)) \X (1..Topics)
    BY SessionsAre, DataOf DEF Placed
  <2> QED BY <2>1 DEF Names
<1>2. Staged(call[c].op, call[c].at)
  BY RowAt DEF Typed
<1> QED BY <1>1, <1>2 DEF Staged, Moving, Marked, SessionCalls

LEMMA StillDue ==
  ASSUME Typed, NEW c \in Call, Alone(c), DueFollows, Sessions' = Sessions,
         \A s \in Sessions : /\ TaskAt(s)' = TaskAt(s) /\ Start(s)' = Start(s)
                             /\ tasks'[TaskAt(s)].due = tasks[TaskAt(s)].due,
         Moving(c)' <=> Moving(c),
         Moving(c) => call'[c].session = call[c].session /\ call'[c].serial = call[c].serial
  PROVE  DueFollows'
<1>1. \A d \in Call : /\ Moving(d)' <=> Moving(d)
                      /\ Moving(d) => /\ call'[d].session = call[d].session
                                      /\ call'[d].serial = call[d].serial
                                      /\ call[d].session \in Sessions
  BY SessionNamed DEF Alone, Moving
<1> HIDE DEF Moving, Start, TaskAt, Sessions
<1> QED BY <1>1 DEF DueFollows

LEMMA StillDone ==
  ASSUME Typed, NEW c \in Call, Alone(c), DoneFollows, Sessions' = Sessions,
         completed' = completed,
         \A s \in Sessions : /\ TaskAt(s)' = TaskAt(s)
                             /\ tasks'[TaskAt(s)].done = tasks[TaskAt(s)].done,
         Marked(c)' <=> Marked(c), Marked(c) => call'[c].session = call[c].session
  PROVE  DoneFollows'
<1>1. \A d \in Call : /\ Marked(d)' <=> Marked(d)
                      /\ Marked(d) => /\ call'[d].session = call[d].session
                                      /\ call[d].session \in Sessions
  BY SessionNamed DEF Alone, Marked
<1> HIDE DEF Marked, TaskAt, Sessions
<1> QED BY <1>1 DEF DoneFollows

LEMMA StillFresh ==
  ASSUME NEW c \in Call, Alone(c), PlansFresh,
         \A d \in Call : \A t \in Owned(d) : tasks'[t] = tasks[t],
         \/ Owned(c)' = {}
         \/ /\ Owned(c)' \subseteq Owned(c) /\ call'[c].op = call[c].op
            /\ call'[c].serial = call[c].serial
  PROVE  PlansFresh'
<1>1. \A d \in Call \ {c} : call'[d] = call[d] /\ Owned(d)' = Owned(d)
  BY DEF Alone, Owned
<1> HIDE DEF Owned
<1> QED BY <1>1 DEF PlansFresh

LEMMA StillOne ==
  ASSUME NEW c \in Call, Alone(c), OneAtATime,
         \/ call'[c].op \in SessionCalls => call[c].op \in SessionCalls
         \/ \A d \in Call : call[d].op \notin SessionCalls
  PROVE  OneAtATime'
BY DEF OneAtATime, Alone

\* A row that is at no point where the task runs ahead of the session, and has
\* made no more.
Steady(c) ==
  /\ Alone(c) /\ trouble' = trouble
  /\ (Moving(c)' <=> Moving(c)) /\ (Marked(c)' <=> Marked(c))
  /\ Moving(c) \/ Marked(c) => /\ call'[c].session = call[c].session
                               /\ call'[c].serial = call[c].serial
  /\ \/ Owned(c)' = {}
     \/ /\ Owned(c)' \subseteq Owned(c) /\ call'[c].op = call[c].op
        /\ call'[c].serial = call[c].serial
  /\ \/ call'[c].op \in SessionCalls => call[c].op \in SessionCalls
     \/ \A d \in Call : call[d].op \notin SessionCalls

LEMMA FollowsSteady ==
  ASSUME Typed, NEW c \in Call, Steady(c), Calm, Follows, UNCHANGED <<plans, tasks, completed>>
  PROVE  Follows'
<1>1. /\ Sessions' = Sessions
      /\ \A s \in Sessions : TaskAt(s)' = TaskAt(s) /\ Start(s)' = Start(s)
  BY DEF Sessions, TaskAt, Start, Session
<1>2. OneAtATime'
  BY StillOne DEF Steady, Follows
<1> HIDE DEF Moving, Marked, Owned, TaskAt, Start, Sessions
<1>3. DueFollows'
  BY <1>1, StillDue DEF Steady, Follows
<1>4. DoneFollows'
  BY <1>1, StillDone DEF Steady, Follows
<1>5. PlansFresh'
  BY <1>1, StillFresh DEF Steady, Follows
<1> QED BY <1>2, <1>3, <1>4, <1>5 DEF Follows

\* A step that keeps the calm comes from it, and nothing fails in it.
LEMMA CalmBefore ==
  ASSUME Typed, [Next]_vars, Calm'
  PROVE  Calm /\ trouble' = trouble /\ overlaps' = overlaps
<1>1. trouble' \in {trouble, trouble + 1} /\ trouble \in Nat /\ overlaps \in Nat
  BY TroubleUp DEF Typed, Counts
<1>2. overlaps' \in Nat /\ overlaps' >= overlaps
  <2>1. ASSUME NEW c \in Call, Begin(c) PROVE overlaps' \in Nat /\ overlaps' >= overlaps
    <3>1. \A S \in SUBSET Call : Cardinality(S) \in Nat
      BY StudyAssumption, FS_Subset, FS_CardinalityType
    <3>2. \A concern : {d \in Running : call[d].op \in concern} \in SUBSET Call
      BY DEF Running
    <3>3. PICK concern : overlaps' = overlaps + Cardinality({d \in Running : call[d].op \in concern})
      BY <2>1, BeginDoes
    <3> QED BY <1>1, <3>1, <3>2, <3>3
  <2>2. CASE UNCHANGED vars \/ Crash \/ \E c \in Call : Connect(c) \/ Fails(c) \/ QuizStep(c)
    <3>1. overlaps' = overlaps
      BY <2>2 DEF vars, Crash, Connect, Fails, QuizStep, ClosePrior, InsertQuiz, GetQuiz,
                  WriteAnswer, history
    <3> QED BY <1>1, <3>1
  <2>3. CASE \E c \in Call : CourseStep(c)
    <3>1. overlaps' = overlaps
      BY <2>3 DEF CourseStep, GetTopic, SetMastery, CreateExamTask, InsertExam, history
    <3> QED BY <1>1, <3>1
  <2>4. CASE \E c \in Call : PlanStep(c)
    <3>1. overlaps' = overlaps
      BY <2>4 DEF PlanStep, InsertPlan, CreateTask, CommitPlan, ReadSession, MarkDone,
                  CompleteSession, MoveTask, MoveSession, history
    <3> QED BY <1>1, <3>1
  <2> QED BY <2>1, <2>2, <2>3, <2>4 DEF Next, Step
<1> QED BY <1>1, <1>2 DEF Calm

LEMMA OwnsNothing ==
  ASSUME NEW c \in Call, call[c].made = <<>> PROVE Owned(c) = {}
<1>1. Range(<<>>) = {}
  BY DEF Range
<1> QED BY <1>1 DEF Owned

LEMMA SteadyEnds ==
  ASSUME NEW c \in Call, Ends(c), ~Moving(c), ~Marked(c) PROVE Steady(c)
<1>1. call'[c] = Idle /\ Alone(c) /\ trouble' = trouble
  BY DEF Ends
<1>2. Owned(c)' = {}
  <2>1. Range(<<>>) = {}
    BY DEF Range
  <2> QED BY <1>1, <2>1, IdleRow DEF Owned
<1>3. ~Moving(c)' /\ ~Marked(c)' /\ call'[c].op \notin SessionCalls
  BY <1>1, IdleRow DEF Moving, Marked, SessionCalls
<1> HIDE DEF Owned, Moving, Marked
<1> QED BY <1>1, <1>2, <1>3 DEF Steady

LEMMA SteadyGoes ==
  ASSUME Own, NEW c \in Call,
         NEW fields \in SUBSET (LeftFields \cup {"topic", "delta", "prior"}), Goes(c, fields),
         call[c].op \notin {"createAssessment", "generateStudyPlan"},
         Moving(c)' <=> Moving(c), Marked(c)' <=> Marked(c)
  PROVE  Steady(c)
<1>1. /\ Alone(c) /\ trouble' = trouble /\ call'[c].op = call[c].op
      /\ call'[c].made = call[c].made /\ call'[c].session = call[c].session
      /\ call'[c].serial = call[c].serial
  BY DEF Goes, Same, LeftFields
<1>2. Owned(c)' = {}
  <2>1. Range(<<>>) = {} /\ call[c].made = <<>>
    BY DEF Range, Own
  <2> QED BY <1>1, <2>1 DEF Owned
<1> HIDE DEF Owned, Moving, Marked
<1> QED BY <1>1, <1>2 DEF Steady

\* A call that begins, or goes on without touching tasks or sessions.
LEMMA SteadyStep ==
  ASSUME Typed, Own, NEW c \in Call, trouble' = trouble, Calm, Calm',
         \/ Begin(c) \/ Connect(c) \/ QuizStep(c) \/ GetTopic(c) \/ SetMastery(c)
         \/ InsertExam(c) \/ InsertPlan(c) \/ ReadSession(c)
  PROVE  Steady(c)
<1>0. ~Falls(c)
  BY DEF Falls, Typed, Counts
<1>1. Staged(call[c].op, call[c].at)
  BY RowAt DEF Typed
<1>2. ASSUME NEW fields \in SUBSET (LeftFields \cup {"topic", "delta", "prior"}), NEW at,
             Leaves(c, at, fields),
             call[c].op \notin {"createAssessment", "generateStudyPlan"},
             at = "moveSession" <=> Moving(c),
             Marked(c) <=> /\ call[c].op = "completeStudySession"
                           /\ at \in {"getTopic", "setMastery", "completeSession"}
      PROVE  Steady(c)
  <2>1. Goes(c, fields) /\ call'[c].at = at /\ call'[c].op = call[c].op
    BY <1>2 DEF Leaves, Goes, Same, LeftFields
  <2>2. (Moving(c)' <=> Moving(c)) /\ (Marked(c)' <=> Marked(c))
    BY <1>2, <2>1 DEF Moving, Marked
  <2> QED BY <1>2, <2>1, <2>2, SteadyGoes
<1>3. CASE Begin(c)
  <2>1. /\ Alone(c) /\ call[c].op = "none" /\ call'[c].made = <<>>
        /\ call'[c].at \notin {"moveSession", "getTopic", "setMastery", "completeSession"}
    BY <1>3, BeginDoes DEF Begun
  <2>2. ~Moving(c) /\ ~Marked(c) /\ ~Moving(c)' /\ ~Marked(c)'
    BY <1>1, <2>1 DEF Staged, Moving, Marked
  <2>3. Owned(c)' = {}
    <3>1. Range(<<>>) = {}
      BY DEF Range
    <3> QED BY <2>1, <3>1 DEF Owned
  <2>4. \/ call'[c].op \in SessionCalls => call[c].op \in SessionCalls
        \/ \A d \in Call : call[d].op \notin SessionCalls
    <3>1. CASE overlaps' = overlaps + Cardinality({d \in Running : call[d].op \in SessionCalls})
      <4> DEFINE S == {d \in Running : call[d].op \in SessionCalls}
      <4>1. IsFiniteSet(S) /\ Cardinality(S) \in Nat
        BY StudyAssumption, FS_Subset, FS_CardinalityType DEF Running
      <4> HIDE DEF S
      <4>2. Cardinality(S) = 0
        BY <3>1, <4>1 DEF Calm, S
      <4>3. S = {}
        BY <4>1, <4>2, FS_EmptySet
      <4> QED BY <4>3 DEF S, Running, SessionCalls
    <3>2. CASE call'[c].op \notin SessionCalls
      BY <3>2
    <3> QED BY <1>3, <3>1, <3>2, BeginDoes DEF Begun, SessionCalls
  <2> HIDE DEF Owned, Moving, Marked
  <2> QED BY <2>1, <2>2, <2>3, <2>4 DEF Steady
<1>4. CASE Connect(c)
  <2>1. Goes(c, {"held"})
    BY <1>4, ConnectDoes DEF Typed
  <2>2. /\ Alone(c) /\ call'[c].op = call[c].op /\ call'[c].at = call[c].at
        /\ call'[c].made = call[c].made /\ call'[c].session = call[c].session
        /\ call'[c].serial = call[c].serial
    BY <2>1 DEF Goes, Same
  <2>3. /\ Moving(c)' <=> Moving(c)
        /\ Marked(c)' <=> Marked(c)
        /\ Owned(c)' = Owned(c)
    BY <2>2 DEF Moving, Marked, Owned
  <2> HIDE DEF Owned, Moving, Marked
  <2> QED BY <2>2, <2>3 DEF Steady
<1>5. CASE ClosePrior(c)
  <2>1. /\ Goes(c, {"at", "prior"}) /\ call'[c].at = "insertQuiz" /\ call[c].at = "closePrior"
        /\ call[c].op = "generateQuiz"
    BY <1>5, ClosePriorDoes
  <2>2. ~Moving(c) /\ ~Marked(c) /\ ~Moving(c)' /\ ~Marked(c)'
    BY <2>1 DEF Moving, Marked
  <2>3. {"at", "prior"} \in SUBSET (LeftFields \cup {"topic", "delta", "prior"})
    BY DEF LeftFields
  <2> QED BY <2>1, <2>2, <2>3, SteadyGoes
<1>6. CASE InsertQuiz(c) \/ InsertExam(c)
  <2>1. Ends(c) /\ call[c].at \in {"insertQuiz", "insertExam"}
    BY <1>0, <1>6, InsertQuizDoes, InsertExamDoes
  <2> QED BY <2>1, SteadyEnds DEF Moving, Marked
<1>7. CASE GetQuiz(c) \/ WriteAnswer(c)
  <2>1. /\ call[c].at \in {"getQuiz", "writeAnswer"} /\ call[c].op = "submitAnswer"
        /\ \/ Ends(c)
           \/ \E at \in {"writeAnswer", "getTopic"} :
                \E fields \in SUBSET (LeftFields \cup {"topic", "delta", "prior"}) :
                  Leaves(c, at, fields)
    BY <1>0, <1>7, GetQuizDoes, WriteAnswerDoes
  <2>2. ~Moving(c) /\ ~Marked(c)
    BY <2>1 DEF Moving, Marked
  <2> QED BY <1>2, <2>1, <2>2, SteadyEnds
<1>8. CASE GetTopic(c)
  <2>1. /\ call[c].at = "getTopic" /\ call[c].op \in {"submitAnswer", "completeStudySession"}
        /\ Leaves(c, "setMastery", LeftFields)
    BY <1>8, GetTopicDoes
  <2> QED BY <1>2, <2>1 DEF Moving, Marked
<1>9. CASE SetMastery(c)
  <2>1. /\ call[c].at = "setMastery"
        /\ \/ call[c].op = "submitAnswer" /\ Ends(c)
           \/ call[c].op = "completeStudySession" /\ Leaves(c, "completeSession", LeftFields)
    BY <1>0, <1>9, SetMasteryDoes
  <2> QED BY <1>2, <2>1, SteadyEnds DEF Moving, Marked
<1>10. CASE InsertPlan(c)
  <2>1. /\ call[c].at = "insertPlan" /\ call[c].op = "generateStudyPlan"
        /\ Goes(c, {"at", "made"}) /\ call'[c].at = "createTask" /\ call'[c].made = <<>>
    BY <1>10, InsertPlanDoes
  <2>2. Alone(c) /\ call'[c].op = call[c].op
    BY <2>1 DEF Goes, Same
  <2>3. ~Moving(c) /\ ~Marked(c) /\ ~Moving(c)' /\ ~Marked(c)'
    BY <2>1 DEF Moving, Marked
  <2>4. Owned(c)' = {}
    <3>1. Range(<<>>) = {}
      BY DEF Range
    <3> QED BY <2>1, <3>1 DEF Owned
  <2> HIDE DEF Owned, Moving, Marked
  <2> QED BY <2>2, <2>3, <2>4 DEF Steady
<1>11. CASE ReadSession(c)
  <2>1. /\ call[c].at = "readSession" /\ Goes(c, {"at"}) /\ call'[c].at \in {"markDone", "moveTask"}
        /\ call[c].op \in {"completeStudySession", "rescheduleStudySession"}
    BY <1>11, ReadSessionDoes
  <2>2. ~Moving(c) /\ ~Marked(c) /\ ~Moving(c)' /\ ~Marked(c)'
    BY <2>1 DEF Moving, Marked
  <2>3. {"at"} \in SUBSET (LeftFields \cup {"topic", "delta", "prior"})
    BY DEF LeftFields
  <2> QED BY <2>1, <2>2, <2>3, SteadyGoes
<1> QED BY <1>3, <1>4, <1>5, <1>6, <1>7, <1>8, <1>9, <1>10, <1>11 DEF QuizStep

\* The task of a plan in the making is due when its session will start.
LEMMA FollowsMade ==
  ASSUME Typed, Typed', Own, NEW c \in Call, MakesTask(c), Calm, Follows PROVE Follows'
<1>0. PICK new : new = Len(tasks) + 1
  OBVIOUS
<1>1. /\ Alone(c) /\ call'[c].op = call[c].op /\ call'[c].serial = call[c].serial
      /\ call'[c].at \in {"commitPlan", "createTask", "insertExam"}
      /\ call[c].at \in {"createTask", "createExamTask"}
      /\ call[c].op \in {"createAssessment", "generateStudyPlan"}
      /\ tasks' = Append(tasks, [done |-> FALSE, due |-> call[c].serial])
      /\ plans' = plans /\ completed' = completed
  BY CreateTaskDoes, CreateExamTaskDoes
     DEF MakesTask, Leaves, Goes, Same, LeftFields, CreateTask, CreateExamTask
<1>2. /\ \A t \in DOMAIN tasks : tasks'[t] = tasks[t]
      /\ tasks'[new] = [done |-> FALSE, due |-> call[c].serial]
  BY <1>0, <1>1, TaskAppended, DataOf
<1>3. /\ Sessions' = Sessions
      /\ \A s \in Sessions : TaskAt(s)' = TaskAt(s) /\ Start(s)' = Start(s)
  BY <1>1 DEF Sessions, TaskAt, Start, Session
<1>4. \A s \in Sessions : tasks'[TaskAt(s)] = tasks[TaskAt(s)]
  BY <1>2 DEF Own
<1>5. ~Moving(c) /\ ~Marked(c) /\ ~Moving(c)' /\ ~Marked(c)'
  BY <1>1 DEF Moving, Marked
<1>6. OneAtATime'
  BY <1>1, StillOne DEF SessionCalls, Follows
<1>7. DueFollows' /\ DoneFollows'
  <2> HIDE DEF Moving, Marked, TaskAt, Start, Sessions
  <2> QED BY <1>1, <1>3, <1>4, <1>5, StillDue, StillDone DEF Follows
<1>8. PlansFresh'
  <2>1. /\ Owned(c)' = Owned(c) \cup {new}
        /\ \A d \in Call \ {c} : Owned(d)' = Owned(d) /\ call'[d] = call[d]
    BY <1>0, <1>1, OwnMade DEF Alone
  <2>2. \A d \in Call : Owned(d) \subseteq DOMAIN tasks
    BY DEF Own
  <2> HIDE DEF Owned
  <2>3. \A d \in Call : call[d].op = "generateStudyPlan" =>
          \A t \in Owned(d) : tasks'[t] = [done |-> FALSE, due |-> call[d].serial]
    BY <1>2, <2>2 DEF PlansFresh, Follows
  <2>4. call'[c].op = "generateStudyPlan" =>
          \A t \in Owned(c)' : tasks'[t] = [done |-> FALSE, due |-> call'[c].serial]
    BY <1>1, <1>2, <2>1, <2>3
  <2> QED BY <2>1, <2>3, <2>4 DEF PlansFresh
<1> QED BY <1>6, <1>7, <1>8 DEF Follows

\* A committed plan's sessions start when their tasks are due.
LEMMA FollowsCommitted ==
  ASSUME Typed, Typed', Own, NEW c \in Call, CommitPlan(c), Calm, Follows, ~Falls(c) PROVE Follows'
<1>0. PICK new : new = Len(plans) + 1
  OBVIOUS
<1>1. /\ call[c].op = "generateStudyPlan" /\ call[c].at = "commitPlan"
      /\ Alone(c) /\ call'[c] = Idle
      /\ completed' = completed
  BY CommitPlanDoes DEF Ends, CommitPlan
<1>2. /\ tasks' = tasks /\ Owned(c)' = {}
      /\ Sessions' = Sessions \cup {<<new, t>> : t \in 1..Topics}
      /\ \A s \in Sessions : TaskAt(s)' = TaskAt(s) /\ Start(s)' = Start(s)
      /\ \A t \in 1..Topics : /\ <<new, t>> \notin Sessions
                              /\ TaskAt(<<new, t>>)' \in Owned(c)
                              /\ Start(<<new, t>>)' = call[c].serial
  BY <1>0, OwnCommitted DEF TaskAt, Start
<1>3. /\ ~Moving(c) /\ ~Marked(c) /\ ~Moving(c)' /\ ~Marked(c)'
      /\ call'[c].op \notin SessionCalls
  BY <1>1, IdleRow DEF Moving, Marked, SessionCalls
<1>4. \A d \in Call : /\ Moving(d)' <=> Moving(d)
                      /\ Marked(d)' <=> Marked(d)
                      /\ Moving(d) \/ Marked(d) => /\ call'[d] = call[d]
                                                   /\ call[d].session \in Sessions
  <2>1. \A d \in Call \ {c} : /\ Moving(d)' <=> Moving(d)
                              /\ Marked(d)' <=> Marked(d)
                              /\ call'[d] = call[d]
    BY <1>1 DEF Moving, Marked, Alone
  <2> QED BY <1>3, <2>1, SessionNamed
<1>5. OneAtATime'
  BY <1>1, <1>3, StillOne DEF Follows
<1>6. \A t \in 1..Topics : /\ tasks[TaskAt(<<new, t>>)'].due = call[c].serial
                           /\ ~tasks[TaskAt(<<new, t>>)'].done
  <2>1. \A t \in Owned(c) : tasks[t] = [done |-> FALSE, due |-> call[c].serial]
    BY <1>1 DEF PlansFresh, Follows
  <2>2. \A t \in Owned(c) : tasks[t].due = call[c].serial /\ ~tasks[t].done
    BY <2>1
  <2> HIDE DEF TaskAt, Owned
  <2> QED BY <1>2, <2>2
<1>7. PlansFresh'
  BY <1>1, <1>2, StillFresh DEF Follows
<1> HIDE DEF Moving, Marked, TaskAt, Start, Sessions, Owned
<1>8. DueFollows'
  BY <1>2, <1>4, <1>6 DEF DueFollows, Follows
<1>9. DoneFollows'
  <2>1. completed \subseteq Sessions
    BY DEF Typed, Data
  <2> QED BY <1>1, <1>2, <1>4, <1>6, <2>1 DEF DoneFollows, Follows
<1> QED BY <1>5, <1>7, <1>8, <1>9 DEF Follows

\* What MarkDone and MoveTask write to is the task of the call's session.
LEMMA TaskWritten ==
  ASSUME Typed, Own, NEW c \in Call, call[c].op \in SessionCalls, NEW row,
         call[c].session \in Sessions => row \in TaskRow,
         tasks' = [tasks EXCEPT ![TaskOf(c)] = row], plans' = plans
  PROVE  /\ call[c].session \in Sessions /\ Sessions' = Sessions
         /\ \A s \in Sessions : /\ TaskAt(s)' = TaskAt(s) /\ Start(s)' = Start(s)
                                /\ tasks'[TaskAt(s)] = IF s = call[c].session THEN row
                                                       ELSE tasks[TaskAt(s)]
         /\ \A d \in Call : \A t \in Owned(d) : tasks'[t] = tasks[t]
<1>1. call[c].session \in Sessions
  BY SessionNamed
<1>2. TaskOf(c) = TaskAt(call[c].session)
  BY DEF TaskOf, TaskAt
<1>3. \A t \in DOMAIN tasks : tasks'[t] = IF t = TaskOf(c) THEN row ELSE tasks[t]
  BY <1>1, TaskChanged, DataOf
<1>4. /\ Sessions' = Sessions
      /\ \A s \in Sessions : TaskAt(s)' = TaskAt(s) /\ Start(s)' = Start(s)
  BY DEF Sessions, TaskAt, Start, Session
<1> HIDE DEF TaskOf, TaskAt, Start, Sessions, Owned
<1>5. \A s \in Sessions : tasks'[TaskAt(s)] = IF s = call[c].session THEN row
                                              ELSE tasks[TaskAt(s)]
  BY <1>1, <1>2, <1>3 DEF Own
<1>6. \A d \in Call : \A t \in Owned(d) : tasks'[t] = tasks[t]
  BY <1>1, <1>2, <1>3 DEF Own
<1> QED BY <1>1, <1>4, <1>5, <1>6

LEMMA FollowsDone ==
  ASSUME Typed, Own, NEW c \in Call, MarkDone(c), Calm, Follows, ~Falls(c) PROVE Follows'
<1> DEFINE row == [tasks[TaskOf(c)] EXCEPT !.done = TRUE]
           s == call[c].session
<1>1. /\ Leaves(c, "getTopic", LeftFields) /\ call[c].op = "completeStudySession"
      /\ call[c].at = "markDone"
  BY MarkDoneDoes
<1>2. tasks' = [tasks EXCEPT ![TaskOf(c)] = row] /\ plans' = plans /\ completed' = completed
  BY DEF MarkDone
<1>3. /\ Alone(c) /\ call'[c].op = call[c].op /\ call'[c].at = "getTopic"
      /\ call'[c].made = call[c].made /\ call'[c].session = s
      /\ call'[c].serial = call[c].serial
  BY <1>1 DEF Leaves, Goes, Same, LeftFields
<1>4. s \in Sessions => tasks[TaskAt(s)] \in TaskRow
  BY DataOf DEF Own
<1>5. s \in Sessions => /\ row \in TaskRow /\ row.done = TRUE /\ row.due = tasks[TaskAt(s)].due
  BY <1>4, TaskRows DEF TaskOf, TaskAt
<1> HIDE DEF row
<1>6. /\ s \in Sessions /\ Sessions' = Sessions
      /\ \A r \in Sessions : /\ TaskAt(r)' = TaskAt(r) /\ Start(r)' = Start(r)
                             /\ tasks'[TaskAt(r)] = IF r = s THEN row ELSE tasks[TaskAt(r)]
      /\ \A d \in Call : \A t \in Owned(d) : tasks'[t] = tasks[t]
  BY <1>1, <1>2, <1>5, TaskWritten DEF SessionCalls
<1>7. /\ ~Moving(c) /\ ~Moving(c)' /\ ~Marked(c) /\ Marked(c)' /\ Owned(c)' = Owned(c)
  BY <1>1, <1>3 DEF Moving, Marked, Owned
<1>8. \A d \in Call : /\ d # c => /\ call'[d] = call[d]
                                  /\ Marked(d)' <=> Marked(d)
                      /\ Marked(d) => call[d].session \in Sessions
  BY <1>3, SessionNamed DEF Alone, Marked
<1>9. OneAtATime'
  BY <1>3, StillOne DEF Follows
<1> HIDE DEF Moving, Marked, TaskAt, Start, Sessions, Owned
<1>10. DueFollows'
  BY <1>3, <1>5, <1>6, <1>7, StillDue DEF Follows
<1>11. DoneFollows'
  <2>1. DoneFollows
    BY DEF Follows
  <2>2. ASSUME NEW r \in Sessions, \A d \in Call : Marked(d)' => call'[d].session # r
        PROVE  tasks'[TaskAt(r)].done <=> r \in completed
    <3>1. r # s /\ \A d \in Call : Marked(d) => call[d].session # r
      BY <1>3, <1>7, <1>8, <2>2
    <3> QED BY <1>6, <2>1, <3>1 DEF DoneFollows
  <2>3. \A d \in Call : Marked(d)' => /\ call'[d].session \in Sessions
                                      /\ tasks'[TaskAt(call'[d].session)].done
    BY <1>3, <1>5, <1>6, <1>8, <2>1 DEF DoneFollows
  <2>4. \A d \in Call : Marked(d)' => TaskAt(call[d].session)' = TaskAt(call'[d].session)
    BY <1>6, <2>3
  <2> QED BY <1>2, <1>6, <2>2, <2>3, <2>4 DEF DoneFollows
<1>12. PlansFresh'
  BY <1>3, <1>6, <1>7, StillFresh DEF Follows
<1> QED BY <1>9, <1>10, <1>11, <1>12 DEF Follows

LEMMA FollowsCompleted ==
  ASSUME Typed, Own, NEW c \in Call, CompleteSession(c), Calm, Follows, ~Falls(c) PROVE Follows'
<1> DEFINE s == call[c].session
<1>1. /\ Ends(c) /\ call[c].op = "completeStudySession" /\ call[c].at = "completeSession"
  BY CompleteSessionDoes
<1>2. Alone(c) /\ call'[c] = Idle
  BY <1>1 DEF Ends
<1>3. /\ s \in Sessions /\ Sessions' = Sessions /\ tasks' = tasks
      /\ completed' = completed \cup {s}
      /\ \A r \in Sessions : TaskAt(r)' = TaskAt(r) /\ Start(r)' = Start(r)
  <2>1. /\ s \in Sessions /\ Session(s) \in SessionRow /\ Sessions' = Sessions
        /\ completed' = completed \cup {s} /\ tasks' = tasks
        /\ \A r \in Sessions : Session(r)' = IF r = s THEN Done(Session(s)) ELSE Session(r)
    BY SessionCompleted
  <2>2. Done(Session(s)).task = Session(s).task /\ Done(Session(s)).start = Session(s).start
    BY <2>1, SessionRows
  <2> HIDE DEF Session, Sessions, Done
  <2> QED BY <2>1, <2>2 DEF TaskAt, Start
<1>4. /\ ~Moving(c) /\ ~Moving(c)' /\ Marked(c) /\ ~Marked(c)'
      /\ call'[c].op \notin SessionCalls
  BY <1>1, <1>2, IdleRow DEF Moving, Marked, SessionCalls
<1>5. Owned(c)' = {}
  <2>1. Range(<<>>) = {}
    BY DEF Range
  <2> QED BY <1>2, <2>1, IdleRow DEF Owned
<1>6. \A d \in Call : /\ d # c => /\ call'[d] = call[d]
                                  /\ Marked(d)' <=> Marked(d)
                      /\ Marked(d) => call[d].session \in Sessions
  BY <1>2, SessionNamed DEF Alone, Marked
<1>7. OneAtATime'
  BY <1>2, <1>4, StillOne DEF Follows
<1> HIDE DEF Moving, Marked, TaskAt, Start, Sessions, Owned
<1>8. DueFollows'
  BY <1>2, <1>3, <1>4, StillDue DEF Follows
<1>9. DoneFollows'
  <2>1. DoneFollows
    BY DEF Follows
  <2>2. ASSUME NEW r \in Sessions, \A d \in Call : Marked(d)' => call'[d].session # r
        PROVE  tasks[TaskAt(r)].done <=> r \in completed'
    <3>1. CASE r = s
      BY <1>3, <1>4, <2>1, <3>1 DEF DoneFollows
    <3>2. CASE r # s
      <4>1. \A d \in Call : Marked(d) => call[d].session # r
        BY <1>6, <2>2, <3>2
      <4> QED BY <1>3, <2>1, <3>2, <4>1 DEF DoneFollows
    <3> QED BY <3>1, <3>2
  <2>3. \A d \in Call : Marked(d)' => /\ call'[d].session \in Sessions
                                      /\ tasks[TaskAt(call'[d].session)].done
    BY <1>4, <1>6, <2>1 DEF DoneFollows
  <2>4. \A d \in Call : Marked(d)' => TaskAt(call[d].session)' = TaskAt(call'[d].session)
    BY <1>3, <2>3
  <2> QED BY <1>3, <2>2, <2>3, <2>4 DEF DoneFollows
<1>10. PlansFresh'
  BY <1>2, <1>3, <1>5, StillFresh DEF Follows
<1> QED BY <1>7, <1>8, <1>9, <1>10 DEF Follows

LEMMA FollowsMovedTask ==
  ASSUME Typed, Own, NEW c \in Call, MoveTask(c), Calm, Follows, ~Falls(c) PROVE Follows'
<1> DEFINE row == [tasks[TaskOf(c)] EXCEPT !.due = call[c].serial]
           s == call[c].session
<1>1. /\ Leaves(c, "moveSession", LeftFields) /\ call[c].op = "rescheduleStudySession"
      /\ call[c].at = "moveTask"
  BY MoveTaskDoes
<1>2. tasks' = [tasks EXCEPT ![TaskOf(c)] = row] /\ plans' = plans /\ completed' = completed
  BY DEF MoveTask
<1>3. /\ Alone(c) /\ call'[c].op = call[c].op /\ call'[c].at = "moveSession"
      /\ call'[c].made = call[c].made /\ call'[c].session = s
      /\ call'[c].serial = call[c].serial
  BY <1>1 DEF Leaves, Goes, Same, LeftFields
<1>4. s \in Sessions => tasks[TaskAt(s)] \in TaskRow
  BY DataOf DEF Own
<1>5. s \in Sessions => /\ row \in TaskRow /\ row.due = call[c].serial
                        /\ row.done = tasks[TaskAt(s)].done
  <2>1. call[c].serial \in 0..MaxCalls
    BY RowAt, RowFields DEF Typed
  <2> QED BY <1>4, <2>1, TaskRows DEF TaskOf, TaskAt
<1> HIDE DEF row
<1>6. /\ s \in Sessions /\ Sessions' = Sessions
      /\ \A r \in Sessions : /\ TaskAt(r)' = TaskAt(r) /\ Start(r)' = Start(r)
                             /\ tasks'[TaskAt(r)] = IF r = s THEN row ELSE tasks[TaskAt(r)]
      /\ \A d \in Call : \A t \in Owned(d) : tasks'[t] = tasks[t]
  BY <1>1, <1>2, <1>5, TaskWritten DEF SessionCalls
<1>7. /\ ~Moving(c) /\ Moving(c)' /\ ~Marked(c) /\ ~Marked(c)' /\ Owned(c)' = Owned(c)
  BY <1>1, <1>3 DEF Moving, Marked, Owned
<1>8. \A d \in Call : /\ d # c => /\ call'[d] = call[d]
                                  /\ Moving(d)' <=> Moving(d)
                      /\ Moving(d) => call[d].session \in Sessions
                      /\ Moving(d) => d = c
  <2>1. \A d \in Call : Moving(d) => call[d].op \in SessionCalls
    BY SessionNamed
  <2>2. call[c].op \in SessionCalls
    BY <1>1 DEF SessionCalls
  <2> QED BY <1>3, <2>1, <2>2, SessionNamed DEF Alone, Moving, Follows, OneAtATime
<1>9. OneAtATime'
  BY <1>3, StillOne DEF Follows
<1> HIDE DEF Moving, Marked, TaskAt, Start, Sessions, Owned
<1>10. DoneFollows'
  BY <1>2, <1>3, <1>5, <1>6, <1>7, StillDone DEF Follows
<1>11. DueFollows'
  <2>1. DueFollows
    BY DEF Follows
  <2>2. ASSUME NEW r \in Sessions, \A d \in Call : Moving(d)' => call'[d].session # r
        PROVE  tasks'[TaskAt(r)].due = Start(r)
    <3>1. r # s /\ \A d \in Call : Moving(d) => call[d].session # r
      BY <1>3, <1>7, <1>8, <2>2
    <3> QED BY <1>6, <2>1, <3>1 DEF DueFollows
  <2>3. \A d \in Call : Moving(d)' => /\ call'[d].session \in Sessions
                                      /\ tasks'[TaskAt(call'[d].session)].due = call'[d].serial
    BY <1>3, <1>5, <1>6, <1>7, <1>8
  <2>4. \A d \in Call : Moving(d)' => TaskAt(call[d].session)' = TaskAt(call'[d].session)
    BY <1>6, <2>3
  <2> QED BY <1>6, <2>2, <2>3, <2>4 DEF DueFollows
<1>12. PlansFresh'
  BY <1>3, <1>6, <1>7, StillFresh DEF Follows
<1> QED BY <1>9, <1>10, <1>11, <1>12 DEF Follows

LEMMA FollowsMovedSession ==
  ASSUME Typed, Own, NEW c \in Call, MoveSession(c), Calm, Follows, ~Falls(c) PROVE Follows'
<1> DEFINE s == call[c].session
           row == Moved(Session(s), call[c].serial)
<1>1. /\ Ends(c) /\ call[c].op = "rescheduleStudySession" /\ call[c].at = "moveSession"
  BY MoveSessionDoes
<1>2. Alone(c) /\ call'[c] = Idle
  BY <1>1 DEF Ends
<1>3. /\ s \in Sessions /\ Sessions' = Sessions /\ tasks' = tasks /\ completed' = completed
      /\ \A r \in Sessions :
           TaskAt(r)' = TaskAt(r) /\ Start(r)' = IF r = s THEN call[c].serial ELSE Start(r)
  <2>1. /\ s \in Sessions /\ Session(s) \in SessionRow /\ Sessions' = Sessions
        /\ call[c].serial \in 0..MaxCalls /\ completed' = completed /\ tasks' = tasks
        /\ \A r \in Sessions : Session(r)' = IF r = s THEN row ELSE Session(r)
    BY SessionMoved
  <2>2. row.task = Session(s).task /\ row.start = call[c].serial
    BY <2>1, SessionRows
  <2> HIDE DEF Session, Sessions, row
  <2> QED BY <2>1, <2>2 DEF TaskAt, Start
<1>4. /\ Moving(c) /\ ~Moving(c)' /\ ~Marked(c) /\ ~Marked(c)'
      /\ call'[c].op \notin SessionCalls
  BY <1>1, <1>2, IdleRow DEF Moving, Marked, SessionCalls
<1>5. Owned(c)' = {}
  <2>1. Range(<<>>) = {}
    BY DEF Range
  <2> QED BY <1>2, <2>1, IdleRow DEF Owned
<1>6. \A d \in Call : /\ d # c => Moving(d)' <=> Moving(d)
                      /\ Moving(d) => d = c
  <2>1. \A d \in Call : Moving(d) => call[d].op \in SessionCalls
    BY SessionNamed
  <2>2. call[c].op \in SessionCalls
    BY <1>1 DEF SessionCalls
  <2> QED BY <1>2, <2>1, <2>2 DEF Alone, Moving, Follows, OneAtATime
<1>7. OneAtATime'
  BY <1>2, <1>4, StillOne DEF Follows
<1> HIDE DEF Moving, Marked, TaskAt, Start, Sessions, Owned
<1>8. DoneFollows'
  BY <1>2, <1>3, <1>4, StillDone DEF Follows
<1>9. DueFollows'
  <2>1. DueFollows
    BY DEF Follows
  <2>2. \A d \in Call : ~Moving(d)'
    BY <1>4, <1>6
  <2>3. ASSUME NEW r \in Sessions PROVE tasks[TaskAt(r)].due = Start(r)'
    <3>1. CASE r = s
      BY <1>3, <1>4, <2>1, <3>1 DEF DueFollows
    <3>2. CASE r # s
      BY <1>3, <1>6, <2>1, <3>2 DEF DueFollows
    <3> QED BY <3>1, <3>2
  <2> QED BY <1>3, <2>2, <2>3 DEF DueFollows
<1>10. PlansFresh'
  BY <1>2, <1>3, <1>5, StillFresh DEF Follows
<1> QED BY <1>7, <1>8, <1>9, <1>10 DEF Follows

LEMMA FollowsStep ==
  ASSUME Typed, Typed', Own, Follows, [Next]_vars PROVE Follows'
<1> SUFFICES ASSUME Calm' PROVE Follows'
  BY DEF Follows
<1>1. Calm /\ trouble' = trouble
  BY CalmBefore
<1>2. CASE UNCHANGED vars
  BY <1>2 DEF vars, Follows, Calm, OneAtATime, DueFollows, DoneFollows, PlansFresh, Moving,
              Marked, Owned, TaskAt, Start, Session, Sessions
<1>3. \A c \in Call : ~Falls(c)
  BY <1>1 DEF Falls, Typed, Counts
<1>4. ~Crash /\ \A c \in Call : ~Fails(c)
  BY <1>1 DEF Crash, Fails, MoreTrouble, Typed, Counts
<1>5. ASSUME NEW c \in Call,
             \/ Begin(c) \/ Connect(c) \/ QuizStep(c) \/ GetTopic(c) \/ SetMastery(c)
             \/ InsertExam(c) \/ InsertPlan(c) \/ ReadSession(c)
      PROVE  Follows'
  <2>1. UNCHANGED <<plans, tasks, completed>>
    BY <1>5 DEF Begin, Connect, QuizStep, ClosePrior, InsertQuiz, GetQuiz, WriteAnswer, GetTopic,
                SetMastery, InsertExam, InsertPlan, ReadSession, planVars
  <2>2. Steady(c)
    BY <1>1, <1>5, SteadyStep
  <2> QED BY <1>1, <2>1, <2>2, FollowsSteady
<1>6. ASSUME NEW c \in Call, CreateTask(c) \/ CreateExamTask(c) PROVE Follows'
  <2>1. MakesTask(c)
    <3>1. CASE CreateTask(c)
      BY <1>3, <3>1, CreateTaskDoes DEF MakesTask
    <3>2. CASE CreateExamTask(c)
      <4>1. /\ Leaves(c, "insertExam", LeftFields \cup {"made"})
            /\ call'[c].made = <<Len(tasks) + 1>> /\ call[c].made = <<>>
        BY <1>3, <3>2, CreateExamTaskDoes DEF Own
      <4> QED BY <3>2, <4>1 DEF MakesTask
    <3> QED BY <1>6, <3>1, <3>2
  <2> QED BY <1>1, <2>1, FollowsMade
<1>7. ASSUME NEW c \in Call, Begin(c) \/ Step(c) PROVE Follows'
  BY <1>1, <1>3, <1>5, <1>6, <1>7, FollowsCommitted, FollowsDone, FollowsCompleted,
     FollowsMovedTask, FollowsMovedSession DEF Step, CourseStep, PlanStep
<1> QED BY <1>2, <1>4, <1>7 DEF Next

LEMMA FollowsInit ==
  ASSUME Init PROVE Follows
<1>1. /\ DOMAIN tasks = 1..Topics
      /\ \A s \in Sessions : TaskAt(s) \in 1..Topics /\ Start(s) = 0
  <2> DEFINE plan == [i \in 1..Topics |-> [status |-> "scheduled", task |-> i, start |-> 0]]
  <2>1. plans = <<plan>> /\ DOMAIN tasks = 1..Topics
    BY DEF Init
  <2>2. /\ plans[1] = plan /\ Len(plans) = 1 /\ DOMAIN plan = 1..Topics
        /\ \A t \in 1..Topics : plan[t].task = t /\ plan[t].start = 0
    BY <2>1
  <2>3. 1..Len(plans) = {1}
    BY <2>2
  <2> HIDE DEF plan
  <2> QED BY <2>1, <2>2, <2>3 DEF Sessions, TaskAt, Start, Session
<1>2. \A t \in 1..Topics : tasks[t].due = 0 /\ ~tasks[t].done
  BY DEF Init
<1>3. \A c \in Call : call[c].op = "none" /\ call[c].at = "idle"
  BY IdleRow DEF Init
<1>4. \A c \in Call : ~Moving(c) /\ ~Marked(c)
  BY <1>3 DEF Moving, Marked
<1>5. OneAtATime /\ PlansFresh
  BY <1>3 DEF OneAtATime, PlansFresh, SessionCalls
<1>6. completed = {}
  BY DEF Init
<1> HIDE DEF Moving, Marked, TaskAt, Start, Sessions
<1>7. DueFollows /\ DoneFollows
  BY <1>1, <1>2, <1>4, <1>6 DEF DueFollows, DoneFollows
<1> QED BY <1>5, <1>7 DEF Follows

LEMMA PlansWhole ==
  ASSUME Typed, Own PROVE PlanWhole
<1>1. \A p \in DOMAIN plans : DOMAIN plans[p] = 1..Topics
  <2>1. \A p \in DOMAIN plans : plans[p] \in Plan
    <3> HIDE DEF Plan
    <3> QED BY DataOf
  <2> QED BY <2>1 DEF Plan
<1> HIDE DEF Sessions, Session
<1> QED BY <1>1 DEF PlanWhole, Own, TaskAt

LEMMA TasksFollow ==
  ASSUME Typed, Follows PROVE TaskFollowsSession
<1> SUFFICES ASSUME NEW s \in Sessions, Calm, \A c \in Running : call[c].session # s
             PROVE  /\ tasks[TaskAt(s)].due = Start(s)
                    /\ tasks[TaskAt(s)].done <=> s \in completed
  BY DEF TaskFollowsSession, Calm, TaskAt, Start
<1>1. \A c \in Call : Moving(c) \/ Marked(c) => c \in Running
  BY SessionNamed DEF Running, SessionCalls
<1>2. \A c \in Call : Moving(c) \/ Marked(c) => call[c].session # s
  BY <1>1
<1> HIDE DEF Moving, Marked
<1> QED BY <1>2 DEF Follows, DueFollows, DoneFollows

\* Plans are committed whole, each session with a task of its own; the tasks
\* nobody links were left by a trouble; and while nothing overlaps or goes wrong
\* a session's task is due when it starts and done when it was completed.
THEOREM PlansSoundHolds == Spec => []PlansSound
<1>1. Init => Typed /\ Own /\ FewAdrift /\ Follows
  BY TypedInit, OwnInit, FewInit, FollowsInit
<1>2. Typed /\ Own /\ FewAdrift /\ Follows /\ [Next]_vars =>
        (Typed /\ Own /\ FewAdrift /\ Follows)'
  BY TypedStep, OwnStep, FewStep, FollowsStep
<1>3. Typed /\ Own /\ FewAdrift /\ Follows => PlansSound
  BY PlansWhole, OrphansFew, TasksFollow DEF PlansSound
<1> QED BY <1>1, <1>2, <1>3, PTL DEF Spec

-----------------------------------------------------------------------------
(* Mastery: what was worked for, less what may still be added for it.      *)

\* The sessions of a topic completed or being completed, and the completions
\* that have yet to add their step.
Worked(t) == {s \in completed : s[2] = t} \cup {call[c].session : c \in Completing(t)}
Adding(t) == {c \in Completing(t) : call[c].at # "completeSession"}

LessOne(S) == IF S = {} THEN 0 ELSE Cardinality(S) - 1

\* A crash ends every completion at once: what they added without completing a
\* session is paid by all of them but one, and by the trouble.
Worth(t) == Cardinality(Worked(t)) - Cardinality(Adding(t)) - LessOne(Completing(t))

\* The answered quizzes, the answers that may finish one or have, and those that
\* count from what their row says.
Finished == {q \in DOMAIN quizzes : quizzes[q].index = TotalQuestions}
Pending == {c \in Call : /\ call[c].op = "submitAnswer"
                         /\ call[c].at \in {"getQuiz", "writeAnswer"} \/ call[c].delta = 2}
Clean == {c \in Writers \cup Askers : Base(c) = quizzes[call[c].quiz].index}

One(S) == IF S = {} THEN 0 ELSE 1

\* One answer under way that counts from its row will finish it for its steps;
\* of the others each was begun during another.
Answered == Cardinality(Finished) - Cardinality(Pending) + One(Clean)

Extra == repeats + 2 * (overlaps + trouble)
Slack(t) == Worth(t) + (IF t = 1 THEN 2 * Answered ELSE 0) + Extra

LevelPaid ==
  \A t \in 1..Topics :
    /\ level[t] <= Slack(t)
    /\ \A c \in Call : call[c].at = "setMastery" /\ call[c].topic = t => call[c].base <= Slack(t)

LEMMA WorthSets ==
  ASSUME Typed, NEW t \in 1..Topics
  PROVE  /\ IsFiniteSet(Worked(t)) /\ IsFiniteSet(Adding(t)) /\ IsFiniteSet(Completing(t))
         /\ Cardinality(Worked(t)) \in Nat /\ Cardinality(Adding(t)) \in Nat
         /\ Cardinality(Completing(t)) \in Nat /\ LessOne(Completing(t)) \in Nat
         /\ Worth(t) \in Int
         /\ Completing(t) = {c \in Call : call[c].op = "completeStudySession" /\ call[c].topic = t}
<1>1. IsFiniteSet(Completing(t)) /\ IsFiniteSet(Adding(t))
  <2>1. Completing(t) \in SUBSET Call /\ Adding(t) \in SUBSET Call
    BY DEF Completing, Adding, Running
  <2> QED BY <2>1, StudyAssumption, FS_Subset
<1>2. IsFiniteSet(Worked(t))
  <2>1. Completing(t) \subseteq Call /\ \A c \in Completing(t) : call[c].op \in SessionCalls
    BY DEF Completing, Running, SessionCalls
  <2>2. Worked(t) \in SUBSET Sessions
    <3>1. \A c \in Completing(t) : call[c].session \in Sessions
      BY <2>1, SessionNamed
    <3>2. completed \subseteq Sessions
      BY DEF Typed, Data
    <3> HIDE DEF Completing, Sessions
    <3> QED BY <3>1, <3>2 DEF Worked
  <2>3. IsFiniteSet(Sessions)
    <3>1. Sessions = (1..Len(plans)) \X (1..Topics) /\ Len(plans) \in Int /\ Topics \in Int /\ 1 \in Int
      BY SessionsAre, DataOf, StudyAssumption
    <3>2. IsFiniteSet(1..Len(plans)) /\ IsFiniteSet(1..Topics)
      BY <3>1, FS_Interval, Zenon
    <3> QED BY <3>1, <3>2, FS_Product
  <2> QED BY <2>2, <2>3, FS_Subset
<1>3. /\ Cardinality(Worked(t)) \in Nat /\ Cardinality(Adding(t)) \in Nat
      /\ Cardinality(Completing(t)) \in Nat
  BY <1>1, <1>2, FS_CardinalityType
<1>4. LessOne(Completing(t)) \in Nat
  <2> HIDE DEF Completing
  <2>1. Completing(t) # {} => Cardinality(Completing(t)) # 0
    BY <1>1, FS_EmptySet
  <2> QED BY <1>3, <2>1 DEF LessOne
<1>5. Completing(t) = {c \in Call : call[c].op = "completeStudySession" /\ call[c].topic = t}
  BY DEF Completing, Running
<1> HIDE DEF Worked, Adding, Completing, LessOne
<1> QED BY <1>1, <1>2, <1>3, <1>4, <1>5 DEF Worth

LEMMA AnsweredSets ==
  ASSUME Typed
  PROVE  /\ IsFiniteSet(Finished) /\ IsFiniteSet(Pending)
         /\ Cardinality(Finished) \in Nat /\ Cardinality(Pending) \in Nat
         /\ One(Clean) \in {0, 1} /\ Answered \in Int /\ Extra \in Nat
         /\ Clean \subseteq Pending
<1>1. IsFiniteSet(Finished) /\ IsFiniteSet(Pending)
  <2>1. Finished \in SUBSET DOMAIN quizzes /\ Pending \in SUBSET Call
    BY DEF Finished, Pending
  <2> QED BY <2>1, QuizSets, StudyAssumption, FS_Subset
<1>2. Cardinality(Finished) \in Nat /\ Cardinality(Pending) \in Nat
  BY <1>1, FS_CardinalityType
<1>3. One(Clean) \in {0, 1}
  BY DEF One
<1>4. Extra \in Nat
  BY DEF Extra, Typed, Counts
<1>5. Clean \subseteq Pending
  <2> SUFFICES ASSUME NEW c \in Clean PROVE c \in Pending
    OBVIOUS
  <2>1. c \in Call /\ call[c].at \in {"getQuiz", "writeAnswer"} /\ Staged(call[c].op, call[c].at)
    BY RowAt DEF Clean, Writers, Askers, Typed
  <2>2. call[c].op = "submitAnswer"
    BY <2>1 DEF Staged
  <2> QED BY <2>1, <2>2 DEF Pending
<1> HIDE DEF Finished, Pending, Clean, One
<1> QED BY <1>1, <1>2, <1>3, <1>4, <1>5 DEF Answered

\* The same of the next state.
LEMMA WorthNext ==
  Typed' => \A t \in 1..Topics : /\ IsFiniteSet(Worked(t)') /\ Cardinality(Worked(t)') \in Nat
                                 /\ Cardinality(Adding(t)') \in Nat
<1> DEFINE P == \A t \in 1..Topics : /\ IsFiniteSet(Worked(t)) /\ Cardinality(Worked(t)) \in Nat
                                     /\ Cardinality(Adding(t)) \in Nat
<1>1. Typed => P
  BY WorthSets
<1> HIDE DEF P
<1>2. Typed' => P'
  BY <1>1, PTL
<1> QED BY <1>2 DEF P

LEMMA AnsweredNext ==
  Typed' => /\ IsFiniteSet(Finished') /\ Cardinality(Finished') \in Nat /\ Extra' \in Nat
            /\ Cardinality(Pending') \in Nat /\ One(Clean') \in {0, 1}
<1> DEFINE P == /\ IsFiniteSet(Finished) /\ Cardinality(Finished) \in Nat /\ Extra \in Nat
                /\ Cardinality(Pending) \in Nat /\ One(Clean) \in {0, 1}
<1>1. Typed => P
  BY AnsweredSets
<1> HIDE DEF P
<1>2. Typed' => P'
  BY <1>1, PTL
<1> QED BY <1>2 DEF P, One

LEMMA LessOneFewer ==
  ASSUME NEW T, IsFiniteSet(T), NEW S \in SUBSET T
  PROVE  LessOne(S) <= LessOne(T) /\ LessOne(S) \in Nat /\ LessOne(T) \in Nat
<1>1. /\ IsFiniteSet(S) /\ Cardinality(S) \in Nat /\ Cardinality(T) \in Nat
      /\ Cardinality(S) <= Cardinality(T)
  BY Fewer
<1>2. (S # {} => Cardinality(S) # 0) /\ (T # {} => Cardinality(T) # 0)
  BY <1>1, FS_EmptySet
<1> QED BY <1>1, <1>2 DEF LessOne

LEMMA WorthFrom ==
  ASSUME Typed, Typed', NEW t \in 1..Topics, Completing(t)' \subseteq Completing(t)
  PROVE  /\ Worked(t) \subseteq Worked(t)' /\ Adding(t)' \subseteq Adding(t) => Worth(t)' >= Worth(t)
         /\ \A c \in Adding(t) :
              Worked(t) \subseteq Worked(t)' /\ Adding(t)' \subseteq Adding(t) \ {c} =>
                Worth(t)' >= Worth(t) + 1
         /\ \A s : Worked(t) \subseteq Worked(t)' \cup {s} /\ Adding(t)' \subseteq Adding(t) =>
                     Worth(t)' >= Worth(t) - 1
         /\ \A c : Worked(t) \subseteq Worked(t)' /\ Adding(t)' \subseteq Adding(t) \cup {c} =>
                     Worth(t)' >= Worth(t) - 1
<1> DEFINE w == Cardinality(Worked(t))
           a == Cardinality(Adding(t))
           l == LessOne(Completing(t))
<1>1. /\ IsFiniteSet(Worked(t)) /\ IsFiniteSet(Adding(t)) /\ IsFiniteSet(Completing(t))
      /\ IsFiniteSet(Worked(t)') /\ IsFiniteSet(Adding(t)') /\ w \in Nat /\ a \in Nat
      /\ Cardinality(Worked(t)') \in Nat /\ Cardinality(Adding(t)') \in Nat
  <2> HIDE DEF Worked, Adding, Completing
  <2>1. IsFiniteSet(Adding(t)) /\ Completing(t)' \subseteq Completing(t)
    BY WorthSets
  <2>2. IsFiniteSet(Completing(t)')
    BY WorthSets, Fewer
  <2>3. IsFiniteSet(Adding(t)')
    <3>1. Adding(t)' \subseteq Completing(t)'
      BY DEF Adding
    <3> QED BY <2>2, <3>1, Fewer
  <2> QED BY <2>3, WorthSets, WorthNext
<1>2. LessOne(Completing(t)') <= l /\ l \in Nat /\ LessOne(Completing(t)') \in Nat
  BY <1>1, LessOneFewer
<1>3. Worth(t) = w - a - l
  BY DEF Worth
<1>4. Worth(t)' = Cardinality(Worked(t)') - Cardinality(Adding(t)') - LessOne(Completing(t)')
  BY DEF Worth, LessOne
<1> HIDE DEF Worked, Adding, Completing, LessOne, Worth
<1>5. Worked(t) \subseteq Worked(t)' => w <= Cardinality(Worked(t)')
  BY <1>1, Fewer
<1>6. \A s : Worked(t) \subseteq Worked(t)' \cup {s} => w <= Cardinality(Worked(t)') + 1
  BY <1>1, WithOne
<1>7. Adding(t)' \subseteq Adding(t) => Cardinality(Adding(t)') <= a
  BY <1>1, Fewer
<1>8. \A c : Adding(t)' \subseteq Adding(t) \cup {c} => Cardinality(Adding(t)') <= a + 1
  BY <1>1, WithOne
<1>9. \A c \in Adding(t) : Adding(t)' \subseteq Adding(t) \ {c} => Cardinality(Adding(t)') <= a - 1
  <2> SUFFICES ASSUME NEW c \in Adding(t), Adding(t)' \subseteq Adding(t) \ {c}
               PROVE  Cardinality(Adding(t)') <= a - 1
    OBVIOUS
  <2>1. /\ IsFiniteSet(Adding(t) \ {c}) /\ Cardinality(Adding(t) \ {c}) = a - 1
        /\ Cardinality(Adding(t) \ {c}) \in Nat
    BY <1>1, OneLess
  <2>2. Cardinality(Adding(t)') <= Cardinality(Adding(t) \ {c})
    BY <2>1, Fewer
  <2> QED BY <1>1, <2>1, <2>2
<1> HIDE DEF w, a, l
<1> QED BY <1>1, <1>2, <1>3, <1>4, <1>5, <1>6, <1>7, <1>8, <1>9

LEMMA AnsweredFrom ==
  ASSUME Typed, Typed', Pending' \subseteq Pending, Finished \subseteq Finished'
  PROVE  /\ Answered' >= Answered - 1
         /\ Clean \subseteq Clean' => Answered' >= Answered
         /\ \A c \in Pending : Pending' \subseteq Pending \ {c} => Answered' >= Answered
         /\ \A c \in Pending : Pending' \subseteq Pending \ {c} /\ Clean \subseteq Clean' =>
              Answered' >= Answered + 1
<1> DEFINE f == Cardinality(Finished)
           p == Cardinality(Pending)
           k == One(Clean)
<1>1. /\ IsFiniteSet(Finished) /\ IsFiniteSet(Pending) /\ IsFiniteSet(Finished')
      /\ f \in Nat /\ p \in Nat /\ k \in {0, 1} /\ One(Clean') \in {0, 1}
      /\ Cardinality(Finished') \in Nat /\ Cardinality(Pending') \in Nat
  BY AnsweredSets, AnsweredNext
<1>2. Answered = f - p + k /\ Answered' = Cardinality(Finished') - Cardinality(Pending') + One(Clean')
  BY DEF Answered, One
<1>3. Clean \subseteq Clean' => One(Clean') >= k
  BY DEF One
<1> HIDE DEF Finished, Pending, Clean, One, Answered
<1>4. f <= Cardinality(Finished') /\ Cardinality(Pending') <= p
  BY <1>1, Fewer
<1>5. \A c \in Pending : Pending' \subseteq Pending \ {c} => Cardinality(Pending') <= p - 1
  <2> SUFFICES ASSUME NEW c \in Pending, Pending' \subseteq Pending \ {c}
               PROVE  Cardinality(Pending') <= p - 1
    OBVIOUS
  <2>1. /\ IsFiniteSet(Pending \ {c}) /\ Cardinality(Pending \ {c}) = p - 1
        /\ Cardinality(Pending \ {c}) \in Nat
    BY <1>1, OneLess
  <2>2. Cardinality(Pending') <= Cardinality(Pending \ {c})
    BY <2>1, Fewer
  <2> QED BY <1>1, <2>1, <2>2
<1> HIDE DEF f, p, k
<1> QED BY <1>1, <1>2, <1>3, <1>4, <1>5

\* What a step of another kind leaves of the completions: all.
LEMMA WorthSame ==
  ASSUME NEW c \in Call, Alone(c), completed' = completed,
         call[c].op # "completeStudySession", call'[c].op # "completeStudySession"
  PROVE  \A t \in 1..Topics : Worth(t)' = Worth(t)
<1> SUFFICES ASSUME NEW t \in 1..Topics PROVE Worth(t)' = Worth(t)
  OBVIOUS
<1>1. \A d \in Call : d = c \/ call'[d] = call[d]
  BY DEF Alone
<1>2. Completing(t)' = Completing(t) /\ \A d \in Completing(t) : call'[d] = call[d]
  BY <1>1 DEF Completing, Running
<1>3. Worked(t)' = Worked(t) /\ Adding(t)' = Adding(t)
  <2> HIDE DEF Completing
  <2> QED BY <1>2 DEF Worked, Adding
<1> QED BY <1>2, <1>3 DEF Worth, LessOne

\* A completion that goes on, here or thrown back.
LEMMA CompletionGoes ==
  ASSUME NEW c \in Call, Alone(c), call[c].op = "completeStudySession",
         call'[c].op = call[c].op, call'[c].topic = call[c].topic,
         call'[c].session = call[c].session, completed \subseteq completed'
  PROVE  \A t \in 1..Topics :
           /\ Completing(t)' = Completing(t) /\ Worked(t) \subseteq Worked(t)'
           /\ Adding(t)' \subseteq Adding(t) \cup {c}
           /\ \/ call'[c].at = "completeSession"
              \/ call[c].at # "completeSession" => Adding(t)' \subseteq Adding(t)
           /\ call'[c].at = "completeSession" => Adding(t)' \subseteq Adding(t) \ {c}
<1> SUFFICES ASSUME NEW t \in 1..Topics
             PROVE  /\ Completing(t)' = Completing(t) /\ Worked(t) \subseteq Worked(t)'
                    /\ Adding(t)' \subseteq Adding(t) \cup {c}
                    /\ \/ call'[c].at = "completeSession"
                       \/ call[c].at # "completeSession" => Adding(t)' \subseteq Adding(t)
                    /\ call'[c].at = "completeSession" => Adding(t)' \subseteq Adding(t) \ {c}
  OBVIOUS
<1>1. \A d \in Call : d = c \/ call'[d] = call[d]
  BY DEF Alone
<1>2. Completing(t)' = Completing(t)
  BY <1>1 DEF Completing, Running
<1>3. \A d \in Completing(t) : call'[d].session = call[d].session
  BY <1>1 DEF Completing, Running
<1>4. Worked(t) \subseteq Worked(t)'
  <2> HIDE DEF Completing
  <2> QED BY <1>2, <1>3 DEF Worked
<1>5. /\ Adding(t)' \subseteq Adding(t) \cup {c}
      /\ \/ call'[c].at = "completeSession"
         \/ call[c].at # "completeSession" => Adding(t)' \subseteq Adding(t)
      /\ call'[c].at = "completeSession" => Adding(t)' \subseteq Adding(t) \ {c}
  <2>1. Completing(t) \subseteq Call
    BY DEF Completing, Running
  <2> HIDE DEF Completing
  <2> QED BY <1>1, <1>2, <2>1 DEF Adding
<1> QED BY <1>2, <1>4, <1>5

\* A completion that is over.
LEMMA CompletionOver ==
  ASSUME NEW c \in Call, Alone(c), call[c].op = "completeStudySession", call'[c] = Idle,
         completed \subseteq completed'
  PROVE  \A t \in 1..Topics :
           /\ Completing(t)' \subseteq Completing(t) /\ Adding(t)' \subseteq Adding(t)
           /\ Worked(t) \subseteq Worked(t)' \cup {call[c].session}
           /\ call[c].session \in completed' /\ call[c].topic = call[c].session[2] =>
                Worked(t) \subseteq Worked(t)'
<1> SUFFICES ASSUME NEW t \in 1..Topics
             PROVE  /\ Completing(t)' \subseteq Completing(t) /\ Adding(t)' \subseteq Adding(t)
                    /\ Worked(t) \subseteq Worked(t)' \cup {call[c].session}
                    /\ call[c].session \in completed' /\ call[c].topic = call[c].session[2] =>
                         Worked(t) \subseteq Worked(t)'
  OBVIOUS
<1>1. /\ \A d \in Call : d = c \/ call'[d] = call[d]
      /\ call'[c].op = "none"
  BY IdleRow DEF Alone
<1>2. /\ Completing(t)' = Completing(t) \ {c} /\ Completing(t) \subseteq Call
      /\ c \in Completing(t) => call[c].topic = t
  BY <1>1 DEF Completing, Running
<1> HIDE DEF Completing
<1>3. Adding(t)' \subseteq Adding(t)
  BY <1>1, <1>2 DEF Adding
<1>4. \A x \in Worked(t) : x \in Worked(t)' \/ (c \in Completing(t) /\ x = call[c].session)
  BY <1>1, <1>2 DEF Worked
<1>5. ASSUME call[c].session \in completed', call[c].topic = call[c].session[2], c \in Completing(t)
      PROVE  call[c].session \in Worked(t)'
  BY <1>2, <1>5 DEF Worked
<1> HIDE DEF Worked
<1> QED BY <1>2, <1>3, <1>4, <1>5

LEMMA WorthFalls ==
  ASSUME Typed, Typed', NEW c \in Call, Alone(c), Threw(call'[c], call[c]),
         call[c].op = "completeStudySession", completed \subseteq completed'
  PROVE  \A t \in 1..Topics : Worth(t)' >= Worth(t) - 1
<1>1. CASE call'[c] = Idle
  BY <1>1, CompletionOver, WorthFrom
<1>2. CASE Same(call'[c], call[c], {"at", "held", "again"})
  <2>1. /\ call'[c].op = call[c].op /\ call'[c].topic = call[c].topic
        /\ call'[c].session = call[c].session
    BY <1>2 DEF Same
  <2>2. \A t \in 1..Topics : /\ Completing(t)' = Completing(t) /\ Worked(t) \subseteq Worked(t)'
                             /\ Adding(t)' \subseteq Adding(t) \cup {c}
    BY <2>1, CompletionGoes
  <2> HIDE DEF Completing, Worked, Adding, Worth
  <2> QED BY <2>2, WorthFrom
<1> QED BY <1>1, <1>2 DEF Threw

\* A completion that goes on without a fall has no more to add, and one step
\* less once it has written the level.
LEMMA WorthGoes ==
  ASSUME Typed, Typed', NEW c \in Call, Alone(c), call[c].op = "completeStudySession",
         call'[c].op = call[c].op, call'[c].topic = call[c].topic,
         call'[c].session = call[c].session, completed' = completed,
         call[c].at # "completeSession" \/ call'[c].at = "completeSession"
  PROVE  /\ \A t \in 1..Topics : Worth(t)' >= Worth(t)
         /\ call[c].at = "setMastery" /\ call'[c].at = "completeSession" =>
              \A t \in 1..Topics : t = call[c].topic => Worth(t)' >= Worth(t) + 1
<1>1. \A t \in 1..Topics :
        /\ Completing(t)' = Completing(t) /\ Worked(t) \subseteq Worked(t)'
        /\ Adding(t)' \subseteq Adding(t)
        /\ call'[c].at = "completeSession" => Adding(t)' \subseteq Adding(t) \ {c}
  BY CompletionGoes
<1>2. call[c].at = "setMastery" => \A t \in 1..Topics : t = call[c].topic => c \in Adding(t)
  BY DEF Adding, Completing, Running
<1> HIDE DEF Completing, Worked, Adding, Worth
<1> QED BY <1>1, <1>2, WorthFrom

LEMMA WorthCompleted ==
  ASSUME Typed, Typed', NEW c \in Call, CompleteSession(c), Ends(c)
  PROVE  \A t \in 1..Topics : Worth(t)' >= Worth(t)
<1>1. /\ call[c].op = "completeStudySession" /\ Alone(c) /\ call'[c] = Idle
      /\ completed' = completed \cup {call[c].session}
      /\ call[c].topic = call[c].session[2]
  <2>1. completed' = completed \cup {call[c].session}
    BY SessionCompleted
  <2>2. call[c].op = "completeStudySession"
    BY CompleteSessionDoes
  <2> QED BY <2>1, <2>2, RowAt DEF Ends, RowOK, Typed
<1>2. \A t \in 1..Topics : /\ Completing(t)' \subseteq Completing(t)
                           /\ Adding(t)' \subseteq Adding(t) /\ Worked(t) \subseteq Worked(t)'
  BY <1>1, CompletionOver
<1> HIDE DEF Completing, Worked, Adding, Worth
<1> QED BY <1>2, WorthFrom

LEMMA SlackNext ==
  Typed' => /\ \A t \in 1..Topics : Worth(t)' \in Int
            /\ Answered' \in Int /\ Extra' \in Nat
<1> DEFINE P == (\A t \in 1..Topics : Worth(t) \in Int) /\ Answered \in Int /\ Extra \in Nat
<1>1. Typed => P
  BY WorthSets, AnsweredSets
<1> HIDE DEF P
<1>2. Typed' => P'
  BY <1>1, PTL
<1> QED BY <1>2 DEF P

\* A completion that begins has one step to add, which its session will pay:
\* unless the session was completed before, or a completion of the topic is
\* under way.
LEMMA WorthBegin ==
  ASSUME Typed, Typed', NEW c \in Call, BeginCompletion(c),
         Begun(c, "completeStudySession", "readSession"), call'[c].topic = call'[c].session[2],
         completed' = completed
  PROVE  \A t \in 1..Topics : Worth(t)' + Extra' >= Worth(t) + Extra
<1> SUFFICES ASSUME NEW t \in 1..Topics PROVE Worth(t)' + Extra' >= Worth(t) + Extra
  OBVIOUS
<1>1. /\ \A d \in Call : d = c \/ call'[d] = call[d]
      /\ call[c].op = "none" /\ call'[c].op = "completeStudySession" /\ call'[c].at = "readSession"
      /\ trouble' = trouble
  BY DEF Begun, Alone
<1>2. PICK s : s = call'[c].session
  OBVIOUS
<1>3. /\ overlaps' = overlaps + Cardinality({d \in Running : call[d].op \in SessionCalls})
      /\ repeats' = IF \/ s \in completed
                       \/ \E d \in Running : /\ call[d].op = "completeStudySession"
                                             /\ call[d].session = s
                    THEN repeats + 1 ELSE repeats
  <2>1. PICK r \in Sessions :
          /\ Calling(c, [Idle EXCEPT !.op = "completeStudySession", !.at = "readSession",
                                     !.session = r, !.topic = r[2],
                                     !.delta = SessionDelta], SessionCalls)
          /\ repeats' = IF \/ r \in completed
                           \/ \E d \in Running : /\ call[d].op = "completeStudySession"
                                                 /\ call[d].session = r
                        THEN repeats + 1 ELSE repeats
    BY DEF BeginCompletion
  <2>2. call'[c].session = r
    <3>1. call \in [Call -> CallRow]
      BY DEF Typed, Placed
    <3> QED BY <2>1, <3>1 DEF Calling, Idle
  <2> QED BY <1>2, <2>1, <2>2 DEF Calling
<1>4. /\ Cardinality({d \in Running : call[d].op \in SessionCalls}) \in Nat
      /\ \A d \in Running : call[d].op \in SessionCalls =>
           Cardinality({e \in Running : call[e].op \in SessionCalls}) >= 1
  <2>1. {d \in Running : call[d].op \in SessionCalls} \in SUBSET Call
    BY DEF Running
  <2>2. /\ IsFiniteSet({d \in Running : call[d].op \in SessionCalls})
        /\ Cardinality({d \in Running : call[d].op \in SessionCalls}) \in Nat
    BY <2>1, StudyAssumption, FS_Subset, FS_CardinalityType
  <2>3. \A d \in {e \in Running : call[e].op \in SessionCalls} :
          Cardinality({e \in Running : call[e].op \in SessionCalls}) >= 1
    BY <2>2, OneLess
  <2> QED BY <2>2, <2>3
<1>5. /\ overlaps \in Nat /\ repeats \in Nat /\ trouble \in Nat /\ overlaps' \in Nat /\ repeats' \in Nat
      /\ overlaps' >= overlaps /\ repeats' >= repeats
  BY <1>3, <1>4 DEF Typed, Counts
<1>6. Extra' = repeats' + 2 * (overlaps' + trouble) /\ Extra = repeats + 2 * (overlaps + trouble)
  BY <1>1 DEF Extra
<1>7. Worth(t) \in Int /\ Worth(t)' \in Int
  BY WorthSets, SlackNext
<1>8. CASE call'[c].topic # t
  <2>1. Completing(t)' = Completing(t) /\ \A d \in Completing(t) : call'[d] = call[d]
    BY <1>1, <1>8 DEF Completing, Running
  <2>2. Worked(t)' = Worked(t) /\ Adding(t)' = Adding(t)
    <3> HIDE DEF Completing
    <3> QED BY <2>1 DEF Worked, Adding
  <2>3. Worth(t)' = Worth(t)
    BY <2>1, <2>2 DEF Worth, LessOne
  <2> QED BY <1>5, <1>6, <1>7, <2>3
<1>9. CASE call'[c].topic = t
  <2>1. /\ Completing(t)' = Completing(t) \cup {c} /\ c \notin Completing(t)
        /\ \A d \in Completing(t) : call'[d] = call[d]
    BY <1>1, <1>9 DEF Completing, Running
  <2>2. Worked(t)' = Worked(t) \cup {s} /\ Adding(t)' = Adding(t) \cup {c} /\ c \notin Adding(t)
    <3> HIDE DEF Completing
    <3> QED BY <1>1, <1>2, <2>1 DEF Worked, Adding
  <2>3. PICK w, a, l : w = Cardinality(Worked(t)) /\ a = Cardinality(Adding(t)) /\ l = LessOne(Completing(t))
    OBVIOUS
  <2>4. /\ IsFiniteSet(Worked(t)) /\ IsFiniteSet(Adding(t)) /\ IsFiniteSet(Completing(t))
        /\ w \in Nat /\ a \in Nat /\ l \in Nat /\ Cardinality(Completing(t)) \in Nat
    BY <2>3, WorthSets
  <2>5. Worth(t) = w - a - l
    BY <2>3 DEF Worth
  <2>6. Worth(t)' = Cardinality(Worked(t)') - Cardinality(Adding(t)') - LessOne(Completing(t)')
    BY DEF Worth, LessOne
  <2>7. Completing(t) # {} =>
          Cardinality({d \in Running : call[d].op \in SessionCalls}) >= 1
    BY <1>4 DEF Completing, SessionCalls
  <2>8. Completing(t) = {} /\ s \in Worked(t) => s \in completed
    BY DEF Worked
  <2> HIDE DEF Worked, Adding, Completing, Worth
  <2>9. Cardinality(Adding(t)') = a + 1
    BY <2>2, <2>3, <2>4, OneMore
  <2>10. /\ Cardinality(Worked(t)') \in Nat
         /\ s \notin Worked(t) => Cardinality(Worked(t)') = w + 1
         /\ s \in Worked(t) => Cardinality(Worked(t)') = w
    <3>1. s \in Worked(t) => Worked(t)' = Worked(t)
      BY <2>2
    <3> QED BY <2>2, <2>3, <2>4, <3>1, OneMore
  <2>11. /\ Completing(t) = {} => LessOne(Completing(t)') = 0 /\ l = 0
         /\ Completing(t) # {} => LessOne(Completing(t)') = l + 1
    <3>1. Cardinality(Completing(t) \cup {c}) = Cardinality(Completing(t)) + 1
      BY <2>1, <2>4, OneMore
    <3>2. Cardinality({}) = 0
      BY FS_EmptySet
    <3>3. LessOne(Completing(t)') = IF Completing(t)' = {} THEN 0 ELSE Cardinality(Completing(t)') - 1
      BY DEF LessOne
    <3>4. Completing(t)' # {} /\ Cardinality(Completing(t)') = Cardinality(Completing(t)) + 1
      BY <2>1, <3>1
    <3>5. LessOne(Completing(t)') = Cardinality(Completing(t))
      BY <2>4, <3>3, <3>4
    <3>6. l = IF Completing(t) = {} THEN 0 ELSE Cardinality(Completing(t)) - 1
      BY <2>3 DEF LessOne
    <3>7. CASE Completing(t) = {}
      <4>1. Cardinality(Completing(t)) = 0
        BY <3>2, <3>7
      <4> QED BY <3>5, <3>6, <3>7, <4>1
    <3>8. CASE Completing(t) # {}
      <4>1. l = Cardinality(Completing(t)) - 1
        BY <3>6, <3>8
      <4> QED BY <2>4, <3>5, <3>8, <4>1
    <3> QED BY <3>7, <3>8
  <2>12. CASE Completing(t) = {}
    <3>1. s \in Worked(t) => repeats' = repeats + 1
      BY <1>3, <2>8, <2>12
    <3>2. Worth(t)' = Cardinality(Worked(t)') - (a + 1)
      BY <2>6, <2>9, <2>10, <2>11, <2>12, <2>4
    <3> QED BY <1>5, <1>6, <1>1, <2>4, <2>5, <2>10, <2>11, <2>12, <3>1, <3>2
  <2>13. CASE Completing(t) # {}
    <3>1. overlaps' >= overlaps + 1
      BY <1>3, <1>4, <1>5, <2>7, <2>13
    <3>2. Worth(t)' = Cardinality(Worked(t)') - (a + 1) - (l + 1)
      BY <2>6, <2>9, <2>11, <2>13
    <3>3. Cardinality(Worked(t)') \in Nat /\ Cardinality(Worked(t)') >= w
      BY <2>4, <2>10
    <3> QED BY <1>5, <1>6, <2>4, <2>5, <3>1, <3>2, <3>3
  <2> QED BY <2>12, <2>13
<1> QED BY <1>8, <1>9

\* Calls that answer nothing leave the answers as they are.
LEMMA AnsweredSame ==
  ASSUME Typed, NEW c \in Call, Alone(c), quizzes' = quizzes, Typed',
         call[c].op # "submitAnswer", call'[c].op # "submitAnswer"
  PROVE  Answered' = Answered
<1>1. /\ \A d \in Call : d = c \/ call'[d] = call[d]
      /\ call[c].at \notin {"getQuiz", "writeAnswer"} /\ call'[c].at \notin {"getQuiz", "writeAnswer"}
  <2>1. Staged(call[c].op, call[c].at) /\ Staged(call'[c].op, call'[c].at)
    BY RowAt DEF Typed, Placed, RowOK
  <2> QED BY <2>1 DEF Alone, Staged
<1>2. Pending' = Pending
  BY <1>1 DEF Pending
<1>3. Clean' = Clean
  BY <1>1 DEF Clean, Writers, Askers, Base
<1> QED BY <1>2, <1>3 DEF Answered, Finished, One

LEMMA InsertQuizAnswered ==
  ASSUME Typed, Typed', NEW c \in Call, InsertQuiz(c) PROVE Answered' >= Answered
<1>1. /\ call[c].at = "insertQuiz" /\ call[c].op = "generateQuiz" /\ (Ends(c) \/ Falls(c))
  BY InsertQuizDoes
<1>2. Alone(c) /\ call'[c].op # "submitAnswer"
  BY <1>1, IdleRow DEF Ends, Falls, Threw, Same
<1>3. /\ \A d \in Call : d = c \/ call'[d] = call[d]
      /\ call[c].at \notin {"getQuiz", "writeAnswer"} /\ call'[c].at \notin {"getQuiz", "writeAnswer"}
  <2>1. Staged(call'[c].op, call'[c].at)
    BY DEF Typed, Placed, RowOK
  <2> QED BY <1>1, <1>2, <2>1 DEF Alone, Staged
<1>4. Pending' \subseteq Pending
  BY <1>1, <1>2, <1>3 DEF Pending
<1>5. /\ DOMAIN quizzes \subseteq DOMAIN quizzes'
      /\ \A q \in DOMAIN quizzes : quizzes'[q].index = quizzes[q].index
  BY RowsInserted
<1>6. Finished \subseteq Finished'
  BY <1>5 DEF Finished
<1>7. Clean \subseteq Clean'
  <2> SUFFICES ASSUME NEW d \in Clean PROVE d \in Clean'
    OBVIOUS
  <2>1. d \in Call /\ call[d].at \in {"getQuiz", "writeAnswer"} /\ call'[d] = call[d]
    BY <1>1, <1>3 DEF Clean, Writers, Askers
  <2>2. call[d].quiz \in DOMAIN quizzes
    <3>1. d \in Pending
      BY AnsweredSets
    <3> QED BY <2>1, <3>1, NamedBefore DEF Pending
  <2>3. Base(d) = quizzes[call[d].quiz].index
    BY DEF Clean
  <2> QED BY <1>5, <2>1, <2>2, <2>3 DEF Clean, Writers, Askers, Base
<1> HIDE DEF Pending, Finished, Clean, Answered
<1> QED BY <1>4, <1>6, <1>7, AnsweredFrom

LEMMA CrashAnswered ==
  ASSUME Typed, Typed', Crash PROVE Answered' >= Answered
<1>1. call' = [c \in Call |-> Idle] /\ quizzes' = quizzes
  BY DEF Crash, quizVars
<1>2. Finished' = Finished
  BY <1>1 DEF Finished
<1>3. Pending' = {} /\ Clean' = {}
  BY <1>1, IdleRow DEF Pending, Clean, Writers, Askers, Idle
<1>4. Answered' = Cardinality(Finished)
  <2>1. Cardinality({}) = 0
    BY FS_EmptySet
  <2>2. Answered' = Cardinality(Finished') - Cardinality(Pending') + One(Clean')
    BY DEF Answered, One
  <2>3. One(Clean') = 0
    BY <1>3 DEF One
  <2>4. Cardinality(Finished) \in Nat
    BY AnsweredSets
  <2> HIDE DEF Finished, Pending, Clean, One
  <2> QED BY <1>2, <1>3, <2>1, <2>2, <2>3, <2>4
<1>5. Cardinality(Pending) >= One(Clean)
  <2>1. IsFiniteSet(Pending) /\ Cardinality(Pending) \in Nat /\ Clean \subseteq Pending
    BY AnsweredSets
  <2> HIDE DEF Pending, Clean
  <2>2. Pending # {} => Cardinality(Pending) # 0
    BY <2>1, FS_EmptySet
  <2> QED BY <2>1, <2>2 DEF One
<1>6. Answered = Cardinality(Finished) - Cardinality(Pending) + One(Clean)
  BY DEF Answered
<1>7. Cardinality(Finished) \in Nat /\ Cardinality(Pending) \in Nat /\ One(Clean) \in {0, 1}
  BY AnsweredSets
<1> HIDE DEF Finished, Pending, Clean, One
<1> QED BY <1>4, <1>5, <1>6, <1>7

\* An answer that begins counts from its row; were there one already, it pays
\* for the overlap.
LEMMA SubmitAnswered ==
  ASSUME Typed, Typed', NEW c \in Call, Begun(c, "submitAnswer", "getQuiz"), quizzes' = quizzes,
         repeats' = repeats,
         overlaps' = overlaps + Cardinality({d \in Running : call[d].op \in QuizCalls})
  PROVE  2 * Answered' + Extra' >= 2 * Answered + Extra /\ Extra' >= Extra
<1>0. PICK n : n = Cardinality({d \in Running : call[d].op \in QuizCalls})
  OBVIOUS
<1>1. /\ \A d \in Call : d = c \/ call'[d] = call[d]
      /\ call[c].op = "none" /\ call[c].at = "idle"
      /\ call'[c].op = "submitAnswer" /\ call'[c].at = "getQuiz" /\ trouble' = trouble
  BY RowAt DEF Begun, Alone, Typed, Staged
<1>2. Finished' = Finished
  BY DEF Finished
<1>3. Pending' = Pending \cup {c} /\ c \notin Pending
  BY <1>1 DEF Pending
<1>4. c \in Clean' 
  BY <1>1 DEF Clean, Writers, Askers, Base
<1>5. n \in Nat /\ (Clean # {} => n >= 1)
  <2>1. /\ IsFiniteSet({d \in Running : call[d].op \in QuizCalls}) /\ n \in Nat
        /\ Writers \cup Askers \subseteq {d \in Running : call[d].op \in QuizCalls}
    BY <1>0, BusyCounted
  <2>2. \A d \in {e \in Running : call[e].op \in QuizCalls} : n >= 1
    BY <1>0, <2>1, OneLess
  <2> QED BY <2>1, <2>2 DEF Clean
<1>6. /\ Extra' = repeats + 2 * (overlaps + n + trouble) /\ Extra = repeats + 2 * (overlaps + trouble)
      /\ repeats \in Nat /\ overlaps \in Nat /\ trouble \in Nat
  BY <1>0, <1>1 DEF Extra, Typed, Counts
<1>7. /\ IsFiniteSet(Pending) /\ Cardinality(Finished) \in Nat /\ Cardinality(Pending) \in Nat
  BY AnsweredSets
<1>8. Answered = Cardinality(Finished) - Cardinality(Pending) + One(Clean)
  BY DEF Answered
<1>9. Answered' = Cardinality(Finished') - Cardinality(Pending') + One(Clean')
  BY DEF Answered, One
<1>10. One(Clean') = 1 /\ (Clean = {} => One(Clean) = 0) /\ (Clean # {} => One(Clean) = 1)
  BY <1>4 DEF One
<1> HIDE DEF Finished, Pending, Clean, One
<1>11. Cardinality(Pending') = Cardinality(Pending) + 1
  BY <1>3, <1>7, OneMore
<1> HIDE DEF Answered
<1>12. Answered' = Cardinality(Finished) - Cardinality(Pending)
  BY <1>2, <1>7, <1>9, <1>10, <1>11
<1>13. Answered' = Answered \/ (Answered' = Answered - 1 /\ n >= 1)
  BY <1>5, <1>7, <1>8, <1>10, <1>12
<1>14. Answered \in Int
  BY AnsweredSets
<1> QED BY <1>5, <1>6, <1>13, <1>14

LEMMA GetQuizAnswered ==
  ASSUME Typed, Typed', NEW c \in Call, GetQuiz(c) PROVE Answered' >= Answered
<1>1. /\ call[c].at = "getQuiz" /\ call[c].op = "submitAnswer"
      /\ \/ Ends(c)
         \/ /\ Leaves(c, "writeAnswer", LeftFields) /\ call'[c].copy = quizzes[call[c].quiz]
  BY GetQuizDoes
<1>2. quizzes' = quizzes /\ Finished' = Finished
  BY DEF GetQuiz, quizVars, Finished
<1>3. \A d \in Call : d = c \/ call'[d] = call[d]
  BY <1>1 DEF Ends, Leaves, Goes, Alone
<1>4. c \in Pending
  BY <1>1 DEF Pending
<1>5. CASE Ends(c)
  <2>1. call'[c].op = "none"
    BY <1>5, IdleRow DEF Ends
  <2>2. Pending' \subseteq Pending \ {c}
    BY <1>3, <2>1 DEF Pending
  <2> HIDE DEF Pending, Finished, Clean, Answered
  <2> QED BY <1>2, <1>4, <2>2, AnsweredFrom
<1>6. CASE Leaves(c, "writeAnswer", LeftFields) /\ call'[c].copy = quizzes[call[c].quiz]
  <2>1. call'[c].at = "writeAnswer" /\ call'[c].quiz = call[c].quiz
    BY <1>6 DEF Leaves, Goes, Same, LeftFields
  <2>2. Pending' \subseteq Pending
    BY <1>3, <1>4 DEF Pending
  <2>3. Clean \subseteq Clean'
    <3> SUFFICES ASSUME NEW d \in Clean PROVE d \in Clean'
      OBVIOUS
    <3>1. CASE d = c
      BY <1>2, <1>6, <2>1, <3>1 DEF Clean, Writers, Askers, Base
    <3>2. CASE d # c
      <4>1. call'[d] = call[d]
        BY <1>3, <3>2 DEF Clean, Writers, Askers
      <4> QED BY <1>2, <4>1 DEF Clean, Writers, Askers, Base
    <3> QED BY <3>1, <3>2
  <2> HIDE DEF Pending, Finished, Clean, Answered
  <2> QED BY <1>2, <2>2, <2>3, AnsweredFrom
<1> QED BY <1>1, <1>5, <1>6

\* What a step of an answer makes of the count, by what it does to the sets.
LEMMA Tally ==
  ASSUME Typed, Typed', Pending' \subseteq Pending
  PROVE  LET f == Cardinality(Finished)
             p == Cardinality(Pending)
             k == One(Clean)
             g == Cardinality(Finished')
             r == Cardinality(Pending')
             m == One(Clean')
         IN  /\ Answered = f - p + k /\ Answered' = g - r + m
             /\ f \in Nat /\ p \in Nat /\ g \in Nat /\ r \in Nat
             /\ k \in {0, 1} /\ m \in {0, 1} /\ r <= p
             /\ \A q : Finished \subseteq Finished' \cup {q} => g >= f - 1
             /\ Finished \subseteq Finished' => g >= f
             /\ \A q : q \notin Finished /\ Finished \cup {q} \subseteq Finished' => g >= f + 1
             /\ \A c \in Pending : Pending' \subseteq Pending \ {c} => r <= p - 1
             /\ Clean \subseteq Clean' => m >= k
<1> DEFINE f == Cardinality(Finished)
           p == Cardinality(Pending)
           k == One(Clean)
           g == Cardinality(Finished')
           r == Cardinality(Pending')
           m == One(Clean')
<1>1. /\ IsFiniteSet(Finished) /\ IsFiniteSet(Pending) /\ IsFiniteSet(Finished')
      /\ f \in Nat /\ p \in Nat /\ k \in {0, 1} /\ m \in {0, 1} /\ g \in Nat /\ r \in Nat
  BY AnsweredSets, AnsweredNext
<1>2. Answered = f - p + k /\ Answered' = g - r + m
  BY DEF Answered, One
<1>3. Clean \subseteq Clean' => m >= k
  BY DEF One
<1> HIDE DEF Finished, Pending, Clean, One, Answered
<1>4. r <= p
  BY <1>1, Fewer
<1>5. \A c \in Pending : Pending' \subseteq Pending \ {c} => r <= p - 1
  <2> SUFFICES ASSUME NEW c \in Pending, Pending' \subseteq Pending \ {c} PROVE r <= p - 1
    OBVIOUS
  <2>1. /\ IsFiniteSet(Pending \ {c}) /\ Cardinality(Pending \ {c}) = p - 1
        /\ Cardinality(Pending \ {c}) \in Nat
    BY <1>1, OneLess
  <2>2. Cardinality(Pending') <= Cardinality(Pending \ {c})
    BY <2>1, Fewer
  <2> QED BY <1>1, <2>1, <2>2
<1>6. \A q : Finished \subseteq Finished' \cup {q} => g >= f - 1
  <2> SUFFICES ASSUME NEW q, Finished \subseteq Finished' \cup {q} PROVE g >= f - 1
    OBVIOUS
  <2>1. Cardinality(Finished) <= Cardinality(Finished') + 1
    BY <1>1, WithOne
  <2> QED BY <1>1, <2>1
<1>7. Finished \subseteq Finished' => g >= f
  BY <1>1, Fewer
<1>8. \A q : q \notin Finished /\ Finished \cup {q} \subseteq Finished' => g >= f + 1
  <2> SUFFICES ASSUME NEW q, q \notin Finished, Finished \cup {q} \subseteq Finished'
               PROVE  g >= f + 1
    OBVIOUS
  <2>1. Cardinality(Finished \cup {q}) = f + 1
    BY <1>1, OneMore
  <2>2. Cardinality(Finished \cup {q}) <= Cardinality(Finished')
    BY <1>1, Fewer
  <2> QED BY <2>1, <2>2
<1> QED BY <1>1, <1>2, <1>3, <1>4, <1>5, <1>6, <1>7, <1>8

LEMMA WriteAnswerAnswered ==
  ASSUME Typed, Typed', NEW c \in Call, WriteAnswer(c)
  PROVE  \/ Answered' >= Answered /\ trouble' >= trouble
         \/ Answered' >= Answered - 1 /\ trouble' = trouble + 1
<1>0. PICK q, n : q = call[c].quiz /\ n = call[c].copy.index
  OBVIOUS
<1>1. /\ call[c].at = "writeAnswer" /\ call[c].op = "submitAnswer"
      /\ quizzes' = [quizzes EXCEPT ![q] = WrittenBy(c)]
      /\ \/ Ends(c) /\ ~LastAnswered(WrittenBy(c).index)
         \/ /\ LastAnswered(WrittenBy(c).index)
            /\ Leaves(c, "getTopic", LeftFields \cup {"topic", "delta"})
         \/ Falls(c)
  BY <1>0, WriteAnswerDoes
<1>2. /\ \A d \in Call : d = c \/ call'[d] = call[d]
      /\ call'[c].at \notin {"getQuiz", "writeAnswer"} \/ (call'[c].at = "writeAnswer"
           /\ call'[c].quiz = q /\ call'[c].copy = call[c].copy)
  <2>1. Alone(c) /\ Calmer(call'[c], call[c])
    BY CalmerStep
  <2> QED BY <1>0, <1>1, <2>1 DEF Alone, Calmer
<1>3. c \in Pending /\ Pending' \subseteq Pending
  BY <1>1, <1>2 DEF Pending
<1>4. Ends(c) => Pending' \subseteq Pending \ {c}
  BY <1>2, IdleRow DEF Ends, Pending
<1>5. q \in DOMAIN quizzes /\ DOMAIN quizzes' = DOMAIN quizzes /\ quizzes'[q] = WrittenBy(c)
      /\ \A x \in DOMAIN quizzes \ {q} : quizzes'[x] = quizzes[x]
  BY <1>0, <1>1, NamedBefore
<1>6. WrittenBy(c).index = n + 1 /\ n \in 0..(TotalQuestions - 1)
  <2>1. RowOK(call[c]) /\ call[c] \in CallRow
    BY NamedBefore DEF RowOK
  <2>2. Sound(call[c].copy) /\ ~LastAnswered(call[c].copy.index) /\ call[c].right \in BOOLEAN
    BY <1>1, <2>1, RowFields DEF RowOK, Flag
  <2> QED BY <1>0, <2>2, SoundWritten DEF WrittenBy
<1>7. Finished \subseteq Finished' \cup {q}
  BY <1>5 DEF Finished
<1>8. q \notin Finished => Finished \subseteq Finished'
  BY <1>5 DEF Finished
<1>9. LastAnswered(WrittenBy(c).index) => Finished \cup {q} \subseteq Finished'
  <2>1. LastAnswered(WrittenBy(c).index) => WrittenBy(c).index = TotalQuestions
    BY <1>6, StudyAssumption DEF LastAnswered
  <2> QED BY <1>5, <2>1 DEF Finished
\* Nobody writes from a copy that is finished: only who asks counts from there.
<1>10. q \in Finished => Clean \subseteq Clean'
  <2> SUFFICES ASSUME q \in Finished, NEW d \in Clean PROVE d \in Clean'
    OBVIOUS
  <2>1. d \in Call /\ d \in Writers \cup Askers /\ Base(d) = quizzes[call[d].quiz].index
    BY DEF Clean, Writers, Askers
  <2>2. quizzes[q].index = TotalQuestions
    BY DEF Finished
  <2>3. d # c
    <3>1. Base(c) = n
      BY <1>0, <1>1 DEF Base
    <3>2. n # TotalQuestions
      BY <1>6, StudyAssumption
    <3> QED BY <1>0, <2>1, <2>2, <3>1, <3>2
  <2>4. call'[d] = call[d]
    BY <1>2, <2>1, <2>3
  <2>5. call[d].quiz \in DOMAIN quizzes
    <3>1. d \in Pending
      BY AnsweredSets
    <3> QED BY <2>1, <3>1, NamedBefore DEF Pending
  <2>6. CASE call[d].quiz # q
    <3>1. quizzes'[call[d].quiz] = quizzes[call[d].quiz]
      BY <1>5, <2>5, <2>6
    <3> QED BY <2>1, <2>4, <3>1 DEF Clean, Writers, Askers, Base
  <2>7. CASE call[d].quiz = q
    <3>1. d \notin Writers
      <4>1. d \in Writers => /\ call[d].copy.index \in 0..(TotalQuestions - 1)
                             /\ Base(d) = call[d].copy.index
        <5>1. d \in Writers => Sound(call[d].copy) /\ ~LastAnswered(call[d].copy.index)
          BY <2>1, NamedBefore DEF Writers, RowOK
        <5>2. d \in Writers => call[d].copy.index \in 0..(TotalQuestions - 1)
          BY <5>1, SoundWritten
        <5> QED BY <5>2 DEF Writers, Base
      <4> QED BY <2>1, <2>2, <2>7, <4>1, StudyAssumption
    <3>2. d \in Askers' /\ call'[d].quiz = q
      BY <2>1, <2>4, <2>7, <3>1 DEF Askers, Writers
    <3> QED BY <2>1, <3>2 DEF Clean, Askers, Base
  <2> QED BY <2>6, <2>7
<1>11. /\ Ends(c) => trouble' = trouble /\ ~LastAnswered(WrittenBy(c).index)
       /\ Falls(c) => trouble' = trouble + 1
       /\ Ends(c) \/ Falls(c) \/ (LastAnswered(WrittenBy(c).index) /\ trouble' = trouble)
       /\ trouble \in Nat
  <2>1. ~(call'[c] = Idle /\ Leaves(c, "getTopic", LeftFields \cup {"topic", "delta"}))
    BY IdleRow DEF Leaves
  <2>2. trouble \in Nat /\ (Falls(c) => trouble' = trouble + 1) /\ (Ends(c) => trouble' = trouble)
    BY DEF Typed, Counts, Falls, Ends
  <2>3. Ends(c) => ~Falls(c)
    BY <2>2
  <2>4. Ends(c) => call'[c] = Idle
    BY DEF Ends
  <2>5. Leaves(c, "getTopic", LeftFields \cup {"topic", "delta"}) => trouble' = trouble
    BY DEF Leaves, Goes
  <2> HIDE DEF Ends, Falls, Leaves
  <2> QED BY <1>1, <2>1, <2>2, <2>3, <2>4, <2>5
<1> HIDE DEF Finished, Pending, Clean, Answered, Ends, Falls
<1>12. PICK f, p, k, g, r, m :
         /\ f \in Nat /\ p \in Nat /\ g \in Nat /\ r \in Nat
         /\ Answered = f - p + k /\ Answered' = g - r + m
         /\ k \in {0, 1} /\ m \in {0, 1} /\ r <= p
         /\ Finished \subseteq Finished' \cup {q} => g >= f - 1
         /\ Finished \subseteq Finished' => g >= f
         /\ q \notin Finished /\ Finished \cup {q} \subseteq Finished' => g >= f + 1
         /\ Pending' \subseteq Pending \ {c} => r <= p - 1
         /\ Clean \subseteq Clean' => m >= k
  BY <1>3, Tally, Zenon
<1>13. CASE LastAnswered(WrittenBy(c).index) /\ q \notin Finished
  BY <1>8, <1>9, <1>11, <1>12, <1>13
<1>14. CASE LastAnswered(WrittenBy(c).index) /\ q \in Finished
  <2>1. g >= f
    BY <1>9, <1>12, <1>14
  <2> QED BY <1>10, <1>11, <1>12, <1>14, <2>1
<1>15. CASE ~LastAnswered(WrittenBy(c).index) /\ q \notin Finished
  <2>1. g >= f /\ (Ends(c) \/ Falls(c))
    BY <1>8, <1>11, <1>12, <1>15
  <2> QED BY <1>4, <1>11, <1>12, <2>1
<1>16. CASE ~LastAnswered(WrittenBy(c).index) /\ q \in Finished
  <2>1. g >= f - 1 /\ m >= k /\ (Ends(c) \/ Falls(c))
    BY <1>7, <1>10, <1>11, <1>12, <1>16
  <2> QED BY <1>4, <1>11, <1>12, <2>1
<1> QED BY <1>13, <1>14, <1>15, <1>16

LEMMA SlackParts ==
  ASSUME Typed, Typed', NEW t \in 1..Topics
  PROVE  /\ Worth(t) \in Int /\ Answered \in Int /\ Extra \in Nat
         /\ Worth(t)' \in Int /\ Answered' \in Int /\ Extra' \in Nat
         /\ Slack(t) = Worth(t) + (IF t = 1 THEN 2 * Answered ELSE 0) + Extra
         /\ Slack(t)' = Worth(t)' + (IF t = 1 THEN 2 * Answered' ELSE 0) + Extra'
<1>1. /\ Worth(t) \in Int /\ Answered \in Int /\ Extra \in Nat
      /\ Worth(t)' \in Int /\ Answered' \in Int /\ Extra' \in Nat
  BY WorthSets, AnsweredSets, SlackNext
<1> HIDE DEF Worth, Answered, Extra
<1> QED BY <1>1 DEF Slack

Rising == \A t \in 1..Topics : Slack(t)' >= Slack(t)

\* The completions or the answers may cost what the step pays, not both.
LEMMA RisesFrom ==
  ASSUME Typed, Typed',
         \/ /\ \A t \in 1..Topics : Worth(t)' >= Worth(t)
            /\ 2 * Answered' + Extra' >= 2 * Answered + Extra /\ Extra' >= Extra
         \/ /\ \A t \in 1..Topics : Worth(t)' + Extra' >= Worth(t) + Extra
            /\ Answered' >= Answered
  PROVE  Rising
<1> HIDE DEF Worth, Answered, Extra, Slack
<1> SUFFICES ASSUME NEW t \in 1..Topics PROVE Slack(t)' >= Slack(t)
  BY DEF Rising
<1>1. /\ Worth(t) \in Int /\ Answered \in Int /\ Extra \in Nat
      /\ Worth(t)' \in Int /\ Answered' \in Int /\ Extra' \in Nat
      /\ Slack(t) = Worth(t) + (IF t = 1 THEN 2 * Answered ELSE 0) + Extra
      /\ Slack(t)' = Worth(t)' + (IF t = 1 THEN 2 * Answered' ELSE 0) + Extra'
  BY SlackParts
<1>2. CASE /\ \A u \in 1..Topics : Worth(u)' >= Worth(u)
           /\ 2 * Answered' + Extra' >= 2 * Answered + Extra /\ Extra' >= Extra
  <2>1. Worth(t)' >= Worth(t)
    BY <1>2
  <2>2. 2 * Answered' + Extra' >= 2 * Answered + Extra /\ Extra' >= Extra
    BY <1>2
  <2>3. CASE t = 1
    <3>1. Slack(t) = Worth(t) + 2 * Answered + Extra
      BY <1>1, <2>3
    <3>2. Slack(t)' = Worth(t)' + 2 * Answered' + Extra'
      BY <1>1, <2>3
    <3>3. \A w, a, e, x, b, f \in Int :
            x >= w /\ 2 * b + f >= 2 * a + e => x + 2 * b + f >= w + 2 * a + e
      OBVIOUS
    <3>4. Worth(t)' + 2 * Answered' + Extra' >= Worth(t) + 2 * Answered + Extra
      <4>1. /\ Worth(t) \in Int /\ Answered \in Int /\ Extra \in Int
            /\ Worth(t)' \in Int /\ Answered' \in Int /\ Extra' \in Int
        BY <1>1
      <4>2. 2 * Answered' + Extra' >= 2 * Answered + Extra
        BY <2>2
      <4> QED BY <2>1, <3>3, <4>1, <4>2, Zenon
    <3> QED BY <3>1, <3>2, <3>4
  <2>4. CASE t # 1
    BY <1>1, <2>1, <2>2, <2>4
  <2> QED BY <2>3, <2>4
<1>3. CASE /\ \A u \in 1..Topics : Worth(u)' + Extra' >= Worth(u) + Extra
           /\ Answered' >= Answered
  <2>1. Worth(t)' + Extra' >= Worth(t) + Extra
    BY <1>3
  <2> QED BY <1>1, <1>3, <2>1
<1> QED BY <1>2, <1>3

\* What of the next state was read from the topics.
Learned(s, r) == s.at = "setMastery" => \/ r.at = "setMastery" /\ s.topic = r.topic /\ s.base = r.base
                                        \/ s.topic \in 1..Topics => s.base = level[s.topic]

LEMMA LevelKept ==
  ASSUME Typed, Typed', LevelPaid, Rising, level' = level,
         \A c \in Call : Learned(call'[c], call[c])
  PROVE  LevelPaid'
<1>1. \A t \in 1..Topics : Slack(t) \in Int /\ Slack(t)' \in Int /\ level[t] \in Int
  <2>1. level \in [1..Topics -> 0..MasteryTop]
    BY DEF Typed, Data
  <2>2. \A t \in 1..Topics : Slack(t) \in Int /\ Slack(t)' \in Int
    <3> HIDE DEF Slack
    <3> SUFFICES ASSUME NEW t \in 1..Topics PROVE Slack(t) \in Int /\ Slack(t)' \in Int
      OBVIOUS
    <3>1. /\ Worth(t) \in Int /\ Answered \in Int /\ Extra \in Nat
          /\ Worth(t)' \in Int /\ Answered' \in Int /\ Extra' \in Nat
          /\ Slack(t) = Worth(t) + (IF t = 1 THEN 2 * Answered ELSE 0) + Extra
          /\ Slack(t)' = Worth(t)' + (IF t = 1 THEN 2 * Answered' ELSE 0) + Extra'
      BY SlackParts
    <3> HIDE DEF Worth, Answered, Extra
    <3> QED BY <3>1
  <2> QED BY <2>1, <2>2, StudyAssumption
<1>2. \A d \in Call : call[d].base \in Int /\ call'[d].base \in Int
  BY RowFields DEF Typed, Placed
<1> HIDE DEF Slack
<1>4. ASSUME NEW t \in 1..Topics PROVE level'[t] <= Slack(t)'
  <2>1. level[t] <= Slack(t) /\ Slack(t) <= Slack(t)' /\ level'[t] = level[t]
    BY DEF LevelPaid, Rising
  <2> QED BY <1>1, <2>1
<1>5. ASSUME NEW t \in 1..Topics, NEW d \in Call, call'[d].at = "setMastery", call'[d].topic = t
      PROVE  call'[d].base <= Slack(t)'
  <2>1. \/ call[d].at = "setMastery" /\ call[d].topic = t /\ call'[d].base = call[d].base
        \/ call'[d].base = level[t]
    BY <1>5 DEF Learned
  <2>2. call'[d].base <= Slack(t)
    BY <2>1 DEF LevelPaid
  <2>3. Slack(t) <= Slack(t)'
    BY DEF Rising
  <2> QED BY <1>1, <1>2, <2>2, <2>3
<1> QED BY <1>4, <1>5 DEF LevelPaid

\* An answer that moves on, is done or thrown back.
LEMMA AnswerMoves ==
  ASSUME Typed, Typed', NEW c \in Call, Alone(c), quizzes' = quizzes,
         call[c].op = "submitAnswer",
         call'[c] = Idle \/ Same(call'[c], call[c], LeftFields),
         call'[c].at \in {"getQuiz", "writeAnswer"} => call'[c].at = call[c].at
  PROVE  /\ Answered' >= Answered - 1
         /\ call[c].at \notin {"getQuiz", "writeAnswer"} => Answered' >= Answered
         /\ call[c].at \notin {"getQuiz", "writeAnswer"} /\ call[c].delta = 2 /\ call'[c] = Idle =>
              Answered' >= Answered + 1
<1>1. \A d \in Call : d = c \/ call'[d] = call[d]
  BY DEF Alone
<1>2. call'[c].op \in {"none", "submitAnswer"} /\ (call'[c].op = "submitAnswer" => call'[c].delta = call[c].delta)
  BY IdleRow DEF Same, LeftFields
<1>3. Pending' \subseteq Pending
  BY <1>1, <1>2 DEF Pending
<1>4. Finished' = Finished
  BY DEF Finished
<1>5. call[c].at \notin {"getQuiz", "writeAnswer"} => Clean \subseteq Clean'
  BY <1>1 DEF Clean, Writers, Askers, Base
<1>6. call[c].delta = 2 => c \in Pending
  BY DEF Pending
<1>7. call'[c] = Idle => Pending' \subseteq Pending \ {c}
  BY <1>1, IdleRow DEF Pending
<1> HIDE DEF Pending, Finished, Clean, Answered
<1>8. Answered' >= Answered - 1
  BY <1>3, <1>4, AnsweredFrom
<1>9. call[c].at \notin {"getQuiz", "writeAnswer"} => Answered' >= Answered
  BY <1>3, <1>4, <1>5, AnsweredFrom
<1>10. call[c].at \notin {"getQuiz", "writeAnswer"} /\ call[c].delta = 2 /\ call'[c] = Idle =>
         Answered' >= Answered + 1
  BY <1>3, <1>4, <1>5, <1>6, <1>7, AnsweredFrom
<1> QED BY <1>8, <1>9, <1>10

\* Steps of calls that neither answer nor complete.
LEMMA CalmRises ==
  ASSUME Typed, Typed', NEW c \in Call, Alone(c), completed' = completed, quizzes' = quizzes,
         {call[c].op, call'[c].op} \cap {"submitAnswer", "completeStudySession"} = {},
         Extra' >= Extra
  PROVE  Rising
<1>1. Answered' = Answered
  BY AnsweredSame
<1>2. \A t \in 1..Topics : Worth(t)' = Worth(t)
  BY WorthSame
<1>3. /\ \A t \in 1..Topics : Worth(t) \in Int
      /\ Answered \in Int /\ Extra \in Int /\ Extra' \in Int
  BY WorthSets, AnsweredSets, SlackNext
<1> HIDE DEF Worth, Answered, Extra
<1>4. \A t \in 1..Topics : Worth(t)' + Extra' >= Worth(t) + Extra
  BY <1>2, <1>3
<1>5. Answered' >= Answered
  BY <1>1, <1>3
<1> QED BY <1>4, <1>5, RisesFrom

\* A trouble pays for what a completion or an answer loses by it.
LEMMA FallRises ==
  ASSUME Typed, Typed', NEW c \in Call, Falls(c), call[c].op # "none", quizzes' = quizzes,
         \/ completed' = completed
         \/ call[c].op = "completeStudySession" /\ completed \subseteq completed',
         UNCHANGED history
  PROVE  Rising
<1>1. Alone(c) /\ Threw(call'[c], call[c]) /\ trouble' = trouble + 1
  BY DEF Falls
<1>2. Extra' = Extra + 2 /\ Extra \in Nat /\ Answered \in Int
  BY <1>1, AnsweredSets DEF Extra, history, Typed, Counts
<1>3. call'[c].op = call[c].op \/ call'[c].op = "none"
  BY <1>1, IdleRow DEF Threw, Same
<1>4. CASE call[c].op = "completeStudySession"
  <2>1. \A t \in 1..Topics : Worth(t)' >= Worth(t) - 1
    BY <1>1, <1>4, WorthFalls
  <2>2. Answered' = Answered
    BY <1>1, <1>3, <1>4, AnsweredSame
  <2>3. \A t \in 1..Topics : Worth(t) \in Int /\ Worth(t)' \in Int
    BY WorthSets, SlackNext
  <2> HIDE DEF Worth, Answered, Extra
  <2>4. \A t \in 1..Topics : Worth(t)' + Extra' >= Worth(t) + Extra
    BY <1>2, <2>1, <2>3
  <2> QED BY <1>2, <2>2, <2>4, RisesFrom
<1>5. CASE call[c].op = "submitAnswer"
  <2>1. \A t \in 1..Topics : Worth(t)' = Worth(t)
    BY <1>1, <1>3, <1>5, WorthSame
  <2>2. Answered' >= Answered - 1
    <3>1. /\ call'[c] = Idle \/ Same(call'[c], call[c], LeftFields)
          /\ call'[c].at \in {"getQuiz", "writeAnswer"} => call'[c].at = call[c].at
      BY <1>1, IdleRow DEF Threw, Same, LeftFields, Back
    <3> QED BY <1>1, <1>5, <3>1, AnswerMoves
  <2>3. (\A t \in 1..Topics : Worth(t) \in Int) /\ Answered' \in Int
    BY WorthSets, SlackNext
  <2> HIDE DEF Worth, Answered, Extra
  <2>4. \A t \in 1..Topics : Worth(t)' >= Worth(t)
    BY <2>1, <2>3
  <2>5. 2 * Answered' + Extra' >= 2 * Answered + Extra /\ Extra' >= Extra
    <3>1. \A a, b, e, f \in Int :
            b >= a - 1 /\ f >= e + 2 => 2 * b + f >= 2 * a + e /\ f >= e
      OBVIOUS
    <3>2. Answered \in Int /\ Answered' \in Int /\ Extra \in Int /\ Extra' \in Int
      BY <1>2, <2>3
    <3>3. Extra' >= Extra + 2
      BY <1>2, <3>2
    <3> QED BY <2>2, <3>1, <3>2, <3>3, Zenon
  <2> QED BY <2>4, <2>5, RisesFrom
<1>6. CASE call[c].op \notin {"submitAnswer", "completeStudySession"}
  <2>1. Extra' >= Extra
    BY <1>2
  <2>2. completed' = completed
    BY <1>6
  <2> QED BY <1>1, <1>3, <1>6, <2>1, <2>2, CalmRises
<1> QED BY <1>4, <1>5, <1>6

\* An answer that goes on, or is done with less than two steps to add.
LEMMA AnswerRises ==
  ASSUME Typed, Typed', NEW c \in Call, Alone(c), call[c].op = "submitAnswer",
         call'[c].op # "completeStudySession", completed' = completed,
         Answered' >= Answered, Extra' >= Extra
  PROVE  Rising
<1>1. \A t \in 1..Topics : Worth(t)' = Worth(t)
  BY WorthSame
<1>2. /\ \A t \in 1..Topics : Worth(t) \in Int
      /\ Extra \in Int /\ Extra' \in Int
  BY WorthSets, AnsweredSets, SlackNext
<1> HIDE DEF Worth, Answered, Extra
<1>3. \A t \in 1..Topics : Worth(t)' + Extra' >= Worth(t) + Extra
  BY <1>1, <1>2
<1> QED BY <1>3, RisesFrom

LEMMA CompletionRises ==
  ASSUME Typed, Typed', NEW c \in Call, Alone(c), call[c].op = "completeStudySession",
         call'[c].op # "submitAnswer", quizzes' = quizzes, Extra' = Extra,
         \A t \in 1..Topics : Worth(t)' >= Worth(t)
  PROVE  Rising
<1>1. Answered' = Answered
  BY AnsweredSame
<1>2. /\ \A t \in 1..Topics : Worth(t) \in Int /\ Worth(t)' \in Int
      /\ Extra \in Int /\ Answered \in Int
  BY WorthSets, AnsweredSets, SlackNext
<1> HIDE DEF Worth, Answered, Extra
<1>3. \A t \in 1..Topics : Worth(t)' + Extra' >= Worth(t) + Extra
  BY <1>2
<1> QED BY <1>1, <1>2, <1>3, RisesFrom

LEMMA BeginRises ==
  ASSUME Typed, Typed', NEW c \in Call, Begin(c)
  PROVE  Rising /\ Alone(c) /\ Learned(call'[c], call[c])
<1>1. quizzes' = quizzes /\ completed' = completed
  BY DEF Begin, quizVars, planVars
<1>2. ASSUME NEW concern,
             overlaps' = overlaps + Cardinality({d \in Running : call[d].op \in concern}),
             repeats' = repeats, trouble' = trouble
      PROVE  Extra' >= Extra
  <2>1. {d \in Running : call[d].op \in concern} \in SUBSET Call
    BY DEF Running
  <2>2. Cardinality({d \in Running : call[d].op \in concern}) \in Nat
    BY <2>1, StudyAssumption, FS_Subset, FS_CardinalityType
  <2> QED BY <1>2, <2>2 DEF Typed, Counts, Extra
<1>3. ASSUME NEW op, NEW at \in Point \ {"setMastery"}, Begun(c, op, at)
      PROVE  Alone(c) /\ Learned(call'[c], call[c]) /\ call[c].op = "none" /\ call'[c].op = op
             /\ trouble' = trouble
  BY <1>3 DEF Begun, Learned
<1>4. ASSUME NEW op \in Op \ {"submitAnswer", "completeStudySession"},
             NEW at \in Point \ {"setMastery"}, Begun(c, op, at), repeats' = repeats,
             NEW concern,
             overlaps' = overlaps + Cardinality({d \in Running : call[d].op \in concern})
      PROVE  Rising /\ Alone(c) /\ Learned(call'[c], call[c])
  <2>1. Alone(c) /\ Learned(call'[c], call[c]) /\ call[c].op = "none" /\ call'[c].op = op
        /\ trouble' = trouble
    BY <1>3, <1>4
  <2>2. Extra' >= Extra
    BY <1>2, <1>4, <2>1
  <2> QED BY <1>1, <2>1, <2>2, CalmRises
<1>5. CASE Begun(c, "generateQuiz", "closePrior") /\ repeats' = repeats
           /\ overlaps' = overlaps + Cardinality({d \in Running : call[d].op \in QuizCalls})
  BY <1>4, <1>5 DEF Op, Point
<1>6. CASE /\ Begun(c, "submitAnswer", "getQuiz") /\ repeats' = repeats
           /\ overlaps' = overlaps + Cardinality({d \in Running : call[d].op \in QuizCalls})
  <2>1. Alone(c) /\ Learned(call'[c], call[c]) /\ call[c].op = "none"
        /\ call'[c].op = "submitAnswer"
    BY <1>3, <1>6 DEF Point
  <2>2. 2 * Answered' + Extra' >= 2 * Answered + Extra /\ Extra' >= Extra
    BY <1>1, <1>6, SubmitAnswered
  <2>3. \A t \in 1..Topics : Worth(t)' = Worth(t) /\ Worth(t) \in Int
    BY <1>1, <2>1, WorthSame, WorthSets
  <2> HIDE DEF Worth, Answered, Extra
  <2>4. \A t \in 1..Topics : Worth(t)' >= Worth(t)
    BY <2>3
  <2> QED BY <2>1, <2>2, <2>4, RisesFrom
<1>7. CASE /\ \/ Begun(c, "generateStudyPlan", "insertPlan")
              \/ Begun(c, "createAssessment", "createExamTask")
           /\ overlaps' = overlaps + Cardinality({d \in Running : call[d].op \in {}})
           /\ repeats' = repeats
  BY <1>4, <1>7 DEF Op, Point
<1>8. CASE /\ Begun(c, "rescheduleStudySession", "readSession") /\ repeats' = repeats
           /\ overlaps' = overlaps + Cardinality({d \in Running : call[d].op \in SessionCalls})
  BY <1>4, <1>8 DEF Op, Point
<1>9. CASE /\ Begun(c, "completeStudySession", "readSession") /\ call'[c].session \in Sessions
           /\ call'[c].topic = call'[c].session[2] /\ BeginCompletion(c)
  <2>1. Alone(c) /\ Learned(call'[c], call[c]) /\ call[c].op = "none"
        /\ call'[c].op = "completeStudySession"
    BY <1>3, <1>9 DEF Point
  <2>2. \A t \in 1..Topics : Worth(t)' + Extra' >= Worth(t) + Extra
    BY <1>1, <1>9, WorthBegin
  <2>3. Answered' = Answered /\ Answered \in Int
    BY <1>1, <2>1, AnsweredSame, AnsweredSets
  <2> HIDE DEF Worth, Answered, Extra
  <2>4. Answered' >= Answered
    BY <2>3
  <2> QED BY <2>1, <2>2, <2>4, RisesFrom
<1> QED BY <1>5, <1>6, <1>7, <1>8, <1>9, BeginDoes

LEMMA CrashLevel ==
  ASSUME Typed, Typed', LevelPaid, Crash PROVE LevelPaid'
<1>1. /\ call' = [c \in Call |-> Idle] /\ quizzes' = quizzes /\ completed' = completed
      /\ level' = level /\ trouble' = trouble + 1 /\ overlaps' = overlaps /\ repeats' = repeats
  BY DEF Crash, quizVars, planVars, history, MoreTrouble
<1>2. Extra' = Extra + 2 /\ Extra \in Nat /\ Answered' >= Answered
  BY <1>1, AnsweredSets, CrashAnswered DEF Extra, Typed, Counts
<1>3. ASSUME NEW t \in 1..Topics PROVE Worth(t)' >= Worth(t) - 1
  <2>1. Completing(t)' = {}
    BY <1>1, IdleRow DEF Completing, Running
  <2>2. Adding(t)' = {} /\ Worked(t)' = {s \in completed : s[2] = t}
    <3> HIDE DEF Completing
    <3> QED BY <1>1, <2>1 DEF Adding, Worked
  <2>3. Worth(t)' = Cardinality(Worked(t)')
    <3>1. Worth(t)' = Cardinality(Worked(t)') - Cardinality(Adding(t)') - LessOne(Completing(t)')
      BY DEF Worth, LessOne
    <3>2. LessOne(Completing(t)') = 0
      BY <2>1 DEF LessOne
    <3>3. Cardinality(Adding(t)') = 0
      BY <2>2, FS_EmptySet
    <3>4. Cardinality(Worked(t)') \in Nat
      BY WorthNext
    <3> HIDE DEF Worked, Adding, Completing, Worth
    <3> QED BY <3>1, <3>2, <3>3, <3>4
  <2>4. PICK named : named = {call[c].session : c \in Completing(t)}
    OBVIOUS
  <2>5. /\ IsFiniteSet(named) /\ Cardinality(named) \in Nat
        /\ Cardinality(named) <= Cardinality(Completing(t))
    <3> DEFINE f == [c \in Completing(t) |-> call[c].session]
    <3>1. f \in Surjection(Completing(t), named)
      <4> HIDE DEF Completing
      <4> QED BY <2>4 DEF Surjection
    <3>2. IsFiniteSet(Completing(t))
      BY WorthSets
    <3> HIDE DEF f, Completing
    <3> QED BY <3>1, <3>2, FS_Surjection, FS_CardinalityType
  <2>6. PICK w, a, l, n : w = Cardinality(Worked(t)) /\ a = Cardinality(Adding(t))
                          /\ l = LessOne(Completing(t)) /\ n = Cardinality(Completing(t))
    OBVIOUS
  <2>7. Worked(t) = Worked(t)' \cup named
    BY <2>2, <2>4 DEF Worked
  <2>8. /\ IsFiniteSet(Worked(t)') /\ Cardinality(Worked(t)') \in Nat
        /\ w \in Nat /\ a \in Nat /\ l \in Nat /\ n \in Nat
    BY <2>6, WorthSets, WorthNext
  <2>9. Worth(t) = w - a - l
    BY <2>6 DEF Worth
  <2>10. n - l <= 1
    <3>1. l = IF Completing(t) = {} THEN 0 ELSE n - 1
      BY <2>6 DEF LessOne
    <3>2. Completing(t) = {} => n = 0
      BY <2>6, FS_EmptySet
    <3> HIDE DEF Completing
    <3> QED BY <2>8, <3>1, <3>2
  <2> HIDE DEF Worked, Adding, Completing, Worth, LessOne
  <2>11. w <= Cardinality(Worked(t)') + Cardinality(named)
    <3>1. /\ Cardinality(Worked(t)' \cup named)
               = Cardinality(Worked(t)') + Cardinality(named) - Cardinality(Worked(t)' \cap named)
      BY <2>5, <2>8, FS_Union
    <3>2. Cardinality(Worked(t)' \cap named) \in Nat
      BY <2>5, Fewer
    <3> QED BY <2>5, <2>6, <2>7, <2>8, <3>1, <3>2
  <2> QED BY <2>3, <2>5, <2>6, <2>8, <2>9, <2>10, <2>11
<1>4. Rising
  <2>1. /\ \A t \in 1..Topics : Worth(t) \in Int /\ Worth(t)' \in Int
        /\ Answered \in Int
    BY WorthSets, AnsweredSets, SlackNext
  <2> HIDE DEF Worth, Answered, Extra
  <2>2. \A t \in 1..Topics : Worth(t)' + Extra' >= Worth(t) + Extra
    BY <1>2, <1>3, <2>1
  <2> QED BY <1>2, <2>2, RisesFrom
<1>5. \A c \in Call : Learned(call'[c], call[c])
  BY <1>1, IdleRow DEF Learned
<1> QED BY <1>1, <1>4, <1>5, LevelKept

\* Steps that leave the level as it is.
LEMMA LevelLeft ==
  ASSUME Typed, Typed', LevelPaid, level' = level, NEW c \in Call, Alone(c), Rising,
         Learned(call'[c], call[c])
  PROVE  LevelPaid'
<1>1. \A d \in Call : Learned(call'[d], call[d])
  BY DEF Alone, Learned
<1> QED BY <1>1, LevelKept

LEMMA ThrewLearns ==
  ASSUME NEW r, NEW s, Threw(s, r) PROVE Learned(s, r)
BY IdleRow DEF Threw, Back, Learned

LEMMA BeginLevel ==
  ASSUME Typed, Typed', LevelPaid, NEW c \in Call, Begin(c) PROVE LevelPaid'
<1>1. level' = level
  BY DEF Begin
<1> QED BY <1>1, BeginRises, LevelLeft

LEMMA FailsLevel ==
  ASSUME Typed, Typed', LevelPaid, NEW c \in Call, Fails(c) PROVE LevelPaid'
<1>1. call[c].op # "none" /\ Falls(c)
  BY FailsDoes DEF Typed
<1>2. quizzes' = quizzes /\ completed' = completed /\ level' = level /\ UNCHANGED history
  BY DEF Fails, quizVars, planVars
<1>3. Rising
  BY <1>1, <1>2, FallRises
<1>4. Alone(c) /\ Learned(call'[c], call[c])
  BY <1>1, ThrewLearns DEF Falls
<1> QED BY <1>2, <1>3, <1>4, LevelLeft

LEMMA ConnectLevel ==
  ASSUME Typed, Typed', LevelPaid, NEW c \in Call, Connect(c) PROVE LevelPaid'
<1>1. Alone(c) /\ Same(call'[c], call[c], {"held"}) /\ call[c].op # "none" /\ trouble' = trouble
  BY ConnectDoes DEF Typed, Goes
<1>2. /\ quizzes' = quizzes /\ completed' = completed /\ level' = level
      /\ overlaps' = overlaps /\ repeats' = repeats
  BY DEF Connect, quizVars, planVars, history
<1>3. /\ call'[c].op = call[c].op /\ call'[c].at = call[c].at /\ call'[c].topic = call[c].topic
      /\ call'[c].session = call[c].session /\ call'[c].base = call[c].base
      /\ call'[c].quiz = call[c].quiz /\ call'[c].copy = call[c].copy
      /\ call'[c].delta = call[c].delta
  BY <1>1 DEF Same
<1>4. Extra' = Extra /\ Extra \in Nat
  BY <1>1, <1>2, AnsweredSets DEF Extra
<1>5. Rising
  <2>1. CASE call[c].op = "completeStudySession"
    <3>1. \A t \in 1..Topics : Worth(t)' >= Worth(t)
      BY <1>1, <1>2, <1>3, <2>1, WorthGoes
    <3> QED BY <1>1, <1>2, <1>3, <1>4, <2>1, <3>1, CompletionRises
  <2>2. CASE call[c].op = "submitAnswer"
    <3>1. \A d \in Call : d = c \/ call'[d] = call[d]
      BY <1>1 DEF Alone
    <3>2. Pending' = Pending
      BY <1>3, <3>1 DEF Pending
    <3>3. Clean' = Clean
      BY <1>2, <1>3, <3>1 DEF Clean, Writers, Askers, Base
    <3>4. Answered' = Answered
      BY <1>2, <3>2, <3>3 DEF Answered, Finished, One
    <3>5. Answered \in Int
      BY AnsweredSets
    <3> HIDE DEF Answered, Extra
    <3>6. Answered' >= Answered /\ Extra' >= Extra
      BY <1>4, <3>4, <3>5
    <3>7. call'[c].op # "completeStudySession"
      BY <1>3, <2>2
    <3> QED BY <1>1, <1>2, <2>2, <3>6, <3>7, AnswerRises
  <2>3. CASE call[c].op \notin {"submitAnswer", "completeStudySession"}
    <3>1. Extra' >= Extra
      BY <1>4
    <3> QED BY <1>1, <1>2, <1>3, <2>3, <3>1, CalmRises
  <2> QED BY <2>1, <2>2, <2>3
<1>6. Learned(call'[c], call[c])
  BY <1>3 DEF Learned
<1> QED BY <1>1, <1>2, <1>5, <1>6, LevelLeft

LEMMA QuizLevel ==
  ASSUME Typed, Typed', LevelPaid, NEW c \in Call, QuizStep(c) PROVE LevelPaid'
<1>1. /\ completed' = completed /\ level' = level /\ overlaps' = overlaps /\ repeats' = repeats
      /\ Extra \in Nat
  BY AnsweredSets DEF QuizStep, ClosePrior, InsertQuiz, GetQuiz, WriteAnswer, planVars, history
<1>2. trouble' >= trouble => Extra' >= Extra
  <2>1. /\ overlaps \in Int /\ repeats \in Int /\ trouble \in Int /\ trouble' \in Int
    BY StudyAssumption DEF Typed, Counts
  <2>2. Extra' = repeats + 2 * (overlaps + trouble') /\ Extra = repeats + 2 * (overlaps + trouble)
    BY <1>1 DEF Extra
  <2>3. \A r, o, a, b \in Int : b >= a => r + 2 * (o + b) >= r + 2 * (o + a)
    OBVIOUS
  <2>4. trouble' >= trouble => repeats + 2 * (overlaps + trouble') >= repeats + 2 * (overlaps + trouble)
    BY <2>1, <2>3, Zenon
  <2> HIDE DEF Extra
  <2> QED BY <2>2, <2>4, Zenon
<1>3. CASE ClosePrior(c)
  <2>1. /\ call[c].op = "generateQuiz" /\ Alone(c) /\ Same(call'[c], call[c], {"at", "prior"})
        /\ call'[c].at = "insertQuiz" /\ trouble' = trouble
    BY <1>3, ClosePriorDoes DEF Goes
  <2>2. Extra' >= Extra
    BY <1>2, <2>1 DEF Typed, Counts
  <2>3. quizzes' = quizzes /\ call'[c].op = "generateQuiz"
    BY <1>3, <2>1 DEF ClosePrior, quizVars, Same
  <2>4. Rising
    BY <1>1, <2>1, <2>2, <2>3, CalmRises
  <2> QED BY <1>1, <2>1, <2>4, LevelLeft DEF Learned
<1>4. CASE InsertQuiz(c)
  <2>1. /\ call[c].op = "generateQuiz" /\ Alone(c)
        /\ call'[c] = Idle \/ Threw(call'[c], call[c])
        /\ trouble' = trouble \/ trouble' = trouble + 1
    BY <1>4, InsertQuizDoes DEF Ends, Falls
  <2>2. Extra' >= Extra
    BY <1>2, <2>1 DEF Typed, Counts
  <2>3. Answered' >= Answered
    BY <1>4, InsertQuizAnswered
  <2>4. call'[c].op \in {"none", "generateQuiz"} /\ Learned(call'[c], call[c])
    BY <2>1, ThrewLearns, IdleRow DEF Threw, Same, Learned
  <2>5. \A t \in 1..Topics : Worth(t)' = Worth(t) /\ Worth(t) \in Int
    BY <1>1, <2>1, <2>4, WorthSame, WorthSets
  <2>6. Rising
    <3>1. Extra' \in Nat
      BY SlackNext
    <3> HIDE DEF Worth, Answered, Extra
    <3>2. \A t \in 1..Topics : Worth(t)' + Extra' >= Worth(t) + Extra
      BY <1>1, <2>2, <2>5, <3>1
    <3> QED BY <2>3, <3>2, RisesFrom
  <2> QED BY <1>1, <2>1, <2>4, <2>6, LevelLeft
<1>5. CASE GetQuiz(c)
  <2>1. /\ call[c].op = "submitAnswer" /\ Alone(c) /\ trouble' = trouble
        /\ call'[c].op \in {"none", "submitAnswer"} /\ call'[c].at # "setMastery"
    BY <1>5, GetQuizDoes, IdleRow DEF Ends, Leaves, Goes, Same, LeftFields
  <2>2. Extra' >= Extra
    BY <1>2, <2>1 DEF Typed, Counts
  <2>3. Answered' >= Answered
    BY <1>5, GetQuizAnswered
  <2>4. Rising
    BY <1>1, <2>1, <2>2, <2>3, AnswerRises
  <2> QED BY <1>1, <2>1, <2>4, LevelLeft DEF Learned
<1>6. CASE WriteAnswer(c)
  <2>1. /\ call[c].op = "submitAnswer" /\ Alone(c)
        /\ call'[c].op \in {"none", "submitAnswer"} /\ Learned(call'[c], call[c])
    BY <1>6, WriteAnswerDoes, ThrewLearns, IdleRow
    DEF Ends, Falls, Leaves, Goes, Same, LeftFields, Threw, Learned
  <2>2. \/ Answered' >= Answered /\ trouble' >= trouble
        \/ Answered' >= Answered - 1 /\ trouble' = trouble + 1
    BY <1>6, WriteAnswerAnswered
  <2>3. CASE Answered' >= Answered /\ trouble' >= trouble
    <3>1. Extra' >= Extra
      BY <1>2, <2>3
    <3>2. Rising
      BY <1>1, <2>1, <2>3, <3>1, AnswerRises
    <3> QED BY <1>1, <2>1, <3>2, LevelLeft
  <2>4. CASE Answered' >= Answered - 1 /\ trouble' = trouble + 1
    <3>1. Extra' = Extra + 2
      BY <1>1, <2>4 DEF Extra, Typed, Counts
    <3>2. \A t \in 1..Topics : Worth(t)' = Worth(t) /\ Worth(t) \in Int
      BY <1>1, <2>1, WorthSame, WorthSets
    <3>3. Answered \in Int /\ Answered' \in Int /\ Extra \in Int /\ Extra' \in Int
      BY <1>1, AnsweredSets, SlackNext
    <3> HIDE DEF Worth, Answered, Extra
    <3>4. \A a, b, e, f \in Int :
            b >= a - 1 /\ f >= e + 2 => 2 * b + f >= 2 * a + e /\ f >= e
      OBVIOUS
    <3>5. Extra' >= Extra + 2
      BY <3>1, <3>3
    <3>6. 2 * Answered' + Extra' >= 2 * Answered + Extra /\ Extra' >= Extra
      BY <2>4, <3>3, <3>4, <3>5, Zenon
    <3>7. \A t \in 1..Topics : Worth(t)' >= Worth(t)
      BY <3>2
    <3>8. Rising
      BY <3>6, <3>7, RisesFrom
    <3> QED BY <1>1, <2>1, <3>8, LevelLeft
  <2> QED BY <2>2, <2>3, <2>4
<1> QED BY <1>3, <1>4, <1>5, <1>6 DEF QuizStep

LEMMA GetTopicLevel ==
  ASSUME Typed, Typed', LevelPaid, NEW c \in Call, GetTopic(c) PROVE LevelPaid'
<1>1. /\ call[c].at = "getTopic" /\ call[c].op \in {"submitAnswer", "completeStudySession"}
      /\ Alone(c) /\ Same(call'[c], call[c], LeftFields) /\ trouble' = trouble
      /\ call'[c].at = "setMastery" /\ call'[c].base = level[call[c].topic]
  BY GetTopicDoes DEF Leaves, Goes
<1>2. /\ quizzes' = quizzes /\ completed' = completed /\ level' = level
      /\ overlaps' = overlaps /\ repeats' = repeats
  BY DEF GetTopic, quizVars, planVars, history
<1>3. Extra' = Extra /\ Extra \in Nat
  BY <1>1, <1>2, AnsweredSets DEF Extra
<1>4. /\ call'[c].op = call[c].op /\ call'[c].topic = call[c].topic
      /\ call'[c].session = call[c].session
  BY <1>1 DEF Same, LeftFields
<1>5. Rising
  <2>1. CASE call[c].op = "completeStudySession"
    <3>1. \A t \in 1..Topics : Worth(t)' >= Worth(t)
      BY <1>1, <1>2, <1>4, <2>1, WorthGoes
    <3> QED BY <1>1, <1>2, <1>3, <1>4, <2>1, <3>1, CompletionRises
  <2>2. CASE call[c].op = "submitAnswer"
    <3>1. Answered' >= Answered
      BY <1>1, <1>2, <2>2, AnswerMoves
    <3>2. Extra' >= Extra
      BY <1>3
    <3>3. call'[c].op # "completeStudySession"
      BY <1>4, <2>2
    <3> QED BY <1>1, <1>2, <2>2, <3>1, <3>2, <3>3, AnswerRises
  <2> QED BY <1>1, <2>1, <2>2
<1>6. Learned(call'[c], call[c])
  BY <1>1, <1>4 DEF Learned
<1> QED BY <1>1, <1>2, <1>5, <1>6, LevelLeft

LEMMA TaskLevel ==
  ASSUME Typed, Typed', LevelPaid, NEW c \in Call,
         CreateExamTask(c) \/ InsertExam(c) \/ PlanStep(c)
  PROVE  LevelPaid'
<1>1. quizzes' = quizzes /\ level' = level /\ UNCHANGED history
  BY DEF CreateExamTask, InsertExam, PlanStep, InsertPlan, CreateTask, CommitPlan, ReadSession,
         MarkDone, CompleteSession, MoveTask, MoveSession, quizVars
<1>2. Extra \in Nat /\ (trouble' = trouble => Extra' = Extra)
  BY <1>1, AnsweredSets DEF Extra, history
<1>3. ASSUME Falls(c), call[c].op # "none",
             \/ completed' = completed
             \/ call[c].op = "completeStudySession" /\ completed \subseteq completed'
      PROVE  LevelPaid'
  <2>1. Rising
    BY <1>1, <1>3, FallRises
  <2>2. Alone(c) /\ Learned(call'[c], call[c])
    BY <1>3, ThrewLearns DEF Falls
  <2> QED BY <1>1, <2>1, <2>2, LevelLeft
<1>4. ASSUME Alone(c), trouble' = trouble, completed' = completed, call'[c].at # "setMastery",
             {call[c].op, call'[c].op} \cap {"submitAnswer", "completeStudySession"} = {}
      PROVE  LevelPaid'
  <2>1. Extra' >= Extra
    BY <1>2, <1>4
  <2>2. Rising
    BY <1>1, <1>4, <2>1, CalmRises
  <2> QED BY <1>1, <1>4, <2>2, LevelLeft DEF Learned
<1>5. ASSUME Alone(c), trouble' = trouble, completed' = completed, call'[c].at # "setMastery",
             call[c].op = "completeStudySession", Same(call'[c], call[c], LeftFields),
             call[c].at # "completeSession"
      PROVE  LevelPaid'
  <2>1. /\ call'[c].op = call[c].op /\ call'[c].topic = call[c].topic
        /\ call'[c].session = call[c].session
    BY <1>5 DEF Same, LeftFields
  <2>2. \A t \in 1..Topics : Worth(t)' >= Worth(t)
    BY <1>5, <2>1, WorthGoes
  <2>3. Rising
    BY <1>1, <1>2, <1>5, <2>1, <2>2, CompletionRises
  <2> QED BY <1>1, <1>5, <2>3, LevelLeft DEF Learned
<1>6. CASE CompleteSession(c)
  <2>1. call[c].op = "completeStudySession" /\ (Ends(c) \/ Falls(c))
    BY <1>6, CompleteSessionDoes
  <2>2. completed \subseteq completed'
    BY <1>6, SessionCompleted
  <2>3. CASE Ends(c)
    <3>1. Alone(c) /\ trouble' = trouble /\ call'[c].op = "none" /\ call'[c].at # "setMastery"
      BY <2>3, IdleRow DEF Ends
    <3>2. \A t \in 1..Topics : Worth(t)' >= Worth(t)
      BY <1>6, <2>3, WorthCompleted
    <3>3. Rising
      BY <1>1, <1>2, <2>1, <3>1, <3>2, CompletionRises
    <3> QED BY <1>1, <3>1, <3>3, LevelLeft DEF Learned
  <2> QED BY <1>3, <2>1, <2>2, <2>3
<1>7. CASE \/ CreateExamTask(c) \/ InsertExam(c) \/ InsertPlan(c) \/ CreateTask(c)
           \/ CommitPlan(c) \/ MoveTask(c) \/ MoveSession(c)
  <2>1. completed' = completed
    BY <1>7 DEF CreateExamTask, InsertExam, InsertPlan, CreateTask, CommitPlan, MoveTask,
                MoveSession, planVars
  <2>2. /\ call[c].op \in {"createAssessment", "generateStudyPlan", "rescheduleStudySession"}
        /\ \/ Falls(c)
           \/ Ends(c)
           \/ /\ Alone(c) /\ trouble' = trouble /\ call'[c].at # "setMastery"
              /\ call'[c].op = call[c].op
    <3>1. ASSUME NEW at \in Point \ {"setMastery"},
                 NEW fields \in SUBSET (LeftFields \cup {"made"}), Leaves(c, at, fields)
          PROVE  /\ Alone(c) /\ trouble' = trouble /\ call'[c].at # "setMastery"
                 /\ call'[c].op = call[c].op
      BY <3>1 DEF Leaves, Goes, Same, LeftFields
    <3>2. Goes(c, {"at", "made"}) /\ call'[c].at = "createTask" =>
            /\ Alone(c) /\ trouble' = trouble /\ call'[c].at # "setMastery"
            /\ call'[c].op = call[c].op
      BY DEF Goes, Same
    <3>3. {"createTask", "commitPlan", "insertExam", "moveSession"} \subseteq Point \ {"setMastery"}
      BY DEF Point
    <3> HIDE DEF Leaves, Goes, Falls, Ends, Alone
    <3> QED BY <1>7, <3>1, <3>2, <3>3, CreateExamTaskDoes, InsertExamDoes, InsertPlanDoes,
               CreateTaskDoes, CommitPlanDoes, MoveTaskDoes, MoveSessionDoes
  <2>3. Ends(c) => Alone(c) /\ trouble' = trouble /\ call'[c].op = "none" /\ call'[c].at # "setMastery"
    BY IdleRow DEF Ends
  <2> QED BY <1>3, <1>4, <2>1, <2>2, <2>3
<1>8. CASE ReadSession(c) \/ MarkDone(c)
  <2>1. completed' = completed
    BY <1>8 DEF ReadSession, MarkDone, planVars
  <2>2. \/ /\ Alone(c) /\ trouble' = trouble /\ call'[c].at # "setMastery"
           /\ Same(call'[c], call[c], LeftFields) /\ call[c].at # "completeSession"
           /\ call[c].op \in {"completeStudySession", "rescheduleStudySession"}
        \/ Falls(c) /\ call[c].op = "completeStudySession"
    <3>1. Goes(c, {"at"}) => Alone(c) /\ trouble' = trouble /\ Same(call'[c], call[c], LeftFields)
      BY DEF Goes, Same, LeftFields
    <3>2. Leaves(c, "getTopic", LeftFields) =>
            /\ Alone(c) /\ trouble' = trouble /\ Same(call'[c], call[c], LeftFields)
            /\ call'[c].at = "getTopic"
      BY DEF Leaves, Goes
    <3> HIDE DEF Leaves, Goes, Falls, Alone
    <3> QED BY <1>8, <3>1, <3>2, ReadSessionDoes, MarkDoneDoes
  <2>3. Same(call'[c], call[c], LeftFields) => call'[c].op = call[c].op
    BY DEF Same, LeftFields
  <2> QED BY <1>3, <1>4, <1>5, <2>1, <2>2, <2>3
<1> QED BY <1>6, <1>7, <1>8 DEF PlanStep

LEMMA BoundedBelow ==
  ASSUME NEW base \in Nat, NEW delta \in Int, NEW more \in Nat, delta <= more
  PROVE  Bounded(base + delta) \in Int /\ Bounded(base + delta) <= base + more
BY StudyAssumption DEF Bounded

\* The level is written from what was read of it: what the read paid for, and
\* this call's own steps.
LEMMA LevelWritten ==
  ASSUME Typed, Typed', LevelPaid, NEW c \in Call, SetMastery(c), Rising, Alone(c),
         Learned(call'[c], call[c]), call'[c].at # "setMastery", NEW more \in Nat,
         call[c].delta <= more,
         \A t \in 1..Topics : t = call[c].topic => Slack(t)' >= Slack(t) + more
  PROVE  LevelPaid'
<1>1. /\ call[c].at = "setMastery"
      /\ level' = [level EXCEPT ![call[c].topic] = Bounded(call[c].base + call[c].delta)]
  BY SetMasteryDoes DEF SetMastery
<1>2. \A t \in 1..Topics : Slack(t) \in Int /\ Slack(t)' \in Int
  <2> SUFFICES ASSUME NEW t \in 1..Topics PROVE Slack(t) \in Int /\ Slack(t)' \in Int
    OBVIOUS
  <2>1. /\ Worth(t) \in Int /\ Answered \in Int /\ Extra \in Nat
        /\ Worth(t)' \in Int /\ Answered' \in Int /\ Extra' \in Nat
        /\ Slack(t) = Worth(t) + (IF t = 1 THEN 2 * Answered ELSE 0) + Extra
        /\ Slack(t)' = Worth(t)' + (IF t = 1 THEN 2 * Answered' ELSE 0) + Extra'
    BY SlackParts
  <2> HIDE DEF Worth, Answered, Extra, Slack
  <2> QED BY <2>1
<1>3. level \in [1..Topics -> 0..MasteryTop] /\ \A t \in 1..Topics : level[t] \in Int
  <2>1. level \in [1..Topics -> 0..MasteryTop]
    BY DEF Typed, Data
  <2>2. \A t \in 1..Topics : level[t] \in 0..MasteryTop
    BY <2>1
  <2> QED BY <2>1, <2>2, StudyAssumption
<1>4. \A d \in Call : call[d].base \in Nat /\ call[d].delta \in Int
  BY RowFields DEF Typed, Placed
<1>5. \A d \in Call : d = c \/ call'[d] = call[d]
  BY DEF Alone
<1> HIDE DEF Slack
<1>6. ASSUME NEW t \in 1..Topics PROVE level'[t] <= Slack(t)'
  <2>1. CASE t = call[c].topic
    <3>1. level'[t] = Bounded(call[c].base + call[c].delta)
      BY <1>1, <1>3, <2>1
    <3>2. level'[t] \in Int /\ level'[t] <= call[c].base + more
      BY <1>4, <3>1, BoundedBelow
    <3>3. call[c].base <= Slack(t) /\ Slack(t)' >= Slack(t) + more
      BY <1>1, <2>1 DEF LevelPaid
    <3> QED BY <1>2, <1>4, <3>2, <3>3
  <2>2. CASE t # call[c].topic
    <3>1. level'[t] = level[t] /\ level[t] <= Slack(t) /\ Slack(t) <= Slack(t)'
      BY <1>1, <1>3, <2>2 DEF LevelPaid, Rising
    <3> QED BY <1>2, <1>3, <3>1
  <2> QED BY <2>1, <2>2
<1>7. ASSUME NEW t \in 1..Topics, NEW d \in Call, call'[d].at = "setMastery", call'[d].topic = t
      PROVE  call'[d].base <= Slack(t)'
  <2>1. call'[d] = call[d]
    BY <1>5, <1>7
  <2>2. call[d].base <= Slack(t) /\ Slack(t) <= Slack(t)'
    BY <1>7, <2>1 DEF LevelPaid, Rising
  <2> QED BY <1>2, <1>4, <2>1, <2>2
<1> QED BY <1>6, <1>7 DEF LevelPaid

LEMMA SetMasteryLevel ==
  ASSUME Typed, Typed', LevelPaid, NEW c \in Call, SetMastery(c) PROVE LevelPaid'
<1>1. /\ call[c].at = "setMastery" /\ quizzes' = quizzes /\ completed' = completed
      /\ UNCHANGED history
  BY SetMasteryDoes DEF SetMastery, quizVars, planVars
<1>2. /\ \A t \in 1..Topics : Worth(t) \in Int /\ Worth(t)' \in Int
      /\ Answered \in Int /\ Answered' \in Int /\ Extra \in Nat /\ Extra' \in Nat
  BY WorthSets, AnsweredSets, SlackNext
<1>3. trouble' = trouble => Extra' = Extra
  BY <1>1 DEF Extra, history
<1>4. trouble' = trouble + 1 => Extra' = Extra + 2
  BY <1>1 DEF Extra, history, Typed, Counts
<1>5. RowOK(call[c])
  BY NamedBefore
<1>6. CASE call[c].op = "submitAnswer" /\ (Ends(c) \/ Falls(c))
  <2>1. /\ Alone(c) /\ call'[c].op \in {"none", "submitAnswer"} /\ call'[c].at # "setMastery"
        /\ Learned(call'[c], call[c])
        /\ call'[c] = Idle \/ Same(call'[c], call[c], LeftFields)
        /\ call'[c].at \notin {"getQuiz", "writeAnswer"}
    BY <1>1, <1>6, IdleRow DEF Ends, Falls, Threw, Same, LeftFields, Back, Learned
  <2>2. /\ Answered' >= Answered
        /\ call[c].delta = 2 /\ call'[c] = Idle => Answered' >= Answered + 1
    BY <1>1, <1>6, <2>1, AnswerMoves
  <2>3. \A t \in 1..Topics : Worth(t)' = Worth(t)
    BY <1>1, <1>6, <2>1, WorthSame
  <2>4. call[c].topic = 1 /\ call[c].delta \in {-2, 0, 2}
    BY <1>1, <1>5, <1>6 DEF RowOK
  <2>5. PICK more : more = IF call[c].delta = 2 THEN 2 ELSE 0
    OBVIOUS
  <2>6. more \in {0, 2} /\ call[c].delta <= more
    BY <2>4, <2>5
  <2>7. 2 * Answered' + Extra' >= 2 * Answered + Extra + more /\ Extra' >= Extra
    <3>1. CASE Falls(c)
      <4>1. Extra' = Extra + 2
        BY <1>4, <3>1 DEF Falls
      <4> HIDE DEF Answered, Extra
      <4>2. \A a, b, e, f \in Int :
              b >= a /\ f >= e + 2 => 2 * b + f >= 2 * a + e + 2 /\ 2 * b + f >= 2 * a + e + 0 /\ f >= e
        OBVIOUS
      <4>3. Extra' >= Extra + 2 /\ Extra \in Int /\ Extra' \in Int
        BY <1>2, <4>1
      <4>4. /\ 2 * Answered' + Extra' >= 2 * Answered + Extra + 2
            /\ 2 * Answered' + Extra' >= 2 * Answered + Extra + 0 /\ Extra' >= Extra
        BY <1>2, <2>2, <4>2, <4>3, Zenon
      <4> QED BY <2>6, <4>4
    <3>2. CASE Ends(c)
      <4>1. Extra' = Extra /\ call'[c] = Idle
        BY <1>3, <3>2 DEF Ends
      <4> HIDE DEF Answered, Extra
      <4>2. \A a, b, e, f \in Int :
              /\ b >= a /\ f >= e => 2 * b + f >= 2 * a + e + 0 /\ f >= e
              /\ b >= a + 1 /\ f >= e => 2 * b + f >= 2 * a + e + 2 /\ f >= e
        OBVIOUS
      <4>3. Extra' >= Extra /\ Extra \in Int /\ Extra' \in Int
        BY <1>2, <4>1
      <4>4. CASE more = 0
        <5>1. 2 * Answered' + Extra' >= 2 * Answered + Extra + 0
          BY <1>2, <2>2, <4>2, <4>3, Zenon
        <5> QED BY <4>3, <4>4, <5>1
      <4>5. CASE more = 2
        <5>1. Answered' >= Answered + 1
          BY <2>2, <2>5, <4>1, <4>5
        <5>2. 2 * Answered' + Extra' >= 2 * Answered + Extra + 2
          BY <1>2, <4>2, <4>3, <5>1, Zenon
        <5> QED BY <4>3, <4>5, <5>2
      <4> QED BY <2>6, <4>4, <4>5
    <3> QED BY <1>6, <3>1, <3>2
  <2> HIDE DEF Worth, Answered, Extra
  <2>8. Rising
    <3>1. Extra' >= Extra
      BY <2>7
    <3> QED BY <1>1, <1>6, <2>1, <2>2, <3>1, AnswerRises
  <2>9. ASSUME NEW t \in 1..Topics, t = call[c].topic PROVE Slack(t)' >= Slack(t) + more
    <3>1. t = 1
      BY <2>4, <2>9
    <3>2. /\ Slack(t) = Worth(t) + (IF t = 1 THEN 2 * Answered ELSE 0) + Extra
          /\ Slack(t)' = Worth(t)' + (IF t = 1 THEN 2 * Answered' ELSE 0) + Extra'
      BY SlackParts
    <3>3. Slack(t) = Worth(t) + 2 * Answered + Extra /\ Slack(t)' = Worth(t)' + 2 * Answered' + Extra'
      BY <3>1, <3>2
    <3>4. \A w, x, a, b, e, f, m \in Int :
            x >= w /\ 2 * b + f >= 2 * a + e + m => x + 2 * b + f >= w + 2 * a + e + m
      OBVIOUS
    <3>5. /\ Worth(t) \in Int /\ Worth(t)' \in Int /\ Worth(t)' >= Worth(t)
          /\ Extra \in Int /\ Extra' \in Int /\ more \in Int
      BY <1>2, <2>3, <2>6
    <3>6. 2 * Answered' + Extra' >= 2 * Answered + Extra + more
      BY <2>7
    <3>7. Worth(t)' + 2 * Answered' + Extra' >= Worth(t) + 2 * Answered + Extra + more
      BY <1>2, <3>4, <3>5, <3>6, Zenon
    <3> QED BY <3>3, <3>7
  <2>10. more \in Nat
    BY <2>6
  <2> QED BY <2>1, <2>6, <2>8, <2>9, <2>10, LevelWritten
<1>7. CASE call[c].op = "completeStudySession"
           /\ (Leaves(c, "completeSession", LeftFields) \/ Falls(c))
  <2>1. call[c].delta = 1
    BY <1>5, <1>7 DEF RowOK, SessionDelta
  <2>2. /\ Alone(c) /\ call'[c].at # "setMastery" /\ Learned(call'[c], call[c])
        /\ call'[c].op \in {"none", "completeStudySession"}
    BY <1>1, <1>7, IdleRow DEF Leaves, Goes, Falls, Threw, Same, LeftFields, Back, Learned
  <2>3. Answered' = Answered
    BY <1>1, <1>7, <2>2, AnsweredSame
  <2>4. \A t \in 1..Topics : /\ Worth(t)' + Extra' >= Worth(t) + Extra
                             /\ t = call[c].topic => Worth(t)' + Extra' >= Worth(t) + Extra + 1
    <3>1. CASE Falls(c)
      <4>1. \A t \in 1..Topics : Worth(t)' >= Worth(t) - 1
        BY <1>1, <1>7, <2>2, <3>1, WorthFalls DEF Falls
      <4>2. Extra' = Extra + 2
        BY <1>4, <3>1 DEF Falls
      <4> HIDE DEF Worth, Extra
      <4> QED BY <1>2, <4>1, <4>2
    <3>2. CASE Leaves(c, "completeSession", LeftFields)
      <4>1. /\ Alone(c) /\ Same(call'[c], call[c], LeftFields) /\ call'[c].at = "completeSession"
            /\ trouble' = trouble
        BY <3>2 DEF Leaves, Goes
      <4>2. /\ call'[c].op = call[c].op /\ call'[c].topic = call[c].topic
            /\ call'[c].session = call[c].session
        BY <4>1 DEF Same, LeftFields
      <4>3. /\ \A t \in 1..Topics : Worth(t)' >= Worth(t)
            /\ \A t \in 1..Topics : t = call[c].topic => Worth(t)' >= Worth(t) + 1
        BY <1>1, <1>7, <4>1, <4>2, WorthGoes
      <4>4. Extra' = Extra
        BY <1>3, <4>1
      <4> HIDE DEF Worth, Extra
      <4> QED BY <1>2, <4>3, <4>4
    <3> QED BY <1>7, <3>1, <3>2
  <2> HIDE DEF Worth, Answered, Extra
  <2>5. Rising
    <3>1. Answered' >= Answered
      BY <1>2, <2>3
    <3>2. \A t \in 1..Topics : Worth(t)' + Extra' >= Worth(t) + Extra
      BY <2>4
    <3> QED BY <3>1, <3>2, RisesFrom
  <2>6. ASSUME NEW t \in 1..Topics, t = call[c].topic PROVE Slack(t)' >= Slack(t) + 1
    <3>1. /\ Slack(t) = Worth(t) + (IF t = 1 THEN 2 * Answered ELSE 0) + Extra
          /\ Slack(t)' = Worth(t)' + (IF t = 1 THEN 2 * Answered ELSE 0) + Extra'
      BY <2>3, SlackParts
    <3>2. PICK a \in Int : a = IF t = 1 THEN 2 * Answered ELSE 0
      BY <1>2
    <3>3. Worth(t)' + Extra' >= Worth(t) + Extra + 1
      BY <2>4, <2>6
    <3> QED BY <1>2, <3>1, <3>2, <3>3
  <2> QED BY <2>1, <2>2, <2>5, <2>6, LevelWritten
<1> QED BY <1>6, <1>7, SetMasteryDoes

LEMMA LevelInit ==
  ASSUME Init, Typed PROVE LevelPaid
<1>1. /\ quizzes = <<NewQuiz>> /\ level = [t \in 1..Topics |-> 0] /\ call = [c \in Call |-> Idle]
      /\ completed = {} /\ overlaps = 0 /\ repeats = 0 /\ trouble = 0
  BY DEF Init
<1>2. Cardinality({}) = 0
  BY FS_EmptySet
<1>3. \A c \in Call : call[c].op = "none" /\ call[c].at = "idle"
  BY <1>1, IdleRow
<1>4. ASSUME NEW t \in 1..Topics PROVE Slack(t) = 0
  <2>1. Completing(t) = {}
    BY <1>3 DEF Completing, Running
  <2>2. Worked(t) = {} /\ Adding(t) = {}
    <3> HIDE DEF Completing
    <3> QED BY <1>1, <2>1 DEF Worked, Adding
  <2>3. Finished = {}
    <3>1. TotalQuestions # 0
      BY StudyAssumption
    <3> QED BY <1>1, <3>1, SoundNew DEF Finished
  <2>4. Pending = {} /\ Clean = {}
    BY <1>3 DEF Pending, Clean, Writers, Askers
  <2>5. Worth(t) = 0
    <3> HIDE DEF Completing, Worked, Adding
    <3> QED BY <1>2, <2>1, <2>2 DEF Worth, LessOne
  <2>6. Answered = 0
    <3> HIDE DEF Finished, Pending, Clean
    <3> QED BY <1>2, <2>3, <2>4 DEF Answered, One
  <2>7. Extra = 0
    BY <1>1 DEF Extra
  <2> HIDE DEF Worth, Answered, Extra
  <2> QED BY <2>5, <2>6, <2>7 DEF Slack
<1>5. \A t \in 1..Topics : level[t] = 0
  BY <1>1
<1> HIDE DEF Slack
<1> QED BY <1>3, <1>4, <1>5 DEF LevelPaid

LEMMA LevelStep ==
  ASSUME Typed, Typed', LevelPaid, [Next]_vars PROVE LevelPaid'
<1>1. CASE Crash
  BY <1>1, CrashLevel
<1>2. CASE UNCHANGED vars
  <2>1. /\ call' = call /\ quizzes' = quizzes /\ completed' = completed /\ level' = level
        /\ Extra' = Extra
    BY <1>2 DEF vars, Extra
  <2>2. \A t \in 1..Topics : Worth(t)' = Worth(t)
    BY <2>1 DEF Worth, LessOne, Worked, Adding, Completing, Running
  <2>3. Pending' = Pending /\ Finished' = Finished
    BY <2>1 DEF Pending, Finished
  <2>4. Clean' = Clean
    BY <2>1 DEF Clean, Writers, Askers, Base
  <2>5. Answered' = Answered
    BY <2>3, <2>4 DEF Answered, One
  <2>6. \A t \in 1..Topics : Slack(t)' = Slack(t)
    <3> HIDE DEF Worth, Answered, Extra
    <3> QED BY <2>1, <2>2, <2>5 DEF Slack
  <2> HIDE DEF Slack
  <2> QED BY <2>1, <2>6 DEF LevelPaid
<1>3. ASSUME NEW c \in Call, Begin(c) \/ Step(c) \/ Fails(c) PROVE LevelPaid'
  <2>1. CASE Begin(c)
    BY <2>1, BeginLevel
  <2>2. CASE Fails(c)
    BY <2>2, FailsLevel
  <2>3. CASE Connect(c)
    BY <2>3, ConnectLevel
  <2>4. CASE QuizStep(c)
    BY <2>4, QuizLevel
  <2>5. CASE CourseStep(c)
    BY <2>5, GetTopicLevel, SetMasteryLevel, TaskLevel DEF CourseStep
  <2>6. CASE PlanStep(c)
    BY <2>6, TaskLevel
  <2> QED BY <1>3, <2>1, <2>2, <2>3, <2>4, <2>5, <2>6 DEF Step
<1> QED BY <1>1, <1>2, <1>3 DEF Next

\* What is left when the calls under way are counted in full.
LEMMA LevelBacked ==
  ASSUME Typed, LevelPaid PROVE MasteryBacked
<1> SUFFICES ASSUME NEW t \in 1..Topics
             PROVE  level[t] <= 2 * (IF t = 1 THEN Cardinality(Finished) ELSE 0)
                                + Cardinality({s \in completed : s[2] = t})
                                + Cardinality(Completing(t)) + Extra
  <2> SUFFICES ASSUME NEW t \in 1..Topics
               PROVE  level[t] <= 2 * (IF t = 1 THEN Cardinality(Finished) ELSE 0)
                                  + Cardinality({s \in completed : s[2] = t})
                                  + Cardinality(Completing(t)) + repeats + 2 * (overlaps + trouble)
    BY DEF MasteryBacked, Finished
  <2>1. PICK d, w, f, y : /\ d = Cardinality({s \in completed : s[2] = t})
                          /\ w = Cardinality(Completing(t))
                          /\ f = 2 * (IF t = 1 THEN Cardinality(Finished) ELSE 0)
                          /\ y = 2 * (overlaps + trouble)
    OBVIOUS
  <2>2. d \in Nat /\ w \in Nat
    <3>1. {s \in completed : s[2] = t} \in SUBSET Worked(t) /\ IsFiniteSet(Worked(t))
      BY WorthSets DEF Worked
    <3> QED BY <2>1, <3>1, WorthSets, FS_Subset, FS_CardinalityType
  <2>3. f \in Int /\ y \in Int /\ repeats \in Int
    <3>1. Cardinality(Finished) \in Nat /\ repeats \in Nat /\ overlaps \in Nat /\ trouble \in Nat
      BY AnsweredSets, StudyAssumption DEF Typed, Counts
    <3> QED BY <2>1, <3>1
  <2>4. Extra = repeats + y
    BY <2>1 DEF Extra
  <2>5. level[t] <= f + d + w + Extra
    BY <2>1
  <2>6. f + d + w + Extra = f + d + w + repeats + y
    BY <2>2, <2>3, <2>4
  <2> QED BY <2>1, <2>5, <2>6
<1>1. PICK done, named : /\ done = {s \in completed : s[2] = t}
                         /\ named = {call[c].session : c \in Completing(t)}
  OBVIOUS
<1>2. Worked(t) = done \cup named
  BY <1>1 DEF Worked
<1>3. /\ IsFiniteSet(Worked(t)) /\ IsFiniteSet(Completing(t)) /\ Cardinality(Worked(t)) \in Nat
      /\ Cardinality(Adding(t)) \in Nat /\ Cardinality(Completing(t)) \in Nat
      /\ LessOne(Completing(t)) \in Nat
  BY WorthSets
<1>4. /\ IsFiniteSet(named) /\ Cardinality(named) \in Nat
      /\ Cardinality(named) <= Cardinality(Completing(t))
  <2> DEFINE f == [c \in Completing(t) |-> call[c].session]
  <2>1. f \in Surjection(Completing(t), named)
    <3> HIDE DEF Completing
    <3> QED BY <1>1 DEF Surjection
  <2> HIDE DEF f, Completing
  <2> QED BY <1>3, <2>1, FS_Surjection, FS_CardinalityType
<1>5. /\ IsFiniteSet(done) /\ Cardinality(done) \in Nat
      /\ Cardinality(Worked(t)) <= Cardinality(done) + Cardinality(named)
  <2>1. IsFiniteSet(done) /\ Cardinality(done) \in Nat
    BY <1>2, <1>3, FS_Subset, FS_CardinalityType
  <2>2. Cardinality(done \cup named)
          = Cardinality(done) + Cardinality(named) - Cardinality(done \cap named)
    BY <1>4, <2>1, FS_Union
  <2>3. Cardinality(done \cap named) \in Nat
    BY <2>1, Fewer
  <2> HIDE DEF Worked
  <2> QED BY <1>2, <1>4, <2>1, <2>2, <2>3
<1>6. Worth(t) = Cardinality(Worked(t)) - Cardinality(Adding(t)) - LessOne(Completing(t))
  BY DEF Worth
<1>7. Worth(t) \in Int /\ Worth(t) <= Cardinality(done) + Cardinality(Completing(t))
  <2> HIDE DEF Worked, Adding, Completing, Worth, LessOne
  <2> QED BY <1>3, <1>4, <1>5, <1>6
<1>8. Answered \in Int /\ Cardinality(Finished) \in Nat /\ Answered <= Cardinality(Finished)
  <2>1. /\ Cardinality(Finished) \in Nat /\ Cardinality(Pending) \in Nat /\ One(Clean) \in {0, 1}
        /\ IsFiniteSet(Pending) /\ Clean \subseteq Pending
    BY AnsweredSets
  <2>2. Pending # {} => Cardinality(Pending) # 0
    BY <2>1, FS_EmptySet
  <2>3. Clean = {} => One(Clean) = 0
    BY DEF One
  <2>4. Answered = Cardinality(Finished) - Cardinality(Pending) + One(Clean)
    BY DEF Answered
  <2> HIDE DEF Finished, Pending, Clean, One, Answered
  <2> QED BY <2>1, <2>2, <2>3, <2>4
<1>9. /\ level[t] <= Slack(t)
      /\ Slack(t) = Worth(t) + (IF t = 1 THEN 2 * Answered ELSE 0) + Extra
  BY DEF LevelPaid, Slack
<1>10. level[t] \in Int /\ Extra \in Int
  <2>1. level[t] \in 0..MasteryTop /\ Extra \in Nat
    BY AnsweredSets DEF Typed, Data
  <2> QED BY <2>1, StudyAssumption
<1> HIDE DEF Worth, Answered, Extra, Slack, Finished, Completing
<1>11. CASE t = 1
  <2>1. level[t] <= Worth(t) + 2 * Answered + Extra
    BY <1>9, <1>11
  <2>2. 2 * Answered <= 2 * Cardinality(Finished)
    BY <1>8
  <2> QED BY <1>1, <1>3, <1>5, <1>7, <1>8, <1>10, <1>11, <2>1, <2>2
<1>12. CASE t # 1
  <2>1. level[t] <= Worth(t) + 0 + Extra
    BY <1>9, <1>12
  <2> QED BY <1>1, <1>3, <1>5, <1>7, <1>10, <1>12, <2>1
<1> QED BY <1>11, <1>12

\* The mastery of a topic is backed by work: the code adds to a level it read in
\* another scope, may add for one session or one last answer more than once, and
\* loses its place when a connection is lost; what is credited beyond sessions
\* and quizzes was paid by a repetition, an overlap or a trouble each time.
THEOREM MasteryBackedHolds == Spec => []MasteryBacked
<1>1. Init => Typed /\ LevelPaid
  BY TypedInit, LevelInit
<1>2. Typed /\ LevelPaid /\ [Next]_vars => Typed' /\ LevelPaid'
  BY TypedStep, LevelStep
<1>3. Typed /\ LevelPaid => MasteryBacked
  BY LevelBacked
<1> QED BY <1>1, <1>2, <1>3, PTL DEF Spec
=============================================================================
