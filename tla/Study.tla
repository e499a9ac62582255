-------------------------------- MODULE Study --------------------------------
(***************************************************************************)
(* Quizzes, study plans and topic mastery of one user:                     *)
(* src/core/study/QuizService.ts, StudyPlanService.ts, CourseService.ts,   *)
(* run inside the user scopes of src/db/pool.ts.                           *)
(*                                                                         *)
(* A user scope is a transaction on a connection of a bounded pool.  The   *)
(* study services open scopes inside scopes, each on a connection of its   *)
(* own, so that the work of an inner scope is committed whatever becomes   *)
(* of the outer one, and a call may hold connections while it waits for    *)
(* another.  A scope whose connection is lost, even at its COMMIT, runs    *)
(* its function once more.                                                 *)
(*                                                                         *)
(* A step is one awaited statement, or the last statements of a scope with *)
(* its COMMIT: what a transaction wrote is seen by others from its COMMIT. *)
(* What only delays (row locks between two UPDATEs, the language model's   *)
(* answer before a quiz, the reads of course and calendar before a plan)   *)
(* is left out.  Mastery is counted in steps of five points.               *)
(***************************************************************************)
EXTENDS Integers, FiniteSets, Sequences, Functions

CONSTANTS Call,           \* requests and tool calls that may overlap
          PoolSize,       \* connections of the pool (10)
          TotalQuestions, \* questions of a quiz
          Topics,         \* topics of the course, one session each
          MasteryTop,     \* the highest mastery level (100 points)
          MaxCalls,       \* bound: calls ever begun
          MaxTrouble,     \* bound: lost connections, errors and crashes
          MaxEvents       \* bound: calls and troubles together

ASSUME StudyAssumption ==
    /\ IsFiniteSet(Call)
    /\ PoolSize \in Nat \ {0} /\ TotalQuestions \in Nat \ {0}
    /\ Topics \in Nat \ {0} /\ MasteryTop \in Nat \ {0}
    /\ MaxCalls \in Nat /\ MaxTrouble \in Nat /\ MaxEvents \in Nat

VARIABLES quizzes,   \* the quizzes rows, in the order of their creation
          plans,     \* committed plans: each the sequence of its sessions
          tasks,     \* the tasks rows the study services created
          exams,     \* committed assessments: the linked task, or none
          level,     \* mastery level of each topic
          call,      \* where each call is, and what it has read
          begun,     \* how many calls were begun
          acked,     \* answers acknowledged, by quiz
          completed, \* sessions ever completed
          overlaps,  \* calls begun during another call of the same concern
          repeats,   \* sessions completed once more
          trouble    \* troubles so far

vars == <<quizzes, plans, tasks, exams, level, call, begun, acked, completed,
          overlaps, repeats, trouble>>

quizVars == <<quizzes, acked>>
planVars == <<plans, tasks, exams, completed>>
history == <<begun, overlaps, repeats>>

-----------------------------------------------------------------------------
(* Rows *)

NoTask == 0

NewQuiz == [status |-> "ACTIVE", index |-> 0, score |-> 0, answers |-> <<>>]

\* Mutant: only a quiz nobody answered yet is closed.
PriorUnanswered == {q \in DOMAIN quizzes : quizzes[q].status \in {"CREATED", "ACTIVE"}}

\* What generateQuiz closes before it inserts.
Prior == {q \in DOMAIN quizzes :
            quizzes[q].status \in {"CREATED", "ACTIVE", "ANSWERING"}}

Answerable(quiz) == quiz.status \notin {"COMPLETED", "REVIEWED"}

LastAnswered(index) == index >= TotalQuestions

\* Mutant: index and score are incremented in the row (score = score + 1).
WrittenInPlace(now, copy, right) ==
    [status |-> IF LastAnswered(copy.index + 1) THEN "COMPLETED" ELSE "ANSWERING",
     index |-> now.index + 1,
     score |-> now.score + (IF right THEN 1 ELSE 0),
     answers |-> Append(copy.answers, right)]

\* Mutant: a wrong answer leaves the question open.
WrittenIfRight(now, copy, right) ==
    IF ~right THEN [copy EXCEPT !.status = "ANSWERING"]
    ELSE [status |-> IF LastAnswered(copy.index + 1) THEN "COMPLETED" ELSE "ANSWERING",
          index |-> copy.index + 1, score |-> copy.score + 1,
          answers |-> Append(copy.answers, right)]

\* The row submitAnswer writes, computed from the copy it has read.
Written(now, copy, right) ==
    [status |-> IF LastAnswered(copy.index + 1) THEN "COMPLETED" ELSE "ANSWERING",
     index |-> copy.index + 1,
     score |-> copy.score + (IF right THEN 1 ELSE 0),
     answers |-> Append(copy.answers, right)]

QuizDelta(score) ==
    IF score * 100 >= 80 * TotalQuestions THEN 2
    ELSE IF score * 100 >= 50 * TotalQuestions THEN 0 ELSE -2

SessionDelta == 1

\* Mutant: only the upper end is enforced.
BoundedAbove(n) == IF n > MasteryTop THEN MasteryTop ELSE n

Bounded(n) == IF n < 0 THEN 0 ELSE IF n > MasteryTop THEN MasteryTop ELSE n

\* Sessions are named by their plan and their place in it; a session's place
\* is also its topic.
Sessions == {s \in (1..Len(plans)) \X (1..Topics) : s[2] \in DOMAIN plans[s[1]]}

Session(s) == plans[s[1]][s[2]]

-----------------------------------------------------------------------------
(* Calls and their scopes *)

Idle == [op |-> "none", at |-> "idle", held |-> 0, again |-> {}, serial |-> 0,
         quiz |-> 0, session |-> <<0, 0>>, right |-> FALSE, copy |-> NewQuiz,
         prior |-> {}, made |-> <<>>, topic |-> 0, delta |-> 0, base |-> 0]

\* The scopes a step runs in, outermost first, each named by the step its
\* function begins with.
Scopes(op, at) ==
    CASE op = "generateQuiz" -> <<"closePrior">>
      [] op = "submitAnswer" /\ at = "getTopic" -> <<"getTopic", "getTopic">>
      [] op = "submitAnswer" /\ at = "setMastery" -> <<"getTopic">>
      [] op = "generateStudyPlan" /\ at = "createTask" -> <<"insertPlan", "createTask">>
      [] op = "generateStudyPlan" /\ at # "createTask" -> <<"insertPlan">>
      [] op = "completeStudySession" /\ at = "markDone" -> <<"readSession", "markDone">>
      [] op = "completeStudySession" /\ at = "getTopic" ->
            <<"readSession", "getTopic", "getTopic">>
      [] op = "completeStudySession" /\ at = "setMastery" -> <<"readSession", "getTopic">>
      [] op = "rescheduleStudySession" /\ at = "moveTask" -> <<"readSession", "moveTask">>
      [] op \in {"completeStudySession", "rescheduleStudySession"}
            /\ at \in {"readSession", "completeSession", "moveSession"} -> <<"readSession">>
      [] OTHER -> <<at>>

Depth(c) == Len(Scopes(call[c].op, call[c].at))

Running == {c \in Call : call[c].op # "none"}

\* Mutant: a failing createTask does not stop the plan.
SwallowedInPlan(op, at) ==
    CASE at = "markDone" -> "getTopic"
      [] op = "completeStudySession" /\ at \in {"getTopic", "setMastery"} ->
            "completeSession"
      [] at = "moveTask" -> "moveSession"
      [] at = "createExamTask" -> "insertExam"
      [] at = "createTask" -> "commitPlan"
      [] OTHER -> "idle"

\* Where the code goes on when it swallows what a step throws.
Swallowed(op, at) ==
    CASE at = "markDone" -> "getTopic"
      [] op = "completeStudySession" /\ at \in {"getTopic", "setMastery"} ->
            "completeSession"
      [] at = "moveTask" -> "moveSession"
      [] at = "createExamTask" -> "insertExam"
      [] OTHER -> "idle"

\* The scope whose exception is swallowed, or the outermost.
CaughtAt(op, at) ==
    IF Swallowed(op, at) # "idle" /\ op # "createAssessment" THEN 2 ELSE 1

\* The connections that are taken, each by its call and its place there.
Taken == {h \in Call \X (1..3) : h[2] <= call[h[1]].held}

Connections == Cardinality(Taken)

At(c, at) == call[c].at = at /\ call[c].held = Depth(c)

\* Mutant: an inner scope keeps its connection.
LeftConnected(c, at) ==
    IF at = "idle" THEN Idle
    ELSE [call[c] EXCEPT !.at = at, !.copy = NewQuiz, !.base = 0]

\* The call after its innermost scope ended, going on at a step.
Left(c, at) ==
    IF at = "idle" THEN Idle
    ELSE [call[c] EXCEPT !.at = at, !.held = @ - 1, !.copy = NewQuiz, !.base = 0,
                         !.again = @ \cap 1..(call[c].held - 1)]

\* The call after its innermost scope threw: the innermost scope not run again
\* yet is, if the connection was lost; otherwise the exception leaves them all.
Thrown(c, lost) ==
    LET me == call[c]
        outer == CaughtAt(me.op, me.at)
        retried == {k \in outer..me.held : lost /\ k \notin me.again}
        then == Swallowed(me.op, me.at)
    IN  IF retried # {}
        THEN LET k == CHOOSE k \in retried : \A j \in retried : j <= k
             IN  [me EXCEPT !.at = Scopes(me.op, me.at)[k], !.held = k - 1,
                            !.again = (@ \cap 1..(k - 1)) \cup {k}]
        ELSE IF then = "idle" THEN Idle
        ELSE [me EXCEPT !.at = then, !.held = outer - 1,
                        !.again = @ \cap 1..(outer - 1)]

-----------------------------------------------------------------------------
(* Initial state: a quiz has been generated and a plan made *)

Init ==
    /\ quizzes = <<NewQuiz>>
    /\ plans = <<[i \in 1..Topics |-> [status |-> "scheduled", task |-> i, start |-> 0]]>>
    /\ tasks = [i \in 1..Topics |-> [done |-> FALSE, due |-> 0]]
    /\ exams = <<>>
    /\ level = [t \in 1..Topics |-> 0]
    /\ call = [c \in Call |-> Idle]
    /\ begun = 0
    /\ acked = <<0>>
    /\ completed = {}
    /\ overlaps = 0 /\ repeats = 0 /\ trouble = 0

-----------------------------------------------------------------------------
(* Begin and end of scopes *)

Calling(c, r, concern) ==
    /\ call[c].op = "none" /\ begun < MaxCalls /\ begun + trouble < MaxEvents
    /\ call' = [call EXCEPT ![c] = [r EXCEPT !.held = call[c].held]]
    /\ begun' = begun + 1
    /\ overlaps' = overlaps + Cardinality({d \in Running : call[d].op \in concern})

QuizCalls == {"generateQuiz", "submitAnswer"}
SessionCalls == {"completeStudySession", "rescheduleStudySession"}

BeginQuiz(c) ==
    \/ Calling(c, [Idle EXCEPT !.op = "generateQuiz", !.at = "closePrior"], QuizCalls)
    \/ \E q \in DOMAIN quizzes, right \in BOOLEAN :
          Calling(c, [Idle EXCEPT !.op = "submitAnswer", !.at = "getQuiz",
                                  !.quiz = q, !.right = right], QuizCalls)

BeginPlan(c) ==
    \/ Calling(c, [Idle EXCEPT !.op = "generateStudyPlan", !.at = "insertPlan",
                             !.serial = begun + 1], {})
    \/ Calling(c, [Idle EXCEPT !.op = "createAssessment", !.at = "createExamTask",
                             !.serial = begun + 1], {})
    \/ \E s \in Sessions :
          Calling(c, [Idle EXCEPT !.op = "rescheduleStudySession", !.at = "readSession",
                                  !.session = s, !.serial = begun + 1], SessionCalls)

BeginCompletion(c) ==
    \E s \in Sessions :
       /\ Calling(c, [Idle EXCEPT !.op = "completeStudySession", !.at = "readSession",
                                  !.session = s, !.topic = s[2],
                                  !.delta = SessionDelta], SessionCalls)
       /\ repeats' = IF \/ s \in completed
                        \/ \E d \in Running : /\ call[d].op = "completeStudySession"
                                              /\ call[d].session = s
                     THEN repeats + 1 ELSE repeats

Begin(c) ==
    /\ \/ BeginQuiz(c) /\ UNCHANGED repeats
       \/ BeginPlan(c) /\ UNCHANGED repeats
       \/ BeginCompletion(c)
    /\ UNCHANGED <<quizVars, planVars, level, trouble>>

\* pool.connect() waits until a connection is free.
Connect(c) ==
    /\ call[c].op # "none" /\ call[c].held < Depth(c)
    /\ Connections < PoolSize
    /\ call' = [call EXCEPT ![c].held = @ + 1]
    /\ UNCHANGED <<quizVars, planVars, level, history, trouble>>

MoreTrouble ==
    /\ trouble < MaxTrouble /\ begun + trouble < MaxEvents
    /\ trouble' = trouble + 1

\* COMMIT is answered, or the connection is lost after it took effect.
Commits(c, next) ==
    \/ call' = [call EXCEPT ![c] = next] /\ UNCHANGED trouble
    \/ /\ MoreTrouble
       /\ call' = [call EXCEPT ![c] = Thrown(c, TRUE)]

\* A statement fails, because the connection is lost or for another reason.
Fails(c) ==
    /\ call[c].op # "none" /\ call[c].held = Depth(c)
    /\ MoreTrouble
    /\ \E lost \in BOOLEAN : call' = [call EXCEPT ![c] = Thrown(c, lost)]
    /\ UNCHANGED <<quizVars, planVars, level, history>>

\* The process dies: the database rolls back what was not committed.
Crash ==
    /\ Running # {} /\ MoreTrouble
    /\ call' = [c \in Call |-> Idle]
    /\ UNCHANGED <<quizVars, planVars, level, history>>

-----------------------------------------------------------------------------
(* QuizService *)

\* generateQuiz: the quizzes of the UPDATE are those its statement sees.
ClosePrior(c) ==
    /\ At(c, "closePrior")
    /\ call' = [call EXCEPT ![c].at = "insertQuiz", ![c].prior = Prior]
    /\ UNCHANGED <<quizVars, planVars, level, history, trouble>>

InsertQuiz(c) ==
    /\ At(c, "insertQuiz")
    /\ quizzes' = Append([q \in DOMAIN quizzes |->
                            IF q \in call[c].prior
                            THEN [quizzes[q] EXCEPT !.status = "COMPLETED"]
                            ELSE quizzes[q]], NewQuiz)
    /\ acked' = Append(acked, 0)
    /\ Commits(c, Idle)
    /\ UNCHANGED <<planVars, level, history>>

\* submitAnswer ends at once when the quiz it reads is over.
GetQuiz(c) ==
    LET quiz == quizzes[call[c].quiz]
    IN  /\ At(c, "getQuiz")
        /\ call' = [call EXCEPT ![c] =
              IF Answerable(quiz) /\ ~LastAnswered(quiz.index)
              THEN [Left(c, "writeAnswer") EXCEPT !.copy = quiz]
              ELSE Idle]
        /\ UNCHANGED <<quizVars, planVars, level, history, trouble>>

\* A finished quiz goes on to adjust the mastery of its topic, the first.
WriteAnswer(c) ==
    LET q == call[c].quiz
        row == Written(quizzes[q], call[c].copy, call[c].right)
        next == IF LastAnswered(row.index)
                THEN [Left(c, "getTopic") EXCEPT !.topic = 1,
                                                 !.delta = QuizDelta(row.score)]
                ELSE Idle
    IN  /\ At(c, "writeAnswer")
        /\ \A d \in Call : call[d].at = "insertQuiz" => q \notin call[d].prior
        /\ quizzes' = [quizzes EXCEPT ![q] = row]
        /\ Commits(c, next)
        /\ acked' = IF call'[c] = next THEN [acked EXCEPT ![q] = @ + 1] ELSE acked
        /\ UNCHANGED <<planVars, level, history>>

-----------------------------------------------------------------------------
(* CourseService *)

\* updateTopicMastery reads the topic in a scope of its own ...
GetTopic(c) ==
    /\ At(c, "getTopic")
    /\ call' = [call EXCEPT ![c] = [Left(c, "setMastery") EXCEPT
                                      !.base = level[call[c].topic]]]
    /\ UNCHANGED <<quizVars, planVars, level, history, trouble>>

\* ... and writes the level computed from what it read.
SetMastery(c) ==
    /\ At(c, "setMastery")
    /\ level' = [level EXCEPT ![call[c].topic] = Bounded(call[c].base + call[c].delta)]
    /\ Commits(c, IF call[c].op = "submitAnswer" THEN Idle ELSE Left(c, "completeSession"))
    /\ UNCHANGED <<quizVars, planVars, history>>

\* createAssessment: the task is committed before the row that links it.
CreateExamTask(c) ==
    /\ At(c, "createExamTask")
    /\ tasks' = Append(tasks, [done |-> FALSE, due |-> call[c].serial])
    /\ Commits(c, [Left(c, "insertExam") EXCEPT !.made = <<Len(tasks')>>])
    /\ UNCHANGED <<quizVars, plans, exams, completed, level, history>>

\* Mutant: the task's id is lost (an inner variable shadows it).
LinkedNever(c) == NoTask

LinkedTask(c) == IF call[c].made = <<>> THEN NoTask ELSE call[c].made[1]

InsertExam(c) ==
    /\ At(c, "insertExam")
    /\ exams' = Append(exams, LinkedTask(c))
    /\ Commits(c, Idle)
    /\ UNCHANGED <<quizVars, plans, tasks, completed, level, history>>

-----------------------------------------------------------------------------
(* StudyPlanService *)

InsertPlan(c) ==
    /\ At(c, "insertPlan")
    /\ call' = [call EXCEPT ![c].at = "createTask", ![c].made = <<>>]
    /\ UNCHANGED <<quizVars, planVars, level, history, trouble>>

AllCreated(made) == Len(made) = Topics

\* createTask commits on a connection of its own; the session that links the
\* task waits for the plan's COMMIT.
CreateTask(c) ==
    LET made == Append(call[c].made, Len(tasks) + 1)
    IN  /\ At(c, "createTask")
        /\ tasks' = Append(tasks, [done |-> FALSE, due |-> call[c].serial])
        /\ Commits(c, [Left(c, IF AllCreated(made) THEN "commitPlan" ELSE "createTask")
                         EXCEPT !.made = made])
        /\ UNCHANGED <<quizVars, plans, exams, completed, level, history>>

Planned(c) == [i \in DOMAIN call[c].made |->
                 [status |-> "scheduled", task |-> call[c].made[i],
                  start |-> call[c].serial]]

CommitPlan(c) ==
    /\ At(c, "commitPlan")
    /\ plans' = Append(plans, Planned(c))
    /\ Commits(c, Idle)
    /\ UNCHANGED <<quizVars, tasks, exams, completed, level, history>>

\* Mutant: only a session still scheduled has its task marked.
AfterReadingScheduled(c) ==
    IF call[c].op # "completeStudySession" THEN "moveTask"
    ELSE IF Session(call[c].session).status = "scheduled" THEN "markDone" ELSE "getTopic"

\* Neither completion nor rescheduling looks at the session's status.
AfterReading(c) ==
    IF call[c].op = "completeStudySession" THEN "markDone" ELSE "moveTask"

ReadSession(c) ==
    /\ At(c, "readSession")
    /\ call' = [call EXCEPT ![c].at = AfterReading(c)]
    /\ UNCHANGED <<quizVars, planVars, level, history, trouble>>

TaskOf(c) == Session(call[c].session).task

MarkDone(c) ==
    /\ At(c, "markDone")
    /\ tasks' = [tasks EXCEPT ![TaskOf(c)].done = TRUE]
    /\ Commits(c, Left(c, "getTopic"))
    /\ UNCHANGED <<quizVars, plans, exams, completed, level, history>>

\* Mutant: the UPDATE asks for a scheduled session.
DoneIfScheduled(session) ==
    IF session.status = "scheduled" THEN [session EXCEPT !.status = "completed"] ELSE session

Done(session) == [session EXCEPT !.status = "completed"]

CompleteSession(c) ==
    LET s == call[c].session
    IN  /\ At(c, "completeSession")
        /\ plans' = [plans EXCEPT ![s[1]][s[2]] = Done(@)]
        /\ completed' = IF Done(Session(s)).status = "completed"
                        THEN completed \cup {s} ELSE completed
        /\ Commits(c, Idle)
        /\ UNCHANGED <<quizVars, tasks, exams, level, history>>

MoveTask(c) ==
    /\ At(c, "moveTask")
    /\ tasks' = [tasks EXCEPT ![TaskOf(c)].due = call[c].serial]
    /\ Commits(c, Left(c, "moveSession"))
    /\ UNCHANGED <<quizVars, plans, exams, completed, level, history>>

Moved(session, start) == [session EXCEPT !.status = "rescheduled", !.start = start]

MoveSession(c) ==
    /\ At(c, "moveSession")
    /\ plans' = [plans EXCEPT ![call[c].session[1]][call[c].session[2]] =
                    Moved(@, call[c].serial)]
    /\ Commits(c, Idle)
    /\ UNCHANGED <<quizVars, tasks, exams, completed, level, history>>

-----------------------------------------------------------------------------

QuizStep(c) == ClosePrior(c) \/ InsertQuiz(c) \/ GetQuiz(c) \/ WriteAnswer(c)

CourseStep(c) == GetTopic(c) \/ SetMastery(c) \/ CreateExamTask(c) \/ InsertExam(c)

PlanStep(c) ==
    \/ InsertPlan(c) \/ CreateTask(c) \/ CommitPlan(c) \/ ReadSession(c)
    \/ MarkDone(c) \/ CompleteSession(c) \/ MoveTask(c) \/ MoveSession(c)

Step(c) == Connect(c) \/ QuizStep(c) \/ CourseStep(c) \/ PlanStep(c)

Next == Crash \/ \E c \in Call : Begin(c) \/ Step(c) \/ Fails(c)

Spec == Init /\ [][Next]_vars

-----------------------------------------------------------------------------
(* Properties *)

Rows == [status : {"CREATED", "ACTIVE", "ANSWERING", "COMPLETED", "REVIEWED"},
         index : 0..TotalQuestions, score : 0..TotalQuestions,
         answers : Seq(BOOLEAN)]

\* Every row and every call is of its type; no more connections are taken than
\* the pool has.
TypeOK ==
    /\ quizzes \in Seq(Rows) /\ Len(acked) = Len(quizzes)
    /\ \A p \in DOMAIN plans : \A i \in DOMAIN plans[p] :
          plans[p][i].status \in {"scheduled", "rescheduled", "completed"}
    /\ \A t \in DOMAIN tasks : tasks[t].done \in BOOLEAN /\ tasks[t].due \in 0..MaxCalls
    /\ level \in [1..Topics -> 0..MasteryTop]
    /\ begun \in 0..MaxCalls /\ trouble \in 0..MaxTrouble
    /\ \A c \in Call : call[c].held \in 0..3 /\ call[c].again \subseteq 1..3
    /\ Connections <= PoolSize

\* A quiz row never contradicts itself, however answers overlap, are written
\* twice or overwrite each other: its score counts its right answers, its index
\* counts its answers, and a row open for answers has a question left.
QuizRowSound ==
    \A q \in DOMAIN quizzes :
       LET row == quizzes[q]
       IN  /\ row.index = Len(row.answers)
           /\ row.score = Cardinality({i \in DOMAIN row.answers : row.answers[i]})
           /\ Answerable(row) => ~LastAnswered(row.index)

\* What getActiveQuiz chooses from.
Live == {q \in DOMAIN quizzes : quizzes[q].status \in {"ACTIVE", "ANSWERING"}}

\* One quiz is active at a time ("so only 1 quiz is active at a time"): every
\* other live quiz was paid by a quiz call that began during another, whatever
\* was lost, retried or cut off.
OneActive == Cardinality(Live) <= 1 + overlaps

\* An answer that was acknowledged is in the quiz row, unless an overlapping
\* call overwrote it with what it had computed from an older copy.
AnswersKept == \A q \in DOMAIN quizzes : acked[q] <= quizzes[q].index + overlaps

Completing(t) == {c \in Running : call[c].op = "completeStudySession" /\ call[c].topic = t}

\* Mastery is backed by work: two steps for each quiz answered to its end, one
\* for each session ever completed or being completed, and what repeated
\* completions, overlapping answers and troubles credited once more.
MasteryBacked ==
    \A t \in 1..Topics :
       level[t] <= 2 * (IF t = 1 THEN Cardinality({q \in DOMAIN quizzes :
                                         quizzes[q].index = TotalQuestions}) ELSE 0)
                   + Cardinality({s \in completed : s[2] = t})
                   + Cardinality(Completing(t)) + repeats + 2 * (overlaps + trouble)

\* A plan is committed whole or not at all: it has a session for every topic,
\* and every session its own committed task.
PlanWhole ==
    /\ \A p \in DOMAIN plans : DOMAIN plans[p] = 1..Topics
    /\ \A s \in Sessions : Session(s).task \in DOMAIN tasks
    /\ \A s, r \in Sessions : Session(s).task = Session(r).task => s = r

Linked == {Session(s).task : s \in Sessions} \cup (Range(exams) \ {NoTask})

BeingLinked == UNION {Range(call[c].made) : c \in Running}

\* A task nobody links (a reminder of a study session that does not exist) was
\* left by a trouble: at most the tasks of one plan for each call it ended.
OrphansPaid ==
    Cardinality((DOMAIN tasks) \ (Linked \cup BeingLinked)) <= Topics * Cardinality(Call) * trouble

\* The reminder follows the session: without trouble and overlap, the task of a
\* session no call is changing is due when the session starts, and is done just
\* when the session was completed.
TaskFollowsSession ==
    \A s \in Sessions :
       (trouble = 0 /\ overlaps = 0 /\ \A c \in Running : call[c].session # s) =>
          LET task == tasks[Session(s).task]
          IN  task.due = Session(s).start /\ (task.done <=> s \in completed)

\* The scopes the running calls may hold while they wait for one more fill the
\* pool.
Widest(op) ==
    CASE op \in {"submitAnswer", "generateStudyPlan", "rescheduleStudySession"} -> 2
      [] op = "completeStudySession" -> 3
      [] OTHER -> 1

Holdable == {h \in Running \X (1..2) : h[2] < Widest(call[h[1]].op)}

Overcommitted == Cardinality(Holdable) >= PoolSize

\* The pool cannot lock up while it is not overcommitted: some running call has
\* its connections, or can get one.
SomeoneProceeds ==
    (Running # {} /\ ~Overcommitted) => \E c \in Running : 
       \/ call[c].held = Depth(c)
       \/ call[c].held < Depth(c) /\ Connections < PoolSize

\* Quizzes of one user agree with the answers that were acknowledged, and with
\* each other.
QuizzesSound == TypeOK /\ QuizRowSound /\ OneActive /\ AnswersKept

\* Plans, assessments and sessions agree with the tasks that remind of them.
PlansSound == PlanWhole /\ OrphansPaid /\ TaskFollowsSession
=============================================================================
