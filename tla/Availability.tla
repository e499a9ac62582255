---------------------------- MODULE Availability ----------------------------
(***************************************************************************)
(* The search for free time: checkAvailability and findAvailableSlots of   *)
(* CalendarService.ts, for one question of one user.                       *)
(*                                                                         *)
(* What keeps the user busy is read in three steps, each of which may fail *)
(* and then counts for nothing; the intervals are clipped to the window,   *)
(* merged from left to right, and the gaps between them are walked, one    *)
(* round of a loop of the code to a step.                                  *)
(* Time is counted in units in which every bound is whole.                 *)
(***************************************************************************)
EXTENDS Integers, FiniteSets, SequencesExt

CONSTANTS
  TimeMin, TimeMax,  (* The window that is asked for.                      *)
  Day,               (* Units of a day.                                    *)
  Span,              (* Candidates for meetings: <<from, to>>.             *)
  DueTime,           (* Candidates for due times of open commitments.      *)
  QuietHours,        (* Candidates for quiet hours: <<start, end>> or <<>>.*)
  Duration, Buffer,  (* Candidates for what is asked.                      *)
  TaskHalf,          (* A commitment takes so long before and after its    *)
                     (* due time: 15 minutes.                              *)
  ListLimit,         (* listUpcomingEvents returns so many events: 100.    *)
  MaxSlots,          (* So many slots are offered: 5.                      *)
  MaxMeetings        (* Bound: meetings in the calendar.                   *)

(* Quiet hours are stored as HH:MM, so they lie within a day.              *)
ASSUME AvailabilityAssumption ==
  /\ {TimeMin, TimeMax, Day, TaskHalf, ListLimit, MaxSlots, MaxMeetings} \subseteq Nat
  /\ TimeMin < TimeMax /\ Day > 0 /\ Duration \subseteq Nat \ {0} /\ Buffer \subseteq Nat
  /\ Span \subseteq Nat \X Nat /\ DueTime \subseteq Nat
  /\ QuietHours \subseteq {<<>>} \cup (0..(Day - 1)) \X (0..(Day - 1))

VARIABLES
  calendar,   (* The meetings in the selected calendars.                   *)
  tasks,      (* Due times of the open commitments.                        *)
  quiet,      (* Quiet hours of the user.                                  *)
  ask,        (* The question.                                             *)
  stage,      (* What the call does next.                                  *)
  hours,      (* The quiet hours that were read.                           *)
  listed,     (* The meetings that were listed.                            *)
  dueRead,    (* The due times that were read.                             *)
  lost,       (* The reads that failed.                                    *)
  taken,      (* Busy intervals that went into the merged ones.             *)
  merged,     (* mergedBusy, or merged.                                    *)
  walked,     (* Merged intervals the walk has passed.                     *)
  pointer,    (* currentPointer; in the search also slotStart, which       *)
              (* starts from pointer and stays before the end of the gap.  *)
  free        (* freeSlots, or availableSlots.                             *)

world == <<calendar, tasks, quiet, ask>>
readings == <<hours, listed, dueRead, lost>>
walk == <<walked, pointer, free>>
searchVars == <<world, stage, readings, taken, merged, walk>>

Interval(from, to) == [from |-> from, to |-> to]
Meeting == [at : {Interval(s[1], s[2]) : s \in Span}, opaque : BOOLEAN]
Question == [kind : {"check", "find"}, duration : Duration, buffer : Buffer]
Reads == {"user", "events", "tasks"}
Window == [from : TimeMin..TimeMax, to : TimeMin..TimeMax]
TimeSpan == [from : Int, to : Int]

SearchTypeOK ==
  /\ calendar \subseteq Meeting /\ tasks \subseteq DueTime /\ quiet \in QuietHours /\ ask \in Question
  /\ stage \in Reads \cup {"merge", "walk", "answered", "failed"}
  /\ hours \in QuietHours \cup {<<>>} /\ listed \subseteq calendar /\ Cardinality(listed) <= ListLimit
  /\ dueRead \subseteq tasks /\ lost \subseteq Reads
  /\ taken \subseteq Window /\ merged \in Seq(Window) /\ free \in Seq(Window)
  /\ walked \in 0..Len(merged) /\ pointer \in TimeMin..TimeMax
  /\ ask.kind = "find" => Len(free) <= MaxSlots

SearchInit ==
  /\ calendar \in {c \in SUBSET Meeting : IsFiniteSet(c) /\ Cardinality(c) <= MaxMeetings}
  /\ tasks \in SUBSET DueTime /\ quiet \in QuietHours
  /\ ask \in {q \in Question : q.kind = "check" => q.buffer = 0}
  /\ stage = "user" /\ hours = <<>> /\ listed = {} /\ dueRead = {} /\ lost = {}
  /\ taken = {} /\ merged = <<>>
  /\ walked = 0 /\ pointer = TimeMin /\ free = <<>>

-----------------------------------------------------------------------------
(* What is read. *)

Failed(read) == lost' = lost \cup {read}

(* The user's row.  checkAvailability reads only the time zone of it.      *)
ReadUser ==
  /\ stage = "user" /\ stage' = "events"
  /\ \/ hours' = quiet /\ lost' = lost
     \/ hours' = hours /\ Failed("user")
  /\ UNCHANGED <<world, listed, dueRead, taken, merged, walk>>

(* What Google has between timeMin and timeMax. *)
InWindow == {e \in calendar : e.at.to > TimeMin /\ e.at.from < TimeMax}

FirstOf(events, n) ==
  {first \in SUBSET events :
     /\ Cardinality(first) = IF Cardinality(events) < n THEN Cardinality(events) ELSE n
     /\ \A e \in first, f \in events \ first : e.at.from <= f.at.from}

(* listUpcomingEvents: sorted by start, and cut.                           *)
ListEvents ==
  /\ stage = "events" /\ stage' = "tasks"
  /\ listed' \in FirstOf(InWindow, ListLimit)
  /\ UNCHANGED <<world, hours, dueRead, lost, taken, merged, walk>>

(* It fails: the search goes on without; the check passes on that the      *)
(* calendar must be connected again, and goes on without for other errors. *)
EventsUnread ==
  /\ stage = "events" /\ Failed("events")
  /\ stage' = "tasks" \/ (ask.kind = "check" /\ stage' = "failed")
  /\ UNCHANGED <<world, hours, listed, dueRead, taken, merged, walk>>

DueInWindow == {d \in tasks : TimeMin <= d /\ d <= TimeMax}

ReadTasks ==
  /\ stage = "tasks" /\ stage' = "merge"
  /\ \/ dueRead' = DueInWindow /\ lost' = lost
     \/ dueRead' = dueRead /\ Failed("tasks")
  /\ UNCHANGED <<world, hours, listed, taken, merged, walk>>

-----------------------------------------------------------------------------
(* Busy intervals. *)

Wider(i, by) == Interval(i.from - by, i.to + by)
AroundDue(d) == Interval(d - TaskHalf, d + TaskHalf)
Least(a, b) == IF a < b THEN a ELSE b
Greatest(a, b) == IF a < b THEN b ELSE a
Clipped(i) == Interval(Greatest(TimeMin, i.from), Least(TimeMax, i.to))

(* Mutant: the scan begins with the day of the window.                     *)
DaysFromWindow == {TimeMin \div Day + k : k \in 0..((TimeMax - TimeMin) \div Day + 1)}

(* One day before the window to one day after it.                          *)
Days == {TimeMin \div Day + k : k \in -1..((TimeMax - TimeMin) \div Day + 1)}

(* The quiet hours of a day; overnight, unless the end is after the start. *)
QuietSpan(d) ==
  Interval(d * Day + hours[1],
           (IF hours[1] < hours[2] THEN d ELSE d + 1) * Day + hours[2])

Occupied == {e.at : e \in {f \in listed : f.opaque}} \cup {AroundDue(d) : d \in dueRead}

BusyTimes ==
  IF ask.kind = "check" THEN Occupied
  ELSE {Wider(i, ask.buffer) : i \in Occupied} \cup (IF hours = <<>> THEN {} ELSE {QuietSpan(d) : d \in Days})

(* Busy intervals of the window, the empty ones filtered.                  *)
BusySpans == {i \in {Clipped(j) : j \in BusyTimes} : i.to > i.from}

(* Mutant: the end of the interval that comes later is taken.              *)
TakenOver(last, i) == [last EXCEPT !.to = i.to]

Extended(last, i) == [last EXCEPT !.to = Greatest(@, i.to)]

Join(done, i) ==
  IF done # <<>> /\ i.from <= Last(done).to
  THEN [done EXCEPT ![Len(done)] = Extended(@, i)]
  ELSE Append(done, i)

(* The next interval in the order of their start; any of those that start  *)
(* together.                                                               *)
MergeNext ==
  /\ stage = "merge"
  /\ \E i \in BusySpans \ taken :
       /\ \A j \in BusySpans \ taken : i.from <= j.from
       /\ taken' = taken \cup {i} /\ merged' = Join(merged, i)
  /\ UNCHANGED <<world, stage, readings, walk>>

AllMerged ==
  /\ stage = "merge" /\ BusySpans = taken /\ stage' = "walk"
  /\ UNCHANGED <<world, readings, taken, merged, walk>>

-----------------------------------------------------------------------------
(* Free time. *)

Ahead == walked < Len(merged)
GapEnd == IF Ahead THEN merged[walked + 1].from ELSE TimeMax
PassBusy == walked' = walked + 1 /\ pointer' = Greatest(pointer, merged[walked + 1].to)

LongEnough(gap) == gap.to - gap.from >= ask.duration

(* checkAvailability: the gap before the next busy interval, or the last.  *)
CheckGap ==
  /\ stage = "walk" /\ ask.kind = "check"
  /\ LET gap == Interval(pointer, GapEnd)
     IN  free' = IF LongEnough(gap) THEN Append(free, gap) ELSE free
  /\ IF Ahead THEN PassBusy /\ stage' = stage
     ELSE stage' = "answered" /\ UNCHANGED <<walked, pointer>>
  /\ UNCHANGED <<world, readings, taken, merged>>

Room == pointer + ask.duration <= GapEnd /\ Len(free) < MaxSlots

(* findAvailableSlots: slots side by side, while there is room in the gap  *)
(* and in the list.                                                        *)
OfferSlot ==
  /\ stage = "walk" /\ ask.kind = "find" /\ Room
  /\ free' = Append(free, Interval(pointer, pointer + ask.duration))
  /\ pointer' = pointer + ask.duration
  /\ UNCHANGED <<world, stage, readings, taken, merged, walked>>

(* To the next gap; a full list ends the search, as does the last gap.     *)
LeaveGap ==
  /\ stage = "walk" /\ ask.kind = "find" /\ ~Room
  /\ IF Ahead THEN PassBusy /\ stage' = (IF Len(free) >= MaxSlots THEN "answered" ELSE stage)
     ELSE stage' = "answered" /\ UNCHANGED <<walked, pointer>>
  /\ UNCHANGED <<world, readings, taken, merged, free>>

SearchNext ==
  \/ ReadUser \/ ListEvents \/ EventsUnread \/ ReadTasks
  \/ MergeNext \/ AllMerged \/ CheckGap \/ OfferSlot \/ LeaveGap

SearchSpec == SearchInit /\ [][SearchNext]_searchVars

-----------------------------------------------------------------------------
(* Properties, against the points in time that are busy. *)

Points(i) == i.from..(i.to - 1)
Whole == Points(Interval(TimeMin, TimeMax))

IsQuiet(t, h) ==
  /\ h # <<>>
  /\ LET hour == t % Day IN
     IF h[1] < h[2] THEN h[1] <= hour /\ hour < h[2] ELSE h[1] <= hour \/ hour < h[2]

(* A search keeps its buffer; a check asks for none.                       *)
Margin == IF ask.kind = "find" THEN ask.buffer ELSE 0

(* What a question has to respect, of what it could read.                  *)
BusyPoints ==
  {t \in Whole : \/ \E i \in Occupied : t \in Points(Wider(i, Margin))
                 \/ ask.kind = "find" /\ IsQuiet(t, hours)}

Offered == ToSet(free)
Finds == stage = "answered" /\ ask.kind = "find"

(* A slot that findAvailableSlots offers has the length that was asked     *)
(* for, and keeps clear, with its buffer, of every event in the window, of *)
(* every open commitment due in it, and of the quiet hours, also those     *)
(* that began the day before - unless what it ran into could not be read,  *)
(* or was past the limit.  Slots do not overlap each other.                *)
SlotsFree ==
  Finds => \A s \in Offered :
    LET clear(i) == Points(s) \cap Points(Wider(i, ask.buffer)) = {} IN
    /\ s.to - s.from = ask.duration /\ Points(s) \subseteq Whole
    /\ "events" \notin lost /\ Cardinality(InWindow) <= ListLimit =>
         \A e \in InWindow : e.opaque => clear(e.at)
    /\ "tasks" \notin lost =>
         \A d \in tasks : TimeMin <= d /\ d <= TimeMax => clear(AroundDue(d))
    /\ "user" \notin lost => \A t \in Points(s) : ~IsQuiet(t, quiet)
    /\ \A r \in Offered : r # s => Points(r) \cap Points(s) = {}

(* Fewer slots than may be offered are all there are: none is left between *)
(* them, however buffers, quiet hours and the edges of the window meet.    *)
SlotsComplete ==
  Finds /\ Len(free) < MaxSlots =>
    \A t \in TimeMin..(TimeMax - ask.duration) :
      Points(Interval(t, t + ask.duration)) \cap (BusyPoints \cup UNION {Points(s) : s \in Offered}) # {}

(* A stretch of the window that lies in S and is not part of a longer one. *)
Stretches(S) ==
  {i \in Window : /\ i.from < i.to /\ Points(i) \subseteq S
                  /\ i.from - 1 \notin S /\ i.to \notin S}

(* checkAvailability reports each busy stretch once, whole, and each free  *)
(* stretch that is long enough: merging leaves no interval overlapping or  *)
(* touching another, so "isFree" and the free slots agree with it.         *)
StretchesExact ==
  stage = "answered" /\ ask.kind = "check" =>
    /\ ToSet(merged) = Stretches(BusyPoints) /\ Len(merged) = Cardinality(ToSet(merged))
    /\ Offered = {i \in Stretches(Whole \ BusyPoints) : LongEnough(i)}

(* findAvailableSlots offers free time only, and all there is.             *)
SlotsSound == SearchTypeOK /\ SlotsFree /\ SlotsComplete
=============================================================================
