------------------------------ MODULE Capacity ------------------------------
(***************************************************************************)
(* Free time and capacity: the intervals of scheduling_intervals.py, the   *)
(* days of scheduling_capacity.py, and the windows and constraints that    *)
(* scheduling_solver.py hands to CP-SAT.  All are pure functions of one    *)
(* request and its evidence.                                               *)
(*                                                                         *)
(* Instants are seconds since the start of the planning range, intervals   *)
(* pairs of them.  A placement starts on a whole minute from that start.   *)
(* Lists whose order or repetitions change nothing are sets.  The days are *)
(* the local days, clipped to the range; their instants come from the time *)
(* zone data.  The objective and its preferred times are left out: the     *)
(* solver returns any plan that satisfies its constraints.                 *)
(***************************************************************************)
EXTENDS Integers, Sequences, FiniteSets
LOCAL INSTANCE FiniteSetsExt
LOCAL INSTANCE SequencesExt

Minute == 60

Floor(seconds) == seconds \div Minute
Ceil(seconds) == -((-seconds) \div Minute)

Earliest(a, b) == IF a <= b THEN a ELSE b
Latest(a, b) == IF a >= b THEN a ELSE b

Duration(interval) ==
  IF interval[1] < interval[2] THEN Floor(interval[2] - interval[1]) ELSE 0

-----------------------------------------------------------------------------
(* scheduling_intervals.py *)

\* What is left of an interval between two instants, if anything.
Clip(interval, from, to) ==
  LET clipped == <<Latest(interval[1], from), Earliest(interval[2], to)>>
  IN {i \in {clipped} : i[1] < i[2]}

\* By start and end: overlapping and adjoining intervals become one.
Merge(intervals) ==
  LET Precedes(a, b) == a[1] < b[1] \/ (a[1] = b[1] /\ a[2] <= b[2])
      Absorb(merged, i) ==
        IF merged # <<>> /\ i[1] <= Last(merged)[2]
        THEN Append(Front(merged), <<Last(merged)[1], Latest(Last(merged)[2], i[2])>>)
        ELSE Append(merged, i)
  IN FoldLeft(Absorb, <<>>, SetToSortSeq(intervals, Precedes))

Merged(intervals) == ToSet(Merge(intervals))

\* Two merged lists are walked in step: of two intervals, the one that ends
\* first is left behind.
Intersect(first, second) ==
  LET left == Merge(first)
      right == Merge(second)
      common[i \in 1..Len(left) + 1, j \in 1..Len(right) + 1] ==
        IF i > Len(left) \/ j > Len(right) THEN {}
        ELSE Clip(left[i], right[j][1], right[j][2])
               \cup IF left[i][2] <= right[j][2] THEN common[i + 1, j] ELSE common[i, j + 1]
  IN common[1, 1]

\* A cursor moves through a base, past one exclusion after the other.
Gaps(base, exclusions) ==
  LET Pass(walk, excluded) ==
        IF excluded[2] <= walk.cursor \/ excluded[1] >= base[2] THEN walk
        ELSE [free   |-> walk.free \cup Clip(base, walk.cursor, excluded[1]),
              cursor |-> Latest(walk.cursor, excluded[2])]
      end == FoldLeft(Pass, [free |-> {}, cursor |-> base[1]], Merge(exclusions))
  IN end.free \cup Clip(base, end.cursor, base[2])

Subtract(bases, exclusions) == UNION {Gaps(base, exclusions) : base \in Merged(bases)}

Minutes(intervals) == MapThenSumSet(Duration, Merged(intervals))

-----------------------------------------------------------------------------
(* scheduling_capacity.py and _free_focus_windows *)

\* Weekly and personal windows, clipped to the planning range.
Availability(windows, range) == Merged(UNION {Clip(w, range[1], range[2]) : w \in windows})

LongEnough(intervals, minutes) == {i \in intervals : Duration(i) >= minutes}

FocusWindows(availability, busy, policy) ==
  LongEnough(Subtract(availability, busy), policy.focus)

\* What calculate_capacity says about a day to which the suggested minutes
\* are charged.
Committed(day, busy) == Minutes(Intersect({day}, busy))

FocusMinutes(day, availability, busy, policy) ==
  LET free == Subtract(Intersect({day}, availability), Intersect({day}, busy))
  IN MapThenSumSet(Duration, LongEnough(free, policy.focus))

AvailableToday(day, availability, busy, policy) ==
  Earliest(FocusMinutes(day, availability, busy, policy),
           Latest(0, policy.limit - Committed(day, busy)))

RemainingToday(day, availability, busy, policy, suggested) ==
  Latest(0, AvailableToday(day, availability, busy, policy) - suggested)

Overload(day, busy, policy, suggested) ==
  Latest(0, Committed(day, busy) + suggested - policy.limit)

-----------------------------------------------------------------------------
(* scheduling_solver.py *)

\* The starts that a free interval and a day offer to a task: one option per
\* interval and day, if the task fits.
Window(task, interval, day) ==
  [day   |-> day,
   first |-> Latest(Ceil(interval[1]), Ceil(day[1])),
   last  |-> Earliest(Floor(interval[2]) - task.duration, Ceil(day[2]) - 1),
   until |-> Floor(interval[2])]

TaskWindows(task, free, days) ==
  LET usable == LongEnough(UNION {Clip(f, task.earliest, task.deadline) : f \in free},
                           task.duration)
      options == {Window(task, usable_, day) : usable_ \in usable, day \in days}
  IN {w \in options : w.first <= w.last}

\* A plan is a set of placements, each of a task, at a minute, by a window.
EndOf(p) == p.start + p.task.duration

Charged(plan, day) ==
  MapThenSumSet(LAMBDA p : p.task.duration, {p \in plan : p.window.day = day})

\* A prerequisite that could be placed is placed, and in its order; one that
\* is scheduled already bounds the start.
InOrder(plan, order) ==
  /\ \A p \in plan, d \in order.dependencies : d.task = p.task =>
       \E q \in plan : /\ q.task = d.on
                       /\ IF d.type = "finish_to_start" THEN EndOf(q) <= p.start
                                                        ELSE q.start <= p.start
  /\ \A p \in plan, b \in order.bounds : b.task = p.task => Ceil(b.after) <= p.start

\* The hard constraints that solve_schedule adds.
Satisfies(plan, order, free, days, room) ==
  /\ \A p \in plan : /\ p.window \in TaskWindows(p.task, free, days)
                     /\ p.start \in p.window.first .. p.window.last
                     /\ EndOf(p) <= p.window.until
  /\ \A p, q \in plan : p # q => p.task # q.task /\ (EndOf(p) <= q.start \/ EndOf(q) <= p.start)
  /\ InOrder(plan, order)
  /\ \A day \in days : Charged(plan, day) <= room[day]

-----------------------------------------------------------------------------
(* What is asked of them. *)

Within(instant, interval) == interval[1] <= instant /\ instant < interval[2]
Inside(inner, outer) == outer[1] <= inner[1] /\ inner[2] <= outer[2]

\* Time at which the task could be done.
Suits(task, start, interval, day) ==
  LET span == <<start * Minute, (start + task.duration) * Minute>>
  IN /\ Inside(span, interval)
     /\ Inside(span, <<task.earliest, task.deadline>>)
     /\ Within(span[1], day)

\* What a window offers is free time between the earliest start and the
\* deadline of the task, in the day to which it is charged, whatever seconds
\* the intervals start and end at.
OfferedSuits(task, free, days, starts) ==
  \A w \in TaskWindows(task, free, days), start \in starts :
    start \in w.first .. w.last => \E f \in free : Suits(task, start, f, w.day)

\* And no such time is withheld from the solver.
SuitableOffered(task, free, days, starts) ==
  \A start \in starts, f \in free, day \in days :
    Suits(task, start, f, day) =>
      \E w \in TaskWindows(task, free, days) :
        w.day = day /\ start \in w.first .. w.last /\ start + task.duration <= w.until

Span(p) == <<p.start * Minute, EndOf(p) * Minute>>
Spans(plan) == {Span(p) : p \in plan}

\* A plan that fits the room of its days leaves no day with more than its
\* limit once it is applied, unless the day held more before: what the
\* capacity report promised when the plan was made is what it shows after.
LimitKept(plan, days, busy, policy) ==
  \A day \in days :
    Committed(day, busy \cup Spans(plan)) <= Latest(policy.limit, Committed(day, busy))
=============================================================================
