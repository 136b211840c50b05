---------------------------- MODULE MCScheduling ----------------------------
(***************************************************************************)
(* Values of the constants of Scheduling for TLC: intervals of an hour or  *)
(* two, and the request bodies of each run.                                *)
(***************************************************************************)
EXTENDS Scheduling, Capacity, TLC

Hours == {<<9, 10>>, <<10, 11>>}
OneHour == {<<9, 10>>}

OpenRows == {[status |-> "todo", parent |-> Null, project |-> Null, slot |-> Null]}

CompletePatches == {[NoPatch EXCEPT !.status = "completed"]}

\* Bodies that put a task anywhere in the tree and in any project.
TreeRows ==
  {[row EXCEPT !.parent = t, !.project = p] :
     row \in OpenRows, t \in Field(Task), p \in Field(Project)}

TreePatches ==
  {[NoPatch EXCEPT !.parent = t] : t \in Field(Task)}
    \cup {[NoPatch EXCEPT !.project = p] : p \in Field(Project)}

\* One client either links its tasks, with nothing planned yet and with no
\* projects once there are dependencies, or plans and applies with at most two
\* tasks that it has only created and linked.
Linking ==
  /\ preview = [p \in Preview |-> NoPreview]
  /\ plan = [r \in Request |-> NoPlan]
  /\ calendar = [e \in Event |-> NoEvent]
  /\ dependency # {} => archived = {} /\ \A t \in Task : task[t].project = Null
  /\ \A t \in Task : task[t].slot \in Field(OneHour)
  /\ \A r \in Request : request[r].patch.slot \in Field(OneHour) \cup {Unset}

Created == {t \in Task : task[t].state # "absent"}

Planning ==
  /\ Cardinality(Created) <= 2
  /\ \A t \in Created : /\ task[t].state = "active"
                        /\ task[t].parent = Null /\ task[t].project = Null
                        /\ task[t].slot = Null => task[t].revision = 1
                        /\ task[t].slot # Null => \E p \in Preview : preview[p].state = "applied"
  /\ archived = {}
  /\ \A e \in Event : calendar[e].slot \in Field(OneHour)
  /\ \A r \in Request : /\ request[r].op \in {"create", "depend"}
                         /\ request[r].patch.parent \in {Null, Unset}
                         /\ request[r].patch.project \in {Null, Unset}
                         /\ plan[r].selected \subseteq Created

\* A bound on the steps of the run, an action constraint.
LinksOrPlans == Linking' \/ (Planning' /\ dependency \subseteq dependency')

-----------------------------------------------------------------------------
(* Capacity over bounded inputs: instants every half minute, three of four *)
(* intervals.                                                              *)

Instants == {30 * k : k \in 0..6}
Intervals == {i \in Instants \X Instants : i[1] < i[2]}
Few == {{}} \cup {{a, b} : a, b \in Intervals}

Covered(intervals) == {t \in Instants : \E i \in intervals : Within(t, i)}
Separate(intervals) == \A i, j \in intervals : i # j => i[2] < j[1] \/ j[2] < i[1]

\* Merging keeps the time and leaves a gap between any two intervals.
ASSUME MergeIsUnion ==
  \A few \in Few, i \in Intervals :
    Separate(Merged(few \cup {i})) /\ Covered(Merged(few \cup {i})) = Covered(few \cup {i})

\* Intersection and subtraction are those of the time, in whole pieces: a
\* free interval is never reported as two shorter ones.
ASSUME TimeIsSets ==
  \A s, t \in Few :
    /\ Covered(Intersect(s, t)) = Covered(s) \cap Covered(t) /\ Separate(Intersect(s, t))
    /\ Covered(Subtract(s, t)) = Covered(s) \ Covered(t) /\ Separate(Subtract(s, t))

SomeTasks ==
  [duration : {1, 2}, earliest : {0, 30, 60}, deadline : {150, 180}]

TwoDays == {{<<0, midnight>>, <<midnight, 180>>} : midnight \in {60, 90}}

\* Every window is free time in its day, and every such time has a window.
ASSUME WindowsAreRight ==
  \A one \in SomeTasks, free \in {f \in Few : Separate(f)}, days \in TwoDays :
    OfferedSuits(one, free, days, 0..3) /\ SuitableOffered(one, free, days, 0..3)

-----------------------------------------------------------------------------
(* Plans: whole minutes, since a day that holds parts of minutes can hold  *)
(* more than the report counts; no task over midnight, which is charged to *)
(* the day it starts in.                                                   *)

Range == <<0, 360>>
Week == {<<0, 180>>, <<180, 360>>}
Busy == {{<<60 * a, 60 * b>>} : a, b \in 0..6}
Policies == [focus : {1, 2}, limit : {1, 2}]

Placements(one, free) ==
  {[task |-> one, window |-> w, start |-> k] : w \in TaskWindows(one, free, Week), k \in 0..5}

Plans(two, free, room) ==
  {placed \in {{p, q} : p \in Placements(two[1], free), q \in Placements(two[2], free)} :
     Satisfies(placed, [dependencies |-> {}, bounds |-> {}], free, Week, room)}

TwoTasks ==
  {<<[duration |-> a, earliest |-> 0, deadline |-> d], [duration |-> b, earliest |-> 60, deadline |-> 360]>> :
     a, b \in {1, 2}, d \in {180, 360}}

\* An allowed plan is free time, and leaves every day within its limit.
ASSUME PlansKeepLimits ==
  \A busy \in Busy, policy \in Policies, two \in TwoTasks :
    LET hours == Availability({<<0, 120>>, <<60, 300>>}, Range)
        free  == FocusWindows(hours, busy, policy)
        room  == [day \in Week |-> RemainingToday(day, hours, busy, policy, 0)]
    IN \A placed \in Plans(two, free, room) :
         /\ Subtract(Spans(placed), Subtract(hours, busy)) = {}
         /\ Intersect(Spans(placed), busy) = {}
         /\ (\A p \in placed : Inside(Span(p), p.window.day)) => LimitKept(placed, Week, busy, policy)

Sym == Permutations(Task) \cup Permutations(Request) \cup Permutations(Preview)
=============================================================================
