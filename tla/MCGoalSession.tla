--------------------------- MODULE MCGoalSession ---------------------------
(* Instances of GoalSession for TLC.                                        *)
EXTENDS GoalSession

Task(id)    == [id |-> id, revision |-> 1, goal |-> NoGoal, complete |-> FALSE, done |-> FALSE]
ForGoal(id) == [Task(id) EXCEPT !.goal = 1]

Start(c, status, off, reason) ==
  [contract |-> c, native |-> [goal |-> 1, status |-> status], overlay |-> off,
   activation |-> reason]

\* A thread without a record; one with a task's record, or a completed one that a
\* Goal's may replace; one with a Goal's record; one that a release without
\* activation file left detached; one whose Goal was replaced.
SomeStarts ==
  {Start(NoContract, "active", FALSE, "absent"),
   Start(Task("c1"), "ended", FALSE, "none"),
   Start([Task("c1") EXCEPT !.done = TRUE], "active", FALSE, "none"),
   Start(ForGoal("c1"), "active", FALSE, "none"),
   Start(ForGoal("c1"), "active", TRUE, "absent"),
   Start(ForGoal("c1"), "ended", TRUE, "native-goal-ended")}

TaskStart == {Start(Task("c1"), "ended", FALSE, "none")}

=============================================================================
