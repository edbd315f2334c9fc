--------------------------- MODULE MCGoalProgress ---------------------------
(* Instances of GoalProgress for TLC. *)
EXTENDS GoalProgress

CONSTANTS k1, k2

A == "a"     \* objective ids and item ids are strings, as in the program
B == "b"

Objective(requirement, bps, status, items) ==
  [requirement |-> requirement, bps |-> bps, status |-> status, items |-> items]

Items(s, t) == [i \in {"i", "j"} |-> IF i = "i" THEN s ELSE t]

\* One result that decides everything, with two items, one of them dropped.
Single == [k \in {A} |-> Objective("required", 10000, "pending", Items("pending", "cancelled"))]

\* Two required results whose shares do not divide evenly, and a cancelled one
\* that still has a weight; two optional results without items, one of them cancelled.
Mixed ==
  [k \in {A, B, "c", "d", "e"} |->
     CASE k = A   -> Objective("required", 3333, "active", Items("completed", "active"))
       [] k = B   -> Objective("required", 6667, "pending", NoObjectives)
       [] k = "c" -> Objective("required", 5000, "cancelled", NoObjectives)
       [] k = "d" -> Objective("optional", 0, "pending", NoObjectives)
       [] k = "e" -> Objective("optional", 0, "cancelled", NoObjectives)]

\* A checklist that arrives complete.
Done == [k \in {A} |-> Objective("required", 10000, "completed", Items("completed", "completed"))]

\* Checklists the schema refuses: weights that do not add up, a completed
\* result with an open item, an optional result with a weight.
Short  == [k \in {A} |-> Objective("required", 9999, "pending", NoObjectives)]
Hollow == [k \in {A} |-> Objective("required", 10000, "completed", Items("completed", "pending"))]
Weighty == [k \in {A} |-> Objective("optional", 10000, "pending", NoObjectives)]

Change(t, s) == [target |-> t, status |-> s]

\* A second Goal with another text, and one created later with the same text.
SomeGoals == {[created |-> 1, text |-> "x"], [created |-> 2, text |-> "y"],
              [created |-> 2, text |-> "x"]}
OneGoal   == {[created |-> 1, text |-> "x"]}

BothIds == {k1, k2}
OneId   == {k1}

TaskScopes   == {NoObjectives, Single, Mixed}
NativeScopes == {NoObjectives, Single, Done, Short, Hollow, Weighty}

SmallChanges ==
  {{}} \cup {{Change(t, s)} : t \in {A, "i", "j"}, s \in {"completed", "pending"}}
    \cup {{Change(A, "completed"), Change("i", "completed")},
          {Change(A, "pending"), Change("i", "active")},
          {Change(A, "pending"), Change("i", "pending"), Change("j", "blocked")},
          {Change("i", "completed"), Change("i", "pending")},
          {Change("zz", "completed")}}

MixedChanges ==
  SmallChanges
    \cup {{Change(A, "completed"), Change("j", "completed"), Change(B, "completed")},
          {Change(B, "completed")}, {Change(B, "blocked")}, {Change("c", "completed")}, {Change("e", "completed")},
          {Change("d", "completed"), Change(B, "pending")}}

Clock   == {0, 1}
Instant == {0}
=============================================================================
