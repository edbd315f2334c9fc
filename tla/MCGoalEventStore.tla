-------------------------- MODULE MCGoalEventStore --------------------------
(* Instances of GoalEventStore for TLC. *)
EXTENDS GoalEventStore

CONSTANTS k1, k2

Ref(id, revision) == [id |-> id, revision |-> revision]

Request(kind, n, m, id, expected, content) ==
  [kind |-> kind, requestId |-> n, eventId |-> m, id |-> id, expected |-> expected,
   content |-> content]

First      == Request("initialize", 1, 1, k1, None, "a")
Rival      == Request("initialize", 2, 2, k2, None, "b")
Update     == Request("apply", 3, 3, k1, Ref(k1, 1), "a")
OtherText  == Request("apply", 3, 3, k1, Ref(k1, 1), "b")     \* a requestId used again
OtherEvent == Request("apply", 3, 4, k1, Ref(k1, 1), "a")     \* with another eventId
EventAgain == Request("apply", 5, 3, k1, Ref(k1, 2), "a")     \* an eventId used again
Concurrent == Request("apply", 6, 6, k1, Ref(k1, 1), "c")     \* from the same revision
Fresh      == Request("replace", 7, 7, k2, Ref(k1, 2), "d")
FreshAgain == Request("initialize", 7, 7, k2, None, "d")      \* its retry
Migration  == Request("migrate", 8, 8, k1, Ref(k1, 2), "b")
OldUpdate  == Request("apply", 10, 10, k1, Ref(k1, 1), "b")   \* carried out by the earlier release
Load       == Request("load", 0, 0, None, None, "none")

Old == <<[kind |-> "initialized", requestId |-> 9, eventId |-> 9, id |-> k1, version |-> 1,
          content |-> "a", revision |-> 1, previous |-> None],
         [kind |-> "applied", requestId |-> 10, eventId |-> 10, id |-> k1, version |-> 1,
          content |-> "b", revision |-> 2, previous |-> None]>>

AllRequests == {First, Rival, Update, OtherText, OtherEvent, EventAgain, Concurrent, Fresh,
                FreshAgain, Migration, OldUpdate, Load}
FewRequests == {First, Update, Load}

\* Crashes and failing calls, or losses of power, each kind without the other.
SeparateFaults ==
  {[crash |-> 1, io |-> 1, power |-> 0], [crash |-> 0, io |-> 0, power |-> 2]}

MixedFaults == {[crash |-> 1, io |-> 1, power |-> 1]}
=============================================================================
