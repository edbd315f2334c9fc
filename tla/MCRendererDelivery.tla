------------------------ MODULE MCRendererDelivery ------------------------
(* Instances of RendererDelivery for TLC.                                   *)
EXTENDS RendererDelivery, TLC

AllRoutes == Threads \cup {NoThread}

\* One thread is shown, tracked or still being prepared; the other is tracked.
SomeStarts == {[route |-> "a", phase |-> ("a" :> p @@ "b" :> "active")] : p \in {"active", "preparing"}}

TrackedStart == {[route |-> "a", phase |-> ("a" :> "active" @@ "b" :> "active")]}

=============================================================================
