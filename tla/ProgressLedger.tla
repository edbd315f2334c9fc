--------------------------- MODULE ProgressLedger ---------------------------
(***************************************************************************)
(* What the event store promises to its callers, without files: one        *)
(* history per session in which every event continues the contract the     *)
(* events before it left and uses a requestId and an eventId of its own;   *)
(* and whatever a caller was told is committed stays in the history.       *)
(***************************************************************************)
EXTENDS Naturals, Sequences

CONSTANTS
  Events,     \* the events that may be written
  Starts,     \* the histories a session may begin with
  None        \* no contract

\* The contract that an event leaves: initialized and replaced begin one at
\* revision 1, every other kind but the migration takes the next revision.
After(e) == [id |-> e.id, revision |-> e.revision, version |-> e.version]

Contract(h) == IF h = <<>> THEN None ELSE After(h[Len(h)])

Refers(ref, c) == ref = [id |-> c.id, revision |-> c.revision]

Follows(c, e) ==
  /\ c = None <=> e.kind = "initialized"
  /\ e.kind = "replaced" => c.version = 2 /\ c.id # e.id /\ Refers(e.previous, c)
  /\ e.kind = "migrated" => c.version = 1 /\ c.id = e.id /\ c.revision = e.revision
  /\ e.kind \notin {"initialized", "replaced", "migrated"} =>
       c.id = e.id /\ c.revision + 1 = e.revision

SameRequest(e, f) == e.requestId = f.requestId \/ e.eventId = f.eventId

\* A log that replays: no requestId or eventId twice, and each event reduces
\* the contract of those before it.
Replays(h) ==
  \A i \in DOMAIN h :
    /\ Follows(Contract(SubSeq(h, 1, i - 1)), h[i])
    /\ \A j \in 1..(i - 1) : ~SameRequest(h[j], h[i])

VARIABLES history, told

vars == <<history, told>>

Listed(h) == {h[i] : i \in DOMAIN h}

Commit(e) ==
  /\ Follows(Contract(history), e)
  /\ \A i \in DOMAIN history : ~SameRequest(history[i], e)
  /\ history' = Append(history, e)
  /\ UNCHANGED told

Tell(e) == e \in Listed(history) /\ told' = told \cup {e} /\ UNCHANGED history

\* A loss of power takes the end of the history, never what was reported.
Lose(n) ==
  /\ history' = SubSeq(history, 1, n)
  /\ told \subseteq Listed(history')
  /\ UNCHANGED told

Init == history \in Starts /\ told = {}

Next ==
  \/ \E e \in Events : Commit(e) \/ Tell(e)
  \/ \E n \in 0..Len(history) : Lose(n)

Spec == Init /\ [][Next]_vars

-----------------------------------------------------------------------------
(* Properties                                                              *)

TypeOK == history \in Seq(Events) /\ told \subseteq Events

\* The history always replays: in order, and at most once per request.
HistoryReplays == Replays(history)

\* What a caller was told is committed is in the history ever after.
ToldIsKept == told \subseteq Listed(history)

=============================================================================
