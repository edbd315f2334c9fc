--------------------------- MODULE GoalEventStore ---------------------------
(***************************************************************************)
(* The event store of one session, down to the calls that reach the disk:  *)
(* the JSONL event log, the snapshot beside it, the queue that serialises  *)
(* the operations of one process, and the three ways a step can go wrong:  *)
(* a file operation fails, the process dies, the power fails.              *)
(*                                                                         *)
(* A contract is its id, revision and schema version, which is all that    *)
(* the store looks at; which commands a contract accepts is GoalProgress.  *)
(***************************************************************************)
EXTENDS Naturals, Sequences

CONSTANTS
  Requests,   \* [kind, requestId, eventId, id, expected, content]
  Legacy,     \* the events of a log an earlier release left behind
  Budgets,    \* how many faults of each kind: [crash, io, power]
  MaxQueue,   \* bound on the operations waiting for their turn
  Torn,       \* a last line that was cut short
  None

VARIABLES
  file,       \* the event log as the next read sees it: [lines, tail]
  disk,       \* the part of it that survives a loss of power
  snapshot,   \* the contract in snapshot.json, or None
  survivors,  \* the snapshots that may be there after a loss of power
  op,         \* the running operation: [at, request, contract]
  queue,      \* the operations waiting behind it
  answer,     \* the answer of the operation that just ended: [request, outcome]
  told,       \* the events that some answer called committed
  budget      \* faults left

storage == <<file, disk, snapshot, survivors>>
vars == <<storage, op, queue, answer, told, budget>>

-----------------------------------------------------------------------------
(* Events and requests                                                     *)

EventKind(kind) ==
  CASE kind = "initialize" -> "initialized"
    [] kind = "replace"    -> "replaced"
    [] kind = "migrate"    -> "migrated"
    [] OTHER               -> "applied"

EventOf(r) ==
  [kind |-> EventKind(r.kind), requestId |-> r.requestId, eventId |-> r.eventId,
   id |-> r.id, version |-> 2, content |-> r.content,
   revision |-> CASE r.kind = "apply" -> r.expected.revision + 1
                  [] r.kind = "migrate" -> r.expected.revision
                  [] OTHER -> 1,
   previous |-> IF r.kind = "replace" THEN r.expected ELSE None]

Writes == {r \in Requests : r.kind # "load"}
Events == {EventOf(r) : r \in Writes} \cup {Legacy[i] : i \in DOMAIN Legacy}
Starts == {<<>>, Legacy}

\* The log with the unterminated last line that the next load completes.
Visible == IF file.tail \in Events THEN Append(file.lines, file.tail) ELSE file.lines

Ledger == INSTANCE ProgressLedger WITH history <- Visible

Contract(h) == Ledger!Contract(h)

ASSUME LegacyAssumption ==
  Legacy \in Seq({Legacy[i] : i \in DOMAIN Legacy}) /\ Ledger!Replays(Legacy)
\* A command names the contract it expects; None and Torn are not events.
ASSUME RequestsAssumption ==
  /\ \A r \in Requests :
       /\ r.kind \in {"initialize", "replace", "migrate", "apply", "load"}
       /\ r.kind \in {"apply", "migrate"} => r.id = r.expected.id
  /\ {None, Torn} \cap Events = {}
ASSUME BudgetsAssumption ==
  Budgets \subseteq [{"crash", "io", "power"} -> Nat] /\ MaxQueue \in Nat \ {0}

\* Mutant: the retry of an initialization that replaced a contract is missed.
MatchesOwnKind(e, r) == e = EventOf(r)

\* eventMatchesCommand, eventMatchesReplacement and the migration's own test
\* compare what the event holds with what the request asks, and a contract in it
\* with its schema version; a repeated initialization may also find the
\* replacement it became.
Matches(e, r) ==
  LET f == EventOf(r)
  IN  /\ e.kind = f.kind \/ (r.kind = "initialize" /\ e.kind = "replaced")
      /\ e.id = f.id /\ e.revision = f.revision /\ e.content = f.content
      /\ r.kind = "replace" => e.previous = f.previous
      /\ r.kind = "apply" \/ e.version = f.version

-----------------------------------------------------------------------------
(* The queue                                                               *)

NoOp == [at |-> "idle", request |-> None, contract |-> None]
NoAnswer == [request |-> None, outcome |-> "none"]

Goto(at) == op' = [op EXCEPT !.at = at]

\* Mutant: the queue is not released.
FinishHolding(outcome) == UNCHANGED op /\ answer' = [request |-> op.request, outcome |-> outcome]

\* The operation returns or throws; either way the queue moves on.
Finish(outcome) ==
  /\ op' = NoOp
  /\ answer' = [request |-> op.request, outcome |-> outcome]

Pending(r) == op.request = r \/ \E i \in DOMAIN queue : queue[i] = r

Submit(r) ==
  /\ Len(queue) < MaxQueue /\ ~Pending(r)
  /\ queue' = Append(queue, r)
  /\ UNCHANGED <<storage, op, answer, told, budget>>

Begin ==
  /\ op.at = "idle" /\ queue # <<>>
  /\ op' = [at |-> "repair", request |-> Head(queue), contract |-> None]
  /\ queue' = Tail(queue) /\ answer' = NoAnswer
  /\ UNCHANGED <<storage, told, budget>>

-----------------------------------------------------------------------------
(* #load: repair the last line, replay, recover the snapshot               *)

\* Mutant: whatever stands on the last line is taken as an event.
RepairedUnread ==
  [lines |-> IF file.tail = None THEN file.lines ELSE Append(file.lines, file.tail),
   tail |-> None]

Repaired == [lines |-> Visible, tail |-> None]

RepairTail ==
  /\ op.at = "repair"
  /\ file' = Repaired
  /\ Goto(IF file.tail = None THEN "replay" ELSE "repairSync")
  /\ UNCHANGED <<disk, snapshot, survivors, queue, answer, told, budget>>

RepairSync ==
  /\ op.at = "repairSync"
  /\ disk' = file
  /\ Goto("replay")
  /\ UNCHANGED <<file, snapshot, survivors, queue, answer, told, budget>>

Replay ==
  /\ op.at = "replay"
  /\ IF ~Ledger!Replays(file.lines)
     THEN Finish("EVENT_LOG_CORRUPT")
     ELSE IF file.lines = <<>> /\ snapshot # None
     THEN Finish("EVENT_LOG_MISSING")
     ELSE /\ op' = [op EXCEPT !.contract = Contract(file.lines),
                              !.at = IF snapshot = Contract(file.lines) THEN "decide" ELSE "recover"]
          /\ UNCHANGED answer
  /\ UNCHANGED <<storage, queue, told, budget>>

\* atomicWriteFile: the rename shows at once, the directory sync makes it last.
Renamed(c) == snapshot' = c /\ survivors' = survivors \cup {c}

DirectorySynced == survivors' = {snapshot} /\ UNCHANGED snapshot

Recover ==
  /\ op.at = "recover"
  /\ Renamed(op.contract) /\ Goto("recoverSync")
  /\ UNCHANGED <<file, disk, queue, answer, told, budget>>

RecoverSync ==
  /\ op.at = "recoverSync"
  /\ DirectorySynced /\ Goto("decide")
  /\ UNCHANGED <<file, disk, queue, answer, told, budget>>

-----------------------------------------------------------------------------
(* What the operation makes of the loaded contract                         *)

Written == {file.lines[i] : i \in DOMAIN file.lines}

SameRequestId(r) == {e \in Written : e.requestId = r.requestId}
SameEventId(r)   == {e \in Written : e.eventId = r.eventId}

Accepts(c, r) ==
  CASE r.kind = "initialize" -> c = None
    [] r.kind = "replace"    -> c # None /\ Ledger!Follows(c, EventOf(r))
    [] r.kind = "migrate"    -> c # None /\ c.version = 1 /\ Ledger!Refers(r.expected, c)
    [] OTHER                 -> c # None /\ c.version = 2 /\ Ledger!Refers(r.expected, c)

\* Mutant: only the requestId is looked up.
VerdictByRequest(c, r) ==
  IF r.kind = "load" THEN "loaded"
  ELSE IF SameRequestId(r) # {}
  THEN IF \E e \in SameRequestId(r) : e.eventId = r.eventId /\ Matches(e, r)
       THEN "duplicate" ELSE "REQUEST_ID_CONFLICT"
  ELSE IF r.kind = "migrate" /\ c # None /\ c.version = 2 THEN "current"
  ELSE IF Accepts(c, r) THEN "write" ELSE "rejected"

\* The answers that need no write, in the order in which they are tried.
Verdict(c, r) ==
  IF r.kind = "load" THEN "loaded"
  ELSE IF SameRequestId(r) # {}
  THEN IF \E e \in SameRequestId(r) : e.eventId = r.eventId /\ Matches(e, r)
       THEN "duplicate" ELSE "REQUEST_ID_CONFLICT"
  ELSE IF SameEventId(r) # {} THEN "EVENT_ID_CONFLICT"
  ELSE IF r.kind = "migrate" /\ c # None /\ c.version = 2 THEN "current"
  ELSE IF Accepts(c, r) THEN "write" ELSE "rejected"

Decide ==
  /\ op.at = "decide"
  /\ LET verdict == Verdict(op.contract, op.request)
     IN  /\ IF verdict = "write"
            THEN Goto("append") /\ UNCHANGED answer
            ELSE Finish(verdict)
         /\ told' = IF verdict = "duplicate" THEN told \cup SameRequestId(op.request) ELSE told
  /\ UNCHANGED <<storage, queue, budget>>

-----------------------------------------------------------------------------
(* The write: append the line, sync it, then replace the snapshot          *)

\* Mutant: the snapshot is replaced before the line is synced.
AppendLineUnsynced ==
  /\ op.at = "append"
  /\ file' = [file EXCEPT !.lines = Append(@, EventOf(op.request))]
  /\ Goto("rename")
  /\ UNCHANGED <<disk, snapshot, survivors, queue, answer, told, budget>>

AppendLine ==
  /\ op.at = "append"
  /\ file' = [file EXCEPT !.lines = Append(@, EventOf(op.request))]
  /\ Goto("sync")
  /\ UNCHANGED <<disk, snapshot, survivors, queue, answer, told, budget>>

\* Mutant: the line is never synced.
SyncLineSkipped ==
  /\ op.at = "sync" /\ Goto("rename")
  /\ UNCHANGED <<storage, queue, answer, told, budget>>

SyncLine ==
  /\ op.at = "sync"
  /\ disk' = file
  /\ Goto("rename")
  /\ UNCHANGED <<file, snapshot, survivors, queue, answer, told, budget>>

RenameSnapshot ==
  /\ op.at = "rename"
  /\ Renamed(Ledger!After(EventOf(op.request))) /\ Goto("renameSync")
  /\ UNCHANGED <<file, disk, queue, answer, told, budget>>

\* What every answer after the commit tells the caller.
TellCommitted == told' = told \cup {EventOf(op.request)}

SyncSnapshot ==
  /\ op.at = "renameSync"
  /\ DirectorySynced /\ TellCommitted /\ Finish("committed")
  /\ UNCHANGED <<file, disk, queue, budget>>

-----------------------------------------------------------------------------
(* Faults                                                                  *)

Spend(kind) == budget[kind] > 0 /\ budget' = [budget EXCEPT ![kind] = @ - 1]

\* A line whose write stopped half-way, or just short of its newline.
Interrupted == {None, Torn, EventOf(op.request)}

\* A file operation fails: before the commit the caller gets STORE_IO_FAILED,
\* whether or not the line can be seen; after it, the committed revision.
IoFails ==
  /\ Spend("io")
  /\ op.at \in {"repair", "repairSync", "recover", "recoverSync", "append", "sync", "rename", "renameSync"}
  /\ IF op.at \in {"rename", "renameSync"}
     THEN TellCommitted /\ Finish("SNAPSHOT_WRITE_FAILED_AFTER_COMMIT")
     ELSE Finish("STORE_IO_FAILED") /\ UNCHANGED told
  /\ IF op.at = "append"
     THEN \E t \in Interrupted : file' = [file EXCEPT !.tail = t]
     ELSE UNCHANGED file
  /\ UNCHANGED <<disk, snapshot, survivors, queue>>

\* The process dies with everything it has queued; the files stay.
Restarted == op' = NoOp /\ queue' = <<>> /\ answer' = NoAnswer

Crash ==
  /\ Spend("crash")
  /\ Restarted
  /\ IF op.at = "append"
     THEN \E t \in Interrupted : file' = [file EXCEPT !.tail = t]
     ELSE UNCHANGED file
  /\ UNCHANGED <<disk, snapshot, survivors, told>>

\* What a log f of which only d was synced may hold after a loss of power.
Remnants(d, f) ==
  UNION {{[lines |-> SubSeq(f.lines, 1, n), tail |-> t] :
            t \in {None, Torn} \cup (IF n < Len(f.lines) THEN {f.lines[n + 1]} ELSE {f.tail})} :
         n \in Len(d.lines)..Len(f.lines)}

PowerLoss ==
  /\ Spend("power")
  /\ Restarted
  /\ file' \in IF disk = file THEN {file} ELSE Remnants(disk, file)
  /\ disk' = file'
  /\ snapshot' \in survivors /\ survivors' = {snapshot'}
  /\ UNCHANGED told

-----------------------------------------------------------------------------

Init ==
  /\ \E h \in Starts :
       /\ file = [lines |-> h, tail |-> None]
       /\ snapshot \in {None, Contract(h)}
  /\ disk = file
  /\ survivors = {snapshot}
  /\ op = NoOp /\ queue = <<>>
  /\ answer = NoAnswer
  /\ told = {}
  /\ budget \in Budgets

Step ==
  \/ Begin \/ RepairTail \/ RepairSync \/ Replay \/ Recover \/ RecoverSync 
  \/ Decide \/ AppendLine \/ SyncLine \/ RenameSnapshot \/ SyncSnapshot

Next ==
  \/ \E r \in Requests : Submit(r)
  \/ Step
  \/ IoFails \/ Crash \/ PowerLoss

Spec == Init /\ [][Next]_vars /\ WF_vars(Step)

-----------------------------------------------------------------------------
(* Properties                                                              *)

Places == {"idle", "repair", "repairSync", "replay", "recover", "recoverSync", "decide", "append",
           "sync", "rename", "renameSync"}

Outcomes ==
  {"none", "loaded", "duplicate", "current", "rejected", "committed", "REQUEST_ID_CONFLICT",
   "EVENT_ID_CONFLICT", "EVENT_LOG_CORRUPT", "EVENT_LOG_MISSING", "STORE_IO_FAILED",
   "SNAPSHOT_WRITE_FAILED_AFTER_COMMIT"}

Logs == [lines : Seq(Events), tail : {None, Torn} \cup Events]
Contracts == {Ledger!After(e) : e \in Events}

TypeOK ==
  /\ file \in Logs /\ disk \in Logs
  /\ survivors \subseteq Contracts \cup {None} /\ snapshot \in survivors
  /\ op \in [at : Places, request : Requests \cup {None}, contract : Contracts \cup {None}]
  /\ queue \in Seq(Requests) /\ Len(queue) <= MaxQueue
  /\ answer \in [request : Requests \cup {None}, outcome : Outcomes]
  /\ told \subseteq Events
  /\ budget \in [{"crash", "io", "power"} -> Nat]

\* No crash, failed call or loss of power, and no mix of fresh, repeated and
\* conflicting requests, leaves a log that a later load refuses.
LogReplays == Ledger!Replays(Visible)

\* The snapshot, which the status line reads without the lock, never runs
\* ahead of the log: it is the contract of some prefix of the events.
SnapshotNeverAhead ==
  snapshot # None =>
    \E n \in 1..Len(Visible) : snapshot = Contract(SubSeq(Visible, 1, n))

\* Some event carries the request's ids and says what it asks; the client may
\* repeat as an initialization what was first carried out as a replacement, and
\* as a command what an earlier release carried out.
Repeats(r) ==
  \E i \in DOMAIN Visible :
    LET e == Visible[i]
        f == EventOf(r)
        initialization == r.kind = "initialize" /\ e.kind = "replaced"
    IN  /\ e.requestId = f.requestId /\ e.eventId = f.eventId
        /\ e.id = f.id /\ e.revision = f.revision /\ e.content = f.content
        /\ e.kind = f.kind \/ initialization
        /\ e.previous = f.previous \/ r.kind # "replace"
        /\ e.version = f.version \/ r.kind = "apply"

\* A request that was committed and is sent again, however its first answer
\* was lost and whatever was written since, is never refused; and only such
\* a request is answered as a duplicate.
RetryIsRecognised ==
  answer.request \in Writes =>
    /\ Repeats(answer.request) =>
         answer.outcome \notin {"rejected", "REQUEST_ID_CONFLICT", "EVENT_ID_CONFLICT"}
    /\ answer.outcome = "duplicate" => Repeats(answer.request)

\* A reopened session never finds a snapshot without its log, which the
\* store can only refuse (EVENT_LOG_MISSING) for ever.
NeverStranded == Visible = <<>> => snapshot = None

\* The store implements the ledger: it commits in order, once per request,
\* and keeps through every fault what it told a caller.
ImplementsLedger == Ledger!Spec

\* Every operation takes its turn and ends it, or dies with its process: no
\* error path leaves the queue of its session blocked.  Turns are taken in
\* order, so every request is answered.
QueueGoesOn ==
  /\ queue # <<>> ~> op.at # "idle" \/ queue = <<>>
  /\ op.at # "idle" ~> op.at = "idle"

=============================================================================
