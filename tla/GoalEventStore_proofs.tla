------------------------ MODULE GoalEventStore_proofs ------------------------
(***************************************************************************)
(* The store implements the ledger, and its files keep the promises their  *)
(* readers rely on, for every set of requests and every log an earlier     *)
(* release may have left behind.                                           *)
(*                                                                         *)
(* The argument: what an operation knows at a place (its turn, the log it  *)
(* loaded, that its line stands last) is still so at the next one, since   *)
(* no other operation runs in between; and what callers and the snapshot   *)
(* rest on is in the part of the log that no fault still to come can take. *)
(***************************************************************************)
EXTENDS GoalEventStore, SequenceTheorems, TLAPS

LP == INSTANCE ProgressLedger_proofs WITH history <- Visible

\* Crashes and failing calls, or losses of power, but not both.
SeparateBudgets == \A b \in Budgets : b.power = 0 \/ (b.crash = 0 /\ b.io = 0)

\* The places behind the repair of the last line, and behind the load.
Repairing == {"idle", "repair"}
Deciding  == {"recover", "recoverSync", "decide", "append"}
Committing == {"sync", "rename", "renameSync"}

\* What the operation that has its turn knows.
TurnInv ==
  /\ op.at # "idle" => op.request \in Requests /\ answer = NoAnswer
  /\ op.at \notin Repairing => file.tail = None
  /\ op.at \in Deciding => op.contract = Contract(file.lines)
  /\ op.at \in {"recover", "recoverSync"} => file.lines # <<>>
  /\ op.at = "append" => Verdict(op.contract, op.request) = "write"
  /\ op.at \in Committing=>
       /\ op.request \in Writes
       /\ file.lines # <<>> /\ file.lines[Len(file.lines)] = EventOf(op.request)

\* The part of the log that no fault still in the budget can take away.
Durable == IF budget.power > 0 THEN disk.lines ELSE file.lines

\* While a loss of power is possible, only the line being written is not synced.
DiskInv ==
  budget.power > 0 =>
    /\ budget.crash = 0 /\ budget.io = 0
    /\ op.at \notin {"repairSync", "sync"} => disk = file
    /\ Len(disk.lines) <= Len(file.lines)
    /\ \A i \in 1..Len(disk.lines) : disk.lines[i] = file.lines[i]

\* Answers and snapshots speak of durable events only.
KeptInv ==
  /\ told \subseteq Ledger!Listed(Durable)
  /\ survivors \subseteq {None} \cup {Ledger!After(e) : e \in Ledger!Listed(Durable)}

-----------------------------------------------------------------------------
(* The log                                                                 *)

\* What is seen of a log is its lines and, if it is an event, the last one.
LEMMA VisibleIsTyped ==
  ASSUME TypeOK
  PROVE  /\ Visible \in Seq(Events)
         /\ file.tail = None => Visible = file.lines
         /\ \A i \in DOMAIN file.lines : i \in DOMAIN Visible /\ Visible[i] = file.lines[i]
<1>1. None \notin Events
  BY RequestsAssumption
<1> QED
  BY <1>1 DEF TypeOK, Logs, Visible

\* The ledger's own lemmas, about the store's log.
LEMMA LongerLogReplays ==
  ASSUME NEW h \in Seq(Events), NEW e \in Events, Ledger!Replays(h),
         Ledger!Follows(Ledger!Contract(h), e),
         \A i \in DOMAIN h : ~Ledger!SameRequest(h[i], e)
  PROVE  Ledger!Replays(Append(h, e))
<1>1. \A f : LP!Contract(f) = Ledger!Contract(f)
  BY DEF LP!Contract, Ledger!Contract, LP!After, Ledger!After
<1>2. \A c, f : LP!Follows(c, f) <=> Ledger!Follows(c, f)
  BY DEF LP!Follows, Ledger!Follows, LP!Refers, Ledger!Refers
<1>3. \A f, g : LP!SameRequest(f, g) <=> Ledger!SameRequest(f, g)
  BY DEF LP!SameRequest, Ledger!SameRequest
<1>4. \A f : LP!Replays(f) <=> Ledger!Replays(f)
  BY <1>1, <1>2, <1>3 DEF LP!Replays, Ledger!Replays
<1> QED
  BY <1>1, <1>2, <1>3, <1>4, LP!LongerReplays


\* So does any beginning of it.
LEMMA ShorterLogReplays ==
  ASSUME NEW h \in Seq(Events), NEW n \in 0..Len(h), Ledger!Replays(h)
  PROVE  Ledger!Replays(SubSeq(h, 1, n))
<1>1. \A f : LP!Contract(f) = Ledger!Contract(f)
  BY DEF LP!Contract, Ledger!Contract, LP!After, Ledger!After
<1>2. \A c, f : LP!Follows(c, f) <=> Ledger!Follows(c, f)
  BY DEF LP!Follows, Ledger!Follows, LP!Refers, Ledger!Refers
<1>3. \A f, g : LP!SameRequest(f, g) <=> Ledger!SameRequest(f, g)
  BY DEF LP!SameRequest, Ledger!SameRequest
<1>4. \A f : LP!Replays(f) <=> Ledger!Replays(f)
  BY <1>1, <1>2, <1>3 DEF LP!Replays, Ledger!Replays
<1> QED
  BY <1>4, LP!ShorterReplays

\* The log of an earlier release is made of events.
LEMMA LegacyIsTyped == Legacy \in Seq(Events)
BY LegacyAssumption DEF Events

\* A contract that is found in a log is one that an event left.
LEMMA ContractIsTyped ==
  ASSUME NEW h \in Seq(Events)
  PROVE  /\ Contract(h) \in Contracts \cup {None}
         /\ h # <<>> => Contract(h) \in {Ledger!After(e) : e \in Ledger!Listed(h)}
BY DEF Contract, Contracts, Ledger!Contract, Ledger!Listed

\* A log with other lines, or with another last line.
LEMMA LogWith ==
  ASSUME NEW f \in Logs, NEW l \in Seq(Events), NEW t \in {None, Torn} \cup Events
  PROVE  /\ [f EXCEPT !.lines = l] \in Logs
         /\ [f EXCEPT !.lines = l] = [lines |-> l, tail |-> f.tail]
         /\ [f EXCEPT !.tail = t] \in Logs
         /\ [f EXCEPT !.tail = t] = [lines |-> f.lines, tail |-> t]
BY DEF Logs

-----------------------------------------------------------------------------
(* Types                                                                   *)

LEMMA InitIsTyped == Init => TypeOK
<1> SUFFICES ASSUME Init PROVE TypeOK
  OBVIOUS
<1>1. PICK h \in Starts : file = [lines |-> h, tail |-> None] /\ snapshot \in {None, Contract(h)}
  BY DEF Init
<1>2. h \in Seq(Events)
  <2>1. h = <<>> \/ h = Legacy
    BY DEF Starts
  <2>2. <<>> \in Seq(Events)
    OBVIOUS
  <2> QED
    BY <2>1, <2>2, LegacyIsTyped
<1>3. file \in Logs /\ disk \in Logs
  BY <1>1, <1>2 DEF Init, Logs
<1>4. snapshot \in Contracts \cup {None}
  BY <1>1, <1>2, ContractIsTyped
<1>5. op \in [at : Places, request : Requests \cup {None}, contract : Contracts \cup {None}]
  BY DEF Init, NoOp, Places
<1>6. answer \in [request : Requests \cup {None}, outcome : Outcomes]
  BY DEF Init, NoAnswer, Outcomes
<1>7. budget \in [{"crash", "io", "power"} -> Nat]
  BY BudgetsAssumption DEF Init
<1>8. queue \in Seq(Requests) /\ Len(queue) <= MaxQueue
  BY BudgetsAssumption DEF Init
<1> QED
  BY <1>3, <1>4, <1>5, <1>6, <1>7, <1>8 DEF Init, TypeOK

\* What one operation changes has the types of what it was.
LEMMA FinishIsTyped ==
  ASSUME TypeOK, NEW outcome \in Outcomes, Finish(outcome)
  PROVE  /\ op' \in [at : Places, request : Requests \cup {None}, contract : Contracts \cup {None}]
         /\ answer' \in [request : Requests \cup {None}, outcome : Outcomes]
BY DEF TypeOK, Finish, NoOp, Places

LEMMA GotoIsTyped ==
  ASSUME TypeOK, NEW at \in Places, Goto(at)
  PROVE  op' \in [at : Places, request : Requests \cup {None}, contract : Contracts \cup {None}]
BY DEF TypeOK, Goto

LEMMA RestartIsTyped ==
  ASSUME Restarted
  PROVE  /\ op' \in [at : Places, request : Requests \cup {None}, contract : Contracts \cup {None}]
         /\ answer' \in [request : Requests \cup {None}, outcome : Outcomes]
         /\ queue' \in Seq(Requests) /\ Len(queue') <= MaxQueue
BY BudgetsAssumption DEF Restarted, NoOp, NoAnswer, Places, Outcomes

LEMMA SpendIsTyped ==
  ASSUME TypeOK, NEW kind \in {"crash", "io", "power"}, Spend(kind)
  PROVE  budget' \in [{"crash", "io", "power"} -> Nat]
BY DEF TypeOK, Spend

\* A line that was cut short leaves a log.
LEMMA InterruptedIsTyped ==
  ASSUME TypeOK, op.request \in Writes, NEW t \in Interrupted
  PROVE  [file EXCEPT !.tail = t] \in Logs
BY DEF TypeOK, Logs, Interrupted, Events

LEMMA RemnantsAreTyped ==
  ASSUME TypeOK, NEW f \in Remnants(disk, file)
  PROVE  f \in Logs
<1> DEFINE Tails(n) ==
      {None, Torn} \cup (IF n < Len(file.lines) THEN {file.lines[n + 1]} ELSE {file.tail})
<1>0. PICK n \in Len(disk.lines)..Len(file.lines) :
        f \in {[lines |-> SubSeq(file.lines, 1, n), tail |-> t] : t \in Tails(n)}
  BY DEF Remnants
<1>1. PICK t \in Tails(n) : f = [lines |-> SubSeq(file.lines, 1, n), tail |-> t]
  BY <1>0
<1>2. Len(disk.lines) \in Nat /\ Len(file.lines) \in Nat
  BY DEF TypeOK, Logs
<1>3. SubSeq(file.lines, 1, n) \in Seq(Events)
  BY <1>1, <1>2 DEF TypeOK, Logs
<1>4. n < Len(file.lines) => file.lines[n + 1] \in Events
  BY <1>1, <1>2 DEF TypeOK, Logs
<1>5. t \in {None, Torn} \cup Events
  BY <1>1, <1>4 DEF TypeOK, Logs
<1> QED
  BY <1>1, <1>3, <1>5 DEF Logs

\* The operation that writes has a request to write.
LEMMA WriterHasEvent ==
  ASSUME TurnInv, op.at = "append" \/ op.at \in Committing
  PROVE  op.request \in Writes /\ EventOf(op.request) \in Events
BY DEF TurnInv, Committing, Writes, Events, Verdict

\* Every step keeps the types.
LEMMA TypeStep == ASSUME TypeOK, TurnInv, [Next]_vars PROVE TypeOK'
<1> DEFINE Ops == [at : Places, request : Requests \cup {None}, contract : Contracts \cup {None}]
           Answers == [request : Requests \cup {None}, outcome : Outcomes]
<1>1. ASSUME NEW r \in Requests, Submit(r) PROVE TypeOK'
  <2>1. queue' \in Seq(Requests) /\ Len(queue') <= MaxQueue
    BY <1>1, BudgetsAssumption DEF Submit, TypeOK
  <2> QED
    BY <1>1, <2>1 DEF Submit, TypeOK, storage
<1>2. CASE Begin
  <2>1. queue' \in Seq(Requests) /\ Len(queue') <= MaxQueue /\ Head(queue) \in Requests
    BY <1>2, BudgetsAssumption DEF Begin, TypeOK
  <2>2. op' \in Ops
    BY <1>2, <2>1 DEF Begin, Places
  <2>3. answer' \in Answers
    BY <1>2 DEF Begin, NoAnswer, Outcomes
  <2> QED
    BY <1>2, <2>1, <2>2, <2>3 DEF Begin, TypeOK, storage
<1>3. CASE RepairTail
  <2>1. file' \in Logs
    BY <1>3, VisibleIsTyped DEF RepairTail, Repaired, Logs
  <2>2. op' \in Ops
    BY <1>3, GotoIsTyped DEF RepairTail, Places
  <2> QED
    BY <1>3, <2>1, <2>2 DEF RepairTail, TypeOK
<1>4. CASE RepairSync
  <2>1. op' \in Ops
    BY <1>4, GotoIsTyped DEF RepairSync, Places
  <2> QED
    BY <1>4, <2>1 DEF RepairSync, TypeOK
<1>5. CASE Replay
  <2>1. op' \in Ops /\ answer' \in Answers
    <3>1. CASE Finish("EVENT_LOG_CORRUPT") \/ Finish("EVENT_LOG_MISSING")
      BY <3>1, FinishIsTyped DEF Outcomes
    <3>2. ASSUME NEW at \in {"decide", "recover"}, UNCHANGED answer,
                 op' = [op EXCEPT !.contract = Contract(file.lines), !.at = at]
          PROVE  op' \in Ops /\ answer' \in Answers
      <4>1. Contract(file.lines) \in Contracts \cup {None}
        BY ContractIsTyped DEF TypeOK, Logs
      <4> QED
        BY <3>2, <4>1 DEF TypeOK, Places
    <3> QED
      BY <1>5, <3>1, <3>2 DEF Replay
  <2> QED
    BY <1>5, <2>1 DEF Replay, TypeOK, storage
<1>6. CASE Recover
  <2>1. op' \in Ops
    BY <1>6, GotoIsTyped DEF Recover, Places
  <2> QED
    BY <1>6, <2>1 DEF Recover, Renamed, TypeOK
<1>7. CASE RecoverSync
  <2>1. op' \in Ops
    BY <1>7, GotoIsTyped DEF RecoverSync, Places
  <2> QED
    BY <1>7, <2>1 DEF RecoverSync, DirectorySynced, TypeOK
<1>8. CASE Decide
  <2>1. op' \in Ops /\ answer' \in Answers
    <3>1. Verdict(op.contract, op.request) \in Outcomes \cup {"write"}
      BY DEF Verdict, Outcomes
    <3>2. CASE Verdict(op.contract, op.request) = "write"
      BY <1>8, <3>2, GotoIsTyped DEF Decide, Places, TypeOK
    <3>3. CASE Verdict(op.contract, op.request) # "write"
      BY <1>8, <3>1, <3>3, FinishIsTyped DEF Decide
    <3> QED
      BY <3>2, <3>3
  <2>2. told' \subseteq Events
    BY <1>8 DEF Decide, SameRequestId, Written, TypeOK, Logs
  <2> QED
    BY <1>8, <2>1, <2>2 DEF Decide, TypeOK, storage

<1>9. CASE AppendLine
  <2>1. op' \in Ops
    BY <1>9, GotoIsTyped DEF AppendLine, Places
  <2>2. file' \in Logs
    <3>1. Append(file.lines, EventOf(op.request)) \in Seq(Events)
      BY <1>9, WriterHasEvent DEF AppendLine, TypeOK, Logs
    <3>2. file \in Logs /\ file' = [file EXCEPT !.lines = Append(file.lines, EventOf(op.request))]
      BY <1>9 DEF AppendLine, TypeOK
    <3> QED
      BY <3>1, <3>2, LogWith
  <2> QED
    BY <1>9, <2>1, <2>2 DEF AppendLine, TypeOK
<1>10. CASE SyncLine
  <2>1. op' \in Ops
    BY <1>10, GotoIsTyped DEF SyncLine, Places
  <2> QED
    BY <1>10, <2>1 DEF SyncLine, TypeOK
<1>11. CASE RenameSnapshot
  <2>1. op' \in Ops
    BY <1>11, GotoIsTyped DEF RenameSnapshot, Places
  <2>2. Ledger!After(EventOf(op.request)) \in Contracts
    BY <1>11, WriterHasEvent DEF RenameSnapshot, Committing, Contracts
  <2> QED
    BY <1>11, <2>1, <2>2 DEF RenameSnapshot, Renamed, TypeOK
<1>12. CASE SyncSnapshot
  <2>1. op' \in Ops /\ answer' \in Answers
    BY <1>12, FinishIsTyped DEF SyncSnapshot, Outcomes
  <2>2. told' \subseteq Events
    BY <1>12, WriterHasEvent DEF SyncSnapshot, TellCommitted, Committing, TypeOK
  <2> QED
    BY <1>12, <2>1, <2>2 DEF SyncSnapshot, DirectorySynced, TypeOK
<1>13. CASE IoFails
  <2>1. op' \in Ops /\ answer' \in Answers
    BY <1>13, FinishIsTyped DEF IoFails, Outcomes
  <2>2. told' \subseteq Events
    BY <1>13, WriterHasEvent DEF IoFails, TellCommitted, Committing, TypeOK
  <2>3. file' \in Logs
    BY <1>13, WriterHasEvent, InterruptedIsTyped DEF IoFails, TypeOK
  <2>4. budget' \in [{"crash", "io", "power"} -> Nat]
    BY <1>13, SpendIsTyped DEF IoFails
  <2> QED
    BY <1>13, <2>1, <2>2, <2>3, <2>4 DEF IoFails, TypeOK
<1>14. CASE Crash
  <2>1. op' \in Ops /\ answer' \in Answers /\ queue' \in Seq(Requests) /\ Len(queue') <= MaxQueue
    BY <1>14, RestartIsTyped DEF Crash
  <2>2. file' \in Logs
    BY <1>14, WriterHasEvent, InterruptedIsTyped DEF Crash, TypeOK
  <2>3. budget' \in [{"crash", "io", "power"} -> Nat]
    BY <1>14, SpendIsTyped DEF Crash
  <2> QED
    BY <1>14, <2>1, <2>2, <2>3 DEF Crash, TypeOK
<1>15. CASE PowerLoss
  <2>1. op' \in Ops /\ answer' \in Answers /\ queue' \in Seq(Requests) /\ Len(queue') <= MaxQueue
    BY <1>15, RestartIsTyped DEF PowerLoss
  <2>2. file' \in Logs
    BY <1>15, RemnantsAreTyped DEF PowerLoss, TypeOK
  <2>3. budget' \in [{"crash", "io", "power"} -> Nat]
    BY <1>15, SpendIsTyped DEF PowerLoss
  <2> QED
    BY <1>15, <2>1, <2>2, <2>3 DEF PowerLoss, TypeOK
<1>16. CASE UNCHANGED vars
  BY <1>16 DEF vars, storage, TypeOK
<1> QED
  BY <1>1, <1>2, <1>3, <1>4, <1>5, <1>6, <1>7, <1>8, <1>9, <1>10, <1>11, <1>12, <1>13, <1>14,
     <1>15, <1>16 DEF Next, Step

-----------------------------------------------------------------------------
(* The turn                                                                *)

LEMMA InitTurn == Init => TurnInv
BY DEF Init, TurnInv, NoOp, Repairing, Deciding, Committing

\* An operation that ended leaves nothing to know.
LEMMA FinishedTurn == ASSUME NEW outcome, Finish(outcome) PROVE TurnInv'
BY DEF Finish, NoOp, TurnInv, Repairing, Deciding, Committing

LEMMA RestartedTurn == ASSUME Restarted PROVE TurnInv'
BY DEF Restarted, NoOp, TurnInv, Repairing, Deciding, Committing

\* Going on to another place changes nothing else of the operation.
LEMMA GoneTo ==
  ASSUME TypeOK, NEW at, Goto(at)
  PROVE  op'.at = at /\ op'.request = op.request /\ op'.contract = op.contract
BY DEF TypeOK, Goto

\* The line that was written stands last.
LEMMA AppendLineShows ==
  ASSUME TypeOK, TurnInv, AppendLine
  PROVE  /\ file'.lines = Append(file.lines, EventOf(op.request)) /\ file'.tail = file.tail
         /\ file'.lines # <<>> /\ file'.lines[Len(file'.lines)] = EventOf(op.request)
<1>1. file \in Logs /\ file' = [file EXCEPT !.lines = Append(file.lines, EventOf(op.request))]
  BY DEF AppendLine, TypeOK
<1>2. EventOf(op.request) \in Events
  BY WriterHasEvent DEF AppendLine
<1>3. file.lines \in Seq(Events)
  BY <1>1 DEF Logs
<1>4. Append(file.lines, EventOf(op.request)) \in Seq(Events)
  BY <1>2, <1>3
<1>5. file' = [lines |-> Append(file.lines, EventOf(op.request)), tail |-> file.tail]
  BY <1>1, <1>4, LogWith
<1> QED
  BY <1>2, <1>3, <1>5

\* Every step keeps what the operation knows.
LEMMA TurnStep == ASSUME TypeOK, TurnInv, [Next]_vars PROVE TurnInv'
<1> USE DEF Repairing, Deciding, Committing
<1>1. ASSUME NEW r \in Requests, Submit(r) PROVE TurnInv'
  BY <1>1 DEF Submit, TurnInv, storage, Verdict, Accepts, SameRequestId, SameEventId, Written
<1>2. CASE Begin
  <2>1. Head(queue) \in Requests
    BY <1>2 DEF Begin, TypeOK
  <2> QED
    BY <1>2, <2>1 DEF Begin, TurnInv
<1>3. CASE RepairTail
  BY <1>3, GoneTo DEF RepairTail, Repaired, TurnInv
<1>4. CASE RepairSync
  BY <1>4, GoneTo DEF RepairSync, TurnInv
<1>5. CASE Replay
  <2>1. CASE Finish("EVENT_LOG_CORRUPT") \/ Finish("EVENT_LOG_MISSING")
    BY <2>1, FinishedTurn
  <2>2. ASSUME ~(file.lines = <<>> /\ snapshot # None), UNCHANGED answer,
               op' = [op EXCEPT !.contract = Contract(file.lines),
                                !.at = IF snapshot = Contract(file.lines) THEN "decide" ELSE "recover"]
        PROVE  TurnInv'
    <3> DEFINE at == IF snapshot = Contract(file.lines) THEN "decide" ELSE "recover"
    <3>1. op'.at = at /\ op'.request = op.request /\ op'.contract = Contract(file.lines)
      BY <2>2 DEF TypeOK
    <3>2. file.lines = <<>> => at = "decide"
      BY <2>2 DEF Contract, Ledger!Contract
    <3>3. at \in {"decide", "recover"}
      OBVIOUS
    <3>4. file' = file /\ answer' = answer /\ op.at = "replay"
      BY <1>5, <2>2 DEF Replay, storage
    <3> HIDE DEF at
    <3> QED
      BY <3>1, <3>2, <3>3, <3>4 DEF TurnInv
  <2> QED
    BY <1>5, <2>1, <2>2 DEF Replay
<1>6. CASE Recover
  BY <1>6, GoneTo DEF Recover, TurnInv
<1>7. CASE RecoverSync
  BY <1>7, GoneTo DEF RecoverSync, TurnInv
<1>8. CASE Decide
  <2>1. CASE Verdict(op.contract, op.request) = "write"
    <3>1. op'.at = "append" /\ op'.request = op.request /\ op'.contract = op.contract
      BY <1>8, <2>1, GoneTo DEF Decide
    <3>2. file' = file /\ answer' = answer /\ op.at = "decide"
      BY <1>8, <2>1 DEF Decide, storage
    <3>3. Verdict(op.contract, op.request)' = Verdict(op.contract, op.request)
      BY <3>1, <3>2 DEF Verdict, Accepts, SameRequestId, SameEventId, Written
    <3> QED
      BY <2>1, <3>1, <3>2, <3>3 DEF TurnInv
  <2>2. CASE Verdict(op.contract, op.request) # "write"
    BY <1>8, <2>2, FinishedTurn DEF Decide
  <2> QED
    BY <2>1, <2>2
<1>9. CASE AppendLine
  <2>1. op'.at = "sync" /\ op'.request = op.request
    BY <1>9, GoneTo DEF AppendLine
  <2>2. op.request \in Writes /\ op.at = "append"
    BY <1>9, WriterHasEvent DEF AppendLine
  <2> QED
    BY <1>9, <2>1, <2>2, AppendLineShows DEF AppendLine, TurnInv
<1>10. CASE SyncLine
  BY <1>10, GoneTo DEF SyncLine, TurnInv
<1>11. CASE RenameSnapshot
  BY <1>11, GoneTo DEF RenameSnapshot, TurnInv
<1>12. CASE SyncSnapshot \/ IoFails
  BY <1>12, FinishedTurn DEF SyncSnapshot, IoFails
<1>13. CASE Crash \/ PowerLoss
  BY <1>13, RestartedTurn DEF Crash, PowerLoss
<1>14. CASE UNCHANGED vars
  BY <1>14 DEF vars, storage, TurnInv, Verdict, Accepts, SameRequestId, SameEventId, Written
<1> QED
  BY <1>1, <1>2, <1>3, <1>4, <1>5, <1>6, <1>7, <1>8, <1>9, <1>10, <1>11, <1>12, <1>13, <1>14
     DEF Next, Step

-----------------------------------------------------------------------------
(* Every step is a step of the ledger, or changes nothing that it sees      *)

\* What is about to be written continues the log, under ids of its own.
LEMMA WriteFollows ==
  ASSUME TypeOK, TurnInv, op.at = "append"
  PROVE  /\ Visible = file.lines
         /\ Ledger!Follows(Ledger!Contract(Visible), EventOf(op.request))
         /\ \A i \in DOMAIN Visible : ~Ledger!SameRequest(Visible[i], EventOf(op.request))
<1> DEFINE r == op.request
           e == EventOf(r)
           c == Ledger!Contract(file.lines)
<1>1. Visible = file.lines
  BY VisibleIsTyped DEF TurnInv, Repairing
<1>2. Verdict(c, r) = "write" /\ r \in Writes
  BY WriterHasEvent DEF TurnInv, Deciding, Contract
<1>3. SameRequestId(r) = {} /\ SameEventId(r) = {} /\ Accepts(c, r)
  BY <1>2 DEF Verdict
<1>4. e.requestId = r.requestId /\ e.eventId = r.eventId /\ e.id = r.id /\ e.kind = EventKind(r.kind)
  BY DEF EventOf
<1>5. \A i \in DOMAIN file.lines : ~Ledger!SameRequest(file.lines[i], e)
  BY <1>3, <1>4 DEF SameRequestId, SameEventId, Written, Ledger!SameRequest
<1>6. Ledger!Follows(c, e)
  <2> HIDE DEF c
  <2>1. CASE r.kind = "initialize"
    BY <1>3, <1>4, <2>1 DEF Accepts, EventKind, Ledger!Follows
  <2>2. CASE r.kind = "replace"
    BY <1>3, <2>2 DEF Accepts
  <2>3. CASE r.kind = "migrate"
    <3>1. c # None /\ c.version = 1 /\ r.expected = [id |-> c.id, revision |-> c.revision]
      BY <1>3, <2>3 DEF Accepts, Ledger!Refers
    <3>2. e.kind = "migrated" /\ e.revision = r.expected.revision /\ e.id = r.expected.id
      BY <1>2, <2>3, RequestsAssumption DEF EventOf, EventKind, Writes
    <3> QED
      BY <3>1, <3>2 DEF Ledger!Follows
  <2>4. CASE r.kind \notin {"initialize", "replace", "migrate"}
    <3>0. r.kind = "apply"
      BY <1>2, <2>4, RequestsAssumption DEF Writes
    <3>1. c # None /\ r.expected = [id |-> c.id, revision |-> c.revision]
      BY <1>3, <3>0 DEF Accepts, Ledger!Refers
    <3>2. e.kind = "applied" /\ e.revision = r.expected.revision + 1
      BY <3>0 DEF EventOf, EventKind
    <3>3. e.id = r.expected.id
      BY <1>2, <1>4, <3>0, RequestsAssumption DEF Writes
    <3> QED
      BY <3>1, <3>2, <3>3 DEF Ledger!Follows
  <2> QED
    BY <2>1, <2>2, <2>3, <2>4
<1> QED
  BY <1>1, <1>5, <1>6

\* Of one request there is at most one event.
LEMMA OneEvent ==
  ASSUME TypeOK, Ledger!Replays(file.lines), NEW r, NEW e \in SameRequestId(r)
  PROVE  SameRequestId(r) = {e}
<1>1. SUFFICES ASSUME NEW f \in SameRequestId(r) PROVE f = e
  OBVIOUS
<1>2. PICK i \in DOMAIN file.lines : e = file.lines[i] /\ e.requestId = r.requestId
  BY DEF SameRequestId, Written
<1>3. PICK j \in DOMAIN file.lines : f = file.lines[j] /\ f.requestId = r.requestId
  BY DEF SameRequestId, Written
<1>4. DOMAIN file.lines \subseteq Nat /\ \A k \in DOMAIN file.lines : k >= 1
  BY DEF TypeOK, Logs
<1>5. \A k, l \in DOMAIN file.lines : k < l => ~Ledger!SameRequest(file.lines[k], file.lines[l])
  BY <1>4 DEF Ledger!Replays
<1>6. i = j
  BY <1>2, <1>3, <1>4, <1>5 DEF Ledger!SameRequest
<1> QED
  BY <1>2, <1>3, <1>6

\* A write that stopped half-way shows the whole event or nothing of it.
LEMMA InterruptedShows ==
  ASSUME TypeOK, TurnInv, op.at = "append", NEW t \in Interrupted, file' = [file EXCEPT !.tail = t]
  PROVE  /\ file'.lines = file.lines
         /\ Visible' = Visible \/ Visible' = Append(Visible, EventOf(op.request))
<1>1. EventOf(op.request) \in Events /\ None \notin Events /\ Torn \notin Events
  BY WriterHasEvent, RequestsAssumption
<1>2. file' = [lines |-> file.lines, tail |-> t]
  BY <1>1, LogWith DEF TypeOK, Logs, Interrupted
<1>3. Visible = file.lines
  BY VisibleIsTyped DEF TurnInv, Repairing
<1> QED
  BY <1>1, <1>2, <1>3 DEF Visible, Interrupted

\* After a loss of power the log is shorter, by no more than was not synced.
LEMMA RemnantShows ==
  ASSUME TypeOK, NEW f \in Remnants(disk, file), file' = f
  PROVE  /\ \E n \in 0..Len(Visible) : Visible' = SubSeq(Visible, 1, n)
         /\ Len(disk.lines) <= Len(file'.lines) /\ Len(file'.lines) <= Len(file.lines)
         /\ \A i \in 1..Len(file'.lines) : file'.lines[i] = file.lines[i]
<1> DEFINE Tails(n) ==
      {None, Torn} \cup (IF n < Len(file.lines) THEN {file.lines[n + 1]} ELSE {file.tail})
<1>0. PICK n \in Len(disk.lines)..Len(file.lines) :
        f \in {[lines |-> SubSeq(file.lines, 1, n), tail |-> t] : t \in Tails(n)}
  BY DEF Remnants
<1>1. PICK t \in Tails(n) : f = [lines |-> SubSeq(file.lines, 1, n), tail |-> t]
  BY <1>0
<1>2. file.lines \in Seq(Events) /\ Len(disk.lines) \in Nat /\ Len(file.lines) \in Nat
  BY DEF TypeOK, Logs
<1>3. /\ SubSeq(file.lines, 1, n) \in Seq(Events) /\ Len(SubSeq(file.lines, 1, n)) = n
      /\ \A i \in 1..n : SubSeq(file.lines, 1, n)[i] = file.lines[i]
  BY <1>2
<1>4. None \notin Events /\ Torn \notin Events
  BY RequestsAssumption
<1>5. n \in Nat /\ n <= Len(file.lines)
  BY <1>2
<1>6. Visible \in Seq(Events) /\ SubSeq(Visible, 1, n) = SubSeq(file.lines, 1, n)
      /\ n <= Len(Visible) /\ Len(Visible) \in Nat
  <2>1. Visible \in Seq(Events) /\ \A i \in 1..n : i \in DOMAIN Visible /\ Visible[i] = file.lines[i]
    BY <1>2, VisibleIsTyped
  <2>2. n # 0 => n \in DOMAIN Visible
    BY <2>1, <1>5
  <2>3. DOMAIN Visible = 1..Len(Visible) /\ Len(Visible) \in Nat
    BY <2>1
  <2>4. n <= Len(Visible)
    BY <2>2, <2>3, <1>5
  <2> QED
    BY <2>1, <2>3, <2>4, <1>2, <1>3
<1>7. /\ Len(disk.lines) <= Len(file'.lines) /\ Len(file'.lines) <= Len(file.lines)
      /\ \A i \in 1..Len(file'.lines) : file'.lines[i] = file.lines[i]
  BY <1>1, <1>2, <1>3, <1>5
<1>8. CASE t \notin Events
  <2>1. Visible' = SubSeq(file.lines, 1, n)
    BY <1>1, <1>8 DEF Visible
  <2> QED
    BY <2>1, <1>5, <1>6, <1>7
<1>9. CASE t \in Events
  <2>1. Visible' = Append(SubSeq(file.lines, 1, n), t)
    BY <1>1, <1>9 DEF Visible
  <2>2. CASE n < Len(file.lines)
    <3>1. t = file.lines[n + 1]
      BY <1>1, <1>4, <1>9, <2>2
    <3>2. Visible' = SubSeq(Visible, 1, n + 1) /\ n + 1 \in 0..Len(Visible)
      <4>1. Visible' = SubSeq(file.lines, 1, n + 1)
        BY <2>1, <2>2, <3>1, <1>2, <1>3, <1>5
      <4>2. \A i \in 1..(n + 1) : i \in DOMAIN Visible /\ Visible[i] = file.lines[i]
        BY <1>2, <1>5, <2>2, VisibleIsTyped
      <4>3. n + 1 <= Len(Visible)
        <5>1. n + 1 \in DOMAIN Visible
          BY <4>2, <1>5
        <5> QED
          BY <5>1, <1>5, <1>6
      <4>4. SubSeq(file.lines, 1, n + 1) = SubSeq(Visible, 1, n + 1)
        BY <4>2, <4>3, <1>2, <1>5, <1>6, <2>2
      <4> QED
        BY <4>1, <4>3, <4>4, <1>5, <1>6
    <3> QED
      BY <3>2, <1>7
  <2>3. CASE n = Len(file.lines)
    <3>1. t = file.tail
      BY <1>1, <1>4, <1>9, <2>3
    <3>2. SubSeq(file.lines, 1, n) = file.lines
      BY <1>2, <2>3
    <3>3. Visible' = Visible
      BY <2>1, <3>1, <3>2, <1>9 DEF Visible
    <3>4. Visible = SubSeq(Visible, 1, Len(Visible))
      BY <1>6
    <3> QED
      <4>1. Len(Visible) \in 0..Len(Visible)
        BY <1>6
      <4>2. Visible' = SubSeq(Visible, 1, Len(Visible))
        BY <3>3, <3>4
      <4> QED
        BY <4>1, <4>2, <1>7
  <2> QED
    BY <2>2, <2>3, <1>5, <1>2
<1> QED
  BY <1>8, <1>9

\* What a step is to the ledger, a loss of power left aside.
LedgerAction ==
  \/ UNCHANGED <<Visible, told>>
  \/ \E e \in Events : Ledger!Commit(e) \/ Ledger!Tell(e)

\* A repetition is reported with the one event there is of its request.
LEMMA DecideTells ==
  ASSUME TypeOK, TurnInv, LogReplays, Decide
  PROVE  LedgerAction
<1>1. Visible = file.lines /\ Visible' = Visible
  BY VisibleIsTyped DEF Decide, TurnInv, Repairing, Visible, storage
<1>2. CASE Verdict(op.contract, op.request) # "duplicate"
  BY <1>1, <1>2 DEF Decide, LedgerAction
<1>3. CASE Verdict(op.contract, op.request) = "duplicate"
  <2>1. SameRequestId(op.request) # {}
    BY <1>3 DEF Verdict
  <2>2. PICK e : SameRequestId(op.request) = {e}
    BY <1>1, <2>1, OneEvent DEF LogReplays
  <2>3. e \in Ledger!Listed(Visible)
    BY <1>1, <2>2 DEF SameRequestId, Written, Ledger!Listed
  <2>4. told' = told \cup {e}
    BY <1>3, <2>2 DEF Decide
  <2>5. e \in Events
    BY <2>3, VisibleIsTyped DEF Ledger!Listed
  <2> QED
    BY <1>1, <2>3, <2>4, <2>5 DEF LedgerAction, Ledger!Tell
<1> QED
  BY <1>2, <1>3

\* The line that is appended is a commit of its event.
LEMMA AppendCommits ==
  ASSUME TypeOK, TurnInv, op.at = "append", UNCHANGED told,
         Visible' = Visible \/ Visible' = Append(Visible, EventOf(op.request))
  PROVE  LedgerAction
<1>1. EventOf(op.request) \in Events
  BY WriterHasEvent
<1> QED
  BY <1>1, WriteFollows DEF LedgerAction, Ledger!Commit

\* What an answer after the commit reports stands last in the log.
LEMMA CommitIsTold ==
  ASSUME TypeOK, TurnInv, op.at \in Committing, UNCHANGED file, TellCommitted
  PROVE  LedgerAction /\ EventOf(op.request) \in Ledger!Listed(file.lines)
<1>1. EventOf(op.request) \in Events
  BY WriterHasEvent
<1>2. Visible = file.lines /\ Visible' = Visible
  BY VisibleIsTyped DEF TurnInv, Repairing, Committing, Visible
<1>3. Len(file.lines) \in DOMAIN file.lines
  BY DEF TypeOK, Logs, TurnInv
<1>4. EventOf(op.request) \in Ledger!Listed(file.lines)
  BY <1>3 DEF TurnInv, Ledger!Listed
<1> QED
  BY <1>1, <1>2, <1>4 DEF TellCommitted, LedgerAction, Ledger!Tell

\* Every step commits one event, reports one, loses an end of the log with the
\* power, or changes nothing that the ledger sees.
LEMMA LedgerStep ==
  ASSUME TypeOK, TurnInv, LogReplays, [Next]_vars
  PROVE  \/ LedgerAction
         \/ PowerLoss /\ \E n \in 0..Len(Visible) : Visible' = SubSeq(Visible, 1, n)
<1>1. ASSUME UNCHANGED <<file, told>> PROVE LedgerAction
  BY <1>1 DEF LedgerAction, Visible
<1>2. ASSUME NEW r \in Requests, Submit(r) PROVE LedgerAction
  BY <1>1, <1>2 DEF Submit, storage
<1>3. CASE Begin \/ RepairSync \/ Replay \/ Recover \/ RecoverSync \/ SyncLine \/ RenameSnapshot
  BY <1>1, <1>3 DEF Begin, RepairSync, Replay, Recover, RecoverSync, SyncLine, RenameSnapshot, storage
<1>4. CASE RepairTail
  <2>1. file' = [lines |-> Visible, tail |-> None] /\ None \notin Events
    BY <1>4, RequestsAssumption DEF RepairTail, Repaired
  <2>2. Visible' = Visible
    BY <2>1 DEF Visible
  <2> QED
    BY <1>4, <2>2 DEF RepairTail, LedgerAction
<1>5. CASE Decide
  BY <1>5, DecideTells
<1>6. CASE AppendLine
  <2>1. file.tail = None /\ None \notin Events /\ Visible = file.lines
    BY <1>6, RequestsAssumption, VisibleIsTyped DEF AppendLine, TurnInv, Repairing
  <2>2. Visible' = Append(Visible, EventOf(op.request))
    BY <1>6, <2>1, AppendLineShows DEF Visible
  <2> QED
    BY <1>6, <2>2, AppendCommits DEF AppendLine
<1>7. CASE SyncSnapshot
  BY <1>7, CommitIsTold DEF SyncSnapshot, Committing
<1>8. CASE IoFails
  <2>1. CASE op.at = "append"
    <3>1. UNCHANGED told
      BY <1>8, <2>1 DEF IoFails
    <3>2. \E t \in Interrupted : file' = [file EXCEPT !.tail = t]
      BY <1>8, <2>1 DEF IoFails
    <3> QED
      BY <2>1, <3>1, <3>2, InterruptedShows, AppendCommits
  <2>2. CASE op.at \in {"rename", "renameSync"}
    BY <1>8, <2>2, CommitIsTold DEF IoFails, Committing
  <2>3. CASE op.at \notin {"append", "rename", "renameSync"}
    BY <1>8, <2>3, <1>1 DEF IoFails
  <2> QED
    BY <2>1, <2>2, <2>3
<1>9. CASE Crash
  <2>1. CASE op.at = "append"
    BY <1>9, <2>1, InterruptedShows, AppendCommits DEF Crash
  <2>2. CASE op.at # "append"
    BY <1>9, <2>2, <1>1 DEF Crash
  <2> QED
    BY <2>1, <2>2
<1>10. CASE PowerLoss
  <2>1. CASE disk = file
    <3>1. UNCHANGED <<file, told>>
      BY <1>10, <2>1 DEF PowerLoss
    <3> QED
      BY <1>1, <3>1
  <2>2. CASE disk # file
    BY <1>10, <2>2, RemnantShows DEF PowerLoss
  <2> QED
    BY <2>1, <2>2
<1>11. CASE UNCHANGED vars
  BY <1>1, <1>11 DEF vars, storage
<1> QED
  BY <1>2, <1>3, <1>4, <1>5, <1>6, <1>7, <1>8, <1>9, <1>10, <1>11 DEF Next, Step

\* A log that replays is followed by one that does.
LEMMA ReplaysStep == ASSUME TypeOK, TurnInv, LogReplays, [Next]_vars PROVE LogReplays'
<1>1. Visible \in Seq(Events)
  BY VisibleIsTyped
<1>2. ASSUME NEW e \in Events, Ledger!Commit(e) PROVE LogReplays'
  BY <1>1, <1>2, LongerLogReplays DEF Ledger!Commit, LogReplays
<1>3. ASSUME NEW e \in Events, Ledger!Tell(e) PROVE LogReplays'
  BY <1>3 DEF Ledger!Tell, LogReplays
<1>4. ASSUME NEW n \in 0..Len(Visible), Visible' = SubSeq(Visible, 1, n) PROVE LogReplays'
  BY <1>1, <1>4, ShorterLogReplays DEF LogReplays
<1>5. ASSUME UNCHANGED Visible PROVE LogReplays'
  BY <1>5 DEF LogReplays
<1> QED
  BY <1>2, <1>3, <1>4, <1>5, LedgerStep DEF LedgerAction

LEMMA InitReplays == Init => LogReplays
<1> SUFFICES ASSUME Init PROVE LogReplays
  OBVIOUS
<1>1. PICK h \in Starts : file = [lines |-> h, tail |-> None]
  BY DEF Init
<1>2. Visible = h
  BY <1>1, RequestsAssumption DEF Visible
<1>3. Ledger!Replays(<<>>)
  BY DEF Ledger!Replays
<1> QED
  BY <1>1, <1>2, <1>3, LegacyAssumption DEF Starts, LogReplays

-----------------------------------------------------------------------------
(* Repeated requests                                                       *)

\* The verdict on a request that is in the log, and on one that is not.
LEMMA DecideRecognises ==
  ASSUME TypeOK, TurnInv, op.at = "decide", op.request \in Writes
  PROVE  LET v == Verdict(op.contract, op.request)
         IN  /\ Repeats(op.request) => v \notin {"rejected", "REQUEST_ID_CONFLICT", "EVENT_ID_CONFLICT"}
             /\ v = "duplicate" => Repeats(op.request)
<1> DEFINE r == op.request
           f == EventOf(r)
           v == Verdict(op.contract, r)
<1>1. Visible = file.lines
  BY VisibleIsTyped DEF TurnInv, Repairing
<1>2. r.kind # "load" /\ f.requestId = r.requestId /\ f.eventId = r.eventId
  BY DEF Writes, EventOf
<1>3. ASSUME Repeats(r) PROVE v = "duplicate"
  <2>1. PICK i \in DOMAIN file.lines :
          LET e == file.lines[i]
          IN  e.requestId = f.requestId /\ e.eventId = f.eventId /\ Matches(e, r)
    BY <1>1, <1>3, Zenon DEF Repeats, Matches
  <2>2. file.lines[i] \in SameRequestId(r)
    BY <1>2, <2>1 DEF SameRequestId, Written
  <2> QED
    BY <1>2, <2>1, <2>2 DEF Verdict
<1>4. ASSUME v = "duplicate" PROVE Repeats(r)
  <2>1. PICK e \in SameRequestId(r) : e.eventId = r.eventId /\ Matches(e, r)
    BY <1>2, <1>4 DEF Verdict
  <2>2. PICK i \in DOMAIN file.lines : e = file.lines[i] /\ e.requestId = r.requestId
    BY <2>1 DEF SameRequestId, Written
  <2> QED
    BY <1>1, <1>2, <2>1, <2>2 DEF Repeats, Matches
<1> QED
  BY <1>3, <1>4

\* Every step keeps RetryIsRecognised: only an operation that ends answers.
LEMMA RetryStep ==
  ASSUME TypeOK, TurnInv, TurnInv', RetryIsRecognised, [Next]_vars
  PROVE  RetryIsRecognised'
<1>1. ASSUME answer' = NoAnswer PROVE RetryIsRecognised'
  BY <1>1 DEF NoAnswer, RetryIsRecognised
<1>2. ASSUME op'.at # "idle" PROVE RetryIsRecognised'
  BY <1>1, <1>2 DEF TurnInv
<1>3. ASSUME UNCHANGED <<file, answer>> PROVE RetryIsRecognised'
  BY <1>3 DEF RetryIsRecognised, Repeats, Visible
<1>4. ASSUME NEW outcome, Finish(outcome),
             outcome \notin {"rejected", "REQUEST_ID_CONFLICT", "EVENT_ID_CONFLICT", "duplicate"}
      PROVE  RetryIsRecognised'
  BY <1>4 DEF Finish, RetryIsRecognised
<1>5. ASSUME NEW r \in Requests, Submit(r) PROVE RetryIsRecognised'
  BY <1>3, <1>5 DEF Submit, storage
<1>6. CASE Begin
  BY <1>1, <1>6 DEF Begin
<1>7. CASE RepairTail \/ RepairSync \/ Recover \/ RecoverSync \/ AppendLine \/ SyncLine \/ RenameSnapshot
  BY <1>2, <1>7, GoneTo DEF RepairTail, RepairSync, Recover, RecoverSync, AppendLine, SyncLine,
     RenameSnapshot
<1>8. CASE Replay
  <2>1. CASE Finish("EVENT_LOG_CORRUPT") \/ Finish("EVENT_LOG_MISSING")
    BY <1>4, <2>1
  <2>2. CASE UNCHANGED answer
    BY <1>3, <1>8, <2>2 DEF Replay, storage
  <2> QED
    BY <1>8, <2>1, <2>2 DEF Replay
<1>9. CASE Decide
  <2> DEFINE v == Verdict(op.contract, op.request)
  <2>1. CASE v = "write"
    BY <1>2, <1>9, <2>1, GoneTo DEF Decide
  <2>2. CASE v # "write"
    <3>1. answer' = [request |-> op.request, outcome |-> v] /\ UNCHANGED file /\ op.at = "decide"
      BY <1>9, <2>2 DEF Decide, Finish, storage
    <3>2. RetryIsRecognised' <=>
            (op.request \in Writes =>
               /\ Repeats(op.request) => v \notin {"rejected", "REQUEST_ID_CONFLICT", "EVENT_ID_CONFLICT"}
               /\ v = "duplicate" => Repeats(op.request))
      <4>1. Visible' = Visible
        BY <3>1 DEF Visible, storage
      <4> QED
        BY <3>1, <4>1 DEF RetryIsRecognised, Repeats
    <3> QED
      BY <3>1, <3>2, DecideRecognises
  <2> QED
    BY <2>1, <2>2
<1>10. CASE SyncSnapshot \/ IoFails
  BY <1>4, <1>10 DEF SyncSnapshot, IoFails
<1>11. CASE Crash \/ PowerLoss
  BY <1>1, <1>11 DEF Crash, PowerLoss, Restarted
<1>12. CASE UNCHANGED vars
  BY <1>3, <1>12 DEF vars, storage
<1> QED
  BY <1>5, <1>6, <1>7, <1>8, <1>9, <1>10, <1>11, <1>12 DEF Next, Step

-----------------------------------------------------------------------------
(* What no fault can take                                                  *)

LEMMA InitDurable == ASSUME SeparateBudgets, Init PROVE DiskInv /\ KeptInv
<1>1. PICK h \in Starts : file = [lines |-> h, tail |-> None] /\ snapshot \in {None, Contract(h)}
  BY DEF Init
<1>2. h \in Seq(Events) /\ file.lines = h /\ disk = file
  <2>1. h = <<>> \/ h = Legacy
    BY DEF Starts
  <2>2. <<>> \in Seq(Events)
    OBVIOUS
  <2> QED
    BY <1>1, <2>1, <2>2, LegacyIsTyped DEF Init
<1>3. DiskInv
  BY <1>2 DEF Init, DiskInv, SeparateBudgets
<1>4. Durable = h
  BY <1>2 DEF Durable
<1>5. snapshot \in {None} \cup {Ledger!After(e) : e \in Ledger!Listed(h)}
  <2>1. CASE h = <<>>
    BY <1>1, <2>1 DEF Contract, Ledger!Contract
  <2>2. CASE h # <<>>
    BY <1>1, <1>2, <2>2, ContractIsTyped
  <2> QED
    BY <2>1, <2>2
<1> QED
  BY <1>3, <1>4, <1>5 DEF Init, KeptInv

\* Outside of the two syncs, what an operation reads is durable.
LEMMA ReadIsDurable ==
  ASSUME DiskInv, op.at \notin {"repairSync", "sync"}
  PROVE  Durable = file.lines
BY DEF DiskInv, Durable

\* Faults spend from the budget and nothing else does.
LEMMA BudgetSpent ==
  ASSUME TypeOK, NEW kind \in {"crash", "io", "power"}, Spend(kind)
  PROVE  /\ \A other \in {"crash", "io", "power"} \ {kind} : budget'[other] = budget[other]
         /\ budget[kind] > 0 /\ budget'[kind] = budget[kind] - 1
         /\ budget'.crash <= budget.crash /\ budget'.io <= budget.io /\ budget'.power <= budget.power
BY DEF TypeOK, Spend

\* A crash or a failing call is met only when the power does not fail any more.
LEMMA FaultIsAlone ==
  ASSUME TypeOK, DiskInv, Crash \/ IoFails
  PROVE  budget.power = 0 /\ budget'.power = 0
<1>1. budget.power \in Nat
  BY DEF TypeOK
<1>2. CASE Crash
  BY <1>1, <1>2, BudgetSpent DEF Crash, DiskInv
<1>3. CASE IoFails
  BY <1>1, <1>3, BudgetSpent DEF IoFails, DiskInv
<1> QED
  BY <1>2, <1>3

\* Every step keeps the line being written the only one that is not synced.
LEMMA DiskStep == ASSUME TypeOK, TurnInv, DiskInv, [Next]_vars PROVE DiskInv'
<1>1. SUFFICES ASSUME budget'.power > 0
      PROVE  /\ budget'.crash = 0 /\ budget'.io = 0
             /\ op'.at \notin {"repairSync", "sync"} => disk' = file'
             /\ Len(disk'.lines) <= Len(file'.lines)
             /\ \A i \in 1..Len(disk'.lines) : disk'.lines[i] = file'.lines[i]
  BY DEF DiskInv
<1> DEFINE Same == UNCHANGED <<file, disk, budget>>
           Goal == /\ budget'.crash = 0 /\ budget'.io = 0
                   /\ op'.at \notin {"repairSync", "sync"} => disk' = file'
                   /\ Len(disk'.lines) <= Len(file'.lines)
                   /\ \A i \in 1..Len(disk'.lines) : disk'.lines[i] = file'.lines[i]
<1>2. ASSUME Same, op.at \notin {"repairSync", "sync"} \/ op' = op PROVE Goal
  BY <1>1, <1>2 DEF DiskInv
<1>3. ASSUME NEW r \in Requests, Submit(r) PROVE Goal
  BY <1>2, <1>3 DEF Submit, storage
<1>4. CASE Begin \/ Replay \/ Recover \/ RecoverSync \/ Decide \/ RenameSnapshot \/ SyncSnapshot
  BY <1>2, <1>4 DEF Begin, Replay, Recover, RecoverSync, Decide, RenameSnapshot, SyncSnapshot, storage
<1>5. CASE RepairTail
  <2>1. disk = file /\ budget' = budget /\ disk' = disk
    BY <1>1, <1>5 DEF RepairTail, DiskInv
  <2>2. file \in Logs /\ file' = [lines |-> Visible, tail |-> None]
    BY <1>5 DEF RepairTail, Repaired, TypeOK
  <2>3. CASE file.tail = None
    <3>1. file = [lines |-> file.lines, tail |-> None]
      BY <2>2, <2>3 DEF Logs
    <3>2. file' = file
      BY <2>2, <2>3, <3>1, VisibleIsTyped
    <3> QED
      BY <1>1, <2>1, <2>2, <3>2 DEF DiskInv, Logs
  <2>4. CASE file.tail # None
    <3>1. op'.at = "repairSync"
      BY <1>5, <2>4, GoneTo DEF RepairTail
    <3>2. \A i \in 1..Len(file.lines) : Visible[i] = file.lines[i]
      BY <2>2, VisibleIsTyped DEF Logs
    <3>3. Len(file.lines) <= Len(Visible)
      BY <2>2, RequestsAssumption DEF Visible, Logs
    <3> QED
      BY <1>1, <2>1, <2>2, <3>1, <3>2, <3>3 DEF DiskInv
  <2> QED
    BY <2>3, <2>4
<1>6. CASE RepairSync \/ SyncLine
  <2>1. disk' = file /\ file' = file /\ budget' = budget /\ file.lines \in Seq(Events)
    BY <1>6 DEF RepairSync, SyncLine, TypeOK, Logs
  <2> QED
    BY <1>1, <2>1 DEF DiskInv
<1>7. CASE AppendLine
  <2>1. disk = file /\ budget' = budget /\ disk' = disk /\ op'.at = "sync"
    BY <1>1, <1>7, GoneTo DEF AppendLine, DiskInv
  <2>2. file.lines \in Seq(Events) /\ file'.lines = Append(file.lines, EventOf(op.request))
    BY <1>7, AppendLineShows DEF TypeOK, Logs
  <2> QED
    BY <1>1, <2>1, <2>2 DEF DiskInv
<1>8. CASE Crash \/ IoFails
  BY <1>1, <1>8, FaultIsAlone
<1>9. CASE PowerLoss
  <2>1. disk' = file' /\ budget.power > 0 /\ budget'.crash = 0 /\ budget'.io = 0
    BY <1>9, BudgetSpent DEF PowerLoss, DiskInv
  <2>2. file' \in Logs
    BY <1>9, RemnantsAreTyped DEF PowerLoss, TypeOK
  <2> QED
    BY <2>1, <2>2 DEF Logs
<1>10. CASE UNCHANGED vars
  BY <1>2, <1>10 DEF vars, storage
<1> QED
  BY <1>3, <1>4, <1>5, <1>6, <1>7, <1>8, <1>9, <1>10 DEF Next, Step

\* What is durable stays so.
LEMMA DurableGrows ==
  ASSUME TypeOK, TurnInv, DiskInv, DiskInv', [Next]_vars
  PROVE  Ledger!Listed(Durable) \subseteq Ledger!Listed(Durable')
<1> DEFINE Kept(before, after) ==
      \A i \in DOMAIN before : i \in DOMAIN after /\ after[i] = before[i]
<1>1. SUFFICES Kept(Durable, Durable')
  BY DEF Ledger!Listed
<1>2. /\ budget.power \in Nat /\ file \in Logs /\ disk \in Logs
      /\ file.lines \in Seq(Events) /\ disk.lines \in Seq(Events)
  BY DEF TypeOK, Logs
<1>3. ASSUME UNCHANGED <<file, disk, budget>> PROVE Kept(Durable, Durable')
  BY <1>3 DEF Durable
<1>4. ASSUME NEW r \in Requests, Submit(r) PROVE Kept(Durable, Durable')
  BY <1>3, <1>4 DEF Submit, storage
<1>5. CASE Begin \/ Replay \/ Recover \/ RecoverSync \/ Decide \/ RenameSnapshot \/ SyncSnapshot
  BY <1>3, <1>5 DEF Begin, Replay, Recover, RecoverSync, Decide, RenameSnapshot, SyncSnapshot, storage
<1>6. CASE RepairTail
  <2>1. disk' = disk /\ budget' = budget /\ file'.lines = Visible
    BY <1>6 DEF RepairTail, Repaired
  <2> QED
    BY <2>1, VisibleIsTyped DEF Durable
<1>7. CASE RepairSync \/ SyncLine
  <2>1. disk' = file /\ file' = file /\ budget' = budget
    BY <1>7 DEF RepairSync, SyncLine
  <2> QED
    BY <1>2, <2>1 DEF Durable, DiskInv
<1>8. CASE AppendLine
  <2>1. disk' = disk /\ budget' = budget /\ file'.lines = Append(file.lines, EventOf(op.request))
    BY <1>8, AppendLineShows DEF AppendLine
  <2> QED
    BY <1>2, <2>1 DEF Durable
<1>9. CASE Crash \/ IoFails
  <2>1. Durable = file.lines /\ Durable' = file'.lines
    BY <1>9, FaultIsAlone DEF Durable
  <2>2. file'.lines = file.lines
    <3>1. CASE op.at = "append"
      BY <1>9, <3>1, InterruptedShows DEF Crash, IoFails
    <3>2. CASE op.at # "append"
      BY <1>9, <3>2 DEF Crash, IoFails
    <3> QED
      BY <3>1, <3>2
  <2> QED
    BY <2>1, <2>2
<1>10. CASE PowerLoss
  <2>1. budget.power > 0 /\ disk' = file'
    BY <1>10, BudgetSpent DEF PowerLoss
  <2>2. Durable = disk.lines /\ Durable' = file'.lines
    BY <2>1 DEF Durable
  <2>3. CASE disk = file
    BY <1>10, <2>2, <2>3 DEF PowerLoss
  <2>4. CASE disk # file
    <3>1. /\ Len(disk.lines) <= Len(file'.lines)
          /\ \A i \in 1..Len(file'.lines) : file'.lines[i] = file.lines[i]
      BY <1>10, <2>4, RemnantShows DEF PowerLoss
    <3>2. \A i \in 1..Len(disk.lines) : disk.lines[i] = file.lines[i]
      BY <2>1 DEF DiskInv
    <3>3. file'.lines \in Seq(Events)
      BY <1>10, <2>4, RemnantsAreTyped DEF PowerLoss, Logs
    <3>4. /\ DOMAIN disk.lines = 1..Len(disk.lines) /\ Len(disk.lines) \in Nat
          /\ DOMAIN file'.lines = 1..Len(file'.lines) /\ Len(file'.lines) \in Nat
      BY <1>2, <3>3
    <3>5. Kept(disk.lines, file'.lines)
      BY <3>1, <3>2, <3>4
    <3> QED
      BY <2>2, <3>5
  <2> QED
    BY <2>3, <2>4
<1>11. CASE UNCHANGED vars
  BY <1>3, <1>11 DEF vars, storage
<1> HIDE DEF Kept
<1> QED
  BY <1>4, <1>5, <1>6, <1>7, <1>8, <1>9, <1>10, <1>11 DEF Next, Step

\* Every step reports, and takes into a snapshot, durable events only.
LEMMA KeptStep ==
  ASSUME TypeOK, TurnInv, DiskInv, DiskInv', KeptInv, [Next]_vars
  PROVE  KeptInv'
<1> DEFINE Saved(h) == {None} \cup {Ledger!After(e) : e \in Ledger!Listed(h)}
<1>1. ASSUME told' \subseteq Ledger!Listed(Durable), survivors' \subseteq Saved(Durable) PROVE KeptInv'
  BY <1>1, DurableGrows DEF KeptInv
<1>2. told \subseteq Ledger!Listed(Durable) /\ survivors \subseteq Saved(Durable)
  BY DEF KeptInv
<1>3. file.lines \in Seq(Events)
  BY DEF TypeOK, Logs
<1>4. ASSUME NEW r \in Requests, Submit(r) PROVE KeptInv'
  BY <1>1, <1>2, <1>4 DEF Submit, storage
<1>5. CASE Begin \/ RepairTail \/ RepairSync \/ Replay \/ AppendLine \/ SyncLine \/ Crash
  BY <1>1, <1>2, <1>5 DEF Begin, RepairTail, RepairSync, Replay, AppendLine, SyncLine, Crash, storage
<1>6. CASE Recover
  <2>1. op.contract = Contract(file.lines) /\ file.lines # <<>> /\ Durable = file.lines
    BY <1>6, ReadIsDurable DEF Recover, TurnInv, Deciding
  <2>2. op.contract \in Saved(Durable)
    BY <1>3, <2>1, ContractIsTyped
  <2>3. survivors' = survivors \cup {op.contract} /\ told' = told
    BY <1>6 DEF Recover, Renamed
  <2> QED
    BY <1>1, <1>2, <2>2, <2>3
<1>7. CASE RecoverSync
  BY <1>1, <1>2, <1>7 DEF RecoverSync, DirectorySynced, TypeOK
<1>8. CASE Decide
  <2>1. Durable = file.lines /\ survivors' = survivors
    BY <1>8, ReadIsDurable DEF Decide, storage
  <2>2. told' \subseteq told \cup Ledger!Listed(file.lines)
    BY <1>8 DEF Decide, SameRequestId, Written, Ledger!Listed
  <2> QED
    BY <1>1, <1>2, <2>1, <2>2
<1>9. CASE RenameSnapshot
  <2>1. Durable = file.lines /\ Len(file.lines) \in DOMAIN file.lines
    BY <1>3, <1>9, ReadIsDurable DEF RenameSnapshot, TurnInv, Committing
  <2>2. EventOf(op.request) \in Ledger!Listed(Durable)
    BY <1>9, <2>1 DEF RenameSnapshot, TurnInv, Committing, Ledger!Listed
  <2>3. survivors' = survivors \cup {Ledger!After(EventOf(op.request))} /\ told' = told
    BY <1>9 DEF RenameSnapshot, Renamed
  <2> QED
    BY <1>1, <1>2, <2>2, <2>3
<1>10. CASE SyncSnapshot
  <2>1. Durable = file.lines /\ EventOf(op.request) \in Ledger!Listed(file.lines)
    BY <1>10, ReadIsDurable, CommitIsTold DEF SyncSnapshot, Committing
  <2>2. told' = told \cup {EventOf(op.request)} /\ survivors' \subseteq survivors
    BY <1>10 DEF SyncSnapshot, TellCommitted, DirectorySynced, TypeOK
  <2> QED
    BY <1>1, <1>2, <2>1, <2>2
<1>11. CASE IoFails
  <2>1. survivors' = survivors
    BY <1>11 DEF IoFails
  <2>2. CASE op.at \in {"rename", "renameSync"}
    <3>1. UNCHANGED file /\ TellCommitted
      BY <1>11, <2>2 DEF IoFails
    <3>2. Durable = file.lines /\ EventOf(op.request) \in Ledger!Listed(file.lines)
      BY <2>2, <3>1, ReadIsDurable, CommitIsTold DEF Committing
    <3> QED
      BY <1>1, <1>2, <2>1, <3>1, <3>2 DEF TellCommitted
  <2>3. CASE op.at \notin {"rename", "renameSync"}
    BY <1>1, <1>2, <1>11, <2>1, <2>3 DEF IoFails
  <2> QED
    BY <2>2, <2>3
<1>12. CASE PowerLoss
  BY <1>1, <1>2, <1>12 DEF PowerLoss
<1>13. CASE UNCHANGED vars
  BY <1>1, <1>2, <1>13 DEF vars, storage
<1> QED
  BY <1>4, <1>5, <1>6, <1>7, <1>8, <1>9, <1>10, <1>11, <1>12, <1>13 DEF Next, Step

-----------------------------------------------------------------------------
(* Results                                                                 *)

\* Holds whatever faults come: types, the turn, the log and the retries.
SafeInv == TypeOK /\ TurnInv /\ LogReplays /\ RetryIsRecognised

\* Holds where a loss of power does not meet the other faults.
IInv == SafeInv /\ DiskInv /\ KeptInv

LEMMA InitSafe == Init => SafeInv
BY InitIsTyped, InitTurn, InitReplays DEF SafeInv, RetryIsRecognised, Init, NoAnswer

LEMMA SafeStep == SafeInv /\ [Next]_vars => SafeInv'
BY TypeStep, TurnStep, ReplaysStep, RetryStep DEF SafeInv

\* The store keeps to its types through every fault.
THEOREM StoreIsTyped == Spec => []TypeOK
<1>1. SafeInv => TypeOK
  BY DEF SafeInv
<1> QED
  BY InitSafe, SafeStep, <1>1, PTL DEF Spec

\* Whatever requests come and whatever fails between two calls, crashes,
\* failing calls and losses of power mixed as they may be, no later load ever
\* refuses the log.
THEOREM LogAlwaysReplays == Spec => []LogReplays
<1>1. SafeInv => LogReplays
  BY DEF SafeInv
<1> QED
  BY InitSafe, SafeStep, <1>1, PTL DEF Spec

\* A request that was committed and is sent again is answered as what it is,
\* whatever was written since and whatever failed in between.
THEOREM RetryIsAlwaysRecognised == Spec => []RetryIsRecognised
<1>1. SafeInv => RetryIsRecognised
  BY DEF SafeInv
<1> QED
  BY InitSafe, SafeStep, <1>1, PTL DEF Spec

LEMMA InitInv == SeparateBudgets /\ Init => IInv
BY InitSafe, InitDurable DEF IInv

LEMMA InvStep == IInv /\ [Next]_vars => IInv'
<1> SUFFICES ASSUME IInv, [Next]_vars PROVE IInv'
  OBVIOUS
<1>1. SafeInv'
  BY SafeStep DEF IInv
<1>2. DiskInv'
  BY DiskStep DEF IInv, SafeInv
<1>3. KeptInv'
  BY <1>2, KeptStep DEF IInv, SafeInv
<1> QED
  BY <1>1, <1>2, <1>3 DEF IInv

\* What is durable is seen.
LEMMA DurableIsVisible ==
  ASSUME IInv
  PROVE  \A i \in DOMAIN Durable : i \in DOMAIN Visible /\ Visible[i] = Durable[i]
<1>1. budget.power \in Nat /\ file.lines \in Seq(Events) /\ disk.lines \in Seq(Events)
  BY DEF IInv, SafeInv, TypeOK, Logs
<1>2. \A i \in DOMAIN file.lines : i \in DOMAIN Visible /\ Visible[i] = file.lines[i]
  BY VisibleIsTyped DEF IInv, SafeInv
<1>3. CASE budget.power = 0
  BY <1>2, <1>3 DEF Durable
<1>4. CASE budget.power > 0
  BY <1>1, <1>2, <1>4 DEF Durable, IInv, DiskInv
<1> QED
  BY <1>1, <1>3, <1>4

\* The snapshot is the contract of some beginning of the log, which may be read
\* without the lock: unless a loss of power meets another fault, which is what
\* leaves a session stranded.
THEOREM SnapshotIsNeverAhead ==
  ASSUME SeparateBudgets
  PROVE  Spec => []SnapshotNeverAhead
<1>1. IInv => SnapshotNeverAhead
  <2> SUFFICES ASSUME IInv, snapshot # None
               PROVE  \E n \in 1..Len(Visible) : snapshot = Contract(SubSeq(Visible, 1, n))
    BY DEF SnapshotNeverAhead
  <2>1. snapshot \in {Ledger!After(e) : e \in Ledger!Listed(Durable)}
    BY DEF IInv, SafeInv, TypeOK, KeptInv
  <2>2. PICK n \in DOMAIN Durable : snapshot = Ledger!After(Durable[n])
    BY <2>1 DEF Ledger!Listed
  <2>3. Visible \in Seq(Events)
    BY VisibleIsTyped DEF IInv, SafeInv
  <2>4. n \in 1..Len(Visible) /\ Visible[n] = Durable[n]
    BY <2>2, <2>3, DurableIsVisible
  <2>5. /\ SubSeq(Visible, 1, n) # <<>> /\ Len(SubSeq(Visible, 1, n)) = n
        /\ SubSeq(Visible, 1, n)[n] = Visible[n]
    BY <2>3, <2>4
  <2>6. Contract(SubSeq(Visible, 1, n)) = Ledger!After(Visible[n])
    BY <2>5 DEF Contract, Ledger!Contract
  <2> QED
    BY <2>2, <2>4, <2>6
<1>2. Init => IInv
  BY InitInv
<1> QED
  BY <1>1, <1>2, InvStep, PTL DEF Spec

\* The store implements the ledger, for every set of requests and every number
\* of faults: it commits in order, once per request, and keeps what it told a
\* caller.  Where a loss of power may follow a crash or a failing call the promise
\* is not kept: a load and a repeated request take a line for committed that was
\* never synced.
THEOREM StoreImplementsLedger ==
  ASSUME SeparateBudgets
  PROVE  Spec => ImplementsLedger
<1>1. Init => Ledger!Init
  <2> SUFFICES ASSUME Init PROVE Ledger!Init
    OBVIOUS
  <2>1. PICK h \in Starts : file = [lines |-> h, tail |-> None]
    BY DEF Init
  <2>2. Visible = h
    BY <2>1, RequestsAssumption DEF Visible
  <2> QED
    BY <2>1, <2>2 DEF Init, Ledger!Init
<1>2. IInv /\ Ledger!ToldIsKept' /\ [Next]_vars => [Ledger!Next]_(Ledger!vars)
  <2> SUFFICES ASSUME IInv, Ledger!ToldIsKept', [Next]_vars PROVE [Ledger!Next]_(Ledger!vars)
    OBVIOUS
  <2>1. CASE LedgerAction
    BY <2>1 DEF LedgerAction, Ledger!Next, Ledger!vars
  <2>2. ASSUME PowerLoss, NEW n \in 0..Len(Visible), Visible' = SubSeq(Visible, 1, n)
        PROVE  Ledger!Next
    <3>1. told' = told /\ told' \subseteq Ledger!Listed(Visible')
      BY <2>2 DEF PowerLoss, Ledger!ToldIsKept, Ledger!Listed
    <3> QED
      BY <2>2, <3>1 DEF Ledger!Lose, Ledger!Next
  <2> QED
    BY <2>1, <2>2, LedgerStep DEF IInv, SafeInv
<1>3. Init => IInv
  BY InitInv
<1>4. IInv => Ledger!ToldIsKept
  BY DurableIsVisible DEF IInv, KeptInv, Ledger!ToldIsKept, Ledger!Listed
<1> QED
  BY <1>1, <1>2, <1>3, <1>4, InvStep, PTL DEF Spec, ImplementsLedger, Ledger!Spec

=============================================================================
