---------------------- MODULE UpdateCoordinator_proofs ----------------------
(***************************************************************************)
(* Proofs about UpdateCoordinator, for any number of releases, operations, *)
(* Codex launches, requests and crashes.                                   *)
(*   UpdatesAreTyped            the type invariant; an operation's number  *)
(*                              is in range because requests reserve it    *)
(*   NewCodexIsSpared           a restart worker closes only its own Codex *)
(*   ActivationIsAlwaysEarned   an update completes in a new Codex only    *)
(*   UpdatesAreDriven           every update in progress can go on         *)
(*   VerdictIsItsOwnAlways      a worker answers for its own operation     *)
(***************************************************************************)
EXTENDS UpdateCoordinator, FiniteSetTheorems, TLAPS

-----------------------------------------------------------------------------
(* Types.  That an operation's number stays in range is a matter of        *)
(* counting: the requests to start an update that are on their way have    *)
(* their numbers reserved.                                                 *)

Pending(rs) == {a \in rs : a.kind = "start"}
BeingServed(j) == IF j.intent \in {"start", "retry"} THEN 1 ELSE 0

\* Every number that a request on its way may take is left.
BudgetInv ==
  /\ IsFiniteSet(Pending(replies))
  /\ used + Cardinality(Pending(replies)) + BeingServed(job) <= MaxOperations

\* What the types rest on: a job reads the record only in a phase that has one,
\* the update under way has a number, and a worker a release to install.
ReleaseInv ==
  \A i \in Ids : installer[i].at \in {"upgrading", "linked", "switched", "undoing"}
                   => installer[i].version \in Versions /\ installer[i].from \in Versions
RestInv ==
  /\ job # NoJob => state.phase \in Recorded
  /\ work.at = "none" => work = NoWork
  /\ work.at # "none" => work.id \in Ids /\ work.version \in Versions
  /\ op = NoOp \/ op.id \in Ids
  /\ ReleaseInv

TypeInv == TypeOK /\ BudgetInv /\ RestInv

\* The types, part by part.
FilesTyped ==
  /\ state \in States /\ op \in Operations
  /\ state.phase \in Active \cup {"available", "download-failed", "update-failed"}
       => state.latest # Unknown
InsideTyped ==
  /\ job \in Jobs /\ work \in Works /\ replies \subseteq Replies
  /\ timer \in BOOLEAN /\ cleaning \in BOOLEAN /\ autoTried \in BOOLEAN
  /\ due \in {"none", "initialize", "reconcile"} /\ up \in {"down", "up", "stopping"}
WorldTyped ==
  /\ program \in Versions /\ installed \in Versions /\ published \in Versions
  /\ build \in Versions /\ launch \in 0 .. MaxLaunch /\ launches \in 1 .. MaxLaunch
WorkersTyped == installer \in [Ids -> Installers] /\ restarter \in [Ids -> Restarters]
HistoryTyped ==
  /\ overlapped \in BOOLEAN /\ dropped \in BOOLEAN
  /\ upgraded \subseteq Ids /\ began \in [Ids -> 0 .. MaxLaunch]
BoundsTyped ==
  used \in 0 .. MaxOperations /\ asked \in 0 .. MaxRequests /\ crashes \in 0 .. MaxCrashes

LEMMA TypeParts ==
  TypeOK <=> FilesTyped /\ InsideTyped /\ WorldTyped /\ WorkersTyped /\ HistoryTyped /\ BoundsTyped
<1>1. {timer, autoTried, cleaning, overlapped, dropped} \subseteq BOOLEAN
      <=> /\ timer \in BOOLEAN /\ autoTried \in BOOLEAN /\ cleaning \in BOOLEAN
          /\ overlapped \in BOOLEAN /\ dropped \in BOOLEAN
  BY Zenon
<1>2. {program, installed, published, build} \subseteq Versions
      <=> program \in Versions /\ installed \in Versions /\ published \in Versions /\ build \in Versions
  BY Zenon
<1> QED
  BY <1>1, <1>2, Zenon
  DEF TypeOK, FilesTyped, InsideTyped, WorldTyped, WorkersTyped, HistoryTyped, BoundsTyped

LEMMA TypePartsNext ==
  TypeOK' <=> FilesTyped' /\ InsideTyped' /\ WorldTyped' /\ WorkersTyped' /\ HistoryTyped' /\ BoundsTyped'
  BY TypeParts, PTL

\* The constants as numbers, and the values that stand for nothing.
LEMMA Bounds ==
  /\ MaxVersion \in Nat /\ MaxVersion > 0 /\ MaxOperations \in Nat /\ MaxOperations > 0
  /\ MaxLaunch \in Nat /\ MaxLaunch > 0 /\ MaxRequests \in Nat /\ MaxCrashes \in Nat
  BY UpdateBounds

LEMMA Nothing ==
  /\ NoOp \in Operations /\ NoJob \in Jobs /\ NoWork \in Works
  /\ Idle \in Installers /\ NoRestart \in Restarters
<1>1. NoOp \in Operations BY Bounds DEF NoOp, Operations, NoId
<1>2. NoJob \in Jobs BY <1>1 DEF NoJob, Jobs
<1>3. NoWork \in Works BY Bounds DEF NoWork, Works, NoId
<1>4. Idle \in Installers /\ NoRestart \in Restarters
  BY Bounds DEF Idle, Installers, NoRestart, Restarters
<1> QED BY <1>1, <1>2, <1>3, <1>4

\* Starting states: nothing has begun.
LEMMA InitTyped == Init => TypeInv
<1> SUFFICES ASSUME Init PROVE TypeInv OBVIOUS
<1>1. state \in States /\ state.phase = "up-to-date"
  BY Bounds DEF Init, States, Versions, Phases, NoId
<1>2. TypeOK
  <2>1. FilesTyped BY <1>1, Nothing DEF Init, FilesTyped, Active, Underway, Recorded
  <2>2. InsideTyped BY Nothing DEF Init, InsideTyped
  <2>3. WorldTyped BY Bounds DEF Init, WorldTyped, Versions
  <2>4. WorkersTyped BY Nothing DEF Init, WorkersTyped
  <2>5. HistoryTyped
    <3>1. upgraded = {} /\ began = [i \in Ids |-> 0] BY DEF Init
    <3>2. overlapped \in BOOLEAN /\ dropped \in BOOLEAN BY DEF Init
    <3>3. [i \in Ids |-> 0] \in [Ids -> 0 .. MaxLaunch] BY Bounds
    <3> QED BY <3>1, <3>2, <3>3 DEF HistoryTyped
  <2>6. BoundsTyped BY Bounds DEF Init, BoundsTyped
  <2> QED BY <2>1, <2>2, <2>3, <2>4, <2>5, <2>6, TypeParts
<1>3. Pending(replies) = {} BY DEF Init, Pending
<1>4. BudgetInv
  BY <1>3, FS_EmptySet, Bounds DEF Init, BudgetInv, BeingServed, NoJob
<1>5. RestInv BY DEF Init, RestInv, ReleaseInv, Idle, NoWork
<1> QED BY <1>2, <1>4, <1>5 DEF TypeInv

\* Steps that send nothing on its way keep the numbers that are reserved.
LEMMA BudgetKept ==
  BudgetInv /\ Pending(replies') \subseteq Pending(replies) /\ used' = used
    /\ used \in Nat /\ (job' = job \/ job' = NoJob \/ BeingServed(job') = 0) => BudgetInv'
<1> SUFFICES ASSUME BudgetInv, Pending(replies') \subseteq Pending(replies), used' = used,
                    used \in Nat, job' = job \/ job' = NoJob \/ BeingServed(job') = 0
             PROVE  BudgetInv'
  OBVIOUS
<1>1. /\ IsFiniteSet(Pending(replies')) /\ Cardinality(Pending(replies)) \in Nat
      /\ Cardinality(Pending(replies')) \in Nat
      /\ Cardinality(Pending(replies')) <= Cardinality(Pending(replies))
  BY FS_Subset, FS_CardinalityType DEF BudgetInv
<1>2. BeingServed(job) \in {0, 1} /\ BeingServed(NoJob) = 0 BY DEF BeingServed, NoJob
<1> DEFINE n == Cardinality(Pending(replies))  m == Cardinality(Pending(replies'))
           b == BeingServed(job)  d == BeingServed(job')
<1>3. d \in {0, b} BY <1>2
<1>4. used + n + b <= MaxOperations BY DEF BudgetInv
<1> HIDE DEF n, m, b, d
<1>5. used + m + d <= MaxOperations BY <1>1, <1>2, <1>3, <1>4, Bounds DEF n, m, b, d
<1> QED BY <1>1, <1>5 DEF BudgetInv, m, d

-----------------------------------------------------------------------------
(* What a reconcile makes of the files.                                    *)

LEMMA WrittenTyped ==
  ASSUME NEW s \in States, NEW p \in Phases
  PROVE  /\ Written(s, p) \in States
         /\ Written(s, p).phase = p /\ Written(s, p).latest = s.latest
         /\ Written(s, p).current = s.current /\ Written(s, p).request = NoId
  BY DEF Written, States

\* The record after a verdict: the same operation.
LEMMA VerdictTyped ==
  ASSUME NEW id, op \in Operations
  PROVE  /\ \A v \in {"succeeded", "failed"} :
              /\ Completed(id, v) \in Operations
              /\ Completed(id, v).id = op.id /\ Completed(id, v).prev = op.prev
              /\ op = NoOp => Completed(id, v) = NoOp
         /\ \A v \in {"launched", "failed"} :
              /\ RestartCompleted(id, v) \in Operations
              /\ RestartCompleted(id, v).id = op.id /\ RestartCompleted(id, v).prev = op.prev
              /\ op = NoOp => RestartCompleted(id, v) = NoOp
<1>1. \A v \in {"succeeded", "failed"} :
        [op EXCEPT !.install = v] \in Operations /\ [op EXCEPT !.install = v].id = op.id
        /\ [op EXCEPT !.install = v].prev = op.prev
  BY DEF Operations
<1>2. \A v \in {"launched", "failed"} :
        [op EXCEPT !.restart = v] \in Operations /\ [op EXCEPT !.restart = v].id = op.id
        /\ [op EXCEPT !.restart = v].prev = op.prev
  BY DEF Operations
<1>3. NoOp.install = "failed" BY DEF NoOp
<1> QED BY <1>1, <1>2, <1>3 DEF Completed, Answerable, RestartCompleted

\* The record after a reconcile: the same operation.
SameOperation(o) == o.id = op.id /\ o.prev = op.prev /\ (op = NoOp => o = NoOp)

\* What a job finds, and what it may leave.
Found ==
  /\ state \in States /\ op \in Operations /\ timer \in BOOLEAN
  /\ op = NoOp \/ op.id \in Ids
  /\ state.phase \in Active \cup {"available", "download-failed", "update-failed"}
       => state.latest # Unknown
Left(r) ==
  /\ r.state \in States /\ r.op \in Operations /\ r.timer \in BOOLEAN
  /\ r.state.phase \in Active \cup {"available", "download-failed", "update-failed"}
       => r.state.latest # Unknown
  /\ SameOperation(r.op)

LEMMA KeptLeft ==
  ASSUME Found, NEW t \in BOOLEAN PROVE Left([Kept EXCEPT !.timer = t])
  BY DEF Found, Left, Kept, SameOperation

LEMMA MovedLeft ==
  ASSUME Found, NEW p \in {"download-failed", "update-failed", "restart-required", "restarting"},
         NEW t \in BOOLEAN, NEW o \in Operations, SameOperation(o), state.phase \in Active
  PROVE  /\ Left([Moved(p) EXCEPT !.timer = t]) /\ Left([Moved(p) EXCEPT !.op = o])
         /\ Left(Moved(p))
         /\ [Moved(p) EXCEPT !.timer = t].state.phase = p
         /\ [Moved(p) EXCEPT !.op = o].state.phase = p /\ Moved(p).state.phase = p
<1>1. p \in Phases BY DEF Phases, Active, Recorded
<1>2. state \in States /\ state.latest # Unknown BY DEF Found
<1> DEFINE s == Written(state, p)
<1>3. s \in States /\ s.phase = p /\ s.latest = state.latest BY <1>1, <1>2, WrittenTyped
<1>4. Moved(p) = [state |-> s, op |-> op, timer |-> FALSE] BY DEF Moved
<1>5. SameOperation(op) BY DEF SameOperation
<1> HIDE DEF s
<1> QED BY <1>2, <1>3, <1>4, <1>5 DEF Found, Left

LEMMA UnrecordedLeft ==
  ASSUME Found PROVE Left(Unrecorded)
<1>1. timer \in BOOLEAN BY DEF Found
<1>2. CASE state.phase \in Underway /\ work = NoWork
  <2>1. Unrecorded = [Moved("download-failed") EXCEPT !.timer = timer]
    BY <1>2 DEF Unrecorded, Active, Underway
  <2>2. state.phase \in Active BY <1>2 DEF Active
  <2>3. op \in Operations /\ SameOperation(op) BY DEF Found, SameOperation
  <2> QED BY <1>1, <2>1, <2>2, <2>3, MovedLeft
<1>3. CASE state.phase \in Active /\ work # NoWork
  <2>1. Unrecorded = Kept BY <1>3 DEF Unrecorded
  <2>2. Kept = [Kept EXCEPT !.timer = timer] BY DEF Kept
  <2>3. Left([Kept EXCEPT !.timer = timer]) BY <1>1, KeptLeft
  <2> QED BY <2>1, <2>2, <2>3
<1>4. CASE ~(state.phase \in Underway /\ work = NoWork) /\ ~(state.phase \in Active /\ work # NoWork)
  <2>1. Unrecorded = [Kept EXCEPT !.timer = FALSE] BY <1>4 DEF Unrecorded
  <2> QED BY <2>1, KeptLeft
<1> QED BY <1>2, <1>3, <1>4

\* A reconcile that waits for a worker goes on waiting with the timer set.
Waits(r) == r.state.phase = "installing" => r.timer = Armed

LEMMA ReconciledLeft ==
  ASSUME Found, NEW o \in Operations, state.phase \in Recorded
  PROVE  Left(Reconciled(o)) /\ Waits(Reconciled(o))
<1> DEFINE r == Reconciled(o)
<1>1. state.phase \in Active BY DEF Active
<1>2. op \in Operations /\ SameOperation(op) /\ Armed \in BOOLEAN
  BY DEF Found, SameOperation, Armed
<1>3. Completed(o.id, "failed") \in Operations /\ SameOperation(Completed(o.id, "failed"))
      /\ RestartCompleted(o.id, "failed") \in Operations
      /\ SameOperation(RestartCompleted(o.id, "failed"))
  BY <1>2, VerdictTyped DEF SameOperation
<1>4. ASSUME r \in {Moved("update-failed"), Moved("restart-required"), [Moved("restarting") EXCEPT !.timer = Armed]}
      PROVE  Left(r) /\ Waits(r)
  <2>1. CASE r = [Moved("restarting") EXCEPT !.timer = Armed]
    <3>1. /\ Left([Moved("restarting") EXCEPT !.timer = Armed])
          /\ [Moved("restarting") EXCEPT !.timer = Armed].state.phase = "restarting"
      BY <1>1, <1>2, MovedLeft
    <3>2. Left(r) /\ r.state.phase = "restarting" BY <2>1, <3>1, Zenon
    <3> QED BY <3>2 DEF Waits
  <2>2. ASSUME NEW p \in {"update-failed", "restart-required"}, r = Moved(p) PROVE Left(r) /\ Waits(r)
    <3>1. p \in {"download-failed", "update-failed", "restart-required", "restarting"} OBVIOUS
    <3>2. Left(Moved(p)) /\ Moved(p).state.phase = p BY <1>1, <1>2, <3>1, MovedLeft
    <3>3. Left(r) /\ r.state.phase = p BY <2>2, <3>2, Zenon
    <3> QED BY <3>3 DEF Waits
  <2> QED BY <1>4, <2>1, <2>2
<1>5. ASSUME NEW p \in {"update-failed", "restart-required"}, NEW c \in Operations, SameOperation(c),
             r = [Moved(p) EXCEPT !.op = c]
      PROVE  Left(r) /\ Waits(r)
  <2>1. p \in {"download-failed", "update-failed", "restart-required", "restarting"} OBVIOUS
  <2>2. Left([Moved(p) EXCEPT !.op = c]) /\ [Moved(p) EXCEPT !.op = c].state.phase = p
    BY <1>1, <1>2, <1>5, <2>1, MovedLeft, ZenonT(40)
  <2>3. Left(r) /\ r.state.phase = p BY <1>5, <2>2, Zenon
  <2> QED BY <2>3 DEF Waits
<1>6. ASSUME r = [Kept EXCEPT !.timer = Armed] PROVE Left(r) /\ Waits(r)
  <2>1. Left(r) BY <1>2, <1>6, KeptLeft
  <2>2. r.timer = Armed BY <1>6 DEF Kept
  <2> QED BY <2>1, <2>2 DEF Waits
<1>7. ASSUME r = [Kept EXCEPT !.timer = FALSE], state.phase # "installing" PROVE Left(r) /\ Waits(r)
  <2>1. Left(r) BY <1>7, KeptLeft
  <2>2. r.state = state BY <1>7 DEF Kept
  <2> QED BY <1>7, <2>1, <2>2 DEF Waits
<1>8. CASE Superseded(o)
  <2>1. r = Moved("update-failed") BY <1>8 DEF Reconciled
  <2> QED BY <1>4, <2>1
<1>9. CASE ~Superseded(o) /\ state.phase = "installing"
  <2>1. r = InstallOutcome(o) BY <1>9 DEF Reconciled
  <2>2. CASE o.install = "pending" /\ ~o.expired
    <3>1. r = [Kept EXCEPT !.timer = Armed] BY <2>1, <2>2 DEF InstallOutcome
    <3> QED BY <1>6, <3>1
  <2>3. CASE o.install = "pending" /\ o.expired
    <3>1. r = [Moved("update-failed") EXCEPT !.op = Completed(o.id, "failed")]
      BY <2>1, <2>3 DEF InstallOutcome
    <3> QED BY <1>3, <1>5, <3>1
  <2>4. CASE o.install = "succeeded" /\ Verified(o)
    <3>1. r = Moved("restart-required") BY <2>1, <2>4 DEF InstallOutcome
    <3> QED BY <1>4, <3>1
  <2>5. CASE o.install # "pending" /\ ~(o.install = "succeeded" /\ Verified(o))
    <3>1. r = Moved("update-failed") BY <2>1, <2>5 DEF InstallOutcome
    <3> QED BY <1>4, <3>1
  <2> QED BY <2>2, <2>3, <2>4, <2>5
<1>10. CASE ~Superseded(o) /\ state.phase # "installing"
  <2>1. r = RestartOutcome(o) BY <1>10 DEF Reconciled
  <2>2. CASE ~(o.install = "succeeded" /\ Verified(o))
    <3>1. r = Moved("update-failed") BY <2>1, <2>2 DEF RestartOutcome
    <3> QED BY <1>4, <3>1
  <2>3. CASE o.install = "succeeded" /\ Verified(o) /\ o.restart = "failed"
    <3>1. r = Moved("restart-required") BY <2>1, <2>3 DEF RestartOutcome
    <3> QED BY <1>4, <3>1
  <2>4. CASE o.install = "succeeded" /\ Verified(o) /\ o.restart = "pending" /\ o.expired
    <3>1. r = [Moved("restart-required") EXCEPT !.op = RestartCompleted(o.id, "failed")]
      BY <2>1, <2>4 DEF RestartOutcome
    <3> QED BY <1>3, <1>5, <3>1
  <2>5. CASE o.install = "succeeded" /\ Verified(o) /\ o.restart = "pending" /\ ~o.expired
    <3>1. r = [Moved("restarting") EXCEPT !.timer = Armed] BY <2>1, <2>5 DEF RestartOutcome
    <3> QED BY <1>4, <3>1
  <2>6. CASE o.install = "succeeded" /\ Verified(o) /\ o.restart = "not-requested"
             /\ state.phase = "restarting"
    <3>1. r = Moved("restart-required") BY <2>1, <2>6 DEF RestartOutcome
    <3> QED BY <1>4, <3>1
  <2>7. CASE o.install = "succeeded" /\ Verified(o) /\ o.restart \notin {"failed", "pending"}
             /\ ~(o.restart = "not-requested" /\ state.phase = "restarting")
    <3>1. r = [Kept EXCEPT !.timer = FALSE] BY <2>1, <2>7 DEF RestartOutcome
    <3> QED BY <1>7, <1>10, <3>1
  <2> QED BY <2>2, <2>3, <2>4, <2>5, <2>6, <2>7
<1> QED BY <1>8, <1>9, <1>10

-----------------------------------------------------------------------------
(* The rest of a job.                                                      *)

LEMMA ServeSplit ==
  ASSUME NEW intent, NEW r, Serve(intent, r)
  PROVE  /\ job' = NoJob /\ op' = r.op
         /\ \/ Down /\ state' = r.state
            \/ intent \in Intents /\ ServeIntent(intent, r)
            \/ ServeInitialize(r) \/ ServeActivate(r) \/ ServeReconcile(r)
<1>1. CASE intent = "stop" BY <1>1 DEF Serve, Down
<1>2. CASE intent # "stop" /\ intent \in Intents
  <2>1. job' = NoJob /\ ServeIntent(intent, r) BY <1>2 DEF Serve, Intents
  <2> QED BY <1>2, <2>1 DEF ServeIntent
<1>3. CASE intent # "stop" /\ intent \notin Intents
  <2>1. job' = NoJob /\ (ServeInitialize(r) \/ ServeActivate(r) \/ ServeReconcile(r))
    BY <1>3 DEF Serve, Intents
  <2> QED BY <2>1 DEF ServeInitialize, ServeActivate, ServeReconcile
<1> QED BY <1>1, <1>2, <1>3

\* What an accepted intent begins.
LEMMA AcceptedBegins ==
  ASSUME NEW intent \in Intents, Found, NEW r, Left(r), Accepted(intent, r),
         asked \in 0 .. MaxRequests
  PROVE  /\ Begun[intent] \in {"checking", "restarting", "preparing"}
         /\ Begun[intent] = "preparing" <=> intent \in {"start", "retry"}
         /\ Begun[intent] \in Active => r.state.latest # Unknown
         /\ AfterResponse(intent, r) \in Replies
         /\ AfterResponse(intent, r).kind = "start" <=> intent \in {"start", "retry"}
<1>1. CASE intent = "check"
  <2>1. Begun[intent] = "checking" BY <1>1 DEF Begun, Intents
  <2>2. AfterResponse(intent, r) = [kind |-> "check", n |-> 0, of |-> NoId]
    BY <1>1 DEF AfterResponse
  <2> QED BY <1>1, <2>1, <2>2 DEF Active, Underway, Recorded, Replies
<1>2. CASE intent = "restart-now"
  <2>1. Begun[intent] = "restarting" BY <1>2 DEF Begun, Intents
  <2>2. AfterResponse(intent, r) = [kind |-> "restart", n |-> asked, of |-> r.op.id]
    BY <1>2 DEF AfterResponse
  <2>3. r.state.phase = "restart-required" /\ HasRecord(r) BY <1>2 DEF Accepted
  <2>4. r.state.latest # Unknown BY <2>3 DEF Left, Active, Recorded
  <2>5. r.op # NoOp BY <2>3 DEF HasRecord
  <2>6. r.op.id \in Ids BY <2>5 DEF Left, Found, SameOperation
  <2>7. AfterResponse(intent, r) \in Replies BY <2>2, <2>6 DEF Replies
  <2> QED BY <1>2, <2>1, <2>2, <2>4, <2>7
<1>3. CASE intent \in {"start", "retry"}
  <2>1. Begun[intent] = "preparing" BY <1>3 DEF Begun, Intents
  <2>2. AfterResponse(intent, r) = [kind |-> "start", n |-> asked, of |-> r.state.latest]
    BY <1>3 DEF AfterResponse
  <2>3. r.state.latest # Unknown BY <1>3 DEF Accepted, Left
  <2>4. r.state.latest \in Versions BY <2>3 DEF Left, States
  <2>5. AfterResponse(intent, r) \in Replies BY <2>2, <2>4 DEF Replies
  <2> QED BY <1>3, <2>1, <2>2, <2>3, <2>5
<1> QED BY <1>1, <1>2, <1>3 DEF Intents

\* What a job leaves in the files.
LEMMA ServeFiles ==
  ASSUME Found, asked \in 0 .. MaxRequests, NEW intent, NEW r, Left(r), Serve(intent, r)
  PROVE  FilesTyped' /\ (op' = NoOp \/ op'.id \in Ids)
<1>1. op' = r.op BY ServeSplit
<1>2. op' \in Operations /\ (op' = NoOp \/ op'.id \in Ids)
  BY <1>1 DEF Left, Found, SameOperation
<1>3. r.state \in States /\ (r.state.phase \in Active \cup {"available", "download-failed", "update-failed"}
                               => r.state.latest # Unknown)
  BY DEF Left
<1>4. ASSUME state' = r.state PROVE FilesTyped'
  BY <1>2, <1>3, <1>4 DEF FilesTyped
<1>5. CASE (Down /\ state' = r.state) \/ ServeInitialize(r) \/ ServeReconcile(r)
  <2>1. state' = r.state BY <1>5 DEF ServeInitialize, ServeReconcile
  <2> QED BY <1>2, <1>4, <2>1
<1>6. CASE intent \in Intents /\ ServeIntent(intent, r)
  <2>1. CASE ~Accepted(intent, r)
    <3>1. state' = r.state BY <1>6, <2>1 DEF ServeIntent
    <3> QED BY <1>2, <1>4, <3>1
  <2>2. CASE Accepted(intent, r)
    <3>1. state' = Written(r.state, Begun[intent]) BY <1>6, <2>2 DEF ServeIntent
    <3>2. /\ Begun[intent] \in {"checking", "restarting", "preparing"}
          /\ Begun[intent] \in Active => r.state.latest # Unknown
      BY <1>6, <2>2, AcceptedBegins
    <3>3. Begun[intent] \in Phases /\ (Begun[intent] # "checking" => Begun[intent] \in Active)
      BY <3>2 DEF Phases, Active, Underway, Recorded
    <3>4. state' \in States /\ state'.phase = Begun[intent] /\ state'.latest = r.state.latest
      BY <1>3, <3>1, <3>3, WrittenTyped
    <3> QED BY <1>2, <3>2, <3>4 DEF FilesTyped
  <2> QED BY <2>1, <2>2
<1>7. CASE ServeActivate(r)
  <2>1. CASE state' = r.state BY <1>2, <1>4, <2>1
  <2>2. CASE state' # r.state
    <3>1. /\ state' = [Written(r.state, "up-to-date") EXCEPT !.current = r.op.target, !.latest = Unknown]
          /\ \E seen \in r.op.prev .. launches : Activated(r, seen)
      BY <1>7, <2>2 DEF ServeActivate
    <3>2. PICK seen : Activated(r, seen) BY <3>1
    <3>3. r.op.target = r.state.latest /\ r.state.latest # Unknown
      BY <1>3, <3>2 DEF Activated, HasRecord, Active, Recorded
    <3>4. r.op.target \in Versions BY <1>3, <3>3 DEF States
    <3>5. Written(r.state, "up-to-date") \in States /\ Written(r.state, "up-to-date").phase = "up-to-date"
      BY <1>3, WrittenTyped DEF Phases
    <3>6. state' \in States /\ state'.phase = "up-to-date"
      BY <3>1, <3>4, <3>5 DEF States
    <3> QED BY <1>2, <3>6 DEF FilesTyped, Active, Underway, Recorded
  <2> QED BY <2>1, <2>2
<1> QED BY <1>2, <1>5, <1>6, <1>7, ServeSplit

\* What a job leaves in the process, the reconcile that is queued aside.
LEMMA ServeInside ==
  ASSUME Found, InsideTyped, asked \in 0 .. MaxRequests, NEW intent, NEW r, Left(r),
         Serve(intent, r)
  PROVE  /\ replies' \subseteq Replies /\ timer' \in BOOLEAN /\ cleaning' \in BOOLEAN
         /\ autoTried' \in BOOLEAN /\ up' \in {"down", "up", "stopping"}
         /\ build' = build /\ work' \in {work, NoWork} /\ job' = NoJob
         /\ \/ replies' \subseteq replies
            \/ \E a \in Replies : replies' = replies \cup {a}
                                  /\ (a.kind = "start" => intent \in {"start", "retry"})
<1>1. r.timer \in BOOLEAN BY DEF Left
<1>2. CASE Down BY <1>2, ServeSplit DEF Down, InsideTyped
<1>3. CASE ServeInitialize(r) \/ ServeReconcile(r)
  BY <1>1, <1>3, ServeSplit DEF ServeInitialize, ServeReconcile, helper, InsideTyped, Completable
<1>4. CASE ServeActivate(r)
  BY <1>1, <1>4, ServeSplit DEF ServeActivate, helper, InsideTyped, Completable
<1>5. CASE intent \in Intents /\ ServeIntent(intent, r)
  <2>1. CASE ~Accepted(intent, r)
    BY <1>1, <1>5, <2>1, ServeSplit DEF ServeIntent, helper, InsideTyped
  <2>2. CASE Accepted(intent, r)
    <3>1. AfterResponse(intent, r) \in Replies
          /\ (AfterResponse(intent, r).kind = "start" => intent \in {"start", "retry"})
      BY <1>5, <2>2, AcceptedBegins
    <3>2. replies' = replies \cup {AfterResponse(intent, r)} BY <1>5, <2>2 DEF ServeIntent
    <3>3. UNCHANGED <<helper, work, cleaning>> /\ timer' = r.timer BY <1>5 DEF ServeIntent
    <3> QED BY <1>1, <3>1, <3>2, <3>3, ServeSplit DEF helper, InsideTyped
  <2> QED BY <2>1, <2>2
<1> QED BY <1>2, <1>3, <1>4, <1>5, ServeSplit

\* A job that turns a request into an update that is on its way, or sends
\* nothing, keeps the numbers that are reserved.
LEMMA BudgetSent ==
  ASSUME BudgetInv, BoundsTyped, used' = used, job' = NoJob,
         NEW a, replies' = replies \cup {a},
         used + Cardinality(Pending(replies)) < MaxOperations \/ BeingServed(job) = 1
  PROVE  BudgetInv'
<1> DEFINE n == Cardinality(Pending(replies))  m == Cardinality(Pending(replies'))
           b == BeingServed(job)
<1>1. Pending(replies') \subseteq Pending(replies) \cup {a} BY DEF Pending
<1>2. IsFiniteSet(Pending(replies)) /\ n \in Nat BY FS_CardinalityType DEF BudgetInv
<1>3. /\ IsFiniteSet(Pending(replies) \cup {a})
      /\ Cardinality(Pending(replies) \cup {a}) \in {n, n + 1}
  BY <1>2, FS_AddElement
<1>4. IsFiniteSet(Pending(replies')) /\ m \in Nat
      /\ m <= Cardinality(Pending(replies) \cup {a})
  BY <1>1, <1>3, FS_Subset, FS_CardinalityType
<1>5. b \in {0, 1} /\ BeingServed(NoJob) = 0 BY DEF BeingServed, NoJob
<1>6. used + n + b <= MaxOperations /\ (used + n < MaxOperations \/ b = 1) /\ used \in Nat
  BY Bounds DEF BudgetInv, BoundsTyped
<1> HIDE DEF n, m, b
<1>7. m <= n + 1 BY <1>2, <1>3, <1>4
<1>8. used + m + 0 <= MaxOperations BY <1>2, <1>4, <1>5, <1>6, <1>7, Bounds
<1> QED BY <1>4, <1>5, <1>8 DEF BudgetInv, m

LEMMA TypedFound == TypeInv => Found
  BY TypeParts DEF TypeInv, RestInv, Found, FilesTyped, InsideTyped

\* What stays as it is, or in its type, in the steps of the queue.
Beside ==
  /\ due' \in {"none", "initialize", "reconcile"}
  /\ UNCHANGED <<program, installed, published, launch, launches, used>>
  /\ WorkersTyped' /\ ReleaseInv' /\ HistoryTyped' /\ BoundsTyped'

\* The rest of a job keeps the invariant.
LEMMA ServeKeepsTypes ==
  ASSUME TypeInv, Beside, NEW intent, NEW r, Left(r), Serve(intent, r),
         intent \in {"start", "retry"}
           => used + Cardinality(Pending(replies)) < MaxOperations \/ BeingServed(job) = 1
  PROVE  TypeInv'
<1>1. Found /\ InsideTyped /\ BoundsTyped /\ BudgetInv /\ WorldTyped
  BY TypedFound, TypeParts DEF TypeInv
<1>2. asked \in 0 .. MaxRequests BY <1>1 DEF BoundsTyped
<1>3. FilesTyped' /\ (op' = NoOp \/ op'.id \in Ids) BY <1>1, <1>2, ServeFiles
<1>4. /\ replies' \subseteq Replies /\ timer' \in BOOLEAN /\ cleaning' \in BOOLEAN
      /\ autoTried' \in BOOLEAN /\ up' \in {"down", "up", "stopping"}
      /\ build' = build /\ work' \in {work, NoWork} /\ job' = NoJob
      /\ \/ replies' \subseteq replies
         \/ \E a \in Replies : replies' = replies \cup {a}
                               /\ (a.kind = "start" => intent \in {"start", "retry"})
  BY <1>1, <1>2, ServeInside
<1>5. work' \in Works /\ job' \in Jobs BY <1>1, <1>4, Nothing DEF InsideTyped
<1>6. InsideTyped' BY <1>4, <1>5 DEF InsideTyped, Beside
<1>7. WorldTyped' BY <1>1, <1>4 DEF WorldTyped, Beside
<1>8. TypeOK' BY <1>3, <1>6, <1>7, TypePartsNext DEF Beside
<1>9. BudgetInv'
  <2>1. used \in Nat /\ used' = used BY <1>1, Bounds DEF BoundsTyped, Beside
  <2>2. CASE replies' \subseteq replies
    <3>1. Pending(replies') \subseteq Pending(replies) BY <2>2 DEF Pending
    <3> QED BY <1>1, <1>4, <2>1, <3>1, BudgetKept
  <2>3. ASSUME NEW a \in Replies, replies' = replies \cup {a}, a.kind # "start" PROVE BudgetInv'
    <3>1. Pending(replies') \subseteq Pending(replies) BY <2>3 DEF Pending
    <3> QED BY <1>1, <1>4, <2>1, <3>1, BudgetKept
  <2>4. ASSUME NEW a \in Replies, replies' = replies \cup {a}, intent \in {"start", "retry"}
        PROVE BudgetInv'
    BY <1>1, <1>4, <2>1, <2>4, BudgetSent
  <2> QED BY <1>4, <2>2, <2>3, <2>4
<1>10. RestInv'
  <2>1. NoWork.at = "none" BY DEF NoWork
  <2> QED BY <1>3, <1>4, <2>1 DEF RestInv, TypeInv, Beside
<1> QED BY <1>8, <1>9, <1>10 DEF TypeInv

\* So does taking a turn.
LEMMA TakeKeepsTypes ==
  ASSUME NEW intent \in Intents \cup {"none", "initialize", "reconcile", "activate", "stop"},
         TypeInv, Beside, Take(intent),
         intent \in {"start", "retry"} => used + Cardinality(Pending(replies)) < MaxOperations
  PROVE  TypeInv'
<1>1. CASE ~NeedsRecord
  <2>1. Serve(intent, Unrecorded) BY <1>1 DEF Take
  <2> QED BY <2>1, TypedFound, UnrecordedLeft, ServeKeepsTypes
<1>2. CASE NeedsRecord
  <2>1. /\ job' = [intent |-> intent, read |-> op] /\ job = NoJob
        /\ UNCHANGED <<files, helper, timer, replies, work, cleaning>>
    BY <1>2 DEF Take, Free
  <2>2. state.phase \in Recorded BY <1>2 DEF NeedsRecord
  <2>3. FilesTyped /\ InsideTyped /\ WorldTyped /\ BoundsTyped BY TypeParts DEF TypeInv
  <2>4. job' \in Jobs BY <2>1, <2>3 DEF Jobs, FilesTyped
  <2>5. FilesTyped' BY <2>1, <2>3 DEF FilesTyped, files
  <2>6. InsideTyped' BY <2>1, <2>3, <2>4 DEF InsideTyped, Beside, helper
  <2>7. WorldTyped' BY <2>1, <2>3 DEF WorldTyped, Beside, helper
  <2>8. TypeOK' BY <2>5, <2>6, <2>7, TypePartsNext DEF Beside
  <2>9. RestInv' BY <2>1, <2>2 DEF RestInv, TypeInv, Beside, files
  <2>10. BudgetInv'
    <3>1. job'.intent = intent /\ replies' = replies /\ used' = used BY <2>1 DEF Beside
    <3>2. BudgetInv /\ used \in Nat BY <2>3, Bounds DEF TypeInv, BoundsTyped
    <3>3. CASE intent \notin {"start", "retry"}
      BY <3>1, <3>2, <3>3, BudgetKept DEF BeingServed
    <3>4. CASE intent \in {"start", "retry"}
      <4> DEFINE n == Cardinality(Pending(replies))
      <4>1. n \in Nat BY <3>2, FS_CardinalityType DEF BudgetInv
      <4>2. used + n < MaxOperations BY <3>4
      <4>3. BeingServed(job') = 1 BY <3>1, <3>4 DEF BeingServed
      <4> HIDE DEF n
      <4>4. used + n + 1 <= MaxOperations BY <3>2, <4>1, <4>2, Bounds
      <4> QED BY <3>1, <3>2, <4>3, <4>4 DEF BudgetInv, n
    <3> QED BY <3>3, <3>4
  <2> QED BY <2>8, <2>9, <2>10 DEF TypeInv
<1> QED BY <1>1, <1>2

-----------------------------------------------------------------------------
(* Every step keeps the types.                                             *)

LEMMA TakesKeepTypes ==
  ASSUME TypeInv,
         \/ RunDue \/ Finish \/ Stop \/ Activate \/ \E intent \in Intents : Ask(intent)
  PROVE  TypeInv'
<1>1. WorkersTyped /\ ReleaseInv /\ HistoryTyped /\ BoundsTyped /\ InsideTyped
  BY TypeParts DEF TypeInv, RestInv
<1>2. ASSUME UNCHANGED <<workers, history>>
      PROVE  WorkersTyped' /\ ReleaseInv' /\ HistoryTyped'
  BY <1>1, <1>2 DEF workers, history, WorkersTyped, ReleaseInv, HistoryTyped
<1>3. ASSUME UNCHANGED bounds PROVE BoundsTyped' /\ used' = used
  BY <1>1, <1>3 DEF bounds, BoundsTyped
<1>4. CASE RunDue
  <2>1. Beside BY <1>2, <1>3, <1>4 DEF RunDue, Beside, world
  <2>2. due \in {"initialize", "reconcile"} BY <1>1, <1>4 DEF RunDue, InsideTyped
  <2>3. Take(due) BY <1>4 DEF RunDue
  <2> QED BY <2>1, <2>2, <2>3, TakeKeepsTypes
<1>5. CASE Finish
  <2>1. Serve(job.intent, Reconciled(job.read)) BY <1>5 DEF Finish
  <2>2. due' \in {"none", "initialize", "reconcile"}
    <3>1. CASE job.intent = "stop" BY <2>1, <3>1 DEF Serve, Down
    <3>2. CASE job.intent # "stop" BY <1>1, <1>5, <3>2 DEF Finish, InsideTyped
    <3> QED BY <3>1, <3>2
  <2>3. Beside BY <1>2, <1>3, <1>5, <2>2 DEF Finish, Beside, world
  <2>4. job.read \in Operations /\ state.phase \in Recorded
    BY <1>1, <1>5 DEF Finish, InsideTyped, Jobs, TypeInv, RestInv
  <2>5. Left(Reconciled(job.read)) BY <2>4, TypedFound, ReconciledLeft
  <2>6. job.intent \in {"start", "retry"} => BeingServed(job) = 1 BY DEF BeingServed
  <2> QED BY <2>1, <2>3, <2>5, <2>6, ServeKeepsTypes
<1>6. CASE Stop
  <2>1. Take("stop") BY <1>6 DEF Stop
  <2>2. due' \in {"none", "initialize", "reconcile"}
    <3>1. CASE NeedsRecord BY <1>1, <1>6, <3>1 DEF Stop, InsideTyped
    <3>2. CASE ~NeedsRecord BY <2>1, <3>2 DEF Take, Serve, Down
    <3> QED BY <3>1, <3>2
  <2>3. Beside BY <1>2, <1>3, <1>6, <2>2 DEF Stop, Beside, world
  <2> QED BY <2>1, <2>3, TakeKeepsTypes
<1>7. CASE Activate
  <2>1. Beside BY <1>1, <1>2, <1>3, <1>7 DEF Activate, Beside, world, InsideTyped
  <2>2. Take("activate") BY <1>7 DEF Activate
  <2> QED BY <2>1, <2>2, TakeKeepsTypes
<1>8. ASSUME NEW intent \in Intents, Ask(intent) PROVE TypeInv'
  <2>1. asked' = asked + 1 /\ asked < MaxRequests /\ UNCHANGED <<used, crashes>> BY <1>8 DEF Ask
  <2>2. BoundsTyped' BY <1>1, <2>1, Bounds DEF BoundsTyped
  <2>3. UNCHANGED <<workers, history, due, world>> BY <1>8 DEF Ask
  <2>4. Beside BY <1>1, <1>2, <2>1, <2>2, <2>3 DEF Beside, world, InsideTyped
  <2>5. Take(intent) BY <1>8 DEF Ask
  <2>6. intent \in {"start", "retry"} => used + Cardinality(Pending(replies)) < MaxOperations
    BY <1>8 DEF Ask, Pending
  <2> QED BY <2>4, <2>5, <2>6, TakeKeepsTypes
<1> QED BY <1>4, <1>5, <1>6, <1>7, <1>8

\* Steps that leave the requests to start an update alone.
Quiet == Pending(replies') \subseteq Pending(replies) /\ used' = used /\ job' \in {job, NoJob}

LEMMA QuietKeepsBudget == TypeInv /\ Quiet => BudgetInv'
<1> SUFFICES ASSUME TypeInv, Quiet PROVE BudgetInv' OBVIOUS
<1>1. used \in Nat BY TypeParts, Bounds DEF TypeInv, BoundsTyped
<1> QED BY <1>1, BudgetKept DEF TypeInv, Quiet

-----------------------------------------------------------------------------
(* The other steps, part by part.                                          *)

Progresses == Download \/ DownloadMore \/ Verify
Fails      == PrepareFails \/ InstallPreparationFails
Upgrades(id) ==
  \/ UpgradeLinks(id) \/ UpgradeRestarts(id) \/ UpgradeConfirms(id) \/ UpgradeUndoesRestart(id)
  \/ UpgradeUndoesLink(id) \/ UpgradeFails(id) \/ UpgradeBreaksOff(id)
Outside    == \E id \in Ids : \/ InstallerStarts(id) \/ Upgrades(id)
                              \/ \E verdict \in {"succeeded", "failed"} : InstallerFinishes(id, verdict)
                              \/ RestarterStarts(id) \/ RestarterRelaunches(id)
                              \/ RestarterFinishes(id) \/ WorkerCrash(id)
Surroundings == Publish \/ CodexOpens \/ Expire \/ HelperCrash
Answers == MarkRestartPending \/ SubmitRestart \/ RestartUnsubmitted

StateTyped ==
  /\ state \in States
  /\ state.phase \in Active \cup {"available", "download-failed", "update-failed"}
       => state.latest # Unknown
  /\ job # NoJob => state.phase \in Recorded

LEMMA TypedState == TypeInv => StateTyped
  BY TypeParts DEF TypeInv, RestInv, FilesTyped, StateTyped

\* A write in a queue that is free: the state names a release if its phase asks for one.
LEMMA StateWritten ==
  ASSUME TypeInv, Free, job' = job, NEW p \in Phases,
         state'.phase = p, state'.latest = state.latest, state' \in States,
         state.latest # Unknown \/ p \notin Active \cup {"available", "download-failed", "update-failed"}
  PROVE  StateTyped'
  BY DEF StateTyped, Free

LEMMA StateSteps ==
  ASSUME TypeInv,
         \/ Boot \/ AutoCheck \/ Progresses \/ Fails \/ Install
         \/ \E answered \in BOOLEAN : CheckEnds(answered)
  PROVE  StateTyped'
<1>1. state \in States /\ StateTyped BY TypedState DEF StateTyped
<1>2. {"downloading", "verifying", "download-failed", "update-failed", "installing", "checking",
       "check-failed", "available", "up-to-date"} \subseteq Phases
  BY DEF Phases, Active, Underway, Recorded
<1>3. "checking" \notin Active /\ "check-failed" \notin Active /\ "up-to-date" \notin Active
  BY DEF Active, Underway, Recorded
<1>4. ASSUME NEW p \in Phases, state' = Written(state, p), Free, job' = job,
             state.latest # Unknown \/ p \in {"checking", "check-failed"}
      PROVE  StateTyped'
  <2>1. state' \in States /\ state'.phase = p /\ state'.latest = state.latest
    BY <1>1, <1>4, WrittenTyped
  <2> QED BY <1>3, <1>4, <2>1, StateWritten
<1>5. CASE Boot
  <2>1. CASE state' = state
    BY <1>1, <1>5, <2>1 DEF Boot, StateTyped
  <2>2. CASE state' # state
    <3>1. state' = [Written(state, state.phase) EXCEPT !.current = program] /\ job' = job
      BY <1>5, <2>2 DEF Boot
    <3>2. program \in Versions /\ state.phase \in Phases
      BY <1>1, TypeParts DEF TypeInv, WorldTyped, States
    <3>3. /\ Written(state, state.phase) \in States
          /\ Written(state, state.phase).phase = state.phase
          /\ Written(state, state.phase).latest = state.latest
      BY <1>1, <3>2, WrittenTyped
    <3>4. state' \in States /\ state'.phase = state.phase /\ state'.latest = state.latest
      BY <3>1, <3>2, <3>3 DEF States
    <3> QED BY <1>1, <3>1, <3>4 DEF StateTyped
  <2> QED BY <2>1, <2>2
<1>6. CASE AutoCheck BY <1>2, <1>4, <1>6 DEF AutoCheck
<1>7. CASE Progresses
  BY <1>2, <1>4, <1>7 DEF Progresses, Download, DownloadMore, Verify, Progress, Writable
<1>8. CASE Fails
  BY <1>2, <1>4, <1>8 DEF Fails, PrepareFails, InstallPreparationFails, WorkEnds, Writable
<1>9. CASE Install
  <2>1. /\ state' = [Written(state, "installing") EXCEPT !.request = work.id]
        /\ Free /\ state.latest # Unknown /\ job' = job
    BY <1>9 DEF Install, Writable
  <2>2. work.id \in Ids \cup {NoId} BY TypeParts DEF TypeInv, InsideTyped, Works
  <2>3. /\ Written(state, "installing") \in States /\ Written(state, "installing").phase = "installing"
        /\ Written(state, "installing").latest = state.latest
    BY <1>1, <1>2, WrittenTyped
  <2>4. state' \in States /\ state'.phase = "installing" /\ state'.latest = state.latest
    BY <2>1, <2>2, <2>3 DEF States
  <2> QED BY <1>2, <2>1, <2>4, StateWritten
<1>10. ASSUME NEW answered \in BOOLEAN, CheckEnds(answered) PROVE StateTyped'
  <2>1. Free /\ job' = job BY <1>10 DEF CheckEnds
  <2>2. CASE ~answered
    <3>1. state' = Written(state, "check-failed") BY <1>10, <2>2 DEF CheckEnds
    <3> QED BY <1>2, <1>4, <2>1, <3>1
  <2>3. ASSUME NEW p \in {"available", "up-to-date"}, NEW v \in Versions \cup {Unknown},
               v # Unknown \/ p = "up-to-date",
               state' = [Written(state, p) EXCEPT !.latest = v]
        PROVE  StateTyped'
    <3> p \in Phases BY <1>2
    <3>1. Written(state, p) \in States /\ Written(state, p).phase = p BY <1>1, WrittenTyped
    <3>2. state' \in States /\ state'.phase = p /\ state'.latest = v BY <2>3, <3>1 DEF States
    <3> QED BY <1>3, <2>1, <2>3, <3>2 DEF StateTyped, Free
  <2>4. CASE answered /\ published > build
    <3>1. state' = [Written(state, "available") EXCEPT !.latest = published]
      BY <1>10, <2>4 DEF CheckEnds
    <3>2. published \in Versions /\ published # Unknown
      BY TypeParts, Bounds DEF TypeInv, WorldTyped, Versions, Unknown
    <3> QED BY <2>3, <3>1, <3>2
  <2>5. CASE answered /\ ~(published > build)
    <3>1. state' = [Written(state, "up-to-date") EXCEPT !.latest = Unknown]
      BY <1>10, <2>5 DEF CheckEnds
    <3> QED BY <2>3, <3>1
  <2> QED BY <2>2, <2>4, <2>5
<1> QED BY <1>5, <1>6, <1>7, <1>8, <1>9, <1>10

OpTyped == op \in Operations /\ (op = NoOp \/ op.id \in Ids)

LEMMA OpSteps ==
  ASSUME TypeInv,
         \/ MarkRestartPending \/ RestartUnsubmitted \/ Record \/ Fails \/ CleanupRemove \/ Expire
         \/ \E id \in Ids : \/ \E verdict \in {"succeeded", "failed"} : InstallerFinishes(id, verdict)
                            \/ RestarterFinishes(id)
  PROVE  OpTyped'
<1>1. op \in Operations /\ (op = NoOp \/ op.id \in Ids)
  BY TypeParts DEF TypeInv, RestInv, FilesTyped
<1>2. ASSUME NEW id, \/ \E v \in {"succeeded", "failed"} : op' = Completed(id, v)
                     \/ \E v \in {"launched", "failed"} : op' = RestartCompleted(id, v)
      PROVE  OpTyped'
  BY <1>1, <1>2, VerdictTyped DEF OpTyped
<1>3. ASSUME op' = op PROVE OpTyped' BY <1>1, <1>3 DEF OpTyped
<1>4. CASE MarkRestartPending
  <2>1. op # NoOp => [op EXCEPT !.restart = "pending", !.expired = FALSE] \in Operations
           /\ [op EXCEPT !.restart = "pending", !.expired = FALSE].id = op.id
    BY <1>1 DEF Operations
  <2>2. NoOp.install # "succeeded" BY DEF NoOp
  <2>3. op' = op \/ (op # NoOp /\ op' = [op EXCEPT !.restart = "pending", !.expired = FALSE])
    BY <1>4, <2>2 DEF MarkRestartPending
  <2> QED BY <1>1, <1>3, <2>1, <2>3 DEF OpTyped
<1>5. CASE RestartUnsubmitted BY <1>2, <1>5 DEF RestartUnsubmitted
<1>6. CASE Record
  <2>1. work \in Works /\ work.id \in Ids /\ work.version \in Versions
    BY <1>6, TypeParts DEF Record, TypeInv, RestInv, InsideTyped
  <2> QED BY <1>6, <2>1 DEF Record, OpTyped, Operations, Works
<1>7. CASE Fails BY <1>2, <1>3, <1>7 DEF Fails, PrepareFails, InstallPreparationFails
<1>8. CASE CleanupRemove BY <1>8, Nothing DEF CleanupRemove, OpTyped
<1>9. CASE Expire
  <2>1. op # NoOp /\ op' = [op EXCEPT !.expired = TRUE] BY <1>9 DEF Expire
  <2> QED BY <1>1, <2>1 DEF OpTyped, Operations
<1>10. ASSUME NEW id \in Ids, NEW verdict \in {"succeeded", "failed"}, InstallerFinishes(id, verdict)
       PROVE  OpTyped'
  BY <1>2, <1>3, <1>10 DEF InstallerFinishes
<1>11. ASSUME NEW id \in Ids, RestarterFinishes(id) PROVE OpTyped'
  BY <1>2, <1>11 DEF RestarterFinishes
<1> QED BY <1>4, <1>5, <1>6, <1>7, <1>8, <1>9, <1>10, <1>11

WorkTyped ==
  /\ work \in Works
  /\ work.at = "none" => work = NoWork
  /\ work.at # "none" => work.id \in Ids /\ work.version \in Versions

LEMMA WorkSteps ==
  ASSUME TypeInv,
         \/ AfterStart \/ Progresses \/ Fails \/ Settle \/ Prepared \/ Install \/ Record \/ Submit
         \/ WriteRefused \/ Aborted \/ HelperCrash
  PROVE  WorkTyped'
<1>1. WorkTyped BY TypeParts DEF TypeInv, RestInv, InsideTyped, WorkTyped
<1>2. CASE work' = NoWork
  <2>1. NoWork.at = "none" BY DEF NoWork
  <2> QED BY <1>2, <2>1, Nothing DEF WorkTyped
<1>3. ASSUME NEW at \in {"fetch", "verify", "install", "record", "submit", "settle"}, work.at # "none",
             work' = [work EXCEPT !.at = at]
      PROVE  WorkTyped'
  BY <1>1, <1>3 DEF WorkTyped, Works
<1>4. CASE Settle \/ Submit \/ WriteRefused \/ Aborted \/ HelperCrash
  BY <1>2, <1>4 DEF Settle, Submit, WriteRefused, Aborted, HelperCrash, Down
<1>5. CASE Progresses \/ Install \/ Record \/ Fails
  BY <1>3, <1>5 DEF Progresses, Download, DownloadMore, Verify, Progress, Install, Record,
                    Fails, PrepareFails, InstallPreparationFails, WorkEnds
<1>6. CASE Prepared
  <2>1. work.at = "verify" /\ work' = [work EXCEPT !.at = "install", !.prev = launch]
    BY <1>6 DEF Prepared
  <2>2. launch \in 0 .. MaxLaunch BY TypeParts DEF TypeInv, WorldTyped
  <2> QED BY <1>1, <2>1, <2>2 DEF WorkTyped, Works
<1>7. CASE AfterStart
  <2>1. PICK a \in replies : a.kind = "start"
          /\ IF work = NoWork
             THEN used' = used + 1
                  /\ work' = [id |-> used + 1, version |-> a.of, at |-> "begin", prev |-> 0]
             ELSE UNCHANGED <<used, work>>
    BY <1>7 DEF AfterStart
  <2>2. a.of \in Versions BY <2>1, TypeParts DEF TypeInv, InsideTyped, Replies
  <2>3. used + 1 \in Ids
    <3> DEFINE n == Cardinality(Pending(replies))  b == BeingServed(job)
    <3>1. a \in Pending(replies) /\ IsFiniteSet(Pending(replies))
      BY <2>1 DEF Pending, TypeInv, BudgetInv
    <3>2. n \in Nat /\ n # 0 BY <3>1, FS_CardinalityType, FS_EmptySet
    <3>3. used + n + b <= MaxOperations /\ b \in {0, 1} /\ used \in Nat
      BY TypeParts, Bounds DEF TypeInv, BudgetInv, BeingServed, BoundsTyped
    <3> HIDE DEF n, b
    <3> QED BY <3>2, <3>3, Bounds DEF Ids
  <2>4. CASE work = NoWork
    BY <2>1, <2>2, <2>3, <2>4, Bounds DEF WorkTyped, Works
  <2>5. CASE work # NoWork BY <1>1, <2>1, <2>5 DEF WorkTyped
  <2> QED BY <2>4, <2>5
<1> QED BY <1>4, <1>5, <1>6, <1>7

RepliesTyped == replies \subseteq Replies /\ BudgetInv

LEMMA RepliesSteps ==
  ASSUME TypeInv,
         \/ AfterStart \/ Answers \/ AutoCheck \/ WriteRefused \/ HelperCrash
         \/ \E answered \in BOOLEAN : CheckEnds(answered)
  PROVE  RepliesTyped'
<1>1. replies \subseteq Replies BY TypeParts DEF TypeInv, InsideTyped
<1>2. ASSUME Quiet, replies' \subseteq Replies PROVE RepliesTyped'
  BY <1>2, QuietKeepsBudget DEF RepliesTyped
<1>3. ASSUME replies' \subseteq replies, used' = used, job' \in {job, NoJob} PROVE RepliesTyped'
  BY <1>1, <1>2, <1>3 DEF Quiet, Pending
<1>4. ASSUME NEW a \in replies, a.kind \in {"restart", "submit"},
             NEW k \in {"submit", "unsubmitted"},
             replies' = (replies \ {a}) \cup {[a EXCEPT !.kind = k]}, UNCHANGED <<used, job>>
      PROVE  RepliesTyped'
  <2>1. a \in [kind : {"restart", "submit", "unsubmitted"}, n : 0 .. MaxRequests, of : Ids]
    BY <1>1, <1>4 DEF Replies
  <2>2. [a EXCEPT !.kind = k] \in Replies /\ [a EXCEPT !.kind = k].kind = k
    BY <2>1 DEF Replies
  <2>3. Quiet BY <1>4, <2>2 DEF Quiet, Pending
  <2> QED BY <1>1, <1>2, <1>4, <2>2, <2>3
<1>5. CASE WriteRefused \/ HelperCrash
  BY <1>3, <1>5 DEF WriteRefused, HelperCrash, Down, bounds
<1>6. ASSUME NEW answered \in BOOLEAN, CheckEnds(answered) PROVE RepliesTyped'
  BY <1>3, <1>6 DEF CheckEnds, bounds
<1>7. CASE RestartUnsubmitted BY <1>3, <1>7 DEF RestartUnsubmitted, bounds
<1>8. CASE MarkRestartPending
  <2>1. PICK a \in replies : a.kind = "restart" /\
          \E k \in {"submit", "unsubmitted"} : replies' = (replies \ {a}) \cup {[a EXCEPT !.kind = k]}
    BY <1>8 DEF MarkRestartPending
  <2>2. UNCHANGED <<used, job>> BY <1>8 DEF MarkRestartPending, bounds
  <2> QED BY <1>4, <2>1, <2>2
<1>9. CASE SubmitRestart
  <2>1. PICK a \in replies : a.kind = "submit" /\
          \/ replies' = replies \ {a}
          \/ replies' = (replies \ {a}) \cup {[a EXCEPT !.kind = "unsubmitted"]}
    BY <1>9 DEF SubmitRestart
  <2>2. UNCHANGED <<used, job>> BY <1>9 DEF SubmitRestart, bounds
  <2> QED BY <1>3, <1>4, <2>1, <2>2
<1>10. CASE AutoCheck
  <2> DEFINE c == [kind |-> "check", n |-> 0, of |-> NoId]
  <2>1. c \in Replies /\ c.kind = "check" BY DEF Replies
  <2>2. replies' = replies \cup {c} /\ UNCHANGED <<used, job>> BY <1>10 DEF AutoCheck, bounds
  <2> HIDE DEF c
  <2>3. Quiet BY <2>1, <2>2 DEF Quiet, Pending
  <2> QED BY <1>1, <1>2, <2>1, <2>2, <2>3
<1>11. CASE AfterStart
  <2>1. PICK a \in replies : /\ a.kind = "start" /\ replies' = replies \ {a}
                             /\ used' \in {used, used + 1}
    BY <1>11 DEF AfterStart
  <2>2. job' = job BY <1>11 DEF AfterStart
  <2>3. used \in Nat /\ BudgetInv BY TypeParts, Bounds DEF TypeInv, BoundsTyped
  <2>4. Pending(replies') = Pending(replies) \ {a} /\ a \in Pending(replies)
    BY <2>1 DEF Pending
  <2> DEFINE n == Cardinality(Pending(replies))  m == Cardinality(Pending(replies'))
             b == BeingServed(job)
  <2>5. IsFiniteSet(Pending(replies)) /\ n \in Nat BY <2>3, FS_CardinalityType DEF BudgetInv
  <2>6. IsFiniteSet(Pending(replies')) /\ m = n - 1 BY <2>4, <2>5, FS_RemoveElement
  <2>7. used + n + b <= MaxOperations /\ b \in {0, 1} BY <2>3 DEF BudgetInv, BeingServed
  <2> HIDE DEF n, m, b
  <2>8. used' + m + b <= MaxOperations
    <3>1. used' \in {used, used + 1} /\ used \in Nat /\ n \in Nat /\ m = n - 1 /\ MaxOperations \in Nat
      BY <2>1, <2>3, <2>5, <2>6, Bounds
    <3>2. \A u, x, y, z, o \in Nat : o \in {u, u + 1} /\ x # 0 /\ u + x + y <= z => o + (x - 1) + y <= z
      OBVIOUS
    <3>3. n # 0 BY <2>4, <2>5, FS_EmptySet DEF n
    <3>4. b \in Nat /\ used' \in Nat BY <2>7, <3>1
    <3> QED BY <2>7, <3>1, <3>2, <3>3, <3>4
  <2>9. BudgetInv' BY <2>2, <2>6, <2>8 DEF BudgetInv, m, b
  <2> QED BY <1>1, <2>1, <2>9 DEF RepliesTyped
<1> QED BY <1>5, <1>6, <1>7, <1>8, <1>9, <1>10, <1>11 DEF Answers

ReleasesTyped == WorkersTyped /\ ReleaseInv

LEMMA WorkerSteps ==
  ASSUME TypeInv, SubmitRestart \/ Submit \/ Outside
  PROVE  ReleasesTyped' /\ program' \in Versions /\ installed' \in Versions
<1>1. /\ installer \in [Ids -> Installers] /\ restarter \in [Ids -> Restarters] /\ ReleaseInv
      /\ program \in Versions /\ installed \in Versions /\ launch \in 0 .. MaxLaunch
      /\ launches \in 1 .. MaxLaunch
  BY TypeParts DEF TypeInv, RestInv, WorkersTyped, WorldTyped
<1>2. ASSUME UNCHANGED installer, restarter' \in [Ids -> Restarters] PROVE ReleasesTyped'
  BY <1>1, <1>2 DEF ReleasesTyped, WorkersTyped, ReleaseInv
<1>3. ASSUME UNCHANGED restarter, NEW id, NEW w \in Installers,
             installer' = [installer EXCEPT ![id] = w],
             w.at \in {"upgrading", "linked", "switched", "undoing"}
               => w.version \in Versions /\ w.from \in Versions
      PROVE  ReleasesTyped'
  BY <1>1, <1>3 DEF ReleasesTyped, WorkersTyped, ReleaseInv
<1>14. ASSUME NEW id, NEW at \in {"none", "succeeded", "failed", "report"}, InstallerLeaves(id, at),
              UNCHANGED restarter
       PROVE  ReleasesTyped'
  <2>1. [Idle EXCEPT !.at = at] \in Installers /\ [Idle EXCEPT !.at = at].at = at
    BY Nothing DEF Idle, Installers
  <2> QED BY <1>3, <1>14, <2>1 DEF InstallerLeaves
<1>15. ASSUME NEW id \in Ids, NEW at \in {"launched", "linked", "switched", "undoing"},
              InstallerMoves(id, at), UNCHANGED restarter,
              at # "launched" => installer[id].version \in Versions /\ installer[id].from \in Versions
       PROVE  ReleasesTyped'
  <2> DEFINE w == [installer[id] EXCEPT !.at = at]
  <2>1. w \in Installers /\ w.at = at /\ w.version = installer[id].version
        /\ w.from = installer[id].from
    BY <1>1 DEF Installers
  <2>2. installer' = [installer EXCEPT ![id] = w] BY <1>1, <1>15 DEF InstallerMoves
  <2> HIDE DEF w
  <2> QED BY <1>3, <1>15, <2>1, <2>2
<1>4. CASE SubmitRestart
  <2>1. UNCHANGED <<installer, program, installed>> BY <1>4 DEF SubmitRestart, world
  <2>2. restarter' = restarter \/ \E i : restarter' = [restarter EXCEPT ![i].at = "launched"]
    BY <1>4 DEF SubmitRestart
  <2>3. \A i \in Ids : [restarter[i] EXCEPT !.at = "launched"] \in Restarters BY <1>1 DEF Restarters
  <2>4. restarter' \in [Ids -> Restarters] BY <1>1, <2>2, <2>3
  <2> QED BY <1>1, <1>2, <2>1, <2>4
<1>5. CASE Submit
  <2>1. work.id \in Ids BY <1>5 DEF Submit, TypeInv, RestInv
  <2> QED BY <1>1, <1>5, <1>15, <2>1 DEF Submit, InstallerMoves, world
<1>6. ASSUME NEW id \in Ids, InstallerStarts(id)
      PROVE  ReleasesTyped' /\ UNCHANGED <<program, installed>>
  <2>1. UNCHANGED <<restarter, program, installed>> BY <1>6 DEF InstallerStarts, world
  <2>2. CASE Requested(id)
    <3>1. op.target \in Versions
      BY <2>2, TypedState, TypeParts
      DEF Requested, StateTyped, Active, Recorded, TypeInv, FilesTyped, Operations
    <3> DEFINE i0 == [at |-> "upgrading", version |-> op.target, from |-> program]
    <3>2. i0 \in Installers /\ i0.version \in Versions /\ i0.from \in Versions
      BY <1>1, <3>1 DEF Installers
    <3>3. installer' = [installer EXCEPT ![id] = i0] BY <1>6, <2>2 DEF InstallerStarts
    <3> HIDE DEF i0
    <3> QED BY <1>1, <2>1, <3>2, <3>3 DEF ReleasesTyped, WorkersTyped, ReleaseInv
  <2>3. CASE ~Requested(id)
    <3>1. installer' = [installer EXCEPT ![id] = Idle] BY <1>6, <2>3 DEF InstallerStarts
    <3>2. Idle \in Installers /\ Idle.at = "none" BY Nothing DEF Idle
    <3> QED BY <1>3, <2>1, <3>1, <3>2
  <2> QED BY <2>1, <2>2, <2>3
<1>7. ASSUME NEW id \in Ids, UpgradeLinks(id) \/ UpgradeRestarts(id) \/ UpgradeUndoesRestart(id)
      PROVE  ReleasesTyped' /\ program' \in Versions /\ UNCHANGED installed
  <2>1. /\ installer[id].at \in {"upgrading", "linked", "switched"}
        /\ program' \in {program, installer[id].version} /\ UNCHANGED <<restarter, installed>>
        /\ \E at \in {"linked", "switched", "undoing"} : InstallerMoves(id, at)
    BY <1>7 DEF UpgradeLinks, UpgradeRestarts, UpgradeUndoesRestart, InstallerAt, world
  <2>2. installer[id].version \in Versions /\ installer[id].from \in Versions
    BY <1>1, <2>1 DEF ReleaseInv
  <2> QED BY <1>1, <1>15, <2>1, <2>2
<1>8. ASSUME NEW id \in Ids, UpgradeUndoesLink(id)
      PROVE  ReleasesTyped' /\ program' \in Versions /\ UNCHANGED installed
  <2>1. /\ installer[id].at \in {"linked", "undoing"} /\ program' = installer[id].from
        /\ InstallerLeaves(id, "failed") /\ UNCHANGED <<restarter, installed>>
    BY <1>8 DEF UpgradeUndoesLink, InstallerAt
  <2> QED BY <1>1, <1>14, <2>1 DEF ReleaseInv
<1>9. ASSUME NEW id \in Ids, UpgradeConfirms(id)
      PROVE  ReleasesTyped' /\ installed' \in Versions /\ UNCHANGED program
  <2>1. /\ installer[id].at \in {"upgrading", "switched"} /\ installed' = installer[id].version
        /\ InstallerLeaves(id, "succeeded") /\ UNCHANGED <<restarter, program>>
    BY <1>9 DEF UpgradeConfirms, InstallerAt
  <2> QED BY <1>1, <1>14, <2>1 DEF ReleaseInv
<1>10. ASSUME NEW id \in Ids,
              \/ UpgradeFails(id) \/ UpgradeBreaksOff(id)
              \/ \E verdict \in {"succeeded", "failed"} : InstallerFinishes(id, verdict)
       PROVE  ReleasesTyped' /\ UNCHANGED <<program, installed>>
  <2>1. /\ UNCHANGED <<restarter, program, installed>>
        /\ \E at \in {"failed", "report", "none"} : InstallerLeaves(id, at)
    BY <1>10 DEF UpgradeFails, UpgradeBreaksOff, InstallerFinishes, world
  <2> QED BY <1>14, <2>1
<1>11. ASSUME NEW id \in Ids,
              RestarterStarts(id) \/ RestarterRelaunches(id) \/ RestarterFinishes(id)
       PROVE  ReleasesTyped' /\ UNCHANGED <<program, installed>>
  <2>1. UNCHANGED <<installer, program, installed>>
    BY <1>11 DEF RestarterStarts, RestarterRelaunches, RestarterFinishes, world
  <2>2. \A at \in {"failed", "opened", "report"} : [restarter[id] EXCEPT !.at = at] \in Restarters
    BY <1>1 DEF Restarters
  <2>3. [at |-> "closing", launch |-> launch] \in Restarters BY <1>1 DEF Restarters
  <2>4. \E x \in Restarters : restarter' = [restarter EXCEPT ![id] = x]
    <3>1. CASE RestarterStarts(id)
      BY <2>2, <2>3, <3>1, Nothing, <1>1 DEF RestarterStarts
    <3>2. CASE RestarterRelaunches(id) \/ RestarterFinishes(id)
      <4>1. \E at \in {"failed", "opened", "report"} : restarter' = [restarter EXCEPT ![id].at = at]
        BY <3>2 DEF RestarterRelaunches, RestarterFinishes, RestarterMoves
      <4> QED BY <1>1, <2>2, <4>1
    <3> QED BY <1>11, <3>1, <3>2
  <2>5. restarter' \in [Ids -> Restarters] BY <1>1, <2>4
  <2> QED BY <1>2, <2>1, <2>5
<1>12. ASSUME NEW id \in Ids, WorkerCrash(id) PROVE ReleasesTyped' /\ UNCHANGED <<program, installed>>
  <2>1. UNCHANGED <<program, installed>> BY <1>12 DEF WorkerCrash, world
  <2>2. CASE UNCHANGED restarter /\ InstallerLeaves(id, "none") BY <1>14, <2>1, <2>2
  <2>3. CASE UNCHANGED installer /\ restarter' = [restarter EXCEPT ![id] = NoRestart]
    BY <1>1, <1>2, <2>1, <2>3, Nothing
  <2> QED BY <1>12, <2>2, <2>3 DEF WorkerCrash
<1> QED
  BY <1>1, <1>4, <1>5, <1>6, <1>7, <1>8, <1>9, <1>10, <1>11, <1>12 DEF Outside, Upgrades

ProcessTyped ==
  /\ job \in Jobs /\ timer \in BOOLEAN /\ cleaning \in BOOLEAN /\ autoTried \in BOOLEAN
  /\ due \in {"none", "initialize", "reconcile"} /\ up \in {"down", "up", "stopping"}

LEMMA Assembled ==
  StateTyped /\ OpTyped /\ WorkTyped /\ RepliesTyped /\ ReleasesTyped /\ ProcessTyped
    /\ WorldTyped /\ HistoryTyped /\ BoundsTyped <=> TypeInv
<1>1. StateTyped /\ OpTyped /\ WorkTyped /\ RepliesTyped /\ ReleasesTyped /\ ProcessTyped
        <=> FilesTyped /\ InsideTyped /\ WorkersTyped /\ BudgetInv /\ RestInv
  BY DEF StateTyped, OpTyped, WorkTyped, RepliesTyped, ReleasesTyped, ProcessTyped,
         FilesTyped, InsideTyped, RestInv
<1> QED BY <1>1, TypeParts DEF TypeInv

LEMMA AssembledNext ==
  StateTyped' /\ OpTyped' /\ WorkTyped' /\ RepliesTyped' /\ ReleasesTyped' /\ ProcessTyped'
    /\ WorldTyped' /\ HistoryTyped' /\ BoundsTyped' <=> TypeInv'
  BY Assembled, PTL

\* The parts of the state that a step leaves alone.
LEMMA Untouched ==
  /\ StateTyped /\ UNCHANGED state /\ job' \in {job, NoJob} => StateTyped'
  /\ OpTyped /\ UNCHANGED op => OpTyped'
  /\ WorkTyped /\ UNCHANGED work => WorkTyped'
  /\ RepliesTyped /\ UNCHANGED <<replies, used, job>> => RepliesTyped'
  /\ ReleasesTyped /\ UNCHANGED workers => ReleasesTyped'
  /\ WorldTyped /\ UNCHANGED <<world, build>> => WorldTyped'
  /\ HistoryTyped /\ UNCHANGED history => HistoryTyped'
  /\ BoundsTyped /\ UNCHANGED bounds => BoundsTyped'
  BY DEF StateTyped, OpTyped, WorkTyped, RepliesTyped, BudgetInv, ReleasesTyped, WorkersTyped,
         ReleaseInv, WorldTyped, HistoryTyped, BoundsTyped, workers, world, history, bounds

\* The process: its job, the timer, the reconcile that is queued.
LEMMA ProcessSteps ==
  ASSUME TypeInv,
         \/ Boot \/ TimerFires \/ (\E answered \in BOOLEAN : CheckEnds(answered)) \/ AfterStart
         \/ Answers \/ Background \/ DownloadMore \/ AutoCheck \/ CleanupRemove \/ Surroundings
         \/ Outside
  PROVE  ProcessTyped' /\ job' \in {job, NoJob}
<1>1. ProcessTyped BY Assembled
<1>2. ASSUME UNCHANGED <<job, cleaning, autoTried>>, timer' \in BOOLEAN,
             due' \in {due, "initialize", "reconcile"}, up' \in {up, "up", "stopping"}
      PROVE  ProcessTyped' /\ job' \in {job, NoJob}
  BY <1>1, <1>2 DEF ProcessTyped
<1>3. ASSUME Down PROVE ProcessTyped' /\ job' \in {job, NoJob}
  BY <1>3, Nothing DEF Down, ProcessTyped
<1>4. timer \in BOOLEAN /\ Armed \in BOOLEAN BY <1>1 DEF ProcessTyped, Armed
<1> USE DEF helper, inside, OutsideHelper
<1>5. CASE Boot \/ TimerFires BY <1>2, <1>4, <1>5 DEF Boot, TimerFires
<1>6. ASSUME NEW answered \in BOOLEAN, CheckEnds(answered) PROVE ProcessTyped' /\ job' \in {job, NoJob}
  BY <1>2, <1>4, <1>6 DEF CheckEnds
<1>7. CASE AfterStart \/ Answers
  BY <1>2, <1>4, <1>7 DEF AfterStart, Answers, MarkRestartPending, SubmitRestart, RestartUnsubmitted
<1>8. CASE AutoCheck \/ CleanupRemove
  <2>1. cleaning' \in BOOLEAN /\ autoTried' \in BOOLEAN /\ UNCHANGED <<job, timer, due, up>>
    BY <1>1, <1>8 DEF AutoCheck, CleanupRemove, ProcessTyped
  <2> QED BY <1>1, <2>1 DEF ProcessTyped
<1>9. CASE Surroundings
  BY <1>2, <1>3, <1>4, <1>9 DEF Surroundings, Publish, CodexOpens, Expire, HelperCrash
<1>10. CASE Download \/ DownloadMore \/ Verify \/ Prepared \/ Install \/ Record \/ Submit \/ Aborted
            \/ Settle
  BY <1>2, <1>4, <1>10
  DEF Download, DownloadMore, Verify, Progress, Prepared, Install, Record, Submit, Aborted, Settle
<1>11. CASE PrepareFails \/ InstallPreparationFails \/ WriteRefused
  BY <1>2, <1>3, <1>4, <1>11 DEF PrepareFails, InstallPreparationFails, WorkEnds, WriteRefused
<1>12. ASSUME NEW id \in Ids, Upgrades(id)
       PROVE  ProcessTyped' /\ job' \in {job, NoJob}
  BY <1>2, <1>4, <1>12
  DEF Upgrades, UpgradeLinks, UpgradeRestarts, UpgradeConfirms, UpgradeUndoesRestart,
      UpgradeUndoesLink, UpgradeFails, UpgradeBreaksOff, HelperRestarts
<1>13. ASSUME NEW id \in Ids,
              \/ InstallerStarts(id) \/ (\E verdict \in {"succeeded", "failed"} : InstallerFinishes(id, verdict))
              \/ RestarterStarts(id) \/ RestarterRelaunches(id) \/ RestarterFinishes(id)
              \/ WorkerCrash(id)
       PROVE  ProcessTyped' /\ job' \in {job, NoJob}
  BY <1>2, <1>4, <1>13
  DEF InstallerStarts, InstallerFinishes, RestarterStarts,
      RestarterRelaunches, RestarterFinishes, WorkerCrash
<1> QED BY <1>5, <1>6, <1>7, <1>8, <1>9, <1>10, <1>11, <1>12, <1>13 DEF Background, Outside

Others ==
  \/ Boot \/ TimerFires \/ (\E answered \in BOOLEAN : CheckEnds(answered)) \/ AfterStart
  \/ Answers \/ Background \/ DownloadMore \/ AutoCheck \/ CleanupRemove \/ Surroundings
  \/ Outside

\* What each of the other steps leaves alone.
LEMMA OthersFrame ==
  ASSUME Others
  PROVE  /\ UNCHANGED state \/ Boot \/ AutoCheck \/ Progresses \/ Fails \/ Install
              \/ \E answered \in BOOLEAN : CheckEnds(answered)
         /\ UNCHANGED op \/ MarkRestartPending \/ RestartUnsubmitted \/ Record \/ Fails
              \/ CleanupRemove \/ Expire
              \/ \E id \in Ids : (\E verdict \in {"succeeded", "failed"} : InstallerFinishes(id, verdict))
                                   \/ RestarterFinishes(id)
         /\ UNCHANGED work \/ AfterStart \/ Progresses \/ Fails \/ Settle \/ Prepared \/ Install \/ Record
              \/ Submit \/ WriteRefused \/ Aborted \/ HelperCrash
         /\ UNCHANGED <<replies, used, job>> \/ AfterStart \/ Answers \/ AutoCheck \/ WriteRefused
              \/ HelperCrash \/ \E answered \in BOOLEAN : CheckEnds(answered)
         /\ UNCHANGED workers \/ SubmitRestart \/ Submit \/ Outside
<1> USE DEF files, helper, inside, world, workers, bounds, history, OutsideHelper
<1>1. CASE Boot \/ TimerFires \/ (\E answered \in BOOLEAN : CheckEnds(answered)) \/ AfterStart
  BY <1>1 DEF Boot, TimerFires, CheckEnds, AfterStart
<1>2. CASE Answers
  BY <1>2 DEF Answers, MarkRestartPending, SubmitRestart, RestartUnsubmitted
<1>3. CASE Progresses BY <1>3 DEF Progresses, Download, DownloadMore, Verify, Progress
<1>4. CASE Fails BY <1>4 DEF Fails, PrepareFails, InstallPreparationFails, WorkEnds
<1>5. CASE Settle \/ Prepared \/ Install \/ Record \/ Submit \/ WriteRefused \/ Aborted
  BY <1>5 DEF Settle, Prepared, Install, Record, Submit, WriteRefused, Aborted
<1>6. CASE AutoCheck \/ CleanupRemove \/ Surroundings
  BY <1>6 DEF AutoCheck, CleanupRemove, Surroundings, Publish, CodexOpens, Expire, HelperCrash
<1>7. CASE Outside
  <2>1. ASSUME NEW id \in Ids, Upgrades(id)
        PROVE  UNCHANGED <<state, op, work, replies, used, job>>
    BY <2>1 DEF Upgrades, UpgradeLinks, UpgradeRestarts, UpgradeConfirms, UpgradeUndoesRestart,
                UpgradeUndoesLink, UpgradeFails, UpgradeBreaksOff
  <2>2. ASSUME NEW id \in Ids, NEW verdict \in {"succeeded", "failed"}, InstallerFinishes(id, verdict)
        PROVE  UNCHANGED <<state, work, replies, used, job>>
    BY <2>2 DEF InstallerFinishes
  <2>3. ASSUME NEW id \in Ids, InstallerStarts(id) \/ RestarterStarts(id) \/ RestarterRelaunches(id)
                                 \/ RestarterFinishes(id) \/ WorkerCrash(id)
        PROVE  UNCHANGED <<state, work, replies, used, job>> /\ (UNCHANGED op \/ RestarterFinishes(id))
    BY <2>3 DEF InstallerStarts, RestarterStarts, RestarterRelaunches, RestarterFinishes, WorkerCrash
  <2> QED BY <1>7, <2>1, <2>2, <2>3 DEF Outside
<1> QED
  BY <1>1, <1>2, <1>3, <1>4, <1>5, <1>6, <1>7 DEF Others, Background, Progresses, Fails

\* The world outside, the histories and the budgets.
LEMMA WorldSteps ==
  ASSUME TypeInv, Others PROVE WorldTyped' /\ HistoryTyped' /\ BoundsTyped'
<1>1. WorldTyped /\ HistoryTyped /\ BoundsTyped BY TypeParts DEF TypeInv
<1>2. ASSUME UNCHANGED <<world, build>> PROVE WorldTyped' BY <1>1, <1>2, Untouched
<1>3. ASSUME UNCHANGED history PROVE HistoryTyped' BY <1>1, <1>3, Untouched
<1>4. ASSUME UNCHANGED bounds PROVE BoundsTyped' BY <1>1, <1>4, Untouched
<1>5. CASE Boot
  <2>1. UNCHANGED <<world, bounds, history>> /\ build' = program BY <1>5 DEF Boot
  <2>2. WorldTyped' BY <1>1, <2>1 DEF WorldTyped, world
  <2> QED BY <1>3, <1>4, <2>1, <2>2
<1>6. CASE TimerFires \/ Answers \/ AutoCheck \/ CleanupRemove \/ Expire
  BY <1>2, <1>3, <1>4, <1>6
  DEF TimerFires, Answers, MarkRestartPending, SubmitRestart, RestartUnsubmitted, AutoCheck,
      CleanupRemove, Expire, helper, OutsideHelper
<1>7. ASSUME NEW answered \in BOOLEAN, CheckEnds(answered)
      PROVE  WorldTyped' /\ HistoryTyped' /\ BoundsTyped'
  <2>1. UNCHANGED <<world, build, bounds, upgraded, began, dropped>>
        /\ overlapped' = (overlapped \/ state.phase # "checking")
    BY <1>7 DEF CheckEnds, helper
  <2>2. HistoryTyped' BY <1>1, <2>1 DEF HistoryTyped
  <2> QED BY <1>2, <1>4, <2>1, <2>2
<1>8. CASE AfterStart
  <2>1. /\ UNCHANGED <<world, build, upgraded, began, overlapped, asked, crashes>>
        /\ used' \in {used, used + 1} /\ dropped' = (work.at = "settle")
    BY <1>8 DEF AfterStart, helper
  <2>4. HistoryTyped' BY <1>1, <2>1 DEF HistoryTyped
  <2>2. used' \in 0 .. MaxOperations
    <3>1. RepliesTyped' BY <1>8, RepliesSteps
    <3>2. Cardinality(Pending(replies')) \in Nat /\ BeingServed(job') \in {0, 1}
          /\ used' + Cardinality(Pending(replies')) + BeingServed(job') <= MaxOperations
      BY <3>1, FS_CardinalityType DEF RepliesTyped, BudgetInv, BeingServed
    <3> DEFINE n == Cardinality(Pending(replies'))  b == BeingServed(job')
    <3>3. used' \in Nat BY <1>1, <2>1, Bounds DEF BoundsTyped
    <3>4. n \in Nat /\ b \in {0, 1} /\ used' + n + b <= MaxOperations BY <3>2
    <3> HIDE DEF n, b
    <3>5. \A u, x, y, z \in Nat : u + x + y <= z => u \in 0 .. z OBVIOUS
    <3>6. b \in Nat /\ MaxOperations \in Nat BY <3>4, Bounds
    <3> QED BY <3>3, <3>4, <3>5, <3>6
  <2>3. BoundsTyped' BY <1>1, <2>1, <2>2 DEF BoundsTyped
  <2> QED BY <1>2, <2>1, <2>3, <2>4
<1>9. CASE Download \/ DownloadMore \/ Verify \/ Prepared \/ Install \/ Submit \/ Aborted \/ Settle
  BY <1>2, <1>3, <1>4, <1>9
  DEF Download, DownloadMore, Verify, Progress, Prepared, Install, Submit, Aborted, Settle, helper
<1>10. CASE PrepareFails \/ InstallPreparationFails \/ WriteRefused
  BY <1>2, <1>3, <1>4, <1>10
  DEF PrepareFails, InstallPreparationFails, WorkEnds, WriteRefused, Down, helper
<1>11. CASE Record
  <2>1. UNCHANGED <<world, build, bounds, upgraded, dropped, overlapped>>
        /\ began' = [began EXCEPT ![work.id] = work.prev]
    BY <1>11 DEF Record, helper
  <2>2. work.prev \in 0 .. MaxLaunch BY TypeParts DEF TypeInv, InsideTyped, Works
  <2>3. HistoryTyped' BY <1>1, <2>1, <2>2 DEF HistoryTyped
  <2> QED BY <1>2, <1>4, <2>1, <2>3
<1>12. CASE Publish
  <2>1. UNCHANGED <<bounds, history, program, installed, launch, launches, build>>
        /\ published < MaxVersion /\ published' = published + 1
    BY <1>12 DEF Publish, OutsideHelper, helper
  <2>2. published' \in Versions BY <1>1, <2>1, Bounds DEF WorldTyped, Versions
  <2>3. WorldTyped' BY <1>1, <2>1, <2>2 DEF WorldTyped
  <2> QED BY <1>3, <1>4, <2>1, <2>3
<1>13. CASE CodexOpens
  <2>1. UNCHANGED <<bounds, history, program, installed, published, build>>
        /\ launches < MaxLaunch /\ launches' = launches + 1 /\ launch' = launches + 1
    BY <1>13 DEF CodexOpens, helper
  <2>2. launches + 1 \in 1 .. MaxLaunch /\ launches + 1 \in 0 .. MaxLaunch
    BY <1>1, <2>1, Bounds DEF WorldTyped
  <2>3. WorldTyped' BY <1>1, <2>1, <2>2 DEF WorldTyped
  <2> QED BY <1>3, <1>4, <2>1, <2>3
<1>14. CASE HelperCrash \/ \E id \in Ids : WorkerCrash(id)
  <2>1. UNCHANGED <<world, build, history, used, asked>> /\ crashes < MaxCrashes /\ crashes' = crashes + 1
    BY <1>14 DEF HelperCrash, WorkerCrash, Down, OutsideHelper, helper
  <2>2. crashes' \in 0 .. MaxCrashes BY <1>1, <2>1, Bounds DEF BoundsTyped
  <2>3. BoundsTyped' BY <1>1, <2>1, <2>2 DEF BoundsTyped
  <2> QED BY <1>2, <1>3, <2>1, <2>3
<1>15. ASSUME NEW id \in Ids,
              \/ InstallerStarts(id) \/ UpgradeFails(id) \/ RestarterStarts(id)
              \/ RestarterFinishes(id)
       PROVE  WorldTyped' /\ HistoryTyped' /\ BoundsTyped'
  BY <1>2, <1>3, <1>4, <1>15
  DEF InstallerStarts, UpgradeFails, RestarterStarts, RestarterFinishes, OutsideHelper, helper
<1>19. ASSUME NEW id \in Ids, UpgradeBreaksOff(id) \/ \E verdict \in {"succeeded", "failed"} :
                                                       InstallerFinishes(id, verdict)
       PROVE  WorldTyped' /\ HistoryTyped' /\ BoundsTyped'
  <2>1. /\ UNCHANGED <<world, build, history, used, asked>>
        /\ crashes' = crashes \/ (crashes < MaxCrashes /\ crashes' = crashes + 1)
    BY <1>19 DEF UpgradeBreaksOff, InstallerFinishes, OutsideHelper, helper
  <2>2. crashes' \in 0 .. MaxCrashes BY <1>1, <2>1, Bounds DEF BoundsTyped
  <2>3. BoundsTyped' BY <1>1, <2>1, <2>2 DEF BoundsTyped
  <2> QED BY <1>2, <1>3, <2>1, <2>3
<1>16. ASSUME NEW id \in Ids, UpgradeLinks(id) \/ UpgradeRestarts(id) \/ UpgradeUndoesRestart(id)
                                 \/ UpgradeUndoesLink(id)
       PROVE  WorldTyped' /\ HistoryTyped' /\ BoundsTyped'
  <2>1. UNCHANGED <<history, bounds, published, build, launch, launches>>
    BY <1>16 DEF UpgradeLinks, UpgradeRestarts, UpgradeUndoesRestart, UpgradeUndoesLink,
                 OutsideHelper, helper, world
  <2>2. program' \in Versions /\ installed' \in Versions
    BY <1>16, WorkerSteps DEF Outside, Upgrades
  <2>3. WorldTyped' BY <1>1, <2>1, <2>2 DEF WorldTyped
  <2> QED BY <1>3, <1>4, <2>1, <2>3
<1>17. ASSUME NEW id \in Ids, UpgradeConfirms(id)
       PROVE  WorldTyped' /\ HistoryTyped' /\ BoundsTyped'
  <2>1. UNCHANGED <<bounds, program, published, build, launch, launches, began, overlapped, dropped>>
        /\ upgraded' = upgraded \cup {id}
    BY <1>17 DEF UpgradeConfirms, OutsideHelper, helper
  <2>2. installed' \in Versions BY <1>17, WorkerSteps DEF Outside, Upgrades
  <2>3. WorldTyped' BY <1>1, <2>1, <2>2 DEF WorldTyped
  <2>4. HistoryTyped' BY <1>1, <2>1 DEF HistoryTyped
  <2> QED BY <1>4, <2>1, <2>3, <2>4
<1>18. ASSUME NEW id \in Ids, RestarterRelaunches(id)
       PROVE  WorldTyped' /\ HistoryTyped' /\ BoundsTyped'
  <2>1. UNCHANGED <<bounds, program, installed, published, build, upgraded, began, overlapped, dropped>>
    BY <1>18 DEF RestarterRelaunches, OutsideHelper, helper
  <2>2. \/ launch' \in {launch, 0} /\ launches' = launches
        \/ launches < MaxLaunch /\ launches' = launches + 1 /\ launch' = launches + 1
    BY <1>18 DEF RestarterRelaunches
  <2>3. launch' \in 0 .. MaxLaunch /\ launches' \in 1 .. MaxLaunch
    BY <1>1, <2>2, Bounds DEF WorldTyped
  <2>4. WorldTyped' BY <1>1, <2>1, <2>3 DEF WorldTyped
  <2>5. HistoryTyped' BY <1>1, <2>1 DEF HistoryTyped
  <2> QED BY <1>4, <2>1, <2>4, <2>5
<1> QED
  BY <1>5, <1>6, <1>7, <1>8, <1>9, <1>10, <1>11, <1>12, <1>13, <1>14, <1>15, <1>16, <1>17, <1>18, <1>19
  DEF Others, Background, Surroundings, Outside, Upgrades

LEMMA OthersKeepTypes == TypeInv /\ Others => TypeInv'
<1> SUFFICES ASSUME TypeInv, Others PROVE TypeInv' OBVIOUS
<1>1. /\ StateTyped /\ OpTyped /\ WorkTyped /\ RepliesTyped /\ ReleasesTyped
  BY Assembled
<1>2. ProcessTyped' /\ job' \in {job, NoJob} BY ProcessSteps DEF Others
<1>3. StateTyped' BY <1>1, <1>2, OthersFrame, StateSteps, Untouched
<1>4. OpTyped' BY <1>1, OthersFrame, OpSteps, Untouched
<1>5. WorkTyped' BY <1>1, OthersFrame, WorkSteps, Untouched
<1>6. RepliesTyped' BY <1>1, OthersFrame, RepliesSteps, Untouched
<1>7. ReleasesTyped' BY <1>1, OthersFrame, WorkerSteps, Untouched
<1> QED BY <1>2, <1>3, <1>4, <1>5, <1>6, <1>7, WorldSteps, AssembledNext

\* A report makes the Helper reconcile, or changes nothing but the worker.
LEMMA ReportsKeepTypes ==
  ASSUME TypeInv, NEW id \in Ids, InstallerReports(id) \/ RestarterReports(id)
  PROVE  TypeInv'
<1>1. /\ installer \in [Ids -> Installers] /\ restarter \in [Ids -> Restarters] /\ ReleaseInv
  BY TypeParts DEF TypeInv, RestInv, WorkersTyped
<1>2. WorkersTyped' /\ ReleaseInv'
  <2>1. CASE InstallerReports(id)
    <3> DEFINE w == [Idle EXCEPT !.at = "none"]
    <3>1. w \in Installers /\ w.at = "none" BY Nothing DEF Idle, Installers
    <3>2. installer' = [installer EXCEPT ![id] = w] /\ restarter' = restarter
      BY <2>1 DEF InstallerReports, InstallerLeaves
    <3> HIDE DEF w
    <3> QED BY <1>1, <3>1, <3>2 DEF WorkersTyped, ReleaseInv
  <2>2. CASE RestarterReports(id)
    BY <1>1, <2>2, Nothing DEF RestarterReports, WorkersTyped, ReleaseInv
  <2> QED BY <2>1, <2>2
<1>3. UNCHANGED <<world, bounds, history>> BY DEF InstallerReports, RestarterReports
<1>4. HistoryTyped' /\ BoundsTyped' BY <1>3, TypeParts, Untouched DEF TypeInv
<1>5. CASE Take("reconcile") /\ UNCHANGED due
  <2>1. Beside
    BY <1>2, <1>3, <1>4, <1>5, TypeParts DEF Beside, world, bounds, TypeInv, InsideTyped
  <2> QED BY <1>5, <2>1, TakeKeepsTypes
<1>6. CASE UNCHANGED <<files, OutsideHelper>>
  <2>1. StateTyped' /\ OpTyped' /\ WorkTyped' /\ RepliesTyped' /\ ReleasesTyped' /\ WorldTyped'
    BY <1>2, <1>3, <1>6, Assembled, Untouched
    DEF files, OutsideHelper, helper, inside, bounds, ReleasesTyped
  <2>2. ProcessTyped' BY <1>6, Assembled DEF ProcessTyped, OutsideHelper, helper, inside
  <2> QED BY <1>4, <2>1, <2>2, AssembledNext
<1> QED BY <1>5, <1>6 DEF InstallerReports, RestarterReports

LEMMA NextKeepsTypes == TypeInv /\ [Next]_vars => TypeInv'
<1> SUFFICES ASSUME TypeInv, [Next]_vars PROVE TypeInv' OBVIOUS
<1>1. CASE UNCHANGED vars
  <2>1. /\ StateTyped' /\ OpTyped' /\ WorkTyped' /\ RepliesTyped' /\ ReleasesTyped' /\ WorldTyped'
        /\ HistoryTyped' /\ BoundsTyped'
    BY <1>1, Assembled, Untouched DEF vars, files, helper, inside, bounds
  <2>2. ProcessTyped' BY <1>1, Assembled DEF ProcessTyped, vars, helper, inside
  <2> QED BY <2>1, <2>2, AssembledNext
<1>2. CASE Next
  <2>1. \/ RunDue \/ Finish \/ Stop \/ Activate \/ (\E intent \in Intents : Ask(intent))
        \/ Others \/ \E id \in Ids : InstallerReports(id) \/ RestarterReports(id)
    BY <1>2 DEF Next, Coordinator, Worker, Others, Answers, Surroundings, Outside, Upgrades
  <2> QED BY <2>1, TakesKeepTypes, OthersKeepTypes, ReportsKeepTypes
<1> QED BY <1>1, <1>2

\* Every variable keeps its type, an update in progress always names its
\* release, and no more operations are begun than there are numbers for: each
\* request that is on its way has its number reserved (GoalProgressUpdateStateSchema).
THEOREM UpdatesAreTyped == Spec => []TypeOK
<1>1. TypeInv => TypeOK BY DEF TypeInv
<1> QED BY <1>1, InitTyped, NextKeepsTypes, PTL DEF Spec

-----------------------------------------------------------------------------
(* Whose Codex is closed.                                                  *)

\* A restart worker about to close a Codex holds the launch that its operation
\* was recorded under; numbers are not used twice, so no later record changes it.
BeganInv ==
  /\ op.id <= used
  /\ \A i \in Ids : i > used => restarter[i].at # "closing"
  /\ work.at # "none" => work.id <= used
  /\ work.at \notin {"none", "submit", "settle"}
       => op.id # work.id /\ restarter[work.id].at # "closing"
  /\ op.id \in Ids => began[op.id] = op.prev
  /\ \A i \in Ids : restarter[i].at = "closing" => restarter[i].launch = began[i]

\* The record goes on to name the same operation, or is removed or written anew.
LEMMA TakeKeepsOperation ==
  ASSUME TypeInv, NEW intent, Take(intent) PROVE SameOperation(op')
<1>1. CASE NeedsRecord BY <1>1 DEF Take, files, SameOperation
<1>2. CASE ~NeedsRecord
  <2>1. op' = Unrecorded.op BY <1>2, ServeSplit DEF Take
  <2> QED BY <2>1, TypedFound, UnrecordedLeft DEF Left
<1> QED BY <1>1, <1>2

LEMMA OperationMoves ==
  ASSUME TypeInv, Next PROVE SameOperation(op') \/ op' = NoOp \/ Record
<1>1. op \in Operations BY TypeParts DEF TypeInv, FilesTyped
<1>2. ASSUME op' = op PROVE SameOperation(op') BY <1>2 DEF SameOperation
<1>3. ASSUME NEW id, \/ \E v \in {"succeeded", "failed"} : op' = Completed(id, v)
                     \/ \E v \in {"launched", "failed"} : op' = RestartCompleted(id, v)
      PROVE  SameOperation(op')
  BY <1>1, <1>3, VerdictTyped DEF SameOperation
<1>4. CASE Finish
  <2>1. job.read \in Operations /\ state.phase \in Recorded
    BY <1>4, TypeParts DEF Finish, TypeInv, RestInv, InsideTyped, Jobs
  <2>2. Left(Reconciled(job.read)) BY <2>1, TypedFound, ReconciledLeft
  <2>3. op' = Reconciled(job.read).op BY <1>4, ServeSplit DEF Finish
  <2> QED BY <2>2, <2>3 DEF Left
<1>5. CASE RunDue \/ Stop \/ Activate \/ \E intent \in Intents : Ask(intent)
  BY <1>5, TakeKeepsOperation DEF RunDue, Stop, Activate, Ask
<1>6. CASE \E id \in Ids : InstallerReports(id) \/ RestarterReports(id)
  BY <1>2, <1>6, TakeKeepsOperation DEF InstallerReports, RestarterReports, files
<1>7. CASE Others
  <2>1. CASE MarkRestartPending
    <3>1. op' = op \/ (op # NoOp /\ op' = [op EXCEPT !.restart = "pending", !.expired = FALSE])
      BY <2>1 DEF MarkRestartPending, NoOp
    <3> QED BY <1>1, <1>2, <3>1 DEF SameOperation, Operations
  <2>2. CASE RestartUnsubmitted BY <1>3, <2>2 DEF RestartUnsubmitted
  <2>3. CASE Fails BY <1>2, <1>3, <2>3 DEF Fails, PrepareFails, InstallPreparationFails
  <2>4. CASE CleanupRemove BY <2>4 DEF CleanupRemove
  <2>5. CASE Expire
    <3>1. op # NoOp /\ op' = [op EXCEPT !.expired = TRUE] BY <2>5 DEF Expire
    <3> QED BY <1>1, <3>1 DEF SameOperation, Operations
  <2>6. ASSUME NEW id \in Ids,
               (\E verdict \in {"succeeded", "failed"} : InstallerFinishes(id, verdict))
                 \/ RestarterFinishes(id)
        PROVE  SameOperation(op')
    BY <1>2, <1>3, <2>6 DEF InstallerFinishes, RestarterFinishes
  <2> QED BY <1>2, <1>7, <2>1, <2>2, <2>3, <2>4, <2>5, <2>6, OthersFrame
<1> QED
  BY <1>4, <1>5, <1>6, <1>7
  DEF Next, Coordinator, Worker, Others, Answers, Surroundings, Outside, Upgrades

\* The restart workers: one begins to close, one goes on to something else, or none moves.
LEMMA RestarterSteps ==
  ASSUME Next
  PROVE  \/ UNCHANGED restarter
         \/ \E id \in Ids : RestarterStarts(id)
         \/ \E id : \/ restarter' = [restarter EXCEPT ![id] = NoRestart]
                    \/ \E at \in {"launched", "opened", "failed", "report"} :
                         restarter' = [restarter EXCEPT ![id].at = at]
<1> USE DEF workers
<1>1. CASE RunDue \/ Finish \/ Stop \/ Activate \/ \E intent \in Intents : Ask(intent)
  BY <1>1 DEF RunDue, Finish, Stop, Activate, Ask
<1>2. CASE \E id \in Ids : InstallerReports(id) \/ RestarterReports(id)
  BY <1>2 DEF InstallerReports, RestarterReports
<1>3. CASE Others
  <2>1. CASE SubmitRestart BY <2>1 DEF SubmitRestart
  <2>2. CASE Submit BY <2>2 DEF Submit
  <2>3. ASSUME NEW id \in Ids,
               \/ InstallerStarts(id) \/ Upgrades(id)
               \/ \E verdict \in {"succeeded", "failed"} : InstallerFinishes(id, verdict)
        PROVE  UNCHANGED restarter
    BY <2>3 DEF InstallerStarts, Upgrades, UpgradeLinks, UpgradeRestarts, UpgradeConfirms,
                UpgradeUndoesRestart, UpgradeUndoesLink, UpgradeFails, UpgradeBreaksOff,
                InstallerFinishes
  <2>4. ASSUME NEW id \in Ids, RestarterRelaunches(id) \/ RestarterFinishes(id)
        PROVE  \E at \in {"launched", "opened", "failed", "report"} :
                 restarter' = [restarter EXCEPT ![id].at = at]
    BY <2>4 DEF RestarterRelaunches, RestarterFinishes, RestarterMoves
  <2>5. ASSUME NEW id \in Ids, WorkerCrash(id)
        PROVE  UNCHANGED restarter \/ restarter' = [restarter EXCEPT ![id] = NoRestart]
    BY <2>5 DEF WorkerCrash
  <2> QED BY <1>3, <2>1, <2>2, <2>3, <2>4, <2>5, OthersFrame DEF Outside
<1> QED
  BY <1>1, <1>2, <1>3 DEF Next, Coordinator, Worker, Others, Answers, Surroundings, Outside, Upgrades

\* The update under way: a new one takes the next number, and one that goes on keeps its.
LEMMA WorkMoves ==
  ASSUME TypeInv, Next
  PROVE  \/ UNCHANGED <<work, used>> \/ (work' = NoWork /\ used' = used)
         \/ /\ work.at \notin {"none", "submit", "settle"} /\ work'.id = work.id /\ used' = used
            /\ work'.at = "submit" => Record
         \/ work.at # "none" /\ work'.id = work.id /\ used' = used /\ work'.at = "settle"
         \/ work'.id = used + 1 /\ used' = used + 1 /\ work'.at = "begin"
<1> DEFINE Goal ==
      \/ UNCHANGED <<work, used>> \/ (work' = NoWork /\ used' = used)
      \/ /\ work.at \notin {"none", "submit", "settle"} /\ work'.id = work.id /\ used' = used
         /\ work'.at = "submit" => Record
      \/ work.at # "none" /\ work'.id = work.id /\ used' = used /\ work'.at = "settle"
      \/ work'.id = used + 1 /\ used' = used + 1 /\ work'.at = "begin"
<1>1. work \in Works BY TypeParts DEF TypeInv, InsideTyped
<1>2. asked \in 0 .. MaxRequests /\ InsideTyped /\ Found
  BY TypeParts, TypedFound DEF TypeInv, BoundsTyped
<1>3. ASSUME NEW intent, Take(intent) PROVE work' \in {work, NoWork}
  <2>1. CASE NeedsRecord BY <1>3, <2>1 DEF Take
  <2>2. CASE ~NeedsRecord BY <1>2, <1>3, <2>2, UnrecordedLeft, ServeInside DEF Take
  <2> QED BY <2>1, <2>2
<1>4. CASE Finish
  <2>1. job.read \in Operations /\ state.phase \in Recorded
    BY <1>2, <1>4 DEF Finish, TypeInv, RestInv, InsideTyped, Jobs
  <2>2. work' \in {work, NoWork}
    BY <1>2, <1>4, <2>1, ReconciledLeft, ServeInside DEF Finish
  <2> QED BY <1>4, <2>2 DEF Finish, bounds
<1>5. CASE RunDue \/ Stop \/ Activate \/ \E intent \in Intents : Ask(intent)
  BY <1>3, <1>5 DEF RunDue, Stop, Activate, Ask, bounds
<1>6. CASE \E id \in Ids : InstallerReports(id) \/ RestarterReports(id)
  BY <1>3, <1>6 DEF InstallerReports, RestarterReports, OutsideHelper, inside, bounds
<1>7. CASE Others
  <2>1. CASE AfterStart
    <3>1. \/ UNCHANGED <<work, used>>
          \/ used' = used + 1 /\ \E v : work' = [id |-> used + 1, version |-> v, at |-> "begin", prev |-> 0]
      BY <2>1 DEF AfterStart
    <3> QED BY <3>1
  <2>2. CASE Progresses \/ Prepared \/ Install
    <3>1. used' = used
      BY <2>2 DEF Progresses, Download, DownloadMore, Verify, Progress, Prepared, Install, bounds
    <3>2. /\ work.at \in {"begin", "fetch", "verify", "install"}
          /\ \E at \in {"fetch", "verify", "record"} :
               work' = [work EXCEPT !.at = at] \/ work' = [work EXCEPT !.at = "install", !.prev = launch]
      BY <2>2 DEF Progresses, Download, DownloadMore, Verify, Progress, Prepared, Install
    <3>3. work'.id = work.id /\ work'.at # "submit" BY <1>1, <3>2 DEF Works
    <3> QED BY <3>1, <3>2, <3>3
  <2>3. CASE Record
    <3>1. work.at = "record" /\ work' = [work EXCEPT !.at = "submit"] /\ used' = used
      BY <2>3 DEF Record, bounds
    <3> QED BY <1>1, <2>3, <3>1 DEF Works
  <2>4. CASE Settle \/ Submit \/ WriteRefused \/ Aborted \/ HelperCrash
    BY <2>4 DEF Settle, Submit, WriteRefused, Aborted, HelperCrash, Down, bounds
  <2>6. CASE Fails
    <3>1. work.at # "none" /\ work' = [work EXCEPT !.at = "settle"] /\ used' = used
      BY <2>6 DEF Fails, PrepareFails, InstallPreparationFails, WorkEnds, bounds
    <3> QED BY <1>1, <3>1 DEF Works
  <2>5. CASE UNCHANGED work /\ ~AfterStart
    <3>1. used' = used
      BY <1>7, <2>5
      DEF Others, Boot, TimerFires, CheckEnds, Answers, MarkRestartPending, SubmitRestart,
          RestartUnsubmitted, Background, Download, DownloadMore, Verify, Progress, Prepared, Install,
          Record, Submit, PrepareFails, InstallPreparationFails, WorkEnds, WriteRefused, Aborted,
          Settle, AutoCheck, CleanupRemove, Surroundings, Publish, CodexOpens, Expire, HelperCrash,
          Outside, Upgrades, InstallerStarts, UpgradeLinks, UpgradeRestarts, UpgradeConfirms,
          UpgradeUndoesRestart, UpgradeUndoesLink, UpgradeFails, UpgradeBreaksOff,
          InstallerFinishes, RestarterStarts, RestarterRelaunches, RestarterFinishes, WorkerCrash,
          bounds
    <3> QED BY <2>5, <3>1
  <2> QED BY <1>7, <2>1, <2>2, <2>3, <2>4, <2>5, <2>6, OthersFrame
<1> QED
  BY <1>4, <1>5, <1>6, <1>7
  DEF Next, Coordinator, Worker, Others, Answers, Surroundings, Outside, Upgrades

\* Only the record of an operation names the Codex it was begun under.
LEMMA BeganMoves == Next => Record \/ UNCHANGED began
<1> SUFFICES ASSUME Next PROVE Record \/ UNCHANGED began OBVIOUS
<1> USE DEF history
<1>1. CASE RunDue \/ Finish \/ Stop \/ Activate \/ \E intent \in Intents : Ask(intent)
  BY <1>1 DEF RunDue, Finish, Stop, Activate, Ask
<1>2. CASE \E id \in Ids : InstallerReports(id) \/ RestarterReports(id)
  BY <1>2 DEF InstallerReports, RestarterReports
<1>3. CASE Others /\ ~Record
  BY <1>3
  DEF Others, Boot, TimerFires, CheckEnds, AfterStart, Answers, MarkRestartPending, SubmitRestart,
      RestartUnsubmitted, Background, Download, DownloadMore, Verify, Progress, Prepared, Install,
      Submit, PrepareFails, InstallPreparationFails, WorkEnds, WriteRefused, Aborted, Settle,
      AutoCheck, CleanupRemove, Surroundings, Publish, CodexOpens, Expire, HelperCrash, Outside,
      Upgrades, InstallerStarts, UpgradeLinks, UpgradeRestarts, UpgradeConfirms, UpgradeUndoesRestart,
      UpgradeUndoesLink, UpgradeFails, UpgradeBreaksOff, InstallerFinishes, RestarterStarts,
      RestarterRelaunches, RestarterFinishes, WorkerCrash
<1> QED
  BY <1>1, <1>2, <1>3 DEF Next, Coordinator, Worker, Others, Answers, Surroundings, Outside, Upgrades

\* Only a restart worker closes a Codex, or the user opens another, with the restart
\* workers left alone.
LEMMA LaunchMoves ==
  Next => \/ UNCHANGED launch \/ UNCHANGED restarter \/ \E id \in Ids : RestarterRelaunches(id)
<1> SUFFICES ASSUME Next, ~\E id \in Ids : RestarterRelaunches(id)
             PROVE  UNCHANGED launch \/ UNCHANGED restarter
  OBVIOUS
<1> USE DEF world, workers
<1>1. CASE RunDue \/ Finish \/ Stop \/ Activate \/ \E intent \in Intents : Ask(intent)
  BY <1>1 DEF RunDue, Finish, Stop, Activate, Ask
<1>2. CASE \E id \in Ids : InstallerReports(id) \/ RestarterReports(id)
  BY <1>2 DEF InstallerReports, RestarterReports
<1>3. CASE Others
  BY <1>3
  DEF Others, Boot, TimerFires, CheckEnds, AfterStart, Answers, MarkRestartPending, SubmitRestart,
      RestartUnsubmitted, Background, Download, DownloadMore, Verify, Progress, Prepared, Install,
      Record, Submit, PrepareFails, InstallPreparationFails, WorkEnds, WriteRefused, Aborted, Settle,
      AutoCheck, CleanupRemove, Surroundings, Publish, CodexOpens, Expire, HelperCrash, Outside,
      Upgrades, InstallerStarts, UpgradeLinks, UpgradeRestarts, UpgradeConfirms, UpgradeUndoesRestart,
      UpgradeUndoesLink, UpgradeFails, UpgradeBreaksOff, InstallerFinishes, RestarterStarts,
      RestarterFinishes, WorkerCrash
<1> QED
  BY <1>1, <1>2, <1>3 DEF Next, Coordinator, Worker, Others, Answers, Surroundings, Outside, Upgrades

LEMMA BeganStep == TypeInv /\ TypeInv' /\ BeganInv /\ Next => BeganInv'
<1> SUFFICES ASSUME TypeInv, TypeInv', BeganInv, Next PROVE BeganInv' OBVIOUS
<1> USE Bounds DEF Ids
<1>1. /\ op \in Operations /\ work \in Works /\ used \in Nat /\ used' \in Nat /\ used' <= MaxOperations
      /\ restarter \in [Ids -> Restarters] /\ began \in [Ids -> 0 .. MaxLaunch]
      /\ (op = NoOp \/ op.id \in Ids) /\ (work.at # "none" => work.id \in Ids)
  BY TypeParts, TypePartsNext
  DEF TypeInv, FilesTyped, InsideTyped, WorkersTyped, HistoryTyped, BoundsTyped, RestInv
<1>2. NoOp.id = 0 /\ NoWork.at = "none" BY DEF NoOp, NoWork, NoId
<1>3. op.id \in Nat BY <1>1, <1>2
\* The workers that are about to close a Codex.
<1>4. \A i \in Ids : restarter'[i].at = "closing"
        => \/ restarter[i].at = "closing" /\ restarter'[i].launch = restarter[i].launch
           \/ op.id = i /\ restarter'[i].launch = op.prev /\ op' = op /\ began' = began
  <2>1. CASE UNCHANGED restarter BY <2>1
  <2>2. ASSUME NEW id \in Ids, RestarterStarts(id) PROVE <1>4
    <3>1. restarter' = [restarter EXCEPT ![id] = restarter'[id]] BY <1>1, <2>2 DEF RestarterStarts
    <3>2. op' = op /\ began' = began BY <2>2 DEF RestarterStarts, files, history
    <3>3. restarter'[id].at = "closing" => op.id = id /\ restarter'[id].launch = op.prev
      <4>1. CASE op.id # id \/ op.install # "succeeded"
        <5>1. restarter'[id] = NoRestart BY <1>1, <2>2, <4>1 DEF RestarterStarts
        <5> QED BY <5>1 DEF NoRestart
      <4>2. CASE ~(op.id # id \/ op.install # "succeeded")
        <5> DEFINE ready == /\ op.id = id /\ op.install = "succeeded"
                            /\ state.phase = "restarting" /\ state.latest = op.target
                            /\ Verified(op) /\ launch = op.prev
        <5>1. CASE ready
          <6>1. restarter'[id] = [at |-> "closing", launch |-> launch]
            BY <1>1, <2>2, <4>2, <5>1 DEF RestarterStarts
          <6> QED BY <5>1, <6>1
        <5>2. CASE ~ready
          <6>1. restarter'[id] = [restarter[id] EXCEPT !.at = "failed"]
            BY <1>1, <2>2, <4>2, <5>2 DEF RestarterStarts
          <6>2. restarter[id] \in Restarters BY <1>1
          <6> QED BY <6>1, <6>2 DEF Restarters
        <5> QED BY <5>1, <5>2
      <4> QED BY <4>1, <4>2
    <3> QED BY <1>1, <3>1, <3>2, <3>3
  <2>3. ASSUME NEW id, restarter' = [restarter EXCEPT ![id] = NoRestart] PROVE <1>4
    BY <1>1, <2>3 DEF NoRestart
  <2>4. ASSUME NEW id, NEW at \in {"launched", "opened", "failed", "report"},
               restarter' = [restarter EXCEPT ![id].at = at] PROVE <1>4
    <3>1. \A i \in Ids : restarter[i] \in Restarters BY <1>1
    <3> QED BY <1>1, <2>4, <3>1 DEF Restarters
  <2> QED BY <2>1, <2>2, <2>3, <2>4, RestarterSteps
<1>5. CASE Record
  <2>1. /\ work.at = "record" /\ work' = [work EXCEPT !.at = "submit"] /\ UNCHANGED <<used, restarter>>
        /\ op'.id = work.id /\ op'.prev = work.prev /\ began' = [began EXCEPT ![work.id] = work.prev]
    BY <1>5 DEF Record, bounds, workers
  <2>2. work'.at = "submit" /\ work'.id = work.id BY <1>1, <2>1 DEF Works
  <2>3. work.id \in Ids /\ work.id <= used /\ restarter[work.id].at # "closing"
    BY <1>1, <2>1 DEF BeganInv
  <2>4. began'[work.id] = work.prev /\ \A i \in Ids : i # work.id => began'[i] = began[i]
    BY <1>1, <2>1, <2>3
  <2>5. op'.id <= used' /\ (work'.at # "none" => work'.id <= used') BY <2>1, <2>2, <2>3
  <2>6. \A i \in Ids : i > used' => restarter'[i].at # "closing" BY <2>1 DEF BeganInv
  <2>7. op'.id \in Ids => began'[op'.id] = op'.prev BY <2>1, <2>4
  <2>8. \A i \in Ids : restarter'[i].at = "closing" => restarter'[i].launch = began'[i]
    BY <2>1, <2>3, <2>4 DEF BeganInv
  <2> QED BY <2>2, <2>5, <2>6, <2>7, <2>8 DEF BeganInv
<1>6. CASE ~Record
  <2>1. began' = began BY <1>6, BeganMoves
  <2>2. op'.id \in {op.id, 0} /\ (op'.id \in Ids => op'.id = op.id /\ op'.prev = op.prev)
    BY <1>2, <1>6, OperationMoves DEF SameOperation
  <2>3. used' >= used /\ op'.id <= used'
    <3>1. used' \in {used, used + 1} BY WorkMoves
    <3> QED BY <1>1, <1>3, <2>2, <3>1 DEF BeganInv
  <2>4. ASSUME NEW i \in Ids, restarter'[i].at = "closing"
        PROVE  i <= used /\ restarter'[i].launch = began[i]
    <3>1. CASE restarter[i].at = "closing" /\ restarter'[i].launch = restarter[i].launch
      BY <1>1, <3>1 DEF BeganInv
    <3>2. CASE op.id = i /\ restarter'[i].launch = op.prev BY <1>1, <3>2 DEF BeganInv
    <3> QED BY <1>4, <2>4, <3>1, <3>2
  <2>5. work'.at # "none" => work'.id <= used'
    BY <1>1, <1>2, <1>6, WorkMoves DEF BeganInv
  <2>6. work'.at \notin {"none", "submit", "settle"}
          => op'.id # work'.id /\ restarter'[work'.id].at # "closing"
    <3> SUFFICES ASSUME work'.at \notin {"none", "submit", "settle"}
                 PROVE  op'.id # work'.id /\ restarter'[work'.id].at # "closing"
      OBVIOUS
    <3>1. work'.id \in Ids BY DEF TypeInv, RestInv
    <3>2. work'.id # op.id /\ (work'.id > used \/ restarter[work'.id].at # "closing")
      BY <1>1, <1>2, <1>3, <1>6, <3>1, WorkMoves DEF BeganInv
    <3>3. op'.id # work'.id BY <2>2, <3>1, <3>2
    <3>4. restarter'[work'.id].at # "closing" BY <1>1, <1>4, <3>1, <3>2, <2>4
    <3> QED BY <3>3, <3>4
  <2>7. op'.id \in Ids => began'[op'.id] = op'.prev BY <2>1, <2>2 DEF BeganInv
  <2>8. \A i \in Ids : restarter'[i].at = "closing" => restarter'[i].launch = began'[i]
    BY <2>1, <2>4
  <2>9. \A i \in Ids : i > used' => restarter'[i].at # "closing" BY <1>1, <2>3, <2>4
  <2> QED BY <2>3, <2>5, <2>6, <2>7, <2>8, <2>9 DEF BeganInv
<1> QED BY <1>5, <1>6

LEMMA BeganStutter == BeganInv /\ UNCHANGED vars => BeganInv'
  BY DEF BeganInv, vars, files, inside, workers, bounds, history

LEMMA BeganInit == Init => BeganInv
  BY Bounds DEF Init, BeganInv, NoOp, NoId, NoWork, NoRestart, Ids

\* A restart worker closes only the Codex under which its own update began,
\* however late it comes (executeUpdateRestartHandoff).
THEOREM NewCodexIsSpared == Spec => NewCodexIsLeftAlone
<1> DEFINE Spared == \A id \in Ids : RestarterAt(id, "closing") /\ restarter'[id] # restarter[id]
                                      /\ launch' # launch => launch = began[id]
           Inv == TypeInv /\ BeganInv
<1>1. Inv /\ [Next]_vars => [Spared]_vars
  <2> SUFFICES ASSUME Inv, Next PROVE Spared OBVIOUS
  <2>1. SUFFICES ASSUME NEW id \in Ids, RestarterAt(id, "closing"), restarter'[id] # restarter[id],
                        launch' # launch
                 PROVE  launch = began[id]
    OBVIOUS
  <2>2. PICK i \in Ids : RestarterRelaunches(i) BY <2>1, LaunchMoves
  <2>3. restarter' = restarter \/ \E at : restarter' = [restarter EXCEPT ![i].at = at]
    BY <2>2 DEF RestarterRelaunches, RestarterMoves
  <2>4. i = id
    BY <2>1, <2>3, TypeParts DEF TypeInv, WorkersTyped
  <2>5. launch = restarter[id].launch
    BY <2>1, <2>2, <2>4 DEF RestarterRelaunches
  <2>6. restarter[id].launch = began[id] BY <2>1 DEF BeganInv, RestarterAt
  <2> QED BY <2>5, <2>6
<1>2. Init => Inv BY InitTyped, BeganInit
<1>3. Inv /\ [Next]_vars => Inv' BY NextKeepsTypes, BeganStep, BeganStutter
<1>4. NewCodexIsLeftAlone <=> [][Spared]_vars BY DEF NewCodexIsLeftAlone
<1> QED BY <1>1, <1>2, <1>3, <1>4, PTL DEF Spec

-----------------------------------------------------------------------------
(* What completes an update.                                               *)

Earned == op.prev < launches /\ build = state'.current /\ installed = build

\* A reconcile never completes an update.
LEMMA ReconcilePhases ==
  ASSUME Found, NEW o
  PROVE  /\ Reconciled(o).state \in {state} \cup {Written(state, p) :
                p \in {"update-failed", "restart-required", "restarting"}}
         /\ Unrecorded.state \in {state, Written(state, "download-failed")}
<1>1. ASSUME NEW t PROVE [Kept EXCEPT !.timer = t].state = state BY DEF Kept
<1>2. Kept.state = state BY DEF Kept
<1>3. ASSUME NEW p, NEW c, NEW t
      PROVE  /\ Moved(p).state = Written(state, p)
             /\ [Moved(p) EXCEPT !.op = c].state = Written(state, p)
             /\ [Moved(p) EXCEPT !.timer = t].state = Written(state, p)
  BY DEF Moved
<1>4. Unrecorded.state \in {state, Written(state, "download-failed")}
  BY <1>1, <1>2, <1>3 DEF Unrecorded
<1> DEFINE S == {state} \cup {Written(state, p) : p \in {"update-failed", "restart-required", "restarting"}}
<1>5. state \in S /\ \A p \in {"update-failed", "restart-required", "restarting"} : Written(state, p) \in S
  OBVIOUS
<1> HIDE DEF S
<1>6. InstallOutcome(o).state \in S
  <2>1. CASE o.install = "pending" /\ ~o.expired BY <1>1, <1>5, <2>1 DEF InstallOutcome
  <2>2. CASE o.install = "pending" /\ o.expired BY <1>3, <1>5, <2>2 DEF InstallOutcome
  <2>3. CASE o.install = "succeeded" /\ Verified(o) BY <1>3, <1>5, <2>3 DEF InstallOutcome
  <2>4. CASE o.install # "pending" /\ ~(o.install = "succeeded" /\ Verified(o))
    BY <1>3, <1>5, <2>4 DEF InstallOutcome
  <2> QED BY <2>1, <2>2, <2>3, <2>4
<1>7. RestartOutcome(o).state \in S
  <2>1. CASE ~(o.install = "succeeded" /\ Verified(o)) BY <1>3, <1>5, <2>1 DEF RestartOutcome
  <2> DEFINE good == o.install = "succeeded" /\ Verified(o)
  <2>2. CASE good /\ o.restart = "failed" BY <1>3, <1>5, <2>2 DEF RestartOutcome
  <2>3. CASE good /\ o.restart = "pending" /\ o.expired BY <1>3, <1>5, <2>3 DEF RestartOutcome
  <2>4. CASE good /\ o.restart = "pending" /\ ~o.expired BY <1>3, <1>5, <2>4 DEF RestartOutcome
  <2>5. CASE good /\ o.restart = "not-requested" /\ state.phase = "restarting"
    BY <1>3, <1>5, <2>5 DEF RestartOutcome
  <2>6. CASE good /\ o.restart \notin {"failed", "pending"}
                  /\ ~(o.restart = "not-requested" /\ state.phase = "restarting")
    BY <1>1, <1>5, <2>6 DEF RestartOutcome
  <2> QED BY <2>1, <2>2, <2>3, <2>4, <2>5, <2>6
<1>8. Reconciled(o).state \in S
  <2>1. CASE Superseded(o) BY <1>3, <1>5, <2>1 DEF Reconciled
  <2>2. CASE ~Superseded(o) /\ state.phase = "installing" BY <1>6, <2>2 DEF Reconciled
  <2>3. CASE ~Superseded(o) /\ state.phase # "installing" BY <1>7, <2>3 DEF Reconciled
  <2> QED BY <2>1, <2>2, <2>3
<1> QED BY <1>4, <1>8 DEF S

LEMMA PhaseWritten ==
  ASSUME Found, state.phase # "up-to-date", NEW o
  PROVE  Reconciled(o).state.phase # "up-to-date" /\ Unrecorded.state.phase # "up-to-date"
<1>1. \A p \in {"update-failed", "restart-required", "restarting", "download-failed"} :
        Written(state, p).phase = p
  <2>1. {"update-failed", "restart-required", "restarting", "download-failed"} \subseteq Phases
    BY DEF Phases, Active, Recorded
  <2> QED BY <2>1, WrittenTyped DEF Found
<1> QED BY <1>1, ReconcilePhases

\* Only an attempt that saw a new launch does.
LEMMA ServeCompletes ==
  ASSUME Found, WorldTyped, NEW intent, NEW r, Left(r), r.state.phase # "up-to-date",
         Serve(intent, r), state'.phase = "up-to-date"
  PROVE  Earned
<1>1. CASE Down /\ state' = r.state BY <1>1
<1>2. CASE intent \in Intents /\ ServeIntent(intent, r)
  <2>1. CASE ~Accepted(intent, r) BY <1>2, <2>1 DEF ServeIntent
  <2>2. CASE Accepted(intent, r)
    <3>1. state' = Written(r.state, Begun[intent]) BY <1>2, <2>2 DEF ServeIntent
    <3>2. Begun[intent] \in {"checking", "restarting", "preparing"} BY <1>2 DEF Begun, Intents
    <3>3. {"checking", "restarting", "preparing"} \subseteq Phases
      BY DEF Phases, Active, Recorded, Underway
    <3>4. state'.phase = Begun[intent] BY <3>1, <3>2, <3>3, WrittenTyped DEF Left
    <3> QED BY <3>2, <3>4
  <2> QED BY <2>1, <2>2
<1>3. CASE ServeInitialize(r) \/ ServeReconcile(r) BY <1>3 DEF ServeInitialize, ServeReconcile
<1>4. CASE ServeActivate(r)
  <2>1. PICK seen \in r.op.prev .. launches : Activated(r, seen)
    BY <1>4 DEF ServeActivate
  <2>2. state' = [Written(r.state, "up-to-date") EXCEPT !.current = r.op.target, !.latest = Unknown]
    BY <1>4 DEF ServeActivate
  <2>3. state'.current = r.op.target
    <3>1. Written(r.state, "up-to-date") \in States BY WrittenTyped DEF Left, Phases
    <3> QED BY <2>2, <3>1 DEF States
  <2>4. r.op.prev = op.prev /\ op.prev \in Nat BY Bounds DEF Left, Found, SameOperation, Operations
  <2>5. launches \in Nat BY Bounds DEF WorldTyped
  <2>6. seen # r.op.prev /\ build = r.op.target /\ installed = r.op.target
    BY <2>1 DEF Activated, Verified
  <2>7. op.prev < launches BY <2>1, <2>4, <2>5, <2>6
  <2> QED BY <2>3, <2>6, <2>7 DEF Earned
<1> QED BY <1>1, <1>2, <1>3, <1>4, ServeSplit

LEMMA TakeCompletes ==
  ASSUME TypeInv, NEW intent, Take(intent), state.phase # "up-to-date", state'.phase = "up-to-date"
  PROVE  Earned
<1>1. Found /\ WorldTyped BY TypedFound, TypeParts DEF TypeInv
<1>2. CASE NeedsRecord BY <1>2 DEF Take, files
<1>3. CASE ~NeedsRecord
  <2>1. Serve(intent, Unrecorded) BY <1>3 DEF Take
  <2>2. Left(Unrecorded) /\ Unrecorded.state.phase # "up-to-date" BY <1>1, UnrecordedLeft, PhaseWritten
  <2> QED BY <1>1, <2>1, <2>2, ServeCompletes
<1> QED BY <1>2, <1>3

\* The update is declared complete only in a Codex opened after it began, by a
\* Helper of the installed release, or by the answer to a check
\* (completeActivation, evaluateGoalProgressUpdateActivation).
THEOREM ActivationIsAlwaysEarned == Spec => ActivationIsEarned
<1> DEFINE Step == (state.phase \in {"restart-required", "restarting"} /\ state'.phase = "up-to-date"
                      /\ ~overlapped')
                     => (op.prev < launches /\ build = state'.current /\ installed = build)
<1>1. TypeInv /\ [Next]_vars => [Step]_vars
  <2> SUFFICES ASSUME TypeInv, Next, state.phase \in {"restart-required", "restarting"},
                      state'.phase = "up-to-date", ~overlapped'
               PROVE  Earned
    BY DEF Earned
  <2>1. CASE Finish
    <3>1. Found /\ WorldTyped BY TypedFound, TypeParts DEF TypeInv
    <3>2. job.read \in Operations /\ state.phase \in Recorded
      BY <2>1, TypeParts DEF Finish, TypeInv, RestInv, InsideTyped, Jobs
    <3>3. Left(Reconciled(job.read)) /\ Reconciled(job.read).state.phase # "up-to-date"
      BY <3>1, <3>2, ReconciledLeft, PhaseWritten
    <3> QED BY <2>1, <3>1, <3>3, ServeCompletes DEF Finish
  <2>2. CASE RunDue \/ Stop \/ Activate \/ \E intent \in Intents : Ask(intent)
    BY <2>2, TakeCompletes DEF RunDue, Stop, Activate, Ask
  <2>3. CASE \E id \in Ids : InstallerReports(id) \/ RestarterReports(id)
    BY <2>3, TakeCompletes DEF InstallerReports, RestarterReports, files
  <2>4. CASE Others
    <3>1. state \in States BY TypeParts DEF TypeInv, FilesTyped
    <3>2. {"downloading", "verifying", "download-failed", "update-failed", "installing", "checking"}
            \subseteq Phases
      BY DEF Phases, Active, Underway, Recorded
    <3>3. \A p \in {"downloading", "verifying", "download-failed", "update-failed", "installing", "checking"} :
            Written(state, p).phase = p /\ Written(state, p) \in States
      BY <3>1, <3>2, WrittenTyped
    <3>4. CASE Boot BY <3>4 DEF Boot, Active, Recorded
    <3>5. CASE AutoCheck BY <3>3, <3>5 DEF AutoCheck
    <3>6. CASE Progresses BY <3>3, <3>6 DEF Progresses, Download, DownloadMore, Verify, Progress
    <3>7. CASE Fails BY <3>3, <3>7 DEF Fails, PrepareFails, InstallPreparationFails, WorkEnds
    <3>8. CASE Install BY <3>3, <3>8 DEF Install, States
    <3>9. ASSUME NEW answered \in BOOLEAN, CheckEnds(answered) PROVE Earned BY <3>9 DEF CheckEnds
    <3>10. CASE UNCHANGED state BY <3>10
    <3> QED BY <2>4, <3>4, <3>5, <3>6, <3>7, <3>8, <3>9, <3>10, OthersFrame
  <2> QED
    BY <2>1, <2>2, <2>3, <2>4
    DEF Next, Coordinator, Worker, Others, Answers, Surroundings, Outside, Upgrades
<1>2. ActivationIsEarned <=> [][Step]_vars BY DEF ActivationIsEarned
<1> QED BY <1>1, <1>2, InitTyped, NextKeepsTypes, PTL DEF Spec

-----------------------------------------------------------------------------
(* What drives an update.                                                  *)

Drives ==
  /\ state.phase \in {"downloading", "verifying"} => work # NoWork
  /\ state.phase = "preparing" => work # NoWork \/ dropped \/ \E a \in replies : a.kind = "start"
  /\ state.phase = "installing" => work # NoWork \/ timer

\* Nothing comes between the write that says an update is being installed and
\* the start of its worker, and the timer is set before the update ends.
Submitting ==
  /\ work.at \in {"record", "submit"} => state.phase = "installing" /\ job = NoJob
  /\ work.at = "submit" /\ up = "up" => timer

\* While a failed update is put away, the state is an update's only if a retry has
\* been accepted, which is still to be carried out or has been dropped.
Settling ==
  work.at = "settle" =>
    /\ state.phase \notin {"downloading", "verifying", "installing"}
    /\ state.phase = "preparing" => dropped \/ \E a \in replies : a.kind = "start"

DrivenInv ==
  /\ up = "down" => work = NoWork
  /\ ~overlapped => Submitting /\ Settling /\ (up = "up" /\ due = "none" /\ job = NoJob => Drives)

\* The phases that a job leaves.
LEMMA ServePhases ==
  ASSUME NEW intent, NEW r, r.state \in States, Serve(intent, r)
  PROVE  \/ state' = r.state
         \/ state'.phase \in {"checking", "restarting", "up-to-date"}
         \/ state'.phase = "preparing" /\ \E a \in replies' : a.kind = "start"
<1>1. CASE Down /\ state' = r.state BY <1>1
<1>2. CASE intent \in Intents /\ ServeIntent(intent, r)
  <2>1. CASE ~Accepted(intent, r) BY <1>2, <2>1 DEF ServeIntent
  <2>2. CASE Accepted(intent, r)
    <3>1. state' = Written(r.state, Begun[intent]) /\ replies' = replies \cup {AfterResponse(intent, r)}
      BY <1>2, <2>2 DEF ServeIntent
    <3>2. \/ Begun[intent] \in {"checking", "restarting"}
          \/ Begun[intent] = "preparing" /\ intent \in {"start", "retry"}
      BY <1>2 DEF Begun, Intents
    <3>3. {"checking", "restarting", "preparing"} \subseteq Phases
      BY DEF Phases, Active, Recorded, Underway
    <3>4. state'.phase = Begun[intent] BY <3>1, <3>2, <3>3, WrittenTyped
    <3>5. ASSUME intent \in {"start", "retry"} PROVE AfterResponse(intent, r).kind = "start"
      BY <3>5 DEF AfterResponse
    <3> QED BY <3>1, <3>2, <3>4, <3>5
  <2> QED BY <2>1, <2>2
<1>3. CASE ServeInitialize(r) \/ ServeReconcile(r) BY <1>3 DEF ServeInitialize, ServeReconcile
<1>4. CASE ServeActivate(r)
  <2>1. CASE state' = r.state BY <2>1
  <2>2. CASE state' = [Written(r.state, "up-to-date") EXCEPT !.current = r.op.target, !.latest = Unknown]
    <3>1. "up-to-date" \in Phases BY DEF Phases
    <3>2. Written(r.state, "up-to-date") \in States /\ Written(r.state, "up-to-date").phase = "up-to-date"
      BY <3>1, WrittenTyped
    <3>3. state'.phase = "up-to-date" BY <2>2, <3>2 DEF States
    <3> QED BY <3>3
  <2> QED BY <1>4, <2>1, <2>2 DEF ServeActivate
<1> QED BY <1>1, <1>2, <1>3, <1>4, ServeSplit

\* Unless the process ends, only the files, the timer and the replies change.
LEMMA ServeFrame ==
  ASSUME NEW intent, NEW r, Serve(intent, r)
  PROVE  Down \/ (timer' = r.timer /\ UNCHANGED <<work, up>> /\ replies \subseteq replies')
<1> QED BY ServeSplit DEF ServeIntent, ServeInitialize, ServeActivate, ServeReconcile, helper

LEMMA ServeDrives ==
  ASSUME NEW intent, NEW r, r.state \in States, Serve(intent, r),
         r.state.phase \in Underway => work # NoWork,
         r.state.phase = "installing" => work # NoWork \/ r.timer = Armed
  PROVE  Down \/ (up' = "up" => Drives')
<1> SUFFICES ASSUME ~Down, up' = "up" PROVE Drives' OBVIOUS
<1>1. timer' = r.timer /\ work' = work /\ up = "up" BY ServeFrame
<1>2. CASE state' = r.state
  <2>1. r.state.phase = "installing" => work # NoWork \/ timer' BY <1>1 DEF Armed
  <2> QED BY <1>1, <1>2, <2>1 DEF Drives, Underway
<1>3. CASE state'.phase \in {"checking", "restarting", "up-to-date"} BY <1>3 DEF Drives
<1>4. CASE state'.phase = "preparing" /\ \E a \in replies' : a.kind = "start" BY <1>4 DEF Drives
<1> QED BY <1>2, <1>3, <1>4, ServePhases

\* The rest of a job leaves what a settling update stands for.
LEMMA ServeSettles ==
  ASSUME Settling, NEW intent, NEW r, r.state \in States, Serve(intent, r), UNCHANGED dropped,
         r.state.phase \in {state.phase, "download-failed", "update-failed", "restart-required",
                           "restarting"}
  PROVE  Settling'
<1>1. CASE Down BY <1>1 DEF Down, Settling, NoWork
<1>2. CASE ~Down
  <2>1. work' = work /\ replies \subseteq replies' BY <1>2, ServeFrame
  <2>2. CASE state' = r.state BY <2>1, <2>2 DEF Settling
  <2>3. CASE state'.phase \in {"checking", "restarting", "up-to-date"} BY <2>3 DEF Settling
  <2>4. CASE state'.phase = "preparing" /\ \E a \in replies' : a.kind = "start"
    BY <2>4 DEF Settling
  <2> QED BY <2>2, <2>3, <2>4, ServePhases
<1> QED BY <1>1, <1>2

\* An update that is being installed is not moved by the rest of a job.
LEMMA ServeInstalling ==
  ASSUME NEW intent, NEW r, Serve(intent, r), r.state.phase = "installing"
  PROVE  state' = r.state
<1>1. "installing" \in Active BY DEF Active, Recorded
<1>2. ~Accepted(intent, r) BY <1>1 DEF Accepted
<1>3. \A seen : ~Activated(r, seen) BY DEF Activated
<1> QED BY <1>2, <1>3, ServeSplit DEF ServeIntent, ServeInitialize, ServeActivate, ServeReconcile

LEMMA WorkIs == TypeInv => (work # NoWork <=> work.at # "none")
  BY DEF TypeInv, RestInv, NoWork

\* A job that takes its turn.
LEMMA TakeDrives ==
  ASSUME TypeInv, DrivenInv, NEW intent, Take(intent), intent # "none",
         UNCHANGED <<overlapped, dropped>>
  PROVE  DrivenInv'
<1>1. up # "down" /\ job = NoJob BY DEF Take, Free
<1>2. CASE NeedsRecord
  <2>1. job' = [intent |-> intent, read |-> op] /\ UNCHANGED <<files, helper, timer, replies, work>>
    BY <1>2 DEF Take
  <2>2. job' # NoJob BY <2>1 DEF NoJob
  <2>3. UNCHANGED <<state, up>> BY <2>1 DEF files, helper
  <2>4. work.at \notin {"record", "submit"} \/ overlapped
    <3>1. state.phase = "installing" => work = NoWork BY <1>2 DEF NeedsRecord
    <3> QED BY <3>1, WorkIs DEF DrivenInv, Submitting
  <2>5. Settling => Settling' BY <2>1, <2>3 DEF Settling
  <2> QED BY <1>1, <2>1, <2>2, <2>3, <2>4, <2>5 DEF DrivenInv, Submitting
<1>3. CASE ~NeedsRecord
  <2> DEFINE r == Unrecorded
  <2>1. Serve(intent, r) BY <1>3 DEF Take
  <2>2. Left(r) BY TypedFound, UnrecordedLeft
  <2>3. CASE state.phase \in Underway /\ work = NoWork
    <3>1. r = [Moved("download-failed") EXCEPT !.timer = timer]
      BY <2>3 DEF Unrecorded, Active, Underway
    <3>2. r.state = Written(state, "download-failed") BY <3>1 DEF Moved
    <3>3. state \in States /\ "download-failed" \in Phases
      BY TypedFound DEF Found, Phases
    <3>4. r.state.phase = "download-failed" BY <3>2, <3>3, WrittenTyped
    <3>5. Down \/ (up' = "up" => Drives') BY <2>1, <2>2, <3>4, ServeDrives DEF Left, Underway
    <3>6. work' = NoWork BY <2>1, <2>3, ServeFrame DEF Down
    <3>7. Submitting' /\ Settling' BY <3>6 DEF Submitting, Settling, NoWork
    <3> QED BY <3>5, <3>6, <3>7 DEF DrivenInv, Down
  <2>4. CASE state.phase \in Active /\ work # NoWork
    <3>1. r = Kept BY <2>4 DEF Unrecorded
    <3>2. r.state = state /\ r.timer = timer BY <3>1 DEF Kept
    <3>3. Down \/ (up' = "up" => Drives') BY <2>1, <2>2, <2>4, ServeDrives DEF Left
    <3>4. CASE Down BY <3>4 DEF Down, DrivenInv, Submitting, Settling, NoWork
    <3>5. CASE ~Down
      <4>1. timer' = timer /\ UNCHANGED <<work, up>> /\ job' = NoJob
        BY <2>1, <3>2, <3>5, ServeFrame, ServeSplit
      <4>2. state.phase = "installing" => state' = state BY <2>1, <3>2, ServeInstalling
      <4>3. ~overlapped => Submitting'
        <5>1. Submitting => Submitting' BY <4>1, <4>2 DEF Submitting
        <5> QED BY <5>1 DEF DrivenInv
      <4>4. Settling => Settling' BY <2>1, <2>2, <3>2, ServeSettles DEF Left
      <4> QED BY <1>1, <3>3, <3>5, <4>1, <4>3, <4>4 DEF DrivenInv
    <3> QED BY <3>4, <3>5
  <2>5. CASE state.phase \notin Active
    <3>1. r = [Kept EXCEPT !.timer = FALSE] BY <2>5 DEF Unrecorded, Active
    <3>2. r.state = state BY <3>1 DEF Kept
    <3>3. Down \/ (up' = "up" => Drives')
      BY <2>1, <2>2, <2>5, <3>2, ServeDrives DEF Left, Active, Recorded
    <3>4. CASE Down BY <3>4 DEF Down, DrivenInv, Submitting, Settling, NoWork
    <3>5. CASE ~Down
      <4>1. UNCHANGED <<work, up>> BY <2>1, <3>5, ServeFrame
      <4>2. ~overlapped => work.at \notin {"record", "submit"}
        BY <2>5 DEF DrivenInv, Submitting, Active, Recorded
      <4>3. Settling => Settling' BY <2>1, <2>2, <3>2, ServeSettles DEF Left
      <4> QED BY <1>1, <3>3, <3>5, <4>1, <4>2, <4>3 DEF DrivenInv, Submitting
    <3> QED BY <3>4, <3>5
  <2>6. state.phase \in Recorded => work # NoWork BY <1>1, <1>3 DEF NeedsRecord
  <2> QED BY <2>3, <2>4, <2>5, <2>6 DEF Active
<1> QED BY <1>2, <1>3

LEMMA FinishDrives == TypeInv /\ DrivenInv /\ Finish => DrivenInv'
<1> SUFFICES ASSUME TypeInv, DrivenInv, Finish PROVE DrivenInv' OBVIOUS
<1> DEFINE r == Reconciled(job.read)
<1>1. job.read \in Operations /\ state.phase \in Recorded /\ job # NoJob /\ Found
  BY TypeParts, TypedFound DEF Finish, TypeInv, RestInv, InsideTyped, Jobs
<1>2. Left(r) /\ Waits(r) BY <1>1, ReconciledLeft
<1>3. Serve(job.intent, r) /\ UNCHANGED <<overlapped, dropped>> BY DEF Finish, history
<1>4. r.state.phase \in {state.phase, "update-failed", "restart-required", "restarting"}
  <2>1. {"update-failed", "restart-required", "restarting"} \subseteq Phases
    BY DEF Phases, Active, Recorded
  <2>2. \A p \in {"update-failed", "restart-required", "restarting"} : Written(state, p).phase = p
    BY <1>1, <2>1, WrittenTyped DEF Found
  <2> QED BY <2>2, <1>1, ReconcilePhases
<1>5. r.state.phase \notin Underway BY <1>1, <1>4 DEF Underway, Recorded
<1>6. Down \/ (up' = "up" => Drives') BY <1>2, <1>3, <1>5, ServeDrives DEF Waits, Left
<1>7. CASE Down BY <1>7 DEF Down, DrivenInv, Submitting, Settling, NoWork
<1>8. CASE ~Down
  <2>1. UNCHANGED <<work, up>> BY <1>3, <1>8, ServeFrame
  <2>2. ~overlapped => work.at \notin {"record", "submit"} BY <1>1 DEF DrivenInv, Submitting
  <2>3. Settling => Settling' BY <1>2, <1>3, <1>4, ServeSettles DEF Left
  <2> QED BY <1>3, <1>6, <1>8, <2>1, <2>2, <2>3 DEF DrivenInv, Submitting
<1> QED BY <1>7, <1>8

\* Steps that take nothing away from what drives an update.
LEMMA QuietDrives ==
  ASSUME DrivenInv, UNCHANGED <<state, work, job, overlapped, dropped>>, due' # "none" \/ due' = due,
         \A a \in replies : a.kind = "start" => a \in replies',
         up' = "up" => up = "up" /\ (timer => timer'), up' = "down" => up = "down"
  PROVE  DrivenInv'
<1>1. Submitting /\ (up' = "up" => up = "up") => Submitting' BY DEF Submitting
<1>2. Drives /\ up' = "up" => Drives' BY DEF Drives
<1>3. Settling => Settling' BY DEF Settling
<1> QED BY <1>1, <1>2, <1>3 DEF DrivenInv

LEMMA OthersDrive == TypeInv /\ DrivenInv /\ Others => DrivenInv'
<1> SUFFICES ASSUME TypeInv, DrivenInv, Others PROVE DrivenInv' OBVIOUS
<1>1. /\ state \in States /\ work \in Works /\ up \in {"down", "up", "stopping"}
      /\ due \in {"none", "initialize", "reconcile"}
  BY TypeParts DEF TypeInv, FilesTyped, InsideTyped
<1>2. {"downloading", "verifying", "download-failed", "update-failed", "installing", "checking",
       "check-failed", "available", "up-to-date"} \subseteq Phases
  BY DEF Phases, Active, Underway, Recorded
<1>3. \A p \in {"downloading", "verifying", "download-failed", "update-failed", "installing",
                "checking", "check-failed", "available", "up-to-date"} :
        Written(state, p).phase = p /\ Written(state, p) \in States
  BY <1>1, <1>2, WrittenTyped
<1>4. Down /\ UNCHANGED overlapped => DrivenInv' BY DEF Down, DrivenInv, Submitting, Settling, NoWork
<1> USE DEF files, helper, inside, world, workers, bounds, history, OutsideHelper
<1>5. CASE Boot
  <2>1. up' = "up" /\ due' = "initialize" /\ work = NoWork /\ UNCHANGED <<work, overlapped>>
    BY <1>5 DEF Boot, DrivenInv
  <2> QED BY <2>1 DEF DrivenInv, Submitting, Settling, NoWork
<1>6. CASE TimerFires
  <2>1. /\ due' # "none" /\ work.at # "submit"
        /\ UNCHANGED <<state, work, job, up, replies, overlapped, dropped>>
    BY <1>6 DEF TimerFires
  <2>2. Settling => Settling' BY <2>1 DEF Settling
  <2> QED BY <2>1, <2>2 DEF DrivenInv, Submitting
<1>7. ASSUME NEW answered \in BOOLEAN, CheckEnds(answered) PROVE DrivenInv'
  <2>1. /\ UNCHANGED <<work, up, due, job, timer>> /\ job = NoJob /\ up # "down"
        /\ ~overlapped' => ~overlapped /\ state.phase = "checking"
    BY <1>7 DEF CheckEnds, Free
  <2>2. state'.phase \in {"check-failed", "available", "up-to-date"}
    <3>1. CASE ~answered BY <1>3, <1>7, <3>1 DEF CheckEnds
    <3>2. CASE answered /\ published > build
      <4>1. state' = [Written(state, "available") EXCEPT !.latest = published]
        BY <1>7, <3>2 DEF CheckEnds
      <4> QED BY <1>3, <4>1 DEF States
    <3>3. CASE answered /\ ~(published > build)
      <4>1. state' = [Written(state, "up-to-date") EXCEPT !.latest = Unknown]
        BY <1>7, <3>3 DEF CheckEnds
      <4> QED BY <1>3, <4>1 DEF States
    <3> QED BY <3>1, <3>2, <3>3
  <2>3. Drives' /\ Settling' BY <2>2 DEF Drives, Settling
  <2> QED BY <2>1, <2>3 DEF DrivenInv, Submitting
<1>8. CASE AfterStart
  <2>1. UNCHANGED <<state, job, due, timer, up, overlapped>> BY <1>8 DEF AfterStart
  <2>2. work # NoWork => work' = work BY <1>8 DEF AfterStart
  <2>3. work = NoWork => work'.at = "begin" BY <1>8 DEF AfterStart
  <2>4. work' # NoWork BY <2>2, <2>3 DEF NoWork
  <2>5. Drives' BY <2>4 DEF Drives
  <2>6. up # "down" BY <1>8 DEF AfterStart
  <2>7. Submitting => Submitting'
    <3>1. CASE work = NoWork BY <2>3, <3>1 DEF Submitting
    <3>2. CASE work # NoWork BY <2>1, <2>2, <3>2 DEF Submitting
    <3> QED BY <3>1, <3>2
  <2>8. dropped' = (work.at = "settle") BY <1>8 DEF AfterStart
  <2>9. Settling => Settling'
    <3>1. CASE work = NoWork BY <2>3, <3>1 DEF Settling
    <3>2. CASE work # NoWork BY <2>1, <2>2, <2>8, <3>2 DEF Settling
    <3> QED BY <3>1, <3>2
  <2> QED BY <2>1, <2>5, <2>6, <2>7, <2>9 DEF DrivenInv
<1>9. CASE AutoCheck
  <2>1. /\ UNCHANGED <<work, up, due, job, timer, overlapped>> /\ state.phase \notin Active
        /\ state' = Written(state, "checking") /\ up # "down"
    BY <1>9 DEF AutoCheck, Free
  <2>2. state'.phase = "checking" BY <1>3, <2>1
  <2>3. Drives' /\ Settling' BY <2>2 DEF Drives, Settling
  <2>4. Submitting => Submitting' BY <2>1 DEF Submitting, Active, Recorded
  <2> QED BY <2>1, <2>3, <2>4 DEF DrivenInv
<1>10. CASE Progresses
  <2>1. /\ UNCHANGED <<up, due, job, timer, overlapped>>
        /\ \E at \in {"fetch", "verify"} : work' = [work EXCEPT !.at = at]
    BY <1>10 DEF Progresses, Download, DownloadMore, Verify, Progress
  <2>2. work'.at \in {"fetch", "verify"} BY <1>1, <2>1 DEF Works
  <2>3. \E p \in {"downloading", "verifying"} : state' = Written(state, p)
    BY <1>10 DEF Progresses, Download, DownloadMore, Verify, Progress
  <2>4. state'.phase \in {"downloading", "verifying"} BY <1>3, <2>3
  <2>5. Drives' BY <2>2 DEF Drives, NoWork
  <2>6. up # "down" BY <1>10 DEF Progresses, Download, DownloadMore, Verify, Progress, Writable, Free
  <2> QED BY <2>1, <2>2, <2>5, <2>6 DEF DrivenInv, Submitting, Settling
<1>11. CASE Fails
  <2>1. /\ UNCHANGED <<up, due, job, timer, overlapped>> /\ up # "down"
        /\ work' = [work EXCEPT !.at = "settle"]
        /\ \E p \in {"download-failed", "update-failed"} : state' = Written(state, p)
    BY <1>11 DEF Fails, PrepareFails, InstallPreparationFails, WorkEnds
  <2>2. state'.phase \in {"download-failed", "update-failed"} BY <1>3, <2>1
  <2>3. work'.at = "settle" BY <1>1, <2>1 DEF Works
  <2>4. Drives' /\ Settling' BY <2>2 DEF Drives, Settling
  <2> QED BY <2>1, <2>3, <2>4 DEF DrivenInv, Submitting
<1>22. CASE Settle
  <2>1. /\ UNCHANGED <<state, replies, dropped, overlapped>>
        /\ work.at = "settle" /\ work' = NoWork
    BY <1>22 DEF Settle
  <2>2. ~overlapped => Drives' BY <2>1 DEF DrivenInv, Settling, Drives
  <2> QED BY <2>1, <2>2 DEF DrivenInv, Submitting, Settling, NoWork
<1>12. CASE Prepared
  <2>1. UNCHANGED <<state, up, due, job, timer, overlapped>> /\ up = "up"
        /\ work' = [work EXCEPT !.at = "install", !.prev = launch]
    BY <1>12 DEF Prepared
  <2>2. work'.at = "install" BY <1>1, <2>1 DEF Works
  <2>3. Drives' BY <2>2 DEF Drives, NoWork
  <2> QED BY <2>1, <2>2, <2>3 DEF DrivenInv, Submitting, Settling
<1>13. CASE Install
  <2>1. UNCHANGED <<up, due, job, timer, overlapped>> /\ up # "down" /\ job = NoJob
        /\ work' = [work EXCEPT !.at = "record"]
        /\ state' = [Written(state, "installing") EXCEPT !.request = work.id]
    BY <1>13 DEF Install, Writable, Free
  <2>2. work'.at = "record" /\ state'.phase = "installing" BY <1>1, <1>3, <2>1 DEF Works, States
  <2>3. Drives' BY <2>2 DEF Drives, NoWork
  <2> QED BY <2>1, <2>2, <2>3 DEF DrivenInv, Submitting, Settling
<1>14. CASE Record
  <2>1. UNCHANGED <<state, up, due, job, overlapped>> /\ work.at = "record"
        /\ work' = [work EXCEPT !.at = "submit"] /\ timer' = Armed
    BY <1>14 DEF Record
  <2>2. work'.at = "submit" /\ (up = "up" => timer') BY <1>1, <2>1 DEF Works, Armed
  <2>3. Drives' BY <2>2 DEF Drives, NoWork
  <2>4. Submitting => Submitting' BY <2>1, <2>2 DEF Submitting
  <2>5. up # "down" BY <2>1 DEF DrivenInv, NoWork
  <2> QED BY <2>1, <2>2, <2>3, <2>4, <2>5 DEF DrivenInv, Settling
<1>15. CASE Submit
  <2>1. UNCHANGED <<state, up, due, job, timer, overlapped>> /\ work.at = "submit" /\ work' = NoWork
    BY <1>15 DEF Submit
  <2>2. ~overlapped => state.phase = "installing" /\ (up = "up" => timer)
    BY <2>1 DEF DrivenInv, Submitting
  <2>3. ~overlapped /\ up = "up" => Drives' BY <2>1, <2>2 DEF Drives
  <2> QED BY <2>1, <2>3 DEF DrivenInv, Submitting, Settling, NoWork
<1>16. CASE WriteRefused \/ HelperCrash BY <1>4, <1>16 DEF WriteRefused, HelperCrash
<1>17. CASE Aborted
  <2>1. up = "stopping" /\ UNCHANGED <<up, overlapped>> /\ work' = NoWork BY <1>17 DEF Aborted
  <2> QED BY <2>1 DEF DrivenInv, Submitting, Settling, NoWork
<1>18. CASE Answers
  <2>1. /\ UNCHANGED <<state, work, job, overlapped, dropped, up>> /\ (due' # "none" \/ due' = due)
        /\ (timer' = timer \/ timer' = Armed)
    BY <1>18 DEF Answers, MarkRestartPending, SubmitRestart, RestartUnsubmitted
  <2>2. PICK a \in replies : a.kind # "start" /\ replies \ {a} \subseteq replies'
    BY <1>18 DEF Answers, MarkRestartPending, SubmitRestart, RestartUnsubmitted
  <2>3. up = "up" => (timer => timer') BY <2>1 DEF Armed
  <2> QED BY <2>1, <2>2, <2>3, QuietDrives
<1>19. CASE CleanupRemove \/ Publish \/ Expire
  <2>1. UNCHANGED <<state, work, job, overlapped, dropped, due, replies, timer, up>>
    BY <1>19 DEF CleanupRemove, Publish, Expire
  <2> QED BY <2>1, QuietDrives
<1>20. CASE CodexOpens
  <2>1. UNCHANGED <<state, work, job, overlapped, dropped, replies, timer, up>> /\ (due' # "none" \/ due' = due)
    BY <1>20 DEF CodexOpens
  <2> QED BY <2>1, QuietDrives
<1>21. CASE Outside
  <2> DEFINE Apart == /\ UNCHANGED <<state, work, job, overlapped, dropped, replies, timer, due>>
                      /\ up' = up \/ up' = "stopping"
  <2>1. ASSUME NEW id \in Ids, Upgrades(id) PROVE Apart
    BY <2>1 DEF Upgrades, UpgradeLinks, UpgradeRestarts, UpgradeConfirms, UpgradeUndoesRestart,
                UpgradeUndoesLink, UpgradeFails, UpgradeBreaksOff, HelperRestarts
  <2>2. ASSUME NEW id \in Ids,
               \/ InstallerStarts(id) \/ RestarterStarts(id) \/ RestarterRelaunches(id)
               \/ RestarterFinishes(id) \/ WorkerCrash(id)
               \/ \E verdict \in {"succeeded", "failed"} : InstallerFinishes(id, verdict)
        PROVE  Apart
    BY <2>2 DEF InstallerStarts, InstallerFinishes, RestarterStarts, RestarterRelaunches,
                RestarterFinishes, WorkerCrash
  <2>3. Apart BY <1>21, <2>1, <2>2 DEF Outside
  <2> QED BY <2>3, QuietDrives
<1> QED
  BY <1>5, <1>6, <1>7, <1>8, <1>9, <1>10, <1>11, <1>12, <1>13, <1>14, <1>15, <1>16, <1>17, <1>18,
     <1>19, <1>20, <1>21, <1>22
  DEF Others, Background, Progresses, Fails, Surroundings

LEMMA NextDrives == TypeInv /\ DrivenInv /\ [Next]_vars => DrivenInv'
<1> SUFFICES ASSUME TypeInv, DrivenInv, [Next]_vars PROVE DrivenInv' OBVIOUS
<1>1. CASE UNCHANGED vars
  BY <1>1 DEF DrivenInv, Submitting, Settling, Drives, vars, files, helper, inside, history
<1>2. CASE Finish BY <1>2, FinishDrives
<1>3. CASE RunDue \/ Stop \/ Activate \/ \E intent \in Intents : Ask(intent)
  <2>1. CASE RunDue
    <3>1. due # "none" /\ Take(due) /\ UNCHANGED <<overlapped, dropped>> BY <2>1 DEF RunDue, history
    <3> QED BY <3>1, TakeDrives
  <2>2. CASE Stop \/ Activate
    <3>1. (Take("stop") \/ Take("activate")) /\ UNCHANGED <<overlapped, dropped>>
      BY <2>2 DEF Stop, Activate, history
    <3> QED BY <3>1, TakeDrives
  <2>3. ASSUME NEW intent \in Intents, Ask(intent) PROVE DrivenInv'
    <3>1. Take(intent) /\ UNCHANGED <<overlapped, dropped>> /\ intent # "none"
      BY <2>3 DEF Ask, history, Intents
    <3> QED BY <3>1, TakeDrives
  <2> QED BY <1>3, <2>1, <2>2, <2>3
<1>4. ASSUME NEW id \in Ids, InstallerReports(id) \/ RestarterReports(id) PROVE DrivenInv'
  <2>1. UNCHANGED <<overlapped, dropped>> BY <1>4 DEF InstallerReports, RestarterReports, history
  <2>2. CASE Take("reconcile") BY <2>1, <2>2, TakeDrives
  <2>3. CASE UNCHANGED <<files, OutsideHelper>>
    <3>1. UNCHANGED <<state, work, job, overlapped, dropped, due, replies, timer, up>>
      BY <2>1, <2>3 DEF files, OutsideHelper, helper, inside
    <3> QED BY <3>1, QuietDrives
  <2> QED BY <1>4, <2>2, <2>3 DEF InstallerReports, RestarterReports
<1>5. CASE Others BY <1>5, OthersDrive
<1> QED
  BY <1>1, <1>2, <1>3, <1>4, <1>5
  DEF Next, Coordinator, Worker, Others, Answers, Surroundings, Outside, Upgrades

\* An update in progress always has something in the process that will move it,
\* but for the retry that is dropped while a failed update is still put away
\* (#reconcileState, #scheduleDeadlineReconcile).
THEOREM UpdatesAreDriven == Spec => []EveryUpdateIsDriven
<1>1. Init => DrivenInv BY DEF Init, DrivenInv, Submitting, Settling, NoWork
<1>2. DrivenInv => EveryUpdateIsDriven BY DEF DrivenInv, Drives, EveryUpdateIsDriven
<1> QED BY <1>1, <1>2, InitTyped, NextKeepsTypes, NextDrives, PTL DEF Spec

-----------------------------------------------------------------------------
(* Whose verdict the record holds.                                         *)

\* The records keep their fields.
Record6(o) == o = [id |-> o.id, target |-> o.target, install |-> o.install,
                   restart |-> o.restart, prev |-> o.prev, expired |-> o.expired]
Record3(o) == o = [at |-> o.at, version |-> o.version, from |-> o.from]

\* A worker that says "succeeded" has installed its release, and so has the one
\* whose verdict the operation record holds.
VerdictInv ==
  /\ Record6(op)
  /\ installer = [i \in Ids |-> installer[i]]
  /\ \A i \in Ids : Record3(installer[i])
  /\ \A i \in Ids : installer[i].at = "succeeded" => i \in upgraded
  /\ VerdictIsItsOwn

\* What may become of the record in a step that is not the verdict of a worker:
\* it stays, fails, is begun anew or removed.
Harmless ==
  /\ Record6(op')
  /\ op'.install = "succeeded" => op.install = "succeeded" /\ op'.id = op.id

LEMMA SameIsHarmless == Record6(op) /\ UNCHANGED op => Harmless
  BY DEF Harmless

LEMMA FailureIsHarmless ==
  ASSUME Record6(op), NEW id, op' \in {op, Completed(id, "failed"), RestartCompleted(id, "failed"),
                                       RestartCompleted(id, "launched"), NoOp}
  PROVE  Harmless
<1>1. Record6(NoOp) /\ NoOp.install = "failed" BY DEF NoOp, Record6
<1>2. ASSUME NEW v \in {"failed", "launched"}
      PROVE  /\ Record6([op EXCEPT !.install = v]) /\ [op EXCEPT !.install = v].install = v
             /\ Record6([op EXCEPT !.restart = v]) /\ [op EXCEPT !.restart = v].install = op.install
             /\ [op EXCEPT !.restart = v].id = op.id
  BY DEF Record6
<1> QED BY <1>1, <1>2 DEF Harmless, Completed, RestartCompleted

\* A reconcile keeps the record, or records a failure.
LEMMA ReconcileIsHarmless ==
  ASSUME Record6(op), NEW o, op' = Reconciled(o).op
  PROVE  Harmless
<1>1. Reconciled(o).op \in {op, Completed(o.id, "failed"), RestartCompleted(o.id, "failed")}
  BY DEF Reconciled, InstallOutcome, RestartOutcome, Kept, Moved
<1> QED BY <1>1, FailureIsHarmless

LEMMA UnrecordedKeepsOp == Unrecorded.op = op
  BY DEF Unrecorded, Kept, Moved

LEMMA ServeWritesOp == ASSUME NEW intent, NEW r, Serve(intent, r) PROVE op' = r.op
  BY DEF Serve, ServeIntent, ServeInitialize, ServeActivate, ServeReconcile

LEMMA TakeKeepsOp == ASSUME NEW intent, Take(intent) PROVE UNCHANGED op
  BY ServeWritesOp, UnrecordedKeepsOp DEF Take, files

\* Steps that keep the workers' successes, and do no harm to the record.
LEMMA HarmlessKeepsVerdictInv ==
  ASSUME VerdictInv, Harmless, UNCHANGED <<installer, upgraded>>
  PROVE  VerdictInv'
  BY DEF VerdictInv, VerdictIsItsOwn, Harmless, Record6, Record3

\* A step of a worker of operation id that leaves the record alone and does not
\* succeed.
LEMMA WorkerKeepsVerdictInv ==
  ASSUME VerdictInv, NEW id, NEW w, Record3(w), w.at # "succeeded",
         installer' = [installer EXCEPT ![id] = w],
         UNCHANGED <<op, upgraded>>
  PROVE  VerdictInv'
  BY DEF VerdictInv, VerdictIsItsOwn

\* The same for a step that changes the place of the worker only.
LEMMA MoveKeepsVerdictInv ==
  ASSUME VerdictInv, NEW id, NEW at, at # "succeeded",
         installer' = [installer EXCEPT ![id].at = at],
         UNCHANGED upgraded, Harmless
  PROVE  VerdictInv'
<1>1. ASSUME NEW i \in Ids
  PROVE Record3([installer[i] EXCEPT !.at = at]) /\ [installer[i] EXCEPT !.at = at].at = at
  BY DEF VerdictInv, Record3
<1>2. installer' = [i \in Ids |-> IF i = id THEN [installer[i] EXCEPT !.at = at] ELSE installer[i]]
  BY DEF VerdictInv
<1>3. \A i \in Ids : installer'[i] = IF i = id THEN [installer[i] EXCEPT !.at = at] ELSE installer[i]
  BY <1>2
<1> QED BY <1>1, <1>2, <1>3 DEF VerdictInv, VerdictIsItsOwn, Harmless

LEMMA CoordinatorKeepsVerdictInv == VerdictInv /\ Coordinator => VerdictInv'
<1> SUFFICES ASSUME VerdictInv, Coordinator PROVE VerdictInv'
  OBVIOUS
<1>1. Record6(op) BY DEF VerdictInv
<1>2. UNCHANGED <<installer, upgraded>>
  BY DEF Coordinator, RunDue, Finish, TimerFires, Stop, CheckEnds,
   AfterStart, MarkRestartPending, SubmitRestart, RestartUnsubmitted, workers, history
<1>3. CASE Finish
  BY <1>1, <1>3, ServeWritesOp, ReconcileIsHarmless, <1>2, HarmlessKeepsVerdictInv DEF Finish
<1>4. CASE RunDue \/ Stop
  BY <1>1, <1>2, <1>4, TakeKeepsOp, SameIsHarmless, HarmlessKeepsVerdictInv DEF RunDue, Stop
<1>5. CASE TimerFires \/ AfterStart \/ SubmitRestart
    \/ \E answered \in BOOLEAN : CheckEnds(answered)
  BY <1>1, <1>2, <1>5, SameIsHarmless, HarmlessKeepsVerdictInv
  DEF TimerFires, AfterStart, SubmitRestart, CheckEnds, files
<1>6. CASE MarkRestartPending
  <2>1. op' \in {op, [op EXCEPT !.restart = "pending", !.expired = FALSE]}
    BY <1>6 DEF MarkRestartPending
  <2>2. Harmless BY <1>1, <2>1 DEF Record6, Harmless
  <2> QED BY <1>2, <2>2, HarmlessKeepsVerdictInv
<1>7. CASE RestartUnsubmitted
  BY <1>1, <1>2, <1>7, FailureIsHarmless, HarmlessKeepsVerdictInv DEF RestartUnsubmitted
<1> QED BY <1>3, <1>4, <1>5, <1>6, <1>7 DEF Coordinator

LEMMA BackgroundKeepsVerdictInv == VerdictInv /\ (Background \/ DownloadMore) => VerdictInv'
<1> SUFFICES ASSUME VerdictInv, Background \/ DownloadMore PROVE VerdictInv'
  OBVIOUS
<1>1. Record6(op) BY DEF VerdictInv
<1>2. CASE Download \/ DownloadMore \/ Verify \/ Prepared \/ Install \/ WriteRefused \/ Aborted
    \/ PrepareFails \/ Settle
  BY <1>1, <1>2, SameIsHarmless, HarmlessKeepsVerdictInv
  DEF Download, DownloadMore, Verify, Progress, Prepared, Install, PrepareFails, Settle,
     WriteRefused, Aborted, WorkEnds, files, workers, history
<1>3. CASE Record
  <2>1. Harmless BY <1>3 DEF Record, Harmless, Record6
  <2> QED BY <1>3, <2>1, HarmlessKeepsVerdictInv DEF Record, workers, history
<1>4. CASE Submit BY <1>1, <1>4, SameIsHarmless, MoveKeepsVerdictInv DEF Submit, files, history
<1>5. CASE InstallPreparationFails
  BY <1>1, <1>5, FailureIsHarmless, HarmlessKeepsVerdictInv
  DEF InstallPreparationFails, WorkEnds, workers, history
<1> QED BY <1>2, <1>3, <1>4, <1>5 DEF Background

\* A worker that is done, or has its say still to write.
LEMMA LeavingKeepsVerdictInv ==
  ASSUME VerdictInv, NEW id, NEW at, InstallerLeaves(id, at), Harmless,
         \/ at # "succeeded" /\ UNCHANGED upgraded
         \/ upgraded' = upgraded \cup {id} /\ UNCHANGED op
  PROVE  VerdictInv'
<1> DEFINE w == [Idle EXCEPT !.at = at]
<1>1. Record3(w) /\ w.at = at BY DEF Record3, Idle
<1>2. installer' = [installer EXCEPT ![id] = w] BY DEF InstallerLeaves
<1> HIDE DEF w
<1>3. \A i \in Ids : installer'[i] = IF i = id THEN w ELSE installer[i]
  BY <1>2 DEF VerdictInv
<1>4. installer' = [i \in Ids |-> installer'[i]] BY <1>2 DEF VerdictInv
<1> QED BY <1>1, <1>3, <1>4 DEF VerdictInv, VerdictIsItsOwn, Harmless

LEMMA InstallerKeepsVerdictInv ==
  ASSUME VerdictInv, NEW id \in Ids,
         \/ InstallerStarts(id) \/ Upgrades(id) \/ InstallerReports(id)
         \/ \E verdict \in {"succeeded", "failed"} : InstallerFinishes(id, verdict)
  PROVE  VerdictInv'
<1>1. Record6(op) BY DEF VerdictInv
<1>2. CASE InstallerStarts(id)
  <2>1. Record3([at |-> "upgrading", version |-> op.target, from |-> program])
        /\ Record3(Idle) /\ Idle.at = "none"
    BY DEF Record3, Idle
  <2> QED BY <1>2, <2>1, WorkerKeepsVerdictInv DEF InstallerStarts, files, history
<1>3. CASE UpgradeLinks(id) \/ UpgradeRestarts(id) \/ UpgradeUndoesRestart(id)
  BY <1>1, <1>3, SameIsHarmless, MoveKeepsVerdictInv
  DEF UpgradeLinks, UpgradeRestarts, UpgradeUndoesRestart, InstallerMoves, files, history
<1>4. CASE UpgradeUndoesLink(id) \/ UpgradeFails(id) \/ UpgradeBreaksOff(id)
  <2>1. InstallerLeaves(id, "failed") /\ UNCHANGED <<op, upgraded>>
    BY <1>4 DEF UpgradeUndoesLink, UpgradeFails, UpgradeBreaksOff, files, history
  <2> QED BY <1>1, <2>1, SameIsHarmless, LeavingKeepsVerdictInv
<1>7. CASE UpgradeConfirms(id)
  <2>1. InstallerLeaves(id, "succeeded") /\ UNCHANGED op /\ upgraded' = upgraded \cup {id}
    BY <1>7 DEF UpgradeConfirms, files
  <2> QED BY <1>1, <2>1, SameIsHarmless, LeavingKeepsVerdictInv
<1>5. ASSUME NEW verdict \in {"succeeded", "failed"}, InstallerFinishes(id, verdict)
  PROVE VerdictInv'
  <2>1. UNCHANGED upgraded BY <1>5 DEF InstallerFinishes, history
  <2>2. PICK at \in {"report", "failed", "none"} : InstallerLeaves(id, at)
    BY <1>5 DEF InstallerFinishes
  <2>3. CASE op' # Completed(id, "succeeded") \/ op' = op
    <3>1. op' \in {op, Completed(id, "failed")} BY <1>5, <2>3 DEF InstallerFinishes
    <3>2. Harmless BY <1>1, <3>1, FailureIsHarmless
    <3> QED BY <2>1, <2>2, <3>2, LeavingKeepsVerdictInv
  <2>4. CASE op' = Completed(id, "succeeded") /\ op' # op
    <3>1. op.id = id /\ op' = [op EXCEPT !.install = "succeeded"] BY <2>4 DEF Completed, Answerable
    <3>2. Record6(op') /\ op'.id = id BY <1>1, <3>1 DEF Record6
    <3>3. verdict = "succeeded"
      <4>1. op' \in {op, Completed(id, verdict)} BY <1>5 DEF InstallerFinishes
      <4>2. op'.install = "succeeded" BY <1>1, <3>1 DEF Record6
      <4>3. op.install = "pending" BY <2>4 DEF Completed, Answerable
      <4>4. Record6([op EXCEPT !.install = "failed"]) /\ [op EXCEPT !.install = "failed"].install = "failed"
        BY <1>1 DEF Record6
      <4> QED BY <2>4, <3>1, <4>1, <4>2, <4>3, <4>4 DEF Completed
    <3>4. id \in upgraded BY <1>5, <3>3 DEF InstallerFinishes, InstallerAt, VerdictInv
    <3> DEFINE w == [Idle EXCEPT !.at = at]
    <3>5. Record3(w) /\ w.at = at BY DEF Record3, Idle
    <3>6. installer' = [installer EXCEPT ![id] = w] BY <2>2 DEF InstallerLeaves
    <3> HIDE DEF w
    <3>7. \A i \in Ids : installer'[i] = IF i = id THEN w ELSE installer[i]
      BY <3>6 DEF VerdictInv
    <3>8. installer' = [i \in Ids |-> installer'[i]] BY <3>6 DEF VerdictInv
    <3> QED BY <2>1, <2>2, <3>2, <3>4, <3>5, <3>7, <3>8 DEF VerdictInv, VerdictIsItsOwn
  <2> QED BY <2>3, <2>4
<1>6. CASE InstallerReports(id)
  <2>1. InstallerLeaves(id, "none") /\ UNCHANGED upgraded BY <1>6 DEF InstallerReports, history
  <2>2. UNCHANGED op BY <1>6, TakeKeepsOp DEF InstallerReports, files
  <2> QED BY <1>1, <2>1, <2>2, SameIsHarmless, LeavingKeepsVerdictInv
<1> QED BY <1>2, <1>3, <1>4, <1>5, <1>6, <1>7 DEF Upgrades

LEMMA RestarterKeepsVerdictInv ==
  ASSUME VerdictInv, NEW id \in Ids,
         \/ RestarterStarts(id) \/ RestarterRelaunches(id) \/ RestarterFinishes(id)
         \/ RestarterReports(id)
  PROVE  VerdictInv'
<1>1. Record6(op) BY DEF VerdictInv
<1>2. UNCHANGED <<installer, upgraded>>
  BY DEF RestarterStarts, RestarterRelaunches, RestarterFinishes, RestarterReports, history
<1>3. CASE RestarterStarts(id) \/ RestarterRelaunches(id)
  BY <1>1, <1>2, <1>3, SameIsHarmless, HarmlessKeepsVerdictInv
  DEF RestarterStarts, RestarterRelaunches, files
<1>4. CASE RestarterFinishes(id)
  BY <1>1, <1>2, <1>4, FailureIsHarmless, HarmlessKeepsVerdictInv DEF RestarterFinishes
<1>5. CASE RestarterReports(id)
  BY <1>1, <1>2, <1>5, SameIsHarmless, TakeKeepsOp, HarmlessKeepsVerdictInv
  DEF RestarterReports, files
<1> QED BY <1>3, <1>4, <1>5

LEMMA NextKeepsVerdictInv == VerdictInv /\ [Next]_vars => VerdictInv'
<1> SUFFICES ASSUME VerdictInv, [Next]_vars PROVE VerdictInv'
  OBVIOUS
<1>1. Record6(op) BY DEF VerdictInv
<1>2. CASE Boot \/ AutoCheck \/ Publish \/ CodexOpens \/ HelperCrash
  BY <1>1, <1>2, SameIsHarmless, HarmlessKeepsVerdictInv
  DEF Boot, AutoCheck, Publish, CodexOpens, HelperCrash, workers, history, files
<1>3. CASE Coordinator BY <1>3, CoordinatorKeepsVerdictInv
<1>4. CASE Background \/ DownloadMore BY <1>4, BackgroundKeepsVerdictInv
<1>5. CASE (\E intent \in Intents : Ask(intent)) \/ Activate
  BY <1>1, <1>5, SameIsHarmless, TakeKeepsOp, HarmlessKeepsVerdictInv
  DEF Ask, Activate, workers, history
<1>6. CASE CleanupRemove
  BY <1>1, <1>6, FailureIsHarmless, HarmlessKeepsVerdictInv DEF CleanupRemove, workers, history
<1>7. ASSUME NEW id \in Ids, Worker(id) PROVE VerdictInv'
  BY <1>7, InstallerKeepsVerdictInv, RestarterKeepsVerdictInv DEF Worker, Upgrades
<1>8. ASSUME NEW id \in Ids, WorkerCrash(id) PROVE VerdictInv'
  <2>1. UNCHANGED <<op, upgraded>> BY <1>8 DEF WorkerCrash, files, history
  <2>2. InstallerLeaves(id, "none") \/ UNCHANGED installer BY <1>8 DEF WorkerCrash
  <2> QED BY <1>1, <2>1, <2>2, SameIsHarmless, LeavingKeepsVerdictInv, HarmlessKeepsVerdictInv
<1>9. CASE Expire
  <2>1. Harmless BY <1>1, <1>9 DEF Expire, Record6, Harmless
  <2> QED BY <1>9, <2>1, HarmlessKeepsVerdictInv DEF Expire, workers, history
<1>10. CASE UNCHANGED vars
  BY <1>1, <1>10, SameIsHarmless, HarmlessKeepsVerdictInv DEF vars, files, workers, history
<1> QED BY <1>2, <1>3, <1>4, <1>5, <1>6, <1>7, <1>8, <1>9, <1>10 DEF Next

\* An operation is recorded as installed only if its own worker installed it:
\* neither the late verdict of a superseded worker, nor a reconcile, a crash or
\* a retry makes it so (complete, #reconcileState).
THEOREM VerdictIsItsOwnAlways == Spec => []VerdictIsItsOwn
<1>1. Init => VerdictInv
  BY DEF Init, VerdictInv, VerdictIsItsOwn, NoOp, Idle, Record6, Record3
<1>2. VerdictInv => VerdictIsItsOwn BY DEF VerdictInv
<1> QED BY <1>1, <1>2, NextKeepsVerdictInv, PTL DEF Spec
=============================================================================
