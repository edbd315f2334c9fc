------------------------ MODULE GoalProgress_proofs ------------------------
(***************************************************************************)
(* Theorems of GoalProgress, for every set of goals, checklists and item   *)
(* changes and every bound on the revisions.                               *)
(*                                                                         *)
(* The contract an accepted command returns is named for each type of      *)
(* command; six lemmas show what Apply accepts, one that replay of the     *)
(* event gives the same contract, and the theorems follow by cases.        *)
(*                                                                         *)
(* What is shown of a contract rests on sums over its required objectives: *)
(* the fold of the model is a number, the shares of complete objectives    *)
(* add up to all of it, and so every stored contract has a valid view.     *)
(***************************************************************************)
EXTENDS GoalProgress, FiniteSetTheorems, WellFoundedInduction, TLAPS

Base(c, cmd) == Stamped(c, c.revision + 1, cmd.occurredAt)

Explored(c, cmd) == [Base(c, cmd) EXCEPT !.exploration = cmd.args.exploration]

Changed(c, cmd) == ChangedObjectives(c.objectives, cmd.args.changes, cmd.args.active)

Updated(c, cmd) ==
  [Base(c, cmd) EXCEPT !.objectives = Changed(c, cmd),
                       !.correction = Correction(c, Changed(c, cmd), c.revision + 1),
                       !.phase      = PhaseAfterItems(c, Changed(c, cmd))]

Rescoped(c, cmd) ==
  [Base(c, cmd) EXCEPT !.acceptance    = IF IsTask(c) THEN "none" ELSE @,
                       !.objectives    = cmd.args.objectives,
                       !.phase         = PhaseAfterRescope(c),
                       !.scopeRevision = c.scopeRevision + 1,
                       !.scopeNote     = c.scopeRevision + 1]

Retargeted(c, cmd) ==
  [Base(c, cmd) EXCEPT !.goal          = cmd.args.goal,
                       !.native        = cmd.args.native,
                       !.objectives    = cmd.args.objectives,
                       !.phase = IF cmd.args.native = "paused" THEN "paused" ELSE "active",
                       !.scopeRevision = c.scopeRevision + 1,
                       !.scopeNote     = c.scopeRevision + 1]

Phased(c, cmd) ==
  [Base(c, cmd) EXCEPT !.phase      = cmd.args.phase,
                       !.acceptance = IF IsTask(c) /\ cmd.args.phase = "completed"
                                      THEN cmd.args.verification ELSE @]

Resynced(c, cmd) ==
  [c EXCEPT !.native = cmd.args.native, !.phase = PhaseFromNative(c, cmd.args.native)]

Synced(c, cmd) ==
  [Stamped(Resynced(c, cmd), c.revision + 1, cmd.occurredAt) EXCEPT
     !.phase = IF CompletionConfirmed(Resynced(c, cmd)) THEN "completed" ELSE @]

\* An accepted command passed the checks every command passes.
LEMMA AcceptedIsCurrent ==
  ASSUME NEW c, NEW cmd, Apply(c, cmd).ok
  PROVE  /\ c.version = 2
         /\ cmd.contractId = c.id
         /\ cmd.expectedRevision = c.revision
         /\ ~(cmd.occurredAt < c.updatedAt)
BY DEF Apply, Rejected

\* What passes the final schema check passes it under any error code.
LEMMA CheckedIsAccepted ==
  ASSUME NEW candidate, NEW e, NEW code, NEW other, Checked(candidate, e, code).ok
  PROVE  /\ ValidContract(candidate)
         /\ Checked(candidate, e, code) = Accepted(candidate, e)
         /\ Checked(candidate, e, other) = Accepted(candidate, e)
BY DEF Checked, Rejected, Accepted

\* The result of an accepted command of each type.
LEMMA ExplorationAccepted ==
  ASSUME NEW c, NEW cmd, Apply(c, cmd).ok, cmd.type = "update-exploration"
  PROVE  LET e == Event(c, cmd, "exploration-updated", cmd.args)
         IN  /\ IsTask(c) /\ DOMAIN c.objectives = {}
             /\ Checked(Explored(c, cmd), e, "INVALID_COMMAND").ok
             /\ Apply(c, cmd) = Accepted(Explored(c, cmd), e)
<1> DEFINE e == Event(c, cmd, "exploration-updated", cmd.args)
<1>1. Apply(c, cmd) = ApplyExploration(c, cmd)
  BY DEF Apply, Rejected
<1>2. /\ IsTask(c) /\ DOMAIN c.objectives = {}
      /\ Apply(c, cmd) = Checked(Explored(c, cmd), e, "INVALID_COMMAND")
  BY <1>1 DEF ApplyExploration, Rejected, Explored, Base
<1> QED BY <1>2, CheckedIsAccepted

\* An accepted update of items had no error in its changes.
LEMMA ItemsAccepted ==
  ASSUME NEW c, NEW cmd, Apply(c, cmd).ok, cmd.type = "update-items"
  PROVE  LET e == Event(c, cmd, "items-updated", cmd.args)
         IN  /\ ChangesError(c.objectives, cmd.args.changes, cmd.args.active) = "none"
             /\ ~CorrectionMissing(c, Changed(c, cmd), cmd.source, cmd.args.reason)
             /\ Checked(Updated(c, cmd), e, "INVALID_COMMAND").ok
             /\ Apply(c, cmd) = Accepted(Updated(c, cmd), e)
<1> DEFINE e == Event(c, cmd, "items-updated", cmd.args)
<1>1. Apply(c, cmd) = ApplyItems(c, cmd)
  BY DEF Apply, Rejected
<1>2. /\ ChangesError(c.objectives, cmd.args.changes, cmd.args.active) = "none"
      /\ ~CorrectionMissing(c, Changed(c, cmd), cmd.source, cmd.args.reason)
      /\ Apply(c, cmd) = Checked(Updated(c, cmd), e, "INVALID_COMMAND")
  BY <1>1 DEF ApplyItems, Rejected, Updated, Base, Changed
<1> QED BY <1>2, CheckedIsAccepted

\* An accepted rescope returns the contract with the new checklist.
LEMMA RescopeAccepted ==
  ASSUME NEW c, NEW cmd, Apply(c, cmd).ok, cmd.type = "rescope"
  PROVE  LET e == Event(c, cmd, "rescoped", [objectives    |-> cmd.args.objectives,
                                          scopeRevision |-> c.scopeRevision + 1])
         IN  /\ Checked(Rescoped(c, cmd), e, "INVALID_SCOPE").ok
             /\ Apply(c, cmd) = Accepted(Rescoped(c, cmd), e)
<1> DEFINE e == Event(c, cmd, "rescoped", [objectives    |-> cmd.args.objectives,
                                        scopeRevision |-> c.scopeRevision + 1])
<1>1. Apply(c, cmd) = ApplyRescope(c, cmd)
  BY DEF Apply, Rejected
<1>2. Apply(c, cmd) = Checked(Rescoped(c, cmd), e, "INVALID_SCOPE")
  BY <1>1 DEF ApplyRescope, Rejected, Rescoped, Base
<1> QED BY <1>2, CheckedIsAccepted

\* An accepted retarget names another Goal.
LEMMA RetargetAccepted ==
  ASSUME NEW c, NEW cmd, Apply(c, cmd).ok, cmd.type = "retarget-rescope"
  PROVE  LET e == Event(c, cmd, "retargeted",
                        [goal |-> cmd.args.goal, native |-> cmd.args.native,
                         objectives |-> cmd.args.objectives,
                         scopeRevision |-> c.scopeRevision + 1, reason |-> cmd.args.reason])
         IN  /\ c.goal # NoGoal /\ cmd.args.reason /\ cmd.args.goal # c.goal
             /\ Checked(Retargeted(c, cmd), e, "INVALID_SCOPE").ok
             /\ Apply(c, cmd) = Accepted(Retargeted(c, cmd), e)
<1> DEFINE e == Event(c, cmd, "retargeted",
                      [goal |-> cmd.args.goal, native |-> cmd.args.native,
                       objectives |-> cmd.args.objectives,
                       scopeRevision |-> c.scopeRevision + 1, reason |-> cmd.args.reason])
<1>1. Apply(c, cmd) = ApplyRetarget(c, cmd)
  BY DEF Apply, Rejected
<1>2. /\ c.goal # NoGoal /\ cmd.args.reason /\ cmd.args.goal # c.goal
      /\ Apply(c, cmd) = Checked(Retargeted(c, cmd), e, "INVALID_SCOPE")
  BY <1>1 DEF ApplyRetarget, Rejected, Retargeted, Base
<1> QED BY <1>2, CheckedIsAccepted

\* An accepted phase is one the table allows.
LEMMA PhaseAccepted ==
  ASSUME NEW c, NEW cmd, Apply(c, cmd).ok, cmd.type = "set-phase"
  PROVE  LET e == Event(c, cmd, "phase-changed", cmd.args)
         IN  /\ ValidPhaseTransition(c.phase, cmd.args.phase)
             /\ cmd.args.phase = "completed" => CompletionAllowed(c, cmd.args.verification)
             /\ Checked(Phased(c, cmd), e, "INVALID_COMMAND").ok
             /\ Apply(c, cmd) = Accepted(Phased(c, cmd), e)
<1> DEFINE e == Event(c, cmd, "phase-changed", cmd.args)
<1>1. Apply(c, cmd) = ApplyPhase(c, cmd)
  BY DEF Apply, Rejected
<1>2. /\ ValidPhaseTransition(c.phase, cmd.args.phase)
      /\ cmd.args.phase = "completed" => CompletionAllowed(c, cmd.args.verification)
      /\ Apply(c, cmd) = Checked(Phased(c, cmd), e, "INVALID_COMMAND")
  BY <1>1 DEF ApplyPhase, Rejected, Phased, Base
<1> QED BY <1>2, CheckedIsAccepted

\* An accepted synchronisation is of the same Goal.
LEMMA NativeAccepted ==
  ASSUME NEW c, NEW cmd, Apply(c, cmd).ok, cmd.type = "sync-native-goal"
  PROVE  LET e == Event(c, cmd, "native-synced", cmd.args)
         IN  /\ c.goal # NoGoal /\ cmd.args.goal.text = c.goal.text
             /\ ValidContract(Resynced(c, cmd))
             /\ Checked(Synced(c, cmd), e, "INVALID_COMMAND").ok
             /\ Apply(c, cmd) = Accepted(Synced(c, cmd), e)
<1> DEFINE e == Event(c, cmd, "native-synced", cmd.args)
<1>1. Apply(c, cmd) = ApplyNative(c, cmd)
  BY DEF Apply, Rejected
<1>2. /\ c.goal # NoGoal /\ cmd.args.goal.text = c.goal.text
      /\ ValidContract(Resynced(c, cmd))
      /\ Apply(c, cmd) = Checked(Synced(c, cmd), e, "INVALID_COMMAND")
  BY <1>1 DEF ApplyNative, Rejected, Synced, Resynced
<1> QED BY <1>2, CheckedIsAccepted

\* In short: the contract each type of command returns, and that it is valid.
LEMMA AcceptedContract ==
  ASSUME NEW c, NEW cmd, Apply(c, cmd).ok
  PROVE  LET Returns(new) == Apply(c, cmd).contract = new /\ ValidContract(new)
         IN  /\ cmd.type = "update-exploration" => Returns(Explored(c, cmd))
             /\ cmd.type = "update-items" => Returns(Updated(c, cmd))
             /\ cmd.type = "rescope" => Returns(Rescoped(c, cmd))
             /\ cmd.type = "retarget-rescope" => Returns(Retargeted(c, cmd))
             /\ cmd.type = "set-phase" => Returns(Phased(c, cmd))
             /\ cmd.type = "sync-native-goal" => Returns(Synced(c, cmd))
<1> DEFINE Returns(new) == Apply(c, cmd).contract = new /\ ValidContract(new)
<1>1. ASSUME NEW new, NEW e, NEW code, Checked(new, e, code).ok, Apply(c, cmd) = Accepted(new, e)
      PROVE  Returns(new)
  BY <1>1, CheckedIsAccepted DEF Accepted
<1>2. CASE cmd.type = "update-exploration"
  <2> DEFINE e == Event(c, cmd, "exploration-updated", cmd.args)
  <2>1. Checked(Explored(c, cmd), e, "INVALID_COMMAND").ok /\ Apply(c, cmd) = Accepted(Explored(c, cmd), e)
    BY <1>2, ExplorationAccepted
  <2> HIDE DEF e
  <2>2. Returns(Explored(c, cmd))
    BY <1>1, <2>1
  <2> QED BY <1>2, <2>2
<1>3. CASE cmd.type = "update-items"
  <2> DEFINE e == Event(c, cmd, "items-updated", cmd.args)
  <2>1. Checked(Updated(c, cmd), e, "INVALID_COMMAND").ok /\ Apply(c, cmd) = Accepted(Updated(c, cmd), e)
    BY <1>3, ItemsAccepted
  <2> HIDE DEF e
  <2>2. Returns(Updated(c, cmd))
    BY <1>1, <2>1
  <2> QED BY <1>3, <2>2
<1>4. CASE cmd.type = "rescope"
  <2> DEFINE e == Event(c, cmd, "rescoped", [objectives    |-> cmd.args.objectives,
                                        scopeRevision |-> c.scopeRevision + 1])
  <2>1. Checked(Rescoped(c, cmd), e, "INVALID_SCOPE").ok /\ Apply(c, cmd) = Accepted(Rescoped(c, cmd), e)
    BY <1>4, RescopeAccepted
  <2> HIDE DEF e
  <2>2. Returns(Rescoped(c, cmd))
    BY <1>1, <2>1
  <2> QED BY <1>4, <2>2
<1>5. CASE cmd.type = "retarget-rescope"
  <2> DEFINE e == Event(c, cmd, "retargeted",
                        [goal |-> cmd.args.goal, native |-> cmd.args.native,
                         objectives |-> cmd.args.objectives,
                         scopeRevision |-> c.scopeRevision + 1, reason |-> cmd.args.reason])
  <2>1. Checked(Retargeted(c, cmd), e, "INVALID_SCOPE").ok /\ Apply(c, cmd) = Accepted(Retargeted(c, cmd), e)
    BY <1>5, RetargetAccepted
  <2> HIDE DEF e
  <2>2. Returns(Retargeted(c, cmd))
    BY <1>1, <2>1
  <2> QED BY <1>5, <2>2
<1>6. CASE cmd.type = "set-phase"
  <2> DEFINE e == Event(c, cmd, "phase-changed", cmd.args)
  <2>1. Checked(Phased(c, cmd), e, "INVALID_COMMAND").ok /\ Apply(c, cmd) = Accepted(Phased(c, cmd), e)
    BY <1>6, PhaseAccepted
  <2> HIDE DEF e
  <2>2. Returns(Phased(c, cmd))
    BY <1>1, <2>1
  <2> QED BY <1>6, <2>2
<1>7. CASE cmd.type = "sync-native-goal"
  <2> DEFINE e == Event(c, cmd, "native-synced", cmd.args)
  <2>1. Checked(Synced(c, cmd), e, "INVALID_COMMAND").ok /\ Apply(c, cmd) = Accepted(Synced(c, cmd), e)
    BY <1>7, NativeAccepted
  <2> HIDE DEF e
  <2>2. Returns(Synced(c, cmd))
    BY <1>1, <2>1
  <2> QED BY <1>7, <2>2
<1> QED BY <1>2, <1>3, <1>4, <1>5, <1>6, <1>7

-----------------------------------------------------------------------------
(* Replay agrees with the writer.                                          *)

CommandTypes == {"update-exploration", "update-items", "rescope",
                 "retarget-rescope", "set-phase", "sync-native-goal"}

\* An event that changes a contract is dispatched once it is in sequence.
LEMMA EventIsDispatched ==
  ASSUME NEW c, c # NoContract, NEW e, InSequence(c, e, c.revision + 1)
  PROVE  /\ e.type = "exploration-updated" => Reduce(c, e) = ReplayExploration(c, e)
         /\ e.type = "items-updated"       => Reduce(c, e) = ReplayItems(c, e)
         /\ e.type = "rescoped"            => Reduce(c, e) = ReplayRescope(c, e)
         /\ e.type = "retargeted"          => Reduce(c, e) = ReplayRetarget(c, e)
         /\ e.type = "phase-changed"       => Reduce(c, e) = ReplayPhase(c, e)
         /\ e.type = "native-synced"       => Reduce(c, e) = ReplayNative(c, e)
BY DEF Reduce

\* How each case below ends: replay builds the contract the command accepted.
LEMMA ReplayedAlike ==
  ASSUME NEW c, NEW cmd, NEW new, NEW e, NEW code,
         Checked(new, e, code).ok, Apply(c, cmd) = Accepted(new, e),
         Reduce(c, e) = Replayed(new, e)
  PROVE  Reduce(c, Apply(c, cmd).event) = Apply(c, cmd)
<1>1. Replayed(new, e) = Accepted(new, e)
  BY CheckedIsAccepted DEF Replayed
<1>2. Apply(c, cmd).event = e
  BY DEF Accepted
<1> QED BY <1>1, <1>2

\* The event of an accepted command, replayed on the contract the command was
\* applied to, gives what the command returned.
LEMMA AcceptedIsReplayed ==
  ASSUME NEW c, c # NoContract, NEW cmd, Apply(c, cmd).ok, cmd.type \in CommandTypes
  PROVE  Reduce(c, Apply(c, cmd).event) = Apply(c, cmd)
<1>1. ASSUME NEW type, NEW payload
      PROVE  LET e == Event(c, cmd, type, payload)
             IN  /\ InSequence(c, e, c.revision + 1)
                 /\ e.type = type /\ e.payload = payload /\ e.source = cmd.source
                 /\ Stamped(c, e.revision, e.occurredAt) = Base(c, cmd)
                 /\ e.revision = c.revision + 1 /\ e.occurredAt = cmd.occurredAt
  BY AcceptedIsCurrent DEF InSequence, Event, Base
<1>2. CASE cmd.type = "update-exploration"
  <2> DEFINE e == Event(c, cmd, "exploration-updated", cmd.args)
  <2>1. Reduce(c, e) = ReplayExploration(c, e)
    BY <1>1, EventIsDispatched
  <2>2. /\ e.payload = cmd.args /\ e.source = cmd.source /\ e.revision = c.revision + 1
        /\ Stamped(c, e.revision, e.occurredAt) = Base(c, cmd)
        /\ e.occurredAt = cmd.occurredAt
    BY <1>1
  <2>3. ReplayExploration(c, e) = Replayed(Explored(c, cmd), e)
    <3> HIDE DEF e
    <3> QED BY <1>2, <2>2, ExplorationAccepted DEF ReplayExploration, Explored
  <2>4. Checked(Explored(c, cmd), e, "INVALID_COMMAND").ok /\ Apply(c, cmd) = Accepted(Explored(c, cmd), e)
    BY <1>2, ExplorationAccepted
  <2> HIDE DEF e
  <2> QED BY <2>1, <2>3, <2>4, ReplayedAlike
<1>3. CASE cmd.type = "update-items"
  <2> DEFINE e == Event(c, cmd, "items-updated", cmd.args)
  <2>1. Reduce(c, e) = ReplayItems(c, e)
    BY <1>1, EventIsDispatched
  <2>2. /\ e.payload = cmd.args /\ e.source = cmd.source /\ e.revision = c.revision + 1
        /\ Stamped(c, e.revision, e.occurredAt) = Base(c, cmd)
        /\ e.occurredAt = cmd.occurredAt
    BY <1>1
  <2>3. ReplayItems(c, e) = Replayed(Updated(c, cmd), e)
    <3> HIDE DEF e
    <3> QED BY <1>3, <2>2, ItemsAccepted DEF ReplayItems, Updated, Changed
  <2>4. Checked(Updated(c, cmd), e, "INVALID_COMMAND").ok /\ Apply(c, cmd) = Accepted(Updated(c, cmd), e)
    BY <1>3, ItemsAccepted
  <2> HIDE DEF e
  <2> QED BY <2>1, <2>3, <2>4, ReplayedAlike
<1>4. CASE cmd.type = "rescope"
  <2> DEFINE payload == [objectives |-> cmd.args.objectives, scopeRevision |-> c.scopeRevision + 1]
             e == Event(c, cmd, "rescoped", payload)
  <2>1. Reduce(c, e) = ReplayRescope(c, e)
    BY <1>1, EventIsDispatched
  <2>2. ObjectivesForContract(c, cmd.args.objectives) = cmd.args.objectives
    BY AcceptedIsCurrent DEF ObjectivesForContract
  <2>3. ReplayRescope(c, e) = Replayed(Rescoped(c, cmd), e)
    <3>1. /\ e.payload.objectives = cmd.args.objectives
          /\ e.payload.scopeRevision = c.scopeRevision + 1
          /\ Stamped(c, e.revision, e.occurredAt) = Base(c, cmd)
      BY <1>1
    <3> HIDE DEF e
    <3> QED BY <2>2, <3>1 DEF ReplayRescope, Rescoped
  <2>4. Checked(Rescoped(c, cmd), e, "INVALID_SCOPE").ok /\ Apply(c, cmd) = Accepted(Rescoped(c, cmd), e)
    BY <1>4, RescopeAccepted
  <2> HIDE DEF e
  <2> QED BY <2>1, <2>3, <2>4, ReplayedAlike
<1>5. CASE cmd.type = "retarget-rescope"
  <2> DEFINE payload == [goal |-> cmd.args.goal, native |-> cmd.args.native,
                         objectives |-> cmd.args.objectives,
                         scopeRevision |-> c.scopeRevision + 1, reason |-> cmd.args.reason]
             e == Event(c, cmd, "retargeted", payload)
  <2>1. Reduce(c, e) = ReplayRetarget(c, e)
    BY <1>1, EventIsDispatched
  <2>2. /\ e.payload.goal = cmd.args.goal /\ e.payload.native = cmd.args.native
        /\ e.payload.objectives = cmd.args.objectives /\ e.payload.reason = cmd.args.reason
        /\ e.payload.scopeRevision = c.scopeRevision + 1
        /\ Stamped(c, e.revision, e.occurredAt) = Base(c, cmd)
    BY <1>1
  <2>3. ReplayRetarget(c, e) = Replayed(Retargeted(c, cmd), e)
    <3> HIDE DEF e
    <3>1. /\ c.version = 2 /\ c.goal # NoGoal
          /\ e.payload.reason /\ e.payload.goal # c.goal
      BY <1>5, <2>2, RetargetAccepted, AcceptedIsCurrent
    <3> QED BY <2>2, <3>1 DEF ReplayRetarget, Retargeted
  <2>4. Checked(Retargeted(c, cmd), e, "INVALID_SCOPE").ok /\ Apply(c, cmd) = Accepted(Retargeted(c, cmd), e)
    BY <1>5, RetargetAccepted
  <2> HIDE DEF e
  <2> QED BY <2>1, <2>3, <2>4, ReplayedAlike
<1>6. CASE cmd.type = "set-phase"
  <2> DEFINE e == Event(c, cmd, "phase-changed", cmd.args)
  <2>1. Reduce(c, e) = ReplayPhase(c, e)
    BY <1>1, EventIsDispatched
  <2>2. /\ e.payload = cmd.args /\ e.source = cmd.source /\ e.revision = c.revision + 1
        /\ Stamped(c, e.revision, e.occurredAt) = Base(c, cmd)
        /\ e.occurredAt = cmd.occurredAt
    BY <1>1
  <2>3. ReplayPhase(c, e) = Replayed(Phased(c, cmd), e)
    <3> HIDE DEF e
    <3> QED BY <1>6, <2>2, PhaseAccepted DEF ReplayPhase, Phased
  <2>4. Checked(Phased(c, cmd), e, "INVALID_COMMAND").ok /\ Apply(c, cmd) = Accepted(Phased(c, cmd), e)
    BY <1>6, PhaseAccepted
  <2> HIDE DEF e
  <2> QED BY <2>1, <2>3, <2>4, ReplayedAlike
<1>7. CASE cmd.type = "sync-native-goal"
  <2> DEFINE e == Event(c, cmd, "native-synced", cmd.args)
  <2>1. Reduce(c, e) = ReplayNative(c, e)
    BY <1>1, EventIsDispatched
  <2>2. /\ e.payload = cmd.args /\ e.source = cmd.source /\ e.revision = c.revision + 1
        /\ Stamped(c, e.revision, e.occurredAt) = Base(c, cmd)
        /\ e.occurredAt = cmd.occurredAt
    BY <1>1
  <2>3. ReplayNative(c, e) = Replayed(Synced(c, cmd), e)
    <3> HIDE DEF e
    <3>1. /\ c.goal # NoGoal /\ e.payload.goal.text = c.goal.text
          /\ ValidContract(Resynced(c, cmd))
      BY <1>7, <2>2, NativeAccepted
    <3>2. [c EXCEPT !.native = e.payload.native, !.phase = PhaseFromNative(c, e.payload.native)]
            = Resynced(c, cmd)
      BY <2>2 DEF Resynced
    <3> QED BY <2>2, <3>1, <3>2 DEF ReplayNative, Synced
  <2>4. Checked(Synced(c, cmd), e, "INVALID_COMMAND").ok /\ Apply(c, cmd) = Accepted(Synced(c, cmd), e)
    BY <1>7, NativeAccepted
  <2> HIDE DEF e
  <2> QED BY <2>1, <2>3, <2>4, ReplayedAlike
<1> QED BY <1>2, <1>3, <1>4, <1>5, <1>6, <1>7 DEF CommandTypes

\* An event whose replay gives what was written keeps log and writer together.
LEMMA WriteAgrees ==
  ASSUME ReplayAgrees, NEW new, NEW e, Write(new, e),
         Reduce(contract, e).ok, Reduce(contract, e).contract = new
  PROVE  ReplayAgrees'
BY DEF ReplayAgrees, Write, Recorded

\* Each of the six command actions submits a command of its type.
LEMMA CommandSteps ==
  ASSUME NEW at \in Times,
         \/ UpdateExploration(at) \/ UpdateItems(at) \/ Rescope(at)
         \/ Retarget(at) \/ SetPhase(at) \/ SyncNativeGoal(at)
  PROVE  /\ contract # NoContract
         /\ \E cmd : cmd.type \in CommandTypes /\ Submit(cmd)
<1>1. ASSUME NEW type, NEW source, NEW args, NEW cmd \in Addressed(type, at, source, args)
      PROVE  cmd.type = type
  BY DEF Addressed
<1>2. CASE UpdateExploration(at)
  BY <1>1, <1>2 DEF UpdateExploration, CommandTypes, Open
<1>3. CASE UpdateItems(at)
  BY <1>1, <1>3 DEF UpdateItems, CommandTypes, Open
<1>4. CASE Rescope(at)
  BY <1>1, <1>4 DEF Rescope, CommandTypes, Open
<1>5. CASE Retarget(at)
  BY <1>1, <1>5 DEF Retarget, CommandTypes, Open
<1>6. CASE SetPhase(at)
  BY <1>1, <1>6 DEF SetPhase, CommandTypes, Open
<1>7. CASE SyncNativeGoal(at)
  BY <1>1, <1>7 DEF SyncNativeGoal, CommandTypes, Open
<1> QED BY <1>2, <1>3, <1>4, <1>5, <1>6, <1>7

-----------------------------------------------------------------------------
(* Type correctness.                                                       *)

\* Objectives and items that stay where they are stay owned as they were.
LEMMA SameTargets ==
  ASSUME NEW old, IsChecklist(old), NEW new,
         new = [k \in DOMAIN old |-> new[k]],
         \A k \in DOMAIN old : IsObjective(new[k]) /\ DOMAIN new[k].items = DOMAIN old[k].items
  PROVE  IsChecklist(new)
BY DEF IsChecklist

\* Updating items keeps a checklist a checklist.
LEMMA ChangedIsChecklist ==
  ASSUME NEW objectives, IsChecklist(objectives), NEW active,
         NEW changes, \A ch \in changes : ch.status \in MutableStatus
  PROVE  /\ DOMAIN ChangedObjectives(objectives, changes, active) = DOMAIN objectives
         /\ IsChecklist(ChangedObjectives(objectives, changes, active))
<1> DEFINE new == ChangedObjectives(objectives, changes, active)
<1>1. DOMAIN new = DOMAIN objectives
  BY DEF ChangedObjectives
<1>2. ASSUME NEW t, NEW unchanged \in ItemStatus
      PROVE  ChangedStatus(changes, t, unchanged) \in ItemStatus
  <2>1. CASE \E ch \in changes : ch.target = t
    <3> DEFINE chosen == CHOOSE ch \in changes : ch.target = t
    <3>1. chosen \in changes
      BY <2>1
    <3> QED BY <2>1, <3>1 DEF ChangedStatus, MutableStatus
  <2>2. CASE ~\E ch \in changes : ch.target = t
    BY <1>2, <2>2 DEF ChangedStatus
  <2> QED BY <2>1, <2>2
<1>3. ASSUME NEW k \in DOMAIN objectives
      PROVE  IsObjective(new[k]) /\ DOMAIN new[k].items = DOMAIN objectives[k].items
  <2> DEFINE o == objectives[k]
             status == ChangedStatus(changes, k, NextObjectiveStatus(o, k, active))
             items == [i \in DOMAIN o.items |-> ChangedStatus(changes, i, o.items[i])]
  <2>1. IsObjective(o)
    BY DEF IsChecklist
  <2>2. new[k] = [o EXCEPT !.status = status, !.items = items]
    BY DEF ChangedObjectives
  <2>3. new[k] = [requirement |-> o.requirement, bps |-> o.bps, status |-> status, items |-> items]
    BY <2>1, <2>2 DEF IsObjective
  <2>4. NextObjectiveStatus(o, k, active) \in ItemStatus
    BY <2>1 DEF NextObjectiveStatus, IsObjective, ItemStatus
  <2>5. status \in ItemStatus /\ items \in [DOMAIN o.items -> ItemStatus]
    BY <1>2, <2>1, <2>4 DEF IsObjective
  <2>6. DOMAIN items = DOMAIN o.items
    OBVIOUS
  <2>7. IsFiniteSet(DOMAIN o.items) /\ o.requirement \in {"required", "optional"}
        /\ o.bps \in 0..BpsTotal
    BY <2>1, Zenon DEF IsObjective
  <2>8. /\ new[k].requirement = o.requirement /\ new[k].bps = o.bps
        /\ new[k].status = status /\ new[k].items = items
    BY <2>3
  <2> HIDE DEF items, status, new, o
  <2>9. IsObjective(new[k])
    BY <2>3, <2>5, <2>6, <2>7, <2>8 DEF IsObjective
  <2> QED BY <2>6, <2>8, <2>9 DEF o
<1>4. new = [k \in DOMAIN objectives |-> new[k]]
  BY DEF ChangedObjectives
<1> HIDE DEF new
<1>5. IsChecklist(new)
  BY <1>3, <1>4, SameTargets
<1> QED BY <1>1, <1>5 DEF new

\* Declaring every objective required keeps a checklist a checklist.
LEMMA MadeRequired ==
  ASSUME NEW old, IsChecklist(old)
  PROVE  IsChecklist([k \in DOMAIN old |-> [old[k] EXCEPT !.requirement = "required"]])
<1> DEFINE new == [k \in DOMAIN old |-> [old[k] EXCEPT !.requirement = "required"]]
<1>1. ASSUME NEW k \in DOMAIN old
      PROVE  IsObjective(new[k]) /\ DOMAIN new[k].items = DOMAIN old[k].items
  <2> DEFINE o == old[k]
  <2>1. IsObjective(o)
    BY DEF IsChecklist
  <2>2. new[k] = [requirement |-> "required", bps |-> o.bps, status |-> o.status,
                  items |-> o.items]
    BY <2>1 DEF IsObjective
  <2> QED BY <2>1, <2>2 DEF IsObjective
<1>2. new = [k \in DOMAIN old |-> new[k]]
  OBVIOUS
<1> HIDE DEF new
<1>3. IsChecklist(new)
  BY <1>1, <1>2, SameTargets
<1> QED BY <1>3 DEF new

\* A new contract has its type as soon as its checklist does.
LEMMA NewContractIsTyped ==
  ASSUME NEW id \in Ids, NEW at \in Times, NEW new \in FirstContracts(id, at)
  PROVE  IsContract(new) /\ new.id = id /\ new.revision = 1
<1>1. ASSUME NEW g \in Goals \cup {NoGoal}, NEW n \in NativeStatus \cup {"none"}, NEW s \in Scopes
      PROVE  LET c == NewContract(id, g, n, s, at)
             IN  IsContract(c) /\ c.id = id /\ c.revision = 1
  <2> DEFINE c == NewContract(id, g, n, s, at)
  <2>1. DOMAIN c = {"version", "id", "kind", "goal", "native", "exploration", "acceptance",
                    "phase", "revision", "scopeRevision", "scopeNote", "correction",
                    "objectives", "updatedAt"}
    BY DEF NewContract
  <2>2. IsChecklist(s)
    BY ScopesAssumption
  <2> QED BY <2>1, <2>2, RevisionAssumption DEF NewContract, IsContract, Verification, Phase
<1>2. \E g \in Goals \cup {NoGoal}, n \in NativeStatus \cup {"none"}, s \in Scopes :
        new = NewContract(id, g, n, s, at)
  BY DEF FirstContracts
<1> QED BY <1>1, <1>2

\* A valid contract one revision on keeps its type.
LEMMA StampedIsTyped ==
  ASSUME NEW c, IsContract(c), c.revision < MaxRevision, NEW at \in Times
  PROVE  LET new == Stamped(c, c.revision + 1, at)
         IN  IsContract(new) /\ new.revision = c.revision + 1
               /\ new.objectives = c.objectives /\ new.scopeRevision = c.scopeRevision
               /\ new.scopeNote = c.scopeNote /\ new.correction = c.correction
BY RevisionAssumption DEF Stamped, IsContract

\* What a command writes passed the schema, and has its type.
LEMMA WrittenIsValid ==
  ASSUME NEW cmd, cmd.type \in CommandTypes, Submit(cmd)
  PROVE  /\ Apply(contract, cmd).ok
         /\ contract' = Apply(contract, cmd).contract
         /\ ValidContract(contract')
         /\ cmd.occurredAt \in Times /\ Open /\ IsContract(contract)
              => IsContract(Base(contract, cmd))
<1>1. Apply(contract, cmd).ok /\ contract' = Apply(contract, cmd).contract
  BY DEF Submit, Write
<1>2. ValidContract(Apply(contract, cmd).contract)
  BY <1>1, AcceptedContract DEF CommandTypes
<1>3. cmd.occurredAt \in Times /\ Open /\ IsContract(contract) => IsContract(Base(contract, cmd))
  BY StampedIsTyped DEF Base, Open
<1> QED BY <1>1, <1>2, <1>3

\* The command actions keep the type invariant.
LEMMA CommandsKeepType ==
  ASSUME TypeOK, NEW at \in Times,
         \/ UpdateExploration(at) \/ UpdateItems(at) \/ Rescope(at)
         \/ Retarget(at) \/ SetPhase(at) \/ SyncNativeGoal(at)
  PROVE  TypeOK'
<1>1. Open /\ contract # NoContract /\ IsContract(contract) /\ ValidContract(contract)
  BY DEF UpdateExploration, UpdateItems, Rescope, Retarget, SetPhase, SyncNativeGoal, Open, TypeOK
<1>2. ASSUME NEW type, NEW source, NEW args, NEW cmd \in Addressed(type, at, source, args)
      PROVE  cmd.type = type /\ cmd.occurredAt = at /\ cmd.args = args
  BY DEF Addressed
<1>3. CASE UpdateExploration(at)
  <2>1. PICK x \in {"none", "found"} :
          \E cmd \in Addressed("update-exploration", at, "model", [exploration |-> x]) : Submit(cmd)
    BY <1>3 DEF UpdateExploration
  <2>2. PICK cmd \in Addressed("update-exploration", at, "model", [exploration |-> x]) : Submit(cmd)
    BY <2>1
  <2>3. cmd.type = "update-exploration" /\ cmd.occurredAt = at /\ cmd.args.exploration = x
    BY <1>2
  <2>4. /\ contract' = Explored(contract, cmd)
        /\ ValidContract(contract') /\ IsContract(Base(contract, cmd))
    BY <1>1, <2>2, <2>3, WrittenIsValid, AcceptedContract DEF CommandTypes
  <2>5. IsContract(contract')
    BY <2>3, <2>4 DEF Explored, IsContract
  <2> QED BY <2>4, <2>5 DEF TypeOK
<1>4. CASE UpdateItems(at)
  <2>1. PICK source \in {"model", "user"}, changes \in ChangeSets, reason \in BOOLEAN,
             active \in {"keep", "unset"} \cup DOMAIN contract.objectives :
          \E cmd \in Addressed("update-items", at, source,
                     [changes |-> changes, active |-> active, reason |-> reason]) : Submit(cmd)
    BY <1>4 DEF UpdateItems
  <2>2. PICK cmd \in Addressed("update-items", at, source,
                     [changes |-> changes, active |-> active, reason |-> reason]) : Submit(cmd)
    BY <2>1
  <2>3. /\ cmd.type = "update-items" /\ cmd.occurredAt = at
        /\ cmd.args.changes = changes /\ cmd.args.active = active
    BY <1>2
  <2>4. /\ contract' = Updated(contract, cmd)
        /\ ValidContract(contract') /\ IsContract(Base(contract, cmd))
        /\ Base(contract, cmd).revision = contract.revision + 1
    BY <1>1, <2>2, <2>3, WrittenIsValid, AcceptedContract, StampedIsTyped DEF CommandTypes, Base, Open
  <2>5. IsChecklist(Changed(contract, cmd))
    BY <1>1, <2>3, ChangesAssumption, ChangedIsChecklist DEF Changed, IsContract
  <2>6. PhaseAfterItems(contract, Changed(contract, cmd)) \in Phase
    BY <1>1 DEF PhaseAfterItems, IsContract, Phase
  <2>7. Correction(contract, Changed(contract, cmd), contract.revision + 1) \in 0..MaxRevision
    BY <1>1, RevisionAssumption DEF Correction, IsContract, Open
  <2>8. IsContract(contract')
    BY <2>4, <2>5, <2>6, <2>7 DEF Updated, IsContract
  <2> QED BY <2>4, <2>8 DEF TypeOK
<1>5. CASE Rescope(at)
  <2>1. PICK s \in Scopes, reason \in BOOLEAN :
          \E cmd \in Addressed("rescope", at, "model", [objectives |-> s, reason |-> reason]) :
            Submit(cmd)
    BY <1>5 DEF Rescope
  <2>2. PICK cmd \in Addressed("rescope", at, "model", [objectives |-> s, reason |-> reason]) :
          Submit(cmd)
    BY <2>1
  <2>3. cmd.type = "rescope" /\ cmd.occurredAt = at /\ cmd.args.objectives = s
    BY <1>2
  <2>4. /\ contract' = Rescoped(contract, cmd)
        /\ ValidContract(contract') /\ IsContract(Base(contract, cmd))
    BY <1>1, <2>2, <2>3, WrittenIsValid, AcceptedContract DEF CommandTypes
  <2>5. contract.scopeRevision + 1 \in 0..MaxRevision
    BY <1>1, RevisionAssumption DEF ValidContract, IsContract, Open
  <2>6. IsChecklist(s) /\ PhaseAfterRescope(contract) \in Phase
    BY ScopesAssumption DEF PhaseAfterRescope, Phase
  <2>7. IsContract(contract')
    BY <2>3, <2>4, <2>5, <2>6 DEF Rescoped, IsContract, Verification
  <2> QED BY <2>4, <2>7 DEF TypeOK
<1>6. CASE Retarget(at)
  <2>1. PICK g \in Goals, n \in NativeStatus, s \in Scopes, reason \in BOOLEAN :
          \E cmd \in Addressed("retarget-rescope", at, "system",
                     [goal |-> g, native |-> n, objectives |-> s, reason |-> reason]) : Submit(cmd)
    BY <1>6 DEF Retarget
  <2>2. PICK cmd \in Addressed("retarget-rescope", at, "system",
                     [goal |-> g, native |-> n, objectives |-> s, reason |-> reason]) : Submit(cmd)
    BY <2>1
  <2>3. /\ cmd.type = "retarget-rescope" /\ cmd.occurredAt = at
        /\ cmd.args.objectives = s /\ cmd.args.goal = g /\ cmd.args.native = n
    BY <1>2
  <2>4. /\ contract' = Retargeted(contract, cmd)
        /\ ValidContract(contract') /\ IsContract(Base(contract, cmd))
    BY <1>1, <2>2, <2>3, WrittenIsValid, AcceptedContract DEF CommandTypes
  <2>5. contract.scopeRevision + 1 \in 0..MaxRevision
    BY <1>1, RevisionAssumption DEF ValidContract, IsContract, Open
  <2>6. IsChecklist(s)
    BY ScopesAssumption
  <2>7. IsContract(contract')
    BY <2>3, <2>4, <2>5, <2>6 DEF Retargeted, IsContract, Phase
  <2> QED BY <2>4, <2>7 DEF TypeOK
<1>7. CASE SetPhase(at)
  <2>1. PICK p \in Phase, v \in Verification :
          \E cmd \in Addressed("set-phase", at, "model", [phase |-> p, verification |-> v]) :
            Submit(cmd)
    BY <1>7 DEF SetPhase
  <2>2. PICK cmd \in Addressed("set-phase", at, "model", [phase |-> p, verification |-> v]) :
          Submit(cmd)
    BY <2>1
  <2>3. /\ cmd.type = "set-phase" /\ cmd.occurredAt = at
        /\ cmd.args.phase = p /\ cmd.args.verification = v
    BY <1>2
  <2>4. /\ contract' = Phased(contract, cmd)
        /\ ValidContract(contract') /\ IsContract(Base(contract, cmd))
    BY <1>1, <2>2, <2>3, WrittenIsValid, AcceptedContract DEF CommandTypes
  <2>5. IsContract(contract')
    BY <2>3, <2>4 DEF Phased, IsContract
  <2> QED BY <2>4, <2>5 DEF TypeOK
<1>8. CASE SyncNativeGoal(at)
  <2>1. PICK g \in Goals, n \in NativeStatus :
          \E cmd \in Addressed("sync-native-goal", at, "system", [goal |-> g, native |-> n]) :
            Submit(cmd)
    BY <1>8 DEF SyncNativeGoal
  <2>2. PICK cmd \in Addressed("sync-native-goal", at, "system", [goal |-> g, native |-> n]) :
          Submit(cmd)
    BY <2>1
  <2>3. cmd.type = "sync-native-goal" /\ cmd.occurredAt = at /\ cmd.args.native = n
    BY <1>2
  <2>4. contract' = Synced(contract, cmd) /\ ValidContract(contract')
    BY <1>1, <2>2, <2>3, WrittenIsValid, AcceptedContract DEF CommandTypes
  <2>5. PhaseFromNative(contract, n) \in Phase
    BY <1>1 DEF PhaseFromNative, IsContract, Phase
  <2>6. IsContract(Resynced(contract, cmd)) /\ Resynced(contract, cmd).revision = contract.revision
    BY <1>1, <2>3, <2>5 DEF Resynced, IsContract
  <2>7. IsContract(Stamped(Resynced(contract, cmd), contract.revision + 1, at))
    BY <1>1, <2>6, StampedIsTyped DEF Open
  <2>8. IsContract(contract')
    BY <2>3, <2>4, <2>7 DEF Synced, IsContract, Phase
  <2> QED BY <2>4, <2>8 DEF TypeOK
<1> QED BY <1>3, <1>4, <1>5, <1>6, <1>7, <1>8

\* What is written as a whole contract was checked or is carried by a typed one.
LEMMA WholeContractsKeepType ==
  ASSUME TypeOK, NEW at \in Times,
         \/ \E id \in Ids : Initialize(id, at) \/ Legacy(id, at)
         \/ \E s \in Scopes : LegacyRescope(s, at)
         \/ \E g \in Goals, n \in NativeStatus : Migrate(g, n, at)
         \/ \E id \in Ids, detached \in BOOLEAN : Replace(id, at, detached)
  PROVE  TypeOK'
<1>1. ASSUME NEW id \in Ids, Initialize(id, at) PROVE TypeOK'
  BY <1>1, NewContractIsTyped DEF Initialize, TypeOK, Found, Write
<1>2. ASSUME NEW id \in Ids, Legacy(id, at) PROVE TypeOK'
  <2>1. PICK g \in Goals, n \in NativeStatus, s \in Scopes, p \in Phase :
          LET old == [NewContract(id, g, n, s, at) EXCEPT !.version = 1, !.phase = p]
          IN  ValidContract(old) /\ contract' = old
    BY <1>2 DEF Legacy, Found, Write
  <2>2. NewContract(id, g, n, s, at) \in FirstContracts(id, at)
    BY DEF FirstContracts
  <2>3. IsContract(NewContract(id, g, n, s, at))
    BY <2>2, NewContractIsTyped
  <2>4. IsContract(contract')
    BY <2>1, <2>3 DEF IsContract
  <2> QED BY <2>1, <2>4 DEF TypeOK
<1>3. ASSUME NEW s \in Scopes, LegacyRescope(s, at) PROVE TypeOK'
  <2> DEFINE e == [Carrying("rescoped", contract, at,
                            [objectives |-> s, scopeRevision |-> contract.scopeRevision + 1])
                     EXCEPT !.revision = @ + 1]
             new == [Stamped(contract, e.revision, e.occurredAt) EXCEPT
                       !.acceptance    = IF IsTask(contract) THEN "none" ELSE @,
                       !.objectives    = ObjectivesForContract(contract, s),
                       !.phase         = PhaseAfterRescope(contract),
                       !.scopeRevision = e.payload.scopeRevision,
                       !.scopeNote     = e.payload.scopeRevision]
  <2>1. /\ contract # NoContract /\ contract.version = 1 /\ contract.revision < MaxRevision
        /\ Reduce(contract, e).ok /\ contract' = Reduce(contract, e).contract
    BY <1>3 DEF LegacyRescope, Write
  <2>2. /\ e.type = "rescoped" /\ e.occurredAt = at /\ e.revision = contract.revision + 1
        /\ e.payload.objectives = s /\ e.payload.scopeRevision = contract.scopeRevision + 1
    BY DEF Carrying
  <2> HIDE DEF e
  <2>3. Reduce(contract, e) = ReplayRescope(contract, e)
    BY <2>1, <2>2 DEF Reduce, Rejected
  <2>4. Checked(new, e, "INVALID_SCOPE").ok /\ ReplayRescope(contract, e) = Checked(new, e, "INVALID_SCOPE")
    BY <2>1, <2>2, <2>3 DEF ReplayRescope, Replayed, Rejected
  <2>5. contract' = new /\ ValidContract(new)
    BY <2>1, <2>3, <2>4, CheckedIsAccepted DEF Accepted
  <2>6. IsContract(Stamped(contract, e.revision, e.occurredAt))
    BY <2>1, <2>2, StampedIsTyped DEF TypeOK
  <2>7. IsChecklist(ObjectivesForContract(contract, s))
    <3>1. ObjectivesForContract(contract, s)
            = [k \in DOMAIN s |-> [s[k] EXCEPT !.requirement = "required"]]
      BY <2>1 DEF ObjectivesForContract
    <3> QED BY <3>1, ScopesAssumption, MadeRequired
  <2>8. contract.scopeRevision + 1 \in 0..MaxRevision /\ PhaseAfterRescope(contract) \in Phase
    BY <2>1, RevisionAssumption DEF TypeOK, ValidContract, IsContract, PhaseAfterRescope, Phase
  <2>9. IsContract(new)
    BY <2>2, <2>6, <2>7, <2>8 DEF IsContract, Verification
  <2> QED BY <2>5, <2>9 DEF TypeOK
<1>4. ASSUME NEW g \in Goals, NEW n \in NativeStatus, Migrate(g, n, at) PROVE TypeOK'
  <2>1. /\ contract # NoContract /\ contract' = Migrated(contract, g, n)
        /\ ValidContract(contract')
    BY <1>4 DEF Migrate, Migratable, Write
  <2> DEFINE required == [k \in DOMAIN contract.objectives |->
                            [contract.objectives[k] EXCEPT !.requirement = "required"]]
  <2>2. IsChecklist(required)
    <3>1. IsChecklist(contract.objectives)
      BY <2>1 DEF TypeOK, IsContract
    <3> QED BY <3>1, MadeRequired
  <2> HIDE DEF required
  <2>3. IsContract(contract')
    BY <2>1, <2>2 DEF Migrated, IsContract, Phase, TypeOK, required
  <2> QED BY <2>1, <2>3 DEF TypeOK
<1>5. ASSUME NEW id \in Ids, NEW detached \in BOOLEAN, Replace(id, at, detached) PROVE TypeOK'
  <2>1. PICK new \in FirstContracts(id, at) :
          LET e == Carrying("replaced", new, at,
                            [contract |-> new, previousId |-> contract.id,
                             previousRevision |-> contract.revision,
                             previousDetached |-> detached])
          IN  ValidContract(new) /\ Reduce(contract, e).ok /\ contract' = Reduce(contract, e).contract
    BY <1>5 DEF Replace, Found, Write
  <2> DEFINE e == Carrying("replaced", new, at,
                           [contract |-> new, previousId |-> contract.id,
                            previousRevision |-> contract.revision,
                            previousDetached |-> detached])
  <2>2. e.type = "replaced" /\ e.payload.contract = new
    BY DEF Carrying
  <2>3. contract # NoContract
    BY <1>5 DEF Replace
  <2>4. Reduce(contract, e).ok /\ contract' = Reduce(contract, e).contract
    BY <2>1
  <2> HIDE DEF e
  <2>5. contract' = new
    BY <2>2, <2>3, <2>4 DEF Reduce, ReplayReplaced, Rejected, Accepted
  <2> QED BY <2>1, <2>5, NewContractIsTyped DEF TypeOK
<1> QED BY <1>1, <1>2, <1>3, <1>4, <1>5

(***************************************************************************)
(* Every contract the store accepts is well formed and passes the schema.  *)
(***************************************************************************)
THEOREM TypeCorrect == Spec => []TypeOK
<1>1. Init => TypeOK
  BY DEF Init, TypeOK
<1>2. TypeOK /\ [Next]_vars => TypeOK'
  BY CommandsKeepType, WholeContractsKeepType DEF Next, vars, TypeOK
<1> QED BY <1>1, <1>2, PTL DEF Spec

(***************************************************************************)
(* While the clock does not run backwards, the contract the writer holds   *)
(* is always the one replay of the log gives.                              *)
(***************************************************************************)
THEOREM ReplayAgreesWithWriter ==
  ASSUME ~ClockMayStepBack
  PROVE  Spec => []ReplayAgrees
<1>1. Init => ReplayAgrees
  BY DEF Init, ReplayAgrees
<1>2. ReplayAgrees /\ [Next]_vars => ReplayAgrees'
  <2> SUFFICES ASSUME ReplayAgrees, [Next]_vars PROVE ReplayAgrees'
    OBVIOUS
  <2>1. CASE UNCHANGED vars
    BY <2>1 DEF vars, ReplayAgrees
  <2>2. ASSUME NEW at \in Times, NEW id \in Ids, Initialize(id, at) PROVE ReplayAgrees'
    <3>1. PICK new \in FirstContracts(id, at) :
            Write(new, Carrying("initialized", new, at, [contract |-> new]))
      BY <2>2 DEF Initialize, Found
    <3>2. Reduce(contract, Carrying("initialized", new, at, [contract |-> new])).ok
          /\ Reduce(contract, Carrying("initialized", new, at, [contract |-> new])).contract = new
      BY <2>2 DEF Initialize, Reduce, ReplayInitialized, Carrying, Accepted
    <3> QED BY <3>1, <3>2, WriteAgrees
  <2>3. ASSUME NEW at \in Times, NEW id \in Ids, Legacy(id, at) PROVE ReplayAgrees'
    <3>1. PICK old :
            Write(old, Carrying("initialized", old, at, [contract |-> old]))
      BY <2>3 DEF Legacy, Found
    <3>2. Reduce(contract, Carrying("initialized", old, at, [contract |-> old])).ok
          /\ Reduce(contract, Carrying("initialized", old, at, [contract |-> old])).contract = old
      BY <2>3 DEF Legacy, Reduce, ReplayInitialized, Carrying, Accepted
    <3> QED BY <3>1, <3>2, WriteAgrees
  <2>4. ASSUME NEW at \in Times, NEW s \in Scopes, LegacyRescope(s, at) PROVE ReplayAgrees'
    BY <2>4, WriteAgrees DEF LegacyRescope
  <2>5. ASSUME NEW at \in Times, NEW g \in Goals, NEW n \in NativeStatus, Migrate(g, n, at)
        PROVE  ReplayAgrees'
    <3> DEFINE new == Migrated(contract, g, n)
               e == Carrying("migrated", new, at, [contract |-> new])
    <3>1. /\ new.id = contract.id /\ new.revision = contract.revision
          /\ contract # NoContract /\ contract.version = 1
          /\ ~(at < contract.updatedAt)
      BY <2>5 DEF Migrate, Migrated, Migratable
    <3>2. Reduce(contract, e) = Accepted(new, e)
      BY <3>1 DEF Reduce, ReplayMigrated, InSequence, Carrying
    <3>3. Write(new, e)
      BY <2>5 DEF Migrate
    <3> QED BY <3>2, <3>3, WriteAgrees DEF Accepted
  <2>6. ASSUME NEW at \in Times, NEW id \in Ids, NEW detached \in BOOLEAN,
               Replace(id, at, detached)
        PROVE  ReplayAgrees'
    BY <2>6, WriteAgrees DEF Replace, Found
  <2>7. ASSUME NEW cmd, contract # NoContract, cmd.type \in CommandTypes, Submit(cmd)
        PROVE  ReplayAgrees'
    <3>1. Apply(contract, cmd).ok
          /\ Write(Apply(contract, cmd).contract, Apply(contract, cmd).event)
      BY <2>7 DEF Submit
    <3>2. Reduce(contract, Apply(contract, cmd).event) = Apply(contract, cmd)
      BY <2>7, <3>1, AcceptedIsReplayed
    <3> QED BY <3>1, <3>2, WriteAgrees
  <2> QED
    BY <2>1, <2>2, <2>3, <2>4, <2>5, <2>6, <2>7, CommandSteps DEF Next
<1> QED BY <1>1, <1>2, PTL DEF Spec

-----------------------------------------------------------------------------
(* Completion.                                                             *)

\* A checklist that is not empty has a required result: the weights of none
\* would add up to nothing.
LEMMA ScopeRequiresSomething ==
  ASSUME NEW objectives, NEW version, ValidScope(objectives, version), DOMAIN objectives # {}
  PROVE  Required(objectives) # {}
<1> SUFFICES ASSUME Required(objectives) = {} PROVE FALSE
  OBVIOUS
<1> DEFINE S == Required(objectives)
           Weight(k) == objectives[k].bps
           Unfolds(iter) ==
             iter = [s \in SUBSET S |->
                       IF s = {} THEN 0
                       ELSE LET x == CHOOSE x \in s : TRUE IN Weight(x) + iter[s \ {x}]]
<1>1. Unfolds([s \in SUBSET S |-> 0])
  OBVIOUS
<1>2. Unfolds(CHOOSE iter : Unfolds(iter))
  BY <1>1
<1>3. MapThenSumSet(Weight, S) = (CHOOSE iter : Unfolds(iter))[S]
  BY DEF MapThenSumSet, MapThenFoldSet
<1>4. MapThenSumSet(Weight, S) = 0
  BY <1>2, <1>3
<1>5. MapThenSumSet(Weight, S) = 10000
  BY DEF ValidScope, BpsTotal
<1> QED BY <1>4, <1>5

\* A result the schema calls done has, in whole basis points, its full share.
LEMMA DoneIsFullShare ==
  ASSUME NEW o, IsObjective(o), o.status # "cancelled", ObjectiveDone(o)
  PROVE  ObjectiveBps(o) = BpsTotal
<1>1. ASSUME NEW n \in Nat \ {0} PROVE (10000 * n) \div n = 10000
  OBVIOUS
<1>2. CASE CountableItems(o) = {}
  <2>1. Completion(o) = [completed |-> 1, countable |-> 1]
    BY <1>2 DEF ObjectiveDone, Completion
  <2> QED BY <2>1 DEF ObjectiveBps, Share, BpsTotal
<1>3. CASE CountableItems(o) # {}
  <2> DEFINE n == Cardinality(CountableItems(o))
  <2>1. CountableItems(o) \subseteq DOMAIN o.items /\ IsFiniteSet(DOMAIN o.items)
    BY DEF CountableItems, IsObjective
  <2>2. n \in Nat \ {0}
    BY <1>3, <2>1, FS_Subset, FS_CardinalityType, FS_EmptySet
  <2>3. Completion(o) = [completed |-> n, countable |-> n]
    BY <1>3 DEF ObjectiveDone, Completion
  <2> HIDE DEF n
  <2> QED BY <1>1, <2>2, <2>3 DEF ObjectiveBps, Share, BpsTotal
<1> QED BY <1>2, <1>3

\* A contract the schema lets be in phase "completed" is confirmed by the
\* calculation of its progress.
LEMMA ValidCompletionIsConfirmed ==
  ASSUME NEW c, IsContract(c), ValidContract(c), c.phase = "completed"
  PROVE  CompletionConfirmed(c)
<1>1. DOMAIN c.objectives # {}
  BY DEF ValidContract
<1>2. Required(c.objectives) # {}
  BY <1>1, ScopeRequiresSomething DEF ValidContract
<1>3. ASSUME NEW k \in Required(c.objectives) PROVE ObjectiveBps(c.objectives[k]) = BpsTotal
  <2>1. /\ IsObjective(c.objectives[k]) /\ c.objectives[k].status # "cancelled"
        /\ ObjectiveDone(c.objectives[k])
    BY DEF ValidContract, IsContract, IsChecklist, Required
  <2> QED BY <2>1, DoneIsFullShare
<1> QED BY <1>2, <1>3 DEF RequiredComplete, CompletionConfirmed, ValidContract

(***************************************************************************)
(* "Completed" is never shown, stored or reported before every required    *)
(* result is finished and the completion is confirmed, however the shares  *)
(* of the checklist are divided and rounded.                               *)
(***************************************************************************)
THEOREM CompletedIsEarned == Spec => []CompletionIsEarned
<1>1. TypeOK => CompletionIsEarned
  BY ValidCompletionIsConfirmed DEF TypeOK, CompletionIsEarned
<1> QED BY <1>1, TypeCorrect, PTL

-----------------------------------------------------------------------------
(* Sums over finite sets.  The library's induction theorems take an        *)
(* operator, which the provers cannot instantiate; that the strict subset  *)
(* order is well founded is a fact about sets, and gives induction in the  *)
(* form of a least counterexample.                                         *)

Picked(s) == CHOOSE x \in s : TRUE

\* g adds f up over each part of S, one picked element after the other.
AddsUp(g, f, S) ==
  \A s \in SUBSET S : g[s] = IF s = {} THEN 0 ELSE f[Picked(s)] + g[s \ {Picked(s)}]

\* A set of numbers that is not empty has a least one.
LEMMA LeastNumber ==
  ASSUME NEW N, N \subseteq Nat, N # {}
  PROVE  \E n \in N : \A m \in N : n <= m
<1> DEFINE T == {0..n : n \in N}
<1>1. T \subseteq FiniteSubsetsOf(Nat) /\ T # {}
  <2>1. ASSUME NEW n \in N PROVE 0..n \subseteq Nat /\ IsFiniteSet(0..n)
    BY FS_Interval
  <2>2. \A t \in T : t \in FiniteSubsetsOf(Nat)
    BY <2>1 DEF FiniteSubsetsOf
  <2> QED BY <2>2
<1>2. PICK t \in T : \A u \in T : ~ (<<u, t>> \in StrictSubsetOrdering(Nat))
  BY <1>1, FS_StrictSubsetOrderingWellFounded, WFMin
<1>3. PICK n \in N : t = 0..n
  OBVIOUS
<1>4. ASSUME NEW m \in N, m < n PROVE FALSE
  <2>1. 0..m \subseteq 0..n /\ n \in 0..n /\ n \notin 0..m
    BY <1>4
  <2>2. <<0..m, 0..n>> \in StrictSubsetOrdering(Nat)
    BY <2>1 DEF StrictSubsetOrdering
  <2> QED BY <1>2, <1>3, <2>2
<1> QED BY <1>4

\* A recursion that takes one element after the other from a finite set is well defined.
LEMMA SumsExist ==
  ASSUME NEW S, IsFiniteSet(S), NEW f \in [S -> Nat]
  PROVE  \E g \in [SUBSET S -> Nat] : AddsUp(g, f, S)
<1> USE DEF AddsUp
<1> DEFINE Rest(s) == s \ {Picked(s)}
           UpTo(n) == \E g \in [SUBSET S -> Nat] :
                        \A s \in SUBSET S :
                          Cardinality(s) <= n =>
                            g[s] = IF s = {} THEN 0 ELSE f[Picked(s)] + g[Rest(s)]
           Failing == {n \in Nat : ~UpTo(n)}
<1>1. ASSUME NEW s \in SUBSET S
      PROVE  /\ Cardinality(s) \in Nat /\ Cardinality(s) <= Cardinality(S)
             /\ Cardinality(s) <= 0 => s = {}
             /\ s # {} => /\ Picked(s) \in S /\ Rest(s) \in SUBSET S
                          /\ Cardinality(Rest(s)) = Cardinality(s) - 1
  <2>1. IsFiniteSet(s) /\ Cardinality(s) \in Nat /\ Cardinality(s) <= Cardinality(S)
    BY FS_Subset, FS_CardinalityType
  <2>2. Cardinality(s) <= 0 => s = {}
    BY <2>1, FS_EmptySet
  <2>3. s # {} => Picked(s) \in s
    BY DEF Picked
  <2>4. s # {} => Cardinality(Rest(s)) = Cardinality(s) - 1
    BY <2>1, <2>3, FS_RemoveElement
  <2> QED BY <2>1, <2>2, <2>3, <2>4
<1>2. UpTo(0)
  <2> DEFINE g == [s \in SUBSET S |-> 0]
  <2>1. g \in [SUBSET S -> Nat] /\ \A s \in SUBSET S : Cardinality(s) <= 0 => g[s] = 0 /\ s = {}
    BY <1>1
  <2> HIDE DEF g, Rest
  <2> QED BY <2>1
<1>3. ASSUME NEW n \in Nat, UpTo(n) PROVE UpTo(n + 1)
  <2>1. PICK g \in [SUBSET S -> Nat] :
          \A s \in SUBSET S :
            Cardinality(s) <= n => g[s] = IF s = {} THEN 0 ELSE f[Picked(s)] + g[Rest(s)]
    BY <1>3
  <2> DEFINE h == [s \in SUBSET S |-> IF s = {} THEN 0
                                      ELSE IF Cardinality(s) <= n THEN g[s]
                                      ELSE f[Picked(s)] + g[Rest(s)]]
  <2> HIDE DEF Rest
  <2>2. h \in [SUBSET S -> Nat]
    BY <1>1
  <2>3. ASSUME NEW s \in SUBSET S, s # {}, Cardinality(s) <= n + 1
        PROVE  h[s] = f[Picked(s)] + h[Rest(s)]
    <3>1. Rest(s) \in SUBSET S /\ Cardinality(Rest(s)) <= n
      BY <1>1, <2>3
    <3>2. h[Rest(s)] = g[Rest(s)]
      BY <2>1, <3>1, <1>1
    <3> QED BY <2>1, <2>3, <3>2
  <2>4. h[{}] = 0
    OBVIOUS
  <2> HIDE DEF h
  <2> QED BY <2>2, <2>3, <2>4
<1>4. Failing = {}
  <2> SUFFICES ASSUME Failing # {} PROVE FALSE
    OBVIOUS
  <2> HIDE DEF UpTo
  <2>1. PICK n \in Failing : \A m \in Failing : n <= m
    BY LeastNumber
  <2>2. n \in Nat \ {0}
    BY <1>2
  <2>3. n - 1 \in Nat /\ n - 1 \notin Failing
    BY <2>1, <2>2
  <2>4. UpTo((n - 1) + 1)
    BY <1>3, <2>3
  <2> QED BY <2>2, <2>4
<1>5. UpTo(Cardinality(S))
  BY <1>4, FS_CardinalityType
<1> QED BY <1>1, <1>5

\* Whichever function the recursion stands for, it adds up to a number.
LEMMA SumsAreNumbers ==
  ASSUME NEW S, IsFiniteSet(S), NEW f \in [S -> Nat], NEW g, AddsUp(g, f, S)
  PROVE  \A s \in SUBSET S : g[s] \in Nat
<1> DEFINE Failing == {n \in Nat : \E s \in SUBSET S : Cardinality(s) = n /\ g[s] \notin Nat}
<1>1. ASSUME Failing # {} PROVE FALSE
  <2>1. PICK n \in Failing : \A m \in Failing : n <= m
    BY <1>1, LeastNumber
  <2>2. PICK s \in SUBSET S : Cardinality(s) = n /\ g[s] \notin Nat
    OBVIOUS
  <2>0. g[s] = IF s = {} THEN 0 ELSE f[Picked(s)] + g[s \ {Picked(s)}]
    BY DEF AddsUp
  <2>3. s # {} /\ Picked(s) \in s
    BY <2>0, <2>2 DEF Picked
  <2> DEFINE r == s \ {Picked(s)}
  <2>4. IsFiniteSet(s) /\ Cardinality(r) = n - 1 /\ Cardinality(r) \in Nat
    BY <2>2, <2>3, FS_Subset, FS_RemoveElement, FS_CardinalityType
  <2>5. g[r] \in Nat
    BY <2>1, <2>4
  <2> QED BY <2>2, <2>3, <2>5 DEF AddsUp
<1>2. ASSUME NEW s \in SUBSET S PROVE Cardinality(s) \in Nat
  BY FS_Subset, FS_CardinalityType
<1> QED BY <1>1, <1>2

\* There is only one way to add up.
LEMMA SumsAgree ==
  ASSUME NEW S, IsFiniteSet(S), NEW f \in [S -> Nat],
         NEW g, AddsUp(g, f, S), NEW h, AddsUp(h, f, S)
  PROVE  \A s \in SUBSET S : g[s] = h[s]
<1> DEFINE Failing == {n \in Nat : \E s \in SUBSET S : Cardinality(s) = n /\ g[s] # h[s]}
<1>1. ASSUME Failing # {} PROVE FALSE
  <2>1. PICK n \in Failing : \A m \in Failing : n <= m
    BY <1>1, LeastNumber
  <2>2. PICK s \in SUBSET S : Cardinality(s) = n /\ g[s] # h[s]
    OBVIOUS
  <2>3. s # {}
    BY <2>2 DEF AddsUp
  <2>4. Picked(s) \in s
    BY <2>3 DEF Picked
  <2> DEFINE r == s \ {Picked(s)}
  <2>5. IsFiniteSet(s) /\ Cardinality(r) = n - 1 /\ Cardinality(r) \in Nat
    BY <2>2, <2>4, FS_Subset, FS_RemoveElement, FS_CardinalityType
  <2>6. g[r] = h[r]
    BY <2>1, <2>5
  <2> QED BY <2>2, <2>3, <2>6 DEF AddsUp
<1>2. ASSUME NEW s \in SUBSET S PROVE Cardinality(s) \in Nat
  BY FS_Subset, FS_CardinalityType
<1> QED BY <1>1, <1>2

-----------------------------------------------------------------------------
(* The calculation of progress is well defined.                            *)

\* Of an objective's countable results, some are completed.
LEMMA CompletionIsTyped ==
  ASSUME NEW o, IsObjective(o)
  PROVE  /\ Completion(o).completed \in Nat /\ Completion(o).countable \in Nat \ {0}
         /\ Completion(o).completed <= Completion(o).countable
<1>1. /\ CountableItems(o) \subseteq DOMAIN o.items /\ IsFiniteSet(DOMAIN o.items)
      /\ CompletedItems(o) \subseteq CountableItems(o)
  BY DEF CountableItems, CompletedItems, IsObjective
<1>2. /\ IsFiniteSet(CountableItems(o)) /\ Cardinality(CountableItems(o)) \in Nat
      /\ Cardinality(CompletedItems(o)) \in Nat
      /\ Cardinality(CompletedItems(o)) <= Cardinality(CountableItems(o))
      /\ CountableItems(o) # {} => Cardinality(CountableItems(o)) # 0
  BY <1>1, FS_Subset, FS_CardinalityType, FS_EmptySet
<1> QED BY <1>2 DEF Completion

\* Weights and shares are natural numbers.
LEMMA WeightIsNumber == ASSUME NEW o, IsObjective(o) PROVE o.bps \in Nat
<1>1. o.bps \in 0..BpsTotal
  BY Zenon DEF IsObjective
<1>2. \A bps \in 0..BpsTotal : bps \in Nat
  BY DEF BpsTotal
<1> QED BY <1>1, <1>2, Zenon

\* So is the part of its weight an objective has earned.
LEMMA ShareIsNumber ==
  ASSUME NEW o, IsObjective(o)
  PROVE  Share(o.bps, Completion(o)) \in Nat
<1>1. ASSUME NEW a \in Nat, NEW b \in Nat, NEW n \in Nat \ {0} PROVE (a * b) \div n \in Nat
  OBVIOUS
<1> QED BY <1>1, WeightIsNumber, CompletionIsTyped DEF Share

\* The required objectives are finitely many objectives of the checklist.
LEMMA RequiredAreObjectives ==
  ASSUME NEW objectives, IsChecklist(objectives)
  PROVE  /\ IsFiniteSet(Required(objectives))
         /\ \A k \in Required(objectives) :
              k \in DOMAIN objectives /\ IsObjective(objectives[k])
<1>1. Required(objectives) \subseteq DOMAIN objectives
  BY DEF Required
<1> QED BY <1>1, FS_Subset DEF IsChecklist

\* The two sums of the model are what the recursion gives for the shares and
\* for the weights.
LEMMA SharesAddUp ==
  ASSUME NEW objectives, IsChecklist(objectives)
  PROVE  LET S == Required(objectives)
             Part(k) == Share(objectives[k].bps, Completion(objectives[k]))
         IN  \E g : /\ AddsUp(g, [k \in S |-> Part(k)], S)
                    /\ MapThenSumSet(Part, S) = g[S]
<1> DEFINE S == Required(objectives)
           Part(k) == Share(objectives[k].bps, Completion(objectives[k]))
           f == [k \in S |-> Part(k)]
           Unfolds(iter) ==
             iter = [s \in SUBSET S |->
                       IF s = {} THEN 0
                       ELSE LET x == CHOOSE x \in s : TRUE IN Part(x) + iter[s \ {x}]]
<1>1. IsFiniteSet(S) /\ f \in [S -> Nat]
  BY RequiredAreObjectives, ShareIsNumber
<1>2. PICK g \in [SUBSET S -> Nat] : AddsUp(g, f, S)
  <2> HIDE DEF S, f
  <2> QED BY <1>1, SumsExist
<1>3. ASSUME NEW s \in SUBSET S, s # {} PROVE Picked(s) \in S
  BY <1>3 DEF Picked
<1> HIDE DEF S, Part
<1>4. Unfolds(g)
  BY <1>2, <1>3 DEF AddsUp, Picked
<1>5. Unfolds(CHOOSE iter : Unfolds(iter))
  BY <1>4
<1>6. MapThenSumSet(Part, S) = (CHOOSE iter : Unfolds(iter))[S]
  BY DEF MapThenSumSet, MapThenFoldSet
<1>7. ASSUME NEW iter, Unfolds(iter) PROVE AddsUp(iter, f, S)
  BY <1>3, <1>7 DEF AddsUp, Picked
<1> QED BY <1>5, <1>6, <1>7 DEF S, Part

\* The same of the weights.
LEMMA WeightsAddUp ==
  ASSUME NEW objectives, IsChecklist(objectives)
  PROVE  LET S == Required(objectives)
             Weight(k) == objectives[k].bps
         IN  \E g : /\ AddsUp(g, [k \in S |-> Weight(k)], S)
                    /\ MapThenSumSet(Weight, S) = g[S]
<1> DEFINE S == Required(objectives)
           Weight(k) == objectives[k].bps
           f == [k \in S |-> Weight(k)]
           Unfolds(iter) ==
             iter = [s \in SUBSET S |->
                       IF s = {} THEN 0
                       ELSE LET x == CHOOSE x \in s : TRUE IN Weight(x) + iter[s \ {x}]]
<1>1. IsFiniteSet(S) /\ f \in [S -> Nat]
  BY RequiredAreObjectives, WeightIsNumber
<1>2. PICK g \in [SUBSET S -> Nat] : AddsUp(g, f, S)
  <2> HIDE DEF S, f
  <2> QED BY <1>1, SumsExist
<1>3. ASSUME NEW s \in SUBSET S, s # {} PROVE Picked(s) \in S
  BY <1>3 DEF Picked
<1> HIDE DEF S, Weight
<1>4. Unfolds(g)
  BY <1>2, <1>3 DEF AddsUp, Picked
<1>5. Unfolds(CHOOSE iter : Unfolds(iter))
  BY <1>4
<1>6. MapThenSumSet(Weight, S) = (CHOOSE iter : Unfolds(iter))[S]
  BY DEF MapThenSumSet, MapThenFoldSet
<1>7. ASSUME NEW iter, Unfolds(iter) PROVE AddsUp(iter, f, S)
  BY <1>3, <1>7 DEF AddsUp, Picked
<1> QED BY <1>5, <1>6, <1>7 DEF S, Weight

\* The computed progress is a number of basis points.
LEMMA ProgressIsBps ==
  ASSUME NEW objectives, IsChecklist(objectives)
  PROVE  RawProgress(objectives) \in 0..BpsTotal
<1> DEFINE S == Required(objectives)
           Part(k) == Share(objectives[k].bps, Completion(objectives[k]))
           f == [k \in S |-> Part(k)]
<1>1. IsFiniteSet(S) /\ f \in [S -> Nat]
  BY RequiredAreObjectives, ShareIsNumber
<1>2. PICK g : AddsUp(g, f, S) /\ MapThenSumSet(Part, S) = g[S]
  BY SharesAddUp
<1>3. g[S] \in Nat
  <2> HIDE DEF S, f
  <2> QED BY <1>1, <1>2, SumsAreNumbers
<1>4. RawProgress(objectives) = IF g[S] > BpsTotal THEN BpsTotal ELSE g[S]
  BY <1>2 DEF RawProgress
<1>5. ASSUME NEW n \in Nat
      PROVE  (IF n > BpsTotal THEN BpsTotal ELSE n) \in 0..BpsTotal
  BY DEF BpsTotal
<1> HIDE DEF S
<1> QED BY <1>3, <1>4, <1>5

\* An objective whose whole basis points are all there has its whole weight:
\* rounding down loses nothing at the end.
LEMMA FullShareIsWeight ==
  ASSUME NEW o, IsObjective(o), ObjectiveBps(o) = BpsTotal
  PROVE  Share(o.bps, Completion(o)) = o.bps
<1>1. ASSUME NEW n \in Nat \ {0}, NEW d \in Nat, d <= n, (10000 * d) \div n = 10000 PROVE d = n
  <2>1. ASSUME NEW a \in Nat, NEW q \in Nat, a \div n = q PROVE q * n <= a
    BY <2>1
  <2>2. 10000 * n <= 10000 * d
    BY <1>1, <2>1
  <2> QED BY <1>1, <2>2
<1>2. ASSUME NEW n \in Nat \ {0}, NEW b \in Nat PROVE (b * n) \div n = b
  OBVIOUS
<1>3. Completion(o).completed = Completion(o).countable
  BY <1>1, CompletionIsTyped DEF ObjectiveBps, Share, BpsTotal
<1> QED BY <1>2, <1>3, CompletionIsTyped, WeightIsNumber DEF Share

\* With every required result complete nothing is missing from the total.
LEMMA FullProgress ==
  ASSUME NEW objectives, IsChecklist(objectives), NEW version,
         ValidScope(objectives, version), RequiredComplete(objectives)
  PROVE  RawProgress(objectives) = BpsTotal
<1> DEFINE S == Required(objectives)
           Part(k) == Share(objectives[k].bps, Completion(objectives[k]))
           Weight(k) == objectives[k].bps
           f == [k \in S |-> Part(k)]
           w == [k \in S |-> Weight(k)]
<1>1. IsFiniteSet(S) /\ f \in [S -> Nat]
  BY RequiredAreObjectives, ShareIsNumber
<1>2. f = w
  BY RequiredAreObjectives, FullShareIsWeight DEF RequiredComplete
<1>3. PICK g : AddsUp(g, f, S) /\ MapThenSumSet(Part, S) = g[S]
  BY SharesAddUp
<1>4. PICK h : AddsUp(h, w, S) /\ MapThenSumSet(Weight, S) = h[S]
  BY WeightsAddUp
<1>5. g[S] = h[S]
  <2> HIDE DEF S, f, w
  <2> QED BY <1>1, <1>2, <1>3, <1>4, SumsAgree
<1>6. S # {}
  BY DEF RequiredComplete
<1>7. h[S] = BpsTotal
  BY <1>4, <1>6 DEF ValidScope, Required
<1>8. RawProgress(objectives) = IF g[S] > BpsTotal THEN BpsTotal ELSE g[S]
  BY <1>3 DEF RawProgress
<1> QED BY <1>5, <1>7, <1>8 DEF BpsTotal

-----------------------------------------------------------------------------
(* What is shown.                                                          *)

\* What a contract displays is a number, all of it once confirmed and the
\* cap while only the confirmation is missing.
LEMMA DisplayedProgress ==
  ASSUME NEW c, IsContract(c), ValidContract(c)
  PROVE  /\ DisplayProgress(c) # NoProgress
         /\ CompletionConfirmed(c) => DisplayProgress(c) = BpsTotal
         /\ FinalVerificationPending(c) => DisplayProgress(c) = FinalVerificationCap
<1>1. IsChecklist(c.objectives)
  BY DEF IsContract
<1>2. RawProgress(c.objectives) \in 0..BpsTotal
  BY <1>1, ProgressIsBps
<1>3. RequiredComplete(c.objectives) => RawProgress(c.objectives) = BpsTotal
  BY <1>1, FullProgress DEF ValidContract
<1>4. ASSUME NEW n \in 0..BpsTotal
      PROVE  (IF n < FinalVerificationCap THEN n ELSE FinalVerificationCap) # NoProgress
  BY DEF BpsTotal, FinalVerificationCap, NoProgress
<1>5. ~(BpsTotal < FinalVerificationCap) /\ BpsTotal # NoProgress
  BY DEF BpsTotal, FinalVerificationCap, NoProgress
<1>6. CASE CompletionConfirmed(c)
  BY <1>5, <1>6 DEF DisplayProgress, FinalVerificationPending
<1>7. CASE ~CompletionConfirmed(c)
  <2>1. DisplayProgress(c) = IF RawProgress(c.objectives) < FinalVerificationCap
                             THEN RawProgress(c.objectives) ELSE FinalVerificationCap
    BY <1>7 DEF DisplayProgress
  <2>2. FinalVerificationPending(c) => RawProgress(c.objectives) = BpsTotal
    BY <1>3 DEF FinalVerificationPending
  <2>3. DisplayProgress(c) # NoProgress
    BY <1>2, <1>4, <2>1
  <2> QED BY <1>5, <1>7, <2>1, <2>2, <2>3
<1> QED BY <1>6, <1>7

\* A checklist that is not empty has an objective that is not cancelled.
LEMMA SomethingIsListed ==
  ASSUME NEW c, ValidContract(c), DOMAIN c.objectives # {}
  PROVE  \E k \in DOMAIN c.objectives : c.objectives[k].status # "cancelled"
<1>1. Required(c.objectives) # {}
  BY ScopeRequiresSomething DEF ValidContract
<1> QED BY <1>1 DEF Required

\* The phase shown has progress to show unless it says why not.
LEMMA ViewPhases ==
  ASSUME NEW c
  PROVE  /\ ViewPhase(c) \in {"preparing", "completed", "paused", "blocked", "error", "active"}
         /\ ViewPhase(c) = "completed" => CompletionConfirmed(c)
         /\ ViewPhase(c) = "error" => DOMAIN c.objectives = {}
BY Zenon DEF ViewPhase

LEMMA ValidContractHasValidView ==
  ASSUME NEW c, IsContract(c), ValidContract(c), NEW detached \in BOOLEAN
  PROVE  ValidView(View(c, detached))
<1> DEFINE phase == IF detached THEN "detached" ELSE ViewPhase(c)
           tracks == TracksProgress(phase)
           scoped == ~(IsTask(c) /\ DOMAIN c.objectives = {})
           progress == IF tracks /\ scoped THEN DisplayProgress(c) ELSE NoProgress
           pending == tracks /\ FinalVerificationPending(c)
           listed == IF tracks THEN {k \in DOMAIN c.objectives :
                                       c.objectives[k].status # "cancelled"} ELSE {}
           v == View(c, detached)
<1>1. /\ v.task = IsTask(c) /\ v.phase = phase /\ v.progress = progress
      /\ v.pending = pending /\ v.objectives = listed
      /\ v.scopeRevision = c.scopeRevision /\ v.revision = c.revision
  BY DEF View
<1>2. c.scopeRevision <= c.revision
  BY DEF ValidContract
<1>3. /\ phase \in {"preparing", "completed", "paused", "blocked", "error", "active", "detached"}
      /\ phase = "completed" => CompletionConfirmed(c)
  BY ViewPhases
<1>4. tracks <=> phase \in {"active", "paused", "blocked", "completed"}
  BY DEF TracksProgress
<1>5. tracks /\ DOMAIN c.objectives # {} => listed # {}
  BY SomethingIsListed
<1>6. tracks /\ scoped => progress # NoProgress
  BY DisplayedProgress
<1>7. tracks /\ ~scoped => IsTask(c) /\ listed = {}
  OBVIOUS
<1>8. ~tracks => progress = NoProgress /\ listed = {} /\ ~pending
  OBVIOUS
<1>9. tracks /\ IsTask(c) /\ listed = {} => progress = NoProgress
  BY <1>5
<1>10. RequiredComplete(c.objectives) => scoped
  BY DEF RequiredComplete, Required
<1>11. phase = "completed" => progress = BpsTotal /\ ~pending
  BY <1>3, <1>4, <1>10, DisplayedProgress DEF CompletionConfirmed, FinalVerificationPending
<1>12. pending => progress = FinalVerificationCap
  BY <1>10, DisplayedProgress DEF FinalVerificationPending
<1> HIDE DEF phase, tracks, progress, pending, listed, v, scoped
<1> QED
  BY <1>1, <1>2, <1>3, <1>4, <1>6, <1>7, <1>8, <1>9, <1>11, <1>12
     DEF ValidView, TracksProgress, v

(***************************************************************************)
(* Whatever is stored can be shown: no contract the store accepts makes    *)
(* the projection fail its schema, whatever the weights and their rounding.*)
(***************************************************************************)
THEOREM EveryContractIsShown == Spec => []ViewsAreValid
<1>1. TypeOK => ViewsAreValid
  BY ValidContractHasValidView DEF TypeOK, ViewsAreValid
<1> QED BY <1>1, TypeCorrect, PTL

-----------------------------------------------------------------------------
(* What one step may do to a contract.                                     *)

IsMigration ==
  /\ contract.version = 1 /\ contract'.version = 2
  /\ contract'.revision = contract.revision
  /\ contract'.scopeRevision = contract.scopeRevision
  /\ contract'.objectives = contract.objectives

\* A rescope or a retarget.
IsNewScope ==
  /\ contract'.revision = contract.revision + 1
  /\ contract'.scopeRevision = contract.scopeRevision + 1
  /\ IsTask(contract) => contract'.acceptance = "none" /\ ~CompletionConfirmed(contract')

IsItemUpdate ==
  /\ contract'.revision = contract.revision + 1
  /\ contract'.scopeRevision = contract.scopeRevision
  /\ \E changes \in ChangeSets, active \in {"keep", "unset"} \cup DOMAIN contract.objectives :
       LET new == ChangedObjectives(contract.objectives, changes, active)
       IN  /\ ChangesError(contract.objectives, changes, active) = "none"
           /\ contract'.objectives = new
           /\ contract'.correction = Correction(contract, new, contract.revision + 1)

IsOtherCommand ==
  /\ contract'.revision = contract.revision + 1
  /\ contract'.scopeRevision = contract.scopeRevision
  /\ contract'.objectives = contract.objectives

\* A v1 contract has only required objectives, so the migration leaves them.
LEMMA MigrationKeepsObjectives ==
  ASSUME NEW c, IsContract(c), ValidContract(c), c.version = 1
  PROVE  [k \in DOMAIN c.objectives |-> [c.objectives[k] EXCEPT !.requirement = "required"]]
           = c.objectives
<1> DEFINE objectives == c.objectives
<1>1. ASSUME NEW k \in DOMAIN objectives
      PROVE  [objectives[k] EXCEPT !.requirement = "required"] = objectives[k]
  <2> DEFINE o == objectives[k]
  <2>1. IsObjective(o)
    BY DEF IsContract, IsChecklist
  <2>2. o.requirement = "required"
    BY <2>1 DEF ValidContract, ValidScope, ValidObjective, IsObjective
  <2>3. o = [requirement |-> "required", bps |-> o.bps, status |-> o.status, items |-> o.items]
    BY <2>1, <2>2 DEF IsObjective
  <2> QED BY <2>3
<1>2. objectives = [k \in DOMAIN objectives |-> objectives[k]]
  BY DEF IsContract, IsChecklist
<1> HIDE DEF objectives
<1>3. [k \in DOMAIN objectives |-> [objectives[k] EXCEPT !.requirement = "required"]]
        = [k \in DOMAIN objectives |-> objectives[k]]
  BY <1>1
<1> QED BY <1>2, <1>3 DEF objectives

\* A rescope an earlier release wrote starts a new scope of the contract.
LEMMA LegacyRescopeIsNewScope ==
  ASSUME TypeOK, NEW at \in Times, NEW s \in Scopes, LegacyRescope(s, at)
  PROVE  IsNewScope
<1> DEFINE e == [Carrying("rescoped", contract, at,
                          [objectives |-> s, scopeRevision |-> contract.scopeRevision + 1])
                   EXCEPT !.revision = @ + 1]
           new == [Stamped(contract, e.revision, e.occurredAt) EXCEPT
                     !.acceptance    = IF IsTask(contract) THEN "none" ELSE @,
                     !.objectives    = ObjectivesForContract(contract, s),
                     !.phase         = PhaseAfterRescope(contract),
                     !.scopeRevision = e.payload.scopeRevision,
                     !.scopeNote     = e.payload.scopeRevision]
<1>1. /\ contract # NoContract /\ contract.version = 1 /\ contract.revision < MaxRevision
      /\ Reduce(contract, e).ok /\ contract' = Reduce(contract, e).contract
  BY DEF LegacyRescope, Write
<1>2. /\ e.type = "rescoped" /\ e.occurredAt = at /\ e.revision = contract.revision + 1
      /\ e.payload.objectives = s /\ e.payload.scopeRevision = contract.scopeRevision + 1
  BY DEF Carrying
<1> HIDE DEF e
<1>3. Reduce(contract, e) = ReplayRescope(contract, e)
  BY <1>1, <1>2 DEF Reduce, Rejected
<1>4. Checked(new, e, "INVALID_SCOPE").ok /\ ReplayRescope(contract, e) = Checked(new, e, "INVALID_SCOPE")
  BY <1>1, <1>2, <1>3 DEF ReplayRescope, Replayed, Rejected
<1>5. contract' = new
  BY <1>1, <1>3, <1>4, CheckedIsAccepted DEF Accepted
<1>6. /\ IsContract(Stamped(contract, e.revision, e.occurredAt))
      /\ Stamped(contract, e.revision, e.occurredAt).revision = contract.revision + 1
  BY <1>1, <1>2, StampedIsTyped DEF TypeOK
<1>7. new.revision = contract.revision + 1 /\ new.scopeRevision = contract.scopeRevision + 1
  BY <1>2, <1>6 DEF IsContract
<1> HIDE DEF new
<1> QED BY <1>1, <1>5, <1>7 DEF IsNewScope, IsTask

\* The migration keeps the revision, the scope and the checklist.
LEMMA MigrateIsMigration ==
  ASSUME TypeOK, NEW at \in Times, NEW g \in Goals, NEW n \in NativeStatus, Migrate(g, n, at),
         contract # NoContract
  PROVE  IsMigration
<1>1. contract.version = 1 /\ contract' = Migrated(contract, g, n)
  BY DEF Migrate, Migratable, Write
<1>2. IsContract(contract) /\ ValidContract(contract)
  BY DEF TypeOK
<1> DEFINE required == [k \in DOMAIN contract.objectives |->
                          [contract.objectives[k] EXCEPT !.requirement = "required"]]
<1>3. required = contract.objectives
  BY <1>1, <1>2, MigrationKeepsObjectives
<1>4. /\ contract'.version = 2 /\ contract'.revision = contract.revision
      /\ contract'.scopeRevision = contract.scopeRevision /\ contract'.objectives = required
  <2> HIDE DEF required
  <2> QED BY <1>1, <1>2 DEF Migrated, IsContract, required
<1> QED BY <1>1, <1>3, <1>4 DEF IsMigration

\* Apart from a migration, an event that carries a whole contract starts
\* another contract, or belongs to what an earlier release wrote.
LEMMA WholeContractSteps ==
  ASSUME TypeOK, NEW at \in Times, contract # NoContract, contract'.id = contract.id,
         \/ \E id \in Ids : Initialize(id, at) \/ Legacy(id, at)
         \/ \E s \in Scopes : LegacyRescope(s, at)
         \/ \E g \in Goals, n \in NativeStatus : Migrate(g, n, at)
         \/ \E id \in Ids, detached \in BOOLEAN : Replace(id, at, detached)
  PROVE  IsMigration \/ IsNewScope
<1>1. ASSUME NEW id \in Ids, Initialize(id, at) \/ Legacy(id, at) PROVE FALSE
  BY <1>1 DEF Initialize, Legacy
<1>2. ASSUME NEW s \in Scopes, LegacyRescope(s, at) PROVE IsNewScope
  BY <1>2, LegacyRescopeIsNewScope
<1>3. ASSUME NEW g \in Goals, NEW n \in NativeStatus, Migrate(g, n, at) PROVE IsMigration
  BY <1>3, MigrateIsMigration
<1>4. ASSUME NEW id \in Ids, NEW detached \in BOOLEAN, Replace(id, at, detached) PROVE FALSE
  <2>1. PICK new \in FirstContracts(id, at) :
          LET e == Carrying("replaced", new, at,
                            [contract |-> new, previousId |-> contract.id,
                             previousRevision |-> contract.revision,
                             previousDetached |-> detached])
          IN  Reduce(contract, e).ok /\ contract' = Reduce(contract, e).contract
    BY <1>4 DEF Replace, Found, Write
  <2> DEFINE e == Carrying("replaced", new, at,
                           [contract |-> new, previousId |-> contract.id,
                            previousRevision |-> contract.revision,
                            previousDetached |-> detached])
  <2>2. e.type = "replaced" /\ e.payload.contract = new
    BY DEF Carrying
  <2>3. Reduce(contract, e).ok /\ contract' = Reduce(contract, e).contract
    BY <2>1
  <2> HIDE DEF e
  <2>4. contract' = new /\ new.id # contract.id
    BY <2>2, <2>3 DEF Reduce, ReplayReplaced, Rejected, Accepted
  <2> QED BY <2>4
<1> QED BY <1>1, <1>2, <1>3, <1>4

\* What each command does to the scope, the checklist and the correction.
LEMMA CommandEffects ==
  ASSUME TypeOK, NEW at \in Times,
         \/ UpdateExploration(at) \/ UpdateItems(at) \/ Rescope(at)
         \/ Retarget(at) \/ SetPhase(at) \/ SyncNativeGoal(at)
  PROVE  IsNewScope \/ IsItemUpdate \/ IsOtherCommand
<1>1. Open /\ contract # NoContract /\ IsContract(contract) /\ ValidContract(contract)
  BY DEF UpdateExploration, UpdateItems, Rescope, Retarget, SetPhase, SyncNativeGoal, Open, TypeOK
<1>2. ASSUME NEW type, NEW source, NEW args, NEW cmd \in Addressed(type, at, source, args)
      PROVE  cmd.type = type /\ cmd.occurredAt = at /\ cmd.args = args
  BY DEF Addressed
<1>3. ASSUME NEW cmd, cmd.type \in CommandTypes, cmd.occurredAt = at, Submit(cmd)
      PROVE  LET base == Base(contract, cmd)
             IN  /\ Apply(contract, cmd).ok /\ contract' = Apply(contract, cmd).contract
                 /\ IsContract(base) /\ base.revision = contract.revision + 1
                 /\ base.objectives = contract.objectives
                 /\ base.scopeRevision = contract.scopeRevision
  BY <1>1, <1>3, WrittenIsValid, StampedIsTyped DEF Base, Open
<1>4. CASE UpdateExploration(at)
  <2>1. PICK cmd : cmd.type = "update-exploration" /\ cmd.occurredAt = at /\ Submit(cmd)
    BY <1>2, <1>4 DEF UpdateExploration
  <2>2. contract' = Explored(contract, cmd)
    BY <1>3, <2>1, AcceptedContract DEF CommandTypes
  <2> QED BY <1>3, <2>1, <2>2 DEF Explored, IsOtherCommand, IsContract, CommandTypes
<1>5. CASE UpdateItems(at)
  <2>0. PICK source \in {"model", "user"}, changes \in ChangeSets, reason \in BOOLEAN,
             active \in {"keep", "unset"} \cup DOMAIN contract.objectives :
          \E cmd \in Addressed("update-items", at, source,
                     [changes |-> changes, active |-> active, reason |-> reason]) : Submit(cmd)
    BY <1>5 DEF UpdateItems
  <2>1. PICK cmd : /\ cmd.type = "update-items" /\ cmd.occurredAt = at /\ Submit(cmd)
                   /\ cmd.args.changes = changes /\ cmd.args.active = active
    BY <1>2, <2>0
  <2>2. /\ contract' = Updated(contract, cmd)
        /\ ChangesError(contract.objectives, cmd.args.changes, cmd.args.active) = "none"
    BY <1>3, <2>1, AcceptedContract, ItemsAccepted DEF CommandTypes
  <2>3. /\ contract'.revision = contract.revision + 1
        /\ contract'.scopeRevision = contract.scopeRevision
        /\ contract'.objectives = Changed(contract, cmd)
        /\ contract'.correction = Correction(contract, Changed(contract, cmd), contract.revision + 1)
    BY <1>3, <2>1, <2>2 DEF Updated, IsContract, CommandTypes
  <2>4. /\ ChangesError(contract.objectives, changes, active) = "none"
        /\ contract'.objectives = ChangedObjectives(contract.objectives, changes, active)
        /\ contract'.correction = Correction(contract, ChangedObjectives(contract.objectives, changes, active),
                                             contract.revision + 1)
    BY <2>1, <2>2, <2>3 DEF Changed
  <2> QED BY <2>3, <2>4, Zenon DEF IsItemUpdate
<1>6. CASE Rescope(at)
  <2>1. PICK cmd : cmd.type = "rescope" /\ cmd.occurredAt = at /\ Submit(cmd)
    BY <1>2, <1>6 DEF Rescope
  <2>2. contract' = Rescoped(contract, cmd)
    BY <1>3, <2>1, AcceptedContract DEF CommandTypes
  <2>3. /\ contract'.revision = contract.revision + 1
        /\ contract'.scopeRevision = contract.scopeRevision + 1
        /\ IsTask(contract) => contract'.acceptance = "none"
        /\ contract'.version = Base(contract, cmd).version
        /\ contract'.kind = Base(contract, cmd).kind
    BY <1>3, <2>1, <2>2 DEF Rescoped, IsContract, CommandTypes
  <2>4. Base(contract, cmd).version = contract.version /\ Base(contract, cmd).kind = contract.kind
    BY <1>1 DEF Base, Stamped, IsContract
  <2>5. IsTask(contract) => ~CompletionConfirmed(contract')
    BY <2>3, <2>4 DEF IsTask, CompletionConfirmed
  <2> QED BY <2>3, <2>5 DEF IsNewScope
<1>7. CASE Retarget(at)
  <2>1. PICK cmd : cmd.type = "retarget-rescope" /\ cmd.occurredAt = at /\ Submit(cmd)
    BY <1>2, <1>7 DEF Retarget
  <2>2. contract' = Retargeted(contract, cmd)
    BY <1>3, <2>1, AcceptedContract DEF CommandTypes
  <2>3. ~IsTask(contract)
    <3>1. Apply(contract, cmd).ok
      BY <1>3, <2>1 DEF CommandTypes
    <3>2. contract.goal # NoGoal
      BY <2>1, <3>1, RetargetAccepted
    <3> QED BY <1>1, <3>2 DEF ValidContract
  <2>4. /\ contract'.revision = contract.revision + 1
        /\ contract'.scopeRevision = contract.scopeRevision + 1
    BY <1>3, <2>1, <2>2 DEF Retargeted, IsContract, CommandTypes
  <2> QED BY <2>3, <2>4 DEF IsNewScope
<1>8. CASE SetPhase(at)
  <2>1. PICK cmd : cmd.type = "set-phase" /\ cmd.occurredAt = at /\ Submit(cmd)
    BY <1>2, <1>8 DEF SetPhase
  <2>2. contract' = Phased(contract, cmd)
    BY <1>3, <2>1, AcceptedContract DEF CommandTypes
  <2> QED BY <1>3, <2>1, <2>2 DEF Phased, IsOtherCommand, IsContract, CommandTypes
<1>9. CASE SyncNativeGoal(at)
  <2>1. PICK cmd : cmd.type = "sync-native-goal" /\ cmd.occurredAt = at /\ Submit(cmd)
    BY <1>2, <1>9 DEF SyncNativeGoal
  <2>2. contract' = Synced(contract, cmd)
    BY <1>3, <2>1, AcceptedContract DEF CommandTypes
  <2>3. /\ Resynced(contract, cmd).objectives = contract.objectives
        /\ Resynced(contract, cmd).scopeRevision = contract.scopeRevision
        /\ DOMAIN Resynced(contract, cmd) = DOMAIN contract
    BY <1>1 DEF Resynced, IsContract
  <2> QED BY <1>1, <2>2, <2>3 DEF Synced, Stamped, IsOtherCommand, IsContract
<1> QED BY <1>4, <1>5, <1>6, <1>7, <1>8, <1>9

\* Every step on a contract that stays the same contract is one of the four.
LEMMA ContractSteps ==
  ASSUME TypeOK, Next, contract # NoContract, contract'.id = contract.id
  PROVE  IsMigration \/ IsNewScope \/ IsItemUpdate \/ IsOtherCommand
BY WholeContractSteps, CommandEffects DEF Next

\* Whatever commands were built on lies behind the current revision.
BuiltIsBehind ==
  /\ built \in Seq(Int)
  /\ contract # NoContract => \A i \in DOMAIN built : built[i] < contract.revision

\* A command is built on the current revision and moves it on.
LEMMA CommandsBuildOnCurrent ==
  ASSUME TypeOK, BuiltIsBehind, NoTwoOnOneRevision, NEW at \in Times,
         \/ UpdateExploration(at) \/ UpdateItems(at) \/ Rescope(at)
         \/ Retarget(at) \/ SetPhase(at) \/ SyncNativeGoal(at)
  PROVE  BuiltIsBehind' /\ NoTwoOnOneRevision'
<1>1. contract # NoContract /\ contract.revision \in Int
  BY CommandSteps DEF TypeOK, IsContract
<1>2. PICK cmd : Submit(cmd)
  BY CommandSteps
<1>3. built' = Append(built, contract.revision)
  BY <1>2, AcceptedIsCurrent DEF Submit
<1>4. contract'.revision = contract.revision + 1
  BY CommandEffects DEF IsNewScope, IsItemUpdate, IsOtherCommand
<1>5. /\ built \in Seq(Int) /\ built' \in Seq(Int)
      /\ DOMAIN built = 1..Len(built) /\ Len(built) \in Nat
      /\ DOMAIN built' = 1..(Len(built) + 1)
      /\ \A i \in 1..Len(built) : built'[i] = built[i]
      /\ built'[Len(built) + 1] = contract.revision
  BY <1>1, <1>3 DEF BuiltIsBehind
<1>6. \A i \in 1..Len(built) : built[i] \in Int /\ built[i] < contract.revision
  BY <1>1, <1>5 DEF BuiltIsBehind
<1>7. BuiltIsBehind'
  <2>1. ASSUME NEW i \in 1..(Len(built) + 1) PROVE built'[i] < contract.revision + 1
    <3>1. CASE i = Len(built) + 1
      BY <1>1, <1>5, <3>1
    <3>2. CASE i \in 1..Len(built)
      BY <1>1, <1>5, <1>6, <3>2
    <3> QED BY <1>5, <3>1, <3>2
  <2> QED BY <1>4, <1>5, <2>1 DEF BuiltIsBehind
<1>8. NoTwoOnOneRevision'
  BY <1>1, <1>5, <1>6 DEF NoTwoOnOneRevision
<1> QED BY <1>7, <1>8

(***************************************************************************)
(* No revision of a contract is built on twice: an accepted command names  *)
(* the current revision and writes the next one, the events that are no    *)
(* command never step back, so whatever was built on lies behind.          *)
(***************************************************************************)
THEOREM NoRevisionIsBuiltOnTwice == Spec => []NoTwoOnOneRevision
<1> DEFINE IInv == BuiltIsBehind /\ NoTwoOnOneRevision
<1>1. Init => IInv
  BY DEF Init, BuiltIsBehind, NoTwoOnOneRevision
<1>2. ASSUME TypeOK, TypeOK', IInv, [Next]_vars PROVE IInv'
  <2>1. CASE UNCHANGED vars
    BY <1>2, <2>1 DEF vars, BuiltIsBehind, NoTwoOnOneRevision
  <2>2. ASSUME built' = <<>> PROVE IInv'
    BY <2>2 DEF BuiltIsBehind, NoTwoOnOneRevision
  <2>3. ASSUME contract # NoContract, built' = built,
               contract'.revision \in {contract.revision, contract.revision + 1}
        PROVE  IInv'
    <3>1. contract.revision \in Int
      BY <1>2, <2>3 DEF TypeOK, IsContract
    <3>2. \A i \in DOMAIN built : built[i] \in Int /\ built[i] < contract.revision
      BY <1>2, <2>3 DEF BuiltIsBehind
    <3> QED BY <1>2, <2>3, <3>1, <3>2 DEF BuiltIsBehind, NoTwoOnOneRevision
  <2>4. ASSUME NEW at \in Times, NEW id \in Ids,
               \/ Initialize(id, at) \/ Legacy(id, at)
               \/ \E detached \in BOOLEAN : Replace(id, at, detached)
        PROVE  built' = <<>>
    BY <2>4 DEF Initialize, Legacy, Replace, Found
  <2>5. ASSUME NEW at \in Times, NEW s \in Scopes, LegacyRescope(s, at) PROVE IInv'
    <3>1. contract # NoContract /\ built' = built
      BY <2>5 DEF LegacyRescope
    <3> QED BY <1>2, <2>3, <2>5, <3>1, LegacyRescopeIsNewScope DEF IsNewScope
  <2>6. ASSUME NEW at \in Times, NEW g \in Goals, NEW n \in NativeStatus, Migrate(g, n, at)
        PROVE  IInv'
    <3>1. contract # NoContract /\ built' = built
      BY <2>6 DEF Migrate
    <3> QED BY <1>2, <2>3, <2>6, <3>1, MigrateIsMigration DEF IsMigration
  <2> QED
    BY <1>2, <2>1, <2>2, <2>4, <2>5, <2>6, CommandsBuildOnCurrent DEF Next
<1> QED BY <1>1, <1>2, TypeCorrect, PTL DEF Spec

(***************************************************************************)
(* What a task earned with one checklist never completes another one.      *)
(***************************************************************************)
THEOREM AcceptanceEndsWithScope == Spec => AcceptanceIsRevoked
<1> DEFINE Revoked == contract # NoContract /\ contract'.id = contract.id
                        /\ contract'.scopeRevision # contract.scopeRevision /\ IsTask(contract)
                        => ~CompletionConfirmed(contract') /\ contract'.acceptance = "none"
<1>1. TypeOK /\ [Next]_vars => [Revoked]_vars
  BY ContractSteps DEF IsMigration, IsNewScope, IsItemUpdate, IsOtherCommand
<1>2. AcceptanceIsRevoked <=> [][Revoked]_vars
  BY DEF AcceptanceIsRevoked
<1> QED BY <1>1, <1>2, TypeCorrect, PTL DEF Spec

\* A step within one scope keeps the checklist or updates its items.
LEMMA WithinScope ==
  ASSUME TypeOK, Next, SameScope
  PROVE  \/ contract'.objectives = contract.objectives
         \/ IsItemUpdate
<1>1. IsContract(contract)
  BY DEF TypeOK, SameScope
<1>2. contract.scopeRevision + 1 # contract.scopeRevision
  <2>1. contract.scopeRevision \in Nat
    BY <1>1 DEF IsContract
  <2> QED BY <2>1
<1> QED
  BY <1>2, ContractSteps DEF SameScope, IsMigration, IsNewScope, IsOtherCommand

(***************************************************************************)
(* Within one scope the computed progress never goes down without a        *)
(* correction recorded at that very revision.                              *)
(***************************************************************************)
THEOREM RegressionIsRecorded == Spec => NoSilentRegression
<1> DEFINE Loud == SameScope /\ RawProgress(contract'.objectives) < RawProgress(contract.objectives)
                     => contract'.correction = contract'.revision
<1>1. ASSUME TypeOK, Next, SameScope,
             RawProgress(contract'.objectives) < RawProgress(contract.objectives)
      PROVE  contract'.correction = contract'.revision
  <2>1. RawProgress(contract.objectives) \in 0..BpsTotal
    BY <1>1, ProgressIsBps DEF TypeOK, SameScope, IsContract
  <2>2. ASSUME NEW n \in 0..BpsTotal PROVE ~(n < n)
    BY DEF BpsTotal
  <2>3. contract'.objectives # contract.objectives
    BY <1>1, <2>1, <2>2
  <2>4. IsItemUpdate
    BY <1>1, <2>3, WithinScope
  <2> QED BY <1>1, <2>4 DEF IsItemUpdate, Correction
<1>2. TypeOK /\ [Next]_vars => [Loud]_vars
  BY <1>1
<1>3. NoSilentRegression <=> [][Loud]_vars
  BY DEF NoSilentRegression
<1> QED BY <1>2, <1>3, TypeCorrect, PTL DEF Spec

\* An update leaves what is cancelled as it is, and cancels nothing.
LEMMA UpdateKeepsScope ==
  ASSUME NEW objectives, IsChecklist(objectives), NEW changes \in ChangeSets, NEW active,
         ChangesError(objectives, changes, active) = "none",
         NEW k \in DOMAIN objectives
  PROVE  LET old == objectives[k]
             new == ChangedObjectives(objectives, changes, active)[k]
         IN  /\ DOMAIN new.items = DOMAIN old.items
             /\ old.status = "cancelled" => new = old
             /\ \A i \in DOMAIN old.items :
                  old.items[i] = "cancelled" <=> new.items[i] = "cancelled"
<1> DEFINE o == objectives[k]
           status == ChangedStatus(changes, k, NextObjectiveStatus(o, k, active))
           items == [i \in DOMAIN o.items |-> ChangedStatus(changes, i, o.items[i])]
           new == ChangedObjectives(objectives, changes, active)[k]
<1>1. IsObjective(o) /\ k \notin DOMAIN o.items
  BY DEF IsChecklist
<1>2. new = [requirement |-> o.requirement, bps |-> o.bps, status |-> status, items |-> items]
  <2>1. new = [o EXCEPT !.status = status, !.items = items]
    BY DEF ChangedObjectives
  <2> QED BY <1>1, <2>1 DEF IsObjective
<1>3. /\ \A ch \in changes : ~FrozenTarget(objectives, ch.target)
      /\ active \in DOMAIN objectives => ~FrozenTarget(objectives, active)
  BY DEF ChangesError
<1>4. k \in Owners(objectives, k) /\ \A i \in DOMAIN o.items : k \in Owners(objectives, i)
  BY DEF Owners
<1>5. ASSUME NEW t, ~\E ch \in changes : ch.target = t, NEW unchanged
      PROVE  ChangedStatus(changes, t, unchanged) = unchanged
  BY <1>5 DEF ChangedStatus
<1>6. ASSUME NEW t, \E ch \in changes : ch.target = t, NEW unchanged
      PROVE  ChangedStatus(changes, t, unchanged) # "cancelled"
  <2> DEFINE chosen == CHOOSE ch \in changes : ch.target = t
  <2>1. chosen \in changes
    BY <1>6
  <2>2. chosen.status # "cancelled"
    BY <2>1, ChangesAssumption DEF MutableStatus
  <2> QED BY <1>6, <2>2 DEF ChangedStatus
<1>7. ASSUME o.status = "cancelled" PROVE new = o
  <2>1. FrozenTarget(objectives, k) /\ \A i \in DOMAIN o.items : FrozenTarget(objectives, i)
    BY <1>4, <1>7 DEF FrozenTarget
  <2>2. NextObjectiveStatus(o, k, active) = o.status
    BY <1>3, <1>7, <2>1 DEF NextObjectiveStatus
  <2>3. status = o.status
    BY <1>3, <1>5, <2>1, <2>2
  <2>4. items = [i \in DOMAIN o.items |-> o.items[i]]
    BY <1>3, <1>5, <2>1
  <2>5. o.items = [i \in DOMAIN o.items |-> o.items[i]]
    BY <1>1 DEF IsObjective
  <2>6. o = [requirement |-> o.requirement, bps |-> o.bps, status |-> o.status,
             items |-> o.items]
    BY <1>1 DEF IsObjective
  <2> HIDE DEF o, status, items, new
  <2> QED BY <1>2, <2>3, <2>4, <2>5, <2>6
<1>8. ASSUME NEW i \in DOMAIN o.items
      PROVE  o.items[i] = "cancelled" <=> items[i] = "cancelled"
  <2>1. ASSUME o.items[i] = "cancelled" PROVE ~\E ch \in changes : ch.target = i
    BY <1>1, <1>3, <1>4, <2>1 DEF FrozenTarget
  <2>2. items[i] = ChangedStatus(changes, i, o.items[i])
    OBVIOUS
  <2> QED BY <1>5, <1>6, <2>1, <2>2
<1>9. new.items = items /\ DOMAIN items = DOMAIN o.items
  BY <1>2
<1> QED BY <1>7, <1>8, <1>9

(***************************************************************************)
(* Within one scope no target comes or goes, and what was cancelled stays  *)
(* cancelled and nothing else becomes so.                                  *)
(***************************************************************************)
THEOREM ScopeStaysFrozen == Spec => ScopeIsFrozen
<1> DEFINE Frozen ==
      SameScope =>
       /\ DOMAIN contract'.objectives = DOMAIN contract.objectives
       /\ \A k \in DOMAIN contract.objectives :
            LET old == contract.objectives[k]
                new == contract'.objectives[k]
            IN  /\ DOMAIN new.items = DOMAIN old.items
                /\ old.status = "cancelled" => new = old
                /\ \A i \in DOMAIN old.items :
                     old.items[i] = "cancelled" <=> new.items[i] = "cancelled"
<1>1. ASSUME TypeOK, Next, SameScope PROVE Frozen
  <2>1. CASE contract'.objectives = contract.objectives
    BY <2>1
  <2>2. CASE IsItemUpdate
    <3>1. IsChecklist(contract.objectives)
      BY <1>1 DEF TypeOK, SameScope, IsContract
    <3>2. PICK changes \in ChangeSets,
              active \in {"keep", "unset"} \cup DOMAIN contract.objectives :
            /\ ChangesError(contract.objectives, changes, active) = "none"
            /\ contract'.objectives = ChangedObjectives(contract.objectives, changes, active)
      BY <2>2 DEF IsItemUpdate
    <3>3. DOMAIN contract'.objectives = DOMAIN contract.objectives
      BY <3>2 DEF ChangedObjectives
    <3> QED BY <3>1, <3>2, <3>3, UpdateKeepsScope
  <2> QED BY <1>1, <2>1, <2>2, WithinScope
<1>2. TypeOK /\ [Next]_vars => [Frozen]_vars
  BY <1>1
<1>3. ScopeIsFrozen <=> [][Frozen]_vars
  BY DEF ScopeIsFrozen
<1> QED BY <1>2, <1>3, TypeCorrect, PTL DEF Spec

=============================================================================
