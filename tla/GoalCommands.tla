---------------------------- MODULE GoalCommands ----------------------------
(***************************************************************************)
(* How a command changes a contract (applyGoalProgressCommand).  A command *)
(* is a record [type, contractId, expectedRevision, occurredAt, source,    *)
(* args]; what it accepts is the new contract and the event to persist.    *)
(* The source builds the new contract a second time when the event is      *)
(* replayed: GoalReplay, and GoalProgress checks that the two agree.       *)
(***************************************************************************)
EXTENDS GoalContract

CONSTANT NoContract      \* the state of a session before its first event

-----------------------------------------------------------------------------
(* Item changes, shared by both paths.                                     *)
(* changes is a set of [target, status]; active is the new active          *)
(* objective, "unset" for null, "keep" when the command does not say.      *)

\* The objectives (at most one in a valid contract) that own a target.
Owners(objectives, t) ==
  {k \in DOMAIN objectives : k = t \/ t \in DOMAIN objectives[k].items}

\* Mutant: only a cancelled item is frozen.
FrozenItem(objectives, t) ==
  \E k \in Owners(objectives, t) : k # t /\ objectives[k].items[t] = "cancelled"

FrozenTarget(objectives, t) ==
  \E k \in Owners(objectives, t) :
     \/ objectives[k].status = "cancelled"
     \/ k # t /\ objectives[k].items[t] = "cancelled"

ChangesError(objectives, changes, active) ==
  CASE changes = {} -> "INVALID_COMMAND"
    [] \E a, b \in changes : a # b /\ a.target = b.target -> "DUPLICATE_TARGET"
    [] \E ch \in changes : Owners(objectives, ch.target) = {} -> "TARGET_NOT_FOUND"
    [] \E ch \in changes : FrozenTarget(objectives, ch.target) -> "CANCELLED_TARGET"
    [] active \notin {"keep", "unset"} \cup DOMAIN objectives -> "TARGET_NOT_FOUND"
    [] active \in DOMAIN objectives /\ FrozenTarget(objectives, active) -> "CANCELLED_TARGET"
    [] OTHER -> "none"

ChangedStatus(changes, t, unchanged) ==
  IF \E ch \in changes : ch.target = t
  THEN (CHOOSE ch \in changes : ch.target = t).status
  ELSE unchanged

NextObjectiveStatus(o, k, active) ==
  IF active = k THEN "active"
  ELSE IF active # "keep" /\ o.status = "active" THEN "pending"
  ELSE o.status

ChangedObjectives(objectives, changes, active) ==
  [k \in DOMAIN objectives |->
     [objectives[k] EXCEPT
        !.status = ChangedStatus(changes, k, NextObjectiveStatus(objectives[k], k, active)),
        !.items  = [i \in DOMAIN @ |-> ChangedStatus(changes, i, @[i])]]]

\* A drop of the computed progress needs a reason; the user's own does.
CorrectionMissing(c, objectives, source, reason) ==
  /\ RawProgress(objectives) < RawProgress(c.objectives)
  /\ ~reason /\ source # "user"

\* Mutant: the correction names the revision before it.
CorrectionBefore(c, objectives, revision) ==
  IF RawProgress(objectives) < RawProgress(c.objectives) THEN c.revision ELSE c.correction

Correction(c, objectives, revision) ==
  IF RawProgress(objectives) < RawProgress(c.objectives) THEN revision ELSE c.correction

PhaseAfterItems(c, objectives) ==
  IF RequiredComplete(objectives) /\ c.native = "complete" THEN "completed" ELSE c.phase

ValidPhaseTransition(from, to) ==
  \/ from = to
  \/ to \in CASE from = "preparing" -> {"active", "error"}
              [] from = "active"    -> {"paused", "completed", "error"}
              [] from = "paused"    -> {"active", "completed", "error"}
              [] from = "completed" -> {"active", "error"}
              [] from = "error"     -> {"preparing", "active"}

PhaseAfterRescope(c) ==
  IF (IsTask(c) /\ c.phase = "paused") \/ c.native = "paused" THEN "paused" ELSE "active"

\* The phase a contract takes from the native Goal, before completion.
PhaseFromNative(c, status) ==
  IF status = "paused" THEN "paused"
  ELSE IF c.phase = "paused" \/ (c.phase = "completed" /\ status # "complete") THEN "active"
  ELSE c.phase

-----------------------------------------------------------------------------
(* Commands                                                                *)

ApplyExploration(c, cmd) ==
  IF ~IsTask(c) \/ DOMAIN c.objectives # {} THEN Rejected("INVALID_TRANSITION")
  ELSE Checked([Stamped(c, c.revision + 1, cmd.occurredAt) EXCEPT
                  !.exploration = cmd.args.exploration],
               Event(c, cmd, "exploration-updated", cmd.args), "INVALID_COMMAND")

ApplyItems(c, cmd) ==
  LET a == cmd.args
      error == ChangesError(c.objectives, a.changes, a.active)
      objectives == ChangedObjectives(c.objectives, a.changes, a.active)
  IN  IF error # "none" THEN Rejected(error)
      ELSE IF CorrectionMissing(c, objectives, cmd.source, a.reason)
           THEN Rejected("CORRECTION_REASON_REQUIRED")
      ELSE Checked([Stamped(c, c.revision + 1, cmd.occurredAt) EXCEPT
                      !.objectives = objectives,
                      !.correction = Correction(c, objectives, c.revision + 1),
                      !.phase      = PhaseAfterItems(c, objectives)],
                   Event(c, cmd, "items-updated", a), "INVALID_COMMAND")

\* Mutant: the new checklist inherits the acceptance of the old one.
RescopeKeepingAcceptance(c, cmd) ==
  IF ~cmd.args.reason THEN Rejected("INVALID_SCOPE")
  ELSE Checked([Stamped(c, c.revision + 1, cmd.occurredAt) EXCEPT
                  !.objectives    = cmd.args.objectives,
                  !.phase         = PhaseAfterRescope(c),
                  !.scopeRevision = c.scopeRevision + 1,
                  !.scopeNote     = c.scopeRevision + 1],
               Event(c, cmd, "rescoped", [objectives    |-> cmd.args.objectives,
                                       scopeRevision |-> c.scopeRevision + 1]),
               "INVALID_SCOPE")

ApplyRescope(c, cmd) ==
  IF ~cmd.args.reason THEN Rejected("INVALID_SCOPE")
  ELSE Checked([Stamped(c, c.revision + 1, cmd.occurredAt) EXCEPT
                  !.acceptance    = IF IsTask(c) THEN "none" ELSE @,
                  !.objectives    = cmd.args.objectives,
                  !.phase         = PhaseAfterRescope(c),
                  !.scopeRevision = c.scopeRevision + 1,
                  !.scopeNote     = c.scopeRevision + 1],
               Event(c, cmd, "rescoped", [objectives    |-> cmd.args.objectives,
                                       scopeRevision |-> c.scopeRevision + 1]),
               "INVALID_SCOPE")

ApplyRetarget(c, cmd) ==
  LET a == cmd.args
  IN  CASE c.goal = NoGoal                  -> Rejected("INVALID_TRANSITION")
        [] c.goal # NoGoal /\ (~a.reason \/ a.goal = c.goal) -> Rejected("INVALID_SCOPE")
        [] OTHER ->
           Checked([Stamped(c, c.revision + 1, cmd.occurredAt) EXCEPT
                      !.goal          = a.goal,
                      !.native        = a.native,
                      !.objectives    = a.objectives,
                      !.phase         = IF a.native = "paused" THEN "paused" ELSE "active",
                      !.scopeRevision = c.scopeRevision + 1,
                      !.scopeNote     = c.scopeRevision + 1],
                   Event(c, cmd, "retargeted",
                         [goal |-> a.goal, native |-> a.native, objectives |-> a.objectives,
                          scopeRevision |-> c.scopeRevision + 1, reason |-> a.reason]),
                   "INVALID_SCOPE")

ApplyPhase(c, cmd) ==
  LET a == cmd.args
  IN  IF \/ ~IsTask(c) /\ a.phase = "paused"
         \/ a.phase = "error"
         \/ ~ValidPhaseTransition(c.phase, a.phase)
         \/ a.phase = "completed" /\ ~CompletionAllowed(c, a.verification)
      THEN Rejected("INVALID_TRANSITION")
      ELSE Checked([Stamped(c, c.revision + 1, cmd.occurredAt) EXCEPT
                      !.phase      = a.phase,
                      !.acceptance = IF IsTask(c) /\ a.phase = "completed"
                                     THEN a.verification ELSE @],
                   Event(c, cmd, "phase-changed", a), "INVALID_COMMAND")

ApplyNative(c, cmd) ==
  LET a == cmd.args
      synced == [c EXCEPT !.native = a.native, !.phase = PhaseFromNative(c, a.native)]
  IN  IF c.goal = NoGoal \/ a.goal.text # c.goal.text THEN Rejected("CONTRACT_MISMATCH")
      ELSE IF ~ValidContract(synced) THEN Rejected("INVALID_COMMAND")
      ELSE Checked([Stamped(synced, c.revision + 1, cmd.occurredAt) EXCEPT
                      !.phase = IF CompletionConfirmed(synced) THEN "completed" ELSE @],
                   Event(c, cmd, "native-synced", a), "INVALID_COMMAND")

\* Mutant: a command may be built on a revision that is no longer current.
ApplyToAnyRevision(c, cmd) ==
  CASE c.version # 2 \/ ~ValidContract(c)   -> Rejected("INVALID_COMMAND")
    [] cmd.contractId # c.id                -> Rejected("CONTRACT_MISMATCH")
    [] cmd.occurredAt < c.updatedAt         -> Rejected("INVALID_COMMAND")
    [] OTHER ->
       CASE cmd.type = "update-exploration" -> ApplyExploration(c, cmd)
         [] cmd.type = "update-items"       -> ApplyItems(c, cmd)
         [] cmd.type = "rescope"            -> ApplyRescope(c, cmd)
         [] cmd.type = "retarget-rescope"   -> ApplyRetarget(c, cmd)
         [] cmd.type = "set-phase"          -> ApplyPhase(c, cmd)
         [] cmd.type = "sync-native-goal"   -> ApplyNative(c, cmd)

\* applyGoalProgressCommand: the checks every command passes, then its own.
Apply(c, cmd) ==
  CASE c.version # 2 \/ ~ValidContract(c)   -> Rejected("INVALID_COMMAND")
    [] cmd.contractId # c.id                -> Rejected("CONTRACT_MISMATCH")
    [] cmd.expectedRevision # c.revision    -> Rejected("REVISION_CONFLICT")
    [] cmd.occurredAt < c.updatedAt         -> Rejected("INVALID_COMMAND")
    [] OTHER ->
       CASE cmd.type = "update-exploration" -> ApplyExploration(c, cmd)
         [] cmd.type = "update-items"       -> ApplyItems(c, cmd)
         [] cmd.type = "rescope"            -> ApplyRescope(c, cmd)
         [] cmd.type = "retarget-rescope"   -> ApplyRetarget(c, cmd)
         [] cmd.type = "set-phase"          -> ApplyPhase(c, cmd)
         [] cmd.type = "sync-native-goal"   -> ApplyNative(c, cmd)

=============================================================================
