----------------------------- MODULE GoalReplay -----------------------------
(***************************************************************************)
(* Replay of persisted events (reduceGoalProgressEvent), the migration of  *)
(* schema v1 contracts, and the view model projected from a contract.      *)
(***************************************************************************)
EXTENDS GoalCommands

Replayed(candidate, e) == Checked(candidate, e, "INVALID_SCOPE")

InSequence(c, e, revision) ==
  /\ e.contractId = c.id
  /\ e.revision = revision
  /\ ~(e.occurredAt < c.updatedAt)

-----------------------------------------------------------------------------
(* Events that carry a whole contract                                      *)

ReplayInitialized(c, e) ==
  IF c # NoContract THEN Rejected("EVENT_SEQUENCE")
  ELSE IF e.payload.contract.id # e.contractId \/ e.payload.contract.revision # e.revision
       THEN Rejected("CONTRACT_MISMATCH")
  ELSE Accepted(e.payload.contract, e)

\* A native Goal is replaced by another one; a task only when it is over,
\* completed or detached by the user.
Replaceable(c, new, detached) ==
  \/ /\ ~IsTask(c) /\ ~IsTask(new)
     /\ new.goal # c.goal
  \/ /\ IsTask(c) \/ IsTask(new)
     /\ c.phase = "completed" \/ detached

ReplayReplaced(c, e) ==
  LET new == e.payload.contract
  IN  IF /\ c.version = 2
         /\ e.payload.previousId = c.id
         /\ e.payload.previousRevision = c.revision
         /\ e.contractId = new.id
         /\ e.revision = new.revision
         /\ new.revision = 1
         /\ new.id # c.id
         /\ Replaceable(c, new, e.payload.previousDetached)
         /\ ~(e.occurredAt < c.updatedAt)
      THEN Accepted(new, e)
      ELSE Rejected("EVENT_SEQUENCE")

ReplayMigrated(c, e) ==
  LET new == e.payload.contract
  IN  IF ~InSequence(c, e, c.revision) \/ c.version # 1 THEN Rejected("EVENT_SEQUENCE")
      ELSE IF new.id # c.id \/ new.revision # c.revision THEN Rejected("CONTRACT_MISMATCH")
      ELSE Accepted(new, e)

-----------------------------------------------------------------------------
(* Events that change the current contract                                 *)

ReplayExploration(c, e) ==
  IF ~IsTask(c) \/ DOMAIN c.objectives # {} THEN Rejected("INVALID_TRANSITION")
  ELSE Replayed([Stamped(c, e.revision, e.occurredAt) EXCEPT !.exploration = e.payload.exploration], e)

ReplayItems(c, e) ==
  LET error == ChangesError(c.objectives, e.payload.changes, e.payload.active)
      objectives == ChangedObjectives(c.objectives, e.payload.changes, e.payload.active)
  IN  IF error # "none" THEN Rejected(error)
      ELSE IF CorrectionMissing(c, objectives, e.source, e.payload.reason)
           THEN Rejected("CORRECTION_REASON_REQUIRED")
      ELSE Replayed([Stamped(c, e.revision, e.occurredAt) EXCEPT
                       !.objectives = objectives,
                       !.correction = Correction(c, objectives, e.revision),
                       !.phase      = PhaseAfterItems(c, objectives)], e)

\* A v1 contract knows no optional objectives.
ObjectivesForContract(c, objectives) ==
  IF c.version = 1
  THEN [k \in DOMAIN objectives |-> [objectives[k] EXCEPT !.requirement = "required"]]
  ELSE objectives

\* Mutant: replay keeps the acceptance the writer revoked.
ReplayRescopeKeeping(c, e) ==
  IF e.payload.scopeRevision # c.scopeRevision + 1 THEN Rejected("EVENT_SEQUENCE")
  ELSE Replayed([Stamped(c, e.revision, e.occurredAt) EXCEPT
                   !.objectives    = ObjectivesForContract(c, e.payload.objectives),
                   !.phase         = PhaseAfterRescope(c),
                   !.scopeRevision = e.payload.scopeRevision,
                   !.scopeNote     = e.payload.scopeRevision], e)

ReplayRescope(c, e) ==
  IF e.payload.scopeRevision # c.scopeRevision + 1 THEN Rejected("EVENT_SEQUENCE")
  ELSE Replayed([Stamped(c, e.revision, e.occurredAt) EXCEPT
                   !.acceptance    = IF IsTask(c) THEN "none" ELSE @,
                   !.objectives    = ObjectivesForContract(c, e.payload.objectives),
                   !.phase         = PhaseAfterRescope(c),
                   !.scopeRevision = e.payload.scopeRevision,
                   !.scopeNote     = e.payload.scopeRevision], e)

ReplayRetarget(c, e) ==
  IF \/ c.version # 2
     \/ e.payload.scopeRevision # c.scopeRevision + 1
     \/ ~e.payload.reason
     \/ c.goal = NoGoal
     \/ e.payload.goal = c.goal
  THEN Rejected("EVENT_SEQUENCE")
  ELSE Replayed([Stamped(c, e.revision, e.occurredAt) EXCEPT
                   !.goal          = e.payload.goal,
                   !.native        = e.payload.native,
                   !.objectives    = e.payload.objectives,
                   !.phase         = IF e.payload.native = "paused" THEN "paused" ELSE "active",
                   !.scopeRevision = e.payload.scopeRevision,
                   !.scopeNote     = e.payload.scopeRevision], e)

\* Replay accepts any phase of the transition table, "paused" of a native Goal
\* and "error" included: what may be asked for was decided when it was written.
ReplayPhase(c, e) ==
  IF \/ ~ValidPhaseTransition(c.phase, e.payload.phase)
     \/ e.payload.phase = "completed" /\ ~CompletionAllowed(c, e.payload.verification)
  THEN Rejected("INVALID_TRANSITION")
  ELSE Replayed([Stamped(c, e.revision, e.occurredAt) EXCEPT
                   !.phase      = e.payload.phase,
                   !.acceptance = IF IsTask(c) /\ e.payload.phase = "completed"
                                  THEN e.payload.verification ELSE @], e)

\* Mutant: replay does not see that a synchronisation completed the Goal.
ReplayNativeOnly(c, e) ==
  LET synced == [c EXCEPT !.native = e.payload.native,
                          !.phase  = PhaseFromNative(c, e.payload.native)]
  IN  IF c.goal = NoGoal \/ e.payload.goal.text # c.goal.text THEN Rejected("CONTRACT_MISMATCH")
      ELSE Replayed(Stamped(synced, e.revision, e.occurredAt), e)

ReplayNative(c, e) ==
  LET synced == [c EXCEPT !.native = e.payload.native,
                          !.phase  = PhaseFromNative(c, e.payload.native)]
  IN  IF c.goal = NoGoal \/ e.payload.goal.text # c.goal.text THEN Rejected("CONTRACT_MISMATCH")
      ELSE IF ~ValidContract(synced) THEN Rejected("INVALID_COMMAND")
      ELSE Replayed([Stamped(synced, e.revision, e.occurredAt) EXCEPT
                       !.phase = IF CompletionConfirmed(synced) THEN "completed" ELSE @], e)

\* reduceGoalProgressEvent.
Reduce(c, e) ==
  CASE e.type = "initialized"                          -> ReplayInitialized(c, e)
    [] e.type # "initialized" /\ c = NoContract        -> Rejected("EVENT_SEQUENCE")
    [] e.type = "replaced" /\ c # NoContract           -> ReplayReplaced(c, e)
    [] e.type = "migrated" /\ c # NoContract           -> ReplayMigrated(c, e)
    [] OTHER ->
       IF ~InSequence(c, e, c.revision + 1) THEN Rejected("EVENT_SEQUENCE")
       ELSE CASE e.type = "exploration-updated" -> ReplayExploration(c, e)
              [] e.type = "items-updated"       -> ReplayItems(c, e)
              [] e.type = "rescoped"            -> ReplayRescope(c, e)
              [] e.type = "retargeted"          -> ReplayRetarget(c, e)
              [] e.type = "phase-changed"       -> ReplayPhase(c, e)
              [] e.type = "native-synced"       -> ReplayNative(c, e)

-----------------------------------------------------------------------------
(* New and migrated contracts                                              *)

\* createModelContract and createTaskContract: the first revision.
NewContract(id, goal, native, objectives, at) ==
  [version |-> 2, id |-> id, kind |-> IF goal = NoGoal THEN "task" ELSE "native",
   goal |-> goal, native |-> native, exploration |-> "none", acceptance |-> "none",
   phase |-> IF native = "paused" THEN "paused" ELSE "active",
   revision |-> 1, scopeRevision |-> 0, scopeNote |-> 0, correction |-> 0,
   objectives |-> objectives, updatedAt |-> at]

\* migrateGoalContractV1ToV2, once the thread is known: the contract is bound
\* to the native Goal that exists now, if its text is still the same.
Migrated(c, goal, native) ==
  [c EXCEPT !.version = 2,
            !.goal    = goal,
            !.native  = native,
            !.phase   = IF native = "paused" THEN "paused"
                        ELSE IF c.phase = "paused" THEN "active" ELSE c.phase,
            !.objectives = [k \in DOMAIN @ |-> [@[k] EXCEPT !.requirement = "required"]]]

Migratable(c, goal, native) ==
  /\ c.version = 1
  /\ goal.text = c.goal.text
  /\ ValidContract(Migrated(c, goal, native))

-----------------------------------------------------------------------------
(* The view model                                                          *)

NoProgress == -1      \* overallProgressBps is null

\* Mutant: a finished native Goal is shown as completed whatever is left.
ViewPhaseOfGoal(c) ==
  CASE c.phase = "preparing"   -> "preparing"
    [] c.phase # "preparing" /\ c.native = "complete" -> "completed"
    [] c.phase # "preparing" /\ c.native \in {"paused", "blocked"} -> c.native
    [] OTHER -> IF c.phase = "error" /\ DOMAIN c.objectives = {} THEN "error" ELSE "active"

ViewPhase(c) ==
  CASE c.phase = "preparing"   -> "preparing"
    [] c.phase # "preparing" /\ CompletionConfirmed(c) -> "completed"
    [] OTHER ->
       IF (IsTask(c) /\ c.phase = "paused") \/ c.native = "paused" THEN "paused"
       ELSE IF c.native = "blocked" THEN "blocked"
       ELSE IF c.phase = "error" /\ DOMAIN c.objectives = {} THEN "error"
       ELSE "active"

TracksProgress(phase) == phase \in {"active", "paused", "blocked", "completed"}

\* projectGoalProgressViewModel, as far as the view schema constrains it.
View(c, detached) ==
  LET phase == IF detached THEN "detached" ELSE ViewPhase(c)
      tracks == TracksProgress(phase)
      scoped == ~(IsTask(c) /\ DOMAIN c.objectives = {})
  IN  [task       |-> IsTask(c),
       phase      |-> phase,
       progress   |-> IF tracks /\ scoped THEN DisplayProgress(c) ELSE NoProgress,
       pending    |-> tracks /\ FinalVerificationPending(c),
       objectives |-> IF tracks THEN {k \in DOMAIN c.objectives :
                                        c.objectives[k].status # "cancelled"} ELSE {},
       scopeRevision |-> c.scopeRevision,
       revision   |-> c.revision]

\* GoalProgressViewModelSchema: a view that fails it is never published.
ValidView(v) ==
  LET exploring == v.task /\ v.objectives = {}
      hasProgress == v.progress # NoProgress
  IN  /\ v.scopeRevision <= v.revision
      /\ exploring => ~hasProgress
      /\ TracksProgress(v.phase) => hasProgress \/ exploring
      /\ hasProgress => TracksProgress(v.phase) \/ v.phase = "error"
      /\ v.phase \in {"preparing", "error", "detached"} => v.objectives = {}
      /\ v.phase = "completed" => v.progress = BpsTotal /\ ~v.pending
      /\ v.pending => v.progress = FinalVerificationCap

=============================================================================
