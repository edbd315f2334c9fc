---------------------------- MODULE GoalContract ----------------------------
(***************************************************************************)
(* The Goal Contract: the record of one tracked Goal or task, the progress *)
(* computed from it, the commands that change it and the replay of its     *)
(* events (packages/core/src/index.ts, packages/contracts/src/             *)
(* goal-contract.ts).  Everything here is a pure operator; the state       *)
(* machine built from them is GoalProgress.                                *)
(*                                                                         *)
(* A contract is a record with the fields                                  *)
(*   version      1 or 2, the schema version                               *)
(*   id           the Contract ID                                          *)
(*   kind         "native" (bound to a native Goal) or "task"              *)
(*   goal         the native Goal it is bound to, NoGoal for a task        *)
(*   native       the native Goal's status, "none" for a task              *)
(*   exploration  what an unscoped task has found so far                   *)
(*   acceptance   the task's final acceptance evidence: "none",            *)
(*                "reported" or "verified"                                 *)
(*   phase, revision, scopeRevision, updatedAt                             *)
(*   scopeNote    the scopeRevision lastScopeChange describes, 0 if none   *)
(*   correction   the revision of lastProgressCorrection, 0 if none        *)
(*   objectives   a function from objective ids to objectives              *)
(* Titles, texts and the evidence attached to single items are left out:   *)
(* they decide no transition.                                              *)
(***************************************************************************)
EXTENDS Integers, FiniteSets, FiniteSetsExt

CONSTANT NoGoal      \* the binding of a contract that tracks a task

BpsTotal == 10000
FinalVerificationCap == 9500

ItemStatus == {"pending", "active", "completed", "blocked", "cancelled"}
MutableStatus == ItemStatus \ {"cancelled"}
Phase == {"preparing", "active", "paused", "completed", "error"}
NativeStatus == {"active", "paused", "complete", "blocked"}
Verification == {"none", "reported", "verified"}

IsTask(c) == c.version = 2 /\ c.kind = "task"

-----------------------------------------------------------------------------
(* Progress                                                                *)

CountableItems(o) == {i \in DOMAIN o.items : o.items[i] # "cancelled"}
CompletedItems(o) == {i \in CountableItems(o) : o.items[i] = "completed"}

\* How many of how many results of an objective are complete.
Completion(o) ==
  IF o.status = "cancelled" THEN [completed |-> 0, countable |-> 1]
  ELSE IF CountableItems(o) = {}
       THEN [completed |-> IF o.status = "completed" THEN 1 ELSE 0, countable |-> 1]
       ELSE [completed |-> Cardinality(CompletedItems(o)),
             countable |-> Cardinality(CountableItems(o))]

Share(bps, done) == (bps * done.completed) \div done.countable

ObjectiveBps(o) == Share(BpsTotal, Completion(o))

Required(objectives) ==
  {k \in DOMAIN objectives : /\ objectives[k].status # "cancelled"
                             /\ objectives[k].requirement = "required"}

RequiredComplete(objectives) ==
  /\ Required(objectives) # {}
  /\ \A k \in Required(objectives) : ObjectiveBps(objectives[k]) = BpsTotal

RawProgress(objectives) ==
  LET Part(k) == Share(objectives[k].bps, Completion(objectives[k]))
      total == MapThenSumSet(Part, Required(objectives))
  IN  IF total > BpsTotal THEN BpsTotal ELSE total

\* A task is done when it was accepted with verified evidence, a native Goal
\* when Codex itself says so; both need every required result.
CompletionConfirmed(c) ==
  /\ RequiredComplete(c.objectives)
  /\ IF IsTask(c) THEN c.phase = "completed" /\ c.acceptance = "verified"
                  ELSE c.native = "complete"

\* Mutant: nothing is held back for the final verification.
DisplayUncapped(c) == IF CompletionConfirmed(c) THEN BpsTotal ELSE RawProgress(c.objectives)

DisplayProgress(c) ==
  IF CompletionConfirmed(c) THEN BpsTotal
  ELSE IF RawProgress(c.objectives) < FinalVerificationCap
       THEN RawProgress(c.objectives) ELSE FinalVerificationCap

FinalVerificationPending(c) ==
  RequiredComplete(c.objectives) /\ ~CompletionConfirmed(c)

CompletionAllowed(c, verification) ==
  IF IsTask(c) THEN RequiredComplete(c.objectives) /\ verification = "verified"
               ELSE CompletionConfirmed(c)

-----------------------------------------------------------------------------
(* The contract schema                                                     *)

ValidObjective(o, version) ==
  /\ o.requirement = "optional" => version = 2 /\ o.bps = 0
  /\ o.requirement = "required" /\ (version = 1 \/ o.status # "cancelled") => o.bps >= 1
  /\ o.status = "completed" => CountableItems(o) = CompletedItems(o)

\* What the schema calls a complete objective: by its items, not by shares.
ObjectiveDone(o) ==
  IF CountableItems(o) = {} THEN o.status = "completed"
                            ELSE CountableItems(o) = CompletedItems(o)

ValidScope(objectives, version) ==
  LET Weight(k) == objectives[k].bps
  IN  /\ \A k \in DOMAIN objectives : ValidObjective(objectives[k], version)
      /\ DOMAIN objectives # {} => MapThenSumSet(Weight, Required(objectives)) = BpsTotal

\* Mutant: a completed contract is not asked for its results.
ValidWithoutResults(c) ==
  /\ ValidScope(c.objectives, c.version)
  /\ IsTask(c) <=> (c.goal = NoGoal /\ c.native = "none")
  /\ DOMAIN c.objectives = {} => IsTask(c) \/ c.phase \in {"preparing", "error"}
  /\ c.scopeRevision <= c.revision /\ c.scopeNote = c.scopeRevision
  /\ c.correction <= c.revision
  /\ c.phase = "completed" =>
       IF IsTask(c) THEN c.acceptance = "verified" ELSE c.native = "complete"

ValidContract(c) ==
  /\ ValidScope(c.objectives, c.version)
  /\ IsTask(c) <=> (c.goal = NoGoal /\ c.native = "none")
  /\ DOMAIN c.objectives = {} => IsTask(c) \/ c.phase \in {"preparing", "error"}
  /\ c.scopeRevision <= c.revision
  /\ c.scopeNote = c.scopeRevision
  /\ c.correction <= c.revision
  /\ c.phase = "completed" =>
       /\ IF IsTask(c) THEN DOMAIN c.objectives # {} /\ c.acceptance = "verified"
                       ELSE c.native = "complete"
       /\ \A k \in Required(c.objectives) : ObjectiveDone(c.objectives[k])

-----------------------------------------------------------------------------
(* Outcomes of a command or of a replayed event                            *)

Rejected(code) == [ok |-> FALSE, code |-> code]
Accepted(c, e) == [ok |-> TRUE, contract |-> c, event |-> e]

\* Mutant: the changed contract does not pass its schema again.
Unchecked(candidate, e, code) == Accepted(candidate, e)

Checked(candidate, e, code) ==
  IF ValidContract(candidate) THEN Accepted(candidate, e) ELSE Rejected(code)

\* The envelope every event shares, numbered after the contract it changes, with
\* the payload added by the command.
Event(c, cmd, type, payload) ==
  [type |-> type, contractId |-> cmd.contractId, revision |-> c.revision + 1,
   occurredAt |-> cmd.occurredAt, source |-> cmd.source, payload |-> payload]

Stamped(c, revision, at) == [c EXCEPT !.revision = revision, !.updatedAt = at]

=============================================================================
