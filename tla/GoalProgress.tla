---------------------------- MODULE GoalProgress ----------------------------
(***************************************************************************)
(* The life of the contract of one session: what the store's initialize,   *)
(* replace, persistMigrated and apply accept, one accepted event per step. *)
(* contract is what the writer computed and returned to the client;        *)
(* replayed holds what replay of the events written so far gives, the      *)
(* contract every later load starts from, and is empty when that replay    *)
(* fails (EVENT_LOG_CORRUPT).  A rejected command is no step.  built is a   *)
(* history variable: the revisions that the accepted commands of the       *)
(* contract named, in the order of their acceptance.                       *)
(***************************************************************************)
EXTENDS GoalReplay, Sequences

CONSTANTS
  Ids,              \* Contract IDs
  Goals,            \* native Goals, records [created, text]
  Scopes,           \* the checklists a client may declare, NoObjectives among them
  ChangeSets,       \* the item changes of one update-items command
  Times,            \* the clock readings a command may carry
  MaxRevision,      \* bound on the revisions of one contract
  ClockMayStepBack  \* may the wall clock run backwards between two writes?

NoObjectives == [k \in {} |-> k]

IsObjective(o) ==
  /\ o = [requirement |-> o.requirement, bps |-> o.bps, status |-> o.status, items |-> o.items]
  /\ o.requirement \in {"required", "optional"} /\ o.bps \in 0..BpsTotal
  /\ o.status \in ItemStatus
  /\ IsFiniteSet(DOMAIN o.items) /\ o.items \in [DOMAIN o.items -> ItemStatus]

\* An item's id extends the id of its objective: a target has one owner.
IsChecklist(objectives) ==
  /\ IsFiniteSet(DOMAIN objectives)
  /\ objectives = [k \in DOMAIN objectives |-> objectives[k]]
  /\ \A k \in DOMAIN objectives : IsObjective(objectives[k])
  /\ \A k, l \in DOMAIN objectives :
       /\ k \notin DOMAIN objectives[l].items
       /\ k # l => DOMAIN objectives[k].items \cap DOMAIN objectives[l].items = {}

ASSUME ScopesAssumption == \A s \in Scopes : IsChecklist(s)
ASSUME ChangesAssumption ==
  \A changes \in ChangeSets : \A ch \in changes : ch.status \in MutableStatus
ASSUME RevisionAssumption == MaxRevision \in Nat \ {0}

VARIABLES contract, replayed, built

vars == <<contract, replayed, built>>

-----------------------------------------------------------------------------
(* Writing an event: the store appends it, a later load replays it.        *)

Recorded(e) == {Reduce(c, e).contract : c \in {d \in replayed : Reduce(d, e).ok}}

Write(new, e) == contract' = new /\ replayed' = Recorded(e)

\* The first event of a contract; no command has been built on it yet.
Found(new, e) == Write(new, e) /\ built' = <<>>

Carrying(type, new, at, payload) ==
  [type |-> type, contractId |-> new.id, revision |-> new.revision,
   occurredAt |-> at, source |-> "model", payload |-> payload]

\* A checklist for a native Goal, an exploration or a checklist for a task.
FirstContracts(id, at) ==
  {NewContract(id, NoGoal, "none", s, at) : s \in Scopes}
    \cup {NewContract(id, g, n, s, at) : g \in Goals, n \in NativeStatus, s \in Scopes}

Initialize(id, at) ==
  /\ contract = NoContract
  /\ \E new \in FirstContracts(id, at) :
       /\ ValidContract(new)
       /\ Found(new, Carrying("initialized", new, at, [contract |-> new]))

\* The log an earlier release left behind: a v1 contract in any valid state.
Legacy(id, at) ==
  /\ contract = NoContract
  /\ \E g \in Goals, n \in NativeStatus, s \in Scopes, p \in Phase :
       LET old == [NewContract(id, g, n, s, at) EXCEPT !.version = 1, !.phase = p]
       IN  /\ ValidContract(old)
           /\ Found(old, Carrying("initialized", old, at, [contract |-> old]))

\* A rescope an earlier release wrote after it.
LegacyRescope(s, at) ==
  /\ contract # NoContract /\ contract.version = 1 /\ contract.revision < MaxRevision
  /\ at >= contract.updatedAt
  /\ LET e == [Carrying("rescoped", contract, at,
                        [objectives |-> s, scopeRevision |-> contract.scopeRevision + 1])
                 EXCEPT !.revision = @ + 1]
         r == Reduce(contract, e)
     IN  r.ok /\ Write(r.contract, e) /\ UNCHANGED built

Migrate(g, n, at) ==
  /\ contract # NoContract
  /\ Migratable(contract, g, n)
  /\ ClockMayStepBack \/ ~(at < contract.updatedAt)
  /\ LET new == Migrated(contract, g, n)
     IN  Write(new, Carrying("migrated", new, at, [contract |-> new])) /\ UNCHANGED built

Replace(id, at, detached) ==
  /\ contract # NoContract
  /\ \E new \in FirstContracts(id, at) :
       LET e == Carrying("replaced", new, at,
                         [contract |-> new, previousId |-> contract.id,
                          previousRevision |-> contract.revision,
                          previousDetached |-> detached])
           r == Reduce(contract, e)
       IN  ValidContract(new) /\ r.ok /\ Found(r.contract, e)

-----------------------------------------------------------------------------
(* Commands: each may name a stale revision or another contract.           *)

Submit(cmd) ==
  LET r == Apply(contract, cmd)
  IN  r.ok /\ Write(r.contract, r.event) /\ built' = Append(built, cmd.expectedRevision)

Addressed(type, at, source, args) ==
  {[type |-> type, contractId |-> id, expectedRevision |-> rev, occurredAt |-> at,
    source |-> source, args |-> args] :
     id \in Ids, rev \in {contract.revision, contract.revision - 1}}

Open == contract # NoContract /\ contract.revision < MaxRevision

UpdateExploration(at) ==
  /\ Open
  /\ \E x \in {"none", "found"} :
       \E cmd \in Addressed("update-exploration", at, "model", [exploration |-> x]) : Submit(cmd)

UpdateItems(at) ==
  /\ Open
  /\ \E source \in {"model", "user"}, changes \in ChangeSets, reason \in BOOLEAN,
        active \in {"keep", "unset"} \cup DOMAIN contract.objectives :
       \E cmd \in Addressed("update-items", at, source,
                            [changes |-> changes, active |-> active, reason |-> reason]) :
         Submit(cmd)

Rescope(at) ==
  /\ Open
  /\ \E s \in Scopes, reason \in BOOLEAN :
       \E cmd \in Addressed("rescope", at, "model", [objectives |-> s, reason |-> reason]) :
         Submit(cmd)

Retarget(at) ==
  /\ Open
  /\ \E g \in Goals, n \in NativeStatus, s \in Scopes, reason \in BOOLEAN :
       \E cmd \in Addressed("retarget-rescope", at, "system",
                            [goal |-> g, native |-> n, objectives |-> s, reason |-> reason]) :
         Submit(cmd)

SetPhase(at) ==
  /\ Open
  /\ \E p \in Phase, v \in Verification :
       \E cmd \in Addressed("set-phase", at, "model", [phase |-> p, verification |-> v]) :
         Submit(cmd)

SyncNativeGoal(at) ==
  /\ Open
  /\ \E g \in Goals, n \in NativeStatus :
       \E cmd \in Addressed("sync-native-goal", at, "system", [goal |-> g, native |-> n]) :
         Submit(cmd)

Init == contract = NoContract /\ replayed = {NoContract} /\ built = <<>>

Next ==
  \E at \in Times :
    \/ \E id \in Ids : Initialize(id, at) \/ Legacy(id, at)
    \/ \E s \in Scopes : LegacyRescope(s, at)
    \/ \E g \in Goals, n \in NativeStatus : Migrate(g, n, at)
    \/ \E id \in Ids, detached \in BOOLEAN : Replace(id, at, detached)
    \/ UpdateExploration(at)
    \/ UpdateItems(at)
    \/ Rescope(at)
    \/ Retarget(at)
    \/ SetPhase(at)
    \/ SyncNativeGoal(at)

Spec == Init /\ [][Next]_vars

-----------------------------------------------------------------------------
(* Properties                                                              *)

IsContract(c) ==
  /\ DOMAIN c = {"version", "id", "kind", "goal", "native", "exploration", "acceptance",
                 "phase", "revision", "scopeRevision", "scopeNote", "correction",
                 "objectives", "updatedAt"}
  /\ c.version \in {1, 2} /\ c.id \in Ids /\ c.kind \in {"native", "task"}
  /\ c.goal \in Goals \cup {NoGoal} /\ c.native \in NativeStatus \cup {"none"}
  /\ c.exploration \in {"none", "found"} /\ c.acceptance \in Verification
  /\ c.phase \in Phase
  /\ c.revision \in 1..MaxRevision /\ c.scopeRevision \in 0..MaxRevision
  /\ c.scopeNote \in 0..MaxRevision /\ c.correction \in 0..MaxRevision
  /\ c.updatedAt \in Times
  /\ IsChecklist(c.objectives)

\* Whatever was accepted is a well-formed contract that its own schema accepts.
TypeOK ==
  contract # NoContract => IsContract(contract) /\ ValidContract(contract)

\* The contract a writer computed, returned and published is the one that the
\* next load computes from the events: the two implementations of every
\* transition, applyGoalProgressCommand and reduceGoalProgressEvent, agree,
\* and nothing is appended that replay refuses.
ReplayAgrees == replayed = {contract}

\* docs/ARCHITECTURE.md:29 promises a snapshot that can be rebuilt from the
\* events: their replay always gives a contract.
SnapshotIsRebuildable == replayed # {}

\* A contract in phase "completed" is one whose progress calculation confirms
\* completion: the schema counts finished items, the calculation floors
\* shares of basis points, and the phase is set in four different places.
CompletionIsEarned ==
  contract # NoContract /\ contract.phase = "completed" => CompletionConfirmed(contract)

\* Every contract that can be stored can be shown: the projected view model
\* passes its schema, detached by the user or not, so no state of the session
\* makes the Helper's projection throw.
ViewsAreValid ==
  contract # NoContract =>
    \A detached \in BOOLEAN : ValidView(View(contract, detached))

SameScope ==
  /\ contract # NoContract
  /\ contract'.id = contract.id
  /\ contract'.scopeRevision = contract.scopeRevision

\* Within one scope the computed progress never goes down without a recorded
\* correction of that very revision.
NoSilentRegression ==
  [][SameScope /\ RawProgress(contract'.objectives) < RawProgress(contract.objectives)
       => contract'.correction = contract'.revision]_vars

\* Within one scope no target appears or disappears, and what was cancelled
\* stays cancelled: only a new scope revises the checklist.
ScopeIsFrozen ==
  [][SameScope =>
       /\ DOMAIN contract'.objectives = DOMAIN contract.objectives
       /\ \A k \in DOMAIN contract.objectives :
            LET old == contract.objectives[k]
                new == contract'.objectives[k]
            IN  /\ DOMAIN new.items = DOMAIN old.items
                /\ old.status = "cancelled" => new = old
                /\ \A i \in DOMAIN old.items :
                     old.items[i] = "cancelled" <=> new.items[i] = "cancelled"]_vars

\* Of the commands that clients build on one revision of a contract at most one
\* is ever accepted, whatever was accepted before and between: no write is made
\* over a write its client never saw (core/src/index.ts:844).
NoTwoOnOneRevision ==
  \A i, j \in DOMAIN built : i # j => built[i] # built[j]

\* The acceptance a task earned with one checklist never completes another:
\* once its scope changes it must be accepted again.
AcceptanceIsRevoked ==
  [][contract # NoContract /\ contract'.id = contract.id
       /\ contract'.scopeRevision # contract.scopeRevision /\ IsTask(contract)
       => ~CompletionConfirmed(contract') /\ contract'.acceptance = "none"]_vars

=============================================================================
