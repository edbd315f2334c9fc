---------------------------- MODULE GoalSession ----------------------------
(***************************************************************************)
(* The Helper's handlers for one thread (host/src/index.ts): what several  *)
(* of them in flight do between their awaits.  They share the stored       *)
(* contract, the files overlay.json and activation.json, the Goal being    *)
(* prepared and the delivery of views.  One operation of the event store   *)
(* is one step (GoalEventStore says why), and so is one read or write of a *)
(* file and one answer of Codex.                                           *)
(***************************************************************************)
EXTENDS Naturals, FiniteSets

CONSTANTS MaxWorkers,   \* handlers in flight at the same time
          MaxGoal,      \* native Goals, numbered as Codex creates them
          MaxRevision,
          Ids,          \* contract ids that clients may choose
          NoContract,
          Starts,       \* contract, Goal in Codex and files at the start
          Requests,     \* how many requests a behaviour has
          GoalChanges,  \* how often the Goal in Codex changes
          Crashes       \* how often the Helper dies

Workers == 1..MaxWorkers
NoGoal  == 0
Goals   == NoGoal..MaxGoal

UserReasons == {"user-dismissed-preparation", "user-detached-tracking"}
GoalReasons == {"native-goal-ended", "native-goal-replaced", "stale-contract"}
Reasons     == {"absent", "none"} \cup UserReasons \cup GoalReasons

Natives   == [goal : 1..MaxGoal, status : {"active", "complete", "ended"}]
Contracts == [id : Ids, revision : 1..MaxRevision, goal : Goals, complete : BOOLEAN,
              done : BOOLEAN]

ASSUME SessionAssumption ==
  /\ {MaxWorkers, MaxGoal, MaxRevision} \subseteq Nat \ {0}
  /\ {Requests, GoalChanges, Crashes} \subseteq Nat
  /\ NoContract \notin Contracts
  /\ Starts \subseteq [contract : Contracts \cup {NoContract}, native : Natives,
                       overlay : BOOLEAN, activation : Reasons]

VARIABLES
  contract,    \* the contract of the thread in the event store
  native,      \* the newest Goal in Codex, which may have ended
  overlay,     \* overlay.json: detached
  activation,  \* activation.json: the reason for detaching; absent: no file
  preparing,   \* #preparingObjectives
  pending,     \* #pendingUiDelivery
  delivering,  \* the view that the drain loop has taken; NoView: it is not running
  shown,       \* what the page shows
  offered,     \* history: the view published last
  op,          \* the handlers in flight
  kept,        \* history: the user detached while nothing else was in flight
  requests, changes, crashes  \* budgets left

files == <<overlay, activation>>
ui    == <<pending, delivering, shown, offered>>
env   == <<native, requests, changes, crashes>>
vars  == <<contract, files, preparing, ui, op, kept, env>>

-----------------------------------------------------------------------------
(* Contracts, Goals and views                                              *)

Active(c) == c # NoContract /\ ~c.done
IsTask(c) == c # NoContract /\ c.goal = NoGoal

\* What thread/goal/get answers.
Answer(n) == IF n.status = "ended" THEN [goal |-> NoGoal, complete |-> FALSE]
             ELSE [goal |-> n.goal, complete |-> n.status = "complete"]
NoAnswer  == [goal |-> NoGoal, complete |-> TRUE]

\* Mutant: only the end of a Goal unbinds its contract.
UnboundWhenEnded(c, a) == a.goal = NoGoal

\* assertBoundNativeGoal fails with a code that detaches the contract.
Unbound(c, a) == a.goal # c.goal

DetachReason(a) == IF a.goal = NoGoal THEN "native-goal-ended" ELSE "native-goal-replaced"

\* #rememberChangedGoalPreparation, which comes before the detaching.
Remember(a) == preparing' = IF a.goal = NoGoal THEN preparing ELSE a.goal

NoView == [phase |-> "none", id |-> NoContract, revision |-> 0]
Transient(phase) == [NoView EXCEPT !.phase = phase]

\* Mutant: the view counts the command that is expected next.
NextView(c, detached) ==
  [phase |-> IF detached THEN "detached" ELSE IF c.done THEN "completed" ELSE "active",
   id |-> c.id, revision |-> c.revision + 1]

View(c, detached) ==
  [phase |-> IF detached THEN "detached" ELSE IF c.done THEN "completed" ELSE "active",
   id |-> c.id, revision |-> c.revision]

Views == {NoView, Transient("preparing"), Transient("error")}
         \cup [phase : {"active", "completed", "detached", "error"}, id : Ids,
                revision : 1..MaxRevision]

\* Mutant: a view that arrives while another one is delivered is dropped.
PublishIfIdle(v) ==
  /\ offered' = v
  /\ delivering' = IF delivering = NoView THEN v ELSE delivering
  /\ UNCHANGED <<pending, shown>>

\* #publishVerified: the drain loop starts in the same turn, or finds the view
\* when it has delivered the one it has.
Publish(v) ==
  /\ offered' = v
  /\ IF delivering = NoView
     THEN delivering' = v /\ UNCHANGED pending
     ELSE pending' = v /\ UNCHANGED delivering
  /\ UNCHANGED shown

\* ViewModelPublisher.clear does not go through the drain loop.
ClearView == shown' = NoView /\ UNCHANGED <<pending, delivering, offered>>

\* #publishPreparing.
PublishPreparing(goal) == preparing' = goal /\ Publish(Transient("preparing"))

-----------------------------------------------------------------------------
(* Handlers: the place of each names the await it is at                    *)

EntryOf ==
  [initTask  |-> "initOverlay",  initGoal     |-> "initOverlay",
   update    |-> "applyOverlay", rescope      |-> "applyOverlay",
   startTask |-> "activateLoad", startGoal    |-> "activateLoad",
   get       |-> "getLoad",      resume       |-> "resumeLoad",
   usage     |-> "syncLoad",     completed    |-> "completedLoad",
   detach    |-> "uiLoad",       retry        |-> "uiLoad"]
Kinds == DOMAIN EntryOf

\* Requests by which a user or a model takes a detached thread up again.
Reopening == {"initTask", "startGoal", "retry"}

Idle == [kind |-> "none", at |-> "idle", ret |-> "idle", back |-> "idle",
         seen |-> NoContract, sub |-> NoContract, off |-> FALSE, cur |-> FALSE, answer |-> NoAnswer,
         stale |-> FALSE, reason |-> "none", alone |-> FALSE, during |-> {}]

Busy        == {w \in Workers : op[w].at # "idle"}
At(w, here) == op[w].at = here
Go(w, next) == op' = [op EXCEPT ![w].at = next]
End(w)      == op' = [op EXCEPT ![w] = Idle]
Return(w, place) == IF place = "end" THEN End(w) ELSE Go(w, place)

\* The routines that handlers share go on at ret (reading and synchronising)
\* or at back (detaching and attaching).  They work on sub and cur; seen and off
\* are what the handler itself has read.  Stale: Codex did not answer the read
\* of the Goal that came last, or not anew.
Call(w, place, ret)     == op' = [op EXCEPT ![w].at = place, ![w].ret = ret]
CallAttach(w, back)     == op' = [op EXCEPT ![w].at = "attachReason", ![w].back = back]
CallDetach(w, why, back) ==
  op' = [op EXCEPT ![w].at = "detachRead", ![w].reason = why, ![w].back = back]

OnlyOp    == UNCHANGED <<contract, files, preparing, ui, kept, env>>
NotFiles  == UNCHANGED <<contract, preparing, ui, kept, env>>
Published == UNCHANGED <<contract, files, preparing, kept, env>>

Load(w, here, next) ==
  At(w, here) /\ op' = [op EXCEPT ![w].seen = contract, ![w].at = next] /\ OnlyOp

ReadOverlay(w, here, next) ==
  At(w, here) /\ op' = [op EXCEPT ![w].off = overlay, ![w].at = next] /\ OnlyOp

\* #activationStateForOverlay: a thread detached by a release that had no
\* activation file was detached by the user, which a write of its own records.
Migrating ==
  [initReason      |-> "initMigrate",      applyReason   |-> "applyMigrate",
   resumeReason    |-> "resumeMigrate",    taskReason    |-> "taskMigrate",
   matchedReason   |-> "matchedMigrate",   reconcile     |-> "reconcileMigrate",
   completedReason |-> "completedMigrate"]

StartMigration(w) ==
  /\ op[w].at \in DOMAIN Migrating
  /\ At(w, "reconcile") \/ op[w].off
  /\ activation = "absent"
  /\ Go(w, Migrating[op[w].at]) /\ OnlyOp

ReadReason(w, here, off) ==
  /\ \/ At(w, here) /\ ~(off /\ activation = "absent") /\ UNCHANGED activation
     \/ At(w, Migrating[here]) /\ activation' = "user-detached-tracking"
  /\ UNCHANGED overlay

-----------------------------------------------------------------------------
(* #detachTracking, and the two writes that take a thread up again         *)

DetachRead(w) ==
  /\ At(w, "detachRead")
  /\ op' = [op EXCEPT ![w].cur = overlay, ![w].at = "detachDecide"]
  /\ OnlyOp

AlreadyDetached(w) == op[w].cur /\ activation \in {op[w].reason} \cup UserReasons

DetachDecide(w) ==
  /\ At(w, "detachDecide")
  /\ IF AlreadyDetached(w) THEN Return(w, op[w].back) ELSE Go(w, "detachReason")
  /\ OnlyOp

DetachReasonFile(w) ==
  /\ At(w, "detachReason")
  /\ activation' = op[w].reason
  /\ Go(w, "detachOverlay")
  /\ UNCHANGED overlay /\ NotFiles

DetachOverlayFile(w) ==
  /\ At(w, "detachOverlay")
  /\ overlay' = TRUE
  /\ IF op[w].back = "end" THEN End(w)
     ELSE op' = [op EXCEPT ![w].cur = TRUE, ![w].at = op[w].back]
  /\ UNCHANGED activation /\ NotFiles

\* Mutant: a thread is taken up again by its reason alone.
AttachReasonOnly(w) ==
  /\ At(w, "attachReason")
  /\ activation' = "none"
  /\ Go(w, op[w].back)
  /\ UNCHANGED overlay /\ NotFiles

\* initialize leaves the overlay alone if it was not detached at the beginning.
AttachReasonFile(w) ==
  /\ At(w, "attachReason")
  /\ activation' = "none"
  /\ Go(w, IF op[w].back = "initPublish" /\ ~op[w].off THEN "initPublish" ELSE "attachOverlay")
  /\ UNCHANGED overlay /\ NotFiles

\* A retargeted contract goes on to the refresh, and is no longer prepared.
AttachOverlayFile(w) ==
  LET retargeted == op[w].back = "refreshLoad"
  IN  /\ At(w, "attachOverlay")
      /\ overlay' = FALSE
      /\ IF op[w].back = "end" THEN End(w)
         ELSE op' = [op EXCEPT ![w].off = ~retargeted /\ @, ![w].cur = FALSE,
                               ![w].at = op[w].back]
      /\ preparing' = IF retargeted THEN NoGoal ELSE preparing
      /\ UNCHANGED <<contract, activation, ui, kept, env>>

-----------------------------------------------------------------------------
(* #refreshUsage, #syncNativeGoalStatus and #overlayForCurrentNativeGoal    *)

RefreshLoad(w) ==
  /\ At(w, "refreshLoad")
  /\ IF IsTask(contract) THEN Return(w, op[w].ret) ELSE Go(w, "refreshGoal")
  /\ OnlyOp

\* A read that fails becomes a stale snapshot, whose Goal nobody looks at.
RefreshGoal(w) ==
  /\ At(w, "refreshGoal")
  /\ \E fails \in BOOLEAN :
       op' = [op EXCEPT ![w].answer = IF fails THEN NoAnswer ELSE Answer(native),
                        ![w].stale = fails, ![w].at = "syncLoad"]
  /\ OnlyOp

SyncLoad(w) ==
  /\ At(w, "syncLoad")
  /\ IF contract = NoContract THEN Return(w, op[w].ret)
     ELSE op' = [op EXCEPT ![w].sub = contract,
                           ![w].at = IF op[w].stale THEN "current" ELSE "syncOverlay"]
  /\ OnlyOp

SyncOverlay(w) ==
  LET c == op[w].sub
      a == op[w].answer
      mine == ~IsTask(c) /\ a.goal # NoGoal /\ ~overlay
  IN  /\ At(w, "syncOverlay")
      /\ \/ ~mine /\ Go(w, "current") /\ UNCHANGED preparing
         \/ mine /\ Unbound(c, a) /\ Remember(a) /\ CallDetach(w, DetachReason(a), "current")
         \/ /\ mine /\ ~Unbound(c, a)
            /\ Go(w, IF a.complete = c.complete THEN "current" ELSE "syncApply")
            /\ UNCHANGED preparing
      /\ UNCHANGED <<contract, files, ui, kept, env>>

\* The command sync-native-goal; its checklist decides whether the contract is
\* completed with its Goal.
Synced(c, complete) ==
  {[c EXCEPT !.complete = complete, !.revision = @ + 1, !.done = d] : d \in {complete, FALSE}}

\* The store's check of the id and the revision that a command names.
Stored(c) ==
  /\ c # NoContract /\ contract # NoContract
  /\ contract.id = c.id /\ contract.revision = c.revision

SyncApply(w) ==
  /\ At(w, "syncApply")
  /\ contract' \in IF Stored(op[w].sub) /\ contract.revision < MaxRevision
                   THEN Synced(contract, op[w].answer.complete) ELSE {contract}
  /\ op' = [op EXCEPT ![w].sub = contract', ![w].at = "current"]
  /\ UNCHANGED <<files, preparing, ui, kept, env>>

\* The overlay is returned as it was read.
ReturnOverlay(w, off, stale) ==
  IF op[w].ret = "end" THEN End(w)
  ELSE op' = [op EXCEPT ![w].cur = off, ![w].stale = stale, ![w].at = op[w].ret]

\* The overlay that was read, off, is compared with the answer a of Codex.
Decide(w, a, off) ==
  LET c == op[w].sub
      settled == (c.complete /\ a.goal = NoGoal) \/ (~off /\ ~Unbound(c, a))
  IN  \/ settled /\ ReturnOverlay(w, off, FALSE) /\ UNCHANGED preparing
      \/ /\ ~settled /\ off
         /\ op' = [op EXCEPT ![w].cur = TRUE, ![w].answer = a, ![w].at = "reconcile"]
         /\ UNCHANGED preparing
      \/ ~settled /\ ~off /\ Remember(a) /\ CallDetach(w, DetachReason(a), op[w].ret)

\* A caller that has refreshed a task's contract asks Codex only now.
Current(w) ==
  LET asIs == IsTask(op[w].sub) \/ op[w].stale
  IN  /\ At(w, "current")
      /\ \/ asIs /\ ReturnOverlay(w, overlay, op[w].stale) /\ UNCHANGED preparing
         \/ /\ ~asIs /\ op[w].answer = NoAnswer
            /\ op' = [op EXCEPT ![w].cur = overlay, ![w].at = "currentGoal"]
            /\ UNCHANGED preparing
         \/ ~asIs /\ op[w].answer # NoAnswer /\ Decide(w, op[w].answer, overlay)
      /\ UNCHANGED <<contract, files, ui, kept, env>>

CurrentGoal(w) ==
  /\ At(w, "currentGoal")
  /\ \/ ReturnOverlay(w, op[w].cur, TRUE) /\ UNCHANGED preparing
     \/ Decide(w, Answer(native), op[w].cur)
  /\ UNCHANGED <<contract, files, ui, kept, env>>

\* Mutant: whoever detached the thread, its own Goal takes it up again.
NeverKeepsDetached(reason) == FALSE

KeepsDetached(reason) == reason \in UserReasons

\* #reconcileDetachedPreparation.
Reconcile(w) ==
  LET a == op[w].answer
      stays == KeepsDetached(activation') \/ a.goal = NoGoal
  IN  /\ ReadReason(w, "reconcile", TRUE)
      /\ \/ stays /\ Return(w, op[w].ret) /\ UNCHANGED preparing
         \/ /\ ~stays /\ ~Unbound(op[w].sub, a)
            /\ preparing' = NoGoal /\ CallAttach(w, op[w].ret)
         \/ /\ ~stays /\ Unbound(op[w].sub, a)
            /\ Remember(a) /\ CallDetach(w, DetachReason(a), op[w].ret)
      /\ UNCHANGED <<contract, ui, kept, env>>

-----------------------------------------------------------------------------
(* store.initialize                                                        *)

InitOverlay(w) == ReadOverlay(w, "initOverlay", "initReason")

InitReason(w) ==
  /\ ReadReason(w, "initReason", op[w].off)
  /\ LET refused == op[w].kind = "initGoal" /\ KeepsDetached(activation')
     IN  IF ~refused /\ preparing # NoGoal THEN PublishPreparing(preparing)
         ELSE UNCHANGED <<preparing, ui>>
  /\ Go(w, IF op[w].kind = "initTask" THEN "initLoad"
           ELSE IF KeepsDetached(activation') THEN "initFailed" ELSE "initGoal")
  /\ UNCHANGED <<contract, kept, env>>

InitGoal(w) ==
  /\ At(w, "initGoal")
  /\ \/ Go(w, "initFailed")
     \/ /\ Answer(native).goal # NoGoal
        /\ op' = [op EXCEPT ![w].answer = Answer(native), ![w].at = "initLoad"]
  /\ OnlyOp

InitLoad(w) == Load(w, "initLoad", "initStore")

NewContract(id, goal, complete) ==
  [id |-> id, revision |-> 1, goal |-> goal, complete |-> complete, done |-> FALSE]

\* What initialize becomes for what was loaded: a first contract, a
\* replacement, or a refusal before the store is asked.
Replaces(w, new) ==
  LET c == op[w].seen
  IN  /\ c # NoContract
      /\ IF IsTask(c) \/ IsTask(new) THEN c.id # new.id /\ (c.done \/ op[w].off)
         ELSE c.goal # new.goal

\* The event store: a replacement names what it replaces and takes another id.
StoreTakes(w, new) ==
  IF Replaces(w, new) THEN Stored(op[w].seen) /\ new.id # contract.id
  ELSE op[w].seen = NoContract /\ contract = NoContract

InitStore(w) ==
  /\ At(w, "initStore")
  /\ \E id \in Ids :
       LET task == op[w].kind = "initTask"
           new == NewContract(id, IF task THEN NoGoal ELSE op[w].answer.goal,
                              ~task /\ op[w].answer.complete)
       IN  IF StoreTakes(w, new)
           THEN /\ contract' = new /\ preparing' = NoGoal
                /\ Call(w, "refreshLoad", "initLatest")
           ELSE Go(w, "initFailed") /\ UNCHANGED <<contract, preparing>>
  /\ UNCHANGED <<files, ui, kept, env>>

InitLatest(w) ==
  /\ At(w, "initLatest")
  /\ op' = [op EXCEPT ![w].seen = contract, ![w].at = "attachReason", ![w].back = "initPublish"]
  /\ OnlyOp

InitPublish(w) ==
  At(w, "initPublish") /\ Publish(View(op[w].seen, FALSE)) /\ End(w) /\ Published

InitFailed(w) ==
  /\ At(w, "initFailed")
  /\ IF contract = NoContract /\ preparing # NoGoal THEN Publish(Transient("error"))
     ELSE UNCHANGED ui
  /\ End(w) /\ Published

-----------------------------------------------------------------------------
(* store.apply                                                             *)

ApplyOverlay(w) == ReadOverlay(w, "applyOverlay", "applyReason")

ApplyReason(w) ==
  /\ ReadReason(w, "applyReason", op[w].off)
  /\ IF KeepsDetached(activation') THEN End(w) ELSE Go(w, "applyLoad")
  /\ NotFiles

ApplyLoad(w) ==
  /\ At(w, "applyLoad")
  /\ IF contract = NoContract THEN End(w)
     ELSE op' = [op EXCEPT ![w].seen = contract,
                           ![w].at = IF IsTask(contract)
                                        \/ (op[w].kind = "update" /\ contract.complete)
                                     THEN "applyStore" ELSE "applyGoal"]
  /\ OnlyOp

Retargets(w) == op[w].kind = "rescope" /\ op[w].answer # NoAnswer

\* #assertBoundNativeGoalOrDetach; but a rescope follows the Goal there is.  The
\* request fails if Codex does not answer.
ApplyGoal(w) ==
  LET a == Answer(native)
      c == op[w].seen
  IN  /\ At(w, "applyGoal")
      /\ \/ End(w) /\ UNCHANGED preparing
         \/ ~Unbound(c, a) /\ Go(w, "applyStore") /\ UNCHANGED preparing
         \/ /\ Unbound(c, a) /\ op[w].kind = "rescope" /\ a.goal # NoGoal
            /\ op' = [op EXCEPT ![w].answer = a, ![w].at = "applyStore"]
            /\ UNCHANGED preparing
         \/ /\ Unbound(c, a) /\ ~(op[w].kind = "rescope" /\ a.goal # NoGoal)
            /\ Remember(a) /\ CallDetach(w, DetachReason(a), "end")
      /\ UNCHANGED <<contract, files, ui, kept, env>>

\* What a command of this kind can make of the contract.  A Goal's contract is
\* completed only with its Goal.
Applied(w) ==
  LET next == [contract EXCEPT !.revision = @ + 1]
  IN  IF Retargets(w)
      THEN {[next EXCEPT !.goal = op[w].answer.goal, !.complete = op[w].answer.complete,
                         !.done = FALSE]}
      ELSE IF op[w].kind = "rescope" THEN {[next EXCEPT !.done = FALSE]}
      ELSE {[next EXCEPT !.done = d] : d \in {IsTask(contract) \/ contract.complete, FALSE}}

ApplyStore(w) ==
  /\ At(w, "applyStore")
  /\ IF Stored(op[w].seen) /\ contract.revision < MaxRevision
     THEN /\ contract' \in Applied(w)
          /\ op' = [op EXCEPT ![w].seen = contract', ![w].ret = "applyPublish",
                              ![w].at = IF Retargets(w) THEN "attachReason" ELSE "applyRead",
                              ![w].back = "refreshLoad"]
     ELSE End(w) /\ UNCHANGED contract
  /\ UNCHANGED <<files, preparing, ui, kept, env>>

ApplyRead(w) == ReadOverlay(w, "applyRead", "refreshLoad")

\* The contract this handler wrote and the overlay it read after it.
ApplyPublish(w) ==
  At(w, "applyPublish") /\ Publish(View(op[w].seen, op[w].off)) /\ End(w) /\ Published

-----------------------------------------------------------------------------
(* store.load, session.resume and the callback of the usage poll            *)

GetLoad(w) ==
  /\ At(w, "getLoad")
  /\ IF contract = NoContract THEN End(w) ELSE Call(w, "refreshLoad", "getLatest")
  /\ OnlyOp

Latest(w) ==
  /\ op[w].at \in {"getLatest", "resumeLatest"}
  /\ op' = [op EXCEPT ![w].sub = contract, ![w].at = "current",
                      ![w].ret = IF op[w].kind = "get" THEN "getPublish" ELSE "resumePublish"]
  /\ OnlyOp

GetPublish(w) ==
  /\ At(w, "getPublish")
  /\ IF op[w].cur /\ preparing # NoGoal THEN PublishPreparing(preparing)
     ELSE Publish(View(op[w].sub, op[w].cur)) /\ UNCHANGED preparing
  /\ End(w)
  /\ UNCHANGED <<contract, files, kept, env>>

ResumeLoad(w) ==
  /\ At(w, "resumeLoad")
  /\ IF Active(contract)
     THEN op' = [op EXCEPT ![w].seen = contract, ![w].at = "resumeOverlay"] ELSE End(w)
  /\ OnlyOp

ResumeOverlay(w) == ReadOverlay(w, "resumeOverlay", "resumeReason")

\* A detach of the user that a crash cut in two is completed here.
ResumeReason(w) ==
  LET c == op[w].seen
      byUser == KeepsDetached(activation')
  IN  /\ ReadReason(w, "resumeReason", op[w].off)
      /\ \/ /\ byUser
            /\ IF op[w].off THEN End(w) ELSE CallDetach(w, activation', "end")
            /\ UNCHANGED ui
         \/ ~byUser /\ IsTask(c) /\ Publish(View(c, op[w].off)) /\ End(w)
         \/ ~byUser /\ ~IsTask(c) /\ Go(w, "resumeGoal") /\ UNCHANGED ui
      /\ UNCHANGED <<contract, preparing, kept, env>>

\* #publishResumeUnavailable: Codex did not answer.
Unavailable(c) == [View(c, FALSE) EXCEPT !.phase = "error"]

ResumeGoal(w) ==
  LET a == Answer(native)
      c == op[w].seen
  IN  /\ At(w, "resumeGoal")
      /\ \/ Publish(Unavailable(c)) /\ End(w) /\ UNCHANGED preparing
         \/ /\ Unbound(c, a) /\ Remember(a)
            /\ CallDetach(w, DetachReason(a), "end") /\ UNCHANGED ui
         \/ /\ ~Unbound(c, a) /\ Call(w, "refreshLoad", "resumeLatest")
            /\ UNCHANGED <<preparing, ui>>
      /\ UNCHANGED <<contract, files, kept, env>>

ResumePublish(w) ==
  /\ At(w, "resumePublish")
  /\ Publish(View(op[w].sub, op[w].cur))
  /\ End(w) /\ Published

\* #publishUsageChange.
UsagePublish(w) ==
  LET c == op[w].sub
  IN  /\ At(w, "usagePublish")
      /\ \/ c = NoContract /\ UNCHANGED <<preparing, ui>>
         \/ /\ c # NoContract /\ op[w].cur
            /\ IF preparing # NoGoal THEN PublishPreparing(preparing)
               ELSE ClearView /\ UNCHANGED preparing
         \/ c # NoContract /\ ~op[w].cur /\ Publish(View(c, FALSE)) /\ UNCHANGED preparing
      /\ End(w)
      /\ UNCHANGED <<contract, files, kept, env>>

-----------------------------------------------------------------------------
(* activation.start                                                        *)

ActivateLoad(w) ==
  /\ At(w, "activateLoad")
  /\ op' = [op EXCEPT ![w].seen = contract,
                      ![w].at = IF op[w].kind = "startTask" \/ IsTask(contract)
                                THEN "taskOverlay" ELSE "activateGoal"]
  /\ OnlyOp

TaskOverlay(w) == ReadOverlay(w, "taskOverlay", "taskReason")

\* A usable task record is shown again; otherwise the client initializes.
TaskReason(w) ==
  LET c == op[w].seen
  IN  /\ ReadReason(w, "taskReason", op[w].off)
      /\ IF IsTask(c) /\ Active(c) /\ ~KeepsDetached(activation')
         THEN Publish(View(c, op[w].off)) ELSE UNCHANGED ui
      /\ End(w)
      /\ UNCHANGED <<contract, preparing, kept, env>>

\* planGoalProgressActivation; without a Goal or an answer of Codex it fails.
ActivateGoal(w) ==
  LET a == Answer(native)
      c == op[w].seen
      changed == c # NoContract /\ Unbound(c, a)
  IN  /\ At(w, "activateGoal")
      /\ \/ End(w) /\ UNCHANGED preparing
         \/ /\ a.goal # NoGoal /\ c # NoContract /\ ~changed
            /\ Go(w, "matchedOverlay") /\ UNCHANGED preparing
         \/ /\ a.goal # NoGoal /\ (c = NoContract \/ changed)
            /\ preparing' = IF changed THEN a.goal ELSE preparing
            /\ op' = [op EXCEPT ![w].answer = a, ![w].at = "attachReason",
                                ![w].back = IF changed THEN "staleDetach" ELSE "preparePublish"]
      /\ UNCHANGED <<contract, files, ui, kept, env>>

MatchedOverlay(w) == ReadOverlay(w, "matchedOverlay", "matchedReason")

MatchedReason(w) ==
  /\ ReadReason(w, "matchedReason", op[w].off)
  /\ IF KeepsDetached(activation') THEN CallAttach(w, "matchedPublish") ELSE End(w)
  /\ NotFiles

MatchedPublish(w) ==
  At(w, "matchedPublish") /\ Publish(View(op[w].seen, FALSE)) /\ End(w) /\ Published

StaleDetach(w) ==
  At(w, "staleDetach") /\ CallDetach(w, "stale-contract", "preparePublish") /\ OnlyOp

PreparePublish(w) ==
  /\ At(w, "preparePublish")
  /\ PublishPreparing(op[w].answer.goal)
  /\ End(w)
  /\ UNCHANGED <<contract, files, kept, env>>

-----------------------------------------------------------------------------
(* The hook NativeGoalCompleted                                            *)

CompletedLoad(w) ==
  /\ At(w, "completedLoad")
  /\ IF contract = NoContract \/ IsTask(contract) \/ (contract # NoContract /\ contract.complete)
     THEN End(w)
     ELSE op' = [op EXCEPT ![w].seen = contract, ![w].at = "completedApply"]
  /\ OnlyOp

CompletedApply(w) ==
  /\ At(w, "completedApply")
  /\ IF Stored(op[w].seen) /\ contract.revision < MaxRevision
     THEN /\ contract' \in Synced(contract, TRUE)
          /\ op' = [op EXCEPT ![w].seen = contract', ![w].at = "completedOverlay"]
     ELSE End(w) /\ UNCHANGED contract
  /\ UNCHANGED <<files, preparing, ui, kept, env>>

CompletedOverlay(w) == ReadOverlay(w, "completedOverlay", "completedReason")

CompletedReason(w) ==
  /\ ReadReason(w, "completedReason", op[w].off)
  /\ IF KeepsDetached(activation') THEN End(w) ELSE CallAttach(w, "matchedPublish")
  /\ NotFiles

-----------------------------------------------------------------------------
(* ui.intent: requestDetach and requestRetry (helper-ui-intent.ts)          *)

UiLoad(w) ==
  /\ At(w, "uiLoad")
  /\ \/ op[w].kind = "detach"
        /\ op' = [op EXCEPT ![w].seen = contract, ![w].at = "uiReason"]
     \/ op[w].kind = "retry" /\ contract # NoContract /\ Call(w, "refreshLoad", "end")
     \/ op[w].kind = "retry" /\ contract = NoContract /\ Go(w, "retryReason")
  /\ OnlyOp

UiReason(w) ==
  /\ At(w, "uiReason")
  /\ activation' = IF op[w].seen = NoContract \/ preparing # NoGoal
                   THEN "user-dismissed-preparation" ELSE "user-detached-tracking"
  /\ op' = [op EXCEPT ![w].reason = activation', ![w].at = "uiOverlay"]
  /\ UNCHANGED overlay /\ NotFiles

UiOverlay(w) ==
  /\ At(w, "uiOverlay")
  /\ overlay' = TRUE
  /\ kept' = (kept \/ op[w].alone)
  /\ preparing' = IF op[w].reason = "user-dismissed-preparation" THEN NoGoal ELSE preparing
  /\ IF op[w].seen = NoContract THEN ClearView /\ End(w)
     ELSE UNCHANGED ui /\ Call(w, "refreshLoad", "end")
  /\ UNCHANGED <<contract, activation, env>>

RetryReason(w) ==
  /\ At(w, "retryReason")
  /\ IF activation = "user-dismissed-preparation" THEN End(w) ELSE CallAttach(w, "retryGoal")
  /\ OnlyOp

RetryGoal(w) ==
  LET a == Answer(native)
  IN  /\ At(w, "retryGoal")
      /\ \/ UNCHANGED <<preparing, ui>>
         \/ a.goal = NoGoal /\ Publish(Transient("error")) /\ UNCHANGED preparing
         \/ a.goal # NoGoal /\ PublishPreparing(a.goal)
      /\ End(w)
      /\ UNCHANGED <<contract, files, kept, env>>

-----------------------------------------------------------------------------
(* The drain loop, the environment, and the specification                   *)

\* Mutant: the loop keeps what it has delivered.
NextDeliveryKept == delivering' = (IF pending = NoView THEN delivering ELSE pending)
                    /\ pending' = NoView

NextDelivery == delivering' = pending /\ pending' = NoView

\* The view of a completed contract is taken down instead of being shown.
Deliver ==
  /\ delivering # NoView
  /\ shown' = IF delivering.phase = "completed" THEN NoView ELSE delivering
  /\ NextDelivery
  /\ UNCHANGED <<contract, files, preparing, offered, op, kept, env>>

\* The callback of the usage poll may bring a stale snapshot, too.
Begin(w, kind) ==
  /\ requests > 0 /\ requests' = requests - 1
  /\ w \notin Busy /\ 1..(w - 1) \subseteq Busy
  /\ kind = "usage" => ~IsTask(contract)
  /\ \E stale \in BOOLEAN :
       /\ stale => kind = "usage"
       /\ op' = [v \in Workers |->
              IF v # w THEN [op[v] EXCEPT !.alone = FALSE]
              ELSE [Idle EXCEPT !.kind = kind, !.at = EntryOf[kind], !.stale = stale,
                                !.ret = IF kind = "usage" THEN "usagePublish" ELSE @,
                                !.answer = IF kind = "usage" /\ ~stale THEN Answer(native)
                                           ELSE @,
                                !.alone = (Busy = {}),
                                !.during = {Answer(native).goal}]]
  /\ kept' = (kept /\ kind \notin Reopening)
  /\ UNCHANGED <<contract, files, preparing, ui, native, changes, crashes>>

\* The Goal is completed, ends, or is replaced by the next one.
GoalChange ==
  /\ changes > 0 /\ changes' = changes - 1
  /\ \/ native.status = "active" /\ native' = [native EXCEPT !.status = "complete"]
     \/ native.status # "ended" /\ native' = [native EXCEPT !.status = "ended"]
     \/ native.goal < MaxGoal /\ native' = [goal |-> native.goal + 1, status |-> "active"]
  /\ op' = [w \in Workers |-> IF w \in Busy
                              THEN [op[w] EXCEPT !.during = @ \cup {Answer(native').goal}]
                              ELSE op[w]]
  /\ UNCHANGED <<contract, files, preparing, ui, kept, requests, crashes>>

\* The files and the page stay; the rest was in memory.
Crash ==
  /\ crashes > 0 /\ crashes' = crashes - 1
  /\ op' = [w \in Workers |-> Idle]
  /\ preparing' = NoGoal /\ pending' = NoView /\ delivering' = NoView /\ offered' = shown
  /\ UNCHANGED <<contract, files, shown, kept, native, requests, changes>>

Shared(w) ==
  \/ DetachRead(w) \/ DetachDecide(w) \/ DetachReasonFile(w) \/ DetachOverlayFile(w)
  \/ AttachReasonFile(w) \/ AttachOverlayFile(w)
  \/ RefreshLoad(w) \/ RefreshGoal(w) \/ SyncLoad(w) \/ SyncOverlay(w) \/ SyncApply(w)
  \/ Current(w) \/ CurrentGoal(w) \/ StartMigration(w) \/ Reconcile(w)

Step(w) ==
  \/ Shared(w)
  \/ InitOverlay(w) \/ InitReason(w) \/ InitGoal(w) \/ InitLoad(w) \/ InitStore(w)
  \/ InitLatest(w) \/ InitPublish(w) \/ InitFailed(w)
  \/ ApplyOverlay(w) \/ ApplyReason(w) \/ ApplyLoad(w) \/ ApplyGoal(w) \/ ApplyStore(w)
  \/ ApplyRead(w) \/ ApplyPublish(w)
  \/ GetLoad(w) \/ Latest(w) \/ GetPublish(w)
  \/ ResumeLoad(w) \/ ResumeOverlay(w) \/ ResumeReason(w) \/ ResumeGoal(w) \/ ResumePublish(w)
  \/ UsagePublish(w)
  \/ ActivateLoad(w) \/ TaskOverlay(w) \/ TaskReason(w) \/ ActivateGoal(w)
  \/ MatchedOverlay(w) \/ MatchedReason(w) \/ MatchedPublish(w) \/ StaleDetach(w)
  \/ PreparePublish(w)
  \/ CompletedLoad(w) \/ CompletedApply(w) \/ CompletedOverlay(w) \/ CompletedReason(w)
  \/ UiLoad(w) \/ UiReason(w) \/ UiOverlay(w) \/ RetryReason(w) \/ RetryGoal(w)

Init ==
  /\ \E s \in Starts : /\ contract = s.contract /\ native = s.native
                       /\ overlay = s.overlay /\ activation = s.activation
  /\ preparing = NoGoal
  /\ pending = NoView /\ delivering = NoView /\ shown = NoView /\ offered = NoView
  /\ op = [w \in Workers |-> Idle]
  /\ kept = FALSE
  /\ requests = Requests /\ changes = GoalChanges /\ crashes = Crashes

Next ==
  \/ \E w \in Workers : Step(w) \/ \E kind \in Kinds : Begin(w, kind)
  \/ Deliver \/ GoalChange \/ Crash

\* A delivery ends or fails.  Handlers may stop anywhere.
Spec == Init /\ [][Next]_vars /\ WF_vars(Deliver)

-----------------------------------------------------------------------------
(* Properties                                                              *)

Places ==
  {EntryOf[k] : k \in Kinds} \cup {Migrating[p] : p \in DOMAIN Migrating}
  \cup {"idle", "detachRead", "detachDecide", "detachReason", "detachOverlay", "attachReason",
        "attachOverlay", "refreshLoad", "refreshGoal", "syncOverlay", "syncApply", "current",
        "currentGoal", "reconcile", "initReason", "initGoal", "initLoad", "initStore", "initLatest",
        "initPublish", "initFailed", "applyReason", "applyLoad", "applyGoal", "applyStore",
        "applyRead", "applyPublish", "getLatest", "getPublish", "resumeOverlay", "resumeReason",
        "resumeGoal", "resumeLatest", "resumePublish", "usagePublish", "taskOverlay",
        "taskReason", "activateGoal", "matchedOverlay", "matchedReason", "matchedPublish",
        "staleDetach", "preparePublish", "completedApply", "completedOverlay",
        "completedReason", "uiReason", "uiOverlay", "retryReason", "retryGoal"}

\* The places to which a routine that handlers share returns.
Returns ==
  {"idle", "end", "current", "refreshLoad", "initLatest", "initPublish", "applyPublish",
   "getLatest", "getPublish", "resumeLatest", "resumePublish", "usagePublish",
   "matchedPublish", "staleDetach", "preparePublish", "retryGoal"}

Handlers ==
  [kind : Kinds \cup {"none"}, at : Places, ret : Returns, back : Returns,
   seen : Contracts \cup {NoContract}, sub : Contracts \cup {NoContract}, off : BOOLEAN,
   cur : BOOLEAN, answer : [goal : Goals, complete : BOOLEAN], reason : Reasons,
   stale : BOOLEAN, alone : BOOLEAN, during : SUBSET Goals]

\* The variables have their types.
TypeOK ==
  /\ contract \in Contracts \cup {NoContract} /\ native \in Natives
  /\ overlay \in BOOLEAN /\ activation \in Reasons /\ preparing \in Goals
  /\ {pending, delivering, shown, offered} \subseteq Views
  /\ op \in [Workers -> Handlers] /\ kept \in BOOLEAN
  /\ {requests, changes, crashes} \subseteq Nat

\* When the drain loop has come to rest, the page shows what was published
\* last or nothing: no view gets lost between the loop's last look at the map
\* and its end, and none is delivered after a later one (host/src/index.ts:1027).
LastOfferIsShown ==
  delivering = NoView => pending = NoView /\ shown \in {offered, NoView}

\* The drain loop comes to rest.
DrainRests == []<>(delivering = NoView)

\* A thread that the user detached, with nothing else in flight, stays
\* detached by the user, whatever Codex reports, clients send and crashes
\* interrupt, until a user or a model takes it up again (TRACKING_DETACHED_BY_USER).
UserDetachIsKept == kept => overlay /\ activation \in UserReasons

\* An update or a rescope of a client writes progress to a native Goal's contract,
\* and binds it to another Goal, only if Codex had that Goal while the request was
\* served: an answer that is out of date never carries a client's progress over to
\* the Goal that follows.  (An id that came back for another contract could; the
\* bounds leave no room for that.)  Nothing is said of the Helper's own commands:
\* the hook NativeGoalCompleted marks the contract complete without asking which
\* Goal Codex has (host/src/index.ts:1604), as SyncApply trusts its snapshot.
NoProgressOnAnotherGoal ==
  [][\A w \in Workers :
       At(w, "applyStore") /\ op'[w] # op[w] /\ contract' # contract /\ ~IsTask(contract')
         => contract'.goal \in op[w].during \/ (contract.complete /\ op[w].kind = "update")]_vars

\* A view published as active by a read, a resumption or the usage poll belongs to
\* a Goal that Codex had while the request was served, provided that Codex answered
\* the last read that the request made.  Without that answer the stored contract is
\* published as it is, and may be active for a Goal that is gone.
ActiveViewWasCurrent ==
  [][\A w \in Workers :
       /\ op[w].at \in {"getPublish", "resumePublish", "usagePublish"}
       /\ op'[w].at = "idle" /\ ~Crash /\ offered' # offered
       /\ offered'.phase = "active" /\ ~op[w].stale /\ ~IsTask(op[w].sub) /\ ~op[w].sub.complete
       => op[w].sub.goal \in op[w].during]_vars

\* A read, a resumption or an initialization served alone, while the Goal did
\* not change, publishes the contract and the overlay as they are stored then,
\* and, if Codex answered, does not call a thread active whose contract belongs to
\* another Goal.
LoneReadIsExact ==
  [][\A w \in Workers :
       /\ op[w].at \in {"getPublish", "resumePublish", "initPublish"}
       /\ op'[w].at = "idle" /\ op[w].alone /\ Cardinality(op[w].during) = 1
       /\ ~Crash /\ offered' # offered /\ offered'.phase # "preparing"
       => /\ offered' = View(contract, overlay)
          /\ op[w].stale \/ overlay \/ IsTask(contract) \/ contract.complete
               \/ contract.goal \in op[w].during]_vars

\* "An active record cannot be silently overwritten. A completed or explicitly
\* detached record may be replaced" (docs/ARCHITECTURE.md:161).
ActiveTaskIsKept ==
  [][IsTask(contract) /\ Active(contract) /\ ~overlay => contract'.id = contract.id]_vars

=============================================================================
