------------------------- MODULE GoalSession_proofs -------------------------
(***************************************************************************)
(* Proofs about GoalSession, for any number of handlers, Goals, revisions, *)
(* requests and crashes: the delivery of views is exact, a detach of the   *)
(* user is kept, and what handlers show and write is of the Goal there was *)
(* while they were served.                                                 *)
(***************************************************************************)
EXTENDS GoalSession, FiniteSetTheorems, TLAPS

-----------------------------------------------------------------------------
(* The delivery of views.  DrainInv is LastOfferIsShown with what the loop *)
(* still has to do: the view published last is the one that waits, or the  *)
(* one being delivered if none waits.                                      *)

DrainInv ==
  IF delivering = NoView
  THEN pending = NoView /\ shown \in {offered, NoView}
  ELSE offered = IF pending = NoView THEN delivering ELSE pending

\* What a handler may do to the delivery: nothing, publish a view, or clear the page.
Offer == \/ UNCHANGED ui
         \/ \E v : v # NoView /\ Publish(v)
         \/ ClearView

\* Every view that a handler publishes says something.
LEMMA ViewIsSomething == \A c, d : View(c, d) # NoView
  BY DEF View, NoView

LEMMA TransientIsSomething == Transient("preparing") # NoView /\ Transient("error") # NoView
  BY DEF Transient, NoView

LEMMA UnavailableIsSomething == \A c : Unavailable(c) # NoView
  BY DEF Unavailable, View, NoView

LEMMA PreparingIsOffered == \A g : PublishPreparing(g) => Offer
  BY TransientIsSomething DEF PublishPreparing, Offer

\* The routines that the handlers share do not publish.
LEMMA SharedOffers == \A w : Shared(w) => UNCHANGED ui
  BY DEF Shared, DetachRead, DetachDecide, DetachReasonFile, DetachOverlayFile, AttachReasonFile,
     AttachOverlayFile, RefreshLoad, RefreshGoal, SyncLoad, SyncOverlay, SyncApply, Current, CurrentGoal,
     StartMigration, Reconcile, OnlyOp, NotFiles

\* No step of a handler does more to the delivery than that.
LEMMA StepOffers == ASSUME NEW w, Step(w) PROVE Offer
<1>1. CASE Shared(w) BY <1>1, SharedOffers DEF Offer
<1>2. CASE InitOverlay(w) \/ InitGoal(w) \/ InitLoad(w) \/ InitStore(w) \/ InitLatest(w)
  BY <1>2
  DEF Offer, InitOverlay, InitGoal, InitLoad, InitStore, InitLatest, OnlyOp, ReadOverlay, Load
<1>3. CASE InitReason(w) BY <1>3, PreparingIsOffered DEF InitReason, Offer
<1>4. CASE InitPublish(w) BY <1>4, ViewIsSomething DEF InitPublish, Offer
<1>5. CASE InitFailed(w) BY <1>5, TransientIsSomething DEF InitFailed, Offer
<1>6. CASE ApplyOverlay(w) \/ ApplyReason(w) \/ ApplyLoad(w) \/ ApplyGoal(w) \/ ApplyStore(w)
             \/ ApplyRead(w)
  BY <1>6 DEF Offer, ApplyOverlay, ApplyReason, ApplyLoad, ApplyGoal, ApplyStore, ApplyRead, OnlyOp,
     NotFiles, ReadOverlay
<1>7. CASE ApplyPublish(w) BY <1>7, ViewIsSomething DEF ApplyPublish, Offer
<1>8. CASE GetLoad(w) \/ Latest(w) BY <1>8 DEF Offer, GetLoad, Latest, OnlyOp
<1>9. CASE GetPublish(w) BY <1>9, ViewIsSomething, PreparingIsOffered DEF GetPublish, Offer
<1>10. CASE ResumeLoad(w) \/ ResumeOverlay(w)
  BY <1>10 DEF Offer, ResumeLoad, ResumeOverlay, OnlyOp, ReadOverlay
<1>11. CASE ResumeReason(w) BY <1>11, ViewIsSomething DEF ResumeReason, Offer
<1>12. CASE ResumePublish(w) BY <1>12, ViewIsSomething DEF ResumePublish, Offer
<1>13. CASE UsagePublish(w) BY <1>13, ViewIsSomething, PreparingIsOffered DEF UsagePublish, Offer
<1>14. CASE ActivateLoad(w) \/ TaskOverlay(w) \/ ActivateGoal(w) \/ MatchedOverlay(w)
              \/ MatchedReason(w) \/ StaleDetach(w)
  BY <1>14 DEF Offer, ActivateLoad, TaskOverlay, ActivateGoal, MatchedOverlay, MatchedReason,
     StaleDetach, OnlyOp, NotFiles, ReadOverlay
<1>15. CASE TaskReason(w) BY <1>15, ViewIsSomething DEF TaskReason, Offer
<1>16. CASE MatchedPublish(w) BY <1>16, ViewIsSomething DEF MatchedPublish, Offer
<1>17. CASE PreparePublish(w) BY <1>17, PreparingIsOffered DEF PreparePublish
<1>18. CASE CompletedLoad(w) \/ CompletedApply(w) \/ CompletedOverlay(w) \/ CompletedReason(w)
  BY <1>18 DEF Offer, CompletedLoad, CompletedApply, CompletedOverlay, CompletedReason, OnlyOp,
     NotFiles, ReadOverlay
<1>19. CASE UiLoad(w) \/ UiReason(w) \/ RetryReason(w)
  BY <1>19 DEF Offer, UiLoad, UiReason, RetryReason, OnlyOp, NotFiles
<1>20. CASE UiOverlay(w) BY <1>20 DEF UiOverlay, Offer
<1>21. CASE RetryGoal(w) BY <1>21, TransientIsSomething, PreparingIsOffered DEF RetryGoal, Offer
<1>22. CASE ResumeGoal(w) BY <1>22, UnavailableIsSomething DEF ResumeGoal, Offer
<1> QED
  BY <1>1, <1>2, <1>3, <1>4, <1>5, <1>6, <1>7, <1>8, <1>9, <1>10, <1>11, <1>12, <1>13, <1>14,
     <1>15, <1>16, <1>17, <1>18, <1>19, <1>20, <1>21, <1>22 DEF Step

LEMMA OfferKeepsDrainInv == DrainInv /\ Offer => DrainInv'
  BY DEF DrainInv, Offer, ui, Publish, ClearView

LEMMA NextKeepsDrainInv == DrainInv /\ [Next]_vars => DrainInv'
<1> SUFFICES ASSUME DrainInv, [Next]_vars PROVE DrainInv'
  OBVIOUS
<1>1. ASSUME NEW w \in Workers, Step(w) PROVE DrainInv'
  BY <1>1, StepOffers, OfferKeepsDrainInv
<1>2. ASSUME NEW w \in Workers, NEW kind \in Kinds, Begin(w, kind) PROVE DrainInv'
  BY <1>2 DEF Begin, DrainInv, ui
<1>3. CASE Deliver BY <1>3 DEF Deliver, NextDelivery, DrainInv, NoView
<1>4. CASE GoalChange BY <1>4 DEF GoalChange, DrainInv, ui
<1>5. CASE Crash BY <1>5 DEF Crash, DrainInv
<1>6. CASE UNCHANGED vars BY <1>6 DEF vars, DrainInv, ui
<1> QED BY <1>1, <1>2, <1>3, <1>4, <1>5, <1>6 DEF Next

\* However handlers publish while the drain loop delivers, and whatever a crash
\* cuts off, the page ends at the view published last: the map is looked at
\* again before the loop ends (host/src/index.ts:1027).
THEOREM LastOfferIsShownAlways == Spec => []LastOfferIsShown
<1>1. Init => DrainInv BY DEF Init, DrainInv
<1>2. DrainInv => LastOfferIsShown BY DEF DrainInv, LastOfferIsShown
<1> QED BY <1>1, <1>2, NextKeepsDrainInv, PTL DEF Spec

-----------------------------------------------------------------------------
(* The handlers keep their type: a step of one replaces its record and     *)
(* leaves the others alone.                                                *)

BaseType ==
  /\ contract \in Contracts \cup {NoContract} /\ native \in Natives
  /\ overlay \in BOOLEAN /\ activation \in Reasons /\ preparing \in Goals
  /\ op \in [Workers -> Handlers] /\ kept \in BOOLEAN

Moved(w) == \E o \in Handlers : op' = [op EXCEPT ![w] = o] /\ (o.alone => op[w].alone)

LEMMA PlacesHave ==
  {"idle", "detachRead", "detachDecide", "detachReason", "detachOverlay", "attachReason",
   "attachOverlay", "refreshLoad", "refreshGoal", "syncLoad", "syncOverlay", "syncApply",
   "current", "currentGoal", "reconcile", "initMigrate", "applyMigrate", "resumeMigrate",
   "taskMigrate", "matchedMigrate", "completedMigrate", "reconcileMigrate", "initOverlay", "initReason", "initGoal", "initLoad", "initStore",
   "initLatest", "initPublish", "initFailed", "applyOverlay", "applyReason", "applyLoad",
   "applyGoal", "applyStore", "applyRead", "applyPublish", "getLoad", "getLatest", "getPublish",
   "resumeLoad", "resumeOverlay", "resumeReason", "resumeGoal", "resumeLatest",
   "resumePublish", "usagePublish", "activateLoad", "taskOverlay", "taskReason",
   "activateGoal", "matchedOverlay", "matchedReason", "matchedPublish", "staleDetach",
   "preparePublish", "completedLoad", "completedApply", "completedOverlay", "completedReason",
   "uiLoad", "uiReason", "uiOverlay", "retryReason", "retryGoal"} = Places
  BY DEF Places, Kinds, EntryOf, Migrating

LEMMA ReturnsHave == Returns \subseteq Places \cup {"end"}
  BY PlacesHave DEF Returns

LEMMA AnswerType == ASSUME NEW n \in Natives PROVE Answer(n) \in [goal : Goals, complete : BOOLEAN]
  BY SessionAssumption DEF Natives, Answer, Goals, NoGoal

LEMMA NoAnswerType == NoAnswer \in [goal : Goals, complete : BOOLEAN]
  BY SessionAssumption DEF NoAnswer, Goals, NoGoal

LEMMA IdleType == Idle \in Handlers /\ Idle.at = "idle" /\ Idle.alone = FALSE
  BY PlacesHave, SessionAssumption DEF Idle, Handlers, NoAnswer, NoGoal, Goals, Reasons, Returns

LEMMA ReasonsHave ==
  /\ {"none", "stale-contract"} \cup UserReasons \subseteq Reasons
  /\ \A a : DetachReason(a) \in Reasons
  BY DEF DetachReason, Reasons, GoalReasons, UserReasons

LEMMA SyncedType ==
  ASSUME NEW c \in Contracts, NEW complete \in BOOLEAN, c.revision < MaxRevision
  PROVE  Synced(c, complete) \subseteq Contracts
<1>1. c.revision + 1 \in 1..MaxRevision BY SessionAssumption DEF Contracts
<1>2. ASSUME NEW d \in BOOLEAN
      PROVE  [c EXCEPT !.complete = complete, !.revision = @ + 1, !.done = d] \in Contracts
  <2>1. c.revision \in 1..MaxRevision BY DEF Contracts
  <2> QED BY <1>1, <2>1 DEF Contracts
<1> QED BY <1>2 DEF Synced

LEMMA Fields ==
  ASSUME BaseType, NEW w \in Workers
  PROVE  /\ op \in [Workers -> Handlers] /\ op[w] \in Handlers
         /\ op[w].at \in Places
         /\ {op[w].ret, op[w].back} \subseteq Returns
         /\ op[w].reason \in Reasons
         /\ {op[w].seen, op[w].sub} \subseteq Contracts \cup {NoContract}
         /\ op[w].answer \in [goal : Goals, complete : BOOLEAN]
         /\ {op[w].off, op[w].cur, op[w].stale} \subseteq BOOLEAN
<1>1. op \in [Workers -> Handlers] /\ op[w] \in Handlers BY DEF BaseType
<1> QED BY <1>1 DEF Handlers

\* The file activation.json holds a reason after it is read, too.
LEMMA ReasonRead ==
  ASSUME BaseType, NEW w, NEW here, NEW off, ReadReason(w, here, off)
  PROVE  activation' \in Reasons
  BY DEF BaseType, ReadReason, Reasons, UserReasons

LEMMA EndMoves == ASSUME BaseType, NEW w \in Workers, End(w) PROVE Moved(w)
  BY IdleType DEF End, Moved

LEMMA GoMoves == ASSUME BaseType, NEW w \in Workers, NEW p \in Places, Go(w, p) PROVE Moved(w)
<1>1. op[w] \in Handlers BY DEF BaseType
<1>3. /\ [op[w] EXCEPT !.at = p] \in Handlers
      /\ [op[w] EXCEPT !.at = p].alone = op[w].alone
  BY <1>1 DEF Handlers
<1>4. op' = [op EXCEPT ![w] = [op[w] EXCEPT !.at = p]] BY DEF Go
<1> QED BY <1>3, <1>4 DEF Moved

LEMMA ReturnMoves ==
  ASSUME BaseType, NEW w \in Workers, NEW q \in Returns, Return(w, q)
  PROVE Moved(w)
  BY GoMoves, EndMoves, ReturnsHave DEF Return

LEMMA CallMoves ==
  ASSUME BaseType, NEW w \in Workers, NEW p \in Places, NEW q \in Returns, Call(w, p, q)
  PROVE Moved(w)
<1>1. op[w] \in Handlers BY DEF BaseType
<1>3. /\ [op[w] EXCEPT !.at = p, !.ret = q] \in Handlers
      /\ [op[w] EXCEPT !.at = p, !.ret = q].alone = op[w].alone
  BY <1>1 DEF Handlers
<1>4. op' = [op EXCEPT ![w] = [op[w] EXCEPT !.at = p, !.ret = q]] BY DEF Call
<1> QED BY <1>3, <1>4 DEF Moved

LEMMA CallAttachMoves ==
  ASSUME BaseType, NEW w \in Workers, NEW q \in Returns, CallAttach(w, q)
  PROVE Moved(w)
<1>1. op[w] \in Handlers BY DEF BaseType
<1>2. "attachReason" \in Places BY PlacesHave
<1>3. /\ [op[w] EXCEPT !.at = "attachReason", !.back = q] \in Handlers
      /\ [op[w] EXCEPT !.at = "attachReason", !.back = q].alone = op[w].alone
  BY <1>1, <1>2 DEF Handlers
<1>4. op' = [op EXCEPT ![w] = [op[w] EXCEPT !.at = "attachReason", !.back = q]] BY DEF CallAttach
<1> QED BY <1>3, <1>4 DEF Moved

LEMMA CallDetachMoves ==
  ASSUME BaseType, NEW w \in Workers, NEW r \in Reasons, NEW q \in Returns, CallDetach(w, r, q)
  PROVE Moved(w)
<1>1. op[w] \in Handlers BY DEF BaseType
<1>2. "detachRead" \in Places BY PlacesHave
<1>3. /\ [op[w] EXCEPT !.at = "detachRead", !.reason = r, !.back = q] \in Handlers
      /\ [op[w] EXCEPT !.at = "detachRead", !.reason = r, !.back = q].alone = op[w].alone
  BY <1>1, <1>2 DEF Handlers
<1>4. op' = [op EXCEPT ![w] = [op[w] EXCEPT !.at = "detachRead", !.reason = r, !.back = q]]
  BY DEF CallDetach
<1> QED BY <1>3, <1>4 DEF Moved

\* A handler that reads something and goes on.
LEMMA ReadMoves ==
  ASSUME BaseType, NEW w \in Workers, NEW here, NEW p \in Places,
         Load(w, here, p) \/ ReadOverlay(w, here, p)
  PROVE  Moved(w)
<1>1. op[w] \in Handlers BY DEF BaseType
<1>2. contract \in Contracts \cup {NoContract} /\ overlay \in BOOLEAN
  BY DEF BaseType
<1>3. CASE Load(w, here, p)
  <2>1. /\ [op[w] EXCEPT !.seen = contract, !.at = p] \in Handlers
        /\ [op[w] EXCEPT !.seen = contract, !.at = p].alone = op[w].alone
    BY <1>1, <1>2 DEF Handlers
  <2> QED BY <1>3, <2>1 DEF Load, Moved
<1>4. CASE ReadOverlay(w, here, p)
  <2>1. /\ [op[w] EXCEPT !.off = overlay, !.at = p] \in Handlers
        /\ [op[w] EXCEPT !.off = overlay, !.at = p].alone = op[w].alone
    BY <1>1, <1>2 DEF Handlers
  <2> QED BY <1>4, <2>1 DEF ReadOverlay, Moved
<1> QED BY <1>3, <1>4

LEMMA InitOverlayMoves == ASSUME BaseType, NEW w \in Workers, InitOverlay(w) PROVE Moved(w)
  BY PlacesHave, ReadMoves DEF InitOverlay

LEMMA ApplyOverlayMoves == ASSUME BaseType, NEW w \in Workers, ApplyOverlay(w) PROVE Moved(w)
  BY PlacesHave, ReadMoves DEF ApplyOverlay

LEMMA ApplyReadMoves == ASSUME BaseType, NEW w \in Workers, ApplyRead(w) PROVE Moved(w)
  BY PlacesHave, ReadMoves DEF ApplyRead

LEMMA ResumeOverlayMoves == ASSUME BaseType, NEW w \in Workers, ResumeOverlay(w) PROVE Moved(w)
  BY PlacesHave, ReadMoves DEF ResumeOverlay

LEMMA TaskOverlayMoves == ASSUME BaseType, NEW w \in Workers, TaskOverlay(w) PROVE Moved(w)
  BY PlacesHave, ReadMoves DEF TaskOverlay

LEMMA MatchedOverlayMoves == ASSUME BaseType, NEW w \in Workers, MatchedOverlay(w) PROVE Moved(w)
  BY PlacesHave, ReadMoves DEF MatchedOverlay

LEMMA CompletedOverlayMoves ==
  ASSUME BaseType, NEW w \in Workers, CompletedOverlay(w)
  PROVE Moved(w)
  BY PlacesHave, ReadMoves DEF CompletedOverlay

LEMMA InitLoadMoves == ASSUME BaseType, NEW w \in Workers, InitLoad(w) PROVE Moved(w)
  BY PlacesHave, ReadMoves DEF InitLoad

LEMMA RefreshGoalMoves == ASSUME BaseType, NEW w \in Workers, RefreshGoal(w) PROVE Moved(w)
<1>1. op[w] \in Handlers BY DEF BaseType
<1>2. {"syncLoad"} \subseteq Places BY PlacesHave
<1> DEFINE a(b) == IF b THEN NoAnswer ELSE Answer(native)
           o(b) == [op[w] EXCEPT !.answer = a(b), !.stale = b, !.at = "syncLoad"]
<1>3. ASSUME NEW b \in BOOLEAN PROVE a(b) \in [goal : Goals, complete : BOOLEAN]
  BY AnswerType, NoAnswerType DEF BaseType
<1> HIDE DEF a
<1>4. ASSUME NEW b \in BOOLEAN PROVE o(b) \in Handlers /\ o(b).alone = op[w].alone
  BY <1>1, <1>2, <1>3 DEF Handlers
<1>5. \E b \in BOOLEAN : op' = [op EXCEPT ![w] = o(b)] BY DEF RefreshGoal, a
<1> QED BY <1>4, <1>5 DEF Moved

LEMMA StartMigrationMoves ==
  ASSUME BaseType, NEW w \in Workers, StartMigration(w)
  PROVE Moved(w)
<1>1. Migrating[op[w].at] \in Places BY PlacesHave DEF StartMigration, Migrating
<1> QED BY <1>1, GoMoves DEF StartMigration

LEMMA DetachDecideMoves == ASSUME BaseType, NEW w \in Workers, DetachDecide(w) PROVE Moved(w)
  BY PlacesHave, Fields, GoMoves, ReturnMoves DEF DetachDecide

LEMMA DetachReasonFileMoves ==
  ASSUME BaseType, NEW w \in Workers, DetachReasonFile(w)
  PROVE Moved(w)
  BY PlacesHave, GoMoves, Fields DEF DetachReasonFile

LEMMA AttachReasonFileMoves ==
  ASSUME BaseType, NEW w \in Workers, AttachReasonFile(w)
  PROVE Moved(w)
  BY PlacesHave, GoMoves, Fields DEF AttachReasonFile

LEMMA RefreshLoadMoves == ASSUME BaseType, NEW w \in Workers, RefreshLoad(w) PROVE Moved(w)
  BY PlacesHave, Fields, GoMoves, ReturnMoves DEF RefreshLoad

LEMMA SyncOverlayMoves == ASSUME BaseType, NEW w \in Workers, SyncOverlay(w) PROVE Moved(w)
  BY PlacesHave, GoMoves, CallDetachMoves, ReasonsHave DEF SyncOverlay, Returns

LEMMA ReconcileMoves == ASSUME BaseType, NEW w \in Workers, Reconcile(w) PROVE Moved(w)
  BY Fields, ReturnMoves, CallAttachMoves, CallDetachMoves, ReasonsHave DEF Reconcile, Returns

LEMMA InitReasonMoves == ASSUME BaseType, NEW w \in Workers, InitReason(w) PROVE Moved(w)
  BY PlacesHave, GoMoves DEF InitReason

LEMMA InitStoreMoves == ASSUME BaseType, NEW w \in Workers, InitStore(w) PROVE Moved(w)
  BY PlacesHave, GoMoves, CallMoves DEF InitStore, Returns

LEMMA InitPublishMoves == ASSUME BaseType, NEW w \in Workers, InitPublish(w) PROVE Moved(w)
  BY EndMoves DEF InitPublish

LEMMA InitFailedMoves == ASSUME BaseType, NEW w \in Workers, InitFailed(w) PROVE Moved(w)
  BY EndMoves DEF InitFailed

LEMMA ApplyPublishMoves == ASSUME BaseType, NEW w \in Workers, ApplyPublish(w) PROVE Moved(w)
  BY EndMoves DEF ApplyPublish

LEMMA GetPublishMoves == ASSUME BaseType, NEW w \in Workers, GetPublish(w) PROVE Moved(w)
  BY EndMoves DEF GetPublish

LEMMA ResumePublishMoves == ASSUME BaseType, NEW w \in Workers, ResumePublish(w) PROVE Moved(w)
  BY EndMoves DEF ResumePublish

LEMMA UsagePublishMoves == ASSUME BaseType, NEW w \in Workers, UsagePublish(w) PROVE Moved(w)
  BY EndMoves DEF UsagePublish

LEMMA TaskReasonMoves == ASSUME BaseType, NEW w \in Workers, TaskReason(w) PROVE Moved(w)
  BY EndMoves DEF TaskReason

LEMMA MatchedPublishMoves == ASSUME BaseType, NEW w \in Workers, MatchedPublish(w) PROVE Moved(w)
  BY EndMoves DEF MatchedPublish

LEMMA PreparePublishMoves == ASSUME BaseType, NEW w \in Workers, PreparePublish(w) PROVE Moved(w)
  BY EndMoves DEF PreparePublish

LEMMA RetryGoalMoves == ASSUME BaseType, NEW w \in Workers, RetryGoal(w) PROVE Moved(w)
  BY EndMoves DEF RetryGoal

LEMMA ApplyReasonMoves == ASSUME BaseType, NEW w \in Workers, ApplyReason(w) PROVE Moved(w)
  BY PlacesHave, GoMoves, EndMoves DEF ApplyReason

LEMMA GetLoadMoves == ASSUME BaseType, NEW w \in Workers, GetLoad(w) PROVE Moved(w)
  BY PlacesHave, CallMoves, EndMoves DEF GetLoad, Returns

LEMMA ResumeReasonMoves == ASSUME BaseType, NEW w \in Workers, ResumeReason(w) PROVE Moved(w)
  BY PlacesHave, ReasonRead, CallDetachMoves, GoMoves, EndMoves DEF ResumeReason, Returns

LEMMA ResumeGoalMoves == ASSUME BaseType, NEW w \in Workers, ResumeGoal(w) PROVE Moved(w)
  BY PlacesHave, ReasonsHave, CallDetachMoves, CallMoves, EndMoves DEF ResumeGoal, Returns

LEMMA MatchedReasonMoves == ASSUME BaseType, NEW w \in Workers, MatchedReason(w) PROVE Moved(w)
  BY PlacesHave, CallAttachMoves, EndMoves DEF MatchedReason, Returns

LEMMA CompletedReasonMoves == ASSUME BaseType, NEW w \in Workers, CompletedReason(w) PROVE Moved(w)
  BY PlacesHave, CallAttachMoves, EndMoves DEF CompletedReason, Returns

LEMMA StaleDetachMoves == ASSUME BaseType, NEW w \in Workers, StaleDetach(w) PROVE Moved(w)
  BY PlacesHave, ReasonsHave, CallDetachMoves DEF StaleDetach, Returns

LEMMA UiOverlayMoves == ASSUME BaseType, NEW w \in Workers, UiOverlay(w) PROVE Moved(w)
  BY PlacesHave, CallMoves, EndMoves DEF UiOverlay, Returns

LEMMA RetryReasonMoves == ASSUME BaseType, NEW w \in Workers, RetryReason(w) PROVE Moved(w)
  BY PlacesHave, CallAttachMoves, EndMoves DEF RetryReason, Returns

LEMMA DetachReadMoves == ASSUME BaseType, NEW w \in Workers, DetachRead(w) PROVE Moved(w)
<1>1. op[w] \in Handlers BY DEF BaseType
<1>2. {"detachDecide"} \subseteq Places BY PlacesHave
<1>3. overlay \in BOOLEAN BY DEF BaseType
<1>4. /\ [op[w] EXCEPT !.cur = overlay, !.at = "detachDecide"] \in Handlers
      /\ [op[w] EXCEPT !.cur = overlay, !.at = "detachDecide"].alone = op[w].alone
  BY <1>1, <1>2, <1>3 DEF Handlers
<1> QED BY <1>4 DEF DetachRead, Moved, Returns

LEMMA DetachOverlayFileMoves ==
  ASSUME BaseType, NEW w \in Workers, DetachOverlayFile(w)
  PROVE Moved(w)
<1>1. op[w] \in Handlers BY DEF BaseType
<1>2. {op[w].ret, op[w].back} \subseteq Places \cup {"end"} BY Fields, ReturnsHave
<1>3. ASSUME op[w].back # "end" PROVE /\ [op[w] EXCEPT !.cur = TRUE, !.at = op[w].back] \in Handlers
      /\ [op[w] EXCEPT !.cur = TRUE, !.at = op[w].back].alone = op[w].alone
  BY <1>1, <1>2, <1>3 DEF Handlers
<1>4. op[w].back # "end" => op' = [op EXCEPT ![w] = [op[w] EXCEPT !.cur = TRUE, !.at = op[w].back]]
  BY DEF DetachOverlayFile
<1>5. op[w].back = "end" => End(w) BY DEF DetachOverlayFile
<1> QED BY <1>3, <1>4, <1>5, EndMoves DEF Moved

LEMMA AttachOverlayFileMoves ==
  ASSUME BaseType, NEW w \in Workers, AttachOverlayFile(w)
  PROVE Moved(w)
<1>1. op[w] \in Handlers BY DEF BaseType
<1> DEFINE o == [op[w] EXCEPT !.off = ~(op[w].back = "refreshLoad") /\ @, !.cur = FALSE,
                  !.at = op[w].back]
<1>2. ASSUME op[w].back # "end" PROVE o \in Handlers /\ o.alone = op[w].alone
  BY <1>1, <1>2, ReturnsHave DEF Handlers
<1>3. ASSUME op[w].back # "end" PROVE op' = [op EXCEPT ![w] = o]
  BY <1>3 DEF AttachOverlayFile
<1> QED BY <1>2, <1>3, EndMoves DEF AttachOverlayFile, Moved

LEMMA SyncLoadMoves == ASSUME BaseType, NEW w \in Workers, SyncLoad(w) PROVE Moved(w)
<1>1. op[w] \in Handlers BY DEF BaseType
<1>2. {"syncOverlay", "current"} \subseteq Places BY PlacesHave
<1>3. contract \in Contracts \cup {NoContract} BY DEF BaseType
<1> DEFINE o(p) == [op[w] EXCEPT !.sub = contract, !.at = p]
<1>4. ASSUME NEW p \in {"syncOverlay", "current"}
      PROVE  o(p) \in Handlers /\ o(p).alone = op[w].alone
  BY <1>1, <1>2, <1>3 DEF Handlers
<1>5. \/ Return(w, op[w].ret)
      \/ \E p \in {"syncOverlay", "current"} : op' = [op EXCEPT ![w] = o(p)]
  BY DEF SyncLoad
<1> QED BY <1>4, <1>5, Fields, ReturnMoves DEF Moved

LEMMA SyncApplyMoves == ASSUME BaseType, NEW w \in Workers, SyncApply(w) PROVE Moved(w)
<1>1. op[w] \in Handlers BY DEF BaseType
<1>2. {"current"} \subseteq Places BY PlacesHave
<1>3. contract' \in Contracts \cup {NoContract}
  BY SyncedType, Fields, AnswerType DEF SyncApply, BaseType, Stored
<1>4. /\ [op[w] EXCEPT !.sub = contract', !.at = "current"] \in Handlers
      /\ [op[w] EXCEPT !.sub = contract', !.at = "current"].alone = op[w].alone
  BY <1>1, <1>2, <1>3 DEF Handlers
<1> QED BY <1>4 DEF SyncApply, Moved, Returns

LEMMA ReturnOverlayMoves ==
  ASSUME BaseType, NEW w \in Workers, NEW off \in BOOLEAN, NEW stale \in BOOLEAN,
         ReturnOverlay(w, off, stale)
  PROVE  Moved(w)
<1>1. op[w] \in Handlers BY DEF BaseType
<1>2. op[w].ret \in Places \cup {"end"} BY Fields, ReturnsHave
<1> DEFINE o == [op[w] EXCEPT !.cur = off, !.stale = stale, !.at = op[w].ret]
<1>3. op[w].ret # "end" => o \in Handlers /\ o.alone = op[w].alone
  BY <1>1, <1>2 DEF Handlers
<1>4. op[w].ret # "end" => op' = [op EXCEPT ![w] = o] BY DEF ReturnOverlay
<1>5. op[w].ret = "end" => End(w) BY DEF ReturnOverlay
<1> QED BY <1>3, <1>4, <1>5, EndMoves DEF Moved

LEMMA DecideMoves ==
  ASSUME BaseType, NEW w \in Workers, NEW a \in [goal : Goals, complete : BOOLEAN],
         NEW off \in BOOLEAN, Decide(w, a, off)
  PROVE  Moved(w)
<1>1. op[w] \in Handlers BY DEF BaseType
<1>2. "reconcile" \in Places BY PlacesHave
<1> DEFINE o == [op[w] EXCEPT !.cur = TRUE, !.answer = a, !.at = "reconcile"]
<1>3. o \in Handlers /\ o.alone = op[w].alone BY <1>1, <1>2 DEF Handlers
<1>4. \/ ReturnOverlay(w, off, FALSE)
      \/ op' = [op EXCEPT ![w] = o]
      \/ CallDetach(w, DetachReason(a), op[w].ret)
  BY DEF Decide
<1> QED BY <1>3, <1>4, Fields, ReturnOverlayMoves, CallDetachMoves, ReasonsHave DEF Moved

LEMMA CurrentMoves == ASSUME BaseType, NEW w \in Workers, Current(w) PROVE Moved(w)
<1>1. op[w] \in Handlers /\ overlay \in BOOLEAN BY DEF BaseType
<1>2. "currentGoal" \in Places BY PlacesHave
<1> DEFINE o == [op[w] EXCEPT !.cur = overlay, !.at = "currentGoal"]
<1>3. o \in Handlers /\ o.alone = op[w].alone BY <1>1, <1>2 DEF Handlers
<1>4. \/ ReturnOverlay(w, overlay, op[w].stale)
      \/ op' = [op EXCEPT ![w] = o]
      \/ Decide(w, op[w].answer, overlay)
  BY DEF Current
<1>5. op[w].stale \in BOOLEAN /\ op[w].answer \in [goal : Goals, complete : BOOLEAN]
  BY Fields
<1>6. ReturnOverlay(w, overlay, op[w].stale) => Moved(w) BY <1>1, <1>5, ReturnOverlayMoves
<1>7. Decide(w, op[w].answer, overlay) => Moved(w) BY <1>1, <1>5, DecideMoves
<1> QED BY <1>3, <1>4, <1>6, <1>7 DEF Moved

LEMMA CurrentGoalMoves == ASSUME BaseType, NEW w \in Workers, CurrentGoal(w) PROVE Moved(w)
  BY AnswerType, Fields, ReturnOverlayMoves, DecideMoves DEF CurrentGoal, BaseType

LEMMA InitGoalMoves == ASSUME BaseType, NEW w \in Workers, InitGoal(w) PROVE Moved(w)
<1>1. op[w] \in Handlers BY DEF BaseType
<1>2. {"initFailed", "initLoad"} \subseteq Places BY PlacesHave
<1>3. Answer(native) \in [goal : Goals, complete : BOOLEAN] BY AnswerType DEF BaseType
<1> DEFINE o == [op[w] EXCEPT !.answer = Answer(native), !.at = "initLoad"]
<1>4. o \in Handlers /\ o.alone = op[w].alone BY <1>1, <1>2, <1>3 DEF Handlers
<1>5. Go(w, "initFailed") \/ op' = [op EXCEPT ![w] = o] BY DEF InitGoal
<1> QED BY <1>2, <1>4, <1>5, GoMoves DEF Moved

LEMMA InitLatestMoves == ASSUME BaseType, NEW w \in Workers, InitLatest(w) PROVE Moved(w)
<1>1. op[w] \in Handlers BY DEF BaseType
<1>2. {"initPublish"} \subseteq Returns BY DEF Returns
<1>3. {"attachReason"} \subseteq Places BY PlacesHave
<1>4. contract \in Contracts \cup {NoContract} BY DEF BaseType
<1>5. /\ [op[w] EXCEPT !.seen = contract, !.at = "attachReason",
                        !.back = "initPublish"] \in Handlers
      /\ [op[w] EXCEPT !.seen = contract, !.at = "attachReason",
                        !.back = "initPublish"].alone = op[w].alone
  BY <1>1, <1>2, <1>3, <1>4 DEF Handlers
<1> QED BY <1>5 DEF InitLatest, Moved, Returns

LEMMA ApplyLoadMoves == ASSUME BaseType, NEW w \in Workers, ApplyLoad(w) PROVE Moved(w)
<1>1. op[w] \in Handlers BY DEF BaseType
<1>2. {"applyGoal", "applyStore"} \subseteq Places BY PlacesHave
<1>3. contract \in Contracts \cup {NoContract} BY DEF BaseType
<1> DEFINE o(p) == [op[w] EXCEPT !.seen = contract, !.at = p]
<1>4. ASSUME NEW p \in {"applyGoal", "applyStore"}
  PROVE o(p) \in Handlers /\ o(p).alone = op[w].alone
  BY <1>1, <1>2, <1>3 DEF Handlers
<1>5. End(w) \/ \E p \in {"applyGoal", "applyStore"} : op' = [op EXCEPT ![w] = o(p)]
  BY DEF ApplyLoad
<1> QED BY <1>4, <1>5, EndMoves DEF Moved

LEMMA ApplyGoalMoves == ASSUME BaseType, NEW w \in Workers, ApplyGoal(w) PROVE Moved(w)
<1>1. op[w] \in Handlers BY DEF BaseType
<1>2. {"applyStore"} \subseteq Places BY PlacesHave
<1>3. Answer(native) \in [goal : Goals, complete : BOOLEAN] BY AnswerType DEF BaseType
<1>4. /\ [op[w] EXCEPT !.answer = Answer(native), !.at = "applyStore"] \in Handlers
      /\ [op[w] EXCEPT !.answer = Answer(native), !.at = "applyStore"].alone = op[w].alone
  BY <1>1, <1>2, <1>3 DEF Handlers
<1>5. \/ Go(w, "applyStore") \/ End(w)
      \/ op' = [op EXCEPT ![w] = [op[w] EXCEPT !.answer = Answer(native), !.at = "applyStore"]]
      \/ CallDetach(w, DetachReason(Answer(native)), "end")
  BY DEF ApplyGoal
<1> QED BY <1>2, <1>4, <1>5, GoMoves, EndMoves, CallDetachMoves, ReasonsHave DEF Moved, Returns

LEMMA AppliedType ==
  ASSUME BaseType, NEW w \in Workers, contract # NoContract, contract.revision < MaxRevision
  PROVE  Applied(w) \subseteq Contracts
<1>1. op[w].answer.goal \in Goals /\ op[w].answer.complete \in BOOLEAN BY Fields
<1>2. contract \in Contracts BY DEF BaseType
<1>3. contract.revision + 1 \in 1..MaxRevision BY <1>2, SessionAssumption DEF Contracts
<1> DEFINE next == [contract EXCEPT !.revision = @ + 1]
<1>4. next \in Contracts BY <1>2, <1>3 DEF Contracts
<1>5. ASSUME NEW d \in BOOLEAN PROVE [next EXCEPT !.done = d] \in Contracts BY <1>4 DEF Contracts
<1>6. [next EXCEPT !.goal = op[w].answer.goal, !.complete = op[w].answer.complete,
                   !.done = FALSE] \in Contracts
  BY <1>4, <1>1 DEF Contracts
<1>7. (IsTask(contract) \/ contract.complete) \in BOOLEAN OBVIOUS
<1> HIDE DEF next
<1>8. Applied(w) = IF Retargets(w)
      THEN {[next EXCEPT !.goal = op[w].answer.goal, !.complete = op[w].answer.complete,
                         !.done = FALSE]}
      ELSE IF op[w].kind = "rescope" THEN {[next EXCEPT !.done = FALSE]}
      ELSE {[next EXCEPT !.done = d] : d \in {IsTask(contract) \/ contract.complete, FALSE}}
  BY DEF Applied, next
<1>9. \A d \in {IsTask(contract) \/ contract.complete, FALSE} : d \in BOOLEAN BY <1>7
<1> QED BY <1>5, <1>6, <1>8, <1>9

LEMMA ApplyStoreMoves == ASSUME BaseType, NEW w \in Workers, ApplyStore(w) PROVE Moved(w)
<1>1. op[w] \in Handlers BY DEF BaseType
<1>2. {"attachReason", "applyRead"} \subseteq Places BY PlacesHave
<1>3. contract' \in Contracts \cup {NoContract} BY AppliedType DEF ApplyStore, BaseType, Stored
<1> DEFINE o(p) == [op[w] EXCEPT !.seen = contract', !.ret = "applyPublish", !.at = p,
                                 !.back = "refreshLoad"]
<1>4. ASSUME NEW p \in {"attachReason", "applyRead"}
  PROVE o(p) \in Handlers /\ o(p).alone = op[w].alone
  BY <1>1, <1>2, <1>3 DEF Handlers, Returns
<1>5. End(w) \/ \E p \in {"attachReason", "applyRead"} : op' = [op EXCEPT ![w] = o(p)]
  BY DEF ApplyStore
<1> QED BY <1>4, <1>5, EndMoves DEF Moved

LEMMA LatestMoves == ASSUME BaseType, NEW w \in Workers, Latest(w) PROVE Moved(w)
<1>1. op[w] \in Handlers BY DEF BaseType
<1>2. {"getPublish", "resumePublish"} \subseteq Returns BY DEF Returns
<1>3. {"current"} \subseteq Places BY PlacesHave
<1>4. contract \in Contracts \cup {NoContract} BY DEF BaseType
<1>5. /\ [op[w] EXCEPT !.sub = contract, !.at = "current",
                  !.ret = IF op[w].kind = "get" THEN "getPublish" ELSE "resumePublish"] \in Handlers
      /\ [op[w] EXCEPT !.sub = contract, !.at = "current",
                  !.ret = IF op[w].kind = "get" THEN "getPublish" ELSE "resumePublish"].alone = op[w].alone
  BY <1>1, <1>2, <1>3, <1>4 DEF Handlers
<1> QED BY <1>5 DEF Latest, Moved, Returns

LEMMA ResumeLoadMoves == ASSUME BaseType, NEW w \in Workers, ResumeLoad(w) PROVE Moved(w)
<1>1. op[w] \in Handlers BY DEF BaseType
<1>2. {"resumeOverlay"} \subseteq Places BY PlacesHave
<1>3. contract \in Contracts \cup {NoContract} BY DEF BaseType
<1>4. /\ [op[w] EXCEPT !.seen = contract, !.at = "resumeOverlay"] \in Handlers
      /\ [op[w] EXCEPT !.seen = contract, !.at = "resumeOverlay"].alone = op[w].alone
  BY <1>1, <1>2, <1>3 DEF Handlers
<1>5. \/ End(w)
      \/ op' = [op EXCEPT ![w] = [op[w] EXCEPT !.seen = contract, !.at = "resumeOverlay"]]
  BY DEF ResumeLoad
<1> QED BY <1>4, <1>5, EndMoves DEF Moved

LEMMA ActivateLoadMoves == ASSUME BaseType, NEW w \in Workers, ActivateLoad(w) PROVE Moved(w)
<1>1. op[w] \in Handlers BY DEF BaseType
<1>2. {"activateGoal", "taskOverlay"} \subseteq Places BY PlacesHave
<1>3. contract \in Contracts \cup {NoContract} BY DEF BaseType
<1>4. /\ [op[w] EXCEPT !.seen = contract, !.at = "taskOverlay"] \in Handlers
      /\ [op[w] EXCEPT !.seen = contract, !.at = "taskOverlay"].alone = op[w].alone
  BY <1>1, <1>2, <1>3 DEF Handlers
<1>5. /\ [op[w] EXCEPT !.seen = contract, !.at = "activateGoal"] \in Handlers
      /\ [op[w] EXCEPT !.seen = contract, !.at = "activateGoal"].alone = op[w].alone
  BY <1>1, <1>2, <1>3 DEF Handlers
<1> QED BY <1>4, <1>5 DEF ActivateLoad, Moved, Returns

LEMMA ActivateGoalMoves == ASSUME BaseType, NEW w \in Workers, ActivateGoal(w) PROVE Moved(w)
<1>1. op[w] \in Handlers BY DEF BaseType
<1>2. {"attachReason", "matchedOverlay"} \subseteq Places BY PlacesHave
<1>3. Answer(native) \in [goal : Goals, complete : BOOLEAN] BY AnswerType DEF BaseType
<1>4. ASSUME NEW p \in {"preparePublish", "staleDetach"}
      PROVE /\ [op[w] EXCEPT !.answer = Answer(native), !.at = "attachReason",
                              !.back = p] \in Handlers
            /\ [op[w] EXCEPT !.answer = Answer(native), !.at = "attachReason",
                              !.back = p].alone = op[w].alone
  BY <1>1, <1>2, <1>3 DEF Handlers, Returns
<1>5. \/ Go(w, "matchedOverlay") \/ End(w)
      \/ \E p \in {"preparePublish", "staleDetach"} :
           op' = [op EXCEPT ![w] = [op[w] EXCEPT !.answer = Answer(native), !.at = "attachReason",
                                                  !.back = p]]
  BY DEF ActivateGoal
<1> QED BY <1>2, <1>4, <1>5, GoMoves, EndMoves DEF Moved

LEMMA CompletedLoadMoves == ASSUME BaseType, NEW w \in Workers, CompletedLoad(w) PROVE Moved(w)
<1>1. op[w] \in Handlers BY DEF BaseType
<1>2. {"completedApply"} \subseteq Places BY PlacesHave
<1>3. contract \in Contracts \cup {NoContract} BY DEF BaseType
<1>4. /\ [op[w] EXCEPT !.seen = contract, !.at = "completedApply"] \in Handlers
      /\ [op[w] EXCEPT !.seen = contract, !.at = "completedApply"].alone = op[w].alone
  BY <1>1, <1>2, <1>3 DEF Handlers
<1>5. \/ End(w)
      \/ op' = [op EXCEPT ![w] = [op[w] EXCEPT !.seen = contract, !.at = "completedApply"]]
  BY DEF CompletedLoad
<1> QED BY <1>4, <1>5, EndMoves DEF Moved

LEMMA CompletedApplyMoves == ASSUME BaseType, NEW w \in Workers, CompletedApply(w) PROVE Moved(w)
<1>1. op[w] \in Handlers BY DEF BaseType
<1>2. {"completedOverlay"} \subseteq Places BY PlacesHave
<1>3. contract' \in Contracts \cup {NoContract} BY SyncedType DEF CompletedApply, BaseType, Stored
<1>4. /\ [op[w] EXCEPT !.seen = contract', !.at = "completedOverlay"] \in Handlers
      /\ [op[w] EXCEPT !.seen = contract', !.at = "completedOverlay"].alone = op[w].alone
  BY <1>1, <1>2, <1>3 DEF Handlers
<1>5. \/ End(w)
      \/ op' = [op EXCEPT ![w] = [op[w] EXCEPT !.seen = contract', !.at = "completedOverlay"]]
  BY DEF CompletedApply
<1> QED BY <1>4, <1>5, EndMoves DEF Moved

LEMMA UiLoadMoves == ASSUME BaseType, NEW w \in Workers, UiLoad(w) PROVE Moved(w)
<1>1. op[w] \in Handlers BY DEF BaseType
<1>2. {"uiReason", "refreshLoad", "retryReason"} \subseteq Places BY PlacesHave
<1>3. contract \in Contracts \cup {NoContract} BY DEF BaseType
<1>4. /\ [op[w] EXCEPT !.seen = contract, !.at = "uiReason"] \in Handlers
      /\ [op[w] EXCEPT !.seen = contract, !.at = "uiReason"].alone = op[w].alone
  BY <1>1, <1>2, <1>3 DEF Handlers
<1>5. \/ Go(w, "retryReason") \/ Call(w, "refreshLoad", "end")
      \/ op' = [op EXCEPT ![w] = [op[w] EXCEPT !.seen = contract, !.at = "uiReason"]]
  BY DEF UiLoad
<1> QED BY <1>2, <1>4, <1>5, GoMoves, CallMoves DEF Moved, Returns

LEMMA UiReasonMoves == ASSUME BaseType, NEW w \in Workers, UiReason(w) PROVE Moved(w)
<1>1. op[w] \in Handlers BY DEF BaseType
<1>2. {"uiOverlay"} \subseteq Places BY PlacesHave
<1>3. activation' \in Reasons BY DEF UiReason, Reasons, UserReasons
<1>4. /\ [op[w] EXCEPT !.reason = activation', !.at = "uiOverlay"] \in Handlers
      /\ [op[w] EXCEPT !.reason = activation', !.at = "uiOverlay"].alone = op[w].alone
  BY <1>1, <1>2, <1>3 DEF Handlers
<1> QED BY <1>4 DEF UiReason, Moved, Returns

\* A step of a handler replaces that handler's record.
LEMMA StepMoves == ASSUME BaseType, NEW w \in Workers, Step(w) PROVE Moved(w)
  BY DetachReadMoves, DetachDecideMoves, DetachReasonFileMoves, DetachOverlayFileMoves,
     AttachReasonFileMoves, AttachOverlayFileMoves, RefreshLoadMoves, RefreshGoalMoves,
     SyncLoadMoves, SyncOverlayMoves, SyncApplyMoves, CurrentMoves, CurrentGoalMoves,
     StartMigrationMoves, ReconcileMoves,
     InitOverlayMoves, InitReasonMoves, InitGoalMoves, InitLoadMoves, InitStoreMoves,
     InitLatestMoves, InitPublishMoves, InitFailedMoves, ApplyOverlayMoves, ApplyReasonMoves,
     ApplyLoadMoves, ApplyGoalMoves, ApplyStoreMoves, ApplyReadMoves, ApplyPublishMoves,
     GetLoadMoves, LatestMoves, GetPublishMoves, ResumeLoadMoves, ResumeOverlayMoves,
     ResumeReasonMoves, ResumeGoalMoves, ResumePublishMoves, UsagePublishMoves, ActivateLoadMoves,
     TaskOverlayMoves, TaskReasonMoves, ActivateGoalMoves, MatchedOverlayMoves, MatchedReasonMoves,
     MatchedPublishMoves, StaleDetachMoves, PreparePublishMoves, CompletedLoadMoves,
     CompletedApplyMoves, CompletedOverlayMoves, CompletedReasonMoves, UiLoadMoves, UiReasonMoves,
     UiOverlayMoves, RetryReasonMoves, RetryGoalMoves
  DEF Step, Shared

\* An idle handler takes no step.
LEMMA IdleRests == ASSUME NEW w \in Workers, Step(w) PROVE op[w].at # "idle"
  BY DEF Step, Shared, At, Load, ReadOverlay, ReadReason, Migrating,
     DetachRead, DetachDecide, DetachReasonFile, DetachOverlayFile, AttachReasonFile,
     AttachOverlayFile, RefreshLoad, RefreshGoal, SyncLoad, SyncOverlay, SyncApply, Current, CurrentGoal,
     StartMigration, Reconcile, InitOverlay, InitReason, InitGoal, InitLoad, InitStore, InitLatest, InitPublish,
     InitFailed, ApplyOverlay, ApplyReason, ApplyLoad, ApplyGoal, ApplyStore, ApplyRead,
     ApplyPublish, GetLoad, Latest, GetPublish, ResumeLoad, ResumeOverlay, ResumeReason,
     ResumeGoal, ResumePublish, UsagePublish, ActivateLoad, TaskOverlay, TaskReason, ActivateGoal,
     MatchedOverlay, MatchedReason, MatchedPublish, StaleDetach, PreparePublish, CompletedLoad,
     CompletedApply, CompletedOverlay, CompletedReason, UiLoad, UiReason, UiOverlay, RetryReason,
     RetryGoal

LEMMA NewContractType ==
  ASSUME BaseType, NEW w \in Workers, NEW id \in Ids, NEW g \in Goals, NEW b \in BOOLEAN
  PROVE  NewContract(id, g, b) \in Contracts
  BY SessionAssumption DEF NewContract, Contracts

LEMMA InitStoreType == ASSUME BaseType, NEW w \in Workers, InitStore(w)
  PROVE contract' \in Contracts \cup {contract}
<1>1. op[w].answer.goal \in Goals /\ op[w].answer.complete \in BOOLEAN BY Fields
<1>2. NoGoal \in Goals BY SessionAssumption DEF NoGoal, Goals
<1>3. PICK id \in Ids, task \in BOOLEAN :
        contract' \in {contract, NewContract(id, IF task THEN NoGoal ELSE op[w].answer.goal,
                                              ~task /\ op[w].answer.complete)}
  BY DEF InitStore
<1> QED BY <1>1, <1>2, <1>3, NewContractType DEF BaseType

\* A handler writes a contract or leaves the one there is: none takes it away.
LEMMA StepContract == ASSUME BaseType, NEW w \in Workers, Step(w)
  PROVE contract' \in Contracts \cup {contract}
<1>1. CASE SyncApply(w) BY <1>1, SyncedType, Fields DEF SyncApply, BaseType, Stored
<1>2. CASE InitStore(w) BY <1>2, InitStoreType
<1>3. CASE ApplyStore(w) BY <1>3, AppliedType DEF ApplyStore, BaseType, Stored
<1>4. CASE CompletedApply(w) BY <1>4, SyncedType DEF CompletedApply, BaseType, Stored
<1>5. ASSUME ~SyncApply(w), ~InitStore(w), ~ApplyStore(w), ~CompletedApply(w)
  PROVE UNCHANGED contract
  BY <1>5 DEF Step, Shared, OnlyOp, NotFiles, Published, Load, ReadOverlay,
     DetachRead, DetachDecide, DetachReasonFile, DetachOverlayFile, AttachReasonFile,
     AttachOverlayFile, RefreshLoad, RefreshGoal, SyncLoad, SyncOverlay, SyncApply, Current, CurrentGoal,
     StartMigration, Reconcile, InitOverlay, InitReason, InitGoal, InitLoad, InitStore, InitLatest, InitPublish,
     InitFailed, ApplyOverlay, ApplyReason, ApplyLoad, ApplyGoal, ApplyStore, ApplyRead,
     ApplyPublish, GetLoad, Latest, GetPublish, ResumeLoad, ResumeOverlay, ResumeReason,
     ResumeGoal, ResumePublish, UsagePublish, ActivateLoad, TaskOverlay, TaskReason, ActivateGoal,
     MatchedOverlay, MatchedReason, MatchedPublish, StaleDetach, PreparePublish, CompletedLoad,
     CompletedApply, CompletedOverlay, CompletedReason, UiLoad, UiReason, UiOverlay, RetryReason,
     RetryGoal
<1> QED BY <1>1, <1>2, <1>3, <1>4, <1>5 DEF BaseType

LEMMA StepFiles ==
  ASSUME BaseType, NEW w \in Workers, Step(w)
  PROVE  overlay' \in BOOLEAN /\ activation' \in Reasons
<1>1. ASSUME Reconcile(w) \/ InitReason(w) \/ ApplyReason(w) \/ ResumeReason(w)
             \/ TaskReason(w) \/ MatchedReason(w) \/ CompletedReason(w)
      PROVE  UNCHANGED overlay /\ \E here, off : ReadReason(w, here, off)
  BY <1>1
  DEF ReadReason, Reconcile, InitReason, ApplyReason, ResumeReason, TaskReason, MatchedReason,
     CompletedReason
<1>2. CASE DetachReasonFile(w) \/ DetachOverlayFile(w)
  BY <1>2, Fields DEF DetachReasonFile, DetachOverlayFile, BaseType
<1>3. CASE AttachReasonFile(w) \/ AttachOverlayFile(w)
  BY <1>3, ReasonsHave DEF AttachReasonFile, AttachOverlayFile, BaseType
<1>4. CASE UiReason(w) \/ UiOverlay(w)
  BY <1>4, ReasonsHave DEF UiReason, UiOverlay, BaseType, UserReasons
<1>5. CASE DetachRead(w) \/ DetachDecide(w) \/ RefreshLoad(w) \/ RefreshGoal(w)
             \/ SyncLoad(w) \/ SyncOverlay(w) \/ SyncApply(w) \/ Current(w) \/ CurrentGoal(w)
             \/ StartMigration(w) \/ InitOverlay(w)
             \/ InitGoal(w) \/ InitLoad(w) \/ InitStore(w) \/ InitLatest(w) \/ InitPublish(w)
             \/ InitFailed(w) \/ ApplyOverlay(w) \/ ApplyLoad(w) \/ ApplyGoal(w)
             \/ ApplyStore(w) \/ ApplyRead(w) \/ ApplyPublish(w) \/ GetLoad(w) \/ Latest(w)
             \/ GetPublish(w) \/ ResumeLoad(w) \/ ResumeOverlay(w) \/ ResumeGoal(w)
             \/ ResumePublish(w) \/ UsagePublish(w) \/ ActivateLoad(w) \/ TaskOverlay(w)
             \/ ActivateGoal(w) \/ MatchedOverlay(w) \/ MatchedPublish(w) \/ StaleDetach(w)
             \/ PreparePublish(w) \/ CompletedLoad(w) \/ CompletedApply(w)
             \/ CompletedOverlay(w) \/ UiLoad(w) \/ RetryReason(w) \/ RetryGoal(w)
  BY <1>5
  DEF BaseType, files, OnlyOp, NotFiles, Published, Load, ReadOverlay, DetachRead,
     DetachDecide,
     RefreshLoad, RefreshGoal, SyncLoad, SyncOverlay, SyncApply, Current, CurrentGoal, StartMigration,
     InitOverlay, InitGoal,
     InitLoad, InitStore, InitLatest, InitPublish, InitFailed, ApplyOverlay, ApplyLoad, ApplyGoal,
     ApplyStore, ApplyRead, ApplyPublish, GetLoad, Latest, GetPublish, ResumeLoad, ResumeOverlay,
     ResumeGoal, ResumePublish, UsagePublish, ActivateLoad, TaskOverlay, ActivateGoal,
     MatchedOverlay, MatchedPublish, StaleDetach, PreparePublish, CompletedLoad, CompletedApply,
     CompletedOverlay, UiLoad, RetryReason, RetryGoal
<1> QED BY <1>1, <1>2, <1>3, <1>4, <1>5, ReasonRead DEF Step, Shared, BaseType

LEMMA StepPreparing == ASSUME BaseType, NEW w \in Workers, Step(w) PROVE preparing' \in Goals
<1>1. Answer(native).goal \in Goals /\ op[w].answer.goal \in Goals
  BY AnswerType, Fields DEF BaseType
<1>2. NoGoal \in Goals BY SessionAssumption DEF NoGoal, Goals
<1>3. \A a : Remember(a) /\ a.goal \in Goals => preparing' \in Goals
  BY DEF Remember, BaseType
<1>4. CASE SyncOverlay(w) \/ Current(w) \/ CurrentGoal(w) \/ AttachOverlayFile(w) \/ Reconcile(w)
             \/ InitReason(w) \/ InitStore(w) \/ ApplyGoal(w) \/ GetPublish(w)
             \/ ResumeGoal(w) \/ UsagePublish(w) \/ ActivateGoal(w) \/ PreparePublish(w)
             \/ UiOverlay(w) \/ RetryGoal(w)
  BY <1>1, <1>2, <1>3, <1>4
  DEF BaseType, PublishPreparing, SyncOverlay, Current, CurrentGoal, Decide, AttachOverlayFile,
     Reconcile, InitReason,
     InitStore, ApplyGoal,
     GetPublish, ResumeGoal, UsagePublish, ActivateGoal, PreparePublish, UiOverlay, RetryGoal
<1>5. CASE DetachRead(w) \/ DetachDecide(w) \/ DetachReasonFile(w) \/ DetachOverlayFile(w)
             \/ AttachReasonFile(w) \/ RefreshLoad(w) \/ RefreshGoal(w) \/ SyncLoad(w)
             \/ SyncApply(w) \/ InitOverlay(w) \/ InitGoal(w) \/ InitLoad(w) \/ InitLatest(w)
             \/ InitPublish(w) \/ InitFailed(w) \/ ApplyOverlay(w) \/ ApplyReason(w)
             \/ ApplyLoad(w) \/ ApplyStore(w) \/ ApplyRead(w) \/ ApplyPublish(w)
             \/ GetLoad(w) \/ Latest(w) \/ ResumeLoad(w) \/ ResumeOverlay(w)
             \/ ResumeReason(w) \/ ResumePublish(w) \/ ActivateLoad(w) \/ TaskOverlay(w)
             \/ TaskReason(w) \/ MatchedOverlay(w) \/ MatchedReason(w) \/ MatchedPublish(w)
             \/ StaleDetach(w) \/ CompletedLoad(w) \/ CompletedApply(w)
             \/ CompletedOverlay(w) \/ CompletedReason(w) \/ UiLoad(w) \/ UiReason(w)
             \/ RetryReason(w) \/ StartMigration(w)
  BY <1>5
  DEF BaseType, StartMigration, OnlyOp, NotFiles, Published, Load, ReadOverlay, DetachRead, DetachDecide,
     DetachReasonFile, DetachOverlayFile, AttachReasonFile, RefreshLoad, RefreshGoal, SyncLoad,
     SyncApply, InitOverlay, InitGoal, InitLoad, InitLatest, InitPublish, InitFailed, ApplyOverlay,
     ApplyReason, ApplyLoad, ApplyStore, ApplyRead, ApplyPublish, GetLoad, Latest, ResumeLoad,
     ResumeOverlay, ResumeReason, ResumePublish, ActivateLoad, TaskOverlay, TaskReason,
     MatchedOverlay, MatchedReason, MatchedPublish, StaleDetach, CompletedLoad, CompletedApply,
     CompletedOverlay, CompletedReason, UiLoad, UiReason, RetryReason
<1> QED BY <1>4, <1>5 DEF Step, Shared

LEMMA StepEnv == ASSUME BaseType, NEW w \in Workers, Step(w)
  PROVE UNCHANGED env /\ kept' \in BOOLEAN
<1>1. ASSUME ~UiOverlay(w) PROVE UNCHANGED <<env, kept>>
  BY <1>1
  DEF Step, Shared, OnlyOp, NotFiles, Published, Load, ReadOverlay, DetachRead,
     DetachDecide,
     DetachReasonFile, DetachOverlayFile, AttachReasonFile, AttachOverlayFile, RefreshLoad,
     RefreshGoal, SyncLoad, SyncOverlay, SyncApply, Current, CurrentGoal,
     StartMigration, Reconcile, InitOverlay, InitReason,
     InitGoal, InitLoad, InitStore, InitLatest, InitPublish, InitFailed, ApplyOverlay, ApplyReason,
     ApplyLoad, ApplyGoal, ApplyStore, ApplyRead, ApplyPublish, GetLoad, Latest, GetPublish,
     ResumeLoad, ResumeOverlay, ResumeReason, ResumeGoal, ResumePublish, UsagePublish,
     ActivateLoad, TaskOverlay, TaskReason, ActivateGoal, MatchedOverlay, MatchedReason,
     MatchedPublish, StaleDetach, PreparePublish, CompletedLoad, CompletedApply, CompletedOverlay,
     CompletedReason, UiLoad, UiReason, RetryReason, RetryGoal
<1>2. CASE UiOverlay(w) BY <1>2, Fields DEF UiOverlay, BaseType, Handlers
<1> QED BY <1>1, <1>2 DEF BaseType, env

LEMMA StepType == ASSUME BaseType, NEW w \in Workers, Step(w) PROVE BaseType'
<1>1. op' \in [Workers -> Handlers] BY StepMoves DEF Moved, BaseType
<1> QED BY <1>1, StepContract, StepFiles, StepPreparing, StepEnv DEF BaseType, env

LEMMA EntryType == ASSUME NEW kind \in Kinds PROVE EntryOf[kind] \in Places
  BY DEF Places

\* What a handler starts with.
Begun(kind, stale) ==
  [Idle EXCEPT !.kind = kind, !.at = EntryOf[kind], !.stale = stale,
               !.ret = IF kind = "usage" THEN "usagePublish" ELSE @,
               !.answer = IF kind = "usage" /\ ~stale THEN Answer(native) ELSE @,
               !.alone = (Busy = {}), !.during = {Answer(native).goal}]

LEMMA BegunType ==
  ASSUME BaseType, NEW kind \in Kinds, NEW stale \in BOOLEAN
  PROVE  /\ Begun(kind, stale) \in Handlers
         /\ Begun(kind, stale).kind = kind /\ Begun(kind, stale).at = EntryOf[kind]
         /\ Begun(kind, stale).alone = (Busy = {})
         /\ Begun(kind, stale).ret = IF kind = "usage" THEN "usagePublish" ELSE "idle"
         /\ Begun(kind, stale).reason = "none"
<1>1. Answer(native) \in [goal : Goals, complete : BOOLEAN] /\ Answer(native).goal \in Goals
  BY AnswerType DEF BaseType
<1>2. EntryOf[kind] \in Places /\ "usagePublish" \in Returns BY EntryType DEF Returns
<1>3. Idle \in Handlers /\ Idle.ret = "idle" /\ Idle.reason = "none" BY IdleType DEF Idle
<1>4. (Busy = {}) \in BOOLEAN OBVIOUS
<1> QED BY <1>1, <1>2, <1>3, <1>4 DEF Begun, Handlers

LEMMA BeginType ==
  ASSUME BaseType, NEW w \in Workers, NEW kind \in Kinds, Begin(w, kind)
  PROVE  /\ BaseType'
         /\ \E stale \in BOOLEAN : op'[w] = Begun(kind, stale)
         /\ \A v \in Workers \ {w} : op'[v] = [op[v] EXCEPT !.alone = FALSE]
         /\ op[w].at = "idle"
<1>1. PICK stale \in BOOLEAN :
        op' = [v \in Workers |-> IF v # w THEN [op[v] EXCEPT !.alone = FALSE]
                                 ELSE Begun(kind, stale)]
  BY DEF Begin, Begun
<1>2. \A v \in Workers : [op[v] EXCEPT !.alone = FALSE] \in Handlers
  <2> TAKE v \in Workers
  <2>1. op[v] \in Handlers BY DEF BaseType
  <2> QED BY <2>1 DEF Handlers
<1>3. op' \in [Workers -> Handlers] BY <1>1, <1>2, BegunType
<1>4. kept' \in BOOLEAN BY DEF Begin, BaseType
<1>5. UNCHANGED <<contract, native, overlay, activation, preparing>> BY DEF Begin, files
<1> QED BY <1>1, <1>3, <1>4, <1>5 DEF BaseType, Begin, Busy

LEMMA GoalChangeType ==
  ASSUME BaseType, GoalChange
  PROVE  /\ BaseType'
         /\ \A w \in Workers : \E d : op'[w] = [op[w] EXCEPT !.during = d]
<1>1. native' \in Natives BY SessionAssumption DEF GoalChange, BaseType, Natives
<1>2. Answer(native').goal \in Goals BY <1>1, AnswerType
<1>3. ASSUME NEW w \in Workers
      PROVE  /\ op[w] \in Handlers
             /\ [op[w] EXCEPT !.during = @ \cup {Answer(native').goal}] \in Handlers
             /\ op[w] = [op[w] EXCEPT !.during = op[w].during]
  <2>1. op[w] \in Handlers BY DEF BaseType
  <2>2. op[w].during \cup {Answer(native').goal} \in SUBSET Goals BY <1>2, <2>1 DEF Handlers
  <2> QED BY <2>1, <2>2 DEF Handlers
<1>4. op' = [w \in Workers |-> IF w \in Busy
                               THEN [op[w] EXCEPT !.during = @ \cup {Answer(native').goal}]
                               ELSE op[w]]
  BY DEF GoalChange
<1>5. op' \in [Workers -> Handlers] BY <1>3, <1>4
<1>6. UNCHANGED <<contract, overlay, activation, preparing, kept>> BY DEF GoalChange, files
<1>7. ASSUME NEW w \in Workers PROVE \E d : op'[w] = [op[w] EXCEPT !.during = d]
  BY <1>3, <1>4
<1> QED BY <1>1, <1>5, <1>6, <1>7 DEF BaseType

LEMMA CrashType == BaseType /\ Crash => BaseType'
<1> SUFFICES ASSUME BaseType, Crash PROVE BaseType'
  OBVIOUS
<1>1. NoGoal \in Goals BY SessionAssumption DEF NoGoal, Goals
<1> QED BY <1>1, IdleType DEF BaseType, Crash, files

LEMMA InitType == Init => BaseType
<1> SUFFICES ASSUME Init PROVE BaseType
  OBVIOUS
<1>1. NoGoal \in Goals BY SessionAssumption DEF NoGoal, Goals
<1>2. PICK s \in Starts : /\ contract = s.contract /\ native = s.native
                          /\ overlay = s.overlay /\ activation = s.activation
  BY DEF Init
<1>3. s \in [contract : Contracts \cup {NoContract}, native : Natives,
             overlay : BOOLEAN, activation : Reasons]
  BY SessionAssumption
<1> QED BY <1>1, <1>2, <1>3, IdleType DEF Init, BaseType

-----------------------------------------------------------------------------
(* A detach of the user is kept.  While it is, a handler can only be at a  *)
(* place from which nothing takes the thread up again or detaches it for   *)
(* another reason: every one that was begun after it has read the files    *)
(* that it left.                                                           *)

SafePlaces ==
  {"idle", "initOverlay", "initReason", "initFailed", "applyOverlay", "applyReason",
   "activateLoad", "taskOverlay", "taskReason", "getLoad", "getLatest", "getPublish",
   "resumeLoad", "resumeOverlay", "resumeReason", "resumePublish", "refreshLoad",
   "refreshGoal", "syncLoad", "syncOverlay", "current", "currentGoal", "reconcile",
   "usagePublish", "completedLoad", "completedApply", "completedOverlay", "completedReason", "uiLoad",
   "uiReason", "uiOverlay"}

SharedPlaces ==
  {"refreshLoad", "refreshGoal", "syncLoad", "syncOverlay", "current", "currentGoal", "reconcile"}
SafeReturns  == {"end", "getLatest", "getPublish", "resumePublish", "usagePublish"}

Safe(o) ==
  /\ o.at \in SafePlaces
  /\ o.at \in {"initOverlay", "initReason"} => o.kind = "initGoal"
  /\ o.at = "activateLoad" => o.kind = "startTask"
  /\ o.at = "uiLoad" => o.kind = "detach"
  /\ o.at = "resumeReason" => o.off
  /\ o.at = "currentGoal" => o.cur
  /\ o.at \in SharedPlaces => o.ret \in SafeReturns

KeptInv ==
  /\ BaseType
  /\ \A w \in Workers : op[w].alone => \A v \in Workers \ {w} : op[v].at = "idle"
  /\ \A w \in Workers : op[w].at = "uiOverlay" /\ op[w].alone => activation \in UserReasons
  /\ kept => overlay /\ activation \in UserReasons /\ \A w \in Workers : Safe(op[w])

\* While a detach is kept, a step of a handler leaves the files as the user
\* wants them and ends at a safe place.
LEMMA SafeStep ==
  ASSUME KeptInv, kept, NEW w \in Workers, Step(w)
  PROVE  overlay' /\ activation' \in UserReasons /\ Safe(op'[w])
<1>1. /\ BaseType /\ overlay /\ activation \in UserReasons /\ Safe(op[w])
      /\ activation # "absent" /\ KeepsDetached(activation)
  BY DEF KeptInv, UserReasons, KeepsDetached
<1>2. op \in [Workers -> Handlers] /\ op[w] \in Handlers BY <1>1 DEF BaseType
<1>3. Idle.at = "idle" /\ Safe(Idle) BY DEF Idle, Safe, SafePlaces, SharedPlaces
<1>4. \A here \in DOMAIN Migrating : \A off : ReadReason(w, here, off) =>
        op[w].at = here /\ activation' = activation /\ UNCHANGED overlay
  BY <1>1 DEF ReadReason, Migrating, At, Safe, SafePlaces
<1> USE <1>1, <1>2 DEF Safe
<1>5. CASE RefreshLoad(w)
  BY <1>5, <1>3
  DEF RefreshLoad, At, OnlyOp, Go, Return, End, files, SafePlaces, SharedPlaces, SafeReturns,
     Handlers
<1>6. CASE RefreshGoal(w)
  BY <1>6, <1>3
  DEF RefreshGoal, OnlyOp, At, files, SafePlaces, SharedPlaces, SafeReturns, Handlers
<1>7. CASE SyncLoad(w)
  BY <1>7, <1>3
  DEF SyncLoad, At, OnlyOp, Return, Go, End, files, SafePlaces, SharedPlaces, SafeReturns, Handlers
<1>8. CASE SyncOverlay(w)
  BY <1>8, <1>3
  DEF SyncOverlay, At, Go, CallDetach, DetachReason, files, SafePlaces, SharedPlaces, SafeReturns,
     Handlers
<1>9. CASE Current(w)
  BY <1>9, <1>3
  DEF Current, Decide, ReturnOverlay, At, End, CallDetach, DetachReason, files, SafePlaces,
     SharedPlaces, SafeReturns, Handlers
<1>10. CASE Reconcile(w)
  <2>1. op[w].at = "reconcile" /\ activation' = activation /\ UNCHANGED overlay
    BY <1>4, <1>10 DEF Reconcile, Migrating
  <2>2. Return(w, op[w].ret) BY <1>10, <2>1 DEF Reconcile
  <2>3. op[w].ret \in SafeReturns BY <2>1 DEF SharedPlaces
  <2> QED
    BY <1>3, <2>1, <2>2, <2>3 DEF Return, Go, End, SafePlaces, SharedPlaces, SafeReturns, Handlers
<1>11. CASE InitOverlay(w)
  BY <1>11, <1>3
  DEF InitOverlay, ReadOverlay, OnlyOp, At, files, SafePlaces, SharedPlaces, SafeReturns, Handlers
<1>12. CASE InitReason(w)
  BY <1>12, <1>3, <1>4 DEF InitReason, Migrating, Go, SafePlaces, SharedPlaces, SafeReturns, Handlers
<1>13. CASE InitFailed(w)
  BY <1>13, <1>3
  DEF InitFailed, At, Published, End, files, SafePlaces, SharedPlaces, SafeReturns, Handlers
<1>14. CASE ApplyOverlay(w)
  BY <1>14, <1>3
  DEF ApplyOverlay, ReadOverlay, OnlyOp, At, files, SafePlaces, SharedPlaces, SafeReturns, Handlers
<1>15. CASE ApplyReason(w)
  BY <1>15, <1>3, <1>4
  DEF ApplyReason, Migrating, NotFiles, Go, End, SafePlaces, SharedPlaces, SafeReturns, Handlers
<1>16. CASE GetLoad(w)
  BY <1>16, <1>3
  DEF GetLoad, At, OnlyOp, End, Call, files, SafePlaces, SharedPlaces, SafeReturns, Handlers
<1>17. CASE Latest(w)
  BY <1>17, <1>3 DEF Latest, OnlyOp, files, SafePlaces, SharedPlaces, SafeReturns, Handlers
<1>18. CASE GetPublish(w)
  BY <1>18, <1>3 DEF GetPublish, At, End, files, SafePlaces, SharedPlaces, SafeReturns, Handlers
<1>19. CASE ResumeLoad(w)
  BY <1>19, <1>3
  DEF ResumeLoad, At, OnlyOp, End, files, SafePlaces, SharedPlaces, SafeReturns, Handlers
<1>20. CASE ResumeOverlay(w)
  BY <1>20, <1>3
  DEF ResumeOverlay, ReadOverlay, OnlyOp, At, files, SafePlaces, SharedPlaces, SafeReturns, Handlers
<1>21. CASE ResumeReason(w)
  BY <1>21, <1>3, <1>4
  DEF ResumeReason, Migrating, Go, End, CallDetach, SafePlaces, SharedPlaces, SafeReturns, Handlers
<1>22. CASE ResumePublish(w)
  BY <1>22, <1>3
  DEF ResumePublish, At, Published, End, files, SafePlaces, SharedPlaces, SafeReturns, Handlers
<1>23. CASE UsagePublish(w)
  BY <1>23, <1>3 DEF UsagePublish, At, End, files, SafePlaces, SharedPlaces, SafeReturns, Handlers
<1>24. CASE ActivateLoad(w)
  BY <1>24, <1>3
  DEF ActivateLoad, At, OnlyOp, files, SafePlaces, SharedPlaces, SafeReturns, Handlers
<1>25. CASE TaskOverlay(w)
  BY <1>25, <1>3
  DEF TaskOverlay, ReadOverlay, OnlyOp, At, files, SafePlaces, SharedPlaces, SafeReturns, Handlers
<1>26. CASE TaskReason(w)
  BY <1>26, <1>3, <1>4
  DEF TaskReason, Migrating, End, SafePlaces, SharedPlaces, SafeReturns, Handlers
<1>27. CASE CompletedLoad(w)
  BY <1>27, <1>3
  DEF CompletedLoad, At, OnlyOp, End, files, SafePlaces, SharedPlaces, SafeReturns, Handlers
<1>28. CASE CompletedApply(w)
  <2>1. UNCHANGED files BY <1>28 DEF CompletedApply
  <2>2. op'[w] = Idle \/ op'[w].at = "completedOverlay"
    <3>1. \/ op' = [op EXCEPT ![w] = Idle]
          \/ op' = [op EXCEPT ![w].seen = contract', ![w].at = "completedOverlay"]
      BY <1>28 DEF CompletedApply, End
    <3> QED BY <1>3, <3>1 DEF Handlers
  <2> QED BY <1>3, <2>1, <2>2 DEF files, SafePlaces, SharedPlaces
<1>29. CASE CompletedOverlay(w)
  BY <1>29, <1>3
  DEF CompletedOverlay, ReadOverlay, OnlyOp, At, files, SafePlaces, SharedPlaces, SafeReturns,
     Handlers
<1>30. CASE CompletedReason(w)
  BY <1>30, <1>3, <1>4
  DEF CompletedReason, Migrating, NotFiles, End, CallAttach, SafePlaces, SharedPlaces, SafeReturns,
     Handlers
<1>31. CASE UiLoad(w)
  BY <1>31, <1>3
  DEF UiLoad, At, OnlyOp, Go, Call, files, SafePlaces, SharedPlaces, SafeReturns, Handlers
<1>32. CASE UiReason(w)
  BY <1>32, <1>3
  DEF UiReason, At, NotFiles, SafePlaces, SharedPlaces, SafeReturns, Handlers, KeepsDetached,
     UserReasons
<1>33. CASE UiOverlay(w)
  BY <1>33, <1>3 DEF UiOverlay, At, End, Call, SafePlaces, SharedPlaces, SafeReturns, Handlers
<1>35. CASE CurrentGoal(w)
  <2>1. At(w, "currentGoal") /\ UNCHANGED files BY <1>35 DEF CurrentGoal
  <2>2. CASE ReturnOverlay(w, op[w].cur, TRUE)
    BY <1>3, <2>1, <2>2
    DEF ReturnOverlay, At, End, files, SafePlaces, SharedPlaces, SafeReturns, Handlers
  <2>3. CASE Decide(w, Answer(native), op[w].cur)
    BY <1>3, <2>1, <2>3
    DEF Decide, ReturnOverlay, At, End, CallDetach, DetachReason, files, SafePlaces,
        SharedPlaces, SafeReturns, Handlers
  <2> QED BY <1>35, <2>2, <2>3 DEF CurrentGoal
<1>34. ASSUME StartMigration(w) \/ DetachRead(w) \/ DetachDecide(w) \/ DetachReasonFile(w) \/ DetachOverlayFile(w)
             \/ AttachReasonFile(w) \/ AttachOverlayFile(w) \/ SyncApply(w) \/ InitGoal(w)
             \/ InitLoad(w) \/ InitStore(w) \/ InitLatest(w) \/ InitPublish(w)
             \/ ApplyLoad(w) \/ ApplyGoal(w) \/ ApplyStore(w) \/ ApplyRead(w)
             \/ ApplyPublish(w) \/ ResumeGoal(w) \/ ActivateGoal(w) \/ MatchedOverlay(w)
             \/ MatchedReason(w) \/ MatchedPublish(w) \/ StaleDetach(w) \/ PreparePublish(w)
             \/ RetryReason(w) \/ RetryGoal(w)
      PROVE  FALSE
  BY <1>34 DEF SafePlaces, At, StartMigration, Load, ReadOverlay, ReadReason, Migrating,
     DetachRead, DetachDecide, DetachReasonFile, DetachOverlayFile, AttachReasonFile,
     AttachOverlayFile, SyncApply, InitGoal, InitLoad, InitStore, InitLatest, InitPublish,
     ApplyLoad, ApplyGoal, ApplyStore, ApplyRead, ApplyPublish, ResumeGoal, ActivateGoal,
     MatchedOverlay, MatchedReason, MatchedPublish, StaleDetach, PreparePublish, RetryReason,
     RetryGoal
<1> QED
  BY <1>5, <1>6, <1>7, <1>8, <1>9, <1>10, <1>11, <1>12, <1>13, <1>14, <1>15, <1>16, <1>17, <1>18,
     <1>19, <1>20, <1>21, <1>22, <1>23, <1>24, <1>25, <1>26, <1>27, <1>28, <1>29, <1>30, <1>31,
     <1>32, <1>33, <1>34, <1>35
  DEF Step, Shared


\* Only UiReason leads to the place at which the detach is written.
LEMMA StepToUiOverlay ==
  ASSUME BaseType, NEW w \in Workers, Step(w), op'[w].at = "uiOverlay"
  PROVE  UiReason(w)
<1>1. /\ op \in [Workers -> Handlers] /\ op[w] \in Handlers
      /\ {op[w].ret, op[w].back} \subseteq Returns
  BY Fields
<1>0. CompletedApply(w) => op'[w] = Idle \/ op'[w].at = "completedOverlay"
  <2> SUFFICES ASSUME CompletedApply(w) PROVE op'[w] = Idle \/ op'[w].at = "completedOverlay"
    OBVIOUS
  <2>1. End(w) \/ op' = [op EXCEPT ![w].seen = contract', ![w].at = "completedOverlay"]
    BY DEF CompletedApply
  <2> QED BY <1>1, <2>1 DEF End, Handlers
<1> USE <1>1 DEF Handlers, Returns
<1>2. DetachRead(w) => op'[w].at # "uiOverlay" BY DEF DetachRead
<1>3. DetachDecide(w) => op'[w].at # "uiOverlay" BY DEF DetachDecide, Go, Return, End, Idle
<1>4. DetachReasonFile(w) => op'[w].at # "uiOverlay" BY DEF DetachReasonFile, Go
<1>5. DetachOverlayFile(w) => op'[w].at # "uiOverlay" BY DEF DetachOverlayFile, End, Idle
<1>6. AttachReasonFile(w) => op'[w].at # "uiOverlay" BY DEF AttachReasonFile, Go
<1>7. AttachOverlayFile(w) => op'[w].at # "uiOverlay" BY DEF AttachOverlayFile, End, Idle
<1>8. RefreshLoad(w) => op'[w].at # "uiOverlay" BY DEF RefreshLoad, Go, Return, End, Idle
<1>9. RefreshGoal(w) => op'[w].at # "uiOverlay" BY DEF RefreshGoal
<1>10. SyncLoad(w) => op'[w].at # "uiOverlay" BY DEF SyncLoad, Return, Go, End, Idle
<1>11. SyncOverlay(w) => op'[w].at # "uiOverlay" BY DEF SyncOverlay, Go, CallDetach
<1>12. SyncApply(w) => op'[w].at # "uiOverlay" BY DEF SyncApply
<1>13. Current(w) => op'[w].at # "uiOverlay"
  BY DEF Current, Decide, ReturnOverlay, End, CallDetach, Idle
<1>14. Reconcile(w) => op'[w].at # "uiOverlay"
  BY DEF Reconcile, Return, CallAttach, CallDetach, Go, End, Idle
<1>15. InitOverlay(w) => op'[w].at # "uiOverlay" BY DEF InitOverlay, ReadOverlay
<1>16. InitReason(w) => op'[w].at # "uiOverlay" BY DEF InitReason, Go
<1>17. InitGoal(w) => op'[w].at # "uiOverlay" BY DEF InitGoal, Go
<1>18. InitLoad(w) => op'[w].at # "uiOverlay" BY DEF InitLoad, Load
<1>19. InitStore(w) => op'[w].at # "uiOverlay" BY DEF InitStore, Go, Call
<1>20. InitLatest(w) => op'[w].at # "uiOverlay" BY DEF InitLatest
<1>21. InitPublish(w) => op'[w].at # "uiOverlay" BY DEF InitPublish, End, Idle
<1>22. InitFailed(w) => op'[w].at # "uiOverlay" BY DEF InitFailed, End, Idle
<1>23. ApplyOverlay(w) => op'[w].at # "uiOverlay" BY DEF ApplyOverlay, ReadOverlay
<1>24. ApplyReason(w) => op'[w].at # "uiOverlay" BY DEF ApplyReason, Go, End, Idle
<1>25. ApplyLoad(w) => op'[w].at # "uiOverlay" BY DEF ApplyLoad, End, Idle
<1>26. ApplyGoal(w) => op'[w].at # "uiOverlay" BY DEF ApplyGoal, Go, End, CallDetach, Idle
<1>27. ApplyStore(w) => op'[w].at # "uiOverlay" BY DEF ApplyStore, End, Idle
<1>28. ApplyRead(w) => op'[w].at # "uiOverlay" BY DEF ApplyRead, ReadOverlay
<1>29. ApplyPublish(w) => op'[w].at # "uiOverlay" BY DEF ApplyPublish, End, Idle
<1>30. GetLoad(w) => op'[w].at # "uiOverlay" BY DEF GetLoad, End, Call, Idle
<1>31. Latest(w) => op'[w].at # "uiOverlay" BY DEF Latest
<1>32. GetPublish(w) => op'[w].at # "uiOverlay" BY DEF GetPublish, End, Idle
<1>33. ResumeLoad(w) => op'[w].at # "uiOverlay" BY DEF ResumeLoad, End, Idle
<1>34. ResumeOverlay(w) => op'[w].at # "uiOverlay" BY DEF ResumeOverlay, ReadOverlay
<1>35. ResumeReason(w) => op'[w].at # "uiOverlay" BY DEF ResumeReason, Go, End, CallDetach, Idle
<1>36. ResumeGoal(w) => op'[w].at # "uiOverlay" BY DEF ResumeGoal, Call, End, CallDetach, Idle
<1>37. ResumePublish(w) => op'[w].at # "uiOverlay" BY DEF ResumePublish, End, Idle
<1>38. UsagePublish(w) => op'[w].at # "uiOverlay" BY DEF UsagePublish, End, Idle
<1>39. ActivateLoad(w) => op'[w].at # "uiOverlay" BY DEF ActivateLoad
<1>40. TaskOverlay(w) => op'[w].at # "uiOverlay" BY DEF TaskOverlay, ReadOverlay
<1>41. TaskReason(w) => op'[w].at # "uiOverlay" BY DEF TaskReason, End, Idle
<1>42. ActivateGoal(w) => op'[w].at # "uiOverlay" BY DEF ActivateGoal, Go, End, Idle
<1>43. MatchedOverlay(w) => op'[w].at # "uiOverlay" BY DEF MatchedOverlay, ReadOverlay
<1>44. MatchedReason(w) => op'[w].at # "uiOverlay" BY DEF MatchedReason, End, CallAttach, Idle
<1>45. MatchedPublish(w) => op'[w].at # "uiOverlay" BY DEF MatchedPublish, End, Idle
<1>46. StaleDetach(w) => op'[w].at # "uiOverlay" BY DEF StaleDetach, CallDetach
<1>47. PreparePublish(w) => op'[w].at # "uiOverlay" BY DEF PreparePublish, End, Idle
<1>48. CompletedLoad(w) => op'[w].at # "uiOverlay" BY DEF CompletedLoad, End, Idle
<1>49. CompletedApply(w) => op'[w].at # "uiOverlay" BY <1>0 DEF Idle
<1>50. CompletedOverlay(w) => op'[w].at # "uiOverlay" BY DEF CompletedOverlay, ReadOverlay
<1>51. CompletedReason(w) => op'[w].at # "uiOverlay" BY DEF CompletedReason, End, CallAttach, Idle
<1>52. UiLoad(w) => op'[w].at # "uiOverlay" BY DEF UiLoad, Go, Call
<1>53. UiOverlay(w) => op'[w].at # "uiOverlay" BY DEF UiOverlay, End, Call, Idle
<1>54. RetryReason(w) => op'[w].at # "uiOverlay" BY DEF RetryReason, End, CallAttach, Idle
<1>55. RetryGoal(w) => op'[w].at # "uiOverlay" BY DEF RetryGoal, End, Idle
<1>56. CurrentGoal(w) => op'[w].at # "uiOverlay"
  BY DEF CurrentGoal, Decide, ReturnOverlay, End, CallDetach, Idle
<1>57. StartMigration(w) => op'[w].at # "uiOverlay" BY DEF StartMigration, Migrating, Go
<1> QED
  BY <1>2, <1>3, <1>4, <1>5, <1>6, <1>7, <1>8, <1>9, <1>10, <1>11, <1>12, <1>13, <1>14, <1>15,
     <1>16, <1>17, <1>18, <1>19, <1>20, <1>21, <1>22, <1>23, <1>24, <1>25, <1>26, <1>27, <1>28,
     <1>29, <1>30, <1>31, <1>32, <1>33, <1>34, <1>35, <1>36, <1>37, <1>38, <1>39, <1>40, <1>41,
     <1>42, <1>43, <1>44, <1>45, <1>46, <1>47, <1>48, <1>49, <1>50, <1>51, <1>52, <1>53, <1>54,
     <1>55, <1>56, <1>57
  DEF Step, Shared

\* Only the write of a detach begins to keep it.
LEMMA KeptBegins ==
  ASSUME BaseType, NEW w \in Workers, Step(w), kept', ~kept
  PROVE  UiOverlay(w) /\ op[w].alone
<1>1. ASSUME ~UiOverlay(w) PROVE UNCHANGED kept
  BY <1>1
  DEF Step, Shared, OnlyOp, NotFiles, Published, Load, ReadOverlay, DetachRead,
     DetachDecide,
     DetachReasonFile, DetachOverlayFile, AttachReasonFile, AttachOverlayFile, RefreshLoad,
     RefreshGoal, SyncLoad, SyncOverlay, SyncApply, Current, CurrentGoal,
     StartMigration, Reconcile, InitOverlay, InitReason,
     InitGoal, InitLoad, InitStore, InitLatest, InitPublish, InitFailed, ApplyOverlay, ApplyReason,
     ApplyLoad, ApplyGoal, ApplyStore, ApplyRead, ApplyPublish, GetLoad, Latest, GetPublish,
     ResumeLoad, ResumeOverlay, ResumeReason, ResumeGoal, ResumePublish, UsagePublish,
     ActivateLoad, TaskOverlay, TaskReason, ActivateGoal, MatchedOverlay, MatchedReason,
     MatchedPublish, StaleDetach, PreparePublish, CompletedLoad, CompletedApply, CompletedOverlay,
     CompletedReason, UiLoad, UiReason, RetryReason, RetryGoal
<1> QED BY <1>1 DEF UiOverlay

LEMMA SafeAfterUiOverlay == ASSUME BaseType, NEW w \in Workers, UiOverlay(w) PROVE Safe(op'[w])
  BY Fields DEF UiOverlay, Call, End, Idle, Safe, SafePlaces, SharedPlaces, SafeReturns, Handlers

\* What is begun without taking a thread up again is at a safe place.
LEMMA SafeBegun ==
  ASSUME BaseType, NEW kind \in Kinds, NEW stale \in BOOLEAN, kind \notin Reopening
  PROVE  Safe(Begun(kind, stale))
<1>1. /\ Begun(kind, stale).at = EntryOf[kind] /\ Begun(kind, stale).kind = kind
      /\ Begun(kind, stale).ret = IF kind = "usage" THEN "usagePublish" ELSE "idle"
  BY BegunType
<1>2. \/ kind = "initGoal" /\ EntryOf[kind] = "initOverlay"
      \/ kind = "startTask" /\ EntryOf[kind] = "activateLoad"
      \/ kind = "detach" /\ EntryOf[kind] = "uiLoad"
      \/ kind = "usage" /\ EntryOf[kind] = "syncLoad"
      \/ EntryOf[kind] \in {"applyOverlay", "getLoad", "resumeLoad", "completedLoad"}
  BY DEF Kinds, EntryOf, Reopening
<1> QED BY <1>1, <1>2 DEF Safe, SafePlaces, SharedPlaces, SafeReturns

LEMMA NextKeepsKeptInv == KeptInv /\ [Next]_vars => KeptInv'
<1> SUFFICES ASSUME KeptInv, [Next]_vars PROVE KeptInv'
  OBVIOUS
<1>0. BaseType BY DEF KeptInv
<1>1. ASSUME NEW w \in Workers, Step(w) PROVE KeptInv'
  <2>1. BaseType' BY <1>0, <1>1, StepType
  <2>2. PICK o \in Handlers : op' = [op EXCEPT ![w] = o] /\ (o.alone => op[w].alone)
    BY <1>0, <1>1, StepMoves DEF Moved
  <2>3. op'[w] = o /\ \A v \in Workers \ {w} : op'[v] = op[v]
    BY <1>0, <2>2 DEF BaseType
  <2>4. op[w].at # "idle" BY <1>1, IdleRests
  \* Nobody else moves while a handler is alone.
  <2>5. ASSUME NEW v \in Workers, op'[v].alone
        PROVE  v = w /\ op[w].alone /\ \A u \in Workers \ {w} : op'[u].at = "idle"
    <3>1. op[v].alone BY <2>2, <2>3, <2>5
    <3>2. \A u \in Workers \ {v} : op[u].at = "idle" BY <3>1 DEF KeptInv
    <3> QED BY <2>3, <2>4, <3>1, <3>2
  <2>6. ASSUME NEW v \in Workers, op'[v].at = "uiOverlay", op'[v].alone
        PROVE  activation' \in UserReasons
    <3>1. v = w /\ op[w].alone BY <2>5, <2>6
    <3>2. UiReason(w) BY <1>0, <1>1, <2>6, <3>1, StepToUiOverlay
    <3> QED BY <3>2 DEF UiReason, UserReasons
  <2>7. ASSUME kept'
    PROVE overlay' /\ activation' \in UserReasons /\ \A v \in Workers : Safe(op'[v])
    <3>1. CASE kept
      <4>1. overlay' /\ activation' \in UserReasons /\ Safe(op'[w])
        BY <1>1, <3>1, SafeStep
      <4>2. \A v \in Workers \ {w} : Safe(op'[v]) BY <2>3, <3>1 DEF KeptInv
      <4> QED BY <4>1, <4>2
    <3>2. CASE ~kept
      <4>1. UiOverlay(w) /\ op[w].alone BY <1>0, <1>1, <2>7, <3>2, KeptBegins
      <4>2. overlay' /\ UNCHANGED activation /\ op[w].at = "uiOverlay"
        BY <4>1 DEF UiOverlay, At
      <4>3. activation \in UserReasons BY <4>1, <4>2 DEF KeptInv
      <4>4. Safe(op'[w]) BY <1>0, <4>1, SafeAfterUiOverlay
      <4>5. \A v \in Workers \ {w} : Safe(op'[v])
        BY <2>3, <4>1 DEF KeptInv, Safe, SafePlaces, SharedPlaces
      <4> QED BY <4>2, <4>3, <4>4, <4>5
    <3> QED BY <3>1, <3>2
  <2> QED BY <2>1, <2>5, <2>6, <2>7 DEF KeptInv
<1>2. ASSUME NEW w \in Workers, NEW kind \in Kinds, Begin(w, kind) PROVE KeptInv'
  <2>0. PICK stale \in BOOLEAN : op'[w] = Begun(kind, stale) BY <1>0, <1>2, BeginType
  <2>1. /\ BaseType' /\ op'[w] = Begun(kind, stale) /\ op[w].at = "idle"
        /\ \A v \in Workers \ {w} : op'[v] = [op[v] EXCEPT !.alone = FALSE]
    BY <1>0, <1>2, <2>0, BeginType
  <2>2. UNCHANGED <<overlay, activation>> /\ (kept' => kept /\ kind \notin Reopening)
    BY <1>2 DEF Begin, files
  <2>3. \A v \in Workers \ {w} :
          /\ ~op'[v].alone /\ op'[v].at = op[v].at
          /\ Safe(op[v]) => Safe(op'[v])
    <3> TAKE v \in Workers \ {w}
    <3>1. op[v] \in Handlers BY <1>0 DEF BaseType
    <3> QED BY <2>1, <3>1 DEF Handlers, Safe
  <2>4. Begun(kind, stale).at = EntryOf[kind] /\ Begun(kind, stale).alone = (Busy = {})
    BY <1>0, BegunType
  <2>5. op'[w].alone => \A v \in Workers \ {w} : op'[v].at = "idle"
    BY <2>1, <2>3, <2>4 DEF Busy
  <2>6. op'[w].at # "uiOverlay" BY <2>1, <2>4 DEF EntryOf, Kinds
  <2>7. kind \notin Reopening => Safe(op'[w])
    BY <1>0, <2>1, SafeBegun
  <2> QED BY <2>1, <2>2, <2>3, <2>5, <2>6, <2>7 DEF KeptInv
<1>3. CASE Deliver BY <1>3 DEF Deliver, KeptInv, BaseType, Safe, files, env
<1>4. CASE GoalChange
  <2>1. BaseType' BY <1>0, <1>4, GoalChangeType
  <2>2. ASSUME NEW w \in Workers
        PROVE  op'[w].alone = op[w].alone /\ op'[w].at = op[w].at /\ (Safe(op[w]) => Safe(op'[w]))
    <3>1. op[w] \in Handlers BY <1>0 DEF BaseType
    <3>2. PICK d : op'[w] = [op[w] EXCEPT !.during = d] BY <1>0, <1>4, GoalChangeType
    <3> QED BY <3>1, <3>2 DEF Handlers, Safe
  <2>3. UNCHANGED <<overlay, activation, kept>> BY <1>4 DEF GoalChange, files
  <2> QED BY <2>1, <2>2, <2>3 DEF KeptInv
<1>5. CASE Crash
  <2>1. BaseType' BY <1>0, <1>5, CrashType
  <2>2. \A w \in Workers : op'[w] = Idle BY <1>5 DEF Crash
  <2>3. ~Idle.alone /\ Idle.at = "idle" /\ Safe(Idle)
    BY DEF Idle, Safe, SafePlaces, SharedPlaces
  <2>4. UNCHANGED <<overlay, activation, kept>> BY <1>5 DEF Crash, files
  <2> QED BY <2>1, <2>2, <2>3, <2>4 DEF KeptInv
<1>6. CASE UNCHANGED vars
  BY <1>6 DEF vars, files, env, KeptInv, BaseType, Safe
<1> QED BY <1>1, <1>2, <1>3, <1>4, <1>5, <1>6 DEF Next

LEMMA InitKept == Init => KeptInv
<1> SUFFICES ASSUME Init PROVE KeptInv
  OBVIOUS
<1>1. BaseType BY InitType
<1>2. \A w \in Workers : ~op[w].alone /\ op[w].at = "idle" BY DEF Init, Idle
<1> QED BY <1>1, <1>2 DEF Init, KeptInv

\* A thread that the user detached, with nothing else in flight, stays detached
\* by the user whatever handlers, Codex and crashes do, until a user or a model
\* takes it up again (#detachTracking, #reconcileDetachedPreparation).
THEOREM UserDetachIsKeptAlways == Spec => []UserDetachIsKept
<1>1. KeptInv => UserDetachIsKept BY DEF KeptInv, UserDetachIsKept
<1> QED BY <1>1, InitKept, NextKeepsKeptInv, PTL DEF Spec

-----------------------------------------------------------------------------
(* What a handler has read.  Handled says of a handler at its place, with  *)
(* the contract c, the overlay d and the Goal g of the moment, what it may *)
(* rely on.                                                                *)

Detaching  == {"detachRead", "detachDecide", "detachReason", "detachOverlay"}
Attaching  == {"attachReason", "attachOverlay"}
Calling    == Detaching \cup Attaching
Reconciling == {"reconcile", "reconcileMigrate"}
Deciding    == {"current", "currentGoal"} \cup Reconciling
Exact      == {"getPublish", "resumePublish"}
Publishing == Exact \cup {"usagePublish"}

\* Places that use the contract which was read at first, the one read last, and
\* those that expect a contract in the store.
NeedsSeen ==
  {"applyGoal", "applyStore", "applyRead", "applyPublish", "resumeOverlay", "resumeReason",
   "resumeMigrate", "resumeGoal", "matchedOverlay", "matchedReason", "matchedMigrate",
   "matchedPublish", "completedApply", "completedOverlay", "completedReason",
   "completedMigrate", "initPublish"}
NeedsRecord == {"initLatest", "getLatest", "resumeLatest"}
Uses(o, places) == o.at \in places \/ o.ret \in places \/ o.back \in places

\* A handler goes to no such place without it; a record once there stays.
Known(o, c) ==
  /\ Uses(o, NeedsSeen) => o.seen # NoContract
  /\ Uses(o, Exact) => o.sub # NoContract
  /\ Uses(o, NeedsRecord) \/ o.seen # NoContract \/ o.sub # NoContract => c # NoContract

\* Between the synchronisation and the publication that it returns to.
OnItsWay(o) ==
  /\ o.ret \in {"idle", "end", "applyPublish", "initLatest", "getLatest", "resumeLatest"}
               \cup Publishing
  /\ o.at \in Publishing => o.ret = o.at
  /\ o.at = "initPublish" => o.ret = "initLatest"
  /\ o.at \in Calling =>
       /\ o.back \in Publishing => o.ret = o.back
       /\ o.back = "initPublish" => o.ret = "initLatest"
  /\ o.ret \in Publishing =>
       /\ \/ o.at \in Deciding \cup {o.ret} \cup Calling
          \/ o.ret = "usagePublish" /\ o.at \in {"syncLoad", "syncOverlay", "syncApply"}
       /\ o.at \in Calling => o.back \in {o.ret, "current"}
  /\ o.ret = "initLatest" =>
       /\ o.at \in {"refreshLoad", "refreshGoal", "syncLoad", "syncOverlay", "syncApply",
                    "initLatest", "initPublish"} \cup Deciding \cup Calling
       /\ o.at \in Detaching => o.back \in {"initLatest", "current"}
       /\ o.at \in Attaching => o.back \in {"initLatest", "initPublish"}

\* Codex had the Goal of the answer while the request was served.
Informed(o, g) ==
  o.at # "idle" => g \in o.during /\ (o.answer # NoAnswer => o.answer.goal \in o.during)

\* A contract that a handler shows as active, or writes progress to, is bound to
\* such a Goal.
Bound(c, goals) == c = NoContract \/ IsTask(c) \/ c.complete \/ c.goal \in goals
BoundInv(o) ==
  /\ o.at \in Reconciling => o.answer # NoAnswer /\ o.cur
  /\ o.at \in {"currentGoal"} \cup Reconciling => ~IsTask(o.sub)
  /\ o.at \in Publishing => o.stale \/ o.cur \/ Bound(o.sub, o.during)
  /\ o.at \in Attaching /\ o.back \in Publishing => Bound(o.sub, o.during)
  /\ o.at = "syncLoad" /\ o.ret = "usagePublish" => o.sub = NoContract
  /\ o.at = "applyStore" /\ ~(o.kind = "rescope" /\ o.answer # NoAnswer) =>
       IsTask(o.seen) \/ o.seen.goal \in o.during \/ (o.kind = "update" /\ o.seen.complete)

\* What a handler served alone has read is what is stored.
Initializing(o, c, d) ==
  /\ o.at \notin Detaching /\ (d => o.off) /\ (IsTask(c) \/ c.goal \in o.during)
  /\ o.at \in {"syncOverlay", "syncApply"} \cup Deciding => o.sub = c
  /\ o.at = "initPublish" \/ (o.at \in Attaching /\ o.back = "initPublish") => o.seen = c
  /\ o.at = "initPublish" => ~d
LoneInv(o, c, d, g) ==
  o.alone /\ o.during = {g} =>
    /\ o.at \in {"detachDecide", "currentGoal"} \cup Exact => o.cur = d
    /\ o.at \in Reconciling => d
    /\ o.ret \in Exact => o.sub = c
    /\ o.at \in {"initReason", "initMigrate", "initGoal", "initLoad", "initStore"} => o.off = d
    /\ o.at \in {"initLoad", "initStore"} /\ o.kind # "initTask" => o.answer # NoAnswer
    /\ o.ret = "initLatest" => Initializing(o, c, d)

Handled(o, c, d, g) ==
  Known(o, c) /\ OnItsWay(o) /\ Informed(o, g) /\ BoundInv(o) /\ LoneInv(o, c, d, g)
HandledInv ==
  KeptInv /\ \A w \in Workers : Handled(op[w], contract, overlay, Answer(native).goal)

LEMMA IdleHandled == \A c, d, g : Handled(Idle, c, d, g)
  BY DEF Handled, Known, Uses, OnItsWay, Informed, BoundInv, LoneInv, Idle, NeedsSeen, NeedsRecord,
     Detaching, Attaching, Calling, Reconciling, Deciding, Exact, Publishing

LEMMA AnswerIsReal == ASSUME NEW n \in Natives PROVE Answer(n) # NoAnswer
  BY SessionAssumption DEF Natives, Answer, NoAnswer, NoGoal

\* What a step leaves of a handler's record.
Same(p, o) ==
  /\ p.kind = o.kind /\ p.seen = o.seen /\ p.sub = o.sub /\ p.off = o.off
  /\ p.answer = o.answer /\ p.stale = o.stale /\ p.alone = o.alone /\ p.during = o.during
Goes(p, o)     == p.ret = o.ret /\ p.back = o.back /\ p.cur = o.cur /\ Same(p, o)

LEMMA GoKeeps ==
  ASSUME BaseType, NEW w \in Workers, NEW place, Go(w, place)
  PROVE  op'[w].at = place /\ Goes(op'[w], op[w])
  BY Fields DEF Go, Handlers, Goes, Same

LEMMA CallKeeps ==
  ASSUME BaseType, NEW w \in Workers, NEW place, NEW ret, Call(w, place, ret)
  PROVE  /\ op'[w].at = place /\ op'[w].ret = ret /\ op'[w].back = op[w].back
         /\ op'[w].cur = op[w].cur /\ Same(op'[w], op[w])
  BY Fields DEF Call, Handlers, Same

LEMMA CallDetachKeeps ==
  ASSUME BaseType, NEW w \in Workers, NEW why, NEW back, CallDetach(w, why, back)
  PROVE  /\ op'[w].at = "detachRead" /\ op'[w].back = back /\ op'[w].ret = op[w].ret
         /\ op'[w].cur = op[w].cur /\ Same(op'[w], op[w])
  BY Fields DEF CallDetach, Handlers, Same

LEMMA CallAttachKeeps ==
  ASSUME BaseType, NEW w \in Workers, NEW back, CallAttach(w, back)
  PROVE  /\ op'[w].at = "attachReason" /\ op'[w].back = back /\ op'[w].ret = op[w].ret
         /\ op'[w].cur = op[w].cur /\ Same(op'[w], op[w])
  BY Fields DEF CallAttach, Handlers, Same


\* A step of a handler keeps what the handler relies on.
LEMMA HandledStep ==
  ASSUME HandledInv, NEW w \in Workers, Step(w)
  PROVE  Handled(op'[w], contract', overlay', Answer(native).goal)
<1> DEFINE g == Answer(native).goal
<1>1. BaseType /\ op \in [Workers -> Handlers] /\ op[w] \in Handlers
  BY DEF HandledInv, KeptInv, BaseType
<1>2. Handled(op[w], contract, overlay, g) BY DEF HandledInv
<1>3. \A c, d : Handled(Idle, c, d, g) BY IdleHandled
<1>4. Answer(native) # NoAnswer BY <1>1, AnswerIsReal DEF BaseType
<1>5. \A here, off :
        ReadReason(w, here, off) => op[w].at \in {here, Migrating[here]} /\ UNCHANGED overlay
  BY DEF ReadReason, At
<1>6. contract \in Contracts \cup {NoContract} /\ overlay \in BOOLEAN /\ NoContract \notin Contracts
  BY <1>1, SessionAssumption DEF BaseType
<1>7. End(w) => op'[w] = Idle BY <1>1 DEF End
<1>8. op[w].back \in Returns /\ op[w].ret \in Returns BY <1>1, Fields
<1>9. Answer(native).goal = g OBVIOUS
<1>10. op[w].cur \in BOOLEAN BY <1>1, Fields
<1> HIDE DEF g
<1> USE DEF Handled, Uses, NeedsSeen, NeedsRecord, Detaching, Attaching, Calling, Reconciling,
            Deciding, Exact, Publishing, Same, Returns, IsTask
<1>11. ASSUME UiOverlay(w) PROVE Handled(op'[w], contract', overlay', g)
  <2>1. op'[w] = Idle \/ (op[w].seen # NoContract /\ Call(w, "refreshLoad", "end"))
    BY <1>7, <1>11 DEF UiOverlay
  <2>2. op[w].at = "uiOverlay" /\ UNCHANGED contract BY <1>11 DEF UiOverlay, At
  <2>3. CASE op[w].seen # NoContract /\ Call(w, "refreshLoad", "end")
    <3> DEFINE p == op'[w]
    <3>1. /\ p.at = "refreshLoad" /\ p.ret = "end" /\ p.back = op[w].back
          /\ p.cur = op[w].cur /\ Same(p, op[w])
      BY <1>1, <2>3, CallKeeps
    <3> HIDE DEF p
    <3>2. Known(p, contract') /\ OnItsWay(p) /\ Informed(p, g)
      BY <1>2, <1>8, <1>9, <2>2, <2>3, <3>1 DEF Known, OnItsWay, Informed
    <3>3. BoundInv(p)
      BY <1>2, <1>6, <1>8, <1>9, <2>2, <2>3, <3>1 DEF BoundInv, Bound, OnItsWay, Informed
    <3>4. LoneInv(p, contract', overlay', g)
      BY <1>2, <1>6, <1>8, <1>9, <1>10, <2>2, <2>3, <3>1
      DEF LoneInv, Initializing, Informed, BoundInv, OnItsWay
    <3> QED BY <3>2, <3>3, <3>4 DEF p
  <2> QED BY <1>3, <2>1, <2>3
<1>12. ASSUME DetachDecide(w) PROVE Handled(op'[w], contract', overlay', g)
  <2>1. /\ op[w].at = "detachDecide" /\ UNCHANGED <<contract, overlay>>
        /\ Go(w, "detachReason") \/ (op[w].cur /\ Return(w, op[w].back))
    BY <1>12 DEF DetachDecide, At, OnlyOp, files, AlreadyDetached
  <2>2. \/ op'[w] = Idle
        \/ Goes(op'[w], op[w])
           /\ \/ op'[w].at = "detachReason"
              \/ op[w].cur /\ op'[w].at = op[w].back /\ op[w].back # "end"
    BY <1>1, <1>7, <2>1, GoKeeps DEF Return
  <2>3. CASE Goes(op'[w], op[w])
             /\ \/ op'[w].at = "detachReason"
                \/ op[w].cur /\ op'[w].at = op[w].back /\ op[w].back # "end"
    <3> DEFINE p == op'[w]
    <3>1. /\ p.ret = op[w].ret /\ p.back = op[w].back /\ p.cur = op[w].cur /\ Same(p, op[w])
          /\ p.at = "detachReason" \/ (op[w].cur /\ p.at = op[w].back /\ op[w].back # "end")
      BY <2>3 DEF Goes
    <3> HIDE DEF p
    <3>2. Known(p, contract') /\ OnItsWay(p) /\ Informed(p, g)
      BY <1>2, <1>8, <1>9, <2>1, <3>1 DEF Known, OnItsWay, Informed
    <3>3. BoundInv(p)
      BY <1>2, <1>6, <1>8, <1>9, <2>1, <3>1 DEF BoundInv, Bound, OnItsWay, Informed
    <3>4. LoneInv(p, contract', overlay', g)
      BY <1>2, <1>6, <1>8, <1>9, <1>10, <2>1, <3>1
      DEF LoneInv, Initializing, Informed, BoundInv, OnItsWay
    <3> QED BY <3>2, <3>3, <3>4 DEF p
  <2> QED BY <1>3, <2>2, <2>3
<1>13. ASSUME DetachOverlayFile(w) PROVE Handled(op'[w], contract', overlay', g)
  <2>1. /\ op[w].at = "detachOverlay" /\ contract' = contract /\ overlay' = TRUE
        /\ \/ op'[w] = Idle
           \/ op' = [op EXCEPT ![w].cur = TRUE, ![w].at = op[w].back] /\ op[w].back # "end"
    BY <1>7, <1>13 DEF DetachOverlayFile, At, NotFiles
  <2>2. CASE op' = [op EXCEPT ![w].cur = TRUE, ![w].at = op[w].back] /\ op[w].back # "end"
    <3> DEFINE p == op'[w]
    <3>1. /\ p.ret = op[w].ret /\ p.back = op[w].back /\ p.cur = TRUE /\ p.at = op[w].back
          /\ Same(p, op[w])
      BY <1>1, <2>2 DEF Same, Handlers
    <3> HIDE DEF p
    <3>2. Known(p, contract') /\ OnItsWay(p) /\ Informed(p, g)
      BY <1>2, <1>8, <1>9, <2>1, <2>2, <3>1 DEF Known, OnItsWay, Informed
    <3>3. BoundInv(p)
      BY <1>2, <1>6, <1>8, <1>9, <2>1, <2>2, <3>1 DEF BoundInv, Bound, OnItsWay, Informed
    <3>4. LoneInv(p, contract', overlay', g)
      BY <1>2, <1>6, <1>8, <1>9, <1>10, <2>1, <2>2, <3>1
      DEF LoneInv, Initializing, Informed, BoundInv, OnItsWay
    <3> QED BY <3>2, <3>3, <3>4 DEF p
  <2> QED BY <1>3, <2>1, <2>2
<1>14. ASSUME RefreshLoad(w) PROVE Handled(op'[w], contract', overlay', g)
  <2>1. op[w].at = "refreshLoad" /\ UNCHANGED <<contract, overlay>>
    BY <1>2, <1>5, <1>6, <1>9, <1>14 DEF RefreshLoad, At, OnlyOp, files
  <2>2. CASE Go(w, "refreshGoal") \/ (op[w].ret # "end" /\ Go(w, op[w].ret) /\ IsTask(contract))
    <3> DEFINE p == op'[w]
    <3>1. /\ p.ret = op[w].ret /\ p.back = op[w].back /\ p.cur = op[w].cur /\ Same(p, op[w])
          /\ p.at = "refreshGoal" \/ (op[w].ret # "end" /\ p.at = op[w].ret /\ IsTask(contract))
      BY <1>1, <1>7, <2>2, GoKeeps DEF Goes
    <3> HIDE DEF p
    <3>2. Known(p, contract') /\ OnItsWay(p) /\ Informed(p, g)
      BY <1>2, <1>8, <1>9, <2>1, <2>2, <3>1 DEF Known, OnItsWay, Informed
    <3>3. BoundInv(p)
      BY <1>2, <1>6, <1>8, <1>9, <2>1, <2>2, <3>1 DEF BoundInv, Bound, OnItsWay, Informed
    <3>4. LoneInv(p, contract', overlay', g)
      BY <1>2, <1>6, <1>8, <1>9, <1>10, <2>1, <2>2, <3>1
      DEF LoneInv, Initializing, Informed, BoundInv, OnItsWay
    <3> QED BY <3>2, <3>3, <3>4 DEF p
  <2>3. CASE op'[w] = Idle BY <1>3, <2>3
  <2> QED BY <1>7, <1>14, <2>1, <2>2, <2>3 DEF RefreshLoad, Return
<1>15. ASSUME SyncLoad(w) PROVE Handled(op'[w], contract', overlay', g)
  <2>1. op[w].at = "syncLoad" /\ UNCHANGED <<contract, overlay>>
    BY <1>2, <1>5, <1>6, <1>9, <1>15 DEF SyncLoad, At, OnlyOp, files
  <2>2. CASE contract = NoContract /\ op[w].ret # "end" /\ Go(w, op[w].ret)
    <3> DEFINE p == op'[w]
    <3>1. /\ p.ret = op[w].ret /\ p.back = op[w].back /\ p.cur = op[w].cur /\ Same(p, op[w])
          /\ p.at = op[w].ret /\ op[w].ret # "end"
      BY <1>1, <1>7, <2>2, GoKeeps DEF Goes
    <3> HIDE DEF p
    <3>2. Known(p, contract') /\ OnItsWay(p) /\ Informed(p, g)
      BY <1>2, <1>8, <1>9, <2>1, <2>2, <3>1 DEF Known, OnItsWay, Informed
    <3>3. BoundInv(p)
      BY <1>2, <1>6, <1>8, <1>9, <2>1, <2>2, <3>1 DEF BoundInv, Bound, OnItsWay, Informed
    <3>4. LoneInv(p, contract', overlay', g)
      BY <1>2, <1>6, <1>8, <1>9, <1>10, <2>1, <2>2, <3>1
      DEF LoneInv, Initializing, Informed, BoundInv, OnItsWay
    <3> QED BY <3>2, <3>3, <3>4 DEF p
  <2>3. CASE /\ contract # NoContract
             /\ op' = [op EXCEPT ![w].sub = contract,
                                 ![w].at = IF op[w].stale THEN "current" ELSE "syncOverlay"]
    <3> DEFINE p == op'[w]
    <3>1. /\ p.ret = op[w].ret /\ p.back = op[w].back /\ p.cur = op[w].cur /\ p.kind = op[w].kind
          /\ p.seen = op[w].seen /\ p.sub = contract /\ p.off = op[w].off /\ p.answer = op[w].answer
          /\ p.alone = op[w].alone /\ p.during = op[w].during /\ p.stale = op[w].stale
          /\ p.at \in {"syncOverlay", "current"}
      BY <1>1, <1>7, <2>3, <1>6 DEF Handlers
    <3> HIDE DEF p
    <3>2. Known(p, contract') /\ OnItsWay(p) /\ Informed(p, g)
      BY <1>2, <1>8, <1>9, <2>1, <2>3, <3>1 DEF Known, OnItsWay, Informed
    <3>3. BoundInv(p)
      BY <1>2, <1>6, <1>8, <1>9, <2>1, <2>3, <3>1 DEF BoundInv, Bound, OnItsWay, Informed
    <3>4. LoneInv(p, contract', overlay', g)
      BY <1>2, <1>6, <1>8, <1>9, <1>10, <2>1, <2>3, <3>1
      DEF LoneInv, Initializing, Informed, BoundInv, OnItsWay
    <3> QED BY <3>2, <3>3, <3>4 DEF p
  <2>4. CASE op'[w] = Idle BY <1>3, <2>4
  <2> QED BY <1>7, <1>15, <2>1, <2>2, <2>3, <2>4 DEF SyncLoad, Return
<1>16. ASSUME SyncOverlay(w) PROVE Handled(op'[w], contract', overlay', g)
  <2>1. op[w].at = "syncOverlay" /\ UNCHANGED <<contract, overlay>>
    BY <1>2, <1>5, <1>6, <1>9, <1>16 DEF SyncOverlay, At, files
  <2>2. CASE Go(w, "current") \/ Go(w, "syncApply")
    <3> DEFINE p == op'[w]
    <3>1. /\ p.ret = op[w].ret /\ p.back = op[w].back /\ p.cur = op[w].cur /\ Same(p, op[w])
          /\ p.at \in {"current", "syncApply"}
      BY <1>1, <1>7, <2>2, GoKeeps DEF Goes
    <3> HIDE DEF p
    <3>2. Known(p, contract') /\ OnItsWay(p) /\ Informed(p, g)
      BY <1>2, <1>8, <1>9, <2>1, <2>2, <3>1 DEF Known, OnItsWay, Informed
    <3>3. BoundInv(p)
      BY <1>2, <1>6, <1>8, <1>9, <2>1, <2>2, <3>1 DEF BoundInv, Bound, OnItsWay, Informed
    <3>4. LoneInv(p, contract', overlay', g)
      BY <1>2, <1>6, <1>8, <1>9, <1>10, <2>1, <2>2, <3>1
      DEF LoneInv, Initializing, Informed, BoundInv, OnItsWay
    <3> QED BY <3>2, <3>3, <3>4 DEF p
  <2>3. CASE ~IsTask(op[w].sub) /\ op[w].answer.goal # NoGoal /\ Unbound(op[w].sub, op[w].answer)
             /\ CallDetach(w, DetachReason(op[w].answer), "current")
    <3> DEFINE p == op'[w]
    <3>1. /\ p.ret = op[w].ret /\ p.cur = op[w].cur /\ p.at = "detachRead" /\ p.back = "current"
          /\ ~IsTask(op[w].sub) /\ op[w].answer # NoAnswer
          /\ op[w].answer.goal # op[w].sub.goal /\ Same(p, op[w])
      BY <1>1, <1>7, <2>3, CallDetachKeeps DEF NoAnswer, Unbound
    <3> HIDE DEF p
    <3>2. Known(p, contract') /\ OnItsWay(p) /\ Informed(p, g)
      BY <1>2, <1>8, <1>9, <2>1, <2>3, <3>1 DEF Known, OnItsWay, Informed
    <3>3. BoundInv(p)
      BY <1>2, <1>6, <1>8, <1>9, <2>1, <2>3, <3>1 DEF BoundInv, Bound, OnItsWay, Informed
    <3>4. LoneInv(p, contract', overlay', g)
      BY <1>2, <1>6, <1>8, <1>9, <1>10, <2>1, <2>3, <3>1
      DEF LoneInv, Initializing, Informed, BoundInv, OnItsWay
    <3> QED BY <3>2, <3>3, <3>4 DEF p
  <2>4. CASE op'[w] = Idle BY <1>3, <2>4
  <2> QED BY <1>7, <1>16, <2>1, <2>2, <2>3, <2>4 DEF SyncOverlay, Return
<1>17. ASSUME ApplyGoal(w) PROVE Handled(op'[w], contract', overlay', g)
  <2>1. op[w].at = "applyGoal" /\ UNCHANGED <<contract, overlay>>
    BY <1>2, <1>5, <1>6, <1>9, <1>17 DEF ApplyGoal, At, files
  <2>2. CASE ~Unbound(op[w].seen, Answer(native)) /\ Go(w, "applyStore")
    <3> DEFINE p == op'[w]
    <3>1. /\ p.ret = op[w].ret /\ p.back = op[w].back /\ p.cur = op[w].cur /\ Same(p, op[w])
          /\ p.at = "applyStore" /\ op[w].seen.goal = g
      BY <1>1, <1>7, <2>2, <1>9, GoKeeps DEF Goes, Unbound
    <3> HIDE DEF p
    <3>2. Known(p, contract') /\ OnItsWay(p) /\ Informed(p, g)
      BY <1>2, <1>8, <1>9, <2>1, <2>2, <3>1 DEF Known, OnItsWay, Informed
    <3>3. BoundInv(p)
      BY <1>2, <1>6, <1>8, <1>9, <2>1, <2>2, <3>1 DEF BoundInv, Bound, OnItsWay, Informed
    <3>4. LoneInv(p, contract', overlay', g)
      BY <1>2, <1>6, <1>8, <1>9, <1>10, <2>1, <2>2, <3>1
      DEF LoneInv, Initializing, Informed, BoundInv, OnItsWay
    <3> QED BY <3>2, <3>3, <3>4 DEF p
  <2>3. CASE /\ op[w].kind = "rescope"
             /\ op' = [op EXCEPT ![w].answer = Answer(native), ![w].at = "applyStore"]
    <3> DEFINE p == op'[w]
    <3>1. /\ p.ret = op[w].ret /\ p.back = op[w].back /\ p.cur = op[w].cur /\ p.kind = op[w].kind
          /\ p.seen = op[w].seen /\ p.sub = op[w].sub /\ p.off = op[w].off
          /\ p.answer = Answer(native)
          /\ p.alone = op[w].alone /\ p.during = op[w].during /\ p.at = "applyStore"
          /\ p.answer # NoAnswer /\ p.kind = "rescope"
      BY <1>1, <1>7, <2>3, <1>4 DEF Handlers
    <3> HIDE DEF p
    <3>2. Known(p, contract') /\ OnItsWay(p) /\ Informed(p, g)
      BY <1>2, <1>8, <1>9, <2>1, <2>3, <3>1 DEF Known, OnItsWay, Informed
    <3>3. BoundInv(p)
      BY <1>2, <1>6, <1>8, <1>9, <2>1, <2>3, <3>1 DEF BoundInv, Bound, OnItsWay, Informed
    <3>4. LoneInv(p, contract', overlay', g)
      BY <1>2, <1>6, <1>8, <1>9, <1>10, <2>1, <2>3, <3>1
      DEF LoneInv, Initializing, Informed, BoundInv, OnItsWay
    <3> QED BY <3>2, <3>3, <3>4 DEF p
  <2>4. CASE CallDetach(w, DetachReason(Answer(native)), "end")
    <3> DEFINE p == op'[w]
    <3>1. /\ p.ret = op[w].ret /\ p.cur = op[w].cur /\ p.at = "detachRead" /\ p.back = "end"
          /\ Same(p, op[w])
      BY <1>1, <1>7, <2>4, CallDetachKeeps DEF Same
    <3> HIDE DEF p
    <3>2. Known(p, contract') /\ OnItsWay(p) /\ Informed(p, g)
      BY <1>2, <1>8, <1>9, <2>1, <2>4, <3>1 DEF Known, OnItsWay, Informed
    <3>3. BoundInv(p)
      BY <1>2, <1>6, <1>8, <1>9, <2>1, <2>4, <3>1 DEF BoundInv, Bound, OnItsWay, Informed
    <3>4. LoneInv(p, contract', overlay', g)
      BY <1>2, <1>6, <1>8, <1>9, <1>10, <2>1, <2>4, <3>1
      DEF LoneInv, Initializing, Informed, BoundInv, OnItsWay
    <3> QED BY <3>2, <3>3, <3>4 DEF p
  <2>5. CASE op'[w] = Idle BY <1>3, <2>5
  <2> QED BY <1>7, <1>17, <2>1, <2>2, <2>3, <2>4, <2>5 DEF ApplyGoal, Return
<1>18. ASSUME NEW a, NEW off \in BOOLEAN, Decide(w, a, off), UNCHANGED <<contract, overlay>>,
              ~IsTask(op[w].sub), a # NoAnswer, a \in {op[w].answer, Answer(native)},
              \/ op[w].at = "current" /\ off = overlay
              \/ op[w].at = "currentGoal" /\ off = op[w].cur
       PROVE  Handled(op'[w], contract', overlay', g)
  <2>1. /\ op[w].at \in {"current", "currentGoal"} /\ UNCHANGED <<contract, overlay>>
        /\ a # NoAnswer /\ a \in {op[w].answer, Answer(native)} /\ ~IsTask(op[w].sub)
        /\ \/ op[w].at = "current" /\ off = overlay
           \/ op[w].at = "currentGoal" /\ off = op[w].cur
    BY <1>18
  <2>2. CASE /\ ReturnOverlay(w, off, FALSE) /\ op[w].ret # "end"
             /\ off \/ op[w].sub.complete \/ op[w].sub.goal = a.goal
    <3> DEFINE p == op'[w]
    <3>1. /\ p.ret = op[w].ret /\ p.back = op[w].back /\ p.cur = off /\ p.kind = op[w].kind
          /\ p.seen = op[w].seen /\ p.sub = op[w].sub /\ p.off = op[w].off
          /\ p.answer = op[w].answer /\ p.alone = op[w].alone /\ p.during = op[w].during
          /\ p.at = op[w].ret
          /\ off \/ op[w].sub.complete \/ op[w].sub.goal = a.goal
      BY <1>1, <2>2 DEF ReturnOverlay, Handlers
    <3> HIDE DEF p
    <3>2. Known(p, contract') /\ OnItsWay(p) /\ Informed(p, g)
      BY <1>2, <1>8, <1>9, <2>1, <2>2, <3>1 DEF Known, OnItsWay, Informed
    <3>3. BoundInv(p)
      BY <1>2, <1>6, <1>8, <1>9, <2>1, <2>2, <3>1 DEF BoundInv, Bound, OnItsWay, Informed
    <3>4. LoneInv(p, contract', overlay', g)
      BY <1>2, <1>6, <1>8, <1>9, <1>10, <2>1, <2>2, <3>1
      DEF LoneInv, Initializing, Informed, BoundInv, OnItsWay
    <3> QED BY <3>2, <3>3, <3>4 DEF p
  <2>3. CASE off /\ op' = [op EXCEPT ![w].cur = TRUE, ![w].answer = a, ![w].at = "reconcile"]
    <3> DEFINE p == op'[w]
    <3>1. /\ p.ret = op[w].ret /\ p.back = op[w].back /\ p.cur = TRUE /\ p.kind = op[w].kind
          /\ p.seen = op[w].seen /\ p.sub = op[w].sub /\ p.off = op[w].off /\ p.answer = a
          /\ p.alone = op[w].alone /\ p.during = op[w].during /\ p.at = "reconcile" /\ off = TRUE
      BY <1>1, <2>3, <1>18 DEF Handlers
    <3> HIDE DEF p
    <3>2. Known(p, contract') /\ OnItsWay(p) /\ Informed(p, g)
      BY <1>2, <1>8, <1>9, <2>1, <3>1 DEF Known, OnItsWay, Informed
    <3>3. BoundInv(p)
      BY <1>2, <1>6, <1>8, <1>9, <2>1, <3>1 DEF BoundInv, Bound, OnItsWay, Informed
    <3>4. LoneInv(p, contract', overlay', g)
      BY <1>2, <1>6, <1>8, <1>9, <1>10, <2>1, <3>1
      DEF LoneInv, Initializing, Informed, BoundInv, OnItsWay
    <3> QED BY <3>2, <3>3, <3>4 DEF p
  <2>4. CASE CallDetach(w, DetachReason(a), op[w].ret) /\ op[w].sub.goal # a.goal
    <3> DEFINE p == op'[w]
    <3>1. /\ p.ret = op[w].ret /\ p.cur = op[w].cur /\ p.at = "detachRead" /\ p.back = op[w].ret
          /\ op[w].sub.goal # a.goal /\ Same(p, op[w])
      BY <1>1, <2>4, CallDetachKeeps
    <3> HIDE DEF p
    <3>2. Known(p, contract') /\ OnItsWay(p) /\ Informed(p, g)
      BY <1>2, <1>8, <1>9, <2>1, <3>1 DEF Known, OnItsWay, Informed
    <3>3. BoundInv(p)
      BY <1>2, <1>6, <1>8, <1>9, <2>1, <3>1 DEF BoundInv, Bound, OnItsWay, Informed
    <3>4. LoneInv(p, contract', overlay', g)
      BY <1>2, <1>6, <1>8, <1>9, <1>10, <2>1, <3>1
      DEF LoneInv, Initializing, Informed, BoundInv, OnItsWay
    <3> QED BY <3>2, <3>3, <3>4 DEF p
  <2>5. CASE op'[w] = Idle BY <1>3, <2>5
  <2> QED BY <1>7, <1>18, <2>2, <2>3, <2>4, <2>5 DEF Decide, ReturnOverlay, Unbound
<1>67. ASSUME Current(w) PROVE Handled(op'[w], contract', overlay', g)
  <2>1. op[w].at = "current" /\ UNCHANGED <<contract, overlay>>
    BY <1>67 DEF Current, At, files
  <2>2. CASE /\ (IsTask(op[w].sub) \/ op[w].stale)
             /\ ReturnOverlay(w, overlay, op[w].stale) /\ op[w].ret # "end"
    <3> DEFINE p == op'[w]
    <3>1. /\ p.ret = op[w].ret /\ p.back = op[w].back /\ p.cur = overlay /\ Same(p, op[w])
          /\ p.at = op[w].ret /\ (IsTask(op[w].sub) \/ op[w].stale)
      BY <1>1, <1>6, <2>2 DEF ReturnOverlay, Handlers, Same
    <3> HIDE DEF p
    <3>2. Known(p, contract') /\ OnItsWay(p) /\ Informed(p, g)
      BY <1>2, <1>8, <1>9, <2>1, <3>1 DEF Known, OnItsWay, Informed
    <3>3. BoundInv(p)
      BY <1>2, <1>6, <1>8, <1>9, <2>1, <3>1 DEF BoundInv, Bound, OnItsWay, Informed
    <3>4. LoneInv(p, contract', overlay', g)
      BY <1>2, <1>6, <1>8, <1>9, <1>10, <2>1, <3>1
      DEF LoneInv, Initializing, Informed, BoundInv, OnItsWay
    <3> QED BY <3>2, <3>3, <3>4 DEF p
  <2>3. CASE /\ op' = [op EXCEPT ![w].cur = overlay, ![w].at = "currentGoal"]
             /\ ~IsTask(op[w].sub)
    <3> DEFINE p == op'[w]
    <3>1. /\ p.ret = op[w].ret /\ p.back = op[w].back /\ p.cur = overlay /\ Same(p, op[w])
          /\ p.at = "currentGoal" /\ ~IsTask(op[w].sub)
      BY <1>1, <1>6, <2>3 DEF Handlers, Same
    <3> HIDE DEF p
    <3>2. Known(p, contract') /\ OnItsWay(p) /\ Informed(p, g)
      BY <1>2, <1>8, <1>9, <2>1, <3>1 DEF Known, OnItsWay, Informed
    <3>3. BoundInv(p)
      BY <1>2, <1>6, <1>8, <1>9, <2>1, <3>1 DEF BoundInv, Bound, OnItsWay, Informed
    <3>4. LoneInv(p, contract', overlay', g)
      BY <1>2, <1>6, <1>8, <1>9, <1>10, <2>1, <3>1
      DEF LoneInv, Initializing, Informed, BoundInv, OnItsWay
    <3> QED BY <3>2, <3>3, <3>4 DEF p
  <2>4. CASE op'[w] = Idle BY <1>3, <2>4
  <2>5. CASE Decide(w, op[w].answer, overlay) /\ ~IsTask(op[w].sub) /\ op[w].answer # NoAnswer
    BY <1>6, <1>18, <2>1, <2>5
  <2> QED BY <1>7, <1>67, <2>2, <2>3, <2>4, <2>5 DEF Current, ReturnOverlay
<1>68. ASSUME CurrentGoal(w) PROVE Handled(op'[w], contract', overlay', g)
  <2>1. op[w].at = "currentGoal" /\ UNCHANGED <<contract, overlay>>
    BY <1>68 DEF CurrentGoal, At, files
  <2>2. CASE ReturnOverlay(w, op[w].cur, TRUE) /\ op[w].ret # "end"
    <3> DEFINE p == op'[w]
    <3>1. /\ p.ret = op[w].ret /\ p.back = op[w].back /\ p.cur = op[w].cur /\ p.kind = op[w].kind
          /\ p.seen = op[w].seen /\ p.sub = op[w].sub /\ p.off = op[w].off
          /\ p.answer = op[w].answer /\ p.alone = op[w].alone /\ p.during = op[w].during
          /\ p.at = op[w].ret /\ p.stale = TRUE
      BY <1>1, <2>2 DEF ReturnOverlay, Handlers
    <3> HIDE DEF p
    <3>2. Known(p, contract') /\ OnItsWay(p) /\ Informed(p, g)
      BY <1>2, <1>8, <1>9, <2>1, <3>1 DEF Known, OnItsWay, Informed
    <3>3. BoundInv(p)
      BY <1>2, <1>6, <1>8, <1>9, <2>1, <3>1 DEF BoundInv, Bound, OnItsWay, Informed
    <3>4. LoneInv(p, contract', overlay', g)
      BY <1>2, <1>6, <1>8, <1>9, <1>10, <2>1, <3>1
      DEF LoneInv, Initializing, Informed, BoundInv, OnItsWay
    <3> QED BY <3>2, <3>3, <3>4 DEF p
  <2>3. CASE op'[w] = Idle BY <1>3, <2>3
  <2>4. CASE Decide(w, Answer(native), op[w].cur)
    <3>1. ~IsTask(op[w].sub) BY <1>2, <2>1 DEF BoundInv
    <3> QED BY <1>4, <1>10, <1>18, <2>1, <2>4, <3>1
  <2> QED BY <1>7, <1>68, <2>2, <2>3, <2>4 DEF CurrentGoal, ReturnOverlay
<1>69. ASSUME StartMigration(w) PROVE Handled(op'[w], contract', overlay', g)
  <2> DEFINE p == op'[w]
  <2>1. /\ UNCHANGED <<contract, overlay>> /\ Goes(p, op[w]) /\ p.at = Migrating[op[w].at]
        /\ op[w].at \in DOMAIN Migrating
    BY <1>1, <1>69, GoKeeps DEF StartMigration, OnlyOp, files
  <2>2. \/ op[w].at = "initReason" /\ p.at = "initMigrate"
        \/ op[w].at = "applyReason" /\ p.at = "applyMigrate"
        \/ op[w].at = "resumeReason" /\ p.at = "resumeMigrate"
        \/ op[w].at = "taskReason" /\ p.at = "taskMigrate"
        \/ op[w].at = "matchedReason" /\ p.at = "matchedMigrate"
        \/ op[w].at = "completedReason" /\ p.at = "completedMigrate"
        \/ op[w].at = "reconcile" /\ p.at = "reconcileMigrate"
    BY <2>1 DEF Migrating
  <2> HIDE DEF p
  <2>3. Known(p, contract') /\ OnItsWay(p) /\ Informed(p, g)
    BY <1>2, <1>8, <2>1, <2>2 DEF Known, OnItsWay, Informed, Goes
  <2>4. BoundInv(p) BY <1>2, <1>8, <2>1, <2>2 DEF BoundInv, Bound, Goes
  <2>5. LoneInv(p, contract', overlay', g)
    BY <1>2, <1>8, <2>1, <2>2 DEF LoneInv, Initializing, Goes
  <2> QED BY <2>3, <2>4, <2>5 DEF p
<1>19. ASSUME Reconcile(w) PROVE Handled(op'[w], contract', overlay', g)
  <2>1. op[w].at \in {"reconcile", "reconcileMigrate"} /\ UNCHANGED <<contract, overlay>>
    <3>1. Migrating["reconcile"] = "reconcileMigrate" BY DEF Migrating
    <3>2. ReadReason(w, "reconcile", TRUE) /\ UNCHANGED contract BY <1>19 DEF Reconcile
    <3> QED BY <1>5, <3>1, <3>2
  <2>2. CASE op[w].ret # "end" /\ Go(w, op[w].ret)
    <3> DEFINE p == op'[w]
    <3>1. /\ p.ret = op[w].ret /\ p.back = op[w].back /\ p.cur = op[w].cur /\ Same(p, op[w])
          /\ p.at = op[w].ret /\ op[w].ret # "end"
      BY <1>1, <1>7, <2>2, GoKeeps DEF Goes
    <3> HIDE DEF p
    <3>2. Known(p, contract') /\ OnItsWay(p) /\ Informed(p, g)
      BY <1>2, <1>8, <1>9, <2>1, <2>2, <3>1 DEF Known, OnItsWay, Informed
    <3>3. BoundInv(p)
      BY <1>2, <1>6, <1>8, <1>9, <2>1, <2>2, <3>1 DEF BoundInv, Bound, OnItsWay, Informed
    <3>4. LoneInv(p, contract', overlay', g)
      BY <1>2, <1>6, <1>8, <1>9, <1>10, <2>1, <2>2, <3>1
      DEF LoneInv, Initializing, Informed, BoundInv, OnItsWay
    <3> QED BY <3>2, <3>3, <3>4 DEF p
  <2>3. CASE ~Unbound(op[w].sub, op[w].answer) /\ CallAttach(w, op[w].ret)
    <3> DEFINE p == op'[w]
    <3>1. /\ p.at = "attachReason" /\ p.ret = op[w].ret /\ p.back = op[w].ret /\ p.cur = op[w].cur
          /\ Same(p, op[w]) /\ op[w].sub.goal = op[w].answer.goal
      BY <1>1, <1>7, <2>3, CallAttachKeeps DEF Unbound
    <3> HIDE DEF p
    <3>2. Known(p, contract') /\ OnItsWay(p) /\ Informed(p, g)
      BY <1>2, <1>8, <1>9, <2>1, <2>3, <3>1 DEF Known, OnItsWay, Informed
    <3>3. BoundInv(p)
      BY <1>2, <1>6, <1>8, <1>9, <2>1, <2>3, <3>1 DEF BoundInv, Bound, OnItsWay, Informed
    <3>4. LoneInv(p, contract', overlay', g)
      BY <1>2, <1>6, <1>8, <1>9, <1>10, <2>1, <2>3, <3>1
      DEF LoneInv, Initializing, Informed, BoundInv, OnItsWay
    <3> QED BY <3>2, <3>3, <3>4 DEF p
  <2>4. CASE Unbound(op[w].sub, op[w].answer) /\ op[w].answer.goal # NoGoal
             /\ CallDetach(w, DetachReason(op[w].answer), op[w].ret)
    <3> DEFINE p == op'[w]
    <3>1. /\ p.ret = op[w].ret /\ p.cur = op[w].cur /\ p.at = "detachRead" /\ p.back = op[w].ret
          /\ op[w].answer # NoAnswer /\ op[w].sub.goal # op[w].answer.goal /\ Same(p, op[w])
      BY <1>1, <1>7, <2>4, CallDetachKeeps DEF Unbound, NoAnswer
    <3> HIDE DEF p
    <3>2. Known(p, contract') /\ OnItsWay(p) /\ Informed(p, g)
      BY <1>2, <1>8, <1>9, <2>1, <2>4, <3>1 DEF Known, OnItsWay, Informed
    <3>3. BoundInv(p)
      BY <1>2, <1>6, <1>8, <1>9, <2>1, <2>4, <3>1 DEF BoundInv, Bound, OnItsWay, Informed
    <3>4. LoneInv(p, contract', overlay', g)
      BY <1>2, <1>6, <1>8, <1>9, <1>10, <2>1, <2>4, <3>1
      DEF LoneInv, Initializing, Informed, BoundInv, OnItsWay
    <3> QED BY <3>2, <3>3, <3>4 DEF p
  <2>5. CASE op'[w] = Idle BY <1>3, <2>5
  <2> QED BY <1>7, <1>19, <2>1, <2>2, <2>3, <2>4, <2>5 DEF Reconcile, Return
<1> USE DEF Known, OnItsWay, Informed, BoundInv, Bound, LoneInv, Initializing, Handlers, files
<1>20. DetachRead(w) => Handled(op'[w], contract', overlay', g)
  BY <1>1, <1>2, <1>3, <1>4, <1>5, <1>6, <1>7
  DEF DetachRead, At, OnlyOp
<1>21. DetachReasonFile(w) => Handled(op'[w], contract', overlay', g)
  BY <1>1, <1>2, <1>3, <1>4, <1>5, <1>6, <1>7
  DEF DetachReasonFile, At, Go, NotFiles
<1>22. AttachReasonFile(w) => Handled(op'[w], contract', overlay', g)
  BY <1>1, <1>2, <1>3, <1>4, <1>5, <1>6, <1>7
  DEF AttachReasonFile, At, Go, NotFiles
<1>23. AttachOverlayFile(w) => Handled(op'[w], contract', overlay', g)
  BY <1>1, <1>2, <1>3, <1>4, <1>5, <1>6, <1>7
  DEF AttachOverlayFile, At
<1>24. RefreshGoal(w) => Handled(op'[w], contract', overlay', g)
  BY <1>1, <1>2, <1>3, <1>4, <1>5, <1>6, <1>7
  DEF RefreshGoal, At, OnlyOp
<1>25. SyncApply(w) => Handled(op'[w], contract', overlay', g)
  BY <1>1, <1>2, <1>3, <1>4, <1>5, <1>6, <1>7
  DEF SyncApply, At, Stored, Synced
<1>26. InitOverlay(w) => Handled(op'[w], contract', overlay', g)
  BY <1>1, <1>2, <1>3, <1>4, <1>5, <1>6, <1>7
  DEF InitOverlay, ReadOverlay, At, OnlyOp
<1>27. InitReason(w) => Handled(op'[w], contract', overlay', g)
  BY <1>1, <1>2, <1>3, <1>4, <1>5, <1>6, <1>7
  DEF InitReason, Migrating, Go, At
<1>28. InitGoal(w) => Handled(op'[w], contract', overlay', g)
  BY <1>1, <1>2, <1>3, <1>4, <1>5, <1>6, <1>7
  DEF InitGoal, At, Go, OnlyOp
<1>29. InitLoad(w) => Handled(op'[w], contract', overlay', g)
  BY <1>1, <1>2, <1>3, <1>4, <1>5, <1>6, <1>7
  DEF InitLoad, Load, At, OnlyOp
<1>30. InitStore(w) => Handled(op'[w], contract', overlay', g)
  BY <1>1, <1>2, <1>3, <1>4, <1>5, <1>6, <1>7
  DEF InitStore, At, Go, Call, StoreTakes, Stored, Replaces, NewContract
<1>31. InitLatest(w) => Handled(op'[w], contract', overlay', g)
  BY <1>1, <1>2, <1>3, <1>4, <1>5, <1>6, <1>7
  DEF InitLatest, At, OnlyOp
<1>32. InitPublish(w) => Handled(op'[w], contract', overlay', g)
  BY <1>1, <1>2, <1>3, <1>4, <1>5, <1>6, <1>7
  DEF InitPublish, At, Published
<1>33. InitFailed(w) => Handled(op'[w], contract', overlay', g)
  BY <1>1, <1>2, <1>3, <1>4, <1>5, <1>6, <1>7
  DEF InitFailed, At, Published
<1>34. ApplyOverlay(w) => Handled(op'[w], contract', overlay', g)
  BY <1>1, <1>2, <1>3, <1>4, <1>5, <1>6, <1>7
  DEF ApplyOverlay, ReadOverlay, At, OnlyOp
<1>35. ApplyReason(w) => Handled(op'[w], contract', overlay', g)
  BY <1>1, <1>2, <1>3, <1>4, <1>5, <1>6, <1>7
  DEF ApplyReason, Migrating, Go, NotFiles, At
<1>36. ApplyLoad(w) => Handled(op'[w], contract', overlay', g)
  BY <1>1, <1>2, <1>3, <1>4, <1>5, <1>6, <1>7
  DEF ApplyLoad, At, OnlyOp
<1>37. ApplyStore(w) => Handled(op'[w], contract', overlay', g)
  BY <1>1, <1>2, <1>3, <1>4, <1>5, <1>6, <1>7
  DEF ApplyStore, At, Stored, Applied, Retargets
<1>38. ApplyRead(w) => Handled(op'[w], contract', overlay', g)
  BY <1>1, <1>2, <1>3, <1>4, <1>5, <1>6, <1>7
  DEF ApplyRead, ReadOverlay, At, OnlyOp
<1>39. ApplyPublish(w) => Handled(op'[w], contract', overlay', g)
  BY <1>1, <1>2, <1>3, <1>4, <1>5, <1>6, <1>7
  DEF ApplyPublish, At, Published
<1>40. GetLoad(w) => Handled(op'[w], contract', overlay', g)
  BY <1>1, <1>2, <1>3, <1>4, <1>5, <1>6, <1>7
  DEF GetLoad, At, Call, OnlyOp
<1>41. Latest(w) => Handled(op'[w], contract', overlay', g)
  BY <1>1, <1>2, <1>3, <1>4, <1>5, <1>6, <1>7
  DEF Latest, OnlyOp
<1>42. GetPublish(w) => Handled(op'[w], contract', overlay', g)
  BY <1>1, <1>2, <1>3, <1>4, <1>5, <1>6, <1>7
  DEF GetPublish, At
<1>43. ResumeLoad(w) => Handled(op'[w], contract', overlay', g)
  BY <1>1, <1>2, <1>3, <1>4, <1>5, <1>6, <1>7
  DEF ResumeLoad, At, OnlyOp, Active
<1>44. ResumeOverlay(w) => Handled(op'[w], contract', overlay', g)
  BY <1>1, <1>2, <1>3, <1>4, <1>5, <1>6, <1>7
  DEF ResumeOverlay, ReadOverlay, At, OnlyOp
<1>45. ResumeReason(w) => Handled(op'[w], contract', overlay', g)
  BY <1>1, <1>2, <1>3, <1>4, <1>5, <1>6, <1>7
  DEF ResumeReason, Migrating, Go, CallDetach, At
<1>46. ResumeGoal(w) => Handled(op'[w], contract', overlay', g)
  BY <1>1, <1>2, <1>3, <1>4, <1>5, <1>6, <1>7
  DEF ResumeGoal, At, Call, CallDetach, Unbound, DetachReason
<1>47. ResumePublish(w) => Handled(op'[w], contract', overlay', g)
  BY <1>1, <1>2, <1>3, <1>4, <1>5, <1>6, <1>7
  DEF ResumePublish, At, Published
<1>48. UsagePublish(w) => Handled(op'[w], contract', overlay', g)
  BY <1>1, <1>2, <1>3, <1>4, <1>5, <1>6, <1>7
  DEF UsagePublish, At
<1>49. ActivateLoad(w) => Handled(op'[w], contract', overlay', g)
  BY <1>1, <1>2, <1>3, <1>4, <1>5, <1>6, <1>7
  DEF ActivateLoad, At, OnlyOp
<1>50. TaskOverlay(w) => Handled(op'[w], contract', overlay', g)
  BY <1>1, <1>2, <1>3, <1>4, <1>5, <1>6, <1>7
  DEF TaskOverlay, ReadOverlay, At, OnlyOp
<1>51. TaskReason(w) => Handled(op'[w], contract', overlay', g)
  BY <1>1, <1>2, <1>3, <1>4, <1>5, <1>6, <1>7
  DEF TaskReason, Migrating, At, Active
<1>52. ActivateGoal(w) => Handled(op'[w], contract', overlay', g)
  BY <1>1, <1>2, <1>3, <1>4, <1>5, <1>6, <1>7
  DEF ActivateGoal, At, Go, Unbound
<1>53. MatchedOverlay(w) => Handled(op'[w], contract', overlay', g)
  BY <1>1, <1>2, <1>3, <1>4, <1>5, <1>6, <1>7
  DEF MatchedOverlay, ReadOverlay, At, OnlyOp
<1>54. MatchedReason(w) => Handled(op'[w], contract', overlay', g)
  BY <1>1, <1>2, <1>3, <1>4, <1>5, <1>6, <1>7
  DEF MatchedReason, Migrating, CallAttach, NotFiles, At
<1>55. MatchedPublish(w) => Handled(op'[w], contract', overlay', g)
  BY <1>1, <1>2, <1>3, <1>4, <1>5, <1>6, <1>7
  DEF MatchedPublish, At, Published
<1>56. StaleDetach(w) => Handled(op'[w], contract', overlay', g)
  BY <1>1, <1>2, <1>3, <1>4, <1>5, <1>6, <1>7
  DEF StaleDetach, At, CallDetach, OnlyOp
<1>57. PreparePublish(w) => Handled(op'[w], contract', overlay', g)
  BY <1>1, <1>2, <1>3, <1>4, <1>5, <1>6, <1>7
  DEF PreparePublish, At
<1>58. CompletedLoad(w) => Handled(op'[w], contract', overlay', g)
  BY <1>1, <1>2, <1>3, <1>4, <1>5, <1>6, <1>7
  DEF CompletedLoad, At, OnlyOp
<1>59. CompletedApply(w) => Handled(op'[w], contract', overlay', g)
  BY <1>1, <1>2, <1>3, <1>4, <1>5, <1>6, <1>7
  DEF CompletedApply, At, Stored, Synced
<1>60. CompletedOverlay(w) => Handled(op'[w], contract', overlay', g)
  BY <1>1, <1>2, <1>3, <1>4, <1>5, <1>6, <1>7
  DEF CompletedOverlay, ReadOverlay, At, OnlyOp
<1>61. CompletedReason(w) => Handled(op'[w], contract', overlay', g)
  BY <1>1, <1>2, <1>3, <1>4, <1>5, <1>6, <1>7
  DEF CompletedReason, Migrating, CallAttach, NotFiles, At
<1>62. UiLoad(w) => Handled(op'[w], contract', overlay', g)
  BY <1>1, <1>2, <1>3, <1>4, <1>5, <1>6, <1>7
  DEF UiLoad, At, Go, Call, OnlyOp
<1>63. UiReason(w) => Handled(op'[w], contract', overlay', g)
  BY <1>1, <1>2, <1>3, <1>4, <1>5, <1>6, <1>7
  DEF UiReason, At, NotFiles
<1>64. RetryReason(w) => Handled(op'[w], contract', overlay', g)
  BY <1>1, <1>2, <1>3, <1>4, <1>5, <1>6, <1>7
  DEF RetryReason, At, CallAttach, OnlyOp
<1>65. RetryGoal(w) => Handled(op'[w], contract', overlay', g)
  BY <1>1, <1>2, <1>3, <1>4, <1>5, <1>6, <1>7
  DEF RetryGoal, At
<1> QED
  BY <1>9, <1>11, <1>12, <1>13, <1>14, <1>15, <1>16, <1>17, <1>18, <1>19, <1>20, <1>21, <1>22,
     <1>23, <1>24, <1>25, <1>26, <1>27, <1>28, <1>29, <1>30, <1>31, <1>32, <1>33, <1>34, <1>35,
     <1>36, <1>37, <1>38, <1>39, <1>40, <1>41, <1>42, <1>43, <1>44, <1>45, <1>46, <1>47, <1>48,
     <1>49, <1>50, <1>51, <1>52, <1>53, <1>54, <1>55, <1>56, <1>57, <1>58, <1>59, <1>60, <1>61,
     <1>62, <1>63, <1>64, <1>65, <1>67, <1>68, <1>69
  DEF Step, Shared

\* What a step of another handler leaves of what this one relies on.
LEMMA HandledKept ==
  ASSUME HandledInv, NEW w \in Workers, Step(w), NEW v \in Workers \ {w}
  PROVE  Handled(op'[v], contract', overlay', Answer(native).goal)
<1>1. BaseType /\ Handled(op[v], contract, overlay, Answer(native).goal)
  BY DEF HandledInv, KeptInv
<1>2. op'[v] = op[v] BY <1>1, StepMoves DEF Moved, BaseType
<1>3. ~op[v].alone BY IdleRests DEF HandledInv, KeptInv
<1>4. contract # NoContract => contract' # NoContract BY <1>1, StepContract, SessionAssumption
<1> QED BY <1>1, <1>2, <1>3, <1>4 DEF Handled, Known, LoneInv

LEMMA HandledBegun ==
  ASSUME BaseType, NEW kind \in Kinds, NEW stale \in BOOLEAN
  PROVE  \A c, d : Handled(Begun(kind, stale), c, d, Answer(native).goal)
<1>1. /\ Begun(kind, stale).kind = kind /\ Begun(kind, stale).at = EntryOf[kind]
      /\ Begun(kind, stale).ret = IF kind = "usage" THEN "usagePublish" ELSE "idle"
  BY BegunType
<1>2. /\ Begun(kind, stale).back = "idle" /\ Begun(kind, stale).seen = NoContract /\ Begun(kind, stale).sub = NoContract
      /\ Begun(kind, stale).off = FALSE
      /\ Begun(kind, stale).answer \in {NoAnswer, Answer(native)}
      /\ Begun(kind, stale).during = {Answer(native).goal}
  BY DEF Begun, Idle
<1>3. \/ /\ kind # "usage"
         /\ EntryOf[kind] \in {"initOverlay", "applyOverlay", "activateLoad", "getLoad",
                               "resumeLoad", "completedLoad", "uiLoad"}
      \/ kind = "usage" /\ EntryOf[kind] = "syncLoad"
  BY DEF Kinds, EntryOf
<1> DEFINE o == Begun(kind, stale)
<1> HIDE DEF o
<1> QED BY <1>1, <1>2, <1>3
  DEF Handled, Known, Uses, OnItsWay, Informed, BoundInv, LoneInv, NeedsSeen, NeedsRecord,
      Detaching, Attaching, Calling, Reconciling, Deciding, Exact, Publishing

\* A change of the Goal in Codex is seen by every handler in flight.
LEMMA HandledChange ==
  ASSUME HandledInv, GoalChange, NEW w \in Workers
  PROVE  Handled(op'[w], contract', overlay', Answer(native').goal)
<1>1. BaseType /\ op[w] \in Handlers /\ Handled(op[w], contract, overlay, Answer(native).goal)
  BY DEF HandledInv, KeptInv, BaseType
<1>2. UNCHANGED <<contract, overlay>> BY DEF GoalChange, files
<1>3. CASE op[w].at = "idle"
  <2>1. op'[w] = op[w] BY <1>1, <1>3 DEF GoalChange, Busy, BaseType
  <2> QED BY <1>1, <1>2, <1>3, <2>1
     DEF Handled, Informed, LoneInv, OnItsWay, Detaching, Attaching, Calling, Reconciling, Deciding,
         Exact, Publishing
<1>4. CASE op[w].at # "idle"
  <2>1. op'[w] = [op[w] EXCEPT !.during = op[w].during \cup {Answer(native').goal}]
    BY <1>1, <1>4 DEF GoalChange, Busy, BaseType
  <2> DEFINE p == op'[w]
  <2>2. /\ p.kind = op[w].kind /\ p.at = op[w].at /\ p.ret = op[w].ret /\ p.back = op[w].back
        /\ p.seen = op[w].seen /\ p.sub = op[w].sub /\ p.off = op[w].off /\ p.cur = op[w].cur
        /\ p.answer = op[w].answer /\ p.stale = op[w].stale /\ p.alone = op[w].alone
        /\ p.during = op[w].during \cup {Answer(native').goal}
    BY <1>1, <2>1 DEF Handlers
  <2> HIDE DEF p
  <2>3. Known(p, contract) BY <1>1, <2>2 DEF Handled, Known, Uses
  <2>4. OnItsWay(p) BY <1>1, <2>2 DEF Handled, OnItsWay
  <2>5. Informed(p, Answer(native').goal) BY <1>1, <2>2 DEF Handled, Informed
  <2>6. BoundInv(p) BY <1>1, <2>2 DEF Handled, BoundInv, Bound
  <2>7. LoneInv(p, contract, overlay, Answer(native').goal)
    <3>1. Answer(native).goal \in op[w].during BY <1>1, <1>4 DEF Handled, Informed
    <3> QED BY <1>1, <2>2, <3>1 DEF Handled, LoneInv, Initializing
  <2> QED BY <1>2, <2>3, <2>4, <2>5, <2>6, <2>7 DEF Handled, p
<1> QED BY <1>3, <1>4

LEMMA NextKeepsHandledInv == HandledInv /\ [Next]_vars => HandledInv'
<1> SUFFICES ASSUME HandledInv, [Next]_vars PROVE HandledInv'
  OBVIOUS
<1>1. KeptInv /\ KeptInv' /\ BaseType BY NextKeepsKeptInv DEF HandledInv, KeptInv
<1>2. SUFFICES ASSUME NEW w \in Workers
               PROVE  Handled(op'[w], contract', overlay', Answer(native').goal)
  BY <1>1 DEF HandledInv
<1>3. ASSUME NEW v \in Workers, Step(v)
      PROVE  Handled(op'[w], contract', overlay', Answer(native').goal)
  <2>1. UNCHANGED native BY <1>1, <1>3, StepEnv DEF env
  <2> QED BY <1>3, <2>1, HandledStep, HandledKept
<1>4. ASSUME NEW v \in Workers, NEW kind \in Kinds, Begin(v, kind)
      PROVE  Handled(op'[w], contract', overlay', Answer(native').goal)
  <2>1. UNCHANGED <<contract, overlay, native>> BY <1>4 DEF Begin, files
  <2>2. CASE v = w BY <1>1, <1>4, <2>1, <2>2, BeginType, HandledBegun
  <2>3. CASE v # w
    <3>1. op[w] \in Handlers /\ Handled(op[w], contract, overlay, Answer(native).goal)
      BY <1>1 DEF HandledInv, BaseType
    <3>2. op'[w] = [op[w] EXCEPT !.alone = FALSE] BY <1>1, <1>4, <2>3, BeginType
    <3> DEFINE p == op'[w]
    <3>3. /\ p.kind = op[w].kind /\ p.at = op[w].at /\ p.ret = op[w].ret /\ p.back = op[w].back
          /\ p.seen = op[w].seen /\ p.sub = op[w].sub /\ p.off = op[w].off /\ p.cur = op[w].cur
          /\ p.answer = op[w].answer /\ p.stale = op[w].stale /\ ~p.alone
          /\ p.during = op[w].during
      BY <3>1, <3>2 DEF Handlers
    <3> HIDE DEF p
    <3>4. Known(p, contract) /\ OnItsWay(p) BY <3>1, <3>3 DEF Handled, Known, Uses, OnItsWay
    <3>5. Informed(p, Answer(native).goal) BY <3>1, <3>3 DEF Handled, Informed
    <3>6. BoundInv(p) BY <3>1, <3>3 DEF Handled, BoundInv
    <3>7. LoneInv(p, contract, overlay, Answer(native).goal) BY <3>3 DEF LoneInv
    <3> QED BY <2>1, <3>4, <3>5, <3>6, <3>7 DEF Handled, p
  <2> QED BY <2>2, <2>3
<1>5. CASE GoalChange BY <1>5, HandledChange
<1>6. CASE Crash BY <1>6, IdleHandled DEF Crash
<1>7. CASE Deliver BY <1>7 DEF Deliver, HandledInv, files, env
<1>8. CASE UNCHANGED vars BY <1>8 DEF vars, HandledInv, files, env
<1> QED BY <1>3, <1>4, <1>5, <1>6, <1>7, <1>8 DEF Next

LEMMA InitHandled == Init => HandledInv
<1> SUFFICES ASSUME Init PROVE HandledInv
  OBVIOUS
<1>1. \A w \in Workers : op[w] = Idle BY DEF Init
<1> QED BY <1>1, InitKept, IdleHandled DEF HandledInv

-----------------------------------------------------------------------------
(* The type of the whole state.  A view has its type because the handler   *)
(* that publishes it has a contract.                                       *)

UiType == {pending, delivering, shown, offered} \subseteq Views

LEMMA ViewType == ASSUME NEW c \in Contracts, NEW d \in BOOLEAN PROVE View(c, d) \in Views
  BY DEF View, Views, Contracts

LEMMA UnavailableType == ASSUME NEW c \in Contracts PROVE Unavailable(c) \in Views
  BY DEF Unavailable, View, Views, Contracts

LEMMA TransientType == {NoView, Transient("preparing"), Transient("error")} \subseteq Views
  BY DEF Views

LEMMA OfferType ==
  ASSUME UiType
  PROVE  /\ UNCHANGED ui \/ ClearView => UiType'
         /\ \A v \in Views : Publish(v) => UiType'
         /\ \A h : PublishPreparing(h) => UiType'
<1>1. \A v \in Views : Publish(v) => UiType' BY DEF UiType, Publish
<1> QED BY <1>1, TransientType DEF UiType, ui, ClearView, PublishPreparing

LEMMA StepUiType == ASSUME HandledInv, UiType, NEW w \in Workers, Step(w) PROVE UiType'
<1>1. BaseType /\ Handled(op[w], contract, overlay, Answer(native).goal)
  BY DEF HandledInv, KeptInv
<1>2. /\ op[w].at \in NeedsSeen => op[w].seen \in Contracts
      /\ op[w].at \in {"getPublish", "resumePublish"} => op[w].sub \in Contracts
      /\ {op[w].seen, op[w].sub} \subseteq Contracts \cup {NoContract}
      /\ {op[w].off, op[w].cur} \subseteq BOOLEAN
  BY <1>1, Fields DEF Handled, Known, Uses, Exact
<1>3. CASE InitPublish(w) \/ ApplyPublish(w) \/ MatchedPublish(w)
  BY <1>2, <1>3, ViewType, OfferType DEF InitPublish, ApplyPublish, MatchedPublish, At, NeedsSeen
<1>4. CASE GetPublish(w) \/ ResumePublish(w)
  BY <1>2, <1>4, ViewType, OfferType DEF GetPublish, ResumePublish, At
<1>5. CASE UsagePublish(w) BY <1>2, <1>5, ViewType, OfferType DEF UsagePublish
<1>6. CASE ResumeReason(w) \/ TaskReason(w)
  BY <1>2, <1>6, ViewType, OfferType
  DEF ResumeReason, TaskReason, At, ReadReason, Migrating, NeedsSeen, Active
<1>9. CASE ResumeGoal(w)
  BY <1>2, <1>9, UnavailableType, OfferType DEF ResumeGoal, At, NeedsSeen
<1>7. CASE InitReason(w) \/ InitFailed(w) \/ PreparePublish(w) \/ UiOverlay(w) \/ RetryGoal(w)
  BY <1>7, OfferType, TransientType DEF InitReason, InitFailed, PreparePublish, UiOverlay, RetryGoal
<1>8. ASSUME ~InitPublish(w), ~ApplyPublish(w), ~MatchedPublish(w), ~GetPublish(w),
             ~ResumePublish(w), ~UsagePublish(w), ~ResumeReason(w), ~ResumeGoal(w), ~TaskReason(w),
             ~InitReason(w), ~InitFailed(w), ~PreparePublish(w), ~UiOverlay(w), ~RetryGoal(w)
      PROVE  UNCHANGED ui
  BY <1>8, SharedOffers
  DEF Step, OnlyOp, NotFiles, Load, ReadOverlay, InitOverlay, InitGoal, InitLoad, InitStore,
      InitLatest, ApplyOverlay, ApplyReason, ApplyLoad, ApplyGoal, ApplyStore, ApplyRead, GetLoad,
      Latest, ResumeLoad, ResumeOverlay, ActivateLoad, TaskOverlay, ActivateGoal,
      MatchedOverlay, MatchedReason, StaleDetach, CompletedLoad, CompletedApply, CompletedOverlay,
      CompletedReason, UiLoad, UiReason, RetryReason
<1> QED BY <1>3, <1>4, <1>5, <1>6, <1>7, <1>8, <1>9, OfferType

TypeInv == HandledInv /\ UiType /\ {requests, changes, crashes} \subseteq Nat

LEMMA NextKeepsTypeInv == TypeInv /\ [Next]_vars => TypeInv'
<1> SUFFICES ASSUME TypeInv, [Next]_vars PROVE TypeInv'
  OBVIOUS
<1>1. HandledInv' /\ HandledInv /\ BaseType BY NextKeepsHandledInv DEF TypeInv, HandledInv, KeptInv
<1>2. ASSUME NEW w \in Workers, Step(w) PROVE TypeInv'
  <2>1. UiType' BY <1>2, StepUiType DEF TypeInv
  <2>2. UNCHANGED env BY <1>1, <1>2, StepEnv
  <2> QED BY <1>1, <2>1, <2>2 DEF TypeInv, env
<1>3. ASSUME NEW w \in Workers, NEW kind \in Kinds, Begin(w, kind) PROVE TypeInv'
  <2>1. requests' = requests - 1 /\ requests > 0 /\ UNCHANGED <<ui, changes, crashes>>
    BY <1>3 DEF Begin
  <2>2. UiType' BY <2>1 DEF TypeInv, UiType, ui
  <2> QED BY <1>1, <2>1, <2>2 DEF TypeInv
<1>4. CASE Deliver
  BY <1>1, <1>4, TransientType DEF Deliver, NextDelivery, TypeInv, UiType, env
<1>5. CASE GoalChange BY <1>1, <1>5 DEF GoalChange, TypeInv, UiType, ui
<1>6. CASE Crash BY <1>1, <1>6, TransientType DEF Crash, TypeInv, UiType
<1>7. CASE UNCHANGED vars BY <1>1, <1>7 DEF vars, env, ui, TypeInv, UiType
<1> QED BY <1>2, <1>3, <1>4, <1>5, <1>6, <1>7 DEF Next

LEMMA InitTypeInv == Init => TypeInv
  BY InitHandled, TransientType, SessionAssumption DEF Init, TypeInv, UiType

\* The variables have their types: above all, every view is one of a contract
\* that a handler has read, or of no contract (ViewModelPublisher).
THEOREM SessionTypeOK == Spec => []TypeOK
<1>1. TypeInv => TypeOK BY DEF TypeInv, HandledInv, KeptInv, BaseType, UiType, TypeOK
<1> QED BY <1>1, InitTypeInv, NextKeepsTypeInv, PTL DEF Spec

-----------------------------------------------------------------------------
(* What handlers publish.                                                  *)

LEMMA StepAtPublication ==
  ASSUME NEW w \in Workers, Step(w)
  PROVE  /\ op[w].at = "getPublish" => GetPublish(w)
         /\ op[w].at = "resumePublish" => ResumePublish(w)
         /\ op[w].at = "usagePublish" => UsagePublish(w)
         /\ op[w].at = "initPublish" => InitPublish(w)
         /\ op[w].at = "applyStore" => ApplyStore(w)
  BY DEF Step, Shared, At, Load, ReadOverlay, ReadReason, Migrating,
     DetachRead, DetachDecide, DetachReasonFile, DetachOverlayFile, AttachReasonFile,
     AttachOverlayFile, RefreshLoad, RefreshGoal, SyncLoad, SyncOverlay, SyncApply, Current, CurrentGoal,
     StartMigration, Reconcile, InitOverlay, InitReason, InitGoal, InitLoad, InitStore, InitLatest, InitPublish,
     InitFailed, ApplyOverlay, ApplyReason, ApplyLoad, ApplyGoal, ApplyStore, ApplyRead,
     ApplyPublish, GetLoad, Latest, GetPublish, ResumeLoad, ResumeOverlay, ResumeReason,
     ResumeGoal, ResumePublish, UsagePublish, ActivateLoad, TaskOverlay, TaskReason, ActivateGoal,
     MatchedOverlay, MatchedReason, MatchedPublish, StaleDetach, PreparePublish, CompletedLoad,
     CompletedApply, CompletedOverlay, CompletedReason, UiLoad, UiReason, UiOverlay, RetryReason,
     RetryGoal

\* Only its own step changes the place of a handler and publishes something.
LEMMA PublicationIsAStep ==
  ASSUME BaseType, [Next]_vars, NEW w \in Workers, op[w].at # "idle", op'[w].at # op[w].at,
         ~Crash, offered' # offered
  PROVE  Step(w)
<1>1. ASSUME NEW v \in Workers, Step(v) PROVE v = w
  BY <1>1, StepMoves DEF Moved, BaseType
<1>2. ASSUME NEW v \in Workers, NEW kind \in Kinds, Begin(v, kind) PROVE FALSE
  BY <1>2 DEF Begin, ui
<1>3. ~Deliver /\ ~GoalChange /\ vars' # vars BY DEF Deliver, GoalChange, vars, ui
<1> QED BY <1>1, <1>2, <1>3 DEF Next

LEMMA HandledFacts ==
  ASSUME HandledInv, NEW w \in Workers
  PROVE  /\ BaseType /\ Handled(op[w], contract, overlay, Answer(native).goal)
         /\ {op[w].off, op[w].cur} \subseteq BOOLEAN /\ overlay \in BOOLEAN
  BY Fields DEF HandledInv, KeptInv, BaseType

\* A view published as active by a read, a resumption or the usage poll is of a
\* Goal that Codex had while the request was served, for any interleaving, provided
\* that Codex answered the last read of the Goal that the request made
\* (#overlayForCurrentNativeGoal, which returns the overlay as it is otherwise).
THEOREM ActiveViewWasCurrentAlways == Spec => ActiveViewWasCurrent
<1> DEFINE Was == \A w \in Workers :
             /\ op[w].at \in {"getPublish", "resumePublish", "usagePublish"}
             /\ op'[w].at = "idle" /\ ~Crash /\ offered' # offered
             /\ offered'.phase = "active" /\ ~op[w].stale /\ ~IsTask(op[w].sub) /\ ~op[w].sub.complete
             => op[w].sub.goal \in op[w].during
<1>1. ASSUME HandledInv, [Next]_vars, NEW w \in Workers,
             op[w].at \in {"getPublish", "resumePublish", "usagePublish"}, op'[w].at = "idle",
             ~Crash, offered' # offered, offered'.phase = "active", ~op[w].stale,
             ~IsTask(op[w].sub), ~op[w].sub.complete
      PROVE  op[w].sub.goal \in op[w].during
  <2>1. BaseType /\ Handled(op[w], contract, overlay, Answer(native).goal)
        /\ op[w].cur \in BOOLEAN
    BY <1>1, HandledFacts
  <2>2. Step(w) BY <1>1, <2>1, PublicationIsAStep
  <2>3. GetPublish(w) \/ ResumePublish(w) \/ UsagePublish(w) BY <1>1, <2>2, StepAtPublication
  <2>4. ~op[w].cur /\ op[w].sub # NoContract
    <3>1. \A h : PublishPreparing(h) => offered'.phase # "active"
      BY DEF PublishPreparing, Publish, Transient, NoView
    <3>2. \A c : Publish(View(c, TRUE)) => offered'.phase # "active" BY DEF Publish, View
    <3>3. ClearView \/ UNCHANGED ui => offered' = offered BY DEF ClearView, ui
    <3>4. op[w].at \in Exact => op[w].sub # NoContract BY <2>1 DEF Handled, Known, Uses
    <3> QED BY <1>1, <2>1, <2>3, <3>1, <3>2, <3>3, <3>4
         DEF GetPublish, ResumePublish, UsagePublish, At, Exact
  <2> QED BY <1>1, <2>1, <2>4 DEF Handled, BoundInv, Bound, Publishing, Exact
<1>2. HandledInv /\ [Next]_vars => [Was]_vars BY <1>1
<1>3. ActiveViewWasCurrent <=> [][Was]_vars BY DEF ActiveViewWasCurrent
<1> QED BY <1>2, <1>3, InitHandled, NextKeepsHandledInv, PTL DEF Spec

LEMMA GoalsAreFinite == \A S \in SUBSET Goals : IsFiniteSet(S)
<1>1. IsFiniteSet(Goals) BY SessionAssumption, FS_Interval DEF Goals, NoGoal
<1> QED BY <1>1, FS_Subset

\* The Goal did not change while the request was served: it had one Goal.
LEMMA OneGoal ==
  ASSUME HandledInv, NEW w \in Workers, op[w].at # "idle", Cardinality(op[w].during) = 1
  PROVE  op[w].during = {Answer(native).goal}
<1>1. op[w] \in Handlers /\ Answer(native).goal \in op[w].during
  BY DEF HandledInv, KeptInv, BaseType, Handled, Informed
<1>2. IsFiniteSet(op[w].during) BY <1>1, GoalsAreFinite DEF Handlers
<1>3. \E h : op[w].during = {h} BY <1>2, FS_Singleton
<1> QED BY <1>1, <1>3

\* What a read, a resumption or an initialization served alone publishes, while
\* the Goal did not change, is the contract and the overlay as they are stored and,
\* if Codex answered, never active for another Goal (#syncNativeGoalStatus,
\* initialize).
THEOREM LoneReadIsExactAlways == Spec => LoneReadIsExact
<1> DEFINE Is == \A w \in Workers :
             /\ op[w].at \in {"getPublish", "resumePublish", "initPublish"}
             /\ op'[w].at = "idle" /\ op[w].alone /\ Cardinality(op[w].during) = 1
             /\ ~Crash /\ offered' # offered /\ offered'.phase # "preparing"
             => /\ offered' = View(contract, overlay)
                /\ op[w].stale \/ overlay \/ IsTask(contract) \/ contract.complete
                     \/ contract.goal \in op[w].during
<1>1. ASSUME HandledInv, [Next]_vars, NEW w \in Workers,
             op[w].at \in {"getPublish", "resumePublish", "initPublish"}, op'[w].at = "idle",
             op[w].alone, Cardinality(op[w].during) = 1, ~Crash, offered' # offered,
             offered'.phase # "preparing"
      PROVE  /\ offered' = View(contract, overlay)
             /\ op[w].stale \/ overlay \/ IsTask(contract) \/ contract.complete
                  \/ contract.goal \in op[w].during
  <2>1. BaseType /\ Handled(op[w], contract, overlay, Answer(native).goal)
        /\ op[w].cur \in BOOLEAN /\ overlay \in BOOLEAN
    BY <1>1, HandledFacts
  <2>2. Step(w) BY <1>1, <2>1, PublicationIsAStep
  <2>3. LoneInv(op[w], contract, overlay, Answer(native).goal)
        /\ op[w].during = {Answer(native).goal}
    BY <1>1, <2>1, OneGoal DEF Handled
  <2>4. CASE op[w].at = "initPublish"
    <3>1. InitPublish(w) /\ op[w].ret = "initLatest"
      BY <2>1, <2>2, <2>4, StepAtPublication DEF Handled, OnItsWay
    <3>2. Initializing(op[w], contract, overlay) BY <1>1, <2>3, <3>1 DEF LoneInv
    <3>3. op[w].seen = contract /\ overlay = FALSE BY <2>1, <2>4, <3>2 DEF Initializing
    <3>4. offered' = View(contract, overlay) BY <3>1, <3>3 DEF InitPublish, Publish
    <3> QED BY <3>2, <3>4 DEF Initializing
  <2>5. CASE op[w].at \in Exact
    <3>1. op[w].sub = contract /\ op[w].cur = overlay /\ contract # NoContract
      BY <1>1, <2>1, <2>3, <2>5 DEF LoneInv, Handled, OnItsWay, Known, Uses, Publishing
    <3>2. \A h : PublishPreparing(h) => offered'.phase = "preparing"
      BY DEF PublishPreparing, Publish, Transient, NoView
    <3>3. GetPublish(w) \/ ResumePublish(w) BY <2>2, <2>5, StepAtPublication DEF Exact
    <3>4. Publish(View(contract, overlay))
      BY <1>1, <3>1, <3>2, <3>3 DEF GetPublish, ResumePublish
    <3>5. op[w].stale \/ overlay \/ Bound(contract, op[w].during)
      BY <2>1, <2>5, <3>1 DEF Handled, BoundInv, Publishing
    <3> QED BY <3>1, <3>4, <3>5 DEF Publish, Bound
  <2> QED BY <1>1, <2>4, <2>5 DEF Exact
<1>2. HandledInv /\ [Next]_vars => [Is]_vars BY <1>1
<1>3. LoneReadIsExact <=> [][Is]_vars BY DEF LoneReadIsExact
<1> QED BY <1>2, <1>3, InitHandled, NextKeepsHandledInv, PTL DEF Spec

-----------------------------------------------------------------------------
(* What handlers write.                                                    *)

\* The contract that a handler has read at first is one that was stored.
LEMMA StepSeen ==
  ASSUME BaseType, NEW w \in Workers, Step(w)
  PROVE  op'[w].seen \in {op[w].seen, contract, contract', NoContract}
<1> DEFINE Stays == op'[w].seen \in {op[w].seen, contract, contract', NoContract}
<1>1. op \in [Workers -> Handlers] /\ op[w] \in Handlers BY DEF BaseType
<1>2. \A place : Go(w, place) => Stays BY <1>1 DEF Go, Handlers
<1>3. End(w) => Stays BY <1>1 DEF End, Idle
<1>4. \A place, ret : Call(w, place, ret) => Stays BY <1>1 DEF Call, Handlers
<1>5. \A back : CallAttach(w, back) => Stays BY <1>1 DEF CallAttach, Handlers
<1>6. \A why, back : CallDetach(w, why, back) => Stays BY <1>1 DEF CallDetach, Handlers
<1>7. \A here, next :
        Load(w, here, next) \/ ReadOverlay(w, here, next) => Stays
  BY <1>1 DEF Load, ReadOverlay, Handlers
<1>8. \A q : Return(w, q) => Stays BY <1>2, <1>3 DEF Return
<1>9. CASE DetachDecide(w) \/ DetachReasonFile(w) \/ AttachReasonFile(w) \/ RefreshLoad(w) \/
           StartMigration(w) \/ SyncOverlay(w) \/ Reconcile(w) \/ InitOverlay(w) \/
           InitReason(w) \/ InitLoad(w) \/ InitStore(w) \/ InitPublish(w) \/
           InitFailed(w) \/ ApplyOverlay(w) \/ ApplyReason(w) \/ ApplyRead(w) \/
           ApplyPublish(w) \/ GetLoad(w) \/ GetPublish(w) \/ ResumeOverlay(w) \/
           ResumeReason(w) \/ ResumeGoal(w) \/ ResumePublish(w) \/ UsagePublish(w) \/
           TaskOverlay(w) \/ TaskReason(w) \/ MatchedOverlay(w) \/ MatchedReason(w) \/
           MatchedPublish(w) \/ StaleDetach(w) \/ PreparePublish(w) \/
           CompletedOverlay(w) \/ CompletedReason(w) \/ UiOverlay(w) \/ RetryReason(w)
           \/ RetryGoal(w)
  BY <1>2, <1>3, <1>4, <1>5, <1>6, <1>7, <1>8, <1>9
  DEF DetachDecide, DetachReasonFile, AttachReasonFile, RefreshLoad, StartMigration, SyncOverlay,
      Reconcile, InitOverlay, InitReason, InitLoad, InitStore, InitPublish, InitFailed,
      ApplyOverlay, ApplyReason, ApplyRead, ApplyPublish, GetLoad, GetPublish,
      ResumeOverlay, ResumeReason, ResumeGoal, ResumePublish, UsagePublish, TaskOverlay,
      TaskReason, MatchedOverlay, MatchedReason, MatchedPublish, StaleDetach,
      PreparePublish, CompletedOverlay, CompletedReason, UiOverlay, RetryReason, RetryGoal
<1>10. DetachRead(w) => Stays BY <1>1 DEF DetachRead, Handlers
<1>11. DetachOverlayFile(w) => Stays BY <1>1, <1>3 DEF DetachOverlayFile, Handlers
<1>12. AttachOverlayFile(w) => Stays BY <1>1, <1>3 DEF AttachOverlayFile, Handlers
<1>13. SyncLoad(w) => Stays BY <1>1, <1>8 DEF SyncLoad, Handlers
<1>14. SyncApply(w) => Stays BY <1>1 DEF SyncApply, Handlers
<1>15. Current(w) \/ CurrentGoal(w) => Stays
  BY <1>1, <1>3, <1>6 DEF Current, CurrentGoal, Decide, ReturnOverlay, Handlers
<1>16. InitGoal(w) => Stays BY <1>1, <1>2 DEF InitGoal, Handlers
<1>17. InitLatest(w) => Stays BY <1>1 DEF InitLatest, Handlers
<1>18. ApplyLoad(w) => Stays BY <1>1, <1>3 DEF ApplyLoad, Handlers
<1>19. ApplyGoal(w) => Stays BY <1>1, <1>2, <1>3, <1>6 DEF ApplyGoal, Handlers
<1>20. ApplyStore(w) => Stays BY <1>1, <1>3 DEF ApplyStore, Handlers
<1>21. Latest(w) => Stays BY <1>1 DEF Latest, Handlers
<1>22. ResumeLoad(w) => Stays BY <1>1, <1>3 DEF ResumeLoad, Handlers
<1>23. ActivateLoad(w) => Stays BY <1>1 DEF ActivateLoad, Handlers
<1>24. ActivateGoal(w) => Stays BY <1>1, <1>2, <1>3 DEF ActivateGoal, Handlers
<1>25. CompletedLoad(w) => Stays BY <1>1, <1>3 DEF CompletedLoad, Handlers
<1>26. ASSUME CompletedApply(w) PROVE Stays
  <2>1. \/ op' = [op EXCEPT ![w].seen = contract', ![w].at = "completedOverlay"]
        \/ End(w)
    BY <1>26 DEF CompletedApply
  <2> QED BY <1>1, <1>3, <2>1 DEF Handlers
<1>27. UiLoad(w) => Stays BY <1>1, <1>2, <1>4 DEF UiLoad, Handlers
<1>28. UiReason(w) => Stays BY <1>1 DEF UiReason, Handlers
<1>29. RefreshGoal(w) => Stays BY <1>1 DEF RefreshGoal, Handlers
<1> HIDE DEF Stays
<1> QED
  BY <1>9, <1>10, <1>11, <1>12, <1>13, <1>14, <1>15, <1>16, <1>17, <1>18, <1>19, <1>20, <1>21,
     <1>22, <1>23, <1>24, <1>25, <1>26, <1>27, <1>28, <1>29
  DEF Step, Shared, Stays

Recorded(c, Log) == c # NoContract => c = Log[<<c.id, c.revision>>]

LEMMA SeenIsRecorded ==
  ASSUME NEW Log, BaseType, [Next]_vars, Recorded(contract, Log), Recorded(contract', Log),
         \A w \in Workers : Recorded(op[w].seen, Log)
  PROVE  \A w \in Workers : Recorded(op'[w].seen, Log)
<1> SUFFICES ASSUME NEW w \in Workers PROVE Recorded(op'[w].seen, Log)
  OBVIOUS
<1>1. op[w] \in Handlers /\ Recorded(NoContract, Log) BY DEF BaseType, Recorded
<1>2. ASSUME NEW v \in Workers, Step(v) PROVE Recorded(op'[w].seen, Log)
  <2>1. CASE v = w BY <1>1, <1>2, <2>1, StepSeen
  <2>2. CASE v # w BY <1>2, <2>2, StepMoves DEF Moved, BaseType
  <2> QED BY <2>1, <2>2
<1>3. ASSUME NEW v \in Workers, NEW kind \in Kinds, Begin(v, kind)
      PROVE  Recorded(op'[w].seen, Log)
  <2>1. CASE v = w
    <3>1. PICK stale \in BOOLEAN : op'[w] = Begun(kind, stale) BY <1>3, <2>1, BeginType
    <3>2. Begun(kind, stale).seen = NoContract BY DEF Begun, Idle
    <3> QED BY <1>1, <3>1, <3>2
  <2>2. CASE v # w
    <3>1. op'[w] = [op[w] EXCEPT !.alone = FALSE] BY <1>3, <2>2, BeginType
    <3>2. op'[w].seen = op[w].seen BY <1>1, <3>1 DEF Handlers
    <3> QED BY <3>2
  <2> QED BY <2>1, <2>2
<1>4. CASE GoalChange
  <2>1. op'[w].seen = op[w].seen BY <1>1, <1>4, GoalChangeType DEF Handlers
  <2> QED BY <2>1
<1>5. CASE Crash
  <2>1. op'[w].seen = NoContract BY <1>5 DEF Crash, Idle
  <2> QED BY <1>1, <2>1
<1>6. CASE Deliver \/ UNCHANGED vars BY <1>6 DEF Deliver, vars
<1> QED BY <1>2, <1>3, <1>4, <1>5, <1>6 DEF Next

\* What an update or a rescope of a client writes to a Goal's contract is for a Goal that
\* Codex had while the request was served, as long as an id and a revision stand
\* for one record: every contract that is ever stored is the Log's.  The store
\* refuses the current id for a replacement (core/src/index.ts:1224), and the
\* MCP server derives ids from the session and the call (mcp/src/initialization.ts:15).
THEOREM ProgressStaysOnItsGoal ==
  ASSUME NEW Log
  PROVE  Spec /\ [](contract # NoContract => contract = Log[<<contract.id, contract.revision>>])
           => NoProgressOnAnotherGoal
<1> DEFINE Stays == \A w \in Workers :
             At(w, "applyStore") /\ op'[w] # op[w] /\ contract' # contract /\ ~IsTask(contract')
               => contract'.goal \in op[w].during \/ (contract.complete /\ op[w].kind = "update")
           Unique == contract # NoContract => contract = Log[<<contract.id, contract.revision>>]
           Seen == \A w \in Workers : Recorded(op[w].seen, Log)
<1>1. ASSUME HandledInv, Unique, Seen, [Next]_vars, NEW w \in Workers, At(w, "applyStore"),
             op'[w] # op[w], contract' # contract, ~IsTask(contract')
      PROVE  contract'.goal \in op[w].during \/ (contract.complete /\ op[w].kind = "update")
  <2>1. BaseType /\ Handled(op[w], contract, overlay, Answer(native).goal)
    BY <1>1, HandledFacts
  <2>2. Step(w)
    <3>1. ASSUME NEW v \in Workers, Step(v) PROVE v = w
      BY <1>1, <2>1, <3>1, StepMoves DEF Moved, BaseType
    <3>2. \A v \in Workers : \A kind \in Kinds : ~Begin(v, kind) BY <1>1 DEF Begin
    <3>3. ~Deliver /\ ~GoalChange /\ ~Crash /\ vars' # vars
      BY <1>1 DEF Deliver, GoalChange, Crash, vars
    <3> QED BY <1>1, <3>1, <3>2, <3>3 DEF Next
  <2>3. ApplyStore(w) BY <1>1, <2>2, StepAtPublication DEF At
  <2>4. Stored(op[w].seen) /\ contract' \in Applied(w) BY <1>1, <2>3 DEF ApplyStore
  <2>5. contract = op[w].seen
    BY <1>1, <2>4 DEF Stored, Recorded
  <2>6. contract \in Contracts BY <2>1, <2>4 DEF BaseType, Stored
  <2>7. CASE Retargets(w)
    <3>1. contract'.goal = op[w].answer.goal /\ op[w].answer # NoAnswer
      BY <2>4, <2>6, <2>7 DEF Applied, Retargets, Contracts
    <3> QED BY <1>1, <2>1, <3>1 DEF Handled, Informed, At
  <2>8. CASE ~Retargets(w)
    <3>1. contract'.goal = contract.goal BY <2>4, <2>6, <2>8 DEF Applied, Contracts
    <3>2. contract' # NoContract
      BY <2>1, <2>2, <2>4, StepContract, SessionAssumption DEF Stored
    <3>3. ~IsTask(op[w].seen) BY <1>1, <2>5, <3>1, <3>2 DEF IsTask
    <3> QED BY <1>1, <2>1, <2>5, <2>8, <3>1, <3>3 DEF Handled, BoundInv, Retargets, At
  <2> QED BY <2>7, <2>8
<1>2. HandledInv /\ Unique /\ Seen /\ [Next]_vars => [Stays]_vars BY <1>1
<1>3. Init => Seen BY DEF Init, Recorded, Idle
<1>4. HandledInv /\ Unique /\ Unique' /\ Seen /\ [Next]_vars => Seen'
  BY SeenIsRecorded DEF Recorded, HandledInv, KeptInv
<1>5. NoProgressOnAnotherGoal <=> [][Stays]_vars BY DEF NoProgressOnAnotherGoal
<1> HIDE DEF Unique, Seen, Stays
<1>6. Spec /\ []Unique => NoProgressOnAnotherGoal
  BY <1>2, <1>3, <1>4, <1>5, InitHandled, NextKeepsHandledInv, PTL DEF Spec
<1> QED BY <1>6 DEF Unique

=============================================================================
