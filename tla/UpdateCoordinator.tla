------------------------- MODULE UpdateCoordinator -------------------------
(***************************************************************************)
(* The Helper's updater (packages/host/src/update-coordinator.ts) with the *)
(* two files it recovers from, the update state and the operation record   *)
(* (platform/macos/src/update-operation.ts), the one-shot launchd workers  *)
(* that install a release and restart Codex (update-install-handoff.ts,    *)
(* update-restart-handoff.ts), and the Helper process, which the installed *)
(* release itself stops and starts again in the middle of an operation.    *)
(*                                                                         *)
(* The coordinator serialises its work in a promise queue: one job at a    *)
(* time reads the operation record and then writes the state.  Everything  *)
(* else interleaves with a job: the workers, the record writes the         *)
(* coordinator makes outside the queue, the clock, Codex.                  *)
(*                                                                         *)
(* stateRevision grows with every write and is only ever compared with the *)
(* revision an operation was requested at, so the state carries request:   *)
(* the operation whose "installing" write is the last write, or NoId.      *)
(***************************************************************************)
EXTENDS Integers, FiniteSets

CONSTANTS MaxVersion,     \* newest release the download site ever offers
          MaxOperations,  \* background updates started
          MaxLaunch,      \* Codex launches
          MaxRequests,    \* intents the user sends
          MaxCrashes      \* crashes of the Helper or of a worker, failing verdict writes

ASSUME UpdateBounds ==
  /\ {MaxVersion, MaxOperations, MaxLaunch} \subseteq Nat \ {0}
  /\ {MaxRequests, MaxCrashes} \subseteq Nat

VARIABLES
  state,      \* update.json, and the coordinator's cached copy of it
  op,         \* update-operation.json
  program,    \* the release the "current" link points to
  installed,  \* the release the installation manifest names
  published,  \* the newest release on the download site
  launch,     \* the running Codex launch, 0 when none is known
  launches,   \* the number of Codex launches so far
  up,         \* the Helper process
  build,      \* the release the running Helper is built from
  job,        \* the queue's job that has read the record and not written yet
  due,        \* a reconcile that is queued
  timer,      \* the deadline timer is set
  autoTried,  \* #automaticCheckAttempted
  replies,    \* the afterResponse continuations that have not finished
  work,       \* the background update
  cleaning,   \* the record of a completed operation is being removed
  installer,  \* the install worker of each operation
  restarter,  \* the restart worker of each operation
  asked, used, crashes,   \* intents, operation ids and crashes consumed
  upgraded,   \* the operations whose own worker has installed the release
  began,      \* the Codex launch that each operation was recorded under
  overlapped, \* the answer to a check has been written over an update
  dropped     \* the last start to be carried out met an update being put away

files == <<state, op>>
helper == <<up, build, autoTried>>
inside == <<job, due, timer, replies, work, cleaning>>
world == <<program, installed, published, launch, launches>>
workers == <<installer, restarter>>
bounds == <<asked, used, crashes>>
history == <<upgraded, began, overlapped, dropped>>
vars == <<files, helper, inside, world, workers, bounds, history>>

Versions == 0 .. MaxVersion
Unknown == -1
Ids == 1 .. MaxOperations
NoId == 0

Underway == {"preparing", "downloading", "verifying"}
Recorded == {"installing", "restart-required", "restarting"}
Active == Underway \cup Recorded
Phases == Active \cup {"up-to-date", "checking", "check-failed", "available",
                       "download-failed", "update-failed"}

NoOp == [id |-> NoId, target |-> Unknown, install |-> "failed",
         restart |-> "not-requested", prev |-> 0, expired |-> FALSE]
NoJob == [intent |-> "none", read |-> NoOp]
NoWork == [id |-> NoId, version |-> Unknown, at |-> "none", prev |-> 0]
Idle == [at |-> "none", version |-> Unknown, from |-> Unknown]

NoRestart == [at |-> "none", launch |-> 0]

Intents == {"check", "start", "retry", "restart-now"}

-----------------------------------------------------------------------------
(* Writes.                                                                 *)

Written(s, phase) == [s EXCEPT !.phase = phase, !.request = NoId]

\* Mutant: a verdict is taken for whatever operation is current.
AnswerableAny(id) == op.install = "pending"

\* complete() takes the first verdict on the current operation; a verdict on
\* another one, or a second one, throws.
Answerable(id) == op.id = id /\ op.install = "pending"

\* The record after complete() and completeRestart(), which keep it as it is
\* when they refuse the verdict.
Completed(id, verdict) ==
  IF Answerable(id) THEN [op EXCEPT !.install = verdict] ELSE op

RestartCompleted(id, verdict) ==
  IF op.id = id /\ op.install = "succeeded" /\ op.restart = "pending"
  THEN [op EXCEPT !.restart = verdict] ELSE op

\* A timer is not armed once the Helper is stopping.
Armed == up = "up"

Verified(o) == installed = o.target /\ program = o.target

-----------------------------------------------------------------------------
(* #reconcileState: what a job makes of the state it finds and of the      *)
(* record o it has read.                                                   *)

NeedsRecord ==
  state.phase \in Recorded /\ ~(state.phase = "installing" /\ work # NoWork)

Kept == [state |-> state, op |-> op, timer |-> timer]
Moved(phase) == [state |-> Written(state, phase), op |-> op, timer |-> FALSE]

Unrecorded ==
  CASE state.phase \in Underway /\ work = NoWork ->
         [Moved("download-failed") EXCEPT !.timer = timer]
    [] state.phase \in Active /\ work # NoWork -> Kept
    [] OTHER -> [Kept EXCEPT !.timer = FALSE]

\* Mutants: a pending worker is waited for without a timer, or for ever.
InstallOutcomeUntimed(o) ==
  CASE o.install = "pending" /\ ~o.expired -> Kept
    [] o.install = "pending" /\ o.expired ->
         [Moved("update-failed") EXCEPT !.op = Completed(o.id, "failed")]
    [] o.install = "succeeded" /\ Verified(o) -> Moved("restart-required")
    [] OTHER -> Moved("update-failed")

InstallOutcomeNoDeadline(o) ==
  CASE o.install = "pending" -> [Kept EXCEPT !.timer = Armed]
    [] o.install = "succeeded" /\ Verified(o) -> Moved("restart-required")
    [] OTHER -> Moved("update-failed")

InstallOutcome(o) ==
  CASE o.install = "pending" /\ ~o.expired -> [Kept EXCEPT !.timer = Armed]
    [] o.install = "pending" /\ o.expired ->
         [Moved("update-failed") EXCEPT !.op = Completed(o.id, "failed")]
    [] o.install = "succeeded" /\ Verified(o) -> Moved("restart-required")
    [] OTHER -> Moved("update-failed")

\* Mutant: the restart worker is waited for without a deadline.
RestartOutcomeNoDeadline(o) ==
  IF ~(o.install = "succeeded" /\ Verified(o)) THEN Moved("update-failed") ELSE
  CASE o.restart = "failed" -> Moved("restart-required")
    [] o.restart = "pending" -> [Moved("restarting") EXCEPT !.timer = Armed]
    [] o.restart = "not-requested" /\ state.phase = "restarting" -> Moved("restart-required")
    [] OTHER -> [Kept EXCEPT !.timer = FALSE]

RestartOutcome(o) ==
  IF ~(o.install = "succeeded" /\ Verified(o)) THEN Moved("update-failed") ELSE
  CASE o.restart = "failed" -> Moved("restart-required")
    [] o.restart = "pending" /\ o.expired ->
         [Moved("restart-required") EXCEPT !.op = RestartCompleted(o.id, "failed")]
    [] o.restart = "pending" /\ ~o.expired -> [Moved("restarting") EXCEPT !.timer = Armed]
    [] o.restart = "not-requested" /\ state.phase = "restarting" -> Moved("restart-required")
    [] OTHER -> [Kept EXCEPT !.timer = FALSE]

Superseded(o) ==
  \/ o = NoOp
  \/ o.target # state.latest
  \/ state.phase = "installing" /\ state.request # o.id

Reconciled(o) ==
  CASE Superseded(o) -> Moved("update-failed")
    [] ~Superseded(o) /\ state.phase = "installing" -> InstallOutcome(o)
    [] OTHER -> RestartOutcome(o)

-----------------------------------------------------------------------------
(* Jobs.  Serve(intent, r) is the rest of a job after its reconcile r.     *)

CheckScheduled == \E a \in replies : a.kind = "check"

HasRecord(r) ==
  /\ r.op # NoOp
  /\ r.op.target = r.state.latest
  /\ r.op.install = "succeeded"

\* Mutant: the Codex the update began under may complete it.
ActivatedInOldCodex(r, seen) ==
  /\ r.state.phase \in {"restart-required", "restarting"}
  /\ HasRecord(r)
  /\ r.op.restart # "pending"
  /\ Verified(r.op)
  /\ build = r.op.target

\* completeActivation with evaluateGoalProgressUpdateActivation: the running
\* Codex launch, seen when the attempt began, is not the one the update began
\* under, and the page it shows is the one of the installed release.
Activated(r, seen) ==
  /\ r.state.phase \in {"restart-required", "restarting"}
  /\ HasRecord(r)
  /\ r.op.restart # "pending"
  /\ Verified(r.op)
  /\ seen # r.op.prev
  /\ build = r.op.target

Accepted(intent, r) ==
  \/ intent = "check" /\ r.state.phase \notin Active /\ ~CheckScheduled
  \/ intent = "start" /\ r.state.phase = "available"
  \/ intent = "retry" /\ r.state.phase \in {"download-failed", "update-failed"}
  \/ intent = "restart-now" /\ r.state.phase = "restart-required" /\ HasRecord(r)

Begun == [i \in Intents |-> CASE i = "check" -> "checking"
                              [] i = "restart-now" -> "restarting"
                              [] OTHER -> "preparing"]

AfterResponse(intent, r) ==
  CASE intent = "check" -> [kind |-> "check", n |-> 0, of |-> NoId]
    [] intent = "restart-now" -> [kind |-> "restart", n |-> asked, of |-> r.op.id]
    [] OTHER -> [kind |-> "start", n |-> asked, of |-> r.state.latest]

\* An intent: the reconcile, then the write that begins what was asked for.
ServeIntent(intent, r) ==
  /\ op' = r.op /\ timer' = r.timer
  /\ IF Accepted(intent, r)
     THEN /\ state' = Written(r.state, Begun[intent])
          /\ replies' = replies \cup {AfterResponse(intent, r)}
     ELSE state' = r.state /\ UNCHANGED replies
  /\ UNCHANGED <<helper, work, cleaning>>

ServeReconcile(r) ==
  /\ state' = r.state /\ op' = r.op /\ timer' = r.timer
  /\ UNCHANGED <<helper, replies, work, cleaning>>

\* cleanupCompletedOperation, after initialize and after an activation, reads
\* the record and the state outside the queue; the record is removed later.
Completable(o, s) ==
  /\ o # NoOp /\ o.install = "succeeded"
  /\ s.phase = "up-to-date" /\ s.current = o.target

ServeInitialize(r) ==
  /\ state' = r.state /\ op' = r.op /\ timer' = r.timer
  /\ cleaning' = (cleaning \/ Completable(r.op, r.state))
  /\ UNCHANGED <<helper, replies, work>>

ServeActivate(r) ==
  /\ op' = r.op /\ timer' = r.timer
  /\ \/ /\ \E seen \in r.op.prev .. launches : Activated(r, seen)
        /\ state' = [Written(r.state, "up-to-date") EXCEPT !.current = r.op.target,
                                                           !.latest = Unknown]
        /\ cleaning' = (cleaning \/ Completable(r.op, state'))
     \/ ~Activated(r, launches) /\ state' = r.state /\ UNCHANGED cleaning
  /\ UNCHANGED <<helper, replies, work>>

\* The process is gone, and with it all that was not in a file.
Down ==
  /\ up' = "down"
  /\ job' = NoJob /\ due' = "none" /\ timer' = FALSE /\ replies' = {}
  /\ work' = NoWork /\ cleaning' = FALSE /\ autoTried' = FALSE
  /\ UNCHANGED build

Serve(intent, r) ==
  IF intent = "stop" THEN state' = r.state /\ op' = r.op /\ Down
  ELSE /\ job' = NoJob
       /\ CASE intent \in Intents -> ServeIntent(intent, r)
            [] intent = "initialize" -> ServeInitialize(r)
            [] intent = "activate" -> ServeActivate(r)
            [] OTHER -> ServeReconcile(r)

Free == up # "down" /\ job = NoJob

\* A job takes its turn: it reads the record first when the state calls for it.
Take(intent) ==
  /\ Free
  /\ IF NeedsRecord
     THEN /\ job' = [intent |-> intent, read |-> op]
          /\ UNCHANGED <<files, helper, timer, replies, work, cleaning>>
     ELSE Serve(intent, Unrecorded)

-----------------------------------------------------------------------------
Init ==
  /\ state = [phase |-> "up-to-date", current |-> 0, latest |-> Unknown, request |-> NoId]
  /\ op = NoOp
  /\ program = 0 /\ installed = 0 /\ published = 0
  /\ launch = 1 /\ launches = 1
  /\ up = "down" /\ build = 0 /\ autoTried = FALSE
  /\ job = NoJob /\ due = "none" /\ timer = FALSE /\ replies = {}
  /\ work = NoWork /\ cleaning = FALSE
  /\ installer = [i \in Ids |-> Idle] /\ restarter = [i \in Ids |-> NoRestart]
  /\ asked = 0 /\ used = 0 /\ crashes = 0
  /\ upgraded = {} /\ began = [i \in Ids |-> 0]
  /\ overlapped = FALSE /\ dropped = FALSE

\* launchd starts the Helper of the current release; #loadOrCreate adopts its
\* version unless an update is in progress.
Boot ==
  /\ up = "down" /\ up' = "up"
  /\ build' = program
  /\ state' = IF state.current # program /\ state.phase \notin Active
              THEN [Written(state, state.phase) EXCEPT !.current = program] ELSE state
  /\ due' = "initialize"
  /\ UNCHANGED <<op, autoTried, job, timer, replies, work, cleaning,
                 world, workers, bounds, history>>

RunDue ==
  /\ due # "none" /\ Take(due) /\ due' = "none"
  /\ UNCHANGED <<world, workers, bounds, history>>

\* The record was read; the job goes on to its writes.
Finish ==
  /\ job # NoJob
  /\ Serve(job.intent, Reconciled(job.read))
  /\ job.intent # "stop" => UNCHANGED due
  /\ UNCHANGED <<world, workers, bounds, history>>

\* An intent of the user, for the version on display.
Ask(intent) ==
  /\ asked < MaxRequests
  /\ intent \in {"start", "retry"} =>
       used + Cardinality({a \in replies : a.kind = "start"}) < MaxOperations
  /\ Take(intent)
  /\ asked' = asked + 1
  /\ UNCHANGED <<due, world, workers, used, crashes, history>>

\* beginAutomaticCheck: at most once per process, when the last check is more
\* than a day old, and without a reconcile.
AutoCheck ==
  /\ Free /\ ~autoTried /\ autoTried' = TRUE
  /\ state.phase \notin Active /\ ~CheckScheduled
  /\ state' = Written(state, "checking")
  /\ replies' = replies \cup {[kind |-> "check", n |-> 0, of |-> NoId]}
  /\ UNCHANGED <<op, up, build, job, due, timer, work, cleaning,
                 world, workers, bounds, history>>

\* completeCheck: whatever the state has become, the answer is written to it.
CheckEnds(answered) ==
  /\ Free
  /\ \E a \in replies : a.kind = "check" /\ replies' = replies \ {a}
  /\ state' = CASE ~answered -> Written(state, "check-failed")
                [] answered /\ published > build ->
                     [Written(state, "available") EXCEPT !.latest = published]
                [] OTHER -> [Written(state, "up-to-date") EXCEPT !.latest = Unknown]
  /\ overlapped' = (overlapped \/ state.phase # "checking")
  /\ UNCHANGED <<op, helper, job, due, timer, work, cleaning,
                 world, workers, bounds, upgraded, began, dropped>>

Awaited(o) == o.install = "pending" \/ o.restart = "pending"

\* The deadline timer fires, at the earliest when the deadline has passed; the
\* deadline of a record nobody is waited for any more may pass at any time.  The
\* lease that the timer was last set for outlasts the launchctl call (Expire).
TimerFires ==
  /\ timer /\ work.at # "submit" /\ (Awaited(op) => op.expired)
  /\ timer' = FALSE
  /\ due' = IF due = "none" THEN "reconcile" ELSE due
  /\ UNCHANGED <<files, helper, job, replies, work, cleaning,
                 world, workers, bounds, history>>

-----------------------------------------------------------------------------
(* The background update.                                                  *)

\* The continuation of start and retry; it starts nothing while #operationPromise
\* is still the update before it, which may be one that has failed already.
AfterStart ==
  /\ up # "down"
  /\ \E a \in replies :
       /\ a.kind = "start" /\ replies' = replies \ {a}
       /\ IF work = NoWork
          THEN /\ used' = used + 1
               /\ work' = [id |-> used + 1, version |-> a.of, at |-> "begin", prev |-> 0]
          ELSE UNCHANGED <<used, work>>
  /\ dropped' = (work.at = "settle")
  /\ UNCHANGED <<files, helper, job, due, timer, cleaning,
                 world, workers, asked, crashes, upgraded, began, overlapped>>

\* Mutant: the schema does not tie a phase to a release.
WritableAnything == Free

\* writeAndPublish: a patch of whatever the state is, when the queue is free.
\* The schema refuses a phase of an update in a state that names no release.
Writable == Free /\ state.latest # Unknown

Progress(from, phase, next) ==
  /\ Writable /\ work.at = from
  /\ state' = Written(state, phase)
  /\ work' = [work EXCEPT !.at = next]
  /\ UNCHANGED <<op, helper, job, due, timer, replies, cleaning,
                 world, workers, bounds, history>>

Download == Progress("begin", "downloading", "fetch")
DownloadMore == up = "up" /\ Progress("fetch", "downloading", "fetch")
Verify == up = "up" /\ Progress("fetch", "verifying", "verify")

\* The update has failed: it writes so and has the new state published.
WorkEnds(phase) ==
  /\ Writable
  /\ state' = Written(state, phase)
  /\ work' = [work EXCEPT !.at = "settle"]
  /\ UNCHANGED <<helper, job, due, timer, replies, cleaning,
                 world, workers, bounds, history>>

\* The publication is over and #operationPromise is cleared.
Settle ==
  /\ work.at = "settle"
  /\ work' = NoWork
  /\ UNCHANGED <<files, helper, job, due, timer, replies, cleaning,
                 world, workers, bounds, history>>

PrepareFails ==
  /\ up = "up" /\ work.at \in {"fetch", "verify"}
  /\ WorkEnds("download-failed") /\ UNCHANGED op

\* The release is prepared; the running launch is read before the state says
\* that it is being installed.
Prepared ==
  /\ up = "up" /\ work.at = "verify" /\ launch # 0
  /\ work' = [work EXCEPT !.at = "install", !.prev = launch]
  /\ UNCHANGED <<files, helper, job, due, timer, replies, cleaning,
                 world, workers, bounds, history>>

Install ==
  /\ Writable /\ work.at = "install"
  /\ state' = [Written(state, "installing") EXCEPT !.request = work.id]
  /\ work' = [work EXCEPT !.at = "record"]
  /\ UNCHANGED <<op, helper, job, due, timer, replies, cleaning,
                 world, workers, bounds, history>>

\* The operation record is written outside the queue.
Record ==
  /\ work.at = "record"
  /\ op' = [id |-> work.id, target |-> work.version, install |-> "pending",
            restart |-> "not-requested", prev |-> work.prev, expired |-> FALSE]
  /\ began' = [began EXCEPT ![work.id] = work.prev]
  /\ timer' = Armed
  /\ work' = [work EXCEPT !.at = "submit"]
  /\ UNCHANGED <<state, helper, job, due, replies, cleaning,
                 world, workers, bounds, upgraded, overlapped, dropped>>

Submit ==
  /\ work.at = "submit"
  /\ installer' = [installer EXCEPT ![work.id].at = "launched"]
  /\ work' = NoWork
  /\ UNCHANGED <<files, helper, job, due, timer, replies, cleaning,
                 world, restarter, bounds, history>>

InstallPreparationFails ==
  /\ up = "up" /\ work.at \in {"verify", "record", "submit"}
  /\ op' = IF work.at = "submit" THEN Completed(work.id, "failed") ELSE op
  /\ WorkEnds("update-failed")

\* The refused write is followed by the write of the failure, refused as well:
\* the rejection is nobody's to handle and ends the process.
WriteRefused ==
  /\ up = "up" /\ job = NoJob /\ state.latest = Unknown
  /\ work.at \notin {"none", "record", "submit", "settle"}
  /\ Down
  /\ UNCHANGED <<files, world, workers, bounds, history>>

\* stop() aborts the update: what fails or ends from now on writes nothing.
Aborted ==
  /\ up = "stopping"
  /\ \/ work.at \in {"fetch", "verify", "record", "submit"}
     \/ work.at \notin {"none", "settle"} /\ state.latest = Unknown
  /\ work' = NoWork
  /\ UNCHANGED <<files, helper, job, due, timer, replies, cleaning,
                 world, workers, bounds, history>>

\* stop() waits for the update, reconciles, and the process ends.
Stop ==
  /\ up = "stopping" /\ work = NoWork
  /\ Take("stop")
  /\ NeedsRecord => UNCHANGED due
  /\ UNCHANGED <<world, workers, bounds, history>>

-----------------------------------------------------------------------------
(* The continuation of restart-now: it works outside the queue.            *)

MarkRestartPending ==
  /\ up # "down"
  /\ \E a \in replies :
       /\ a.kind = "restart"
       /\ IF op.id = a.of /\ op.install = "succeeded"
          THEN /\ op' = IF op.restart = "pending" THEN op
                        ELSE [op EXCEPT !.restart = "pending", !.expired = FALSE]
               /\ timer' = Armed
               /\ replies' = (replies \ {a}) \cup {[a EXCEPT !.kind = "submit"]}
          ELSE /\ replies' = (replies \ {a}) \cup {[a EXCEPT !.kind = "unsubmitted"]}
               /\ UNCHANGED <<op, timer>>
  /\ UNCHANGED <<state, helper, job, due, work, cleaning,
                 world, workers, bounds, history>>

\* launchd refuses a second job with the label of one that still runs.
SubmitRestart ==
  /\ up # "down"
  /\ \E a \in replies :
       /\ a.kind = "submit"
       /\ \/ /\ restarter[a.of] = NoRestart
             /\ restarter' = [restarter EXCEPT ![a.of].at = "launched"]
             /\ replies' = replies \ {a}
          \/ /\ replies' = (replies \ {a}) \cup {[a EXCEPT !.kind = "unsubmitted"]}
             /\ UNCHANGED restarter
  /\ UNCHANGED <<files, helper, job, due, timer, work, cleaning,
                 world, installer, bounds, history>>

RestartUnsubmitted ==
  /\ up # "down"
  /\ \E a \in replies :
       /\ a.kind = "unsubmitted"
       /\ op' = RestartCompleted(a.of, "failed")
       /\ replies' = replies \ {a}
  /\ due' = IF due = "none" THEN "reconcile" ELSE due
  /\ UNCHANGED <<state, helper, job, timer, work, cleaning,
                 world, workers, bounds, history>>

-----------------------------------------------------------------------------
(* Activation and the cleanup after it.                                    *)

\* An attempt to complete the update, with the page of the running Codex.
Activate ==
  /\ up = "up" /\ launch # 0
  /\ state.phase \in {"restart-required", "restarting"}
  /\ Take("activate") /\ UNCHANGED due
  /\ UNCHANGED <<world, workers, bounds, history>>

CleanupRemove ==
  /\ cleaning
  /\ op' = NoOp /\ cleaning' = FALSE
  /\ UNCHANGED <<state, helper, job, due, timer, replies, work,
                 world, workers, bounds, history>>

-----------------------------------------------------------------------------
(* The install worker: a launchd job of its own, with the files in common. *)

InstallerAt(id, at) == installer[id].at = at
InstallerMoves(id, at) == installer' = [installer EXCEPT ![id].at = at]
InstallerLeaves(id, at) == installer' = [installer EXCEPT ![id] = [Idle EXCEPT !.at = at]]
OutsideHelper == <<helper, inside>>

Requested(id) ==
  op.id = id /\ state.phase = "installing" /\ state.latest = op.target /\ state.request = id

InstallerStarts(id) ==
  /\ InstallerAt(id, "launched")
  /\ installer' = [installer EXCEPT ![id] =
       IF Requested(id) THEN [at |-> "upgrading", version |-> op.target, from |-> program]
                        ELSE Idle]
  /\ UNCHANGED <<files, OutsideHelper, world, restarter, bounds, history>>

\* launchd stops the Helper and starts the release that the link then names.
HelperRestarts == up' = IF up = "up" THEN "stopping" ELSE up

AlreadyCurrent(version) == installed = version /\ program = version

\* The steps "switch-current" and "start-helper" of the upgrade.
UpgradeLinks(id) ==
  /\ InstallerAt(id, "upgrading") /\ ~AlreadyCurrent(installer[id].version)
  /\ program' = installer[id].version
  /\ InstallerMoves(id, "linked")
  /\ UNCHANGED <<files, OutsideHelper, installed, published, launch, launches,
                 restarter, bounds, history>>

UpgradeRestarts(id) ==
  /\ InstallerAt(id, "linked")
  /\ HelperRestarts
  /\ InstallerMoves(id, "switched")
  /\ UNCHANGED <<files, build, autoTried, inside, world, restarter, bounds, history>>

\* It waits for the new Helper and only then names the release installed.
UpgradeConfirms(id) ==
  /\ \/ InstallerAt(id, "switched") /\ up = "up" /\ build = installer[id].version
     \/ InstallerAt(id, "upgrading") /\ up = "up" /\ AlreadyCurrent(installer[id].version)
  /\ installed' = installer[id].version
  /\ InstallerLeaves(id, "succeeded")
  /\ upgraded' = upgraded \cup {id}
  /\ UNCHANGED <<files, OutsideHelper, program, published, launch, launches,
                 restarter, bounds, began, overlapped, dropped>>

\* rollback(): what was begun is undone in the reverse order, so the Helper is
\* started once more while the link still names the new release.
UpgradeUndoesRestart(id) ==
  /\ InstallerAt(id, "linked") \/ InstallerAt(id, "switched")
  /\ HelperRestarts
  /\ InstallerMoves(id, "undoing")
  /\ UNCHANGED <<files, build, autoTried, inside, world, restarter, bounds, history>>

UpgradeUndoesLink(id) ==
  /\ InstallerAt(id, "linked") \/ InstallerAt(id, "undoing")
  /\ program' = installer[id].from
  /\ InstallerLeaves(id, "failed")
  /\ UNCHANGED <<files, OutsideHelper, installed, published, launch, launches,
                 restarter, bounds, history>>

UpgradeFails(id) ==
  /\ InstallerAt(id, "upgrading")
  /\ InstallerLeaves(id, "failed")
  /\ UNCHANGED <<files, OutsideHelper, world, restarter, bounds, history>>

\* An upgrade that is killed at its timeout, one whose undoing fails and one
\* whose answer cannot be read leave the system as it is.
UpgradeBreaksOff(id) ==
  /\ installer[id].at \in {"linked", "switched", "undoing", "succeeded"}
  /\ crashes < MaxCrashes /\ crashes' = crashes + 1
  /\ InstallerLeaves(id, "failed")
  /\ UNCHANGED <<files, OutsideHelper, world, restarter, asked, used, history>>

\* finish(): a verdict is written and reported.  One that the record refuses or
\* whose write fails, landed or not, is followed by finish("failed"), once.
InstallerFinishes(id, verdict) ==
  LET GivesUp == InstallerLeaves(id, IF verdict = "succeeded" THEN "failed" ELSE "none")
  IN  /\ InstallerAt(id, verdict)
      /\ \/ /\ Answerable(id)
            /\ op' = Completed(id, verdict) /\ InstallerLeaves(id, "report")
            /\ UNCHANGED crashes
         \/ ~Answerable(id) /\ GivesUp /\ UNCHANGED <<op, crashes>>
         \/ /\ Answerable(id) /\ crashes < MaxCrashes /\ crashes' = crashes + 1
            /\ op' \in {op, Completed(id, verdict)} /\ GivesUp
      /\ UNCHANGED <<state, OutsideHelper, world, restarter, asked, used, history>>

\* update.worker-result: the verdict is in the record already; the Helper
\* reconciles, or refuses the report of an operation that is not current.
InstallerReports(id) ==
  /\ InstallerAt(id, "report")
  /\ InstallerLeaves(id, "none")
  /\ \/ Free /\ Requested(id) /\ Take("reconcile") /\ UNCHANGED due
     \/ (up = "down" \/ ~Requested(id)) /\ UNCHANGED <<files, OutsideHelper>>
  /\ UNCHANGED <<world, restarter, bounds, history>>

-----------------------------------------------------------------------------
(* The restart worker.                                                     *)

RestarterAt(id, at) == restarter[id].at = at
RestarterMoves(id, at) == restarter' = [restarter EXCEPT ![id].at = at]

\* Mutant: whatever Codex runs is closed.
RestarterStartsOnAny(id) ==
  /\ RestarterAt(id, "launched")
  /\ restarter' = [restarter EXCEPT ![id] =
       IF op.id = id /\ op.install = "succeeded" /\ state.phase = "restarting" /\ launch # 0
       THEN [at |-> "closing", launch |-> launch] ELSE NoRestart]
  /\ UNCHANGED <<files, OutsideHelper, world, installer, bounds, history>>

RestarterStarts(id) ==
  /\ RestarterAt(id, "launched")
  /\ restarter' = [restarter EXCEPT ![id] =
       CASE op.id # id \/ op.install # "succeeded" -> NoRestart
         [] /\ op.id = id /\ op.install = "succeeded"
            /\ state.phase = "restarting" /\ state.latest = op.target
            /\ Verified(op) /\ launch = op.prev -> [at |-> "closing", launch |-> launch]
         [] OTHER -> [@ EXCEPT !.at = "failed"]]
  /\ UNCHANGED <<files, OutsideHelper, world, installer, bounds, history>>

\* The process that was read is closed, if it still runs and holds its port,
\* and Codex is opened again; a failure may leave it closed.
RestarterRelaunches(id) ==
  /\ RestarterAt(id, "closing")
  /\ \/ /\ launch = restarter[id].launch
        /\ \/ /\ launches < MaxLaunch /\ launches' = launches + 1 /\ launch' = launches + 1
              /\ RestarterMoves(id, "opened")
           \/ launch' = 0 /\ UNCHANGED launches /\ RestarterMoves(id, "failed")
     \/ /\ launch # restarter[id].launch
        /\ RestarterMoves(id, "failed")
        /\ UNCHANGED <<launch, launches>>
  /\ UNCHANGED <<files, OutsideHelper, program, installed, published,
                 installer, bounds, upgraded, began, overlapped, dropped>>

RestarterFinishes(id) ==
  \/ /\ RestarterAt(id, "opened")
     /\ op' = RestartCompleted(id, "launched")
     /\ RestarterMoves(id, IF op.id = id /\ op.restart = "pending" THEN "report" ELSE "failed")
     /\ UNCHANGED <<state, OutsideHelper, world, installer, bounds, history>>
  \/ /\ RestarterAt(id, "failed")
     /\ op' = RestartCompleted(id, "failed")
     /\ RestarterMoves(id, "report")
     /\ UNCHANGED <<state, OutsideHelper, world, installer, bounds, history>>

\* update.restart-result: the Helper reconciles when the operation is current.
RestarterReports(id) ==
  /\ RestarterAt(id, "report")
  /\ restarter' = [restarter EXCEPT ![id] = NoRestart]
  /\ LET current == op.id = id /\ state.phase = "restarting" /\ state.latest = op.target
     IN \/ Free /\ current /\ Take("reconcile") /\ UNCHANGED due
        \/ (up = "down" \/ ~current) /\ UNCHANGED <<files, OutsideHelper>>
  /\ UNCHANGED <<world, installer, bounds, history>>

-----------------------------------------------------------------------------
(* The surroundings.                                                       *)

Publish ==
  /\ published < MaxVersion /\ published' = published + 1
  /\ UNCHANGED <<files, OutsideHelper, program, installed, launch, launches,
                 workers, bounds, history>>

\* The user opens Codex anew; its startup handoff makes the Helper reconcile.
CodexOpens ==
  /\ launches < MaxLaunch
  /\ launches' = launches + 1 /\ launch' = launches + 1
  /\ due' = IF up = "up" /\ due = "none" THEN "reconcile" ELSE due
  /\ UNCHANGED <<files, helper, job, timer, replies, work, cleaning,
                 program, installed, published, workers, bounds, history>>

\* The lease of the worker that is waited for runs out; it outlasts the file
\* write and the launchctl call between the record and the worker's start.
Expire ==
  /\ work.at # "submit"
  /\ op # NoOp /\ ~op.expired /\ Awaited(op)
  /\ op' = [op EXCEPT !.expired = TRUE]
  /\ UNCHANGED <<state, OutsideHelper, world, workers, bounds, history>>

HelperCrash ==
  /\ up # "down" /\ crashes < MaxCrashes /\ crashes' = crashes + 1
  /\ Down
  /\ UNCHANGED <<files, world, workers, asked, used, history>>

WorkerCrash(id) ==
  /\ crashes < MaxCrashes /\ crashes' = crashes + 1
  /\ \/ installer[id].at # "none" /\ InstallerLeaves(id, "none") /\ UNCHANGED restarter
     \/ /\ restarter[id] # NoRestart /\ UNCHANGED installer
        /\ restarter' = [restarter EXCEPT ![id] = NoRestart]
  /\ UNCHANGED <<files, OutsideHelper, world, asked, used, history>>

-----------------------------------------------------------------------------
Coordinator ==
  \/ RunDue \/ Finish \/ TimerFires \/ Stop
  \/ \E answered \in BOOLEAN : CheckEnds(answered)
  \/ AfterStart \/ MarkRestartPending \/ SubmitRestart \/ RestartUnsubmitted

Background ==
  \/ Download \/ Verify \/ Prepared \/ PrepareFails \/ Install
  \/ Record \/ Submit \/ InstallPreparationFails \/ WriteRefused \/ Aborted \/ Settle

Worker(id) ==
  \/ InstallerStarts(id) \/ UpgradeLinks(id) \/ UpgradeRestarts(id) \/ UpgradeConfirms(id)
  \/ UpgradeUndoesRestart(id) \/ UpgradeUndoesLink(id) \/ UpgradeFails(id)
  \/ UpgradeBreaksOff(id)
  \/ \E verdict \in {"succeeded", "failed"} : InstallerFinishes(id, verdict)
  \/ InstallerReports(id)
  \/ RestarterStarts(id) \/ RestarterRelaunches(id) \/ RestarterFinishes(id)
  \/ RestarterReports(id)

Next ==
  \/ Boot \/ Coordinator \/ Background \/ DownloadMore
  \/ \E intent \in Intents : Ask(intent)
  \/ AutoCheck \/ Activate \/ CleanupRemove
  \/ \E id \in Ids : Worker(id) \/ WorkerCrash(id)
  \/ Publish \/ CodexOpens \/ Expire \/ HelperCrash

\* launchd keeps the Helper alive (KeepAlive); a job, a continuation and a
\* step of the background update are promises that settle, the network calls
\* in them have timeouts; timers fire and time passes.  Nothing is assumed of
\* the workers, of Codex or of the user.
Fairness ==
  /\ WF_vars(Boot) /\ WF_vars(Expire)
  /\ WF_vars(RunDue) /\ WF_vars(Finish) /\ WF_vars(TimerFires) /\ WF_vars(Stop)
  /\ WF_vars(\E answered \in BOOLEAN : CheckEnds(answered))
  /\ WF_vars(AfterStart) /\ WF_vars(MarkRestartPending)
  /\ WF_vars(SubmitRestart) /\ WF_vars(RestartUnsubmitted)
  /\ WF_vars(Background)

Spec == Init /\ [][Next]_vars /\ Fairness

-----------------------------------------------------------------------------
(* Properties.                                                             *)

States == [phase : Phases, current : Versions, latest : Versions \cup {Unknown},
           request : Ids \cup {NoId}]
Operations == [id : Ids \cup {NoId}, target : Versions \cup {Unknown},
               install : {"pending", "succeeded", "failed"},
               restart : {"not-requested", "pending", "launched", "failed"},
               prev : 0 .. MaxLaunch, expired : BOOLEAN]
Jobs == [intent : Intents \cup {"none", "initialize", "reconcile", "activate", "stop"},
         read : Operations]
Works == [id : Ids \cup {NoId}, version : Versions \cup {Unknown}, prev : 0 .. MaxLaunch,
          at : {"none", "begin", "fetch", "verify", "install", "record", "submit", "settle"}]
Replies == [kind : {"check"}, n : {0}, of : {NoId}]
           \cup [kind : {"start"}, n : 0 .. MaxRequests, of : Versions]
           \cup [kind : {"restart", "submit", "unsubmitted"}, n : 0 .. MaxRequests, of : Ids]
Installers == [at : {"none", "launched", "upgrading", "linked", "switched", "undoing",
                     "succeeded", "failed", "report"},
               version : Versions \cup {Unknown}, from : Versions \cup {Unknown}]
Restarters == [at : {"none", "launched", "closing", "opened", "failed", "report"},
               launch : 0 .. MaxLaunch]

\* The variables stay in their types; an update in progress always names the
\* release it is for (the superRefine of GoalProgressUpdateStateSchema).
TypeOK ==
  /\ state \in States
  /\ state.phase \in Active \cup {"available", "download-failed", "update-failed"}
       => state.latest # Unknown
  /\ op \in Operations /\ job \in Jobs /\ work \in Works /\ replies \subseteq Replies
  /\ installer \in [Ids -> Installers] /\ restarter \in [Ids -> Restarters]
  /\ {program, installed, published, build} \subseteq Versions
  /\ launch \in 0 .. MaxLaunch /\ launches \in 1 .. MaxLaunch
  /\ up \in {"down", "up", "stopping"} /\ due \in {"none", "initialize", "reconcile"}
  /\ {timer, autoTried, cleaning, overlapped, dropped} \subseteq BOOLEAN
  /\ used \in 0 .. MaxOperations /\ asked \in 0 .. MaxRequests /\ crashes \in 0 .. MaxCrashes
  /\ upgraded \subseteq Ids /\ began \in [Ids -> 0 .. MaxLaunch]

\* An update in progress always has something in the process that will move
\* it: the update itself, the continuation that starts it, or the deadline
\* timer, as long as no check was answered into it.  One start is left alone: a
\* retry accepted while the failed update before it is still being published is
\* dropped, and "preparing" stays until something else reconciles.
\* (#reconcileState, #startBackgroundUpdate, #scheduleDeadlineReconcile)
EveryUpdateIsDriven ==
  up = "up" /\ due = "none" /\ job = NoJob /\ ~overlapped =>
    /\ state.phase \in {"downloading", "verifying"} => work # NoWork
    /\ state.phase = "preparing" =>
         work # NoWork \/ dropped \/ \E a \in replies : a.kind = "start"
    /\ state.phase = "installing" => work # NoWork \/ timer

\* A restart worker closes only the Codex under which its own update began,
\* however late it comes and whatever the record says by then: one the user has
\* opened since is left alone.  (executeUpdateRestartHandoff)
NewCodexIsLeftAlone ==
  [][\A id \in Ids : RestarterAt(id, "closing") /\ restarter'[id] # restarter[id]
                       /\ launch' # launch => launch = began[id]]_vars

\* An operation is recorded as installed only if its own worker installed it;
\* the late answer of a superseded worker decides nothing.  (complete)
VerdictIsItsOwn == op.install = "succeeded" => op.id \in upgraded

\* The update is declared complete only in a Codex that was opened after the
\* update began, by a Helper of the installed release, or by the answer to a
\* check.  (completeActivation, evaluateGoalProgressUpdateActivation)
ActivationIsEarned ==
  [][ (state.phase \in {"restart-required", "restarting"} /\ state'.phase = "up-to-date"
         /\ ~overlapped')
        => (op.prev < launches /\ build = state'.current /\ installed = build) ]_vars

\* A download and an installation come to an end, across crashes, stops and
\* lost workers: the user is not left with an update that is only waited for,
\* but for the retry that is dropped while the update before it is put away.
\* (initialize, #startBackgroundUpdate, the deadline of the operation record)
UpdateEnds ==
  []~overlapped => ((state.phase \in Underway \cup {"installing"})
                      ~> (state.phase \notin Underway \cup {"installing"} \/ dropped))

\* A restart that is asked for is launched or given back to the user, as long
\* as two requests for it do not overlap.  (the deadline markRestartPending sets)
RestartEnds ==
  [](Cardinality({a \in replies : a.kind \in {"restart", "submit", "unsubmitted"}}) <= 1)
    => ((state.phase = "restarting" /\ op.restart # "launched")
          ~> (state.phase # "restarting" \/ op.restart = "launched"))
=============================================================================
