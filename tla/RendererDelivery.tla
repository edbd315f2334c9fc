-------------------------- MODULE RendererDelivery --------------------------
(***************************************************************************)
(* How a view reaches the window of Codex (host/src/view-model-publisher.ts,*)
(* renderer-target-manager.ts, codex-adapter/src/renderer-bridge.ts and the *)
(* renderer handlers of host/src/index.ts).  The page tells which thread it *)
(* shows, by reports that overtake each other; the Helper turns the window  *)
(* to that thread and publishes its view again.  Three queues wait for one  *)
(* another: the publisher's, the target manager's and the bridge's.  One    *)
(* window; GoalSession says what is published.                              *)
(***************************************************************************)
EXTENDS Naturals, FiniteSets, Sequences

CONSTANTS Threads,
          NoThread,   \* the page shows no thread that can be named
          Routes,     \* what the page may show
          MaxRevision,
          Starts,     \* the thread that is shown at the start, and the phases of all
          Moves,      \* how often the user goes elsewhere or the page reloads
          Changes,    \* how often a handler publishes something new
          Clicks,     \* how often the user closes the card
          Faults,     \* failures of the connection
          Events,     \* how many of these a behaviour has
          Connects,   \* how often the window is connected again
          Backlog     \* what may be under way when the next of them happens

ASSUME DeliveryAssumption ==
  /\ NoThread \notin Threads /\ Routes \subseteq Threads \cup {NoThread} /\ Routes # {}
  /\ MaxRevision \in Nat \ {0}
  /\ Starts \subseteq [route : Routes, phase : [Threads -> {"preparing", "active"}]]
  /\ {Moves, Changes, Clicks, Faults, Events, Connects, Backlog} \subseteq Nat

VARIABLES
  stored,      \* what the handlers keep of a thread: its revision and phase
  pendingUi,   \* #pendingUiDelivery
  drain,       \* the drain loop of #publishVerified
  restores,    \* threads that a visible-thread handler is about to resume
  queue,       \* #queue of the publisher; the head is being carried out
  snapshots,   \* #threadSnapshots
  entry,       \* #targetDelivery of the window
  order,       \* #visibleThreadOrderByTarget of the window
  target,      \* the window in the manager
  bridge,      \* its bridge
  intent,      \* the UI intent that the bridge's queue is waiting for
  reports, notices,       \* requests of the bridge on their way to the Helper
  route, config, watcher, \* the page: the thread, the view configured, the watcher
  loading,     \* a load event is on its way
  lives,       \* the lifecycle ids given out
  renewed,     \* history: the window was connected again
  overtaken,   \* history: a report was taken after one of a later lifecycle
  shut,        \* history: threads whose card the user closed
  budget

helper == <<stored, pendingUi, drain, restores>>
publisher == <<queue, snapshots, entry>>
page   == <<route, config, watcher, loading>>
wire   == <<reports, notices>>
past   == <<renewed, overtaken, shut>>
vars   == <<helper, publisher, order, target, bridge, intent, wire, page, lives, past, budget>>

-----------------------------------------------------------------------------
(* Views, queue items, and the state of each part                          *)

CardPhases == {"preparing", "active", "detached"}
Views  == [thread : Threads, revision : 0..MaxRevision, phase : CardPhases \cup {"completed"}]
NoView == [thread |-> NoThread, revision |-> 0, phase |-> "none"]

\* Mutant: the view counts the command that is expected next.
NextView(t, s) == [thread |-> t, revision |-> s.revision + 1, phase |-> s.phase]

View(t, s) == [thread |-> t, revision |-> s.revision, phase |-> s.phase]

\* A preparation has a contract id of its own.
SameContract(v, w) == v.thread = w.thread /\ (v.phase = "preparing" <=> w.phase = "preparing")

Item(op, from, t, v) == [op |-> op, from |-> from, thread |-> t, view |-> v]

NoIntent == [at |-> "none", view |-> NoView]
NoEntry  == [known |-> FALSE, thread |-> NoThread, delivered |-> NoView]
NoOrder  == [life |-> 0, sequence |-> 0, retired |-> {}]
NoTarget == [at |-> "absent", thread |-> NoThread]
NoBridge == [up |-> FALSE, first |-> 0, life |-> 0, latest |-> NoView]

\* Mutant: the record of what was delivered outlives the turn to another thread.
EntryKept(t) == [entry EXCEPT !.known = TRUE, !.thread = t]

EntryFor(t) == [known |-> TRUE, thread |-> t, delivered |-> NoView]

\* ViewModelPublisher.hasTarget.
HasTarget == target.at # "absent" \/ entry.known

\* The page shows a view only under the thread it belongs to (page-host.ts).
Shown == IF config.thread = route THEN config ELSE NoView

\* Whether a mount or an update of v finds its place.  Without a thread the page
\* may keep the card for a while.
Fits(v) == IF route = NoThread THEN BOOLEAN ELSE {v.thread = route}

\* The manager's queue is free, and so is the bridge's.
ManagerFree == target.at \in {"absent", "ready"}
BridgeFree  == intent.at = "none"

\* What a signal of the page becomes: the bridge passes on those of its lifecycle.
Signal(thread, sequence, life) ==
  IF bridge.up /\ life = bridge.life
  THEN {[thread |-> thread, sequence |-> sequence, life |-> life]} ELSE {}

Spend(which) ==
  /\ budget[which] > 0 /\ budget.events > 0
  /\ Cardinality(reports) + Len(queue) <= Backlog
  /\ budget' = [budget EXCEPT ![which] = @ - 1, !.events = @ - 1]

-----------------------------------------------------------------------------
(* renderer.visible-thread and renderer.disconnected (host/src/index.ts)    *)

\* The order of the window as a report finds it, and as it leaves it.
Renewed(r) ==
  IF order.life = 0 THEN [NoOrder EXCEPT !.life = r.life]
  ELSE IF r.life = order.life THEN order
  ELSE [life |-> r.life, sequence |-> 0, retired |-> order.retired \cup {order.life}]

Retired(r) == order.life # 0 /\ r.life # order.life /\ r.life \in order.retired
Outdated(r) == r.sequence # 0 /\ r.sequence <= Renewed(r).sequence

ReportArrives ==
  \E r \in reports :
    /\ reports' = reports \ {r}
    /\ IF ~HasTarget \/ Retired(r) THEN UNCHANGED <<order, queue>>
       ELSE IF Outdated(r) THEN order' = Renewed(r) /\ UNCHANGED queue
       ELSE /\ order' = [Renewed(r) EXCEPT !.sequence = IF r.sequence = 0 THEN @ ELSE r.sequence]
            /\ queue' = Append(queue, Item("recover", "report", r.thread, NoView))
    /\ overtaken' = (overtaken \/ (order' # order /\ r.life < order.life))
    /\ UNCHANGED <<helper, snapshots, entry, target, bridge, intent, notices, page, lives, renewed,
                   shut, budget>>

NoticeArrives ==
  /\ notices > 0 /\ notices' = notices - 1
  /\ IF HasTarget
     THEN order' = NoOrder /\ queue' = Append(queue, Item("disconnect", "notice", NoThread, NoView))
     ELSE UNCHANGED <<order, queue>>
  /\ UNCHANGED <<helper, snapshots, entry, target, bridge, intent, reports, page, lives, past,
                 budget>>

\* #restoreVisibleThread: only a thread that is tracked is published again.
Restore ==
  \E t \in restores :
    /\ restores' = restores \ {t}
    /\ pendingUi' = IF stored[t].phase = "active"
                    THEN [pendingUi EXCEPT ![t] = View(t, stored[t])] ELSE pendingUi
    /\ UNCHANGED <<stored, drain, publisher, order, target, bridge, intent, wire, page, lives,
                   past, budget>>

-----------------------------------------------------------------------------
(* The drain loop (#publishVerified, #deliverVerified)                     *)

DrainTake ==
  /\ drain.at = "idle"
  /\ \E t \in Threads :
       LET v == pendingUi[t]
       IN  /\ v # NoView
           /\ pendingUi' = [pendingUi EXCEPT ![t] = NoView]
           /\ \/ /\ v.phase = "completed"
                 /\ queue' = Append(queue, Item("clear", "drain", t, NoView))
                 /\ drain' = [at |-> "waiting", view |-> NoView]
              \/ /\ v.phase # "completed" /\ entry.known /\ entry.thread = t
                 /\ drain' = [at |-> "preferences", view |-> v] /\ UNCHANGED queue
              \/ /\ v.phase # "completed" /\ ~(entry.known /\ entry.thread = t)
                 /\ UNCHANGED <<drain, queue>>
  /\ UNCHANGED <<stored, restores, snapshots, entry, order, target, bridge, intent, wire, page,
                 lives, past, budget>>

DrainPublish ==
  /\ drain.at = "preferences"
  /\ queue' = Append(queue, Item("publish", "drain", drain.view.thread, drain.view))
  /\ drain' = [at |-> "waiting", view |-> NoView]
  /\ UNCHANGED <<stored, pendingUi, restores, snapshots, entry, order, target, bridge, intent,
                 wire, page, lives, past, budget>>

-----------------------------------------------------------------------------
(* The publisher's queue.  An item that is done lets its handler go on.      *)

Head1(op) == queue # <<>> /\ Head(queue).op = op

Done(item) ==
  /\ queue' = Tail(queue)
  /\ restores' = IF item.from = "report" /\ item.thread # NoThread
                 THEN restores \cup {item.thread} ELSE restores
  /\ drain' = IF item.from = "drain" THEN [at |-> "idle", view |-> NoView] ELSE drain

\* An item that ends with an error: the visible-thread handler ends with it.
Failed(item) ==
  /\ queue' = Tail(queue)
  /\ drain' = IF item.from = "drain" THEN [at |-> "idle", view |-> NoView] ELSE drain
  /\ UNCHANGED restores

\* Mutant: the handler believes the report instead of looking at the page.
ObservedInReport(item) == item.thread

\* recoverTargetThreadId; the thread of the report if the page names none.
Observed(item) ==
  IF target.at = "ready" /\ bridge.up /\ route # NoThread THEN route ELSE item.thread

RunRecover ==
  /\ Head1("recover") /\ ManagerFree /\ BridgeFree
  /\ queue' = Append(Tail(queue), Item("activate", "report", Observed(Head(queue)), NoView))
  /\ UNCHANGED <<helper, snapshots, entry, order, target, bridge, intent, wire, page, lives, past,
                 budget>>

ClearPage == config' = NoView /\ bridge' = [bridge EXCEPT !.latest = NoView]

\* The window is turned: the entry is new, and what is known is delivered.
Follow(item) ==
  LET v == IF item.thread = NoThread THEN NoView ELSE snapshots[item.thread]
  IN  /\ entry' = EntryFor(item.thread)
      /\ IF v = NoView THEN Done(item)
         ELSE /\ queue' = <<Item("deliver", "report", item.thread, v)>> \o Tail(queue)
              /\ UNCHANGED <<restores, drain>>

RunActivate ==
  LET item == Head(queue)
      same == entry.known /\ entry.thread = item.thread
  IN  /\ Head1("activate") /\ ManagerFree
      /\ \/ /\ same /\ Done(item) /\ UNCHANGED <<entry, target, bridge, config>>
         \/ /\ ~same /\ target.at = "absent" /\ Failed(item)
            /\ UNCHANGED <<entry, target, bridge, config>>
         \/ /\ ~same /\ target.at = "ready" /\ target.thread = item.thread /\ Follow(item)
            /\ UNCHANGED <<target, bridge, config>>
         \/ /\ ~same /\ target.at = "ready" /\ target.thread # item.thread /\ BridgeFree
            /\ target' = [target EXCEPT !.thread = item.thread]
            /\ IF bridge.up THEN ClearPage /\ Follow(item)
               ELSE Failed(item) /\ UNCHANGED <<entry, bridge, config>>
      /\ UNCHANGED <<stored, pendingUi, snapshots, order, intent, wire, route, watcher, loading,
                     lives, past, budget>>

\* #destroyTarget: the bridge waits for its queue and closes.
Destroy == target' = NoTarget /\ bridge' = NoBridge /\ loading' = FALSE

\* #deliverTarget and publishTarget.  A page that refuses the view costs the
\* window its connection.
Deliver(v) ==
  LET void == entry' = [entry EXCEPT !.delivered = NoView]
  IN  \/ entry.delivered = v /\ UNCHANGED <<entry, target, bridge, config, loading>>
      \/ /\ entry.delivered # v
         /\ target.at = "absent" \/ (target.at = "ready" /\ target.thread # v.thread)
         /\ void /\ UNCHANGED <<target, bridge, config, loading>>
      \/ /\ entry.delivered # v
         /\ target.at = "ready" /\ target.thread = v.thread /\ BridgeFree
         /\ IF bridge.up
            THEN /\ config' = v
                 /\ \E fits \in Fits(v) :
                      IF fits THEN /\ bridge' = [bridge EXCEPT !.latest = v]
                                   /\ entry' = [entry EXCEPT !.delivered = v]
                                   /\ UNCHANGED <<target, loading>>
                      ELSE void /\ Destroy
            ELSE void /\ Destroy /\ UNCHANGED config

\* The rest of activateTarget.
RunDeliver ==
  /\ Head1("deliver")
  /\ Deliver(Head(queue).view) /\ Done(Head(queue))
  /\ UNCHANGED <<stored, pendingUi, snapshots, order, intent, wire, route, watcher, lives, past,
                 budget>>

RunPublish ==
  LET item == Head(queue)
  IN  /\ Head1("publish")
      /\ snapshots' = [snapshots EXCEPT ![item.thread] = item.view]
      /\ IF entry.known /\ entry.thread = item.thread THEN Deliver(item.view)
         ELSE UNCHANGED <<entry, target, bridge, config, loading>>
      /\ Done(item)
      /\ UNCHANGED <<stored, pendingUi, order, intent, wire, route, watcher, lives, past, budget>>

RunClear ==
  LET item == Head(queue)
      mine == entry.known /\ entry.thread = item.thread
  IN  /\ Head1("clear")
      /\ snapshots' = [snapshots EXCEPT ![item.thread] = NoView]
      /\ \/ /\ ~mine /\ Done(item)
            /\ intent' = IF item.from = "intent" /\ intent.at = "clearing"
                         THEN [intent EXCEPT !.at = "answer"] ELSE intent
            /\ UNCHANGED <<entry, bridge, config>>
         \/ /\ mine /\ target.at = "absent" /\ Failed(item)
            /\ intent' = IF item.from = "intent" THEN NoIntent ELSE intent
            /\ UNCHANGED <<entry, bridge, config>>
         \/ /\ mine /\ target.at = "ready" /\ BridgeFree /\ UNCHANGED intent
            /\ IF bridge.up
               THEN ClearPage /\ entry' = [entry EXCEPT !.delivered = NoView] /\ Done(item)
               ELSE Failed(item) /\ UNCHANGED <<entry, bridge, config>>
      /\ UNCHANGED <<stored, pendingUi, order, target, wire, route, watcher, loading, lives, past,
                     budget>>

RunDisconnect ==
  LET item == Head(queue)
  IN  /\ Head1("disconnect") /\ ManagerFree
      /\ entry' = NoEntry
      /\ \/ target.at = "absent" /\ UNCHANGED <<target, bridge, loading>>
         \/ target.at = "ready" /\ BridgeFree /\ Destroy
      /\ Done(item)
      /\ UNCHANGED <<stored, pendingUi, snapshots, order, intent, wire, route, config, watcher,
                     lives, past, budget>>

-----------------------------------------------------------------------------
(* UI intents: the bridge's queue waits for the Helper's answer             *)

Closed(t) == [stored EXCEPT ![t].phase = IF @ = "preparing" THEN "dismissed" ELSE "detached"]

\* The user closes the card.  A preparation is cleared by the handler before it
\* answers; a contract is detached, and the answer shows that.
Click ==
  /\ Spend("clicks")
  /\ BridgeFree /\ bridge.up /\ Shown = bridge.latest /\ Shown.phase \in {"preparing", "active"}
  /\ LET t == Shown.thread
     IN  /\ stored' = Closed(t)
         /\ shut' = shut \cup {t}
         /\ IF stored[t].phase = "preparing"
            THEN /\ intent' = [at |-> "clearing", view |-> Shown]
                 /\ queue' = Append(queue, Item("clear", "intent", t, NoView))
            ELSE /\ intent' = [at |-> "answer", view |-> View(t, stored'[t])]
                 /\ UNCHANGED queue
  /\ UNCHANGED <<pendingUi, drain, restores, snapshots, entry, order, target, bridge, wire, page,
                 lives, renewed, overtaken>>

\* The rest of #handleUiIntent.
Answer ==
  LET v == IF intent.view.phase = "preparing" THEN NoView ELSE intent.view
  IN  /\ intent.at = "answer" /\ intent' = NoIntent
      /\ IF bridge.up /\ SameContract(intent.view, bridge.latest)
         THEN bridge' = [bridge EXCEPT !.latest = v] /\ config' = v
         ELSE UNCHANGED <<bridge, config>>
      /\ UNCHANGED <<helper, publisher, order, target, wire, route, watcher, loading, lives, past,
                     budget>>

\* Mutant: the client of the bridge waits as long as it takes.
WaitsForever == FALSE

\* The IPC client of the bridge gives up after five seconds.
GivesUp == intent.at = "clearing"

Timeout ==
  /\ GivesUp /\ intent' = NoIntent
  /\ UNCHANGED <<helper, publisher, order, target, bridge, wire, page, lives, past, budget>>

-----------------------------------------------------------------------------
(* The page, the connection, and the handlers that publish                  *)

Navigate ==
  /\ Spend("moves")
  /\ \E r \in Routes \ {route} :
       /\ route' = r
       /\ watcher' = [watcher EXCEPT !.sequence = @ + 1]
       /\ reports' = reports \cup Signal(r, watcher'.sequence, watcher.life)
  /\ UNCHANGED <<helper, publisher, order, target, bridge, intent, notices, config, loading,
                 lives, past>>

\* A new document runs the script that was registered first.
Reload ==
  /\ Spend("moves") /\ bridge.up /\ ~loading
  /\ config' = NoView /\ loading' = TRUE
  /\ watcher' = [life |-> bridge.first, sequence |-> 1]
  /\ reports' = reports \cup Signal(route, 1, bridge.first)
  /\ UNCHANGED <<helper, publisher, order, target, bridge, intent, notices, route, lives, past>>

\* Page.loadEventFired: a new watcher, the latest view again, and a report
\* without a number unless the mount failed.
Load ==
  LET v == bridge.latest
      numbered(n) == [thread |-> route, sequence |-> n, life |-> lives + 1]
  IN  /\ loading /\ bridge.up /\ BridgeFree
      /\ loading' = FALSE /\ lives' = lives + 1
      /\ bridge' = [bridge EXCEPT !.life = lives + 1]
      /\ watcher' = [life |-> lives + 1, sequence |-> 1]
      /\ config' = IF v = NoView THEN config ELSE v
      /\ reports' = reports \cup {numbered(1)}
                      \cup {numbered(0) : ok \in {v = NoView \/ v.thread = route} \ {FALSE}}
      /\ UNCHANGED <<helper, publisher, order, target, intent, notices, route, past, budget>>

\* The page's transport fails and says so, or the browser's does and the manager
\* gives up its windows.
Fail ==
  /\ Spend("faults") /\ target.at = "ready" /\ bridge.up
  /\ notices' = notices + 1 /\ loading' = FALSE
  /\ \/ bridge' = [bridge EXCEPT !.up = FALSE] /\ UNCHANGED target
     \/ BridgeFree /\ target' = NoTarget /\ bridge' = NoBridge
  /\ UNCHANGED <<helper, publisher, order, intent, reports, route, config, watcher, lives, past>>

\* Codex reports the window: #connectTarget, in three steps.
Connect ==
  /\ Spend("connects") /\ target.at = "absent"
  /\ target' = [at |-> "opening", thread |-> NoThread]
  /\ UNCHANGED <<helper, publisher, order, bridge, intent, wire, page, lives, past>>

ConnectOpen ==
  LET life == lives + 1
  IN  /\ target.at = "opening"
      /\ target' = [target EXCEPT !.at = "reading"]
      /\ bridge' = [up |-> TRUE, first |-> life, life |-> life, latest |-> NoView]
      /\ config' = NoView /\ lives' = life /\ renewed' = TRUE
      /\ watcher' = [life |-> life, sequence |-> 1]
      /\ reports' = reports \cup {[thread |-> route, sequence |-> 1, life |-> life]}
      /\ UNCHANGED <<helper, publisher, order, intent, notices, route, loading, overtaken,
                     shut, budget>>

ConnectRead ==
  /\ target.at = "reading"
  /\ target' = [at |-> "ready", thread |-> route]
  /\ reports' = reports \cup {[thread |-> route, sequence |-> 0, life |-> bridge.life]}
  /\ UNCHANGED <<helper, publisher, order, bridge, intent, notices, page, lives, past, budget>>

\* What the other handlers publish: a contract that is initialized or updated,
\* that is completed, or that the user takes up again.
Successors(s) ==
  CASE s.phase = "preparing" -> {[revision |-> 1, phase |-> "active"]}
    [] s.phase = "active"    -> {[s EXCEPT !.revision = @ + 1], [s EXCEPT !.phase = "completed"]}
    [] s.phase = "detached"  -> {[s EXCEPT !.phase = "active"]}
    [] OTHER                 -> {}

Change ==
  /\ Spend("changes")
  /\ \E t \in Threads : \E s \in Successors(stored[t]) :
       /\ s.revision <= MaxRevision
       /\ stored' = [stored EXCEPT ![t] = s]
       /\ pendingUi' = [pendingUi EXCEPT ![t] = View(t, s)]
  /\ UNCHANGED <<drain, restores, publisher, order, target, bridge, intent, wire, page, lives,
                 past>>

-----------------------------------------------------------------------------
\* The Helper has found the window and shown the thread in it.
Init ==
  /\ \E s \in Starts :
       /\ route = s.route
       /\ stored = [t \in Threads |-> [revision |-> IF s.phase[t] = "active" THEN 1 ELSE 0,
                                       phase    |-> s.phase[t]]]
  /\ LET v == IF route # NoThread THEN View(route, stored[route]) ELSE NoView
     IN  /\ config = v
         /\ snapshots = [t \in Threads |-> IF t = route THEN v ELSE NoView]
         /\ entry = [known |-> TRUE, thread |-> route, delivered |-> v]
         /\ bridge = [up |-> TRUE, first |-> 1, life |-> 1, latest |-> v]
  /\ pendingUi = [t \in Threads |-> NoView]
  /\ drain = [at |-> "idle", view |-> NoView] /\ restores = {} /\ queue = <<>>
  /\ order = [life |-> 1, sequence |-> 1, retired |-> {}]
  /\ target = [at |-> "ready", thread |-> route]
  /\ intent = NoIntent /\ reports = {} /\ notices = 0
  /\ watcher = [life |-> 1, sequence |-> 1] /\ loading = FALSE /\ lives = 1
  /\ renewed = FALSE /\ overtaken = FALSE /\ shut = {}
  /\ budget = [moves |-> Moves, changes |-> Changes, clicks |-> Clicks, faults |-> Faults,
               events |-> Events, connects |-> Connects]

\* What the Helper and its bridge do by themselves.
Work ==
  \/ ReportArrives \/ NoticeArrives \/ Restore \/ DrainTake \/ DrainPublish
  \/ RunRecover \/ RunActivate \/ RunPublish \/ RunDeliver \/ RunClear \/ RunDisconnect
  \/ Answer \/ Timeout \/ Load \/ ConnectOpen \/ ConnectRead

Next == Work \/ Click \/ Navigate \/ Reload \/ Fail \/ Connect \/ Change

\* Requests, CDP calls and timers end; what the user and Codex do is not promised.
Spec == Init /\ [][Next]_vars /\ WF_vars(Work)

-----------------------------------------------------------------------------
(* Properties                                                              *)

AtRest ==
  /\ reports = {} /\ notices = 0 /\ queue = <<>> /\ restores = {} /\ drain.at = "idle"
  /\ \A t \in Threads : pendingUi[t] = NoView
  /\ BridgeFree /\ ManagerFree /\ ~loading

Connected == target.at = "ready" /\ bridge.up

Items == [op : {"recover", "activate", "publish", "deliver", "clear", "disconnect"},
          from : {"report", "drain", "intent", "notice"}, thread : Threads \cup {NoThread},
          view : Views \cup {NoView}]

\* The variables have their types.
TypeOK ==
  /\ stored \in [Threads -> [revision : 0..MaxRevision,
                             phase : CardPhases \cup {"completed", "dismissed"}]]
  /\ pendingUi \in [Threads -> Views \cup {NoView}]
  /\ drain \in [at : {"idle", "preferences", "waiting"}, view : Views \cup {NoView}]
  /\ restores \subseteq Threads /\ queue \in Seq(Items)
  /\ snapshots \in [Threads -> Views \cup {NoView}]
  /\ entry \in [known : BOOLEAN, thread : Threads \cup {NoThread}, delivered : Views \cup {NoView}]
  /\ order \in [life : 0..lives, sequence : Nat, retired : SUBSET (1..lives)]
  /\ target \in [at : {"absent", "opening", "reading", "ready"}, thread : Threads \cup {NoThread}]
  /\ bridge \in [up : BOOLEAN, first : 0..lives, life : 0..lives, latest : Views \cup {NoView}]
  /\ intent \in [at : {"none", "clearing", "answer"}, view : Views \cup {NoView}]
  /\ reports \subseteq [thread : Threads \cup {NoThread}, sequence : Nat, life : 1..lives]
  /\ notices \in Nat /\ route \in Routes /\ config \in Views \cup {NoView}
  /\ watcher \in [life : 1..lives, sequence : Nat] /\ loading \in BOOLEAN
  /\ lives \in Nat /\ {renewed, overtaken} \subseteq BOOLEAN /\ shut \subseteq Threads

\* However the reports of one document are delayed, overtake each other or are
\* repeated by a reload, the publisher and the manager end at the thread the
\* page shows.  Excluded are a window that was connected again, and a report
\* that the Helper takes for news although a later document had reported: the
\* code retires only the lifecycles it has seen (host/src/index.ts:1900).
WindowIsFollowed ==
  AtRest /\ Connected /\ ~renewed /\ ~overtaken /\ route # NoThread
    => entry.known /\ entry.thread = route /\ target.thread = route

\* When nothing is on its way and the publisher and the manager agree on the
\* thread that the page shows, the card is the view of that thread that was
\* published last: no view is lost behind a snapshot, a reload, a reconnection
\* or a record of what was delivered.  Threads whose card the user closed are
\* left to DetachedIsNotShown.
CardIsCurrent ==
  AtRest /\ Connected /\ route \in Threads \ shut /\ entry.thread = route /\ target.thread = route
    /\ stored[route].phase = "active"
    => Shown = View(route, stored[route])

\* The queues come to rest: none waits for another one for ever, although the
\* bridge's queue waits for a request that may wait for the bridge's queue.
QueuesRest == []<>AtRest

\* "Detached: the user stops tracking" (docs/ARCHITECTURE.md:109): a thread
\* that the user detached is not shown as one that is tracked.
DetachedIsNotShown ==
  AtRest /\ route # NoThread /\ stored[route].phase = "detached" => Shown.phase # "active"

=============================================================================
