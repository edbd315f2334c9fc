----------------------- MODULE RendererDelivery_proofs -----------------------
(***************************************************************************)
(* Proofs about RendererDelivery: the variables have their types, the       *)
(* window ends at the thread the page shows, and the card is the view that  *)
(* was published last.                                                      *)
(***************************************************************************)
EXTENDS RendererDelivery, TLAPS

-----------------------------------------------------------------------------
(* The invariants                                                          *)

\* What is in the queue, and what is behind its head.
Elements(q) == {q[i] : i \in 1..Len(q)}
Behind(q)   == {q[i] : i \in 2..Len(q)}

\* The bridge that is up has a lifecycle, and only a window that is being
\* read or is ready has one.
BridgeInv ==
  /\ bridge.up => bridge.life # 0 /\ bridge.first # 0
  /\ target.at = "reading" => bridge.up
  /\ bridge.up => target.at \in {"reading", "ready"}

\* Which items there are: each belongs to the handler that waits for it.
FromReport(x) == x.op \in {"recover", "activate", "deliver"}
IsItem(x) ==
  /\ FromReport(x) <=> x.from = "report"
  /\ x.op = "disconnect" <=> x.from = "notice"
  /\ x.op \in {"publish", "deliver"} => x.view \in Views /\ x.view.thread = x.thread
  /\ x.op = "publish" => x.from = "drain"
  /\ x.op = "clear" => x.thread \in Threads
ItemInv ==
  /\ \A x \in Elements(queue) : IsItem(x)
  /\ \A t \in Threads : snapshots[t] # NoView => snapshots[t] \in Views /\ snapshots[t].thread = t
  /\ drain.at = "preferences" => drain.view \in Views

\* The drain loop waits for one item; a delivery follows its activation at once.
OneDrain(q) == \A i, j \in 1..Len(q) : q[i].from = "drain" /\ q[j].from = "drain" => i = j
NoDrain(q)  == \A x \in Elements(q) : x.from # "drain"
QueueInv ==
  /\ OneDrain(queue) /\ (drain.at # "waiting" => NoDrain(queue))
  /\ \A x \in Behind(queue) : x.op # "deliver"
  /\ \A x \in Elements(queue) : x.op = "deliver" => entry.known /\ entry.thread = x.thread

Shape == ItemInv /\ QueueInv

\* The window is about to be disconnected.
Dirty == notices > 0 \/ \E x \in Elements(queue) : x.op = "disconnect"

\* The record of the window, and what it says of the page.
EntryInv ==
  /\ ~entry.known => entry.thread = NoThread /\ entry.delivered = NoView
  /\ entry.delivered # NoView => entry.delivered.thread = entry.thread
  /\ target.at = "ready" /\ ~bridge.up => Dirty
  /\ entry.delivered # NoView /\ entry.thread \notin shut /\ ~Dirty =>
       /\ target.at = "ready" /\ bridge.up /\ target.thread = entry.thread
       /\ bridge.latest = entry.delivered /\ (config = entry.delivered \/ loading)

\* What is published is the latest of a thread, or the latest is pending behind it.
Latest(t) == View(t, stored[t])
Stale(t, v) == v # Latest(t) /\ pendingUi[t] # Latest(t)
FreshAt(t) ==
  /\ pendingUi[t] \in {NoView, Latest(t)}
  /\ drain.at = "preferences" /\ drain.view.thread = t => ~Stale(t, drain.view)
  /\ \A x \in Elements(queue) : x.op = "publish" /\ x.thread = t => ~Stale(t, x.view)
  /\ \A x \in Elements(queue) : x.op = "clear" /\ x.thread = t => stored[t].phase = "completed"
FreshInv ==
  /\ intent.at # "none" => intent.view.thread \in shut
  /\ \A t \in Threads : pendingUi[t] # NoView => pendingUi[t].thread = t
  /\ \A t \in Threads \ shut : FreshAt(t)

\* The lifecycle that a window was opened with is not retired before its report.
ReadingInv ==
  target.at = "reading" /\ bridge.life \in order.retired =>
    \E x \in Elements(queue) : x.op = "recover"

\* A window that shows a tracked thread shows its latest view or will be told.
Underway(t) ==
  \/ pendingUi[t] = Latest(t) \/ t \in restores \/ Dirty
  \/ drain.at = "preferences" /\ drain.view = Latest(t)
  \/ \E x \in Elements(queue) : FromReport(x) \/ (x.op = "publish" /\ x.view = Latest(t))
  \/ \E r \in reports : r.sequence = 0 /\ ~Retired(r)
CardInv ==
  \A t \in Threads \ shut :
    entry.thread = t /\ target = [at |-> "ready", thread |-> t] /\ bridge.up
      /\ stored[t].phase = "active"
      => entry.delivered = Latest(t) \/ Underway(t)

\* A window that was never connected again agrees with its record.
Steady == bridge.up /\ ~renewed
SteadyInv ==
  Steady =>
    /\ target.at = "ready" /\ ~Dirty /\ entry.known /\ entry.thread = target.thread
    /\ bridge.life = lives
    /\ ~loading =>
         /\ watcher.life = lives /\ watcher.sequence # 0
         /\ \A r \in reports : r.life = lives => r.sequence <= watcher.sequence
         /\ order.life = lives => order.sequence <= watcher.sequence

\* Without overtaking, only earlier lifecycles are retired.
OrderInv ==
  /\ order.life = 0 => order = NoOrder
  /\ ~overtaken => \A l \in order.retired : l < order.life

\* The last turn in the queue is to thread t.
LastTurn(q, t) ==
  \E i \in 1..Len(q) :
    /\ q[i].op = "activate" /\ q[i].thread = t
    /\ \A j \in (i + 1)..Len(q) : q[j].op # "activate"
NoTurn(q) == \A x \in Elements(q) : x.op # "activate"

\* The page's thread is known, or its report is on its way.
Awaited(r) == r.life = lives /\ r.sequence = watcher.sequence
              /\ (order.life = lives => order.sequence < watcher.sequence)
WindowInv ==
  Steady /\ ~overtaken /\ route # NoThread =>
    \/ loading
    \/ \E r \in reports : Awaited(r)
    \/ \E x \in Elements(queue) : x.op = "recover"
    \/ LastTurn(queue, route)
    \/ NoTurn(queue) /\ entry.thread = route

-----------------------------------------------------------------------------
(* Queues                                                                  *)

LEMMA Appended ==
  ASSUME NEW S, NEW q \in Seq(S), NEW x \in S
  PROVE  /\ Append(q, x) \in Seq(S)
         /\ Elements(Append(q, x)) = Elements(q) \cup {x}
         /\ Behind(Append(q, x)) \subseteq Behind(q) \cup {x}
<1>1. /\ Append(q, x) \in Seq(S) /\ Len(Append(q, x)) = Len(q) + 1 /\ Len(q) \in Nat
      /\ \A i \in 1..Len(q) : Append(q, x)[i] = q[i]
      /\ Append(q, x)[Len(q) + 1] = x
  OBVIOUS
<1>2. 1..(Len(q) + 1) = 1..Len(q) \cup {Len(q) + 1} BY <1>1
<1>3. Elements(Append(q, x)) = Elements(q) \cup {x}
  BY <1>1, <1>2 DEF Elements
<1>4. \A i \in 2..(Len(q) + 1) : i \in 2..Len(q) \/ i = Len(q) + 1 BY <1>1
<1>5. Behind(Append(q, x)) \subseteq Behind(q) \cup {x}
  <2>1. \A i \in 2..Len(q) : i \in 1..Len(q) BY <1>1
  <2> QED BY <1>1, <1>4, <2>1 DEF Behind
<1> QED BY <1>1, <1>3, <1>5

LEMMA Popped ==
  ASSUME NEW S, NEW q \in Seq(S), q # <<>>
  PROVE  /\ Head(q) \in S /\ Tail(q) \in Seq(S)
         /\ Elements(q) = {Head(q)} \cup Behind(q)
         /\ Elements(Tail(q)) = Behind(q) /\ Behind(Tail(q)) \subseteq Behind(q)
<1>1. /\ Head(q) = q[1] /\ Head(q) \in S /\ Tail(q) \in Seq(S) /\ Len(q) \in Nat /\ Len(q) >= 1
      /\ Len(Tail(q)) = Len(q) - 1 /\ \A i \in 1..(Len(q) - 1) : Tail(q)[i] = q[i + 1]
  OBVIOUS
<1>2. \A i \in 1..Len(q) : i = 1 \/ i \in 2..Len(q) BY <1>1
<1>3. 1 \in 1..Len(q) /\ \A i \in 2..Len(q) : i \in 1..Len(q) BY <1>1
<1>4. Elements(q) = {Head(q)} \cup Behind(q) BY <1>1, <1>2, <1>3 DEF Elements, Behind
<1>5. ASSUME NEW y \in Elements(Tail(q)) PROVE y \in Behind(q)
  <2>1. PICK i \in 1..(Len(q) - 1) : y = Tail(q)[i] BY <1>1 DEF Elements
  <2>2. i + 1 \in 2..Len(q) /\ y = q[i + 1] BY <1>1, <2>1
  <2> QED BY <2>2 DEF Behind
<1>6. ASSUME NEW y \in Behind(q) PROVE y \in Elements(Tail(q))
  <2>1. PICK i \in 2..Len(q) : y = q[i] BY DEF Behind
  <2>2. i - 1 \in 1..(Len(q) - 1) /\ Tail(q)[i - 1] = q[(i - 1) + 1] /\ (i - 1) + 1 = i BY <1>1
  <2>3. y = Tail(q)[i - 1] BY <2>1, <2>2
  <2> QED BY <1>1, <2>2, <2>3 DEF Elements
<1>7. Behind(Tail(q)) \subseteq Elements(Tail(q))
  <2>1. \A i \in 2..Len(Tail(q)) : i \in 1..Len(Tail(q)) BY <1>1
  <2> QED BY <2>1 DEF Elements, Behind
<1> QED BY <1>1, <1>4, <1>5, <1>6, <1>7

LEMMA Replaced ==
  ASSUME NEW S, NEW q \in Seq(S), q # <<>>, NEW x \in S
  PROVE  /\ <<x>> \o Tail(q) \in Seq(S)
         /\ Elements(<<x>> \o Tail(q)) = {x} \cup Behind(q)
         /\ Behind(<<x>> \o Tail(q)) = Behind(q)
         /\ Head(<<x>> \o Tail(q)) = x /\ <<x>> \o Tail(q) # <<>>
<1> DEFINE p == <<x>> \o Tail(q)
<1>1. /\ Tail(q) \in Seq(S) /\ Len(q) \in Nat /\ Len(q) >= 1 /\ Len(Tail(q)) = Len(q) - 1
      /\ \A i \in 1..(Len(q) - 1) : Tail(q)[i] = q[i + 1]
  OBVIOUS
<1>2. p \in Seq(S) /\ Len(p) = Len(q) /\ p[1] = x
  BY <1>1
<1>3. ASSUME NEW i \in 2..Len(q) PROVE p[i] = q[i]
  <2>1. p[i] = Tail(q)[i - 1] BY <1>1
  <2>2. i - 1 \in 1..(Len(q) - 1) /\ (i - 1) + 1 = i BY <1>1
  <2> QED BY <1>1, <2>1, <2>2
<1> HIDE DEF p
<1>4. Behind(p) = Behind(q) BY <1>2, <1>3 DEF Behind
<1>5. p # <<>> /\ Head(p) = x BY <1>1, <1>2
<1>6. Elements(p) = {x} \cup Behind(p) BY <1>2, <1>5, Popped
<1> QED BY <1>2, <1>4, <1>5, <1>6 DEF p

-----------------------------------------------------------------------------
(* Types                                                                   *)

AnyView == Views \cup {NoView}
AnyThread == Threads \cup {NoThread}

\* The types, part by part.
HelperTyped ==
  /\ stored \in [Threads -> [revision : 0..MaxRevision,
                             phase : CardPhases \cup {"completed", "dismissed"}]]
  /\ pendingUi \in [Threads -> AnyView]
  /\ drain \in [at : {"idle", "preferences", "waiting"}, view : AnyView]
  /\ restores \subseteq Threads
PublisherTyped ==
  /\ queue \in Seq(Items) /\ snapshots \in [Threads -> AnyView]
  /\ entry \in [known : BOOLEAN, thread : AnyThread, delivered : AnyView]
WindowTyped ==
  /\ target \in [at : {"absent", "opening", "reading", "ready"}, thread : AnyThread]
  /\ bridge \in [up : BOOLEAN, first : 0..lives, life : 0..lives, latest : AnyView]
  /\ intent \in [at : {"none", "clearing", "answer"}, view : AnyView]
OrderTyped ==
  /\ order \in [life : 0..lives, sequence : Nat, retired : SUBSET (1..lives)]
  /\ reports \subseteq [thread : AnyThread, sequence : Nat, life : 1..lives]
  /\ notices \in Nat /\ lives \in Nat
PageTyped ==
  /\ route \in Routes /\ config \in AnyView
  /\ watcher \in [life : 1..lives, sequence : Nat] /\ loading \in BOOLEAN
PastTyped ==
  renewed \in BOOLEAN /\ overtaken \in BOOLEAN /\ shut \subseteq Threads

LEMMA TypeParts ==
  TypeOK <=> HelperTyped /\ PublisherTyped /\ WindowTyped /\ OrderTyped /\ PageTyped /\ PastTyped
  BY DEF TypeOK, HelperTyped, PublisherTyped, WindowTyped, OrderTyped, PageTyped, PastTyped,
         AnyView, AnyThread

LEMMA NoViewIsNone ==
  /\ NoView \notin Views /\ NoView \in AnyView /\ NoView.thread = NoThread
  /\ \A v \in Views : v.thread \in Threads /\ v.thread # NoThread
  BY DeliveryAssumption DEF NoView, Views, AnyView

LEMMA ViewIsTyped ==
  ASSUME NEW t \in Threads, NEW s, s.revision \in 0..MaxRevision,
         s.phase \in CardPhases \cup {"completed"}
  PROVE  View(t, s) \in Views
  BY DEF View, Views, CardPhases

LEMMA ItemIsTyped ==
  ASSUME NEW op \in {"recover", "activate", "publish", "deliver", "clear", "disconnect"},
         NEW from \in {"report", "drain", "intent", "notice"}, NEW t \in AnyThread, NEW v \in AnyView
  PROVE  /\ Item(op, from, t, v) \in Items
         /\ Item(op, from, t, v).op = op /\ Item(op, from, t, v).from = from
         /\ Item(op, from, t, v).thread = t /\ Item(op, from, t, v).view = v
  BY DEF Item, Items, AnyView, AnyThread

\* Items and what a head that is run leaves.
LEMMA HeadIsTyped ==
  ASSUME PublisherTyped, queue # <<>>
  PROVE  /\ Head(queue) \in Items /\ Tail(queue) \in Seq(Items)
         /\ Head(queue).thread \in AnyThread /\ Head(queue).view \in AnyView
<1>1. Head(queue) \in Items /\ Tail(queue) \in Seq(Items)
  BY Popped DEF PublisherTyped
<1> QED BY <1>1 DEF Items, AnyView, AnyThread

Typed == HelperTyped /\ PublisherTyped /\ WindowTyped /\ OrderTyped /\ PageTyped /\ PastTyped /\ BridgeInv

LEMMA InitTyped == Init => Typed
<1> SUFFICES ASSUME Init PROVE Typed OBVIOUS
<1>1. PICK s \in Starts :
        /\ route = s.route
        /\ stored = [t \in Threads |-> [revision |-> IF s.phase[t] = "active" THEN 1 ELSE 0,
                                        phase    |-> s.phase[t]]]
  BY DEF Init
<1>2. /\ s \in [route : Routes, phase : [Threads -> {"preparing", "active"}]]
      /\ Routes \subseteq AnyThread /\ {0, 1} \subseteq 0..MaxRevision
  BY DeliveryAssumption DEF AnyThread
<1>3. /\ route \in Routes /\ route \in AnyThread
      /\ stored \in [Threads -> [revision : 0..MaxRevision,
                                 phase : CardPhases \cup {"completed", "dismissed"}]]
      /\ \A t \in Threads : stored[t].phase \in {"preparing", "active"}
  BY <1>1, <1>2 DEF CardPhases
<1> DEFINE v == IF route # NoThread THEN View(route, stored[route]) ELSE NoView
<1>4. v \in AnyView
  <2>1. CASE route = NoThread BY <2>1, NoViewIsNone
  <2>2. CASE route # NoThread
    <3>1. route \in Threads BY <1>3, <2>2 DEF AnyThread
    <3>2. View(route, stored[route]) \in Views BY <1>3, <3>1, ViewIsTyped DEF CardPhases
    <3> QED BY <2>2, <3>2 DEF AnyView
  <2> QED BY <2>1, <2>2
<1>5. /\ config = v /\ snapshots = [t \in Threads |-> IF t = route THEN v ELSE NoView]
      /\ entry = [known |-> TRUE, thread |-> route, delivered |-> v]
      /\ bridge = [up |-> TRUE, first |-> 1, life |-> 1, latest |-> v]
  BY DEF Init
<1> HIDE DEF v
<1>6. HelperTyped
  <2>1. /\ pendingUi = [t \in Threads |-> NoView] /\ drain = [at |-> "idle", view |-> NoView]
        /\ restores = {}
    BY DEF Init
  <2>2. pendingUi \in [Threads -> AnyView] BY <2>1, NoViewIsNone
  <2> QED BY <1>3, <2>1, <2>2, NoViewIsNone DEF HelperTyped
<1>7. PublisherTyped
  <2>1. queue = <<>> BY DEF Init
  <2>2. queue \in Seq(Items) BY <2>1
  <2>3. snapshots \in [Threads -> AnyView] BY <1>4, <1>5, NoViewIsNone
  <2>4. entry \in [known : BOOLEAN, thread : AnyThread, delivered : AnyView] BY <1>3, <1>4, <1>5
  <2> QED BY <2>2, <2>3, <2>4 DEF PublisherTyped
<1>8. lives = 1 /\ target = [at |-> "ready", thread |-> route] /\ intent = NoIntent
  BY DEF Init
<1>9. WindowTyped BY <1>3, <1>4, <1>5, <1>8, NoViewIsNone DEF WindowTyped, NoIntent
<1>10. OrderTyped BY DEF Init, OrderTyped
<1>11. PageTyped
  <2>1. watcher = [life |-> 1, sequence |-> 1] /\ loading = FALSE BY DEF Init
  <2>2. watcher \in [life : 1..lives, sequence : Nat] BY <1>8, <2>1
  <2>3. config \in AnyView BY <1>4, <1>5
  <2> QED BY <1>3, <2>1, <2>2, <2>3 DEF PageTyped
<1>12. PastTyped BY DEF Init, PastTyped
<1>13. BridgeInv BY <1>5, <1>8 DEF BridgeInv
<1> QED BY <1>6, <1>7, <1>9, <1>10, <1>11, <1>12, <1>13 DEF Typed

\* What is done with the head keeps the types of what it touches.
LEMMA DoneTyped ==
  ASSUME Typed, queue # <<>>, Done(Head(queue)) \/ Failed(Head(queue))
  PROVE  queue' \in Seq(Items) /\ restores' \subseteq Threads
         /\ drain' \in [at : {"idle", "preferences", "waiting"}, view : AnyView]
<1>1. Head(queue) \in Items /\ Tail(queue) \in Seq(Items) /\ Head(queue).thread \in AnyThread
  BY HeadIsTyped DEF Typed
<1>2. [at |-> "idle", view |-> NoView] \in [at : {"idle", "preferences", "waiting"}, view : AnyView]
  BY NoViewIsNone
<1>3. restores \subseteq Threads /\ drain \in [at : {"idle", "preferences", "waiting"}, view : AnyView]
  BY DEF Typed, HelperTyped
<1> QED BY <1>1, <1>2, <1>3 DEF Done, Failed, AnyThread

LEMMA DestroyTyped ==
  ASSUME Typed, Destroy, lives' = lives PROVE
         /\ target' \in [at : {"absent", "opening", "reading", "ready"}, thread : AnyThread]
         /\ bridge' \in [up : BOOLEAN, first : 0..lives, life : 0..lives, latest : AnyView]
         /\ loading' \in BOOLEAN /\ BridgeInv'
<1>1. lives \in Nat BY DEF Typed, OrderTyped
<1>2. target' = NoTarget /\ bridge' = NoBridge /\ loading' = FALSE BY DEF Destroy
<1>3. NoTarget \in [at : {"absent", "opening", "reading", "ready"}, thread : AnyThread]
      /\ NoTarget.at = "absent"
  BY DEF NoTarget, AnyThread
<1>4. NoBridge \in [up : BOOLEAN, first : 0..lives, life : 0..lives, latest : AnyView]
      /\ NoBridge.up = FALSE
  BY <1>1, NoViewIsNone DEF NoBridge
<1>5. BridgeInv' BY <1>2, <1>3, <1>4 DEF BridgeInv
<1> QED BY <1>2, <1>3, <1>4, <1>5

LEMMA DeliverTyped ==
  ASSUME Typed, NEW v \in AnyView, Deliver(v), lives' = lives PROVE
         /\ entry' \in [known : BOOLEAN, thread : AnyThread, delivered : AnyView]
         /\ target' \in [at : {"absent", "opening", "reading", "ready"}, thread : AnyThread]
         /\ bridge' \in [up : BOOLEAN, first : 0..lives, life : 0..lives, latest : AnyView]
         /\ config' \in AnyView /\ loading' \in BOOLEAN /\ BridgeInv'
<1> USE DEF Typed
<1>1. /\ entry \in [known : BOOLEAN, thread : AnyThread, delivered : AnyView]
      /\ target \in [at : {"absent", "opening", "reading", "ready"}, thread : AnyThread]
      /\ bridge \in [up : BOOLEAN, first : 0..lives, life : 0..lives, latest : AnyView]
      /\ config \in AnyView /\ loading \in BOOLEAN
  BY DEF PublisherTyped, WindowTyped, PageTyped
<1>2. NoView \in AnyView BY NoViewIsNone
<1>3. ASSUME UNCHANGED <<target, bridge, loading>>
      PROVE  target' = target /\ bridge' = bridge /\ loading' = loading /\ BridgeInv'
  BY <1>3 DEF BridgeInv
<1>4. CASE UNCHANGED <<entry, target, bridge, config, loading>>
  BY <1>1, <1>3, <1>4
<1>5. CASE entry' = [entry EXCEPT !.delivered = NoView] /\ UNCHANGED <<target, bridge, config, loading>>
  BY <1>1, <1>2, <1>3, <1>5
<1>6. CASE /\ config' = v /\ bridge' = [bridge EXCEPT !.latest = v]
           /\ entry' = [entry EXCEPT !.delivered = v] /\ UNCHANGED <<target, loading>>
  BY <1>1, <1>2, <1>6 DEF BridgeInv
<1>7. CASE /\ config' \in {v, config} /\ entry' = [entry EXCEPT !.delivered = NoView] /\ Destroy
  BY <1>1, <1>2, <1>7, DestroyTyped
<1> QED BY <1>4, <1>5, <1>6, <1>7 DEF Deliver

\* Every step keeps the types: by what it reads and writes.
LEMMA ReportTyped == ASSUME Typed, ReportArrives \/ NoticeArrives PROVE Typed'
<1>1. ASSUME NEW r \in reports PROVE Renewed(r) \in [life : 0..lives, sequence : Nat, retired : SUBSET (1..lives)]
  BY DEF Typed, OrderTyped, Renewed, NoOrder
<1>2. /\ NoOrder \in [life : 0..lives, sequence : Nat, retired : SUBSET (1..lives)]
      /\ Item("disconnect", "notice", NoThread, NoView) \in Items
  <2>1. lives \in Nat BY DEF Typed, OrderTyped
  <2>2. NoOrder \in [life : 0..lives, sequence : Nat, retired : SUBSET (1..lives)]
    BY <2>1 DEF NoOrder
  <2>3. NoThread \in AnyThread BY DEF AnyThread
  <2>4. Item("disconnect", "notice", NoThread, NoView) \in Items
    BY <2>3, NoViewIsNone, ItemIsTyped
  <2> QED BY <2>2, <2>4
<1>3. queue \in Seq(Items) BY DEF Typed, PublisherTyped
<1>4. CASE ReportArrives
  <2>1. PICK r \in reports :
          /\ reports' = reports \ {r}
          /\ IF ~HasTarget \/ Retired(r) THEN UNCHANGED <<order, queue>>
             ELSE IF Outdated(r) THEN order' = Renewed(r) /\ UNCHANGED queue
             ELSE /\ order' = [Renewed(r) EXCEPT !.sequence = IF r.sequence = 0 THEN @ ELSE r.sequence]
                  /\ queue' = Append(queue, Item("recover", "report", r.thread, NoView))
    BY <1>4 DEF ReportArrives
  <2>2. r.thread \in AnyThread /\ r.sequence \in Nat BY DEF Typed, OrderTyped
  <2>3. Item("recover", "report", r.thread, NoView) \in Items BY <2>2, ItemIsTyped, NoViewIsNone
  <2>4. queue' \in Seq(Items) BY <1>3, <2>1, <2>3
  <2>5. order' \in [life : 0..lives, sequence : Nat, retired : SUBSET (1..lives)]
    BY <1>1, <2>1, <2>2 DEF Typed, OrderTyped
  <2>6. /\ UNCHANGED <<helper, snapshots, entry, target, bridge, intent, notices, page, lives, renewed,
                       shut>>
        /\ overtaken' \in BOOLEAN
    BY <1>4 DEF ReportArrives, Typed, PastTyped
  <2> QED BY <2>1, <2>4, <2>5, <2>6
          DEF helper, page, Typed, HelperTyped, PublisherTyped, WindowTyped, OrderTyped, PageTyped,
              PastTyped, BridgeInv
<1>5. CASE NoticeArrives
  <2>1. queue' \in Seq(Items) BY <1>2, <1>3, <1>5 DEF NoticeArrives
  <2>2. order' \in [life : 0..lives, sequence : Nat, retired : SUBSET (1..lives)] /\ notices' \in Nat
    BY <1>2, <1>5 DEF NoticeArrives, Typed, OrderTyped
  <2>3. UNCHANGED <<helper, snapshots, entry, target, bridge, intent, reports, page, lives, past>>
    BY <1>5 DEF NoticeArrives
  <2> QED BY <2>1, <2>2, <2>3
          DEF helper, page, past, Typed, HelperTyped, PublisherTyped, WindowTyped, OrderTyped,
              PageTyped, PastTyped, BridgeInv
<1> QED BY <1>4, <1>5

LEMMA DrainTyped == ASSUME Typed, Restore \/ DrainTake \/ DrainPublish PROVE Typed'
<1>1. /\ queue \in Seq(Items) /\ pendingUi \in [Threads -> AnyView]
      /\ drain \in [at : {"idle", "preferences", "waiting"}, view : AnyView]
      /\ restores \subseteq Threads
  BY DEF Typed, HelperTyped, PublisherTyped
<1>2. UNCHANGED <<stored, snapshots, entry, order, target, bridge, intent, wire, page, lives, past>>
  BY DEF Restore, DrainTake, DrainPublish, publisher
<1>3. ASSUME /\ queue' \in Seq(Items) /\ pendingUi' \in [Threads -> AnyView]
             /\ drain' \in [at : {"idle", "preferences", "waiting"}, view : AnyView]
             /\ restores' \subseteq Threads
      PROVE  Typed'
  BY <1>2, <1>3 DEF wire, page, past, Typed, HelperTyped, PublisherTyped, WindowTyped, OrderTyped,
                    PageTyped, PastTyped, BridgeInv
<1>4. CASE Restore
  <2>1. PICK t \in restores :
          /\ restores' = restores \ {t}
          /\ pendingUi' = IF stored[t].phase = "active"
                          THEN [pendingUi EXCEPT ![t] = View(t, stored[t])] ELSE pendingUi
    BY <1>4 DEF Restore
  <2>2. stored[t].phase = "active" => View(t, stored[t]) \in AnyView
    BY <1>1, ViewIsTyped DEF Typed, HelperTyped, AnyView, CardPhases
  <2>3. pendingUi' \in [Threads -> AnyView] BY <1>1, <2>1, <2>2
  <2>4. drain' = drain /\ queue' = queue BY <1>4 DEF Restore, publisher
  <2> QED BY <1>1, <1>3, <2>1, <2>3, <2>4
<1>5. CASE DrainTake
  <2>1. PICK t \in Threads :
          LET v == pendingUi[t]
          IN  /\ pendingUi' = [pendingUi EXCEPT ![t] = NoView]
              /\ \/ /\ queue' = Append(queue, Item("clear", "drain", t, NoView))
                    /\ drain' = [at |-> "waiting", view |-> NoView]
                 \/ drain' = [at |-> "preferences", view |-> v] /\ UNCHANGED queue
                 \/ UNCHANGED <<drain, queue>>
    BY <1>5 DEF DrainTake
  <2>2. Item("clear", "drain", t, NoView) \in Items BY ItemIsTyped, NoViewIsNone DEF AnyThread
  <2>3. pendingUi' \in [Threads -> AnyView] BY <1>1, <2>1, NoViewIsNone
  <2>4. queue' \in Seq(Items) BY <1>1, <2>1, <2>2
  <2>5. drain' \in [at : {"idle", "preferences", "waiting"}, view : AnyView]
    BY <1>1, <2>1, NoViewIsNone
  <2> QED BY <1>1, <1>3, <1>5, <2>3, <2>4, <2>5 DEF DrainTake
<1>6. CASE DrainPublish
  <2> DEFINE x == Item("publish", "drain", drain.view.thread, drain.view)
  <2>1. drain.view \in AnyView /\ drain.view.thread \in AnyThread
    BY <1>1, NoViewIsNone DEF AnyView, AnyThread
  <2>2. x \in Items BY <2>1, ItemIsTyped
  <2>3. queue' = Append(queue, x) /\ drain' = [at |-> "waiting", view |-> NoView]
        /\ pendingUi' = pendingUi /\ restores' = restores
    BY <1>6 DEF DrainPublish
  <2> HIDE DEF x
  <2>4. queue' \in Seq(Items) BY <1>1, <2>2, <2>3
  <2> QED BY <1>1, <1>3, <2>3, <2>4, NoViewIsNone
<1> QED BY <1>4, <1>5, <1>6

LEMMA QueueTyped ==
  ASSUME Typed, RunRecover \/ RunActivate \/ RunDeliver \/ RunPublish \/ RunClear \/ RunDisconnect
  PROVE  Typed'
<1>1. /\ queue # <<>> /\ Head(queue) \in Items /\ Tail(queue) \in Seq(Items)
      /\ Head(queue).thread \in AnyThread /\ Head(queue).view \in AnyView
  BY HeadIsTyped DEF Typed, RunRecover, RunActivate, RunDeliver, RunPublish, RunClear, RunDisconnect, Head1
<1>2. /\ entry \in [known : BOOLEAN, thread : AnyThread, delivered : AnyView]
      /\ snapshots \in [Threads -> AnyView]
      /\ target \in [at : {"absent", "opening", "reading", "ready"}, thread : AnyThread]
      /\ bridge \in [up : BOOLEAN, first : 0..lives, life : 0..lives, latest : AnyView]
      /\ intent \in [at : {"none", "clearing", "answer"}, view : AnyView]
      /\ config \in AnyView /\ loading \in BOOLEAN
      /\ restores \subseteq Threads
      /\ drain \in [at : {"idle", "preferences", "waiting"}, view : AnyView]
      /\ route \in AnyThread
  BY DeliveryAssumption DEF Typed, HelperTyped, PublisherTyped, WindowTyped, PageTyped, AnyThread
<1>3. UNCHANGED <<stored, pendingUi, order, wire, route, watcher, lives, past>>
  BY DEF RunRecover, RunActivate, RunDeliver, RunPublish, RunClear, RunDisconnect, helper, page
<1> DEFINE Kept ==
      /\ drain' \in [at : {"idle", "preferences", "waiting"}, view : AnyView]
      /\ restores' \subseteq Threads /\ queue' \in Seq(Items)
<1> DEFINE Windows ==
      /\ target' \in [at : {"absent", "opening", "reading", "ready"}, thread : AnyThread]
      /\ bridge' \in [up : BOOLEAN, first : 0..lives, life : 0..lives, latest : AnyView]
      /\ intent' \in [at : {"none", "clearing", "answer"}, view : AnyView]
      /\ entry' \in [known : BOOLEAN, thread : AnyThread, delivered : AnyView]
      /\ snapshots' \in [Threads -> AnyView]
      /\ config' \in AnyView /\ loading' \in BOOLEAN /\ BridgeInv'
<1>4. ASSUME Kept, Windows PROVE Typed'
  BY <1>3, <1>4 DEF wire, past, Typed, HelperTyped, PublisherTyped, WindowTyped, OrderTyped,
                    PageTyped, PastTyped
<1>5. ASSUME Done(Head(queue)) \/ Failed(Head(queue)) PROVE Kept
  BY <1>1, <1>5, DoneTyped
<1>6. ASSUME UNCHANGED <<target, bridge, intent, entry, snapshots, config, loading>> PROVE Windows
  BY <1>2, <1>6 DEF BridgeInv, Typed
<1>7. [bridge EXCEPT !.latest = NoView] \in [up : BOOLEAN, first : 0..lives, life : 0..lives, latest : AnyView]
  BY <1>2, NoViewIsNone
<1>8. CASE RunRecover
  <2> DEFINE x == Item("activate", "report", Observed(Head(queue)), NoView)
  <2>1. Observed(Head(queue)) \in AnyThread BY <1>1, <1>2 DEF Observed
  <2>2. x \in Items BY <2>1, ItemIsTyped, NoViewIsNone
  <2>3. queue' = Append(Tail(queue), x) /\ UNCHANGED <<drain, restores>> BY <1>8 DEF RunRecover, helper
  <2> HIDE DEF x
  <2>4. Kept BY <1>1, <1>2, <2>2, <2>3
  <2>5. UNCHANGED <<target, bridge, intent, entry, snapshots, config, loading>>
    BY <1>8 DEF RunRecover, page
  <2> QED BY <1>4, <1>6, <2>4, <2>5
<1>9. CASE RunActivate
  <2> DEFINE item == Head(queue)
  <2>1. UNCHANGED <<snapshots, intent, loading>> BY <1>9 DEF RunActivate
  <2>2. CASE (Done(item) \/ Failed(item)) /\ UNCHANGED <<entry, target, bridge, config>>
    BY <1>4, <1>5, <1>6, <2>1, <2>2
  <2>3. ASSUME Follow(item)
        PROVE  Kept /\ entry' \in [known : BOOLEAN, thread : AnyThread, delivered : AnyView]
    <3> DEFINE v == IF item.thread = NoThread THEN NoView ELSE snapshots[item.thread]
    <3>1. v \in AnyView BY <1>1, <1>2, NoViewIsNone DEF AnyThread
    <3>2. /\ entry' = EntryFor(item.thread)
          /\ \/ Done(item)
             \/ /\ queue' = <<Item("deliver", "report", item.thread, v)>> \o Tail(queue)
                /\ UNCHANGED <<restores, drain>>
      BY <2>3 DEF Follow
    <3>3. EntryFor(item.thread) \in [known : BOOLEAN, thread : AnyThread, delivered : AnyView]
      BY <1>1, NoViewIsNone DEF EntryFor
    <3>4. Item("deliver", "report", item.thread, v) \in Items BY <1>1, <3>1, ItemIsTyped
    <3> HIDE DEF v
    <3>5. CASE /\ queue' = <<Item("deliver", "report", item.thread, v)>> \o Tail(queue)
               /\ UNCHANGED <<restores, drain>>
      <4>1. <<Item("deliver", "report", item.thread, v)>> \o Tail(queue) \in Seq(Items)
        BY <1>1, <3>4
      <4> QED BY <1>2, <3>2, <3>3, <3>5, <4>1
    <3> QED BY <1>5, <3>2, <3>3, <3>5
  <2>4. CASE Follow(item) /\ UNCHANGED <<target, bridge, config>>
    BY <1>2, <1>4, <2>1, <2>3, <2>4 DEF BridgeInv, Typed
  <2>5. CASE /\ target' = [target EXCEPT !.thread = item.thread]
             /\ IF bridge.up THEN ClearPage /\ Follow(item)
                ELSE Failed(item) /\ UNCHANGED <<entry, bridge, config>>
    <3>1. /\ target' \in [at : {"absent", "opening", "reading", "ready"}, thread : AnyThread]
          /\ target'.at = target.at
      BY <1>1, <1>2, <2>5
    <3>2. CASE ClearPage /\ Follow(item)
      <4>1. config' \in AnyView /\ bridge' = [bridge EXCEPT !.latest = NoView]
        BY <3>2, NoViewIsNone DEF ClearPage
      <4>2. bridge'.up = bridge.up /\ bridge'.life = bridge.life /\ bridge'.first = bridge.first
        BY <1>2, <4>1
      <4>3. BridgeInv' BY <3>1, <4>2 DEF BridgeInv, Typed
      <4> QED BY <1>2, <1>4, <1>7, <2>1, <2>3, <3>1, <3>2, <4>1, <4>3
    <3>3. CASE Failed(item) /\ UNCHANGED <<entry, bridge, config>>
      <4>1. BridgeInv' BY <3>1, <3>3 DEF BridgeInv, Typed
      <4> QED BY <1>2, <1>4, <1>5, <2>1, <3>1, <3>3, <4>1
    <3> QED BY <2>5, <3>2, <3>3
  <2> QED BY <1>9, <2>2, <2>4, <2>5 DEF RunActivate
<1>10. ASSUME NEW v \in AnyView, Deliver(v), intent' \in [at : {"none", "clearing", "answer"}, view : AnyView],
              snapshots' \in [Threads -> AnyView]
       PROVE  Windows
  BY <1>2, <1>3, <1>10, DeliverTyped
<1>11. CASE RunDeliver
  <2>1. Deliver(Head(queue).view) /\ Done(Head(queue)) /\ UNCHANGED <<snapshots, intent>>
    BY <1>11 DEF RunDeliver
  <2> QED BY <1>1, <1>2, <1>4, <1>5, <1>10, <2>1
<1>12. CASE RunPublish
  <2> DEFINE item == Head(queue)
  <2>1. /\ snapshots' = [snapshots EXCEPT ![item.thread] = item.view]
        /\ \/ Deliver(item.view) \/ UNCHANGED <<entry, target, bridge, config, loading>>
        /\ Done(item) /\ intent' = intent
    BY <1>12 DEF RunPublish
  <2>2. snapshots' \in [Threads -> AnyView] BY <1>1, <1>2, <2>1
  <2>3. CASE Deliver(item.view) BY <1>1, <1>2, <1>4, <1>5, <1>10, <2>1, <2>2, <2>3
  <2>4. CASE UNCHANGED <<entry, target, bridge, config, loading>>
    <3>1. Windows BY <1>2, <2>1, <2>2, <2>4 DEF BridgeInv, Typed
    <3> QED BY <1>4, <1>5, <2>1, <3>1
  <2> QED BY <2>1, <2>3, <2>4
<1>13. CASE RunClear
  <2> DEFINE item == Head(queue)
  <2>1. /\ snapshots' = [snapshots EXCEPT ![item.thread] = NoView] /\ UNCHANGED <<target, loading>>
        /\ Done(item) \/ Failed(item)
    BY <1>13 DEF RunClear
  <2>2. snapshots' \in [Threads -> AnyView] BY <1>2, <2>1, NoViewIsNone
  <2>3. intent' \in {intent, [intent EXCEPT !.at = "answer"], NoIntent}
    BY <1>13 DEF RunClear
  <2>4. intent' \in [at : {"none", "clearing", "answer"}, view : AnyView]
    BY <1>2, <2>3, NoViewIsNone DEF NoIntent
  <2>5. \/ UNCHANGED <<entry, bridge, config>>
        \/ ClearPage /\ entry' = [entry EXCEPT !.delivered = NoView]
    BY <1>13 DEF RunClear
  <2>6. CASE UNCHANGED <<entry, bridge, config>>
    <3>1. Windows BY <1>2, <2>1, <2>2, <2>4, <2>6 DEF BridgeInv, Typed
    <3> QED BY <1>4, <1>5, <2>1, <3>1
  <2>7. CASE ClearPage /\ entry' = [entry EXCEPT !.delivered = NoView]
    <3>1. config' \in AnyView /\ bridge' = [bridge EXCEPT !.latest = NoView]
          /\ entry' \in [known : BOOLEAN, thread : AnyThread, delivered : AnyView]
      BY <1>2, <2>7, NoViewIsNone DEF ClearPage
    <3>2. BridgeInv' BY <1>2, <2>1, <3>1 DEF BridgeInv, Typed
    <3>3. Windows BY <1>2, <1>7, <2>1, <2>2, <2>4, <3>1, <3>2
    <3> QED BY <1>4, <1>5, <2>1, <3>3
  <2> QED BY <2>5, <2>6, <2>7
<1>14. CASE RunDisconnect
  <2>1. /\ entry' = NoEntry /\ Done(Head(queue)) /\ UNCHANGED <<snapshots, intent, config>>
        /\ UNCHANGED <<target, bridge, loading>> \/ Destroy
    BY <1>14 DEF RunDisconnect
  <2>2. NoEntry \in [known : BOOLEAN, thread : AnyThread, delivered : AnyView]
    BY NoViewIsNone DEF NoEntry, AnyThread
  <2>3. CASE UNCHANGED <<target, bridge, loading>>
    <3>1. Windows BY <1>2, <2>1, <2>2, <2>3 DEF BridgeInv, Typed
    <3> QED BY <1>4, <1>5, <2>1, <3>1
  <2>4. CASE Destroy
    <3>1. Windows BY <1>2, <1>3, <2>1, <2>2, <2>4, DestroyTyped
    <3> QED BY <1>4, <1>5, <2>1, <3>1
  <2> QED BY <2>1, <2>3, <2>4
<1> QED BY <1>8, <1>9, <1>11, <1>12, <1>13, <1>14

\* Closing a card, or publishing, keeps the types of what is stored.
LEMMA StoredTyped ==
  ASSUME Typed, NEW t \in Threads
  PROVE  /\ Closed(t) \in [Threads -> [revision : 0..MaxRevision,
                                       phase : CardPhases \cup {"completed", "dismissed"}]]
         /\ Closed(t)[t].revision = stored[t].revision
         /\ Closed(t)[t].phase = IF stored[t].phase = "preparing" THEN "dismissed" ELSE "detached"
         /\ \A s \in Successors(stored[t]) :
              /\ s.revision <= MaxRevision => s.revision \in 0..MaxRevision
              /\ s.phase \in {"active", "completed"}
              /\ s.revision <= MaxRevision =>
                   s \in [revision : 0..MaxRevision, phase : CardPhases \cup {"completed", "dismissed"}]
<1>1. /\ stored \in [Threads -> [revision : 0..MaxRevision,
                                 phase : CardPhases \cup {"completed", "dismissed"}]]
      /\ stored[t] \in [revision : 0..MaxRevision, phase : CardPhases \cup {"completed", "dismissed"}]
      /\ MaxRevision \in Nat
  BY DeliveryAssumption DEF Typed, HelperTyped
<1> DEFINE next == [stored[t] EXCEPT !.phase = IF @ = "preparing" THEN "dismissed" ELSE "detached"]
<1>2. Closed(t) = [stored EXCEPT ![t] = next]
  BY <1>1 DEF Closed
<1>3. /\ next \in [revision : 0..MaxRevision, phase : CardPhases \cup {"completed", "dismissed"}]
      /\ next.revision = stored[t].revision
      /\ next.phase = IF stored[t].phase = "preparing" THEN "dismissed" ELSE "detached"
  BY <1>1 DEF CardPhases
<1> HIDE DEF next
<1>4. ASSUME NEW s \in Successors(stored[t])
      PROVE  s \in {[revision |-> 1, phase |-> "active"], [stored[t] EXCEPT !.revision = @ + 1],
                    [stored[t] EXCEPT !.phase = "completed"], [stored[t] EXCEPT !.phase = "active"]}
             /\ (s = [stored[t] EXCEPT !.revision = @ + 1] => stored[t].phase = "active")
  <2>1. CASE stored[t].phase = "preparing" BY <1>1, <2>1 DEF Successors
  <2>2. CASE stored[t].phase = "active" BY <1>1, <2>2 DEF Successors
  <2>3. CASE stored[t].phase = "detached" BY <1>1, <2>3 DEF Successors
  <2>4. CASE stored[t].phase \notin {"preparing", "active", "detached"} BY <1>1, <2>4 DEF Successors
  <2> QED BY <2>1, <2>2, <2>3, <2>4
<1> QED BY <1>1, <1>2, <1>3, <1>4 DEF CardPhases

\* UI intents, the page, the connection and the handlers that publish.
LEMMA OutsideTyped ==
  ASSUME Typed, Click \/ Answer \/ Timeout \/ Navigate \/ Reload \/ Load \/ Fail \/ Connect
                \/ ConnectOpen \/ ConnectRead \/ Change
  PROVE  Typed'
<1> USE DEF Typed
<1>1. /\ queue \in Seq(Items) /\ pendingUi \in [Threads -> AnyView]
      /\ target \in [at : {"absent", "opening", "reading", "ready"}, thread : AnyThread]
      /\ bridge \in [up : BOOLEAN, first : 0..lives, life : 0..lives, latest : AnyView]
      /\ intent \in [at : {"none", "clearing", "answer"}, view : AnyView]
      /\ config \in AnyView /\ loading \in BOOLEAN /\ route \in Routes /\ route \in AnyThread
      /\ watcher \in [life : 1..lives, sequence : Nat]
      /\ reports \subseteq [thread : AnyThread, sequence : Nat, life : 1..lives]
      /\ order \in [life : 0..lives, sequence : Nat, retired : SUBSET (1..lives)]
      /\ notices \in Nat /\ lives \in Nat
      /\ renewed \in BOOLEAN /\ overtaken \in BOOLEAN /\ shut \subseteq Threads
  BY DeliveryAssumption
     DEF HelperTyped, PublisherTyped, WindowTyped, OrderTyped, PageTyped, PastTyped, AnyThread
<1>2. ASSUME NEW r \in AnyThread, NEW n \in Nat, NEW l, bridge.up
      PROVE  Signal(r, n, l) \subseteq [thread : AnyThread, sequence : Nat, life : 1..lives]
  <2>1. bridge.life \in 1..lives BY <1>1, <1>2 DEF BridgeInv
  <2> QED BY <2>1 DEF Signal
<1>3. ASSUME NEW r, NEW n, NEW l, ~bridge.up PROVE Signal(r, n, l) = {}
  BY <1>3 DEF Signal
<1>4. CASE Click
  <2> DEFINE t == Shown.thread
  <2>1. Shown \in AnyView /\ Shown.phase \in {"preparing", "active"}
    BY <1>1, <1>4, NoViewIsNone DEF Click, Shown
  <2>2. Shown \in Views /\ t \in Threads BY <2>1, NoViewIsNone DEF AnyView, NoView
  <2>3. /\ stored' = Closed(t) /\ shut' = shut \cup {t}
        /\ \/ /\ intent' = [at |-> "clearing", view |-> Shown]
              /\ queue' = Append(queue, Item("clear", "intent", t, NoView))
           \/ /\ stored[t].phase # "preparing"
              /\ intent' = [at |-> "answer", view |-> View(t, stored'[t])] /\ UNCHANGED queue
    BY <1>4 DEF Click
  <2>4. Item("clear", "intent", t, NoView) \in Items BY <2>2, ItemIsTyped, NoViewIsNone DEF AnyThread
  <2>5. queue' \in Seq(Items)
    <3> DEFINE x == Item("clear", "intent", t, NoView)
    <3>1. x \in Items /\ queue' \in {queue, Append(queue, x)} BY <2>3, <2>4
    <3> HIDE DEF x
    <3>2. Append(queue, x) \in Seq(Items) BY <1>1, <3>1
    <3> QED BY <1>1, <3>1, <3>2, Zenon
  <2>6. ASSUME stored[t].phase # "preparing" PROVE View(t, stored'[t]) \in AnyView
    <3>1. stored'[t].revision \in 0..MaxRevision /\ stored'[t].phase = "detached"
      BY <2>2, <2>3, <2>6, StoredTyped DEF HelperTyped
    <3> QED BY <2>2, <3>1, ViewIsTyped DEF CardPhases, AnyView
  <2>7. intent' \in [at : {"none", "clearing", "answer"}, view : AnyView]
    BY <2>1, <2>3, <2>6
  <2>8. stored' \in [Threads -> [revision : 0..MaxRevision,
                                 phase : CardPhases \cup {"completed", "dismissed"}]]
        /\ shut' \subseteq Threads
    BY <1>1, <2>2, <2>3, StoredTyped
  <2>9. UNCHANGED <<pendingUi, drain, restores, snapshots, entry, order, target, bridge, wire, page,
                    lives, renewed, overtaken>>
    BY <1>4 DEF Click
  <2> QED BY <2>5, <2>7, <2>8, <2>9
          DEF wire, page, HelperTyped, PublisherTyped, WindowTyped, OrderTyped, PageTyped, PastTyped, BridgeInv
<1>5. CASE Answer
  <2> DEFINE v == IF intent.view.phase = "preparing" THEN NoView ELSE intent.view
  <2>1. v \in AnyView /\ NoIntent \in [at : {"none", "clearing", "answer"}, view : AnyView]
    BY <1>1, NoViewIsNone DEF NoIntent
  <2>2. /\ intent' = NoIntent
        /\ \/ bridge' = [bridge EXCEPT !.latest = v] /\ config' = v
           \/ UNCHANGED <<bridge, config>>
        /\ UNCHANGED <<helper, publisher, order, target, wire, route, watcher, loading, lives, past>>
    BY <1>5 DEF Answer
  <2> HIDE DEF v
  <2>3. /\ bridge' \in [up : BOOLEAN, first : 0..lives, life : 0..lives, latest : AnyView]
        /\ bridge'.up = bridge.up /\ bridge'.life = bridge.life /\ bridge'.first = bridge.first
        /\ config' \in AnyView
    BY <1>1, <2>1, <2>2
  <2> QED BY <2>1, <2>2, <2>3
          DEF helper, publisher, wire, past, HelperTyped, PublisherTyped, WindowTyped, OrderTyped,
              PageTyped, PastTyped, BridgeInv
<1>6. CASE Timeout
  <2>1. NoIntent \in [at : {"none", "clearing", "answer"}, view : AnyView]
    BY NoViewIsNone DEF NoIntent
  <2> QED BY <1>6, <2>1
          DEF Timeout, helper, publisher, wire, page, past, HelperTyped, PublisherTyped, WindowTyped,
              OrderTyped, PageTyped, PastTyped, BridgeInv
<1>7. CASE Navigate
  <2>1. PICK r \in Routes \ {route} :
          /\ route' = r /\ watcher' = [watcher EXCEPT !.sequence = @ + 1]
          /\ reports' = reports \cup Signal(r, watcher'.sequence, watcher.life)
    BY <1>7 DEF Navigate
  <2>2. r \in AnyThread BY DeliveryAssumption DEF AnyThread
  <2>3. watcher' \in [life : 1..lives, sequence : Nat] /\ watcher'.sequence \in Nat BY <1>1, <2>1
  <2>4. reports' \subseteq [thread : AnyThread, sequence : Nat, life : 1..lives]
    BY <1>1, <1>2, <1>3, <2>1, <2>2, <2>3
  <2> QED BY <1>7, <2>1, <2>3, <2>4
          DEF Navigate, helper, publisher, past, HelperTyped, PublisherTyped, WindowTyped,
              OrderTyped, PageTyped, PastTyped, BridgeInv
<1>8. CASE Reload
  <2>1. bridge.up /\ bridge.first \in 1..lives BY <1>1, <1>8 DEF Reload, BridgeInv
  <2>2. /\ config' = NoView /\ loading' = TRUE /\ watcher' = [life |-> bridge.first, sequence |-> 1]
        /\ reports' = reports \cup Signal(route, 1, bridge.first)
        /\ UNCHANGED <<helper, publisher, order, target, bridge, intent, notices, route, lives, past>>
    BY <1>8 DEF Reload
  <2>3. reports' \subseteq [thread : AnyThread, sequence : Nat, life : 1..lives]
    BY <1>1, <1>2, <2>1, <2>2
  <2>4. watcher' \in [life : 1..lives, sequence : Nat] BY <2>1, <2>2
  <2> QED BY <2>2, <2>3, <2>4, NoViewIsNone
          DEF helper, publisher, past, HelperTyped, PublisherTyped, WindowTyped,
              OrderTyped, PageTyped, PastTyped, BridgeInv
<1>9. ASSUME lives' = lives + 1, UNCHANGED <<helper, publisher, order, intent, notices, route, overtaken, shut>>,
             watcher' = [life |-> lives + 1, sequence |-> 1], loading' \in BOOLEAN,
             config' \in AnyView, renewed' \in BOOLEAN,
             target' \in [at : {"absent", "opening", "reading", "ready"}, thread : AnyThread],
             bridge' \in [up : BOOLEAN, first : 0..lives + 1, life : 0..lives + 1, latest : AnyView],
             BridgeInv',
             reports' \subseteq reports \cup [thread : AnyThread, sequence : Nat, life : {lives + 1}]
      PROVE  Typed'
  <2>1. 1..lives \subseteq 1..(lives + 1) /\ 0..lives \subseteq 0..(lives + 1) /\ lives + 1 \in 1..(lives + 1)
    BY <1>1
  <2>2. OrderTyped' BY <1>1, <1>9, <2>1 DEF OrderTyped
  <2>3. PageTyped' BY <1>1, <1>9, <2>1 DEF PageTyped
  <2>4. WindowTyped' BY <1>1, <1>9 DEF WindowTyped
  <2>5. HelperTyped' /\ PublisherTyped' /\ PastTyped'
    BY <1>1, <1>9 DEF helper, publisher, HelperTyped, PublisherTyped, PastTyped
  <2> QED BY <1>9, <2>2, <2>3, <2>4, <2>5
<1>10. CASE Load
  <2>1. /\ lives' = lives + 1 /\ watcher' = [life |-> lives + 1, sequence |-> 1] /\ loading' = FALSE
        /\ bridge' = [bridge EXCEPT !.life = lives + 1]
        /\ config' \in {config, bridge.latest}
        /\ reports' \subseteq reports \cup {[thread |-> route, sequence |-> 1, life |-> lives + 1],
                                            [thread |-> route, sequence |-> 0, life |-> lives + 1]}
        /\ UNCHANGED <<helper, publisher, order, target, intent, notices, route, past>>
    BY <1>10 DEF Load
  <2>2. bridge' \in [up : BOOLEAN, first : 0..lives + 1, life : 0..lives + 1, latest : AnyView]
        /\ bridge'.up = bridge.up /\ bridge'.life = lives + 1 /\ bridge'.first = bridge.first
    BY <1>1, <2>1
  <2>3. BridgeInv'
    <3>1. target' = target /\ bridge'.life # 0 BY <1>1, <2>1, <2>2
    <3> QED BY <2>2, <3>1 DEF BridgeInv
  <2>4. config' \in AnyView /\ renewed' \in BOOLEAN /\ UNCHANGED <<overtaken, shut>>
    BY <1>1, <2>1 DEF past
  <2>5. reports' \subseteq reports \cup [thread : AnyThread, sequence : Nat, life : {lives + 1}]
    BY <1>1, <2>1
  <2> QED BY <1>1, <1>9, <2>1, <2>2, <2>3, <2>4, <2>5
<1>11. CASE ConnectOpen
  <2>1. /\ lives' = lives + 1 /\ watcher' = [life |-> lives + 1, sequence |-> 1] /\ loading' = loading
        /\ bridge' = [up |-> TRUE, first |-> lives + 1, life |-> lives + 1, latest |-> NoView]
        /\ target' = [target EXCEPT !.at = "reading"] /\ config' = NoView /\ renewed' = TRUE
        /\ reports' = reports \cup {[thread |-> route, sequence |-> 1, life |-> lives + 1]}
        /\ UNCHANGED <<helper, publisher, order, intent, notices, route, overtaken, shut>>
    BY <1>11 DEF ConnectOpen
  <2>2. /\ bridge' \in [up : BOOLEAN, first : 0..lives + 1, life : 0..lives + 1, latest : AnyView]
        /\ target' \in [at : {"absent", "opening", "reading", "ready"}, thread : AnyThread]
        /\ target'.at = "reading"
    BY <1>1, <2>1, NoViewIsNone
  <2>3. BridgeInv' BY <1>1, <2>1, <2>2 DEF BridgeInv
  <2>4. reports' \subseteq reports \cup [thread : AnyThread, sequence : Nat, life : {lives + 1}]
    BY <1>1, <2>1
  <2> QED BY <1>1, <1>9, <2>1, <2>2, <2>3, <2>4, NoViewIsNone
<1>12. CASE Fail
  <2>1. /\ notices' = notices + 1 /\ loading' = FALSE /\ target.at = "ready"
        /\ \/ bridge' = [bridge EXCEPT !.up = FALSE] /\ UNCHANGED target
           \/ target' = NoTarget /\ bridge' = NoBridge
        /\ UNCHANGED <<helper, publisher, order, intent, reports, route, config, watcher, lives, past>>
    BY <1>12 DEF Fail
  <2>2. /\ target' \in [at : {"absent", "opening", "reading", "ready"}, thread : AnyThread]
        /\ bridge' \in [up : BOOLEAN, first : 0..lives, life : 0..lives, latest : AnyView]
        /\ BridgeInv'
    <3>1. CASE bridge' = [bridge EXCEPT !.up = FALSE] /\ UNCHANGED target
      <4>1. bridge' \in [up : BOOLEAN, first : 0..lives, life : 0..lives, latest : AnyView]
            /\ bridge'.up = FALSE
        BY <1>1, <3>1
      <4>2. BridgeInv' BY <2>1, <3>1, <4>1 DEF BridgeInv
      <4> QED BY <1>1, <3>1, <4>1, <4>2
    <3>2. CASE target' = NoTarget /\ bridge' = NoBridge
      <4>1. Destroy BY <2>1, <3>2 DEF Destroy
      <4> QED BY <2>1, <4>1, DestroyTyped
    <3> QED BY <2>1, <3>1, <3>2
  <2>3. WindowTyped' /\ OrderTyped' BY <1>1, <2>1, <2>2 DEF WindowTyped, OrderTyped
  <2>4. PageTyped' BY <1>1, <2>1 DEF PageTyped
  <2>5. HelperTyped' /\ PublisherTyped' /\ PastTyped'
    BY <2>1 DEF helper, publisher, past, HelperTyped, PublisherTyped, PastTyped
  <2> QED BY <2>2, <2>3, <2>4, <2>5
<1>13. CASE Connect
  <2>1. /\ target.at = "absent" /\ target' = [at |-> "opening", thread |-> NoThread]
        /\ UNCHANGED <<helper, publisher, order, bridge, intent, wire, page, lives, past>>
    BY <1>13 DEF Connect
  <2>2. target' \in [at : {"absent", "opening", "reading", "ready"}, thread : AnyThread]
        /\ target'.at = "opening"
    BY <2>1 DEF AnyThread
  <2>3. bridge' = bridge /\ BridgeInv' BY <2>1, <2>2 DEF BridgeInv
  <2> QED BY <2>1, <2>2, <2>3
          DEF helper, publisher, wire, page, past, HelperTyped, PublisherTyped, WindowTyped,
              OrderTyped, PageTyped, PastTyped
<1>14. CASE ConnectRead
  <2>1. /\ target.at = "reading" /\ target' = [at |-> "ready", thread |-> route]
        /\ reports' = reports \cup {[thread |-> route, sequence |-> 0, life |-> bridge.life]}
        /\ UNCHANGED <<helper, publisher, order, bridge, intent, notices, page, lives, past>>
    BY <1>14 DEF ConnectRead
  <2>2. target' \in [at : {"absent", "opening", "reading", "ready"}, thread : AnyThread]
        /\ target'.at = "ready"
    BY <1>1, <2>1
  <2>3. bridge.life \in 1..lives BY <1>1, <2>1 DEF BridgeInv
  <2>4. reports' \subseteq [thread : AnyThread, sequence : Nat, life : 1..lives]
    BY <1>1, <2>1, <2>3
  <2>5. BridgeInv' BY <2>1, <2>2 DEF BridgeInv
  <2> QED BY <2>1, <2>2, <2>4, <2>5
          DEF helper, publisher, page, past, HelperTyped, PublisherTyped, WindowTyped,
              OrderTyped, PageTyped, PastTyped
<1>15. CASE Change
  <2>0. PICK t \in Threads : \E s \in Successors(stored[t]) :
          /\ s.revision <= MaxRevision /\ stored' = [stored EXCEPT ![t] = s]
          /\ pendingUi' = [pendingUi EXCEPT ![t] = View(t, s)]
    BY <1>15 DEF Change
  <2>1. PICK s \in Successors(stored[t]) :
          /\ s.revision <= MaxRevision /\ stored' = [stored EXCEPT ![t] = s]
          /\ pendingUi' = [pendingUi EXCEPT ![t] = View(t, s)]
    BY <2>0
  <2>2. /\ s \in [revision : 0..MaxRevision, phase : CardPhases \cup {"completed", "dismissed"}]
        /\ s.revision \in 0..MaxRevision /\ s.phase \in CardPhases \cup {"completed"}
    BY <2>1, StoredTyped DEF CardPhases
  <2>3. View(t, s) \in AnyView BY <2>2, ViewIsTyped DEF AnyView
  <2>4. HelperTyped'
    <3>1. UNCHANGED <<drain, restores>> BY <1>15 DEF Change
    <3>2. pendingUi' \in [Threads -> AnyView] BY <1>1, <2>1, <2>3
    <3>3. stored' \in [Threads -> [revision : 0..MaxRevision,
                                   phase : CardPhases \cup {"completed", "dismissed"}]]
      BY <2>1, <2>2 DEF HelperTyped
    <3> QED BY <3>1, <3>2, <3>3 DEF HelperTyped
  <2> QED BY <1>15, <2>4
          DEF Change, publisher, wire, page, past, PublisherTyped, WindowTyped,
              OrderTyped, PageTyped, PastTyped, BridgeInv
<1> QED BY <1>4, <1>5, <1>6, <1>7, <1>8, <1>10, <1>11, <1>12, <1>13, <1>14, <1>15

LEMMA StepTyped == ASSUME Typed, [Next]_vars PROVE Typed'
<1>1. CASE Next BY <1>1, ReportTyped, DrainTyped, QueueTyped, OutsideTyped DEF Next, Work
<1>2. CASE UNCHANGED vars
  BY <1>2 DEF vars, helper, publisher, wire, page, past, Typed, HelperTyped, PublisherTyped,
              WindowTyped, OrderTyped, PageTyped, PastTyped, BridgeInv
<1> QED BY <1>1, <1>2

\* The variables keep their types, for any set of threads and routes and any bounds.
THEOREM DeliveryIsTyped == Spec => []TypeOK
<1>1. Init => Typed BY InitTyped
<1>2. Typed /\ [Next]_vars => Typed' BY StepTyped
<1>3. Typed => TypeOK BY TypeParts DEF Typed
<1> QED BY <1>1, <1>2, <1>3, PTL DEF Spec

-----------------------------------------------------------------------------
(* The shape of the queue                                                  *)

LEMMA DrainAppended ==
  ASSUME NEW S, NEW q \in Seq(S), NEW x \in S, OneDrain(q), x.from = "drain" => NoDrain(q)
  PROVE  OneDrain(Append(q, x))
<1>1. /\ Len(Append(q, x)) = Len(q) + 1 /\ Len(q) \in Nat
      /\ \A i \in 1..Len(q) : Append(q, x)[i] = q[i]
      /\ Append(q, x)[Len(q) + 1] = x
      /\ \A i \in 1..(Len(q) + 1) : i \in 1..Len(q) \/ i = Len(q) + 1
  OBVIOUS
<1>2. \A i \in 1..Len(q) : x.from = "drain" => q[i].from # "drain" BY DEF NoDrain, Elements
<1> QED BY <1>1, <1>2 DEF OneDrain

LEMMA DrainPopped ==
  ASSUME NEW S, NEW q \in Seq(S), q # <<>>, OneDrain(q)
  PROVE  /\ OneDrain(Tail(q)) /\ (Head(q).from = "drain" => NoDrain(Tail(q)))
         /\ NoDrain(q) => NoDrain(Tail(q))
<1>1. /\ Head(q) = q[1] /\ Len(q) \in Nat /\ Len(q) >= 1
      /\ Len(Tail(q)) = Len(q) - 1 /\ \A i \in 1..(Len(q) - 1) : Tail(q)[i] = q[i + 1]
  OBVIOUS
<1>2. 1 \in 1..Len(q) /\ \A i \in 1..(Len(q) - 1) : i + 1 \in 1..Len(q) /\ i + 1 # 1 BY <1>1
<1>3. OneDrain(Tail(q))
  <2> SUFFICES ASSUME NEW i \in 1..(Len(q) - 1), NEW j \in 1..(Len(q) - 1),
                      q[i + 1].from = "drain", q[j + 1].from = "drain"
               PROVE  i = j
    BY <1>1 DEF OneDrain
  <2>1. i + 1 = j + 1 BY <1>2 DEF OneDrain
  <2> QED BY <1>1, <2>1
<1>4. Elements(Tail(q)) \subseteq Elements(q) BY Popped
<1>5. ASSUME Head(q).from = "drain", NEW y \in Elements(Tail(q)) PROVE y.from # "drain"
  <2>1. PICK i \in 1..(Len(q) - 1) : y = q[i + 1] BY <1>1 DEF Elements
  <2> QED BY <1>1, <1>2, <1>5, <2>1 DEF OneDrain
<1> QED BY <1>3, <1>4, <1>5 DEF NoDrain

LEMMA DrainReplaced ==
  ASSUME NEW S, NEW q \in Seq(S), q # <<>>, NEW x \in S, x.from # "drain", OneDrain(q)
  PROVE  OneDrain(<<x>> \o Tail(q))
<1> DEFINE p == <<x>> \o Tail(q)
<1>1. /\ Tail(q) \in Seq(S) /\ Len(q) \in Nat /\ Len(q) >= 1 /\ Len(Tail(q)) = Len(q) - 1
      /\ \A i \in 1..(Len(q) - 1) : Tail(q)[i] = q[i + 1]
  OBVIOUS
<1>2. Len(p) = Len(q) /\ p[1] = x BY <1>1
<1>3. ASSUME NEW i \in 2..Len(q) PROVE p[i] = q[i]
  <2>1. p[i] = Tail(q)[i - 1] BY <1>1
  <2>2. i - 1 \in 1..(Len(q) - 1) /\ (i - 1) + 1 = i BY <1>1
  <2> QED BY <1>1, <2>1, <2>2
<1> HIDE DEF p
<1>4. \A i \in 1..Len(q) : i = 1 \/ i \in 2..Len(q) BY <1>1
<1> QED BY <1>2, <1>3, <1>4 DEF OneDrain, p

\* An item that is added, and the head that is taken away.
LEMMA GrowsInShape ==
  ASSUME Typed, Shape, NEW x \in Items, IsItem(x), x.op # "deliver", queue' = Append(queue, x),
         UNCHANGED <<entry, snapshots>>,
         x.from = "drain" => drain.at # "waiting" /\ drain' = [at |-> "waiting", view |-> NoView],
         x.from # "drain" => drain' = drain
  PROVE  Shape'
<1>1. queue \in Seq(Items) BY DEF Typed, PublisherTyped
<1>2. Elements(queue') = Elements(queue) \cup {x} /\ Behind(queue') \subseteq Behind(queue) \cup {x}
  BY <1>1, Appended
<1>3. OneDrain(queue') BY <1>1, DrainAppended DEF Shape, QueueInv
<1>4. drain'.at # "waiting" => NoDrain(queue')
  BY <1>2 DEF Shape, QueueInv, NoDrain
<1>5. ItemInv' BY <1>2 DEF Shape, ItemInv
<1>6. \A y \in Behind(queue') : y.op # "deliver" BY <1>2 DEF Shape, QueueInv
<1>7. \A y \in Elements(queue') : y.op = "deliver" => entry'.known /\ entry'.thread = y.thread
  BY <1>2 DEF Shape, QueueInv
<1> QED BY <1>3, <1>4, <1>5, <1>6, <1>7 DEF Shape, QueueInv

LEMMA PopsInShape ==
  ASSUME Typed, Shape, queue # <<>>, queue' = Tail(queue),
         drain' = IF Head(queue).from = "drain" THEN [at |-> "idle", view |-> NoView] ELSE drain,
         \A t \in Threads : snapshots'[t] # NoView => snapshots'[t] \in Views /\ snapshots'[t].thread = t
  PROVE  Shape'
<1>1. queue \in Seq(Items) BY DEF Typed, PublisherTyped
<1>2. /\ Elements(queue) = {Head(queue)} \cup Behind(queue)
      /\ Elements(queue') = Behind(queue) /\ Behind(queue') \subseteq Behind(queue)
  BY <1>1, Popped
<1>3. /\ OneDrain(queue') /\ (Head(queue).from = "drain" => NoDrain(queue'))
      /\ NoDrain(queue) => NoDrain(queue')
  BY <1>1, DrainPopped DEF Shape, QueueInv
<1>4. drain'.at # "waiting" => NoDrain(queue')
  BY <1>3 DEF Shape, QueueInv
<1>5. ItemInv' BY <1>2 DEF Shape, ItemInv
<1> QED BY <1>2, <1>3, <1>4, <1>5 DEF Shape, QueueInv

LEMMA InitShape == Init => Shape
<1> SUFFICES ASSUME Init PROVE Shape OBVIOUS
<1>1. Typed BY InitTyped
<1>2. queue = <<>> /\ drain.at = "idle" BY DEF Init
<1>3. Elements(queue) = {} /\ Behind(queue) = {} /\ Len(queue) = 0 BY <1>2 DEF Elements, Behind
<1>4. ASSUME NEW t \in Threads, snapshots[t] # NoView PROVE snapshots[t] \in Views /\ snapshots[t].thread = t
  <2>1. /\ snapshots = [u \in Threads |-> IF u = route THEN (IF route # NoThread THEN View(route, stored[route])
                                                            ELSE NoView) ELSE NoView]
        /\ snapshots \in [Threads -> AnyView]
    BY <1>1 DEF Init, Typed, PublisherTyped
  <2>2. snapshots[t] = View(route, stored[route]) /\ route = t
    BY <1>4, <2>1
  <2>3. snapshots[t].thread = t BY <2>2 DEF View
  <2> QED BY <1>4, <2>1, <2>3 DEF AnyView
<1> QED BY <1>2, <1>3, <1>4 DEF Shape, ItemInv, QueueInv, OneDrain, NoDrain

\* Each kind of item that is added.
LEMMA NewItems ==
  ASSUME NEW t \in AnyThread
  PROVE  /\ Item("recover", "report", t, NoView) \in Items /\ IsItem(Item("recover", "report", t, NoView))
         /\ Item("activate", "report", t, NoView) \in Items /\ IsItem(Item("activate", "report", t, NoView))
         /\ Item("disconnect", "notice", t, NoView) \in Items
         /\ IsItem(Item("disconnect", "notice", t, NoView))
         /\ t \in Threads => /\ Item("clear", "drain", t, NoView) \in Items
                             /\ IsItem(Item("clear", "drain", t, NoView))
                             /\ Item("clear", "intent", t, NoView) \in Items
                             /\ IsItem(Item("clear", "intent", t, NoView))
         /\ \A v \in Views : /\ Item("publish", "drain", v.thread, v) \in Items
                             /\ IsItem(Item("publish", "drain", v.thread, v))
                             /\ Item("deliver", "report", v.thread, v) \in Items
                             /\ IsItem(Item("deliver", "report", v.thread, v))
<1>1. NoView \in AnyView BY NoViewIsNone
<1>2. \A v \in Views : v \in AnyView /\ v.thread \in AnyThread BY NoViewIsNone DEF AnyView, AnyThread
<1> QED BY <1>1, <1>2, ItemIsTyped DEF IsItem, FromReport

LEMMA KeepsShape ==
  ASSUME Shape, UNCHANGED <<queue, snapshots, entry>>,
         drain' = drain \/ (drain.at # "waiting" /\ drain'.at # "waiting"
                             /\ (drain'.at = "preferences" => drain'.view \in Views))
  PROVE  Shape'
  BY DEF Shape, ItemInv, QueueInv

\* What the head that is run leaves.
LEMMA RunsInShape ==
  ASSUME Typed, Shape, RunRecover \/ RunActivate \/ RunDeliver \/ RunPublish \/ RunClear \/ RunDisconnect
  PROVE  Shape'
<1>1. queue # <<>> BY DEF RunRecover, RunActivate, RunDeliver, RunPublish, RunClear, RunDisconnect, Head1
<1>2. /\ queue \in Seq(Items) /\ Head(queue) \in Items /\ Tail(queue) \in Seq(Items)
      /\ Elements(queue) = {Head(queue)} \cup Behind(queue)
      /\ Elements(Tail(queue)) = Behind(queue) /\ Behind(Tail(queue)) \subseteq Behind(queue)
  BY <1>1, Popped DEF Typed, PublisherTyped
<1>3. IsItem(Head(queue)) BY <1>2 DEF Shape, ItemInv
<1>4. \A t \in Threads : snapshots[t] # NoView => snapshots[t] \in Views /\ snapshots[t].thread = t
  BY DEF Shape, ItemInv
<1>5. ASSUME Done(Head(queue)) \/ Failed(Head(queue)),
             \A t \in Threads : snapshots'[t] # NoView => snapshots'[t] \in Views /\ snapshots'[t].thread = t
      PROVE  Shape'
  BY <1>1, <1>5, PopsInShape DEF Done, Failed
<1>6. CASE RunRecover
  <2> DEFINE x == Item("activate", "report", Observed(Head(queue)), NoView)
  <2>1. Observed(Head(queue)) \in AnyThread
    BY <1>2, DeliveryAssumption DEF Observed, Items, AnyThread, Typed, PageTyped
  <2>2. x \in Items /\ IsItem(x) /\ x.op = "activate" /\ x.from = "report"
    BY <2>1, NewItems DEF Item
  <2>3. queue' = Append(Tail(queue), x) /\ UNCHANGED <<drain, snapshots, entry>>
    BY <1>6 DEF RunRecover, helper
  <2> HIDE DEF x
  <2>4. Elements(queue') = Behind(queue) \cup {x} /\ Behind(queue') \subseteq Behind(queue) \cup {x}
    BY <1>2, <2>2, <2>3, Appended
  <2>5. OneDrain(Tail(queue)) BY <1>1, <1>2, DrainPopped DEF Shape, QueueInv
  <2>6. OneDrain(queue') BY <1>2, <2>2, <2>3, <2>5, DrainAppended
  <2>7. NoDrain(queue) => NoDrain(queue') BY <1>2, <2>2, <2>4 DEF NoDrain
  <2>8. ItemInv' BY <1>2, <2>2, <2>3, <2>4 DEF Shape, ItemInv
  <2> QED BY <1>2, <2>2, <2>3, <2>4, <2>6, <2>7, <2>8 DEF Shape, QueueInv
<1>7. CASE RunActivate
  <2> DEFINE item == Head(queue)
             v == IF item.thread = NoThread THEN NoView ELSE snapshots[item.thread]
             x == Item("deliver", "report", item.thread, v)
  <2>1. snapshots' = snapshots /\ item.op = "activate" BY <1>7 DEF RunActivate, Head1
  <2>2. \/ Done(item) \/ Failed(item)
        \/ /\ v # NoView /\ queue' = <<x>> \o Tail(queue) /\ entry' = EntryFor(item.thread)
           /\ UNCHANGED drain
    BY <1>7 DEF RunActivate, Follow
  <2>3. CASE Done(item) \/ Failed(item) BY <1>4, <1>5, <2>1, <2>3
  <2>4. CASE /\ v # NoView /\ queue' = <<x>> \o Tail(queue) /\ entry' = EntryFor(item.thread)
             /\ UNCHANGED drain
    <3>1. item.thread \in Threads /\ v = snapshots[item.thread]
      BY <1>2, <2>4 DEF Items
    <3>2. v \in Views /\ v.thread = item.thread BY <1>4, <2>4, <3>1
    <3>3. x \in Items /\ IsItem(x) /\ x.op = "deliver" /\ x.from = "report" /\ x.thread = item.thread
      BY <3>1, <3>2, NewItems DEF Item, AnyThread
    <3>4. entry'.known /\ entry'.thread = item.thread BY <2>4 DEF EntryFor
    <3> HIDE DEF x, v
    <3>5. Elements(queue') = {x} \cup Behind(queue) /\ Behind(queue') = Behind(queue)
      BY <1>1, <1>2, <2>4, <3>3, Replaced
    <3>6. OneDrain(queue') BY <1>1, <1>2, <2>4, <3>3, DrainReplaced DEF Shape, QueueInv
    <3>7. NoDrain(queue) => NoDrain(queue') BY <1>2, <3>3, <3>5 DEF NoDrain
    <3>8. ItemInv' BY <1>2, <2>1, <2>4, <3>3, <3>5 DEF Shape, ItemInv
    <3> QED BY <2>4, <3>3, <3>4, <3>5, <3>6, <3>7, <3>8 DEF Shape, QueueInv
  <2> QED BY <2>2, <2>3, <2>4
<1>8. CASE RunDeliver \/ RunDisconnect
  BY <1>4, <1>5, <1>8 DEF RunDeliver, RunDisconnect
<1>9. CASE RunPublish
  <2>1. /\ snapshots' = [snapshots EXCEPT ![Head(queue).thread] = Head(queue).view]
        /\ Done(Head(queue)) /\ Head(queue).op = "publish"
    BY <1>9 DEF RunPublish, Head1
  <2>2. Head(queue).view \in Views /\ Head(queue).view.thread = Head(queue).thread
    BY <1>3, <2>1 DEF IsItem
  <2>3. \A t \in Threads : snapshots'[t] # NoView => snapshots'[t] \in Views /\ snapshots'[t].thread = t
    BY <1>4, <2>1, <2>2 DEF Typed, PublisherTyped
  <2> QED BY <1>5, <2>1, <2>3
<1>10. CASE RunClear
  <2>1. /\ snapshots' = [snapshots EXCEPT ![Head(queue).thread] = NoView]
        /\ Done(Head(queue)) \/ Failed(Head(queue))
    BY <1>10 DEF RunClear
  <2>2. \A t \in Threads : snapshots'[t] # NoView => snapshots'[t] \in Views /\ snapshots'[t].thread = t
    BY <1>4, <2>1 DEF Typed, PublisherTyped
  <2> QED BY <1>5, <2>1, <2>2
<1> QED BY <1>6, <1>7, <1>8, <1>9, <1>10

\* What is added behind, and what leaves the queue alone.
LEMMA GrowthInShape ==
  ASSUME Typed, Shape, ReportArrives \/ NoticeArrives \/ DrainTake \/ DrainPublish \/ Click
  PROVE  Shape'
<1>1. ASSUME NEW x \in Items, IsItem(x), x.op # "deliver", x.from # "drain",
             queue' \in {queue, Append(queue, x)}, UNCHANGED <<entry, snapshots, drain>>
      PROVE  Shape'
  BY <1>1, GrowsInShape, KeepsShape
<1>2. CASE ReportArrives
  <2>1. PICK r \in reports : queue' \in {queue, Append(queue, Item("recover", "report", r.thread, NoView))}
    BY <1>2 DEF ReportArrives
  <2> DEFINE x == Item("recover", "report", r.thread, NoView)
  <2>2. r.thread \in AnyThread BY DEF Typed, OrderTyped
  <2>3. x \in Items /\ IsItem(x) /\ x.op = "recover" /\ x.from = "report" BY <2>2, NewItems DEF Item
  <2>4. UNCHANGED <<entry, snapshots, drain>> BY <1>2 DEF ReportArrives, helper
  <2> HIDE DEF x
  <2> QED BY <1>1, <2>1, <2>3, <2>4 DEF x
<1>3. CASE NoticeArrives
  <2> DEFINE x == Item("disconnect", "notice", NoThread, NoView)
  <2>1. queue' \in {queue, Append(queue, x)} /\ UNCHANGED <<entry, snapshots, drain>>
    BY <1>3 DEF NoticeArrives, helper
  <2>2. x \in Items /\ IsItem(x) /\ x.op = "disconnect" /\ x.from = "notice"
    BY NewItems DEF Item, AnyThread
  <2> HIDE DEF x
  <2> QED BY <1>1, <2>1, <2>2
<1>4. CASE Click
  <2> DEFINE x == Item("clear", "intent", Shown.thread, NoView)
  <2>1. queue' \in {queue, Append(queue, x)} /\ UNCHANGED <<entry, snapshots, drain>>
    BY <1>4 DEF Click
  <2>2. Shown \in AnyView /\ Shown.phase \in {"preparing", "active"}
    BY <1>4, NoViewIsNone DEF Click, Shown, Typed, PageTyped
  <2>3. Shown.thread \in Threads BY <2>2, NoViewIsNone DEF AnyView, NoView
  <2>4. x \in Items /\ IsItem(x) /\ x.op = "clear" /\ x.from = "intent"
    BY <2>3, NewItems DEF Item, AnyThread
  <2> HIDE DEF x
  <2> QED BY <1>1, <2>1, <2>4
<1>5. CASE DrainTake
  <2>1. PICK t \in Threads :
          \/ /\ queue' = Append(queue, Item("clear", "drain", t, NoView))
             /\ drain' = [at |-> "waiting", view |-> NoView]
          \/ /\ pendingUi[t] # NoView
             /\ drain' = [at |-> "preferences", view |-> pendingUi[t]] /\ UNCHANGED queue
          \/ UNCHANGED <<drain, queue>>
    BY <1>5 DEF DrainTake
  <2>2. drain.at = "idle" /\ UNCHANGED <<entry, snapshots>> BY <1>5 DEF DrainTake
  <2>3. CASE /\ queue' = Append(queue, Item("clear", "drain", t, NoView))
             /\ drain' = [at |-> "waiting", view |-> NoView]
    <3> DEFINE x == Item("clear", "drain", t, NoView)
    <3>1. x \in Items /\ IsItem(x) /\ x.op = "clear" /\ x.from = "drain"
      BY NewItems DEF Item, AnyThread
    <3> HIDE DEF x
    <3> QED BY <2>2, <2>3, <3>1, GrowsInShape DEF x
  <2>4. CASE /\ pendingUi[t] # NoView
             /\ drain' = [at |-> "preferences", view |-> pendingUi[t]] /\ UNCHANGED queue
    <3>1. pendingUi[t] \in Views BY <2>4 DEF Typed, HelperTyped, AnyView
    <3> QED BY <2>2, <2>4, <3>1, KeepsShape
  <2>5. CASE UNCHANGED <<drain, queue>> BY <2>2, <2>5, KeepsShape
  <2> QED BY <2>1, <2>3, <2>4, <2>5
<1>6. CASE DrainPublish
  <2> DEFINE x == Item("publish", "drain", drain.view.thread, drain.view)
  <2>1. drain.at = "preferences" /\ drain.view \in Views
    BY <1>6 DEF DrainPublish, Shape, ItemInv
  <2>2. x \in Items /\ IsItem(x) /\ x.op = "publish" /\ x.from = "drain"
    BY <2>1, NewItems DEF Item, AnyThread
  <2>3. queue' = Append(queue, x) /\ drain' = [at |-> "waiting", view |-> NoView]
        /\ UNCHANGED <<entry, snapshots>>
    BY <1>6 DEF DrainPublish
  <2> HIDE DEF x
  <2> QED BY <2>1, <2>2, <2>3, GrowsInShape
<1> QED BY <1>2, <1>3, <1>4, <1>5, <1>6

LEMMA StepInShape == ASSUME Typed, Shape, [Next]_vars PROVE Shape'
<1>1. CASE Restore \/ Answer \/ Timeout \/ Load \/ ConnectOpen \/ ConnectRead \/ Navigate \/ Reload
           \/ Fail \/ Connect \/ Change \/ UNCHANGED vars
  <2>1. UNCHANGED <<queue, snapshots, entry, drain>>
    BY <1>1 DEF Restore, Answer, Timeout, Load, ConnectOpen, ConnectRead, Navigate, Reload, Fail,
                Connect, Change, vars, helper, publisher
  <2> QED BY <2>1, KeepsShape
<1> QED BY <1>1, RunsInShape, GrowthInShape DEF Next, Work

-----------------------------------------------------------------------------
(* What every step does to the queue and to the connection                 *)

Runs == RunRecover \/ RunActivate \/ RunDeliver \/ RunPublish \/ RunClear \/ RunDisconnect

\* The head goes, and no item but an activation or a delivery follows from it.
LEMMA RunsTakeHead ==
  ASSUME Typed, Runs
  PROVE  /\ queue # <<>> /\ Head(queue) \in Items
         /\ Elements(queue) = {Head(queue)} \cup Behind(queue)
         /\ Behind(queue) \subseteq Elements(queue')
         /\ \A y \in Elements(queue') \ Behind(queue) : y.op \in {"activate", "deliver"}
<1>1. queue # <<>>
  BY DEF Runs, RunRecover, RunActivate, RunDeliver, RunPublish, RunClear, RunDisconnect, Head1
<1>2. /\ queue \in Seq(Items) /\ Head(queue) \in Items /\ Tail(queue) \in Seq(Items)
      /\ Elements(queue) = {Head(queue)} \cup Behind(queue)
      /\ Elements(Tail(queue)) = Behind(queue)
  BY <1>1, Popped DEF Typed, PublisherTyped
<1>3. CASE Done(Head(queue)) \/ Failed(Head(queue))
  <2>1. queue' = Tail(queue) BY <1>3 DEF Done, Failed
  <2> QED BY <1>1, <1>2, <2>1
<1>4. CASE RunRecover
  <2> DEFINE x == Item("activate", "report", Observed(Head(queue)), NoView)
  <2>1. Observed(Head(queue)) \in AnyThread
    BY <1>2, DeliveryAssumption DEF Observed, Items, AnyThread, Typed, PageTyped
  <2>2. x \in Items /\ x.op = "activate" BY <2>1, NewItems DEF Item
  <2>3. queue' = Append(Tail(queue), x) BY <1>4 DEF RunRecover
  <2> HIDE DEF x
  <2>4. Elements(Append(Tail(queue), x)) = Elements(Tail(queue)) \cup {x} BY <1>2, <2>2, Appended
  <2>5. Elements(queue') = Behind(queue) \cup {x} BY <1>2, <2>3, <2>4
  <2> QED BY <1>1, <1>2, <2>2, <2>5
<1>5. CASE Follow(Head(queue)) /\ RunActivate
  <2> DEFINE v == IF Head(queue).thread = NoThread THEN NoView ELSE snapshots[Head(queue).thread]
             x == Item("deliver", "report", Head(queue).thread, v)
  <2>1. Done(Head(queue)) \/ queue' = <<x>> \o Tail(queue) BY <1>5 DEF Follow
  <2>2. Head(queue).thread \in AnyThread BY <1>2 DEF Items, AnyThread
  <2>3. v \in AnyView
    BY <2>2, NoViewIsNone DEF AnyThread, Typed, PublisherTyped
  <2>4. x \in Items /\ x.op = "deliver" BY <2>2, <2>3, ItemIsTyped
  <2> HIDE DEF x, v
  <2>5. CASE queue' = <<x>> \o Tail(queue)
    <3>1. Elements(queue') = {x} \cup Behind(queue) BY <1>1, <1>2, <2>4, <2>5, Replaced
    <3> QED BY <1>1, <1>2, <2>4, <3>1
  <2> QED BY <1>3, <2>1, <2>5
<1> QED BY <1>3, <1>4, <1>5 DEF Runs, RunActivate, RunDeliver, RunPublish, RunClear, RunDisconnect

\* What an item that is added leaves.
LEMMA QueueGrows ==
  ASSUME Typed, NEW x \in Items, queue' \in {queue, Append(queue, x)}
  PROVE  /\ Elements(queue) \subseteq Elements(queue') /\ Elements(queue') \subseteq Elements(queue) \cup {x}
         /\ queue' = Append(queue, x) => x \in Elements(queue')
<1>1. Elements(Append(queue, x)) = Elements(queue) \cup {x}
  BY Appended DEF Typed, PublisherTyped
<1>2. CASE queue' = queue BY <1>1, <1>2
<1>3. CASE queue' = Append(queue, x) BY <1>1, <1>3
<1> QED BY <1>2, <1>3

LEMMA ReportGrows ==
  ASSUME Typed, ReportArrives
  PROVE  /\ Elements(queue) \subseteq Elements(queue')
         /\ \A y \in Elements(queue') \ Elements(queue) : y.op = "recover"
<1>1. PICK r \in reports : queue' \in {queue, Append(queue, Item("recover", "report", r.thread, NoView))}
  BY DEF ReportArrives
<1> DEFINE x == Item("recover", "report", r.thread, NoView)
<1>2. r.thread \in AnyThread BY DEF Typed, OrderTyped
<1>3. x \in Items /\ x.op = "recover" BY <1>2, NewItems DEF Item
<1> HIDE DEF x
<1> QED BY <1>1, <1>3, QueueGrows DEF x

LEMMA NoticeGrows ==
  ASSUME Typed, NoticeArrives
  PROVE  /\ Elements(queue) \subseteq Elements(queue')
         /\ \A y \in Elements(queue') \ Elements(queue) : y.op = "disconnect"
         /\ HasTarget => \E y \in Elements(queue') : y.op = "disconnect"
<1> DEFINE x == Item("disconnect", "notice", NoThread, NoView)
<1>1. queue' \in {queue, Append(queue, x)} /\ (HasTarget => queue' = Append(queue, x)) BY DEF NoticeArrives
<1>2. x \in Items /\ x.op = "disconnect" BY NewItems DEF Item, AnyThread
<1> HIDE DEF x
<1> QED BY <1>1, <1>2, QueueGrows

LEMMA ClickGrows ==
  ASSUME Typed, Click
  PROVE  /\ Shown.thread \in Threads /\ Elements(queue) \subseteq Elements(queue')
         /\ \A y \in Elements(queue') \ Elements(queue) : y.op = "clear" /\ y.thread = Shown.thread
<1> DEFINE x == Item("clear", "intent", Shown.thread, NoView)
<1>1. queue' \in {queue, Append(queue, x)} BY DEF Click
<1>2. Shown \in AnyView /\ Shown.phase \in {"preparing", "active"}
  BY NoViewIsNone DEF Click, Shown, Typed, PageTyped
<1>3. Shown.thread \in Threads BY <1>2, NoViewIsNone DEF AnyView, NoView
<1>4. x \in Items /\ x.op = "clear" /\ x.thread = Shown.thread BY <1>3, NewItems DEF Item, AnyThread
<1> HIDE DEF x
<1> QED BY <1>1, <1>3, <1>4, QueueGrows

\* The drain loop takes what is pending of one thread.
LEMMA TakeGrows ==
  ASSUME Typed, DrainTake
  PROVE  \E t \in Threads :
           /\ pendingUi[t] # NoView /\ pendingUi' = [pendingUi EXCEPT ![t] = NoView]
           /\ Elements(queue) \subseteq Elements(queue')
           /\ \A y \in Elements(queue') \ Elements(queue) :
                y.op = "clear" /\ y.thread = t /\ pendingUi[t].phase = "completed"
           /\ \/ drain'.at = "waiting" /\ pendingUi[t].phase = "completed"
              \/ /\ drain' = [at |-> "preferences", view |-> pendingUi[t]]
                 /\ entry.known /\ entry.thread = t
              \/ drain' = drain /\ ~(entry.known /\ entry.thread = t)
<1>1. PICK t \in Threads :
        /\ pendingUi[t] # NoView /\ pendingUi' = [pendingUi EXCEPT ![t] = NoView]
        /\ \/ /\ queue' = Append(queue, Item("clear", "drain", t, NoView))
              /\ drain' = [at |-> "waiting", view |-> NoView] /\ pendingUi[t].phase = "completed"
           \/ /\ drain' = [at |-> "preferences", view |-> pendingUi[t]] /\ queue' = queue
              /\ entry.known /\ entry.thread = t
           \/ drain' = drain /\ queue' = queue /\ ~(entry.known /\ entry.thread = t)
  BY DEF DrainTake
<1> DEFINE x == Item("clear", "drain", t, NoView)
<1>2. x \in Items /\ x.op = "clear" /\ x.thread = t BY NewItems DEF Item, AnyThread
<1> HIDE DEF x
<1>3. Elements(queue) \subseteq Elements(queue') /\ Elements(queue') \subseteq Elements(queue) \cup {x}
  BY <1>1, <1>2, QueueGrows DEF x
<1>4. queue' = queue \/ pendingUi[t].phase = "completed" BY <1>1
<1>5. \A y \in Elements(queue') \ Elements(queue) :
        y.op = "clear" /\ y.thread = t /\ pendingUi[t].phase = "completed"
  BY <1>2, <1>3, <1>4
<1>6. \/ drain'.at = "waiting" /\ pendingUi[t].phase = "completed"
      \/ /\ drain' = [at |-> "preferences", view |-> pendingUi[t]]
         /\ entry.known /\ entry.thread = t
      \/ drain' = drain /\ ~(entry.known /\ entry.thread = t)
  BY <1>1
<1>7. pendingUi[t] # NoView /\ pendingUi' = [pendingUi EXCEPT ![t] = NoView] BY <1>1
<1> QED BY <1>3, <1>5, <1>6, <1>7, Zenon

LEMMA PublishGrows ==
  ASSUME Typed, Shape, DrainPublish
  PROVE  /\ Elements(queue) \subseteq Elements(queue')
         /\ \A y \in Elements(queue') \ Elements(queue) :
              y.op = "publish" /\ y.view = drain.view /\ y.thread = drain.view.thread
         /\ \E y \in Elements(queue') : y.op = "publish" /\ y.view = drain.view
         /\ drain.at = "preferences" /\ drain'.at = "waiting"
<1> DEFINE x == Item("publish", "drain", drain.view.thread, drain.view)
<1>1. drain.at = "preferences" /\ drain.view \in Views BY DEF DrainPublish, Shape, ItemInv
<1>2. x \in Items /\ x.op = "publish" /\ x.view = drain.view /\ x.thread = drain.view.thread
  BY <1>1, NewItems DEF Item, AnyThread
<1>3. queue' = Append(queue, x) /\ drain'.at = "waiting" BY DEF DrainPublish
<1> HIDE DEF x
<1> QED BY <1>1, <1>2, <1>3, QueueGrows

\* Every other step leaves the queue as it is.
LEMMA OthersRest ==
  ASSUME [Next]_vars, ~Runs, ~ReportArrives, ~NoticeArrives, ~Click, ~DrainTake, ~DrainPublish
  PROVE  queue' = queue
  BY DEF Next, Work, Runs, Restore, Answer, Timeout, Load, ConnectOpen, ConnectRead, Navigate, Reload,
         Fail, Connect, Change, vars, publisher

\* Only a notice announces a disconnection, and only the disconnection ends it.
LEMMA DirtyMoves ==
  ASSUME Typed, Shape, [Next]_vars
  PROVE  /\ Dirty /\ ~RunDisconnect /\ ~NoticeArrives => Dirty'
         /\ ~Dirty /\ notices' = notices => ~Dirty'
<1>1. notices' = notices \/ NoticeArrives \/ (Fail /\ notices' = notices + 1)
  BY DEF Next, Work, ReportArrives, NoticeArrives, Restore, DrainTake, DrainPublish, RunRecover,
         RunActivate, RunPublish, RunDeliver, RunClear, RunDisconnect, Answer, Timeout, Load,
         ConnectOpen, ConnectRead, Click, Navigate, Reload, Fail, Connect, Change, vars, wire
<1>2. notices \in Nat BY DEF Typed, OrderTyped
<1>3. NoticeArrives => notices' # notices BY <1>2 DEF NoticeArrives
<1>4. CASE Runs
  <2>1. /\ Elements(queue) = {Head(queue)} \cup Behind(queue)
        /\ Behind(queue) \subseteq Elements(queue')
        /\ \A y \in Elements(queue') \ Behind(queue) : y.op \in {"activate", "deliver"}
    BY <1>4, RunsTakeHead
  <2>2. Head(queue).op = "disconnect" => RunDisconnect
    BY <1>4 DEF Runs, RunRecover, RunActivate, RunPublish, RunDeliver, RunClear, Head1
  <2> QED BY <1>1, <1>2, <2>1, <2>2 DEF Dirty
<1>5. CASE ~Runs
  <2>1. /\ Elements(queue) \subseteq Elements(queue')
        /\ \A y \in Elements(queue') \ Elements(queue) : y.op = "disconnect" => NoticeArrives
    BY <1>5, ReportGrows, NoticeGrows, ClickGrows, TakeGrows, PublishGrows, OthersRest
  <2> QED BY <1>1, <1>2, <1>3, <2>1 DEF Dirty
<1> QED BY <1>4, <1>5

\* A delivery changes what was delivered, or costs the window its connection.
LEMMA DeliverKeeps ==
  ASSUME Typed, NEW v \in AnyView, Deliver(v)
  PROVE  /\ entry'.known = entry.known /\ entry'.thread = entry.thread
         /\ bridge'.up => /\ bridge.up /\ bridge'.life = bridge.life /\ UNCHANGED <<target, loading>>
         /\ \/ UNCHANGED <<entry, target, bridge, config, loading>>
            \/ entry' = [entry EXCEPT !.delivered = NoView] /\ UNCHANGED <<target, bridge, config, loading>>
               /\ (target.at = "ready" => target.thread # v.thread) /\ target.at \in {"absent", "ready"}
            \/ /\ target.at = "ready" /\ bridge.up /\ target.thread = v.thread /\ config' = v
               /\ bridge' = [bridge EXCEPT !.latest = v] /\ entry' = [entry EXCEPT !.delivered = v]
               /\ UNCHANGED <<target, loading>>
            \/ entry' = [entry EXCEPT !.delivered = NoView] /\ Destroy
<1>1. /\ entry \in [known : BOOLEAN, thread : AnyThread, delivered : AnyView]
      /\ bridge \in [up : BOOLEAN, first : 0..lives, life : 0..lives, latest : AnyView]
  BY DEF Typed, PublisherTyped, WindowTyped
<1>2. \/ UNCHANGED <<entry, target, bridge, config, loading>>
      \/ entry' = [entry EXCEPT !.delivered = NoView] /\ UNCHANGED <<target, bridge, config, loading>>
         /\ (target.at = "ready" => target.thread # v.thread) /\ target.at \in {"absent", "ready"}
      \/ /\ target.at = "ready" /\ bridge.up /\ target.thread = v.thread /\ config' = v
         /\ bridge' = [bridge EXCEPT !.latest = v] /\ entry' = [entry EXCEPT !.delivered = v]
         /\ UNCHANGED <<target, loading>>
      \/ entry' = [entry EXCEPT !.delivered = NoView] /\ Destroy
  BY DEF Deliver
<1>3. Destroy => ~bridge'.up BY DEF Destroy, NoBridge
<1>4. /\ [bridge EXCEPT !.latest = v].up = bridge.up /\ [bridge EXCEPT !.latest = v].life = bridge.life
      /\ \A w : [entry EXCEPT !.delivered = w].known = entry.known
                /\ [entry EXCEPT !.delivered = w].thread = entry.thread
  BY <1>1
<1> QED BY <1>2, <1>3, <1>4

-----------------------------------------------------------------------------
(* The window is followed                                                  *)

LEMMA OrderStep == ASSUME Typed, OrderInv, [Next]_vars PROVE OrderInv'
<1>1. order \in [life : 0..lives, sequence : Nat, retired : SUBSET (1..lives)] /\ lives \in Nat
      /\ overtaken \in BOOLEAN
  BY DEF Typed, OrderTyped, PastTyped
<1>2. CASE ReportArrives
  <2>1. PICK r \in reports :
          /\ order' = order \/ order' = Renewed(r)
             \/ order' = [Renewed(r) EXCEPT !.sequence = IF r.sequence = 0 THEN @ ELSE r.sequence]
          /\ overtaken' = (overtaken \/ (order' # order /\ r.life < order.life))
    BY <1>2 DEF ReportArrives
  <2>2. r.life \in 1..lives /\ r.sequence \in Nat BY DEF Typed, OrderTyped
  <2>3. Renewed(r) \in [life : 0..lives, sequence : Nat, retired : SUBSET (1..lives)]
        /\ Renewed(r).life = r.life
        /\ Renewed(r).retired = IF order.life = 0 THEN {} ELSE IF r.life = order.life THEN order.retired
                                ELSE order.retired \cup {order.life}
    BY <1>1, <2>2 DEF Renewed, NoOrder
  <2>4. CASE order' = order BY <1>1, <2>1, <2>4 DEF OrderInv
  <2>5. CASE order' # order
    <3>1. order'.life = r.life /\ order'.retired = Renewed(r).retired /\ order'.life # 0
      BY <2>1, <2>2, <2>3, <2>5
    <3>2. ASSUME ~overtaken' PROVE \A l \in order'.retired : l < order'.life
      <4>1. ~overtaken /\ ~(r.life < order.life) BY <2>1, <2>5, <3>2, Zenon
      <4>2. r.life \in Nat /\ order.life \in Nat BY <1>1, <2>2
      <4>3. ~overtaken /\ r.life >= order.life BY <4>1, <4>2
      <4>4. \A l \in order.retired : l < order.life BY <4>3 DEF OrderInv
      <4> QED BY <1>1, <2>2, <2>3, <3>1, <4>3, <4>4
    <3> QED BY <3>1, <3>2 DEF OrderInv
  <2> QED BY <2>4, <2>5
<1>3. CASE NoticeArrives
  <2>1. order' \in {order, NoOrder} /\ overtaken' = overtaken BY <1>3 DEF NoticeArrives, past
  <2> QED BY <2>1 DEF OrderInv, NoOrder
<1>4. CASE ~ReportArrives /\ ~NoticeArrives
  <2>1. UNCHANGED <<order, overtaken>>
    BY <1>4 DEF Next, Work, Restore, DrainTake, DrainPublish, RunRecover, RunActivate, RunPublish,
                RunDeliver, RunClear, RunDisconnect, Answer, Timeout, Load, ConnectOpen, ConnectRead,
                Click, Navigate, Reload, Fail, Connect, Change, vars, past
  <2> QED BY <2>1 DEF OrderInv
<1> QED BY <1>2, <1>3, <1>4

\* A steady window was steady, and nothing but the page and the publisher moves.
LEMMA SteadyBefore ==
  ASSUME Typed, Shape, SteadyInv, [Next]_vars, Steady'
  PROVE  /\ Steady /\ target'.at = "ready" /\ bridge'.life = lives' /\ ~Dirty'
         /\ ~NoticeArrives /\ ~RunDisconnect /\ ~Fail /\ ~Connect /\ ~ConnectOpen /\ ~ConnectRead
         /\ entry'.known /\ entry'.thread = target'.thread
<1>1. /\ target \in [at : {"absent", "opening", "reading", "ready"}, thread : AnyThread]
      /\ bridge \in [up : BOOLEAN, first : 0..lives, life : 0..lives, latest : AnyView]
      /\ entry \in [known : BOOLEAN, thread : AnyThread, delivered : AnyView]
      /\ lives \in Nat /\ notices \in Nat
  BY DEF Typed, PublisherTyped, WindowTyped, OrderTyped
<1>2. ~ConnectOpen BY DEF Steady, ConnectOpen
<1>3. ~Fail
  <2>1. Fail => bridge' = [bridge EXCEPT !.up = FALSE] \/ bridge' = NoBridge BY DEF Fail
  <2> QED BY <1>1, <2>1 DEF Steady, NoBridge
<1>4. Steady
  <2>1. renewed' = renewed
    BY <1>2 DEF Next, Work, ReportArrives, NoticeArrives, Restore, DrainTake, DrainPublish, RunRecover,
                RunActivate, RunPublish, RunDeliver, RunClear, RunDisconnect, Answer, Timeout, Load,
                ConnectRead, Click, Navigate, Reload, Fail, Connect, Change, vars, past
  <2>2. CASE RunDeliver \/ RunPublish
    <3>1. queue # <<>> BY <2>2 DEF RunDeliver, RunPublish, Head1
    <3>2. Head(queue).view \in AnyView BY <3>1, HeadIsTyped DEF Typed
    <3>3. Deliver(Head(queue).view) \/ bridge' = bridge BY <2>2 DEF RunDeliver, RunPublish
    <3> QED BY <2>1, <3>2, <3>3, DeliverKeeps DEF Steady
  <2>3. CASE RunDisconnect
    <3>1. bridge' = bridge \/ bridge' = NoBridge BY <2>3 DEF RunDisconnect, Destroy
    <3> QED BY <2>1, <3>1 DEF Steady, NoBridge
  <2>4. CASE RunActivate \/ RunClear \/ Answer \/ Load
    <3>1. \/ bridge' = bridge \/ bridge' = [bridge EXCEPT !.latest = NoView]
          \/ bridge' = [bridge EXCEPT !.life = lives + 1]
          \/ \E v : bridge' = [bridge EXCEPT !.latest = v]
      BY <2>4 DEF RunActivate, RunClear, Answer, Load, ClearPage
    <3> QED BY <1>1, <2>1, <3>1 DEF Steady
  <2>5. CASE ~(RunDeliver \/ RunPublish \/ RunDisconnect \/ RunActivate \/ RunClear \/ Answer \/ Load)
    <3>1. bridge' = bridge
      BY <1>2, <1>3, <2>5 DEF Next, Work, ReportArrives, NoticeArrives, Restore, DrainTake, DrainPublish, RunRecover,
                ConnectRead, Timeout, Click, Navigate, Reload, Connect, Change, vars
    <3> QED BY <2>1, <3>1 DEF Steady
  <2> QED BY <2>2, <2>3, <2>4, <2>5
<1>5. /\ target.at = "ready" /\ ~Dirty /\ entry.known /\ entry.thread = target.thread
      /\ bridge.up /\ bridge.life = lives
  BY <1>4 DEF SteadyInv, Steady
<1>6. ~NoticeArrives /\ ~Connect /\ ~ConnectRead
  BY <1>1, <1>5 DEF NoticeArrives, Connect, ConnectRead, Dirty
<1>7. ~RunDisconnect
  <2>1. ASSUME RunDisconnect PROVE FALSE
    <3>1. Head(queue) \in Elements(queue) /\ Head(queue).op = "disconnect"
      BY <2>1, RunsTakeHead DEF Runs, RunDisconnect, Head1
    <3> QED BY <1>5, <3>1 DEF Dirty
  <2> QED BY <2>1
<1>8. ~Dirty'
  <2>1. notices' = notices
    BY <1>2, <1>3, <1>6, <1>7
       DEF Next, Work, ReportArrives, Restore, DrainTake, DrainPublish, RunRecover,
           RunActivate, RunPublish, RunDeliver, RunClear, Answer, Timeout, Load,
           Click, Navigate, Reload, Change, vars, wire
  <2> QED BY <1>5, <2>1, DirtyMoves
<1> DEFINE Kept == /\ target'.at = "ready" /\ bridge'.life = lives' /\ entry'.known
                   /\ entry'.thread = target'.thread
<1>9. CASE RunActivate
  <2> DEFINE item == Head(queue)
  <2>1. lives' = lives BY <1>9 DEF RunActivate
  <2>2. \/ UNCHANGED <<entry, target, bridge>>
        \/ /\ target' = [target EXCEPT !.thread = item.thread]
           /\ bridge' = [bridge EXCEPT !.latest = NoView] /\ entry' = EntryFor(item.thread)
    BY <1>5, <1>9 DEF RunActivate, Follow, ClearPage
  <2>3. Kept BY <1>1, <1>5, <2>1, <2>2 DEF EntryFor
  <2> QED BY <1>2, <1>3, <1>4, <1>6, <1>7, <1>8, <2>3
<1>10. CASE RunDeliver \/ RunPublish
  <2>1. queue # <<>> BY <1>10 DEF RunDeliver, RunPublish, Head1
  <2>2. Head(queue).view \in AnyView BY <2>1, HeadIsTyped DEF Typed
  <2>3. Deliver(Head(queue).view) \/ UNCHANGED <<entry, target, bridge>>
    BY <1>10 DEF RunDeliver, RunPublish
  <2>4. lives' = lives /\ bridge'.up BY <1>10 DEF RunDeliver, RunPublish, Steady
  <2>5. Kept BY <1>5, <2>2, <2>3, <2>4, DeliverKeeps
  <2> QED BY <1>2, <1>3, <1>4, <1>6, <1>7, <1>8, <2>5
<1>11. CASE RunClear \/ Answer
  <2>1. lives' = lives /\ target' = target BY <1>11 DEF RunClear, Answer
  <2>2. /\ entry' = entry \/ entry' = [entry EXCEPT !.delivered = NoView]
        /\ bridge' = bridge \/ \E v : bridge' = [bridge EXCEPT !.latest = v]
    BY <1>11 DEF RunClear, Answer, ClearPage, publisher
  <2>3. entry'.known = entry.known /\ entry'.thread = entry.thread /\ bridge'.life = bridge.life
    BY <1>1, <2>2
  <2>4. Kept BY <1>5, <2>1, <2>3
  <2> QED BY <1>2, <1>3, <1>4, <1>6, <1>7, <1>8, <2>4
<1>12. CASE Load
  <2>1. lives' = lives + 1 /\ target' = target /\ entry' = entry
        /\ bridge' = [bridge EXCEPT !.life = lives + 1]
    BY <1>12 DEF Load, publisher
  <2>2. Kept BY <1>1, <1>5, <2>1
  <2> QED BY <1>2, <1>3, <1>4, <1>6, <1>7, <1>8, <2>2
<1>13. CASE ~(RunActivate \/ RunDeliver \/ RunPublish \/ RunClear \/ Answer \/ Load)
  <2>1. UNCHANGED <<lives, target, entry, bridge>>
    BY <1>2, <1>3, <1>6, <1>7, <1>13
       DEF Next, Work, ReportArrives, Restore, DrainTake, DrainPublish, RunRecover,
           Timeout, Click, Navigate, Reload, Change, vars, publisher
  <2>2. Kept BY <1>5, <2>1
  <2> QED BY <1>2, <1>3, <1>4, <1>6, <1>7, <1>8, <2>2
<1> QED BY <1>9, <1>10, <1>11, <1>12, <1>13

LEMMA SteadyStep == ASSUME Typed, Shape, SteadyInv, [Next]_vars PROVE SteadyInv'
<1> SUFFICES ASSUME Steady' PROVE SteadyInv' BY DEF SteadyInv
<1>1. /\ Steady /\ target'.at = "ready" /\ bridge'.life = lives' /\ ~Dirty'
      /\ ~NoticeArrives /\ ~RunDisconnect /\ ~Fail /\ ~Connect /\ ~ConnectOpen /\ ~ConnectRead
      /\ entry'.known /\ entry'.thread = target'.thread
  BY SteadyBefore
<1>2. /\ order \in [life : 0..lives, sequence : Nat, retired : SUBSET (1..lives)] /\ lives \in Nat
      /\ watcher \in [life : 1..lives, sequence : Nat]
      /\ reports \subseteq [thread : AnyThread, sequence : Nat, life : 1..lives]
  BY DEF Typed, OrderTyped, PageTyped
<1> DEFINE Counted ==
      ~loading =>
        /\ watcher.life = lives /\ watcher.sequence # 0
        /\ \A r \in reports : r.life = lives => r.sequence <= watcher.sequence
        /\ order.life = lives => order.sequence <= watcher.sequence
<1>3. Counted BY <1>1 DEF SteadyInv
<1>4. SUFFICES Counted' BY <1>1 DEF SteadyInv
<1>5. CASE ReportArrives
  <2>1. PICK r \in reports :
          /\ reports' = reports \ {r}
          /\ order' = order \/ order' = Renewed(r)
             \/ order' = [Renewed(r) EXCEPT !.sequence = IF r.sequence = 0 THEN @ ELSE r.sequence]
    BY <1>5 DEF ReportArrives
  <2>2. Renewed(r) \in [life : 0..lives, sequence : Nat, retired : SUBSET (1..lives)]
        /\ Renewed(r).life = r.life
        /\ Renewed(r).sequence = IF order.life # 0 /\ r.life = order.life THEN order.sequence ELSE 0
    BY <1>2 DEF Renewed, NoOrder
  <2>3. order' = order \/ (order'.life = r.life /\ order'.sequence \in {Renewed(r).sequence, r.sequence})
    BY <2>1, <2>2
  <2>4. UNCHANGED <<watcher, loading, lives>> BY <1>5 DEF ReportArrives, page
  <2> QED BY <1>2, <1>3, <2>1, <2>2, <2>3, <2>4
<1>6. CASE Navigate
  <2>1. PICK r \in Routes \ {route} :
          /\ watcher' = [watcher EXCEPT !.sequence = @ + 1]
          /\ reports' = reports \cup Signal(r, watcher'.sequence, watcher.life)
    BY <1>6 DEF Navigate
  <2>2. UNCHANGED <<order, loading, lives>> BY <1>6 DEF Navigate
  <2>3. watcher'.sequence = watcher.sequence + 1 /\ watcher'.life = watcher.life BY <1>2, <2>1
  <2>4. \A x \in reports' : x \in reports \/ x.sequence = watcher'.sequence BY <2>1 DEF Signal
  <2> HIDE DEF Counted
  <2>5. ASSUME ~loading PROVE watcher.life = lives /\ watcher.sequence # 0
                              /\ (\A x \in reports : x.life = lives => x.sequence <= watcher.sequence)
                              /\ (order.life = lives => order.sequence <= watcher.sequence)
    BY <1>3, <2>5 DEF Counted
  <2>6. ASSUME ~loading, NEW x \in reports', x.life = lives PROVE x.sequence <= watcher'.sequence
    BY <1>2, <2>3, <2>4, <2>5, <2>6
  <2>7. ASSUME ~loading, order.life = lives PROVE order.sequence <= watcher'.sequence
    BY <1>2, <2>3, <2>5, <2>7
  <2> QED BY <1>2, <2>2, <2>3, <2>5, <2>6, <2>7 DEF Counted
<1>7. CASE Reload
  BY <1>7 DEF Reload
<1>8. CASE Load
  <2>1. /\ lives' = lives + 1 /\ watcher' = [life |-> lives + 1, sequence |-> 1] /\ order' = order
        /\ reports' \subseteq reports \cup {[thread |-> route, sequence |-> 1, life |-> lives + 1],
                                            [thread |-> route, sequence |-> 0, life |-> lives + 1]}
    BY <1>8 DEF Load
  <2>2. \A x \in reports' : x.life = lives' => x.sequence \in {0, 1}
    BY <1>2, <2>1
  <2>3. order'.life # lives' BY <1>2, <2>1
  <2> QED BY <2>1, <2>2, <2>3
<1>9. CASE RunDeliver \/ RunPublish
  <2>1. queue # <<>> BY <1>9 DEF RunDeliver, RunPublish, Head1
  <2>2. Head(queue).view \in AnyView BY <2>1, HeadIsTyped DEF Typed
  <2>3. Deliver(Head(queue).view) \/ UNCHANGED loading BY <1>9 DEF RunDeliver, RunPublish
  <2>4. loading' = loading BY <2>2, <2>3, DeliverKeeps DEF Steady
  <2>5. UNCHANGED <<watcher, reports, order, lives>> BY <1>9 DEF RunDeliver, RunPublish, wire
  <2> QED BY <1>3, <2>4, <2>5
<1>10. CASE ~(ReportArrives \/ Navigate \/ Reload \/ Load \/ RunDeliver \/ RunPublish)
  <2>1. UNCHANGED <<watcher, reports, order, lives, loading>>
    BY <1>1, <1>10 DEF Next, Work, Restore, DrainTake, DrainPublish, RunRecover, RunActivate, RunClear,
                       Answer, Timeout, Click, Change, vars, wire, page
  <2> QED BY <1>3, <2>1
<1> QED BY <1>5, <1>6, <1>7, <1>8, <1>9, <1>10

\* The last turn in the queue, when an item is added or the head is run.
LEMMA TurnAppended ==
  ASSUME NEW S, NEW q \in Seq(S), NEW x \in S, NEW t
  PROVE  /\ x.op # "activate" /\ LastTurn(q, t) => LastTurn(Append(q, x), t)
         /\ x.op = "activate" /\ x.thread = t => LastTurn(Append(q, x), t)
         /\ x.op # "activate" /\ NoTurn(q) => NoTurn(Append(q, x))
<1> DEFINE p == Append(q, x)
<1>1. /\ Len(p) = Len(q) + 1 /\ Len(q) \in Nat
      /\ \A i \in 1..Len(q) : p[i] = q[i]
      /\ p[Len(q) + 1] = x
  OBVIOUS
<1>2. Elements(p) = Elements(q) \cup {x} BY Appended
<1> HIDE DEF p
<1>3. ASSUME x.op # "activate", LastTurn(q, t) PROVE LastTurn(p, t)
  <2>1. PICK i \in 1..Len(q) : /\ q[i].op = "activate" /\ q[i].thread = t
                               /\ \A j \in (i + 1)..Len(q) : q[j].op # "activate"
    BY <1>3 DEF LastTurn
  <2>2. i \in 1..Len(p) /\ p[i].op = "activate" /\ p[i].thread = t BY <1>1, <2>1
  <2>3. ASSUME NEW j \in (i + 1)..Len(p) PROVE p[j].op # "activate"
    <3>1. CASE j = Len(q) + 1 BY <1>1, <1>3, <3>1
    <3>2. CASE j # Len(q) + 1
      <4>1. j \in (i + 1)..Len(q) /\ j \in 1..Len(q) BY <1>1, <2>1, <2>3, <3>2
      <4> QED BY <1>1, <2>1, <4>1
    <3> QED BY <3>1, <3>2
  <2> QED BY <2>2, <2>3 DEF LastTurn
<1>4. ASSUME x.op = "activate", x.thread = t PROVE LastTurn(p, t)
  <2>1. Len(p) \in 1..Len(p) /\ p[Len(p)] = x BY <1>1
  <2>2. \A j \in (Len(p) + 1)..Len(p) : FALSE BY <1>1
  <2> QED BY <1>4, <2>1, <2>2 DEF LastTurn
<1> QED BY <1>2, <1>3, <1>4 DEF p, NoTurn

LEMMA TurnPopped ==
  ASSUME NEW S, NEW q \in Seq(S), q # <<>>, NEW t
  PROVE  /\ LastTurn(q, t) => \/ LastTurn(Tail(q), t)
                              \/ Head(q).op = "activate" /\ Head(q).thread = t /\ NoTurn(Tail(q))
         /\ NoTurn(q) => NoTurn(Tail(q)) /\ Head(q).op # "activate"
<1> DEFINE p == Tail(q)
<1>1. /\ Head(q) = q[1] /\ Len(q) \in Nat /\ Len(q) >= 1
      /\ Len(p) = Len(q) - 1 /\ \A i \in 1..(Len(q) - 1) : p[i] = q[i + 1]
  OBVIOUS
<1>2. Elements(q) = {Head(q)} \cup Behind(q) /\ Elements(p) = Behind(q) BY Popped
<1> HIDE DEF p
<1>3. ASSUME LastTurn(q, t)
      PROVE  \/ LastTurn(p, t)
             \/ Head(q).op = "activate" /\ Head(q).thread = t /\ NoTurn(p)
  <2>1. PICK i \in 1..Len(q) : /\ q[i].op = "activate" /\ q[i].thread = t
                               /\ \A j \in (i + 1)..Len(q) : q[j].op # "activate"
    BY <1>3 DEF LastTurn
  <2>2. CASE i = 1
    <3>1. \A y \in Behind(q) : y.op # "activate" BY <2>1, <2>2 DEF Behind
    <3> QED BY <1>1, <1>2, <2>1, <2>2, <3>1 DEF NoTurn
  <2>3. CASE i # 1
    <3>1. i - 1 \in 1..Len(p) /\ p[i - 1] = q[i]
      <4>1. i - 1 \in 1..(Len(q) - 1) /\ (i - 1) + 1 = i BY <1>1, <2>1, <2>3
      <4> QED BY <1>1, <4>1
    <3>2. ASSUME NEW j \in ((i - 1) + 1)..Len(p) PROVE p[j].op # "activate"
      <4>1. j \in 1..(Len(q) - 1) /\ j + 1 \in (i + 1)..Len(q) BY <1>1, <2>1, <3>2
      <4> QED BY <1>1, <2>1, <4>1
    <3> QED BY <2>1, <3>1, <3>2 DEF LastTurn
  <2> QED BY <2>2, <2>3
<1> QED BY <1>2, <1>3 DEF p, NoTurn

LEMMA TurnReplaced ==
  ASSUME NEW S, NEW q \in Seq(S), q # <<>>, NEW x \in S, x.op # "activate", NEW t
  PROVE  /\ LastTurn(Tail(q), t) => LastTurn(<<x>> \o Tail(q), t)
         /\ NoTurn(Tail(q)) => NoTurn(<<x>> \o Tail(q))
<1> DEFINE r == Tail(q)
           p == <<x>> \o r
<1>1. /\ r \in Seq(S) /\ Len(r) \in Nat /\ Len(p) = Len(r) + 1
      /\ \A i \in 1..Len(r) : p[i + 1] = r[i]
  OBVIOUS
<1>2. Elements(p) = {x} \cup Behind(q) /\ Elements(r) = Behind(q) BY Popped, Replaced
<1> HIDE DEF p, r
<1>3. ASSUME LastTurn(r, t) PROVE LastTurn(p, t)
  <2>1. PICK i \in 1..Len(r) : /\ r[i].op = "activate" /\ r[i].thread = t
                               /\ \A j \in (i + 1)..Len(r) : r[j].op # "activate"
    BY <1>3 DEF LastTurn
  <2>2. i + 1 \in 1..Len(p) /\ p[i + 1] = r[i] BY <1>1, <2>1
  <2>3. ASSUME NEW j \in ((i + 1) + 1)..Len(p) PROVE p[j].op # "activate"
    <3>1. j - 1 \in (i + 1)..Len(r) /\ j - 1 \in 1..Len(r) /\ (j - 1) + 1 = j BY <1>1, <2>1, <2>3
    <3>2. p[j] = r[j - 1] BY <1>1, <3>1
    <3> QED BY <2>1, <3>1, <3>2
  <2> QED BY <2>1, <2>2, <2>3 DEF LastTurn
<1> QED BY <1>2, <1>3 DEF p, r, NoTurn

LEMMA WindowStep ==
  ASSUME Typed, Shape, OrderInv, SteadyInv, WindowInv, [Next]_vars PROVE WindowInv'
<1> DEFINE Told == \/ loading
                   \/ \E r \in reports : Awaited(r)
                   \/ \E x \in Elements(queue) : x.op = "recover"
                   \/ LastTurn(queue, route)
                   \/ NoTurn(queue) /\ entry.thread = route
<1>1. SUFFICES ASSUME Steady', ~overtaken', route' # NoThread PROVE Told'
  BY DEF WindowInv
<1>2. /\ Steady /\ target'.at = "ready" /\ bridge'.life = lives' /\ ~Dirty'
      /\ ~NoticeArrives /\ ~RunDisconnect /\ ~Fail /\ ~Connect /\ ~ConnectOpen /\ ~ConnectRead
      /\ entry'.known /\ entry'.thread = target'.thread
  BY <1>1, SteadyBefore
<1>3. /\ target.at = "ready" /\ entry.known /\ entry.thread = target.thread /\ bridge.up /\ bridge.life = lives
      /\ ~loading =>
           /\ watcher.life = lives /\ watcher.sequence # 0
           /\ \A r \in reports : r.life = lives => r.sequence <= watcher.sequence
           /\ order.life = lives => order.sequence <= watcher.sequence
  BY <1>2 DEF SteadyInv, Steady
<1>4. /\ order \in [life : 0..lives, sequence : Nat, retired : SUBSET (1..lives)] /\ lives \in Nat
      /\ watcher \in [life : 1..lives, sequence : Nat]
      /\ reports \subseteq [thread : AnyThread, sequence : Nat, life : 1..lives]
      /\ queue \in Seq(Items) /\ overtaken \in BOOLEAN
      /\ entry \in [known : BOOLEAN, thread : AnyThread, delivered : AnyView]
  BY DEF Typed, PublisherTyped, OrderTyped, PageTyped, PastTyped
<1>5. ~overtaken
  <2>1. overtaken' = overtaken \/ (\E r \in reports : overtaken' = (overtaken \/ (order' # order /\ r.life < order.life)))
    BY DEF Next, Work, ReportArrives, NoticeArrives, Restore, DrainTake, DrainPublish, RunRecover,
           RunActivate, RunPublish, RunDeliver, RunClear, RunDisconnect, Answer, Timeout, Load,
           ConnectOpen, ConnectRead, Click, Navigate, Reload, Fail, Connect, Change, vars, past
  <2> QED BY <1>1, <2>1, Zenon
<1>6. route # NoThread => Told BY <1>2, <1>5 DEF WindowInv
<1>7. CASE ReportArrives
  <2>1. PICK r \in reports :
          /\ reports' = reports \ {r}
          /\ IF ~HasTarget \/ Retired(r) THEN UNCHANGED <<order, queue>>
             ELSE IF Outdated(r) THEN order' = Renewed(r) /\ UNCHANGED queue
             ELSE queue' = Append(queue, Item("recover", "report", r.thread, NoView))
    BY <1>7 DEF ReportArrives
  <2>2. UNCHANGED <<entry, route, watcher, loading, lives>> BY <1>7 DEF ReportArrives, page
  <2>3. CASE queue' = Append(queue, Item("recover", "report", r.thread, NoView))
    <3> DEFINE x == Item("recover", "report", r.thread, NoView)
    <3>1. x \in Items /\ x.op = "recover" BY <1>4, NewItems DEF Item
    <3> HIDE DEF x
    <3>2. Elements(Append(queue, x)) = Elements(queue) \cup {x} BY <1>4, <3>1, Appended
    <3> QED BY <2>3, <3>1, <3>2 DEF x
  <2>4. CASE UNCHANGED queue /\ (~HasTarget \/ Retired(r) \/ Outdated(r))
    <3>1. HasTarget BY <1>3 DEF HasTarget
    <3>2. Outdated(r) => Renewed(r) = order
      BY <1>4 DEF Outdated, Renewed, NoOrder
    <3>3. order' = order
      <4>1. CASE Retired(r) BY <2>1, <4>1
      <4>2. CASE ~Retired(r)
        <5>1. Outdated(r) BY <2>4, <3>1, <4>2
        <5>2. order' = Renewed(r) BY <2>1, <3>1, <4>2, <5>1
        <5> QED BY <3>2, <5>1, <5>2
      <4> QED BY <4>1, <4>2
    <3>4. Awaited(r) => loading
      <4> SUFFICES ASSUME Awaited(r), ~loading PROVE FALSE OBVIOUS
      <4>1. r.life = lives /\ r.sequence = watcher.sequence /\ r.sequence # 0
            /\ (order.life = lives => order.sequence < r.sequence)
        BY <1>3 DEF Awaited
      <4>2. order.life # 0 => r.life \notin order.retired \/ r.life = order.life
        BY <1>4, <1>5, <4>1 DEF OrderInv
      <4>3. ~Retired(r) BY <4>2 DEF Retired
      <4>4. Renewed(r).sequence = IF order.life # 0 /\ r.life = order.life THEN order.sequence ELSE 0
        BY <1>4 DEF Renewed, NoOrder
      <4>5. ~Outdated(r) BY <1>4, <4>1, <4>4 DEF Outdated
      <4> QED BY <2>4, <3>1, <4>3, <4>5
    <3>5. \A y \in reports : Awaited(y)' <=> Awaited(y) BY <2>2, <3>3 DEF Awaited
    <3>6. Told BY <1>1, <1>6, <2>2
    <3> QED BY <2>1, <2>2, <2>4, <3>4, <3>5, <3>6
  <2> QED BY <2>1, <2>3, <2>4
<1>8. CASE Navigate
  <2>1. PICK r \in Routes \ {route} :
          /\ route' = r /\ watcher' = [watcher EXCEPT !.sequence = @ + 1]
          /\ reports' = reports \cup Signal(r, watcher'.sequence, watcher.life)
    BY <1>8 DEF Navigate
  <2>2. UNCHANGED <<order, loading, lives>> BY <1>8 DEF Navigate
  <2>3. CASE loading BY <2>2, <2>3
  <2>4. CASE ~loading
    <3> DEFINE new == [thread |-> r, sequence |-> watcher'.sequence, life |-> watcher.life]
    <3>1. new \in reports' BY <1>3, <2>1, <2>4 DEF Signal
    <3>2. watcher'.sequence = watcher.sequence + 1 BY <1>4, <2>1
    <3>3. order.life = lives => order.sequence < watcher'.sequence BY <1>3, <1>4, <2>4, <3>2
    <3>4. new.life = lives' /\ new.sequence = watcher'.sequence
          /\ (order'.life = lives' => order'.sequence < watcher'.sequence)
      BY <1>3, <2>2, <2>4, <3>3
    <3> HIDE DEF new
    <3>5. \E y \in reports' : /\ y.life = lives' /\ y.sequence = watcher'.sequence
                             /\ (order'.life = lives' => order'.sequence < watcher'.sequence)
      BY <3>1, <3>4
    <3>6. (\E y \in reports : Awaited(y))' BY <3>5 DEF Awaited
    <3> QED BY <3>6
  <2> QED BY <2>3, <2>4
<1>9. CASE Reload
  BY <1>9 DEF Reload
<1>10. CASE Load
  <2> DEFINE new == [thread |-> route, sequence |-> 1, life |-> lives + 1]
  <2>1. /\ lives' = lives + 1 /\ watcher' = [life |-> lives + 1, sequence |-> 1] /\ order' = order
        /\ new \in reports'
    BY <1>10 DEF Load
  <2>2. order'.life # lives' BY <1>4, <2>1
  <2>3. new.life = lives' /\ new.sequence = watcher'.sequence
        /\ (order'.life = lives' => order'.sequence < watcher'.sequence)
    BY <2>1, <2>2
  <2> HIDE DEF new
  <2>4. \E y \in reports' : /\ y.life = lives' /\ y.sequence = watcher'.sequence
                           /\ (order'.life = lives' => order'.sequence < watcher'.sequence)
    BY <2>1, <2>3
  <2>5. (\E y \in reports : Awaited(y))' BY <2>4 DEF Awaited
  <2> QED BY <2>5
<1>11. CASE RunRecover
  <2> DEFINE x == Item("activate", "report", Observed(Head(queue)), NoView)
  <2>1. queue # <<>> /\ route' = route BY <1>11 DEF RunRecover, Head1, page
  <2>2. Observed(Head(queue)) = route BY <1>1, <1>3, <2>1 DEF Observed
  <2>3. route \in AnyThread BY DeliveryAssumption DEF Typed, PageTyped, AnyThread
  <2>4. x \in Items /\ x.op = "activate" /\ x.thread = route BY <2>2, <2>3, NewItems DEF Item
  <2>5. queue' = Append(Tail(queue), x) BY <1>11 DEF RunRecover
  <2> HIDE DEF x
  <2>6. Tail(queue) \in Seq(Items) BY <1>4, <2>1, Popped
  <2>7. LastTurn(Append(Tail(queue), x), route) BY <2>4, <2>6, TurnAppended
  <2>8. LastTurn(queue', route') BY <2>1, <2>5, <2>7
  <2> QED BY <2>8
<1>12. CASE RunActivate
  <2> DEFINE item == Head(queue)
             v == IF item.thread = NoThread THEN NoView ELSE snapshots[item.thread]
             x == Item("deliver", "report", item.thread, v)
  <2>1. queue # <<>> /\ item.op = "activate" /\ UNCHANGED <<order, reports, watcher, route, loading, lives>>
    BY <1>12 DEF RunActivate, Head1, wire
  <2>2. /\ Elements(queue) = {item} \cup Behind(queue) /\ Behind(queue) \subseteq Elements(queue')
        /\ item \in Items
    BY <1>12, RunsTakeHead DEF Runs
  <2>3. entry'.thread = item.thread
    <3>1. (entry.thread = item.thread /\ entry' = entry) \/ entry' = EntryFor(item.thread)
      BY <1>3, <1>12 DEF RunActivate, Follow
    <3> QED BY <3>1 DEF EntryFor
  <2>4. queue' = Tail(queue) \/ queue' = <<x>> \o Tail(queue)
    BY <1>12 DEF RunActivate, Follow, Done, Failed
  <2>5. x \in Items /\ x.op = "deliver"
    <3>1. item.thread \in AnyThread BY <2>2 DEF Items, AnyThread
    <3>2. v \in AnyView BY <3>1, NoViewIsNone DEF AnyThread, Typed, PublisherTyped
    <3> QED BY <3>1, <3>2, ItemIsTyped
  <2> HIDE DEF x, v
  <2>6. \A t : /\ LastTurn(Tail(queue), t) => LastTurn(queue', t)
               /\ NoTurn(Tail(queue)) => NoTurn(queue')
    <3>1. CASE queue' = Tail(queue) BY <3>1
    <3>2. CASE queue' = <<x>> \o Tail(queue)
      <4>1. x.op # "activate" BY <2>5
      <4>2. \A t : /\ LastTurn(Tail(queue), t) => LastTurn(<<x>> \o Tail(queue), t)
                   /\ NoTurn(Tail(queue)) => NoTurn(<<x>> \o Tail(queue))
        BY <1>4, <2>1, <2>5, <4>1, TurnReplaced
      <4> QED BY <3>2, <4>2
    <3> QED BY <2>4, <3>1, <3>2
  <2>7. \A r \in reports : Awaited(r)' <=> Awaited(r) BY <2>1 DEF Awaited
  <2>8. Told BY <1>1, <1>6, <2>1
  <2>9. CASE LastTurn(queue, route)
    <3>1. \/ LastTurn(Tail(queue), route)
          \/ item.thread = route /\ NoTurn(Tail(queue))
      BY <1>4, <2>1, <2>9, TurnPopped
    <3>2. LastTurn(queue', route) \/ (NoTurn(queue') /\ entry'.thread = route)
      BY <2>3, <2>6, <3>1
    <3>3. LastTurn(queue', route') \/ (NoTurn(queue') /\ entry'.thread = route')
      BY <2>1, <3>2
    <3> QED BY <3>3
  <2>10. ~NoTurn(queue) BY <2>1, <2>2 DEF NoTurn
  <2>11. CASE loading \/ \E r \in reports : Awaited(r) BY <2>1, <2>7, <2>11
  <2>12. CASE \E y \in Elements(queue) : y.op = "recover" BY <2>1, <2>2, <2>12
  <2> QED BY <2>8, <2>9, <2>10, <2>11, <2>12
<1>13. CASE RunDeliver \/ RunPublish \/ RunClear
  <2>1. /\ queue # <<>> /\ queue' = Tail(queue) /\ Head(queue).op \notin {"activate", "recover"}
        /\ UNCHANGED <<order, reports, watcher, route, lives>>
    BY <1>13 DEF RunDeliver, RunPublish, RunClear, Head1, Done, Failed, wire
  <2>2. Elements(queue) = {Head(queue)} \cup Behind(queue) /\ Elements(queue') = Behind(queue)
    BY <1>4, <2>1, Popped
  <2>3. entry'.thread = entry.thread /\ loading' = loading
    <3>1. CASE RunClear BY <1>4, <3>1 DEF RunClear
    <3>2. CASE RunDeliver \/ RunPublish
      <4>1. Head(queue).view \in AnyView BY <2>1, HeadIsTyped DEF Typed
      <4>2. Deliver(Head(queue).view) \/ UNCHANGED <<entry, loading>> BY <3>2 DEF RunDeliver, RunPublish
      <4> QED BY <1>1, <4>1, <4>2, DeliverKeeps DEF Steady
    <3> QED BY <1>13, <3>1, <3>2
  <2>4. \A t : LastTurn(queue, t) => LastTurn(queue', t)
    BY <1>4, <2>1, TurnPopped
  <2>5. NoTurn(queue) => NoTurn(queue') BY <2>2 DEF NoTurn
  <2>6. \A r \in reports : Awaited(r)' <=> Awaited(r) BY <2>1 DEF Awaited
  <2>7. Told BY <1>1, <1>6, <2>1
  <2>8. CASE LastTurn(queue, route)
    <3>1. LastTurn(queue', route') BY <2>1, <2>4, <2>8
    <3> QED BY <3>1
  <2>9. CASE loading \/ (\E r \in reports : Awaited(r)) \/ (\E y \in Elements(queue) : y.op = "recover")
             \/ (NoTurn(queue) /\ entry.thread = route)
    BY <2>1, <2>2, <2>3, <2>5, <2>6, <2>9
  <2> QED BY <2>7, <2>8, <2>9
<1>14. CASE Restore \/ DrainTake \/ DrainPublish \/ Click \/ Answer \/ Timeout \/ Change \/ UNCHANGED vars
  <2>1. UNCHANGED <<order, reports, watcher, route, lives, loading, entry>>
    BY <1>14 DEF Restore, DrainTake, DrainPublish, Click, Answer, Timeout, Change, vars, publisher, wire, page
  <2>2. queue' = queue \/ \E x \in Items : x.op # "activate" /\ queue' = Append(queue, x)
    <3>1. CASE DrainTake
      <4>1. PICK t \in Threads : queue' \in {queue, Append(queue, Item("clear", "drain", t, NoView))}
        BY <3>1 DEF DrainTake
      <4>2. Item("clear", "drain", t, NoView) \in Items /\ Item("clear", "drain", t, NoView).op = "clear"
        BY NewItems DEF Item, AnyThread
      <4> QED BY <4>1, <4>2
    <3>2. CASE DrainPublish
      <4> DEFINE x == Item("publish", "drain", drain.view.thread, drain.view)
      <4>1. drain.view \in Views BY <3>2 DEF DrainPublish, Shape, ItemInv
      <4>2. x \in Items /\ x.op = "publish" BY <4>1, NewItems DEF Item, AnyThread
      <4>3. queue' = Append(queue, x) BY <3>2 DEF DrainPublish
      <4> HIDE DEF x
      <4> QED BY <4>2, <4>3
    <3>3. CASE Click
      <4> DEFINE x == Item("clear", "intent", Shown.thread, NoView)
      <4>1. queue' \in {queue, Append(queue, x)} BY <3>3 DEF Click
      <4>2. Shown \in AnyView /\ Shown.phase \in {"preparing", "active"}
        BY <3>3, NoViewIsNone DEF Click, Shown, Typed, PageTyped
      <4>3. Shown.thread \in Threads BY <4>2, NoViewIsNone DEF AnyView, NoView
      <4>4. x \in Items /\ x.op = "clear" BY <4>3, NewItems DEF Item, AnyThread
      <4> HIDE DEF x
      <4> QED BY <4>1, <4>4
    <3> QED BY <1>14, <3>1, <3>2, <3>3 DEF Restore, Answer, Timeout, Change, vars, publisher
  <2>3. Told BY <1>1, <1>6, <2>1
  <2>4. \A r \in reports : Awaited(r)' <=> Awaited(r) BY <2>1 DEF Awaited
  <2>5. CASE queue' = queue BY <2>1, <2>3, <2>4, <2>5
  <2>6. ASSUME NEW x \in Items, x.op # "activate", queue' = Append(queue, x) PROVE Told'
    <3>1. Elements(Append(queue, x)) = Elements(queue) \cup {x} BY <1>4, <2>6, Appended
    <3>2. LastTurn(queue, route) => LastTurn(Append(queue, x), route) BY <1>4, <2>6, TurnAppended
    <3>3. NoTurn(queue) => NoTurn(Append(queue, x)) BY <2>6, <3>1 DEF NoTurn
    <3>4. LastTurn(queue, route) => LastTurn(queue', route') BY <2>1, <2>6, <3>2
    <3>5. NoTurn(queue) => NoTurn(queue') BY <2>6, <3>3
    <3>6. Elements(queue) \subseteq Elements(queue') BY <2>6, <3>1
    <3>7. CASE LastTurn(queue, route) BY <3>4, <3>7
    <3>8. CASE loading \/ (\E r \in reports : Awaited(r)) \/ (\E y \in Elements(queue) : y.op = "recover")
               \/ (NoTurn(queue) /\ entry.thread = route)
      BY <2>1, <2>4, <3>5, <3>6, <3>8
    <3> QED BY <2>3, <3>7, <3>8
  <2> QED BY <2>2, <2>5, <2>6
<1> QED BY <1>2, <1>7, <1>8, <1>9, <1>10, <1>11, <1>12, <1>13, <1>14 DEF Next, Work

LEMMA InitFollows == Init => OrderInv /\ SteadyInv /\ WindowInv
<1> SUFFICES ASSUME Init PROVE OrderInv /\ SteadyInv /\ WindowInv OBVIOUS
<1>1. /\ queue = <<>> /\ notices = 0 /\ reports = {} /\ lives = 1
      /\ order = [life |-> 1, sequence |-> 1, retired |-> {}]
      /\ target = [at |-> "ready", thread |-> route]
      /\ watcher = [life |-> 1, sequence |-> 1]
      /\ \E v : /\ entry = [known |-> TRUE, thread |-> route, delivered |-> v]
                /\ bridge = [up |-> TRUE, first |-> 1, life |-> 1, latest |-> v]
  BY DEF Init
<1>2. Elements(queue) = {} BY <1>1 DEF Elements
<1>3. OrderInv BY <1>1 DEF OrderInv
<1>4. SteadyInv BY <1>1, <1>2 DEF SteadyInv, Dirty
<1>5. WindowInv BY <1>1, <1>2 DEF WindowInv, NoTurn
<1> QED BY <1>3, <1>4, <1>5

\* Whatever the threads, the routes and the bounds: once nothing is on its way,
\* the publisher and the manager are at the thread that the page shows, unless
\* the window was connected again or a report was taken after a later document's.
THEOREM WindowIsAlwaysFollowed == Spec => []WindowIsFollowed
<1> DEFINE Followed == Typed /\ Shape /\ OrderInv /\ SteadyInv /\ WindowInv
<1>1. Init => Followed BY InitTyped, InitShape, InitFollows
<1>2. Followed /\ [Next]_vars => Followed'
  BY StepTyped, StepInShape, OrderStep, SteadyStep, WindowStep
<1>3. Followed => WindowIsFollowed
  <2> SUFFICES ASSUME Followed, AtRest, Connected, ~renewed, ~overtaken, route # NoThread
               PROVE  entry.known /\ entry.thread = route /\ target.thread = route
    BY DEF WindowIsFollowed
  <2>1. queue = <<>> /\ reports = {} /\ ~loading BY DEF AtRest
  <2>2. Elements(queue) = {} /\ ~LastTurn(queue, route) BY <2>1 DEF Elements, LastTurn
  <2>3. Steady BY DEF Connected, Steady
  <2>4. entry.thread = route BY <2>1, <2>2, <2>3 DEF WindowInv
  <2> QED BY <2>3, <2>4 DEF SteadyInv
<1> QED BY <1>1, <1>2, <1>3, PTL DEF Spec

-----------------------------------------------------------------------------
(* The card is current                                                     *)

\* What the head that is run leaves alone, and how its handler goes on.
LEMMA RunsKeep ==
  ASSUME Typed, Shape, Runs
  PROVE  /\ UNCHANGED <<stored, pendingUi, order, reports, notices, shut, route, watcher>>
         /\ restores \subseteq restores'
         /\ drain' = drain \/ (drain.at = "waiting" /\ drain'.at = "idle")
         /\ intent' = intent \/ intent'.at = "none"
            \/ (intent.at = "clearing" /\ intent' = [intent EXCEPT !.at = "answer"])
<1>1. queue # <<>> /\ Head(queue) \in Elements(queue)
  BY RunsTakeHead
<1>2. Head(queue).from = "drain" => drain.at = "waiting"
  BY <1>1 DEF Shape, QueueInv, NoDrain
<1>3. /\ UNCHANGED <<stored, pendingUi, order, reports, notices, shut, route, watcher>>
      /\ Done(Head(queue)) \/ Failed(Head(queue)) \/ UNCHANGED <<restores, drain>>
  BY DEF Runs, RunRecover, RunActivate, RunDeliver, RunPublish, RunClear, RunDisconnect, Follow,
         helper, wire, page, past
<1>4. /\ restores \subseteq restores'
      /\ drain' = drain \/ (drain.at = "waiting" /\ drain'.at = "idle")
  BY <1>2, <1>3 DEF Done, Failed
<1>5. intent' = intent \/ intent' = NoIntent
      \/ (intent.at = "clearing" /\ intent' = [intent EXCEPT !.at = "answer"])
  BY DEF Runs, RunRecover, RunActivate, RunDeliver, RunPublish, RunClear, RunDisconnect
<1> QED BY <1>3, <1>4, <1>5 DEF NoIntent

\* No thread is taken back from those whose card was closed; a preparation or a
\* contract changes only by a click or a change.
LEMMA StoredMoves ==
  ASSUME Typed, [Next]_vars
  PROVE  /\ shut \subseteq shut'
         /\ ~Click /\ ~Change => stored' = stored
         /\ ~Click => shut' = shut
         /\ ~Change /\ ~DrainTake /\ ~Restore => pendingUi' = pendingUi
         /\ ~DrainTake /\ ~DrainPublish /\ ~Runs => drain' = drain
         /\ ~Restore /\ ~Runs => restores' = restores
<1>1. shut \subseteq shut' /\ (~Click => shut' = shut)
  BY DEF Next, Work, ReportArrives, NoticeArrives, Restore, DrainTake, DrainPublish, RunRecover,
         RunActivate, RunPublish, RunDeliver, RunClear, RunDisconnect, Answer, Timeout, Load,
         ConnectOpen, ConnectRead, Click, Navigate, Reload, Fail, Connect, Change, vars, past
<1>2. /\ ~Click /\ ~Change => stored' = stored
      /\ ~Change /\ ~DrainTake /\ ~Restore => pendingUi' = pendingUi
  BY DEF Next, Work, ReportArrives, NoticeArrives, Restore, DrainTake, DrainPublish, RunRecover,
         RunActivate, RunPublish, RunDeliver, RunClear, RunDisconnect, Answer, Timeout, Load,
         ConnectOpen, ConnectRead, Click, Navigate, Reload, Fail, Connect, Change, vars, helper
<1>3. /\ ~DrainTake /\ ~DrainPublish /\ ~Runs => drain' = drain
      /\ ~Restore /\ ~Runs => restores' = restores
  BY DEF Next, Work, ReportArrives, NoticeArrives, Restore, DrainTake, DrainPublish, Runs, Answer,
         Timeout, Load, ConnectOpen, ConnectRead, Click, Navigate, Reload, Fail, Connect, Change, vars,
         helper
<1> QED BY <1>1, <1>2, <1>3

\* A change replaces the view that is pending; a thread that is done changes no more.
LEMMA ChangePublishes ==
  ASSUME Typed, Change
  PROVE  \E u \in Threads :
           /\ stored[u].phase # "completed" /\ pendingUi'[u] = View(u, stored'[u])
           /\ \A t \in Threads \ {u} : stored'[t] = stored[t] /\ pendingUi'[t] = pendingUi[t]
<1>1. PICK u \in Threads : \E s \in Successors(stored[u]) :
        /\ stored' = [stored EXCEPT ![u] = s] /\ pendingUi' = [pendingUi EXCEPT ![u] = View(u, s)]
  BY DEF Change
<1> PICK s \in Successors(stored[u]) :
      /\ stored' = [stored EXCEPT ![u] = s] /\ pendingUi' = [pendingUi EXCEPT ![u] = View(u, s)]
  BY <1>1
<1>2. stored[u].phase # "completed" BY DEF Successors
<1>3. stored'[u] = s /\ pendingUi'[u] = View(u, s)
      /\ \A t \in Threads \ {u} : stored'[t] = stored[t] /\ pendingUi'[t] = pendingUi[t]
  BY <1>1 DEF Typed, HelperTyped
<1> QED BY <1>2, <1>3

LEMMA FreshStep == ASSUME Typed, Shape, FreshInv, [Next]_vars PROVE FreshInv'
<1>1. (intent.at # "none" => intent.view.thread \in shut)'
  <2>1. intent.at # "none" => intent.view.thread \in shut BY DEF FreshInv
  <2>2. shut \subseteq shut' BY StoredMoves
  <2>3. CASE Runs
    <3>1. [intent EXCEPT !.at = "answer"].view = intent.view BY DEF Typed, WindowTyped
    <3> QED BY <2>1, <2>2, <2>3, <3>1, RunsKeep
  <2>4. CASE Click
    <3>1. /\ shut' = shut \cup {Shown.thread}
          /\ intent'.view = Shown \/ intent'.view = View(Shown.thread, stored'[Shown.thread])
      BY <2>4 DEF Click
    <3>2. intent'.view.thread = Shown.thread BY <3>1 DEF View
    <3> QED BY <3>1, <3>2
  <2>5. CASE Answer \/ Timeout BY <2>5 DEF Answer, Timeout, NoIntent
  <2>6. CASE ~Runs /\ ~Click /\ ~Answer /\ ~Timeout
    <3>1. intent' = intent
      BY <2>6 DEF Next, Work, ReportArrives, NoticeArrives, Restore, DrainTake, DrainPublish, Runs,
                  Load, ConnectOpen, ConnectRead, Navigate, Reload, Fail, Connect, Change, vars
    <3> QED BY <2>1, <2>2, <3>1
  <2> QED BY <2>3, <2>4, <2>5, <2>6
<1>2. ASSUME NEW t \in Threads, t \notin shut' PROVE FreshAt(t)'
  <2>1. t \notin shut BY <1>2, StoredMoves
  <2>2. /\ pendingUi[t] \in {NoView, Latest(t)}
        /\ drain.at = "preferences" /\ drain.view.thread = t => ~Stale(t, drain.view)
        /\ \A x \in Elements(queue) : x.op = "publish" /\ x.thread = t => ~Stale(t, x.view)
        /\ \A x \in Elements(queue) : x.op = "clear" /\ x.thread = t => stored[t].phase = "completed"
    BY <2>1 DEF FreshInv, FreshAt
  <2>3. CASE Runs
    <3>1. /\ Elements(queue) = {Head(queue)} \cup Behind(queue)
          /\ \A y \in Elements(queue') \ Behind(queue) : y.op \in {"activate", "deliver"}
      BY <2>3, RunsTakeHead
    <3>2. UNCHANGED <<stored, pendingUi>> /\ (drain' = drain \/ drain'.at = "idle") BY <2>3, RunsKeep
    <3>3. \A y \in Elements(queue') : y.op \in {"publish", "clear"} => y \in Elements(queue) BY <3>1
    <3> QED BY <2>2, <3>2, <3>3 DEF FreshAt, Stale, Latest
  <2>4. CASE Click
    <3>1. stored' = Closed(Shown.thread) /\ shut' = shut \cup {Shown.thread} BY <2>4 DEF Click
    <3>2. t # Shown.thread BY <1>2, <3>1
    <3>3. stored'[t] = stored[t] BY <3>1, <3>2 DEF Closed, Typed, HelperTyped
    <3>4. UNCHANGED <<pendingUi, drain>> BY <2>4 DEF Click
    <3>5. \A y \in Elements(queue') \ Elements(queue) : y.op = "clear" /\ y.thread # t
      BY <2>4, <3>2, ClickGrows
    <3> QED BY <2>2, <3>3, <3>4, <3>5 DEF FreshAt, Stale, Latest
  <2>5. CASE Change
    <3>1. PICK u \in Threads :
            /\ stored[u].phase # "completed" /\ pendingUi'[u] = View(u, stored'[u])
            /\ \A w \in Threads \ {u} : stored'[w] = stored[w] /\ pendingUi'[w] = pendingUi[w]
      BY <2>5, ChangePublishes
    <3>2. UNCHANGED <<queue, drain>> BY <2>5 DEF Change, publisher
    <3>3. CASE t = u BY <2>2, <3>1, <3>2, <3>3 DEF FreshAt, Stale, Latest
    <3>4. CASE t # u BY <2>2, <3>1, <3>2, <3>4 DEF FreshAt, Stale, Latest
    <3> QED BY <3>3, <3>4
  <2>6. CASE DrainTake
    <3>1. PICK u \in Threads :
            /\ pendingUi[u] # NoView /\ pendingUi' = [pendingUi EXCEPT ![u] = NoView]
            /\ \A y \in Elements(queue') \ Elements(queue) :
                 y.op = "clear" /\ y.thread = u /\ pendingUi[u].phase = "completed"
            /\ drain'.at = "waiting" \/ drain' = [at |-> "preferences", view |-> pendingUi[u]] \/ drain' = drain
      BY <2>6, TakeGrows
    <3>2. drain.at = "idle" /\ stored' = stored BY <2>6 DEF DrainTake
    <3>3. \A y \in Elements(queue) : y.op # "publish"
      BY <3>2 DEF Shape, QueueInv, NoDrain, ItemInv, IsItem
    <3>4. \A y \in Elements(queue') : y.op # "publish" BY <3>1, <3>3
    <3>5. pendingUi'[t] \in {NoView, Latest(t)} BY <2>2, <3>1 DEF Typed, HelperTyped
    <3>6. drain'.at = "preferences" => drain'.view = pendingUi[u] BY <3>1, <3>2
    <3>7. pendingUi[u].thread = t /\ pendingUi[u] # NoView => pendingUi[u] = Latest(t)
      <4>1. pendingUi[u] # NoView => pendingUi[u].thread = u BY DEF FreshInv
      <4> QED BY <2>2, <4>1
    <3>8. \A y \in Elements(queue') \ Elements(queue) : y.thread = t => stored[t].phase = "completed"
      BY <2>2, <3>1 DEF Latest, View
    <3> QED BY <2>2, <3>1, <3>2, <3>4, <3>5, <3>6, <3>7, <3>8 DEF FreshAt, Stale, Latest
  <2>7. CASE DrainPublish
    <3>1. \A y \in Elements(queue') \ Elements(queue) : y.op = "publish" /\ y.view = drain.view /\ y.thread = drain.view.thread
      BY <2>7, PublishGrows
    <3>2. drain.at = "preferences" /\ drain'.at = "waiting" /\ UNCHANGED <<stored, pendingUi>>
      BY <2>7 DEF DrainPublish
    <3> QED BY <2>2, <3>1, <3>2 DEF FreshAt, Stale, Latest
  <2>8. CASE ReportArrives \/ NoticeArrives
    <3>1. \A y \in Elements(queue') \ Elements(queue) : y.op \in {"recover", "disconnect"}
      BY <2>8, ReportGrows, NoticeGrows
    <3>2. UNCHANGED <<stored, pendingUi, drain>> BY <2>8 DEF ReportArrives, NoticeArrives, helper
    <3> QED BY <2>2, <3>1, <3>2 DEF FreshAt, Stale, Latest
  <2>9. CASE Restore
    <3>1. PICK u \in restores :
            pendingUi' = IF stored[u].phase = "active" THEN [pendingUi EXCEPT ![u] = View(u, stored[u])]
                         ELSE pendingUi
      BY <2>9 DEF Restore
    <3>2. UNCHANGED <<stored, drain, queue>> BY <2>9 DEF Restore, publisher
    <3>3. pendingUi'[t] = pendingUi[t] \/ pendingUi'[t] = Latest(t) BY <3>1 DEF Typed, HelperTyped, Latest
    <3> QED BY <2>2, <3>2, <3>3 DEF FreshAt, Stale, Latest
  <2>10. CASE ~(Runs \/ Click \/ Change \/ DrainTake \/ DrainPublish \/ ReportArrives \/ NoticeArrives \/ Restore)
    <3>1. UNCHANGED <<stored, pendingUi, drain, queue>> BY <2>10, StoredMoves, OthersRest
    <3> QED BY <2>2, <3>1 DEF FreshAt, Stale, Latest
  <2> QED BY <2>3, <2>4, <2>5, <2>6, <2>7, <2>8, <2>9, <2>10
<1>3. ASSUME NEW t \in Threads, pendingUi'[t] # NoView PROVE pendingUi'[t].thread = t
  <2>1. pendingUi[t] # NoView => pendingUi[t].thread = t BY DEF FreshInv
  <2>2. CASE Change
    <3>1. pendingUi'[t] = View(t, stored'[t]) \/ pendingUi'[t] = pendingUi[t] BY <2>2, ChangePublishes
    <3> QED BY <1>3, <2>1, <3>1 DEF View
  <2>3. CASE DrainTake
    <3>1. pendingUi'[t] \in {NoView, pendingUi[t]} BY <2>3, TakeGrows DEF Typed, HelperTyped
    <3> QED BY <1>3, <2>1, <3>1
  <2>4. CASE Restore
    <3>1. pendingUi'[t] \in {pendingUi[t], View(t, stored[t])} BY <2>4 DEF Restore, Typed, HelperTyped
    <3> QED BY <1>3, <2>1, <3>1 DEF View
  <2>5. CASE ~Change /\ ~DrainTake /\ ~Restore BY <1>3, <2>1, <2>5, StoredMoves
  <2> QED BY <2>2, <2>3, <2>4, <2>5
<1> QED BY <1>1, <1>2, <1>3 DEF FreshInv

LEMMA EntryStep == ASSUME Typed, Shape, EntryInv, FreshInv, [Next]_vars PROVE EntryInv'
<1>1. /\ target \in [at : {"absent", "opening", "reading", "ready"}, thread : AnyThread]
      /\ bridge \in [up : BOOLEAN, first : 0..lives, life : 0..lives, latest : AnyView]
      /\ entry \in [known : BOOLEAN, thread : AnyThread, delivered : AnyView]
  BY DEF Typed, PublisherTyped, WindowTyped
<1>2. /\ ~entry.known => entry.thread = NoThread /\ entry.delivered = NoView
      /\ entry.delivered # NoView => entry.delivered.thread = entry.thread
      /\ target.at = "ready" /\ ~bridge.up => Dirty
      /\ entry.delivered # NoView /\ entry.thread \notin shut /\ ~Dirty =>
           /\ target.at = "ready" /\ bridge.up /\ target.thread = entry.thread
           /\ bridge.latest = entry.delivered /\ (config = entry.delivered \/ loading)
  BY DEF EntryInv
<1>3. ~RunDisconnect /\ ~NoticeArrives /\ Dirty => Dirty' BY DirtyMoves
<1>4. shut \subseteq shut' BY StoredMoves
<1>5. CASE RunDisconnect
  <2>1. entry' = NoEntry /\ target'.at = "absent"
    BY <1>5 DEF RunDisconnect, Destroy, NoTarget
  <2> QED BY <2>1 DEF EntryInv, NoEntry
<1>6. CASE NoticeArrives
  <2>1. UNCHANGED <<entry, target, bridge, config, loading, shut>>
    BY <1>6 DEF NoticeArrives, page, past
  <2>2. HasTarget => Dirty' BY <1>6, NoticeGrows DEF Dirty
  <2>3. ~HasTarget => ~entry.known /\ target.at = "absent" BY DEF HasTarget
  <2> QED BY <1>2, <2>1, <2>2, <2>3 DEF EntryInv
<1>7. CASE RunActivate
  <2> DEFINE item == Head(queue)
  <2>1. UNCHANGED <<loading, shut>> BY <1>7 DEF RunActivate, past
  <2>2. \/ UNCHANGED <<entry, target, bridge, config>>
        \/ entry' = EntryFor(item.thread) /\ UNCHANGED <<target, bridge>>
        \/ /\ entry' = EntryFor(item.thread) /\ target' = [target EXCEPT !.thread = item.thread]
           /\ bridge' = [bridge EXCEPT !.latest = NoView]
        \/ /\ target.at = "ready" /\ ~bridge.up /\ UNCHANGED <<entry, bridge, config>>
    BY <1>7 DEF RunActivate, Follow, ClearPage
  <2>3. ~RunDisconnect /\ ~NoticeArrives
    <3>1. Head1("activate") BY <1>7 DEF RunActivate
    <3>2. ~RunDisconnect BY <3>1 DEF RunDisconnect, Head1
    <3>3. notices' = notices /\ notices \in Nat BY <1>7 DEF RunActivate, wire, Typed, OrderTyped
    <3> QED BY <3>2, <3>3 DEF NoticeArrives
  <2>4. CASE UNCHANGED <<entry, target, bridge, config>>
    BY <1>2, <1>3, <2>1, <2>3, <2>4 DEF EntryInv
  <2>5. CASE /\ entry' = EntryFor(item.thread)
             /\ \/ UNCHANGED <<target, bridge>>
                \/ /\ target' = [target EXCEPT !.thread = item.thread]
                   /\ bridge' = [bridge EXCEPT !.latest = NoView]
    <3>1. target'.at = target.at /\ bridge'.up = bridge.up BY <1>1, <2>5
    <3>2. entry'.known /\ entry'.delivered = NoView BY <2>5 DEF EntryFor
    <3> QED BY <1>2, <1>3, <2>3, <3>1, <3>2 DEF EntryInv
  <2>6. CASE target.at = "ready" /\ ~bridge.up /\ UNCHANGED <<entry, bridge, config>>
    BY <1>2, <1>3, <2>3, <2>6 DEF EntryInv
  <2> QED BY <2>2, <2>4, <2>5, <2>6
<1>8. CASE RunDeliver \/ RunPublish
  <2> DEFINE item == Head(queue)
  <2>1. queue # <<>> /\ item.op \in {"deliver", "publish"} /\ item \in Elements(queue)
    BY <1>8, RunsTakeHead DEF RunDeliver, RunPublish, Head1, Runs
  <2>2. item.view \in Views /\ item.view.thread = item.thread /\ item.view \in AnyView /\ item.view # NoView
    BY <2>1, NoViewIsNone DEF Shape, ItemInv, IsItem, AnyView
  <2>3. item.op = "deliver" => entry.thread = item.thread /\ entry.known BY <2>1 DEF Shape, QueueInv
  <2>4. \/ Deliver(item.view) /\ entry.thread = item.thread /\ entry.known
        \/ UNCHANGED <<entry, target, bridge, config, loading>>
    <3>1. CASE RunDeliver
      <4>1. item.op = "deliver" /\ Deliver(item.view) BY <3>1 DEF RunDeliver, Head1
      <4> QED BY <2>3, <4>1
    <3>2. CASE RunPublish BY <3>2 DEF RunPublish
    <3> QED BY <1>8, <3>1, <3>2
  <2>5. shut' = shut /\ notices' = notices BY <1>8, RunsKeep DEF Runs
  <2>6. ~RunDisconnect /\ ~NoticeArrives
    <3>1. ~RunDisconnect BY <2>1 DEF RunDisconnect, Head1
    <3>2. notices \in Nat BY DEF Typed, OrderTyped
    <3> QED BY <2>5, <3>1, <3>2 DEF NoticeArrives
  <2>7. CASE UNCHANGED <<entry, target, bridge, config, loading>>
    BY <1>2, <1>3, <2>5, <2>6, <2>7 DEF EntryInv
  <2>8. CASE Deliver(item.view) /\ entry.thread = item.thread /\ entry.known
    <3> DEFINE v == item.view
    <3>1. v \in AnyView /\ v \in Views /\ v.thread = entry.thread BY <2>2, <2>8
    <3>2. Deliver(v) /\ v # NoView BY <2>2, <2>8
    <3> HIDE DEF v
    <3>3. \/ UNCHANGED <<entry, target, bridge, config, loading>>
          \/ entry' = [entry EXCEPT !.delivered = NoView] /\ UNCHANGED <<target, bridge, config, loading>>
          \/ /\ target.at = "ready" /\ bridge.up /\ target.thread = v.thread /\ config' = v
             /\ bridge' = [bridge EXCEPT !.latest = v] /\ entry' = [entry EXCEPT !.delivered = v]
             /\ UNCHANGED <<target, loading>>
          \/ entry' = [entry EXCEPT !.delivered = NoView] /\ Destroy
      BY <3>1, <3>2, DeliverKeeps
    <3>4. CASE UNCHANGED <<entry, target, bridge, config, loading>> BY <2>7, <3>4
    <3>5. CASE entry' = [entry EXCEPT !.delivered = NoView] /\ UNCHANGED <<target, bridge, config, loading>>
      <4>1. entry'.known = entry.known /\ entry'.thread = entry.thread /\ entry'.delivered = NoView
        BY <1>1, <3>5
      <4> QED BY <1>2, <1>3, <2>6, <3>5, <4>1 DEF EntryInv
    <3>6. CASE /\ target.at = "ready" /\ bridge.up /\ target.thread = v.thread /\ config' = v
               /\ bridge' = [bridge EXCEPT !.latest = v] /\ entry' = [entry EXCEPT !.delivered = v]
               /\ UNCHANGED <<target, loading>>
      <4>1. entry'.known = entry.known /\ entry'.thread = entry.thread /\ entry'.delivered = v
            /\ bridge'.up /\ bridge'.latest = v
        BY <1>1, <3>6
      <4>2. entry'.known BY <2>8, <4>1
      <4> QED BY <3>1, <3>6, <4>1, <4>2 DEF EntryInv
    <3>7. CASE entry' = [entry EXCEPT !.delivered = NoView] /\ Destroy
      <4>1. entry'.known = entry.known /\ entry'.thread = entry.thread /\ entry'.delivered = NoView
        BY <1>1, <3>7
      <4>2. target'.at = "absent" BY <3>7 DEF Destroy, NoTarget
      <4> QED BY <1>2, <4>1, <4>2 DEF EntryInv
    <3> QED BY <3>3, <3>4, <3>5, <3>6, <3>7
  <2> QED BY <2>4, <2>7, <2>8
<1>9. CASE RunClear
  <2>1. UNCHANGED <<target, loading, shut>> /\ notices' = notices BY <1>9 DEF RunClear, past, wire
  <2>2. \/ UNCHANGED <<entry, bridge, config>>
        \/ entry' = [entry EXCEPT !.delivered = NoView] /\ bridge' = [bridge EXCEPT !.latest = NoView]
    BY <1>9 DEF RunClear, ClearPage
  <2>3. ~RunDisconnect /\ ~NoticeArrives
    <3>1. ~RunDisconnect BY <1>9 DEF RunClear, RunDisconnect, Head1
    <3>2. notices \in Nat BY DEF Typed, OrderTyped
    <3> QED BY <2>1, <3>1, <3>2 DEF NoticeArrives
  <2>4. CASE UNCHANGED <<entry, bridge, config>> BY <1>2, <1>3, <2>1, <2>3, <2>4 DEF EntryInv
  <2>5. CASE entry' = [entry EXCEPT !.delivered = NoView] /\ bridge' = [bridge EXCEPT !.latest = NoView]
    <3>1. entry'.known = entry.known /\ entry'.thread = entry.thread /\ entry'.delivered = NoView
          /\ bridge'.up = bridge.up
      BY <1>1, <2>5
    <3> QED BY <1>2, <1>3, <2>1, <2>3, <3>1 DEF EntryInv
  <2> QED BY <2>2, <2>4, <2>5
<1> DEFINE Unmarked == ~RunDisconnect /\ ~NoticeArrives
<1>10. CASE Answer /\ Unmarked
  <2>1. UNCHANGED <<entry, target, loading, shut>> /\ intent.at # "none"
    BY <1>10 DEF Answer, publisher, past
  <2>2. \/ UNCHANGED <<bridge, config>>
        \/ /\ SameContract(intent.view, bridge.latest)
           /\ \E v : bridge' = [bridge EXCEPT !.latest = v]
    BY <1>10 DEF Answer
  <2>3. bridge'.up = bridge.up BY <1>1, <2>2
  <2>4. CASE UNCHANGED <<bridge, config>> BY <1>2, <1>3, <1>10, <2>1, <2>4 DEF EntryInv
  <2>5. CASE SameContract(intent.view, bridge.latest)
    <3>1. bridge.latest.thread \in shut BY <2>1, <2>5 DEF SameContract, FreshInv
    <3>2. ~(entry.delivered # NoView /\ entry.thread \notin shut /\ ~Dirty) BY <1>2, <3>1
    <3> QED BY <1>2, <1>3, <1>10, <2>1, <2>3, <3>2 DEF EntryInv
  <2> QED BY <2>2, <2>4, <2>5
<1>11. CASE Load /\ Unmarked
  <2>1. /\ UNCHANGED <<entry, target, shut>> /\ bridge.up
        /\ bridge' = [bridge EXCEPT !.life = lives + 1]
        /\ config' = IF bridge.latest = NoView THEN config ELSE bridge.latest
    BY <1>11 DEF Load, publisher, past
  <2>2. bridge'.up = bridge.up /\ bridge'.latest = bridge.latest BY <1>1, <2>1
  <2> QED BY <1>2, <1>3, <1>11, <2>1, <2>2 DEF EntryInv
<1>12. CASE Reload /\ Unmarked
  <2>1. UNCHANGED <<entry, target, shut, bridge>> /\ loading' BY <1>12 DEF Reload, publisher, past
  <2> QED BY <1>2, <1>3, <1>12, <2>1 DEF EntryInv
<1>13. CASE Fail /\ Unmarked
  <2>1. entry' = entry /\ notices' = notices + 1 /\ notices \in Nat
    BY <1>13 DEF Fail, publisher, Typed, OrderTyped
  <2>2. Dirty' BY <2>1 DEF Dirty
  <2> QED BY <1>2, <2>1, <2>2 DEF EntryInv
<1>14. CASE (Connect \/ ConnectOpen \/ ConnectRead) /\ Unmarked
  <2>1. entry' = entry /\ target.at # "ready" BY <1>14 DEF Connect, ConnectOpen, ConnectRead, publisher
  <2>2. ~(target'.at = "ready" /\ ~bridge'.up)
    <3>1. CASE Connect BY <3>1 DEF Connect
    <3>2. CASE ConnectOpen BY <1>1, <3>2 DEF ConnectOpen
    <3>3. CASE ConnectRead BY <3>3 DEF ConnectRead, Typed, BridgeInv
    <3> QED BY <1>14, <3>1, <3>2, <3>3
  <2>3. ~(entry.delivered # NoView /\ entry.thread \notin shut' /\ ~Dirty') BY <1>2, <1>3, <1>4, <1>14, <2>1
  <2> QED BY <1>2, <2>1, <2>2, <2>3 DEF EntryInv
<1>15. CASE ~(RunDisconnect \/ NoticeArrives \/ RunActivate \/ RunDeliver \/ RunPublish \/ RunClear \/ Answer
              \/ Load \/ Reload \/ Fail \/ Connect \/ ConnectOpen \/ ConnectRead)
  <2>1. UNCHANGED <<entry, target, bridge, config, loading>>
    BY <1>15 DEF Next, Work, ReportArrives, Restore, DrainTake, DrainPublish, RunRecover, Timeout, Click,
                 Navigate, Change, vars, publisher, page
  <2> QED BY <1>2, <1>3, <1>4, <1>15, <2>1 DEF EntryInv
<1> QED BY <1>5, <1>6, <1>7, <1>8, <1>9, <1>10, <1>11, <1>12, <1>13, <1>14, <1>15

\* A report that changes the order of the window is followed by a look at the page.
LEMMA ReportMoves ==
  ASSUME Typed, ReportArrives, HasTarget
  PROVE  \/ UNCHANGED order
         \/ \E x \in Elements(queue') : x.op = "recover"
<1>1. PICK r \in reports :
        IF ~HasTarget \/ Retired(r) THEN UNCHANGED <<order, queue>>
        ELSE IF Outdated(r) THEN order' = Renewed(r) /\ UNCHANGED queue
        ELSE queue' = Append(queue, Item("recover", "report", r.thread, NoView))
  BY DEF ReportArrives
<1>2. /\ order \in [life : 0..lives, sequence : Nat, retired : SUBSET (1..lives)]
      /\ r.thread \in AnyThread /\ r.sequence \in Nat
  BY DEF Typed, OrderTyped
<1>3. CASE Retired(r) BY <1>1, <1>3
<1>4. CASE ~Retired(r) /\ Outdated(r)
  <2>1. order' = Renewed(r) BY <1>1, <1>4
  <2>2. Renewed(r) = order BY <1>2, <1>4 DEF Outdated, Renewed, NoOrder
  <2> QED BY <2>1, <2>2
<1>5. CASE ~Retired(r) /\ ~Outdated(r)
  <2> DEFINE x == Item("recover", "report", r.thread, NoView)
  <2>1. x \in Items /\ x.op = "recover" BY <1>2, NewItems DEF Item
  <2>2. queue' = Append(queue, x) BY <1>1, <1>5
  <2> HIDE DEF x
  <2> QED BY <2>1, <2>2, QueueGrows
<1> QED BY <1>3, <1>4, <1>5

LEMMA ReadingStep == ASSUME Typed, Shape, ReadingInv, [Next]_vars PROVE ReadingInv'
<1>1. /\ target \in [at : {"absent", "opening", "reading", "ready"}, thread : AnyThread]
      /\ bridge \in [up : BOOLEAN, first : 0..lives, life : 0..lives, latest : AnyView]
      /\ order \in [life : 0..lives, sequence : Nat, retired : SUBSET (1..lives)]
      /\ lives \in Nat
  BY DEF Typed, WindowTyped, OrderTyped
<1> DEFINE Looked(q) == \E x \in Elements(q) : x.op = "recover"
<1> SUFFICES ASSUME target'.at = "reading", bridge'.life \in order'.retired PROVE Looked(queue')
  BY DEF ReadingInv
<1>2. CASE ConnectOpen
  <2>1. bridge'.life = lives + 1 /\ order' = order BY <1>2 DEF ConnectOpen
  <2> QED BY <1>1, <2>1
<1>3. target.at = "reading" \/ ConnectOpen
  <2>1. CASE RunDeliver \/ RunPublish
    <3>1. queue # <<>> BY <2>1 DEF RunDeliver, RunPublish, Head1
    <3>2. Head(queue).view \in AnyView BY <3>1, HeadIsTyped DEF Typed
    <3>3. Deliver(Head(queue).view) \/ UNCHANGED target BY <2>1 DEF RunDeliver, RunPublish
    <3>4. Destroy => target'.at = "absent" BY DEF Destroy, NoTarget
    <3>5. target' = target BY <3>2, <3>3, <3>4, DeliverKeeps
    <3> QED BY <3>5
  <2>2. CASE RunActivate
    <3>1. target' = target \/ target' = [target EXCEPT !.thread = Head(queue).thread] BY <2>2 DEF RunActivate
    <3> QED BY <1>1, <3>1
  <2>3. CASE RunDisconnect BY <2>3 DEF RunDisconnect, Destroy, NoTarget
  <2>4. CASE Fail BY <2>4 DEF Fail, NoTarget
  <2>5. CASE Connect \/ ConnectRead BY <2>5 DEF Connect, ConnectRead
  <2>6. CASE ~(RunDeliver \/ RunPublish \/ RunActivate \/ RunDisconnect \/ Fail \/ Connect \/ ConnectOpen \/ ConnectRead)
    <3>1. target' = target
      BY <2>6 DEF Next, Work, ReportArrives, NoticeArrives, Restore, DrainTake, DrainPublish, RunRecover, RunClear,
                  Answer, Timeout, Load, Click, Navigate, Reload, Change, vars
    <3> QED BY <3>1
  <2> QED BY <2>1, <2>2, <2>3, <2>4, <2>5, <2>6
<1> SUFFICES ASSUME target.at = "reading", ~ConnectOpen PROVE Looked(queue')
  BY <1>2, <1>3
<1>4. HasTarget BY DEF HasTarget
<1>5. CASE ReportArrives
  <2>1. bridge' = bridge BY <1>5 DEF ReportArrives
  <2>2. order' = order => Looked(queue) BY <2>1 DEF ReadingInv
  <2>3. Elements(queue) \subseteq Elements(queue') BY <1>5, ReportGrows
  <2> QED BY <1>4, <1>5, <2>2, <2>3, ReportMoves
<1>6. CASE NoticeArrives
  <2>1. order' = NoOrder BY <1>4, <1>6 DEF NoticeArrives
  <2> QED BY <2>1 DEF NoOrder
<1>7. CASE Load
  <2>1. bridge'.life = lives + 1 /\ order' = order BY <1>1, <1>7 DEF Load
  <2> QED BY <1>1, <2>1
<1>8. CASE Runs
  <2>1. ~RunRecover /\ ~RunActivate /\ ~RunDisconnect BY DEF RunRecover, RunActivate, RunDisconnect, ManagerFree
  <2>2. RunDeliver \/ RunPublish \/ RunClear BY <1>8, <2>1 DEF Runs
  <2>3. queue # <<>> /\ Head(queue).op # "recover" BY <2>2 DEF RunDeliver, RunPublish, RunClear, Head1
  <2>4. Elements(queue) = {Head(queue)} \cup Behind(queue) /\ Behind(queue) \subseteq Elements(queue')
    BY <1>8, RunsTakeHead
  <2>5. order' = order BY <1>8, RunsKeep
  <2>6. bridge'.life = bridge.life
    <3>1. CASE RunClear BY <1>1, <3>1 DEF RunClear, ClearPage
    <3>2. CASE RunDeliver \/ RunPublish
      <4>1. Head(queue).view \in AnyView BY <2>3, HeadIsTyped DEF Typed
      <4>2. Deliver(Head(queue).view) \/ UNCHANGED bridge BY <3>2 DEF RunDeliver, RunPublish
      <4>3. Destroy => target'.at = "absent" BY DEF Destroy, NoTarget
      <4> QED BY <4>1, <4>2, <4>3, DeliverKeeps
    <3> QED BY <2>2, <3>1, <3>2
  <2> QED BY <2>3, <2>4, <2>5, <2>6 DEF ReadingInv
<1>9. CASE ~(ReportArrives \/ NoticeArrives \/ Load \/ Runs)
  <2>1. order' = order
    BY <1>9 DEF Next, Work, Runs, Restore, DrainTake, DrainPublish, Answer, Timeout, ConnectRead, Click,
                Navigate, Reload, Fail, Connect, Change, vars
  <2>2. bridge'.life = bridge.life
    <3>1. CASE Fail
      <4>1. bridge' = [bridge EXCEPT !.up = FALSE] \/ target' = NoTarget BY <3>1 DEF Fail
      <4> QED BY <1>1, <4>1 DEF NoTarget
    <3>2. CASE Answer
      <4>1. bridge' = bridge \/ \E v : bridge' = [bridge EXCEPT !.latest = v] BY <3>2 DEF Answer
      <4> QED BY <1>1, <4>1
    <3>3. CASE ~Fail /\ ~Answer
      <4>1. bridge' = bridge
        BY <1>9, <3>3 DEF Next, Work, Restore, DrainTake, DrainPublish, Runs, Timeout, ConnectRead, Click,
                          Navigate, Reload, Connect, Change, vars
      <4> QED BY <4>1
    <3> QED BY <3>1, <3>2, <3>3
  <2>3. Elements(queue) \subseteq Elements(queue')
    BY <1>9, ClickGrows, TakeGrows, PublishGrows, OthersRest
  <2> QED BY <2>1, <2>2, <2>3 DEF ReadingInv
<1> QED BY <1>5, <1>6, <1>7, <1>8, <1>9

\* A window that shows a tracked thread: its card is current, or will be.
LEMMA CardStep ==
  ASSUME Typed, Shape, EntryInv, FreshInv, ReadingInv, CardInv, [Next]_vars PROVE CardInv'
<1> SUFFICES ASSUME NEW t \in Threads, t \notin shut', entry'.thread = t,
                    target' = [at |-> "ready", thread |-> t], bridge'.up, stored'[t].phase = "active"
             PROVE  (entry.delivered = Latest(t) \/ Underway(t))'
  BY DEF CardInv
<1> DEFINE Goal == entry.delivered = Latest(t) \/ Underway(t)
<1>1. /\ target \in [at : {"absent", "opening", "reading", "ready"}, thread : AnyThread]
      /\ bridge \in [up : BOOLEAN, first : 0..lives, life : 0..lives, latest : AnyView]
      /\ entry \in [known : BOOLEAN, thread : AnyThread, delivered : AnyView]
      /\ t # NoThread /\ notices \in Nat
  BY DeliveryAssumption DEF Typed, PublisherTyped, WindowTyped, OrderTyped
<1>2. t \notin shut /\ FreshAt(t) BY StoredMoves DEF FreshInv
<1>3. ASSUME stored'[t] = stored[t], entry'.thread = entry.thread, target' = target, bridge'.up = bridge.up
      PROVE  Goal
  BY <1>2, <1>3 DEF CardInv, Latest
<1>4. ASSUME Goal, stored'[t] = stored[t], entry'.delivered = entry.delivered, pendingUi'[t] = pendingUi[t],
             restores \subseteq restores', Dirty => Dirty', drain.at = "preferences" => drain' = drain,
             Elements(queue) \subseteq Elements(queue'), order' = order, reports \subseteq reports'
      PROVE  Goal'
  BY <1>4 DEF Underway, Latest, Retired, FromReport
<1>5. ASSUME pendingUi'[t] = View(t, stored'[t]) PROVE Goal' BY <1>5 DEF Underway, Latest
<1>6. ASSUME NEW x \in Elements(queue'), FromReport(x) \/ (x.op = "publish" /\ x.view = View(t, stored'[t]))
      PROVE  Goal'
  BY <1>6 DEF Underway, Latest, FromReport
<1>7. ASSUME t \in restores' \/ Dirty' PROVE Goal' BY <1>7 DEF Underway
<1>8. ~RunDisconnect /\ ~NoticeArrives /\ Dirty => Dirty' BY DirtyMoves
<1>9. CASE NoticeArrives
  <2>1. target' = target BY <1>9 DEF NoticeArrives
  <2>2. HasTarget BY <2>1 DEF HasTarget
  <2>3. Dirty' BY <1>9, <2>2, NoticeGrows DEF Dirty
  <2> QED BY <1>7, <2>3
<1>10. CASE RunDisconnect
  <2>1. entry' = NoEntry BY <1>10 DEF RunDisconnect
  <2> QED BY <1>1, <2>1 DEF NoEntry
<1> SUFFICES ASSUME ~NoticeArrives, ~RunDisconnect PROVE Goal'
  BY <1>9, <1>10
<1>11. CASE DrainTake
  <2>1. UNCHANGED <<stored, entry, target, bridge, restores, order, reports>> /\ drain.at = "idle"
    BY <1>11 DEF DrainTake, wire
  <2>2. Goal BY <1>3, <2>1
  <2>3. PICK u \in Threads :
          /\ pendingUi[u] # NoView /\ pendingUi' = [pendingUi EXCEPT ![u] = NoView]
          /\ Elements(queue) \subseteq Elements(queue')
          /\ \/ pendingUi[u].phase = "completed"
             \/ drain' = [at |-> "preferences", view |-> pendingUi[u]]
             \/ ~(entry.known /\ entry.thread = u)
    BY <1>11, TakeGrows
  <2>4. CASE u # t
    <3>1. pendingUi'[t] = pendingUi[t] BY <2>3, <2>4 DEF Typed, HelperTyped
    <3> QED BY <1>4, <1>8, <2>1, <2>2, <2>3, <3>1
  <2>5. CASE u = t
    <3>1. pendingUi[t] = Latest(t) BY <1>2, <2>3, <2>5 DEF FreshAt
    <3>2. pendingUi[t].phase = "active" BY <2>1, <3>1 DEF Latest, View
    <3>3. entry.known /\ entry.thread = t BY <1>1, <2>1 DEF EntryInv
    <3>4. drain' = [at |-> "preferences", view |-> pendingUi[t]] BY <2>3, <2>5, <3>2, <3>3
    <3>5. drain'.at = "preferences" /\ drain'.view = View(t, stored'[t]) BY <2>1, <3>1, <3>4 DEF Latest
    <3> QED BY <3>5 DEF Underway, Latest
  <2> QED BY <2>4, <2>5
<1>12. CASE DrainPublish
  <2>1. UNCHANGED <<stored, pendingUi, entry, target, bridge, restores, order, reports>>
    BY <1>12 DEF DrainPublish, wire
  <2>2. Goal BY <1>3, <2>1
  <2>3. /\ Elements(queue) \subseteq Elements(queue')
        /\ \E y \in Elements(queue') : y.op = "publish" /\ y.view = drain.view
    BY <1>12, PublishGrows
  <2>4. CASE drain.view = View(t, stored[t]) BY <1>6, <2>1, <2>3, <2>4
  <2>5. CASE drain.view # View(t, stored[t])
    BY <1>8, <2>1, <2>2, <2>3, <2>5 DEF Underway, Latest, Retired, FromReport
  <2> QED BY <2>4, <2>5
<1>13. CASE Restore
  <2>1. PICK u \in restores :
          /\ restores' = restores \ {u}
          /\ pendingUi' = IF stored[u].phase = "active" THEN [pendingUi EXCEPT ![u] = View(u, stored[u])]
                          ELSE pendingUi
    BY <1>13 DEF Restore
  <2>2. UNCHANGED <<stored, drain, queue, entry, target, bridge, order, reports>>
    BY <1>13 DEF Restore, publisher, wire
  <2>3. CASE u = t
    <3>1. pendingUi'[t] = View(t, stored'[t]) BY <2>1, <2>2, <2>3 DEF Typed, HelperTyped
    <3> QED BY <1>5, <3>1
  <2>4. CASE u # t
    <3>1. pendingUi'[t] = pendingUi[t] BY <2>1, <2>4 DEF Typed, HelperTyped
    <3>2. Goal BY <1>3, <2>2
    <3>3. t \in restores => t \in restores' BY <2>1, <2>4
    <3> QED BY <1>8, <2>2, <3>1, <3>2, <3>3 DEF Underway, Latest, Retired, FromReport
  <2> QED BY <2>3, <2>4
<1>14. CASE Change
  <2>1. PICK u \in Threads :
          /\ pendingUi'[u] = View(u, stored'[u])
          /\ \A w \in Threads \ {u} : stored'[w] = stored[w] /\ pendingUi'[w] = pendingUi[w]
    BY <1>14, ChangePublishes
  <2>2. UNCHANGED <<restores, drain, queue, entry, target, bridge, order, reports>>
    BY <1>14 DEF Change, publisher, wire
  <2>3. CASE u = t BY <1>5, <2>1, <2>3
  <2>4. CASE u # t
    <3>1. stored'[t] = stored[t] /\ pendingUi'[t] = pendingUi[t] BY <2>1, <2>4
    <3>2. Goal BY <1>3, <2>2, <3>1
    <3> QED BY <1>4, <1>8, <2>2, <3>1, <3>2
  <2> QED BY <2>3, <2>4
<1>15. CASE Click
  <2>1. UNCHANGED <<pendingUi, restores, drain, entry, target, bridge, order, reports>>
        /\ stored' = Closed(Shown.thread) /\ shut' = shut \cup {Shown.thread}
    BY <1>15 DEF Click, wire
  <2>2. stored'[t] = stored[t] BY <2>1 DEF Closed, Typed, HelperTyped
  <2>3. Goal BY <1>3, <2>1, <2>2
  <2>4. Elements(queue) \subseteq Elements(queue') BY <1>15, ClickGrows
  <2> QED BY <1>4, <1>8, <2>1, <2>2, <2>3, <2>4
<1>16. CASE ReportArrives
  <2>1. UNCHANGED <<stored, pendingUi, restores, drain, entry, target, bridge>>
    BY <1>16 DEF ReportArrives, helper
  <2>2. HasTarget BY <2>1 DEF HasTarget
  <2>3. Goal BY <1>3, <2>1
  <2>4. Elements(queue) \subseteq Elements(queue') BY <1>16, ReportGrows
  <2>5. CASE \E x \in Elements(queue') : x.op = "recover" BY <1>6, <2>5 DEF FromReport
  <2>6. CASE ~\E x \in Elements(queue') : x.op = "recover"
    <3>1. order' = order BY <1>16, <2>2, <2>6, ReportMoves
    <3>2. PICK r \in reports :
            /\ reports' = reports \ {r}
            /\ \/ Retired(r) \/ Outdated(r)
               \/ queue' = Append(queue, Item("recover", "report", r.thread, NoView))
      BY <1>16, <2>2 DEF ReportArrives
    <3>3. Retired(r) \/ Outdated(r)
      <4> DEFINE x == Item("recover", "report", r.thread, NoView)
      <4>1. r.thread \in AnyThread BY DEF Typed, OrderTyped
      <4>2. x \in Items /\ x.op = "recover" BY <4>1, NewItems DEF Item
      <4> HIDE DEF x
      <4>3. queue' # Append(queue, x) BY <2>6, <4>2, QueueGrows
      <4> QED BY <3>2, <4>3 DEF x
    <3>4. Retired(r) \/ r.sequence # 0 BY <3>3 DEF Outdated
    <3> QED BY <1>8, <2>1, <2>3, <2>4, <3>1, <3>2, <3>4 DEF Underway, Latest, Retired, FromReport
  <2> QED BY <2>5, <2>6
<1>17. CASE ConnectRead
  <2>1. UNCHANGED <<stored, pendingUi, restores, drain, queue, entry, bridge, order>> /\ target.at = "reading"
        /\ reports' = reports \cup {[thread |-> route, sequence |-> 0, life |-> bridge.life]}
    BY <1>17 DEF ConnectRead, helper, publisher
  <2>2. CASE bridge.life \in order.retired
    <3>1. \E x \in Elements(queue') : x.op = "recover" BY <2>1, <2>2 DEF ReadingInv
    <3> QED BY <1>6, <3>1 DEF FromReport
  <2>3. CASE bridge.life \notin order.retired
    <3> DEFINE r == [thread |-> route, sequence |-> 0, life |-> bridge.life]
    <3>1. r \in reports' /\ r.sequence = 0 /\ r.life \notin order'.retired BY <2>1, <2>3
    <3> HIDE DEF r
    <3>2. \E y \in reports' : y.sequence = 0 /\ y.life \notin order'.retired BY <3>1
    <3>3. (\E y \in reports : y.sequence = 0 /\ ~Retired(y))' BY <3>2 DEF Retired
    <3> QED BY <3>3 DEF Underway
  <2> QED BY <2>2, <2>3
<1>18. CASE Fail \/ Connect \/ ConnectOpen
  <2>1. target'.at = "ready" OBVIOUS
  <2>2. CASE Fail
    <3>1. bridge' = [bridge EXCEPT !.up = FALSE] \/ bridge' = NoBridge BY <2>2 DEF Fail
    <3> QED BY <1>1, <3>1 DEF NoBridge
  <2>3. CASE Connect \/ ConnectOpen
    <3>1. target'.at \in {"opening", "reading"} BY <1>1, <2>3 DEF Connect, ConnectOpen
    <3> QED BY <2>1, <3>1
  <2> QED BY <1>18, <2>2, <2>3
<1>19. CASE Answer \/ Timeout \/ Load \/ Navigate \/ Reload \/ UNCHANGED vars
  <2>1. UNCHANGED <<stored, pendingUi, restores, drain, queue, entry, target, order>> /\ reports \subseteq reports'
    BY <1>19 DEF Answer, Timeout, Load, Navigate, Reload, vars, helper, publisher, wire
  <2>2. bridge'.up = bridge.up
    <3>1. \/ bridge' = bridge \/ bridge' = [bridge EXCEPT !.life = lives + 1]
          \/ \E v : bridge' = [bridge EXCEPT !.latest = v]
      BY <1>19 DEF Answer, Timeout, Load, Navigate, Reload, vars
    <3> QED BY <1>1, <3>1
  <2>3. Goal BY <1>3, <2>1, <2>2
  <2> QED BY <1>4, <1>8, <2>1, <2>3
<1>20. CASE Runs
  <2> DEFINE item == Head(queue)
  <2>1. /\ queue # <<>> /\ item \in Items /\ item \in Elements(queue)
        /\ Elements(queue) = {item} \cup Behind(queue) /\ Behind(queue) \subseteq Elements(queue')
    BY <1>20, RunsTakeHead
  <2>2. /\ UNCHANGED <<stored, pendingUi, order, reports>> /\ restores \subseteq restores'
        /\ drain.at = "preferences" => drain' = drain
    BY <1>20, RunsKeep
  <2>3. IsItem(item) BY <2>1 DEF Shape, ItemInv
  <2>4. ASSUME Goal, entry'.delivered = entry.delivered, ~FromReport(item),
               item.op = "publish" => item.view # Latest(t)
        PROVE  Goal'
    BY <1>8, <2>1, <2>2, <2>4 DEF Underway, Latest, Retired, FromReport
  <2>5. ASSUME Done(item), item.from = "report", item.thread = t PROVE Goal'
    BY <1>1, <1>7, <2>5 DEF Done
  <2>6. CASE RunRecover
    <3> DEFINE x == Item("activate", "report", Observed(item), NoView)
    <3>1. Observed(item) \in AnyThread
      BY <2>1, DeliveryAssumption DEF Observed, Items, AnyThread, Typed, PageTyped
    <3>2. x \in Items /\ x.op = "activate" BY <3>1, NewItems DEF Item
    <3>3. queue' = Append(Tail(queue), x) /\ Tail(queue) \in Seq(Items)
      BY <2>1, <2>6, HeadIsTyped DEF RunRecover, Typed
    <3> HIDE DEF x
    <3>4. Elements(Append(Tail(queue), x)) = Elements(Tail(queue)) \cup {x} BY <3>2, <3>3, Appended
    <3>5. x \in Elements(queue') BY <3>3, <3>4
    <3> QED BY <1>6, <3>2, <3>5 DEF FromReport
  <2>7. CASE RunActivate
    <3> DEFINE v == IF item.thread = NoThread THEN NoView ELSE snapshots[item.thread]
               x == Item("deliver", "report", item.thread, v)
    <3>1. item.op = "activate" /\ item.from = "report" BY <2>3, <2>7 DEF RunActivate, Head1, IsItem, FromReport
    <3>2. \/ entry.thread = item.thread /\ Done(item) /\ entry' = entry
          \/ entry' = EntryFor(item.thread) /\ (Done(item) \/ queue' = <<x>> \o Tail(queue))
      BY <2>7 DEF RunActivate, Follow
    <3>3. item.thread = t BY <3>2 DEF EntryFor
    <3>4. CASE Done(item) BY <2>5, <3>1, <3>3, <3>4
    <3>5. CASE queue' = <<x>> \o Tail(queue)
      <4>1. v \in AnyView BY <3>3, NoViewIsNone DEF Typed, PublisherTyped
      <4>2. item.thread \in AnyThread BY <3>3 DEF AnyThread
      <4>3. x \in Items /\ x.op = "deliver" BY <4>1, <4>2, ItemIsTyped
      <4> HIDE DEF x, v
      <4>4. Elements(<<x>> \o Tail(queue)) = {x} \cup Behind(queue)
        BY <2>1, <4>3, Replaced DEF Typed, PublisherTyped
      <4>5. x \in Elements(queue') BY <3>5, <4>4
      <4> QED BY <1>6, <4>3, <4>5 DEF FromReport
    <3> QED BY <3>2, <3>4, <3>5
  <2>8. CASE RunDeliver \/ RunPublish
    <3>1. item.op \in {"deliver", "publish"} BY <2>8 DEF RunDeliver, RunPublish, Head1
    <3>2. item.view \in Views /\ item.view.thread = item.thread BY <2>3, <3>1 DEF IsItem
    <3>3. item.view \in AnyView BY <3>2 DEF AnyView
    <3>4. Deliver(item.view) \/ UNCHANGED <<entry, target, bridge>> BY <2>8 DEF RunDeliver, RunPublish
    <3>5. entry.thread = t BY <3>3, <3>4, DeliverKeeps
    <3>6. entry.known BY <1>1, <3>5 DEF EntryInv
    <3>7. CASE RunDeliver
      <4>1. item.op = "deliver" /\ item.from = "report" /\ Done(item)
        BY <2>3, <3>7 DEF RunDeliver, Head1, IsItem, FromReport
      <4>2. item.thread = t BY <2>1, <3>5, <4>1 DEF Shape, QueueInv
      <4> QED BY <2>5, <4>1, <4>2
    <3>8. CASE RunPublish /\ item.thread # t
      <4>1. UNCHANGED <<entry, target, bridge>> BY <3>5, <3>8 DEF RunPublish
      <4>2. Goal BY <1>3, <2>2, <4>1
      <4>3. item.view # Latest(t) BY <3>2, <3>8 DEF Latest, View
      <4>4. ~FromReport(item) BY <3>8 DEF RunPublish, Head1, FromReport
      <4> QED BY <2>4, <4>1, <4>2, <4>3, <4>4
    <3>9. CASE RunPublish /\ item.thread = t
      <4> DEFINE v == item.view
      <4>1. item.op = "publish" /\ Deliver(v) BY <3>5, <3>6, <3>9 DEF RunPublish, Head1
      <4>2. v = Latest(t) \/ pendingUi[t] = Latest(t) BY <1>2, <2>1, <3>9, <4>1 DEF FreshAt, Stale
      <4>3. CASE pendingUi[t] = Latest(t)
        <5>1. pendingUi'[t] = View(t, stored'[t]) BY <2>2, <4>3 DEF Latest
        <5> QED BY <1>5, <5>1
      <4>4. CASE v = Latest(t)
        <5>1. v \in AnyView /\ v.thread = t BY <3>2, <3>3, <3>9
        <5> HIDE DEF v
        <5>2. entry'.delivered = v
          <6>1. CASE entry.delivered = v /\ entry' = entry BY <6>1
          <6>2. CASE ~(entry.delivered = v /\ entry' = entry)
            <7>1. \/ /\ target' = target
                     /\ target.at = "absent" \/ (target.at = "ready" /\ target.thread # v.thread)
                  \/ entry' = [entry EXCEPT !.delivered = v]
                  \/ target' = NoTarget
              BY <4>1, <6>2 DEF Deliver, Destroy
            <7> QED BY <1>1, <5>1, <7>1 DEF NoTarget
          <6> QED BY <6>1, <6>2
        <5>3. entry'.delivered = View(t, stored'[t]) BY <2>2, <4>4, <5>2 DEF Latest
        <5> QED BY <5>3 DEF Latest
      <4> QED BY <4>2, <4>3, <4>4
    <3> QED BY <2>8, <3>7, <3>8, <3>9
  <2>9. CASE RunClear
    <3>1. item.op = "clear" BY <2>9 DEF RunClear, Head1
    <3>2. item.thread # t BY <1>2, <2>1, <2>2, <3>1 DEF FreshAt
    <3>3. entry'.thread = entry.thread BY <1>1, <2>9 DEF RunClear
    <3>4. UNCHANGED <<entry, target, bridge>> BY <2>9, <3>2, <3>3 DEF RunClear
    <3>5. Goal BY <1>3, <2>2, <3>4
    <3>6. ~FromReport(item) /\ item.op # "publish" BY <3>1 DEF FromReport
    <3> QED BY <2>4, <3>4, <3>5, <3>6
  <2> QED BY <1>20, <2>6, <2>7, <2>8, <2>9 DEF Runs
<1> QED BY <1>11, <1>12, <1>13, <1>14, <1>15, <1>16, <1>17, <1>18, <1>19, <1>20 DEF Next, Work, Runs

LEMMA InitCurrent == Init => EntryInv /\ FreshInv /\ ReadingInv /\ CardInv
<1> SUFFICES ASSUME Init PROVE EntryInv /\ FreshInv /\ ReadingInv /\ CardInv OBVIOUS
<1> DEFINE v == IF route # NoThread THEN View(route, stored[route]) ELSE NoView
<1>1. /\ entry = [known |-> TRUE, thread |-> route, delivered |-> v] /\ config = v
      /\ bridge = [up |-> TRUE, first |-> 1, life |-> 1, latest |-> v]
      /\ target = [at |-> "ready", thread |-> route] /\ queue = <<>> /\ intent = NoIntent
      /\ pendingUi = [t \in Threads |-> NoView] /\ drain.at = "idle" /\ shut = {}
  BY DEF Init
<1>2. Elements(queue) = {} BY <1>1 DEF Elements
<1>3. v # NoView => v.thread = route BY DEF View
<1>4. \A t \in Threads : route = t => v = View(t, stored[t]) BY DeliveryAssumption
<1> HIDE DEF v
<1>5. EntryInv BY <1>1, <1>3 DEF EntryInv
<1>6. FreshInv BY <1>1, <1>2 DEF FreshInv, FreshAt, NoIntent
<1>7. ReadingInv BY <1>1 DEF ReadingInv
<1>8. CardInv BY <1>1, <1>4 DEF CardInv, Latest
<1> QED BY <1>5, <1>6, <1>7, <1>8

\* Whatever the threads, the bounds, the failures and the reconnections: once
\* nothing is on its way and the publisher and the manager agree with the page
\* on its thread, the card is the view of that thread that was published last.
THEOREM CardIsAlwaysCurrent == Spec => []CardIsCurrent
<1> DEFINE Followed == Typed /\ Shape /\ EntryInv /\ FreshInv /\ ReadingInv /\ CardInv
<1>1. Init => Followed BY InitTyped, InitShape, InitCurrent
<1>2. Followed /\ [Next]_vars => Followed'
  BY StepTyped, StepInShape, EntryStep, FreshStep, ReadingStep, CardStep
<1>3. Followed => CardIsCurrent
  <2> SUFFICES ASSUME Followed, AtRest, Connected, route \in Threads \ shut, entry.thread = route,
                      target.thread = route, stored[route].phase = "active"
               PROVE  Shown = View(route, stored[route])
    BY DEF CardIsCurrent
  <2>1. /\ queue = <<>> /\ reports = {} /\ restores = {} /\ notices = 0 /\ drain.at = "idle" /\ ~loading
        /\ pendingUi[route] = NoView
    BY DEF AtRest
  <2>2. Elements(queue) = {} BY <2>1 DEF Elements
  <2>3. Latest(route) # NoView /\ Latest(route).thread = route
    BY DeliveryAssumption DEF Latest, View, NoView
  <2>4. ~Dirty BY <2>1, <2>2 DEF Dirty
  <2>5. ~Underway(route) BY <2>1, <2>2, <2>3, <2>4 DEF Underway
  <2>6. target = [at |-> "ready", thread |-> route] /\ bridge.up
    BY DEF Connected, Typed, WindowTyped
  <2>7. entry.delivered = Latest(route) BY <2>5, <2>6 DEF CardInv
  <2>8. config = Latest(route) BY <2>1, <2>3, <2>4, <2>7 DEF EntryInv
  <2> QED BY <2>3, <2>8 DEF Shown, Latest
<1> QED BY <1>1, <1>2, <1>3, PTL DEF Spec

=============================================================================
