---------------------------- MODULE SessionProofs ----------------------------
(***************************************************************************)
(* Safety of the /client connections, for any number of connections, pages   *)
(* and touch identifiers and any capacity of the touch queue.                *)
(***************************************************************************)
EXTENDS ClientSessions, TLAPS

(***************************************************************************)
(* Type correctness.                                                        *)
(***************************************************************************)

\* What a send does to the page leaves it with a title and a favicon.
LEMMA DeliverTypes ==
  ASSUME TypeOK, NEW h \in Handlers, NEW v \in AppMetas,
         NEW place \in Places, NEW failed \in Places, Deliver(h, v, place, failed)
  PROVE  /\ pc' \in [Handlers -> Places] /\ view' \in [Pages -> AppMetas]
<1> pc \in [Handlers -> Places] /\ view \in [Pages -> AppMetas] /\ PageOf[h] \in Pages
  BY ConstantsOK DEF TypeOK, HandlerTypeOK
<1> QED
  BY DEF Deliver, Goto

LEMMA SendTypes ==
  ASSUME TypeOK, NEW h \in Handlers, NEW place \in Places, NEW failed \in Places,
         SendTitle(h, place, failed) \/ SendIcon(h, place, failed)
  PROVE  /\ pc' \in [Handlers -> Places] /\ view' \in [Pages -> AppMetas]
<1>1. PageOf[h] \in Pages /\ next[h] \in AppMetas /\ view[PageOf[h]] \in AppMetas
  BY ConstantsOK DEF TypeOK, HandlerTypeOK
<1>2. /\ [view[PageOf[h]] EXCEPT !.title = next[h].title] \in AppMetas
      /\ [view[PageOf[h]] EXCEPT !.icon = next[h].icon] \in AppMetas
  BY <1>1 DEF AppMetas
<1> QED
  BY <1>2, DeliverTypes DEF SendTitle, SendIcon

LEMMA EnqueueTypes ==
  ASSUME TypeOK, NEW event \in Events, Enqueue(event)
  PROVE  touchQueue' \in Seq(Events) /\ Len(touchQueue') <= TouchCap
BY ConstantsOK DEF Enqueue, TypeOK, SharedTypeOK

LEMMA TypesInit == Init => TypeOK
<1> SUFFICES ASSUME Init PROVE TypeOK
  OBVIOUS
<1>1. InitialMeta \in AppMetas
  BY ConstantsOK DEF InitialMeta, AppMetas
<1>2. \A h \in Handlers : Event("cancel", Nobody, h) \in Events
  BY DEF Event, Events, TouchKinds
<1>3. HandlerTypeOK
  BY <1>1, <1>2 DEF Init, HandlerTypeOK, Places
<1>4. SharedTypeOK
  <2>1. << >> \in Seq(Events) /\ Len(<< >>) <= TouchCap
    BY ConstantsOK
  <2> QED
    BY <1>1, <2>1 DEF Init, SharedTypeOK
<1> QED
  BY <1>1, <1>3, <1>4 DEF Init, TypeOK

LEMMA ConnectTypes ==
  ASSUME TypeOK, NEW h \in Handlers, Connect(h) \/ Claim(h)
  PROVE  TypeOK'
<1> USE DEF TypeOK
<1>1. CASE Claim(h)
  <2>1. clientGen + 1 \in Nat /\ gen' \in [Handlers -> Nat]
    BY <1>1 DEF Claim, HandlerTypeOK, SharedTypeOK
  <2>2. pc' \in [Handlers -> Places] /\ open' \in [Handlers -> BOOLEAN]
    BY <1>1 DEF Claim, Goto, HandlerTypeOK, Places
  <2> QED
    BY <1>1, <2>1, <2>2 DEF Claim, HandlerTypeOK, SharedTypeOK, renderVars
<1>2. CASE Subscribe(h)
  BY <1>2 DEF Subscribe, Goto, HandlerTypeOK, SharedTypeOK, Places, renderVars, sharedVars
<1>3. CASE Publish(h)
  BY <1>3 DEF Publish, Goto, HandlerTypeOK, SharedTypeOK, Places, renderVars
<1>4. CASE Greet(h)
  BY <1>4 DEF Greet, Goto, HandlerTypeOK, SharedTypeOK, Places, renderVars, sharedVars
<1>5. CASE GreetTitle(h)
  <2>1. pc' \in [Handlers -> Places] /\ view' \in [Pages -> AppMetas]
    BY <1>5, SendTypes DEF GreetTitle, Places
  <2> QED
    BY <1>5, <2>1 DEF GreetTitle, HandlerTypeOK, SharedTypeOK, renderVars, sharedVars
<1>6. CASE GreetIcon(h)
  <2>1. pc' \in [Handlers -> Places] /\ view' \in [Pages -> AppMetas]
    <3>1. CASE UNCHANGED view /\ Goto(h, "loop")
      BY <3>1 DEF Goto, HandlerTypeOK, Places
    <3>2. CASE SendIcon(h, "loop", "done")
      BY <3>2, SendTypes DEF Places
    <3> QED
      BY <1>6, <3>1, <3>2 DEF GreetIcon
  <2> QED
    BY <1>6, <2>1 DEF GreetIcon, HandlerTypeOK, SharedTypeOK, renderVars, sharedVars
<1> QED
  BY <1>1, <1>2, <1>3, <1>4, <1>5, <1>6 DEF Connect

LEMMA UpdateTypes ==
  ASSUME TypeOK, NEW h \in Handlers,
         ReadMeta(h) \/ UpdateTitle(h) \/ UpdateIcon(h) \/ SendPacket(h)
  PROVE  TypeOK'
<1> USE DEF TypeOK
<1>1. CASE ReadMeta(h)
  BY <1>1 DEF ReadMeta, Goto, HandlerTypeOK, SharedTypeOK, Places, renderVars, sharedVars
<1>2. CASE UpdateTitle(h) \/ UpdateIcon(h)
  <2>1. pc' \in [Handlers -> Places] /\ view' \in [Pages -> AppMetas]
    <3>1. CASE UNCHANGED view /\ (Goto(h, "loop") \/ Goto(h, "updateIcon"))
      BY <3>1 DEF Goto, HandlerTypeOK, Places
    <3>2. CASE SendIcon(h, "loop", "farewell") \/ SendTitle(h, "updateIcon", "farewell")
      BY <3>2, SendTypes DEF Places
    <3> QED
      BY <1>2, <3>1, <3>2 DEF UpdateTitle, UpdateIcon
  <2> QED
    BY <1>2, <2>1 DEF UpdateTitle, UpdateIcon, HandlerTypeOK, SharedTypeOK, renderVars, sharedVars
<1>3. CASE SendPacket(h)
  <2>1. view[PageOf[h]] \in AppMetas
    BY ConstantsOK
  <2>2. pc' \in [Handlers -> Places] /\ view' \in [Pages -> AppMetas]
    BY <1>3, <2>1, DeliverTypes DEF SendPacket, Places
  <2> QED
    BY <1>3, <2>2 DEF SendPacket, HandlerTypeOK, SharedTypeOK, renderVars, sharedVars
<1> QED
  BY <1>1, <1>2, <1>3

LEMMA InputTypes ==
  ASSUME TypeOK, NEW h \in Handlers,
         Dispatch(h) \/ Farewell(h) \/ \E kind \in TouchKinds, id \in Ids : Incoming(h, kind, id)
  PROVE  TypeOK'
<1> USE DEF TypeOK
<1>1. CASE Dispatch(h)
  <2>1. touchQueue' \in Seq(Events) /\ Len(touchQueue') <= TouchCap
    BY <1>1, EnqueueTypes DEF Dispatch, HandlerTypeOK, SharedTypeOK
  <2> QED
    BY <1>1, <2>1 DEF Dispatch, Goto, HandlerTypeOK, SharedTypeOK, Places, renderVars
<1>2. CASE Farewell(h)
  <2>1. Event("cancel", Nobody, h) \in Events
    BY DEF Event, Events, TouchKinds
  <2>2. touchQueue' \in Seq(Events) /\ Len(touchQueue') <= TouchCap
    BY <1>2, <2>1, EnqueueTypes DEF Farewell
  <2> QED
    BY <1>2, <2>2 DEF Farewell, Goto, HandlerTypeOK, SharedTypeOK, Places, renderVars
<1>3. ASSUME NEW kind \in TouchKinds, NEW id \in Ids, Incoming(h, kind, id)
      PROVE  TypeOK'
  <2>1. Event(kind, id, h) \in Events
    BY DEF Event, Events
  <2> QED
    BY <1>3, <2>1 DEF Incoming, Goto, HandlerTypeOK, SharedTypeOK, Places, renderVars, sharedVars
<1> QED
  BY <1>1, <1>2, <1>3

\* The arms of the select!, and the peers, only move a handler or its socket.
LEMMA ArmTypes ==
  ASSUME TypeOK, NEW h \in Handlers,
         \/ Arm(h) \/ Packet(h) \/ CheckGen(h) \/ SendClose(h)
         \/ PeerLeaves(h) \/ PeerStalls(h)
  PROVE  TypeOK'
<1> USE DEF TypeOK, HandlerTypeOK, SharedTypeOK, Goto, Places, renderVars, sharedVars
<1>1. CASE MetaChanged(h)
  BY <1>1 DEF MetaChanged
<1>2. CASE PeerGone(h)
  BY <1>2 DEF PeerGone
<1>3. CASE GenChanged(h)
  BY <1>3 DEF GenChanged
<1>4. CASE ShutdownSeen(h)
  BY <1>4 DEF ShutdownSeen
<1>5. CASE Packet(h)
  BY <1>5 DEF Packet
<1>6. CASE CheckGen(h)
  BY <1>6 DEF CheckGen
<1>7. CASE SendClose(h)
  BY <1>7 DEF SendClose
<1>8. CASE PeerLeaves(h)
  BY <1>8 DEF PeerLeaves
<1>9. CASE PeerStalls(h)
  BY <1>9 DEF PeerStalls
<1> QED
  BY <1>1, <1>2, <1>3, <1>4, <1>5, <1>6, <1>7, <1>8, <1>9 DEF Arm

LEMMA RestTypes ==
  ASSUME TypeOK, RenderLoop \/ ShutDown \/ \E new \in AppMetas : MetaChanges(new)
  PROVE  TypeOK'
<1> USE DEF TypeOK, SharedTypeOK
<1>1. CASE DrainTouch
  <2>1. Head(touchQueue) \in Events
    BY <1>1 DEF DrainTouch
  <2>2. Tail(touchQueue) \in Seq(Events) /\ Len(Tail(touchQueue)) <= TouchCap
    BY <1>1, ConstantsOK DEF DrainTouch
  <2>3. active' \in [Ids -> Handlers \cup {Nobody}]
    BY <1>1, <2>1 DEF DrainTouch, Events
  <2> QED
    BY <1>1, <2>2, <2>3 DEF DrainTouch, HandlerTypeOK, handlerVars
<1>2. CASE StopLoop
  BY <1>2 DEF StopLoop, HandlerTypeOK, handlerVars, sharedVars
<1>3. CASE ShutDown
  BY <1>3 DEF ShutDown, HandlerTypeOK, handlerVars, renderVars
<1>4. ASSUME NEW new \in AppMetas, MetaChanges(new) PROVE TypeOK'
  BY <1>4 DEF MetaChanges, HandlerTypeOK, handlerVars, renderVars
<1> QED
  BY <1>1, <1>2, <1>3, <1>4 DEF RenderLoop

\* Every handler, queue and page keeps its type, and the touch queue its
\* capacity, whatever the peers do.
THEOREM SessionTypes == Spec => []TypeOK
<1>1. TypeOK /\ [Next]_vars => TypeOK'
  <2> SUFFICES ASSUME TypeOK, [Next]_vars PROVE TypeOK'
    OBVIOUS
  <2>1. CASE \E h \in Handlers : Handler(h) \/ Peer(h)
    BY <2>1, ConnectTypes, UpdateTypes, InputTypes, ArmTypes DEF Handler, Peer, Serve
  <2>2. CASE UNCHANGED vars
    BY <2>2 DEF TypeOK, HandlerTypeOK, SharedTypeOK, vars, handlerVars, sharedVars, renderVars
  <2> QED
    BY <2>1, <2>2, RestTypes DEF Next
<1> QED
  BY TypesInit, <1>1, PTL DEF Spec

-----------------------------------------------------------------------------
(***************************************************************************)
(* Replacement.  A handler learns of a newer connection through two           *)
(* channels, the counter and the watch; the invariant adds to the two         *)
(* properties that neither is ahead of what the handlers did.                 *)
(***************************************************************************)
GenBounds == \A h \in Handlers : gen[h] <= clientGen /\ seenGen[h] <= published

GenInv == GenBounds /\ NoMissedReplacement /\ NewestKept

\* The steps of a handler that have nothing to do with replacement: they start
\* and end outside the places where the counter and the watch are used.
GenPlaces == {"new", "subscribe", "publish", "check", "replaced"}

GenQuiet(h) ==
  /\ UNCHANGED <<gen, seenGen, clientGen, published>>
  /\ pc[h] \notin GenPlaces \/ pc[h] = "replaced"
  /\ \E place \in Places \ GenPlaces : pc' = [pc EXCEPT ![h] = place]
  /\ Serving(h)' => Serving(h)

LEMMA GenQuietSteps ==
  ASSUME TypeOK, NEW h \in Handlers,
         \/ Greet(h) \/ GreetTitle(h) \/ GreetIcon(h)
         \/ MetaChanged(h) \/ ReadMeta(h) \/ UpdateTitle(h) \/ UpdateIcon(h)
         \/ Packet(h) \/ SendPacket(h) \/ Dispatch(h)
         \/ PeerGone(h) \/ ShutdownSeen(h) \/ SendClose(h) \/ Farewell(h)
         \/ \E kind \in TouchKinds, id \in Ids : Incoming(h, kind, id)
  PROVE  GenQuiet(h)
<1> pc \in [Handlers -> Places]
  BY DEF TypeOK, HandlerTypeOK
<1> USE DEF GenQuiet, Goto, Serving, Places, GenPlaces
<1>1. CASE Greet(h) \/ MetaChanged(h) \/ ReadMeta(h) \/ Packet(h)
  BY <1>1 DEF Greet, MetaChanged, ReadMeta, Packet, sharedVars
<1>2. CASE GreetTitle(h) \/ GreetIcon(h)
  BY <1>2 DEF GreetTitle, GreetIcon, SendTitle, SendIcon, Deliver, sharedVars
<1>3. CASE UpdateTitle(h) \/ UpdateIcon(h) \/ SendPacket(h)
  BY <1>3 DEF UpdateTitle, UpdateIcon, SendPacket, SendTitle, SendIcon, Deliver, sharedVars
<1>4. CASE Dispatch(h) \/ Farewell(h)
  BY <1>4 DEF Dispatch, Farewell
<1>5. CASE PeerGone(h) \/ ShutdownSeen(h) \/ SendClose(h)
  BY <1>5 DEF PeerGone, ShutdownSeen, SendClose, sharedVars
<1>6. CASE \E kind \in TouchKinds, id \in Ids : Incoming(h, kind, id)
  BY <1>6 DEF Incoming, sharedVars
<1> QED
  BY <1>1, <1>2, <1>3, <1>4, <1>5, <1>6

\* A publish that is still to come stays to come, and a handler that was not
\* looking at the counter still has it to look at.
LEMMA GenQuietKeeps ==
  ASSUME TypeOK, GenInv, NEW h \in Handlers, GenQuiet(h)
  PROVE  GenInv'
<1> pc \in [Handlers -> Places]
  BY DEF TypeOK, HandlerTypeOK
<1>1. GenBounds'
  BY DEF GenInv, GenBounds, GenQuiet
<1>2. \A k \in Handlers : pc[k] \in GenPlaces \ {"replaced"} => pc'[k] = pc[k]
  BY DEF GenQuiet, GenPlaces
<1>3. \A k \in Handlers : Watching(k)' => Watching(k) /\ pc[k] # "replaced"
  BY DEF GenQuiet, Watching, Serving, GenPlaces
<1>4. NoMissedReplacement'
  BY <1>2, <1>3 DEF GenInv, NoMissedReplacement, GenQuiet, GenPlaces
<1>5. NewestKept'
  BY DEF GenInv, NewestKept, GenQuiet, GenPlaces
<1> QED
  BY <1>1, <1>4, <1>5 DEF GenInv

\* A claim makes every other connection an older one, but its own publish is to
\* come.
LEMMA ClaimKeepsGen ==
  ASSUME TypeOK, GenInv, NEW h \in Handlers, Claim(h)
  PROVE  GenInv'
<1> USE DEF TypeOK, HandlerTypeOK, SharedTypeOK, GenInv
<1>1. GenBounds'
  BY DEF GenBounds, Claim
<1>2. gen'[h] = clientGen' /\ pc'[h] = "subscribe"
  BY DEF Claim, Goto
<1>3. \A k \in Handlers : gen'[k] <= gen'[h]
  BY <1>1, <1>2 DEF GenBounds
<1>4. NoMissedReplacement'
  BY <1>2, <1>3 DEF NoMissedReplacement
<1>5. NewestKept'
  BY DEF NewestKept, GenBounds, Claim, Goto
<1> QED
  BY <1>1, <1>4, <1>5

LEMMA SubscribeKeepsGen ==
  ASSUME TypeOK, GenInv, NEW h \in Handlers, Subscribe(h)
  PROVE  GenInv'
<1> USE DEF TypeOK, HandlerTypeOK, SharedTypeOK, GenInv
<1>1. GenBounds'
  BY DEF GenBounds, Subscribe, sharedVars
<1>2. gen' = gen /\ clientGen' = clientGen /\ published' = published /\ pc'[h] = "publish"
  BY DEF Subscribe, Goto, sharedVars
<1>3. ASSUME NEW k \in Handlers, Watching(k)', gen'[k] < clientGen'
      PROVE  \/ seenGen'[k] # published'
             \/ pc'[k] = "check"
             \/ \E l \in Handlers : gen'[l] >= gen'[k] /\ pc'[l] \in {"subscribe", "publish"}
  <2>1. CASE k = h
    BY <1>2, <2>1
  <2>2. CASE k # h
    <3>1. pc'[k] = pc[k] /\ seenGen'[k] = seenGen[k] /\ Watching(k)
      BY <1>3, <2>2 DEF Subscribe, Goto, Watching, Serving
    <3>2. \A l \in Handlers : pc[l] \in {"subscribe", "publish"}
                               => pc'[l] \in {"subscribe", "publish"}
      BY DEF Subscribe, Goto
    <3> QED
      BY <1>2, <1>3, <3>1, <3>2 DEF NoMissedReplacement
  <2> QED
    BY <2>1, <2>2
<1>4. NoMissedReplacement'
  BY <1>3 DEF NoMissedReplacement
<1>5. NewestKept'
  BY <1>2 DEF NewestKept, Subscribe, Goto
<1> QED
  BY <1>1, <1>4, <1>5

\* Whatever the order of the publishes, each wakes every handler.
LEMMA PublishKeepsGen ==
  ASSUME TypeOK, GenInv, NEW h \in Handlers, Publish(h)
  PROVE  GenInv'
<1> USE DEF TypeOK, HandlerTypeOK, SharedTypeOK, GenInv
<1>1. \A k \in Handlers : seenGen'[k] < published'
  BY DEF GenBounds, Publish
<1>2. GenBounds'
  BY <1>1 DEF GenBounds, Publish
<1>3. NoMissedReplacement'
  BY <1>1 DEF NoMissedReplacement, Publish
<1>4. NewestKept'
  BY DEF NewestKept, Publish, Goto
<1> QED
  BY <1>2, <1>3, <1>4

LEMMA WakeKeepsGen ==
  ASSUME TypeOK, GenInv, NEW h \in Handlers, GenChanged(h)
  PROVE  GenInv'
<1> USE DEF TypeOK, HandlerTypeOK, SharedTypeOK, GenInv
<1>1. GenBounds'
  BY DEF GenBounds, GenChanged, sharedVars
<1>2. gen' = gen /\ clientGen' = clientGen /\ published' = published /\ pc'[h] = "check"
  BY DEF GenChanged, Goto, sharedVars
<1>3. \A k \in Handlers : k # h => pc'[k] = pc[k] /\ seenGen'[k] = seenGen[k]
  BY DEF GenChanged, Goto
<1>4. pc[h] = "loop"
  BY DEF GenChanged
<1>5. NoMissedReplacement'
  BY <1>2, <1>3, <1>4 DEF NoMissedReplacement, Watching, Serving
<1>6. NewestKept'
  BY <1>2, <1>3 DEF NewestKept
<1> QED
  BY <1>1, <1>5, <1>6

\* The counter, and not the published value, decides: it is not behind this
\* handler's generation, and at it only for the newest.
LEMMA CheckKeepsGen ==
  ASSUME TypeOK, GenInv, NEW h \in Handlers, CheckGen(h)
  PROVE  GenInv'
<1> USE DEF TypeOK, HandlerTypeOK, SharedTypeOK, GenInv
<1>1. UNCHANGED <<gen, seenGen, clientGen, published>>
  BY DEF CheckGen, sharedVars
<1>2. GenBounds'
  BY <1>1 DEF GenBounds
<1>3. \A k \in Handlers : k # h => pc'[k] = pc[k]
  BY DEF CheckGen, Goto
<1>4. \/ clientGen # gen[h] /\ pc'[h] = "replaced"
      \/ clientGen = gen[h] /\ pc'[h] = "loop"
  BY DEF CheckGen, Goto
<1>5. pc[h] = "check"
  BY DEF CheckGen
<1>6. NewestKept'
  BY <1>1, <1>3, <1>4 DEF NewestKept, GenBounds
<1>7. ASSUME NEW k \in Handlers, Watching(k)', gen'[k] < clientGen'
      PROVE  \/ seenGen'[k] # published'
             \/ pc'[k] = "check"
             \/ \E l \in Handlers : gen'[l] >= gen'[k] /\ pc'[l] \in {"subscribe", "publish"}
  <2>1. k # h
    BY <1>1, <1>4, <1>7 DEF Watching, Serving
  <2>2. pc'[k] = pc[k] /\ Watching(k)
    BY <1>3, <1>7, <2>1 DEF Watching, Serving
  <2>3. \A l \in Handlers : pc[l] \in {"subscribe", "publish"} => pc'[l] = pc[l]
    BY <1>3, <1>5
  <2> QED
    BY <1>1, <1>7, <2>2, <2>3 DEF NoMissedReplacement
<1>8. NoMissedReplacement'
  BY <1>7 DEF NoMissedReplacement
<1> QED
  BY <1>2, <1>6, <1>8

\* An older connection that still serves is bound to notice the newer one, and
\* the newest is never taken for an older one, for every interleaving of any
\* number of connections.
THEOREM ReplacementIsNoticed == Spec => [](NoMissedReplacement /\ NewestKept)
<1>1. Init => GenInv
  BY DEF Init, GenInv, GenBounds, NoMissedReplacement, NewestKept, Watching, Serving
<1>2. TypeOK /\ GenInv /\ [Next]_vars => GenInv'
  <2> SUFFICES ASSUME TypeOK, GenInv, [Next]_vars PROVE GenInv'
    OBVIOUS
  <2>1. ASSUME NEW h \in Handlers, Handler(h) \/ Claim(h)
                 \/ \E kind \in TouchKinds, id \in Ids : Incoming(h, kind, id)
        PROVE  GenInv'
    BY <2>1, GenQuietSteps, GenQuietKeeps, ClaimKeepsGen, SubscribeKeepsGen, PublishKeepsGen,
       WakeKeepsGen, CheckKeepsGen DEF Handler, Connect, Serve, Arm
  <2>2. CASE UNCHANGED <<pc, gen, seenGen, clientGen, published>>
    BY <2>2 DEF GenInv, GenBounds, NoMissedReplacement, NewestKept, Watching, Serving
  <2>3. ASSUME NEW h \in Handlers, PeerLeaves(h) \/ PeerStalls(h)
        PROVE  UNCHANGED <<pc, gen, seenGen, clientGen, published>>
    BY <2>3 DEF PeerLeaves, PeerStalls, sharedVars
  <2>4. ASSUME RenderLoop \/ ShutDown \/ \E new \in AppMetas : MetaChanges(new)
        PROVE  UNCHANGED <<pc, gen, seenGen, clientGen, published>>
    BY <2>4 DEF RenderLoop, DrainTouch, StopLoop, ShutDown, MetaChanges, handlerVars, sharedVars
  <2>5. CASE UNCHANGED vars
    BY <2>2, <2>5 DEF vars, handlerVars, sharedVars
  <2> QED
    BY <2>1, <2>2, <2>3, <2>4, <2>5 DEF Next, Peer
<1>3. GenInv => NoMissedReplacement /\ NewestKept
  BY DEF GenInv
<1> QED
  BY SessionTypes, <1>1, <1>2, <1>3, PTL DEF Spec

\* In particular no publish, in whatever order the new connections get to
\* theirs, has the newest connection closed: the handler that is woken compares
\* the counter and not what was published.
THEOREM NewestIsKept == Spec => []NewestKept
BY ReplacementIsNoticed, PTL

-----------------------------------------------------------------------------
(***************************************************************************)
(* The page.  What it shows follows what its handler has sent, which lags     *)
(* behind what the handler is about to send, and that behind the channel;     *)
(* while nothing is unseen there is no lag.  A page may have had connections    *)
(* before; but only one socket of it is open at a time (OneSocket), and only    *)
(* through that one does it change.                                         *)
(***************************************************************************)
Untold == {"new", "subscribe", "publish", "greet", "greetTitle"}
Told == {"loop", "packet", "dispatch", "check"}

OneSocket ==
  /\ \A h \in Handlers : pc[h] = "new" => ~open[h]
  /\ \A h, k \in Handlers : open[h] /\ open[k] /\ PageOf[h] = PageOf[k] => h = k

\* Nothing has been told a page that was never connected before.
NothingTold(h) ==
  pc[h] \in Untold /\ ~Reconnected(h) => view[PageOf[h]].icon = NoIcon

\* What the page shows, while its handler serves it.
Tells(h) ==
  LET title == view[PageOf[h]].title IN
  open[h] =>
    /\ pc[h] = "greetIcon" => title = next[h].title /\ ShowsIcon(h, NoIcon)
    /\ pc[h] \in Told \cup {"readMeta", "updateTitle"} =>
         title = last[h].title /\ ShowsIcon(h, last[h].icon)
    /\ pc[h] = "updateIcon" => title = next[h].title /\ ShowsIcon(h, last[h].icon)

\* What its handler knows.
Knows(h) ==
  /\ seenMeta[h] <= updates
  /\ seenMeta[h] = updates =>
       /\ pc[h] \in {"greetTitle", "greetIcon", "updateTitle", "updateIcon"} => next[h] = meta
       /\ pc[h] \in Told => last[h] = meta

PageInv == OneSocket /\ \A h \in Handlers : NothingTold(h) /\ Tells(h) /\ Knows(h)

\* A step of one handler, or of its peer, changes its page at most, and that
\* only if its socket is open.
Alone(h) ==
  /\ \E place \in Places : pc' = [pc EXCEPT ![h] = place]
  /\ pc'[h] # "new"
  /\ \A k \in Handlers \ {h} : UNCHANGED <<last[k], next[k], seenMeta[k], open[k]>>
  /\ \A p \in Pages : view'[p] = view[p] \/ (p = PageOf[h] /\ open[h])
  /\ UNCHANGED <<meta, updates>>

\* Then the page of another is its own, or is one that no other socket is open
\* for.
LEMMA OthersPages ==
  ASSUME TypeOK, PageInv, NEW h \in Handlers, Alone(h), OneSocket',
         (NothingTold(h) /\ Tells(h) /\ Knows(h))'
  PROVE  PageInv'
<1> SUFFICES ASSUME NEW k \in Handlers, k # h
             PROVE  (NothingTold(k) /\ Tells(k) /\ Knows(k))'
  BY DEF PageInv
<1>1. /\ pc \in [Handlers -> Places] /\ PageOf \in [Handlers -> Pages]
      /\ NothingTold(k) /\ Tells(k) /\ Knows(k)
  BY ConstantsOK DEF TypeOK, HandlerTypeOK, PageInv
<1>2. pc'[k] = pc[k] /\ UNCHANGED <<last[k], next[k], seenMeta[k], open[k], meta, updates>>
  BY <1>1 DEF Alone
<1>3. Reconnected(k) => Reconnected(k)'
  BY <1>1 DEF Alone, Reconnected
<1>4. Knows(k)'
  BY <1>1, <1>2 DEF Knows
<1>5. CASE view'[PageOf[k]] = view[PageOf[k]]
  <2>1. \A icon : ShowsIcon(k, icon) => ShowsIcon(k, icon)'
    BY <1>3, <1>5 DEF ShowsIcon
  <2>2. NothingTold(k)'
    BY <1>1, <1>2, <1>3, <1>5 DEF NothingTold
  <2>3. Tells(k)'
    BY <1>1, <1>2, <1>5, <2>1 DEF Tells
  <2> QED
    BY <1>4, <2>2, <2>3
<1>6. CASE PageOf[k] = PageOf[h] /\ open[h]
  <2>1. Reconnected(k)' /\ ~open'[k]
    BY <1>2, <1>6, ConstantsOK DEF PageInv, OneSocket, Alone, Reconnected
  <2> QED
    BY <1>4, <2>1 DEF NothingTold, Tells
<1> QED
  BY <1>1, <1>5, <1>6 DEF Alone

\* What the icon of a page is stays so while the page is left alone, or while
\* only its title changes.
LEMMA IconStays ==
  ASSUME TypeOK, NEW h \in Handlers, Alone(h), view'[PageOf[h]].icon = view[PageOf[h]].icon
  PROVE  /\ \A icon : ShowsIcon(h, icon) => ShowsIcon(h, icon)'
         /\ Reconnected(h) <=> Reconnected(h)'
<1> pc \in [Handlers -> Places]
  BY DEF TypeOK, HandlerTypeOK
<1>1. Reconnected(h) <=> Reconnected(h)'
  BY DEF Alone, Reconnected
<1> QED
  BY <1>1 DEF ShowsIcon

\* What a send leaves on the page.
LEMMA SentView ==
  ASSUME TypeOK, PageInv, NEW h \in Handlers, NEW v,
         NEW place \in Places \ {"new"}, NEW failed \in Places \ {"new"},
         Deliver(h, v, place, failed), UNCHANGED <<next, seenMeta, open, meta, updates>>,
         \A k \in Handlers \ {h} : last'[k] = last[k]
  PROVE  /\ Alone(h) /\ OneSocket'
         /\ \/ pc'[h] = place /\ view'[PageOf[h]] = v
            \/ pc'[h] = failed /\ ~open'[h] /\ UNCHANGED view
<1>1. pc \in [Handlers -> Places] /\ view \in [Pages -> AppMetas] /\ PageOf[h] \in Pages
  BY ConstantsOK DEF TypeOK, HandlerTypeOK
<1> QED
  BY <1>1 DEF Deliver, Goto, Alone, OneSocket, PageInv

LEMMA SentTitle ==
  ASSUME TypeOK, PageInv, NEW h \in Handlers, GreetTitle(h) \/ UpdateTitle(h)
  PROVE  PageInv'
<1>1. /\ pc \in [Handlers -> Places] /\ view[PageOf[h]] \in AppMetas /\ next[h] \in AppMetas
      /\ last[h] \in AppMetas /\ NothingTold(h) /\ Tells(h) /\ Knows(h)
  BY ConstantsOK DEF TypeOK, HandlerTypeOK, PageInv
<1> DEFINE v == [view[PageOf[h]] EXCEPT !.title = next[h].title]
<1>2. v.title = next[h].title /\ v.icon = view[PageOf[h]].icon
  BY <1>1 DEF AppMetas
<1> HIDE DEF v
<1>3. CASE GreetTitle(h)
  <2>1. /\ pc[h] = "greetTitle" /\ Deliver(h, v, "greetIcon", "done")
        /\ UNCHANGED <<last, next, seenMeta, open, meta, updates>>
    BY <1>3 DEF GreetTitle, SendTitle, sharedVars, v
  <2>2. /\ Alone(h) /\ OneSocket'
        /\ \/ pc'[h] = "greetIcon" /\ view'[PageOf[h]] = v
           \/ pc'[h] = "done" /\ ~open'[h] /\ UNCHANGED view
    BY <2>1, SentView DEF Places
  <2>3. view'[PageOf[h]].icon = view[PageOf[h]].icon
    BY <1>2, <2>2
  <2>4. ShowsIcon(h, NoIcon)'
    BY <1>1, <2>1, <2>2, <2>3, IconStays DEF NothingTold, Untold, ShowsIcon
  <2>5. (NothingTold(h) /\ Tells(h) /\ Knows(h))'
    BY <1>1, <1>2, <2>1, <2>2, <2>4 DEF NothingTold, Tells, Knows, Untold, Told
  <2> QED BY <2>2, <2>5, OthersPages
<1>4. CASE UpdateTitle(h)
  <2>1. /\ pc[h] = "updateTitle"
        /\ \/ next[h].title = last[h].title /\ Goto(h, "updateIcon") /\ UNCHANGED view
           \/ Deliver(h, v, "updateIcon", "farewell")
        /\ UNCHANGED <<last, next, seenMeta, open, meta, updates>>
    BY <1>4 DEF UpdateTitle, SendTitle, sharedVars, v
  <2>2. /\ Alone(h) /\ OneSocket'
        /\ \/ pc'[h] = "updateIcon" /\ view'[PageOf[h]].icon = view[PageOf[h]].icon
              /\ (open'[h] => view'[PageOf[h]].title = next[h].title)
           \/ pc'[h] = "farewell" /\ ~open'[h]
    <3>1. CASE Deliver(h, v, "updateIcon", "farewell")
      BY <1>2, <2>1, <3>1, SentView DEF Places
    <3>2. CASE next[h].title = last[h].title /\ Goto(h, "updateIcon") /\ UNCHANGED view
      BY <1>1, <2>1, <3>2 DEF Goto, Alone, OneSocket, PageInv, Places, Tells
    <3> QED BY <2>1, <3>1, <3>2
  <2>3. pc'[h] = "updateIcon" /\ open'[h] => ShowsIcon(h, last[h].icon)'
    <3>1. open'[h] => ShowsIcon(h, last[h].icon)
      BY <1>1, <2>1 DEF Tells
    <3> QED BY <2>1, <2>2, <3>1, IconStays
  <2>4. (NothingTold(h) /\ Tells(h) /\ Knows(h))'
    BY <1>1, <2>1, <2>2, <2>3 DEF NothingTold, Tells, Knows, Untold, Told
  <2> QED BY <2>2, <2>4, OthersPages
<1> QED
  BY <1>3, <1>4

LEMMA SentIcon ==
  ASSUME TypeOK, PageInv, NEW h \in Handlers, GreetIcon(h) \/ UpdateIcon(h)
  PROVE  PageInv'
<1>1. /\ pc \in [Handlers -> Places] /\ view[PageOf[h]] \in AppMetas /\ next[h] \in AppMetas
      /\ last \in [Handlers -> AppMetas] /\ last[h] \in AppMetas
      /\ NothingTold(h) /\ Tells(h) /\ Knows(h)
  BY ConstantsOK DEF TypeOK, HandlerTypeOK, PageInv
<1> DEFINE v == [view[PageOf[h]] EXCEPT !.icon = next[h].icon]
<1>2. v.title = view[PageOf[h]].title /\ v.icon = next[h].icon
  BY <1>1 DEF AppMetas
<1> HIDE DEF v
<1>3. /\ pc[h] \in {"greetIcon", "updateIcon"}
      /\ \/ /\ next[h].icon = (IF pc[h] = "greetIcon" THEN NoIcon ELSE last[h].icon)
            /\ Goto(h, "loop") /\ UNCHANGED view
         \/ \E failed \in {"done", "farewell"} : Deliver(h, v, "loop", failed)
      /\ last' = [last EXCEPT ![h] = next[h]]
      /\ UNCHANGED <<next, seenMeta, open, meta, updates>>
  BY DEF GreetIcon, UpdateIcon, SendIcon, sharedVars, v
<1>4. \/ /\ next[h].icon = (IF pc[h] = "greetIcon" THEN NoIcon ELSE last[h].icon)
         /\ pc'[h] = "loop" /\ UNCHANGED view /\ Alone(h) /\ OneSocket'
      \/ pc'[h] = "loop" /\ view'[PageOf[h]] = v /\ Alone(h) /\ OneSocket'
      \/ pc'[h] \in {"done", "farewell"} /\ ~open'[h] /\ Alone(h) /\ OneSocket'
  <2>1. ASSUME NEW failed \in {"done", "farewell"}, Deliver(h, v, "loop", failed)
        PROVE  /\ Alone(h) /\ OneSocket'
               /\ \/ pc'[h] = "loop" /\ view'[PageOf[h]] = v
                  \/ pc'[h] = failed /\ ~open'[h]
    <3>1. "loop" \in Places \ {"new"} /\ failed \in Places \ {"new"}
      BY DEF Places
    <3> QED BY <1>1, <1>3, <2>1, <3>1, SentView
  <2>2. CASE /\ next[h].icon = (IF pc[h] = "greetIcon" THEN NoIcon ELSE last[h].icon)
             /\ Goto(h, "loop") /\ UNCHANGED view
    BY <1>1, <1>3, <2>2 DEF Goto, Alone, OneSocket, PageInv, Places
  <2> QED BY <1>3, <2>1, <2>2
<1>5. Alone(h) /\ OneSocket'
  BY <1>4
<1>6. pc'[h] = "loop" /\ open'[h] =>
        view'[PageOf[h]].title = last'[h].title /\ ShowsIcon(h, last[h].icon)'
  <2> SUFFICES ASSUME pc'[h] = "loop", open'[h]
               PROVE  view'[PageOf[h]].title = next[h].title /\ ShowsIcon(h, last[h].icon)'
    BY <1>1, <1>3
  <2>1. /\ view[PageOf[h]].title = next[h].title
        /\ ShowsIcon(h, IF pc[h] = "greetIcon" THEN NoIcon ELSE last[h].icon)
    BY <1>1, <1>3 DEF Tells
  <2>2. last'[h].icon = next[h].icon
    BY <1>1, <1>3
  <2>3. CASE view'[PageOf[h]] = v
    BY <1>2, <2>1, <2>2, <2>3 DEF ShowsIcon
  <2>4. CASE /\ next[h].icon = (IF pc[h] = "greetIcon" THEN NoIcon ELSE last[h].icon)
             /\ UNCHANGED view
    <3>1. ShowsIcon(h, next[h].icon)
      BY <2>1, <2>4
    <3>2. Reconnected(h)' <=> Reconnected(h)
      BY <1>5, <2>4, IconStays
    <3> QED BY <2>1, <2>2, <2>4, <3>1, <3>2 DEF ShowsIcon
  <2> QED BY <1>4, <2>3, <2>4
<1>7. (NothingTold(h) /\ Tells(h) /\ Knows(h))'
  BY <1>1, <1>3, <1>4, <1>6 DEF NothingTold, Tells, Knows, Untold, Told
<1> QED
  BY <1>5, <1>7, OthersPages

\* The steps of a handler that leave its page alone.
LEMMA QuietPage ==
  ASSUME TypeOK, PageInv, NEW h \in Handlers,
         \/ Subscribe(h) \/ Publish(h) \/ Greet(h)
         \/ MetaChanged(h) \/ ReadMeta(h) \/ Packet(h) \/ SendPacket(h)
         \/ Dispatch(h) \/ CheckGen(h) \/ SendClose(h) \/ Farewell(h)
         \/ PeerGone(h) \/ GenChanged(h) \/ ShutdownSeen(h)
         \/ \E kind \in TouchKinds, id \in Ids : Incoming(h, kind, id)
  PROVE  PageInv'
<1>1. /\ pc \in [Handlers -> Places] /\ next \in [Handlers -> AppMetas]
      /\ last \in [Handlers -> AppMetas] /\ open \in [Handlers -> BOOLEAN]
      /\ seenMeta \in [Handlers -> Nat] /\ updates \in Nat
      /\ view \in [Pages -> AppMetas] /\ PageOf[h] \in Pages
      /\ OneSocket /\ NothingTold(h) /\ Tells(h) /\ Knows(h)
  BY ConstantsOK DEF TypeOK, HandlerTypeOK, SharedTypeOK, PageInv
<1> DEFINE Exits == {"replaced", "goaway", "farewell", "done"}
<1> DEFINE Going(from, to) ==
      /\ pc[h] \in from
      /\ \E place \in to : pc' = [pc EXCEPT ![h] = place]
      /\ open' = open \/ open' = [open EXCEPT ![h] = FALSE]
      /\ UNCHANGED <<last, view, meta, updates>>
<1>2. ASSUME NEW from \in SUBSET Places, NEW to \in SUBSET (Places \ {"new"}), Going(from, to),
             \A k \in Handlers \ {h} : UNCHANGED <<next[k], seenMeta[k]>>
      PROVE  /\ Alone(h) /\ OneSocket' /\ pc[h] \in from /\ pc'[h] \in to
             /\ open'[h] => open[h]
             /\ \A icon : ShowsIcon(h, icon) => ShowsIcon(h, icon)'
             /\ Reconnected(h) <=> Reconnected(h)'
  <2>1. Alone(h) /\ OneSocket' /\ (open'[h] => open[h]) /\ pc'[h] \in to
    BY <1>1, <1>2 DEF Alone, OneSocket
  <2> QED
    BY <1>2, <2>1, IconStays
<1>3. CASE Subscribe(h) \/ Publish(h)
  <2>1. Going(Untold, {"publish", "greet"}) /\ UNCHANGED <<next, seenMeta>>
    BY <1>3 DEF Subscribe, Publish, Goto, Untold, sharedVars
  <2> HIDE DEF Going
  <2>2. /\ Alone(h) /\ OneSocket' /\ pc[h] \in Untold /\ pc'[h] \in {"publish", "greet"}
        /\ Reconnected(h) <=> Reconnected(h)'
    BY <1>2, <2>1 DEF Untold, Places
  <2>3. (NothingTold(h) /\ Tells(h) /\ Knows(h))'
    BY <1>1, <2>1, <2>2 DEF Going, NothingTold, Tells, Knows, Untold, Told
  <2> QED BY <2>2, <2>3, OthersPages
<1>4. CASE Greet(h) \/ ReadMeta(h)
  <2>1. /\ \/ Going({"greet"}, {"greetTitle"})
           \/ Going({"readMeta"}, {"updateTitle"})
        /\ next' = [next EXCEPT ![h] = meta] /\ UNCHANGED seenMeta
    BY <1>4 DEF Greet, ReadMeta, Goto, sharedVars
  <2> HIDE DEF Going
  <2>2. /\ Alone(h) /\ OneSocket' /\ (open'[h] => open[h])
        /\ \/ pc[h] = "greet" /\ pc'[h] = "greetTitle"
           \/ pc[h] = "readMeta" /\ pc'[h] = "updateTitle"
        /\ \A icon : ShowsIcon(h, icon) => ShowsIcon(h, icon)'
        /\ Reconnected(h) <=> Reconnected(h)'
    <3>1. CASE Going({"greet"}, {"greetTitle"})
      BY <1>1, <1>2, <2>1, <3>1 DEF Places
    <3>2. CASE Going({"readMeta"}, {"updateTitle"})
      BY <1>1, <1>2, <2>1, <3>2 DEF Places
    <3> QED
      BY <2>1, <3>1, <3>2
  <2>3. (NothingTold(h) /\ Tells(h) /\ Knows(h))'
    BY <1>1, <2>1, <2>2 DEF Going, NothingTold, Tells, Knows, Untold, Told
  <2> QED BY <2>2, <2>3, OthersPages
<1>5. CASE MetaChanged(h)
  <2>1. /\ Going({"loop"}, {"readMeta"})
        /\ seenMeta' = [seenMeta EXCEPT ![h] = updates] /\ UNCHANGED next
    BY <1>5 DEF MetaChanged, Goto, sharedVars
  <2> HIDE DEF Going
  <2>2. /\ Alone(h) /\ OneSocket' /\ (open'[h] => open[h])
        /\ pc[h] = "loop" /\ pc'[h] = "readMeta"
        /\ \A icon : ShowsIcon(h, icon) => ShowsIcon(h, icon)'
    BY <1>1, <1>2, <2>1 DEF Places
  <2>3. (NothingTold(h) /\ Tells(h) /\ Knows(h))'
    BY <1>1, <2>1, <2>2 DEF Going, NothingTold, Tells, Knows, Untold, Told
  <2> QED BY <2>2, <2>3, OthersPages
<1>6. CASE \/ Packet(h) \/ SendPacket(h) \/ Dispatch(h) \/ CheckGen(h) \/ GenChanged(h)
           \/ PeerGone(h) \/ ShutdownSeen(h) \/ SendClose(h) \/ Farewell(h)
           \/ \E kind \in TouchKinds, id \in Ids : Incoming(h, kind, id)
  <2>1. /\ \/ Going(Told, Told \cup Exits)
           \/ Going(Exits, Exits)
        /\ UNCHANGED <<next, seenMeta>>
    <3>1. CASE SendPacket(h)
      <4>1. [view EXCEPT ![PageOf[h]] = view[PageOf[h]]] = view
        BY <1>1
      <4> QED BY <3>1, <4>1 DEF SendPacket, Deliver, Goto, Told, sharedVars
    <3>2. CASE Packet(h) \/ Dispatch(h) \/ CheckGen(h) \/ GenChanged(h)
      BY <3>2 DEF Packet, Dispatch, CheckGen, GenChanged, Goto, Told, sharedVars
    <3>3. CASE PeerGone(h) \/ ShutdownSeen(h) \/ SendClose(h) \/ Farewell(h)
      BY <3>3 DEF PeerGone, ShutdownSeen, SendClose, Farewell, Goto, Told, sharedVars
    <3>4. CASE \E kind \in TouchKinds, id \in Ids : Incoming(h, kind, id)
      BY <3>4 DEF Incoming, Goto, Told, sharedVars
    <3> QED BY <1>6, <3>1, <3>2, <3>3, <3>4
  <2>2. Told \cup Exits \subseteq Places \ {"new"}
    BY DEF Told, Places
  <2> HIDE DEF Going
  <2>3. /\ Alone(h) /\ OneSocket' /\ (open'[h] => open[h])
        /\ \/ pc[h] \in Told /\ pc'[h] \in Told \cup Exits
           \/ pc[h] \in Exits /\ pc'[h] \in Exits
        /\ \A icon : ShowsIcon(h, icon) => ShowsIcon(h, icon)'
    BY <1>1, <1>2, <2>1, <2>2
  <2>4. (NothingTold(h) /\ Tells(h) /\ Knows(h))'
    BY <1>1, <2>1, <2>3 DEF Going, NothingTold, Tells, Knows, Untold, Told
  <2> QED BY <2>3, <2>4, OthersPages
<1> QED
  BY <1>3, <1>4, <1>5, <1>6

\* A page connects: no socket of it is open.
LEMMA ClaimPages ==
  ASSUME TypeOK, PageInv, NEW h \in Handlers, Claim(h)
  PROVE  PageInv'
<1>1. /\ pc \in [Handlers -> Places] /\ open \in [Handlers -> BOOLEAN]
      /\ OneSocket /\ NothingTold(h) /\ Knows(h)
  BY DEF TypeOK, HandlerTypeOK, PageInv
<1>2. /\ pc[h] = "new" /\ pc' = [pc EXCEPT ![h] = "subscribe"]
      /\ \A k \in Handlers : PageOf[k] = PageOf[h] => ~open[k]
      /\ open' = [open EXCEPT ![h] = TRUE]
      /\ UNCHANGED <<last, next, seenMeta, view, meta, updates>>
  BY DEF Claim, Goto
<1>3. Alone(h) /\ OneSocket'
  BY <1>1, <1>2 DEF Alone, OneSocket, Places
<1>4. Reconnected(h) <=> Reconnected(h)'
  BY <1>2, <1>3, IconStays
<1>5. (NothingTold(h) /\ Tells(h) /\ Knows(h))'
  BY <1>1, <1>2, <1>4 DEF NothingTold, Tells, Knows, Untold, Told
<1> QED
  BY <1>3, <1>5, OthersPages

\* A peer that leaves, or stalls, only closes its socket.
LEMMA PeerPages ==
  ASSUME TypeOK, PageInv, NEW h \in Handlers, PeerLeaves(h) \/ PeerStalls(h)
  PROVE  PageInv'
<1>1. /\ open \in [Handlers -> BOOLEAN]
      /\ open' = open \/ open' = [open EXCEPT ![h] = FALSE]
      /\ UNCHANGED <<pc, last, next, seenMeta, view, meta, updates>>
  BY DEF TypeOK, HandlerTypeOK, PeerLeaves, PeerStalls, sharedVars
<1>2. \A k \in Handlers : open'[k] => open[k]
  BY <1>1
<1>3. OneSocket'
  BY <1>1, <1>2 DEF PageInv, OneSocket
<1>4. \A k \in Handlers : (NothingTold(k) /\ Tells(k) /\ Knows(k))'
  <2> SUFFICES ASSUME NEW k \in Handlers PROVE (NothingTold(k) /\ Tells(k) /\ Knows(k))'
    OBVIOUS
  <2>1. /\ Reconnected(k)' <=> Reconnected(k)
        /\ \A icon : ShowsIcon(k, icon)' <=> ShowsIcon(k, icon)
    BY <1>1 DEF Reconnected, ShowsIcon
  <2> QED
    BY <1>1, <1>2, <2>1 DEF PageInv, NothingTold, Tells, Knows
<1> QED
  BY <1>3, <1>4 DEF PageInv

\* An update is unseen by every handler.
LEMMA MetaChangesPages ==
  ASSUME TypeOK, PageInv, NEW new \in AppMetas, MetaChanges(new)
  PROVE  PageInv'
<1>1. updates' = updates + 1 /\ UNCHANGED <<pc, seenMeta, last, next, open, view>>
  BY DEF MetaChanges, handlerVars
<1>2. ASSUME NEW h \in Handlers PROVE (NothingTold(h) /\ Tells(h) /\ Knows(h))'
  <2>1. seenMeta[h] \in Nat /\ updates \in Nat /\ seenMeta[h] <= updates
    BY DEF TypeOK, HandlerTypeOK, SharedTypeOK, PageInv, Knows
  <2>2. Knows(h)'
    BY <1>1, <2>1 DEF Knows
  <2>3. (NothingTold(h) /\ Tells(h))'
    BY <1>1 DEF PageInv, NothingTold, Tells, ShowsIcon, Reconnected
  <2> QED
    BY <2>2, <2>3
<1> QED
  BY <1>1, <1>2 DEF PageInv, OneSocket

\* The page of a connection that waits with nothing unseen shows the current
\* title and favicon, although the handler reads the channel long before it
\* has sent what it read and sends only what differs from what it sent last;
\* also a page that has connected before, except that it may show a favicon
\* where there is none (GreetIcon).
THEOREM PageIsCurrent == Spec => []PageCurrent
<1>1. Init => PageInv
  <2>1. ASSUME Init PROVE OneSocket
    BY <2>1 DEF Init, OneSocket
  <2>2. ASSUME Init, NEW h \in Handlers PROVE NothingTold(h) /\ Tells(h) /\ Knows(h)
    <3>1. /\ pc[h] = "new" /\ ~open[h] /\ seenMeta[h] = 0 /\ updates = 0
          /\ view[PageOf[h]] = InitialMeta
      BY <2>2, ConstantsOK DEF Init
    <3> QED
      BY <3>1 DEF NothingTold, Tells, Knows, Untold, Told, InitialMeta
  <2> QED
    BY <2>1, <2>2 DEF PageInv
<1>2. TypeOK /\ PageInv /\ [Next]_vars => PageInv'
  <2> SUFFICES ASSUME TypeOK, PageInv, [Next]_vars PROVE PageInv'
    OBVIOUS
  <2>1. ASSUME NEW h \in Handlers, Handler(h) \/ Peer(h)
        PROVE  PageInv'
    BY <2>1, SentTitle, SentIcon, QuietPage, ClaimPages, PeerPages
       DEF Handler, Connect, Serve, Arm, Peer
  <2>2. CASE UNCHANGED <<pc, seenMeta, last, next, open, meta, updates, view>>
    BY <2>2 DEF PageInv, OneSocket, NothingTold, Tells, Knows, ShowsIcon, Reconnected
  <2>3. ASSUME RenderLoop \/ ShutDown
        PROVE  UNCHANGED <<pc, seenMeta, last, next, open, meta, updates, view>>
    BY <2>3 DEF RenderLoop, DrainTouch, StopLoop, ShutDown, handlerVars, sharedVars
  <2>4. CASE UNCHANGED vars
    BY <2>2, <2>4 DEF vars, handlerVars, sharedVars
  <2> QED
    BY <2>1, <2>2, <2>3, <2>4, MetaChangesPages DEF Next
<1>3. PageInv => PageCurrent
  BY DEF PageInv, PageCurrent, Tells, Knows, Told
<1> QED
  BY SessionTypes, <1>1, <1>2, <1>3, PTL DEF Spec

-----------------------------------------------------------------------------
(***************************************************************************)
(* Phantom touches.  A contact is put down long after its event was queued,  *)
(* perhaps after its connection is gone; so the invariant speaks of the       *)
(* queued starts as well, and of the greeting, from which a failed send       *)
(* returns without a cancel.                                                *)
(***************************************************************************)
Greeting == {"new", "subscribe", "publish", "greet", "greetTitle", "greetIcon"}

CancelBehind(i) == \E j \in 1..Len(touchQueue) : i < j /\ touchQueue[j].kind = "cancel"

OwnInput == \A h \in Handlers : input[h].by = h

NothingBeforeLoop ==
  \A h \in Handlers :
    pc[h] \in Greeting =>
      /\ \A id \in Ids : active[id] # h
      /\ \A i \in 1..Len(touchQueue) : touchQueue[i].by # h

StartsCancelled ==
  \A i \in 1..Len(touchQueue) :
    touchQueue[i].kind = "start" /\ pc[touchQueue[i].by] = "done" => CancelBehind(i)

TouchInv == OwnInput /\ NothingBeforeLoop /\ StartsCancelled /\ NoPhantomTouches

\* The steps of a handler that leave the touches alone: only a greeting ends
\* here, and nothing gets back into one.
TouchQuiet(h) ==
  /\ UNCHANGED <<touchQueue, active, input>>
  /\ \E place \in Places :
       /\ pc' = [pc EXCEPT ![h] = place]
       /\ place \in Greeting \cup {"done"} => pc[h] \in Greeting

LEMMA TouchQuietSteps ==
  ASSUME TypeOK, NEW h \in Handlers,
         \/ Claim(h) \/ Connect(h) \/ Arm(h) \/ Packet(h)
         \/ ReadMeta(h) \/ UpdateTitle(h) \/ UpdateIcon(h)
         \/ SendPacket(h) \/ CheckGen(h) \/ SendClose(h)
  PROVE  TouchQuiet(h)
<1> pc \in [Handlers -> Places]
  BY DEF TypeOK, HandlerTypeOK
<1> USE DEF TouchQuiet, Goto, Places, Greeting
<1>1. CASE Claim(h) \/ Subscribe(h) \/ Publish(h) \/ Greet(h)
  BY <1>1 DEF Claim, Subscribe, Publish, Greet, sharedVars, renderVars
<1>2. CASE GreetTitle(h) \/ GreetIcon(h)
  BY <1>2 DEF GreetTitle, GreetIcon, SendTitle, SendIcon, Deliver, sharedVars, renderVars
<1>3. CASE UpdateTitle(h) \/ UpdateIcon(h) \/ SendPacket(h)
  BY <1>3 DEF UpdateTitle, UpdateIcon, SendPacket, SendTitle, SendIcon, Deliver, sharedVars,
              renderVars
<1>4. CASE ReadMeta(h) \/ Packet(h) \/ CheckGen(h) \/ SendClose(h)
  BY <1>4 DEF ReadMeta, Packet, CheckGen, SendClose, sharedVars, renderVars
<1>5. CASE Arm(h)
  BY <1>5 DEF Arm, MetaChanged, PeerGone, GenChanged, ShutdownSeen, sharedVars, renderVars
<1> QED
  BY <1>1, <1>2, <1>3, <1>4, <1>5 DEF Connect

LEMMA QueuedEvents ==
  ASSUME TypeOK
  PROVE  \A i \in 1..Len(touchQueue) : touchQueue[i] \in Events /\ touchQueue[i].by \in Handlers
<1>1. touchQueue \in Seq(Events)
  BY DEF TypeOK, SharedTypeOK
<1>2. \A i \in 1..Len(touchQueue) : touchQueue[i] \in Events
  BY <1>1
<1>3. \A event \in Events : event.by \in Handlers
  BY DEF Events
<1> QED
  BY <1>2, <1>3

LEMMA TouchQuietKeeps ==
  ASSUME TypeOK, TouchInv, NEW h \in Handlers, TouchQuiet(h)
  PROVE  TouchInv'
<1> USE DEF TouchInv, TouchQuiet
<1> pc \in [Handlers -> Places] /\ touchQueue \in Seq(Events)
     /\ active \in [Ids -> Handlers \cup {Nobody}]
  BY DEF TypeOK, HandlerTypeOK, SharedTypeOK
<1>1. \A k \in Handlers : pc'[k] \in Greeting => pc[k] \in Greeting
  BY DEF Greeting
<1>2. \A k \in Handlers : pc'[k] = "done" => pc[k] = "done" \/ pc[k] \in Greeting
  BY DEF Greeting
<1>3. OwnInput' /\ NothingBeforeLoop'
  BY <1>1 DEF OwnInput, NothingBeforeLoop
<1>4. \A i \in 1..Len(touchQueue) : touchQueue[i].by \in Handlers
  BY QueuedEvents
<1>5. StartsCancelled'
  BY <1>2, <1>4 DEF StartsCancelled, NothingBeforeLoop, CancelBehind
<1>6. NoPhantomTouches'
  BY <1>2 DEF NoPhantomTouches, NothingBeforeLoop
<1> QED
  BY <1>3, <1>5, <1>6

\* A queued event keeps its place, and what was behind it.
LEMMA EnqueueKeeps ==
  ASSUME TypeOK, NEW event \in Events, Enqueue(event)
  PROVE  /\ Len(touchQueue') = Len(touchQueue) + 1
         /\ touchQueue'[Len(touchQueue')] = event
         /\ \A i \in 1..Len(touchQueue) : touchQueue'[i] = touchQueue[i]
         /\ \A i \in 1..Len(touchQueue) : CancelBehind(i) => CancelBehind(i)'
<1> touchQueue \in Seq(Events)
  BY DEF TypeOK, SharedTypeOK
<1>1. /\ Len(touchQueue') = Len(touchQueue) + 1
      /\ touchQueue'[Len(touchQueue')] = event
      /\ \A i \in 1..Len(touchQueue) : touchQueue'[i] = touchQueue[i]
  BY DEF Enqueue
<1> QED
  BY <1>1 DEF CancelBehind

LEMMA DispatchKeepsTouches ==
  ASSUME TypeOK, TouchInv, NEW h \in Handlers, Dispatch(h)
  PROVE  TouchInv'
<1> USE DEF TouchInv
<1> pc \in [Handlers -> Places] /\ touchQueue \in Seq(Events) /\ input[h] \in Events
     /\ active \in [Ids -> Handlers \cup {Nobody}]
  BY DEF TypeOK, HandlerTypeOK, SharedTypeOK
<1>1. UNCHANGED <<active, input>> /\ pc[h] = "dispatch" /\ pc'[h] = "loop"
      /\ \A k \in Handlers : k # h => pc'[k] = pc[k]
  BY DEF Dispatch, renderVars, Goto
<1>2. CASE UNCHANGED touchQueue
  <2>1. OwnInput'
    BY <1>1 DEF OwnInput
  <2>2. NothingBeforeLoop'
    <3>1. \A k \in Handlers : pc'[k] \in Greeting => pc[k] \in Greeting
      BY <1>1 DEF Greeting
    <3> QED
      BY <1>1, <1>2, <3>1 DEF NothingBeforeLoop
  <2>3. \A i \in 1..Len(touchQueue) : touchQueue[i].by \in Handlers
    BY QueuedEvents
  <2>4. StartsCancelled'
    BY <1>1, <1>2, <2>3 DEF StartsCancelled, CancelBehind
  <2>5. NoPhantomTouches'
    BY <1>1, <1>2 DEF NoPhantomTouches
  <2> QED
    BY <2>1, <2>4, <2>5, <2>2
<1>3. CASE Enqueue(input[h])
  <2>1. /\ Len(touchQueue') = Len(touchQueue) + 1
        /\ touchQueue'[Len(touchQueue')] = input[h]
        /\ \A i \in 1..Len(touchQueue) : touchQueue'[i] = touchQueue[i]
        /\ \A i \in 1..Len(touchQueue) : CancelBehind(i) => CancelBehind(i)'
    BY <1>3, EnqueueKeeps
  <2>2. input[h].by = h
    BY DEF OwnInput
  <2>3. \A i \in 1..Len(touchQueue) : touchQueue[i].by \in Handlers
    BY QueuedEvents
  <2>4. OwnInput'
    BY <1>1 DEF OwnInput
  <2>5. NothingBeforeLoop'
    BY <1>1, <2>1, <2>2 DEF NothingBeforeLoop, Greeting
  <2>6. StartsCancelled'
    BY <1>1, <2>1, <2>2, <2>3 DEF StartsCancelled
  <2>7. NoPhantomTouches'
    BY <1>1, <2>1 DEF NoPhantomTouches
  <2> QED
    BY <2>4, <2>5, <2>6, <2>7
<1> QED
  BY <1>2, <1>3 DEF Dispatch

\* The cancel is awaited, so it is behind all that the handler has queued.
LEMMA FarewellKeepsTouches ==
  ASSUME TypeOK, TouchInv, NEW h \in Handlers, Farewell(h)
  PROVE  TouchInv'
<1> USE DEF TouchInv
<1> pc \in [Handlers -> Places] /\ touchQueue \in Seq(Events)
     /\ active \in [Ids -> Handlers \cup {Nobody}]
  BY DEF TypeOK, HandlerTypeOK, SharedTypeOK
<1>1. UNCHANGED <<active, input>> /\ pc[h] = "farewell" /\ pc'[h] = "done"
      /\ \A k \in Handlers : k # h => pc'[k] = pc[k]
  BY DEF Farewell, renderVars, Goto
<1>2. Event("cancel", Nobody, h) \in Events
  BY DEF Event, Events, TouchKinds
<1>3. /\ Len(touchQueue') = Len(touchQueue) + 1
      /\ touchQueue'[Len(touchQueue')] = Event("cancel", Nobody, h)
      /\ \A i \in 1..Len(touchQueue) : touchQueue'[i] = touchQueue[i]
  BY <1>2, EnqueueKeeps DEF Farewell
<1>4. touchQueue'[Len(touchQueue')].kind = "cancel" /\ touchQueue'[Len(touchQueue')].by = h
  BY <1>3 DEF Event
<1>5. OwnInput'
  BY <1>1 DEF OwnInput
<1>6. NothingBeforeLoop'
  BY <1>1, <1>3, <1>4 DEF NothingBeforeLoop, Greeting
<1>7. StartsCancelled' /\ NoPhantomTouches'
  BY <1>3, <1>4 DEF StartsCancelled, NoPhantomTouches, CancelBehind
<1> QED
  BY <1>5, <1>6, <1>7

LEMMA IncomingKeepsTouches ==
  ASSUME TypeOK, TouchInv, NEW h \in Handlers, NEW kind \in TouchKinds, NEW id \in Ids,
         Incoming(h, kind, id)
  PROVE  TouchInv'
<1> USE DEF TouchInv
<1> pc \in [Handlers -> Places] /\ touchQueue \in Seq(Events)
     /\ active \in [Ids -> Handlers \cup {Nobody}] /\ input \in [Handlers -> Events]
  BY DEF TypeOK, HandlerTypeOK, SharedTypeOK
<1>1. UNCHANGED <<active, touchQueue>> /\ pc[h] = "loop" /\ pc'[h] = "dispatch"
      /\ \A k \in Handlers : k # h => pc'[k] = pc[k]
  BY DEF Incoming, renderVars, sharedVars, Goto
<1>2. \A i \in 1..Len(touchQueue) : touchQueue[i].by \in Handlers
  BY QueuedEvents
<1>3. OwnInput'
  BY DEF OwnInput, Incoming, Event
<1>4. NothingBeforeLoop'
  BY <1>1 DEF NothingBeforeLoop, Greeting
<1>5. StartsCancelled'
  BY <1>1, <1>2 DEF StartsCancelled, CancelBehind
<1>6. NoPhantomTouches'
  BY <1>1 DEF NoPhantomTouches
<1> QED
  BY <1>3, <1>4, <1>5, <1>6

\* A start that is drained after its connection is gone has the cancel behind
\* it in the queue.
LEMMA DrainKeepsTouches ==
  ASSUME TypeOK, TouchInv, DrainTouch
  PROVE  TouchInv'
<1> USE DEF TouchInv
<1> DEFINE event == Head(touchQueue)
<1> pc \in [Handlers -> Places] /\ touchQueue \in Seq(Events)
     /\ active \in [Ids -> Handlers \cup {Nobody}]
  BY DEF TypeOK, HandlerTypeOK, SharedTypeOK
<1>1. UNCHANGED <<pc, input>>
  BY DEF DrainTouch, handlerVars
<1>2. touchQueue # << >> /\ event = touchQueue[1] /\ event \in Events
  BY DEF DrainTouch
<1>3. /\ Len(touchQueue') = Len(touchQueue) - 1
      /\ \A i \in 1..Len(touchQueue') : i + 1 \in 1..Len(touchQueue)
                                         /\ touchQueue'[i] = touchQueue[i + 1]
  BY DEF DrainTouch
<1>4. \A i \in 1..Len(touchQueue) : touchQueue[i].kind = "cancel" /\ i # 1 =>
        i - 1 \in 1..Len(touchQueue') /\ touchQueue'[i - 1].kind = "cancel"
  BY <1>3
<1>5. \A id \in Ids : active'[id] = IF event.kind = "cancel" THEN Nobody
                     ELSE IF event.id # id \/ event.kind = "move" THEN active[id]
                     ELSE IF event.kind = "start" THEN event.by ELSE Nobody
  BY DEF DrainTouch
<1>6. OwnInput'
  BY <1>1 DEF OwnInput
<1>7. NothingBeforeLoop'
  <2>1. \A h \in Handlers : h # Nobody
    BY ConstantsOK
  <2>2. 1 \in 1..Len(touchQueue)
    BY <1>2
  <2>3. ASSUME NEW h \in Handlers, pc[h] \in Greeting
        PROVE  /\ \A id \in Ids : active'[id] # h
               /\ \A i \in 1..Len(touchQueue') : touchQueue'[i].by # h
    <3>1. /\ \A id \in Ids : active[id] # h
          /\ \A i \in 1..Len(touchQueue) : touchQueue[i].by # h
      BY <2>3 DEF NothingBeforeLoop
    <3>2. event.by # h
      BY <1>2, <2>2, <3>1
    <3>3. \A id \in Ids : active'[id] # h
      BY <1>5, <2>1, <3>1, <3>2
    <3>4. \A i \in 1..Len(touchQueue') : touchQueue'[i].by # h
      BY <1>3, <3>1
    <3> QED
      BY <3>3, <3>4
  <2> QED
    BY <1>1, <2>3 DEF NothingBeforeLoop
<1>8. StartsCancelled'
  <2> SUFFICES ASSUME NEW i \in 1..Len(touchQueue'), touchQueue'[i].kind = "start",
                      pc'[touchQueue'[i].by] = "done"
               PROVE  CancelBehind(i)'
    BY DEF StartsCancelled
  <2>1. i + 1 \in 1..Len(touchQueue) /\ touchQueue'[i] = touchQueue[i + 1]
    BY <1>3
  <2>2. CancelBehind(i + 1)
    BY <1>1, <2>1 DEF StartsCancelled
  <2>3. PICK j \in 1..Len(touchQueue) : i + 1 < j /\ touchQueue[j].kind = "cancel"
    BY <2>2 DEF CancelBehind
  <2>4. j - 1 \in 1..Len(touchQueue') /\ touchQueue'[j - 1].kind = "cancel" /\ i < j - 1
    BY <1>4, <2>3
  <2> QED
    BY <2>4 DEF CancelBehind
<1>9. NoPhantomTouches'
  <2> SUFFICES ASSUME NEW id \in Ids, active'[id] # Nobody, pc'[active'[id]] = "done"
               PROVE  \E i \in 1..Len(touchQueue') : touchQueue'[i].kind = "cancel"
    BY DEF NoPhantomTouches
  <2>1. event.kind # "cancel"
    BY <1>5
  <2>2. CASE active'[id] = active[id]
    <3>1. PICK i \in 1..Len(touchQueue) : touchQueue[i].kind = "cancel"
      BY <1>1, <2>2 DEF NoPhantomTouches
    <3> QED
      BY <1>2, <1>4, <2>1, <3>1
  <2>3. CASE event.kind = "start" /\ active'[id] = event.by
    <3>1. CancelBehind(1)
      BY <1>1, <1>2, <2>3 DEF StartsCancelled
    <3> QED
      BY <1>4, <3>1 DEF CancelBehind
  <2> QED
    BY <1>5, <2>1, <2>2, <2>3
<1> QED
  BY <1>6, <1>7, <1>8, <1>9

\* A contact left down by a connection that is gone is about to be cancelled,
\* for any capacity of the touch queue and any number of connections.
THEOREM TouchesAreCancelled == Spec => []NoPhantomTouches
<1>1. Init => TouchInv
  <2> SUFFICES ASSUME Init PROVE TouchInv
    OBVIOUS
  <2>1. OwnInput
    BY DEF Init, OwnInput, Event
  <2>2. Len(touchQueue) = 0
    BY DEF Init
  <2>3. NothingBeforeLoop
    BY <2>2, ConstantsOK DEF Init, NothingBeforeLoop
  <2>4. StartsCancelled /\ NoPhantomTouches
    BY <2>2 DEF Init, StartsCancelled, NoPhantomTouches
  <2> QED
    BY <2>1, <2>3, <2>4 DEF TouchInv
<1>2. TypeOK /\ TouchInv /\ [Next]_vars => TouchInv'
  <2> SUFFICES ASSUME TypeOK, TouchInv, [Next]_vars PROVE TouchInv'
    OBVIOUS
  <2>1. ASSUME NEW h \in Handlers, Handler(h) \/ Claim(h)
                 \/ \E kind \in TouchKinds, id \in Ids : Incoming(h, kind, id)
        PROVE  TouchInv'
    BY <2>1, TouchQuietSteps, TouchQuietKeeps, DispatchKeepsTouches, FarewellKeepsTouches,
       IncomingKeepsTouches DEF Handler, Serve
  <2>2. CASE UNCHANGED <<pc, input, touchQueue, active>>
    BY <2>2 DEF TouchInv, OwnInput, NothingBeforeLoop, StartsCancelled, NoPhantomTouches,
                CancelBehind
  <2>3. ASSUME NEW h \in Handlers, PeerLeaves(h) \/ PeerStalls(h)
        PROVE  UNCHANGED <<pc, input, touchQueue, active>>
    BY <2>3 DEF PeerLeaves, PeerStalls, sharedVars, renderVars
  <2>4. ASSUME StopLoop \/ ShutDown \/ \E new \in AppMetas : MetaChanges(new)
        PROVE  UNCHANGED <<pc, input, touchQueue, active>>
    BY <2>4 DEF StopLoop, ShutDown, MetaChanges, handlerVars, sharedVars, renderVars
  <2>5. CASE UNCHANGED vars
    BY <2>2, <2>5 DEF vars, handlerVars, sharedVars, renderVars
  <2> QED
    BY <2>1, <2>2, <2>3, <2>4, <2>5, DrainKeepsTouches DEF Next, Peer, RenderLoop
<1>3. TouchInv => NoPhantomTouches
  BY DEF TouchInv
<1> QED
  BY SessionTypes, <1>1, <1>2, <1>3, PTL DEF Spec

=============================================================================
