--------------------------- MODULE ClientSessions ---------------------------
(***************************************************************************)
(* The /client connections of server.rs: every WebSocket gets a handler task *)
(* that claims a generation, greets its page with the current state, and      *)
(* then serves packets, state changes and input until its peer leaves, a      *)
(* newer connection replaces it or the server shuts down.                     *)
(*                                                                          *)
(* The handlers run in parallel and share an atomic counter, watch channels   *)
(* and the touch queue of the render loop.  A watch channel is the number of  *)
(* values sent so far together with the number each receiver has seen.  Title *)
(* and favicon stand for all the state that is pushed to the page.            *)
(***************************************************************************)
EXTENDS Integers, Sequences, FiniteSets

CONSTANTS
  Handlers,       \* the connections made, in any order
  Pages,          \* browser pages; one may connect several times in turn
  PageOf,         \* PageOf[h]: the page connection h belongs to
  Titles, Icons,  \* what the topmost window may be called and show
  NoIcon,         \* a window without an icon
  Ids,            \* touch identifiers
  TouchCap,       \* capacity of the touch queue (32 in the code)
  PeersStall,     \* may a peer stop reading its socket?
  MayShutDown,    \* may the server be told to shut down?
  MaxMeta,        \* bound: changes of the title or the icon
  MaxTouches      \* bound: touch messages of the peers

Nobody == "nobody"

ASSUME ConstantsOK ==
  /\ Nobody \notin Handlers \cup Ids
  /\ PageOf \in [Handlers -> Pages]
  /\ NoIcon \in Icons /\ Titles # {}
  /\ TouchCap \in Nat \ {0}
  /\ PeersStall \in BOOLEAN /\ MayShutDown \in BOOLEAN
  /\ MaxMeta \in Nat /\ MaxTouches \in Nat

VARIABLES
  \* One handler each.
  pc,         \* where handler h is
  gen,        \* my_gen, 0 before it is claimed
  seenGen,    \* publishes its client_gen_rx has seen
  seenMeta,   \* updates its app_meta_rx has seen
  last,       \* last_app_meta
  next,       \* the AppMeta being sent
  input,      \* the touch event being dispatched
  open,       \* its socket is open, as the peer sees it
  stalled,    \* its peer does not read
  \* Shared by the handlers.
  clientGen,  \* client_gen
  published,  \* number of sends on client_gen_tx
  genValue,   \* the value last sent there
  meta,       \* value of the app_meta channel
  updates,    \* number of sends on app_meta_tx
  touchQueue, \* touch_tx / touch_rx
  shutdown,   \* shutdown_rx
  \* Render loop and pages.
  running,    \* the render loop has not stopped
  active,     \* active[id]: the handler whose contact id is down, or Nobody
  view,       \* view[p]: the title and favicon page p shows
  touches     \* bound

AppMetas == [title: Titles, icon: Icons]

handlerVars == <<pc, gen, seenGen, seenMeta, last, next, input, open, stalled>>
sharedVars  == <<clientGen, published, genValue, meta, updates, touchQueue, shutdown>>
renderVars  == <<running, active>>
vars == <<handlerVars, sharedVars, renderVars, view, touches>>

\* Contacts are told apart by identifier; "by" is the handler that forwarded
\* the event.
TouchKinds == {"start", "move", "end", "cancel"}
Event(kind, id, h) == [kind |-> kind, id |-> id, by |-> h]

Goto(h, place) == pc' = [pc EXCEPT ![h] = place]

InitialMeta == [title |-> CHOOSE t \in Titles : TRUE, icon |-> NoIcon]

Init ==
  /\ pc = [h \in Handlers |-> "new"]
  /\ gen = [h \in Handlers |-> 0]
  /\ seenGen = [h \in Handlers |-> 0]
  /\ seenMeta = [h \in Handlers |-> 0]
  /\ last = [h \in Handlers |-> InitialMeta]
  /\ next = [h \in Handlers |-> InitialMeta]
  /\ input = [h \in Handlers |-> Event("cancel", Nobody, h)]
  /\ open = [h \in Handlers |-> FALSE]
  /\ stalled = [h \in Handlers |-> FALSE]
  /\ clientGen = 0 /\ published = 0 /\ genValue = 0
  /\ meta = InitialMeta /\ updates = 0
  /\ touchQueue = << >>
  /\ shutdown = FALSE
  /\ running = TRUE
  /\ active = [id \in Ids |-> Nobody]
  /\ view = [p \in Pages |-> InitialMeta]
  /\ touches = 0

-----------------------------------------------------------------------------
(***************************************************************************)
(* Connecting.                                                              *)
(***************************************************************************)

\* A page connects when it has no socket of its own left; the upgraded
\* connection claims the next generation: fetch_add.
Claim(h) ==
  /\ pc[h] = "new"
  /\ \A k \in Handlers : PageOf[k] = PageOf[h] => ~open[k]
  /\ clientGen' = clientGen + 1
  /\ gen' = [gen EXCEPT ![h] = clientGen + 1]
  /\ open' = [open EXCEPT ![h] = TRUE]
  /\ Goto(h, "subscribe")
  /\ UNCHANGED <<seenGen, seenMeta, last, next, input, stalled, published, genValue,
                 meta, updates, touchQueue, shutdown, renderVars, view, touches>>

\* client_gen_tx.subscribe(): a new receiver has seen the current value.
Subscribe(h) ==
  /\ pc[h] = "subscribe"
  /\ seenGen' = [seenGen EXCEPT ![h] = published]
  /\ Goto(h, "publish")
  /\ UNCHANGED <<gen, seenMeta, last, next, input, open, stalled, sharedVars, renderVars,
                 view, touches>>

\* A bug: the new connection does not wake the others.
PublishNothing(h) ==
  /\ pc[h] = "publish"
  /\ Goto(h, "greet")
  /\ UNCHANGED <<gen, seenGen, seenMeta, last, next, input, open, stalled, sharedVars,
                 renderVars, view, touches>>

\* client_gen_tx.send(my_gen).
Publish(h) ==
  /\ pc[h] = "publish"
  /\ published' = published + 1
  /\ genValue' = gen[h]
  /\ Goto(h, "greet")
  /\ UNCHANGED <<gen, seenGen, seenMeta, last, next, input, open, stalled, clientGen, meta,
                 updates, touchQueue, shutdown, renderVars, view, touches>>

\* app_meta_rx.borrow() for the greeting.  The receiver is a clone of one that
\* never saw a value, so it will report every update so far once more.
Greet(h) ==
  /\ pc[h] = "greet"
  /\ next' = [next EXCEPT ![h] = meta]
  /\ Goto(h, "greetTitle")
  /\ UNCHANGED <<gen, seenGen, seenMeta, last, input, open, stalled, sharedVars, renderVars,
                 view, touches>>

\* One awaited send of a message that changes the page's view: it takes effect
\* when the peer reads, and fails on a socket the peer has closed.
Deliver(h, newView, place, failed) ==
  \/ /\ open[h] /\ ~stalled[h]
     /\ view' = [view EXCEPT ![PageOf[h]] = newView]
     /\ Goto(h, place)
  \/ /\ ~open[h]
     /\ Goto(h, failed)
     /\ UNCHANGED view

SendTitle(h, place, failed) ==
  Deliver(h, [view[PageOf[h]] EXCEPT !.title = next[h].title], place, failed)

SendIcon(h, place, failed) ==
  Deliver(h, [view[PageOf[h]] EXCEPT !.icon = next[h].icon], place, failed)

\* The greeting: the title always, the favicon only when there is one.  A
\* failed send returns from the handler without the farewell.
GreetTitle(h) ==
  /\ pc[h] = "greetTitle"
  /\ SendTitle(h, "greetIcon", "done")
  /\ UNCHANGED <<gen, seenGen, seenMeta, last, next, input, open, stalled, sharedVars,
                 renderVars, touches>>

GreetIcon(h) ==
  /\ pc[h] = "greetIcon"
  /\ \/ next[h].icon = NoIcon /\ Goto(h, "loop") /\ UNCHANGED view
     \/ next[h].icon # NoIcon /\ SendIcon(h, "loop", "done")
  /\ last' = [last EXCEPT ![h] = next[h]]
  /\ UNCHANGED <<gen, seenGen, seenMeta, next, input, open, stalled, sharedVars,
                 renderVars, touches>>

-----------------------------------------------------------------------------
(***************************************************************************)
(* The select! loop: one action per arm, and one per await inside it.       *)
(***************************************************************************)

\* app_meta_rx.changed() marks the update as seen; what is read afterwards may
\* be newer.
MetaChanged(h) ==
  /\ pc[h] = "loop"
  /\ seenMeta[h] # updates
  /\ seenMeta' = [seenMeta EXCEPT ![h] = updates]
  /\ Goto(h, "readMeta")
  /\ UNCHANGED <<gen, seenGen, last, next, input, open, stalled, sharedVars, renderVars,
                 view, touches>>

ReadMeta(h) ==
  /\ pc[h] = "readMeta"
  /\ next' = [next EXCEPT ![h] = meta]
  /\ Goto(h, "updateTitle")
  /\ UNCHANGED <<gen, seenGen, seenMeta, last, input, open, stalled, sharedVars, renderVars,
                 view, touches>>

UpdateTitle(h) ==
  /\ pc[h] = "updateTitle"
  /\ \/ next[h].title = last[h].title /\ Goto(h, "updateIcon") /\ UNCHANGED view
     \/ next[h].title # last[h].title /\ SendTitle(h, "updateIcon", "farewell")
  /\ UNCHANGED <<gen, seenGen, seenMeta, last, next, input, open, stalled, sharedVars,
                 renderVars, touches>>

\* A bug: the channel is read again to record what was sent.
UpdateIconRereading(h) ==
  /\ pc[h] = "updateIcon"
  /\ \/ next[h].icon = last[h].icon /\ Goto(h, "loop") /\ UNCHANGED view
     \/ next[h].icon # last[h].icon /\ SendIcon(h, "loop", "farewell")
  /\ last' = [last EXCEPT ![h] = meta]
  /\ UNCHANGED <<gen, seenGen, seenMeta, next, input, open, stalled, sharedVars,
                 renderVars, touches>>

UpdateIcon(h) ==
  /\ pc[h] = "updateIcon"
  /\ \/ next[h].icon = last[h].icon /\ Goto(h, "loop") /\ UNCHANGED view
     \/ next[h].icon # last[h].icon /\ SendIcon(h, "loop", "farewell")
  /\ last' = [last EXCEPT ![h] = next[h]]
  /\ UNCHANGED <<gen, seenGen, seenMeta, next, input, open, stalled, sharedVars,
                 renderVars, touches>>

\* A packet, or other state, to send: what it carries is abstracted from.
Packet(h) ==
  /\ pc[h] = "loop"
  /\ Goto(h, "packet")
  /\ UNCHANGED <<gen, seenGen, seenMeta, last, next, input, open, stalled, sharedVars,
                 renderVars, view, touches>>

SendPacket(h) ==
  /\ pc[h] = "packet"
  /\ Deliver(h, view[PageOf[h]], "loop", "farewell")
  /\ UNCHANGED <<gen, seenGen, seenMeta, last, next, input, open, stalled, sharedVars,
                 renderVars, touches>>

\* receiver.next() yields a touch event.
Incoming(h, kind, id) ==
  /\ pc[h] = "loop" /\ open[h]
  /\ touches < MaxTouches
  /\ touches' = touches + 1
  /\ input' = [input EXCEPT ![h] = Event(kind, id, h)]
  /\ Goto(h, "dispatch")
  /\ UNCHANGED <<gen, seenGen, seenMeta, last, next, open, stalled, sharedVars, renderVars,
                 view>>

\* touch_tx.send() and try_send(): there must be room.
Enqueue(event) ==
  /\ Len(touchQueue) < TouchCap
  /\ touchQueue' = Append(touchQueue, event)

\* dispatch_signaling_message(): a move is dropped on a full queue, the others
\* await room.
Dispatch(h) ==
  /\ pc[h] = "dispatch"
  /\ \/ Enqueue(input[h])
     \/ input[h].kind = "move" /\ Len(touchQueue) >= TouchCap /\ UNCHANGED touchQueue
  /\ Goto(h, "loop")
  /\ UNCHANGED <<gen, seenGen, seenMeta, last, next, input, open, stalled, clientGen,
                 published, genValue, meta, updates, shutdown, renderVars, view, touches>>

\* receiver.next() yields the end of the stream.
PeerGone(h) ==
  /\ pc[h] = "loop" /\ ~open[h]
  /\ Goto(h, "farewell")
  /\ UNCHANGED <<gen, seenGen, seenMeta, last, next, input, open, stalled, sharedVars,
                 renderVars, view, touches>>

\* client_gen_rx.changed().
GenChanged(h) ==
  /\ pc[h] = "loop"
  /\ seenGen[h] # published
  /\ seenGen' = [seenGen EXCEPT ![h] = published]
  /\ Goto(h, "check")
  /\ UNCHANGED <<gen, seenMeta, last, next, input, open, stalled, sharedVars, renderVars,
                 view, touches>>

\* A bug: the published value is compared, not the counter.
CheckGenByValue(h) ==
  /\ pc[h] = "check"
  /\ Goto(h, IF genValue # gen[h] THEN "replaced" ELSE "loop")
  /\ UNCHANGED <<gen, seenGen, seenMeta, last, next, input, open, stalled, sharedVars,
                 renderVars, view, touches>>

\* The woken handler reads the counter: is there a newer connection?
CheckGen(h) ==
  /\ pc[h] = "check"
  /\ Goto(h, IF clientGen # gen[h] THEN "replaced" ELSE "loop")
  /\ UNCHANGED <<gen, seenGen, seenMeta, last, next, input, open, stalled, sharedVars,
                 renderVars, view, touches>>

\* shutdown_rx.changed().
ShutdownSeen(h) ==
  /\ pc[h] = "loop" /\ shutdown
  /\ Goto(h, "goaway")
  /\ UNCHANGED <<gen, seenGen, seenMeta, last, next, input, open, stalled, sharedVars,
                 renderVars, view, touches>>

\* The awaited Close frame; an error is ignored.
SendClose(h) ==
  /\ pc[h] \in {"replaced", "goaway"}
  /\ ~open[h] \/ ~stalled[h]
  /\ open' = [open EXCEPT ![h] = FALSE]
  /\ Goto(h, "farewell")
  /\ UNCHANGED <<gen, seenGen, seenMeta, last, next, input, stalled, sharedVars, renderVars,
                 view, touches>>

\* A bug: the cancel is dropped when the queue is full.
FarewellLossy(h) ==
  /\ pc[h] = "farewell"
  /\ \/ Enqueue(Event("cancel", Nobody, h))
     \/ Len(touchQueue) >= TouchCap /\ UNCHANGED touchQueue
  /\ open' = [open EXCEPT ![h] = FALSE]
  /\ Goto(h, "done")
  /\ UNCHANGED <<gen, seenGen, seenMeta, last, next, input, stalled, clientGen, published,
                 genValue, meta, updates, shutdown, renderVars, view, touches>>

\* The farewell: an awaited Cancel; returning closes the socket.
Farewell(h) ==
  /\ pc[h] = "farewell"
  /\ Enqueue(Event("cancel", Nobody, h))
  /\ open' = [open EXCEPT ![h] = FALSE]
  /\ Goto(h, "done")
  /\ UNCHANGED <<gen, seenGen, seenMeta, last, next, input, stalled, clientGen, published,
                 genValue, meta, updates, shutdown, renderVars, view, touches>>

-----------------------------------------------------------------------------
(***************************************************************************)
(* The render loop, the peers and the rest of the server.                   *)
(***************************************************************************)

\* TouchHandler::handle_event: start inserts, end removes, cancel clears all.
DrainTouch ==
  /\ running /\ touchQueue # << >>
  /\ LET event == Head(touchQueue)
     IN  active' = [id \in Ids |->
                     IF event.kind = "cancel" THEN Nobody
                     ELSE IF event.id # id \/ event.kind = "move" THEN active[id]
                     ELSE IF event.kind = "start" THEN event.by ELSE Nobody]
  /\ touchQueue' = Tail(touchQueue)
  /\ UNCHANGED <<handlerVars, clientGen, published, genValue, meta, updates, shutdown,
                 running, view, touches>>

\* app_meta_tx.send(): the topmost window changed its title or icon.
MetaChanges(new) ==
  /\ running
  /\ updates < MaxMeta
  /\ new # meta
  /\ meta' = new
  /\ updates' = updates + 1
  /\ UNCHANGED <<handlerVars, clientGen, published, genValue, touchQueue, shutdown,
                 renderVars, view, touches>>

\* A signal, or the end of the application, shuts the server down ...
ShutDown ==
  /\ MayShutDown /\ ~shutdown
  /\ shutdown' = TRUE
  /\ UNCHANGED <<handlerVars, clientGen, published, genValue, meta, updates, touchQueue,
                 renderVars, view, touches>>

\* ... which ends the render loop; its receivers stay alive until main returns.
StopLoop ==
  /\ shutdown /\ running
  /\ running' = FALSE
  /\ UNCHANGED <<handlerVars, sharedVars, active, view, touches>>

PeerLeaves(h) ==
  /\ open[h]
  /\ open' = [open EXCEPT ![h] = FALSE]
  /\ UNCHANGED <<pc, gen, seenGen, seenMeta, last, next, input, stalled, sharedVars,
                 renderVars, view, touches>>

PeerStalls(h) ==
  /\ PeersStall /\ open[h]
  /\ stalled' = [stalled EXCEPT ![h] = ~stalled[h]]
  /\ UNCHANGED <<pc, gen, seenGen, seenMeta, last, next, input, open, sharedVars,
                 renderVars, view, touches>>

-----------------------------------------------------------------------------
Connect(h) ==
  Subscribe(h) \/ Publish(h) \/ Greet(h) \/ GreetTitle(h) \/ GreetIcon(h)

Serve(h) ==
  \/ ReadMeta(h) \/ UpdateTitle(h) \/ UpdateIcon(h)
  \/ SendPacket(h) \/ Dispatch(h)
  \/ CheckGen(h) \/ SendClose(h) \/ Farewell(h)

Arm(h) == MetaChanged(h) \/ PeerGone(h) \/ GenChanged(h) \/ ShutdownSeen(h)

Handler(h) == Connect(h) \/ Serve(h) \/ Arm(h) \/ Packet(h)

Peer(h) ==
  \/ Claim(h)
  \/ \E kind \in TouchKinds, id \in Ids : Incoming(h, kind, id)
  \/ PeerLeaves(h) \/ PeerStalls(h)

RenderLoop == DrainTouch \/ StopLoop

Next ==
  \/ \E h \in Handlers : Handler(h) \/ Peer(h)
  \/ RenderLoop
  \/ \E new \in AppMetas : MetaChanges(new)
  \/ ShutDown

Spec == Init /\ [][Next]_vars

\* Every handler task is scheduled, and its select! picks at random among the
\* arms that are ready, so that packets do not keep the others from being
\* served; the touch queue serves waiting senders in order; the render loop runs
\* until it is stopped.  Nothing is assumed of the peers.
FairSpec ==
  /\ Spec
  /\ \A h \in Handlers :
       /\ WF_vars(Connect(h) \/ Serve(h))
       /\ SF_vars(Arm(h))
       /\ SF_vars(Dispatch(h) \/ Farewell(h))
  /\ WF_vars(RenderLoop)

-----------------------------------------------------------------------------
(***************************************************************************)
(* Properties.                                                              *)
(***************************************************************************)
Places == {"new", "subscribe", "publish", "greet", "greetTitle", "greetIcon", "loop",
           "readMeta", "updateTitle", "updateIcon", "packet", "dispatch", "check",
           "replaced", "goaway", "farewell", "done"}

Events == [kind: TouchKinds, id: Ids \cup {Nobody}, by: Handlers]

HandlerTypeOK ==
  /\ pc \in [Handlers -> Places] /\ gen \in [Handlers -> Nat]
  /\ seenGen \in [Handlers -> Nat] /\ seenMeta \in [Handlers -> Nat]
  /\ last \in [Handlers -> AppMetas] /\ next \in [Handlers -> AppMetas]
  /\ input \in [Handlers -> Events]
  /\ open \in [Handlers -> BOOLEAN] /\ stalled \in [Handlers -> BOOLEAN]

SharedTypeOK ==
  /\ clientGen \in Nat /\ published \in Nat /\ genValue \in Nat
  /\ meta \in AppMetas /\ updates \in Nat
  /\ touchQueue \in Seq(Events) /\ Len(touchQueue) <= TouchCap
  /\ shutdown \in BOOLEAN

TypeOK ==
  /\ HandlerTypeOK /\ SharedTypeOK
  /\ running \in BOOLEAN /\ active \in [Ids -> Handlers \cup {Nobody}]
  /\ view \in [Pages -> AppMetas] /\ touches \in Nat

\* Past its claim and not yet on its way out.
Serving(h) == pc[h] \notin {"new", "replaced", "goaway", "farewell", "done"}

\* The handler has subscribed and can be woken.
Watching(h) == Serving(h) /\ pc[h] # "subscribe"

\* An older connection that still serves will find out: there is a publish it
\* has not seen, it is about to look at the counter, or a newer connection -- or
\* it itself -- has yet to publish.  The counter and the channel are two steps
\* apart, and a newer connection may have published first.
NoMissedReplacement ==
  \A h \in Handlers :
    Watching(h) /\ gen[h] < clientGen =>
      \/ seenGen[h] # published
      \/ pc[h] = "check"
      \/ \E k \in Handlers : gen[k] >= gen[h] /\ pc[k] \in {"subscribe", "publish"}

\* Only an older connection is ever closed as replaced, in whatever order the
\* publishes of several new connections arrive.
NewestKept == \A h \in Handlers : pc[h] = "replaced" => gen[h] < clientGen

\* The page was connected before: its sockets are made one after the other.
Reconnected(h) == \E k \in Handlers \ {h} : PageOf[k] = PageOf[h] /\ pc[k] # "new"

\* The page of h shows this icon; one that was connected before is not told that
\* there is none.
ShowsIcon(h, icon) ==
  view[PageOf[h]].icon = icon \/ (icon = NoIcon /\ Reconnected(h))

\* Once a page's handler waits with nothing unseen, the page shows the current
\* title and favicon -- although the handler sends only what differs from what
\* it sent last, the state moves while it sends, and the page may still show
\* what an earlier connection told it.
PageCurrent ==
  \A h \in Handlers :
    pc[h] = "loop" /\ open[h] /\ seenMeta[h] = updates =>
      view[PageOf[h]].title = meta.title /\ ShowsIcon(h, meta.icon)

\* "Cancel any in-progress touches so the next session doesn't inherit phantom
\* active-touch entries": a contact of a connection that is gone is down only
\* as long as a cancel is on its way to the render loop.
NoPhantomTouches ==
  \A id \in Ids :
    active[id] # Nobody /\ pc[active[id]] = "done" =>
      \E i \in 1..Len(touchQueue) : touchQueue[i].kind = "cancel"

\* "So exactly the highest-generation (newest) connection survives": at most
\* one connection is served in the long run.
OneServed == <>[](Cardinality({h \in Handlers : Serving(h)}) <= 1)

=============================================================================
