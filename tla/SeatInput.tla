----------------------------- MODULE SeatInput -----------------------------
(***************************************************************************)
(* Touch, pointer and keyboard from the page to the applications: the page's *)
(* listeners (web/src/lib/input.ts), the WebSocket, the dispatch into three  *)
(* queues (server.rs), the drain of the queues by the render loop (main.rs,  *)
(* input/) and the seat (compositor/state.rs), above the stack of Windows.   *)
(*                                                                          *)
(* The render loop is one thread: it serves the applications, then drains    *)
(* touch, pointer and keys in that order, then polls the pointer lock.  The  *)
(* page and the connection run beside it.  What Smithay does with the seat   *)
(* is modelled as the code relies on it: a held button keeps the pointer     *)
(* where it was pressed, and a constraint ends when the pointer leaves.      *)
(***************************************************************************)
EXTENDS Windows

CONSTANTS
  Ids,         \* fingers
  Keys,        \* keys evdev_keycode knows
  Buttons,     \* buttons linux_button_code knows
  Constraints, \* kinds of pointer constraint the applications ask for
  QueueCap,    \* capacity of each queue (32, 64 and 64 in the code)
  MayLeave,    \* may the connection be lost?
  MaxUser,     \* bound: gestures of the user and lost connections
  MaxRequests  \* bound: windows opened and closed, constraints asked for

\* Normalized coordinates 1/2 and 1 in halves of the output; the second is the
\* edge, which lies outside of it.
Spots == 1..2
OnOutput(spot) == spot < 2

ASSUME SeatOK ==
  /\ Constraints \subseteq {"lock", "confine", "region"}
  /\ QueueCap \in Nat \ {0}
  /\ MayLeave \in BOOLEAN
  /\ MaxUser \in Nat /\ MaxRequests \in Nat

VARIABLES
  \* The page: where each finger started, pressedCodes, the buttons held, what
  \* the server asked (pointerLockWanted), whether the browser has been asked
  \* for the lock and not answered, and whether the page has it.
  finger, pressedCodes, heldButtons, lockWanted, lockAsked, inLock,
  \* The connection: is there one, what its handler has not read yet, and what
  \* the handler of the last one, which may still run, is going to dispatch;
  \* keys and buttons whose release the server was not told (history).
  connected, wire, oldWire, lostKeys, lostButtons,
  \* touch_rx, mouse_rx, key_rx and where the render loop is.
  touchQueue, mouseQueue, keyQueue, phase,
  \* active_touches of the TouchHandler and the touch points of the seat.
  activeTouches, contacts,
  \* Keyboard and pointer of the seat.
  keysDown, buttonsDown, pointerFocus, pointerAt,
  \* Constraint of each surface, those that are active, pointer_locked, and
  \* whether the connection has yet to push it.
  constraint, active, pointerLocked, lockNews,
  gestures, requests \* bounds

pageLock  == <<lockWanted, lockAsked, inLock>>
pageVars  == <<finger, pressedCodes, heldButtons, pageLock, gestures>>
lineVars  == <<connected, wire, oldWire, lostKeys, lostButtons>>
queueVars == <<touchQueue, mouseQueue, keyQueue>>
touchVars == <<activeTouches, contacts>>
pointerVars == <<buttonsDown, pointerFocus, pointerAt>>
lockVars  == <<constraint, active, pointerLocked, lockNews, requests>>
seatVars  == <<touchVars, keysDown, pointerVars, lockVars>>
inputVars == <<pageVars, lineVars, queueVars, phase, seatVars, windowVars>>

Messages ==
  [device : {"touch"}, kind : {"start", "move", "end"}, ids : SUBSET Ids]
    \cup [device : {"touch"}, kind : {"cancel"}]
    \cup [device : {"pointer"}, kind : {"down", "up"}, button : Buttons, spot : Spots]
    \cup [device : {"pointer"}, kind : {"move", "wheel"}, spot : Spots]
    \cup [device : {"pointer"}, kind : {"relative", "cancel"}]
    \cup [device : {"key"}, kind : {"down", "up"}, code : Keys]

Touch(kind, ids) == [device |-> "touch", kind |-> kind, ids |-> ids]
TouchCancel == [device |-> "touch", kind |-> "cancel"]
Press(kind, b, spot) == [device |-> "pointer", kind |-> kind, button |-> b, spot |-> spot]
Point(kind, spot) == [device |-> "pointer", kind |-> kind, spot |-> spot]
Relative == [device |-> "pointer", kind |-> "relative"]
PointerCancel == [device |-> "pointer", kind |-> "cancel"]
Key(kind, k) == [device |-> "key", kind |-> kind, code |-> k]

SeatInit ==
  /\ WindowsInit
  /\ finger = [id \in Ids |-> "up"] /\ pressedCodes = {} /\ heldButtons = {}
  /\ lockWanted = FALSE /\ lockAsked = FALSE /\ inLock = FALSE
  /\ connected = TRUE /\ wire = << >> /\ oldWire = << >> /\ lostKeys = {} /\ lostButtons = {}
  /\ touchQueue = << >> /\ mouseQueue = << >> /\ keyQueue = << >>
  /\ phase = "clients"
  /\ activeTouches = {} /\ contacts = {}
  /\ keysDown = {} /\ buttonsDown = {} /\ pointerFocus = Nothing /\ pointerAt = 1
  /\ constraint = [w \in Surfaces |-> "none"] /\ active = {}
  /\ pointerLocked = FALSE /\ lockNews = FALSE
  /\ gestures = 0 /\ requests = 0

-----------------------------------------------------------------------------
(***************************************************************************)
(* The page.  Without a connection a message is lost.                       *)
(***************************************************************************)

Send(messages) ==
  /\ gestures < MaxUser
  /\ gestures' = gestures + 1
  /\ wire' = IF connected THEN wire \o messages ELSE wire
  /\ UNCHANGED <<connected, oldWire, queueVars, phase, seatVars, windowVars>>

Kept == UNCHANGED <<lostKeys, lostButtons>>

\* What is let go without a connection stays down; what is let go once the last
\* handler has finished does not, whatever happened to it before.
Told(lost, let) ==
  IF ~connected THEN lost \cup let ELSE IF oldWire = << >> THEN lost \ let ELSE lost

Down == {id \in Ids : finger[id] # "up"}

\* onTouchStart sends all contacts (e.touches) that lie on the canvas now; a
\* finger that has slid off it is left out.
OnTouchStart(id) ==
  /\ finger[id] = "up"
  /\ finger' = [finger EXCEPT ![id] = "canvas"]
  /\ UNCHANGED <<pressedCodes, heldButtons, pageLock>>
  /\ \E others \in SUBSET Down : Send(<<Touch("start", others \cup {id})>>)
  /\ Kept

\* onTouchMove sends all contacts, clamped to the canvas.
OnTouchMove(id) ==
  /\ finger[id] = "canvas"
  /\ Send(<<Touch("move", Down)>>)
  /\ UNCHANGED <<finger, pressedCodes, heldButtons, pageLock>>
  /\ Kept

\* onTouchEnd and onTouchCancel send the changed contact, clamped, so that a
\* release is never left out.
OnTouchEnd(id) ==
  /\ finger[id] # "up"
  /\ finger' = [finger EXCEPT ![id] = "up"]
  /\ UNCHANGED <<pressedCodes, heldButtons, pageLock>>
  /\ Send(<<Touch("end", {id})>>) \/ Send(<<TouchCancel>>)
  /\ Kept

\* onPointerDown asks for Pointer Lock when the server wants it.  A browser
\* fires pointerdown for the first button of several only.
OnPointerDown(b, spot) ==
  /\ heldButtons = {}
  /\ heldButtons' = {b}
  /\ lockAsked' = (lockAsked \/ (lockWanted /\ ~inLock))
  /\ UNCHANGED <<finger, pressedCodes, lockWanted, inLock>>
  /\ Send(<<Press("down", b, spot)>>)
  /\ Kept

\* pointerup is fired for the last button only.
OnPointerUp(b, spot) ==
  /\ heldButtons = {b}
  /\ heldButtons' = {}
  /\ UNCHANGED <<finger, pressedCodes, pageLock>>
  /\ Send(<<Press("up", b, spot)>>)
  /\ lostButtons' = Told(lostButtons, {b})
  /\ UNCHANGED lostKeys

\* What onPointerMove sends: in Pointer Lock a move is relative.
SendMove(spot) == IF inLock THEN Send(<<Relative>>) ELSE Send(<<Point("move", spot)>>)

\* A button pressed or let go beside others comes as a pointermove, which says
\* nothing of buttons: what is let go so stays down.
Chord(b, spot) ==
  /\ heldButtons \ {b} # {}
  /\ heldButtons' = IF b \in heldButtons THEN heldButtons \ {b} ELSE heldButtons \cup {b}
  /\ UNCHANGED <<finger, pressedCodes, pageLock>>
  /\ SendMove(spot)
  /\ lostButtons' = IF b \in heldButtons THEN lostButtons \cup {b} ELSE lostButtons
  /\ UNCHANGED lostKeys

\* onPointerCancel: the browser takes the pointer, and with it the releases of
\* the buttons that are held.
OnPointerCancel ==
  /\ heldButtons' = {}
  /\ UNCHANGED <<finger, pressedCodes, pageLock>>
  /\ Send(<<PointerCancel>>)
  /\ lostButtons' = lostButtons \cup heldButtons
  /\ UNCHANGED lostKeys

OnPointerMove(spot) ==
  /\ SendMove(spot)
  /\ UNCHANGED <<finger, pressedCodes, heldButtons, pageLock>>
  /\ Kept

OnWheel(spot) ==
  /\ Send(<<Point("wheel", spot)>>)
  /\ UNCHANGED <<finger, pressedCodes, heldButtons, pageLock>>
  /\ Kept

\* onKeyDown (repeats are left out) and onKeyUp.
OnKeyDown(k) ==
  /\ pressedCodes' = pressedCodes \cup {k}
  /\ UNCHANGED <<finger, heldButtons, pageLock>>
  /\ Send(<<Key("down", k)>>)
  /\ Kept

\* onKeyUp of one key, or releaseAllKeys when the page loses the focus.
Release(ks) ==
  /\ pressedCodes' = pressedCodes \ ks
  /\ UNCHANGED <<finger, heldButtons, pageLock>>
  /\ Send(SetToSeq({Key("up", k) : k \in ks}))
  /\ lostKeys' = Told(lostKeys, ks)
  /\ UNCHANGED lostButtons

OnKeyUp(k) == Release({k})
ReleaseAllKeys == pressedCodes # {} /\ Release(pressedCodes)

\* setPointerLockWanted, when the state of the lock is pushed: it leaves a lock
\* the page has, and knows nothing of one that was asked for.
SetPointerLockWanted ==
  /\ connected /\ lockNews
  /\ lockNews' = FALSE
  /\ lockWanted' = pointerLocked
  /\ inLock' = (inLock /\ pointerLocked)
  /\ UNCHANGED <<finger, pressedCodes, heldButtons, lockAsked, gestures, lineVars, queueVars,
                 phase, touchVars, keysDown, pointerVars, constraint, active, pointerLocked,
                 requests, windowVars>>

\* The browser answers requestPointerLock in its own time, or refuses.
AnswerLock ==
  /\ lockAsked /\ lockAsked' = FALSE
  /\ inLock' \in {inLock, TRUE}
  /\ UNCHANGED <<finger, pressedCodes, heldButtons, lockWanted, gestures, lineVars,
                 queueVars, phase, seatVars, windowVars>>

\* The user leaves Pointer Lock with Escape.
Escape ==
  /\ inLock /\ inLock' = FALSE
  /\ UNCHANGED <<finger, pressedCodes, heldButtons, lockWanted, lockAsked, gestures, lineVars,
                 queueVars, phase, seatVars, windowVars>>

Gesture ==
  \/ \E id \in Ids : OnTouchStart(id) \/ OnTouchMove(id) \/ OnTouchEnd(id)
  \/ \E b \in Buttons, spot \in Spots :
       OnPointerDown(b, spot) \/ OnPointerUp(b, spot) \/ Chord(b, spot)
  \/ OnPointerCancel
  \/ \E spot \in Spots : OnPointerMove(spot) \/ OnWheel(spot)
  \/ \E k \in Keys : OnKeyDown(k) \/ OnKeyUp(k)
  \/ ReleaseAllKeys

-----------------------------------------------------------------------------
(***************************************************************************)
(* The connection.                                                          *)
(***************************************************************************)

\* A bug: the end of a touch and a key are dropped too.
MayDropAny(e) == e.device # "pointer"

\* A move only tells the latest position and is dropped when its queue is
\* full; anything else waits for room.
MayDrop(e) == e.kind = "move"

Room(queue) == Len(queue) < QueueCap

Offer(queue, e) ==
  /\ Room(queue) \/ MayDrop(e)
  /\ queue' = IF Room(queue) THEN Append(queue, e) ELSE queue

\* dispatch_signaling_message.
Deliver(e) ==
  /\ \/ e.device = "touch" /\ Offer(touchQueue, e) /\ UNCHANGED <<mouseQueue, keyQueue>>
     \/ e.device = "pointer" /\ Offer(mouseQueue, e) /\ UNCHANGED <<touchQueue, keyQueue>>
     \/ e.device = "key" /\ Offer(keyQueue, e) /\ UNCHANGED <<touchQueue, mouseQueue>>
  /\ UNCHANGED <<pageVars, connected, lostKeys, lostButtons, phase, seatVars, windowVars>>

\* The handler of the connection reads the next message.
Dispatch ==
  /\ wire # << >>
  /\ wire' = Tail(wire)
  /\ Deliver(Head(wire))
  /\ UNCHANGED oldWire

\* So does the one of the connection before, until it is done.
DispatchOld ==
  /\ oldWire # << >>
  /\ oldWire' = Tail(oldWire)
  /\ Deliver(Head(oldWire))
  /\ UNCHANGED wire

\* The connection is lost.  Its handler reads on until its socket ends or a
\* newer client replaces it, and its last message cancels every touch.  What
\* was under way is lost, or arrives beside what the next connection brings.
\* Bound: one such handler at a time.
Leave ==
  /\ MayLeave /\ connected /\ oldWire = << >> /\ gestures < MaxUser
  /\ gestures' = gestures + 1
  /\ connected' = FALSE
  /\ wire' = << >>
  /\ \E n \in 0..Len(wire) : oldWire' = Append(SubSeq(wire, 1, n), TouchCancel)
  /\ lostKeys' = lostKeys \cup
       {k \in Keys : \E i \in 1..Len(wire) : wire[i] \in {Key("down", k), Key("up", k)}}
  /\ lostButtons' = lostButtons \cup
       {b \in Buttons : \E i \in 1..Len(wire), s \in Spots :
                         wire[i] \in {Press("down", b, s), Press("up", b, s)}}
  /\ UNCHANGED <<finger, pressedCodes, heldButtons, pageLock, queueVars, phase, seatVars,
                 windowVars>>

\* A bug: the receiver of the new handler starts at the present state.
Subscribed == lockNews' = FALSE

\* It is a clone of one that nobody reads, and pushes the state once more.
Cloned == lockNews' = TRUE

\* The page connects again, whether or not the handler before is done.  The
\* greeting speaks of the pointer lock only when there is one.
Return ==
  /\ ~connected
  /\ connected' = TRUE
  /\ lockWanted' = (lockWanted \/ pointerLocked)
  /\ Cloned
  /\ UNCHANGED <<finger, pressedCodes, heldButtons, lockAsked, inLock, gestures, wire, oldWire,
                 lostKeys, lostButtons, queueVars, phase, touchVars, keysDown, pointerVars,
                 constraint, active, pointerLocked, requests, windowVars>>

-----------------------------------------------------------------------------
(***************************************************************************)
(* The applications, served at the start of an iteration.                   *)
(***************************************************************************)

Request ==
  /\ phase = "clients" /\ requests < MaxRequests
  /\ requests' = requests + 1

\* new_constraint: at once active on the topmost window.
NewConstraint(w, kind) ==
  /\ w \in Mapped /\ constraint[w] = "none"
  /\ Request
  /\ constraint' = [constraint EXCEPT ![w] = kind]
  /\ active' = IF w = Top THEN active \cup {w} ELSE active
  /\ UNCHANGED <<pageVars, lineVars, queueVars, phase, touchVars, keysDown, pointerVars,
                 pointerLocked, lockNews, windowVars>>

\* A constraint goes without a callback.
DropConstraint(w) ==
  /\ phase = "clients" /\ constraint[w] # "none"
  /\ constraint' = [constraint EXCEPT ![w] = "none"]
  /\ active' = active \ {w}
  /\ UNCHANGED <<pageVars, lineVars, queueVars, phase, touchVars, keysDown, pointerVars,
                 pointerLocked, lockNews, requests, windowVars>>

MapWindow(w) ==
  /\ Request
  /\ NewToplevel(w)
  /\ UNCHANGED <<pageVars, lineVars, queueVars, phase, touchVars, keysDown, pointerVars,
                 constraint, active, pointerLocked, lockNews>>

\* The surface goes with its constraint, and the pointer is nowhere until it
\* moves: the seat is not told.
CloseWindow(w) ==
  /\ Request
  /\ ToplevelDestroyed(w)
  /\ constraint' = [constraint EXCEPT ![w] = "none"]
  /\ active' = active \ {w}
  /\ pointerFocus' = IF pointerFocus = w THEN Nothing ELSE pointerFocus
  /\ UNCHANGED <<pageVars, lineVars, queueVars, phase, touchVars, keysDown, buttonsDown,
                 pointerAt, pointerLocked, lockNews>>

-----------------------------------------------------------------------------
(***************************************************************************)
(* The drain of the queues.                                                 *)
(***************************************************************************)

\* A bug: a cancel ends the contacts it lists in the map, but all in the seat.
HandleTouchByList(e) ==
  CASE e.kind = "start" -> /\ activeTouches' = activeTouches \cup e.ids
                           /\ contacts' = contacts \cup e.ids
    [] e.kind = "move"  -> UNCHANGED touchVars
    [] e.kind = "end"   -> /\ activeTouches' = activeTouches \ e.ids
                           /\ contacts' = contacts \ (e.ids \cap activeTouches)
    [] e.kind = "cancel" -> contacts' = {} /\ UNCHANGED activeTouches

\* TouchHandler::handle_event: only known contacts move or end, and a cancel
\* ends them all, whichever it lists.
HandleTouch(e) ==
  CASE e.kind = "start" -> /\ activeTouches' = activeTouches \cup e.ids
                           /\ contacts' = contacts \cup e.ids
    [] e.kind = "move"  -> UNCHANGED touchVars
    [] e.kind = "end"   -> /\ activeTouches' = activeTouches \ e.ids
                           /\ contacts' = contacts \ (e.ids \cap activeTouches)
    [] e.kind = "cancel" -> activeTouches' = {} /\ contacts' = {}

InjectTouch ==
  /\ phase = "touch" /\ touchQueue # << >>
  /\ touchQueue' = Tail(touchQueue)
  /\ HandleTouch(Head(touchQueue))
  /\ UNCHANGED <<pageVars, lineVars, mouseQueue, keyQueue, phase, keysDown, pointerVars,
                 lockVars, windowVars>>

\* clamp_point_to_region, for a region that ends before the edge.
ClampToRegion(spot) == IF spot = 2 THEN 1 ELSE spot

\* surface_at: all of the output belongs to the topmost window.
SurfaceAt(spot) == IF OnOutput(spot) THEN Top ELSE Nothing

\* pointer_motion: a lock on the topmost window holds the pointer still, a
\* confinement keeps it in its region if it has one; the seat moves the focus unless a
\* button is held, and ends the constraint of the surface that is left.
PointerMotion(spot) ==
  IF Top \in active /\ constraint[Top] = "lock"
  THEN UNCHANGED <<pointerAt, pointerFocus, active>>
  ELSE LET at == IF Top \in active /\ constraint[Top] = "region"
                 THEN ClampToRegion(spot) ELSE spot
           focus == IF buttonsDown = {} THEN SurfaceAt(at) ELSE pointerFocus
       IN /\ pointerAt' = at
          /\ pointerFocus' = focus
          /\ active' = IF focus = pointerFocus THEN active ELSE active \ {pointerFocus}

\* A bug: a click does not carry the pointer along.
StandStill(spot) == UNCHANGED <<pointerAt, pointerFocus, active>>

\* The position that goes with a button.
MoveToClick(spot) == PointerMotion(spot)

\* MouseHandler::handle_event.
HandleMouse(e) ==
  CASE e.kind = "down" -> MoveToClick(e.spot) /\ buttonsDown' = buttonsDown \cup {e.button}
    [] e.kind = "up" -> MoveToClick(e.spot) /\ buttonsDown' = buttonsDown \ {e.button}
    [] e.kind \in {"move", "wheel"} -> PointerMotion(e.spot) /\ UNCHANGED buttonsDown
    [] e.kind \in {"relative", "cancel"} ->
         UNCHANGED <<buttonsDown, pointerAt, pointerFocus, active>>

InjectMouse ==
  /\ phase = "mouse" /\ mouseQueue # << >>
  /\ mouseQueue' = Tail(mouseQueue)
  /\ HandleMouse(Head(mouseQueue))
  /\ UNCHANGED <<pageVars, lineVars, touchQueue, keyQueue, phase, touchVars, keysDown,
                 constraint, pointerLocked, lockNews, requests, windowVars>>

\* keyboard::handle_event and key.
InjectKey ==
  /\ phase = "key" /\ keyQueue # << >>
  /\ keyQueue' = Tail(keyQueue)
  /\ LET e == Head(keyQueue) IN
       keysDown' = IF e.kind = "down" THEN keysDown \cup {e.code} ELSE keysDown \ {e.code}
  /\ UNCHANGED <<pageVars, lineVars, touchQueue, mouseQueue, phase, touchVars, pointerVars,
                 lockVars, windowVars>>

\* refresh_pointer_lock grants what the topmost window asks for and tells
\* whether that is a lock.
RefreshPointerLock ==
  /\ active' = IF Top # Nothing /\ constraint[Top] # "none" THEN active \cup {Top} ELSE active
  /\ pointerLocked' = (Top # Nothing /\ constraint[Top] = "lock")

\* take_pointer_lock_pending, when the last drain has ended.
PollPointerLock ==
  /\ phase = "key" /\ keyQueue = << >>
  /\ phase' = "clients"
  /\ RefreshPointerLock
  /\ lockNews' = (lockNews \/ pointerLocked' # pointerLocked)
  /\ UNCHANGED <<pageVars, lineVars, queueVars, touchVars, keysDown, pointerVars, constraint,
                 requests, windowVars>>

\* Each drain ends when its queue is empty.
EndDrain(from, to, empty) ==
  /\ phase = from /\ empty
  /\ phase' = to
  /\ UNCHANGED <<pageVars, lineVars, queueVars, seatVars, windowVars>>

Loop ==
  \/ EndDrain("clients", "touch", TRUE)
  \/ InjectTouch \/ EndDrain("touch", "mouse", touchQueue = << >>)
  \/ InjectMouse \/ EndDrain("mouse", "key", mouseQueue = << >>)
  \/ InjectKey \/ PollPointerLock

SeatNext ==
  \/ Gesture \/ Escape \/ AnswerLock \/ SetPointerLockWanted
  \/ Dispatch \/ DispatchOld \/ Leave \/ Return
  \/ \E w \in Surfaces : MapWindow(w) \/ CloseWindow(w) \/ DropConstraint(w)
  \/ \E w \in Surfaces, kind \in Constraints : NewConstraint(w, kind)
  \/ Loop

SeatSpec == SeatInit /\ [][SeatNext]_inputVars

-----------------------------------------------------------------------------
(***************************************************************************)
(* Properties.                                                              *)
(***************************************************************************)

\* No finger is down for the applications that has left the canvas, once what
\* was sent has arrived: moves may be dropped, releases not, a finger that slid
\* off the canvas ends too, and a lost connection cancels the rest.  The
\* handler's map and the seat agree throughout.
NoPhantomTouch ==
  /\ contacts = activeTouches
  /\ wire = << >> /\ oldWire = << >> /\ touchQueue = << >> =>
       activeTouches \subseteq {id \in Ids : finger[id] = "canvas"}

\* No key or button stays down that the user has let go, once what was sent
\* has arrived (pressedCodes, releaseAllKeys, the reliable sends of dispatch).
\* Not kept are those a lost connection had messages of under way, or that
\* were let go without one, and buttons let go beside others or taken by a
\* pointercancel; the next release of such a one, in order, makes it good.
NoStuckKey ==
  /\ wire = << >> /\ keyQueue = << >> => keysDown \subseteq pressedCodes \cup lostKeys
  /\ wire = << >> /\ mouseQueue = << >> => buttonsDown \subseteq heldButtons \cup lostButtons

\* A first button press goes down where the user aimed, in the window on top,
\* although any number of moves before it may have been dropped; only a lock
\* holds the pointer elsewhere.
ClicksLand ==
  [][\A b \in Buttons :
       /\ buttonsDown = {} /\ b \in buttonsDown'
       /\ ~(Top \in active /\ constraint[Top] = "lock")
       => LET e == Head(mouseQueue) IN
            /\ pointerAt' = (IF Top \in active /\ constraint[Top] = "region"
                              THEN ClampToRegion(e.spot) ELSE e.spot)
            /\ OnOutput(pointerAt') => pointerFocus' = Top]_inputVars

\* The page knows whether the window on top holds a lock, unless the news of it
\* are on their way: also a page that was away while the lock ended, of which
\* the greeting says nothing (pointer_lock_rx, take_pointer_lock_pending).
LockKnown == connected /\ ~lockNews => lockWanted = pointerLocked

=============================================================================
