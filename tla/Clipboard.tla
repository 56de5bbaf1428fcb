----------------------------- MODULE Clipboard -----------------------------
(***************************************************************************)
(* The clipboard bridge (clipboard.rs): a data-control client of the nested   *)
(* compositor that sets what a device copies as the selection and reads what  *)
(* the applications select, with the queues on both sides (main.rs,          *)
(* server.rs).                                                              *)
(*                                                                          *)
(* The bridge is one thread that blocks while it reads an offer.  The nested *)
(* compositor is modelled as the bridge relies on it: it handles requests in *)
(* order, tells the owner of a selection that is replaced first and then     *)
(* everybody of the new one, and an outdated offer yields its old value or   *)
(* nothing.                                                                 *)
(***************************************************************************)
EXTENDS Naturals, Sequences, SequencesExt, FiniteSets

CONSTANTS
  Values,     \* payloads the bridge can carry
  QueueCap,   \* capacity of clipboard_in (16 in the code)
  MaxCopies   \* bound: copies of the device and of the applications

Empty == "empty"       \* no bytes; also the initial value of clipboard_out
Huge == "huge"         \* more than MAX_CLIPBOARD_BYTES
Opaque == "opaque"     \* no text or image MIME type (choose_read_mime)
NoValue == "no value"  \* last_value is None

ASSUME ClipboardOK ==
  /\ Values \cap {Empty, Huge, Opaque, NoValue} = {}
  /\ QueueCap \in Nat \ {0} /\ MaxCopies \in Nat

VARIABLES
  clipIn,      \* clipboard_in_tx / clipboard_in_rx
  forwarder,   \* the task that starts the bridge and feeds it
  toRemote,    \* the calloop channel
  bridge,      \* "none", "up", "stuck" in a read, "ended"
  source,      \* the id of the bridge's source, 0 when None
  serveBytes, owning, lastValue,
  clipOut,     \* value of clipboard_out_tx
  \* The nested compositor: its selection, by whom, the requests and events
  \* under way, the ids given to sources, those of the bridge.
  selection, requests, events, lastId, mine,
  copies       \* bound

bridgeVars == <<bridge, source, serveBytes, owning, lastValue, clipOut>>
nestVars == <<selection, requests, events, lastId, mine>>
queueVars == <<clipIn, forwarder, toRemote>>
clipVars == <<queueVars, bridgeVars, nestVars, copies>>

Selections == [id : Nat, value : Values \cup {Empty, Huge, Opaque}]
NoSelection == [id |-> 0, value |-> Empty]
Cancelled(id) == [kind |-> "cancelled", id |-> id]
Selected(sel) == [kind |-> "selection", sel |-> sel]

ClipboardInit ==
  /\ clipIn = << >> /\ forwarder = "waiting" /\ toRemote = << >>
  /\ bridge = "none" /\ source = 0 /\ serveBytes = Empty /\ owning = FALSE
  /\ lastValue = NoValue /\ clipOut = Empty
  /\ selection = NoSelection /\ requests = << >> /\ events = << >>
  /\ lastId = 0 /\ mine = {}
  /\ copies = 0

-----------------------------------------------------------------------------
\* A device copies something: try_send, dropped when the queue is full or
\* when nobody drains it any more.
DeviceCopies(v) ==
  /\ copies < MaxCopies /\ copies' = copies + 1
  /\ clipIn' = IF forwarder = "ended" \/ Len(clipIn) = QueueCap THEN clipIn
               ELSE Append(clipIn, v)
  /\ UNCHANGED <<forwarder, toRemote, bridgeVars, nestVars>>

\* The display of the nest is known: clipboard::spawn and, on its thread, run
\* up to the event loop; the compositor tells of its selection first.
StartBridge ==
  /\ forwarder = "waiting" /\ forwarder' = "running"
  /\ bridge' = "up"
  /\ events' = IF selection = NoSelection THEN << >> ELSE <<Selected(selection)>>
  /\ UNCHANGED <<clipIn, toRemote, source, serveBytes, owning, lastValue, clipOut,
                 selection, requests, lastId, mine, copies>>

\* There is no nest, no seat or no data-control: run returns at once.
BridgeFails ==
  /\ forwarder = "waiting" /\ forwarder' = "running"
  /\ bridge' = "ended"
  /\ UNCHANGED <<clipIn, toRemote, source, serveBytes, owning, lastValue, clipOut, nestVars,
                 copies>>

\* The nest is gone, and the bridge's event loop with it.
BridgeEnds ==
  /\ bridge \in {"up", "stuck"} /\ bridge' = "ended"
  /\ selection' = NoSelection /\ requests' = << >> /\ events' = << >> /\ toRemote' = << >>
  /\ UNCHANGED <<clipIn, forwarder, source, serveBytes, owning, lastValue, clipOut, lastId, mine,
                 copies>>

\* The task hands a value on, until the bridge does not take it any more.
Forward ==
  /\ forwarder = "running" /\ clipIn # << >>
  /\ IF bridge = "ended"
     THEN forwarder' = "ended" /\ clipIn' = << >> /\ UNCHANGED toRemote
     ELSE /\ clipIn' = Tail(clipIn) /\ toRemote' = Append(toRemote, Head(clipIn))
          /\ UNCHANGED forwarder
  /\ UNCHANGED <<bridgeVars, nestVars, copies>>

\* set_selection: a value the bridge has seen last is taken for the current
\* one; any other becomes the selection.
SetSelection ==
  /\ bridge = "up" /\ toRemote # << >>
  /\ toRemote' = Tail(toRemote)
  /\ LET v == Head(toRemote) IN
     IF v = Huge \/ v = lastValue
     THEN UNCHANGED <<source, serveBytes, owning, lastValue, requests, lastId, mine>>
     ELSE /\ lastId' = lastId + 1 /\ mine' = mine \cup {lastId + 1}
          /\ requests' = Append(requests, [id |-> lastId + 1, value |-> v])
          /\ source' = lastId + 1 /\ serveBytes' = v /\ owning' = TRUE /\ lastValue' = v
  /\ UNCHANGED <<clipIn, forwarder, bridge, clipOut, selection, events, copies>>

-----------------------------------------------------------------------------
(***************************************************************************)
(* The nested compositor.                                                   *)
(***************************************************************************)

Replace(sel) ==
  /\ selection' = sel
  /\ events' = IF bridge # "up" /\ bridge # "stuck" THEN events
               ELSE (IF selection.id \in mine
                     THEN Append(events, Cancelled(selection.id)) ELSE events)
                      \o <<Selected(sel)>>

\* An application copies something, or clears the selection.
AppCopies(v) ==
  /\ copies < MaxCopies /\ copies' = copies + 1
  /\ lastId' = lastId + 1
  /\ Replace(IF v = Empty THEN NoSelection ELSE [id |-> lastId + 1, value |-> v])
  /\ UNCHANGED <<queueVars, bridgeVars, requests, mine>>

HandleRequest ==
  /\ requests # << >> /\ requests' = Tail(requests)
  /\ Replace(Head(requests))
  /\ UNCHANGED <<queueVars, bridgeVars, lastId, mine, copies>>

-----------------------------------------------------------------------------
(***************************************************************************)
(* Events of the nested compositor.                                         *)
(***************************************************************************)

\* A bug: the source is given up, but not the ownership.
StillOwning(id) == source' = (IF id = source THEN 0 ELSE source) /\ UNCHANGED owning

\* on_source_cancelled: somebody else has taken the selection, unless the
\* bridge has replaced the source itself.
OnSourceCancelled(id) ==
  IF id = source THEN source' = 0 /\ owning' = FALSE ELSE UNCHANGED <<source, owning>>

\* The bytes an offer yields.  An offer of the bridge itself would have it
\* wait for its own answer.
Yields(sel) == IF sel = selection THEN {sel.value} ELSE {sel.value, Empty}

\* A bug: what was read is not remembered.
PublishOnly(v) == clipOut' = v /\ UNCHANGED lastValue

\* The value goes to the pages and is remembered.
Publish(v) == clipOut' = v /\ lastValue' = v

\* read_offer.
ReadOffer(sel) ==
  \/ /\ sel.id \in mine /\ bridge' = "stuck"
     /\ UNCHANGED <<lastValue, clipOut>>
  \/ /\ sel.id \notin mine /\ UNCHANGED bridge
     /\ \E v \in Yields(sel) :
          IF v \in {Opaque, Huge, lastValue} THEN UNCHANGED <<lastValue, clipOut>>
          ELSE Publish(v)

\* on_selection: not read while the bridge owns the selection, nor when there
\* is none.
OnSelection(sel) ==
  IF owning \/ sel = NoSelection THEN UNCHANGED <<bridge, lastValue, clipOut>>
  ELSE ReadOffer(sel)

HandleEvent ==
  /\ bridge = "up" /\ events # << >> /\ events' = Tail(events)
  /\ LET e == Head(events) IN
     \/ e.kind = "cancelled" /\ OnSourceCancelled(e.id)
        /\ UNCHANGED <<bridge, lastValue, clipOut>>
     \/ e.kind = "selection" /\ OnSelection(e.sel) /\ UNCHANGED <<source, owning>>
  /\ UNCHANGED <<queueVars, serveBytes, selection, requests, lastId, mine, copies>>

BridgeStep == Forward \/ SetSelection \/ HandleEvent

ClipboardNext ==
  \/ \E v \in Values \cup {Huge} : DeviceCopies(v)
  \/ \E v \in Values \cup {Huge, Opaque, Empty} : AppCopies(v)
  \/ HandleRequest
  \/ BridgeStep

-----------------------------------------------------------------------------
(***************************************************************************)
(* Properties.                                                              *)
(***************************************************************************)

\* Every variable has its type and the queue keeps its capacity.
ClipboardTypeOK ==
  /\ clipIn \in Seq(Values \cup {Huge}) /\ Len(clipIn) <= QueueCap
  /\ forwarder \in {"waiting", "running", "ended"}
  /\ toRemote \in Seq(Values \cup {Huge})
  /\ bridge \in {"none", "up", "stuck", "ended"}
  /\ source \in mine \cup {0} /\ owning = (source # 0)
  /\ serveBytes \in Values \cup {Empty}
  /\ lastValue \in Values \cup {Empty, NoValue} /\ clipOut \in Values \cup {Empty}
  /\ selection \in Selections /\ requests \in Seq(Selections)
  /\ \A i \in 1..Len(events) :
       \/ events[i].kind = "cancelled" /\ events[i].id \in mine
       \/ events[i].kind = "selection" /\ events[i].sel \in Selections
  /\ lastId \in Nat /\ mine \subseteq 1..lastId

\* However its own sources and those of the applications replace each other,
\* in any order of set_selection, on_selection and on_source_cancelled, the
\* bridge never reads an offer of its own, which would have it wait for itself
\* ("self-deadlock, since we'd be both writer and reader", owning); and when
\* everything has arrived it serves the selection if that is its own, and has
\* seen it if it can be read.
BridgeAgrees ==
  /\ bridge # "stuck"
  /\ bridge = "up" /\ toRemote = << >> /\ requests = << >> /\ events = << >> =>
       /\ selection.id \in mine => selection.id = source /\ selection.value = serveBytes
       /\ selection.value \in Values => lastValue = selection.value
=============================================================================
