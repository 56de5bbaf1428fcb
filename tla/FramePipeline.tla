---------------------------- MODULE FramePipeline ----------------------------
(***************************************************************************)
(* The capture and encode pipeline: the render loop of main.rs, the damage  *)
(* accounting and the software compositor of compositor/state.rs, and the   *)
(* encoder thread of encoder/mod.rs with its x264 backend.                  *)
(*                                                                          *)
(* Two threads share a bounded frame queue, a bounded control queue, a      *)
(* watch channel holding the requested resolution, an atomic force_render   *)
(* flag and an unbounded buffer-return channel.  The /client handlers of    *)
(* server.rs are a third party that sets force_render and queues            *)
(* ForceKeyframe.                                                           *)
(*                                                                          *)
(* Pixels are abstracted to one value per row band: the resolution it was   *)
(* composited at and the number of the commit that last changed it.         *)
(***************************************************************************)
EXTENDS Integers, Sequences

CONSTANTS
  Rows,              \* row bands of the output
  OffScreen,         \* stands for a damage rectangle that misses the output
  Sizes,             \* output resolutions (after sanitize_resolution)
  InitSize,          \* resolution from the configuration
  Area,              \* Area[s]: framebuffer bytes at resolution s
  Backend,           \* "sw" (SwCompositor) or "gl" (GlCompositor, readback)
  Clients,           \* /client handlers that ask for a keyframe
  FrameCap,          \* capacity of the frame queue (4 in the code)
  ControlCap,        \* capacity of the control queue (8 in the code)
  KeyframeInterval,  \* x264 GOP length, also the idle keyframe cadence
  EncodeMayFail,     \* may send_frame / receive_packet return an error?
  GlMayFail,         \* may a GL render return an error?
  ReinitMayFail,     \* may rebuilding the x264 encoder return an error?
  MaxCommits,        \* bound: content changes
  MaxResizes,        \* bound: resize requests
  MaxAsks,           \* bound: keyframe requests of the handlers
  MaxRates           \* bound: ChangeBitrate messages

ASSUME ConstantsOK ==
  /\ Rows # {} /\ OffScreen \notin Rows
  /\ InitSize \in Sizes
  /\ Area \in [Sizes -> Nat \ {0}]
  /\ Backend \in {"sw", "gl"}
  /\ FrameCap \in Nat \ {0} /\ ControlCap \in Nat \ {0}
  /\ KeyframeInterval \in Nat \ {0}
  /\ EncodeMayFail \in BOOLEAN /\ GlMayFail \in BOOLEAN /\ ReinitMayFail \in BOOLEAN
  /\ MaxCommits \in Nat /\ MaxResizes \in Nat
  /\ MaxAsks \in Nat /\ MaxRates \in Nat

VARIABLES
  \* Render loop and compositor state (one thread).
  size,         \* state.width, state.height
  content,      \* content[r]: commit that last changed row band r
  damage,       \* state.damage
  repaint,      \* state.repaint_region
  canvas,       \* state.canvas, one cell per row band
  canvasArea,   \* state.canvas.len(), 0 before the first frame
  rpc,          \* where the render loop is within one iteration
  ticks,        \* ticks_since_render (saturating: only compared with >=)
  kfPending,    \* keyframe_pending
  spare,        \* spare_buffers.len()
  \* Shared between threads.
  queue,        \* frame_tx / frame_rx
  control,      \* control_tx / control_rx
  resizeTo,     \* value of the ResolutionChange watch channel
  resizeNew,    \* resize_rx.has_changed()
  forceRender,  \* force_render
  returned,     \* buffers waiting in buffer_return_rx
  \* Encoder thread.
  epc,          \* where the encoder thread is within one iteration
  hand,         \* captured_frame
  encSize,      \* video_encoder.width(), height()
  newSize,      \* the ResolutionChange borrowed from the watch channel
  yuv,          \* yuv_frame, one cell per row band
  needsFull,    \* needs_full_convert
  gop,          \* frames since libx264's last IDR, 0 for a fresh encoder
  force,        \* force_keyframe
  shown,        \* the last picture encoded, and what it should have been
  \* The /client handlers and the environment's bounds.
  ask,          \* ask[c]: where handler c is in requesting a keyframe
  owed,         \* handlers whose request no keyframe has answered yet
  commits, resizes, asks, rates

renderVars  == <<size, content, damage, repaint, canvas, canvasArea, rpc, ticks,
                 kfPending, spare>>
encoderVars == <<epc, hand, encSize, newSize, yuv, needsFull, gop, force, shown>>
bounds      == <<commits, resizes, asks, rates>>
vars == <<renderVars, queue, control, resizeTo, resizeNew, forceRender, returned,
          encoderVars, ask, owed, bounds>>

-----------------------------------------------------------------------------
(***************************************************************************)
(* Pictures.  Commits are numbered from 1; a zeroed buffer holds commit 0.   *)
(***************************************************************************)
Cells   == Sizes \X Nat
Picture == [Rows -> Cells]
Frames  == [size: Sizes, pix: Picture, damage: SUBSET Rows, want: Picture]

\* A freshly allocated (zeroed) frame of resolution s.
Zeroed(s) == [r \in Rows |-> <<s, 0>>]

\* What a full repaint would produce now.
Screen == [r \in Rows |-> <<size, content[r]>>]

NoFrame == [size |-> InitSize, pix |-> Zeroed(InitSize), damage |-> {},
            want |-> Zeroed(InitSize)]

\* A bug: an empty list is taken to mean that nothing changed.
DamagedRowsLiteral(f) == f.damage

\* The row bands RawFrame.damage stands for: an empty list is the whole frame.
DamagedRows(f) == IF f.damage = {} THEN Rows ELSE f.damage

\* state.full_output_damage(), and accumulate_damage at row granularity: the
\* full-output shortcut and the collapse to a bounding box only add rows, and
\* Commit below already picks the marked rows freely.
FullDamage == Rows
AddDamage(rows) == damage' = damage \cup rows

Saturate(n) == IF n < KeyframeInterval THEN n + 1 ELSE n

-----------------------------------------------------------------------------
(***************************************************************************)
(* Initial state: spawn_encoder, and the compositor state built in main.    *)
(***************************************************************************)
InitRender ==
  /\ size = InitSize
  /\ content = [r \in Rows |-> 1]
  /\ damage = FullDamage
  /\ repaint = {}
  /\ canvas = Zeroed(InitSize)
  /\ canvasArea = 0
  /\ rpc = "loop"
  /\ ticks = 0
  /\ kfPending = FALSE
  /\ spare = 0

InitShared ==
  /\ queue = << >>
  /\ control = << >>
  /\ resizeTo = InitSize
  /\ resizeNew = FALSE
  /\ forceRender = FALSE
  /\ returned = 0

InitEncoder ==
  /\ epc = "top"
  /\ hand = NoFrame
  /\ encSize = InitSize
  /\ newSize = InitSize
  /\ yuv = Zeroed(InitSize)
  /\ needsFull = TRUE
  /\ gop = 0
  /\ force = FALSE
  /\ shown = [pix |-> Zeroed(InitSize), want |-> Zeroed(InitSize), key |-> FALSE]

Init ==
  /\ InitRender
  /\ InitShared
  /\ InitEncoder
  /\ ask = [c \in Clients |-> "idle"]
  /\ owed = {}
  /\ commits = 1 /\ resizes = 0 /\ asks = 0 /\ rates = 0

-----------------------------------------------------------------------------
(***************************************************************************)
(* Render loop: Wayland dispatch.                                           *)
(***************************************************************************)

\* commit(): a client changes some rows of its surface and reports at least
\* those as damaged.  The rectangle may miss the output altogether.
Commit(changed, marked) ==
  /\ rpc = "loop"
  /\ commits < MaxCommits
  /\ marked # {} /\ changed \subseteq marked
  /\ commits' = commits + 1
  /\ content' = [r \in Rows |-> IF r \in changed THEN commits + 1 ELSE content[r]]
  /\ AddDamage(marked)
  /\ UNCHANGED <<size, repaint, canvas, canvasArea, rpc, ticks, kfPending, spare,
                 queue, control, resizeTo, resizeNew, forceRender, returned,
                 encoderVars, ask, owed, resizes, asks, rates>>

\* new_toplevel() / toplevel_destroyed(): any row may change, and the whole
\* output is marked.
MapOrUnmap(changed) ==
  /\ rpc = "loop"
  /\ commits < MaxCommits
  /\ commits' = commits + 1
  /\ content' = [r \in Rows |-> IF r \in changed THEN commits + 1 ELSE content[r]]
  /\ AddDamage(FullDamage)
  /\ UNCHANGED <<size, repaint, canvas, canvasArea, rpc, ticks, kfPending, spare,
                 queue, control, resizeTo, resizeNew, forceRender, returned,
                 encoderVars, ask, owed, resizes, asks, rates>>

\* A bug: the resized output is not marked as damaged.
ResizeWithoutDamage(s) ==
  /\ rpc = "loop"
  /\ resizes < MaxResizes
  /\ resizes' = resizes + 1
  /\ size' = s
  /\ resizeTo' = s
  /\ resizeNew' = (epc # "dead")
  /\ UNCHANGED <<content, damage, repaint, canvas, canvasArea, rpc, ticks,
                 kfPending, spare, queue, control, forceRender, returned,
                 encoderVars, ask, owed, commits, asks, rates>>

\* A resize request: resize_output(), then encoder_resize.send().
Resize(s) ==
  /\ rpc = "loop"
  /\ resizes < MaxResizes
  /\ resizes' = resizes + 1
  /\ size' = s
  /\ AddDamage(FullDamage)
  /\ resizeTo' = s
  /\ resizeNew' = (epc # "dead")
  /\ UNCHANGED <<content, repaint, canvas, canvasArea, rpc, ticks, kfPending, spare,
                 queue, control, forceRender, returned, encoderVars, ask, owed,
                 commits, asks, rates>>

-----------------------------------------------------------------------------
(***************************************************************************)
(* Render loop: one capture.  The three steps are the points where it       *)
(* touches state of another thread.                                         *)
(***************************************************************************)

\* A bug: buffers handed back by the encoder are never collected.
CaptureTickNoRecycle ==
  LET work == damage # {} \/ forceRender
      kf   == kfPending \/ ticks >= KeyframeInterval
  IN  /\ rpc = "loop"
      /\ repaint' = damage
      /\ damage' = {}
      /\ forceRender' = FALSE
      /\ kfPending' = kf
      /\ rpc' = IF ~work THEN "loop" ELSE IF kf THEN "request" ELSE "render"
      /\ ticks' = IF work THEN ticks ELSE Saturate(ticks)
      /\ UNCHANGED <<size, content, canvas, canvasArea, spare, queue, control, resizeTo,
                     resizeNew, returned, encoderVars, ask, owed, bounds>>

\* The deadline passed, or there is early work: collect returned buffers,
\* take_dirty(), consume force_render and decide whether a keyframe is due.
CaptureTick ==
  LET work == damage # {} \/ forceRender
      kf   == kfPending \/ ticks >= KeyframeInterval
  IN  /\ rpc = "loop"
      /\ spare' = spare + returned
      /\ returned' = 0
      /\ repaint' = damage
      /\ damage' = {}
      /\ forceRender' = FALSE
      /\ kfPending' = kf
      /\ rpc' = IF ~work THEN "loop" ELSE IF kf THEN "request" ELSE "render"
      /\ ticks' = IF work THEN ticks ELSE Saturate(ticks)
      /\ UNCHANGED <<size, content, canvas, canvasArea, queue, control, resizeTo,
                     resizeNew, encoderVars, ask, owed, bounds>>

\* encoder_control.try_send(ForceKeyframe): on a full or closed queue the
\* request is dropped, and the pending flag is cleared all the same.
RequestIdleKeyframe ==
  /\ rpc = "request"
  /\ control' = IF Len(control) < ControlCap /\ epc # "dead"
                THEN Append(control, "key") ELSE control
  /\ kfPending' = FALSE
  /\ rpc' = "render"
  /\ UNCHANGED <<size, content, damage, repaint, canvas, canvasArea, ticks, spare,
                 queue, resizeTo, resizeNew, forceRender, returned, encoderVars,
                 ask, owed, bounds>>

\* The row bands render() recomposites: everything after a change of the
\* framebuffer's length or without tracked damage, else the visible damage.
Clips ==
  IF canvasArea # Area[size] \/ repaint = {} THEN Rows ELSE repaint \ {OffScreen}

\* state.render() recomposites the clips over the previous canvas.
Recomposited ==
  [r \in Rows |-> IF r \in Clips THEN Screen[r] ELSE canvas[r]]

SwFrame == [size |-> size, pix |-> Recomposited, damage |-> Clips, want |-> Screen]
GlFrame == [size |-> size, pix |-> Screen, damage |-> {}, want |-> Screen]

\* A bug: the damage of a frame the full queue rejected is not marked again.
SendFrameForgetful(f) ==
  \/ /\ epc # "dead" /\ Len(queue) < FrameCap
     /\ queue' = Append(queue, f)
     /\ ticks' = 0
     /\ UNCHANGED damage
  \/ /\ epc = "dead" \/ Len(queue) >= FrameCap
     /\ ticks' = Saturate(ticks)
     /\ UNCHANGED <<queue, damage>>

\* frame_sender.try_send(frame): queued, or rejected because the queue is
\* full (readd_damage) or closed (nothing).  A rejected buffer is freed.
SendFrame(f) ==
  \/ /\ epc # "dead" /\ Len(queue) < FrameCap
     /\ queue' = Append(queue, f)
     /\ ticks' = 0
     /\ UNCHANGED damage
  \/ /\ epc # "dead" /\ Len(queue) >= FrameCap
     /\ AddDamage(f.damage)
     /\ ticks' = Saturate(ticks)
     /\ UNCHANGED queue
  \/ /\ epc = "dead"
     /\ ticks' = Saturate(ticks)
     /\ UNCHANGED <<queue, damage>>

TakeSpare == spare' = IF spare > 0 THEN spare - 1 ELSE 0

\* SwCompositor::render() and the hand-over to the encoder.
RenderSw ==
  /\ Backend = "sw"
  /\ rpc = "render"
  /\ TakeSpare
  /\ canvas' = Recomposited
  /\ canvasArea' = Area[size]
  /\ repaint' = {}
  /\ SendFrame(SwFrame)
  /\ rpc' = "loop"
  /\ UNCHANGED <<size, content, kfPending, control, resizeTo, resizeNew,
                 forceRender, returned, encoderVars, ask, owed, bounds>>

\* GlCompositor::render() with readback: always the whole frame, no damage
\* list; a GL error yields no frame at all.
RenderGl ==
  /\ Backend = "gl"
  /\ rpc = "render"
  /\ TakeSpare
  /\ \/ SendFrame(GlFrame)
     \/ GlMayFail /\ UNCHANGED <<queue, ticks, damage>>
  /\ rpc' = "loop"
  /\ UNCHANGED <<size, content, repaint, canvas, canvasArea, kfPending, control,
                 resizeTo, resizeNew, forceRender, returned, encoderVars, ask,
                 owed, bounds>>

-----------------------------------------------------------------------------
(***************************************************************************)
(* Encoder thread.                                                          *)
(***************************************************************************)

\* A bug: the empty YUV frame is trusted for damage-only conversion.
ReinitializeTrusting(s) ==
  /\ encSize' = s
  /\ yuv' = Zeroed(s)
  /\ gop' = 0
  /\ UNCHANGED needsFull

\* X264Encoder::reinitialize(): a fresh encoder and an empty YUV frame.
Reinitialize(s) ==
  /\ encSize' = s
  /\ yuv' = Zeroed(s)
  /\ needsFull' = TRUE
  /\ gop' = 0

\* reinitialize() failed: the thread returns, dropping its receivers and the
\* frame it holds.
Die ==
  /\ ReinitMayFail
  /\ epc' = "dead"
  /\ queue' = << >> /\ control' = << >> /\ hand' = NoFrame
  /\ resizeNew' = FALSE
  /\ UNCHANGED <<encSize, yuv, needsFull, gop>>

\* drain_control_messages().  Applying a ChangeBitrate rebuilds the encoder,
\* so that the next frame is an IDR, unless the rate is unchanged, the encoder
\* runs in constant-quality mode or create_encoder fails.
DrainControl(at, next) ==
  /\ epc = at
  /\ \/ UNCHANGED gop
     \/ (\E i \in 1..Len(control) : control[i] = "rate") /\ gop' = 0
  /\ force' = (force \/ \E i \in 1..Len(control) : control[i] = "key")
  /\ control' = << >>
  /\ epc' = next
  /\ UNCHANGED <<renderVars, queue, resizeTo, resizeNew, forceRender, returned,
                 hand, encSize, newSize, yuv, needsFull, shown, ask, owed, bounds>>

\* resize_rx.has_changed(), borrow_and_update().
CheckResize ==
  /\ epc = "resize"
  /\ epc' = IF resizeNew THEN "drain" ELSE "recv"
  /\ newSize' = IF resizeNew THEN resizeTo ELSE newSize
  /\ resizeNew' = FALSE
  /\ UNCHANGED <<renderVars, queue, control, resizeTo, forceRender, returned, hand,
                 encSize, yuv, needsFull, gop, force, shown, ask, owed, bounds>>

\* One frame discarded on behalf of a resize; its buffer goes back.
DrainStaleFrame ==
  /\ epc = "drain"
  /\ queue # << >>
  /\ queue' = Tail(queue)
  /\ returned' = returned + 1
  /\ UNCHANGED <<renderVars, control, resizeTo, resizeNew, forceRender,
                 encoderVars, ask, owed, bounds>>

\* The queue is empty: rebuild the encoder for the new resolution.
ApplyResize ==
  /\ epc = "drain"
  /\ queue = << >>
  /\ \/ /\ Reinitialize(newSize)
        /\ epc' = "recv"
        /\ UNCHANGED <<queue, control, resizeNew, hand>>
     \/ Die
  /\ UNCHANGED <<renderVars, resizeTo, forceRender, returned, newSize, force, shown,
                 ask, owed, bounds>>

\* frame_rx.blocking_recv().
RecvFrame ==
  /\ epc = "recv"
  /\ queue # << >>
  /\ hand' = Head(queue)
  /\ queue' = Tail(queue)
  /\ epc' = "skip"
  /\ UNCHANGED <<renderVars, control, resizeTo, resizeNew, forceRender, returned,
                 encSize, newSize, yuv, needsFull, gop, force, shown, ask, owed,
                 bounds>>

\* A bug: the skipped frame's damage is not carried forward.
CarryDamageLost(old, new) == new

\* The newer frame, with the damage of the frame it replaces.  An empty list
\* means the whole frame on either side.
CarryDamage(old, new) ==
  [new EXCEPT !.damage = IF old.damage = {} \/ new.damage = {} THEN {}
                         ELSE old.damage \cup new.damage]

\* One turn of skip_to_newest_frame().
SkipToNewer ==
  /\ epc = "skip"
  /\ queue # << >>
  /\ hand' = CarryDamage(hand, Head(queue))
  /\ queue' = Tail(queue)
  /\ returned' = returned + 1
  /\ UNCHANGED <<renderVars, control, resizeTo, resizeNew, forceRender, epc, encSize,
                 newSize, yuv, needsFull, gop, force, shown, ask, owed, bounds>>

\* A bug: no safety net for a frame that overtook its resize notification.
FitEncoderUnchecked ==
  /\ epc = "skip"
  /\ queue = << >>
  /\ epc' = "control"
  /\ UNCHANGED <<renderVars, queue, control, resizeTo, resizeNew, forceRender,
                 returned, hand, encSize, newSize, yuv, needsFull, gop, force, shown,
                 ask, owed, bounds>>

\* Nothing newer is queued.  The safety net: trust the frame's dimensions
\* over the encoder's.  A frame lost to a failed rebuild returns its buffer.
FitEncoder ==
  /\ epc = "skip"
  /\ queue = << >>
  /\ \/ /\ IF hand.size = encSize THEN UNCHANGED <<encSize, yuv, needsFull, gop>>
                                  ELSE Reinitialize(hand.size)
        /\ epc' = "control"
        /\ UNCHANGED <<queue, control, resizeNew, hand, returned>>
     \/ /\ hand.size # encSize
        /\ Die
        /\ returned' = returned + 1
  /\ UNCHANGED <<renderVars, resizeTo, forceRender, newSize, force, shown, ask, owed,
                 bounds>>

\* encode_frame()'s BGRA to YUV conversion: everything after a rebuild, for a
\* forced keyframe or without a damage list; else the damaged rows only.
Converted ==
  LET rows == IF needsFull \/ force THEN Rows ELSE DamagedRows(hand)
  IN  [r \in Rows |-> IF r \in rows THEN hand.pix[r] ELSE yuv[r]]

\* libx264 starts a stream with an IDR, honours a forced one and otherwise
\* places one every KeyframeInterval frames.
IsKeyframe == force \/ gop = 0 \/ gop >= KeyframeInterval

\* submit(): convert, encode, return the buffer.  An encode error keeps the
\* converted rows and needs_full_convert, and loses the forced keyframe.
Submit ==
  /\ epc = "submit"
  /\ yuv' = Converted
  /\ force' = FALSE
  /\ returned' = returned + 1
  /\ \/ /\ shown' = [pix |-> Converted, want |-> hand.want, key |-> IsKeyframe]
        /\ needsFull' = FALSE
        /\ gop' = IF IsKeyframe THEN 1 ELSE gop + 1
        /\ owed' = IF IsKeyframe THEN {} ELSE owed
     \/ /\ EncodeMayFail
        /\ UNCHANGED <<shown, needsFull, gop, owed>>
  /\ hand' = NoFrame
  /\ epc' = "top"
  /\ UNCHANGED <<renderVars, queue, control, resizeTo, resizeNew, forceRender,
                 encSize, newSize, ask, bounds>>

-----------------------------------------------------------------------------
(***************************************************************************)
(* The other senders.                                                       *)
(***************************************************************************)

\* A /client handler, on connecting or on RequestKeyframe, first stores
\* force_render ...
AskForce(c) ==
  /\ ask[c] = "idle"
  /\ asks < MaxAsks
  /\ asks' = asks + 1
  /\ forceRender' = TRUE
  /\ ask' = [ask EXCEPT ![c] = "send"]
  /\ owed' = owed \cup {c}
  /\ UNCHANGED <<renderVars, queue, control, resizeTo, resizeNew, returned,
                 encoderVars, commits, resizes, rates>>

\* A bug: the handler drops the request when the control queue is full.
AskSendLossy(c) ==
  /\ ask[c] = "send"
  /\ control' = IF Len(control) < ControlCap THEN Append(control, "key") ELSE control
  /\ ask' = [ask EXCEPT ![c] = "idle"]
  /\ UNCHANGED <<renderVars, queue, resizeTo, resizeNew, forceRender, returned,
                 encoderVars, owed, bounds>>

\* ... then awaits room in the control queue for ForceKeyframe (an error, on
\* a closed queue, is only logged).
AskSend(c) ==
  /\ ask[c] = "send"
  /\ \/ epc = "dead" /\ UNCHANGED control
     \/ epc # "dead" /\ Len(control) < ControlCap /\ control' = Append(control, "key")
  /\ ask' = [ask EXCEPT ![c] = "idle"]
  /\ UNCHANGED <<renderVars, queue, resizeTo, resizeNew, forceRender, returned,
                 encoderVars, owed, bounds>>

\* The adaptive bitrate controller queues ChangeBitrate.
SendRate ==
  /\ rates < MaxRates
  /\ epc # "dead" /\ Len(control) < ControlCap
  /\ rates' = rates + 1
  /\ control' = Append(control, "rate")
  /\ UNCHANGED <<renderVars, queue, resizeTo, resizeNew, forceRender, returned,
                 encoderVars, ask, owed, commits, resizes, asks>>

-----------------------------------------------------------------------------
RenderStep == CaptureTick \/ RequestIdleKeyframe \/ RenderSw \/ RenderGl

EncoderStep ==
  \/ DrainControl("top", "resize")
  \/ CheckResize
  \/ DrainStaleFrame
  \/ ApplyResize
  \/ RecvFrame
  \/ SkipToNewer
  \/ FitEncoder
  \/ DrainControl("control", "submit")
  \/ Submit

Environment ==
  \/ \E marked \in SUBSET (Rows \cup {OffScreen}) :
       \E changed \in SUBSET (marked \ {OffScreen}) : Commit(changed, marked)
  \/ \E changed \in SUBSET Rows : MapOrUnmap(changed)
  \/ \E s \in Sizes : Resize(s)
  \/ \E c \in Clients : AskForce(c) \/ AskSend(c)
  \/ SendRate

Next == RenderStep \/ EncoderStep \/ Environment

Spec == Init /\ [][Next]_vars

\* Both threads run whenever they can, and a handler that awaits a slot of
\* the control queue gets one; clients and commits may stop at any time.
FairSpec ==
  /\ Spec
  /\ WF_vars(RenderStep)
  /\ WF_vars(EncoderStep)
  /\ \A c \in Clients : WF_vars(AskSend(c))

-----------------------------------------------------------------------------
(***************************************************************************)
(* Properties.                                                              *)
(***************************************************************************)
Messages == {"key", "rate"}

RenderTypeOK ==
  /\ size \in Sizes /\ content \in [Rows -> Nat]
  /\ damage \subseteq Rows \cup {OffScreen}
  /\ repaint \subseteq Rows \cup {OffScreen}
  /\ canvas \in Picture /\ canvasArea \in Nat
  /\ rpc \in {"loop", "request", "render"}
  /\ ticks \in 0..KeyframeInterval /\ spare \in Nat

QueueTypeOK ==
  /\ queue \in Seq(Frames) /\ Len(queue) <= FrameCap
  /\ control \in Seq(Messages) /\ Len(control) <= ControlCap

EncoderTypeOK ==
  /\ epc \in {"top", "resize", "drain", "recv", "skip", "control", "submit", "dead"}
  /\ hand \in Frames /\ encSize \in Sizes /\ newSize \in Sizes
  /\ yuv \in Picture /\ gop \in 0..KeyframeInterval
  /\ shown \in [pix: Picture, want: Picture, key: BOOLEAN]

OtherTypeOK ==
  /\ resizeTo \in Sizes /\ returned \in Nat
  /\ ask \in [Clients -> {"idle", "send"}] /\ owed \subseteq Clients
  /\ commits \in Nat /\ resizes \in Nat /\ asks \in Nat /\ rates \in Nat

FlagTypeOK ==
  /\ kfPending \in BOOLEAN /\ resizeNew \in BOOLEAN /\ forceRender \in BOOLEAN
  /\ needsFull \in BOOLEAN /\ force \in BOOLEAN

\* Types, and the capacities of the two bounded queues.
TypeOK == RenderTypeOK /\ QueueTypeOK /\ EncoderTypeOK /\ OtherTypeOK /\ FlagTypeOK

\* Damage-only compositing and damage-only conversion never leave a stale row
\* in the stream: every picture that leaves the encoder is, row for row, what
\* a full repaint would have produced when its frame was captured -- through
\* full queues, skipped frames, resizes and failed encodes.
EncodedExact == shown.pix = shown.want

\* The encoder thread holds a frame.
HasHand == epc \in {"skip", "control", "submit"}

\* Pictures a and b differ only on the given rows.
Covers(a, b, rows) == \A r \in Rows : a[r] # b[r] => r \in rows

\* The YUV frame's rows may be reused for the next conversion.
Trusted == ~needsFull /\ epc \notin {"drain", "dead"}

\* Rows render() still has to recomposite.
ToRepaint == damage \cup repaint

\* The damage lists form an unbroken chain from the encoder's YUV frame over
\* the frames in flight to the canvas: two neighbours differ only on rows the
\* younger one lists as damaged, and the canvas differs from the youngest
\* frame, and from the screen, only on rows still marked for repainting.
ChainFromYuv ==
  Trusted =>
    /\ HasHand => Covers(yuv, hand.pix, DamagedRows(hand))
    /\ ~HasHand /\ queue # << >> => Covers(yuv, queue[1].pix, DamagedRows(queue[1]))

Linked(q) ==
  \A i \in 1..(Len(q) - 1) : Covers(q[i].pix, q[i + 1].pix, DamagedRows(q[i + 1]))

ChainInFlight ==
  /\ HasHand /\ queue # << >> => Covers(hand.pix, queue[1].pix, DamagedRows(queue[1]))
  /\ Linked(queue)

\* The newest picture in the encoder's hands, queued or about to be: the given
\* one differs from it only on the given rows.
FollowsNewest(pix, rows) ==
  /\ queue # << >> => Covers(queue[Len(queue)].pix, pix, rows)
  /\ queue = << >> /\ HasHand => Covers(hand.pix, pix, rows)
  /\ queue = << >> /\ ~HasHand /\ Trusted => Covers(yuv, pix, rows)

ChainToCanvas == Backend = "sw" => FollowsNewest(canvas, ToRepaint)

CanvasCurrent == Backend = "sw" => Covers(canvas, Screen, ToRepaint)

Exact(q) == \A i \in 1..Len(q) : q[i].pix = q[i].want

FramesExact == Exact(queue) /\ (HasHand => hand.pix = hand.want)

\* Damage moves to repaint as a whole, and is used up before the loop goes on;
\* a dead encoder thread holds no frame.
PhaseOK ==
  /\ rpc # "loop" => damage = {}
  /\ Backend = "sw" /\ rpc = "loop" => repaint = {}
  /\ epc = "dead" => queue = << >>

DamageChain ==
  /\ ChainFromYuv /\ ChainInFlight /\ ChainToCanvas
  /\ CanvasCurrent /\ FramesExact /\ PhaseOK

\* A frame is only ever encoded by an encoder built for its resolution, even
\* when it overtook the resize notification.
FitsEncoder == epc \in {"control", "submit"} => hand.size = encSize

\* The framebuffers handed out by the render loop and not yet back in its pool.
Abroad == returned + Len(queue) + (IF HasHand THEN 1 ELSE 0)

\* Recycling bounds the framebuffers alive at once: those in the queue, the
\* one being encoded and one more.  The pool is empty at a capture only if
\* every buffer was abroad when it collected the returned ones, none of them
\* waiting to be collected.
BuffersBounded ==
  /\ spare + Abroad <= FrameCap + 2
  /\ rpc # "loop" /\ spare = 0 => Abroad <= FrameCap + 1

\* No row of the stream ever goes back to an older commit.
NeverOlder == [][\A r \in Rows : shown'.pix[r][2] >= shown.pix[r][2]]_vars

\* The youngest picture the encoder has or will get.
Youngest ==
  IF queue # << >> THEN queue[Len(queue)].pix
  ELSE IF HasHand THEN hand.pix ELSE shown.pix

\* While the screen shows something no picture delivered or in flight shows,
\* the render loop still has work marked -- also after a full queue rejected
\* the frame ("Re-mark this dropped frame's damage so the next frame
\* re-renders it").
NoForgottenChange == Youngest # Screen => damage # {} \/ rpc # "loop"

\* A keyframe request whose handler got its ForceKeyframe through is still
\* pending somewhere until a keyframe leaves the encoder, so that the next
\* frame encoded answers it.
KeyframeNotForgotten ==
  \A c \in owed : \/ ask[c] = "send" \/ force
                  \/ \E i \in 1..Len(control) : control[i] = "key"

Pixels(q) == [i \in 1..Len(q) |-> q[i].pix]

Whole == INSTANCE WholeFrames WITH
  screen   <- Screen,
  captures <- Pixels(queue),
  inHand   <- IF HasHand THEN <<hand.pix>> ELSE << >>,
  picture  <- shown.pix

\* Damage tracking cannot be seen: with the pixels that are really composited,
\* queued and converted, the pipeline is one that captures, queues and encodes
\* nothing but whole frames.
WholeFramesKept == Whole!Safety

\* Once the screen stops changing, the stream ends up showing it.
Settles == <>[](shown.pix = Screen)

\* The comment in encoder_thread: while the encoder drains the queue to switch
\* resolutions, "anything queued here was captured at the old resolution".
DrainedFramesAreOld ==
  epc = "drain" /\ newSize # encSize => \A i \in 1..Len(queue) : queue[i].size # newSize

=============================================================================
