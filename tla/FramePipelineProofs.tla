------------------------- MODULE FramePipelineProofs -------------------------
(***************************************************************************)
(* Proofs about FramePipeline, for every number of rows, resolutions,       *)
(* queue capacities and bounds.                                             *)
(***************************************************************************)
EXTENDS FramePipeline, SequenceTheorems, TLAPS

-----------------------------------------------------------------------------
(***************************************************************************)
(* Type correctness.                                                        *)
(***************************************************************************)

\* A zeroed picture and the current screen are pictures.
LEMMA ZeroedType == ASSUME NEW s \in Sizes PROVE Zeroed(s) \in Picture
BY DEF Zeroed, Picture, Cells

LEMMA NoFrameType == NoFrame \in Frames
BY ZeroedType, ConstantsOK DEF NoFrame, Frames

LEMMA ScreenType == RenderTypeOK => Screen \in Picture
BY DEF RenderTypeOK, Screen, Picture, Cells

\* Both compositors produce a well-formed frame.
LEMMA FrameType ==
  ASSUME RenderTypeOK
  PROVE  SwFrame \in Frames /\ GlFrame \in Frames /\ Recomposited \in Picture
<1>1. Screen \in Picture
  BY ScreenType
<1>2. Recomposited \in Picture
  BY <1>1 DEF RenderTypeOK, Recomposited, Picture
<1>3. Clips \subseteq Rows
  BY DEF Clips, RenderTypeOK
<1>4. QED
  BY <1>1, <1>2, <1>3 DEF SwFrame, GlFrame, Frames, RenderTypeOK

\* Carrying damage forward yields a frame with the newer frame's pixels and
\* resolution.
LEMMA CarryFields ==
  ASSUME NEW f \in Frames, NEW g \in Frames
  PROVE  /\ CarryDamage(f, g) \in Frames
         /\ CarryDamage(f, g).pix = g.pix /\ CarryDamage(f, g).want = g.want
         /\ CarryDamage(f, g).damage =
              IF f.damage = {} \/ g.damage = {} THEN {} ELSE f.damage \cup g.damage
<1> DEFINE d == IF f.damage = {} \/ g.damage = {} THEN {} ELSE f.damage \cup g.damage
<1>1. f.damage \subseteq Rows /\ g.damage \subseteq Rows
  BY DEF Frames
<1>2. d \subseteq Rows
  BY <1>1
<1>3. CarryDamage(f, g) = [g EXCEPT !.damage = d]
  BY DEF CarryDamage
<1> HIDE DEF d
<1>4. /\ [g EXCEPT !.damage = d] \in Frames
      /\ [g EXCEPT !.damage = d].pix = g.pix
      /\ [g EXCEPT !.damage = d].want = g.want
      /\ [g EXCEPT !.damage = d].damage = d
  BY <1>2 DEF Frames
<1>5. QED
  BY <1>3, <1>4 DEF d

LEMMA ConvertedType == EncoderTypeOK => Converted \in Picture
<1>1. SUFFICES ASSUME EncoderTypeOK PROVE Converted \in Picture
  OBVIOUS
<1>2. hand.pix \in Picture /\ yuv \in Picture
  BY <1>1 DEF EncoderTypeOK, Frames
<1>3. QED
  BY <1>2 DEF Converted, Picture

\* Sending on a bounded channel, and receiving from one.
LEMMA SendType ==
  ASSUME NEW S, NEW q \in Seq(S), NEW m \in S, NEW cap \in Nat, Len(q) < cap
  PROVE  /\ Append(q, m) \in Seq(S) /\ Len(Append(q, m)) <= cap
         /\ Len(Append(q, m)) = Len(q) + 1
         /\ \A i \in 1..Len(q) : Append(q, m)[i] = q[i]
         /\ Append(q, m)[Len(q) + 1] = m
OBVIOUS

LEMMA RecvType ==
  ASSUME NEW S, NEW q \in Seq(S), q # << >>
  PROVE  /\ Tail(q) \in Seq(S) /\ Head(q) \in S /\ Head(q) = q[1]
         /\ Len(q) \in Nat /\ Len(q) >= 1
         /\ Len(Tail(q)) = Len(q) - 1
         /\ \A i \in 1..(Len(q) - 1) : Tail(q)[i] = q[i + 1]
OBVIOUS

LEMMA EmptyQueues ==
  << >> \in Seq(Frames) /\ << >> \in Seq(Messages) /\ Len(<< >>) = 0
OBVIOUS

LEMMA TypeInit == Init => TypeOK
<1>1. SUFFICES ASSUME Init PROVE TypeOK
  OBVIOUS
<1>2. Zeroed(InitSize) \in Picture /\ NoFrame \in Frames
  BY ZeroedType, NoFrameType, ConstantsOK
<1>3. RenderTypeOK
  BY <1>1, <1>2, ConstantsOK DEF Init, InitRender, RenderTypeOK, FullDamage
<1>4. QueueTypeOK
  BY <1>1, EmptyQueues, ConstantsOK DEF Init, InitShared, QueueTypeOK
<1>5. EncoderTypeOK
  BY <1>1, <1>2, ConstantsOK DEF Init, InitEncoder, EncoderTypeOK
<1>6. OtherTypeOK
  BY <1>1, ConstantsOK DEF Init, InitShared, OtherTypeOK
<1>7. FlagTypeOK
  BY <1>1 DEF Init, InitRender, InitShared, InitEncoder, FlagTypeOK
<1>8. QED
  BY <1>3, <1>4, <1>5, <1>6, <1>7 DEF TypeOK

\* What a step may do to the frame queue and to the control queue.
FrameQueueStep ==
  \/ UNCHANGED queue
  \/ queue # << >> /\ queue' = Tail(queue)
  \/ queue' = << >>
  \/ Len(queue) < FrameCap /\ \E f \in Frames : queue' = Append(queue, f)

ControlQueueStep ==
  \/ UNCHANGED control
  \/ control' = << >>
  \/ Len(control) < ControlCap /\ \E m \in Messages : control' = Append(control, m)

LEMMA QueueType ==
  QueueTypeOK /\ FrameQueueStep /\ ControlQueueStep => QueueTypeOK'
<1>1. SUFFICES ASSUME QueueTypeOK, FrameQueueStep, ControlQueueStep PROVE QueueTypeOK'
  OBVIOUS
<1>2. queue \in Seq(Frames) /\ Len(queue) <= FrameCap /\ FrameCap \in Nat
  BY <1>1, ConstantsOK DEF QueueTypeOK
<1>3. control \in Seq(Messages) /\ Len(control) <= ControlCap /\ ControlCap \in Nat
  BY <1>1, ConstantsOK DEF QueueTypeOK
<1>4. queue' \in Seq(Frames) /\ Len(queue') <= FrameCap
  <2>1. CASE queue # << >> /\ queue' = Tail(queue)
    BY <1>2, <2>1, RecvType
  <2>2. CASE queue' = << >>
    BY <1>2, <2>2, EmptyQueues
  <2>3. CASE Len(queue) < FrameCap /\ \E f \in Frames : queue' = Append(queue, f)
    BY <1>2, <2>3, SendType
  <2>4. QED
    BY <1>1, <1>2, <2>1, <2>2, <2>3 DEF FrameQueueStep
<1>5. control' \in Seq(Messages) /\ Len(control') <= ControlCap
  <2>1. CASE control' = << >>
    BY <1>3, <2>1, EmptyQueues
  <2>2. CASE Len(control) < ControlCap /\ \E m \in Messages : control' = Append(control, m)
    BY <1>3, <2>2, SendType
  <2>3. QED
    BY <1>1, <1>3, <2>1, <2>2 DEF ControlQueueStep
<1>6. QED
  BY <1>4, <1>5 DEF QueueTypeOK

LEMMA SendFrameStep ==
  ASSUME RenderTypeOK, NEW f \in Frames, SendFrame(f)
  PROVE  /\ FrameQueueStep
         /\ ticks' \in 0..KeyframeInterval
         /\ damage' \subseteq Rows \cup {OffScreen}
<1>1. FrameQueueStep
  BY DEF SendFrame, FrameQueueStep
<1>2. ticks' \in 0..KeyframeInterval
  BY ConstantsOK DEF SendFrame, Saturate, RenderTypeOK
<1>3. damage' \subseteq Rows \cup {OffScreen}
  BY DEF SendFrame, AddDamage, RenderTypeOK, Frames
<1>4. QED
  BY <1>1, <1>2, <1>3

-----------------------------------------------------------------------------
\* What one thread leaves alone keeps its type.
LEMMA TypeFrame ==
  /\ RenderTypeOK /\ UNCHANGED renderVars => RenderTypeOK'
  /\ EncoderTypeOK /\ UNCHANGED encoderVars => EncoderTypeOK'
BY DEF renderVars, encoderVars, RenderTypeOK, EncoderTypeOK

\* The Boolean flags.
LEMMA FlagRender == FlagTypeOK /\ RenderStep => FlagTypeOK'
<1>1. SUFFICES ASSUME FlagTypeOK, RenderStep PROVE FlagTypeOK'
  OBVIOUS
<1>2. CASE CaptureTick
  <2>1. kfPending' = (kfPending \/ ticks >= KeyframeInterval) /\ forceRender' = FALSE
    BY <1>2, Zenon DEF CaptureTick
  <2>2. kfPending' \in BOOLEAN /\ forceRender' \in BOOLEAN
    BY <2>1, Zenon
  <2>3. QED
    BY <1>1, <1>2, <2>2, Zenon DEF CaptureTick, FlagTypeOK, encoderVars
<1>3. CASE RequestIdleKeyframe
  BY <1>1, <1>3, Zenon DEF RequestIdleKeyframe, FlagTypeOK, encoderVars
<1>4. CASE RenderSw
  BY <1>1, <1>4, Zenon DEF RenderSw, FlagTypeOK, encoderVars
<1>5. CASE RenderGl
  BY <1>1, <1>5, Zenon DEF RenderGl, FlagTypeOK, encoderVars
<1>6. QED
  BY <1>1, <1>2, <1>3, <1>4, <1>5 DEF RenderStep

LEMMA FlagDrain ==
  ASSUME FlagTypeOK, NEW at, NEW next, DrainControl(at, next)
  PROVE  FlagTypeOK'
<1>1. force' = (force \/ \E i \in 1..Len(control) : control[i] = "key")
  BY Zenon DEF DrainControl
<1>2. force' \in BOOLEAN
  BY <1>1, Zenon
<1>3. QED
  BY <1>2, Zenon DEF DrainControl, FlagTypeOK, renderVars

LEMMA FlagEncoder == FlagTypeOK /\ EncoderStep => FlagTypeOK'
<1>1. SUFFICES ASSUME FlagTypeOK, EncoderStep PROVE FlagTypeOK'
  OBVIOUS
<1>2. CASE DrainControl("top", "resize") \/ DrainControl("control", "submit")
  BY <1>1, <1>2, FlagDrain
<1>3. CASE CheckResize
  BY <1>1, <1>3, Zenon DEF CheckResize, FlagTypeOK, renderVars
<1>4. CASE DrainStaleFrame
  BY <1>1, <1>4, Zenon DEF DrainStaleFrame, FlagTypeOK, renderVars, encoderVars
<1>5. CASE ApplyResize
  BY <1>1, <1>5, Zenon DEF ApplyResize, Reinitialize, Die, FlagTypeOK, renderVars
<1>6. CASE RecvFrame
  BY <1>1, <1>6, Zenon DEF RecvFrame, FlagTypeOK, renderVars
<1>7. CASE SkipToNewer
  BY <1>1, <1>7, Zenon DEF SkipToNewer, FlagTypeOK, renderVars
<1>8. CASE FitEncoder
  <2>1. needsFull' \in BOOLEAN /\ resizeNew' \in BOOLEAN
    BY <1>1, <1>8 DEF FitEncoder, Reinitialize, Die, FlagTypeOK
  <2>2. QED
    BY <1>1, <1>8, <2>1, Zenon DEF FitEncoder, FlagTypeOK, renderVars
<1>9. CASE Submit
  BY <1>1, <1>9, Zenon DEF Submit, FlagTypeOK, renderVars
<1>10. QED
  BY <1>1, <1>2, <1>3, <1>4, <1>5, <1>6, <1>7, <1>8, <1>9 DEF EncoderStep

LEMMA FlagEnvironment == FlagTypeOK /\ Environment => FlagTypeOK'
<1>1. SUFFICES ASSUME FlagTypeOK, Environment PROVE FlagTypeOK'
  OBVIOUS
<1>2. CASE \E marked \in SUBSET (Rows \cup {OffScreen}) :
             \E changed \in SUBSET (marked \ {OffScreen}) : Commit(changed, marked)
  BY <1>1, <1>2, Zenon DEF Commit, FlagTypeOK, encoderVars
<1>3. CASE \E changed \in SUBSET Rows : MapOrUnmap(changed)
  BY <1>1, <1>3, Zenon DEF MapOrUnmap, FlagTypeOK, encoderVars
<1>4. ASSUME NEW s \in Sizes, Resize(s) PROVE FlagTypeOK'
  <2>1. resizeNew' = (epc # "dead")
    BY <1>4, Zenon DEF Resize
  <2>2. resizeNew' \in BOOLEAN
    BY <2>1, Zenon
  <2>3. QED
    BY <1>1, <1>4, <2>2, Zenon DEF Resize, FlagTypeOK, encoderVars
<1>5. ASSUME NEW c \in Clients, AskForce(c) PROVE FlagTypeOK'
  BY <1>1, <1>5, Zenon DEF AskForce, FlagTypeOK, renderVars, encoderVars
<1>6. ASSUME NEW c \in Clients, AskSend(c) PROVE FlagTypeOK'
  BY <1>1, <1>6, Zenon DEF AskSend, FlagTypeOK, renderVars, encoderVars
<1>7. CASE SendRate
  BY <1>1, <1>7, Zenon DEF SendRate, FlagTypeOK, renderVars, encoderVars
<1>8. QED
  BY <1>1, <1>2, <1>3, <1>4, <1>5, <1>6, <1>7 DEF Environment

-----------------------------------------------------------------------------
\* Each other part of the type invariant, thread by thread.
LEMMA TypeRender == TypeOK /\ RenderStep => TypeOK'
<1>1. SUFFICES ASSUME TypeOK, RenderStep PROVE TypeOK'
  OBVIOUS
<1>2. RenderTypeOK /\ QueueTypeOK /\ EncoderTypeOK /\ OtherTypeOK /\ FlagTypeOK
  BY <1>1 DEF TypeOK
<1>3. SwFrame \in Frames /\ GlFrame \in Frames /\ Recomposited \in Picture
  BY <1>2, FrameType
<1>4. UNCHANGED encoderVars
  BY <1>1 DEF RenderStep, CaptureTick, RequestIdleKeyframe, RenderSw, RenderGl
<1>5. OtherTypeOK'
  <2>1. UNCHANGED <<resizeTo, ask, owed, bounds>> /\ returned' \in Nat
    BY <1>1, <1>2 DEF RenderStep, CaptureTick, RequestIdleKeyframe, RenderSw, RenderGl,
       OtherTypeOK
  <2>2. QED
    BY <1>2, <2>1 DEF OtherTypeOK, bounds
<1>6. FrameQueueStep /\ ControlQueueStep
  <2>1. CASE CaptureTick
    BY <2>1 DEF CaptureTick, FrameQueueStep, ControlQueueStep
  <2>2. CASE RequestIdleKeyframe
    BY <2>2 DEF RequestIdleKeyframe, FrameQueueStep, ControlQueueStep, Messages
  <2>3. CASE RenderSw
    BY <1>2, <1>3, <2>3, SendFrameStep DEF RenderSw, ControlQueueStep
  <2>4. CASE RenderGl
    BY <1>2, <1>3, <2>4, SendFrameStep DEF RenderGl, FrameQueueStep, ControlQueueStep
  <2>5. QED
    BY <1>1, <2>1, <2>2, <2>3, <2>4 DEF RenderStep
<1>7. RenderTypeOK'
  <2>1. CASE CaptureTick
    BY <1>2, <2>1, ConstantsOK DEF CaptureTick, Saturate, RenderTypeOK, OtherTypeOK
  <2>2. CASE RequestIdleKeyframe
    BY <1>2, <2>2 DEF RequestIdleKeyframe, RenderTypeOK
  <2>3. CASE RenderSw
    <3>1. ticks' \in 0..KeyframeInterval /\ damage' \subseteq Rows \cup {OffScreen}
      BY <1>2, <1>3, <2>3, SendFrameStep DEF RenderSw
    <3>2. Area[size] \in Nat
      BY <1>2, ConstantsOK DEF RenderTypeOK
    <3>3. QED
      BY <1>2, <1>3, <2>3, <3>1, <3>2 DEF RenderSw, TakeSpare, RenderTypeOK
  <2>4. CASE RenderGl
    <3>1. ticks' \in 0..KeyframeInterval /\ damage' \subseteq Rows \cup {OffScreen}
      BY <1>2, <1>3, <2>4, SendFrameStep DEF RenderGl, RenderTypeOK
    <3>2. QED
      BY <1>2, <2>4, <3>1 DEF RenderGl, TakeSpare, RenderTypeOK
  <2>5. QED
    BY <1>1, <2>1, <2>2, <2>3, <2>4 DEF RenderStep
<1>8. QED
  BY <1>1, <1>2, <1>4, <1>5, <1>6, <1>7, QueueType, TypeFrame, FlagRender DEF TypeOK

\* The type of the encoder thread's own variables.
LEMMA EncoderType ==
  ASSUME TypeOK, EncoderStep
  PROVE  EncoderTypeOK'
<1>2. /\ RenderTypeOK /\ QueueTypeOK /\ EncoderTypeOK /\ OtherTypeOK
      /\ KeyframeInterval \in Nat \ {0} /\ 0 \in 0..KeyframeInterval
  BY ConstantsOK DEF TypeOK
<1>3. NoFrame \in Frames /\ Zeroed(newSize) \in Picture /\ hand.size \in Sizes
      /\ Zeroed(hand.size) \in Picture
  <2>1. hand.size \in Sizes /\ newSize \in Sizes
    BY <1>2 DEF EncoderTypeOK, Frames
  <2>2. QED
    BY <2>1, NoFrameType, ZeroedType
<1>4. queue # << >> => Head(queue) \in Frames
  BY <1>2, RecvType DEF QueueTypeOK
<1>5. ASSUME NEW at, NEW next \in {"resize", "submit"}, DrainControl(at, next)
      PROVE  EncoderTypeOK'
  BY <1>2, <1>5 DEF DrainControl, EncoderTypeOK
<1>6. CASE CheckResize
  BY <1>2, <1>6 DEF CheckResize, EncoderTypeOK, OtherTypeOK
<1>7. CASE DrainStaleFrame
  BY <1>2, <1>7, TypeFrame DEF DrainStaleFrame
<1>8. CASE ApplyResize
  <2>1. /\ yuv' \in Picture /\ encSize' \in Sizes /\ gop' \in 0..KeyframeInterval
        /\ hand' \in Frames /\ epc' \in {"recv", "dead"}
    BY <1>2, <1>3, <1>8 DEF ApplyResize, Reinitialize, Die, EncoderTypeOK
  <2>2. QED
    BY <1>2, <1>8, <2>1 DEF ApplyResize, EncoderTypeOK
<1>9. CASE RecvFrame
  BY <1>2, <1>4, <1>9 DEF RecvFrame, EncoderTypeOK
<1>10. CASE SkipToNewer
  <2>1. CarryDamage(hand, Head(queue)) \in Frames
    BY <1>2, <1>4, <1>10, CarryFields DEF SkipToNewer, EncoderTypeOK
  <2>2. QED
    BY <1>2, <1>10, <2>1 DEF SkipToNewer, EncoderTypeOK
<1>11. CASE FitEncoder
  <2>1. /\ yuv' \in Picture /\ encSize' \in Sizes /\ gop' \in 0..KeyframeInterval
        /\ hand' \in Frames /\ epc' \in {"control", "dead"}
    BY <1>2, <1>3, <1>11 DEF FitEncoder, Reinitialize, Die, EncoderTypeOK
  <2>2. QED
    BY <1>2, <1>11, <2>1 DEF FitEncoder, EncoderTypeOK
<1>12. CASE Submit
  <2>1. Converted \in Picture /\ hand.want \in Picture
    BY <1>2, ConvertedType DEF EncoderTypeOK, Frames
  <2>2. IsKeyframe \in BOOLEAN
    BY Zenon DEF IsKeyframe
  <2>3. shown' \in [pix: Picture, want: Picture, key: BOOLEAN]
    <3>1. \/ shown' = shown
          \/ shown' = [pix |-> Converted, want |-> hand.want, key |-> IsKeyframe]
      BY <1>12, Zenon DEF Submit
    <3>2. QED
      BY <1>2, <2>1, <2>2, <3>1 DEF EncoderTypeOK
  <2>4. gop' \in 0..KeyframeInterval
    <3>1. ~IsKeyframe => gop < KeyframeInterval
      BY <1>2 DEF IsKeyframe, EncoderTypeOK
    <3>2. gop' = gop \/ (IsKeyframe /\ gop' = 1) \/ (~IsKeyframe /\ gop' = gop + 1)
      BY <1>12, Zenon DEF Submit
    <3>3. QED
      BY <1>2, <3>1, <3>2 DEF EncoderTypeOK
  <2>5. yuv' = Converted /\ hand' = NoFrame /\ epc' = "top" /\ UNCHANGED <<encSize, newSize>>
    BY <1>12 DEF Submit
  <2>6. QED
    BY <1>2, <1>3, <2>1, <2>3, <2>4, <2>5 DEF EncoderTypeOK
<1>13. QED
  BY <1>5, <1>6, <1>7, <1>8, <1>9, <1>10, <1>11, <1>12 DEF EncoderStep

LEMMA TypeEncoder == TypeOK /\ EncoderStep => TypeOK'
<1>1. SUFFICES ASSUME TypeOK, EncoderStep PROVE TypeOK'
  OBVIOUS
<1>2. RenderTypeOK /\ QueueTypeOK /\ EncoderTypeOK /\ OtherTypeOK /\ FlagTypeOK
  BY <1>1 DEF TypeOK
<1>3. UNCHANGED renderVars
  BY <1>1 DEF EncoderStep, DrainControl, CheckResize, DrainStaleFrame, ApplyResize,
     RecvFrame, SkipToNewer, FitEncoder, Submit
<1>4. OtherTypeOK'
  <2>1. UNCHANGED <<resizeTo, ask, bounds>>
    BY <1>1 DEF EncoderStep, DrainControl, CheckResize, DrainStaleFrame, ApplyResize,
       RecvFrame, SkipToNewer, FitEncoder, Submit
  <2>2. returned' \in {returned, returned + 1}
    BY <1>1 DEF EncoderStep, DrainControl, CheckResize, DrainStaleFrame, ApplyResize,
       RecvFrame, SkipToNewer, FitEncoder, Submit
  <2>3. owed' = owed \/ owed' = {}
    BY <1>1 DEF EncoderStep, DrainControl, CheckResize, DrainStaleFrame, ApplyResize,
       RecvFrame, SkipToNewer, FitEncoder, Submit
  <2>4. QED
    BY <1>2, <2>1, <2>2, <2>3 DEF OtherTypeOK, bounds
<1>5. FrameQueueStep
  BY <1>1 DEF EncoderStep, DrainControl, CheckResize, DrainStaleFrame, ApplyResize,
     RecvFrame, SkipToNewer, FitEncoder, Submit, Die, FrameQueueStep
<1>6. ControlQueueStep
  BY <1>1 DEF EncoderStep, DrainControl, CheckResize, DrainStaleFrame, ApplyResize,
     RecvFrame, SkipToNewer, FitEncoder, Submit, Die, ControlQueueStep
<1>7. QED
  BY <1>1, <1>2, <1>3, <1>4, <1>5, <1>6, EncoderType, QueueType, TypeFrame, FlagEncoder
  DEF TypeOK

LEMMA TypeEnvironment == TypeOK /\ Environment => TypeOK'
<1>1. SUFFICES ASSUME TypeOK, Environment PROVE TypeOK'
  OBVIOUS
<1>2. RenderTypeOK /\ QueueTypeOK /\ EncoderTypeOK /\ OtherTypeOK /\ FlagTypeOK
  BY <1>1 DEF TypeOK
<1>3. UNCHANGED encoderVars
  BY <1>1 DEF Environment, Commit, MapOrUnmap, Resize, AskForce, AskSend, SendRate
<1>4. FrameQueueStep /\ ControlQueueStep
  BY <1>1 DEF Environment, Commit, MapOrUnmap, Resize, AskForce, AskSend, SendRate,
     FrameQueueStep, ControlQueueStep, Messages
<1>5. RenderTypeOK' /\ OtherTypeOK'
  <2>1. CASE \E marked \in SUBSET (Rows \cup {OffScreen}) :
               \E changed \in SUBSET (marked \ {OffScreen}) : Commit(changed, marked)
    BY <1>2, <2>1 DEF Commit, AddDamage, RenderTypeOK, OtherTypeOK
  <2>2. CASE \E changed \in SUBSET Rows : MapOrUnmap(changed)
    BY <1>2, <2>2 DEF MapOrUnmap, AddDamage, FullDamage, RenderTypeOK, OtherTypeOK
  <2>3. ASSUME NEW s \in Sizes, Resize(s) PROVE RenderTypeOK' /\ OtherTypeOK'
    BY <1>2, <2>3 DEF Resize, AddDamage, FullDamage, RenderTypeOK, OtherTypeOK
  <2>4. ASSUME NEW c \in Clients, AskForce(c) PROVE RenderTypeOK' /\ OtherTypeOK'
    BY <1>2, <2>4, TypeFrame DEF AskForce, OtherTypeOK
  <2>5. ASSUME NEW c \in Clients, AskSend(c) PROVE RenderTypeOK' /\ OtherTypeOK'
    BY <1>2, <2>5, TypeFrame DEF AskSend, OtherTypeOK, bounds
  <2>6. CASE SendRate
    BY <1>2, <2>6, TypeFrame DEF SendRate, OtherTypeOK
  <2>7. QED
    BY <1>1, <2>1, <2>2, <2>3, <2>4, <2>5, <2>6 DEF Environment
<1>6. QED
  BY <1>1, <1>2, <1>3, <1>4, <1>5, QueueType, TypeFrame, FlagEnvironment DEF TypeOK

LEMMA TypeStep == TypeOK /\ [Next]_vars => TypeOK'
<1>1. TypeOK /\ UNCHANGED vars => TypeOK'
  BY DEF vars, renderVars, encoderVars, bounds, TypeOK, RenderTypeOK, QueueTypeOK,
     EncoderTypeOK, OtherTypeOK, FlagTypeOK
<1>2. QED
  BY <1>1, TypeEnvironment, TypeRender, TypeEncoder DEF Next

\* Every variable of the pipeline keeps its type; in particular the frame and
\* the control queue respect their capacities.
THEOREM TypeCorrect == Spec => []TypeOK
BY TypeInit, TypeStep, PTL DEF Spec

-----------------------------------------------------------------------------
(***************************************************************************)
(* The framebuffers alive at once.                                          *)
(***************************************************************************)
InHand == IF HasHand THEN 1 ELSE 0

\* The ranges of the counters involved.
LEMMA CounterRanges ==
  ASSUME TypeOK
  PROVE  /\ spare \in Nat /\ returned \in Nat /\ FrameCap \in Nat
         /\ Len(queue) \in Nat /\ Len(queue) <= FrameCap
         /\ InHand \in {0, 1} /\ Abroad = returned + Len(queue) + InHand
<1>1. queue \in Seq(Frames) /\ Len(queue) <= FrameCap
  BY DEF TypeOK, QueueTypeOK
<1>2. QED
  BY <1>1, LenProperties, ConstantsOK
  DEF TypeOK, RenderTypeOK, OtherTypeOK, InHand, Abroad

\* The encoder thread hands buffers back or loses them; it makes none.
LEMMA AbroadEncoder == ASSUME TypeOK, EncoderStep PROVE Abroad' <= Abroad
<1>1. /\ returned \in Nat /\ Len(queue) \in Nat
      /\ Abroad = returned + Len(queue) + InHand
      /\ Abroad' = returned' + Len(queue') + InHand'
      /\ InHand \in {0, 1}
  BY CounterRanges DEF Abroad, InHand
<1>2. queue # << >> => Len(Tail(queue)) = Len(queue) - 1
  BY RecvType DEF TypeOK, QueueTypeOK
<1>3. CASE \/ DrainControl("top", "resize") \/ DrainControl("control", "submit")
           \/ CheckResize
  BY <1>1, <1>3 DEF DrainControl, CheckResize, InHand, HasHand
<1>4. CASE DrainStaleFrame
  BY <1>1, <1>2, <1>4 DEF DrainStaleFrame, encoderVars, InHand, HasHand
<1>5. CASE ApplyResize
  BY <1>1, <1>5, EmptyQueues DEF ApplyResize, Die, InHand, HasHand
<1>6. CASE RecvFrame
  BY <1>1, <1>2, <1>6 DEF RecvFrame, InHand, HasHand
<1>7. CASE SkipToNewer
  BY <1>1, <1>2, <1>7 DEF SkipToNewer, InHand, HasHand
<1>8. CASE FitEncoder
  BY <1>1, <1>8, EmptyQueues DEF FitEncoder, Die, InHand, HasHand
<1>9. CASE Submit
  BY <1>1, <1>9 DEF Submit, InHand, HasHand
<1>10. QED
  BY <1>3, <1>4, <1>5, <1>6, <1>7, <1>8, <1>9 DEF EncoderStep

LEMMA BufferStep == TypeOK /\ BuffersBounded /\ [Next]_vars => BuffersBounded'
<1>1. SUFFICES ASSUME TypeOK, BuffersBounded, [Next]_vars PROVE BuffersBounded'
  OBVIOUS
<1>2. /\ spare \in Nat /\ returned \in Nat /\ FrameCap \in Nat
      /\ Len(queue) \in Nat /\ Len(queue) <= FrameCap /\ InHand \in {0, 1}
      /\ Abroad = returned + Len(queue) + InHand
      /\ Abroad' = returned' + Len(queue') + InHand'
  BY <1>1, CounterRanges DEF Abroad, InHand
<1>3. TypeOK'
  BY <1>1, TypeStep
<1>4. Abroad \in Nat /\ Abroad' \in Nat
  <2>1. /\ returned' \in Nat /\ Len(queue') \in Nat /\ InHand' \in {0, 1}
    BY <1>3, LenProperties DEF TypeOK, OtherTypeOK, QueueTypeOK, InHand
  <2>2. QED
    BY <1>2, <2>1
<1>5. CASE UNCHANGED <<spare, rpc>> /\ Abroad' <= Abroad
  BY <1>1, <1>2, <1>4, <1>5 DEF BuffersBounded
<1>6. CASE CaptureTick
  <2>1. InHand' = InHand /\ returned' = 0 /\ spare' = spare + returned /\ UNCHANGED queue
    BY <1>6 DEF CaptureTick, encoderVars, InHand, HasHand
  <2>2. QED
    BY <1>1, <1>2, <1>4, <2>1 DEF BuffersBounded
<1>7. CASE RequestIdleKeyframe
  <2>1. /\ InHand' = InHand /\ UNCHANGED <<queue, returned, spare>>
        /\ rpc # "loop"
    BY <1>7 DEF RequestIdleKeyframe, encoderVars, InHand, HasHand
  <2>2. QED
    BY <1>1, <1>2, <1>4, <2>1 DEF BuffersBounded
<1>8. CASE RenderSw \/ RenderGl
  <2>1. /\ rpc = "render" /\ rpc' = "loop" /\ UNCHANGED returned /\ InHand' = InHand
        /\ spare' = IF spare > 0 THEN spare - 1 ELSE 0
    BY <1>8 DEF RenderSw, RenderGl, TakeSpare, encoderVars, InHand, HasHand
  <2>2. Len(queue') <= Len(queue) + 1
    <3>1. UNCHANGED queue \/ \E f : f \in Frames /\ queue' = Append(queue, f)
      BY <1>1, <1>8, FrameType DEF RenderSw, RenderGl, SendFrame, TypeOK
    <3>2. \A f \in Frames : Len(Append(queue, f)) = Len(queue) + 1
      BY <1>1, AppendProperties DEF TypeOK, QueueTypeOK
    <3>3. QED
      BY <1>2, <3>1, <3>2
  <2>3. Abroad' <= Abroad + 1
    <3>1. Len(queue') \in Nat
      BY <1>3, LenProperties DEF TypeOK, QueueTypeOK
    <3>2. QED
      BY <1>2, <2>1, <2>2, <3>1
  <2>4. QED
    BY <1>1, <1>2, <1>4, <2>1, <2>3 DEF BuffersBounded
<1>9. CASE EncoderStep
  <2>1. UNCHANGED renderVars
    BY <1>9 DEF EncoderStep, DrainControl, CheckResize, DrainStaleFrame, ApplyResize,
       RecvFrame, SkipToNewer, FitEncoder, Submit
  <2>2. QED
    BY <1>1, <1>5, <1>9, <2>1, AbroadEncoder DEF renderVars
<1>10. CASE Environment \/ UNCHANGED vars
  <2>1. UNCHANGED <<spare, rpc, returned, queue, epc>>
    BY <1>10 DEF Environment, Commit, MapOrUnmap, Resize, AskForce, AskSend, SendRate,
       vars, renderVars, encoderVars
  <2>2. Abroad' = Abroad
    BY <2>1 DEF Abroad, HasHand
  <2>3. QED
    BY <1>4, <1>5, <2>1, <2>2
<1>11. QED
  BY <1>1, <1>6, <1>7, <1>8, <1>9, <1>10 DEF Next, RenderStep

\* At most FrameCap + 2 framebuffers exist at once: the render loop takes
\* returned buffers before it allocates, and the frame queue is bounded.
THEOREM BuffersAreBounded == Spec => []BuffersBounded
<1>1. Init => BuffersBounded
  BY EmptyQueues, ConstantsOK
  DEF Init, InitRender, InitShared, InitEncoder, BuffersBounded, Abroad, HasHand
<1>2. QED
  BY <1>1, TypeInit, TypeStep, BufferStep, PTL DEF Spec

=============================================================================
