---------------------------- MODULE PictureProofs ----------------------------
(***************************************************************************)
(* The pictures the encoder delivers are exact, whatever the numbers of     *)
(* rows, resolutions and queue slots: the proof that DamageChain is         *)
(* inductive.  From it, that the pipeline implements WholeFrames, and from    *)
(* that, that no row of the stream gets older.                               *)
(***************************************************************************)
EXTENDS FramePipelineProofs

\* The inductive invariant.
PictureInv == TypeOK /\ DamageChain /\ EncodedExact /\ FitsEncoder

-----------------------------------------------------------------------------
(***************************************************************************)
(* Pictures that differ on few rows.                                        *)
(***************************************************************************)
LEMMA CoversAll == \A a, b : Covers(a, b, Rows) /\ Covers(a, a, {})
BY DEF Covers

LEMMA CoversMore ==
  ASSUME NEW a, NEW b, NEW S, NEW T, Covers(a, b, S), S \subseteq T
  PROVE  Covers(a, b, T)
BY DEF Covers

LEMMA CoversChain ==
  ASSUME NEW a, NEW b, NEW c, NEW S, NEW T, Covers(a, b, S), Covers(b, c, T)
  PROVE  Covers(a, c, S \cup T)
BY DEF Covers

\* The carried damage makes up for the skipped frame.
LEMMA CarryCovers ==
  ASSUME NEW a, NEW f \in Frames, NEW g \in Frames,
         Covers(a, f.pix, DamagedRows(f)), Covers(f.pix, g.pix, DamagedRows(g))
  PROVE  Covers(a, CarryDamage(f, g).pix, DamagedRows(CarryDamage(f, g)))
<1> DEFINE h == CarryDamage(f, g)
<1>1. h.pix = g.pix
      /\ h.damage = IF f.damage = {} \/ g.damage = {} THEN {} ELSE f.damage \cup g.damage
  BY CarryFields
<1>2. CASE f.damage = {} \/ g.damage = {}
  BY <1>1, <1>2, CoversAll DEF DamagedRows
<1>3. CASE f.damage # {} /\ g.damage # {}
  <2>1. Covers(a, g.pix, f.damage \cup g.damage)
    BY <1>3, CoversChain DEF DamagedRows
  <2>2. h.damage = f.damage \cup g.damage /\ h.damage # {}
    BY <1>1, <1>3
  <2>3. QED
    BY <1>1, <2>1, <2>2 DEF DamagedRows
<1>4. QED
  BY <1>2, <1>3

-----------------------------------------------------------------------------
(***************************************************************************)
(* Chains of queued frames.                                                 *)
(***************************************************************************)
LEMMA EmptyChain == Linked(<< >>) /\ Exact(<< >>)
BY EmptyQueues DEF Linked, Exact

\* Taking the oldest frame.
LEMMA TailChain ==
  ASSUME NEW q \in Seq(Frames), q # << >>, Linked(q), Exact(q)
  PROVE  /\ Linked(Tail(q)) /\ Exact(Tail(q))
         /\ q[1] \in Frames /\ q[1].pix = q[1].want /\ Head(q) = q[1]
         /\ Tail(q) # << >> =>
              /\ Covers(q[1].pix, Tail(q)[1].pix, DamagedRows(Tail(q)[1]))
              /\ Tail(q)[Len(Tail(q))] = q[Len(q)]
         /\ Tail(q) = << >> => q[Len(q)] = q[1]
<1> DEFINE t == Tail(q)
<1>1. /\ t \in Seq(Frames) /\ Len(q) \in Nat /\ Len(q) >= 1 /\ Len(t) = Len(q) - 1
      /\ \A i \in 1..(Len(q) - 1) : t[i] = q[i + 1]
      /\ Head(q) \in Frames /\ Head(q) = q[1]
  BY RecvType
<1>2. t = << >> <=> Len(t) = 0
  BY <1>1, EmptySeq
<1> HIDE DEF t
<1>3. Linked(t)
  BY <1>1 DEF Linked
<1>4. Exact(t)
  BY <1>1 DEF Exact
<1>5. q[1].pix = q[1].want
  BY <1>1 DEF Exact
<1>6. ASSUME t # << >>
      PROVE  Covers(q[1].pix, t[1].pix, DamagedRows(t[1])) /\ t[Len(t)] = q[Len(q)]
  <2>1. t[1] = q[2] /\ 1 \in 1..(Len(q) - 1) /\ Len(t) \in 1..(Len(q) - 1)
    BY <1>1, <1>2, <1>6
  <2>2. t[Len(t)] = q[Len(t) + 1]
    BY <1>1, <2>1
  <2>3. QED
    BY <1>1, <2>1, <2>2 DEF Linked
<1>7. t = << >> => Len(q) = 1
  BY <1>1, <1>2
<1>8. QED
  BY <1>1, <1>3, <1>4, <1>5, <1>6, <1>7 DEF t

\* Queueing a frame that lists all it changes over the youngest one.
LEMMA AppendChain ==
  ASSUME NEW q \in Seq(Frames), NEW f \in Frames, Linked(q), Exact(q), f.pix = f.want,
         q # << >> => Covers(q[Len(q)].pix, f.pix, DamagedRows(f))
  PROVE  /\ Linked(Append(q, f)) /\ Exact(Append(q, f)) /\ Append(q, f) # << >>
         /\ Append(q, f)[Len(Append(q, f))] = f
         /\ Append(q, f)[1] = IF q = << >> THEN f ELSE q[1]
<1> DEFINE a == Append(q, f)
<1>1. /\ Len(q) \in Nat /\ Len(a) = Len(q) + 1 /\ a # << >>
      /\ \A i \in 1..Len(q) : a[i] = q[i]
      /\ a[Len(q) + 1] = f
  BY AppendProperties, LenProperties
<1>2. q = << >> <=> Len(q) = 0
  OBVIOUS
<1> HIDE DEF a
<1>3. ASSUME NEW i \in 1..(Len(a) - 1)
      PROVE  Covers(a[i].pix, a[i + 1].pix, DamagedRows(a[i + 1]))
  <2>1. CASE i = Len(q)
    BY <1>1, <1>2, <2>1
  <2>2. CASE i # Len(q)
    <3>1. i \in 1..(Len(q) - 1) /\ a[i] = q[i] /\ a[i + 1] = q[i + 1]
      BY <1>1, <2>2
    <3>2. QED
      BY <3>1 DEF Linked
  <2>3. QED
    BY <2>1, <2>2
<1>4. Linked(a)
  BY <1>3 DEF Linked
<1>5. Exact(a)
  <2>1. SUFFICES ASSUME NEW i \in 1..Len(a) PROVE a[i].pix = a[i].want
    BY DEF Exact
  <2>2. i = Len(q) + 1 \/ (i \in 1..Len(q) /\ a[i] = q[i])
    BY <1>1
  <2>3. QED
    BY <1>1, <2>2 DEF Exact
<1>6. a[1] = IF q = << >> THEN f ELSE q[1]
  BY <1>1, <1>2
<1>7. QED
  BY <1>1, <1>4, <1>5, <1>6 DEF a

-----------------------------------------------------------------------------
(***************************************************************************)
(* The initial state.                                                       *)
(***************************************************************************)
LEMMA PictureInit == Init => PictureInv
<1>1. SUFFICES ASSUME Init PROVE PictureInv
  OBVIOUS
<1>2. TypeOK
  BY <1>1, TypeInit
<1>3. queue = << >> /\ epc = "top" /\ rpc = "loop" /\ needsFull = TRUE /\ repaint = {}
      /\ damage = Rows /\ shown.pix = shown.want
  BY <1>1 DEF Init, InitShared, InitEncoder, InitRender, FullDamage
<1>4. ~HasHand /\ ~Trusted
  BY <1>3 DEF HasHand, Trusted
<1>5. ChainFromYuv /\ ChainInFlight /\ ChainToCanvas /\ FramesExact
  BY <1>3, <1>4, EmptyChain DEF ChainFromYuv, ChainInFlight, ChainToCanvas, FramesExact,
     FollowsNewest
<1>6. CanvasCurrent
  BY <1>3 DEF CanvasCurrent, Covers, ToRepaint
<1>7. PhaseOK /\ EncodedExact /\ FitsEncoder
  BY <1>3 DEF PhaseOK, EncodedExact, FitsEncoder
<1>8. QED
  BY <1>2, <1>5, <1>6, <1>7 DEF PictureInv, DamageChain

-----------------------------------------------------------------------------
(***************************************************************************)
(* The render loop.                                                         *)
(***************************************************************************)

\* Steps that touch neither the frames nor the encoder, and mark every row on
\* which the screen changes.
LEMMA MarkStep ==
  ASSUME PictureInv, UNCHANGED <<queue, encoderVars>>,
         \A r \in Rows : Screen[r] # Screen'[r] => r \in ToRepaint',
         UNCHANGED canvas, ToRepaint \subseteq ToRepaint', PhaseOK'
  PROVE  DamageChain' /\ EncodedExact' /\ FitsEncoder'
<1>1. DamageChain /\ EncodedExact /\ FitsEncoder
  BY DEF PictureInv
<1>2. UNCHANGED <<epc, hand, encSize, newSize, yuv, needsFull, gop, force, shown>>
  BY DEF encoderVars
<1>3. EncodedExact' /\ FitsEncoder' /\ HasHand' = HasHand /\ Trusted' = Trusted
  BY <1>1, <1>2 DEF EncodedExact, FitsEncoder, HasHand, Trusted
<1>4. ChainFromYuv'
  BY <1>1, <1>2, <1>3 DEF DamageChain, ChainFromYuv
<1>5. ChainInFlight' /\ FramesExact'
  BY <1>1, <1>2, <1>3 DEF DamageChain, ChainInFlight, FramesExact
<1>6. ChainToCanvas'
  <2>1. SUFFICES ASSUME Backend = "sw" PROVE FollowsNewest(canvas, ToRepaint)'
    BY DEF ChainToCanvas
  <2>2. FollowsNewest(canvas, ToRepaint)
    BY <1>1, <2>1 DEF DamageChain, ChainToCanvas
  <2>3. QED
    BY <1>2, <1>3, <2>2 DEF FollowsNewest, Covers
<1>7. CanvasCurrent'
  BY <1>1 DEF DamageChain, CanvasCurrent, Covers
<1>8. QED
  BY <1>1, <1>3, <1>4, <1>5, <1>6, <1>7 DEF DamageChain

\* Sending a frame that follows the newest one.
LEMMA SendStep ==
  ASSUME PictureInv, NEW f \in Frames, f.pix = f.want, FollowsNewest(f.pix, DamagedRows(f)),
         epc # "dead", queue' = Append(queue, f), UNCHANGED encoderVars
  PROVE  /\ ChainFromYuv' /\ ChainInFlight' /\ FramesExact' /\ EncodedExact' /\ FitsEncoder'
         /\ queue' # << >> /\ queue'[Len(queue')] = f
<1>1. DamageChain /\ EncodedExact /\ FitsEncoder /\ queue \in Seq(Frames)
  BY DEF PictureInv, TypeOK, QueueTypeOK
<1>2. UNCHANGED <<epc, hand, encSize, newSize, yuv, needsFull, gop, force, shown>>
  BY DEF encoderVars
<1>3. EncodedExact' /\ FitsEncoder' /\ HasHand' = HasHand /\ Trusted' = Trusted
  BY <1>1, <1>2 DEF EncodedExact, FitsEncoder, HasHand, Trusted
<1>4. Linked(queue) /\ Exact(queue)
  BY <1>1 DEF DamageChain, ChainInFlight, FramesExact
<1>5. queue # << >> => Covers(queue[Len(queue)].pix, f.pix, DamagedRows(f))
  BY DEF FollowsNewest
<1>6. /\ Linked(queue') /\ Exact(queue') /\ queue' # << >> /\ queue'[Len(queue')] = f
      /\ queue'[1] = IF queue = << >> THEN f ELSE queue[1]
  BY <1>1, <1>4, <1>5, AppendChain
<1>7. ChainFromYuv'
  <2>1. CASE queue = << >>
    BY <1>2, <1>3, <1>1, <1>6, <2>1 DEF ChainFromYuv, FollowsNewest, DamageChain
  <2>2. CASE queue # << >>
    BY <1>2, <1>3, <1>1, <1>6, <2>2 DEF ChainFromYuv, DamageChain
  <2>3. QED
    BY <2>1, <2>2
<1>8. ChainInFlight'
  <2>1. CASE queue = << >>
    BY <1>2, <1>3, <1>6, <2>1 DEF ChainInFlight, FollowsNewest
  <2>2. CASE queue # << >>
    BY <1>1, <1>2, <1>3, <1>6, <2>2 DEF ChainInFlight, DamageChain
  <2>3. QED
    BY <2>1, <2>2
<1>9. FramesExact'
  BY <1>1, <1>2, <1>3, <1>6 DEF FramesExact, DamageChain
<1>10. QED
  BY <1>3, <1>6, <1>7, <1>8, <1>9

\* A frame the queue rejects: its damage is marked again.
LEMMA RejectStep ==
  ASSUME PictureInv, UNCHANGED <<queue, encoderVars>>
  PROVE  /\ ChainFromYuv' /\ ChainInFlight' /\ FramesExact' /\ EncodedExact' /\ FitsEncoder'
         /\ HasHand' = HasHand /\ Trusted' = Trusted
<1>1. DamageChain /\ EncodedExact /\ FitsEncoder
  BY DEF PictureInv
<1>2. UNCHANGED <<epc, hand, encSize, newSize, yuv, needsFull, gop, force, shown>>
  BY DEF encoderVars
<1>3. EncodedExact' /\ FitsEncoder' /\ HasHand' = HasHand /\ Trusted' = Trusted
  BY <1>1, <1>2 DEF EncodedExact, FitsEncoder, HasHand, Trusted
<1>4. ChainFromYuv'
  BY <1>1, <1>2, <1>3 DEF DamageChain, ChainFromYuv
<1>5. ChainInFlight' /\ FramesExact'
  BY <1>1, <1>2, <1>3 DEF DamageChain, ChainInFlight, FramesExact
<1>6. QED
  BY <1>3, <1>4, <1>5

\* What the software compositor draws: the current screen, differing from the
\* newest frame only on the rows the new one lists.
LEMMA SwFrameFits ==
  ASSUME PictureInv, Backend = "sw", rpc = "render"
  PROVE  /\ SwFrame.pix = SwFrame.want
         /\ FollowsNewest(SwFrame.pix, DamagedRows(SwFrame))
         /\ Recomposited = Screen
<1>1. DamageChain /\ RenderTypeOK /\ TypeOK
  BY DEF PictureInv, TypeOK
<1>2. damage = {}
  BY <1>1 DEF DamageChain, PhaseOK
<1>3. \A r \in Rows : r \notin Clips => r \notin ToRepaint
  BY <1>2, ConstantsOK DEF Clips, ToRepaint
<1>4. \A r \in Rows : Recomposited[r] = Screen[r]
  BY <1>1, <1>3 DEF Recomposited, DamageChain, CanvasCurrent, Covers
<1>5. Recomposited = Screen
  <2>1. Recomposited = [r \in Rows |-> Recomposited[r]]
    BY DEF Recomposited
  <2>2. Screen = [r \in Rows |-> Screen[r]]
    BY DEF Screen
  <2>3. QED
    BY <1>4, <2>1, <2>2
<1>6. /\ SwFrame.pix = Recomposited /\ SwFrame.want = Screen /\ SwFrame.damage = Clips
  BY DEF SwFrame
<1>7. FollowsNewest(canvas, ToRepaint)
  BY <1>1 DEF DamageChain, ChainToCanvas
<1>8. ASSUME NEW p, Covers(p, canvas, ToRepaint)
      PROVE  Covers(p, Recomposited, DamagedRows(SwFrame))
  <2>1. CASE Clips = {}
    BY <1>6, <2>1, CoversAll DEF DamagedRows
  <2>2. CASE Clips # {}
    <3>1. DamagedRows(SwFrame) = Clips
      BY <1>6, <2>2 DEF DamagedRows
    <3>2. \A r \in Rows : r \notin Clips => Recomposited[r] = canvas[r]
      BY DEF Recomposited
    <3>3. QED
      BY <1>3, <1>8, <3>1, <3>2 DEF Covers
  <2>3. QED
    BY <2>1, <2>2
<1>9. FollowsNewest(Recomposited, DamagedRows(SwFrame))
  BY <1>7, <1>8 DEF FollowsNewest
<1>10. QED
  BY <1>5, <1>6, <1>9

\* The redrawn canvas, after the frame was sent or rejected.
LEMMA PictureRenderSw == PictureInv /\ RenderSw => (DamageChain /\ EncodedExact /\ FitsEncoder)'
<1>1. SUFFICES ASSUME PictureInv, RenderSw PROVE (DamageChain /\ EncodedExact /\ FitsEncoder)'
  OBVIOUS
<1>2. DamageChain /\ RenderTypeOK /\ TypeOK /\ queue \in Seq(Frames)
  BY <1>1 DEF PictureInv, TypeOK, QueueTypeOK
<1>3. /\ Backend = "sw" /\ rpc = "render" /\ canvas' = Recomposited /\ repaint' = {}
      /\ rpc' = "loop" /\ SendFrame(SwFrame) /\ UNCHANGED <<size, content, encoderVars>>
  BY <1>1 DEF RenderSw
<1>4. UNCHANGED <<epc, hand, yuv, needsFull>>
  BY <1>3 DEF encoderVars
<1>5. damage = {}
  BY <1>2, <1>3 DEF DamageChain, PhaseOK
<1>6. /\ SwFrame.pix = SwFrame.want /\ FollowsNewest(SwFrame.pix, DamagedRows(SwFrame))
      /\ Recomposited = Screen /\ SwFrame \in Frames
  BY <1>1, <1>2, <1>3, SwFrameFits, FrameType
<1>7. Screen' = Screen
  BY <1>3 DEF Screen
<1>8. CanvasCurrent'
  BY <1>3, <1>6, <1>7 DEF CanvasCurrent, Covers
<1>9. CASE epc # "dead" /\ Len(queue) < FrameCap /\ queue' = Append(queue, SwFrame)
           /\ UNCHANGED damage
  <2>1. /\ ChainFromYuv' /\ ChainInFlight' /\ FramesExact' /\ EncodedExact' /\ FitsEncoder'
        /\ queue' # << >> /\ queue'[Len(queue')] = SwFrame
    BY <1>1, <1>3, <1>6, <1>9, SendStep
  <2>2. SwFrame.pix = canvas'
    BY <1>3 DEF SwFrame
  <2>3. ChainToCanvas'
    BY <2>1, <2>2 DEF ChainToCanvas, FollowsNewest, Covers
  <2>4. PhaseOK'
    BY <1>3, <1>4, <1>9 DEF PhaseOK
  <2>5. QED
    BY <1>8, <2>1, <2>3, <2>4 DEF DamageChain
<1>10. CASE (epc = "dead" \/ (Len(queue) >= FrameCap /\ damage' = SwFrame.damage))
            /\ UNCHANGED queue
  <2>1. /\ ChainFromYuv' /\ ChainInFlight' /\ FramesExact' /\ EncodedExact' /\ FitsEncoder'
        /\ HasHand' = HasHand /\ Trusted' = Trusted
    BY <1>1, <1>3, <1>10, RejectStep
  <2>2. PhaseOK'
    BY <1>2, <1>3, <1>4, <1>10 DEF PhaseOK, DamageChain
  <2>3. ChainToCanvas'
    <3>1. CASE epc = "dead"
      <4>1. queue' = << >> /\ ~HasHand' /\ ~Trusted'
        BY <1>2, <1>4, <1>10, <3>1 DEF DamageChain, PhaseOK, HasHand, Trusted
      <4>2. QED
        BY <4>1 DEF ChainToCanvas, FollowsNewest
    <3>2. CASE epc # "dead"
      <4>1. Len(queue) >= FrameCap /\ damage' = Clips /\ queue # << >>
        BY <1>10, <3>2, EmptyQueues, ConstantsOK DEF SwFrame
      <4>2. Covers(queue[Len(queue)].pix, canvas, repaint)
        BY <1>2, <1>3, <1>5, <4>1 DEF DamageChain, ChainToCanvas, FollowsNewest, ToRepaint
      <4>3. \A r \in Rows : r \notin Clips => Recomposited[r] = canvas[r] /\ r \notin repaint
        BY ConstantsOK DEF Recomposited, Clips
      <4>4. Covers(queue[Len(queue)].pix, Recomposited, Clips)
        BY <4>2, <4>3 DEF Covers
      <4>5. QED
        BY <1>3, <1>10, <4>1, <4>4 DEF ChainToCanvas, FollowsNewest, ToRepaint, Covers
    <3>3. QED
      BY <3>1, <3>2
  <2>4. QED
    BY <1>8, <2>1, <2>2, <2>3 DEF DamageChain
<1>11. QED
  BY <1>3, <1>5, <1>9, <1>10 DEF SendFrame, AddDamage

\* The OpenGL compositor lists no damage: its frame follows any other.
LEMMA PictureRenderGl == PictureInv /\ RenderGl => (DamageChain /\ EncodedExact /\ FitsEncoder)'
<1>1. SUFFICES ASSUME PictureInv, RenderGl PROVE (DamageChain /\ EncodedExact /\ FitsEncoder)'
  OBVIOUS
<1>2. DamageChain /\ RenderTypeOK /\ TypeOK
  BY <1>1 DEF PictureInv, TypeOK
<1>3. /\ Backend = "gl" /\ rpc = "render" /\ rpc' = "loop" /\ UNCHANGED encoderVars
      /\ SendFrame(GlFrame) \/ UNCHANGED <<queue, damage>>
  BY <1>1 DEF RenderGl
<1>4. ChainToCanvas' /\ CanvasCurrent'
  BY <1>3 DEF ChainToCanvas, CanvasCurrent
<1>5. /\ GlFrame \in Frames /\ GlFrame.pix = GlFrame.want
      /\ FollowsNewest(GlFrame.pix, DamagedRows(GlFrame))
  <2>1. GlFrame.pix = GlFrame.want /\ DamagedRows(GlFrame) = Rows
    BY DEF GlFrame, DamagedRows
  <2>2. QED
    BY <1>2, <2>1, FrameType, CoversAll DEF FollowsNewest
<1>6. CASE epc # "dead" /\ queue' = Append(queue, GlFrame)
  <2>1. ChainFromYuv' /\ ChainInFlight' /\ FramesExact' /\ EncodedExact' /\ FitsEncoder'
    BY <1>1, <1>3, <1>5, <1>6, SendStep
  <2>2. PhaseOK'
    BY <1>3, <1>6 DEF PhaseOK, encoderVars
  <2>3. QED
    BY <1>4, <2>1, <2>2 DEF DamageChain
<1>7. CASE UNCHANGED queue
  <2>1. ChainFromYuv' /\ ChainInFlight' /\ FramesExact' /\ EncodedExact' /\ FitsEncoder'
    BY <1>1, <1>3, <1>7, RejectStep
  <2>2. PhaseOK'
    BY <1>2, <1>3, <1>7 DEF PhaseOK, encoderVars, DamageChain
  <2>3. QED
    BY <1>4, <2>1, <2>2 DEF DamageChain
<1>8. QED
  BY <1>3, <1>6, <1>7 DEF SendFrame

LEMMA PictureRender == PictureInv /\ RenderStep => (DamageChain /\ EncodedExact /\ FitsEncoder)'
<1>1. SUFFICES ASSUME PictureInv, RenderStep PROVE (DamageChain /\ EncodedExact /\ FitsEncoder)'
  OBVIOUS
<1>2. DamageChain
  BY <1>1 DEF PictureInv
<1>3. CASE Backend = "sw" /\ (CaptureTick \/ RequestIdleKeyframe)
  <2>1. /\ UNCHANGED <<size, content, queue, encoderVars, canvas>>
        /\ ToRepaint' = ToRepaint
    BY <1>2, <1>3 DEF CaptureTick, RequestIdleKeyframe, DamageChain, PhaseOK, ToRepaint
  <2>2. PhaseOK'
    BY <1>2, <1>3, <2>1 DEF CaptureTick, RequestIdleKeyframe, DamageChain, PhaseOK,
       encoderVars
  <2>3. Screen' = Screen
    BY <2>1 DEF Screen
  <2>4. QED
    BY <1>1, <2>1, <2>2, <2>3, MarkStep
<1>4. CASE Backend # "sw" /\ (CaptureTick \/ RequestIdleKeyframe)
  <2>1. UNCHANGED <<queue, encoderVars>>
    BY <1>4 DEF CaptureTick, RequestIdleKeyframe
  <2>2. PhaseOK'
    BY <1>2, <1>4, <2>1 DEF CaptureTick, RequestIdleKeyframe, DamageChain, PhaseOK,
       encoderVars
  <2>3. ChainToCanvas' /\ CanvasCurrent'
    BY <1>4 DEF ChainToCanvas, CanvasCurrent
  <2>4. QED
    BY <1>1, <2>1, <2>2, <2>3, RejectStep DEF DamageChain
<1>5. QED
  BY <1>1, <1>3, <1>4, PictureRenderSw, PictureRenderGl DEF RenderStep

\* What clients and the other senders do.
LEMMA PictureEnvironment ==
  PictureInv /\ Environment => (DamageChain /\ EncodedExact /\ FitsEncoder)'
<1>1. SUFFICES ASSUME PictureInv, Environment PROVE (DamageChain /\ EncodedExact /\ FitsEncoder)'
  OBVIOUS
<1>2. DamageChain /\ RenderTypeOK
  BY <1>1 DEF PictureInv, TypeOK
<1>3. ASSUME NEW marked \in SUBSET (Rows \cup {OffScreen}),
             NEW changed \in SUBSET (marked \ {OffScreen}), Commit(changed, marked)
      PROVE  (DamageChain /\ EncodedExact /\ FitsEncoder)'
  <2>1. /\ UNCHANGED <<size, queue, encoderVars, canvas, repaint, rpc>>
        /\ damage' = damage \cup marked /\ rpc = "loop"
        /\ content' = [r \in Rows |-> IF r \in changed THEN commits + 1 ELSE content[r]]
    BY <1>3 DEF Commit, AddDamage
  <2>2. \A r \in Rows : Screen[r] # Screen'[r] => r \in ToRepaint'
    BY <2>1 DEF Screen, ToRepaint
  <2>3. PhaseOK'
    BY <1>2, <2>1 DEF DamageChain, PhaseOK, encoderVars
  <2>4. QED
    BY <1>1, <2>1, <2>2, <2>3, MarkStep DEF ToRepaint
<1>4. ASSUME \/ \E changed \in SUBSET Rows : MapOrUnmap(changed)
             \/ \E s \in Sizes : Resize(s)
      PROVE  (DamageChain /\ EncodedExact /\ FitsEncoder)'
  <2>1. /\ UNCHANGED <<queue, encoderVars, canvas, repaint, rpc>>
        /\ damage' = damage \cup Rows /\ rpc = "loop"
    BY <1>4 DEF MapOrUnmap, Resize, AddDamage, FullDamage
  <2>2. PhaseOK'
    BY <1>2, <2>1 DEF DamageChain, PhaseOK, encoderVars
  <2>3. QED
    BY <1>1, <2>1, <2>2, MarkStep DEF ToRepaint
<1>5. ASSUME \/ \E c \in Clients : AskForce(c) \/ AskSend(c)
             \/ SendRate
      PROVE  (DamageChain /\ EncodedExact /\ FitsEncoder)'
  <2>1. UNCHANGED <<renderVars, queue, encoderVars>>
    BY <1>5 DEF AskForce, AskSend, SendRate
  <2>2. UNCHANGED <<size, content, damage, repaint, canvas, rpc>>
    BY <2>1 DEF renderVars
  <2>3. PhaseOK'
    BY <1>2, <2>1, <2>2 DEF DamageChain, PhaseOK, encoderVars
  <2>4. Screen' = Screen /\ ToRepaint' = ToRepaint
    BY <2>2 DEF Screen, ToRepaint
  <2>5. QED
    BY <1>1, <2>1, <2>2, <2>3, <2>4, MarkStep
<1>6. QED
  BY <1>1, <1>3, <1>4, <1>5 DEF Environment

-----------------------------------------------------------------------------
(***************************************************************************)
(* The encoder thread.                                                      *)
(***************************************************************************)

\* The canvas and the screen do not move while the encoder works.
LEMMA EncoderFrame ==
  ASSUME PictureInv, EncoderStep
  PROVE  /\ UNCHANGED <<renderVars, canvas, ToRepaint, Screen>>
         /\ CanvasCurrent'
         /\ queue' = << >> \/ epc' # "dead" => PhaseOK'
<1>1. DamageChain
  BY DEF PictureInv
<1>2. UNCHANGED renderVars
  BY DEF EncoderStep, DrainControl, CheckResize, DrainStaleFrame, ApplyResize,
     RecvFrame, SkipToNewer, FitEncoder, Submit
<1>3. UNCHANGED <<size, content, damage, repaint, canvas, rpc>>
  BY <1>2 DEF renderVars
<1>4. UNCHANGED <<ToRepaint, Screen>>
  BY <1>3 DEF ToRepaint, Screen
<1>5. QED
  BY <1>1, <1>2, <1>3, <1>4 DEF DamageChain, CanvasCurrent, PhaseOK

\* The conversion leaves the encoder with exactly the frame's pixels, or with
\* a YUV frame it does not trust.
LEMMA ConvertedExact ==
  ASSUME PictureInv, epc = "submit"
  PROVE  /\ hand.pix = hand.want /\ hand.pix \in Picture
         /\ Converted = hand.pix
<1>1. DamageChain /\ EncoderTypeOK
  BY DEF PictureInv, TypeOK
<1>2. HasHand /\ (~needsFull => Trusted)
  BY DEF HasHand, Trusted
<1>3. hand.pix = hand.want /\ hand.pix \in Picture
  BY <1>1, <1>2 DEF DamageChain, FramesExact, EncoderTypeOK, Frames
<1>4. ~needsFull => Covers(yuv, hand.pix, DamagedRows(hand))
  BY <1>1, <1>2 DEF DamageChain, ChainFromYuv
<1>5. ASSUME NEW r \in Rows PROVE Converted[r] = hand.pix[r]
  BY <1>4 DEF Converted, Covers
<1>6. Converted = [r \in Rows |-> Converted[r]]
  BY DEF Converted
<1>7. hand.pix = [r \in Rows |-> hand.pix[r]]
  BY <1>3 DEF Picture
<1>8. QED
  BY <1>3, <1>5, <1>6, <1>7

\* A thread that rebuilt its encoder, or died, trusts nothing.
LEMMA DieStep ==
  ASSUME PictureInv, EncoderStep, Die, UNCHANGED shown
  PROVE  (DamageChain /\ EncodedExact /\ FitsEncoder)'
<1>1. queue' = << >> /\ epc' = "dead"
  BY DEF Die
<1>2. ~HasHand' /\ ~Trusted' /\ FitsEncoder'
  BY <1>1 DEF HasHand, Trusted, FitsEncoder
<1>3. ChainFromYuv' /\ ChainInFlight' /\ ChainToCanvas' /\ FramesExact'
  BY <1>1, <1>2, EmptyChain
  DEF ChainFromYuv, ChainInFlight, ChainToCanvas, FollowsNewest, FramesExact
<1>4. EncodedExact'
  BY DEF PictureInv, EncodedExact
<1>5. QED
  BY <1>1, <1>2, <1>3, <1>4, EncoderFrame DEF DamageChain

LEMMA PictureEncoder ==
  PictureInv /\ EncoderStep => (DamageChain /\ EncodedExact /\ FitsEncoder)'
<1>1. SUFFICES ASSUME PictureInv, EncoderStep
               PROVE  (DamageChain /\ EncodedExact /\ FitsEncoder)'
  OBVIOUS
<1>2. /\ ChainFromYuv /\ ChainInFlight /\ ChainToCanvas /\ CanvasCurrent /\ FramesExact
      /\ PhaseOK /\ EncodedExact /\ FitsEncoder
  BY <1>1 DEF PictureInv, DamageChain
<1>3. queue \in Seq(Frames) /\ hand \in Frames /\ hand.size \in Sizes
  BY <1>1 DEF PictureInv, TypeOK, QueueTypeOK, EncoderTypeOK, Frames
<1>4. Linked(queue) /\ Exact(queue)
  BY <1>2 DEF ChainInFlight, FramesExact
<1>5. /\ UNCHANGED <<canvas, ToRepaint>> /\ CanvasCurrent'
      /\ queue' = << >> \/ epc' # "dead" => PhaseOK'
  BY <1>1, EncoderFrame
<1>6. queue # << >> =>
        /\ Linked(Tail(queue)) /\ Exact(Tail(queue))
        /\ queue[1] \in Frames /\ queue[1].pix = queue[1].want /\ Head(queue) = queue[1]
        /\ Tail(queue) # << >> =>
             /\ Covers(queue[1].pix, Tail(queue)[1].pix, DamagedRows(Tail(queue)[1]))
             /\ Tail(queue)[Len(Tail(queue))] = queue[Len(queue)]
        /\ Tail(queue) = << >> => queue[Len(queue)] = queue[1]
  BY <1>3, <1>4, TailChain
<1>7. \* Moves between two points where nothing is received or converted.
      ASSUME UNCHANGED <<queue, hand, yuv, shown>>, HasHand' = HasHand,
             Trusted' => Trusted, FitsEncoder', epc' # "dead"
      PROVE  (DamageChain /\ EncodedExact /\ FitsEncoder)'
  <2>1. ChainFromYuv' /\ ChainInFlight' /\ FramesExact' /\ EncodedExact'
    BY <1>2, <1>7 DEF ChainFromYuv, ChainInFlight, FramesExact, EncodedExact
  <2>2. ChainToCanvas'
    BY <1>2, <1>5, <1>7 DEF ChainToCanvas, FollowsNewest
  <2>3. QED
    BY <1>5, <1>7, <2>1, <2>2 DEF DamageChain
<1>8. CASE DrainControl("top", "resize")
  BY <1>7, <1>8 DEF DrainControl, HasHand, Trusted, FitsEncoder
<1>9. CASE DrainControl("control", "submit")
  BY <1>2, <1>7, <1>9 DEF DrainControl, HasHand, Trusted, FitsEncoder
<1>10. CASE CheckResize
  BY <1>7, <1>10 DEF CheckResize, HasHand, Trusted, FitsEncoder
<1>11. CASE DrainStaleFrame
  <2>1. /\ epc = "drain" /\ epc' = "drain" /\ queue # << >> /\ queue' = Tail(queue)
        /\ shown' = shown
    BY <1>11 DEF DrainStaleFrame, encoderVars
  <2>2. ~HasHand /\ ~HasHand' /\ ~Trusted' /\ FitsEncoder'
    BY <2>1 DEF HasHand, Trusted, FitsEncoder
  <2>3. ChainFromYuv' /\ ChainInFlight' /\ FramesExact' /\ EncodedExact'
    BY <1>2, <1>6, <2>1, <2>2 DEF ChainFromYuv, ChainInFlight, FramesExact, EncodedExact
  <2>4. ChainToCanvas'
    BY <1>2, <1>5, <1>6, <2>1, <2>2 DEF ChainToCanvas, FollowsNewest
  <2>5. QED
    BY <1>5, <2>1, <2>2, <2>3, <2>4 DEF DamageChain
<1>12. CASE ApplyResize
  <2>1. CASE Reinitialize(newSize) /\ epc' = "recv" /\ UNCHANGED <<queue, hand, shown>>
    <3>1. epc = "drain" /\ queue = << >>
      BY <1>12 DEF ApplyResize
    <3>2. ~HasHand' /\ ~Trusted' /\ FitsEncoder'
      BY <2>1 DEF HasHand, Trusted, FitsEncoder, Reinitialize
    <3>3. ChainFromYuv' /\ ChainInFlight' /\ ChainToCanvas' /\ FramesExact' /\ EncodedExact'
      BY <1>2, <2>1, <3>1, <3>2, EmptyChain
      DEF ChainFromYuv, ChainInFlight, ChainToCanvas, FollowsNewest, FramesExact, EncodedExact
    <3>4. QED
      BY <1>5, <2>1, <3>2, <3>3 DEF DamageChain
  <2>2. CASE Die /\ UNCHANGED shown
    BY <1>1, <2>2, DieStep
  <2>3. QED
    BY <1>12, <2>1, <2>2 DEF ApplyResize
<1>13. CASE RecvFrame
  <2>1. /\ epc = "recv" /\ epc' = "skip" /\ queue # << >> /\ queue' = Tail(queue)
        /\ hand' = queue[1] /\ UNCHANGED <<yuv, needsFull, shown>>
    BY <1>6, <1>13 DEF RecvFrame
  <2>2. ~HasHand /\ HasHand' /\ Trusted' = Trusted /\ FitsEncoder'
    BY <2>1 DEF HasHand, Trusted, FitsEncoder
  <2>3. ChainFromYuv' /\ ChainInFlight' /\ FramesExact' /\ EncodedExact'
    BY <1>2, <1>6, <2>1, <2>2 DEF ChainFromYuv, ChainInFlight, FramesExact, EncodedExact
  <2>4. ChainToCanvas'
    BY <1>2, <1>5, <1>6, <2>1, <2>2 DEF ChainToCanvas, FollowsNewest
  <2>5. QED
    BY <1>5, <2>1, <2>2, <2>3, <2>4 DEF DamageChain
<1>14. CASE SkipToNewer
  <2>1. /\ epc = "skip" /\ epc' = "skip" /\ queue # << >> /\ queue' = Tail(queue)
        /\ hand' = CarryDamage(hand, queue[1]) /\ UNCHANGED <<yuv, needsFull, shown>>
    BY <1>6, <1>14 DEF SkipToNewer
  <2>2. HasHand /\ HasHand' /\ Trusted' = Trusted /\ FitsEncoder'
    BY <2>1 DEF HasHand, Trusted, FitsEncoder
  <2>3. hand'.pix = queue[1].pix /\ hand'.want = queue[1].want
    BY <1>3, <1>6, <2>1, CarryFields
  <2>4. Trusted => Covers(yuv, hand'.pix, DamagedRows(hand'))
    <3>1. Covers(hand.pix, queue[1].pix, DamagedRows(queue[1]))
      BY <1>2, <2>1, <2>2 DEF ChainInFlight
    <3>2. Trusted => Covers(yuv, hand.pix, DamagedRows(hand))
      BY <1>2, <2>2 DEF ChainFromYuv
    <3>3. QED
      BY <1>3, <1>6, <2>1, <3>1, <3>2, CarryCovers
  <2>5. ChainFromYuv' /\ ChainInFlight' /\ FramesExact' /\ EncodedExact'
    BY <1>2, <1>6, <2>1, <2>2, <2>3, <2>4
    DEF ChainFromYuv, ChainInFlight, FramesExact, EncodedExact
  <2>6. ChainToCanvas'
    BY <1>2, <1>5, <1>6, <2>1, <2>2, <2>3 DEF ChainToCanvas, FollowsNewest
  <2>7. QED
    BY <1>5, <2>1, <2>2, <2>5, <2>6 DEF DamageChain
<1>15. CASE FitEncoder
  <2>1. epc = "skip" /\ queue = << >> /\ HasHand /\ UNCHANGED shown
    BY <1>15 DEF FitEncoder, HasHand
  <2>2. CASE Die
    BY <1>1, <2>1, <2>2, DieStep
  <2>3. CASE hand.size = encSize /\ epc' = "control"
             /\ UNCHANGED <<queue, hand, encSize, yuv, needsFull>>
    BY <1>7, <2>1, <2>3 DEF HasHand, Trusted, FitsEncoder
  <2>4. CASE Reinitialize(hand.size) /\ epc' = "control" /\ UNCHANGED <<queue, hand>>
    <3>1. HasHand' /\ ~Trusted' /\ FitsEncoder'
      BY <2>4 DEF HasHand, Trusted, FitsEncoder, Reinitialize
    <3>2. ChainFromYuv' /\ ChainInFlight' /\ FramesExact' /\ EncodedExact'
      BY <1>2, <2>1, <2>4, <3>1 DEF ChainFromYuv, ChainInFlight, FramesExact, EncodedExact
    <3>3. ChainToCanvas'
      BY <1>2, <1>5, <2>1, <2>4, <3>1 DEF ChainToCanvas, FollowsNewest
    <3>4. QED
      BY <1>5, <2>4, <3>1, <3>2, <3>3 DEF DamageChain
  <2>5. QED
    BY <1>15, <2>2, <2>3, <2>4 DEF FitEncoder
<1>16. CASE Submit
  <2>1. /\ epc = "submit" /\ epc' = "top" /\ yuv' = Converted /\ UNCHANGED queue
        /\ \/ shown'.pix = Converted /\ shown'.want = hand.want
           \/ UNCHANGED <<shown, needsFull>>
    BY <1>16 DEF Submit
  <2>2. hand.pix = hand.want /\ Converted = hand.pix
    BY <1>1, <2>1, ConvertedExact
  <2>3. HasHand /\ ~HasHand' /\ FitsEncoder'
    BY <2>1 DEF HasHand, FitsEncoder
  <2>4. EncodedExact'
    BY <1>2, <2>1, <2>2 DEF EncodedExact
  <2>5. ChainFromYuv' /\ ChainInFlight' /\ FramesExact'
    BY <1>2, <2>1, <2>2, <2>3 DEF ChainFromYuv, ChainInFlight, FramesExact
  <2>6. ChainToCanvas'
    BY <1>2, <1>5, <2>1, <2>2, <2>3 DEF ChainToCanvas, FollowsNewest
  <2>7. QED
    BY <1>5, <2>1, <2>3, <2>4, <2>5, <2>6 DEF DamageChain
<1>17. QED
  BY <1>1, <1>8, <1>9, <1>10, <1>11, <1>12, <1>13, <1>14, <1>15, <1>16 DEF EncoderStep

-----------------------------------------------------------------------------
LEMMA PictureStep == PictureInv /\ [Next]_vars => PictureInv'
<1>1. SUFFICES ASSUME PictureInv, [Next]_vars PROVE PictureInv'
  OBVIOUS
<1>2. TypeOK'
  BY <1>1, TypeStep DEF PictureInv
<1>3. CASE UNCHANGED vars
  <2>1. UNCHANGED <<queue, encoderVars, renderVars>>
    BY <1>3 DEF vars
  <2>2. UNCHANGED <<size, content, damage, repaint, canvas, rpc, epc>>
    BY <2>1 DEF renderVars, encoderVars
  <2>3. PhaseOK' /\ Screen' = Screen /\ ToRepaint' = ToRepaint
    BY <1>1, <2>1, <2>2 DEF PictureInv, DamageChain, PhaseOK, Screen, ToRepaint
  <2>4. QED
    BY <1>1, <1>2, <2>1, <2>2, <2>3, MarkStep DEF PictureInv
<1>4. QED
  BY <1>1, <1>2, <1>3, PictureRender, PictureEncoder, PictureEnvironment
  DEF Next, PictureInv

THEOREM PicturesInvariant == Spec => []PictureInv
BY PictureInit, PictureStep, PTL DEF Spec

\* Every picture that leaves the encoder is, row for row, what a full repaint
\* would have produced when its frame was captured: damage-only compositing
\* (state.render) and damage-only conversion (encode_frame) lose nothing over
\* full queues, skipped frames, resizes and failed encodes.
THEOREM PicturesExact == Spec => []EncodedExact
<1>1. PictureInv => EncodedExact
  BY DEF PictureInv
<1>2. QED
  BY <1>1, PicturesInvariant, PTL

\* The damage lists link the encoder's YUV frame, the frames in flight, the
\* canvas and the screen.
THEOREM DamageUnbroken == Spec => []DamageChain
<1>1. PictureInv => DamageChain
  BY DEF PictureInv
<1>2. QED
  BY <1>1, PicturesInvariant, PTL

\* encoder_thread's safety net: no frame meets an encoder built for another
\* resolution, whatever the order of frames and resize notifications.
THEOREM FramesFit == Spec => []FitsEncoder
<1>1. PictureInv => FitsEncoder
  BY DEF PictureInv
<1>2. QED
  BY <1>1, PicturesInvariant, PTL

-----------------------------------------------------------------------------
(***************************************************************************)
(* Keyframe requests.  A failed encode has cleared force_keyframe already,     *)
(* and a failed rebuild ends the thread; nothing else loses one.               *)
(***************************************************************************)
NothingFails == ~EncodeMayFail /\ ~ReinitMayFail

FailedEncode == EncodeMayFail /\ Submit /\ UNCHANGED <<shown, gop, owed>>
ThreadEnds == ReinitMayFail /\ epc' = "dead"

\* The encoder thread is alive and every request that got through is pending.
RequestInv == epc # "dead" /\ KeyframeNotForgotten

KeyQueued == \E i \in 1..Len(control) : control[i] = "key"

\* Queuing a message keeps a queued ForceKeyframe, or is one.
LEMMA QueuedKey ==
  ASSUME QueueTypeOK, NEW m \in Messages, control' = Append(control, m)
  PROVE  (KeyQueued \/ m = "key") => KeyQueued'
<1>1. control \in Seq(Messages) /\ Len(control) \in Nat
  BY DEF QueueTypeOK
<1>2. /\ Len(control') = Len(control) + 1 /\ control'[Len(control) + 1] = m
      /\ \A i \in 1..Len(control) : control'[i] = control[i]
  BY <1>1
<1>3. QED
  BY <1>1, <1>2 DEF KeyQueued

\* Draining the control queue turns a queued ForceKeyframe into force.
LEMMA RequestDrain ==
  ASSUME RequestInv, NEW at, NEW next \in {"resize", "submit"}, DrainControl(at, next)
  PROVE  RequestInv'
<1>1. /\ force' = (force \/ KeyQueued) /\ epc' = next
      /\ UNCHANGED <<ask, owed>>
  BY DEF DrainControl, KeyQueued
<1>2. QED
  BY <1>1 DEF RequestInv, KeyframeNotForgotten, KeyQueued

LEMMA RequestStep ==
  ASSUME TypeOK, RequestInv, [Next]_vars
  PROVE  RequestInv' \/ FailedEncode \/ ThreadEnds
<1>1. CASE UNCHANGED <<control, force, ask, owed>> /\ epc' # "dead"
  BY <1>1 DEF RequestInv, KeyframeNotForgotten
<1>2. CASE /\ UNCHANGED <<force, ask, owed, epc>>
           /\ \E m \in Messages : control' = Append(control, m)
  <2>1. KeyQueued => KeyQueued'
    BY <1>2, QueuedKey DEF TypeOK
  <2>2. QED
    BY <1>2, <2>1 DEF RequestInv, KeyframeNotForgotten, KeyQueued
<1>3. CASE RenderStep
  <2>1. UNCHANGED encoderVars /\ UNCHANGED <<ask, owed>>
    BY <1>3 DEF RenderStep, CaptureTick, RequestIdleKeyframe, RenderSw, RenderGl
  <2>2. UNCHANGED control \/ control' = Append(control, "key")
    BY <1>3 DEF RenderStep, CaptureTick, RequestIdleKeyframe, RenderSw, RenderGl
  <2>3. QED
    BY <1>1, <1>2, <2>1, <2>2 DEF encoderVars, RequestInv, Messages
<1>4. CASE EncoderStep
  <2>1. CASE DrainControl("top", "resize") \/ DrainControl("control", "submit")
    BY <2>1, RequestDrain
  <2>2. CASE CheckResize \/ DrainStaleFrame \/ ApplyResize \/ RecvFrame \/ SkipToNewer \/ FitEncoder
    <3>1. (UNCHANGED <<control, force, ask, owed>> /\ epc' # "dead") \/ ThreadEnds
      BY <2>2 DEF CheckResize, DrainStaleFrame, ApplyResize, RecvFrame, SkipToNewer,
         FitEncoder, Die, ThreadEnds, encoderVars, RequestInv
    <3>2. QED
      BY <1>1, <3>1
  <2>3. CASE Submit
    <3>1. \/ /\ epc' = "top" /\ force' = FALSE /\ UNCHANGED <<control, ask>>
             /\ owed' = IF IsKeyframe THEN {} ELSE owed
          \/ FailedEncode
      BY <2>3 DEF Submit, FailedEncode
    <3>2. force => IsKeyframe
      BY DEF IsKeyframe
    <3>3. QED
      BY <3>1, <3>2 DEF RequestInv, KeyframeNotForgotten
  <2>4. QED
    BY <1>4, <2>1, <2>2, <2>3 DEF EncoderStep
<1>5. CASE Environment
  <2>1. CASE \/ \E marked \in SUBSET (Rows \cup {OffScreen}) :
                  \E changed \in SUBSET (marked \ {OffScreen}) : Commit(changed, marked)
             \/ \E changed \in SUBSET Rows : MapOrUnmap(changed)
             \/ \E s \in Sizes : Resize(s)
    <3>1. UNCHANGED <<control, force, ask, owed, epc>>
      BY <2>1 DEF Commit, MapOrUnmap, Resize, encoderVars
    <3>2. QED
      BY <1>1, <3>1 DEF RequestInv
  <2>2. ASSUME NEW c \in Clients, AskForce(c) PROVE RequestInv'
    <3>1. /\ ask' = [ask EXCEPT ![c] = "send"] /\ owed' = owed \cup {c}
          /\ UNCHANGED <<control, force, epc>>
      BY <2>2 DEF AskForce, encoderVars
    <3>2. ask \in [Clients -> {"idle", "send"}] /\ owed \subseteq Clients
      BY DEF TypeOK, OtherTypeOK
    <3>3. QED
      BY <3>1, <3>2 DEF RequestInv, KeyframeNotForgotten
  <2>3. ASSUME NEW c \in Clients, AskSend(c) PROVE RequestInv'
    <3>1. control' = Append(control, "key") /\ UNCHANGED <<force, owed, epc>>
      BY <2>3 DEF AskSend, encoderVars, RequestInv
    <3>2. KeyQueued'
      BY <3>1, QueuedKey DEF TypeOK, Messages
    <3>3. QED
      BY <3>1, <3>2 DEF RequestInv, KeyframeNotForgotten, KeyQueued
  <2>4. CASE SendRate
    <3>1. UNCHANGED <<force, ask, owed, epc>> /\ control' = Append(control, "rate")
      BY <2>4 DEF SendRate, encoderVars
    <3>2. QED
      BY <1>2, <3>1 DEF Messages
  <2>5. QED
    BY <1>5, <2>1, <2>2, <2>3, <2>4 DEF Environment
<1>6. CASE UNCHANGED vars
  BY <1>1, <1>6 DEF vars, encoderVars, RequestInv
<1>7. QED
  BY <1>3, <1>4, <1>5, <1>6 DEF Next

\* A handler's keyframe request stays pending until a keyframe leaves the
\* encoder (drain_control_messages, encode_frame), if nothing fails.
THEOREM RequestsArePending ==
  ASSUME NothingFails PROVE Spec => []KeyframeNotForgotten
<1>1. Init => RequestInv
  BY DEF Init, InitEncoder, RequestInv, KeyframeNotForgotten
<1>2. TypeOK /\ RequestInv /\ [Next]_vars => TypeOK' /\ RequestInv'
  BY NothingFails, TypeStep, RequestStep DEF NothingFails, FailedEncode, ThreadEnds
<1>3. RequestInv => KeyframeNotForgotten
  BY DEF RequestInv
<1>4. QED
  BY <1>1, <1>2, <1>3, TypeInit, PTL DEF Spec

\* Whatever else may happen: of a living encoder thread, nothing but an encode
\* that fails (encode_frame's error path) or the end of the thread loses a
\* request that is pending.
OnlyFailuresForget ==
  [][epc # "dead" /\ KeyframeNotForgotten =>
       KeyframeNotForgotten' \/ FailedEncode \/ ThreadEnds]_vars

THEOREM RequestsLostByFailureOnly == Spec => OnlyFailuresForget
<1>1. TypeOK /\ [Next]_vars =>
        [epc # "dead" /\ KeyframeNotForgotten =>
           KeyframeNotForgotten' \/ FailedEncode \/ ThreadEnds]_vars
  BY RequestStep DEF RequestInv
<1>2. QED
  BY <1>1, TypeCorrect, PTL DEF Spec, OnlyFailuresForget

-----------------------------------------------------------------------------
(***************************************************************************)
(* Forgotten changes: a software-composited screen that keeps its size, and *)
(* an encoder whose encodes succeed.                                        *)
(***************************************************************************)
SteadyScreen == Backend = "sw" /\ MaxResizes = 0 /\ ~EncodeMayFail

\* Only one size is in use anywhere.
OneSize ==
  /\ size = InitSize /\ encSize = InitSize
  /\ ~resizeNew /\ epc \notin {"drain", "dead"}
  /\ HasHand => hand.size = InitSize
  /\ \A i \in 1..Len(queue) : queue[i].size = InitSize

\* What was shown last is the YUV frame, and the first picture is on its way.
ShownIsYuv ==
  /\ ~needsFull => shown.pix = yuv
  /\ needsFull => queue # << >> \/ HasHand \/ damage # {} \/ rpc # "loop"

\* The next picture is under way unless nothing is marked.
SteadyInv == OneSize /\ ShownIsYuv

LEMMA SteadyQueue ==
  ASSUME QueueTypeOK, OneSize, NEW f \in Frames, f.size = InitSize,
         \/ UNCHANGED queue
         \/ queue # << >> /\ queue' = Tail(queue)
         \/ queue' = Append(queue, f)
  PROVE  \A i \in 1..Len(queue') : queue'[i].size = InitSize
<1>1. queue \in Seq(Frames) /\ Len(queue) \in Nat
  BY DEF QueueTypeOK
<1>2. CASE queue # << >> /\ queue' = Tail(queue)
  <2>1. /\ Len(queue') = Len(queue) - 1
        /\ \A i \in 1..(Len(queue) - 1) : queue'[i] = queue[i + 1]
    BY <1>1, <1>2, RecvType
  <2>2. QED
    BY <1>1, <2>1 DEF OneSize
<1>3. CASE queue' = Append(queue, f)
  BY <1>1, <1>3 DEF OneSize
<1>4. QED
  BY <1>2, <1>3 DEF OneSize

LEMMA SteadyRender ==
  ASSUME SteadyScreen, TypeOK, SteadyInv, RenderStep
  PROVE  SteadyInv'
<1>1. /\ UNCHANGED encoderVars /\ UNCHANGED <<size, resizeNew>>
  BY DEF RenderStep, CaptureTick, RequestIdleKeyframe, RenderSw, RenderGl
<1>2. HasHand' = HasHand
  BY <1>1 DEF HasHand, encoderVars
<1>3. SwFrame \in Frames /\ SwFrame.size = size
  BY FrameType DEF TypeOK, SwFrame
<1>4. CASE CaptureTick
  <2>1. UNCHANGED queue /\ repaint' = damage /\ damage' = {}
        /\ rpc = "loop" /\ (damage # {} => rpc' # "loop")
    BY <1>4 DEF CaptureTick
  <2>2. QED
    BY <1>1, <1>2, <2>1 DEF SteadyInv, OneSize, ShownIsYuv, encoderVars
<1>5. CASE RequestIdleKeyframe
  <2>1. UNCHANGED queue /\ rpc' = "render"
    BY <1>5 DEF RequestIdleKeyframe
  <2>2. QED
    BY <1>1, <1>2, <2>1 DEF SteadyInv, OneSize, ShownIsYuv, encoderVars
<1>6. CASE RenderSw
  <2>1. UNCHANGED queue \/ queue' = Append(queue, SwFrame)
    BY <1>6 DEF RenderSw, SendFrame
  <2>2. \A i \in 1..Len(queue') : queue'[i].size = InitSize
    BY <1>3, <2>1, SteadyQueue DEF TypeOK, SteadyInv, OneSize
  <2>3. queue' # << >>
    <3>1. Len(queue) \in Nat /\ FrameCap >= 1 /\ queue \in Seq(Frames) /\ epc # "dead"
      BY ConstantsOK DEF TypeOK, QueueTypeOK, SteadyInv, OneSize
    <3>2. \/ Len(queue) >= FrameCap /\ UNCHANGED queue
          \/ queue' = Append(queue, SwFrame)
      BY <1>6, <3>1 DEF RenderSw, SendFrame
    <3>3. Append(queue, SwFrame) # << >>
      BY <1>3, <3>1, AppendProperties
    <3>4. Len(<< >>) = 0 /\ FrameCap \in Nat
      BY ConstantsOK, EmptyQueues
    <3>5. QED
      BY <3>1, <3>2, <3>3, <3>4
  <2>4. QED
    BY <1>1, <1>2, <2>2, <2>3 DEF SteadyInv, OneSize, ShownIsYuv, encoderVars
<1>7. QED
  BY <1>4, <1>5, <1>6 DEF RenderStep, RenderGl, SteadyScreen

LEMMA SteadyEncoder ==
  ASSUME SteadyScreen, TypeOK, SteadyInv, EncoderStep
  PROVE  SteadyInv'
<1>1. UNCHANGED renderVars
  BY DEF EncoderStep, DrainControl, CheckResize, DrainStaleFrame, ApplyResize,
     RecvFrame, SkipToNewer, FitEncoder, Submit
<1>2. damage' = damage /\ size' = size /\ rpc' = rpc
  BY <1>1 DEF renderVars
<1>3. queue \in Seq(Frames) /\ hand \in Frames
  BY DEF TypeOK, QueueTypeOK, EncoderTypeOK
<1>4. ASSUME NEW at, NEW next, DrainControl(at, next),
             <<at, next>> \in {<<"top", "resize">>, <<"control", "submit">>}
      PROVE  SteadyInv'
  <2>1. /\ UNCHANGED <<queue, hand, encSize, resizeNew, needsFull, shown, yuv>>
        /\ epc = at /\ epc' = next
    BY <1>4 DEF DrainControl
  <2>2. HasHand' = HasHand
    BY <1>4, <2>1 DEF HasHand
  <2>3. QED
    BY <1>2, <1>4, <2>1, <2>2 DEF SteadyInv, OneSize, ShownIsYuv
<1>5. CASE CheckResize
  <2>1. /\ UNCHANGED <<queue, hand, encSize, needsFull, shown, yuv>>
        /\ epc = "resize" /\ epc' = "recv" /\ resizeNew' = FALSE
    BY <1>5 DEF CheckResize, SteadyInv, OneSize
  <2>2. HasHand' = HasHand
    BY <2>1 DEF HasHand
  <2>3. QED
    BY <1>2, <2>1, <2>2 DEF SteadyInv, OneSize, ShownIsYuv
<1>6. CASE DrainStaleFrame \/ ApplyResize
  BY <1>6 DEF DrainStaleFrame, ApplyResize, SteadyInv, OneSize
<1>7. CASE RecvFrame
  <2>1. /\ queue # << >> /\ hand' = Head(queue) /\ queue' = Tail(queue)
        /\ epc' = "skip" /\ UNCHANGED <<encSize, resizeNew, needsFull, shown, yuv>>
    BY <1>7 DEF RecvFrame
  <2>2. hand'.size = InitSize
    BY <1>3, <2>1, RecvType DEF SteadyInv, OneSize
  <2>3. \A i \in 1..Len(queue') : queue'[i].size = InitSize
    BY <1>3, <2>1, <2>2, SteadyQueue, RecvType DEF TypeOK, SteadyInv
  <2>4. QED
    BY <1>2, <2>1, <2>2, <2>3 DEF SteadyInv, OneSize, ShownIsYuv, HasHand
<1>8. CASE SkipToNewer
  <2>1. /\ queue # << >> /\ queue' = Tail(queue) /\ epc = "skip"
        /\ hand' = CarryDamage(hand, Head(queue))
        /\ UNCHANGED <<epc, encSize, resizeNew, needsFull, shown, yuv>>
    BY <1>8 DEF SkipToNewer
  <2>2. Head(queue) \in Frames /\ Head(queue).size = InitSize
    BY <1>3, <2>1, RecvType DEF SteadyInv, OneSize
  <2>3. hand'.size = InitSize
    BY <2>1, <2>2 DEF CarryDamage, Frames
  <2>4. \A i \in 1..Len(queue') : queue'[i].size = InitSize
    BY <2>1, <2>2, SteadyQueue DEF TypeOK, SteadyInv
  <2>5. QED
    BY <1>2, <2>1, <2>3, <2>4 DEF SteadyInv, OneSize, ShownIsYuv, HasHand
<1>9. CASE FitEncoder
  <2>1. /\ UNCHANGED <<queue, hand, encSize, resizeNew, needsFull, shown, yuv>>
        /\ epc = "skip" /\ epc' = "control"
    BY <1>9 DEF FitEncoder, SteadyInv, OneSize, HasHand
  <2>2. HasHand' = HasHand
    BY <2>1 DEF HasHand
  <2>3. QED
    BY <1>2, <2>1, <2>2 DEF SteadyInv, OneSize, ShownIsYuv
<1>10. CASE Submit
  <2>1. /\ UNCHANGED <<queue, encSize, resizeNew>> /\ needsFull' = FALSE
        /\ epc' = "top" /\ yuv' = Converted /\ shown'.pix = Converted
    BY <1>10 DEF Submit, SteadyScreen
  <2>2. QED
    BY <1>2, <2>1 DEF SteadyInv, OneSize, ShownIsYuv, HasHand
<1>11. QED
  BY <1>4, <1>5, <1>6, <1>7, <1>8, <1>9, <1>10 DEF EncoderStep

LEMMA SteadyEnvironment ==
  ASSUME SteadyScreen, TypeOK, SteadyInv, Environment
  PROVE  SteadyInv'
<1>1. ASSUME NEW s \in Sizes, Resize(s) PROVE FALSE
  BY <1>1 DEF Resize, TypeOK, OtherTypeOK, SteadyScreen
<1>2. /\ UNCHANGED encoderVars /\ UNCHANGED <<size, queue, resizeNew, repaint, rpc>>
      /\ damage \subseteq damage'
  BY <1>1 DEF Environment, Commit, MapOrUnmap, AskForce, AskSend, SendRate, AddDamage,
     renderVars
<1>3. UNCHANGED <<epc, hand, encSize, needsFull, shown, yuv>> /\ HasHand' = HasHand
  BY <1>2 DEF encoderVars, HasHand
<1>4. QED
  BY <1>2, <1>3 DEF SteadyInv, OneSize, ShownIsYuv

LEMMA SteadyStep ==
  ASSUME SteadyScreen, TypeOK, SteadyInv, [Next]_vars
  PROVE  SteadyInv'
<1>1. CASE UNCHANGED vars
  <2>1. /\ UNCHANGED <<size, damage, repaint, rpc, queue, resizeNew>>
        /\ UNCHANGED <<epc, hand, encSize, needsFull, shown, yuv>>
    BY <1>1 DEF vars, renderVars, encoderVars
  <2>2. HasHand' = HasHand
    BY <2>1 DEF HasHand
  <2>3. QED
    BY <2>1, <2>2 DEF SteadyInv, OneSize, ShownIsYuv
<1>2. QED
  BY <1>1, SteadyRender, SteadyEncoder, SteadyEnvironment DEF Next

LEMMA SteadyInit == Init => SteadyInv
<1>1. SUFFICES ASSUME Init PROVE SteadyInv
  OBVIOUS
<1>2. /\ size = InitSize /\ encSize = InitSize /\ ~resizeNew /\ epc = "top"
      /\ queue = << >> /\ needsFull = TRUE /\ damage = Rows
  BY <1>1, Zenon DEF Init, InitRender, InitShared, InitEncoder, FullDamage
<1>3. damage # {}
  BY <1>2, ConstantsOK
<1>4. QED
  BY <1>2, <1>3, EmptyQueues DEF SteadyInv, OneSize, ShownIsYuv, HasHand

\* A picture that differs from another on no row is that picture.
LEMMA CoversNone ==
  ASSUME NEW a \in Picture, NEW b \in Picture, Covers(a, b, {}) PROVE a = b
BY DEF Covers, Picture

\* With nothing marked, the youngest picture is the screen.
LEMMA SteadyShows ==
  ASSUME SteadyScreen, PictureInv, SteadyInv PROVE NoForgottenChange
<1>1. SUFFICES ASSUME damage = {}, rpc = "loop" PROVE Youngest = Screen
  BY DEF NoForgottenChange
<1>2. ToRepaint = {}
  BY <1>1 DEF PictureInv, DamageChain, PhaseOK, ToRepaint, SteadyScreen
<1>3. /\ canvas \in Picture /\ Screen \in Picture /\ yuv \in Picture
      /\ hand.pix \in Picture /\ queue \in Seq(Frames)
  BY ScreenType
  DEF PictureInv, TypeOK, RenderTypeOK, EncoderTypeOK, QueueTypeOK, Frames
<1>4. canvas = Screen
  BY <1>2, <1>3, CoversNone DEF PictureInv, DamageChain, CanvasCurrent, SteadyScreen
<1>5. FollowsNewest(canvas, {})
  BY <1>2 DEF PictureInv, DamageChain, ChainToCanvas, SteadyScreen
<1>6. CASE queue # << >>
  <2>1. queue[Len(queue)].pix \in Picture
    <3>1. Len(queue) \in 1..Len(queue)
      BY <1>3, <1>6
    <3>2. queue[Len(queue)] \in Frames
      BY <1>3, <3>1
    <3>3. QED
      BY <3>2 DEF Frames
  <2>2. QED
    BY <1>3, <1>4, <1>5, <1>6, <2>1, CoversNone DEF FollowsNewest, Youngest
<1>7. CASE queue = << >> /\ HasHand
  BY <1>3, <1>4, <1>5, <1>7, CoversNone DEF FollowsNewest, Youngest
<1>8. CASE queue = << >> /\ ~HasHand
  <2>1. Trusted /\ shown.pix = yuv
    BY <1>1, <1>2, <1>8 DEF SteadyInv, OneSize, ShownIsYuv, Trusted
  <2>2. QED
    BY <1>3, <1>4, <1>5, <1>8, <2>1, CoversNone DEF FollowsNewest, Youngest
<1>9. QED
  BY <1>6, <1>7, <1>8

\* While the screen differs from the youngest picture the render loop has work:
\* no change is lost, not even in a frame that the full queue rejects
\* (readd_damage) or the encoder skips.  A resize can discard a frame of the
\* new size and a failed encode loses one, so the theorem is about a screen
\* that keeps its size and encodes that succeed.
THEOREM ChangesAreMarked ==
  ASSUME SteadyScreen PROVE Spec => []NoForgottenChange
<1>1. PictureInv /\ SteadyInv /\ [Next]_vars => PictureInv' /\ SteadyInv'
  BY SteadyScreen, PictureStep, SteadyStep DEF PictureInv
<1>2. PictureInv /\ SteadyInv => NoForgottenChange
  BY SteadyScreen, SteadyShows
<1>3. QED
  BY <1>1, <1>2, PictureInit, SteadyInit, PTL DEF Spec

-----------------------------------------------------------------------------
(***************************************************************************)
(* The refinement: with damage tracked, the pipeline is still one of whole    *)
(* frames.  A render queues the screen as it is, since the rows it leaves out  *)
(* are current on the canvas; an encode delivers the frame in hand, since the   *)
(* rows it leaves out are current in the YUV frame.                          *)
(***************************************************************************)

LEMMA PixelsType ==
  ASSUME NEW q \in Seq(Frames)
  PROVE  /\ Pixels(q) \in Seq(Picture) /\ Len(Pixels(q)) = Len(q)
         /\ \A i \in 1..Len(q) : Pixels(q)[i] = q[i].pix
         /\ Pixels(q) = << >> <=> q = << >>
<1>1. Len(q) \in Nat /\ \A i \in 1..Len(q) : q[i] \in Frames
  BY LenProperties
<1>2. \A i \in 1..Len(q) : q[i].pix \in Picture
  BY <1>1 DEF Frames
<1>3. Pixels(q) \in [1..Len(q) -> Picture]
  BY <1>2 DEF Pixels
<1>4. Pixels(q) \in Seq(Picture) /\ Len(Pixels(q)) = Len(q)
  BY <1>1, <1>3, SeqDef, LenProperties
<1>5. \A i \in 1..Len(q) : Pixels(q)[i] = q[i].pix
  BY DEF Pixels
<1> QED
  BY <1>1, <1>4, <1>5, EmptySeq

LEMMA PixelsAppend ==
  ASSUME NEW q \in Seq(Frames), NEW f \in Frames
  PROVE  Pixels(Append(q, f)) = Append(Pixels(q), f.pix)
<1> DEFINE a == Append(q, f)  b == Append(Pixels(q), f.pix)
<1>1. a \in Seq(Frames) /\ f.pix \in Picture /\ Pixels(q) \in Seq(Picture)
      /\ Len(Pixels(q)) = Len(q)
  BY PixelsType, AppendProperties DEF Frames
<1>2. /\ Len(a) = Len(q) + 1 /\ a[Len(q) + 1] = f
      /\ \A i \in 1..Len(q) : a[i] = q[i]
  BY AppendProperties
<1>3. /\ b \in Seq(Picture) /\ Len(b) = Len(q) + 1 /\ b[Len(q) + 1] = f.pix
      /\ \A i \in 1..Len(q) : b[i] = Pixels(q)[i]
  BY <1>1, AppendProperties
<1> HIDE DEF a, b
<1>4. /\ Pixels(a) \in Seq(Picture) /\ Len(Pixels(a)) = Len(q) + 1
      /\ \A i \in 1..(Len(q) + 1) : Pixels(a)[i] = a[i].pix
  BY <1>1, <1>2, PixelsType
<1>5. ASSUME NEW i \in 1..(Len(q) + 1) PROVE Pixels(a)[i] = b[i]
  <2>1. i \in 1..Len(q) \/ i = Len(q) + 1
    BY <1>1
  <2> QED
    BY <1>2, <1>3, <1>4, <2>1, PixelsType
<1>6. Pixels(a) = b
  BY <1>3, <1>4, <1>5, SeqEqual
<1> QED
  BY <1>6 DEF a, b

LEMMA PixelsTail ==
  ASSUME NEW q \in Seq(Frames), q # << >>
  PROVE  Pixels(Tail(q)) = Tail(Pixels(q)) /\ Head(Pixels(q)) = q[1].pix
         /\ Pixels(q) # << >>
<1>1. /\ Tail(q) \in Seq(Frames) /\ Len(q) \in Nat /\ Len(q) >= 1 /\ Len(Tail(q)) = Len(q) - 1
      /\ \A i \in 1..(Len(q) - 1) : Tail(q)[i] = q[i + 1]
  BY RecvType
<1>2. Pixels(q) \in Seq(Picture) /\ Len(Pixels(q)) = Len(q) /\ Pixels(q) # << >>
      /\ \A i \in 1..Len(q) : Pixels(q)[i] = q[i].pix
  BY PixelsType
<1>3. /\ Tail(Pixels(q)) \in Seq(Picture) /\ Len(Tail(Pixels(q))) = Len(q) - 1
      /\ \A i \in 1..(Len(q) - 1) : Tail(Pixels(q))[i] = Pixels(q)[i + 1]
      /\ Head(Pixels(q)) = Pixels(q)[1]
  BY <1>2, RecvType
<1>4. /\ Pixels(Tail(q)) \in Seq(Picture) /\ Len(Pixels(Tail(q))) = Len(q) - 1
      /\ \A i \in 1..(Len(q) - 1) : Pixels(Tail(q))[i] = Tail(q)[i].pix
  BY <1>1, PixelsType
<1>5. ASSUME NEW i \in 1..(Len(q) - 1) PROVE Pixels(Tail(q))[i] = Tail(Pixels(q))[i]
  <2>1. i + 1 \in 1..Len(q)
    BY <1>1
  <2> QED
    BY <1>1, <1>2, <1>3, <1>4, <2>1
<1>6. Pixels(Tail(q)) = Tail(Pixels(q))
  BY <1>3, <1>4, <1>5, SeqEqual
<1> QED
  BY <1>1, <1>2, <1>3, <1>6

\* The ages that content holds are those of commits.
AgesKnown == \A r \in Rows : content[r] <= commits

WholeHand == IF HasHand THEN <<hand.pix>> ELSE << >>

\* A step of the instance, in terms of this module.
LEMMA WholeFrame ==
  /\ Screen' = Screen /\ Pixels(queue)' = Pixels(queue) /\ WholeHand' = WholeHand
     /\ shown'.pix = shown.pix => UNCHANGED Whole!wholeVars
  /\ Screen' \in Picture /\ (\A r \in Rows : Screen[r][2] <= Screen'[r][2])
     /\ Pixels(queue)' = Pixels(queue) /\ WholeHand' = WholeHand
     /\ shown'.pix = shown.pix => Whole!Change
  /\ Screen' = Screen /\ Pixels(queue)' = Append(Pixels(queue), Screen)
     /\ WholeHand' = WholeHand /\ shown'.pix = shown.pix => Whole!Capture
  /\ Screen' = Screen /\ Pixels(queue) # << >> /\ Pixels(queue)' = Tail(Pixels(queue))
     /\ (WholeHand' = <<Head(Pixels(queue))>> \/ WholeHand' = WholeHand)
     /\ shown'.pix = shown.pix => Whole!Take
  /\ Screen' = Screen /\ Pixels(queue)' = Pixels(queue) /\ WholeHand # << >>
     /\ WholeHand' = << >> /\ shown'.pix = WholeHand[1] => Whole!Encode
  /\ Screen' = Screen /\ WholeHand' = << >>
     /\ (Pixels(queue)' = Pixels(queue) \/ Pixels(queue)' = << >>)
     /\ shown'.pix = shown.pix => Whole!GiveUp
BY DEF Whole!wholeVars, Whole!Change, Whole!Capture, Whole!Take, Whole!Encode, Whole!GiveUp,
       WholeHand, Whole!Pictures, Whole!NotOlder, Picture, Cells

\* What holds besides PictureInv, to say that no row gets older.
WholeInv == PictureInv /\ AgesKnown

LEMMA WholeInit == Init => WholeInv /\ Whole!Init
<1>1. SUFFICES ASSUME Init PROVE WholeInv /\ Whole!Init
  OBVIOUS
<1>2. PictureInv /\ RenderTypeOK /\ EncoderTypeOK
  BY <1>1, PictureInit DEF PictureInv, TypeOK
<1>3. /\ content = [r \in Rows |-> 1] /\ commits = 1 /\ queue = << >> /\ epc = "top"
      /\ shown.pix = Zeroed(InitSize)
  BY <1>1 DEF Init, InitRender, InitShared, InitEncoder
<1>4. AgesKnown
  <2> SUFFICES ASSUME NEW r \in Rows PROVE content[r] <= commits
    BY DEF AgesKnown
  <2>1. content[r] = 1
    BY <1>3
  <2> QED
    BY <1>3, <2>1
<1>5. Screen \in Picture /\ shown.pix \in Picture
  BY <1>2, ScreenType DEF EncoderTypeOK
<1>6. \A r \in Rows : shown.pix[r][2] <= Screen[r][2]
  <2> SUFFICES ASSUME NEW r \in Rows PROVE shown.pix[r][2] <= Screen[r][2]
    OBVIOUS
  <2>1. shown.pix[r][2] = 0 /\ Screen[r][2] = 1
    BY <1>3 DEF Screen, Zeroed
  <2> QED
    BY <2>1
<1>7. Pixels(queue) = << >> /\ ~HasHand
  BY <1>3, PixelsType, EmptyQueues DEF HasHand
<1> QED
  BY <1>2, <1>4, <1>5, <1>6, <1>7
  DEF WholeInv, Whole!Init, Whole!Pictures, Whole!NotOlder, Picture, Cells

LEMMA WholeRender ==
  ASSUME WholeInv, RenderStep
  PROVE  [Whole!Next]_Whole!wholeVars
<1>1. PictureInv /\ TypeOK /\ queue \in Seq(Frames) /\ RenderTypeOK
  BY DEF WholeInv, PictureInv, TypeOK, QueueTypeOK
<1>2. UNCHANGED <<size, content, epc, hand, shown>>
  BY DEF RenderStep, CaptureTick, RequestIdleKeyframe, RenderSw, RenderGl, encoderVars
<1>3. Screen' = Screen /\ WholeHand' = WholeHand /\ shown'.pix = shown.pix
  BY <1>2 DEF Screen, WholeHand, HasHand
<1>4. ASSUME UNCHANGED queue PROVE UNCHANGED Whole!wholeVars
  BY <1>3, <1>4, WholeFrame
<1>5. ASSUME NEW f \in Frames, f.pix = Screen, SendFrame(f)
      PROVE  [Whole!Next]_Whole!wholeVars
  <2>1. CASE queue' = Append(queue, f)
    <3>1. Pixels(queue)' = Append(Pixels(queue), Screen)
      BY <1>1, <1>5, <2>1, PixelsAppend
    <3> QED
      BY <1>3, <3>1, WholeFrame DEF Whole!Next
  <2>2. CASE UNCHANGED queue
    BY <1>4, <2>2
  <2> QED
    BY <1>5, <2>1, <2>2 DEF SendFrame
<1>6. CASE RenderSw
  <2>1. SwFrame \in Frames /\ SwFrame.pix = Screen /\ SendFrame(SwFrame)
    BY <1>1, <1>6, FrameType, SwFrameFits DEF RenderSw, SwFrame
  <2> QED
    BY <1>5, <2>1
<1>7. CASE RenderGl
  <2>1. GlFrame \in Frames /\ GlFrame.pix = Screen
    BY <1>1, FrameType DEF GlFrame
  <2> QED
    BY <1>4, <1>5, <1>7, <2>1 DEF RenderGl
<1>8. CASE CaptureTick \/ RequestIdleKeyframe
  BY <1>4, <1>8 DEF CaptureTick, RequestIdleKeyframe
<1> QED
  BY <1>6, <1>7, <1>8 DEF RenderStep

LEMMA WholeEncoder ==
  ASSUME WholeInv, EncoderStep
  PROVE  [Whole!Next]_Whole!wholeVars
<1>1. PictureInv /\ queue \in Seq(Frames) /\ hand \in Frames
  BY DEF WholeInv, PictureInv, TypeOK, QueueTypeOK, EncoderTypeOK
<1>2. Screen' = Screen
  BY <1>1, EncoderFrame
<1>3. ASSUME UNCHANGED <<queue, hand, shown>>, HasHand' = HasHand
      PROVE  UNCHANGED Whole!wholeVars
  BY <1>2, <1>3, WholeFrame DEF WholeHand
<1>4. ASSUME queue # << >>, queue' = Tail(queue), UNCHANGED shown,
             WholeHand' = <<queue[1].pix>> \/ WholeHand' = WholeHand
      PROVE  Whole!Take
  BY <1>1, <1>2, <1>4, PixelsTail, WholeFrame
<1>5. ASSUME Die, queue = << >>, UNCHANGED shown PROVE Whole!GiveUp
  <2>1. Pixels(queue)' = << >> /\ WholeHand' = << >>
    BY <1>5, EmptyQueues, PixelsType DEF Die, WholeHand, HasHand
  <2> QED
    BY <1>2, <1>5, <2>1, WholeFrame
<1>6. CASE DrainControl("top", "resize") \/ DrainControl("control", "submit") \/ CheckResize
  BY <1>3, <1>6 DEF DrainControl, CheckResize, HasHand
<1>7. CASE DrainStaleFrame
  <2>1. queue # << >> /\ queue' = Tail(queue) /\ UNCHANGED <<epc, hand, shown>>
    BY <1>7 DEF DrainStaleFrame, encoderVars
  <2> QED
    BY <1>4, <2>1 DEF WholeHand, HasHand, Whole!Next
<1>8. CASE ApplyResize
  BY <1>3, <1>5, <1>8 DEF ApplyResize, HasHand, Whole!Next
<1>9. CASE RecvFrame
  <2>1. queue # << >> /\ queue' = Tail(queue) /\ hand' = queue[1] /\ HasHand' /\ UNCHANGED shown
    BY <1>1, <1>9, RecvType DEF RecvFrame, HasHand
  <2> QED
    BY <1>4, <2>1 DEF WholeHand, Whole!Next
<1>10. CASE SkipToNewer
  <2>1. /\ queue # << >> /\ queue' = Tail(queue) /\ queue[1] \in Frames
        /\ hand' = CarryDamage(hand, queue[1]) /\ HasHand' /\ UNCHANGED shown
    BY <1>1, <1>10, RecvType DEF SkipToNewer, HasHand
  <2>2. hand'.pix = queue[1].pix
    BY <1>1, <2>1, CarryFields
  <2> QED
    BY <1>4, <2>1, <2>2 DEF WholeHand, Whole!Next
<1>11. CASE FitEncoder
  BY <1>3, <1>5, <1>11 DEF FitEncoder, HasHand, Whole!Next
<1>12. CASE Submit
  <2>1. /\ HasHand /\ ~HasHand' /\ UNCHANGED queue /\ Converted = hand.pix
        /\ shown'.pix = Converted \/ UNCHANGED shown
    BY <1>1, <1>12, ConvertedExact DEF Submit, HasHand
  <2>2. WholeHand = <<hand.pix>> /\ WholeHand' = << >> /\ WholeHand # << >>
        /\ WholeHand[1] = hand.pix
    BY <2>1 DEF WholeHand
  <2>3. Whole!Encode \/ Whole!GiveUp
    BY <1>2, <2>1, <2>2, WholeFrame
  <2> QED
    BY <2>3 DEF Whole!Next
<1> QED
  BY <1>4, <1>6, <1>7, <1>8, <1>9, <1>10, <1>11, <1>12 DEF EncoderStep, Whole!Next

LEMMA WholeEnvironment ==
  ASSUME WholeInv, Environment
  PROVE  [Whole!Next]_Whole!wholeVars /\ AgesKnown'
<1>1. content \in [Rows -> Nat] /\ commits \in Nat /\ AgesKnown
  BY DEF WholeInv, PictureInv, TypeOK, RenderTypeOK, OtherTypeOK
<1>2. UNCHANGED <<queue, epc, hand, shown>>
  BY DEF Environment, Commit, MapOrUnmap, Resize, AskForce, AskSend, SendRate, encoderVars
<1>3. Pixels(queue)' = Pixels(queue) /\ WholeHand' = WholeHand /\ shown'.pix = shown.pix
  BY <1>2 DEF WholeHand, HasHand
<1>4. Screen' \in Picture
  <2>1. TypeOK'
    BY TypeEnvironment DEF WholeInv, PictureInv
  <2>2. RenderTypeOK'
    BY <2>1 DEF TypeOK
  <2> QED
    BY <2>2 DEF RenderTypeOK, Screen, Picture, Cells
<1>5. /\ \A r \in Rows : content[r] <= content'[r] /\ content'[r] <= commits'
  <2>1. CASE \E rows \in SUBSET Rows :
               /\ commits' = commits + 1
               /\ content' = [r \in Rows |-> IF r \in rows THEN commits + 1 ELSE content[r]]
    BY <1>1, <2>1 DEF AgesKnown
  <2>2. CASE UNCHANGED <<commits, content>>
    BY <1>1, <2>2 DEF AgesKnown
  <2>3. ASSUME NEW marked \in SUBSET (Rows \cup {OffScreen}),
               NEW changed \in SUBSET (marked \ {OffScreen}), Commit(changed, marked)
        PROVE  changed \in SUBSET Rows /\ commits' = commits + 1
               /\ content' = [r \in Rows |-> IF r \in changed THEN commits + 1 ELSE content[r]]
    BY <2>3 DEF Commit
  <2>4. ASSUME NEW changed \in SUBSET Rows, MapOrUnmap(changed)
        PROVE  commits' = commits + 1
               /\ content' = [r \in Rows |-> IF r \in changed THEN commits + 1 ELSE content[r]]
    BY <2>4 DEF MapOrUnmap
  <2>5. (\E s \in Sizes : Resize(s)) \/ (\E c \in Clients : AskForce(c) \/ AskSend(c)) \/ SendRate
          => UNCHANGED <<commits, content>>
    BY DEF Resize, AskForce, AskSend, SendRate, renderVars, bounds
  <2> QED
    BY <2>1, <2>2, <2>3, <2>4, <2>5 DEF Environment
<1>6. \A r \in Rows : Screen[r][2] <= Screen'[r][2]
  BY <1>5 DEF Screen
<1> QED
  BY <1>3, <1>4, <1>5, <1>6, WholeFrame DEF Whole!Next, AgesKnown

LEMMA WholeStep == WholeInv /\ [Next]_vars => WholeInv' /\ [Whole!Next]_Whole!wholeVars
<1>1. SUFFICES ASSUME WholeInv, [Next]_vars PROVE WholeInv' /\ [Whole!Next]_Whole!wholeVars
  OBVIOUS
<1>2. PictureInv'
  BY <1>1, PictureStep DEF WholeInv
<1>3. ASSUME UNCHANGED <<content, commits>> PROVE AgesKnown'
  BY <1>1, <1>3 DEF AgesKnown, WholeInv
<1>4. CASE RenderStep
  <2>1. UNCHANGED <<content, commits>>
    BY <1>4 DEF RenderStep, CaptureTick, RequestIdleKeyframe, RenderSw, RenderGl, bounds
  <2> QED
    BY <1>1, <1>2, <1>3, <1>4, <2>1, WholeRender DEF WholeInv
<1>5. CASE EncoderStep
  <2>1. UNCHANGED <<content, commits>>
    BY <1>5 DEF EncoderStep, DrainControl, CheckResize, DrainStaleFrame, ApplyResize,
       RecvFrame, SkipToNewer, FitEncoder, Submit, renderVars, bounds
  <2> QED
    BY <1>1, <1>2, <1>3, <1>5, <2>1, WholeEncoder DEF WholeInv
<1>6. CASE Environment
  BY <1>1, <1>2, <1>6, WholeEnvironment DEF WholeInv
<1>7. CASE UNCHANGED vars
  <2>1. UNCHANGED <<content, commits, size, queue, epc, hand, shown>>
    BY <1>7 DEF vars, renderVars, encoderVars, bounds
  <2>2. Screen' = Screen /\ WholeHand' = WholeHand
    BY <2>1 DEF Screen, WholeHand, HasHand
  <2> QED
    BY <1>2, <1>3, <2>1, <2>2, WholeFrame DEF WholeInv
<1> QED
  BY <1>1, <1>4, <1>5, <1>6, <1>7 DEF Next

\* Damage tracking in the compositor (state.render), through the queue
\* (readd_damage, skip_to_newest_frame) and in the conversion (encode_frame)
\* cannot be told from outside: the pipeline implements the one of whole
\* frames.
THEOREM DamageIsInvisible == Spec => WholeFramesKept
BY WholeInit, WholeStep, PTL DEF Spec, WholeFramesKept, Whole!Safety

-----------------------------------------------------------------------------
(***************************************************************************)
(* Captures never overtake each other, so that no row gets older: a property *)
(* of WholeFrames, which the pipeline has because it implements it.           *)
(***************************************************************************)
LEMMA NotOlderChain ==
  ASSUME NEW a \in Picture, NEW b \in Picture, NEW c \in Picture,
         Whole!NotOlder(a, b), Whole!NotOlder(b, c)
  PROVE  Whole!NotOlder(a, c)
<1> SUFFICES ASSUME NEW r \in Rows PROVE a[r][2] <= c[r][2]
  BY DEF Whole!NotOlder
<1>1. a[r][2] \in Nat /\ b[r][2] \in Nat /\ c[r][2] \in Nat
  BY DEF Picture, Cells
<1>2. a[r][2] <= b[r][2] /\ b[r][2] <= c[r][2]
  BY DEF Whole!NotOlder
<1> QED
  BY <1>1, <1>2

LEMMA NotOlderSelf == ASSUME NEW a \in Picture PROVE Whole!NotOlder(a, a)
<1> SUFFICES ASSUME NEW r \in Rows PROVE a[r][2] <= a[r][2]
  BY DEF Whole!NotOlder
<1>1. a[r][2] \in Nat
  BY DEF Picture, Cells
<1> QED
  BY <1>1

\* InOrder, as a relation between the four values of WholeFrames.
Ordered(s, q, h, p) ==
  /\ s \in Picture /\ p \in Picture /\ Whole!NotOlder(p, s)
  /\ q \in Seq(Picture)
  /\ h = << >> \/ \E x \in Picture : h = <<x>>
  /\ \A i \in 1..Len(q) :
       /\ Whole!NotOlder(p, q[i]) /\ Whole!NotOlder(q[i], s)
       /\ \A j \in 1..(i - 1) : Whole!NotOlder(q[j], q[i])
       /\ h # << >> => Whole!NotOlder(h[1], q[i])
  /\ h # << >> => Whole!NotOlder(p, h[1]) /\ Whole!NotOlder(h[1], s)

LEMMA InOrderForm ==
  Whole!InOrder <=> Ordered(Screen, Pixels(queue), WholeHand, shown.pix)
BY DEF Whole!InOrder, Ordered, WholeHand, Whole!Pictures, Picture, Cells

LEMMA OrderChange ==
  ASSUME NEW s, NEW q, NEW h, NEW p, Ordered(s, q, h, p),
         NEW t \in Picture, Whole!NotOlder(s, t)
  PROVE  Ordered(t, q, h, p)
<1>1. \A i \in 1..Len(q) : q[i] \in Picture
  BY DEF Ordered
<1>2. h # << >> => h[1] \in Picture
  BY DEF Ordered
<1> QED
  BY <1>1, <1>2, NotOlderChain DEF Ordered

LEMMA OrderCapture ==
  ASSUME NEW s, NEW q, NEW h, NEW p, Ordered(s, q, h, p)
  PROVE  Ordered(s, Append(q, s), h, p)
<1>1. /\ s \in Picture /\ q \in Seq(Picture) /\ Len(q) \in Nat
      /\ Append(q, s) \in Seq(Picture) /\ Len(Append(q, s)) = Len(q) + 1
      /\ Append(q, s)[Len(q) + 1] = s
      /\ \A i \in 1..Len(q) : Append(q, s)[i] = q[i]
  BY AppendProperties DEF Ordered
<1> DEFINE a == Append(q, s)
<1> HIDE DEF a
<1>2. ASSUME NEW i \in 1..Len(a)
      PROVE  /\ Whole!NotOlder(p, a[i]) /\ Whole!NotOlder(a[i], s)
             /\ \A j \in 1..(i - 1) : Whole!NotOlder(a[j], a[i])
             /\ h # << >> => Whole!NotOlder(h[1], a[i])
  <2>1. CASE i \in 1..Len(q)
    <3>1. a[i] = q[i] /\ \A j \in 1..(i - 1) : a[j] = q[j]
      BY <1>1, <2>1 DEF a
    <3> QED
      BY <2>1, <3>1 DEF Ordered
  <2>2. CASE i = Len(q) + 1
    <3>1. a[i] = s /\ \A j \in 1..(i - 1) : j \in 1..Len(q) /\ a[j] = q[j]
      BY <1>1, <2>2 DEF a
    <3> QED
      BY <1>1, <3>1, NotOlderSelf DEF Ordered
  <2> QED
    BY <1>1, <2>1, <2>2 DEF a
<1> QED
  BY <1>1, <1>2 DEF Ordered, a

LEMMA OrderTake ==
  ASSUME NEW s, NEW q, NEW h, NEW p, Ordered(s, q, h, p), q # << >>,
         NEW g \in {<<Head(q)>>, h}
  PROVE  Ordered(s, Tail(q), g, p)
<1>1. q \in Seq(Picture)
  BY DEF Ordered
<1>2. /\ Tail(q) \in Seq(Picture) /\ Head(q) \in Picture /\ Head(q) = q[1]
      /\ Len(q) \in Nat /\ Len(q) >= 1 /\ Len(Tail(q)) = Len(q) - 1
      /\ \A i \in 1..(Len(q) - 1) : Tail(q)[i] = q[i + 1]
  BY <1>1, RecvType
<1> DEFINE t == Tail(q)
<1> HIDE DEF t
<1>3. 1 \in 1..Len(q) /\ \A i \in 1..Len(t) : i + 1 \in 1..Len(q) /\ t[i] = q[i + 1]
  BY <1>2 DEF t
<1>4. ASSUME NEW i \in 1..Len(t)
      PROVE  /\ Whole!NotOlder(p, t[i]) /\ Whole!NotOlder(t[i], s)
             /\ \A j \in 1..(i - 1) : Whole!NotOlder(t[j], t[i])
             /\ Whole!NotOlder(q[1], t[i])
             /\ h # << >> => Whole!NotOlder(h[1], t[i])
  <2>1. i \in Nat /\ i + 1 \in 1..Len(q) /\ t[i] = q[i + 1] /\ 1 \in 1..((i + 1) - 1)
    BY <1>2, <1>3
  <2>2. \A j \in 1..(i - 1) : j + 1 \in 1..((i + 1) - 1) /\ t[j] = q[j + 1]
    BY <1>2, <1>3, <2>1 DEF t
  <2> QED
    BY <2>1, <2>2 DEF Ordered
<1>5. g # << >> => g[1] = q[1] \/ g = h
  BY <1>2
<1>6. g = << >> \/ \E x \in Picture : g = <<x>>
  BY <1>2 DEF Ordered
<1>7. g # << >> => Whole!NotOlder(p, g[1]) /\ Whole!NotOlder(g[1], s)
  BY <1>3, <1>5 DEF Ordered
<1> QED
  BY <1>2, <1>4, <1>5, <1>6, <1>7 DEF Ordered, t

LEMMA OrderEncode ==
  ASSUME NEW s, NEW q, NEW h, NEW p, Ordered(s, q, h, p), h # << >>
  PROVE  Ordered(s, q, << >>, h[1]) /\ Whole!NotOlder(p, h[1])
BY DEF Ordered

LEMMA OrderGiveUp ==
  ASSUME NEW s, NEW q, NEW h, NEW p, Ordered(s, q, h, p), NEW r \in {q, << >>}
  PROVE  Ordered(s, r, << >>, p)
<1>1. << >> \in Seq(Picture) /\ 1..Len(<< >>) = {}
  OBVIOUS
<1> QED
  BY <1>1 DEF Ordered

LEMMA OrderStep ==
  ASSUME Whole!InOrder, [Whole!Next]_Whole!wholeVars
  PROVE  Whole!InOrder' /\ Whole!NotOlder(shown.pix, shown'.pix)
<1> DEFINE s == Screen  q == Pixels(queue)  h == WholeHand  p == shown.pix
<1>1. Ordered(s, q, h, p)
  BY InOrderForm
<1>2. (Whole!InOrder)' <=> Ordered(s', q', h', p')
  BY DEF Whole!InOrder, Ordered, WholeHand, Whole!Pictures, Picture, Cells
<1>3. \/ s' = s /\ q' = q /\ h' = h /\ p' = p
      \/ s' \in Picture /\ Whole!NotOlder(s, s') /\ q' = q /\ h' = h /\ p' = p
      \/ s' = s /\ q' = Append(q, s) /\ h' = h /\ p' = p
      \/ s' = s /\ q # << >> /\ q' = Tail(q) /\ h' \in {<<Head(q)>>, h} /\ p' = p
      \/ s' = s /\ q' = q /\ h # << >> /\ h' = << >> /\ p' = h[1]
      \/ s' = s /\ q' \in {q, << >>} /\ h' = << >> /\ p' = p
  BY DEF Whole!Next, Whole!wholeVars, Whole!Change, Whole!Capture, Whole!Take, Whole!Encode,
         Whole!GiveUp, WholeHand, Whole!Pictures, Picture, Cells
<1> HIDE DEF s, q, h, p
<1>4. Ordered(s', q', h', p') /\ (p' = p \/ Whole!NotOlder(p, p'))
  <2>1. CASE s' \in Picture /\ Whole!NotOlder(s, s') /\ q' = q /\ h' = h /\ p' = p
    BY <1>1, <2>1, OrderChange
  <2>2. CASE s' = s /\ q' = Append(q, s) /\ h' = h /\ p' = p
    BY <1>1, <2>2, OrderCapture
  <2>3. CASE s' = s /\ q # << >> /\ q' = Tail(q) /\ h' \in {<<Head(q)>>, h} /\ p' = p
    BY <1>1, <2>3, OrderTake
  <2>4. CASE s' = s /\ q' = q /\ h # << >> /\ h' = << >> /\ p' = h[1]
    BY <1>1, <2>4, OrderEncode
  <2>5. CASE s' = s /\ q' \in {q, << >>} /\ h' = << >> /\ p' = p
    BY <1>1, <2>5, OrderGiveUp
  <2> QED
    BY <1>1, <1>3, <2>1, <2>2, <2>3, <2>4, <2>5
<1>5. p \in Picture
  BY <1>1 DEF Ordered
<1> QED
  BY <1>2, <1>4, <1>5, NotOlderSelf DEF p

LEMMA OrderInit == Whole!Init => Whole!InOrder
<1>1. << >> \in Seq(Whole!Pictures) /\ 1..Len(<< >>) = {}
  OBVIOUS
<1> QED
  BY <1>1 DEF Whole!Init, Whole!InOrder

\* No row of the stream goes back to an older commit, over skipped and dropped
\* frames, drained queues, rebuilt encoders and failed encodes.
THEOREM RowsNeverOlder == Spec => NeverOlder
<1>1. Init => WholeInv /\ Whole!InOrder
  BY WholeInit, OrderInit
<1>2. WholeInv /\ Whole!InOrder /\ [Next]_vars
        => /\ (WholeInv /\ Whole!InOrder)'
           /\ [\A r \in Rows : shown'.pix[r][2] >= shown.pix[r][2]]_vars
  <2> SUFFICES ASSUME WholeInv, Whole!InOrder, [Next]_vars
               PROVE  (WholeInv /\ Whole!InOrder)'
                      /\ \A r \in Rows : shown'.pix[r][2] >= shown.pix[r][2]
    OBVIOUS
  <2>1. WholeInv' /\ (Whole!InOrder)' /\ Whole!NotOlder(shown.pix, shown'.pix)
    BY WholeStep, OrderStep
  <2>2. \A r \in Rows : shown.pix[r][2] \in Nat /\ shown'.pix[r][2] \in Nat
    BY <2>1 DEF WholeInv, PictureInv, TypeOK, EncoderTypeOK, Picture, Cells
  <2> QED
    BY <2>1, <2>2 DEF Whole!NotOlder
<1> QED
  BY <1>1, <1>2, PTL DEF Spec, NeverOlder
=============================================================================
