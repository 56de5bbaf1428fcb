---------------------------- MODULE ViewerProofs ----------------------------
(***************************************************************************)
(* The viewers, for any number of pictures, buffers, sizes and any capacity   *)
(* of the queues: their types with the bounds of the queues, what the native  *)
(* client's renderers owe the window system, and that every step of the feed  *)
(* and of a viewer is a step of Screen.                                      *)
(***************************************************************************)
EXTENDS Viewers, WellFoundedInduction, TLAPS

Shades == {Black, Garbage} \cup 1..MaxPictures
Frames == [n : {Garbage} \cup 1..MaxPictures, size : Nat \ {0}]
SlotRecords == [state : {"none", "free", "held", "zombie"}, size : Sizes \cup {0}, n : Shades]

\* What ViewersTypeOK leaves open.
NativeTypes ==
  /\ viewer \in {"page", "native"} /\ renderer \in {"shm", "egl"}
  /\ delayed \in Seq(Frames) /\ frames \in Seq(Frames)
  /\ slots \in [Slots -> SlotRecords]
  /\ running \in BOOLEAN /\ closed \in BOOLEAN /\ unseen \in BOOLEAN

\* The renderer has the size of the window or is about to be told, and has it
\* when it draws; a page has no window of its own.
SizesAgree ==
  /\ pendingResize \in {0, window}
  /\ running /\ pendingResize = 0 => size = window
  /\ phase = "drain" => pendingResize = 0
  /\ viewer = "page" => shownSize = window

ViewInv == ViewersTypeOK /\ NativeTypes /\ BuffersKept /\ SizesAgree

LEMMA SizesOK == Sizes \subseteq Nat /\ 0 \notin Sizes
BY FeedOK

\* A queue that is not full takes one more, and one that is not empty gives
\* up its first.
LEMMA QueueTakes ==
  ASSUME NEW S, NEW q \in Seq(S), NEW x \in S, NEW cap \in Nat, Len(q) < cap
  PROVE  Append(q, x) \in Seq(S) /\ Len(Append(q, x)) <= cap
OBVIOUS

LEMMA ShortSeq ==
  ASSUME NEW S, NEW q \in Seq(S), Len(q) <= 1
  PROVE  /\ Len(q) \in 0..1
         /\ \A x \in S : /\ Append(q, x) \in Seq(S) /\ Len(Append(q, x)) = Len(q) + 1
                        /\ Append(q, x)[Len(q) + 1] = x
                        /\ \A i \in 1..Len(q) : Append(q, x)[i] = q[i]
<1>1. Len(q) \in Nat
  OBVIOUS
<1>2. Len(q) \in 0..1
  <2> DEFINE n == Len(q)
  <2>1. n \in Nat /\ n <= 1
    BY <1>1
  <2> HIDE DEF n
  <2>2. n \in 0..1
    BY <2>1
  <2> QED BY <2>2 DEF n
<1>3. ASSUME NEW x \in S
      PROVE  /\ Append(q, x) \in Seq(S) /\ Len(Append(q, x)) = Len(q) + 1
             /\ Append(q, x)[Len(q) + 1] = x
             /\ \A i \in 1..Len(q) : Append(q, x)[i] = q[i]
  OBVIOUS
<1> QED
  BY <1>2, <1>3

LEMMA QueueGives ==
  ASSUME NEW S, NEW q \in Seq(S), q # << >>, NEW cap \in Nat, Len(q) <= cap
  PROVE  Head(q) \in S /\ Tail(q) \in Seq(S) /\ Len(Tail(q)) <= cap
<1>1. Head(q) \in S /\ Tail(q) \in Seq(S) /\ Len(Tail(q)) = Len(q) - 1
  OBVIOUS
<1>2. Len(q) \in Nat
  OBVIOUS
<1> QED
  BY <1>1, <1>2

(***************************************************************************)
(* The server.                                                              *)
(***************************************************************************)

\* A receiver that loses its oldest packet still holds packets.
LEMMA BroadcastTypes ==
  ASSUME feed \in Seq(Packets), Len(feed) <= FeedCap, lost \in BOOLEAN, NEW p \in Packets,
         Broadcast(p)
  PROVE  feed' \in Seq(Packets) /\ Len(feed') <= FeedCap /\ lost' \in BOOLEAN
<1> USE FeedOK DEF Broadcast
<1>1. CASE Len(feed) < FeedCap
  <2>1. feed \in Seq(Packets) /\ feed' = Append(feed, p) /\ lost' = lost
    BY <1>1
  <2>2. feed' \in Seq(Packets) /\ Len(feed') = Len(feed) + 1
    BY <2>1
  <2> QED BY <1>1, <2>1, <2>2
<1>2. CASE ~(Len(feed) < FeedCap)
  <2> DEFINE t == Tail(Append(feed, p))
  <2>1. Append(feed, p) \in Seq(Packets) /\ Len(Append(feed, p)) = Len(feed) + 1
    OBVIOUS
  <2>2. t \in Seq(Packets) /\ Len(t) = Len(feed) /\ 1 \in 1..Len(t)
    BY <2>1, <1>2
  <2>3. feed' = [t EXCEPT ![1].whole = t[1].key] /\ lost' = TRUE
    BY <1>2
  <2> HIDE DEF t
  <2>4. t[1] \in Packets
    BY <2>2
  <2>5. [t[1] EXCEPT !.whole = t[1].key] \in Packets
    BY <2>4 DEF Packets
  <2>6. feed' = [t EXCEPT ![1] = [t[1] EXCEPT !.whole = t[1].key]]
    BY <2>3, <2>2
  <2>7. feed' \in Seq(Packets) /\ Len(feed') = Len(t)
    BY <2>2, <2>5, <2>6
  <2> QED BY <2>2, <2>3, <2>7
<1> QED
  BY <1>1, <1>2

LEMMA EncoderStays ==
  ASSUME EncoderTypeOK, UNCHANGED encoderVars
  PROVE  EncoderTypeOK'
BY DEF EncoderTypeOK, encoderVars

\* The frame the encoder takes.
LEMMA FrameTaken ==
  ASSUME EncoderTypeOK, queued # << >>
  PROVE  Last(queued) \in Pictures
BY DEF EncoderTypeOK, Last

\* Render loop and encoder.
LEMMA EncoderTypes ==
  ASSUME FeedTypeOK,
         Draw \/ Render \/ TakeResize \/ (\E key \in BOOLEAN : Encode(key)) \/ EncodeFails
  PROVE  FeedTypeOK' /\ UNCHANGED <<chunks, missed, reference, screen, lastShown>>
<1>0. /\ newest \in Pictures /\ MaxPictures \in Nat /\ EncoderTypeOK
      /\ queued \in Seq(Pictures) /\ Len(queued) <= FrameCap /\ FrameCap \in Nat
      /\ feed \in Seq(Packets) /\ Len(feed) <= FeedCap /\ lost \in BOOLEAN
  BY FeedOK DEF FeedTypeOK, EncoderTypeOK
<1>1. CASE Draw
  <2>1. newest' \in Pictures /\ changed' = TRUE
    BY <1>0, <1>1 DEF Draw, Pictures
  <2>2. /\ UNCHANGED <<forceRender, connected, feed, wire, asks, resizes, cooling, forcing, chunks,
                       missed, reference, screen, lastShown, lost>>
        /\ UNCHANGED encoderVars
    BY <1>1 DEF Draw, lineVars, decoderVars, viewVars
  <2> QED BY <2>1, <2>2, EncoderStays DEF FeedTypeOK
<1>2. CASE Render
  <2>1. /\ forceRender' = FALSE /\ changed' \in BOOLEAN
        /\ \/ Len(queued) < FrameCap /\ queued' = Append(queued, newest)
           \/ queued' = queued
        /\ UNCHANGED <<newest, resizeTo, late, forceKeyframe, encSize, stream, connected, feed,
                       wire, asks, resizes, cooling, forcing, chunks, missed, reference, screen,
                       lastShown, lost>>
    BY <1>2 DEF Render, lineVars, decoderVars, viewVars
  <2>2. queued' \in Seq(Pictures) /\ Len(queued') <= FrameCap
    BY <1>0, <2>1, QueueTakes
  <2>3. EncoderTypeOK'
    BY <2>1, <2>2 DEF FeedTypeOK, EncoderTypeOK
  <2> QED BY <2>1, <2>3 DEF FeedTypeOK
<1>3. CASE TakeResize
  <2>1. /\ resizeTo # 0 /\ resizeTo' = 0 /\ queued' = << >> /\ encSize' = resizeTo
        /\ stream' = "fresh"
        /\ UNCHANGED <<newest, changed, forceRender, late, forceKeyframe, connected, feed, wire,
                       asks, resizes, cooling, forcing, chunks, missed, reference, screen,
                       lastShown, lost>>
    BY <1>3 DEF TakeResize, outputVars, lineVars, decoderVars, viewVars
  <2>2. EncoderTypeOK'
    BY <1>0, <2>1 DEF EncoderTypeOK
  <2> QED BY <2>1, <2>2 DEF FeedTypeOK
<1>4. ASSUME TakeFrame, stream' \in {"fresh", "flowing", "torn"},
             feed' \in Seq(Packets), Len(feed') <= FeedCap, lost' \in BOOLEAN
      PROVE  FeedTypeOK' /\ UNCHANGED <<chunks, missed, reference, screen, lastShown>>
  <2>1. /\ queued # << >> /\ queued' = << >> /\ late' = FALSE /\ forceKeyframe' = FALSE
        /\ encSize' = Last(queued).size
        /\ UNCHANGED <<newest, changed, forceRender, resizeTo, connected, wire, asks, resizes,
                       cooling, forcing, chunks, missed, reference, screen, lastShown>>
    BY <1>4 DEF TakeFrame, outputVars, decoderVars
  <2>2. encSize' \in Nat \ {0}
    BY <1>0, <2>1, FrameTaken DEF Pictures
  <2>4. queued' \in Seq(Pictures) /\ Len(queued') <= FrameCap /\ resizeTo' \in Nat
    BY <1>0, <2>1 DEF EncoderTypeOK
  <2>5. late' \in BOOLEAN /\ forceKeyframe' \in BOOLEAN
    BY <2>1
  <2>3. EncoderTypeOK'
    BY <1>4, <2>2, <2>4, <2>5 DEF EncoderTypeOK
  <2> QED BY <1>4, <2>1, <2>3 DEF FeedTypeOK
<1>5. ASSUME NEW key \in BOOLEAN, Encode(key)
      PROVE  FeedTypeOK' /\ UNCHANGED <<chunks, missed, reference, screen, lastShown>>
  <2> DEFINE p == [key |-> key, whole |-> key \/ stream # "torn", pic |-> Last(queued)]
  <2>1. TakeFrame /\ stream' = "flowing"
    BY <1>5 DEF Encode
  <2>2. IF connected THEN Broadcast(p) ELSE UNCHANGED <<feed, lost>>
    BY <1>5 DEF Encode
  <2>3. p \in Packets
    BY <1>0, <2>1, FrameTaken DEF Packets, TakeFrame
  <2> HIDE DEF p
  <2>4. feed' \in Seq(Packets) /\ Len(feed') <= FeedCap /\ lost' \in BOOLEAN
    BY <1>0, <2>2, <2>3, BroadcastTypes
  <2> QED BY <1>4, <2>1, <2>4
<1>6. CASE EncodeFails
  <2>1. /\ TakeFrame /\ stream' \in {IF Begins THEN "fresh" ELSE stream, "torn"}
        /\ lost' = TRUE /\ feed' = feed
    BY <1>6 DEF EncodeFails
  <2>2. stream' \in {"fresh", "flowing", "torn"}
    BY <1>0, <2>1 DEF EncoderTypeOK
  <2> QED BY <1>0, <1>4, <2>1, <2>2
<1> QED
  BY <1>1, <1>2, <1>3, <1>5, <1>6

\* The steps of the server keep the types, and neither the viewer's decoder
\* nor its screen is touched.
LEMMA ServerTypes ==
  ASSUME FeedTypeOK, ServerStep
  PROVE  FeedTypeOK' /\ UNCHANGED <<chunks, missed, reference, screen, lastShown>>
<1>0. EncoderTypeOK
  BY DEF FeedTypeOK
<1>3. CASE SendPacket
  <2>1. /\ feed # << >> /\ Len(wire) < WireCap
        /\ wire' = Append(wire, Head(feed)) /\ feed' = Tail(feed)
        /\ UNCHANGED <<newest, changed, forceRender, connected, asks, resizes, cooling, forcing,
                       chunks, missed, reference, screen, lastShown, lost>>
        /\ UNCHANGED encoderVars
    BY <1>3 DEF SendPacket, outputVars, decoderVars, viewVars
  <2>2. /\ feed \in Seq(Packets) /\ Len(feed) <= FeedCap /\ FeedCap \in Nat
        /\ wire \in Seq(Packets) /\ Len(wire) <= WireCap /\ WireCap \in Nat
    BY FeedOK DEF FeedTypeOK
  <2>3. Head(feed) \in Packets /\ feed' \in Seq(Packets) /\ Len(feed') <= FeedCap
    BY <2>1, <2>2, QueueGives
  <2>4. wire' \in Seq(Packets) /\ Len(wire') <= WireCap
    BY <2>1, <2>2, <2>3, QueueTakes
  <2> QED BY <1>0, <2>1, <2>3, <2>4, EncoderStays DEF FeedTypeOK
<1>4. CASE HandleRequestKeyframe
  <2>1. /\ asks' = asks - 1 /\ asks > 0
        /\ forceRender' \in {forceRender, TRUE} /\ cooling' \in {cooling, TRUE}
        /\ forcing' \in {forcing, TRUE}
        /\ UNCHANGED <<newest, changed, connected, feed, wire, resizes, chunks, missed, reference,
                       screen, lastShown, lost>>
        /\ UNCHANGED encoderVars
    BY <1>4 DEF HandleRequestKeyframe, decoderVars, viewVars
  <2>2. asks' \in Nat
    BY <2>1 DEF FeedTypeOK
  <2>3. forceRender' \in BOOLEAN /\ cooling' \in BOOLEAN /\ forcing' \in BOOLEAN
    BY <2>1 DEF FeedTypeOK
  <2>4. EncoderTypeOK'
    BY <1>0, <2>1, EncoderStays
  <2> QED BY <2>1, <2>2, <2>3, <2>4 DEF FeedTypeOK
<1>7. CASE SendForceKeyframe
  <2>1. /\ forcing' = FALSE /\ forceKeyframe' = TRUE
        /\ UNCHANGED <<newest, changed, forceRender, queued, resizeTo, late, encSize, stream,
                       connected, feed, wire, asks, resizes, cooling, chunks, missed, reference,
                       screen, lastShown, lost>>
    BY <1>7 DEF SendForceKeyframe, outputVars, decoderVars, viewVars
  <2>2. EncoderTypeOK'
    BY <1>0, <2>1 DEF EncoderTypeOK
  <2> QED BY <2>1, <2>2 DEF FeedTypeOK
<1>6. CASE CooldownPasses
  <2>1. /\ cooling' = FALSE
        /\ UNCHANGED <<newest, changed, forceRender, connected, feed, wire, asks, resizes, forcing,
                       chunks, missed, reference, screen, lastShown, lost>>
        /\ UNCHANGED encoderVars
    BY <1>6 DEF CooldownPasses, outputVars, decoderVars, viewVars
  <2> QED BY <1>0, <2>1, EncoderStays DEF FeedTypeOK
<1>5. CASE HandleResize
  <2>1. resizes # << >> /\ resizes \in Seq(Sizes) /\ newest \in Pictures
        /\ changed \in BOOLEAN /\ late \in BOOLEAN /\ resizeTo \in Nat
    BY <1>5 DEF HandleResize, FeedTypeOK, EncoderTypeOK
  <2>2. Head(resizes) \in Sizes /\ Tail(resizes) \in Seq(Sizes)
    BY <2>1
  <2> DEFINE size0 == Sanitize(Head(resizes))
  <2>3. size0 \in Nat
    BY <2>2, FeedOK DEF Sanitize
  <2>4. /\ resizes' = Tail(resizes)
        /\ IF size0 = 0 THEN UNCHANGED <<newest, changed, resizeTo, late>>
           ELSE /\ newest' = [newest EXCEPT !.size = size0] /\ changed' = TRUE
                /\ resizeTo' = size0
                /\ late' \in (IF resizeTo = 0 THEN BOOLEAN ELSE {late})
        /\ UNCHANGED <<forceRender, queued, forceKeyframe, encSize, stream, connected, feed, wire,
                       asks, cooling, forcing, chunks, missed, reference, screen, lastShown, lost>>
    BY <1>5 DEF HandleResize, decoderVars, viewVars
  <2> HIDE DEF size0
  <2>5. newest' \in Pictures /\ changed' \in BOOLEAN /\ resizeTo' \in Nat /\ late' \in BOOLEAN
    BY <2>1, <2>3, <2>4 DEF Pictures
  <2>6. EncoderTypeOK'
    BY <1>0, <2>4, <2>5 DEF EncoderTypeOK
  <2> QED BY <2>2, <2>4, <2>5, <2>6 DEF FeedTypeOK
<1> QED
  BY <1>3, <1>4, <1>5, <1>6, <1>7, EncoderTypes DEF ServerStep

LEMMA ServerKeeps ==
  ASSUME ViewInv, ByServer(ServerStep)
  PROVE  ViewInv'
<1>1. /\ FeedTypeOK' /\ UNCHANGED <<chunks, missed, reference, screen, lastShown>>
      /\ UNCHANGED <<pageVars, nativeVars, viewer>>
  BY ServerTypes DEF ViewInv, ViewersTypeOK, ByServer
<1> QED
  BY <1>1 DEF ViewInv, ViewersTypeOK, NativeTypes, BuffersKept, SizesAgree, pageVars, nativeVars,
     loopVars, slotVars, systemVars, mainVars

(***************************************************************************)
(* The page.                                                                *)
(***************************************************************************)

LEMMA ChunkType ==
  ASSUME NEW p \in Packets, missed \in BOOLEAN
  PROVE  Chunk(p) \in Packets /\ Chunk(p).pic = p.pic
BY DEF Chunk, Packets

LEMMA DecodedType ==
  ASSUME NEW c \in Packets, reference \in {"none", "exact", "broken"}
  PROVE  Decoded(c) \in {"none", "exact", "broken"}
BY DEF Decoded, Packets

\* handleVideoFrame: the backlog is bounded, although WebCodecs has no bound.
LEMMA HandleVideoFrameTypes ==
  ASSUME FeedTypeOK, HandleVideoFrame, Len(chunks) <= MaxDecodeQueue + 1,
         keyframeSeen \in BOOLEAN, keyframeRequestPending \in BOOLEAN
  PROVE  /\ FeedTypeOK' /\ Len(chunks') <= MaxDecodeQueue + 1
         /\ keyframeSeen' \in BOOLEAN /\ keyframeRequestPending' \in BOOLEAN
<1> DEFINE p == Head(wire)
<1>1. /\ wire \in Seq(Packets) /\ wire # << >> /\ Len(wire) <= WireCap /\ WireCap \in Nat
      /\ chunks \in Seq(Packets) /\ MaxDecodeQueue \in Nat /\ missed \in BOOLEAN /\ asks \in Nat
  BY FeedOK, PageOK DEF FeedTypeOK, HandleVideoFrame
<1>2. p \in Packets /\ Tail(wire) \in Seq(Packets) /\ Len(Tail(wire)) <= WireCap
  BY <1>1, QueueGives
<1>3. /\ DropForBacklog(p) \/ SkipDelta(p) \/ Feed(p)
      /\ wire' = Tail(wire)
      /\ UNCHANGED <<encoderVars, newest, changed, forceRender, connected, feed, resizes, cooling,
                     forcing, screen, lastShown, lost>>
  BY DEF HandleVideoFrame, outputVars, viewVars
<1>4. p.key \in BOOLEAN
  BY <1>2 DEF Packets
<1>5. Chunk(p) \in Packets
  BY <1>1, <1>2, ChunkType
<1> HIDE DEF p
<1>6. CASE DropForBacklog(p) \/ SkipDelta(p)
  <2>1. /\ missed' = TRUE /\ UNCHANGED <<chunks, reference>>
        /\ asks' \in {asks, asks + 1}
        /\ keyframeSeen' \in BOOLEAN /\ keyframeRequestPending' \in BOOLEAN
    BY <1>6 DEF DropForBacklog, SkipDelta, RequestKeyframe
  <2> QED BY <1>1, <1>2, <1>3, <2>1, EncoderStays DEF FeedTypeOK
<1>7. CASE Feed(p)
  <2> DEFINE left == IF Backlogged THEN << >> ELSE chunks
  <2>1. /\ chunks' = left \o <<Chunk(p)>> /\ missed' = FALSE /\ asks' = asks
        /\ keyframeSeen' = TRUE
        /\ keyframeRequestPending' = (keyframeRequestPending /\ ~p.key)
        /\ reference' \in {"none", reference}
    BY <1>7 DEF Feed
  <2>2. left \in Seq(Packets) /\ Len(left) <= MaxDecodeQueue
    BY <1>1 DEF Backlogged
  <2> HIDE DEF left
  <2>3. chunks' \in Seq(Packets) /\ Len(chunks') = Len(left) + 1
    BY <1>5, <2>1, <2>2
  <2>4. Len(chunks') <= MaxDecodeQueue + 1
    BY <1>1, <2>2, <2>3
  <2>5. keyframeSeen' \in BOOLEAN /\ keyframeRequestPending' \in BOOLEAN
    BY <2>1
  <2> QED BY <1>2, <1>3, <2>1, <2>3, <2>4, <2>5, EncoderStays DEF FeedTypeOK
<1> QED
  BY <1>3, <1>6, <1>7

LEMMA PageTypes ==
  ASSUME FeedTypeOK, PageStep, Len(chunks) <= MaxDecodeQueue + 1,
         keyframeSeen \in BOOLEAN, keyframeRequestPending \in BOOLEAN
  PROVE  /\ FeedTypeOK' /\ Len(chunks') <= MaxDecodeQueue + 1
         /\ keyframeSeen' \in BOOLEAN /\ keyframeRequestPending' \in BOOLEAN
<1> DEFINE Goal == /\ FeedTypeOK' /\ Len(chunks') <= MaxDecodeQueue + 1
                   /\ keyframeSeen' \in BOOLEAN /\ keyframeRequestPending' \in BOOLEAN
<1>0. MaxDecodeQueue \in Nat /\ asks \in Nat
  BY PageOK DEF FeedTypeOK
<1>1. CASE HandleVideoFrame
  BY <1>1, HandleVideoFrameTypes
<1>2. CASE HandleFrame
  <2>1. /\ chunks \in Seq(Packets) /\ chunks # << >> /\ chunks' = Tail(chunks)
        /\ reference' = Decoded(Head(chunks))
        /\ Show(IF reference' = "exact" THEN Head(chunks).pic.n ELSE Garbage)
        /\ UNCHANGED <<encoderVars, newest, changed, forceRender, connected, feed, wire, asks,
                       resizes, cooling, forcing, missed, lost, keyframeSeen,
                       keyframeRequestPending>>
    BY <1>2 DEF HandleFrame, FeedTypeOK, outputVars, lineVars
  <2>2. MaxDecodeQueue + 1 \in Nat
    BY <1>0
  <2>3. Head(chunks) \in Packets /\ chunks' \in Seq(Packets) /\ Len(chunks') <= MaxDecodeQueue + 1
    BY <2>1, <2>2, QueueGives
  <2>4. reference' \in {"none", "exact", "broken"}
    BY <2>1, <2>3, DecodedType DEF FeedTypeOK
  <2>5. Head(chunks).pic.n \in 1..MaxPictures
    BY <2>3 DEF Packets, Pictures
  <2>6. /\ screen' \in {Black, Garbage} \cup 1..MaxPictures
        /\ lastShown' \in 0..MaxPictures
    <3>1. lastShown \in 0..MaxPictures /\ MaxPictures \in Nat
      BY FeedOK DEF FeedTypeOK
    <3> QED BY <2>1, <2>5, <3>1 DEF Show
  <2> QED BY <2>1, <2>3, <2>4, <2>6, EncoderStays DEF FeedTypeOK
<1>3. CASE Resync /\ Trouble
  <2>1. /\ chunks' = << >> /\ reference' = "none" /\ missed' = FALSE /\ keyframeSeen' = FALSE
        /\ asks' \in {asks, asks + 1} /\ keyframeRequestPending' \in BOOLEAN
        /\ UNCHANGED <<encoderVars, newest, changed, forceRender, connected, feed, wire, resizes,
                       cooling, forcing, screen, lastShown, lost>>
    BY <1>3 DEF Resync, RequestKeyframe, outputVars, viewVars
  <2>2. asks' \in Nat /\ chunks' \in Seq(Packets) /\ Len(chunks') <= MaxDecodeQueue + 1
    BY <1>0, <2>1
  <2> QED BY <2>1, <2>2, EncoderStays DEF FeedTypeOK
<1>4. CASE LoseConnection
  <2>1. /\ connected' = FALSE /\ feed' = << >> /\ wire' = << >> /\ asks' = 0 /\ resizes' = << >>
        /\ forcing' = FALSE
        /\ UNCHANGED <<encoderVars, newest, changed, forceRender, cooling, chunks, missed,
                       reference, screen, lastShown, lost, keyframeSeen, keyframeRequestPending>>
    BY <1>4 DEF LoseConnection, HangUp, outputVars, decoderVars, viewVars
  <2>2. /\ feed' \in Seq(Packets) /\ Len(feed') <= FeedCap
        /\ wire' \in Seq(Packets) /\ Len(wire') <= WireCap /\ resizes' \in Seq(Sizes)
    BY <2>1, FeedOK
  <2> QED BY <2>1, <2>2, EncoderStays DEF FeedTypeOK
<1>5. CASE Start
  <2>1. /\ connected' = TRUE /\ forceRender' = TRUE /\ forcing' = TRUE
        /\ chunks' = << >> /\ reference' = "none"
        /\ missed' = FALSE /\ keyframeSeen' = FALSE /\ keyframeRequestPending' = FALSE
        /\ UNCHANGED <<encoderVars, newest, changed, feed, wire, asks, resizes, cooling, screen,
                       lastShown, lost>>
    BY <1>5 DEF Start, viewVars
  <2>2. chunks' \in Seq(Packets) /\ Len(chunks') <= MaxDecodeQueue + 1
    BY <1>0, <2>1
  <2> QED BY <2>1, <2>2, EncoderStays DEF FeedTypeOK
<1> QED
  BY <1>1, <1>2, <1>3, <1>4, <1>5 DEF PageStep, RecoverDecoder, SetCodec

LEMMA PageKeeps ==
  ASSUME ViewInv, ByPage(PageStep)
  PROVE  ViewInv'
<1>1. /\ FeedTypeOK' /\ Len(chunks') <= MaxDecodeQueue + 1
      /\ keyframeSeen' \in BOOLEAN /\ keyframeRequestPending' \in BOOLEAN
      /\ viewer = "page" /\ UNCHANGED <<nativeVars, viewer>>
  BY PageTypes DEF ViewInv, ViewersTypeOK, ByPage
<1> QED
  BY <1>1 DEF ViewInv, ViewersTypeOK, NativeTypes, BuffersKept, SizesAgree, nativeVars,
     loopVars, slotVars, systemVars, mainVars

(***************************************************************************)
(* The buffers of the native client.                                        *)
(***************************************************************************)

\* There is a first among the free slots.
LEMMA FirstSlot ==
  ASSUME NEW S \in SUBSET Slots, S # {}
  PROVE  (CHOOSE i \in S : \A j \in S : i <= j) \in S
<1>1. NumSlots \in Nat
  BY NativeOK
<1> DEFINE R == OpToRel(<, Nat)
<1>2. IsWellFoundedOn(R, Nat)
  BY NatLessThanWellFounded
<1>3. S \subseteq Nat
  BY <1>1 DEF Slots
<1>4. PICK x \in S : \A y \in S : <<y, x>> \notin R
  <2> HIDE DEF R
  <2> QED BY <1>2, <1>3, WFMin
<1>5. \A y \in S : x <= y
  <2> SUFFICES ASSUME NEW y \in S PROVE x <= y
    OBVIOUS
  <2>1. <<y, x>> \notin R /\ x \in Nat /\ y \in Nat
    BY <1>3, <1>4
  <2>2. y < x => <<y, x>> \in R
    BY <2>1 DEF OpToRel
  <2> HIDE DEF R
  <2>3. ~(y < x)
    BY <2>1, <2>2
  <2> QED BY <2>1, <2>3
<1> QED
  BY <1>5

LEMMA NextReleasedIsFree ==
  ASSUME NEW ss, Free(ss) # {}
  PROVE  NextReleased(ss) \in Free(ss)
<1> DEFINE after == {i \in Free(ss) : i >= nextIdx}
<1>1. Free(ss) \in SUBSET Slots /\ after \in SUBSET Slots
  BY DEF Free
<1>2. CASE after # {}
  <2>1. NextReleased(ss) = CHOOSE i \in after : \A j \in after : i <= j
    BY <1>2 DEF NextReleased
  <2> HIDE DEF after
  <2>2. NextReleased(ss) \in after
    BY <1>1, <1>2, <2>1, FirstSlot
  <2> QED BY <2>2 DEF after
<1>3. CASE after = {}
  <2>1. NextReleased(ss) = CHOOSE i \in Free(ss) : \A j \in Free(ss) : i <= j
    BY <1>3 DEF NextReleased
  <2> QED BY <1>1, <2>1, FirstSlot
<1> QED
  BY <1>2, <1>3

LEMMA AfterIsSlot ==
  ASSUME NEW i \in Slots
  PROVE  After(i) \in Slots
BY NativeOK DEF After, Slots

\* After recreate_slots every slot that is free has the renderer's size, and
\* the window system has those it had.
LEMMA RecreatedSlots ==
  ASSUME NEW ss \in [Slots -> SlotRecords], NEW s \in Sizes,
         \A i \in Slots : ss[i].state \in {"free", "held"} => ss[i].size = s
  PROVE  /\ Recreated(ss, s) \in [Slots -> SlotRecords]
         /\ \A i \in Slots :
              /\ Recreated(ss, s)[i].state \in {"free", "held", "zombie"}
              /\ Recreated(ss, s)[i].state \in {"free", "held"} => Recreated(ss, s)[i].size = s
              /\ Recreated(ss, s)[i].state \in {"held", "zombie"}
                   <=> ss[i].state \in {"held", "zombie"}
<1>1. FreshSlot(s) \in SlotRecords /\ FreshSlot(s).state = "free" /\ FreshSlot(s).size = s
  BY DEF FreshSlot, SlotRecords, Shades
<1>2. \A i \in Slots :
        /\ Recreated(ss, s)[i] = IF ss[i].state = "none" THEN FreshSlot(s) ELSE ss[i]
        /\ ss[i] \in SlotRecords /\ ss[i].state \in {"none", "free", "held", "zombie"}
  BY DEF Recreated, SlotRecords
<1>3. Recreated(ss, s) \in [Slots -> SlotRecords]
  BY <1>1 DEF Recreated
<1> QED
  BY <1>1, <1>2, <1>3

\* ShmRenderer::resize keeps what the window system holds.
LEMMA ResizedSlots ==
  ASSUME slots \in [Slots -> SlotRecords], BuffersKept, renderer = "shm", NEW s \in Sizes
  PROVE  /\ ResizeSlots(s) \in [Slots -> SlotRecords]
         /\ \A i \in Slots :
              /\ ResizeSlots(s)[i].state \in {"free", "held"} => ResizeSlots(s)[i].size = s
              /\ ResizeSlots(s)[i].state \in {"held", "zombie"}
                   <=> slots[i].state \in {"held", "zombie"}
<1>1. CASE s = size
  BY <1>1 DEF ResizeSlots, BuffersKept
<1>2. CASE s # size
  <2> DEFINE new(i) == CASE slots[i].state = "free" -> NoSlot
                         [] slots[i].state = "none" -> NoSlot
                         [] OTHER -> [slots[i] EXCEPT !.state = "zombie"]
  <2>1. ResizeSlots(s) = [i \in Slots |-> new(i)]
    BY <1>2 DEF ResizeSlots
  <2>2. NoSlot \in SlotRecords /\ NoSlot.state = "none"
    BY DEF NoSlot, SlotRecords, Shades
  <2>3. ASSUME NEW i \in Slots
        PROVE  /\ new(i) \in SlotRecords /\ new(i).state \in {"none", "zombie"}
               /\ new(i).state = "zombie" <=> slots[i].state \in {"held", "zombie"}
    <3>1. slots[i] \in SlotRecords /\ slots[i].state \in {"none", "free", "held", "zombie"}
      BY DEF SlotRecords
    <3>2. CASE slots[i].state \in {"none", "free"}
      BY <2>2, <3>2
    <3>3. CASE slots[i].state \in {"held", "zombie"}
      BY <3>1, <3>3 DEF SlotRecords
    <3> QED BY <3>1, <3>2, <3>3
  <2> HIDE DEF new
  <2> QED BY <2>1, <2>3
<1> QED
  BY <1>1, <1>2

\* A slot that is free goes to the window system.
LEMMA HeldSlot ==
  ASSUME NEW ss \in [Slots -> SlotRecords], NEW i \in Slots, NEW n \in Shades
  PROVE  /\ Hold(ss, i, n) \in [Slots -> SlotRecords]
         /\ \A j \in Slots : /\ Hold(ss, i, n)[j].size = ss[j].size
                             /\ Hold(ss, i, n)[j].state = IF j = i THEN "held" ELSE ss[j].state
<1>1. Hold(ss, i, n) = [ss EXCEPT ![i] = [ss[i] EXCEPT !.state = "held", !.n = n]]
  BY DEF Hold
<1>2. [ss[i] EXCEPT !.state = "held", !.n = n] \in SlotRecords
  BY DEF SlotRecords
<1> QED
  BY <1>1, <1>2 DEF SlotRecords

(***************************************************************************)
(* The native client.                                                       *)
(***************************************************************************)

\* The steps of the main task and the decoder thread keep the types of what
\* lies between them and leave the window and its buffers alone.
LEMMA TasksKeep ==
  ASSUME ViewInv, viewer = "native", UNCHANGED <<pageVars, viewer>>,
         ReceivePacket \/ DecodePacket \/ DecodeFails \/ NotifySize
  PROVE  ViewInv'
<1>0. /\ FeedTypeOK /\ NativeTypes /\ Len(chunks) <= PacketCap /\ Len(frames) <= 1
      /\ Len(delayed) <= 1 /\ delayed \in Seq(Frames)
      /\ PacketCap \in Nat /\ wire \in Seq(Packets) /\ Len(wire) <= WireCap /\ WireCap \in Nat
      /\ chunks \in Seq(Packets) /\ missed \in BOOLEAN /\ frames \in Seq(Frames)
      /\ window \in Sizes /\ resizes \in Seq(Sizes)
  BY FeedOK, NativeOK DEF ViewInv, ViewersTypeOK, NativeTypes, FeedTypeOK
<1>1. ASSUME FeedTypeOK', Len(chunks') <= PacketCap, frames' \in Seq(Frames), Len(frames') <= 1,
             delayed' \in Seq(Frames), Len(delayed') <= 1, unseen' \in BOOLEAN,
             UNCHANGED <<phase, window, pendingResize, closed, renderer, size, slots, nextIdx,
                         lent, front, shownSize, running, keyframeSeen,
                         keyframeRequestPending, viewer>>
      PROVE  ViewInv'
  BY <1>1 DEF ViewInv, ViewersTypeOK, NativeTypes, BuffersKept, SizesAgree
<1>2. CASE ReceivePacket
  <2>1. /\ wire # << >> /\ wire' = Tail(wire)
        /\ \/ /\ Len(chunks) < PacketCap /\ chunks' = Append(chunks, Chunk(Head(wire)))
              /\ missed' = FALSE /\ UNCHANGED lost
           \/ missed' = TRUE /\ lost' = TRUE /\ UNCHANGED chunks
        /\ UNCHANGED <<encoderVars, newest, changed, forceRender, connected, feed, asks, resizes,
                       cooling, forcing, reference, screen, lastShown, delayed, frames, unseen,
                       phase, window, pendingResize, closed, renderer, size, slots, nextIdx, lent,
                       front, shownSize, running>>
    BY <1>2 DEF ReceivePacket, outputVars, nativeVars, loopVars, slotVars, systemVars, mainVars
  <2>2. Head(wire) \in Packets /\ wire' \in Seq(Packets) /\ Len(wire') <= WireCap
    BY <1>0, <2>1, QueueGives
  <2>3. Chunk(Head(wire)) \in Packets
    BY <1>0, <2>2, ChunkType
  <2>4. chunks' \in Seq(Packets) /\ Len(chunks') <= PacketCap
    BY <1>0, <2>1, <2>3, QueueTakes
  <2>5. FeedTypeOK'
    BY <1>0, <2>1, <2>2, <2>4, EncoderStays DEF FeedTypeOK
  <2> QED
    BY <1>0, <1>1, <2>1, <2>4, <2>5 DEF NativeTypes, pageVars, ViewInv, ViewersTypeOK
<1>3. CASE DecodePacket
  <2> DEFINE pic == Head(chunks).pic
             frame == IF reference' = "exact" THEN pic ELSE [pic EXCEPT !.n = Garbage]
             out == IF reference' = "none" THEN delayed ELSE Append(delayed, frame)
  <2>1. /\ chunks # << >> /\ chunks' = Tail(chunks) /\ reference' = Decoded(Head(chunks))
        /\ \/ Len(out) <= 1 /\ delayed' = out /\ UNCHANGED frames
           \/ out # << >> /\ delayed' = Tail(out) /\ GiveFrame(Head(out))
        /\ UNCHANGED <<encoderVars, newest, changed, forceRender, connected, feed, wire, asks,
                       resizes, cooling, forcing, missed, screen, lastShown, lost, unseen, phase,
                       window, pendingResize, closed, renderer, size, slots, nextIdx, lent, front,
                       shownSize, running>>
    BY <1>3 DEF DecodePacket, outputVars, lineVars, viewVars, loopVars, slotVars, systemVars, mainVars
  <2>2. Head(chunks) \in Packets /\ chunks' \in Seq(Packets) /\ Len(chunks') <= PacketCap
    BY <1>0, <2>1, QueueGives
  <2>3. frame \in Frames
    BY <2>2 DEF Packets, Pictures, Frames
  <2> HIDE DEF frame
  <2>7. out \in Seq(Frames) /\ Len(out) <= 2
    BY <1>0, <2>3
  <2> HIDE DEF out
  <2>8. out # << >> => Head(out) \in Frames /\ Tail(out) \in Seq(Frames) /\ Len(Tail(out)) <= 1
    <3>1. out # << >> => /\ Head(out) \in Frames /\ Tail(out) \in Seq(Frames)
                         /\ Len(Tail(out)) = Len(out) - 1 /\ Len(out) \in Nat
      BY <2>7
    <3> QED BY <2>7, <3>1
  <2>4. /\ frames' \in Seq(Frames) /\ Len(frames') <= 1
        /\ delayed' \in Seq(Frames) /\ Len(delayed') <= 1
    <3>1. CASE Len(out) <= 1 /\ delayed' = out /\ UNCHANGED frames
      BY <1>0, <2>7, <3>1
    <3>2. CASE out # << >> /\ delayed' = Tail(out) /\ GiveFrame(Head(out))
      <4>1. frames' \in {frames, <<Head(out)>>}
        BY <3>2 DEF GiveFrame
      <4>2. <<Head(out)>> \in Seq(Frames) /\ Len(<<Head(out)>>) = 1
        BY <2>8, <3>2
      <4>3. frames' \in Seq(Frames) /\ Len(frames') <= 1
        <5>1. CASE frames' = frames
          BY <1>0, <5>1
        <5>2. CASE frames' = <<Head(out)>>
          BY <4>2, <5>2
        <5> QED BY <4>1, <5>1, <5>2
      <4> QED BY <2>8, <3>2, <4>3
    <3> QED BY <2>1, <3>1, <3>2
  <2>5. reference' \in {"none", "exact", "broken"}
    BY <1>0, <2>1, <2>2, DecodedType DEF FeedTypeOK
  <2>6. FeedTypeOK'
    BY <1>0, <2>1, <2>2, <2>5, EncoderStays DEF FeedTypeOK
  <2> QED
    BY <1>0, <1>1, <2>1, <2>2, <2>4, <2>6 DEF NativeTypes, pageVars
<1>4. CASE NotifySize
  <2>1. /\ resizes' = Append(resizes, window) /\ unseen' = FALSE
        /\ UNCHANGED <<encoderVars, newest, changed, forceRender, connected, feed, wire, asks,
                       cooling, forcing, chunks, missed, reference, screen, lastShown, lost,
                       delayed, frames, phase, window, pendingResize, closed, renderer, size,
                       slots, nextIdx, lent, front, shownSize, running>>
    BY <1>4 DEF NotifySize, outputVars, decoderVars, viewVars, loopVars, slotVars, systemVars
  <2>2. resizes' \in Seq(Sizes)
    BY <1>0, <2>1
  <2>3. FeedTypeOK'
    BY <1>0, <2>1, <2>2, EncoderStays DEF FeedTypeOK
  <2> QED
    BY <1>0, <1>1, <2>1, <2>3 DEF pageVars
<1>5. CASE DecodeFails
  <2>1. /\ chunks # << >> /\ chunks' = Tail(chunks) /\ lost' = TRUE
        /\ reference' \in {Decoded(Head(chunks)), IF reference = "none" THEN "none" ELSE "broken"}
        /\ UNCHANGED <<encoderVars, newest, changed, forceRender, connected, feed, wire, asks,
                       resizes, cooling, forcing, missed, screen, lastShown, delayed, frames,
                       unseen, phase, window, pendingResize, closed, renderer, size, slots,
                       nextIdx, lent, front, shownSize, running>>
    BY <1>5 DEF DecodeFails, outputVars, lineVars, loopVars, slotVars, systemVars, mainVars
  <2>2. Head(chunks) \in Packets /\ chunks' \in Seq(Packets) /\ Len(chunks') <= PacketCap
    BY <1>0, <2>1, QueueGives
  <2>3. reference \in {"none", "exact", "broken"}
    BY <1>0 DEF FeedTypeOK
  <2>4. Decoded(Head(chunks)) \in {"none", "exact", "broken"}
    BY <2>2, <2>3, DecodedType
  <2>5. reference' \in {"none", "exact", "broken"}
    BY <2>1, <2>3, <2>4
  <2>6. FeedTypeOK'
    BY <1>0, <2>1, <2>2, <2>5, EncoderStays DEF FeedTypeOK
  <2> QED
    BY <1>0, <1>1, <2>1, <2>2, <2>6 DEF NativeTypes, pageVars
<1> QED
  BY <1>2, <1>3, <1>4, <1>5

\* The end of the process.
LEMMA ExitKeeps ==
  ASSUME ViewInv, viewer = "native", UNCHANGED <<pageVars, viewer>>, Exit
  PROVE  ViewInv'
<1>1. /\ FeedTypeOK /\ NativeTypes /\ window \in Sizes /\ size \in Sizes /\ shownSize \in Sizes
      /\ FeedCap \in Nat /\ WireCap \in Nat /\ PacketCap \in Nat /\ NumSlots \in Nat \ {0}
  BY FeedOK, NativeOK DEF ViewInv, ViewersTypeOK
<1>2. /\ connected' = FALSE /\ feed' = << >> /\ wire' = << >> /\ asks' = 0 /\ resizes' = << >>
      /\ chunks' = << >> /\ missed' = FALSE /\ reference' = "none" /\ screen' = Black
      /\ forcing' = FALSE
      /\ UNCHANGED <<encoderVars, newest, changed, forceRender, cooling, lastShown, lost>>
  BY DEF Exit, HangUp, outputVars
<1>3. /\ feed' \in Seq(Packets) /\ Len(feed') <= FeedCap /\ wire' \in Seq(Packets)
      /\ Len(wire') <= WireCap /\ resizes' \in Seq(Sizes) /\ chunks' \in Seq(Packets)
      /\ Len(chunks') <= PacketCap
  BY <1>1, <1>2
<1>4. FeedTypeOK'
  BY <1>1, <1>2, <1>3, EncoderStays DEF FeedTypeOK
<1>5. /\ running' = FALSE /\ unseen' = FALSE /\ delayed' = << >> /\ frames' = << >>
      /\ phase' = "ended"
      /\ pendingResize' = 0 /\ closed' = TRUE /\ slots' = [i \in Slots |-> NoSlot]
      /\ nextIdx' = 1 /\ lent' = {} /\ front' = 0
      /\ UNCHANGED <<window, renderer, size, shownSize, keyframeSeen, keyframeRequestPending,
                     viewer>>
  BY DEF Exit, pageVars
<1>6. slots' \in [Slots -> SlotRecords] /\ 1 \in Slots
      /\ \A i \in Slots : slots'[i].state = "none"
  BY <1>1, <1>5 DEF NoSlot, SlotRecords, Shades, Slots
<1>7. BuffersKept'
  BY <1>5, <1>6 DEF BuffersKept
<1>8. /\ frames' \in Seq(Frames) /\ Len(frames') <= 1
      /\ delayed' \in Seq(Frames) /\ Len(delayed') <= 1
  BY <1>5
<1>9. NativeTypes'
  BY <1>1, <1>5, <1>6, <1>8 DEF NativeTypes
<1>10. ViewersTypeOK'
  BY <1>1, <1>3, <1>4, <1>5, <1>6, <1>8 DEF ViewInv, ViewersTypeOK
<1> QED
  BY <1>5, <1>7, <1>9, <1>10 DEF ViewInv, SizesAgree

\* What the window system does while the display thread dispatches.
LEMMA DispatchKeeps ==
  ASSUME ViewInv, viewer = "native", UNCHANGED <<pageVars, viewer>>,
         \/ \E s \in Sizes : Configure(s)
         \/ RequestClose
         \/ \E i \in Slots : ReleaseSlot(i)
  PROVE  ViewInv'
<1>1. UNCHANGED <<encoderVars, newest, changed, forceRender, connected, feed, wire, asks, resizes,
                  cooling, forcing, chunks, missed, reference, screen, lastShown, lost, delayed,
                  frames, phase, renderer, size, nextIdx, front, shownSize, running, keyframeSeen,
                  keyframeRequestPending, viewer>>
  BY DEF Configure, RequestClose, ReleaseSlot, feedVars, outputVars, lineVars, decoderVars,
         viewVars, loopVars, slotVars, systemVars, mainVars, pageVars
<1>2. FeedTypeOK'
  BY <1>1, EncoderStays DEF ViewInv, ViewersTypeOK, FeedTypeOK
<1>3. CASE \E s \in Sizes : Configure(s)
  <2>1. PICK s \in Sizes : Configure(s)
    BY <1>3
  <2>2. /\ window' = s /\ unseen' = TRUE /\ pendingResize' = s /\ phase = "dispatch"
        /\ UNCHANGED <<closed, slots, lent>>
    BY <2>1 DEF Configure, Display, slotVars
  <2> QED
    BY <1>1, <1>2, <2>2, SizesOK DEF ViewInv, ViewersTypeOK, NativeTypes, BuffersKept, SizesAgree
<1>4. CASE RequestClose
  <2>1. closed' = TRUE /\ UNCHANGED <<window, pendingResize, slots, lent, unseen>>
    BY <1>4 DEF RequestClose, slotVars, systemVars, mainVars
  <2> QED
    BY <1>1, <1>2, <2>1 DEF ViewInv, ViewersTypeOK, NativeTypes, BuffersKept, SizesAgree
<1>5. CASE \E i \in Slots : ReleaseSlot(i)
  <2>1. PICK i \in Slots : ReleaseSlot(i)
    BY <1>5
  <2> DEFINE slot == IF slots[i].state = "zombie" THEN NoSlot ELSE [slots[i] EXCEPT !.state = "free"]
  <2>2. /\ i \in lent /\ lent' = lent \ {i} /\ slots' = [slots EXCEPT ![i] = slot]
        /\ UNCHANGED <<window, pendingResize, closed, unseen>>
    BY <2>1 DEF ReleaseSlot, loopVars, mainVars
  <2>3. /\ slots \in [Slots -> SlotRecords] /\ slots[i] \in SlotRecords
        /\ slots[i].state \in {"held", "zombie"}
    BY <2>2 DEF ViewInv, NativeTypes, BuffersKept
  <2>4. /\ slot \in SlotRecords /\ slot.state \in {"none", "free"}
        /\ slot.state = "free" => slot.size = slots[i].size /\ slots[i].state = "held"
    BY <2>3 DEF NoSlot, SlotRecords, Shades
  <2> HIDE DEF slot
  <2>5. /\ slots' \in [Slots -> SlotRecords]
        /\ \A j \in Slots : slots'[j] = IF j = i THEN slot ELSE slots[j]
    BY <2>2, <2>3, <2>4
  <2>6. BuffersKept'
    BY <1>1, <2>2, <2>4, <2>5 DEF ViewInv, BuffersKept
  <2> QED
    BY <1>1, <1>2, <2>2, <2>5, <2>6 DEF ViewInv, ViewersTypeOK, NativeTypes, SizesAgree
<1> QED
  BY <1>3, <1>4, <1>5

\* A free slot that is committed is lent, and has the renderer's size s.
LEMMA SlotCommitted ==
  ASSUME slots \in [Slots -> SlotRecords], BuffersKept, NEW s \in Sizes,
         NEW ss \in [Slots -> SlotRecords],
         \A i \in Slots : ss[i].state \in {"free", "held"} => ss[i].size = s,
         \A i \in Slots : ss[i].state \in {"held", "zombie"} <=> slots[i].state \in {"held", "zombie"},
         NEW i \in Free(ss), NEW n \in Shades, slots' = Hold(ss, i, n), size' = s,
         renderer' = "shm", lent' = lent \cup {i}
  PROVE  /\ slots' \in [Slots -> SlotRecords] /\ BuffersKept'
         /\ ss[i].size = s /\ i \in Slots /\ ss[i].n \in Shades
<1>1. i \in Slots /\ ss[i].state = "free" /\ ss[i] \in SlotRecords
  BY DEF Free
<1>2. /\ slots' \in [Slots -> SlotRecords]
      /\ \A j \in Slots : /\ slots'[j].size = ss[j].size
                          /\ slots'[j].state = IF j = i THEN "held" ELSE ss[j].state
  BY <1>1, HeldSlot
<1>3. BuffersKept'
  BY <1>1, <1>2 DEF BuffersKept
<1> QED
  BY <1>1, <1>2, <1>3 DEF SlotRecords

\* No slot is free: the new slots wait.
LEMMA NothingCommitted ==
  ASSUME slots \in [Slots -> SlotRecords], BuffersKept, NEW s \in Sizes,
         NEW ss \in [Slots -> SlotRecords],
         \A i \in Slots : ss[i].state \in {"free", "held"} => ss[i].size = s,
         \A i \in Slots : ss[i].state \in {"held", "zombie"} <=> slots[i].state \in {"held", "zombie"},
         slots' = ss, size' = s, lent' = lent
  PROVE  BuffersKept'
BY DEF BuffersKept

\* resize_and_prime: what is committed has the new size.
LEMMA ResizeAndPrimeKeeps ==
  ASSUME ViewInv, NEW s \in Sizes, ResizeAndPrime(s), renderer' = renderer
  PROVE  /\ slots' \in [Slots -> SlotRecords] /\ BuffersKept'
         /\ size' = s /\ lastShown' = lastShown /\ screen' \in {screen} \cup Shades
         /\ lent' \subseteq Slots /\ front' \in Slots \cup {0} /\ nextIdx' \in Slots
         /\ \/ shownSize' = s
            \/ UNCHANGED <<shownSize, screen, front>>
         /\ shownSize' \in {s, shownSize}
<1> USE DEF NoCommit, systemVars
<1>0. /\ slots \in [Slots -> SlotRecords] /\ BuffersKept /\ renderer \in {"shm", "egl"}
      /\ lent \subseteq Slots /\ front \in Slots \cup {0} /\ nextIdx \in Slots
      /\ Black \in Shades
  BY DEF ViewInv, ViewersTypeOK, NativeTypes, Shades
<1>1. CASE renderer = "egl"
  <2>1. /\ lent' = lent /\ front' = 0 /\ shownSize' = s /\ screen' = Black /\ size' = s
        /\ UNCHANGED <<slots, nextIdx, lastShown>>
    BY <1>1 DEF ResizeAndPrime, Commit
  <2>2. BuffersKept'
    BY <1>0, <1>1, <2>1 DEF BuffersKept
  <2> QED BY <1>0, <2>1, <2>2
<1>2. CASE renderer = "shm"
  <2> DEFINE ss == Recreated(ResizeSlots(s), s)
  <2>1. /\ ss \in [Slots -> SlotRecords]
        /\ \A i \in Slots : ss[i].state \in {"free", "held"} => ss[i].size = s
        /\ \A i \in Slots : ss[i].state \in {"held", "zombie"} <=> slots[i].state \in {"held", "zombie"}
    BY <1>0, <1>2, ResizedSlots, RecreatedSlots
  <2>2. /\ size' = s
        /\ IF Free(ss) = {} THEN slots' = ss /\ NoCommit /\ UNCHANGED nextIdx
           ELSE LET i == CHOOSE i \in Free(ss) : \A j \in Free(ss) : i <= j IN
                /\ slots' = Hold(ss, i, ss[i].n) /\ nextIdx' = After(i)
                /\ Commit(i, ss[i].size, ss[i].n) /\ UNCHANGED lastShown
    BY <1>2 DEF ResizeAndPrime
  <2> HIDE DEF ss
  <2>3. CASE Free(ss) = {}
    <3>1. BuffersKept'
      BY <1>0, <2>1, <2>2, <2>3, NothingCommitted
    <3> QED BY <1>0, <2>1, <2>2, <2>3, <3>1
  <2>4. CASE Free(ss) # {}
    <3> DEFINE i == CHOOSE i \in Free(ss) : \A j \in Free(ss) : i <= j
    <3>1. i \in Free(ss)
      BY <2>4, FirstSlot DEF Free
    <3>2. /\ slots' = Hold(ss, i, ss[i].n) /\ nextIdx' = After(i) /\ size' = s
          /\ Commit(i, ss[i].size, ss[i].n) /\ UNCHANGED lastShown
      BY <2>2, <2>4
    <3> HIDE DEF i
    <3>3. lent' = lent \cup {i} /\ front' = i /\ shownSize' = ss[i].size /\ screen' = ss[i].n
      BY <1>2, <3>2 DEF Commit
    <3>4. ss[i].n \in Shades
      BY <2>1, <3>1 DEF Free, SlotRecords
    <3>5. slots' \in [Slots -> SlotRecords] /\ BuffersKept' /\ ss[i].size = s /\ i \in Slots
      BY <1>0, <1>2, <2>1, <3>1, <3>2, <3>3, <3>4, SlotCommitted
    <3>6. nextIdx' \in Slots
      BY <3>2, <3>5, AfterIsSlot
    <3> QED BY <1>0, <3>2, <3>3, <3>4, <3>5, <3>6
  <2> QED BY <2>3, <2>4
<1> QED
  BY <1>0, <1>1, <1>2

LEMMA ApplyResizeKeeps ==
  ASSUME ViewInv, viewer = "native", UNCHANGED <<pageVars, viewer>>, ApplyResize
  PROVE  /\ ViewInv'
         /\ (screen' # screen \/ front' # front) => shownSize' = window /\ window' = window
<1>1. /\ running /\ phase' = "drain" /\ pendingResize' = 0
      /\ UNCHANGED <<encoderVars, newest, changed, forceRender, connected, feed, wire, asks,
                     resizes, cooling, forcing, chunks, missed, reference, lost, delayed, frames,
                     window, closed, renderer, unseen, running, keyframeSeen,
                     keyframeRequestPending, viewer>>
  BY DEF ApplyResize, Display, outputVars, lineVars, decoderVars, mainVars, pageVars
<1>2. /\ FeedTypeOK /\ NativeTypes /\ BuffersKept /\ SizesAgree /\ window \in Sizes
      /\ size \in Sizes /\ shownSize \in Sizes /\ lent \subseteq Slots /\ nextIdx \in Slots
      /\ front \in Slots \cup {0} /\ slots \in [Slots -> SlotRecords] /\ screen \in Shades
  BY DEF ViewInv, ViewersTypeOK, NativeTypes, FeedTypeOK, Shades
<1>3. /\ slots' \in [Slots -> SlotRecords] /\ BuffersKept' /\ size' = window
      /\ lastShown' = lastShown /\ screen' \in Shades
      /\ lent' \subseteq Slots /\ front' \in Slots \cup {0} /\ nextIdx' \in Slots
      /\ (screen' # screen \/ front' # front) => shownSize' = window
      /\ shownSize' \in Sizes
  <2>1. CASE pendingResize = 0
    <3>1. UNCHANGED <<size, slots, nextIdx, lent, front, shownSize, screen, lastShown>>
      BY <2>1 DEF ApplyResize, NoCommit, systemVars
    <3>2. size = window
      BY <1>1, <1>2, <2>1 DEF SizesAgree
    <3>3. BuffersKept'
      BY <1>1, <1>2, <3>1 DEF BuffersKept
    <3> QED BY <1>2, <3>1, <3>2, <3>3
  <2>2. CASE pendingResize # 0
    <3>1. ResizeAndPrime(window)
      BY <1>2, <2>2 DEF ApplyResize, SizesAgree
    <3>2. /\ slots' \in [Slots -> SlotRecords] /\ BuffersKept'
          /\ size' = window /\ lastShown' = lastShown /\ screen' \in {screen} \cup Shades
          /\ lent' \subseteq Slots /\ front' \in Slots \cup {0} /\ nextIdx' \in Slots
          /\ \/ shownSize' = window
             \/ UNCHANGED <<shownSize, screen, front>>
          /\ shownSize' \in {window, shownSize}
      BY <1>1, <1>2, <3>1, ResizeAndPrimeKeeps
    <3> QED BY <1>2, <3>2
  <2> QED BY <2>1, <2>2
<1>4. FeedTypeOK'
  BY <1>1, <1>2, <1>3, EncoderStays DEF FeedTypeOK, Shades
<1>5. ViewersTypeOK' /\ NativeTypes'
  BY <1>1, <1>2, <1>3, <1>4 DEF ViewInv, ViewersTypeOK, NativeTypes
<1>6. SizesAgree'
  BY <1>1, <1>2, <1>3 DEF SizesAgree
<1> QED
  BY <1>1, <1>3, <1>5, <1>6 DEF ViewInv

\* Either renderer: a frame is only committed in a buffer of its size, and the
\* renderer has that of the window.
LEMMA RenderKeeps ==
  ASSUME ViewInv, running, phase = "drain", NEW frame \in Frames, size' = size, renderer' = renderer,
         IF renderer = "shm" THEN RenderShm(frame) ELSE RenderEgl(frame)
  PROVE  /\ slots' \in [Slots -> SlotRecords] /\ BuffersKept'
         /\ lent' \subseteq Slots /\ front' \in Slots \cup {0} /\ nextIdx' \in Slots
         /\ shownSize' \in Sizes
         /\ screen' \in Shades /\ lastShown' \in 0..MaxPictures
         /\ (screen' # screen \/ front' # front) => shownSize' = window
<1> USE DEF NoCommit, systemVars
<1>0. /\ slots \in [Slots -> SlotRecords] /\ BuffersKept /\ renderer \in {"shm", "egl"}
      /\ size = window /\ window \in Sizes /\ shownSize \in Sizes
      /\ lent \subseteq Slots /\ front \in Slots \cup {0} /\ nextIdx \in Slots
      /\ screen \in Shades /\ lastShown \in 0..MaxPictures
  BY DEF ViewInv, ViewersTypeOK, NativeTypes, FeedTypeOK, SizesAgree, Shades
<1>1. frame.n \in Shades /\ frame.n \in {Garbage} \cup 1..MaxPictures /\ MaxPictures \in Nat
  BY FeedOK DEF Frames, Shades
<1>2. ASSUME Show(frame.n) PROVE screen' \in Shades /\ lastShown' \in 0..MaxPictures
  BY <1>0, <1>1, <1>2 DEF Show
<1>3. CASE renderer = "egl"
  <2>1. /\ slots' = slots /\ nextIdx' = nextIdx
        /\ \/ Commit(0, size, frame.n) /\ Show(frame.n)
           \/ UNCHANGED <<lent, front, shownSize, screen, lastShown>>
    BY <1>3 DEF RenderEgl
  <2>2. lent' = lent /\ front' \in {0, front}
    BY <1>3, <2>1 DEF Commit
  <2>3. BuffersKept'
    BY <1>0, <1>3, <2>1, <2>2 DEF BuffersKept
  <2>4. /\ shownSize' \in Sizes /\ screen' \in Shades /\ lastShown' \in 0..MaxPictures
        /\ (screen' # screen \/ front' # front) => shownSize' = window
    BY <1>0, <1>2, <2>1 DEF Commit
  <2> QED BY <1>0, <2>1, <2>2, <2>3, <2>4
<1>4. CASE renderer = "shm"
  <2> DEFINE ss == Recreated(slots, size)
  <2>1. /\ ss \in [Slots -> SlotRecords]
        /\ \A i \in Slots : ss[i].state \in {"free", "held"} => ss[i].size = size
        /\ \A i \in Slots : ss[i].state \in {"held", "zombie"} <=> slots[i].state \in {"held", "zombie"}
    BY <1>0, <1>4, RecreatedSlots DEF BuffersKept
  <2>2. CASE slots' = ss /\ UNCHANGED <<lent, front, shownSize, screen, lastShown, nextIdx>>
    <3>1. BuffersKept'
      BY <1>0, <2>1, <2>2, NothingCommitted
    <3> QED BY <1>0, <2>1, <2>2, <3>1
  <2>3. CASE /\ Free(ss) # {} /\ slots' = Hold(ss, NextReleased(ss), frame.n)
             /\ nextIdx' = After(NextReleased(ss))
             /\ Commit(NextReleased(ss), ss[NextReleased(ss)].size, frame.n)
             /\ Show(frame.n)
    <3> DEFINE i == NextReleased(ss)
    <3>1. i \in Free(ss)
      BY <2>3, NextReleasedIsFree
    <3> HIDE DEF ss
    <3>2. slots' = Hold(ss, i, frame.n) /\ nextIdx' = After(i)
      BY <2>3
    <3>3. lent' = lent \cup {i} /\ front' = i /\ shownSize' = ss[i].size
      BY <1>4, <2>3 DEF Commit
    <3> HIDE DEF i
    <3>4. slots' \in [Slots -> SlotRecords] /\ BuffersKept' /\ ss[i].size = size /\ i \in Slots
      BY <1>0, <1>1, <1>4, <2>1, <3>1, <3>2, <3>3, SlotCommitted
    <3>5. nextIdx' \in Slots
      BY <3>2, <3>4, AfterIsSlot
    <3>6. screen' \in Shades /\ lastShown' \in 0..MaxPictures
      BY <1>2, <2>3
    <3> QED BY <1>0, <3>2, <3>3, <3>4, <3>5, <3>6
  <2>4. \/ slots' = ss /\ UNCHANGED <<lent, front, shownSize, screen, lastShown, nextIdx>>
        \/ /\ Free(ss) # {} /\ slots' = Hold(ss, NextReleased(ss), frame.n)
           /\ nextIdx' = After(NextReleased(ss))
           /\ Commit(NextReleased(ss), ss[NextReleased(ss)].size, frame.n)
           /\ Show(frame.n)
    <3> HIDE DEF ss
    <3>1. CASE Free(ss) = {} \/ frame.size # ss[NextReleased(ss)].size
      BY <1>4, <3>1 DEF RenderShm, ss
    <3>2. CASE ~(Free(ss) = {} \/ frame.size # ss[NextReleased(ss)].size)
      BY <1>4, <3>2 DEF RenderShm, ss
    <3> QED BY <3>1, <3>2
  <2> QED BY <2>2, <2>3, <2>4
<1> QED
  BY <1>0, <1>3, <1>4

LEMMA DrainKeeps ==
  ASSUME ViewInv, viewer = "native", UNCHANGED <<pageVars, viewer>>, Drain
  PROVE  /\ ViewInv'
         /\ (screen' # screen \/ front' # front) => shownSize' = window /\ window' = window
<1>1. /\ running /\ phase = "drain" /\ phase' \in {"ended", "dispatch"} /\ frames' = << >>
      /\ UNCHANGED <<encoderVars, newest, changed, forceRender, connected, feed, wire, asks,
                     resizes, cooling, forcing, chunks, missed, reference, lost, delayed, window,
                     pendingResize, closed, renderer, size, unseen, running, keyframeSeen,
                     keyframeRequestPending, viewer>>
  BY DEF Drain, Display, outputVars, lineVars, decoderVars, mainVars, pageVars
<1>2. /\ FeedTypeOK /\ NativeTypes /\ BuffersKept /\ SizesAgree
      /\ shownSize \in Sizes /\ lent \subseteq Slots /\ nextIdx \in Slots
      /\ front \in Slots \cup {0} /\ slots \in [Slots -> SlotRecords] /\ screen \in Shades
      /\ lastShown \in 0..MaxPictures /\ frames \in Seq(Frames)
  BY DEF ViewInv, ViewersTypeOK, NativeTypes, FeedTypeOK, Shades
<1>3. /\ slots' \in [Slots -> SlotRecords] /\ BuffersKept'
      /\ lent' \subseteq Slots /\ front' \in Slots \cup {0} /\ nextIdx' \in Slots
      /\ shownSize' \in Sizes
      /\ screen' \in Shades /\ lastShown' \in 0..MaxPictures
      /\ (screen' # screen \/ front' # front) => shownSize' = window
  <2>1. CASE frames = << >>
    <3>1. UNCHANGED <<slots, nextIdx, lent, front, shownSize, screen, lastShown>>
      BY <2>1 DEF Drain, NoCommit, systemVars
    <3>2. BuffersKept'
      BY <1>1, <1>2, <3>1 DEF BuffersKept
    <3> QED BY <1>2, <3>1, <3>2
  <2>2. CASE frames # << >>
    <3>1. Last(frames) \in Frames
      BY <1>2, <2>2 DEF Last
    <3>2. IF renderer = "shm" THEN RenderShm(Last(frames)) ELSE RenderEgl(Last(frames))
      BY <2>2 DEF Drain
    <3> QED BY <1>1, <3>1, <3>2, RenderKeeps
  <2> QED BY <2>1, <2>2
<1>4. FeedTypeOK'
  BY <1>1, <1>2, <1>3, EncoderStays DEF FeedTypeOK, Shades
<1>5. frames' \in Seq(Frames) /\ Len(frames') <= 1
  BY <1>1
<1>6. ViewersTypeOK' /\ NativeTypes'
  BY <1>1, <1>2, <1>3, <1>4, <1>5 DEF ViewInv, ViewersTypeOK, NativeTypes
<1>7. SizesAgree'
  BY <1>1, <1>2, <1>3 DEF SizesAgree
<1> QED
  BY <1>1, <1>3, <1>6, <1>7 DEF ViewInv

LEMMA EmptyFits ==
  \A n : n = 0 => n <= FrameCap /\ n <= FeedCap /\ n <= WireCap
  BY FeedOK

LEMMA ViewInitHolds == ViewersInit => ViewInv
<1> SUFFICES ASSUME ViewersInit PROVE ViewInv
  OBVIOUS
<1> USE FeedOK, PageOK, NativeOK DEF ViewersInit, FeedInit, PageInit, NativeInit
<1>1. feed \in Seq(Packets) /\ wire \in Seq(Packets) /\ chunks \in Seq(Packets)
      /\ delayed \in Seq(Frames) /\ frames \in Seq(Frames) /\ resizes \in Seq(Sizes)
      /\ queued \in Seq(Pictures) /\ Len(queued) = 0
      /\ Len(feed) = 0 /\ Len(wire) = 0 /\ Len(chunks) = 0 /\ Len(delayed) = 0 /\ Len(frames) = 0
  OBVIOUS
<1>2. newest \in Pictures
  BY DEF Pictures
<1>3. FeedTypeOK
  <2>1. /\ changed \in BOOLEAN /\ forceRender \in BOOLEAN /\ connected \in BOOLEAN
        /\ cooling \in BOOLEAN /\ forcing \in BOOLEAN
        /\ asks \in Nat /\ missed \in BOOLEAN /\ lost \in BOOLEAN
        /\ reference \in {"none", "exact", "broken"}
    OBVIOUS
  <2>2. screen \in {Black, Garbage} \cup 1..MaxPictures /\ lastShown \in 0..MaxPictures
    OBVIOUS
  <2>3. Len(feed) <= FeedCap /\ Len(wire) <= WireCap
    BY <1>1
  <2>4. EncoderTypeOK
    <3>1. /\ resizeTo = 0 /\ late = FALSE /\ encSize = 1 /\ forceKeyframe = FALSE
          /\ stream = "fresh"
      <4>1. FeedInit
        OBVIOUS
      <4> HIDE DEF ViewersInit, PageInit, NativeInit
      <4> QED BY <4>1
    <3> HIDE DEF ViewersInit, FeedInit, PageInit, NativeInit
    <3>2. Len(queued) <= FrameCap
      BY <1>1, EmptyFits
    <3>3. queued \in Seq(Pictures)
      BY <1>1
    <3>4. late \in BOOLEAN /\ forceKeyframe \in BOOLEAN
      BY <3>1, Zenon
    <3>5. resizeTo \in Nat /\ encSize \in Nat \ {0}
      <4>1. resizeTo = 0 /\ encSize = 1
        BY <3>1, Zenon
      <4> QED BY <4>1
    <3>6. stream \in {"fresh", "flowing", "torn"}
      BY <3>1, Zenon
    <3> QED BY <3>2, <3>3, <3>4, <3>5, <3>6 DEF EncoderTypeOK
  <2> HIDE DEF ViewersInit, FeedInit, PageInit, NativeInit
  <2> QED BY <1>1, <1>2, <2>1, <2>2, <2>3, <2>4 DEF FeedTypeOK
<1>4. FreshSlot(window) \in SlotRecords /\ FreshSlot(window).state = "free"
      /\ FreshSlot(window).size = window
  BY DEF FreshSlot, SlotRecords, Shades
<1>5. 1 \in Slots /\ nextIdx \in Slots
  BY DEF Slots
<1>6. /\ slots \in [Slots -> SlotRecords]
      /\ \A i \in Slots : /\ slots[i].size = window
                          /\ slots[i].state = IF renderer = "shm" /\ i = 1 THEN "held" ELSE "free"
  BY <1>4 DEF SlotRecords
<1>7. BuffersKept
  BY <1>5, <1>6 DEF BuffersKept
<1>8. ViewersTypeOK
  <2>1. /\ Len(chunks) <= (IF viewer = "page" THEN MaxDecodeQueue + 1 ELSE PacketCap)
        /\ Len(delayed) <= 1 /\ Len(frames) <= 1
    BY <1>1
  <2>2. /\ keyframeSeen \in BOOLEAN /\ keyframeRequestPending \in BOOLEAN
        /\ phase \in {"dispatch", "drain", "ended"}
        /\ window \in Sizes /\ pendingResize \in Sizes \cup {0} /\ size \in Sizes
        /\ lent \subseteq Slots /\ front \in Slots \cup {0} /\ shownSize \in Sizes
    BY <1>5
  <2> QED BY <1>3, <1>5, <2>1, <2>2 DEF ViewersTypeOK
<1>9. NativeTypes
  BY <1>1, <1>6, ViewersOK DEF NativeTypes
<1>10. SizesAgree
  BY DEF SizesAgree
<1> QED
  BY <1>7, <1>8, <1>9, <1>10 DEF ViewInv

LEMMA ViewStutter ==
  ASSUME ViewInv, UNCHANGED viewerVars
  PROVE  ViewInv'
BY EncoderStays
   DEF ViewInv, ViewersTypeOK, FeedTypeOK, NativeTypes, BuffersKept, SizesAgree, viewerVars,
       feedVars, pageVars, nativeVars, outputVars, lineVars, decoderVars, viewVars, loopVars,
       slotVars, systemVars, mainVars

LEMMA ViewStep ==
  ASSUME ViewInv, [ViewersNext]_viewerVars
  PROVE  ViewInv'
<1>1. CASE ByNative(NativeStep)
  BY <1>1, TasksKeep, ExitKeeps, DispatchKeeps, ApplyResizeKeeps, DrainKeeps
  DEF ByNative, NativeStep, DisplayLoop
<1> QED
  BY <1>1, ServerKeeps, PageKeeps, ViewStutter DEF ViewersNext

(***************************************************************************)
(* The theorems.                                                            *)
(***************************************************************************)

THEOREM ViewKept == ViewersSpec => []ViewInv
<1>1. ViewersInit => ViewInv
  BY ViewInitHolds
<1>2. ViewInv /\ [ViewersNext]_viewerVars => ViewInv'
  BY ViewStep
<1> QED
  BY <1>1, <1>2, PTL DEF ViewersSpec

\* Of the queues between the encoder and either screen none outgrows its
\* bound; the page's decoder, which has none of its own, is kept at one more
\* than MAX_DECODE_QUEUE by handleVideoFrame.
THEOREM QueuesBounded == ViewersSpec => []ViewersTypeOK
<1>1. ViewInv => ViewersTypeOK
  BY DEF ViewInv
<1> QED
  BY <1>1, ViewKept, PTL

\* ShmRenderer: however the window system holds on to buffers and the window
\* is resized, no buffer it holds is given up or drawn on.
THEOREM BuffersAreKept == ViewersSpec => []BuffersKept
<1>1. ViewInv => BuffersKept
  BY DEF ViewInv
<1> QED
  BY <1>1, ViewKept, PTL

\* run_display_loop: once a size is acknowledged nothing of another size is
\* committed.
THEOREM SizeIsAcked == ViewersSpec => AckedSize
<1> DEFINE A == running' /\ (screen' # screen \/ front' # front) => shownSize' = window
<1>1. ASSUME ViewInv, ViewersNext PROVE A
  <2>1. CASE ByServer(ServerStep)
    BY <1>1, <2>1, ServerTypes
    DEF ByServer, nativeVars, systemVars, ViewInv, ViewersTypeOK
  <2>2. CASE ByPage(PageStep)
    <3>1. viewer = "page" /\ shownSize' = shownSize
      BY <2>2 DEF ByPage, nativeVars, systemVars
    <3>2. shownSize = window
      BY <1>1, <3>1 DEF ViewInv, SizesAgree
    <3> QED BY <3>1, <3>2
  <2>3. CASE ByNative(NativeStep)
    <3>1. CASE ApplyResize \/ Drain
      BY <1>1, <2>3, <3>1, ApplyResizeKeeps, DrainKeeps DEF ByNative
    <3>2. CASE Exit
      BY <3>2 DEF Exit
    <3>3. CASE \/ ReceivePacket \/ DecodePacket \/ DecodeFails \/ NotifySize \/ RequestClose
               \/ \E s \in Sizes : Configure(s)
               \/ \E i \in Slots : ReleaseSlot(i)
      <4>1. UNCHANGED <<screen, front>>
        BY <3>3 DEF ReceivePacket, DecodePacket, DecodeFails, NotifySize, RequestClose, Configure,
           ReleaseSlot, feedVars, viewVars, nativeVars, systemVars
      <4> QED BY <4>1
    <3> QED BY <2>3, <3>1, <3>2, <3>3 DEF ByNative, NativeStep, DisplayLoop
  <2> QED BY <1>1, <2>1, <2>2, <2>3 DEF ViewersNext
<1>2. ViewInv /\ [ViewersNext]_viewerVars => [A]_<<feedVars, nativeVars>>
  <2> SUFFICES ASSUME ViewInv, [ViewersNext]_viewerVars PROVE [A]_<<feedVars, nativeVars>>
    OBVIOUS
  <2>1. CASE ViewersNext
    BY <1>1, <2>1
  <2>2. CASE UNCHANGED viewerVars
    BY <2>2 DEF viewerVars
  <2> QED BY <2>1, <2>2
<1> QED
  BY <1>2, ViewKept, PTL DEF ViewersSpec, AckedSize

-----------------------------------------------------------------------------
(***************************************************************************)
(* Screen.  That every step of the feed and of a viewer is a step of Screen,  *)
(* or none, rests on two facts about all that is under way: its pictures are  *)
(* in order between the last one shown and the newest, and unless something   *)
(* was lost every packet still has the one it is a delta against.            *)
(***************************************************************************)

Ns(q) == {q[i].pic.n : i \in 1..Len(q)}
Leq(S, T) == \A a \in S, b \in T : a <= b
Ordered(q) == \A i, j \in 1..Len(q) : i < j => q[i].pic.n <= q[j].pic.n

FrameNs == {frames[i].n : i \in 1..Len(frames)} \ {Garbage}
DelayedNs == {delayed[i].n : i \in 1..Len(delayed)} \ {Garbage}
QueuedNs == {queued[i].n : i \in 1..Len(queued)}

\* Last shown, frame, frame held back, packets to decode, socket, receiver,
\* frames to encode, newest.
Chain(s, G, D, C, W, F, Q, m) ==
  /\ Leq({s}, G \cup D \cup C \cup W \cup F \cup Q \cup {m})
  /\ Leq(G, D \cup C \cup W \cup F \cup Q \cup {m})
  /\ Leq(D, C \cup W \cup F \cup Q \cup {m})
  /\ Leq(C, W \cup F \cup Q \cup {m})
  /\ Leq(W, F \cup Q \cup {m})
  /\ Leq(F, Q \cup {m})
  /\ Leq(Q, {m})

InOrder ==
  /\ Ordered(chunks) /\ Ordered(wire) /\ Ordered(feed)
  /\ Chain(lastShown, FrameNs, DelayedNs, Ns(chunks), Ns(wire), Ns(feed), QueuedNs, newest.n)

Whole(q) == \A i \in 1..Len(q) : q[i].whole
Sound(q) == \A i \in 1..Len(q) : q[i].key \/ q[i].whole

Intact ==
  /\ screen # Garbage /\ reference # "broken" /\ stream # "torn"
  /\ \A i \in 1..Len(frames) : frames[i].n # Garbage
  /\ \A i \in 1..Len(delayed) : delayed[i].n # Garbage
  /\ \A i \in Slots : slots[i].n # Garbage
  /\ Whole(wire) /\ Whole(feed) /\ Sound(chunks)
  /\ viewer = "native" => ~missed

\* The page decodes a keyframe first, and its decoder is given every packet
\* after it or waits for the next one.
PageSynced ==
  /\ frames = << >> /\ delayed = << >>
  /\ keyframeSeen => ~missed
  /\ reference = "none" => /\ chunks # << >> => chunks[1].key
                           /\ keyframeSeen => chunks # << >>

ScreenInv ==
  /\ InOrder
  /\ ~lost => Intact
  /\ viewer = "page" => PageSynced

\* What moves from one place to the next, is added at the end or goes, and
\* what is shown.
LEMMA ChainKept ==
  ASSUME NEW s \in Int, NEW G \in SUBSET Int, NEW D \in SUBSET Int, NEW C \in SUBSET Int,
         NEW W \in SUBSET Int, NEW F \in SUBSET Int, NEW Q \in SUBSET Int, NEW m \in Int,
         Chain(s, G, D, C, W, F, Q, m)
  PROVE  /\ \A Q2 \in SUBSET (Q \cup {m}) : Chain(s, G, D, C, W, F, Q2, m)
         /\ \A n \in Int : m <= n => Chain(s, G, D, C, W, F, Q, n)
         /\ \A h \in Q : \A F2 \in SUBSET (F \cup {h}) : Chain(s, G, D, C, W, F2, {}, m)
         /\ \A F2 \in SUBSET F, h \in F : Leq({h}, F2) => Chain(s, G, D, C, W \cup {h}, F2, Q, m)
         /\ \A W2 \in SUBSET W, h \in W : \A C2 \in SUBSET (C \cup {h}) :
              Leq({h}, W2) => Chain(s, G, D, C2, W2, F, Q, m)
         /\ \A C2 \in SUBSET C, h \in C : \A D2 \in SUBSET (D \cup {h}) :
              Leq({h}, C2) => Chain(s, G, D2, C2, W, F, Q, m)
         /\ \A D2 \in SUBSET D, h \in D : \A G2 \in SUBSET (G \cup {h}) :
              Leq({h}, D2) => Chain(s, G2, D2, C, W, F, Q, m)
         /\ \A C2 \in SUBSET C, h \in C : Leq({h}, C2) => Chain(h, {}, {}, C2, W, F, Q, m)
         /\ \A t \in G : Chain(t, {}, D, C, W, F, Q, m)
         /\ \A G2 \in SUBSET G, D2 \in SUBSET D, C2 \in SUBSET C, W2 \in SUBSET W,
              F2 \in SUBSET F, Q2 \in SUBSET Q : Chain(s, G2, D2, C2, W2, F2, Q2, m)
<1>1. \A a, b, c \in Int : a <= b /\ b <= c => a <= c
  OBVIOUS
<1>2. \A a \in Int : a <= a
  OBVIOUS
<1>3. /\ Leq({s}, G) /\ Leq({s}, D) /\ Leq({s}, C) /\ Leq({s}, W) /\ Leq({s}, F) /\ Leq({s}, Q)
      /\ s <= m
      /\ Leq(G, D) /\ Leq(G, C) /\ Leq(G, W) /\ Leq(G, F) /\ Leq(G, Q) /\ Leq(G, {m})
      /\ Leq(D, C) /\ Leq(D, W) /\ Leq(D, F) /\ Leq(D, Q) /\ Leq(D, {m})
      /\ Leq(C, W) /\ Leq(C, F) /\ Leq(C, Q) /\ Leq(C, {m})
      /\ Leq(W, F) /\ Leq(W, Q) /\ Leq(W, {m})
      /\ Leq(F, Q) /\ Leq(F, {m}) /\ Leq(Q, {m})
  BY DEF Chain, Leq
<1>4. ASSUME NEW Q2 \in SUBSET (Q \cup {m}) PROVE Chain(s, G, D, C, W, F, Q2, m)
  BY <1>2, <1>3 DEF Chain, Leq
<1>5. ASSUME NEW n \in Int, m <= n PROVE Chain(s, G, D, C, W, F, Q, n)
  <2>1. /\ Leq({s}, {n}) /\ Leq(G, {n}) /\ Leq(D, {n}) /\ Leq(C, {n}) /\ Leq(W, {n})
        /\ Leq(F, {n}) /\ Leq(Q, {n})
    BY <1>1, <1>3, <1>5 DEF Leq
  <2> QED BY <1>3, <2>1 DEF Chain, Leq
<1>6. ASSUME NEW h \in Q, NEW F2 \in SUBSET (F \cup {h}) PROVE Chain(s, G, D, C, W, F2, {}, m)
  BY <1>3 DEF Chain, Leq
<1>7. ASSUME NEW F2 \in SUBSET F, NEW h \in F, Leq({h}, F2)
      PROVE  Chain(s, G, D, C, W \cup {h}, F2, Q, m)
  BY <1>3, <1>7 DEF Chain, Leq
<1>8. ASSUME NEW W2 \in SUBSET W, NEW h \in W, NEW C2 \in SUBSET (C \cup {h}), Leq({h}, W2)
      PROVE  Chain(s, G, D, C2, W2, F, Q, m)
  BY <1>3, <1>8 DEF Chain, Leq
<1>9. ASSUME NEW C2 \in SUBSET C, NEW h \in C, NEW D2 \in SUBSET (D \cup {h}), Leq({h}, C2)
      PROVE  Chain(s, G, D2, C2, W, F, Q, m)
  BY <1>3, <1>9 DEF Chain, Leq
<1>10. ASSUME NEW D2 \in SUBSET D, NEW h \in D, NEW G2 \in SUBSET (G \cup {h}), Leq({h}, D2)
       PROVE  Chain(s, G2, D2, C, W, F, Q, m)
  BY <1>3, <1>10 DEF Chain, Leq
<1>11. ASSUME NEW C2 \in SUBSET C, NEW h \in C, Leq({h}, C2)
       PROVE  Chain(h, {}, {}, C2, W, F, Q, m)
  BY <1>3, <1>11 DEF Chain, Leq
<1>12. ASSUME NEW t \in G PROVE Chain(t, {}, D, C, W, F, Q, m)
  BY <1>3, <1>12 DEF Chain, Leq
<1>13. ASSUME NEW G2 \in SUBSET G, NEW D2 \in SUBSET D, NEW C2 \in SUBSET C, NEW W2 \in SUBSET W,
              NEW F2 \in SUBSET F, NEW Q2 \in SUBSET Q
       PROVE  Chain(s, G2, D2, C2, W2, F2, Q2, m)
  BY <1>3, <1>13 DEF Chain, Leq
<1> QED
  BY <1>4, <1>5, <1>6, <1>7, <1>8, <1>9, <1>10, <1>11, <1>12, <1>13

LEMMA NumbersOK ==
  ASSUME NEW q \in Seq(Packets)
  PROVE  Ns(q) \subseteq Int
<1>1. \A p \in Packets : p.pic.n \in Int
  BY FeedOK DEF Packets, Pictures
<1>2. \A i \in 1..Len(q) : q[i] \in Packets
  OBVIOUS
<1> QED
  BY <1>1, <1>2 DEF Ns

LEMMA NumbersTail ==
  ASSUME NEW q \in Seq(Packets), q # << >>
  PROVE  /\ Head(q) \in Packets /\ Tail(q) \in Seq(Packets)
         /\ Head(q).pic.n \in Ns(q) /\ Ns(Tail(q)) \subseteq Ns(q)
         /\ Ordered(q) => Ordered(Tail(q)) /\ Leq({Head(q).pic.n}, Ns(Tail(q)))
         /\ Whole(q) => Whole(Tail(q)) /\ Head(q).whole
         /\ Sound(q) => Sound(Tail(q)) /\ (Head(q).key \/ Head(q).whole)
<1>1. /\ Len(q) \in Nat /\ Len(q) >= 1 /\ Len(Tail(q)) = Len(q) - 1
      /\ Head(q) = q[1] /\ 1 \in 1..Len(q)
      /\ \A i \in 1..Len(Tail(q)) : Tail(q)[i] = q[i + 1] /\ i + 1 \in 1..Len(q)
  OBVIOUS
<1>0. Head(q) \in Packets /\ Tail(q) \in Seq(Packets)
  OBVIOUS
<1> DEFINE t == Tail(q)
<1> HIDE DEF t
<1>2. /\ Head(q) = q[1] /\ 1 \in 1..Len(q)
      /\ \A i \in 1..Len(t) : t[i] = q[i + 1] /\ i + 1 \in 1..Len(q)
      /\ Len(t) \in Nat /\ Len(q) \in Nat
  BY <1>1 DEF t
<1>3. Head(q).pic.n \in Ns(q) /\ Ns(t) \subseteq Ns(q)
  BY <1>2 DEF Ns
<1>4. ASSUME Ordered(q) PROVE Ordered(t) /\ Leq({Head(q).pic.n}, Ns(t))
  <2>1. ASSUME NEW i \in 1..Len(t), NEW j \in 1..Len(t), i < j
        PROVE  t[i].pic.n <= t[j].pic.n
    <3>1. i + 1 \in 1..Len(q) /\ j + 1 \in 1..Len(q) /\ i + 1 < j + 1
      BY <1>2, <2>1
    <3>2. q[i + 1].pic.n <= q[j + 1].pic.n
      BY <1>4, <3>1 DEF Ordered
    <3> QED BY <1>2, <3>2
  <2>2. ASSUME NEW i \in 1..Len(t)
        PROVE  q[1].pic.n <= t[i].pic.n
    <3>1. 1 \in 1..Len(q) /\ i + 1 \in 1..Len(q) /\ 1 < i + 1
      BY <1>2
    <3>2. q[1].pic.n <= q[i + 1].pic.n
      BY <1>4, <3>1 DEF Ordered
    <3> QED BY <1>2, <3>2
  <2>3. Ordered(t)
    BY <2>1 DEF Ordered
  <2> QED BY <1>2, <2>2, <2>3 DEF Leq, Ns
<1>5. /\ Whole(q) => Whole(t) /\ Head(q).whole
      /\ Sound(q) => Sound(t) /\ (Head(q).key \/ Head(q).whole)
  BY <1>2 DEF Whole, Sound
<1> QED
  BY <1>0, <1>3, <1>4, <1>5 DEF t

LEMMA NumbersAppend ==
  ASSUME NEW q \in Seq(Packets), NEW p \in Packets
  PROVE  /\ Ns(Append(q, p)) = Ns(q) \cup {p.pic.n}
         /\ Ordered(q) /\ Leq(Ns(q), {p.pic.n}) => Ordered(Append(q, p))
         /\ Whole(q) /\ p.whole => Whole(Append(q, p))
         /\ Sound(q) /\ (p.key \/ p.whole) => Sound(Append(q, p))
<1> DEFINE t == Append(q, p)
<1>1. /\ Len(q) \in Nat /\ Len(t) = Len(q) + 1 /\ t[Len(q) + 1] = p
      /\ \A i \in 1..Len(q) : t[i] = q[i]
  OBVIOUS
<1> HIDE DEF t
<1>2. /\ 1..Len(t) = 1..Len(q) \cup {Len(q) + 1}
      /\ \A i \in 1..Len(t) : t[i] = IF i = Len(q) + 1 THEN p ELSE q[i]
  BY <1>1
<1>3. Ns(t) = Ns(q) \cup {p.pic.n}
  <2>1. Ns(t) \subseteq Ns(q) \cup {p.pic.n}
    BY <1>1, <1>2 DEF Ns
  <2>2. Ns(q) \cup {p.pic.n} \subseteq Ns(t)
    BY <1>1, <1>2 DEF Ns
  <2> QED BY <2>1, <2>2
<1>4. ASSUME Ordered(q), Leq(Ns(q), {p.pic.n}) PROVE Ordered(t)
  <2> SUFFICES ASSUME NEW i \in 1..Len(t), NEW j \in 1..Len(t), i < j
               PROVE  t[i].pic.n <= t[j].pic.n
    BY DEF Ordered
  <2>1. i \in 1..Len(q) /\ t[i] = q[i]
    BY <1>1
  <2>2. q[i].pic.n <= p.pic.n
    BY <1>4, <2>1 DEF Leq, Ns
  <2>3. CASE j = Len(q) + 1
    BY <1>1, <2>1, <2>2, <2>3
  <2>4. CASE j \in 1..Len(q)
    BY <1>1, <1>4, <2>1, <2>4 DEF Ordered
  <2> QED BY <1>1, <2>3, <2>4
<1>5. /\ Whole(q) /\ p.whole => Whole(t)
      /\ Sound(q) /\ (p.key \/ p.whole) => Sound(t)
  BY <1>1, <1>2 DEF Whole, Sound
<1> QED
  BY <1>3, <1>4, <1>5 DEF t

LEMMA NumbersNone ==
  /\ Ns(<< >>) = {} /\ Ordered(<< >>) /\ Whole(<< >>) /\ Sound(<< >>)
BY DEF Ns, Ordered, Whole, Sound

\* The types of all that is under way.
LEMMA UnderWay ==
  ASSUME ViewInv
  PROVE  /\ feed \in Seq(Packets) /\ wire \in Seq(Packets) /\ chunks \in Seq(Packets)
         /\ frames \in Seq(Frames) /\ Len(frames) <= 1
         /\ delayed \in Seq(Frames) /\ Len(delayed) <= 1
         /\ newest \in Pictures /\ newest.n \in Int /\ lastShown \in Int
         /\ Ns(feed) \subseteq Int /\ Ns(wire) \subseteq Int /\ Ns(chunks) \subseteq Int
         /\ FrameNs \subseteq Int /\ DelayedNs \subseteq Int /\ QueuedNs \subseteq Int
<1>1. /\ feed \in Seq(Packets) /\ wire \in Seq(Packets) /\ chunks \in Seq(Packets)
      /\ frames \in Seq(Frames) /\ Len(frames) <= 1
      /\ delayed \in Seq(Frames) /\ Len(delayed) <= 1 /\ queued \in Seq(Pictures)
      /\ newest \in Pictures /\ lastShown \in 0..MaxPictures
  BY DEF ViewInv, ViewersTypeOK, FeedTypeOK, EncoderTypeOK, NativeTypes
<1>2. newest.n \in Int /\ lastShown \in Int
  BY <1>1, FeedOK DEF Pictures
<1>3. Ns(feed) \subseteq Int /\ Ns(wire) \subseteq Int /\ Ns(chunks) \subseteq Int
  BY <1>1, NumbersOK
<1>4. /\ \A i \in 1..Len(frames) : frames[i].n \in Int
      /\ \A i \in 1..Len(delayed) : delayed[i].n \in Int
      /\ \A i \in 1..Len(queued) : queued[i].n \in Int
  <2>1. (\A f \in Frames : f.n \in Int) /\ (\A f \in Pictures : f.n \in Int)
    BY FeedOK DEF Frames, Pictures, Garbage
  <2>2. /\ \A i \in 1..Len(frames) : frames[i] \in Frames
        /\ \A i \in 1..Len(delayed) : delayed[i] \in Frames
        /\ \A i \in 1..Len(queued) : queued[i] \in Pictures
    BY <1>1
  <2> QED BY <2>1, <2>2
<1> QED
  BY <1>1, <1>2, <1>3, <1>4 DEF FrameNs, DelayedNs, QueuedNs

\* A step that shows nothing new: the look changes with the window at most.
LEMMA LookStep ==
  ASSUME ViewInv, ViewInv', newest'.n = newest.n, lastShown' = lastShown, lost' = lost,
         viewer' = viewer, screen' = Garbage => screen = Garbage \/ lost
  PROVE  [Screen!Next]_Screen!screenVars
<1>1. Look' \in {"garbage", "picture", "filler"}
  BY DEF Look
<1>2. Look' = "picture" => lastShown' # 0
  BY DEF Look, Black
<1>0. lastShown # Garbage /\ lastShown' # Garbage
  BY FeedOK DEF ViewInv, ViewersTypeOK, FeedTypeOK, Garbage
<1>3. Look' = "garbage" <=> screen' = Garbage
  BY <1>0 DEF Look
<1>4. Look = "garbage" <=> screen = Garbage
  BY <1>0 DEF Look
<1>5. CASE Look' \in {"filler", "picture"}
  BY <1>1, <1>2, <1>5 DEF Screen!Next, Screen!Resize
<1>6. CASE Look' = "garbage" /\ Look = "garbage"
  BY <1>6 DEF Screen!screenVars
<1>7. CASE Look' = "garbage" /\ Look # "garbage"
  BY <1>3, <1>4, <1>7 DEF Screen!Next, Screen!Garble
<1> QED
  BY <1>1, <1>5, <1>6, <1>7

\* A step that loses something, or nothing.
LEMMA LoseStep ==
  ASSUME UNCHANGED <<lastShown, screen, shownSize, window, viewer>>,
         newest'.n = newest.n, lost' \in {lost, TRUE}
  PROVE  [Screen!Next]_Screen!screenVars
<1>1. Look' = Look
  BY DEF Look
<1> QED
  BY <1>1 DEF Screen!Next, Screen!Lose, Screen!screenVars

\* A step that shows a picture, which is never an older one.
LEMMA ShowStep ==
  ASSUME ViewInv, NEW n \in 1..MaxPictures, lastShown <= n, n <= newest.n, lastShown' = n,
         screen' = n, viewer' = "native" => shownSize' = window', newest'.n = newest.n, lost' = lost
  PROVE  [Screen!Next]_Screen!screenVars
<1>1. n \in Int /\ n # Black /\ n # Garbage
  BY FeedOK DEF Black, Garbage
<1>2. Look' = "picture"
  BY <1>1 DEF Look
<1>3. lastShown \in Nat /\ newest.n \in Nat
  BY FeedOK DEF ViewInv, ViewersTypeOK, FeedTypeOK, Pictures
<1>4. lastShown' \in lastShown..newest.n /\ lastShown' # 0
  BY <1>1, <1>3 DEF Black
<1> QED
  BY <1>2, <1>4 DEF Screen!Next, Screen!Show

\* The oldest packet goes when there is no room; then something is lost.
LEMMA BroadcastScreen ==
  ASSUME feed \in Seq(Packets), NEW p \in Packets, Broadcast(p), Ordered(feed),
         Leq(Ns(feed), {p.pic.n})
  PROVE  /\ Ns(feed') \subseteq Ns(feed) \cup {p.pic.n} /\ Ordered(feed')
         /\ lost' \in {lost, TRUE}
         /\ ~lost' => (Whole(feed) /\ p.whole => Whole(feed'))
<1> DEFINE q == Append(feed, p)
<1>1. q \in Seq(Packets) /\ q # << >>
  <2>1. q \in Seq(Packets) /\ Len(q) = Len(feed) + 1 /\ Len(feed) \in Nat
    OBVIOUS
  <2> HIDE DEF q
  <2>2. Len(q) # 0
    BY <2>1
  <2> QED BY <2>1, <2>2
<1>2. Ns(q) = Ns(feed) \cup {p.pic.n} /\ Ordered(q) /\ (Whole(feed) /\ p.whole => Whole(q))
  BY NumbersAppend
<1>3. CASE feed' = q /\ lost' = lost
  BY <1>2, <1>3
<1>4. CASE feed' = [Tail(q) EXCEPT ![1].whole = Tail(q)[1].key] /\ lost' = TRUE
  <2> DEFINE t == Tail(q)
             w == t[1].key
  <2> HIDE DEF q
  <2>1. t \in Seq(Packets) /\ Ns(t) \subseteq Ns(q) /\ Ordered(t)
    BY <1>1, <1>2, NumbersTail
  <2>2. \A i \in 1..Len(t) : t[i] \in Packets
    BY <2>1
  <2> HIDE DEF t, w
  <2>3. feed' = [t EXCEPT ![1] = [t[1] EXCEPT !.whole = w]]
    BY <1>4 DEF t, w
  <2>4. DOMAIN t = 1..Len(t) /\ Len(t) \in Nat
    BY <2>1
  <2>5. t = [i \in 1..Len(t) |-> t[i]]
    BY <2>1
  <2>6. /\ DOMAIN feed' = 1..Len(t)
        /\ \A i \in 1..Len(t) : feed'[i] = IF i = 1 THEN [t[1] EXCEPT !.whole = w] ELSE t[i]
    BY <2>3, <2>4, <2>5
  <2>7. \A i \in 1..Len(t) : feed'[i].pic = t[i].pic /\ feed'[i] \in Packets
    <3>1. \A c \in Packets, b \in BOOLEAN : /\ [c EXCEPT !.whole = b] \in Packets
                                          /\ [c EXCEPT !.whole = b].pic = c.pic
      BY DEF Packets
    <3>2. 1 \in 1..Len(t) => w \in BOOLEAN
      BY <2>2 DEF w, Packets
    <3> SUFFICES ASSUME NEW i \in 1..Len(t)
                 PROVE  feed'[i].pic = t[i].pic /\ feed'[i] \in Packets
      OBVIOUS
    <3>3. CASE i = 1
      BY <2>2, <2>6, <3>1, <3>2, <3>3
    <3>4. CASE i # 1
      BY <2>2, <2>6, <3>4
    <3> QED BY <3>3, <3>4
  <2>8. feed' = [i \in 1..Len(t) |-> feed'[i]]
    BY <2>3, <2>4, <2>5
  <2>9. feed' \in Seq(Packets) /\ Len(feed') = Len(t)
    BY <2>4, <2>7, <2>8
  <2>10. Ns(feed') \subseteq Ns(t) /\ Ordered(feed')
    <3> HIDE DEF Leq
    <3>1. Ns(feed') \subseteq Ns(t)
      BY <2>7, <2>9 DEF Ns
    <3>2. Ordered(feed')
      BY <2>1, <2>7, <2>9 DEF Ordered
    <3> QED BY <3>1, <3>2
  <2> QED BY <1>2, <1>4, <2>1, <2>10
<1> QED
  BY <1>3, <1>4 DEF Broadcast

\* The steps of the server, with the viewer they leave alone.
LEMMA ServerScreen ==
  ASSUME ViewInv, ScreenInv, ByServer(ServerStep)
  PROVE  ScreenInv' /\ [Screen!Next]_Screen!screenVars
<1>1. /\ UNCHANGED <<delayed, frames, slots, shownSize, window, viewer, keyframeSeen>>
      /\ ServerStep
  BY DEF ByServer, nativeVars, loopVars, slotVars, systemVars, pageVars
<1>2. /\ feed \in Seq(Packets) /\ wire \in Seq(Packets) /\ newest \in Pictures
      /\ queued \in Seq(Pictures)
      /\ newest.n \in Int /\ lastShown \in Int /\ lost \in BOOLEAN
      /\ Ns(feed) \subseteq Int /\ Ns(wire) \subseteq Int /\ Ns(chunks) \subseteq Int
      /\ FrameNs \subseteq Int /\ DelayedNs \subseteq Int /\ QueuedNs \subseteq Int
      /\ Ordered(feed) /\ Ordered(wire) /\ Ordered(chunks)
      /\ Chain(lastShown, FrameNs, DelayedNs, Ns(chunks), Ns(wire), Ns(feed), QueuedNs, newest.n)
      /\ ~lost => Whole(wire) /\ Whole(feed) /\ stream # "torn"
  BY UnderWay DEF ScreenInv, InOrder, Intact, ViewInv, ViewersTypeOK, FeedTypeOK, EncoderTypeOK
<1>3. FrameNs' = FrameNs /\ DelayedNs' = DelayedNs
  BY <1>1 DEF FrameNs, DelayedNs
\* The invariant, from what the step does to the queues.
<1>4. ASSUME UNCHANGED <<chunks, missed, reference, screen, lastShown>>,
             lost' \in {lost, TRUE}, Ordered(feed'), Ordered(wire'),
             Chain(lastShown, FrameNs, DelayedNs, Ns(chunks), Ns(wire'), Ns(feed'), QueuedNs',
                   newest'.n),
             ~lost' => Whole(wire') /\ Whole(feed') /\ stream' # "torn"
      PROVE  ScreenInv'
  <2>1. InOrder'
    BY <1>2, <1>3, <1>4 DEF InOrder
  <2>2. ~lost' => Intact'
    <3>1. ~lost' => ~lost
      BY <1>4
    <3> QED BY <1>1, <1>4, <3>1 DEF ScreenInv, Intact
  <2>3. viewer' = "page" => PageSynced'
    BY <1>1, <1>4 DEF ScreenInv, PageSynced
  <2> QED BY <2>1, <2>2, <2>3 DEF ScreenInv
\* A step with the same pictures on their way, or fewer frames to encode.
<1>5. ASSUME newest'.n = newest.n, QueuedNs' \subseteq QueuedNs \cup {newest.n},
             stream' \in {stream, "fresh"},
             UNCHANGED <<feed, wire, chunks, missed, reference, screen, lastShown, lost>>
      PROVE  ScreenInv' /\ [Screen!Next]_Screen!screenVars
  <2>1. Chain(lastShown, FrameNs, DelayedNs, Ns(chunks), Ns(wire), Ns(feed), QueuedNs', newest.n)
    BY <1>2, <1>5, ChainKept
  <2>2. ScreenInv'
    BY <1>2, <1>4, <1>5, <2>1
  <2> QED BY <1>1, <1>5, <2>2, LoseStep
<1>6. CASE Draw
  <2>1. /\ newest' = [newest EXCEPT !.n = @ + 1] /\ newest.n < MaxPictures
        /\ UNCHANGED <<queued, stream, feed, wire, chunks, missed, reference, screen, lastShown,
                       lost>>
    BY <1>6 DEF Draw, encoderVars, lineVars, decoderVars, viewVars
  <2>2. newest'.n = newest.n + 1 /\ QueuedNs' = QueuedNs
    BY <1>2, <2>1 DEF Pictures, QueuedNs
  <2>3. Chain(lastShown, FrameNs, DelayedNs, Ns(chunks), Ns(wire), Ns(feed), QueuedNs, newest'.n)
    <3>1. newest'.n \in Int /\ newest.n <= newest'.n
      BY <1>2, <2>2
    <3> QED BY <1>2, <3>1, ChainKept
  <2>4. ScreenInv'
    BY <1>2, <1>4, <2>1, <2>2, <2>3
  <2>5. Look' = Look
    BY <1>1, <2>1 DEF Look
  <2>6. Screen!Draw
    BY <2>1, <2>2, <2>5 DEF Screen!Draw
  <2> QED BY <2>4, <2>6 DEF Screen!Next
<1>8. CASE Render
  <2>1. /\ queued' = Append(queued, newest) \/ queued' = queued
        /\ UNCHANGED <<newest, stream, feed, wire, chunks, missed, reference, screen, lastShown,
                       lost>>
    BY <1>8 DEF Render, lineVars, decoderVars, viewVars
  <2>2. QueuedNs' \subseteq QueuedNs \cup {newest.n}
    <3>1. CASE queued' = Append(queued, newest)
      <4>1. /\ Len(queued) \in Nat /\ Len(queued') = Len(queued) + 1
            /\ \A i \in 1..Len(queued') : queued'[i] = newest
                                          \/ (i \in 1..Len(queued) /\ queued'[i] = queued[i])
        BY <1>2, <3>1
      <4> QED BY <4>1 DEF QueuedNs
    <3>2. CASE queued' = queued
      BY <3>2 DEF QueuedNs
    <3> QED BY <2>1, <3>1, <3>2
  <2> QED BY <1>5, <2>1, <2>2
<1>9. CASE TakeResize
  <2>1. /\ queued' = << >> /\ stream' = "fresh"
        /\ UNCHANGED <<newest, feed, wire, chunks, missed, reference, screen, lastShown, lost>>
    BY <1>9 DEF TakeResize, outputVars, lineVars, decoderVars, viewVars
  <2>2. QueuedNs' = {}
    BY <2>1 DEF QueuedNs
  <2> QED BY <1>5, <2>1, <2>2
<1>10. ASSUME TakeFrame
       PROVE  /\ queued # << >> /\ Last(queued) \in Pictures
              /\ Last(queued).n \in QueuedNs /\ QueuedNs' = {}
              /\ UNCHANGED <<newest, wire, chunks, missed, reference, screen, lastShown>>
  <2>1. /\ queued # << >> /\ queued' = << >>
        /\ UNCHANGED <<newest, wire, chunks, missed, reference, screen, lastShown>>
    BY <1>10 DEF TakeFrame, outputVars, decoderVars
  <2>2. Len(queued) \in 1..Len(queued) /\ Last(queued) = queued[Len(queued)]
    BY <1>2, <2>1 DEF Last
  <2>3. Last(queued).n \in QueuedNs /\ QueuedNs' = {}
    BY <2>1, <2>2 DEF QueuedNs
  <2> QED BY <1>2, <2>1, <2>2, <2>3
<1>11. ASSUME NEW key \in BOOLEAN, Encode(key)
       PROVE  ScreenInv' /\ [Screen!Next]_Screen!screenVars
  <2> DEFINE p == [key |-> key, whole |-> key \/ stream # "torn", pic |-> Last(queued)]
  <2>0. TakeFrame /\ stream' = "flowing"
    BY <1>11 DEF Encode
  <2>1. p \in Packets /\ p.pic.n \in QueuedNs /\ (stream # "torn" => p.whole)
    BY <1>10, <2>0 DEF Packets
  <2>2. IF connected THEN Broadcast(p) ELSE UNCHANGED <<feed, lost>>
    BY <1>11 DEF Encode
  <2> HIDE DEF p
  <2>4. Leq(Ns(feed), {p.pic.n})
    BY <1>2, <2>1 DEF Chain, Leq
  <2>5. /\ Ns(feed') \subseteq Ns(feed) \cup {p.pic.n} /\ Ordered(feed')
        /\ lost' \in {lost, TRUE}
        /\ ~lost' => (Whole(feed) /\ p.whole => Whole(feed'))
    <3>1. CASE Broadcast(p)
      BY <1>2, <2>1, <2>4, <3>1, BroadcastScreen
    <3>2. CASE UNCHANGED <<feed, lost>>
      BY <1>2, <3>2
    <3> QED BY <2>2, <3>1, <3>2
  <2>6. Chain(lastShown, FrameNs, DelayedNs, Ns(chunks), Ns(wire), Ns(feed'), {}, newest.n)
    BY <1>2, <2>1, <2>5, ChainKept
  <2>7. ~lost' => ~lost
    BY <2>5
  <2>8. ScreenInv'
    BY <1>2, <1>4, <1>10, <2>0, <2>1, <2>5, <2>6, <2>7
  <2> QED BY <1>1, <1>10, <2>0, <2>5, <2>8, LoseStep
<1>12. CASE EncodeFails
  <2>1. TakeFrame /\ lost' = TRUE /\ feed' = feed
    BY <1>12 DEF EncodeFails
  <2>2. Chain(lastShown, FrameNs, DelayedNs, Ns(chunks), Ns(wire), Ns(feed), {}, newest.n)
    BY <1>2, ChainKept
  <2>3. ScreenInv'
    BY <1>2, <1>4, <1>10, <2>1, <2>2
  <2> QED BY <1>1, <1>10, <2>1, <2>3, LoseStep
<1>13. CASE SendPacket
  <2>1. /\ feed # << >> /\ wire' = Append(wire, Head(feed)) /\ feed' = Tail(feed)
        /\ UNCHANGED <<newest, queued, stream, chunks, missed, reference, screen, lastShown, lost>>
    BY <1>13 DEF SendPacket, outputVars, encoderVars, decoderVars, viewVars
  <2> DEFINE h == Head(feed)
  <2>2. /\ h \in Packets /\ h.pic.n \in Ns(feed) /\ Ns(feed') \subseteq Ns(feed)
        /\ Ordered(feed') /\ Leq({h.pic.n}, Ns(feed'))
        /\ Whole(feed) => Whole(feed') /\ h.whole
    BY <1>2, <2>1, NumbersTail
  <2> HIDE DEF h
  <2>3. Leq(Ns(wire), {h.pic.n})
    BY <1>2, <2>2 DEF Chain, Leq
  <2>4. /\ Ns(wire') = Ns(wire) \cup {h.pic.n} /\ Ordered(wire')
        /\ Whole(wire) /\ h.whole => Whole(wire')
    BY <1>2, <2>1, <2>2, <2>3, NumbersAppend DEF h
  <2>5. Chain(lastShown, FrameNs, DelayedNs, Ns(chunks), Ns(wire'), Ns(feed'), QueuedNs, newest.n)
    BY <1>2, <2>2, <2>4, ChainKept
  <2>6. QueuedNs' = QueuedNs
    BY <2>1 DEF QueuedNs
  <2>7. ScreenInv'
    BY <1>2, <1>4, <2>1, <2>2, <2>4, <2>5, <2>6
  <2> QED BY <1>1, <2>1, <2>7, LoseStep
<1>14. CASE HandleRequestKeyframe \/ SendForceKeyframe \/ CooldownPasses
  <2>1. UNCHANGED <<newest, queued, stream, feed, wire, chunks, missed, reference, screen,
                    lastShown, lost>>
    BY <1>14 DEF HandleRequestKeyframe, SendForceKeyframe, CooldownPasses, outputVars, encoderVars,
       decoderVars, viewVars
  <2>2. QueuedNs' = QueuedNs
    BY <2>1 DEF QueuedNs
  <2> QED BY <1>5, <2>1, <2>2
<1>15. CASE HandleResize
  <2>1. /\ \/ newest' = newest
           \/ newest' = [newest EXCEPT !.size = Sanitize(Head(resizes))]
        /\ UNCHANGED <<queued, stream, feed, wire, chunks, missed, reference, screen, lastShown,
                       lost>>
    BY <1>15 DEF HandleResize, decoderVars, viewVars
  <2>2. newest'.n = newest.n /\ QueuedNs' = QueuedNs
    BY <1>2, <2>1 DEF Pictures, QueuedNs
  <2> QED BY <1>5, <2>1, <2>2
<1> QED
  BY <1>1, <1>6, <1>8, <1>9, <1>11, <1>12, <1>13, <1>14, <1>15 DEF ServerStep

\* What the page's decoder is given next is exact or something was lost.
LEMMA PageDecodes ==
  ASSUME ScreenInv, viewer = "page", chunks \in Seq(Packets), chunks # << >>,
         reference \in {"none", "exact", "broken"}
  PROVE  /\ Decoded(Head(chunks)) \in {"exact", "broken"}
         /\ ~lost => Decoded(Head(chunks)) = "exact"
<1> DEFINE c == Head(chunks)
<1>1. c \in Packets /\ c = chunks[1]
  BY NumbersTail
<1>2. reference = "none" => c.key
  BY <1>1 DEF ScreenInv, PageSynced
<1>3. ~lost => reference # "broken" /\ (c.key \/ c.whole)
  BY NumbersTail DEF ScreenInv, Intact
<1> HIDE DEF c
<1>4. /\ Decoded(c) \in {"exact", "broken"}
      /\ ~lost => Decoded(c) = "exact"
  <2>1. CASE c.key
    <3>1. Decoded(c) = "exact"
      BY <2>1 DEF Decoded
    <3> QED BY <3>1
  <2>2. CASE ~c.key
    <3>1. reference \in {"exact", "broken"}
      BY <1>2, <2>2
    <3>2. Decoded(c) = IF c.whole THEN reference ELSE "broken"
      BY <2>2, <3>1 DEF Decoded
    <3> QED BY <1>3, <2>2, <3>1, <3>2
  <2> QED BY <2>1, <2>2
<1> QED
  BY <1>4 DEF c

\* handleVideoFrame.
LEMMA HandleVideoFrameScreen ==
  ASSUME ViewInv, ScreenInv, viewer = "page", HandleVideoFrame,
         UNCHANGED <<delayed, frames, slots, viewer>>
  PROVE  ScreenInv'
<1> DEFINE p == Head(wire)
<1>1. /\ wire # << >> /\ wire' = Tail(wire)
      /\ DropForBacklog(p) \/ SkipDelta(p) \/ Feed(p)
      /\ UNCHANGED <<newest, queued, stream, feed, screen, lastShown, lost>>
  BY DEF HandleVideoFrame, outputVars, encoderVars, viewVars
<1>2. /\ feed \in Seq(Packets) /\ wire \in Seq(Packets) /\ chunks \in Seq(Packets)
      /\ missed \in BOOLEAN
      /\ newest.n \in Int /\ lastShown \in Int /\ frames = << >>
      /\ Ns(feed) \subseteq Int /\ Ns(wire) \subseteq Int /\ Ns(chunks) \subseteq Int
      /\ FrameNs \subseteq Int /\ DelayedNs \subseteq Int /\ QueuedNs \subseteq Int
      /\ Ordered(feed) /\ Ordered(wire) /\ Ordered(chunks) /\ PageSynced
      /\ Chain(lastShown, FrameNs, DelayedNs, Ns(chunks), Ns(wire), Ns(feed), QueuedNs, newest.n)
      /\ ~lost => Whole(wire) /\ Sound(chunks)
  BY UnderWay DEF ScreenInv, InOrder, Intact, PageSynced, ViewInv, ViewersTypeOK, FeedTypeOK
<1>3. /\ p \in Packets /\ wire' \in Seq(Packets)
      /\ p.pic.n \in Ns(wire) /\ Ns(wire') \subseteq Ns(wire)
      /\ Ordered(wire') /\ Leq({p.pic.n}, Ns(wire'))
      /\ ~lost => Whole(wire') /\ p.whole
  BY <1>1, <1>2, NumbersTail
<1>4. Leq(Ns(chunks), {p.pic.n})
  BY <1>2, <1>3 DEF Chain, Leq
<1>5. FrameNs' = FrameNs /\ DelayedNs' = DelayedNs /\ QueuedNs' = QueuedNs
  <2>1. UNCHANGED <<frames, delayed, queued>>
    BY <1>1
  <2>2. FrameNs' = FrameNs
    BY <2>1 DEF FrameNs
  <2>3. DelayedNs' = DelayedNs
    BY <2>1 DEF DelayedNs
  <2>4. QueuedNs' = QueuedNs
    BY <2>1 DEF QueuedNs
  <2> QED BY <2>2, <2>3, <2>4
<1> HIDE DEF p
<1>6. ASSUME Ordered(chunks'), Ns(chunks') \subseteq Ns(chunks) \cup {p.pic.n},
             ~lost => Sound(chunks'), reference' \in {reference, "none"}, PageSynced'
      PROVE  ScreenInv'
  <2>1. Chain(lastShown, FrameNs, DelayedNs, Ns(chunks'), Ns(wire'), Ns(feed), QueuedNs, newest.n)
    <3>1. \A W2 \in SUBSET Ns(wire), h \in Ns(wire) : \A C2 \in SUBSET (Ns(chunks) \cup {h}) :
            Leq({h}, W2) =>
              Chain(lastShown, FrameNs, DelayedNs, C2, W2, Ns(feed), QueuedNs, newest.n)
      BY <1>2, ChainKept
    <3> QED BY <1>3, <1>6, <3>1
  <2>2. InOrder'
    BY <1>1, <1>2, <1>3, <1>5, <1>6, <2>1 DEF InOrder
  <2>3. ~lost' => Intact'
    BY <1>1, <1>3, <1>6 DEF ScreenInv, Intact
  <2> QED BY <1>6, <2>2, <2>3 DEF ScreenInv
<1>7. CASE DropForBacklog(p) \/ SkipDelta(p)
  <2>1. UNCHANGED <<chunks, reference>> /\ keyframeSeen' = FALSE
    BY <1>2, <1>7 DEF DropForBacklog, SkipDelta, ViewInv, ViewersTypeOK
  <2>2. PageSynced'
    BY <1>2, <2>1 DEF PageSynced
  <2> QED BY <1>2, <1>6, <2>1, <2>2
<1>8. CASE Feed(p)
  <2> DEFINE left == IF Backlogged THEN << >> ELSE chunks
             c == Chunk(p)
  <2>1. /\ p.key \/ (~Backlogged /\ keyframeSeen)
        /\ keyframeSeen' = TRUE /\ missed' = FALSE /\ chunks' = left \o <<c>>
        /\ reference' = IF Backlogged THEN "none" ELSE reference
    BY <1>8 DEF Feed
  <2>2. /\ c \in Packets /\ c.pic.n = p.pic.n /\ c.key = p.key
        /\ c.whole = (p.key \/ (p.whole /\ ~missed))
    BY <1>2, <1>3, ChunkType DEF Chunk, Packets
  <2>3. /\ left \in Seq(Packets) /\ Ns(left) \subseteq Ns(chunks) /\ Ordered(left)
        /\ ~lost => Sound(left)
        /\ left # << >> => left = chunks /\ ~Backlogged
    BY <1>2, NumbersNone
  <2>4. ~Backlogged => left = chunks
    OBVIOUS
  <2> HIDE DEF left, c
  <2>5. chunks' = Append(left, c)
    BY <2>1, <2>2, <2>3
  <2>6. Leq(Ns(left), {c.pic.n})
    BY <1>4, <2>2, <2>3 DEF Leq
  <2>7. Ns(chunks') \subseteq Ns(chunks) \cup {p.pic.n} /\ Ordered(chunks')
    BY <2>2, <2>3, <2>5, <2>6, NumbersAppend
  <2>8. p.key \/ ~missed
    BY <1>2, <2>1 DEF PageSynced
  <2>9. ~lost => Sound(chunks')
    BY <1>3, <2>2, <2>3, <2>5, <2>8, NumbersAppend
  <2>10. PageSynced'
    <3>1. chunks' # << >> /\ chunks'[1] = IF left = << >> THEN c ELSE left[1]
      <4>1. /\ Len(chunks') = Len(left) + 1 /\ Len(left) \in Nat
            /\ chunks'[1] = IF Len(left) = 0 THEN c ELSE left[1]
        BY <2>2, <2>3, <2>5
      <4>2. Len(left) = 0 <=> left = << >>
        BY <2>3
      <4> QED BY <4>1, <4>2
    <3>2. CASE reference' = "none" /\ left # << >>
      BY <1>2, <2>1, <2>3, <3>1, <3>2 DEF PageSynced
    <3>3. CASE reference' = "none" /\ left = << >>
      <4>1. p.key
        BY <1>2, <2>1, <2>4, <3>3 DEF PageSynced
      <4> QED BY <1>2, <2>1, <2>2, <3>1, <3>3, <4>1 DEF PageSynced
    <3>4. CASE reference' # "none"
      BY <1>2, <2>1, <3>4 DEF PageSynced
    <3> QED BY <3>2, <3>3, <3>4
  <2> QED BY <1>6, <2>1, <2>7, <2>9, <2>10
<1> QED
  BY <1>1, <1>7, <1>8

LEMMA HandleFrameScreen ==
  ASSUME ViewInv, ViewInv', ScreenInv, viewer = "page", HandleFrame,
         UNCHANGED <<nativeVars, viewer>>
  PROVE  ScreenInv' /\ [Screen!Next]_Screen!screenVars
<1> DEFINE c == Head(chunks)
<1>1. /\ chunks # << >> /\ chunks' = Tail(chunks) /\ reference' = Decoded(c)
      /\ Show(IF reference' = "exact" THEN c.pic.n ELSE Garbage)
      /\ UNCHANGED <<newest, queued, stream, feed, wire, missed, lost, keyframeSeen, viewer,
                     delayed, frames, slots, shownSize, window>>
  BY DEF HandleFrame, outputVars, encoderVars, lineVars, nativeVars, loopVars, slotVars, systemVars
<1>2. /\ chunks \in Seq(Packets) /\ reference \in {"none", "exact", "broken"}
      /\ newest.n \in Int /\ lastShown \in Int /\ frames = << >> /\ delayed = << >>
      /\ Ns(feed) \subseteq Int /\ Ns(wire) \subseteq Int /\ Ns(chunks) \subseteq Int
      /\ FrameNs \subseteq Int /\ DelayedNs \subseteq Int /\ QueuedNs \subseteq Int
      /\ Ordered(feed) /\ Ordered(wire) /\ Ordered(chunks) /\ PageSynced
      /\ Chain(lastShown, FrameNs, DelayedNs, Ns(chunks), Ns(wire), Ns(feed), QueuedNs, newest.n)
      /\ ~lost => Sound(chunks)
  BY UnderWay DEF ScreenInv, InOrder, Intact, PageSynced, ViewInv, ViewersTypeOK, FeedTypeOK
<1>3. reference' \in {"exact", "broken"} /\ (~lost => reference' = "exact")
  BY <1>1, <1>2, PageDecodes
<1>4. /\ c \in Packets /\ c.pic.n \in Ns(chunks) /\ Ns(chunks') \subseteq Ns(chunks)
      /\ Ordered(chunks') /\ Leq({c.pic.n}, Ns(chunks'))
      /\ ~lost => Sound(chunks')
  BY <1>1, <1>2, NumbersTail
<1>5. FrameNs = {} /\ FrameNs' = {} /\ DelayedNs = {} /\ DelayedNs' = {} /\ QueuedNs' = QueuedNs
  BY <1>1, <1>2 DEF FrameNs, DelayedNs, QueuedNs
<1> HIDE DEF c
<1>6. c.pic.n \in 1..MaxPictures /\ MaxPictures \in Nat
  BY <1>4, FeedOK DEF Packets, Pictures
<1>8. /\ Chain(c.pic.n, {}, {}, Ns(chunks'), Ns(wire), Ns(feed), QueuedNs, newest.n)
      /\ Chain(lastShown, {}, {}, Ns(chunks'), Ns(wire), Ns(feed), QueuedNs, newest.n)
  <2>1. \A C2 \in SUBSET Ns(chunks) :
          Chain(lastShown, {}, {}, C2, Ns(wire), Ns(feed), QueuedNs, newest.n)
    BY <1>2, <1>5, ChainKept
  <2> QED BY <1>2, <1>4, <2>1, ChainKept
<1>9. /\ \/ lastShown' = c.pic.n /\ screen' = c.pic.n
         \/ lost /\ lastShown' = lastShown /\ screen' = Garbage
  <2>1. Garbage \notin 1..MaxPictures /\ c.pic.n # Garbage
    BY <1>6 DEF Garbage
  <2> QED BY <1>1, <1>3, <1>6, <2>1 DEF Show
<1>10. ScreenInv'
  <2>1. InOrder'
    BY <1>1, <1>2, <1>4, <1>5, <1>8, <1>9 DEF InOrder
  <2>2. c.pic.n # Garbage
    BY <1>6 DEF Garbage
  <2>3. ~lost' => Intact'
    BY <1>1, <1>3, <1>4, <1>9, <2>2 DEF ScreenInv, Intact
  <2>4. PageSynced'
    BY <1>1, <1>2, <1>3 DEF PageSynced
  <2> QED BY <2>1, <2>3, <2>4 DEF ScreenInv
<1>11. [Screen!Next]_Screen!screenVars
  <2>1. CASE lastShown' = c.pic.n /\ screen' = c.pic.n
    <3>1. lastShown <= c.pic.n /\ c.pic.n <= newest.n
      BY <1>2, <1>4 DEF Chain, Leq
    <3> QED BY <1>1, <1>6, <2>1, <3>1, ShowStep
  <2>2. CASE lost /\ lastShown' = lastShown /\ screen' = Garbage
    BY <1>1, <2>2, LookStep
  <2> QED BY <1>9, <2>1, <2>2
<1> QED
  BY <1>10, <1>11

LEMMA PageScreen ==
  ASSUME ViewInv, ScreenInv, ByPage(PageStep)
  PROVE  ScreenInv' /\ [Screen!Next]_Screen!screenVars
<1>1. /\ PageStep /\ viewer = "page" /\ ViewInv'
      /\ UNCHANGED <<delayed, frames, slots, shownSize, window, viewer, nativeVars>>
  BY PageKeeps DEF ByPage, nativeVars, loopVars, slotVars, systemVars
<1>2. FrameNs' = FrameNs /\ DelayedNs' = DelayedNs
  BY <1>1 DEF FrameNs, DelayedNs
<1>3. CASE HandleVideoFrame
  <2>1. UNCHANGED <<newest, screen, lastShown, lost>>
    BY <1>3 DEF HandleVideoFrame, outputVars, viewVars
  <2> QED BY <1>1, <1>3, <2>1, HandleVideoFrameScreen, LoseStep
<1>4. CASE HandleFrame
  BY <1>1, <1>4, HandleFrameScreen
<1>5. CASE RecoverDecoder \/ SetCodec \/ LoseConnection \/ Start
  <2>1. /\ UNCHANGED <<newest, queued, stream, screen, lastShown, lost>>
        /\ \/ UNCHANGED <<feed, wire>>
           \/ feed' = << >> /\ wire' = << >>
        /\ \/ UNCHANGED <<chunks, reference, missed, keyframeSeen>>
           \/ chunks' = << >> /\ reference' = "none" /\ missed' = FALSE /\ keyframeSeen' = FALSE
    BY <1>5 DEF RecoverDecoder, SetCodec, Resync, LoseConnection, HangUp, Start, outputVars,
       encoderVars, viewVars, decoderVars, pageVars
  <2>2. /\ newest.n \in Int /\ lastShown \in Int
        /\ Ns(feed) \subseteq Int /\ Ns(wire) \subseteq Int /\ Ns(chunks) \subseteq Int
        /\ FrameNs \subseteq Int /\ DelayedNs \subseteq Int /\ QueuedNs \subseteq Int /\ PageSynced
        /\ Ordered(feed) /\ Ordered(wire) /\ Ordered(chunks)
        /\ Chain(lastShown, FrameNs, DelayedNs, Ns(chunks), Ns(wire), Ns(feed), QueuedNs, newest.n)
        /\ ~lost => Intact
    BY <1>1, UnderWay DEF ScreenInv, InOrder
  <2>3. /\ Ns(feed') \subseteq Ns(feed) /\ Ns(wire') \subseteq Ns(wire)
        /\ Ns(chunks') \subseteq Ns(chunks)
        /\ Ordered(feed') /\ Ordered(wire') /\ Ordered(chunks')
        /\ Whole(feed) => Whole(feed')
        /\ Whole(wire) => Whole(wire')
        /\ Sound(chunks) => Sound(chunks')
    BY <2>1, <2>2, NumbersNone
  <2>4. Chain(lastShown, FrameNs, DelayedNs, Ns(chunks'), Ns(wire'), Ns(feed'), QueuedNs, newest.n)
    BY <2>2, <2>3, ChainKept
  <2>5. InOrder'
    <3>1. QueuedNs' = QueuedNs
      BY <2>1 DEF QueuedNs
    <3> QED BY <1>2, <2>1, <2>3, <2>4, <3>1 DEF InOrder
  <2>6. ~lost' => Intact'
    BY <1>1, <2>1, <2>2, <2>3 DEF Intact
  <2>7. PageSynced'
    BY <1>1, <2>1, <2>2 DEF PageSynced
  <2>8. [Screen!Next]_Screen!screenVars
    BY <1>1, <2>1, LoseStep
  <2> QED BY <2>5, <2>6, <2>7, <2>8 DEF ScreenInv
<1> QED
  BY <1>1, <1>3, <1>4, <1>5 DEF PageStep

\* The main task and the decoder thread of the native client.
LEMMA TasksScreen ==
  ASSUME ViewInv, ScreenInv, viewer = "native", UNCHANGED <<pageVars, viewer>>,
         ReceivePacket \/ DecodePacket \/ DecodeFails \/ NotifySize
  PROVE  ScreenInv' /\ [Screen!Next]_Screen!screenVars
<1>1. /\ feed \in Seq(Packets) /\ wire \in Seq(Packets) /\ chunks \in Seq(Packets)
      /\ newest.n \in Int /\ lastShown \in Int /\ missed \in BOOLEAN
      /\ reference \in {"none", "exact", "broken"}
      /\ Ns(feed) \subseteq Int /\ Ns(wire) \subseteq Int /\ Ns(chunks) \subseteq Int
      /\ FrameNs \subseteq Int /\ DelayedNs \subseteq Int /\ QueuedNs \subseteq Int
      /\ Ordered(feed) /\ Ordered(wire) /\ Ordered(chunks)
      /\ Chain(lastShown, FrameNs, DelayedNs, Ns(chunks), Ns(wire), Ns(feed), QueuedNs, newest.n)
      /\ ~lost => Intact
  BY UnderWay DEF ScreenInv, InOrder, ViewInv, ViewersTypeOK, FeedTypeOK
<1>2. CASE ReceivePacket
  <2> DEFINE p == Head(wire)
             c == Chunk(p)
  <2>1. /\ wire # << >> /\ wire' = Tail(wire)
        /\ \/ chunks' = Append(chunks, c) /\ missed' = FALSE /\ lost' = lost
           \/ missed' = TRUE /\ lost' = TRUE /\ chunks' = chunks
        /\ UNCHANGED <<newest, queued, stream, feed, reference, screen, lastShown, delayed, frames,
                       slots, shownSize, window>>
    BY <1>2 DEF ReceivePacket, outputVars, encoderVars, nativeVars, loopVars, slotVars, systemVars
  <2>2. /\ p \in Packets /\ p.pic.n \in Ns(wire) /\ Ns(wire') \subseteq Ns(wire)
        /\ Ordered(wire') /\ Leq({p.pic.n}, Ns(wire'))
        /\ Whole(wire) => Whole(wire') /\ p.whole
    BY <1>1, <2>1, NumbersTail
  <2>3. c \in Packets /\ c.pic.n = p.pic.n /\ c.whole = (p.key \/ (p.whole /\ ~missed))
    BY <1>1, <2>2, ChunkType DEF Chunk, Packets
  <2> HIDE DEF p, c
  <2>4. Leq(Ns(chunks), {c.pic.n})
    BY <1>1, <2>2, <2>3 DEF Chain, Leq
  <2>5. /\ Ns(chunks') \subseteq Ns(chunks) \cup {p.pic.n} /\ Ordered(chunks')
        /\ ~lost' => (Sound(chunks) /\ c.whole => Sound(chunks'))
    BY <1>1, <2>1, <2>3, <2>4, NumbersAppend
  <2>6. Chain(lastShown, FrameNs, DelayedNs, Ns(chunks'), Ns(wire'), Ns(feed), QueuedNs, newest.n)
    BY <1>1, <2>2, <2>5, ChainKept
  <2>7. FrameNs' = FrameNs /\ DelayedNs' = DelayedNs /\ QueuedNs' = QueuedNs
    BY <2>1 DEF FrameNs, DelayedNs, QueuedNs
  <2>8. InOrder'
    BY <1>1, <2>1, <2>2, <2>5, <2>6, <2>7 DEF InOrder
  <2>9. ~lost' => Intact'
    <3> SUFFICES ASSUME ~lost' PROVE Intact'
      OBVIOUS
    <3>1. Intact /\ lost' = lost /\ missed' = FALSE
      BY <1>1, <2>1
    <3>2. Whole(wire) /\ Whole(feed) /\ Sound(chunks) /\ ~missed
      BY <3>1 DEF Intact
    <3>3. Whole(wire') /\ Sound(chunks')
      BY <2>2, <2>3, <2>5, <3>2
    <3> QED BY <2>1, <3>1, <3>2, <3>3 DEF Intact
  <2>10. ScreenInv'
    BY <2>8, <2>9 DEF ScreenInv
  <2> QED BY <2>1, <2>10, LoseStep
<1>3. CASE DecodePacket
  <2> DEFINE c == Head(chunks)
             frame == IF reference' = "exact" THEN c.pic ELSE [c.pic EXCEPT !.n = Garbage]
             out == IF reference' = "none" THEN delayed ELSE Append(delayed, frame)
             outNs == {out[i].n : i \in 1..Len(out)} \ {Garbage}
  <2>1. /\ chunks # << >> /\ chunks' = Tail(chunks) /\ reference' = Decoded(c)
        /\ \/ delayed' = out /\ frames' = frames
           \/ out # << >> /\ delayed' = Tail(out) /\ GiveFrame(Head(out))
        /\ UNCHANGED <<newest, queued, stream, feed, wire, missed, screen, lastShown, lost, slots,
                       shownSize, window>>
    BY <1>3 DEF DecodePacket, outputVars, encoderVars, lineVars, viewVars, loopVars, slotVars,
       systemVars
  <2>2. /\ c \in Packets /\ c.pic.n \in Ns(chunks) /\ Ns(chunks') \subseteq Ns(chunks)
        /\ Ordered(chunks') /\ Leq({c.pic.n}, Ns(chunks'))
        /\ Sound(chunks) => Sound(chunks') /\ (c.key \/ c.whole)
    BY <1>1, <2>1, NumbersTail
  <2>3. /\ c.pic.n # Garbage /\ frame.n \in {c.pic.n, Garbage} /\ frame \in Frames
        /\ (reference' = "exact" => frame.n = c.pic.n)
    BY <2>2, FeedOK DEF Packets, Pictures, Garbage, Frames
  <2>4. ~lost => reference' # "broken"
    <3> SUFFICES ASSUME ~lost PROVE reference' # "broken"
      OBVIOUS
    <3>1. reference \in {"none", "exact"} /\ Sound(chunks)
      BY <1>1 DEF Intact
    <3>2. c.key \/ c.whole
      BY <2>2, <3>1
    <3> HIDE DEF c
    <3>3. CASE c.key
      BY <2>1, <3>3 DEF Decoded
    <3>4. CASE ~c.key /\ reference = "none"
      BY <2>1, <3>4 DEF Decoded
    <3>5. CASE ~c.key /\ reference = "exact"
      BY <2>1, <3>2, <3>5 DEF Decoded
    <3> QED BY <3>1, <3>3, <3>4, <3>5
  <2>5. reference' \in {"none", "exact", "broken"}
    BY <1>1, <2>1, <2>2, DecodedType
  <2>6. delayed \in Seq(Frames) /\ Len(delayed) <= 1
    BY UnderWay
  <2> HIDE DEF c, frame
\* What there is to give: the frame that was held back, then the new one.
  <2>7. /\ out \in Seq(Frames) /\ Len(out) \in 0..2
        /\ \A i \in 1..Len(out) : \/ i \in 1..Len(delayed) /\ out[i] = delayed[i]
                                  \/ i = Len(out) /\ out[i] = frame /\ reference' # "none"
        /\ Len(out) = 2 => /\ 1 \in 1..Len(delayed) /\ out[1] = delayed[1] /\ out[2] = frame
    <3>1. CASE reference' = "none"
      <4>1. out = delayed
        BY <3>1
      <4> HIDE DEF out, outNs
      <4>2. Len(delayed) \in 0..1
        BY <2>6, ShortSeq
      <4>3. Len(out) \in 0..2 /\ Len(out) # 2
        BY <4>1, <4>2
      <4> QED BY <2>6, <4>1, <4>3
    <3>2. CASE reference' # "none"
      <4>1. out = Append(delayed, frame)
        BY <3>2
      <4> HIDE DEF out
      <4> HIDE DEF outNs
      <4>2. frame \in Frames
        BY <2>3
      <4>3. /\ out \in Seq(Frames) /\ Len(out) = Len(delayed) + 1 /\ Len(delayed) \in 0..1
            /\ out[Len(delayed) + 1] = frame
            /\ \A i \in 1..Len(delayed) : out[i] = delayed[i]
        BY <2>6, <4>1, <4>2, ShortSeq
      <4> QED BY <3>2, <4>3
    <3> QED BY <3>1, <3>2
  <2> HIDE DEF out
  <2>8. /\ outNs \subseteq DelayedNs \cup {c.pic.n}
        /\ ~lost => \A i \in 1..Len(out) : out[i].n # Garbage
    <3>1. outNs \subseteq DelayedNs \cup {c.pic.n}
      BY <2>3, <2>7 DEF DelayedNs
    <3>2. ASSUME ~lost PROVE \A i \in 1..Len(out) : out[i].n # Garbage
      <4>1. \A i \in 1..Len(delayed) : delayed[i].n # Garbage
        BY <1>1, <3>2 DEF Intact
      <4>2. reference' # "none" => frame.n # Garbage
        BY <2>3, <2>4, <2>5, <3>2
      <4> QED BY <2>7, <4>1, <4>2
    <3> QED BY <3>1, <3>2
  <2>9. Chain(lastShown, FrameNs, outNs, Ns(chunks'), Ns(wire), Ns(feed), QueuedNs, newest.n)
    <3> HIDE DEF outNs
    <3>1. \A C2 \in SUBSET Ns(chunks) : \A D2 \in SUBSET (DelayedNs \cup {c.pic.n}) :
            Leq({c.pic.n}, C2) =>
              Chain(lastShown, FrameNs, D2, C2, Ns(wire), Ns(feed), QueuedNs, newest.n)
      BY <1>1, <2>2, ChainKept
    <3> QED BY <2>2, <2>8, <3>1
  <2>10. /\ Chain(lastShown, FrameNs', DelayedNs', Ns(chunks'), Ns(wire), Ns(feed), QueuedNs, newest.n)
         /\ ~lost => /\ \A i \in 1..Len(frames') : frames'[i].n # Garbage
                     /\ \A i \in 1..Len(delayed') : delayed'[i].n # Garbage
    <3>0. ~lost => \A i \in 1..Len(frames) : frames[i].n # Garbage
      BY <1>1 DEF Intact
    <3>1. CASE delayed' = out /\ frames' = frames
      <4>1. DelayedNs' = outNs /\ FrameNs' = FrameNs
        BY <3>1 DEF DelayedNs, FrameNs
      <4> HIDE DEF outNs
      <4> QED BY <2>8, <2>9, <3>0, <3>1, <4>1
    <3>2. CASE out # << >> /\ delayed' = Tail(out) /\ GiveFrame(Head(out))
      <4> DEFINE h == Head(out)
      <4>1. /\ h = out[1] /\ 1 \in 1..Len(out)
            /\ \A i \in 1..Len(delayed') : i = 1 /\ Len(out) = 2 /\ delayed'[1] = out[2]
        BY <2>7, <3>2
      <4>2. frames' \in {frames, <<h>>}
        BY <3>2 DEF GiveFrame
      <4> HIDE DEF h
      <4>3. DelayedNs' \subseteq outNs /\ (h.n # Garbage => h.n \in outNs)
        BY <2>7, <4>1 DEF DelayedNs
      <4>4. h.n # Garbage => Leq({h.n}, DelayedNs')
        <5> SUFFICES ASSUME h.n # Garbage, NEW i \in 1..Len(delayed'), delayed'[i].n # Garbage
                     PROVE  h.n <= delayed'[i].n
          BY DEF Leq, DelayedNs
        <5>1. h = delayed[1] /\ 1 \in 1..Len(delayed) /\ delayed'[i] = frame
          BY <2>7, <4>1
        <5>2. h.n \in DelayedNs /\ frame.n = c.pic.n
          BY <2>3, <5>1 DEF DelayedNs
        <5>3. Leq(DelayedNs, Ns(chunks))
          BY <1>1 DEF Chain, Leq
        <5> QED BY <2>2, <5>1, <5>2, <5>3 DEF Leq
      <4>5. /\ outNs \in SUBSET Int
        BY <1>1, <2>2, <2>8
      <4>6. /\ ~lost => h.n # Garbage
            /\ ~lost => \A i \in 1..Len(delayed') : delayed'[i].n # Garbage
        BY <2>7, <2>8, <4>1
      <4>7. CASE frames' = frames
        <5>1. FrameNs' = FrameNs
          BY <4>7 DEF FrameNs
        <5> HIDE DEF outNs
        <5>2. \A D2 \in SUBSET outNs :
                Chain(lastShown, FrameNs, D2, Ns(chunks'), Ns(wire), Ns(feed), QueuedNs, newest.n)
          BY <1>1, <2>2, <2>9, <4>5, ChainKept
        <5> QED BY <3>0, <4>3, <4>6, <4>7, <5>1, <5>2
      <4>8. CASE frames' = <<h>>
        <5>1. FrameNs' = {h.n} \ {Garbage} /\ \A i \in 1..Len(frames') : frames'[i] = h
          BY <4>8 DEF FrameNs
        <5> HIDE DEF outNs
        <5>2. CASE h.n = Garbage
          <6>1. FrameNs' = {}
            BY <5>1, <5>2
          <6>2. \A D2 \in SUBSET outNs :
                  Chain(lastShown, {}, D2, Ns(chunks'), Ns(wire), Ns(feed), QueuedNs, newest.n)
            BY <1>1, <2>2, <2>9, <4>5, ChainKept
          <6> QED BY <4>3, <4>6, <5>1, <5>2, <6>1, <6>2
        <5>3. CASE h.n # Garbage
          <6>0. h.n \in outNs
            BY <4>3, <5>3
          <6>1. \A D2 \in SUBSET outNs : \A G2 \in SUBSET (FrameNs \cup {h.n}) :
                  Leq({h.n}, D2) =>
                    Chain(lastShown, G2, D2, Ns(chunks'), Ns(wire), Ns(feed), QueuedNs, newest.n)
            <7>1. \A D2 \in SUBSET outNs, x \in outNs : \A G2 \in SUBSET (FrameNs \cup {x}) :
                    Leq({x}, D2) =>
                      Chain(lastShown, G2, D2, Ns(chunks'), Ns(wire), Ns(feed), QueuedNs, newest.n)
              BY <1>1, <2>2, <2>9, <4>5, ChainKept
            <7> QED BY <6>0, <7>1
          <6> QED BY <4>3, <4>4, <4>6, <5>1, <5>3, <6>1
        <5> QED BY <5>2, <5>3
      <4> QED BY <4>2, <4>7, <4>8
    <3> QED BY <2>1, <3>1, <3>2
  <2>11. InOrder'
    <3>1. QueuedNs' = QueuedNs
      BY <2>1 DEF QueuedNs
    <3> QED BY <1>1, <2>1, <2>2, <2>10, <3>1 DEF InOrder
  <2>12. ~lost' => Intact'
    <3> SUFFICES ASSUME ~lost' PROVE Intact'
      OBVIOUS
    <3>1. Intact /\ ~lost /\ reference' # "broken"
      BY <1>1, <2>1, <2>4
    <3> QED BY <2>1, <2>2, <2>10, <3>1 DEF Intact
  <2>13. ScreenInv'
    BY <2>11, <2>12 DEF ScreenInv
  <2> QED BY <2>1, <2>13, LoseStep
<1>4. CASE NotifySize
  <2>1. UNCHANGED <<newest, queued, stream, feed, wire, chunks, missed, reference, screen,
                    lastShown, lost, delayed, frames, slots, shownSize, window>>
    BY <1>4 DEF NotifySize, outputVars, encoderVars, decoderVars, viewVars, loopVars, slotVars,
       systemVars
  <2>2. ScreenInv'
    BY <2>1 DEF ScreenInv, InOrder, FrameNs, DelayedNs, QueuedNs, Intact
  <2> QED BY <2>1, <2>2, LoseStep
<1>5. CASE DecodeFails
  <2>1. /\ chunks # << >> /\ chunks' = Tail(chunks) /\ lost' = TRUE
        /\ UNCHANGED <<newest, queued, feed, wire, screen, lastShown, delayed, frames, shownSize,
                       window>>
    BY <1>5 DEF DecodeFails, outputVars, encoderVars, lineVars, loopVars, slotVars, systemVars
  <2>2. Ns(chunks') \subseteq Ns(chunks) /\ Ordered(chunks')
    BY <1>1, <2>1, NumbersTail
  <2>3. FrameNs' = FrameNs /\ DelayedNs' = DelayedNs /\ QueuedNs' = QueuedNs
    BY <2>1 DEF FrameNs, DelayedNs, QueuedNs
  <2>4. Chain(lastShown, FrameNs, DelayedNs, Ns(chunks'), Ns(wire), Ns(feed), QueuedNs, newest.n)
    BY <1>1, <2>2, ChainKept
  <2>5. ScreenInv'
    BY <1>1, <2>1, <2>2, <2>3, <2>4 DEF ScreenInv, InOrder
  <2> QED BY <2>1, <2>5, LoseStep
<1> QED
  BY <1>2, <1>3, <1>4, <1>5

\* Dispatch, and the end of the process.
LEMMA DispatchScreen ==
  ASSUME ViewInv, ViewInv', ScreenInv, viewer = "native", UNCHANGED <<pageVars, viewer>>,
         \/ Exit \/ RequestClose
         \/ \E s \in Sizes : Configure(s)
         \/ \E i \in Slots : ReleaseSlot(i)
  PROVE  ScreenInv' /\ [Screen!Next]_Screen!screenVars
<1>1. /\ newest.n \in Int /\ lastShown \in Int
      /\ Ns(feed) \subseteq Int /\ Ns(wire) \subseteq Int /\ Ns(chunks) \subseteq Int
      /\ FrameNs \subseteq Int /\ DelayedNs \subseteq Int /\ QueuedNs \subseteq Int
      /\ slots \in [Slots -> SlotRecords]
      /\ Chain(lastShown, FrameNs, DelayedNs, Ns(chunks), Ns(wire), Ns(feed), QueuedNs, newest.n)
  BY UnderWay DEF ScreenInv, InOrder, ViewInv, NativeTypes
<1>2. CASE Exit
  <2>1. /\ feed' = << >> /\ wire' = << >> /\ chunks' = << >> /\ frames' = << >>
        /\ missed' = FALSE /\ reference' = "none" /\ screen' = Black
        /\ slots' = [i \in Slots |-> NoSlot] /\ delayed' = << >>
        /\ UNCHANGED <<newest, queued, stream, lastShown, lost>>
    BY <1>2 DEF Exit, HangUp, outputVars, encoderVars
  <2>2. FrameNs' = {} /\ DelayedNs' = {} /\ QueuedNs' = QueuedNs
    BY <2>1 DEF FrameNs, DelayedNs, QueuedNs
  <2>3. Chain(lastShown, {}, {}, {}, {}, {}, QueuedNs, newest.n)
    BY <1>1, ChainKept
  <2>4. InOrder'
    BY <2>1, <2>2, <2>3, NumbersNone DEF InOrder
  <2>5. ~lost' => Intact'
    <3>1. \A i \in Slots : slots'[i].n # Garbage
      BY <2>1 DEF NoSlot, Black, Garbage
    <3>2. /\ \A i \in 1..Len(frames') : frames'[i].n # Garbage
          /\ \A i \in 1..Len(delayed') : delayed'[i].n # Garbage
      BY <2>1
    <3>3. ~lost' => stream' # "torn"
      BY <2>1 DEF ScreenInv, Intact
    <3> QED BY <2>1, <3>1, <3>2, <3>3, NumbersNone DEF Intact, Black, Garbage
  <2>6. ScreenInv'
    BY <2>4, <2>5 DEF ScreenInv
  <2> QED BY <2>1, <2>6, LookStep DEF Black, Garbage
<1>3. CASE \/ RequestClose
           \/ \E s \in Sizes : Configure(s)
           \/ \E i \in Slots : ReleaseSlot(i)
  <2>1. /\ UNCHANGED <<newest, queued, stream, feed, wire, chunks, missed, reference, screen,
                       lastShown, lost, delayed, frames>>
        /\ \/ slots' = slots
           \/ \E i \in Slots :
                slots' = [slots EXCEPT ![i] =
                  IF @.state = "zombie" THEN NoSlot ELSE [@ EXCEPT !.state = "free"]]
    BY <1>3 DEF RequestClose, Configure, ReleaseSlot, feedVars, outputVars, encoderVars, lineVars,
       decoderVars, viewVars, slotVars
  <2>2. \A i \in Slots : slots'[i].n \in {slots[i].n, Black}
    <3>1. \A r \in SlotRecords :
            (IF r.state = "zombie" THEN NoSlot ELSE [r EXCEPT !.state = "free"]).n \in {r.n, Black}
      BY DEF NoSlot, SlotRecords
    <3> QED BY <1>1, <2>1, <3>1
  <2>3. InOrder'
    BY <2>1 DEF ScreenInv, InOrder, FrameNs, DelayedNs, QueuedNs
  <2>4. ~lost' => Intact'
    BY <2>1, <2>2 DEF ScreenInv, Intact, Black, Garbage
  <2>5. ScreenInv'
    BY <2>3, <2>4 DEF ScreenInv
  <2> QED BY <2>1, <2>5, LookStep
<1> QED
  BY <1>2, <1>3

\* What slots made anew and zombies hold is nothing new.
LEMMA SlotsHoldNothingNew ==
  ASSUME slots \in [Slots -> SlotRecords], NEW s
  PROVE  /\ \A i \in Slots : Recreated(slots, s)[i].n \in {slots[i].n, Black}
         /\ \A i \in Slots : Recreated(ResizeSlots(s), s)[i].n \in {slots[i].n, Black}
<1>1. /\ FreshSlot(s).n = Black /\ NoSlot.n = Black
      /\ \A r \in SlotRecords : [r EXCEPT !.state = "zombie"].n = r.n
  BY DEF FreshSlot, NoSlot, SlotRecords
<1>2. \A ss : \A i \in Slots : Recreated(ss, s)[i].n \in {ss[i].n, Black}
  BY <1>1 DEF Recreated
<1>3. \A i \in Slots : ResizeSlots(s)[i].n \in {slots[i].n, Black}
  <2>1. CASE s = size
    BY <2>1 DEF ResizeSlots
  <2>2. CASE s # size
    <3> SUFFICES ASSUME NEW i \in Slots PROVE ResizeSlots(s)[i].n \in {slots[i].n, Black}
      OBVIOUS
    <3>1. ResizeSlots(s)[i] = CASE slots[i].state = "free" -> NoSlot
                                [] slots[i].state = "none" -> NoSlot
                                [] OTHER -> [slots[i] EXCEPT !.state = "zombie"]
      BY <2>2 DEF ResizeSlots
    <3>2. slots[i] \in SlotRecords
      OBVIOUS
    <3>3. ResizeSlots(s)[i] \in {NoSlot, [slots[i] EXCEPT !.state = "zombie"]}
      BY <3>1
    <3> QED BY <1>1, <3>2, <3>3
  <2> QED BY <2>1, <2>2
<1>4. \A i \in Slots : Recreated(ResizeSlots(s), s)[i].n \in {ResizeSlots(s)[i].n, Black}
  BY <1>2
<1> QED
  BY <1>2, <1>3, <1>4

\* One slot is given to the window system.
LEMMA HeldHoldsNothingElse ==
  ASSUME NEW ss, NEW n, NEW i \in Slots, DOMAIN ss = Slots, ss = [j \in Slots |-> ss[j]],
         \A j \in Slots : ss[j] \in SlotRecords
  PROVE  \A j \in Slots : Hold(ss, i, n)[j].n \in {ss[j].n, n}
<1>1. Hold(ss, i, n) = [ss EXCEPT ![i] = [ss[i] EXCEPT !.state = "held", !.n = n]]
  BY DEF Hold
<1>2. [ss[i] EXCEPT !.state = "held", !.n = n].n = n
  BY DEF SlotRecords
<1> QED
  BY <1>1, <1>2

LEMMA ApplyResizeScreen ==
  ASSUME ViewInv, ViewInv', ScreenInv, viewer = "native", UNCHANGED <<pageVars, viewer>>, ApplyResize
  PROVE  ScreenInv' /\ [Screen!Next]_Screen!screenVars
<1>1. /\ UNCHANGED <<newest, queued, stream, feed, wire, chunks, missed, reference, lost, delayed,
                     frames, window>>
      /\ IF pendingResize = 0 THEN NoCommit /\ UNCHANGED <<size, slots, nextIdx>>
         ELSE ResizeAndPrime(pendingResize)
  BY DEF ApplyResize, outputVars, encoderVars, lineVars, decoderVars
<1>2. slots \in [Slots -> SlotRecords]
  BY DEF ViewInv, NativeTypes
<1>3. /\ lastShown' = lastShown
      /\ \A i \in Slots : slots'[i].n \in {slots[i].n, Black}
      /\ screen' \in {screen, Black} \/ \E i \in Slots : screen' = slots[i].n
  <2>1. CASE pendingResize = 0
    BY <1>1, <2>1 DEF NoCommit, systemVars
  <2>2. CASE pendingResize # 0 /\ renderer = "egl"
    BY <1>1, <2>2 DEF ResizeAndPrime, Commit
  <2>3. CASE pendingResize # 0 /\ renderer # "egl"
    <3> DEFINE ss == Recreated(ResizeSlots(pendingResize), pendingResize)
               i == CHOOSE i \in Free(ss) : \A j \in Free(ss) : i <= j
    <3>1. \/ slots' = ss /\ NoCommit
          \/ /\ Free(ss) # {} /\ slots' = Hold(ss, i, ss[i].n)
             /\ Commit(i, ss[i].size, ss[i].n) /\ lastShown' = lastShown
      BY <1>1, <2>3 DEF ResizeAndPrime
    <3>2. \A j \in Slots : ss[j].n \in {slots[j].n, Black}
      BY <1>2, SlotsHoldNothingNew
    <3>3. CASE slots' = ss /\ NoCommit
      BY <3>2, <3>3 DEF NoCommit, systemVars
    <3>4. CASE /\ Free(ss) # {} /\ slots' = Hold(ss, i, ss[i].n)
               /\ Commit(i, ss[i].size, ss[i].n) /\ lastShown' = lastShown
      <4>1. Free(ss) \in SUBSET Slots
        BY DEF Free
      <4>2. i \in Free(ss)
        <5> HIDE DEF ss
        <5> QED BY <3>4, <4>1, FirstSlot
      <4>3. i \in Slots
        BY <4>1, <4>2
      <4>4. screen' = ss[i].n
        BY <3>4 DEF Commit
      <4>5. \A j \in Slots : ss[j] \in SlotRecords /\ ss = [k \in Slots |-> ss[k]]
        <5>1. pendingResize \in Sizes /\ renderer = "shm" /\ BuffersKept
          BY <2>3 DEF ViewInv, ViewersTypeOK, NativeTypes
        <5>2. ResizeSlots(pendingResize) \in [Slots -> SlotRecords]
          BY <1>2, <5>1, ResizedSlots
        <5>3. FreshSlot(pendingResize) \in SlotRecords
          BY <5>1 DEF FreshSlot, SlotRecords, Shades
        <5>4. ss \in [Slots -> SlotRecords]
          BY <5>2, <5>3 DEF Recreated
        <5> QED BY <5>4
      <4>6. DOMAIN ss = Slots
        BY DEF Recreated
      <4> HIDE DEF ss, i
      <4>7. \A j \in Slots : slots'[j].n \in {ss[j].n, ss[i].n}
        BY <1>2, <3>4, <4>3, <4>5, <4>6, HeldHoldsNothingElse
      <4>8. \A j \in Slots \ {i} : slots'[j].n = ss[j].n
        BY <3>4, <4>5, <4>6, <4>3 DEF Hold
      <4>9. \A j \in Slots : slots'[j].n = ss[j].n
        BY <4>7, <4>8
      <4> QED BY <3>2, <3>4, <4>3, <4>4, <4>9
    <3> QED BY <3>1, <3>3, <3>4
  <2> QED BY <2>1, <2>2, <2>3
<1>4. InOrder'
  BY <1>1, <1>3 DEF ScreenInv, InOrder, FrameNs, DelayedNs, QueuedNs
<1>5. ~lost => screen' # Garbage
  BY <1>3 DEF ScreenInv, Intact, Black, Garbage
<1>6. ~lost' => Intact'
  <2>1. ASSUME ~lost PROVE \A i \in Slots : slots'[i].n # Garbage
    BY <1>3, <2>1 DEF ScreenInv, Intact, Black, Garbage
  <2> QED BY <1>1, <1>5, <2>1 DEF ScreenInv, Intact
<1>8. lost \in BOOLEAN
  BY DEF ViewInv, ViewersTypeOK, FeedTypeOK
<1>9. [Screen!Next]_Screen!screenVars
  BY <1>1, <1>3, <1>5, <1>8, LookStep
<1> QED
  BY <1>4, <1>6, <1>9 DEF ScreenInv

\* A frame is shown in a buffer of the window's size, or not at all.
LEMMA RenderShows ==
  ASSUME ViewInv, running, phase = "drain", NEW frame \in Frames,
         IF renderer = "shm" THEN RenderShm(frame) ELSE RenderEgl(frame)
  PROVE  /\ \A i \in Slots : slots'[i].n \in {slots[i].n, Black, frame.n}
         /\ \/ UNCHANGED <<screen, lastShown, shownSize>>
            \/ Show(frame.n) /\ shownSize' = window
<1>1. /\ slots \in [Slots -> SlotRecords] /\ BuffersKept /\ renderer \in {"shm", "egl"}
      /\ size = window /\ window \in Sizes
  BY DEF ViewInv, ViewersTypeOK, NativeTypes, SizesAgree
<1>2. CASE renderer = "egl"
  BY <1>1, <1>2 DEF RenderEgl, Commit, NoCommit, systemVars
<1>3. CASE renderer = "shm"
  <2> DEFINE ss == Recreated(slots, size)
             i == NextReleased(ss)
  <2>1. /\ ss \in [Slots -> SlotRecords]
        /\ \A j \in Slots : ss[j].state \in {"free", "held"} => ss[j].size = size
    BY <1>1, <1>3, RecreatedSlots DEF BuffersKept
  <2>2. \A j \in Slots : ss[j].n \in {slots[j].n, Black}
    BY <1>1, SlotsHoldNothingNew
  <2> HIDE DEF ss
  <2>3. \/ slots' = ss /\ NoCommit
        \/ /\ Free(ss) # {} /\ slots' = Hold(ss, i, frame.n)
           /\ Commit(i, ss[i].size, frame.n) /\ Show(frame.n)
    <3>1. CASE Free(ss) = {} \/ frame.size # ss[NextReleased(ss)].size
      BY <1>3, <3>1 DEF RenderShm, ss
    <3>2. CASE ~(Free(ss) = {} \/ frame.size # ss[NextReleased(ss)].size)
      BY <1>3, <3>2 DEF RenderShm, ss
    <3> QED BY <3>1, <3>2
  <2>4. CASE slots' = ss /\ NoCommit
    BY <2>2, <2>4 DEF NoCommit, systemVars
  <2>5. CASE /\ Free(ss) # {} /\ slots' = Hold(ss, i, frame.n)
             /\ Commit(i, ss[i].size, frame.n) /\ Show(frame.n)
    <3>1. i \in Free(ss)
      BY <2>5, NextReleasedIsFree
    <3>2. i \in Slots /\ ss[i].state = "free"
      BY <3>1 DEF Free
    <3>3. ss[i].size = window
      BY <1>1, <2>1, <3>2
    <3>4. shownSize' = window
      BY <2>5, <3>3 DEF Commit
    <3>5. DOMAIN ss = Slots /\ ss = [j \in Slots |-> ss[j]] /\ \A j \in Slots : ss[j] \in SlotRecords
      BY <2>1
    <3> HIDE DEF i
    <3>6. \A j \in Slots : slots'[j].n \in {ss[j].n, frame.n}
      BY <2>5, <3>2, <3>5, HeldHoldsNothingElse
    <3> QED BY <2>2, <2>5, <3>4, <3>6
  <2> QED BY <2>3, <2>4, <2>5
<1> QED
  BY <1>1, <1>2, <1>3

LEMMA DrainScreen ==
  ASSUME ViewInv, ViewInv', ScreenInv, viewer = "native", UNCHANGED <<pageVars, viewer>>, Drain
  PROVE  ScreenInv' /\ [Screen!Next]_Screen!screenVars
<1>1. /\ running /\ phase = "drain" /\ frames' = << >>
      /\ UNCHANGED <<newest, queued, stream, feed, wire, chunks, missed, reference, lost, delayed,
                     window>>
  BY DEF Drain, Display, outputVars, encoderVars, lineVars, decoderVars
<1>2. /\ newest.n \in Int /\ lastShown \in Int /\ frames \in Seq(Frames) /\ lost \in BOOLEAN
      /\ Ns(feed) \subseteq Int /\ Ns(wire) \subseteq Int /\ Ns(chunks) \subseteq Int
      /\ FrameNs \subseteq Int /\ DelayedNs \subseteq Int /\ QueuedNs \subseteq Int
      /\ Ordered(feed) /\ Ordered(wire) /\ Ordered(chunks)
      /\ Chain(lastShown, FrameNs, DelayedNs, Ns(chunks), Ns(wire), Ns(feed), QueuedNs, newest.n)
      /\ ~lost => Intact
  BY UnderWay DEF ScreenInv, InOrder, ViewInv, ViewersTypeOK, FeedTypeOK
<1>3. FrameNs' = {} /\ DelayedNs' = DelayedNs /\ QueuedNs' = QueuedNs
  BY <1>1 DEF FrameNs, DelayedNs, QueuedNs
<1>5. CASE frames = << >>
  <2>1. UNCHANGED <<slots, screen, lastShown, shownSize>>
    BY <1>5 DEF Drain, NoCommit, systemVars
  <2>2. FrameNs = {}
    BY <1>5 DEF FrameNs
  <2>3. InOrder'
    BY <1>1, <1>2, <1>3, <2>1, <2>2 DEF InOrder
  <2>4. ~lost' => Intact'
    BY <1>1, <1>2, <1>5, <2>1 DEF Intact
  <2>5. ScreenInv'
    BY <2>3, <2>4 DEF ScreenInv
  <2> QED BY <1>1, <2>1, <2>5, LoseStep
<1>6. CASE frames # << >>
  <2> DEFINE frame == Last(frames)
  <2>1. frame \in Frames /\ frame = frames[Len(frames)] /\ Len(frames) \in 1..Len(frames)
    BY <1>2, <1>6 DEF Last
  <2>2. IF renderer = "shm" THEN RenderShm(frame) ELSE RenderEgl(frame)
    BY <1>6 DEF Drain
  <2> HIDE DEF frame
  <2>3. /\ \A i \in Slots : slots'[i].n \in {slots[i].n, Black, frame.n}
        /\ \/ UNCHANGED <<screen, lastShown, shownSize>>
           \/ Show(frame.n) /\ shownSize' = window
    BY <1>1, <2>1, <2>2, RenderShows
  <2>4. frame.n = Garbage \/ frame.n \in 1..MaxPictures
    BY <2>1 DEF Frames
  <2>5. frame.n # Garbage => frame.n \in FrameNs
    BY <2>1 DEF FrameNs
  <2>6. ~lost => frame.n # Garbage
    BY <1>2, <2>1 DEF Intact
  <2>7. Garbage \notin 1..MaxPictures
    BY FeedOK DEF Garbage
  <2>8. Chain(lastShown', {}, DelayedNs, Ns(chunks), Ns(wire), Ns(feed), QueuedNs, newest.n)
    <3>1. Chain(lastShown, {}, DelayedNs, Ns(chunks), Ns(wire), Ns(feed), QueuedNs, newest.n)
      BY <1>2, ChainKept
    <3>2. frame.n # Garbage =>
            Chain(frame.n, {}, DelayedNs, Ns(chunks), Ns(wire), Ns(feed), QueuedNs, newest.n)
      <4>1. \A t \in FrameNs : Chain(t, {}, DelayedNs, Ns(chunks), Ns(wire), Ns(feed), QueuedNs, newest.n)
        BY <1>2, ChainKept
      <4> QED BY <2>5, <4>1
    <3>3. lastShown' = lastShown \/ (frame.n # Garbage /\ lastShown' = frame.n)
      BY <2>3, <2>4, <2>7 DEF Show
    <3> QED BY <3>1, <3>2, <3>3
  <2>9. InOrder'
    BY <1>1, <1>2, <1>3, <2>8 DEF InOrder
  <2>10. ~lost' => Intact'
    <3> SUFFICES ASSUME ~lost' PROVE Intact'
      OBVIOUS
    <3>0. ~lost
      BY <1>1
    <3>1. Intact /\ frame.n # Garbage
      BY <1>2, <2>6, <3>0
    <3>2. \A i \in Slots : slots'[i].n # Garbage
      BY <2>3, <3>1 DEF Intact, Black, Garbage
    <3>3. screen' # Garbage
      BY <2>3, <3>1 DEF Intact, Show
    <3>4. \A i \in 1..Len(frames') : frames'[i].n # Garbage
      BY <1>1
    <3> QED BY <1>1, <3>1, <3>2, <3>3, <3>4 DEF Intact
  <2>11. ScreenInv'
    BY <2>9, <2>10 DEF ScreenInv
  <2>12. [Screen!Next]_Screen!screenVars
    <3>1. CASE UNCHANGED <<screen, lastShown, shownSize>>
      BY <1>1, <3>1, LoseStep
    <3>2. CASE Show(frame.n) /\ shownSize' = window /\ frame.n # Garbage
      <4>1. lastShown <= frame.n /\ frame.n <= newest.n
        BY <1>2, <2>5, <3>2 DEF Chain, Leq
      <4>2. frame.n \in 1..MaxPictures /\ lastShown' = frame.n /\ screen' = frame.n
        BY <2>4, <3>2 DEF Show
      <4> QED BY <1>1, <3>2, <4>1, <4>2, ShowStep
    <3>3. CASE Show(frame.n) /\ frame.n = Garbage
      <4>1. lastShown' = lastShown /\ lost
        BY <2>6, <2>7, <3>3 DEF Show
      <4> QED BY <1>1, <3>3, <4>1, LookStep
    <3> QED BY <2>3, <3>1, <3>2, <3>3
  <2> QED BY <2>11, <2>12
<1> QED
  BY <1>5, <1>6

LEMMA ScreenStutter ==
  ASSUME ScreenInv, UNCHANGED viewerVars
  PROVE  ScreenInv' /\ [Screen!Next]_Screen!screenVars
<1>1. UNCHANGED <<newest, queued, stream, feed, wire, chunks, missed, reference, keyframeSeen,
                  screen, lastShown, lost, delayed, frames, slots, shownSize, window, viewer>>
  BY DEF viewerVars, feedVars, pageVars, nativeVars, outputVars, encoderVars, lineVars,
     decoderVars, viewVars, loopVars, slotVars, systemVars
<1>2. ScreenInv'
  BY <1>1 DEF ScreenInv, InOrder, FrameNs, DelayedNs, QueuedNs, Intact, PageSynced
<1> QED
  BY <1>1, <1>2, LoseStep

LEMMA ScreenStep ==
  ASSUME ViewInv, ScreenInv, [ViewersNext]_viewerVars
  PROVE  ScreenInv' /\ [Screen!Next]_Screen!screenVars
<1>1. ViewInv'
  BY ViewStep
<1>2. CASE ByNative(NativeStep)
  BY <1>1, <1>2, TasksScreen, DispatchScreen, ApplyResizeScreen, DrainScreen
  DEF ByNative, NativeStep, DisplayLoop
<1> QED
  BY <1>2, ServerScreen, PageScreen, ScreenStutter DEF ViewersNext

LEMMA ScreenInitHolds ==
  ASSUME ViewersInit
  PROVE  ScreenInv /\ Screen!Init
<1>1. /\ newest.n = 1 /\ lastShown = 0 /\ screen = Black /\ lost = FALSE
      /\ feed = << >> /\ wire = << >> /\ chunks = << >> /\ delayed = << >> /\ frames = << >>
      /\ queued = << >> /\ stream = "fresh" /\ missed = FALSE /\ reference = "none" /\ keyframeSeen = FALSE
  BY DEF ViewersInit, FeedInit, PageInit, NativeInit
<1>2. \A i \in Slots : slots[i].n = Black
  BY DEF ViewersInit, NativeInit, FreshSlot
<1>3. FrameNs = {} /\ DelayedNs = {} /\ QueuedNs = {}
  BY <1>1 DEF FrameNs, DelayedNs, QueuedNs
<1>4. InOrder
  BY <1>1, <1>3, NumbersNone DEF InOrder, Chain, Leq
<1>5. Intact
  BY <1>1, <1>2, NumbersNone DEF Intact, Black, Garbage
<1>6. PageSynced
  BY <1>1 DEF PageSynced
<1>7. Look = "filler"
  BY <1>1 DEF Look, Black, Garbage
<1> QED
  BY <1>1, <1>4, <1>5, <1>6, <1>7 DEF ScreenInv, Screen!Init

\* ScreenKept: with any number of pictures and of either
\* client's buffers, through lost packets, failing decoders, lost connections
\* and resized windows, what a viewer sees is what Screen lets it see -- exact
\* pictures in their order, and no garbage unless something was lost on the way.
THEOREM ScreenSteps == ViewersSpec => ScreenKept
<1>1. ViewersInit => ScreenInv /\ Screen!Init
  BY ScreenInitHolds
<1>2. ViewInv /\ ScreenInv /\ [ViewersNext]_viewerVars
        => ScreenInv' /\ [Screen!Next]_Screen!screenVars
  BY ScreenStep
<1> QED
  BY <1>1, <1>2, ViewKept, PTL DEF ViewersSpec, ScreenKept, Screen!Spec

=============================================================================
