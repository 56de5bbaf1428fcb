----------------------------- MODULE VideoFeed -----------------------------
(***************************************************************************)
(* The way of the video to a viewer: the render loop that draws a frame        *)
(* (main.rs), the encoder thread (encoder/mod.rs), the broadcast channel, the  *)
(* handler that writes its socket and answers requests for a keyframe         *)
(* (server.rs), and the decoder of the viewer.                               *)
(*                                                                          *)
(* A picture of the output is a number and a size.  A packet is a keyframe or *)
(* a delta against the packet before it; whether that one is still part of    *)
(* what the viewer receives is kept with it ("whole", as a keyframe is).  An   *)
(* idle output is not drawn again: the next frame comes with the next change, *)
(* or with force_render, which is set before ForceKeyframe is sent and is     *)
(* seen by another thread.                                                  *)
(***************************************************************************)
EXTENDS Integers, SequencesExt

CONSTANTS
  MaxPictures, \* bound: pictures of the output
  Sizes,       \* sizes a viewer may ask for, 1 being that at the start
  MinSize,     \* smallest size the server accepts
  MaxSize,     \* --max-resolution
  FrameCap,    \* capacity of the frame queue (4 in the code)
  FeedCap,     \* capacity of the broadcast channel (3 in the code)
  WireCap      \* packets the socket takes before a send waits

ASSUME FeedOK ==
  /\ MaxPictures \in Nat \ {0}
  /\ Sizes \subseteq Nat \ {0}
  /\ MinSize \in Nat /\ MaxSize \in Nat \ {0}
  /\ FrameCap \in Nat \ {0}
  /\ FeedCap \in Nat \ {0} /\ WireCap \in Nat \ {0}

Black == 0
Garbage == -1

VARIABLES
  \* Render loop: the output, whether it has changed since it was drawn, and
  \* force_render.
  newest, changed, forceRender,
  \* Encoder thread: the frame queue, the resize it has not seen (0 for none)
  \* and whether that came after it had looked, a ForceKeyframe it has not
  \* acted on, the size of its encoder, and whether that has yet to begin
  \* ("fresh") or failed to put out its last packet ("torn").
  queued, resizeTo, late, forceKeyframe, encSize, stream,
  \* The connection, if there is one: what its receiver of the broadcast
  \* holds, its socket, the requests under way, the cooldown, and whether its
  \* handler has still to send the ForceKeyframe.
  connected, feed, wire, asks, resizes, cooling, forcing,
  \* The viewer's decoder: packets it has not decoded, whether the packet
  \* before the next one was left out, and its reference picture.
  chunks, missed, reference,
  \* What the viewer shows, the last picture it has shown, and whether a
  \* packet that another is a delta against was lost (history).
  screen, lastShown, lost

outputVars  == <<newest, changed, forceRender>>
encoderVars == <<queued, resizeTo, late, forceKeyframe, encSize, stream>>
lineVars    == <<connected, feed, wire, asks, resizes, cooling, forcing>>
decoderVars == <<chunks, missed, reference>>
viewVars    == <<screen, lastShown, lost>>
feedVars    == <<outputVars, encoderVars, lineVars, decoderVars, viewVars>>

Pictures == [n : 1..MaxPictures, size : Nat \ {0}]
Packets == [key : BOOLEAN, whole : BOOLEAN, pic : Pictures]

FeedInit ==
  /\ newest = [n |-> 1, size |-> 1] /\ changed = FALSE /\ forceRender = TRUE
  /\ queued = << >> /\ resizeTo = 0 /\ late = FALSE /\ forceKeyframe = FALSE
  /\ encSize = 1 /\ stream = "fresh"
  /\ connected = TRUE /\ feed = << >> /\ wire = << >> /\ asks = 0
  /\ cooling = FALSE /\ forcing = TRUE
  /\ chunks = << >> /\ missed = FALSE /\ reference = "none"
  /\ screen = Black /\ lastShown = 0 /\ lost = FALSE

-----------------------------------------------------------------------------
(***************************************************************************)
(* The server.                                                              *)
(***************************************************************************)

Draw ==
  /\ newest.n < MaxPictures
  /\ newest' = [newest EXCEPT !.n = @ + 1]
  /\ changed' = TRUE
  /\ UNCHANGED <<forceRender, encoderVars, lineVars, decoderVars, viewVars>>

\* The render loop draws what has changed, or what it is told to.  A frame the
\* queue has no room for is dropped; its damage is marked again, unless it
\* lies in GPU memory.
Render ==
  /\ changed \/ forceRender
  /\ forceRender' = FALSE
  /\ \/ /\ Len(queued) < FrameCap
        /\ queued' = Append(queued, newest) /\ changed' = FALSE
     \/ /\ Len(queued) = FrameCap
        /\ changed' \in BOOLEAN /\ UNCHANGED queued
  /\ UNCHANGED <<newest, resizeTo, late, forceKeyframe, encSize, stream, lineVars, decoderVars,
                 viewVars>>

\* The top of the encoder thread's loop, where it looks for a resize before it
\* waits for a frame: the frames that are queued go, for a new encoder.
TakeResize ==
  /\ resizeTo # 0 /\ ~late
  /\ resizeTo' = 0
  /\ queued' = << >> /\ encSize' = resizeTo /\ stream' = "fresh"
  /\ UNCHANGED <<outputVars, late, forceKeyframe, lineVars, decoderVars, viewVars>>

\* video_tx.send: a receiver that is full loses its oldest packet, which it
\* reports and passes over (RecvError::Lagged).
Broadcast(p) ==
  IF Len(feed) < FeedCap
  THEN feed' = Append(feed, p) /\ UNCHANGED lost
  ELSE LET q == Tail(Append(feed, p)) IN
       /\ feed' = [q EXCEPT ![1].whole = q[1].key]
       /\ lost' = TRUE

\* The thread has taken the newest frame of the queue; one of another size
\* gets a new encoder.
Begins == stream = "fresh" \/ Last(queued).size # encSize

TakeFrame ==
  /\ queued # << >> /\ (resizeTo = 0 \/ late)
  /\ queued' = << >> /\ late' = FALSE /\ forceKeyframe' = FALSE
  /\ encSize' = Last(queued).size
  /\ UNCHANGED <<outputVars, resizeTo, connected, wire, asks, resizes, cooling, forcing,
                 decoderVars, screen, lastShown>>

\* It becomes a keyframe if one is asked for or the encoder begins; the
\* encoder puts one at other times, too (gop_size).
Encode(key) ==
  /\ TakeFrame
  /\ forceKeyframe \/ Begins => key
  /\ stream' = "flowing"
  /\ LET p == [key |-> key, whole |-> key \/ stream # "torn", pic |-> Last(queued)] IN
     IF connected THEN Broadcast(p) ELSE UNCHANGED <<feed, lost>>

\* An error is logged; the request for a keyframe is gone, and maybe a packet.
EncodeFails ==
  /\ TakeFrame
  /\ stream' \in {IF Begins THEN "fresh" ELSE stream, "torn"}
  /\ lost' = TRUE
  /\ UNCHANGED feed

\* The handler's video arm.
SendPacket ==
  /\ feed # << >> /\ Len(wire) < WireCap /\ ~forcing
  /\ wire' = Append(wire, Head(feed)) /\ feed' = Tail(feed)
  /\ UNCHANGED <<outputVars, encoderVars, connected, asks, resizes, cooling, forcing, decoderVars,
                 viewVars>>

\* RequestKeyframe: at most one in KEYFRAME_FORCE_COOLDOWN is honoured, the
\* others go without an answer.  force_render comes first ...
HandleRequestKeyframe ==
  /\ asks > 0 /\ asks' = asks - 1 /\ ~forcing
  /\ IF cooling THEN UNCHANGED <<forceRender, cooling, forcing>>
     ELSE forceRender' = TRUE /\ cooling' = TRUE /\ forcing' = TRUE
  /\ UNCHANGED <<newest, changed, encoderVars, connected, feed, wire, resizes, decoderVars, viewVars>>

\* ... and then ForceKeyframe, once the control queue has room.
SendForceKeyframe ==
  /\ forcing /\ forcing' = FALSE
  /\ forceKeyframe' = TRUE
  /\ UNCHANGED <<outputVars, queued, resizeTo, late, encSize, stream, connected, feed, wire, asks,
                 resizes, cooling, decoderVars, viewVars>>

CooldownPasses ==
  /\ cooling /\ cooling' = FALSE
  /\ UNCHANGED <<outputVars, encoderVars, connected, feed, wire, asks, resizes, forcing,
                 decoderVars, viewVars>>

\* sanitize_resolution clamps what is too large; 0 is for what is too small
\* then.
Sanitize(s) ==
  LET clamped == IF s > MaxSize THEN MaxSize ELSE s
  IN  IF clamped < MinSize THEN 0 ELSE clamped

\* The render loop takes a resize, and tells the encoder, whose thread may have
\* looked for one already.
HandleResize ==
  /\ resizes # << >> /\ resizes' = Tail(resizes)
  /\ LET size == Sanitize(Head(resizes)) IN
     IF size = 0 THEN UNCHANGED <<newest, changed, resizeTo, late>>
     ELSE /\ newest' = [newest EXCEPT !.size = size] /\ changed' = TRUE
          /\ resizeTo' = size
          /\ late' \in (IF resizeTo = 0 THEN BOOLEAN ELSE {late})
  /\ UNCHANGED <<forceRender, queued, forceKeyframe, encSize, stream, connected, feed, wire,
                 asks, cooling, forcing, decoderVars, viewVars>>

\* The connection ends with all that is under way; a ForceKeyframe its handler
\* sends yet is one of the keyframes the encoder may put anyway.
HangUp ==
  /\ connected' = FALSE
  /\ feed' = << >> /\ wire' = << >> /\ asks' = 0 /\ resizes' = << >> /\ forcing' = FALSE

ServerStep ==
  \/ Draw \/ Render
  \/ TakeResize \/ (\E key \in BOOLEAN : Encode(key)) \/ EncodeFails
  \/ SendPacket \/ HandleRequestKeyframe \/ SendForceKeyframe \/ HandleResize \/ CooldownPasses

-----------------------------------------------------------------------------
(***************************************************************************)
(* The viewer's decoder.                                                    *)
(***************************************************************************)

\* A delta is decoded exactly when the packet before it was, too.
Chunk(p) == [p EXCEPT !.whole = p.key \/ (p.whole /\ ~missed)]

\* The reference after the next packet.
Decoded(c) ==
  CASE c.key -> "exact"
    [] ~c.key /\ reference = "none" -> "none"
    [] ~c.key /\ reference # "none" ->
         IF c.whole THEN reference ELSE "broken"

Show(n) ==
  /\ screen' = n
  /\ lastShown' = IF n \in 1..MaxPictures THEN n ELSE lastShown

EncoderTypeOK ==
  /\ queued \in Seq(Pictures) /\ Len(queued) <= FrameCap
  /\ resizeTo \in Nat /\ late \in BOOLEAN /\ encSize \in Nat \ {0}
  /\ forceKeyframe \in BOOLEAN /\ stream \in {"fresh", "flowing", "torn"}

FeedTypeOK ==
  /\ EncoderTypeOK
  /\ newest \in Pictures /\ changed \in BOOLEAN /\ forceRender \in BOOLEAN
  /\ connected \in BOOLEAN /\ cooling \in BOOLEAN /\ forcing \in BOOLEAN /\ asks \in Nat
  /\ feed \in Seq(Packets) /\ Len(feed) <= FeedCap
  /\ wire \in Seq(Packets) /\ Len(wire) <= WireCap
  /\ resizes \in Seq(Sizes)
  /\ chunks \in Seq(Packets) /\ missed \in BOOLEAN
  /\ reference \in {"none", "exact", "broken"}
  /\ screen \in {Black, Garbage} \cup 1..MaxPictures /\ lastShown \in 0..MaxPictures
  /\ lost \in BOOLEAN
=============================================================================
