----------------------------- MODULE PageVideo -----------------------------
(***************************************************************************)
(* The page as a viewer: VideoStream (web/src/lib/stream.ts) between the      *)
(* socket and WebCodecs, whose decoder has a queue without a bound of its own *)
(* and may fail.  After anything it leaves out the page waits for a keyframe, *)
(* for which it asks once.                                                   *)
(***************************************************************************)
EXTENDS VideoFeed

CONSTANTS
  MaxDecodeQueue, \* MAX_DECODE_QUEUE (2 in the code)
  MaxAsks,        \* bound: requests under way, one more is not told apart
  MaxTroubles     \* bound: decoder errors, new codecs and lost connections

ASSUME PageOK == MaxDecodeQueue \in Nat /\ MaxAsks \in Nat \ {0} /\ MaxTroubles \in Nat

VARIABLES keyframeSeen, keyframeRequestPending, troubles

pageVars == <<keyframeSeen, keyframeRequestPending, troubles>>

PageInit == keyframeSeen = FALSE /\ keyframeRequestPending = FALSE /\ troubles = 0

\* requestKeyframe.
RequestKeyframe ==
  IF keyframeRequestPending THEN UNCHANGED <<keyframeRequestPending, asks>>
  ELSE keyframeRequestPending' = TRUE /\ asks' = (IF asks < MaxAsks THEN asks + 1 ELSE asks)

\* A bug: the length of the decoder's queue is not looked at.
NeverBacklogged == FALSE

Backlogged == Len(chunks) > MaxDecodeQueue

\* A bug: the page goes on with the next delta.
DropAndGoOn(p) ==
  /\ Backlogged /\ ~p.key
  /\ RequestKeyframe /\ UNCHANGED keyframeSeen
  /\ missed' = TRUE
  /\ UNCHANGED <<chunks, reference>>

\* handleVideoFrame: behind with decoding, a delta is left out ...
DropForBacklog(p) ==
  /\ Backlogged /\ ~p.key
  /\ keyframeSeen' = FALSE /\ RequestKeyframe
  /\ missed' = TRUE
  /\ UNCHANGED <<chunks, reference>>

\* ... as is any that comes before a keyframe ...
SkipDelta(p) ==
  /\ ~Backlogged /\ ~p.key /\ ~keyframeSeen
  /\ missed' = TRUE
  /\ UNCHANGED <<keyframeSeen, keyframeRequestPending, asks, chunks, reference>>

\* ... and all the rest is decoded, a keyframe in place of a backlog.
Feed(p) ==
  /\ p.key \/ (~Backlogged /\ keyframeSeen)
  /\ keyframeSeen' = TRUE
  /\ keyframeRequestPending' = (keyframeRequestPending /\ ~p.key)
  /\ chunks' = (IF Backlogged THEN << >> ELSE chunks) \o <<Chunk(p)>>
  /\ reference' = IF Backlogged THEN "none" ELSE reference
  /\ missed' = FALSE
  /\ UNCHANGED asks

HandleVideoFrame ==
  /\ wire # << >> /\ wire' = Tail(wire)
  /\ LET p == Head(wire) IN DropForBacklog(p) \/ SkipDelta(p) \/ Feed(p)
  /\ UNCHANGED <<outputVars, encoderVars, connected, feed, resizes, cooling, forcing, viewVars,
                 troubles>>

\* handleFrame: WebCodecs has decoded a chunk, which is drawn.
HandleFrame ==
  /\ chunks # << >> /\ chunks' = Tail(chunks)
  /\ reference' = Decoded(Head(chunks))
  /\ Show(IF reference' = "exact" THEN Head(chunks).pic.n ELSE Garbage)
  /\ UNCHANGED <<outputVars, encoderVars, lineVars, missed, lost, keyframeSeen,
                 keyframeRequestPending, troubles>>

Trouble == connected /\ troubles < MaxTroubles /\ troubles' = troubles + 1

\* A decoder that starts afresh waits for a keyframe.
Resync ==
  /\ chunks' = << >> /\ reference' = "none" /\ missed' = FALSE
  /\ keyframeSeen' = FALSE /\ RequestKeyframe
  /\ UNCHANGED <<outputVars, encoderVars, connected, feed, wire, resizes, cooling, forcing, viewVars>>

\* recoverDecoder, after an error of the decoder.
RecoverDecoder == Trouble /\ chunks # << >> /\ Resync

\* setCodec: the server reports a new codec, in no order with the video.
SetCodec == Trouble /\ Resync

\* The connection is lost; start() begins anew on the next one, for which the
\* handler begins as it answers a request.
LoseConnection ==
  /\ Trouble /\ HangUp
  /\ UNCHANGED <<outputVars, encoderVars, cooling, decoderVars, viewVars, keyframeSeen,
                 keyframeRequestPending>>

Start ==
  /\ ~connected /\ connected' = TRUE
  /\ forceRender' = TRUE /\ forcing' = TRUE
  /\ chunks' = << >> /\ reference' = "none" /\ missed' = FALSE
  /\ keyframeSeen' = FALSE /\ keyframeRequestPending' = FALSE
  /\ UNCHANGED <<newest, changed, encoderVars, feed, wire, asks, resizes, cooling, viewVars, troubles>>

PageStep ==
  \/ HandleVideoFrame \/ HandleFrame
  \/ RecoverDecoder \/ SetCodec
  \/ LoseConnection \/ Start
=============================================================================
