---------------------------- MODULE VaapiEncoder ----------------------------
(***************************************************************************)
(* The hardware path: GlCompositor renders into a small pool of targets in    *)
(* turn (compositor/gl.rs), a queued frame is only a handle on its target, and *)
(* VaapiEncoder rebuilds its pipeline step by step, any of which may fail, and *)
(* keeps libav's reference-counted contexts alive by hand                     *)
(* (encoder/vaapi.rs).  The encoder thread around it is that of FramePipeline,  *)
(* here with the failures of the hardware.                                   *)
(*                                                                          *)
(* A reference is a pair <<owner, object>>; an object with no reference is     *)
(* freed and gives up its own.  Of every picture one row is followed: while a  *)
(* target is drawn, whoever reads that row finds the old picture or the new.  *)
(***************************************************************************)
EXTENDS Integers, Sequences, FiniteSets

CONSTANTS
  Sizes,          \* sizes of the output, 1 being that at the start
  Rates,          \* bitrates, 1 being that at the start
  NumTargets,     \* targets of a pool (2 in the code)
  QueueCap,       \* frames in the queue (4 in the code)
  MaxPictures,    \* bound: pictures rendered
  MaxPools,       \* bound: pools of targets, one more than the resizes
  MaxBuilds       \* bound: pipelines built

ASSUME VaapiOK ==
  /\ 1 \in Sizes /\ 1 \in Rates
  /\ {NumTargets, QueueCap, MaxPictures, MaxPools, MaxBuilds} \subseteq Nat \ {0}

VARIABLES
  \* gpu_frames: did the GL compositor come up, so that frames stay on the GPU?
  gpuFrames,
  \* Render loop: output size, the picture begun last, the frame that is being
  \* made of it, the pool in use with the pictures in its targets (those of
  \* older pools are kept by handles).
  outSize, picture, making, pool, content, nextTarget,
  \* Channels to the encoder thread: frames, and the resize watch (0: seen).
  queue, resize,
  \* Encoder thread: what it does, why it builds, the frame in hand, its
  \* config, the pipeline in use with its size and rate, pipelines built.
  phase, cause, frame, config, pipeline, builds,
  \* All references there are.
  refs,
  \* History: the picture encoded last, GPU builds that failed with their
  \* frames context allocated, a failed change of the rate, and a
  \* picture begun whose frame was not queued.
  encoded, leaked, rateFailed, dropped

renderVars == <<gpuFrames, outSize, picture, making, pool, content, nextTarget, dropped>>
threadVars == <<phase, cause, frame, config, pipeline, builds, refs, encoded, leaked, rateFailed>>
vaapiVars  == <<renderVars, queue, resize, threadVars>>

Targets == 0..(NumTargets - 1)
Kind == IF gpuFrames THEN "gpu" ELSE "cpu"

Device      == <<"device", 0>>
Self        == <<"self", 0>>     \* VaapiEncoder.device_ref
Local(g)    == <<"local", g>>    \* input_frames_ref in build_gpu_pipeline
Owner(g)    == <<"pipeline", g>> \* VaapiPipeline::Gpu.frames_ref
Graph(g)    == <<"graph", g>>
Session(g)  == <<"session", g>>  \* the h264_vaapi encoder
Input(g)    == <<"input", g>>    \* frames context of mapped dmabufs
Output(g)   == <<"output", g>>   \* frames context that scale_vaapi derives

NoPipeline == [id |-> 0, size |-> 0, rate |-> 0]
NoFrame == [kind |-> "none", size |-> 0, pool |-> 0, target |-> 0, pic |-> 0]

VaapiInit ==
  /\ gpuFrames \in BOOLEAN
  /\ outSize = 1 /\ picture = 0 /\ making = NoFrame /\ pool = 1 /\ nextTarget = 0 /\ dropped = FALSE
  /\ content = [p \in 1..MaxPools |-> [t \in Targets |-> 0]]
  /\ queue = << >> /\ resize = 0
  /\ phase = "new" /\ cause = "new" /\ frame = NoFrame
  /\ config = [size |-> 1, rate |-> 1] /\ pipeline = NoPipeline /\ builds = 0
  /\ refs = {}
  /\ encoded = 0 /\ leaked = {} /\ rateFailed = FALSE

-----------------------------------------------------------------------------
(***************************************************************************)
(* Render loop.                                                             *)
(***************************************************************************)

Bind == nextTarget' = (nextTarget + 1) % NumTargets

\* Does the target of the frame that is being made have its picture?
Drawn == content[making.pool][making.target] = making.pic

\* render_gl takes the next target and begins to draw on it ...
BeginDraw ==
  /\ making = NoFrame
  /\ picture < MaxPictures /\ picture' = picture + 1
  /\ Bind
  /\ making' = [kind |-> Kind, size |-> outSize, pool |-> pool, target |-> nextTarget,
                pic |-> picture']
  /\ UNCHANGED <<gpuFrames, outSize, pool, content, dropped, queue, resize, threadVars>>

\* ... and has waited for the fence: the target has the new picture whether or
\* not the queue takes the frame.
FinishDraw ==
  /\ making # NoFrame /\ ~Drawn
  /\ content' = [content EXCEPT ![making.pool][making.target] = making.pic]
  /\ UNCHANGED <<gpuFrames, outSize, picture, making, pool, nextTarget, dropped, queue, resize,
                 threadVars>>

\* An error of render_gl after the target was chosen; the row may be drawn or
\* not.
RenderFails ==
  /\ making # NoFrame /\ making' = NoFrame
  /\ dropped' = TRUE
  /\ UNCHANGED <<gpuFrames, outSize, picture, pool, content, nextTarget, queue, resize,
                 threadVars>>

\* frame_sender.try_send.  A frame that was read back has its own pixels.
SendFrame ==
  /\ making # NoFrame /\ Drawn /\ making' = NoFrame
  /\ IF Len(queue) < QueueCap THEN queue' = Append(queue, making) /\ UNCHANGED dropped
     ELSE dropped' = TRUE /\ UNCHANGED queue
  /\ UNCHANGED <<gpuFrames, outSize, picture, pool, content, nextTarget, resize, threadVars>>

\* A resize, between two frames: ensure_sized makes new targets for the next
\* frame, and the encoder thread is told.
Resize(s) ==
  /\ making = NoFrame
  /\ s # outSize /\ pool < MaxPools
  /\ outSize' = s /\ pool' = pool + 1 /\ nextTarget' = 0
  /\ resize' = s
  /\ UNCHANGED <<gpuFrames, picture, making, content, dropped, queue, threadVars>>

RenderLoop == BeginDraw \/ FinishDraw \/ RenderFails \/ SendFrame \/ \E s \in Sizes : Resize(s)

-----------------------------------------------------------------------------
(***************************************************************************)
(* References.                                                              *)
(***************************************************************************)

Objects(R) == {r[2] : r \in R}

\* What is left of R without the owners S and the contexts freed with them.
Released(R, S) ==
  LET rest == {r \in R : r[1] \notin S} IN
  {r \in rest : r[1][1] \in {"input", "output"} => r[1] \in Objects(rest)}

\* A bug: the raw reference of a pipeline is not given up.
DropSafeParts(R, g) == Released(R, {Graph(g), Session(g)})

\* VaapiPipeline::drop, and the parts that free themselves.
DropPipeline(R, g) == Released(R, {Owner(g), Graph(g), Session(g)})

\* The encoder is dropped with the thread's function.
EndThread ==
  /\ phase' = "dead" /\ frame' = NoFrame
  /\ pipeline' = NoPipeline

-----------------------------------------------------------------------------
(***************************************************************************)
(* Building a pipeline.                                                     *)
(***************************************************************************)

\* build_pipeline_for starts, for the config as it will be.
StartBuild(why, c) ==
  /\ builds < MaxBuilds /\ builds' = builds + 1
  /\ cause' = why /\ config' = c
  /\ phase' = IF gpuFrames THEN "input" ELSE "graph"

BuildVars == <<renderVars, queue, resize, cause, config, builds, encoded>>

\* Where the thread goes on: with the frame in hand, if there is one.
GoOn == IF frame = NoFrame THEN "idle" ELSE "encode"

\* A bug: the thread goes on with the pipeline it has.
KeepGoing(R) ==
  /\ phase' = GoOn
  /\ rateFailed' = (rateFailed \/ cause = "rate")
  /\ refs' = R /\ UNCHANGED <<frame, pipeline>>

\* A build has failed: change_bitrate keeps the pipeline, and the new rate in
\* its config; reinitialize and new end the thread.  new has no VaapiEncoder
\* yet whose drop would give up the device.
BuildFails(R) ==
  IF cause = "rate"
  THEN /\ phase' = GoOn /\ rateFailed' = TRUE
       /\ refs' = R /\ UNCHANGED <<frame, pipeline>>
  ELSE /\ EndThread /\ UNCHANGED rateFailed
       /\ refs' = IF cause = "new" THEN R ELSE Released(DropPipeline(R, pipeline.id), {Self})

\* The input side's frames context, initialized or given up.
InitInput ==
  /\ phase = "input"
  /\ LET R == refs \cup {<<Local(builds), Input(builds)>>, <<Input(builds), Device>>} IN
     \/ phase' = "graph" /\ refs' = R /\ UNCHANGED <<frame, pipeline, rateFailed>>
     \/ BuildFails(Released(R, {Local(builds)}))
  /\ UNCHANGED <<BuildVars, leaked>>

\* What the filtergraph refers to once it is validated.
GraphRefs(g) ==
  {<<Graph(g), Device>>, <<Graph(g), Output(g)>>, <<Output(g), Device>>}
    \cup (IF gpuFrames THEN {<<Graph(g), Input(g)>>} ELSE {})

\* A failure from here on returns without giving up input_frames_ref.
Leaked == leaked' = IF gpuFrames THEN leaked \cup {builds} ELSE leaked

MakeGraph ==
  /\ phase = "graph"
  /\ \/ /\ phase' = "session" /\ refs' = refs \cup GraphRefs(builds)
        /\ UNCHANGED <<frame, pipeline, rateFailed, leaked>>
     \/ BuildFails(refs) /\ Leaked
  /\ UNCHANGED BuildVars

\* create_vaapi_encoder takes a reference of its own.
WithSession(R, g) == R \cup {<<Session(g), Output(g)>>}

\* The pipeline is complete and takes the place of the one in use.
BuildDone(R) ==
  LET g == builds
      owned == {IF r[1] = Local(g) THEN <<Owner(g), r[2]>> ELSE r : r \in R}
  IN /\ pipeline' = [id |-> g, size |-> config.size, rate |-> config.rate]
     /\ refs' = DropPipeline(owned, pipeline.id)
     /\ phase' = GoOn
     /\ rateFailed' = FALSE
     /\ UNCHANGED <<frame, leaked>>

OpenSession ==
  /\ phase = "session"
  /\ \/ BuildDone(WithSession(refs, builds))
     \/ BuildFails(Released(refs, {Graph(builds)})) /\ Leaked
  /\ UNCHANGED BuildVars

-----------------------------------------------------------------------------
(***************************************************************************)
(* Encoder thread.                                                          *)
(***************************************************************************)

\* VaapiEncoder::new opens the device first.
New ==
  /\ phase = "new"
  /\ \/ /\ refs' = {<<Self, Device>>} /\ StartBuild("new", config)
        /\ UNCHANGED <<frame, pipeline>>
     \/ EndThread /\ UNCHANGED <<cause, config, builds, refs>>
  /\ UNCHANGED <<renderVars, queue, resize, encoded, leaked, rateFailed>>

\* ChangeBitrate with another rate than that of the config, when the control
\* queue is drained: before a frame is taken, and with the frame in hand.
ChangeBitrate(r) ==
  /\ phase \in {"idle", "encode"} /\ r # config.rate
  /\ StartBuild("rate", [config EXCEPT !.rate = r])
  /\ UNCHANGED <<renderVars, queue, resize, frame, pipeline, refs, encoded, leaked, rateFailed>>

\* A resize drops what is queued and rebuilds.
Reinitialize ==
  /\ phase = "idle" /\ resize # 0 /\ resize' = 0
  /\ queue' = << >>
  /\ StartBuild("resize", [config EXCEPT !.size = resize])
  /\ UNCHANGED <<renderVars, frame, pipeline, refs, encoded, leaked, rateFailed>>

Accept(f, rest) ==
  /\ frame' = f /\ queue' = rest
  /\ IF f.size = config.size THEN phase' = "encode" /\ UNCHANGED <<cause, config, builds>>
     ELSE StartBuild("frame", [config EXCEPT !.size = f.size])

\* A bug: the older frames stay in the queue.
TakeNewestOnly ==
  /\ phase = "idle" /\ queue # << >>
  /\ Accept(queue[Len(queue)], SubSeq(queue, 1, Len(queue) - 1))
  /\ UNCHANGED <<renderVars, resize, pipeline, refs, encoded, leaked, rateFailed>>

\* blocking_recv and skip_to_newest_frame; a frame of another size rebuilds.
TakeNewest ==
  /\ phase = "idle" /\ queue # << >>
  /\ Accept(queue[Len(queue)], << >>)
  /\ UNCHANGED <<renderVars, resize, pipeline, refs, encoded, leaked, rateFailed>>

\* The target is being drawn on.
BeingDrawn(p, t) == making # NoFrame /\ making.pool = p /\ making.target = t /\ ~Drawn

\* What the row of a frame may show when it is encoded.
Shows(f) ==
  IF f.kind = "cpu" THEN {f.pic}
  ELSE {content[f.pool][f.target]}
         \cup (IF BeingDrawn(f.pool, f.target) THEN {making.pic} ELSE {})

\* submit: encode_gpu_frame maps the target as it is now; encode_cpu_frame
\* takes the frame's pixels.  Either may fail, which only loses the frame.
Submit ==
  /\ phase = "encode" /\ phase' = "idle" /\ frame' = NoFrame
  /\ encoded' \in Shows(frame) \cup {encoded}
  /\ UNCHANGED <<renderVars, queue, resize, cause, config, pipeline, builds, refs, leaked,
                 rateFailed>>

\* The frame channel is closed.
Stop ==
  /\ phase = "idle" /\ EndThread /\ cause' = "stop"
  /\ refs' = Released(DropPipeline(refs, pipeline.id), {Self})
  /\ UNCHANGED <<renderVars, queue, resize, config, builds, encoded, leaked, rateFailed>>

VaapiNext ==
  \/ RenderLoop
  \/ InitInput \/ MakeGraph \/ OpenSession
  \/ New
  \/ \E r \in Rates : ChangeBitrate(r)
  \/ Reinitialize \/ TakeNewest \/ Submit \/ Stop

VaapiSpec == VaapiInit /\ [][VaapiNext]_vaapiVars

-----------------------------------------------------------------------------
(***************************************************************************)
(* Properties.                                                              *)
(***************************************************************************)

\* What a pipeline in use keeps alive.
PipelineRefs(g) ==
  GraphRefs(g) \cup {<<Session(g), Output(g)>>}
    \cup (IF gpuFrames THEN {<<Owner(g), Input(g)>>, <<Input(g), Device>>} ELSE {})

\* At whatever step builds fail, between them there is exactly what the
\* pipeline in use needs, and nothing once the thread has ended; except a
\* frames context for each GPU build that failed after it had one, and the
\* device of a first build that failed (the drops of VaapiPipeline and
\* VaapiEncoder, the borrowed frames context of create_vaapi_encoder).
RefsExact ==
  phase \in {"idle", "encode", "dead"} =>
    refs = (IF pipeline.id = 0 THEN {} ELSE PipelineRefs(pipeline.id))
             \cup (UNION {{<<Local(g), Input(g)>>, <<Input(g), Device>>} : g \in leaked})
             \cup (IF phase # "dead" \/ (cause = "new" /\ builds > 0) THEN {<<Self, Device>>}
                   ELSE {})

\* A frame is only encoded by a pipeline of its size, and of the rate that was
\* asked for last unless building that failed: a thread whose rebuild has
\* failed does not go on with the old one (reinitialize sets the size first).
FitsPipeline ==
  phase = "encode" =>
    /\ frame.size = pipeline.size
    /\ pipeline.rate = config.rate \/ rateFailed

\* The pictures that are encoded keep their order, although queued frames only
\* point at targets that are drawn again meanwhile.  A frame never shows less
\* than it was made for.  With frames that are read back the order is strict;
\* with handles a row may show the picture that is being made, which is queued
\* after the next frame, so that it may go back by one picture and by no more,
\* until a picture begun is not queued: the next frames then trail the other
\* target (render_gl, try_send, skip_to_newest_frame).
PicturesFollow ==
  [][encoded' # encoded =>
       /\ encoded' >= frame.pic
       /\ IF gpuFrames THEN dropped \/ encoded' >= encoded - 1
          ELSE encoded' > encoded]_vaapiVars
=============================================================================
