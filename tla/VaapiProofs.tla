----------------------------- MODULE VaapiProofs -----------------------------
(***************************************************************************)
(* The hardware encoder, for any sizes, rates, targets and number of builds. *)
(*                                                                          *)
(* FitsPipeline says what holds when a frame is encoded.  To get there the    *)
(* config and the pipeline in use are followed through the builds: while one  *)
(* is under way the pipeline may be of another size only if its failure ends  *)
(* the thread, and the frame in hand is always of the config's size.         *)
(* ReferencesExact and PicturesInOrder have invariants of their own, below.   *)
(***************************************************************************)
EXTENDS VaapiEncoder, TLAPS

Frames == [kind : {"gpu", "cpu"}, size : Sizes, pool : Nat, target : Nat, pic : Nat]
Building == phase \in {"input", "graph", "session"}

VaapiTypeOK ==
  /\ gpuFrames \in BOOLEAN
  /\ outSize \in Sizes /\ picture \in Nat /\ pool \in Nat /\ nextTarget \in Nat
  /\ queue \in Seq(Frames) /\ making \in Frames \cup {NoFrame}
  /\ resize \in Sizes \cup {0}
  /\ phase \in {"new", "input", "graph", "session", "idle", "encode", "dead"}
  /\ cause \in {"new", "rate", "resize", "frame", "stop"}
  /\ frame \in Frames \cup {NoFrame}
  /\ config \in [size : Sizes, rate : Rates]
  /\ pipeline \in [id : Nat, size : Sizes \cup {0}, rate : Rates \cup {0}]
  /\ builds \in Nat /\ rateFailed \in BOOLEAN

\* The frame in hand, and the pipeline in use, against the config.
Fits ==
  /\ phase = "encode" => frame # NoFrame
  /\ phase \in {"new", "idle", "dead"} => frame = NoFrame
  /\ frame # NoFrame => frame.size = config.size
  /\ phase \in {"idle", "encode"} \/ (Building /\ cause = "rate") =>
       pipeline.size = config.size
  /\ phase \in {"idle", "encode"} => pipeline.rate = config.rate \/ rateFailed

FitInv == VaapiTypeOK /\ Fits

LEMMA VaapiInitHolds == VaapiInit => FitInv
<1> SUFFICES ASSUME VaapiInit PROVE FitInv
  OBVIOUS
<1> USE VaapiOK DEF VaapiInit
<1>1. VaapiTypeOK
  <2>1. config \in [size : Sizes, rate : Rates]
    OBVIOUS
  <2>2. pipeline \in [id : Nat, size : Sizes \cup {0}, rate : Rates \cup {0}]
    BY DEF NoPipeline
  <2>3. queue \in Seq(Frames)
    OBVIOUS
  <2> QED BY <2>1, <2>2, <2>3 DEF VaapiTypeOK
<1>2. Fits
  BY DEF Fits, Building
<1> QED
  BY <1>1, <1>2 DEF FitInv

\* The render loop does not touch what the thread has.
LEMMA RenderFits ==
  ASSUME FitInv, RenderLoop
  PROVE  FitInv'
<1> USE VaapiOK DEF FitInv, RenderLoop
<1>1. UNCHANGED threadVars /\ gpuFrames' = gpuFrames
  BY DEF BeginDraw, FinishDraw, RenderFails, SendFrame, Resize
<1>2. Fits'
  BY <1>1 DEF Fits, Building, threadVars
<1>3. /\ outSize' \in Sizes /\ picture' \in Nat /\ pool' \in Nat /\ resize' \in Sizes \cup {0}
  BY DEF BeginDraw, FinishDraw, RenderFails, SendFrame, Resize, VaapiTypeOK
<1>4. nextTarget' \in Nat
  BY DEF BeginDraw, FinishDraw, RenderFails, SendFrame, Resize, Bind, VaapiTypeOK
<1>5. making' \in Frames \cup {NoFrame}
  <2>1. CASE BeginDraw
    BY <1>3, <2>1 DEF BeginDraw, Frames, Kind, VaapiTypeOK
  <2>2. CASE FinishDraw \/ RenderFails \/ SendFrame \/ \E s \in Sizes : Resize(s)
    BY <2>2 DEF FinishDraw, RenderFails, SendFrame, Resize, VaapiTypeOK
  <2> QED
    BY <2>1, <2>2
<1>6. queue' \in Seq(Frames)
  <2>1. CASE SendFrame
    <3>1. /\ making \in Frames /\ queue \in Seq(Frames)
          /\ queue' = Append(queue, making) \/ queue' = queue
      BY <2>1 DEF SendFrame, VaapiTypeOK
    <3>2. Append(queue, making) \in Seq(Frames)
      <4> HIDE DEF FitInv, RenderLoop
      <4> QED BY <3>1
    <3> QED BY <3>1, <3>2
  <2>2. CASE BeginDraw \/ FinishDraw \/ RenderFails \/ \E s \in Sizes : Resize(s)
    BY <2>2 DEF BeginDraw, FinishDraw, RenderFails, Resize, VaapiTypeOK
  <2> QED BY <2>1, <2>2
<1> QED
  BY <1>1, <1>2, <1>3, <1>4, <1>5, <1>6 DEF VaapiTypeOK, threadVars

\* A build starts for the config c, which the frame in hand has to fit.
LEMMA StartFits ==
  ASSUME FitInv, NEW why \in {"new", "rate", "resize", "frame"},
         NEW c \in [size : Sizes, rate : Rates], StartBuild(why, c),
         NEW f \in Frames \cup {NoFrame}, frame' = f,
         f # NoFrame => f.size = c.size,
         why = "rate" => phase \in {"idle", "encode"} /\ c.size = config.size,
         queue' \in Seq(Frames), resize' \in Sizes \cup {0},
         UNCHANGED <<renderVars, pipeline, rateFailed>>
  PROVE  FitInv'
<1> USE DEF FitInv, StartBuild, renderVars
<1>1. phase' \in {"input", "graph"} /\ cause' = why /\ config' = c /\ builds' \in Nat
  BY DEF VaapiTypeOK
<1>2. VaapiTypeOK'
  BY <1>1 DEF VaapiTypeOK
<1>3. Fits'
  BY <1>1 DEF Fits, Building
<1> QED
  BY <1>2, <1>3

\* A build that fails: a rate that could not be set leaves the pipeline, which
\* has the config's size; anything else ends the thread.
LEMMA BuildFailsFits ==
  ASSUME FitInv, Building, NEW R, BuildFails(R), UNCHANGED BuildVars
  PROVE  FitInv'
<1> USE DEF FitInv, BuildVars, renderVars, Building
<1>1. CASE cause = "rate"
  <2>1. /\ phase' = (IF frame = NoFrame THEN "idle" ELSE "encode") /\ rateFailed' = TRUE
        /\ UNCHANGED <<frame, pipeline>>
    BY <1>1 DEF BuildFails, GoOn
  <2> QED BY <1>1, <2>1 DEF VaapiTypeOK, Fits
<1>2. CASE cause # "rate"
  <2>1. /\ phase' = "dead" /\ frame' = NoFrame /\ pipeline' = NoPipeline
        /\ rateFailed' = rateFailed
    BY <1>2 DEF BuildFails, EndThread
  <2> QED BY <2>1 DEF VaapiTypeOK, Fits, NoPipeline
<1> QED
  BY <1>1, <1>2

\* The steps of a build.
LEMMA BuildFits ==
  ASSUME FitInv, InitInput \/ MakeGraph \/ OpenSession
  PROVE  FitInv'
<1> USE DEF FitInv
<1>0. Building /\ UNCHANGED BuildVars
  BY DEF Building, InitInput, MakeGraph, OpenSession
<1>1. ASSUME NEW R, BuildFails(R) PROVE FitInv'
  BY <1>0, <1>1, BuildFailsFits
<1>2. ASSUME phase' \in {"graph", "session"}, UNCHANGED <<frame, pipeline, rateFailed>>
      PROVE  FitInv'
  BY <1>0, <1>2 DEF VaapiTypeOK, Fits, Building, BuildVars, renderVars
<1>3. ASSUME NEW R, BuildDone(R) PROVE FitInv'
  <2>1. /\ pipeline' = [id |-> builds, size |-> config.size, rate |-> config.rate]
        /\ phase' = (IF frame = NoFrame THEN "idle" ELSE "encode")
        /\ frame' = frame /\ rateFailed' = FALSE
    BY <1>3 DEF BuildDone, GoOn
  <2> QED
    BY <1>0, <2>1 DEF VaapiTypeOK, Fits, Building, BuildVars, renderVars
<1> QED
  BY <1>1, <1>2, <1>3 DEF InitInput, MakeGraph, OpenSession

\* The steps of the thread around the builds.
LEMMA ThreadFits ==
  ASSUME FitInv,
         \/ New \/ (\E r \in Rates : ChangeBitrate(r))
         \/ Reinitialize \/ TakeNewest \/ Submit \/ Stop
  PROVE  FitInv'
<1> USE DEF FitInv
<1>1. CASE New
  <2>1. CASE StartBuild("new", config) /\ UNCHANGED <<frame, pipeline>>
    BY <1>1, <2>1, StartFits DEF New, VaapiTypeOK, Fits
  <2>2. CASE EndThread /\ UNCHANGED <<cause, config, builds, refs>>
    BY <1>1, <2>2 DEF New, EndThread, VaapiTypeOK, Fits, NoPipeline, renderVars, Building
  <2> QED BY <1>1, <2>1, <2>2 DEF New
<1>2. ASSUME NEW r \in Rates, ChangeBitrate(r) PROVE FitInv'
  <2> DEFINE c == [config EXCEPT !.rate = r]
  <2>1. c \in [size : Sizes, rate : Rates] /\ c.size = config.size
    BY DEF VaapiTypeOK
  <2>2. /\ StartBuild("rate", c) /\ frame' = frame /\ phase \in {"idle", "encode"}
        /\ UNCHANGED <<renderVars, queue, resize, pipeline, rateFailed>>
    BY <1>2 DEF ChangeBitrate
  <2> HIDE DEF c
  <2>3. frame \in Frames \cup {NoFrame} /\ (frame # NoFrame => frame.size = c.size)
    BY <2>1 DEF VaapiTypeOK, Fits
  <2> QED BY <2>1, <2>2, <2>3, StartFits DEF VaapiTypeOK
<1>3. CASE Reinitialize
  <2> DEFINE c == [config EXCEPT !.size = resize]
  <2>1. c \in [size : Sizes, rate : Rates]
    BY <1>3 DEF VaapiTypeOK, Reinitialize
  <2>2. /\ StartBuild("resize", c) /\ frame' = frame /\ frame = NoFrame
        /\ queue' = << >> /\ resize' = 0
        /\ UNCHANGED <<renderVars, pipeline, rateFailed>>
    BY <1>3 DEF Reinitialize, Fits
  <2> HIDE DEF c
  <2> QED BY <2>1, <2>2, StartFits DEF VaapiTypeOK
<1>4. CASE TakeNewest
  <2> DEFINE f == queue[Len(queue)]
  <2>1. f \in Frames /\ f # NoFrame /\ f.size \in Sizes
    <3>1. queue \in Seq(Frames) /\ queue # << >>
      BY <1>4 DEF TakeNewest, VaapiTypeOK
    <3>2. f \in Frames
      BY <3>1
    <3> HIDE DEF f
    <3> QED BY <3>2 DEF Frames, NoFrame
  <2>2. /\ frame' = f /\ queue' = << >> /\ phase = "idle"
        /\ \/ f.size = config.size /\ phase' = "encode" /\ UNCHANGED <<cause, config, builds>>
           \/ StartBuild("frame", [config EXCEPT !.size = f.size])
        /\ UNCHANGED <<renderVars, resize, pipeline, rateFailed>>
    BY <1>4 DEF TakeNewest, Accept
  <2> HIDE DEF f
  <2>3. CASE f.size = config.size /\ phase' = "encode" /\ UNCHANGED <<cause, config, builds>>
    BY <2>1, <2>2, <2>3 DEF VaapiTypeOK, Fits, Building, renderVars
  <2>4. CASE StartBuild("frame", [config EXCEPT !.size = f.size])
    <3> DEFINE c == [config EXCEPT !.size = f.size]
    <3>1. c \in [size : Sizes, rate : Rates] /\ c.size = f.size
      BY <2>1 DEF VaapiTypeOK
    <3> HIDE DEF c
    <3>2. StartBuild("frame", c)
      BY <2>4 DEF c
    <3> QED BY <2>1, <2>2, <3>1, <3>2, StartFits DEF VaapiTypeOK
  <2> QED BY <2>2, <2>3, <2>4
<1>5. CASE Submit
  BY <1>5 DEF Submit, VaapiTypeOK, Fits, Building, renderVars
<1>6. CASE Stop
  BY <1>6 DEF Stop, EndThread, VaapiTypeOK, Fits, Building, renderVars, NoPipeline
<1> QED
  BY <1>1, <1>2, <1>3, <1>4, <1>5, <1>6

LEMMA VaapiStutter ==
  ASSUME FitInv, UNCHANGED vaapiVars
  PROVE  FitInv'
BY DEF FitInv, VaapiTypeOK, Fits, Building, vaapiVars, renderVars, threadVars

THEOREM FitKept == VaapiSpec => []FitInv
<1>1. FitInv /\ [VaapiNext]_vaapiVars => FitInv'
  BY RenderFits, BuildFits, ThreadFits, VaapiStutter DEF VaapiNext
<1> QED
  BY <1>1, VaapiInitHolds, PTL DEF VaapiSpec

\* reinitialize, change_bitrate and the encode loop: a frame is encoded by a
\* pipeline of its size, and of the rate asked for last unless that failed.
THEOREM FramesFit == VaapiSpec => []FitsPipeline
<1>1. FitInv => FitsPipeline
  BY DEF FitInv, VaapiTypeOK, Fits, FitsPipeline
<1> QED
  BY <1>1, FitKept, PTL

-----------------------------------------------------------------------------
(***************************************************************************)
(* References.                                                              *)
(*                                                                          *)
(* The references of different builds have nothing to do with each other:    *)
(* giving up owners of one build leaves those of the others alone.  So what   *)
(* there is at each step is the sum of what the pipeline in use, the build    *)
(* under way and the failed builds account for.                              *)
(***************************************************************************)
InUse(id) == IF id = 0 THEN {} ELSE PipelineRefs(id)
InputRefs(g) == {<<Local(g), Input(g)>>, <<Input(g), Device>>}
LeakRefs(L) == UNION {InputRefs(g) : g \in L}
SelfRef == {<<Self, Device>>}

\* What the build under way has so far.
Begun ==
  (IF gpuFrames /\ phase \in {"graph", "session"} THEN InputRefs(builds) ELSE {})
    \cup (IF phase = "session" THEN GraphRefs(builds) ELSE {})

\* The builds there have been, and which of them is in use or has failed.
BuildOrder ==
  /\ leaked \subseteq 1..builds /\ pipeline.id \in 0..builds /\ pipeline.id \notin leaked
  /\ phase = "new" => builds = 0 /\ pipeline.id = 0
  /\ Building => /\ pipeline.id # builds /\ builds \notin leaked
                 /\ builds > 0 /\ (cause = "new" <=> pipeline.id = 0)
  /\ phase \in {"idle", "encode"} => pipeline.id # 0
  /\ phase = "dead" => pipeline.id = 0
  /\ phase = "input" => gpuFrames

RefSum ==
  refs = InUse(pipeline.id) \cup LeakRefs(leaked) \cup Begun
           \cup (IF phase = "new" \/ (phase = "dead" /\ ~(cause = "new" /\ builds > 0))
                 THEN {} ELSE SelfRef)

RefInv == FitInv /\ BuildOrder /\ RefSum

Shared == {"input", "output"}

\* X has references of the builds J only, and its contexts are kept alive.
Ids(X, J) ==
  \A r \in X : r[1][2] \in J /\ (r[2][1] \in Shared => r[2][2] \in J)
Closed(X) == \A r \in X : r[1][1] \in Shared => r[1] \in Objects(X)

LEMMA ReleaseOne ==
  ASSUME NEW A, NEW B, NEW S, NEW I, NEW J, Ids(A, I), Ids(B, J), I \cap J = {},
         Closed(B), \A s \in S : s[2] \in I
  PROVE  Released(A \cup B, S) = Released(A, S) \cup B
<1> DEFINE restA == {r \in A : r[1] \notin S}
           rest == {r \in A \cup B : r[1] \notin S}
<1>1. rest = restA \cup B
  BY DEF Ids
<1>2. Objects(rest) = Objects(restA) \cup Objects(B)
  BY <1>1 DEF Objects
<1>3. \A a \in A : a[1][1] \in Shared => a[1] \notin Objects(B)
  BY DEF Ids, Objects
<1>4. /\ Released(A, S) = {r \in restA : r[1][1] \in Shared => r[1] \in Objects(restA)}
      /\ Released(A \cup B, S) = {r \in rest : r[1][1] \in Shared => r[1] \in Objects(rest)}
  BY DEF Released, Shared
<1> HIDE DEF rest, restA
<1>5. restA \subseteq A
  BY DEF restA
<1>6. ASSUME NEW r PROVE r \in Released(A \cup B, S) <=> r \in Released(A, S) \cup B
  BY <1>1, <1>2, <1>3, <1>4, <1>5 DEF Closed
<1> QED
  BY <1>6

LEMMA IdsUnion ==
  ASSUME NEW X, NEW Y, NEW J, NEW K, Ids(X, J), Ids(Y, K)
  PROVE  Ids(X \cup Y, J \cup K)
BY DEF Ids

LEMMA ClosedUnion ==
  ASSUME NEW X, NEW Y, Closed(X), Closed(Y)
  PROVE  Closed(X \cup Y)
BY DEF Closed, Objects

LEMMA InUseFacts ==
  ASSUME NEW g \in Nat
  PROVE  Ids(InUse(g), {g}) /\ Closed(InUse(g))
<1>1. Ids(InUse(g), {g})
  BY DEF Ids, InUse, PipelineRefs, GraphRefs, Owner, Graph, Session, Input, Output, Device,
     Shared
<1>2. Closed(InUse(g))
  <2>1. ASSUME NEW r \in InUse(g), r[1][1] \in Shared PROVE r[1] \in Objects(InUse(g))
    <3>1. CASE r = <<Output(g), Device>>
      <4>1. <<Graph(g), Output(g)>> \in InUse(g)
        BY <2>1 DEF InUse, PipelineRefs, GraphRefs
      <4> QED BY <3>1, <4>1 DEF Objects
    <3>2. CASE r = <<Input(g), Device>> /\ gpuFrames
      <4>1. <<Owner(g), Input(g)>> \in InUse(g)
        BY <2>1, <3>2 DEF InUse, PipelineRefs
      <4> QED BY <3>2, <4>1 DEF Objects
    <3> QED
      BY <2>1, <3>1, <3>2
      DEF InUse, PipelineRefs, GraphRefs, Owner, Graph, Session, Shared
  <2> QED BY <2>1 DEF Closed
<1> QED
  BY <1>1, <1>2

LEMMA InputFacts ==
  ASSUME NEW g \in Nat
  PROVE  Ids(InputRefs(g), {g}) /\ Closed(InputRefs(g))
<1>1. Ids(InputRefs(g), {g})
  BY DEF Ids, InputRefs, Local, Input, Device, Shared
<1>2. ASSUME NEW r \in InputRefs(g), r[1][1] \in Shared PROVE r[1] \in Objects(InputRefs(g))
  <2>1. <<Local(g), Input(g)>> \in InputRefs(g)
    BY DEF InputRefs
  <2>2. r = <<Input(g), Device>>
    BY <1>2 DEF InputRefs, Local, Shared
  <2> QED BY <2>1, <2>2 DEF Objects
<1> QED
  BY <1>1, <1>2 DEF Closed

LEMMA LeakFacts ==
  ASSUME NEW L \in SUBSET Nat
  PROVE  Ids(LeakRefs(L), L) /\ Closed(LeakRefs(L))
<1>1. \A g \in L : Ids(InputRefs(g), {g}) /\ Closed(InputRefs(g))
  BY InputFacts
<1>2. Ids(LeakRefs(L), L)
  BY <1>1 DEF Ids, LeakRefs
<1>3. Closed(LeakRefs(L))
  BY <1>1 DEF Closed, LeakRefs, Objects
<1> QED
  BY <1>2, <1>3

LEMMA SelfFacts == Ids(SelfRef, {0}) /\ Closed(SelfRef) /\ Released(SelfRef, {Self}) = {}
BY DEF Ids, Closed, SelfRef, Self, Device, Shared, Released, Objects

\* What giving up its owners leaves of a build: nothing of a pipeline, nor of
\* an input side; of a graph, the input side.
LEMMA DropFacts ==
  ASSUME NEW g \in Nat
  PROVE  /\ DropPipeline(InUse(g), g) = {}
         /\ Released(InputRefs(g), {Local(g)}) = {}
         /\ Released(GraphRefs(g) \cup (IF gpuFrames THEN InputRefs(g) ELSE {}), {Graph(g)})
              = (IF gpuFrames THEN InputRefs(g) ELSE {})
<1>1. DropPipeline(InUse(g), g) = {}
  <2> DEFINE S == {Owner(g), Graph(g), Session(g)}
             rest == {r \in InUse(g) : r[1] \notin S}
  <2>1. rest \subseteq {<<Output(g), Device>>, <<Input(g), Device>>}
    BY DEF InUse, PipelineRefs, GraphRefs
  <2>2. Objects(rest) \subseteq {Device}
    BY <2>1 DEF Objects
  <2>3. \A r \in rest : r[1][1] \in {"input", "output"} /\ r[1] \notin Objects(rest)
    <3> HIDE DEF rest
    <3> QED BY <2>1, <2>2 DEF Input, Output, Device
  <2>4. Released(InUse(g), S) = {r \in rest : r[1][1] \in {"input", "output"} => r[1] \in Objects(rest)}
    BY DEF Released
  <2> HIDE DEF rest
  <2>5. Released(InUse(g), S) = {}
    BY <2>3, <2>4
  <2> QED BY <2>5 DEF DropPipeline
<1>2. Released(InputRefs(g), {Local(g)}) = {}
  <2> DEFINE rest == {r \in InputRefs(g) : r[1] \notin {Local(g)}}
  <2>1. rest \subseteq {<<Input(g), Device>>}
    BY DEF InputRefs
  <2>2. Objects(rest) \subseteq {Device}
    BY <2>1 DEF Objects
  <2>3. \A r \in rest : r[1][1] \in {"input", "output"} /\ r[1] \notin Objects(rest)
    <3> HIDE DEF rest
    <3> QED BY <2>1, <2>2 DEF Input, Device
  <2>4. Released(InputRefs(g), {Local(g)})
          = {r \in rest : r[1][1] \in {"input", "output"} => r[1] \in Objects(rest)}
    BY DEF Released
  <2> HIDE DEF rest
  <2> QED BY <2>3, <2>4
<1>3. Released(GraphRefs(g) \cup (IF gpuFrames THEN InputRefs(g) ELSE {}), {Graph(g)})
        = (IF gpuFrames THEN InputRefs(g) ELSE {})
  <2> DEFINE X == IF gpuFrames THEN InputRefs(g) ELSE {}
             rest == {r \in GraphRefs(g) \cup X : r[1] \notin {Graph(g)}}
  <2>1. rest = X \cup {<<Output(g), Device>>}
    BY DEF GraphRefs, InputRefs, Graph, Output, Local, Input
  <2>2. Objects(rest) \subseteq {Input(g), Device} /\ (gpuFrames => Input(g) \in Objects(rest))
    <3>1. \A r \in rest : r[2] \in {Input(g), Device}
      BY <2>1 DEF InputRefs
    <3>2. gpuFrames => <<Local(g), Input(g)>> \in rest
      BY <2>1 DEF InputRefs
    <3> HIDE DEF rest
    <3> QED BY <3>1, <3>2 DEF Objects
  <2>3. Output(g) \notin {Input(g), Device} /\ Output(g)[1] = "output"
        /\ <<Output(g), Device>>[1] = Output(g)
    BY DEF Output, Input, Device
  <2>4. \A r \in X : r[1][1] \in {"input", "output"} => r[1] = Input(g) /\ gpuFrames
    BY DEF InputRefs, Local, Input
  <2>5. Released(GraphRefs(g) \cup X, {Graph(g)})
          = {r \in rest : r[1][1] \in {"input", "output"} => r[1] \in Objects(rest)}
    BY DEF Released
  <2>6. <<Output(g), Device>> \notin X
    BY DEF InputRefs, Local, Input, Output
  <2> HIDE DEF rest, X
  <2>7. ASSUME NEW r PROVE r \in Released(GraphRefs(g) \cup X, {Graph(g)}) <=> r \in X
    BY <2>1, <2>2, <2>3, <2>4, <2>5, <2>6
  <2>8. Released(GraphRefs(g) \cup X, {Graph(g)}) = X
    BY <2>7
  <2> QED BY <2>8 DEF X
<1> QED
  BY <1>1, <1>2, <1>3

LEMMA ReleaseNone ==
  ASSUME NEW B, NEW S, Closed(B), \A b \in B : b[1] \notin S
  PROVE  Released(B, S) = B
<1>1. {r \in B : r[1] \notin S} = B
  OBVIOUS
<1>2. Released(B, S) = {r \in B : r[1][1] \in Shared => r[1] \in Objects(B)}
  BY <1>1 DEF Released, Shared
<1> QED
  BY <1>2 DEF Closed

\* A pipeline is dropped, and the encoder: what belongs to others stays.
LEMMA DropOld ==
  ASSUME NEW p \in Nat, NEW X, NEW J, Ids(X, J), Closed(X), p \notin J, 0 \notin J
  PROVE  DropPipeline(InUse(p) \cup X \cup SelfRef, p) = X \cup SelfRef
<1> DEFINE B == X \cup SelfRef  S == {Owner(p), Graph(p), Session(p)}
<1>1. Ids(B, J \cup {0}) /\ Closed(B)
  BY IdsUnion, ClosedUnion, SelfFacts
<1>2. CASE p # 0
  <2>1. Ids(InUse(p), {p}) /\ {p} \cap (J \cup {0}) = {} /\ \A s \in S : s[2] \in {p}
    BY <1>2, InUseFacts DEF Owner, Graph, Session
  <2> HIDE DEF B, S
  <2>2. Released(InUse(p) \cup B, S) = Released(InUse(p), S) \cup B
    BY <1>1, <2>1, ReleaseOne
  <2>3. Released(InUse(p), S) = {}
    BY DropFacts DEF DropPipeline, S
  <2>4. DropPipeline(InUse(p) \cup B, p) = B
    BY <2>2, <2>3 DEF DropPipeline, S
  <2>5. InUse(p) \cup X \cup SelfRef = InUse(p) \cup B
    BY DEF B
  <2> QED BY <2>4, <2>5 DEF B
<1>3. CASE p = 0
  <2>1. \A b \in X : b[1] \notin S
    BY <1>3 DEF Ids, Owner, Graph, Session
  <2>2. \A b \in SelfRef : b[1] \notin S
    BY DEF SelfRef, Self, Owner, Graph, Session
  <2>3. Released(B, S) = B
    <3> HIDE DEF S
    <3>1. \A b \in B : b[1] \notin S
      BY <2>1, <2>2
    <3> HIDE DEF B
    <3> QED BY <1>1, <3>1, ReleaseNone
  <2>4. InUse(p) \cup X \cup SelfRef = B
    BY <1>3 DEF InUse
  <2> HIDE DEF B
  <2> QED BY <2>3, <2>4 DEF DropPipeline, B
<1> QED
  BY <1>2, <1>3

LEMMA DropSelf ==
  ASSUME NEW X, NEW J, Ids(X, J), Closed(X), 0 \notin J
  PROVE  Released(X \cup SelfRef, {Self}) = X
<1>1. /\ Ids(SelfRef, {0}) /\ {0} \cap J = {} /\ \A s \in {Self} : s[2] \in {0}
  BY SelfFacts DEF Self
<1>2. Released(SelfRef \cup X, {Self}) = Released(SelfRef, {Self}) \cup X
  BY <1>1, ReleaseOne
<1>3. SelfRef \cup X = X \cup SelfRef
  OBVIOUS
<1> QED
  BY <1>2, <1>3, SelfFacts

\* The references apart from the build under way, with the failed builds L.
Apart(L) == InUse(pipeline.id) \cup LeakRefs(L) \cup SelfRef

LEMMA ApartFacts ==
  ASSUME NEW L \in SUBSET Nat, pipeline.id \in Nat
  PROVE  Ids(Apart(L), {pipeline.id} \cup L \cup {0}) /\ Closed(Apart(L))
BY InUseFacts, LeakFacts, SelfFacts, IdsUnion, ClosedUnion DEF Apart

LEMMA RefInitHolds == VaapiInit => RefInv
<1> SUFFICES ASSUME VaapiInit PROVE RefInv
  OBVIOUS
<1>1. /\ leaked = {} /\ builds = 0 /\ pipeline.id = 0 /\ phase = "new" /\ refs = {}
  BY DEF VaapiInit, NoPipeline
<1>2. LeakRefs({}) = {}
  BY DEF LeakRefs
<1> QED
  BY <1>1, <1>2, VaapiInitHolds DEF RefInv, BuildOrder, Building, RefSum, InUse, Begun

\* A build has failed, and has left what is apart from it.
LEMMA FailsExact ==
  ASSUME RefInv, Building, UNCHANGED BuildVars, NEW L \in SUBSET (1..builds),
         leaked' = L, pipeline.id \notin L, BuildFails(Apart(L))
  PROVE  (BuildOrder /\ RefSum)'
<1> USE DEF RefInv
<1>1. /\ pipeline.id \in Nat /\ builds \in Nat \ {0} /\ pipeline.id \in 0..builds
      /\ (cause = "new" <=> pipeline.id = 0) /\ UNCHANGED <<builds, cause, gpuFrames>>
      /\ L \subseteq Nat /\ 0 \notin L
  BY DEF BuildOrder, FitInv, VaapiTypeOK, BuildVars, renderVars
<1>2. CASE cause = "rate"
  <2>1. phase' \in {"idle", "encode"} /\ refs' = Apart(L) /\ pipeline' = pipeline
    BY <1>2 DEF BuildFails, GoOn
  <2>2. Begun' = {}
    BY <2>1 DEF Begun
  <2>3. BuildOrder'
    BY <1>1, <1>2, <2>1 DEF BuildOrder, Building
  <2>4. RefSum'
    BY <2>1, <2>2 DEF RefSum, Apart, InUse, PipelineRefs, GraphRefs, LeakRefs, BuildVars,
       renderVars
  <2> QED BY <2>3, <2>4
<1>3. CASE cause # "rate"
  <2>1. /\ phase' = "dead" /\ pipeline'.id = 0
        /\ refs' = IF cause = "new" THEN Apart(L)
                   ELSE Released(DropPipeline(Apart(L), pipeline.id), {Self})
    BY <1>3 DEF BuildFails, EndThread, NoPipeline
  <2>2. Begun' = {} /\ InUse(pipeline.id)' = {}
    BY <2>1 DEF Begun, InUse
  <2>3. BuildOrder'
    BY <1>1, <2>1 DEF BuildOrder, Building
  <2>4. CASE cause = "new"
    <3>1. refs' = LeakRefs(L) \cup SelfRef
      BY <1>1, <2>1, <2>4 DEF Apart, InUse
    <3> QED BY <1>1, <2>1, <2>2, <2>3, <2>4, <3>1 DEF RefSum
  <2>5. CASE cause # "new"
    <3>1. Ids(LeakRefs(L), L) /\ Closed(LeakRefs(L))
      BY <1>1, LeakFacts
    <3>2. DropPipeline(Apart(L), pipeline.id) = LeakRefs(L) \cup SelfRef
      BY <1>1, <3>1, DropOld DEF Apart
    <3>3. Released(LeakRefs(L) \cup SelfRef, {Self}) = LeakRefs(L)
      BY <1>1, <3>1, DropSelf
    <3>4. refs' = LeakRefs(L)
      BY <2>1, <2>5, <3>2, <3>3
    <3> QED BY <1>1, <2>1, <2>2, <2>3, <2>5, <3>4 DEF RefSum
  <2> QED BY <2>4, <2>5
<1> QED
  BY <1>2, <1>3

\* What is apart from the build under way, while it is.
LEMMA BuildApart ==
  ASSUME RefInv, Building
  PROVE  /\ refs = Apart(leaked) \cup Begun
         /\ builds \in Nat \ {0} /\ pipeline.id \in Nat /\ leaked \in SUBSET (1..builds)
         /\ builds \notin {pipeline.id} \cup leaked \cup {0} /\ pipeline.id \notin leaked
         /\ Ids(Apart(leaked), {pipeline.id} \cup leaked \cup {0}) /\ Closed(Apart(leaked))
<1>1. /\ builds \in Nat \ {0} /\ pipeline.id \in Nat /\ leaked \in SUBSET (1..builds)
      /\ builds \notin {pipeline.id} \cup leaked \cup {0} /\ pipeline.id \notin leaked
  BY DEF RefInv, BuildOrder, FitInv, VaapiTypeOK
<1>2. leaked \in SUBSET Nat
  BY <1>1
<1>3. refs = Apart(leaked) \cup Begun
  BY DEF RefInv, RefSum, Apart, Building
<1> QED
  BY <1>1, <1>2, <1>3, ApartFacts

LEMMA InputExact ==
  ASSUME RefInv, InitInput
  PROVE  (BuildOrder /\ RefSum)'
<1>0. Building /\ phase = "input" /\ gpuFrames = TRUE /\ UNCHANGED <<BuildVars, leaked>>
  BY DEF Building, InitInput, RefInv, BuildOrder, FitInv, VaapiTypeOK
<1>1. /\ refs = Apart(leaked) \cup Begun
      /\ builds \in Nat \ {0} /\ pipeline.id \in Nat /\ leaked \in SUBSET (1..builds)
      /\ builds \notin {pipeline.id} \cup leaked \cup {0} /\ pipeline.id \notin leaked
      /\ Ids(Apart(leaked), {pipeline.id} \cup leaked \cup {0}) /\ Closed(Apart(leaked))
  BY <1>0, BuildApart
<1>2. refs = Apart(leaked)
  BY <1>0, <1>1 DEF Begun
<1> DEFINE R == refs \cup InputRefs(builds)
<1>3. \/ phase' = "graph" /\ refs' = R /\ UNCHANGED <<frame, pipeline, rateFailed>>
      \/ BuildFails(Released(R, {Local(builds)}))
  BY DEF InitInput, InputRefs
<1>4. CASE phase' = "graph" /\ refs' = R /\ UNCHANGED <<frame, pipeline, rateFailed>>
  <2>1. UNCHANGED <<builds, cause, gpuFrames>>
    BY <1>0 DEF BuildVars, renderVars
  <2>2. Begun' = InputRefs(builds)
    BY <1>0, <1>4, <2>1 DEF Begun, InputRefs
  <2>3. BuildOrder'
    BY <1>0, <1>4, <2>1 DEF RefInv, BuildOrder, Building
  <2>4. RefSum'
    BY <1>0, <1>2, <1>4, <2>1, <2>2
    DEF RefSum, Apart, InUse, PipelineRefs, GraphRefs, LeakRefs
  <2> QED BY <2>3, <2>4
<1>5. CASE BuildFails(Released(R, {Local(builds)}))
  <2>1. Ids(InputRefs(builds), {builds}) /\ \A s \in {Local(builds)} : s[2] \in {builds}
    BY <1>1, InputFacts DEF Local
  <2>2. Released(InputRefs(builds) \cup refs, {Local(builds)})
          = Released(InputRefs(builds), {Local(builds)}) \cup refs
    <3> DEFINE J == {pipeline.id} \cup leaked \cup {0}  S == {Local(builds)}
    <3>1. {builds} \cap J = {} /\ Ids(refs, J) /\ Closed(refs)
      BY <1>1, <1>2
    <3>2. Ids(InputRefs(builds), {builds}) /\ \A s \in S : s[2] \in {builds}
      BY <2>1
    <3> HIDE DEF J, S
    <3>3. Released(InputRefs(builds) \cup refs, S)
            = Released(InputRefs(builds), S) \cup refs
      BY <3>1, <3>2, ReleaseOne
    <3> QED BY <3>3 DEF S
  <2>3. Released(InputRefs(builds), {Local(builds)}) = {}
    BY <1>1, DropFacts
  <2>4. R = InputRefs(builds) \cup refs
    OBVIOUS
  <2>5. BuildFails(Apart(leaked))
    BY <1>2, <1>5, <2>2, <2>3, <2>4
  <2> QED BY <1>0, <1>1, <2>5, FailsExact
<1> QED
  BY <1>3, <1>4, <1>5

\* The input side of a build that fails later is left.
LEMMA LeakedApart ==
  ASSUME RefInv, Building, Leaked
  PROVE  /\ leaked' \in SUBSET (1..builds) /\ pipeline.id \notin leaked'
         /\ Apart(leaked') = Apart(leaked)
              \cup (IF gpuFrames THEN InputRefs(builds) ELSE {})
<1>1. /\ builds \in Nat \ {0} /\ leaked \in SUBSET (1..builds)
      /\ builds # pipeline.id /\ pipeline.id \notin leaked
  BY BuildApart
<1>2. leaked' = IF gpuFrames THEN leaked \cup {builds} ELSE leaked
  BY DEF Leaked
<1>3. LeakRefs(leaked \cup {builds}) = LeakRefs(leaked) \cup InputRefs(builds)
  BY DEF LeakRefs
<1> QED
  BY <1>1, <1>2, <1>3 DEF Apart

LEMMA GraphExact ==
  ASSUME RefInv, MakeGraph
  PROVE  (BuildOrder /\ RefSum)'
<1> DEFINE X == IF gpuFrames THEN InputRefs(builds) ELSE {}
<1>0. Building /\ phase = "graph" /\ UNCHANGED BuildVars /\ Begun = X
  BY DEF Building, MakeGraph, Begun
<1>1. refs = Apart(leaked) \cup X
  BY <1>0, BuildApart
<1>2. CASE /\ phase' = "session" /\ refs' = refs \cup GraphRefs(builds)
           /\ UNCHANGED <<frame, pipeline, rateFailed, leaked>>
  <2>1. UNCHANGED <<builds, cause, gpuFrames>>
    BY <1>0 DEF BuildVars, renderVars
  <2>2. Begun' = X \cup GraphRefs(builds)
    BY <1>2, <2>1 DEF Begun, InputRefs, GraphRefs
  <2>3. BuildOrder'
    BY <1>0, <1>2, <2>1 DEF RefInv, BuildOrder, Building
  <2>4. RefSum'
    <3> HIDE DEF X
    <3> QED
      BY <1>1, <1>2, <2>1, <2>2 DEF RefSum, Apart, InUse, PipelineRefs, GraphRefs, LeakRefs
  <2> QED BY <2>3, <2>4
<1>3. CASE BuildFails(refs) /\ Leaked
  <2>1. /\ leaked' \in SUBSET (1..builds) /\ pipeline.id \notin leaked'
        /\ Apart(leaked') = refs
    BY <1>0, <1>1, <1>3, LeakedApart
  <2> QED BY <1>0, <1>3, <2>1, FailsExact
<1> QED
  BY <1>2, <1>3 DEF MakeGraph

LEMMA SessionExact ==
  ASSUME RefInv, OpenSession
  PROVE  (BuildOrder /\ RefSum)'
<1> DEFINE X == IF gpuFrames THEN InputRefs(builds) ELSE {}
           A == GraphRefs(builds) \cup X
<1>0. Building /\ phase = "session" /\ UNCHANGED BuildVars /\ Begun = A
  BY DEF Building, OpenSession, Begun
<1>1. /\ refs = Apart(leaked) \cup A
      /\ builds \in Nat \ {0} /\ pipeline.id \in Nat /\ leaked \in SUBSET (1..builds)
      /\ builds \notin {pipeline.id} \cup leaked \cup {0} /\ pipeline.id \notin leaked
      /\ Ids(Apart(leaked), {pipeline.id} \cup leaked \cup {0}) /\ Closed(Apart(leaked))
  BY <1>0, BuildApart
<1>2. CASE BuildFails(Released(refs, {Graph(builds)})) /\ Leaked
  <2>1. Ids(A, {builds})
    BY DEF Ids, GraphRefs, InputRefs, Graph, Local, Input, Output, Device, Shared
  <2>2. \A s \in {Graph(builds)} : s[2] \in {builds}
    BY DEF Graph
  <2>3. Released(A, {Graph(builds)}) = X
    BY <1>1, DropFacts
  <2>4. Released(A \cup Apart(leaked), {Graph(builds)}) = X \cup Apart(leaked)
    <3> DEFINE J == {pipeline.id} \cup leaked \cup {0}  S == {Graph(builds)}
               B == Apart(leaked)
    <3>1. {builds} \cap J = {} /\ Ids(B, J) /\ Closed(B)
      BY <1>1
    <3>2. \A s \in S : s[2] \in {builds}
      BY <2>2
    <3> HIDE DEF A, X, J, S, B
    <3>3. Released(A \cup B, S) = Released(A, S) \cup B
      BY <2>1, <3>1, <3>2, ReleaseOne
    <3> QED BY <2>3, <3>3 DEF S, B
  <2>5. A \cup Apart(leaked) = refs
    BY <1>1
  <2>6. /\ leaked' \in SUBSET (1..builds) /\ pipeline.id \notin leaked'
        /\ Apart(leaked') = Apart(leaked) \cup X
    BY <1>0, <1>2, LeakedApart
  <2>7. BuildFails(Apart(leaked'))
    <3> HIDE DEF A, X
    <3>1. Apart(leaked') = X \cup Apart(leaked)
      BY <2>6
    <3> QED BY <1>2, <2>4, <2>5, <3>1
  <2> QED BY <1>0, <2>6, <2>7, FailsExact
<1>3. CASE BuildDone(WithSession(refs, builds))
  <2> DEFINE R == WithSession(refs, builds)
             Own(r) == IF r[1] = Local(builds) THEN <<Owner(builds), r[2]>> ELSE r
             owned == {Own(r) : r \in R}
             C == A \cup {<<Session(builds), Output(builds)>>}
  <2>1. /\ pipeline'.id = builds /\ refs' = DropPipeline(owned, pipeline.id)
        /\ phase' \in {"idle", "encode"} /\ leaked' = leaked
    BY <1>3 DEF BuildDone, GoOn
  <2>2. \A r \in Apart(leaked) : Own(r) = r
    BY <1>1 DEF Ids, Local
  <2>3. {Own(r) : r \in C} = PipelineRefs(builds)
    <3>1. Own(<<Local(builds), Input(builds)>>) = <<Owner(builds), Input(builds)>>
      OBVIOUS
    <3>2. \A r \in C : r # <<Local(builds), Input(builds)>> => Own(r) = r
      BY DEF GraphRefs, InputRefs, Local, Graph, Session, Input, Output
    <3>3. C = GraphRefs(builds) \cup {<<Session(builds), Output(builds)>>}
                \cup (IF gpuFrames THEN {<<Local(builds), Input(builds)>>, <<Input(builds), Device>>}
                      ELSE {})
      BY DEF InputRefs
    <3>4. <<Local(builds), Input(builds)>> \notin
            GraphRefs(builds) \cup {<<Session(builds), Output(builds)>>, <<Input(builds), Device>>}
      BY DEF GraphRefs, Local, Graph, Session, Input, Output
    <3> HIDE DEF Own, C
    <3>5. CASE gpuFrames
      <4> DEFINE D == GraphRefs(builds)
                        \cup {<<Session(builds), Output(builds)>>, <<Input(builds), Device>>}
                 l == <<Local(builds), Input(builds)>>
                 o == <<Owner(builds), Input(builds)>>
      <4>1. C = D \cup {l} /\ l \notin D /\ PipelineRefs(builds) = D \cup {o} /\ Own(l) = o
        BY <3>1, <3>3, <3>4, <3>5 DEF PipelineRefs
      <4>2. \A r \in D : Own(r) = r
        BY <3>2, <4>1
      <4> HIDE DEF D, l, o
      <4> QED BY <4>1, <4>2
    <3>6. CASE ~gpuFrames
      <4>1. \A r \in C : Own(r) = r
        BY <3>2, <3>3, <3>4, <3>6
      <4>2. C = PipelineRefs(builds)
        BY <3>3, <3>6 DEF PipelineRefs
      <4> QED BY <4>1, <4>2
    <3> QED BY <3>5, <3>6
  <2>4. R = Apart(leaked) \cup C
    BY <1>1 DEF WithSession
  <2>5. owned = Apart(leaked) \cup PipelineRefs(builds)
    <3> HIDE DEF R, C, Own
    <3> QED BY <2>2, <2>3, <2>4
  <2>6. InUse(builds) = PipelineRefs(builds)
    BY <1>1 DEF InUse
  <2> DEFINE Y == LeakRefs(leaked) \cup InUse(builds)
  <2>7. owned = InUse(pipeline.id) \cup Y \cup SelfRef
    <3> HIDE DEF owned
    <3> QED BY <2>5, <2>6 DEF Apart
  <2>8. Ids(Y, leaked \cup {builds}) /\ Closed(Y)
    <3>1. leaked \in SUBSET Nat
      BY <1>1
    <3> QED BY <1>1, <3>1, LeakFacts, InUseFacts, IdsUnion, ClosedUnion
  <2>9. refs' = Y \cup SelfRef
    <3>1. pipeline.id \notin leaked \cup {builds} /\ 0 \notin leaked \cup {builds}
      BY <1>1
    <3> HIDE DEF Y, owned
    <3> QED BY <1>1, <2>1, <2>7, <2>8, <3>1, DropOld
  <2>10. UNCHANGED <<builds, cause, gpuFrames>>
    BY <1>0 DEF BuildVars, renderVars
  <2>11. Begun' = {} /\ InUse(pipeline.id)' = InUse(builds)
    BY <2>1, <2>10 DEF Begun, InUse, PipelineRefs, GraphRefs
  <2>12. BuildOrder'
    BY <1>1, <2>1, <2>10 DEF BuildOrder, Building
  <2>13. RefSum'
    <3> HIDE DEF owned
    <3> QED BY <2>1, <2>9, <2>10, <2>11 DEF RefSum
  <2> QED BY <2>12, <2>13
<1> QED
  BY <1>2, <1>3 DEF OpenSession

\* A build starts with no references.
LEMMA StartExact ==
  ASSUME RefInv, NEW why, NEW c, StartBuild(why, c), phase \in {"new", "idle", "encode"},
         why = "new" <=> phase = "new",
         phase # "new" => refs' = refs, phase = "new" => refs' = SelfRef,
         UNCHANGED <<gpuFrames, pipeline, leaked>>
  PROVE  (BuildOrder /\ RefSum)'
<1> USE DEF RefInv
<1>1. /\ builds \in Nat /\ builds' = builds + 1 /\ cause' = why /\ gpuFrames \in BOOLEAN
      /\ \/ gpuFrames = TRUE /\ phase' = "input"
         \/ gpuFrames = FALSE /\ phase' = "graph"
  BY DEF StartBuild, FitInv, VaapiTypeOK
<1>2. Begun' = {}
  BY <1>1 DEF Begun
<1>3. /\ leaked \subseteq 1..builds /\ pipeline.id \in 0..builds /\ pipeline.id \notin leaked
      /\ (phase = "new" <=> pipeline.id = 0)
  BY DEF BuildOrder
<1>4. BuildOrder'
  BY <1>1, <1>3 DEF BuildOrder, Building
<1>5. refs' = InUse(pipeline.id) \cup LeakRefs(leaked) \cup SelfRef
  <2>1. CASE phase = "new"
    <3>1. InUse(pipeline.id) = {} /\ LeakRefs(leaked) = {}
      BY <1>3, <2>1 DEF InUse, LeakRefs, BuildOrder
    <3> QED BY <2>1, <3>1
  <2>2. CASE phase # "new"
    BY <2>2 DEF RefSum, Begun
  <2> QED BY <2>1, <2>2
<1>6. RefSum'
  BY <1>1, <1>2, <1>5 DEF RefSum, InUse, PipelineRefs, GraphRefs, LeakRefs
<1> QED
  BY <1>4, <1>6

\* The thread's other steps.
LEMMA ThreadExact ==
  ASSUME RefInv,
         \/ New \/ (\E r \in Rates : ChangeBitrate(r))
         \/ Reinitialize \/ TakeNewest \/ Submit \/ Stop
  PROVE  (BuildOrder /\ RefSum)'
<1> USE DEF RefInv
<1>1. ASSUME phase' \in {"idle", "encode"}, phase \in {"idle", "encode"},
             UNCHANGED <<gpuFrames, pipeline, leaked, refs, builds>>
      PROVE  (BuildOrder /\ RefSum)'
  <2>1. BuildOrder'
    BY <1>1 DEF BuildOrder, Building
  <2>2. RefSum'
    BY <1>1 DEF RefSum, InUse, PipelineRefs, GraphRefs, LeakRefs, Begun
  <2> QED BY <2>1, <2>2
<1>2. CASE New
  <2>1. CASE /\ refs' = {<<Self, Device>>} /\ StartBuild("new", config)
             /\ UNCHANGED <<frame, pipeline>>
    BY <1>2, <2>1, StartExact DEF New, renderVars, SelfRef
  <2>2. CASE EndThread /\ UNCHANGED <<cause, config, builds, refs>>
    <3>1. /\ phase = "new" /\ phase' = "dead" /\ pipeline'.id = 0 /\ builds = 0
          /\ UNCHANGED <<gpuFrames, leaked, builds, refs>>
      BY <1>2, <2>2 DEF New, EndThread, NoPipeline, renderVars, BuildOrder
    <3>2. refs = LeakRefs(leaked)
      BY <3>1 DEF RefSum, BuildOrder, InUse, Begun
    <3>3. BuildOrder'
      BY <3>1 DEF BuildOrder, Building
    <3>4. RefSum'
      BY <3>1, <3>2 DEF RefSum, InUse, Begun, LeakRefs
    <3> QED BY <3>3, <3>4
  <2> QED BY <1>2, <2>1, <2>2 DEF New
<1>3. ASSUME NEW r \in Rates, ChangeBitrate(r) PROVE (BuildOrder /\ RefSum)'
  BY <1>3, StartExact DEF ChangeBitrate, renderVars
<1>4. CASE Reinitialize
  BY <1>4, StartExact DEF Reinitialize, renderVars
<1>5. CASE TakeNewest
  <2>1. phase = "idle" /\ UNCHANGED <<gpuFrames, pipeline, leaked, refs>>
    BY <1>5 DEF TakeNewest, renderVars
  <2>2. \/ phase' = "encode" /\ builds' = builds
        \/ \E c : StartBuild("frame", c)
    BY <1>5 DEF TakeNewest, Accept
  <2> QED BY <1>1, <2>1, <2>2, StartExact
<1>6. CASE Submit
  BY <1>1, <1>6 DEF Submit, renderVars
<1>7. CASE Stop
  <2>1. /\ phase = "idle" /\ phase' = "dead" /\ cause' = "stop" /\ pipeline'.id = 0
        /\ refs' = Released(DropPipeline(refs, pipeline.id), {Self})
        /\ UNCHANGED <<gpuFrames, leaked, builds>>
    BY <1>7 DEF Stop, EndThread, NoPipeline, renderVars
  <2>2. /\ pipeline.id \in Nat /\ leaked \in SUBSET Nat /\ 0 \notin leaked
        /\ pipeline.id \notin leaked /\ leaked \subseteq 1..builds /\ builds \in Nat
    BY DEF BuildOrder, FitInv, VaapiTypeOK
  <2>3. refs = InUse(pipeline.id) \cup LeakRefs(leaked) \cup SelfRef
    BY <2>1 DEF RefSum, Begun
  <2>4. Ids(LeakRefs(leaked), leaked) /\ Closed(LeakRefs(leaked))
    BY <2>2, LeakFacts
  <2>5. DropPipeline(refs, pipeline.id) = LeakRefs(leaked) \cup SelfRef
    BY <2>2, <2>3, <2>4, DropOld
  <2>6. refs' = LeakRefs(leaked)
    BY <2>1, <2>2, <2>4, <2>5, DropSelf
  <2>7. BuildOrder'
    BY <2>1, <2>2 DEF BuildOrder, Building
  <2>8. RefSum'
    BY <2>1, <2>6 DEF RefSum, InUse, Begun, LeakRefs
  <2> QED BY <2>7, <2>8
<1> QED
  BY <1>2, <1>3, <1>4, <1>5, <1>6, <1>7

LEMMA RefStep ==
  ASSUME RefInv, [VaapiNext]_vaapiVars
  PROVE  RefInv'
<1>1. FitInv'
  BY RenderFits, BuildFits, ThreadFits, VaapiStutter DEF VaapiNext, RefInv
<1>2. CASE RenderLoop \/ UNCHANGED vaapiVars
  <2>1. UNCHANGED <<gpuFrames, phase, cause, pipeline, builds, refs, leaked>>
    BY <1>2 DEF RenderLoop, BeginDraw, FinishDraw, RenderFails, SendFrame, Resize, vaapiVars,
                renderVars, threadVars
  <2>2. BuildOrder'
    BY <2>1 DEF RefInv, BuildOrder, Building
  <2>3. RefSum'
    BY <2>1 DEF RefInv, RefSum, InUse, PipelineRefs, GraphRefs, LeakRefs, Begun, InputRefs
  <2> QED BY <1>1, <2>2, <2>3 DEF RefInv
<1>3. CASE InitInput \/ MakeGraph \/ OpenSession
  BY <1>1, <1>3, InputExact, GraphExact, SessionExact DEF RefInv
<1>4. CASE \/ New \/ (\E r \in Rates : ChangeBitrate(r))
           \/ Reinitialize \/ TakeNewest \/ Submit \/ Stop
  BY <1>1, <1>4, ThreadExact DEF RefInv
<1> QED
  BY <1>2, <1>3, <1>4 DEF VaapiNext

\* The drops of VaapiPipeline and VaapiEncoder: between builds, whichever of
\* them failed at whatever step, the references are those of the pipeline in
\* use, and what the failed builds are known to leave.
THEOREM ReferencesExact == VaapiSpec => []RefsExact
<1>1. RefInv => RefsExact
  <2> SUFFICES ASSUME RefInv, phase \in {"idle", "encode", "dead"} PROVE RefsExact
    BY DEF RefsExact
  <2>1. Begun = {}
    BY DEF Begun
  <2>2. LeakRefs(leaked) = UNION {{<<Local(g), Input(g)>>, <<Input(g), Device>>} : g \in leaked}
    BY DEF LeakRefs, InputRefs
  <2> DEFINE L == UNION {{<<Local(g), Input(g)>>, <<Input(g), Device>>} : g \in leaked}
             D == {<<Self, Device>>}
             U == IF pipeline.id = 0 THEN {} ELSE PipelineRefs(pipeline.id)
  <2>3. refs = U \cup L \cup (IF phase = "dead" /\ ~(cause = "new" /\ builds > 0) THEN {} ELSE D)
    BY <2>1, <2>2 DEF RefInv, RefSum, InUse, SelfRef
  <2>4. RefsExact <=> refs = U \cup (L \cup (IF phase # "dead" \/ (cause = "new" /\ builds > 0)
                                            THEN D ELSE {}))
    BY DEF RefsExact
  <2> HIDE DEF L, D, U
  <2> QED BY <2>3, <2>4
<1> QED
  BY <1>1, RefInitHolds, RefStep, PTL DEF VaapiSpec

-----------------------------------------------------------------------------
(***************************************************************************)
(* The order of the pictures.  A target only ever gets a newer picture, so a  *)
(* frame that points at it shows its own picture or a newer one; and as long  *)
(* as every picture is queued, the newest frame in the queue is the last or,   *)
(* while one is being made, the last but one.  Frames that are read back are   *)
(* pending in the order in which they are encoded.                           *)
(***************************************************************************)

TargetsOK ==
  /\ pool \in 1..MaxPools /\ nextTarget \in Targets
  /\ content \in [1..MaxPools -> [Targets -> Nat]]
  /\ \A p \in 1..MaxPools, t \in Targets : content[p][t] <= picture

\* The frame that is being made has the last picture.
MakingOK ==
  making # NoFrame =>
    /\ making.pool \in 1..MaxPools /\ making.target \in Targets
    /\ making.pic = picture /\ making.kind = Kind

\* Of the pictures up to n, a frame's target has the frame's or a later one.
Lasting(f, c, n) ==
  /\ f.pool \in 1..MaxPools /\ f.target \in Targets
  /\ f.pic <= n
  /\ f.pic <= c[f.pool][f.target]

\* How far the newest queued frame is behind.
Behind == IF making = NoFrame THEN 0 ELSE 1

HandleOrder ==
  /\ \A i \in 1..Len(queue) : Lasting(queue[i], content, picture)
  /\ ~dropped /\ queue # << >> => queue[Len(queue)].pic >= picture - Behind
  /\ frame # NoFrame =>
       Lasting(frame, content, picture) /\ (~dropped => encoded <= frame.pic + 1)

\* A frame n is read back, and comes after the pictures encoded and in hand.
Later(f) ==
  f.kind = "cpu" /\ encoded < f.pic /\ (frame # NoFrame => frame.pic < f.pic)

ReadBackOrder ==
  ~gpuFrames =>
    /\ frame # NoFrame => frame.kind = "cpu" /\ encoded < frame.pic
    /\ \A i \in 1..Len(queue) :
         Later(queue[i]) /\ (making # NoFrame => queue[i].pic < making.pic)
    /\ making # NoFrame => Later(making)

OrderInv ==
  /\ TargetsOK /\ MakingOK
  /\ encoded \in Nat /\ encoded <= picture
  /\ HandleOrder /\ ReadBackOrder

LEMMA ModTargets == ASSUME NEW n \in Nat PROVE (n % NumTargets) \in Targets
BY VaapiOK DEF Targets

\* What is typed in the frames that are pending.
LEMMA PendingTyped ==
  ASSUME FitInv
  PROVE  /\ picture \in Nat /\ Len(queue) \in Nat /\ queue \in Seq(Frames)
         /\ \A i \in 1..Len(queue) : queue[i] \in Frames /\ queue[i].pic \in Nat
         /\ frame # NoFrame => frame \in Frames /\ frame.pic \in Nat
         /\ making # NoFrame => making \in Frames /\ making.pic \in Nat
<1>1. /\ picture \in Nat /\ queue \in Seq(Frames)
      /\ making \in Frames \cup {NoFrame} /\ frame \in Frames \cup {NoFrame}
  BY DEF FitInv, VaapiTypeOK
<1>2. \A f \in Frames : f.pic \in Nat
  BY DEF Frames
<1>3. Len(queue) \in Nat /\ \A i \in 1..Len(queue) : queue[i] \in Frames
  BY <1>1
<1> QED
  BY <1>1, <1>2, <1>3

LEMMA OrderBegin ==
  ASSUME FitInv, OrderInv, BeginDraw
  PROVE  OrderInv'
<1>1. /\ making = NoFrame /\ making' # NoFrame /\ picture' = picture + 1
      /\ making'.pool = pool /\ making'.target = nextTarget /\ making'.pic = picture'
      /\ making'.kind = Kind /\ nextTarget' = (nextTarget + 1) % NumTargets
      /\ UNCHANGED <<gpuFrames, pool, content, dropped, queue, encoded, frame>>
  BY DEF BeginDraw, Bind, threadVars, NoFrame, Kind
<1>2. nextTarget' \in Targets
  <2>1. nextTarget + 1 \in Nat
    BY VaapiOK DEF OrderInv, TargetsOK, Targets
  <2> QED BY <1>1, <2>1, ModTargets
<1>3. TargetsOK'
  <2>1. \A p \in 1..MaxPools, t \in Targets : content[p][t] \in Nat /\ content[p][t] <= picture
    BY DEF OrderInv, TargetsOK
  <2>2. \A p \in 1..MaxPools, t \in Targets : content[p][t] <= picture'
    BY <1>1, <2>1, PendingTyped
  <2> QED BY <1>1, <1>2, <2>2 DEF OrderInv, TargetsOK
<1>4. MakingOK'
  BY <1>1 DEF OrderInv, TargetsOK, MakingOK, Kind
<1>5. encoded' \in Nat /\ encoded' <= picture' /\ encoded < picture'
  BY <1>1, PendingTyped DEF OrderInv
<1>6. HandleOrder'
  <2>1. ASSUME NEW f \in Frames, f.pic \in Nat, Lasting(f, content, picture)
        PROVE  Lasting(f, content', picture')
    BY <1>1, <2>1, PendingTyped DEF Lasting
  <2>2. \A i \in 1..Len(queue) : Lasting(queue[i], content', picture')
    BY <2>1, PendingTyped DEF OrderInv, HandleOrder
  <2>3. frame # NoFrame => Lasting(frame, content', picture')
    BY <2>1, PendingTyped DEF OrderInv, HandleOrder
  <2>4. ~dropped /\ queue # << >> => queue[Len(queue)].pic >= picture' - 1
    <3>1. queue # << >> => Len(queue) \in 1..Len(queue)
      BY PendingTyped
    <3> QED
      BY <1>1, <3>1, PendingTyped DEF OrderInv, HandleOrder, Behind
  <2> QED
    BY <1>1, <2>2, <2>3, <2>4 DEF OrderInv, HandleOrder, Behind
<1>7. ReadBackOrder'
  <2>1. frame # NoFrame => frame.pic < making'.pic
    BY <1>1, PendingTyped DEF OrderInv, HandleOrder, Lasting
  <2>2. \A i \in 1..Len(queue) : queue[i].pic < making'.pic
    BY <1>1, PendingTyped DEF OrderInv, HandleOrder, Lasting
  <2>3. ~gpuFrames => making'.kind = "cpu" /\ encoded < making'.pic
    BY <1>1, <1>5 DEF Kind
  <2> QED
    BY <1>1, <2>1, <2>2, <2>3 DEF OrderInv, ReadBackOrder, Later
<1> QED
  BY <1>3, <1>4, <1>5, <1>6, <1>7 DEF OrderInv

LEMMA OrderFinish ==
  ASSUME FitInv, OrderInv, FinishDraw
  PROVE  OrderInv'
<1>1. /\ making # NoFrame /\ content' = [content EXCEPT ![making.pool][making.target] = making.pic]
      /\ UNCHANGED <<gpuFrames, picture, making, pool, nextTarget, dropped, queue, encoded, frame>>
  BY DEF FinishDraw, threadVars
<1>2. /\ making.pool \in 1..MaxPools /\ making.target \in Targets /\ making.pic = picture
      /\ picture \in Nat /\ content \in [1..MaxPools -> [Targets -> Nat]]
  BY <1>1, PendingTyped DEF OrderInv, MakingOK, TargetsOK
<1>3. /\ content' \in [1..MaxPools -> [Targets -> Nat]]
      /\ \A p \in 1..MaxPools, t \in Targets :
           content'[p][t] = content[p][t] \/ content'[p][t] = picture
  BY <1>1, <1>2
<1>4. \A p \in 1..MaxPools, t \in Targets :
        content[p][t] <= content'[p][t] /\ content'[p][t] <= picture
  <2> SUFFICES ASSUME NEW p \in 1..MaxPools, NEW t \in Targets
               PROVE  content[p][t] <= content'[p][t] /\ content'[p][t] <= picture
    OBVIOUS
  <2>1. content[p][t] \in Nat /\ content[p][t] <= picture
    BY <1>2 DEF OrderInv, TargetsOK
  <2> QED
    BY <1>2, <1>3, <2>1
<1>5. TargetsOK' /\ MakingOK'
  BY <1>1, <1>3, <1>4 DEF OrderInv, TargetsOK, MakingOK, Kind
<1>6. ASSUME NEW f \in Frames, f.pic \in Nat, Lasting(f, content, picture)
      PROVE  Lasting(f, content', picture')
  <2>1. content[f.pool][f.target] \in Nat /\ content'[f.pool][f.target] \in Nat
    BY <1>2, <1>3, <1>6 DEF Lasting
  <2> QED
    BY <1>1, <1>4, <1>6, <2>1 DEF Lasting
<1>7. HandleOrder'
  <2>1. \A i \in 1..Len(queue) : Lasting(queue[i], content', picture')
    BY <1>6, PendingTyped DEF OrderInv, HandleOrder
  <2>2. frame # NoFrame => Lasting(frame, content', picture')
    BY <1>6, PendingTyped DEF OrderInv, HandleOrder
  <2> QED
    BY <1>1, <2>1, <2>2 DEF OrderInv, HandleOrder, Behind
<1>8. ReadBackOrder'
  BY <1>1 DEF OrderInv, ReadBackOrder, Later
<1> QED
  BY <1>1, <1>5, <1>7, <1>8 DEF OrderInv

LEMMA OrderSend ==
  ASSUME FitInv, OrderInv, SendFrame
  PROVE  OrderInv'
<1>1. /\ making # NoFrame /\ Drawn /\ making' = NoFrame
      /\ \/ queue' = Append(queue, making) /\ UNCHANGED dropped
         \/ dropped' = TRUE /\ UNCHANGED queue
      /\ UNCHANGED <<gpuFrames, picture, pool, content, nextTarget, encoded, frame>>
  BY DEF SendFrame, threadVars
<1>2. TargetsOK' /\ MakingOK'
  BY <1>1 DEF OrderInv, TargetsOK, MakingOK
<1>3. Lasting(making, content, picture) /\ making \in Frames /\ making.pic = picture
  <2>1. making.pic = picture /\ picture \in Nat /\ making \in Frames
    BY <1>1, PendingTyped DEF OrderInv, MakingOK
  <2> QED
    BY <1>1, <2>1 DEF OrderInv, MakingOK, Drawn, Lasting
<1>4. /\ frame # NoFrame => Lasting(frame, content, picture)
      /\ \A i \in 1..Len(queue) : Lasting(queue[i], content, picture)
      /\ ~gpuFrames => Later(making) /\ \A i \in 1..Len(queue) : Later(queue[i])
  BY <1>1 DEF OrderInv, HandleOrder, ReadBackOrder
<1>5. CASE queue' = Append(queue, making) /\ UNCHANGED dropped
  <2>1. /\ Len(queue') = Len(queue) + 1 /\ queue'[Len(queue')] = making /\ queue' # << >>
        /\ \A i \in 1..Len(queue') : queue'[i] = making \/ \E j \in 1..Len(queue) : queue'[i] = queue[j]
    <3>1. Len(queue') = Len(queue) + 1 /\ queue'[Len(queue) + 1] = making
          /\ \A i \in 1..Len(queue) : queue'[i] = queue[i]
      BY <1>3, <1>5, PendingTyped
    <3>2. \A i \in 1..Len(queue') : i \in 1..Len(queue) \/ i = Len(queue) + 1
      BY <3>1, PendingTyped
    <3>3. queue' # << >>
      BY <3>1, PendingTyped
    <3> QED BY <3>1, <3>2, <3>3
  <2>2. \A i \in 1..Len(queue') : Lasting(queue'[i], content, picture)
    BY <1>3, <1>4, <2>1
  <2>3. ~gpuFrames => \A i \in 1..Len(queue') : Later(queue'[i])
    BY <1>4, <2>1
  <2>4. HandleOrder'
    BY <1>1, <1>3, <1>4, <1>5, <2>1, <2>2, PendingTyped
       DEF HandleOrder, OrderInv, Behind, Lasting
  <2>5. ReadBackOrder'
    BY <1>1, <2>3 DEF OrderInv, ReadBackOrder, Later
  <2> QED
    BY <1>1, <1>2, <2>4, <2>5 DEF OrderInv
<1>6. CASE dropped' = TRUE /\ UNCHANGED queue
  BY <1>1, <1>2, <1>6 DEF OrderInv, HandleOrder, ReadBackOrder, Later, Lasting
<1> QED
  BY <1>1, <1>5, <1>6

LEMMA OrderTargets ==
  ASSUME FitInv, OrderInv, RenderFails \/ \E s \in Sizes : Resize(s)
  PROVE  OrderInv'
<1>1. /\ UNCHANGED <<gpuFrames, picture, content, queue, encoded, frame>> /\ making' = NoFrame
      /\ dropped' = TRUE \/ (dropped' = dropped /\ making = NoFrame)
  BY DEF RenderFails, Resize, threadVars
<1>2. pool' \in 1..MaxPools
  BY VaapiOK DEF RenderFails, Resize, OrderInv, TargetsOK
<1>3. nextTarget' \in Targets
  BY VaapiOK DEF RenderFails, Resize, OrderInv, TargetsOK, Targets
<1>4. TargetsOK' /\ MakingOK'
  BY <1>1, <1>2, <1>3 DEF OrderInv, TargetsOK, MakingOK
<1>5. HandleOrder' /\ ReadBackOrder'
  BY <1>1 DEF OrderInv, HandleOrder, ReadBackOrder, Later, Lasting, Behind
<1> QED
  BY <1>1, <1>4, <1>5 DEF OrderInv

\* What the thread's steps leave of it to prove.
LEMMA OrderKept ==
  ASSUME FitInv, OrderInv, UNCHANGED renderVars, encoded' = encoded,
         frame' = frame \/ frame' = NoFrame,
         queue' = queue \/ queue' = << >>
  PROVE  OrderInv'
<1>1. UNCHANGED <<gpuFrames, picture, making, pool, content, nextTarget, dropped>>
  BY DEF renderVars
<1>2. 1..Len(<< >>) = {}
  OBVIOUS
<1>3. TargetsOK' /\ MakingOK'
  BY <1>1 DEF OrderInv, TargetsOK, MakingOK, Kind
<1>4. HandleOrder'
  BY <1>1, <1>2 DEF OrderInv, HandleOrder, Lasting, Behind
<1>5. ReadBackOrder'
  BY <1>1, <1>2 DEF OrderInv, ReadBackOrder, Later
<1> QED
  BY <1>1, <1>3, <1>4, <1>5 DEF OrderInv

LEMMA OrderTake ==
  ASSUME FitInv, OrderInv, TakeNewest
  PROVE  OrderInv'
<1> DEFINE f == queue[Len(queue)]
<1>1. /\ frame' = f /\ queue' = << >> /\ queue # << >> /\ frame = NoFrame
      /\ UNCHANGED <<renderVars, encoded>>
  BY DEF TakeNewest, Accept, FitInv, Fits
<1>2. Len(queue) \in 1..Len(queue)
  BY <1>1, PendingTyped
<1>3. UNCHANGED <<gpuFrames, picture, making, pool, content, nextTarget, dropped>>
  BY <1>1 DEF renderVars
<1>4. /\ Lasting(f, content, picture) /\ f.pic \in Nat
      /\ ~dropped => f.pic >= picture - Behind
      /\ ~gpuFrames => Later(f)
  BY <1>1, <1>2, PendingTyped DEF OrderInv, HandleOrder, ReadBackOrder
<1>5. ~dropped => encoded <= f.pic + 1
  BY <1>4, PendingTyped DEF OrderInv, Behind
<1>6. 1..Len(<< >>) = {}
  OBVIOUS
<1> HIDE DEF f
<1>7. TargetsOK' /\ MakingOK'
  BY <1>3 DEF OrderInv, TargetsOK, MakingOK, Kind
<1>8. HandleOrder'
  BY <1>1, <1>3, <1>4, <1>5, <1>6 DEF HandleOrder, Lasting
<1>9. making # NoFrame /\ ~gpuFrames => f.pic < making.pic
  BY <1>2 DEF OrderInv, ReadBackOrder, f
<1>10. ReadBackOrder'
  BY <1>1, <1>3, <1>4, <1>6, <1>9 DEF OrderInv, ReadBackOrder, Later
<1> QED
  BY <1>1, <1>3, <1>7, <1>8, <1>10 DEF OrderInv

LEMMA OrderSubmit ==
  ASSUME FitInv, OrderInv, Submit
  PROVE  /\ OrderInv'
         /\ encoded' # encoded =>
              /\ encoded' >= frame.pic
              /\ IF gpuFrames THEN dropped \/ encoded' >= encoded - 1
                 ELSE encoded' > encoded
<1>1. /\ frame # NoFrame /\ frame' = NoFrame /\ encoded' \in Shows(frame) \cup {encoded}
      /\ UNCHANGED <<renderVars, queue>>
  BY DEF Submit, FitInv, Fits
<1>2. UNCHANGED <<gpuFrames, picture, making, pool, content, nextTarget, dropped>>
  BY <1>1 DEF renderVars
<1>3. /\ frame \in Frames /\ frame.pic \in Nat /\ picture \in Nat
      /\ Lasting(frame, content, picture) /\ (~dropped => encoded <= frame.pic + 1)
      /\ ~gpuFrames => frame.kind = "cpu" /\ encoded < frame.pic
  BY <1>1, PendingTyped DEF OrderInv, HandleOrder, ReadBackOrder
<1>4. /\ content[frame.pool][frame.target] \in Nat
      /\ content[frame.pool][frame.target] <= picture
      /\ frame.pic <= content[frame.pool][frame.target]
      /\ frame.pic <= picture
  BY <1>3 DEF Lasting, OrderInv, TargetsOK
<1>5. making # NoFrame => making.pic = picture
  BY DEF OrderInv, MakingOK
<1>6. /\ \A n \in Shows(frame) : n \in Nat /\ frame.pic <= n /\ n <= picture
      /\ ~gpuFrames => Shows(frame) = {frame.pic}
  BY <1>3, <1>4, <1>5 DEF Shows, BeingDrawn
<1>7. encoded \in Nat /\ encoded <= picture
  BY DEF OrderInv
<1>8. encoded' \in Nat /\ encoded' <= picture'
  BY <1>1, <1>2, <1>6, <1>7
<1>9. encoded' # encoded =>
        /\ encoded' >= frame.pic
        /\ IF gpuFrames THEN dropped \/ encoded' >= encoded - 1 ELSE encoded' > encoded
  BY <1>1, <1>3, <1>6, <1>7
<1>10. TargetsOK' /\ MakingOK' /\ HandleOrder'
  BY <1>1, <1>2 DEF OrderInv, TargetsOK, MakingOK, Kind, HandleOrder, Lasting, Behind
<1>11. ReadBackOrder'
  <2>1. ~gpuFrames => encoded' \in {encoded, frame.pic}
    BY <1>1, <1>6
  <2> QED
    BY <1>1, <1>2, <2>1 DEF OrderInv, ReadBackOrder, Later
<1> QED
  BY <1>8, <1>9, <1>10, <1>11 DEF OrderInv

LEMMA OrderStep ==
  ASSUME FitInv, OrderInv, [VaapiNext]_vaapiVars
  PROVE  /\ OrderInv'
         /\ encoded' # encoded =>
              /\ encoded' >= frame.pic
              /\ IF gpuFrames THEN dropped \/ encoded' >= encoded - 1
                 ELSE encoded' > encoded
<1>1. CASE RenderLoop
  <2>1. encoded' = encoded
    BY <1>1 DEF RenderLoop, BeginDraw, FinishDraw, RenderFails, SendFrame, Resize, threadVars
  <2> QED
    BY <1>1, <2>1, OrderBegin, OrderFinish, OrderSend, OrderTargets DEF RenderLoop
<1>2. CASE InitInput \/ MakeGraph \/ OpenSession
  <2>1. UNCHANGED BuildVars /\ frame' \in {frame, NoFrame}
    BY <1>2 DEF InitInput, MakeGraph, OpenSession, BuildFails, BuildDone, EndThread
  <2>2. UNCHANGED <<renderVars, encoded, queue>>
    BY <2>1 DEF BuildVars
  <2> QED
    BY <2>1, <2>2, OrderKept
<1>3. CASE \/ New \/ (\E r \in Rates : ChangeBitrate(r)) \/ Reinitialize \/ Stop
  <2>1. /\ UNCHANGED <<renderVars, encoded>> /\ frame' \in {frame, NoFrame}
        /\ queue' = queue \/ queue' = << >>
    BY <1>3 DEF New, ChangeBitrate, Reinitialize, Stop, EndThread
  <2> QED
    BY <2>1, OrderKept
<1>4. CASE TakeNewest
  BY <1>4, OrderTake DEF TakeNewest
<1>5. CASE Submit
  BY <1>5, OrderSubmit
<1>6. CASE UNCHANGED vaapiVars
  <2>1. UNCHANGED <<renderVars, encoded, frame, queue>>
    BY <1>6 DEF vaapiVars, threadVars
  <2> QED
    BY <2>1, OrderKept
<1> QED
  BY <1>1, <1>2, <1>3, <1>4, <1>5, <1>6 DEF VaapiNext

LEMMA OrderInitHolds == VaapiInit => OrderInv
<1> SUFFICES ASSUME VaapiInit PROVE OrderInv
  OBVIOUS
<1>1. /\ content = [p \in 1..MaxPools |-> [t \in Targets |-> 0]] /\ pool = 1 /\ nextTarget = 0
      /\ picture = 0 /\ encoded = 0 /\ frame = NoFrame /\ making = NoFrame /\ queue = << >>
  BY DEF VaapiInit
<1>2. 0 \in Targets /\ 1 \in 1..MaxPools
  BY VaapiOK DEF Targets
<1>3. 1..Len(queue) = {}
  BY <1>1
<1>4. content \in [1..MaxPools -> [Targets -> Nat]]
  BY <1>1
<1>5. ASSUME NEW p \in 1..MaxPools, NEW t \in Targets PROVE content[p][t] <= picture
  <2>1. content[p][t] = 0
    BY <1>1
  <2> QED
    BY <1>1, <2>1
<1>6. TargetsOK /\ MakingOK
  BY <1>1, <1>2, <1>4, <1>5 DEF TargetsOK, MakingOK
<1>7. HandleOrder /\ ReadBackOrder
  BY <1>1, <1>3 DEF HandleOrder, ReadBackOrder
<1> QED
  BY <1>1, <1>6, <1>7 DEF OrderInv

\* render_gl, try_send and submit: for any number of targets and any queue, the
\* pictures encoded keep their order up to the one that is being made, though a
\* target may be drawn on again before its frame is encoded, or meanwhile.
THEOREM PicturesInOrder == VaapiSpec => PicturesFollow
<1>1. FitInv /\ OrderInv /\ [VaapiNext]_vaapiVars
        => OrderInv' /\ [encoded' # encoded =>
                           /\ encoded' >= frame.pic
                           /\ IF gpuFrames THEN dropped \/ encoded' >= encoded - 1
                              ELSE encoded' > encoded]_vaapiVars
  BY OrderStep
<1> QED
  BY <1>1, OrderInitHolds, FitKept, PTL DEF VaapiSpec, PicturesFollow
=============================================================================
