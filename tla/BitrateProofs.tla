---------------------------- MODULE BitrateProofs ----------------------------
(***************************************************************************)
(* Safety of the adaptive bitrate controller, for every configuration of     *)
(* rates, every cooldown and window, and every capacity of its channels.     *)
(***************************************************************************)
EXTENDS AdaptiveBitrate, TLAPS

(***************************************************************************)
(* The decisions.                                                           *)
(***************************************************************************)

\* should_actuate() never defers a cut: a target less than one band above the
\* applied rate, cut by a quarter, is not above the applied rate any more.
LEMMA CutLeavesBand ==
  ASSUME NEW t \in Nat, NEW a \in Nat, Min <= a,
         t <= a \/ t - a < Band(a)
  PROVE  Decreased(t) <= a
BY RatesOK DEF Decreased, Higher, Band

\* A rate proposed by either phase is positive and at most the ceiling, and
\* growth within the range never lowers the target.
LEMMA ProposedBounds ==
  ASSUME target \in Nat \ {0}, ssthresh \in Nat \ {0}
  PROVE  /\ Proposed \in Nat \ {0}
         /\ Proposed <= Max
         /\ target <= Max /\ (phase = "slowstart" => target <= ssthresh) => Proposed >= target
BY RatesOK DEF Proposed, Lower, Grown

LEMMA DecreasedBounds ==
  ASSUME NEW t \in Nat \ {0}
  PROVE  /\ Decreased(t) \in Nat \ {0}
         /\ Decreased(t) >= Min
         /\ t <= Max => Decreased(t) <= Max
BY RatesOK DEF Decreased, Higher

-----------------------------------------------------------------------------
(***************************************************************************)
(* Type correctness.                                                        *)
(***************************************************************************)

\* No rate is zero, so a queued rate is never taken for ForceKeyframe.
Positive == target > 0 /\ applied > 0 /\ ssthresh > 0

Typed == TypeOK /\ Positive

LEMMA PursueTypes ==
  ASSUME NEW rate \in Nat, Pursue(rate)
  PROVE  target' \in Nat /\ target' = rate /\ ctl' \in {"select", "send"}
BY DEF Pursue

LEMMA CutTypes ==
  ASSUME Typed, NEW before \in Nat, CutOnce(before)
  PROVE  /\ target' \in Nat \ {0} /\ ssthresh' \in Nat \ {0}
         /\ phase' \in {"slowstart", "avoidance"} /\ sinceCut' \in 0..Cooldown
         /\ ctl' \in {"select", "send"} /\ cutsSince' \in Nat
<1>1. target \in Nat \ {0}
  BY DEF Typed, TypeOK, AlgorithmTypeOK, Positive
<1>2. Decreased(target) \in Nat \ {0}
  BY <1>1, DecreasedBounds
<1>3. CASE InCooldown /\ UNCHANGED <<target, ssthresh, phase, sinceCut, ctl>> /\ cutsSince' = before
  BY <1>3 DEF Typed, TypeOK, AlgorithmTypeOK, Positive
<1>4. CASE Cut /\ cutsSince' = before + 1
  BY <1>2, <1>4, BoundsOK DEF Cut, Pursue
<1> QED
  BY <1>3, <1>4 DEF CutOnce

LEMMA TypedInit == Init => Typed
<1> SUFFICES ASSUME Init PROVE Typed
  OBVIOUS
<1>1. AlgorithmTypeOK /\ Positive
  <2>1. slow \in BOOLEAN
    BY DEF Init
  <2>2. sinceCut \in 0..Cooldown /\ sinceBacklog \in 0..Window
    BY BoundsOK DEF Init
  <2>3. /\ target \in Nat /\ ssthresh \in Nat /\ phase \in {"slowstart", "avoidance"}
        /\ Positive
    BY RatesOK DEF Init, Positive
  <2> QED
    BY <2>1, <2>2, <2>3 DEF AlgorithmTypeOK
<1>2. ChannelTypeOK
  BY BoundsOK DEF Init, ChannelTypeOK
<1>3. /\ applied \in Nat /\ ctl \in {"select", "send"} /\ due \in 0..MaxDue
      /\ enc \in {"parked", "draining", "dead"} /\ encConf \in Nat /\ encRate \in Nat
      /\ cutsSince \in Nat
  BY RatesOK, BoundsOK DEF Init
<1> QED
  BY <1>1, <1>2, <1>3 DEF Typed, TypeOK

LEMMA ReceiveTypes ==
  ASSUME ChannelTypeOK, NEW report, Receive(report)
  PROVE  events' \in Seq(Reports) /\ Len(events') <= EventCap
BY BoundsOK DEF ChannelTypeOK, Receive, Reports

\* Every step keeps the types.
LEMMA TypedStep == Typed /\ [Next]_vars => Typed'
<1> SUFFICES ASSUME Typed, [Next]_vars PROVE Typed'
  OBVIOUS
<1> USE DEF Typed, TypeOK, Positive, AlgorithmTypeOK
<1>1. CASE OnBacklog
  <2>1. CutOnce(0)
    BY <1>1 DEF OnBacklog
  <2> QED
    BY <1>1, <2>1, CutTypes, ReceiveTypes, BoundsOK DEF OnBacklog, ChannelTypeOK, encoder
<1>2. CASE OnStall
  <2>1. CASE CutOnce(cutsSince)
    BY <1>2, <2>1, CutTypes, ReceiveTypes DEF OnStall, ChannelTypeOK, encoder
  <2>2. CASE UNCHANGED <<target, ssthresh, phase, sinceCut, ctl, cutsSince>>
    BY <1>2, <2>2, ReceiveTypes DEF OnStall, ChannelTypeOK, encoder
  <2> QED
    BY <1>2, <2>1, <2>2 DEF OnStall
<1>3. ASSUME NEW report \in {"slow", "fast"}, OnLatency(report) PROVE Typed'
  BY <1>3, ReceiveTypes DEF OnLatency, ChannelTypeOK, controller, encoder, history
<1>4. CASE Tick
  <2>1. Proposed \in Nat \ {0}
    BY ProposedBounds
  <2>2. target' \in Nat \ {0} /\ ctl' \in {"select", "send"}
    BY <1>4, <2>1 DEF Tick, Pursue
  <2>3. phase' \in {"slowstart", "avoidance"} /\ due' \in 0..MaxDue
    BY <1>4, BoundsOK DEF Tick
  <2>4. UNCHANGED <<ssthresh, sinceCut, sinceBacklog, slow, applied, events, control,
                    encoder, history>>
    BY <1>4 DEF Tick
  <2> QED
    BY <2>2, <2>3, <2>4 DEF ChannelTypeOK, encoder, history
<1>5. CASE Send
  <2>1. control' \in Seq(Nat) /\ Len(control') <= ControlCap
    BY <1>5, BoundsOK DEF Send, ChannelTypeOK
  <2>2. applied' = target /\ ctl' = "select"
    BY <1>5, BoundsOK DEF Send
  <2>3. UNCHANGED <<algorithm, due, events, encoder, cutsSince>>
    BY <1>5 DEF Send
  <2> QED
    BY <2>1, <2>2, <2>3 DEF ChannelTypeOK, algorithm, encoder
<1>6. CASE Elapse
  BY <1>6, BoundsOK DEF Elapse, Older, ChannelTypeOK, encoder
<1>7. ASSUME NEW report \in Reports, Report(report) PROVE Typed'
  BY <1>7, BoundsOK DEF Report, ChannelTypeOK, algorithm, controller, encoder, history
<1>8. CASE ForceKeyframe
  BY <1>8, BoundsOK DEF ForceKeyframe, KeyMsg, ChannelTypeOK, algorithm, controller, encoder, history
<1>9. CASE FrameArrives \/ DrainDone
  BY <1>9 DEF FrameArrives, DrainDone, ChannelTypeOK, algorithm, controller, history
<1>10. CASE DrainOne
  BY <1>10, BoundsOK DEF DrainOne, ChannelTypeOK, algorithm, controller, history
<1>11. CASE EncoderDies
  BY <1>11, BoundsOK DEF EncoderDies, ChannelTypeOK, algorithm, controller, history
<1>12. CASE UNCHANGED vars
  BY <1>12 DEF vars, algorithm, controller, encoder, history, ChannelTypeOK
<1> QED
  BY <1>1, <1>2, <1>3, <1>4, <1>5, <1>6, <1>7, <1>8, <1>9, <1>10, <1>11, <1>12
     DEF Next, Controller

\* TypeOK: rates, ages and channels keep their types and capacities, for every
\* configuration of the controller.
THEOREM BitrateTypes == Spec => []TypeOK
<1>1. Typed => TypeOK
  BY DEF Typed
<1> QED
  BY <1>1, TypedInit, TypedStep, PTL DEF Spec

-----------------------------------------------------------------------------
(***************************************************************************)
(* The range of the rates, and the deferral of growth.                      *)
(***************************************************************************)

\* The ceiling of slow start is still the configured one: no cut came yet.
RatesInRange ==
  ConfigSane =>
    /\ target \in Min..Max /\ applied \in Min..Max
    /\ phase = "slowstart" => ssthresh = Max

RateInv == Typed /\ RatesInRange /\ DeferralBounded

\* The steps that leave every rate alone.
Bystander ==
  \/ \E report \in {"slow", "fast"} : OnLatency(report)
  \/ Elapse
  \/ \E report \in Reports : Report(report)
  \/ ForceKeyframe \/ FrameArrives \/ DrainOne \/ DrainDone \/ EncoderDies
  \/ UNCHANGED vars

LEMMA BystanderFrame ==
  ASSUME Bystander
  PROVE  UNCHANGED <<target, ssthresh, phase, applied, ctl>>
BY DEF Bystander, OnLatency, Elapse, Report, ForceKeyframe, FrameArrives, DrainOne,
       DrainDone, EncoderDies, vars, algorithm, controller, encoder, history

LEMMA NextCases ==
  ASSUME [Next]_vars
  PROVE  OnBacklog \/ OnStall \/ Tick \/ Send \/ Bystander
BY DEF Next, Controller, Bystander

\* A step of the controller that may decide on a new rate.
LEMMA Decides ==
  ASSUME OnBacklog \/ OnStall \/ Tick
  PROVE  \/ UNCHANGED <<target, ssthresh, phase, applied, ctl>>
         \/ ctl = "select" /\ UNCHANGED applied /\ Cut
         \/ /\ ctl = "select" /\ UNCHANGED <<applied, ssthresh>>
            /\ Pursue(Proposed) /\ phase' \in {phase, "avoidance"}
<1>1. CASE OnBacklog
  BY <1>1 DEF OnBacklog, Receive, CutOnce
<1>2. CASE OnStall
  BY <1>2 DEF OnStall, Receive, CutOnce
<1>3. CASE Tick
  BY <1>3 DEF Tick
<1> QED
  BY <1>1, <1>2, <1>3

LEMMA DeferralKept ==
  ASSUME RateInv, ctl = "select", NEW rate \in Nat, Pursue(rate), UNCHANGED applied
  PROVE  DeferralBounded'
<1>1. target \in Nat /\ applied \in Nat
  BY DEF RateInv, Typed, TypeOK, AlgorithmTypeOK
<1>2. CASE rate = target
  BY <1>2 DEF RateInv, DeferralBounded, Pursue
<1>3. CASE rate # target /\ ShouldActuate(rate, applied)
  BY <1>3 DEF DeferralBounded, Pursue
<1>4. CASE rate # target /\ ~ShouldActuate(rate, applied)
  <2>1. applied < rate /\ rate < Max /\ rate - applied < Band(applied)
    BY <1>1, <1>4, RatesOK DEF ShouldActuate, Band, Higher
  <2>2. target' = rate /\ applied' = applied
    BY DEF Pursue
  <2> QED
    BY <2>1, <2>2 DEF DeferralBounded
<1> QED
  BY <1>2, <1>3, <1>4

LEMMA RateStep == RateInv /\ [Next]_vars => RateInv'
<1> SUFFICES ASSUME RateInv, [Next]_vars PROVE RateInv'
  OBVIOUS
<1>1. Typed'
  BY TypedStep DEF RateInv
<1>2. target \in Nat \ {0} /\ ssthresh \in Nat \ {0} /\ applied \in Nat \ {0}
  BY DEF RateInv, Typed, Positive, TypeOK, AlgorithmTypeOK
<1>3. ASSUME UNCHANGED <<target, ssthresh, phase, applied, ctl>> PROVE RateInv'
  BY <1>1, <1>3 DEF RateInv, RatesInRange, ConfigSane, DeferralBounded
<1>4. CASE Send
  <2>1. UNCHANGED <<target, ssthresh, phase>> /\ applied' = target
    BY <1>4 DEF Send, algorithm
  <2> QED
    BY <1>1, <2>1 DEF RateInv, RatesInRange, ConfigSane, DeferralBounded
<1>5. ASSUME ctl = "select", UNCHANGED applied, Cut PROVE RateInv'
  <2>1. Decreased(target) \in Nat \ {0} /\ Decreased(target) >= Min
        /\ (target <= Max => Decreased(target) <= Max)
    BY <1>2, DecreasedBounds
  <2>2. target' = Decreased(target) /\ phase' = "avoidance"
    BY <1>5 DEF Cut, Pursue
  <2>3. RatesInRange'
    BY <1>2, <1>5, <2>1, <2>2, RatesOK DEF RateInv, RatesInRange, ConfigSane
  <2>4. DeferralBounded'
    BY <1>5, <2>1, DeferralKept DEF Cut
  <2> QED
    BY <1>1, <2>3, <2>4 DEF RateInv
<1>6. ASSUME ctl = "select", UNCHANGED <<applied, ssthresh>>, Pursue(Proposed),
             phase' \in {phase, "avoidance"}
      PROVE  RateInv'
  <2>1. /\ Proposed \in Nat \ {0} /\ Proposed <= Max
        /\ target <= Max /\ (phase = "slowstart" => target <= ssthresh) => Proposed >= target
    BY <1>2, ProposedBounds
  <2>2. target' = Proposed
    BY <1>6 DEF Pursue
  <2>3. RatesInRange'
    BY <1>2, <1>6, <2>1, <2>2, RatesOK DEF RateInv, RatesInRange, ConfigSane
  <2>4. DeferralBounded'
    BY <1>6, <2>1, DeferralKept
  <2> QED
    BY <1>1, <2>3, <2>4 DEF RateInv
<1> QED
  BY <1>3, <1>4, <1>5, <1>6, NextCases, BystanderFrame, Decides

LEMMA RateInit == Init => RateInv
BY TypedInit, RatesOK DEF Init, RateInv, RatesInRange, ConfigSane, DeferralBounded

THEOREM RateInvariant == Spec => []RateInv
BY RateInit, RateStep, PTL DEF Spec

\* TargetInRange: tick() and cut() keep the target between --min-bitrate and
\* --max-bitrate, if --bitrate starts there.
THEOREM RangeKept == Spec => []TargetInRange
<1>1. RateInv => TargetInRange
  BY DEF RateInv, RatesInRange, TargetInRange
<1> QED
  BY <1>1, RateInvariant, PTL

\* DeferralBounded: maybe_apply() never leaves the encoder a full coalescing
\* band below the target, nor below a target that reached the ceiling.
THEOREM DeferralIsBounded == Spec => []DeferralBounded
<1>1. RateInv => DeferralBounded
  BY DEF RateInv
<1> QED
  BY <1>1, RateInvariant, PTL

\* CutsAreSent: should_actuate() lets every decrease through, whatever growth
\* maybe_apply() had deferred before.
THEOREM CutsReachEncoder == Spec => CutsAreSent
<1>1. RateInv /\ [Next]_vars => [ConfigSane /\ target' < target => ctl' = "send"]_vars
  <2> SUFFICES ASSUME RateInv, [Next]_vars, ConfigSane, target' < target
               PROVE  ctl' = "send"
    OBVIOUS
  <2>1. /\ target \in Min..Max /\ applied \in Min..Max
        /\ phase = "slowstart" => ssthresh = Max
        /\ target \in Nat \ {0} /\ ssthresh \in Nat \ {0} /\ applied \in Nat
    BY RatesOK DEF RateInv, RatesInRange, Typed, Positive, TypeOK, AlgorithmTypeOK
  <2>2. target' # target
    BY <2>1
  <2>3. CASE Send \/ UNCHANGED <<target, ssthresh, phase, applied, ctl>>
    BY <2>2, <2>3 DEF Send, algorithm
  <2>4. ASSUME ctl = "select", Cut PROVE ctl' = "send"
    <3>1. target <= applied \/ target - applied < Band(applied)
      BY <2>4, <2>1 DEF RateInv, DeferralBounded
    <3>2. Decreased(target) <= applied
      BY <2>1, <3>1, CutLeavesBand, RatesOK
    <3> QED
      BY <2>2, <2>4, <3>2 DEF Cut, Pursue, ShouldActuate
  <2>5. ASSUME Pursue(Proposed) PROVE FALSE
    BY <2>1, <2>5, ProposedBounds, RatesOK DEF Pursue
  <2> QED
    BY <2>3, <2>4, <2>5, NextCases, BystanderFrame, Decides
<1> QED
  BY <1>1, RateInvariant, PTL DEF Spec, CutsAreSent

-----------------------------------------------------------------------------
(***************************************************************************)
(* How many cuts one SendBacklog licenses.                                  *)
(***************************************************************************)

\* The cuts made for a backlog are a cooldown apart and all fall within the
\* corroboration window: the latest is as old as the backlog allows.
CutsSpaced ==
  sinceBacklog < Window /\ cutsSince > 0 =>
    (cutsSince - 1) * Cooldown + sinceCut <= sinceBacklog

SpacingInv == Typed /\ CutsPerBacklog /\ CutsSpaced

LEMMA OneMoreCut ==
  ASSUME NEW n \in Nat, NEW c \in Nat
  PROVE  n > 0 => ((n + 1) - 1) * c = (n - 1) * c + c
<1> SUFFICES ASSUME n > 0 PROVE ((n + 1) - 1) * c = (n - 1) * c + c
  OBVIOUS
<1>1. n * c = (n - 1) * c + c
  BY SMT
<1> QED
  BY <1>1

LEMMA SpacingStep == SpacingInv /\ [Next]_vars => SpacingInv'
<1> SUFFICES ASSUME SpacingInv, [Next]_vars PROVE SpacingInv'
  OBVIOUS
<1>1. Typed'
  BY TypedStep DEF SpacingInv
<1>2. /\ cutsSince \in Nat /\ sinceCut \in 0..Cooldown /\ sinceBacklog \in 0..Window
      /\ Cooldown \in Nat \ {0} /\ Window \in Nat \ {0}
  BY BoundsOK DEF SpacingInv, Typed, TypeOK, AlgorithmTypeOK
<1>3. ASSUME UNCHANGED <<cutsSince, sinceCut, sinceBacklog>> PROVE SpacingInv'
  BY <1>1, <1>3 DEF SpacingInv, CutsPerBacklog, CutsSpaced
<1>4. CASE OnBacklog
  <2>1. sinceBacklog' = 0
    BY <1>4 DEF OnBacklog
  <2>2. cutsSince' = 0 \/ (cutsSince' = 1 /\ sinceCut' = 0)
    BY <1>4 DEF OnBacklog, CutOnce, Cut
  <2> QED
    BY <1>1, <1>2, <2>1, <2>2 DEF SpacingInv, CutsPerBacklog, CutsSpaced
<1>5. CASE OnStall
  <2>1. ASSUME sinceBacklog < Window, ~InCooldown, Cut, cutsSince' = cutsSince + 1,
               UNCHANGED sinceBacklog
        PROVE  SpacingInv'
    <3>1. sinceCut = Cooldown /\ sinceCut' = 0
      BY <1>2, <2>1 DEF InCooldown, Cut
    <3>2. CASE cutsSince = 0
      BY <1>1, <1>2, <2>1, <3>1, <3>2 DEF SpacingInv, CutsPerBacklog, CutsSpaced
    <3>3. CASE cutsSince > 0
      <4> DEFINE before == (cutsSince - 1) * Cooldown
                 after  == (cutsSince' - 1) * Cooldown
      <4>1. after = before + Cooldown
        BY <1>2, <2>1, <3>3, OneMoreCut
      <4>2. before + Cooldown <= sinceBacklog
        BY <2>1, <3>1, <3>3 DEF SpacingInv, CutsSpaced
      <4>3. before \in Int
        BY <1>2
      <4> HIDE DEF before, after
      <4>4. after <= sinceBacklog' /\ after < Window
        BY <1>2, <2>1, <4>1, <4>2, <4>3
      <4>5. after + sinceCut' <= sinceBacklog'
        BY <1>2, <2>1, <3>1, <4>1, <4>3, <4>4
      <4> QED
        BY <1>1, <4>4, <4>5 DEF SpacingInv, CutsPerBacklog, CutsSpaced, after
    <3> QED
      BY <1>2, <3>2, <3>3
  <2> QED
    BY <1>3, <1>5, <2>1 DEF OnStall, CutOnce
<1>6. CASE Elapse
  <2>1. /\ cutsSince' = cutsSince
        /\ sinceCut' \in {sinceCut, sinceCut + 1}
        /\ \/ sinceBacklog' = sinceBacklog + 1
           \/ sinceBacklog' = sinceBacklog /\ sinceBacklog = Window
    BY <1>2, <1>6 DEF Elapse, Older
  <2> DEFINE before == (cutsSince - 1) * Cooldown
  <2>2. before \in Int /\ (cutsSince' - 1) * Cooldown = before
    BY <1>2, <2>1
  <2>3. before < Window
    BY DEF SpacingInv, CutsPerBacklog
  <2>4. sinceBacklog < Window /\ cutsSince > 0 => before + sinceCut <= sinceBacklog
    BY DEF SpacingInv, CutsSpaced
  <2> HIDE DEF before
  <2>5. sinceBacklog' < Window /\ cutsSince > 0 => before + sinceCut' <= sinceBacklog'
    BY <1>2, <2>1, <2>2, <2>4
  <2> QED
    BY <1>1, <2>1, <2>2, <2>3, <2>5 DEF SpacingInv, CutsPerBacklog, CutsSpaced
<1>7. CASE Tick \/ Send
  BY <1>3, <1>7 DEF Tick, Send, history, algorithm
<1>8. CASE Bystander /\ ~Elapse
  BY <1>3, <1>8 DEF Bystander, OnLatency, Report, ForceKeyframe, FrameArrives, DrainOne,
     DrainDone, EncoderDies, vars, algorithm, history
<1> QED
  BY <1>4, <1>5, <1>6, <1>7, <1>8, NextCases

LEMMA SpacingInit == Init => SpacingInv
<1> SUFFICES ASSUME Init PROVE SpacingInv
  OBVIOUS
<1>1. cutsSince = 0 /\ (cutsSince - 1) * Cooldown = -Cooldown
  BY BoundsOK DEF Init
<1> QED
  BY <1>1, TypedInit, BoundsOK DEF SpacingInv, CutsPerBacklog, CutsSpaced

\* CutsPerBacklog: on_arrival_stall() and the cooldown of cut() together bound
\* the cuts that follow one SendBacklog, whatever the clients report.
THEOREM CutsPerBacklogBounded == Spec => []CutsPerBacklog
<1>1. SpacingInv => CutsPerBacklog
  BY DEF SpacingInv
<1> QED
  BY <1>1, SpacingInit, SpacingStep, PTL DEF Spec

-----------------------------------------------------------------------------
(***************************************************************************)
(* The rate sent last is the one the encoder thread gets to.                *)
(***************************************************************************)
ArrivalInv == Typed /\ AppliedIsArriving

LEMMA ArrivalStep == ArrivalInv /\ [Next]_vars => ArrivalInv'
<1> SUFFICES ASSUME ArrivalInv, [Next]_vars PROVE ArrivalInv'
  OBVIOUS
<1>1. Typed'
  BY TypedStep DEF ArrivalInv
<1>2. control \in Seq(Nat) /\ target \in Nat \ {0}
  BY DEF ArrivalInv, Typed, TypeOK, ChannelTypeOK, AlgorithmTypeOK, Positive
<1>3. ASSUME UNCHANGED <<control, encConf, applied>>, enc' # "dead" => enc # "dead"
      PROVE  ArrivalInv'
  BY <1>1, <1>3 DEF ArrivalInv, AppliedIsArriving, Arriving, QueuedRates
<1>4. CASE Send
  <2>1. CASE enc = "dead"
    BY <1>1, <1>4, <2>1 DEF Send, encoder, ArrivalInv, AppliedIsArriving
  <2>2. CASE enc # "dead"
    <3>1. control' = Append(control, target) /\ applied' = target
      BY <1>4, <2>2 DEF Send
    <3>2. /\ Len(control') = Len(control) + 1
          /\ control'[Len(control) + 1] = target
      BY <1>2, <3>1
    <3>3. Len(control) + 1 \in QueuedRates' /\ QueuedRates' \subseteq 1..(Len(control) + 1)
      BY <1>2, <3>2 DEF QueuedRates, KeyMsg
    <3> QED
      BY <1>1, <1>2, <3>1, <3>2, <3>3 DEF ArrivalInv, AppliedIsArriving, Arriving
  <2> QED
    BY <2>1, <2>2
<1>5. CASE ForceKeyframe
  <2>1. control' = Append(control, KeyMsg) /\ UNCHANGED <<encConf, applied, enc>>
    BY <1>5 DEF ForceKeyframe, controller, encoder
  <2>2. /\ Len(control') = Len(control) + 1
        /\ \A i \in 1..Len(control) : control'[i] = control[i]
        /\ control'[Len(control) + 1] = KeyMsg
    BY <1>2, <2>1 DEF KeyMsg
  <2>3. QueuedRates' = QueuedRates
    BY <1>2, <2>2 DEF QueuedRates
  <2>4. QueuedRates \subseteq 1..Len(control)
    BY DEF QueuedRates
  <2> QED
    BY <1>1, <2>1, <2>2, <2>3, <2>4 DEF ArrivalInv, AppliedIsArriving, Arriving
<1>6. CASE DrainOne
  <2>1. /\ control # << >> /\ control' = Tail(control)
        /\ enc = "draining" /\ UNCHANGED <<enc, applied>>
        /\ encConf' = IF Head(control) = KeyMsg THEN encConf ELSE Head(control)
    BY <1>6 DEF DrainOne, controller
  <2>2. /\ Len(control') = Len(control) - 1 /\ Len(control) \in Nat \ {0}
        /\ \A i \in 1..Len(control') : control'[i] = control[i + 1]
        /\ Head(control) = control[1]
    BY <1>2, <2>1
  <2>3. Arriving(applied)
    BY <2>1 DEF ArrivalInv, AppliedIsArriving
  <2>4. \A i \in 1..Len(control') : i \in QueuedRates' <=> i + 1 \in QueuedRates
    BY <2>2 DEF QueuedRates
  <2>5. CASE QueuedRates = {}
    <3>1. QueuedRates' = {}
      <4>1. QueuedRates' \subseteq 1..Len(control')
        BY DEF QueuedRates
      <4> QED
        BY <2>4, <2>5, <4>1
    <3>2. Head(control) = KeyMsg
      <4>1. 1 \in 1..Len(control)
        BY <2>2
      <4>2. control[1] = KeyMsg
        BY <2>5, <4>1 DEF QueuedRates
      <4> QED
        BY <2>2, <4>2
    <3> QED
      BY <1>1, <2>1, <2>3, <2>5, <3>1, <3>2 DEF ArrivalInv, AppliedIsArriving, Arriving
  <2>6. ASSUME NEW i \in QueuedRates, control[i] = applied, \A j \in QueuedRates : j <= i
        PROVE  ArrivalInv'
    <3>1. i \in 1..Len(control) /\ QueuedRates' \subseteq 1..Len(control')
      BY DEF QueuedRates
    <3>2. CASE i = 1
      <4>1. QueuedRates' = {}
        BY <2>2, <2>4, <2>6, <3>1, <3>2
      <4>2. encConf' = applied
        BY <2>1, <2>2, <2>6, <3>2 DEF QueuedRates
      <4> QED
        BY <1>1, <2>1, <4>1, <4>2 DEF ArrivalInv, AppliedIsArriving, Arriving
    <3>3. CASE i > 1
      <4>1. i - 1 \in 1..Len(control') /\ (i - 1) + 1 = i
        BY <2>2, <3>1, <3>3
      <4>2. i - 1 \in QueuedRates' /\ control'[i - 1] = applied'
        BY <2>1, <2>2, <2>4, <2>6, <4>1
      <4>3. ASSUME NEW j \in QueuedRates' PROVE j <= i - 1
        <5>1. j \in 1..Len(control') /\ Len(control') \in Nat
          BY <2>2, <3>1
        <5>2. j + 1 \in QueuedRates
          BY <2>4, <5>1
        <5>3. j + 1 <= i
          BY <2>6, <5>2
        <5> QED
          BY <3>1, <5>1, <5>3
      <4> QED
        BY <1>1, <4>2, <4>3 DEF ArrivalInv, AppliedIsArriving, Arriving
    <3> QED
      BY <3>1, <3>2, <3>3
  <2> QED
    BY <2>3, <2>5, <2>6 DEF Arriving
<1>7. CASE EncoderDies
  BY <1>1, <1>7 DEF EncoderDies, ArrivalInv, AppliedIsArriving
<1>8. CASE OnBacklog \/ OnStall \/ Tick
  BY <1>3, <1>8 DEF OnBacklog, OnStall, Tick, encoder
<1>9. CASE \/ \E report \in {"slow", "fast"} : OnLatency(report)
           \/ Elapse \/ \E report \in Reports : Report(report)
           \/ FrameArrives \/ DrainDone \/ UNCHANGED vars
  BY <1>3, <1>9 DEF OnLatency, Elapse, Report, FrameArrives, DrainDone, vars, controller, encoder
<1> QED
  BY <1>4, <1>5, <1>6, <1>7, <1>8, <1>9, NextCases DEF Bystander

LEMMA ArrivalInit == Init => ArrivalInv
<1> SUFFICES ASSUME Init PROVE ArrivalInv
  OBVIOUS
<1>1. control = << >> /\ encConf = applied
  BY DEF Init
<1>2. QueuedRates = {}
  BY <1>1 DEF QueuedRates
<1> QED
  BY <1>1, <1>2, TypedInit DEF ArrivalInv, AppliedIsArriving, Arriving

\* AppliedIsArriving: last_applied_bitrate, which should_actuate() compares
\* against and the clients are told, is the last rate the encoder thread has
\* taken or will take from its control queue.
THEOREM AppliedArrives == Spec => []AppliedIsArriving
<1>1. ArrivalInv => AppliedIsArriving
  BY DEF ArrivalInv
<1> QED
  BY <1>1, ArrivalInit, ArrivalStep, PTL DEF Spec

=============================================================================
