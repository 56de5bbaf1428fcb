--------------------------- MODULE AdaptiveBitrate ---------------------------
(***************************************************************************)
(* The adaptive bitrate controller of adaptive_bitrate.rs: a task that turns *)
(* congestion reports of the /client handlers and the ticks of an interval   *)
(* timer into ChangeBitrate messages for the encoder thread.                 *)
(*                                                                          *)
(* Time advances by one adjustment_interval at a time, and an Instant is     *)
(* kept as its age, saturating where every comparison has become the same.   *)
(* Rates are counted in a unit of the instance (50 kbit/s gives the code's    *)
(* defaults); the code's f64 products are exact divisions here.              *)
(***************************************************************************)
EXTENDS Integers, Sequences

CONSTANTS
  Min, Max,       \* min_bitrate, max_bitrate
  Initial,        \* initial_bitrate, the encoder's first rate
  Increase,       \* additive_increase
  Cooldown,       \* decrease_cooldown, in intervals
  Window,         \* ARRIVAL_STALL_CORROBORATION_WINDOW, in intervals
  EventCap,       \* capacity of the event channel (32 in the code)
  ControlCap,     \* capacity of the encoder's control queue (8 in the code)
  RebuildMayFail, \* may create_encoder() fail inside change_bitrate()?
  EncoderMayDie,  \* may the encoder thread end?
  MaxDue          \* bound: interval ticks that may be overdue at once

ASSUME RatesOK ==
  /\ Min \in Nat \ {0} /\ Max \in Nat \ {0} /\ Initial \in Nat \ {0}
  /\ Increase \in Nat \ {0}
  /\ Min <= Max

ASSUME BoundsOK ==
  /\ Cooldown \in Nat \ {0} /\ Window \in Nat \ {0}
  /\ EventCap \in Nat \ {0} /\ ControlCap \in Nat \ {0} /\ MaxDue \in Nat \ {0}
  /\ RebuildMayFail \in BOOLEAN /\ EncoderMayDie \in BOOLEAN

VARIABLES
  \* BitrateAlgorithm.
  target,        \* current_bitrate
  ssthresh, phase,
  sinceCut,      \* age of last_decrease; Cooldown if none
  sinceBacklog,  \* age of last_backlog; Window if none
  slow,          \* last_latency_ms is above latency_ceiling_ms
  \* AdaptiveBitrateController.
  applied,       \* last_applied_bitrate, also the value of bitrate_tx
  ctl,           \* "select", or "send" while apply() awaits the control queue
  due,           \* ticks of the interval that are due
  \* Channels and the encoder thread.
  events,        \* event_tx / event_rx
  control,       \* encoder_control_tx: rates, and KeyMsg for ForceKeyframe
  enc,           \* encoder thread: "parked", "draining" or "dead"
  encConf,       \* the rate in the encoder's configuration
  encRate,       \* the rate the running encoder was built with
  \* History, read by the properties only.
  cutsSince      \* cuts since a SendBacklog was last handled

algorithm  == <<target, ssthresh, phase, sinceCut, sinceBacklog, slow>>
controller == <<applied, ctl, due>>
encoder    == <<enc, encConf, encRate>>
history    == <<cutsSince>>
vars == <<algorithm, controller, events, control, encoder, history>>

KeyMsg  == 0
Reports == {"backlog", "stall", "slow", "fast"}

Lower(a, b)  == IF a < b THEN a ELSE b
Higher(a, b) == IF a > b THEN a ELSE b
Older(age, limit) == IF age < limit THEN age + 1 ELSE age

-----------------------------------------------------------------------------
(***************************************************************************)
(* The decisions.                                                           *)
(***************************************************************************)

\* decrease_factor 0.75, slow_start_factor 1.4, APPLY_THRESHOLD_FRACTION 0.15.
Decreased(rate) == Higher((rate * 3) \div 4, Min)
Grown(rate)     == (rate * 7) \div 5
Band(rate)      == Higher((rate * 15) \div 100, 1)

\* A bug: the ceiling is coalesced like any other growth.
ShouldActuateBelowBand(rate, last) ==
  rate <= last \/ rate - last >= Band(last)

\* A bug: a cut inside the band is coalesced as well.
ShouldActuateSymmetric(rate, last) ==
  \/ rate >= Max
  \/ rate - last >= Band(last)
  \/ last - rate >= Band(last)

\* should_actuate(): a decrease, the ceiling or a jump out of the band.
ShouldActuate(rate, last) ==
  \/ rate <= last
  \/ rate >= Max
  \/ rate - last >= Band(last)

InCooldown == sinceCut < Cooldown

\* A bug: growth is deferred against the previous target, not the applied rate.
PursueDrifting(rate) ==
  /\ target' = rate
  /\ ctl' = IF rate # target /\ ShouldActuate(rate, target) THEN "send" ELSE "select"

\* The caller's "if let Some(new_rate)" and maybe_apply(): an unchanged rate is
\* no decision, a change is sent or deferred.
Pursue(rate) ==
  /\ target' = rate
  /\ ctl' = IF rate # target /\ ShouldActuate(rate, applied) THEN "send" ELSE "select"

\* A bug: a cut does not start the cooldown.
CutUnspaced ==
  /\ Pursue(Decreased(target))
  /\ ssthresh' = Decreased(target)
  /\ phase' = "avoidance"
  /\ UNCHANGED sinceCut

\* cut(), outside the cooldown.
Cut ==
  /\ Pursue(Decreased(target))
  /\ ssthresh' = Decreased(target)
  /\ phase' = "avoidance"
  /\ sinceCut' = 0

\* cut(), coalesced into the cooldown or performed; "before" counts the cuts
\* already made for the backlog at hand.
CutOnce(before) ==
  \/ /\ InCooldown
     /\ UNCHANGED <<target, ssthresh, phase, sinceCut, ctl>>
     /\ cutsSince' = before
  \/ /\ ~InCooldown
     /\ Cut
     /\ cutsSince' = before + 1

-----------------------------------------------------------------------------
Init ==
  /\ target = Initial /\ applied = Initial
  /\ ssthresh = Max /\ phase = "slowstart"
  /\ sinceCut = Cooldown /\ sinceBacklog = Window
  /\ slow = FALSE
  /\ ctl = "select"
  /\ due = 1                      \* the first tick of an interval is immediate
  /\ events = << >> /\ control = << >>
  /\ enc = "parked" /\ encConf = Initial /\ encRate = Initial
  /\ cutsSince = 0

-----------------------------------------------------------------------------
(***************************************************************************)
(* The controller task: run().                                              *)
(***************************************************************************)
Receive(report) ==
  /\ ctl = "select"
  /\ events # << >> /\ Head(events) = report
  /\ events' = Tail(events)

\* on_send_backlog().
OnBacklog ==
  /\ Receive("backlog")
  /\ sinceBacklog' = 0
  /\ CutOnce(0)
  /\ UNCHANGED <<slow, applied, due, control, encoder>>

\* A bug: a burst is taken as congestion of its own.
OnStallUncorroborated ==
  /\ Receive("stall")
  /\ CutOnce(cutsSince)
  /\ UNCHANGED <<sinceBacklog, slow, applied, due, control, encoder>>

\* on_arrival_stall(): a cut only with a recent backlog.
OnStall ==
  /\ Receive("stall")
  /\ \/ /\ sinceBacklog < Window
        /\ CutOnce(cutsSince)
     \/ /\ sinceBacklog >= Window
        /\ UNCHANGED <<target, ssthresh, phase, sinceCut, ctl, cutsSince>>
  /\ UNCHANGED <<sinceBacklog, slow, applied, due, control, encoder>>

\* on_latency_report().
OnLatency(report) ==
  /\ Receive(report)
  /\ slow' = (report = "slow")
  /\ UNCHANGED <<target, ssthresh, phase, sinceCut, sinceBacklog, controller,
                 control, encoder, history>>

Proposed ==
  LET rate == IF phase = "slowstart" THEN Lower(Grown(target), ssthresh)
              ELSE target + Increase
  IN  Lower(rate, Max)

\* An interval tick: tick() and maybe_apply().  Ticks missed while the task
\* awaited the control queue are delivered in a burst.
Tick ==
  /\ ctl = "select"
  /\ due > 0
  /\ due' = due - 1
  /\ \/ /\ InCooldown \/ slow
        /\ UNCHANGED <<target, phase, ctl>>
     \/ /\ ~InCooldown /\ ~slow
        /\ Pursue(Proposed)
        /\ phase' = IF phase = "slowstart" /\ Proposed >= ssthresh THEN "avoidance" ELSE phase
  /\ UNCHANGED <<ssthresh, sinceCut, sinceBacklog, slow, applied, events, control,
                 encoder, history>>

\* A bug: the rate is recorded as applied only when a report says so later.
SendUnrecorded ==
  /\ ctl = "send"
  /\ \/ enc # "dead" /\ Len(control) < ControlCap /\ control' = Append(control, target)
     \/ enc = "dead" /\ UNCHANGED control
  /\ ctl' = "select"
  /\ UNCHANGED <<algorithm, applied, due, events, encoder, cutsSince>>

\* apply(): the awaited send; on a closed channel the change is dropped.
Send ==
  /\ ctl = "send"
  /\ \/ enc # "dead" /\ Len(control) < ControlCap /\ control' = Append(control, target)
     \/ enc = "dead" /\ UNCHANGED control
  /\ applied' = target
  /\ ctl' = "select"
  /\ UNCHANGED <<algorithm, due, events, encoder, cutsSince>>

-----------------------------------------------------------------------------
(***************************************************************************)
(* Time, the /client handlers and the encoder thread.                       *)
(***************************************************************************)

Elapse ==
  /\ due < MaxDue
  /\ due' = due + 1
  /\ sinceCut' = Older(sinceCut, Cooldown)
  /\ sinceBacklog' = Older(sinceBacklog, Window)
  /\ UNCHANGED <<target, ssthresh, phase, slow, applied, ctl, events, control,
                 encoder, cutsSince>>

\* A handler reports: SendBacklog with try_send, dropped on a full channel,
\* the others awaiting room.
Report(report) ==
  /\ Len(events) < EventCap
  /\ events' = Append(events, report)
  /\ UNCHANGED <<algorithm, controller, control, encoder, history>>

\* A handler, or the render loop, queues ForceKeyframe.
ForceKeyframe ==
  /\ enc # "dead" /\ Len(control) < ControlCap
  /\ control' = Append(control, KeyMsg)
  /\ UNCHANGED <<algorithm, controller, events, encoder, history>>

\* A captured frame wakes the encoder thread from blocking_recv.
FrameArrives ==
  /\ enc = "parked"
  /\ enc' = "draining"
  /\ UNCHANGED <<algorithm, controller, events, control, encConf, encRate, history>>

\* One message of drain_control_messages().
DrainOne ==
  /\ enc = "draining" /\ control # << >>
  /\ control' = Tail(control)
  /\ \/ /\ Head(control) \in {KeyMsg, encConf}
        /\ UNCHANGED <<encConf, encRate>>
     \/ /\ Head(control) \notin {KeyMsg, encConf}
        /\ encConf' = Head(control)
        /\ encRate' = Head(control)
     \/ /\ Head(control) \notin {KeyMsg, encConf}
        /\ RebuildMayFail
        /\ encConf' = Head(control)
        /\ UNCHANGED encRate
  /\ UNCHANGED <<algorithm, controller, events, enc, history>>

\* The queue is empty: the frame is encoded and the thread waits for the next.
DrainDone ==
  /\ enc = "draining" /\ control = << >>
  /\ enc' = "parked"
  /\ UNCHANGED <<algorithm, controller, events, control, encConf, encRate, history>>

\* The encoder thread ends; its control queue closes.
EncoderDies ==
  /\ EncoderMayDie /\ enc # "dead"
  /\ enc' = "dead"
  /\ control' = << >>
  /\ UNCHANGED <<algorithm, controller, events, encConf, encRate, history>>

-----------------------------------------------------------------------------
Controller ==
  \/ OnBacklog \/ OnStall
  \/ \E report \in {"slow", "fast"} : OnLatency(report)
  \/ Tick \/ Send

Next ==
  \/ Controller
  \/ Elapse
  \/ \E report \in Reports : Report(report)
  \/ ForceKeyframe
  \/ FrameArrives \/ DrainOne \/ DrainDone \/ EncoderDies

Spec == Init /\ [][Next]_vars

\* The task is scheduled and time passes; the task's select! serves a due tick
\* however many reports arrive (it picks at random among what is ready), and
\* tokio's channels serve waiting senders in order, so that an awaited send is
\* not overtaken for ever.  Frames keep coming, and drain_control_messages
\* gets to an empty queue between two of them.
FairSpec ==
  /\ Spec
  /\ WF_vars(Controller) /\ SF_vars(Tick) /\ SF_vars(Send)
  /\ WF_vars(Elapse)
  /\ WF_vars(FrameArrives) /\ WF_vars(DrainOne) /\ WF_vars(DrainDone)

-----------------------------------------------------------------------------
(***************************************************************************)
(* Properties.                                                              *)
(***************************************************************************)
AlgorithmTypeOK ==
  /\ target \in Nat /\ ssthresh \in Nat
  /\ phase \in {"slowstart", "avoidance"}
  /\ sinceCut \in 0..Cooldown /\ sinceBacklog \in 0..Window
  /\ slow \in BOOLEAN

ChannelTypeOK ==
  /\ events \in Seq(Reports) /\ Len(events) <= EventCap
  /\ control \in Seq(Nat) /\ Len(control) <= ControlCap

TypeOK ==
  /\ AlgorithmTypeOK /\ ChannelTypeOK
  /\ applied \in Nat /\ ctl \in {"select", "send"} /\ due \in 0..MaxDue
  /\ enc \in {"parked", "draining", "dead"} /\ encConf \in Nat /\ encRate \in Nat
  /\ cutsSince \in Nat

\* --bitrate lies between --min-bitrate and --max-bitrate; the code takes it
\* unchecked.
ConfigSane == Initial \in Min..Max

\* Whatever was decided and sent in whatever order, the target never leaves
\* the configured range.
TargetInRange == ConfigSane => target \in Min..Max

\* Growth is deferred, never lost: while the controller waits for its next
\* event, the rate last sent is the target, or lags it by less than the
\* coalescing band -- and never while the target is at the ceiling.
DeferralBounded ==
  ctl = "select" =>
    \/ target = applied
    \/ applied < target /\ target < Max /\ target - applied < Band(applied)

\* "Decreases are never coalesced": whatever growth was deferred before it, a
\* lowered target is sent at once (--bitrate is expected within the range).
CutsAreSent == [][ConfigSane /\ target' < target => ctl' = "send"]_vars

\* One SendBacklog licenses only so many cuts, however many bursts the clients
\* report after it: bursts alone cannot pin the rate at the floor.
CutsPerBacklog == (cutsSince - 1) * Cooldown < Window

QueuedRates == {i \in 1..Len(control) : control[i] # KeyMsg}

\* The encoder thread ends up configured with this rate, once it has handled
\* what is queued.
Arriving(rate) ==
  \/ QueuedRates = {} /\ encConf = rate
  \/ \E i \in QueuedRates : control[i] = rate /\ \A j \in QueuedRates : j <= i

\* The rate the controller believes applied, which every coalescing decision
\* is based on and which the clients are told, is the one the encoder thread
\* is configured with or about to be.
AppliedIsArriving == enc # "dead" => Arriving(applied)

\* No congestion and no slow decoder is reported any more.
Calm == ~slow /\ \A i \in 1..Len(events) : events[i] \notin {"backlog", "slow"}

\* The encoder thread runs, with the rate it is configured with: no rebuild
\* has failed since the last one that did not.
Healthy == enc # "dead" /\ encRate = encConf

\* "The ceiling flush ensures the encoder actually reaches the cap instead of
\* stalling one coalescing band below it": when congestion is over, a healthy
\* encoder gets to the ceiling.
ReachesCeiling == <>[](Calm /\ Healthy) => <>[](encRate = Max)

=============================================================================
