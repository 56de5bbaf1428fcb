# A TLA+ model of waylandwebstream

waylandwebstream is a Wayland compositor that streams its output to a browser
or to a native viewer: it composites the windows of one application, encodes
the picture with H.264 and serves it, with audio and control messages, over one
WebSocket per viewer; the viewer's input, resize requests and reports come back
over the same socket.  This directory models the parts of the server
(`src/src/`), of the web client (`src/web/src/lib/`) and of the native client
(`src/native-client/src/`) whose correctness depends on the order of steps of
several threads, tasks or programs, checks them with TLC and proves their
invariants with TLAPS.

Paths below are relative to the repository's sources; `PROJECT.json` maps every
definition to the lines it stands for, and lists the hazards of the code, each
at its line with the properties that would notice it going wrong.

## 1. The system

| component | state it keeps | operations | what is hard | model |
|---|---|---|---|---|
| Render loop and software/OpenGL compositor (`main.rs`, `compositor/`) | surfaces, `damage`, `repaint_region`, the canvas, buffer pool | dispatch clients, accumulate damage, render, resize, send a frame, idle keyframe | damage-only rendering; frames rejected by a full queue; resizing against a running encoder | `FramePipeline` |
| Encoder thread (`encoder/mod.rs`, x264) | persistent YUV frame, `needs_full_convert`, `force_keyframe` | resize, skip to the newest frame, drain control, convert, encode, reinitialize | damage of skipped frames, frames of the wrong size, failed encodes and rebuilds | `FramePipeline` |
| VAAPI encoder and zero-copy targets (`encoder/vaapi.rs`, `compositor/gl.rs`) | the pipeline with libav's contexts, two targets used in turn | build in ten steps, encode, change rate, reinitialize, drop | reference counts kept by hand over failures; queued frames that are only handles | `VaapiEncoder` |
| Adaptive bitrate controller (`adaptive_bitrate.rs`) | target and applied rate, cooldown, last backlog | react to reports, grow once per second, apply | deferring growth without losing cuts; burst ticks | `AdaptiveBitrate` |
| Client connections (`server.rs`, one task per `/client` socket) | own generation, what was last sent; shared: generation, watch channels, input queues | claim, publish, greet, push changes, dispatch input, farewell | only the newest connection may survive; awaits inside a `select!` arm; peers that vanish or stall | `ClientSessions` |
| Video delivery (`main.rs`, `encoder/mod.rs`, `server.rs`) | frame queue, broadcast channel, keyframe cooldown, resize watch | render, encode, broadcast, lag, forward, answer keyframe and resize requests | loss without an answer; a request that two threads serve | `VideoFeed` |
| Web client, video (`stream.ts`) | decoder, `keyframeSeen`, pending request | decode, drop, ask for keyframes, reconnect | resynchronising after loss | `PageVideo` |
| Native client, video (`main.rs`, `display/`, `render/`, `decode/`) | packet, frame and size channels, buffers | decode, dispatch, resize, drain, render | buffers the window system still holds; sizes that change under a frame | `NativeClient` |
| Windows, focus, titles and favicons (`compositor/state.rs`) | stack, size and scale told, title, icon slot | map, commit, destroy, resize, forward | surfaces that become windows again; focus that moves while an icon is pending | `Windows` |
| Touch, pointer and keyboard (`input.ts`, `server.rs`, `input/`, `state.rs`) | fingers, keys and buttons on either side; three queues; constraints | listen, dispatch, drain, lock | releases lost with queues or connections; constraints that end without a callback | `SeatInput` |
| Session and shutdown (`session.rs`, `main.rs`) | `started`, kill handle, watcher, discovered display | start once, watch, kill, take down in order | racing first connections; shutdown during a start | `AppSession` |
| Clipboard bridge (`clipboard.rs`) | own source, last value, offers | set, read and serve selections | telling an echo from a copy; reading what one serves | `Clipboard` |
| Audio, latency echo, static files, configuration, wire format, test clients | | | blocking I/O and parsing | not modelled |

The render loop, the encoder thread, the bridge and the native client's decoder
and display are OS threads; the handlers, the controller, the watcher of the
application and `main` are tokio tasks.  They meet in bounded channels
(frames 4, encoder control 8, packets 16, input 32/64/64, clipboard 16), in
watch channels (size, title and favicon, client generation, bitrate, codec,
selection), in one broadcast channel (video, 3) and in two atomics
(`force_render`, `keyframe_pending`).

What makes each correct:

- *Render loop and encoder*: every picture encoded equals a full repaint at its
  capture; no change is forgotten; keyframe requests are answered; buffers are
  bounded; an encoder only gets frames of its size.
- *VAAPI*: the references held are exactly those of the pipeline in use,
  whichever step of a build failed; a frame meets a pipeline of its size; the
  pictures keep their order although frames are only handles on targets.
- *Bitrate*: cuts take effect at once, growth is coalesced but arrives, one
  congestion event is charged a bounded number of cuts, and what the controller
  believes applied is what the encoder gets.
- *Connections*: exactly the newest survives, pages show the current state,
  nothing a vanished peer held down stays down.
- *Viewers*: what is shown are pictures of the output, in order, and nothing
  else unless a packet was lost on the way; a viewer that was left behind
  catches up.
- *Windows*: focus, size, scale, title and favicon follow the top of the stack.
- *Input*: nothing stays down that was let go and reported, clicks land where
  they were aimed, a page gets out of Pointer Lock.
- *Session and clipboard*: one application, not left behind, its own display
  found; a bridge that never waits for itself and ends up agreeing with the
  selection.

## 2. Modules

| module | stands for |
|---|---|
| `FramePipeline` | render loop, software and OpenGL-readback compositors, encoder thread, the handlers' keyframe requests |
| `WholeFrames` | abstract: the pipeline without damage tracking, which `FramePipeline` implements |
| `VaapiEncoder` | the zero-copy targets, the VAAPI pipeline and the encoder thread around it |
| `AdaptiveBitrate` | the controller task, its two channels, the encoder thread's side of `ChangeBitrate` |
| `ClientSessions` | the connection handlers, their peers and pages, the touch queue, the touch handler, shutdown |
| `Screen` | abstract: what the video path promises a viewer |
| `VideoFeed` → `PageVideo`, `NativeClient` → `Viewers` | the feed; each viewer; their composition, which implements `Screen` |
| `Windows` → `SeatInput` | the window stack; input above it |
| `AppLife` | abstract: the life of the application, which session and shutdown implement |
| `AppSession`, `Clipboard` → `NestedApp` | the session; the bridge; their composition |
| `MC*` | instances for TLC |
| `FramePipelineProofs` → `PictureProofs`, `BitrateProofs`, `SessionProofs`, `WindowsProofs`, `NestedProofs`, `VaapiProofs`, `ViewerProofs` | theorems; `WindowsProofs` proves about `Windows` and `SeatInput`, `NestedProofs` about session, shutdown and bridge |

An arrow reads "is extended by".  Definitions named as bugs
(`SendFrameForgetful`, `PublishNothing`, ...) are mutated forms of the
definition that follows them.  No specification uses them; putting one in the
place of its original must make TLC find the property violated that
`PROJECT.json` pairs it with.

### FramePipeline

The output is cut into row bands, and a pixel row is the pair of the resolution
it was composited at and the number of the commit that last changed it.  This
is all that the properties tell apart: a row is stale if it carries an older
commit or another resolution.  A frame (`RawFrame`) has its pixels, its list of
damaged rows (an empty list stands for the whole frame, `DamagedRows`) and, as
a ghost, `want`: the full repaint of the moment of its capture.

The render loop is three steps per iteration (`rpc`): a tick that decides
whether to capture and takes damage and buffer, the control message of an idle
keyframe, and rendering with the `try_send` of the frame.  The encoder thread
(`epc`) waits, handles a pending resize (drain, then reinitialize), skips to
the newest frame carrying the damage of those it skips, drains control
messages, refits a frame of another size, converts and encodes.  Each queue
operation or atomic access is a step of its own, so the threads interleave
wherever they share state.  The damage list itself (rectangles, merging,
clipping) is abstracted to sets of rows: merging only ever adds rows, and
a commit already picks the rows freely.  `OffScreen` is damage that misses the
output.

`WholeFrames` is what all of this is meant to be indistinguishable from: a
pipeline whose captures are whole screens and whose encoder encodes what it is
given.  It has no damage, no canvas, no YUV frame and no threads; captures may
be given up, but do not overtake each other.  `WholeFramesKept` is the
refinement: the screen is `Screen`, the captures are the pixels of the queued
frames, and the picture is what the last encode produced.

### AdaptiveBitrate

Rates are numbers, multiplications by the growth and decrease factors are the
code's, in integers (`Grown`, `Decreased`, `Band`).  Time is counted in
intervals of the controller (one second): cooldown and corroboration window
are ages in it.  `due` is the number of interval ticks waiting: while an
`apply` awaits a full control queue, ticks pile up and are then delivered in a
burst, as tokio's default does.  The latency threshold is a Boolean
(`slow`).

### ClientSessions

One handler per connection; its program counter names the await it is at.  A
watch channel is the number of sends so far with the number each receiver has
seen: `changed()` is enabled when they differ and marks all as seen, and what
is read afterwards may be newer still.  A clone of a receiver that never looked
sees every update again, a `subscribe()` sees none of the past; the code uses
both, and the model keeps the difference (`Greet`, `Subscribe`).  Pages are
separate from connections, since one page may reconnect.  Title and favicon
stand for the five pieces of state that are pushed the same way, with the
greeting's special treatment of a missing favicon; other packets are a send
without content (`Packet`), because a send is a point at which a stalled peer
holds the handler.  Touch events stand for all input; the mouse and keyboard
queues have the same send but no farewell.

### VaapiEncoder

The compositor draws into `NumTargets` targets in turn; a queued frame that
stays on the GPU is the target's name, and what it shows is what is there when
the encoder maps it.  Choosing a target and drawing (`BeginDraw`), the fence
(`FinishDraw`) and `try_send` (`SendFrame`) are steps of their own, and the
encoder thread runs between them: of each picture one row is followed, and
whoever looks at a target that is being drawn on finds it old or new (`Shows`).
A build (`new`, `reinitialize`, `change_bitrate`) goes
through its steps (`InitInput`, `MakeGraph`, `OpenSession`), each of which may
fail.  libav's contexts are objects, `refs` the set of pairs of owner and
object; `Released` removes an owner and with it every shared object nobody
refers to any more, as `av_buffer_unref` does.  `leaked` and `rateFailed` are
history variables: they name exactly the two leftovers of a failure that the
code has (section 4).  `dropped` is a picture begun whose frame was not queued.

### VideoFeed, PageVideo, NativeClient, Viewers

A picture of the output is a number and a size.  A packet is a keyframe or a
delta, with a ghost that says whether the packet it refers to is still part of
what the receiver gets; decoding a delta without it yields garbage.  The render
loop (`Render`) puts frames into a queue of their own, dropping them when it is
full, and the encoder thread takes the newest (`TakeFrame`) and encodes it or
fails to.  `HandleResize` tells it of a resize: it drains the queue at the top
of its loop (`TakeResize`), or it has looked there already (`late`) and meets
the resize after the next frame.  A request for a keyframe is `force_render`
first and `ForceKeyframe` later (`SendForceKeyframe`), taken by two threads.
An idle output is not rendered again; `Redraw` is damage that leaves the
picture what it is, which tells an output in use from one at rest.  `lost`
records that a packet another is a delta against is gone: a broadcast receiver
that lagged, a full packet channel of the native client, an encoder or a
decoder that failed.  The page is `stream.ts` around a WebCodecs decoder with an
unbounded queue that may fail; the native client is its main task, decoder
thread and display thread, with the shm renderer's slots (`free`, `held`,
`zombie`) against the window system's (`lent`).  Its decoder may hold one frame
back (EAGAIN) and goes on after an error with the reference it has
(`DecodeFails`).

`Screen` knows only the number drawn last, the number shown last, and whether
what is seen is a picture, filler or garbage.  It allows no picture older than
the one before, and garbage only after a loss.  `ScreenKept` is the refinement,
under the mapping of `Viewers` (`Look`).  It is a promise of safety: an output
at rest may leave a viewer behind for ever (section 4).  `CatchesUp` is the
liveness there is, for a page on an output that goes on being redrawn.

### Windows, SeatInput

`Windows` takes every request of an application that reaches the stack as one
action with all the handler calls: committing configures a new window once
(`kicked_toplevels`), every change of the top moves the keyboard focus and
refreshes title and favicon, and the render loop forwards them.  A surface may
lose its role and take it again.  `SeatInput` puts the page's listeners, the
socket, the three queues and the drain of the render loop (touch, pointer,
keys, then the lock poll) above it.  Positions are two spots, one of them the
edge that lies outside of the output.  Moves use `try_send`, everything else
waits for room: `Dispatch` is enabled only then.  The browser's part is taken
from what the listeners rely on: of several buttons held together only the
first gives a pointerdown and only the last a pointerup (`Chord`), a
pointercancel takes the releases with it (`OnPointerCancel`), and
`requestPointerLock` is answered later, or refused (`AnswerLock`).  When a
connection is lost its handler reads on beside the one of the next
(`oldWire`, `DispatchOld`), and says its farewell cancel when it is done.  What
Smithay does with grabs
and constraints is modelled as this code relies on it and is marked external.

### AppSession, Clipboard, NestedApp

`ensure_started` is cut at its awaits (`Swap`, `Spawn`, `Arm`, `Watch`,
`Keep`), so that connections and the shutdown may come in between.  The server
is joined without waiting for them: the handler of a WebSocket is the task of
`on_upgrade`, which axum's graceful shutdown does not know, and
`ensure_started` does not ask for the shutdown.  Discovery polls a set of
displays, in which other compositors come and go (`OthersListen`).  `main`'s end
is the sequence `ShutdownSteps`, each step waiting for its part or for its
timeout; the last drops the runtime with its tasks, and kills what they hold
(`kill_on_drop`).  `AppLife` is what remains of it all from outside: processes
that run, have exited, are reaped or were dropped with the server, and a server
that is up, closing, closed or down.  `AppLifeKept` is the
refinement.  The bridge handles its inputs
one at a time; the nested compositor is a FIFO of requests and one of events,
and tells the loser of a selection before it announces the winner.  Values
stand for payloads; three more stand for what is too large, empty, or of a type
the bridge cannot carry.

## 3. Runs

Each takes less than three minutes with two workers.

| run | question | bounds |
|---|---|---|
| `PipelineSafety` | Does the pipeline implement `WholeFrames`: is every encoded picture a whole screen captured earlier, in order?  Is the damage chain unbroken, every frame met by an encoder of its size, and no row ever older than it was? | 2 rows, 3 sizes (two of equal area), 3 commits, 1 resize, queue of 2, encode and rebuild errors |
| `PipelineGl` | Exactness with the OpenGL compositor, which reads back whole frames with empty lists, and the bound on framebuffers alive at once | 1 row (a frame is always read back whole), 2 sizes, 3 commits, 1 resize, 1 keyframe request: five captures, one more than the bound of four buffers; queue of 2 |
| `PipelineSettles` | Is any change or keyframe request forgotten on a screen of one size, and does the stream end up showing the screen when it stops changing? | 2 commits, a request and a rate change competing for a control queue of 1, frame queue of 2 |
| `GpuFrames` | Are the references exactly those in use whichever step fails, does every frame meet a pipeline of its size and rate, and do pictures go forward while nothing is dropped? | 2 sizes, 2 rates, 2 targets, queue of 4, 6 pictures, 2 pools, 3 builds; 2.5 million states |
| `Bitrate` | The bitrate invariants under every order of reports, ticks, blocked sends, failing rebuilds and the end of the encoder; does a healthy encoder reach the ceiling once congestion is over? | rates 18..26, cooldown 2, window 3, control queue of 2, bursts of 2 ticks |
| `Connections` | Does every outdated connection learn of it, is only an outdated one closed, are the contacts of a vanished peer always about to be cancelled, and is one connection left in the long run? | 2 connections, 2 touch messages, touch queue of 1, peers that read |
| `PageState` | Does the page show the current state once its handler is idle? | 1 page that connects twice, 2 changes of 2 titles and 2 icons, a stalling peer, shutdown; 6.5 million states |
| `Viewers` | Does what either viewer shows implement `Screen`, and does the native client give the window system what it must? | 4 pictures (2 for the native client), 3 sizes of which the server clamps one and refuses one, channels of 1, 2 slots, 3 troubles, 1 configure; 460 thousand states |
| `WindowStack` | Do focus, size, scale, title and favicon follow the top of the stack, whatever becomes a window or ceases to be? | 2 surfaces (interchangeable), 2 sizes, 2 scales, OpenGL |
| `SeatGestures` | Does anything stay down that was let go, do clicks land, does Pointer Lock end? | 2 fingers, a key, a button, queues of 1, 3 gestures, 2 windows with 2 requests between them, lost connections; 760 thousand states |
| `NestedApp` | Does the session implement `AppLife`: one application with one life, over before the server's is?  Is the display found its own, does the bridge end up agreeing with the selection, and does the server end when the user closes the application? | 2 connections, 2 displays, 2 values, 2 copies, queue of 1, spawns that fail, steps that time out; 410 thousand states |
| `DrainedFrames` | (expected violation, section 4) | as `PipelineSafety`, 2 commits |

Why the bounds are enough to show what they should: two rows tell a damaged row
from one that is not; sizes of equal area are needed because the canvas is
trusted by its length; a queue of two makes skipping (two frames waiting),
rejection and the resize drain happen; three commits give a frame before, in
and after the queue.  Two changes of title or favicon are one that a handler is
telling and one that comes meanwhile.  Two connections are enough for publishes that arrive in
the other order than the claims, and for a handler that is woken in between; a
third would only repeat the second.  A queue of one is full after any event.
Growth at the small rates of the bitrate run still crosses and misses the 15%
band, and a window longer than the cooldown lets a burst cut once more.  Six
pictures fill a queue of four over two targets and go round once more; three
builds are the first, one that fails and one that replaces or follows it.  Two
slots and a configure leave a zombie beside a held and a free slot over time.
Two copies let a device and an application replace each other's selection; the
clipboard's invariants were also run with four.  The small capacities differ
from the code's only in how soon a queue is full.  Each property is falsified,
at these bounds, by the mutant listed for it, so the interesting case does
occur.  The invariants proved in section 5 do not depend on the bounds at all.

Deadlock is not checked where the system stops by itself: when every handler is
done and nothing more is to change (`Connections`, `PageState`), when the
server is down (`NestedApp`), when the encoder thread has ended (`GpuFrames`)
and when the native client has (`Viewers`).

### Fairness

- `FramePipeline`: the render loop runs again at the latest one frame interval
  later (calloop's timeout), the encoder thread is an OS thread, and a handler
  whose awaited send has room gets to send (tokio queues waiting senders).
  Weak fairness of each; nothing is assumed of content changes or clients.
- `AdaptiveBitrate`: the task is scheduled; tokio's `select!` picks at random
  among the ready arms, so neither starves (strong fairness of the tick); a
  waiting sender is not overtaken for ever (strong fairness of the send); the
  encoder thread keeps getting frames, which the code ensures by the idle
  keyframe cadence as long as its thread lives.
- `ClientSessions`: each handler's awaits that can complete do (weak fairness);
  `select!` serves its other arms even if packets keep coming, and waiting
  senders of the touch queue are served in order (strong fairness); the render
  loop drains the touch queue until it is stopped.  Peers are free to leave,
  stall or read; `Connections` rules stalling out, for a reason the next
  section gives.
- `Viewers`: threads and tasks are scheduled, WebCodecs goes on decoding, a page
  connects again (`start()` is retried), the display thread's loop goes round.
  Drawing, resizing, closing and failing are nobody's duty, and the cooldown
  may last for ever.
- `SeatInput`: the render loop goes round (calloop's timeout), the handler reads
  its socket, and pushes the wish for a lock.
- `AppSession`: tasks are scheduled and every step of the shutdown has its
  timeout; a handler notices the shutdown once it is back in its `select!`.
- `Windows`, `VaapiEncoder` and the clipboard have safety properties only.

## 4. Where code and text differ

`DrainedFrames` checks a statement of the repository's text that the code does
not keep; TLC's counterexample is the scenario.  The comment in
`encoder_thread` (`src/encoder/mod.rs:568-571`) says that whatever is queued
when the encoder switches resolutions is old.  A frame of the new size may be
queued already, and is discarded; on a screen that then stays still the old
picture remains until something else changes.

The others were met while modelling; each is visible in the step named, and the
properties are stated so as not to claim what the code does not do.

*Pipeline and delivery.*
- A frame rejected by the full queue is re-marked by its damage list
  (`src/main.rs:812-818`).  The OpenGL readback path leaves that list empty,
  meaning everything, and re-marks nothing.
- `force_render` is set before `ForceKeyframe` is sent (`src/server.rs:606-608`).
  If the forced frame is encoded in between, a new client on a still screen
  waits for the next damage.
- An idle output produces no frames, while the comments at
  `src/main.rs:557-562`, `stream.ts:122-126`, `decode/sw.rs:225-226` and
  `render/shm.rs:257-260` count on a periodic keyframe or the next frame.  A
  page whose keyframe was lost to a lagging receiver (`src/server.rs:621-637`),
  or whose request fell into the 500 ms cooldown all connections share
  (`src/server.rs:1013-1036`), and a native client that dropped a packet (it
  never asks) stay as they are until the output changes or another keyframe is
  forced.  `Screen` excuses exactly these, by `lost`.
- Native client: if the display thread dies, `changed()` fails at once each time
  and the main loop spins; a window larger than `--max-resolution`, or too
  small, never shows a frame; a resize there and back within one dispatch shows
  the buffer's old content.

*VAAPI.*  When the queue overflows or a render fails, queued GPU frames trail the
other target, and pictures may go back in time (`dropped` in `NeverBackwards`).
A GPU build that fails leaves its frames context, and a failed first build the
device (`leaked` and the last line of `RefsExact`).  A rebuild opens the new
session before the old pipeline is dropped, contrary to `vaapi.rs:36-40` and
`322-327`.  `change_bitrate` records the rate before the build may fail and
keeps the old pipeline, so that a later request for the same rate is ignored.

*Connections and input.*
- A page that reconnects is not told that there is no favicon any more
  (`src/server.rs:567-569`); the same holds for pointer lock.
- The doc of `serve()` (`src/server.rs:444-449`) says every handler races its
  work against shutdown.  A handler inside an awaited send to a peer that does
  not read does not; `main` gives up after five seconds.  For the same reason a
  stalled older connection is not closed by a newer one until its peer reads or
  goes away, which is why `Connections` assumes peers that read.
- After the encoder thread has ended, `codec_tx` is gone and the handler's
  `changed()` arm completes at once each time (`src/server.rs:675`).
- `pointercancel` sends a cancel without releasing buttons, although
  `mouse.rs:147-152` counts on none being held.
- A lost connection leaves its keys and buttons pressed; the page only releases
  what it still knows as pressed.  `NoStuckKey` excuses these.

*Windows.*  `resize_output` (`state.rs:735-745`) configures windows before their
first commit, which the comment at 1759-1768 rules out.  The favicon is not
refreshed when the focus moves, contrary to the comment at 222-225.  A lock may be reported while the pointer is not on the locked
surface (comment at 1201-1205).

*Clipboard.*  `from_remote` keeps the last value of the applications when a device
copies something newer, so that a newly connected client is greeted with the
older one, contrary to `clipboard.rs:206-208`.

*Bitrate.*  With the default rates slow start grows by 40% every second and
rebuilds the encoder each time, twice as often as the natural keyframe that
`adaptive_bitrate.rs:67-68` says is more frequent; `config.rs:68-72` and
`main.rs:375-378` call keyframe requests the main congestion signal, while
`server.rs:999-1008` and `adaptive_bitrate.rs:28-36` deliberately do not use
them; after a cut `ssthresh` is never read again, since the phase does not go
back to slow start; `--bitrate` is not checked against the configured range,
which is why `CutsAreSent` and the range assume `ConfigSane`; the last latency
report outlives the client that sent it.

## 5. Proofs

All theorems hold for every value of the constants that satisfies the named
assumption of its module (`ConstantsOK`, `RatesOK`, `BoundsOK`, `VaapiOK`,
`FeedOK`, ...), which say little more than that capacities are positive and
sets have the elements named in them.  Every theorem about a module's
specification uses only its safety part.

*Pipeline.*  `TypeCorrect` and `BuffersAreBounded` are inductive as stated,
with `TypeOK`.  `EncodedExact` is not: it speaks of the last picture only, and a
picture is exact because of what happened to every frame before it.
`PictureInv` adds `DamageChain`: from the encoder's YUV frame (while it is
trusted) over the frame in hand and each queued frame to the canvas and to the
screen, neighbours differ only on rows that the younger one lists as damaged.
The lemmas about `Covers` (composition, `CoversChain`), about taking a frame
from the queue and appending one (`TailChain`, `AppendChain`) and about carrying
the damage of skipped frames (`CarryCovers`) make each step of the two threads a
local change of one or two links.  `RejectStep` is the re-marking of a dropped
frame.  `PicturesExact`, `DamageUnbroken` and `FramesFit` follow.

`DamageIsInvisible` is the refinement of `WholeFrames`.  An encode maps to one
that takes the frame in hand as it is, though the code converts the damaged
rows only: that these come to the same is `EncodedExact`, now needed before the
step, and so the theorem rests on `PictureInv` with the ages of the screen's
rows (`AgesKnown`).  Ticks, control messages and rejected frames map to
stutters, the drain of a resize and failures to captures given up.  `RowsNeverOlder` is then a matter of `WholeFrames` alone: its
invariant `InOrder` says that the picture, the capture in hand, those queued
and the screen are none older than the one before, and `NeverOlder` follows
over the refinement.

`RequestsArePending` (no keyframe request is forgotten) is proved where encoding
and rebuilding do not fail (`NothingFails`), since a failed encode does lose the
request; all it needs besides is that the encoder thread then does not end
(`RequestInv`).  `RequestsLostByFailureOnly` says without that assumption that
a failed encode and the end of the thread are the only steps that lose one.  `ChangesAreMarked` (no change is forgotten) is proved for the software
compositor on a screen of one size (`SteadyScreen`): the frames that break it
otherwise are those of section 4.  It needs that the picture shown is the YUV
frame, and then is the chain above read from the other end.

*VAAPI.*  For `FramesFit`, `Fits` follows config, frame in hand and pipeline
through a build: while one is under way the pipeline may be of another size only
if failing would end the thread.  For `ReferencesExact`, `RefSum` writes `refs`
as the union of what the pipeline in use holds, what failed builds left, the
encoder's own reference and what the build under way has taken so far
(`Begun`), and `BuildOrder` says that the builds these belong to are distinct.
The lemma `ReleaseOne` is the heart of it: giving up the owners of one build
leaves the references of the others alone, since builds share no object but the
device.  `PicturesInOrder` needs to know what a queued handle will show when it
is encoded: `OrderInv` says that a queued frame's target shows the frame's
picture or a later one (`Lasting`) and, while no frame was dropped, that the
last one queued is the newest picture drawn.  As the encoder skips to that one,
what it encodes is no older than anything encoded before.

*Bitrate.*  `DeferralIsBounded` follows from `RateInv`, which is
`DeferralBounded` with the range; the one arithmetical fact is `CutLeavesBand`:
a target within one band above the applied rate, cut by a quarter, is no longer
above it, so that a cut is never mistaken for deferred growth
(`CutsReachEncoder`).  `SpacingInv` counts the cuts since the last backlog
against its age.  `ArrivalInv` follows the last rate in the control queue
through the encoder thread's drain.

*Connections.*  `ReplacementIsNoticed` and `NewestIsKept` need that no handler's
generation or number of seen publishes is ahead of the shared one (`GenInv`).
`PageIsCurrent` needs to relate what a handler has recorded as sent, what its
page shows and what is on its way (`Tells`, `Knows`), and that a page has one
open socket at a time (`OneSocket`), so that a handler that is not finished yet
cannot change what the page has been told since.  A page that reconnects keeps
its old favicon if there is none now, which `PageCurrent` excuses and no more.
`TouchesAreCancelled` needs more than the rest: a contact is put down when its
event is drained, perhaps long after its handler is gone, so `TouchInv` says of
each queued start of a finished handler that a cancel is behind it, and of
handlers that may return from the greeting without a cancel that they have
neither queued nor put down anything.

*Viewers.*  `ViewInv` holds the types, the bounds of every queue, the agreement
of slots with the window system, and of the sizes each side believes.
`ScreenSteps` is the safety half of the refinement: every step maps to a step
of `Screen` or to a stutter.  Its invariant is one chain, `InOrder`: last shown
≤ decoded frames ≤ chunks ≤ packets on the wire ≤ packets in the broadcast ≤
newest, and each of these sequences in order; and, while nothing is lost, that
no delta in it lacks its reference (`Intact`) and that the page waits for a
keyframe exactly when it must (`PageSynced`).

*Windows.*  `WindowsInv` adds to the properties what was true while a surface
was no window: a kicked window has committed, a surface with a scale object
that is no window is offstage, the title kept for the page is that of the top.

*Input.*  A finger, key or button is somewhere between the page and the seat:
held by the user, in a message on the wire, in a queue, or down in the handler.
`SeatInv` says for each that what is down, or will be when the messages on their
way arrive, though the user has let it go, has its release behind it (`LetGo`).
The listeners put that release behind the press (`PageSays`), dispatching and
injecting move the front of a list without changing their order, and the cancel
of a lost connection is a release of every finger (`LeaveKeeps`).  Keys and
buttons get no such cancel: the ones whose release went down with the
connection are those that `NoStuckKey` excuses.  `ClicksAreAimed` needs only
that a position comes with the button.

*Session and clipboard.*  `AppInv` says who may hold what: a connection that
has won the swap is the only one with a part in the application until its spawn
fails (`OneInvolved`), it has the watcher running before it is served
(`Watched`), the shutdown takes things down in order (`ShutdownOrder`), and the
displays noted before the spawn are all there were (`OthersKnown`).
`AppHasOneLife`, the refinement of `AppLife`, also needs that a kill is asked
for at the end only and that nobody is reaped before it is watched
(`WatchOrder`).  For
the bridge, `BridgeInv` rests on the order in which the nested compositor tells
it things: that its source is cancelled comes before another's selection is
announced, so once the bridge has given up its ownership nothing of its own can
be announced any more (`GivenUp`), and an offer it reads is never its own.

*Only model-checked*: liveness (`Settles`, `ReachesCeiling`, `OneServed`,
`LockEnds`, `AppExitStops`, and the liveness half of `ScreenKept`), as TLAPS
does not handle fairness and ENABLED here.  Every safety property of the runs
is a theorem.

## 6. What is not modelled, and why

- *Data*: pixels, colour conversion, the bitstream, timestamps, the contents of
  messages, MIME types beyond whether the bridge can carry one, the rectangles
  of the damage list (sets of rows here), filter and codec parameters.
- *Pipeline*: the end of the packet channel; the pipeline of `FramePipeline` and
  that of `VaapiEncoder` are checked apart, as the code uses one or the other.
- *Connections*: bitrate, codec, cursor, pointer lock and clipboard pushes take
  the path of title and favicon and are represented by a send without content;
  the start of the application is in `AppSession`.
- *Windows*: popups, subsurfaces, layer-shell requests (which are refused), the
  cursor image.
- *Input*: fingers that start beside the canvas, `pointercancel`, the software
  keyboard; the native client's input, which feeds the same queues.
- *Viewers*: a page and a native client are checked one at a time, since the
  server keeps one connection (`ClientSessions`); drawing, audio playback,
  statistics and the latency report are left out.
- *Clipboard*: a foreign application that never finishes writing its selection
  blocks the bridge for good; the model has sources that finish.
- *Audio* is a pump of blocking reads into one broadcast channel; the *latency
  echo* and the *static files* are stateless handlers; *configuration* and *wire
  format* are parsing (`sanitize_resolution` is part of `VideoFeed`); the *test
  clients* are not part of the server.  None has state that steps of several
  parties meet in.

What could be added: the rectangle arithmetic of `accumulate_damage` and
`convert_damaged_rows` as pure algorithms refining the row sets.
