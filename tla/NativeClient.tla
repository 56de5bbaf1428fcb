---------------------------- MODULE NativeClient ----------------------------
(***************************************************************************)
(* The native client as a viewer (native-client/src): the main task between   *)
(* the socket and the other threads, the decoder thread, and the display      *)
(* thread with its loop "dispatch, resize, drain", its two renderers and the  *)
(* window system.  A window system may keep each buffer as long as it likes   *)
(* and must get it back unchanged; after a resize it must get buffers of the  *)
(* new size only.                                                            *)
(*                                                                          *)
(* The shm renderer has slots, some of them with the window system; the EGL   *)
(* renderer leaves its buffers to EGL.                                       *)
(***************************************************************************)
EXTENDS VideoFeed

CONSTANTS
  PacketCap,    \* capacity of packet_tx (4 in the code)
  NumSlots,     \* buffers of the shm renderer (3 in the code)
  MaxConfigures \* bound: sizes the window system gives the window

ASSUME NativeOK ==
  /\ PacketCap \in Nat \ {0} /\ NumSlots \in Nat \ {0} /\ MaxConfigures \in Nat

VARIABLES
  renderer,     \* "shm" or "egl"
  delayed,      \* the frame the decoder holds back, if any
  frames,       \* frame_rx, of capacity 1
  \* Display thread: where its loop is, the window's size, pending_resize (0
  \* for none), has xdg_toplevel been closed?
  phase, window, pendingResize, closed,
  \* The renderer: its size, its slots and the one to try first.
  size, slots, nextIdx,
  \* The window system: the slots it holds, the last it was given and the size
  \* of the buffer it shows.
  lent, front, shownSize,
  \* Main task: has size_rx a value it has not seen, is it running?
  unseen, running,
  configures    \* bound

loopVars  == <<phase, window, pendingResize, closed>>
slotVars  == <<renderer, size, slots, nextIdx>>
systemVars == <<lent, front, shownSize, configures>>
mainVars  == <<unseen, running>>
nativeVars == <<delayed, frames, loopVars, slotVars, systemVars, mainVars>>

Slots == 1..NumSlots
NoSlot == [state |-> "none", size |-> 0, n |-> Black]
FreshSlot(s) == [state |-> "free", size |-> s, n |-> Black]

\* The window has been primed with its first buffer, and the main task has
\* sent its size.
NativeInit ==
  /\ renderer \in {"shm", "egl"}
  /\ delayed = << >> /\ frames = << >>
  /\ phase = "dispatch" /\ window \in Sizes /\ pendingResize = 0 /\ closed = FALSE
  /\ size = window
  /\ slots = [i \in Slots |->
       IF renderer = "shm" /\ i = 1 THEN [FreshSlot(window) EXCEPT !.state = "held"]
       ELSE FreshSlot(window)]
  /\ nextIdx = IF NumSlots = 1 THEN 1 ELSE 2
  /\ lent = (IF renderer = "shm" THEN {1} ELSE {})
  /\ front = (IF renderer = "shm" THEN 1 ELSE 0)
  /\ shownSize = window
  /\ unseen = FALSE /\ running = TRUE /\ configures = 0

-----------------------------------------------------------------------------
(***************************************************************************)
(* Main task and decoder thread.                                            *)
(***************************************************************************)

\* handle_frame: a packet the decoder has no room for is dropped, and nobody
\* is asked for a keyframe.
ReceivePacket ==
  /\ running /\ wire # << >> /\ wire' = Tail(wire)
  /\ IF Len(chunks) < PacketCap
     THEN chunks' = Append(chunks, Chunk(Head(wire))) /\ missed' = FALSE /\ UNCHANGED lost
     ELSE missed' = TRUE /\ lost' = TRUE /\ UNCHANGED chunks
  /\ UNCHANGED <<outputVars, encoderVars, connected, feed, asks, resizes, cooling, forcing,
                 reference, screen, lastShown, nativeVars>>

\* A frame the renderer has no room for is dropped.
GiveFrame(f) == frames' = IF frames = << >> THEN <<f>> ELSE frames

\* One turn of run_decoder_thread: no frame before the first keyframe.  One
\* call takes a packet and gives one frame at most; a decoder that holds one
\* back (EAGAIN) gives it with the next packet.
DecodePacket ==
  /\ running /\ chunks # << >> /\ chunks' = Tail(chunks)
  /\ reference' = Decoded(Head(chunks))
  /\ LET pic == Head(chunks).pic
         frame == IF reference' = "exact" THEN pic ELSE [pic EXCEPT !.n = Garbage]
         out == IF reference' = "none" THEN delayed ELSE Append(delayed, frame)
     IN \/ Len(out) <= 1 /\ delayed' = out /\ UNCHANGED frames
        \/ out # << >> /\ delayed' = Tail(out) /\ GiveFrame(Head(out))
  /\ UNCHANGED <<outputVars, encoderVars, lineVars, missed, viewVars, loopVars, slotVars,
                 systemVars, mainVars>>

\* An error is logged and the next packet decoded: with the reference there is,
\* although the decoder may not have taken this one.
DecodeFails ==
  /\ running /\ chunks # << >> /\ chunks' = Tail(chunks)
  /\ reference' \in {Decoded(Head(chunks)), IF reference = "none" THEN "none" ELSE "broken"}
  /\ lost' = TRUE
  /\ UNCHANGED <<outputVars, encoderVars, lineVars, missed, screen, lastShown, delayed, frames,
                 loopVars, slotVars, systemVars, mainVars>>

\* The size_rx arm sends the size of the window as it is now.
NotifySize ==
  /\ running /\ unseen /\ unseen' = FALSE
  /\ resizes' = Append(resizes, window)
  /\ UNCHANGED <<outputVars, encoderVars, connected, feed, wire, asks, cooling, forcing, decoderVars,
                 viewVars, delayed, frames, loopVars, slotVars, systemVars, running>>

\* The window was closed, the server has ended the connection, or Ctrl-C: the
\* process ends, and its window and buffers are gone.
Exit ==
  /\ running /\ running' = FALSE /\ unseen' = FALSE
  /\ HangUp
  /\ chunks' = << >> /\ missed' = FALSE /\ reference' = "none" /\ delayed' = << >> /\ frames' = << >>
  /\ phase' = "ended" /\ pendingResize' = 0 /\ closed' = TRUE
  /\ slots' = [i \in Slots |-> NoSlot] /\ nextIdx' = 1
  /\ lent' = {} /\ front' = 0 /\ screen' = Black
  /\ UNCHANGED <<outputVars, encoderVars, cooling, lastShown, lost, window, renderer, size, shownSize,
                 configures>>

-----------------------------------------------------------------------------
(***************************************************************************)
(* Display thread: dispatch.                                                *)
(***************************************************************************)

Display(from) == running /\ phase = from

\* WindowHandler::configure, whose size has been acknowledged.
Configure(s) ==
  /\ Display("dispatch") /\ configures < MaxConfigures /\ s # window
  /\ configures' = configures + 1
  /\ window' = s /\ unseen' = TRUE /\ pendingResize' = s
  /\ UNCHANGED <<feedVars, delayed, frames, phase, closed, slotVars, lent, front, shownSize, running>>

\* request_close.
RequestClose ==
  /\ Display("dispatch") /\ ~closed /\ closed' = TRUE
  /\ UNCHANGED <<feedVars, delayed, frames, phase, window, pendingResize, slotVars, systemVars, mainVars>>

\* release_slot: a slot of an old size goes when the window system is done
\* with it.
ReleaseSlot(i) ==
  /\ Display("dispatch") /\ i \in lent /\ lent' = lent \ {i}
  /\ slots' = [slots EXCEPT ![i] =
       IF @.state = "zombie" THEN NoSlot ELSE [@ EXCEPT !.state = "free"]]
  /\ UNCHANGED <<feedVars, delayed, frames, loopVars, renderer, size, nextIdx, front, shownSize,
                 configures, mainVars>>

-----------------------------------------------------------------------------
(***************************************************************************)
(* Display thread: resize and drain.                                        *)
(***************************************************************************)

Commit(i, s, n) ==
  /\ lent' = (IF renderer = "shm" THEN lent \cup {i} ELSE lent) /\ front' = i
  /\ shownSize' = s
  /\ screen' = n
  /\ UNCHANGED configures

NoCommit == UNCHANGED <<systemVars, screen, lastShown>>

\* A bug: slots the window system still holds are dropped, too.
DropAllSlots(s) ==
  IF s = size THEN slots ELSE [i \in Slots |-> NoSlot]

\* ShmRenderer::resize: free slots go, the others once they are released.
ResizeSlots(s) ==
  IF s = size THEN slots
  ELSE [i \in Slots |->
         CASE slots[i].state = "free" -> NoSlot
           [] slots[i].state = "none" -> NoSlot
           [] OTHER -> [slots[i] EXCEPT !.state = "zombie"]]

\* recreate_slots.
Recreated(ss, s) ==
  [i \in Slots |-> IF ss[i].state = "none" THEN FreshSlot(s) ELSE ss[i]]

Free(ss) == {i \in Slots : ss[i].state = "free"}

\* pick_next_released.
NextReleased(ss) ==
  LET after == {i \in Free(ss) : i >= nextIdx}
      first(S) == CHOOSE i \in S : \A j \in S : i <= j
  IN IF after # {} THEN first(after) ELSE first(Free(ss))

Hold(ss, i, n) == [ss EXCEPT ![i].state = "held", ![i].n = n]
After(i) == IF i = NumSlots THEN 1 ELSE i + 1

\* resize_and_prime commits a buffer of the new size at once: the first free
\* slot with what it holds, or black.  Without a free slot there is none.
ResizeAndPrime(s) ==
  /\ size' = s
  /\ IF renderer = "egl"
     THEN Commit(0, s, Black) /\ UNCHANGED <<slots, nextIdx, lastShown>>
     ELSE LET ss == Recreated(ResizeSlots(s), s) IN
       IF Free(ss) = {} THEN slots' = ss /\ NoCommit /\ UNCHANGED nextIdx
       ELSE LET i == CHOOSE i \in Free(ss) : \A j \in Free(ss) : i <= j IN
            /\ slots' = Hold(ss, i, ss[i].n) /\ nextIdx' = After(i)
            /\ Commit(i, ss[i].size, ss[i].n) /\ UNCHANGED lastShown

\* A bug: the frames are drained first.
ResizeLate ==
  /\ Display("dispatch") /\ phase' = "drain"
  /\ UNCHANGED <<feedVars, delayed, frames, window, pendingResize, closed, slotVars, systemVars, mainVars>>

ApplyResize ==
  /\ Display("dispatch") /\ phase' = "drain"
  /\ pendingResize' = 0
  /\ IF pendingResize = 0 THEN NoCommit /\ UNCHANGED <<size, slots, nextIdx>>
     ELSE ResizeAndPrime(pendingResize)
  /\ UNCHANGED <<outputVars, encoderVars, lineVars, decoderVars, lost, delayed, frames, window,
                 closed, renderer, mainVars>>

\* ShmRenderer::render: into a free slot, and not if the frame is of another
\* size.
RenderShm(frame) ==
  LET ss == Recreated(slots, size) IN
  IF Free(ss) = {} \/ frame.size # ss[NextReleased(ss)].size
  THEN slots' = ss /\ NoCommit /\ UNCHANGED nextIdx
  ELSE LET i == NextReleased(ss) IN
       /\ slots' = Hold(ss, i, frame.n) /\ nextIdx' = After(i)
       /\ Commit(i, ss[i].size, frame.n) /\ Show(frame.n)

\* EglRenderer::render_frame.
RenderEgl(frame) ==
  /\ IF frame.size = size THEN Commit(0, size, frame.n) /\ Show(frame.n) ELSE NoCommit
  /\ UNCHANGED <<slots, nextIdx>>

\* try_drain and drain_frames: the latest frame, if there is one; then the
\* loop goes on unless the window was closed.
Drain ==
  /\ Display("drain") /\ phase' = (IF closed THEN "ended" ELSE "dispatch")
  /\ frames' = << >>
  /\ IF frames = << >> THEN NoCommit /\ UNCHANGED <<slots, nextIdx>>
     ELSE IF renderer = "shm" THEN RenderShm(Last(frames)) ELSE RenderEgl(Last(frames))
  /\ UNCHANGED <<outputVars, encoderVars, lineVars, decoderVars, delayed, lost, window,
                 pendingResize, closed, renderer, size, mainVars>>

DisplayLoop == ApplyResize \/ Drain

NativeStep ==
  \/ ReceivePacket \/ DecodePacket \/ DecodeFails \/ NotifySize \/ Exit
  \/ \E s \in Sizes : Configure(s)
  \/ RequestClose
  \/ \E i \in Slots : ReleaseSlot(i)
  \/ DisplayLoop

-----------------------------------------------------------------------------
(***************************************************************************)
(* Properties.                                                              *)
(***************************************************************************)

\* The renderer never gives up or reuses a buffer the window system holds, and
\* gets every one back in the end: a slot is with the window system exactly
\* when the renderer thinks so, and every slot but a zombie has the renderer's
\* size (ShmRenderer, release_slot).
BuffersKept ==
  /\ lent = {i \in Slots : slots[i].state \in {"held", "zombie"}}
  /\ \A i \in Slots :
       renderer = "shm" /\ slots[i].state \in {"free", "held"} => slots[i].size = size

\* "After ack_configure the next committed buffer must have the new size;
\* draining frames first could commit an old-sized buffer" (run_display_loop).
AckedSize ==
  [][running' /\ (screen' # screen \/ front' # front) => shownSize' = window]_
    <<feedVars, nativeVars>>
=============================================================================
