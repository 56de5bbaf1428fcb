------------------------------ MODULE Viewers ------------------------------
(***************************************************************************)
(* The video feed with the one viewer that is connected: a page or the native *)
(* client.  Together they implement Screen.                                  *)
(***************************************************************************)
EXTENDS PageVideo, NativeClient

CONSTANTS
  NativePictures, \* bound: pictures while the viewer is the native client
  Clients         \* the viewers there may be

ASSUME ViewersOK ==
  /\ NativePictures \in 1..MaxPictures
  /\ Clients \subseteq {"page", "native"}

VARIABLE viewer \* "page" or "native"

viewerVars == <<feedVars, pageVars, nativeVars, viewer>>

ViewersInit ==
  /\ FeedInit /\ PageInit /\ NativeInit
  /\ viewer \in Clients
  /\ viewer = "page" => renderer = "egl" /\ window = 1
  /\ resizes = IF viewer = "native" THEN <<window>> ELSE << >>

ByServer(step) ==
  /\ step /\ UNCHANGED <<pageVars, nativeVars, viewer>>
  /\ viewer = "native" => newest'.n <= NativePictures
ByPage(step) == viewer = "page" /\ step /\ UNCHANGED <<nativeVars, viewer>>
ByNative(step) == viewer = "native" /\ step /\ UNCHANGED <<pageVars, viewer>>

ViewersNext == ByServer(ServerStep) \/ ByPage(PageStep) \/ ByNative(NativeStep)

\* Safety only: nothing makes an output at rest send what a viewer misses.
ViewersSpec == ViewersInit /\ [][ViewersNext]_viewerVars

-----------------------------------------------------------------------------
\* What is on the screen counts as a picture if it is the last one that was
\* drawn, in a buffer of the window's size.
Look ==
  CASE screen = Garbage -> "garbage"
    [] screen = lastShown /\ screen # Black /\ (viewer = "native" => shownSize = window) ->
         "picture"
    [] OTHER -> "filler"

Screen == INSTANCE Screen WITH
  newest <- newest.n, shown <- lastShown, look <- Look, lost <- lost

\* Every variable has its type and no queue outgrows its capacity; the backlog
\* of the page's decoder is bounded although WebCodecs has no bound.
ViewersTypeOK ==
  /\ FeedTypeOK
  /\ Len(chunks) <= (IF viewer = "page" THEN MaxDecodeQueue + 1 ELSE PacketCap)
  /\ Len(delayed) <= 1 /\ Len(frames) <= 1
  /\ keyframeSeen \in BOOLEAN /\ keyframeRequestPending \in BOOLEAN
  /\ phase \in {"dispatch", "drain", "ended"}
  /\ window \in Sizes /\ pendingResize \in Sizes \cup {0} /\ size \in Sizes
  /\ nextIdx \in Slots /\ lent \subseteq Slots /\ front \in Slots \cup {0}
  /\ shownSize \in Sizes

\* The viewer's screen is what Screen promises: exact pictures in order, and
\* garbage only after a packet was lost.
ScreenKept == Screen!Spec
=============================================================================
