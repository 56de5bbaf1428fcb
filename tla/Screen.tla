------------------------------- MODULE Screen -------------------------------
(***************************************************************************)
(* What the video path promises a viewer of its screen: it shows pictures of *)
(* the output, never an older one after a newer one and, unless a packet was  *)
(* lost on the way, never anything else but the filler of a resized window.   *)
(***************************************************************************)
EXTENDS Integers

CONSTANT MaxPictures \* bound: pictures of the output

VARIABLES
  newest,  \* number of the output's newest picture
  shown,   \* the last picture shown
  look,    \* "picture", "filler" or "garbage"
  lost     \* a packet was lost

screenVars == <<newest, shown, look, lost>>

Init ==
  /\ newest = 1 /\ shown = 0
  /\ look = "filler"
  /\ lost = FALSE

Draw ==
  /\ newest < MaxPictures
  /\ newest' = newest + 1
  /\ UNCHANGED <<shown, look, lost>>

Show ==
  /\ shown' \in shown..newest /\ shown' # 0
  /\ look' = "picture"
  /\ UNCHANGED <<newest, lost>>

\* A window that is resized shows black, or what its buffer held, until a
\* picture of its size arrives or it has its old size again.
Resize ==
  /\ look' = "filler" \/ (look' = "picture" /\ shown # 0)
  /\ UNCHANGED <<newest, shown, lost>>

Lose ==
  /\ lost' = TRUE
  /\ UNCHANGED <<newest, shown, look>>

Garble ==
  /\ lost
  /\ look' = "garbage"
  /\ UNCHANGED <<newest, shown, lost>>

Next == Draw \/ Show \/ Resize \/ Lose \/ Garble

Spec == Init /\ [][Next]_screenVars
=============================================================================
