----------------------------- MODULE WholeFrames -----------------------------
(***************************************************************************)
(* What the capture and encode pipeline promises: it is as good as one that  *)
(* tracks no damage.  Every capture takes the whole screen, every picture     *)
(* encoded is one of the captures, and captures may be given up but never     *)
(* overtake each other.                                                     *)
(***************************************************************************)
EXTENDS Integers, Sequences

CONSTANTS
  Rows,   \* row bands of the output
  Sizes   \* output resolutions

VARIABLES
  screen,   \* what is on the output now
  captures, \* screens captured and on their way to the encoder
  inHand,   \* the capture the encoder works on, if any (a sequence)
  picture   \* the last picture encoded

wholeVars == <<screen, captures, inHand, picture>>

\* A row is of a resolution, and of the age of the commit that changed it last.
Pictures == [Rows -> Sizes \X Nat]

\* Picture q has nothing older than p.
NotOlder(p, q) == \A r \in Rows : p[r][2] <= q[r][2]

Init ==
  /\ screen \in Pictures /\ picture \in Pictures /\ NotOlder(picture, screen)
  /\ captures = << >> /\ inHand = << >>

\* Applications draw, or the output gets another resolution.
Change ==
  /\ screen' \in Pictures /\ NotOlder(screen, screen')
  /\ UNCHANGED <<captures, inHand, picture>>

Capture ==
  /\ captures' = Append(captures, screen)
  /\ UNCHANGED <<screen, inHand, picture>>

\* The oldest capture is taken, in place of one that is not encoded yet, or
\* given up.
Take ==
  /\ captures # << >> /\ captures' = Tail(captures)
  /\ inHand' \in {<<Head(captures)>>, inHand}
  /\ UNCHANGED <<screen, picture>>

Encode ==
  /\ inHand # << >> /\ picture' = inHand[1]
  /\ inHand' = << >>
  /\ UNCHANGED <<screen, captures>>

\* The encoder fails.
GiveUp ==
  /\ inHand' = << >>
  /\ captures' \in {captures, << >>}
  /\ UNCHANGED <<screen, picture>>

Next == Change \/ Capture \/ Take \/ Encode \/ GiveUp

Safety == Init /\ [][Next]_wholeVars

-----------------------------------------------------------------------------
\* Everything on its way is a picture, none older than the one before it.
InOrder ==
  /\ screen \in Pictures /\ picture \in Pictures /\ NotOlder(picture, screen)
  /\ captures \in Seq(Pictures)
  /\ inHand = << >> \/ \E p \in Pictures : inHand = <<p>>
  /\ \A i \in 1..Len(captures) :
       /\ NotOlder(picture, captures[i]) /\ NotOlder(captures[i], screen)
       /\ \A j \in 1..(i - 1) : NotOlder(captures[j], captures[i])
       /\ inHand # << >> => NotOlder(inHand[1], captures[i])
  /\ inHand # << >> => NotOlder(picture, inHand[1]) /\ NotOlder(inHand[1], screen)
=============================================================================
