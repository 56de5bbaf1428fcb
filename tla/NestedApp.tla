----------------------------- MODULE NestedApp -----------------------------
(***************************************************************************)
(* The application session with the clipboard bridge: main starts the bridge  *)
(* when the session has discovered the display of the nested compositor, and  *)
(* the bridge ends with it.                                                 *)
(***************************************************************************)
EXTENDS AppSession, Clipboard

nestedVars == <<sessionVars, clipVars>>

NestedInit == SessionInit /\ ClipboardInit

\* A device speaks through a connection that is served.  The applications of
\* the compositor the bridge is connected to, or will be, select while somebody
\* looks.
ClipboardStep ==
  /\ main # "down"
  /\ \/ \E c \in Conns : conn[c] = "served" /\ \E v \in Values \cup {Huge} : DeviceCopies(v)
     \/ live # {} /\ bridge # "ended" /\ \E v \in Values \cup {Huge, Opaque, Empty} : AppCopies(v)
     \/ HandleRequest
     \/ BridgeStep

\* The task of main that waits for nested_display.
BridgeTask ==
  /\ main # "down" /\ nested # NoDisplay
  /\ (StartBridge /\ nested \in live) \/ BridgeFails

\* The connection is lost: the compositor has gone, whoever has its name now,
\* or has cut the bridge off.
NestGone == main # "down" /\ BridgeEnds

NestedNext ==
  \/ SessionNext /\ UNCHANGED clipVars
  \/ (ClipboardStep \/ BridgeTask \/ NestGone) /\ UNCHANGED sessionVars

NestedSpec ==
  /\ NestedInit /\ [][NestedNext]_nestedVars
  /\ SessionFairness

\* Every variable has its type, the clipboard's queue keeps its capacity, and
\* the bridge owns the selection exactly while it has a source for it
\* (ClipState).
NestedTypeOK == SessionTypeOK /\ ClipboardTypeOK
=============================================================================
