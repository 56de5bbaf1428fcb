-------------------------- MODULE MCClientSessions ---------------------------
(***************************************************************************)
(* Instances of ClientSessions for TLC: every connection has its own page, or *)
(* one page connects again.                                                 *)
(***************************************************************************)
EXTENDS ClientSessions

CONSTANTS h1, h2, page

EachItsPage == [h \in Handlers |-> h]

OnePage == [h \in Handlers |-> page]

==============================================================================
