------------------------------ MODULE AppLife ------------------------------
(***************************************************************************)
(* What the session promises of the application: it is started once, its end *)
(* is the end of the server, it is killed only when the server closes, and    *)
(* the server does not end before it if it was ready when the server closed -- *)
(* unless that took too long.  One that is started later, or is not ready     *)
(* until then, is killed with the server at the latest.                      *)
(***************************************************************************)
CONSTANT Starters \* who may start it; a process is named by its starter

VARIABLES
  running, exited, reaped, \* processes, by how far they have come
  dropped,                 \* killed with the server, and not waited for
  ready,                   \* processes whose starter is done with them
  due,                     \* those the server has to wait for
  server,                  \* "up", "closing", "closed" or "down"
  cut                      \* the server has given up waiting

lifeVars == <<running, exited, reaped, dropped, ready, due, server, cut>>

Init ==
  /\ running = {} /\ exited = {} /\ reaped = {} /\ dropped = {}
  /\ ready = {} /\ due = {}
  /\ server = "up" /\ cut = FALSE

\* The only start there is.
Start(s) ==
  /\ running \cup exited \cup reaped = {}
  /\ server # "down"
  /\ running' = {s}
  /\ UNCHANGED <<exited, reaped, dropped, ready, due, server, cut>>

Settle(s) ==
  /\ s \in running \cup exited \cup reaped /\ server # "down"
  /\ ready' = ready \cup {s}
  /\ UNCHANGED <<running, exited, reaped, dropped, due, server, cut>>

Exit(s) ==
  /\ s \in running /\ server # "down"
  /\ running' = running \ {s} /\ exited' = exited \cup {s}
  /\ UNCHANGED <<reaped, dropped, ready, due, server, cut>>

\* Its end is noticed, and is the end of the server.
Reap(s) ==
  /\ s \in exited /\ server # "down"
  /\ exited' = exited \ {s} /\ reaped' = reaped \cup {s}
  /\ server' = IF server = "up" THEN "closing" ELSE server
  /\ UNCHANGED <<running, dropped, ready, due, cut>>

Kill(s) ==
  /\ s \in running \cup exited /\ server = "closed"
  /\ running' = running \ {s} /\ exited' = exited \ {s} /\ reaped' = reaped \cup {s}
  /\ UNCHANGED <<dropped, ready, due, server, cut>>

Close ==
  /\ \/ server = "up" /\ server' = "closing" /\ UNCHANGED due
     \/ server = "closing" /\ server' = "closed" /\ due' = ready
  /\ UNCHANGED <<running, exited, reaped, dropped, ready, cut>>

GiveUp ==
  /\ server = "closed" /\ cut' = TRUE
  /\ UNCHANGED <<running, exited, reaped, dropped, ready, due, server>>

GoDown ==
  /\ server = "closed" /\ server' = "down"
  /\ due \subseteq reaped \/ cut
  /\ running' = {} /\ dropped' = running
  /\ UNCHANGED <<exited, reaped, ready, due, cut>>

Next ==
  \/ \E s \in Starters : Start(s) \/ Settle(s) \/ Exit(s) \/ Reap(s) \/ Kill(s)
  \/ Close \/ GiveUp \/ GoDown

Safety == Init /\ [][Next]_lifeVars
=============================================================================
