----------------------------- MODULE AppSession -----------------------------
(***************************************************************************)
(* The application given on the command line (session.rs): started by the    *)
(* first connection, watched until it exits, killed when the server shuts    *)
(* down; the discovery of the display it opens if it is a compositor; and    *)
(* the order in which main takes the server apart (main.rs).                 *)
(*                                                                          *)
(* The connection handlers run in parallel and may be switched at every      *)
(* await of ensure_started.  Each step of the shutdown waits for its part or *)
(* for a timeout.                                                           *)
(***************************************************************************)
EXTENDS Naturals, FiniteSets

CONSTANTS
  Conns,         \* connections
  Displays,      \* names of Wayland displays in XDG_RUNTIME_DIR
  HasCommand,    \* is there a command after "--"?
  SpawnMayFail,  \* may spawning it fail?
  MayTimeOut,    \* may waiting for the application run into its timeout?
  MaxPolls       \* bound: looks of the discovery (50 in the code)

NoDisplay == "no display"

ASSUME SessionOK ==
  /\ NoDisplay \notin Displays
  /\ HasCommand \in BOOLEAN /\ SpawnMayFail \in BOOLEAN
  /\ MayTimeOut \in BOOLEAN
  /\ MaxPolls \in Nat

VARIABLES
  conn,      \* where each connection is: ensure_started, serving or gone
  child,     \* the process each connection has spawned
  started,   \* the AtomicBool
  killTx,    \* whose oneshot is in kill_tx, {} or one connection
  killed,    \* kill signals sent
  watcher,   \* whose handle is in the watcher slot, {} or one connection
  watching,  \* running watcher tasks
  shutdown,  \* the server's shutdown signal
  \* Discovery: the connectable displays, the one the application has opened,
  \* those before the spawn, the looks left (0 when there is no task), and the
  \* value of nested_display_tx.
  live, opened, before, polls, nested,
  \* main: the step of the shutdown it is at, the watcher it waits for, and
  \* as history the one there was when it began to end the application, and
  \* whether it did not wait to the end.
  main, awaited, due, timedOut

displayVars == <<live, opened, before, polls, nested>>
mainVars    == <<main, awaited, due, timedOut>>
sessionVars == <<conn, child, started, killTx, killed, watcher, watching, shutdown,
                 displayVars, mainVars>>

\* "down": the runtime is dropped, and every task with it.
ShutdownSteps ==
  <<"render", "forward", "encoder", "server", "kill", "take", "reap", "done", "down">>

SessionInit ==
  /\ conn = [c \in Conns |-> "new"]
  /\ child = [c \in Conns |-> "none"]
  /\ started = FALSE /\ killTx = {} /\ killed = {} /\ watcher = {} /\ watching = {}
  /\ shutdown = FALSE
  /\ live \in SUBSET Displays /\ opened = NoDisplay
  /\ before = {} /\ polls = 0 /\ nested = NoDisplay
  /\ main = "render" /\ awaited = {} /\ due = {} /\ timedOut = FALSE

Go(c, place) == conn' = [conn EXCEPT ![c] = place]
Become(c, state) == child' = [child EXCEPT ![c] = state]
Starting == {"spawn", "arm", "watch", "keep"}

-----------------------------------------------------------------------------
(***************************************************************************)
(* ensure_started.                                                          *)
(***************************************************************************)

\* A bug: the flag is read but not set.
SwapLate(c) ==
  /\ conn[c] = "new"
  /\ Go(c, IF ~HasCommand \/ started THEN "served" ELSE "spawn")
  /\ before' = live
  /\ UNCHANGED <<child, started, killTx, killed, watcher, watching, shutdown, live, opened,
                 polls, nested, mainVars>>

\* The first connection goes on to spawn, with the displays it finds; every
\* other is served at once.  The shutdown is not asked for: the handler of a
\* WebSocket that was upgraded before may come here at any time.
Swap(c) ==
  /\ conn[c] = "new"
  /\ IF ~HasCommand \/ started
     THEN Go(c, "served") /\ UNCHANGED <<started, before>>
     ELSE Go(c, "spawn") /\ started' = TRUE /\ before' = live
  /\ UNCHANGED <<child, killTx, killed, watcher, watching, shutdown, live, opened, polls,
                 nested, mainVars>>

\* A failed spawn lets the next connection try again.
Fail(c) ==
  SpawnMayFail /\ Go(c, "served") /\ started' = FALSE /\ UNCHANGED child

Spawn(c) ==
  /\ conn[c] = "spawn"
  /\ \/ Go(c, "arm") /\ Become(c, "running") /\ UNCHANGED started
     \/ Fail(c)
  /\ UNCHANGED <<killTx, killed, watcher, watching, shutdown, displayVars, mainVars>>

\* *self.inner.kill_tx.lock().await = Some(kill_tx)
Arm(c) ==
  /\ conn[c] = "arm" /\ Go(c, "watch")
  /\ killTx' = {c}
  /\ UNCHANGED <<child, started, killed, watcher, watching, shutdown, displayVars, mainVars>>

\* The watcher task starts.
Watch(c) ==
  /\ conn[c] = "watch" /\ Go(c, "keep")
  /\ watching' = watching \cup {c}
  /\ UNCHANGED <<child, started, killTx, killed, watcher, shutdown, displayVars, mainVars>>

\* Its handle is kept and the discovery starts.
Keep(c) ==
  /\ conn[c] = "keep" /\ Go(c, "served")
  /\ watcher' = {c}
  /\ polls' = MaxPolls
  /\ UNCHANGED <<child, started, killTx, killed, watching, shutdown, live, opened, before,
                 nested, mainVars>>

\* A connection ends, because its peer leaves or it sees the shutdown.
Disconnect(c) ==
  /\ conn[c] = "served" /\ Go(c, "gone")
  /\ UNCHANGED <<child, started, killTx, killed, watcher, watching, shutdown, displayVars,
                 mainVars>>

-----------------------------------------------------------------------------
(***************************************************************************)
(* The application, its watcher and the discovery of its display.           *)
(***************************************************************************)

DisplaysOnly ==
  UNCHANGED <<conn, child, started, killTx, killed, watcher, watching, shutdown, before, polls,
              nested, mainVars>>

\* The application listens if it is a compositor, under a name that is free ...
NestListens ==
  /\ opened = NoDisplay /\ \E c \in Conns : child[c] = "running"
  /\ \E d \in Displays \ live : live' = live \cup {d} /\ opened' = d
  /\ DisplaysOnly

\* ... and so do other compositors of the user's, which come and go.
OthersListen ==
  /\ \/ \E d \in Displays \ live : live' = live \cup {d}
     \/ \E d \in live \ {opened} : live' = live \ {d}
  /\ UNCHANGED opened
  /\ DisplaysOnly

\* The display of an application that ends goes with it.
CloseNest == live' = live \ {opened} /\ opened' = NoDisplay

\* The application may exit any time.
Exit(c) ==
  /\ child[c] = "running" /\ Become(c, "exited")
  /\ CloseNest
  /\ UNCHANGED <<conn, started, killTx, killed, watcher, watching, shutdown, before, polls,
                 nested, mainVars>>

\* A bug: an application that ends is not reported.
ReportNothing == UNCHANGED shutdown

\* The end of the application is the end of the server.
ReportExit == shutdown' = TRUE

\* The select! of the watcher: the child has exited, or a kill is asked for.
\* With both at once either may win.
WatcherReaps(c) ==
  /\ c \in watching /\ child[c] = "exited"
  /\ Become(c, "reaped") /\ watching' = watching \ {c}
  /\ ReportExit
  /\ UNCHANGED <<conn, started, killTx, killed, watcher, displayVars, mainVars>>

WatcherKills(c) ==
  /\ c \in watching /\ c \in killed
  /\ Become(c, "reaped") /\ watching' = watching \ {c}
  /\ CloseNest
  /\ UNCHANGED <<conn, started, killTx, killed, watcher, shutdown, before, polls, nested,
                 mainVars>>

\* A display that is live now and was not before the spawn, whoever opened it.
NewDisplay(d) == d \in live \ before

\* One look of discover_nested_display, or the last.
Look ==
  /\ polls > 0
  /\ IF \E d \in live : NewDisplay(d)
     THEN polls' = 0 /\ \E d \in live : NewDisplay(d) /\ nested' = d
     ELSE polls' = polls - 1 /\ UNCHANGED nested
  /\ UNCHANGED <<conn, child, started, killTx, killed, watcher, watching, shutdown, live,
                 opened, before, mainVars>>

-----------------------------------------------------------------------------
(***************************************************************************)
(* The shutdown.                                                            *)
(***************************************************************************)

\* SIGINT or SIGTERM.
Signal ==
  /\ ~shutdown /\ shutdown' = TRUE
  /\ UNCHANGED <<conn, child, started, killTx, killed, watcher, watching, displayVars, mainVars>>

Step(from, to) == main = from /\ main' = to

\* The render loop ends and the display is closed; then the forwarding task
\* and the encoder thread are joined or given up, which are modelled with the
\* frame pipeline.
CloseDisplay ==
  /\ shutdown
  /\ \/ Step("render", "forward") \/ Step("forward", "encoder") \/ Step("encoder", "server")
  /\ UNCHANGED <<conn, child, started, killTx, killed, watcher, watching, shutdown, displayVars,
                 awaited, due, timedOut>>

\* server_join_handle: the listener is closed and the HTTP connections have
\* ended, or the timeout.  The handler of an upgraded socket is a task of its
\* own that nobody waits for.
JoinServer ==
  /\ Step("server", "kill")
  /\ UNCHANGED <<conn, child, started, killTx, killed, watcher, watching, shutdown, displayVars,
                 awaited, due, timedOut>>

\* SessionManager::shutdown takes the oneshot and fires it ...
KillApp ==
  /\ Step("kill", "take")
  /\ killed' = killed \cup killTx /\ killTx' = {}
  /\ due' = watcher
  /\ UNCHANGED <<conn, child, started, watcher, watching, shutdown, displayVars, awaited, timedOut>>

\* ... takes the watcher's handle ...
TakeWatcher ==
  /\ Step("take", "reap")
  /\ awaited' = watcher /\ watcher' = {}
  /\ UNCHANGED <<conn, child, started, killTx, killed, watching, shutdown, displayVars, due,
                 timedOut>>

\* A bug: the handle is dropped instead of awaited.
LeaveApp ==
  /\ Step("reap", "done")
  /\ UNCHANGED <<conn, child, started, killTx, killed, watcher, watching, shutdown, displayVars,
                 awaited, due, timedOut>>

\* ... and awaits it, or the timeout.
ReapApp ==
  /\ Step("reap", "done")
  /\ IF awaited \cap watching = {} THEN UNCHANGED timedOut
     ELSE MayTimeOut /\ timedOut' = TRUE
  /\ UNCHANGED <<conn, child, started, killTx, killed, watcher, watching, shutdown, displayVars,
                 awaited, due>>

\* main returns and the runtime drops its tasks; a child that one of them
\* holds is killed, but not waited for (kill_on_drop).
DropRuntime ==
  /\ Step("done", "down")
  /\ child' = [c \in Conns |-> IF child[c] = "running" THEN "dropped" ELSE child[c]]
  /\ UNCHANGED <<conn, started, killTx, killed, watcher, watching, shutdown, displayVars,
                 awaited, due, timedOut>>

HandlerStep(c) == Swap(c) \/ Spawn(c) \/ Arm(c) \/ Watch(c) \/ Keep(c) \/ Disconnect(c)
WatcherStep(c) == WatcherReaps(c) \/ WatcherKills(c)
MainStep == CloseDisplay \/ JoinServer \/ KillApp \/ TakeWatcher \/ ReapApp \/ DropRuntime

SessionNext ==
  /\ main # "down"
  /\ \/ \E c \in Conns : HandlerStep(c) \/ WatcherStep(c) \/ Exit(c)
     \/ NestListens \/ OthersListen \/ Look \/ Signal \/ MainStep

\* Tasks are scheduled and each step of the shutdown has a timeout; a peer
\* leaves, the application exits or a signal comes, or not.
SessionFairness ==
  /\ \A c \in Conns :
       WF_sessionVars(main # "down" /\ (WatcherStep(c) \/ Spawn(c) \/ Arm(c) \/ Watch(c)
                                         \/ Keep(c)))
  /\ WF_sessionVars(MainStep)

SessionSpec == SessionInit /\ [][SessionNext]_sessionVars /\ SessionFairness

-----------------------------------------------------------------------------
(***************************************************************************)
(* Properties.                                                              *)
(***************************************************************************)

\* Every variable has its type.
SessionTypeOK ==
  /\ conn \in [Conns -> {"new", "served", "gone"} \cup Starting]
  /\ child \in [Conns -> {"none", "running", "exited", "reaped", "dropped"}]
  /\ started \in BOOLEAN /\ shutdown \in BOOLEAN /\ timedOut \in BOOLEAN
  /\ killTx \subseteq Conns /\ killed \subseteq Conns
  /\ watcher \subseteq Conns /\ watching \subseteq Conns
  /\ awaited \subseteq Conns /\ due \subseteq Conns
  /\ live \subseteq Displays /\ before \subseteq Displays
  /\ opened \in live \cup {NoDisplay}
  /\ polls \in 0..MaxPolls /\ nested \in Displays \cup {NoDisplay}
  /\ \E i \in DOMAIN ShutdownSteps : main = ShutdownSteps[i]

\* However many connections race, the command is spawned once; and while it
\* counts as started somebody is spawning it or has: a failure does not wedge
\* the session (ensure_started).
OneApp ==
  /\ Cardinality({c \in Conns : child[c] # "none"}) <= 1
  /\ started => \E c \in Conns : conn[c] = "spawn" \/ child[c] # "none"

InState(state) == {c \in Conns : child[c] = state}

Life == INSTANCE AppLife WITH
  Starters <- Conns,
  running  <- InState("running"),
  exited   <- InState("exited"),
  reaped   <- InState("reaped"),
  dropped  <- InState("dropped"),
  ready    <- {c \in Conns : child[c] # "none" /\ conn[c] \in {"served", "gone"}},
  due      <- due,
  cut      <- timedOut,
  server   <- IF main = "down" THEN "down"
              ELSE IF main \in {"take", "reap", "done"} THEN "closed"
              ELSE IF shutdown THEN "closing" ELSE "up"

\* From outside there is one application with one life: started once, its end
\* the end of the server, killed when the server closes, and outlived by the
\* server if it was ready by then, whichever connections race to start it and
\* whenever a shutdown comes in between.
AppLifeKept == Life!Safety

\* When the user closes the application the server comes to an end.
AppExitStops == (\E c \in Conns : child[c] = "exited") ~> (main = "down")
=============================================================================
