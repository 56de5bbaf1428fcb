---------------------------- MODULE NestedProofs ----------------------------
(***************************************************************************)
(* The application session, for any number of connections and displays.      *)
(*                                                                          *)
(* None of its properties is inductive.  They rest on who may hold what: a    *)
(* connection that has won the swap is the only one with a part in the        *)
(* application until the spawn fails, and it has the watcher running and its  *)
(* handle kept before it is served, so that a shutdown that begins later finds *)
(* both.                                                                    *)
(* Of the clipboard bridge: its source is told that it is cancelled before    *)
(* another's selection is announced, so nothing of its own is announced once  *)
(* it has given up the ownership.                                             *)
(***************************************************************************)
EXTENDS NestedApp, FiniteSetTheorems, TLAPS

\* Connections with a part in the application, and those done with it.
Involved(c) == conn[c] \in Starting \/ child[c] # "none"
Ready(c) == child[c] # "none" /\ conn[c] \in {"served", "gone"}

\* One connection at most, in the order of ensure_started.
OneInvolved ==
  /\ \A c, d \in Conns : Involved(c) /\ Involved(d) => c = d
  /\ \A c \in Conns : Involved(c) => started
  /\ \A c \in Conns : conn[c] \in {"new", "spawn"} => child[c] = "none"
  /\ \A c \in Conns : conn[c] \in {"arm", "watch", "keep"} => child[c] # "none"
  /\ started => \E c \in Conns : conn[c] = "spawn" \/ child[c] # "none"

\* An application that lives or is unreaped has its watcher by the time its
\* handle is kept.
Watched ==
  \A c \in Conns :
    /\ conn[c] \in {"keep", "served", "gone"} /\ child[c] \in {"running", "exited"} =>
         c \in watching
    /\ c \in watching => child[c] # "none"

\* Until main ends the application the watcher's slot has who is ready; from
\* then on main has, or will take, the handle of who was.
ShutdownOrder ==
  /\ main # "render" => shutdown
  /\ main \notin {"take", "reap", "done", "down"} =>
       due = {} /\ watcher = {c \in Conns : Ready(c)}
  /\ main = "take" => due \subseteq watcher
  /\ main \in {"reap", "done", "down"} => due \subseteq awaited
  /\ \A c \in due : Ready(c)
  /\ main \in {"done", "down"} /\ ~timedOut => \A c \in due : child[c] = "reaped"
  /\ main # "down" => \A c \in Conns : child[c] # "dropped"

AppInv == SessionTypeOK /\ OneInvolved /\ Watched /\ ShutdownOrder

LEMMA AppInitHolds == SessionInit => AppInv
<1> SUFFICES ASSUME SessionInit PROVE AppInv
  OBVIOUS
<1> USE DEF SessionInit
<1>1. SessionTypeOK
  <2>1. 1 \in DOMAIN ShutdownSteps /\ main = ShutdownSteps[1]
    BY DEF ShutdownSteps
  <2>2. polls \in 0..MaxPolls
    BY SessionOK
  <2> QED BY <2>1, <2>2 DEF SessionTypeOK
<1>2. OneInvolved /\ Watched
  BY DEF OneInvolved, Watched, Involved, Starting
<1>3. ShutdownOrder
  BY DEF ShutdownOrder, Ready
<1> QED
  BY <1>1, <1>2, <1>3 DEF AppInv

(***************************************************************************)
(* One lemma per action.                                                    *)
(***************************************************************************)

\* A step that changes neither the processes nor who is ready.
LEMMA OrderStays ==
  ASSUME ShutdownOrder, \A c \in Conns : Ready(c)' <=> Ready(c), due \subseteq Conns,
         shutdown' = shutdown \/ shutdown', UNCHANGED <<child, watcher, mainVars>>
  PROVE  ShutdownOrder'
<1> {c \in Conns : Ready(c)}' = {c \in Conns : Ready(c)}
  OBVIOUS
<1> QED
  BY DEF ShutdownOrder, mainVars

\* The swap: the one that finds the flag unset has nobody before it.
LEMMA SwapKeeps ==
  ASSUME AppInv, NEW c \in Conns, Swap(c)
  PROVE  AppInv'
<1> USE DEF AppInv, Swap, Go
<1>1. SessionTypeOK'
  BY DEF SessionTypeOK, Starting, mainVars
<1>2. OneInvolved'
  BY DEF OneInvolved, Involved, Starting, SessionTypeOK
<1>3. Watched'
  BY DEF Watched, OneInvolved, SessionTypeOK
<1>4. ShutdownOrder'
  <2>1. \A d \in Conns : Ready(d)' <=> Ready(d)
    BY DEF Ready, OneInvolved, SessionTypeOK
  <2> QED BY <2>1, OrderStays DEF SessionTypeOK
<1> QED
  BY <1>1, <1>2, <1>3, <1>4

\* The spawn: the child is there, or nobody is involved any more.
LEMMA SpawnKeeps ==
  ASSUME AppInv, main # "down", NEW c \in Conns, Spawn(c)
  PROVE  AppInv'
<1> USE DEF AppInv, Spawn, Go, Become, Fail
<1>1. Involved(c) /\ child[c] = "none" /\ conn[c] = "spawn" /\ started
  BY DEF OneInvolved, Involved, Starting
<1>2. SessionTypeOK'
  BY DEF SessionTypeOK, Starting, displayVars, mainVars
<1>3. \A d \in Conns \ {c} : ~Involved(d) /\ child[d] = "none"
  BY <1>1 DEF OneInvolved, Involved
<1>4. \A d \in Conns : ~Ready(d) /\ ~Ready(d)'
  BY <1>1, <1>3 DEF Ready, SessionTypeOK
<1>5. \A d \in Conns : child'[d] # "dropped"
  BY <1>1, <1>3 DEF SessionTypeOK
<1>6. ShutdownOrder'
  <2>1. due = {} /\ {d \in Conns : Ready(d)} = {} /\ {d \in Conns : Ready(d)}' = {}
    BY <1>4 DEF ShutdownOrder, SessionTypeOK
  <2> QED BY <1>5, <2>1 DEF ShutdownOrder, mainVars
<1>7. CASE conn' = [conn EXCEPT ![c] = "arm"] /\ child' = [child EXCEPT ![c] = "running"]
           /\ started' = started
  <2>1. OneInvolved'
    BY <1>1, <1>3, <1>7 DEF OneInvolved, Involved, Starting, SessionTypeOK
  <2> QED
    BY <1>1, <1>2, <1>6, <1>7, <2>1 DEF Watched, SessionTypeOK
<1>8. CASE Fail(c)
  <2>1. OneInvolved'
    BY <1>1, <1>3, <1>8 DEF OneInvolved, Involved, Starting, SessionTypeOK
  <2> QED
    BY <1>1, <1>2, <1>6, <1>8, <2>1 DEF Watched, SessionTypeOK
<1> QED
  BY <1>7, <1>8

\* The kill channel is put up.
LEMMA ArmKeeps ==
  ASSUME AppInv, NEW c \in Conns, Arm(c)
  PROVE  AppInv'
<1> USE DEF AppInv, Arm, Go
<1>1. SessionTypeOK'
  BY DEF SessionTypeOK, Starting, displayVars, mainVars
<1>2. OneInvolved'
  BY DEF OneInvolved, Involved, Starting, SessionTypeOK
<1>3. Watched'
  BY DEF Watched, SessionTypeOK
<1>4. ShutdownOrder'
  BY OrderStays DEF Ready, SessionTypeOK
<1> QED
  BY <1>1, <1>2, <1>3, <1>4

\* The watcher starts before the connection goes on.
LEMMA WatchKeeps ==
  ASSUME AppInv, NEW c \in Conns, Watch(c)
  PROVE  AppInv'
<1> USE DEF AppInv, Watch, Go
<1>1. SessionTypeOK'
  BY DEF SessionTypeOK, Starting, displayVars, mainVars
<1>2. OneInvolved'
  BY DEF OneInvolved, Involved, Starting, SessionTypeOK
<1>3. Watched'
  BY DEF Watched, OneInvolved, SessionTypeOK
<1>4. ShutdownOrder'
  BY OrderStays DEF Ready, SessionTypeOK
<1> QED
  BY <1>1, <1>2, <1>3, <1>4

\* The handle is kept and the discovery begins: now the connection is ready,
\* and nobody else is.
LEMMA KeepKeeps ==
  ASSUME AppInv, NEW c \in Conns, Keep(c)
  PROVE  AppInv'
<1> USE DEF AppInv, Keep, Go
<1>1. Involved(c) /\ started /\ child[c] # "none"
  BY DEF OneInvolved, Involved, Starting
<1>2. SessionTypeOK'
  BY SessionOK DEF SessionTypeOK, mainVars
<1>3. OneInvolved'
  BY DEF OneInvolved, Involved, Starting, SessionTypeOK
<1>4. Watched'
  BY <1>1 DEF Watched, OneInvolved, Involved, SessionTypeOK
<1>5. ShutdownOrder'
  <2>1. \A d \in Conns : ~Ready(d) /\ (Ready(d)' <=> d = c)
    BY <1>1 DEF Ready, OneInvolved, Involved, SessionTypeOK
  <2>2. due = {} /\ {d \in Conns : Ready(d)}' = {c}
    BY <2>1 DEF ShutdownOrder, SessionTypeOK
  <2> QED BY <2>2 DEF ShutdownOrder, mainVars
<1> QED
  BY <1>2, <1>3, <1>4, <1>5

LEMMA DisconnectKeeps ==
  ASSUME AppInv, NEW c \in Conns, Disconnect(c)
  PROVE  AppInv'
<1> USE DEF AppInv, Disconnect, Go
<1>1. SessionTypeOK'
  BY DEF SessionTypeOK, displayVars, mainVars
<1>2. OneInvolved'
  BY DEF OneInvolved, Involved, Starting, SessionTypeOK
<1>3. Watched'
  BY DEF Watched, SessionTypeOK
<1>4. ShutdownOrder'
  BY OrderStays DEF Ready, SessionTypeOK
<1> QED
  BY <1>1, <1>2, <1>3, <1>4

\* The displays of whoever, the discovery and the signal.
LEMMA DisplaysKeep ==
  ASSUME AppInv, NestListens \/ OthersListen \/ Look \/ Signal
  PROVE  AppInv'
<1> USE DEF AppInv, NestListens, OthersListen, Look, Signal, DisplaysOnly
<1>1. UNCHANGED <<conn, child, started, killTx, killed, watcher, watching, mainVars>>
  OBVIOUS
<1>2. SessionTypeOK'
  <2>1. /\ live' \subseteq Displays /\ before' = before /\ opened' \in live' \cup {NoDisplay}
        /\ shutdown' \in BOOLEAN
    BY DEF SessionTypeOK, displayVars
  <2>2. polls' \in 0..MaxPolls
    BY SessionOK DEF SessionTypeOK, displayVars
  <2>3. nested' \in Displays \cup {NoDisplay}
    BY DEF SessionTypeOK, NewDisplay, displayVars
  <2> QED BY <1>1, <2>1, <2>2, <2>3 DEF SessionTypeOK, mainVars
<1>3. OneInvolved' /\ Watched'
  BY <1>1 DEF OneInvolved, Involved, Starting, Watched
<1>4. ShutdownOrder'
  <2>1. shutdown' = shutdown \/ shutdown'
    OBVIOUS
  <2> QED BY <1>1, <2>1, OrderStays DEF Ready, SessionTypeOK
<1> QED
  BY <1>2, <1>3, <1>4

\* The application exits.
LEMMA ExitKeeps ==
  ASSUME AppInv, main # "down", NEW c \in Conns, Exit(c)
  PROVE  AppInv'
<1> USE DEF AppInv, Exit, Become, CloseNest
<1>1. SessionTypeOK'
  BY DEF SessionTypeOK, mainVars
<1>2. OneInvolved'
  BY DEF OneInvolved, Involved, Starting, SessionTypeOK
<1>3. Watched'
  BY DEF Watched, SessionTypeOK
<1>4. ShutdownOrder'
  <2>1. \A d \in Conns : Ready(d)' <=> Ready(d)
    BY DEF Ready, SessionTypeOK
  <2>2. {d \in Conns : Ready(d)}' = {d \in Conns : Ready(d)}
    BY <2>1
  <2>3. \A d \in Conns : /\ child[d] = "reaped" => child'[d] = "reaped"
                         /\ child[d] # "dropped" => child'[d] # "dropped"
    BY DEF SessionTypeOK
  <2>4. due \subseteq Conns
    BY DEF SessionTypeOK
  <2> HIDE DEF AppInv
  <2> QED BY <2>1, <2>2, <2>3, <2>4 DEF AppInv, ShutdownOrder, mainVars
<1> QED
  BY <1>1, <1>2, <1>3, <1>4

\* The watcher reaps the child, after its exit or with the kill signal.
LEMMA WatcherKeeps ==
  ASSUME AppInv, main # "down", NEW c \in Conns, WatcherStep(c)
  PROVE  AppInv'
<1> USE DEF AppInv, WatcherStep, WatcherReaps, WatcherKills, Become, ReportExit, CloseNest
<1>1. SessionTypeOK'
  BY DEF SessionTypeOK, displayVars, mainVars
<1>2. child[c] # "none"
  BY DEF Watched
<1>3. OneInvolved'
  BY <1>2 DEF OneInvolved, Involved, Starting, SessionTypeOK
<1>4. Watched'
  BY DEF Watched, SessionTypeOK
<1>5. ShutdownOrder'
  <2>1. \A d \in Conns : Ready(d)' <=> Ready(d)
    BY <1>2 DEF Ready, SessionTypeOK
  <2>2. {d \in Conns : Ready(d)}' = {d \in Conns : Ready(d)}
    BY <2>1
  <2>3. \A d \in Conns : /\ child[d] = "reaped" => child'[d] = "reaped"
                         /\ child[d] # "dropped" => child'[d] # "dropped"
    BY DEF SessionTypeOK
  <2>4. due \subseteq Conns
    BY DEF SessionTypeOK
  <2>5. UNCHANGED <<watcher, mainVars>> /\ (shutdown' = shutdown \/ shutdown')
    OBVIOUS
  <2>6. ShutdownOrder
    OBVIOUS
  <2> HIDE DEF AppInv, WatcherStep, WatcherReaps, WatcherKills, Become, ReportExit, CloseNest
  <2> QED BY <2>1, <2>2, <2>3, <2>4, <2>5, <2>6 DEF ShutdownOrder, mainVars
<1> QED
  BY <1>1, <1>3, <1>4, <1>5

LEMMA StepNames ==
  \A step \in {"forward", "encoder", "server", "kill", "take", "reap", "done", "down"} :
    \E i \in DOMAIN ShutdownSteps : step = ShutdownSteps[i]
<1>1. /\ 2 \in DOMAIN ShutdownSteps /\ ShutdownSteps[2] = "forward"
      /\ 3 \in DOMAIN ShutdownSteps /\ ShutdownSteps[3] = "encoder"
      /\ 4 \in DOMAIN ShutdownSteps /\ ShutdownSteps[4] = "server"
      /\ 5 \in DOMAIN ShutdownSteps /\ ShutdownSteps[5] = "kill"
      /\ 6 \in DOMAIN ShutdownSteps /\ ShutdownSteps[6] = "take"
      /\ 7 \in DOMAIN ShutdownSteps /\ ShutdownSteps[7] = "reap"
      /\ 8 \in DOMAIN ShutdownSteps /\ ShutdownSteps[8] = "done"
      /\ 9 \in DOMAIN ShutdownSteps /\ ShutdownSteps[9] = "down"
  BY DEF ShutdownSteps
<1> QED
  BY <1>1

\* Main's steps: who was ready when the kill was sent is awaited, and reaped
\* when it has been.
LEMMA MainKeeps ==
  ASSUME AppInv, MainStep
  PROVE  AppInv'
<1> USE DEF AppInv, MainStep, Step
<1>1. /\ main' \in {"forward", "encoder", "server", "kill", "take", "reap", "done", "down"}
      /\ UNCHANGED <<conn, started, watching, shutdown, displayVars>>
  BY DEF CloseDisplay, JoinServer, KillApp, TakeWatcher, ReapApp, DropRuntime
<1>2. /\ timedOut' \in BOOLEAN /\ killed' \subseteq Conns /\ killTx' \subseteq Conns
      /\ watcher' \subseteq Conns /\ awaited' \subseteq Conns /\ due' \subseteq Conns
  BY DEF SessionTypeOK, CloseDisplay, JoinServer, KillApp, TakeWatcher, ReapApp, DropRuntime
<1>3. /\ child' \in [Conns -> {"none", "running", "exited", "reaped", "dropped"}]
      /\ \A c \in Conns : /\ child'[c] = "none" <=> child[c] = "none"
                          /\ child'[c] \in {"running", "exited"} => child'[c] = child[c]
                          /\ child[c] = "reaped" => child'[c] = "reaped"
                          /\ main' # "down" => child'[c] = child[c]
  BY DEF SessionTypeOK, CloseDisplay, JoinServer, KillApp, TakeWatcher, ReapApp, DropRuntime
<1>4. SessionTypeOK'
  BY <1>1, <1>2, <1>3, StepNames DEF SessionTypeOK, displayVars
<1>5. OneInvolved' /\ Watched'
  <2>1. OneInvolved /\ Watched
    OBVIOUS
  <2> HIDE DEF AppInv, MainStep, Step
  <2>0. conn' = conn /\ started' = started /\ watching' = watching
    BY <1>1
  <2>5. \A c \in Conns : child'[c] = "none" <=> child[c] = "none"
    BY <1>3
  <2>2. \A c \in Conns : Involved(c)' <=> Involved(c)
    BY <2>0, <2>5 DEF Involved
  <2>3. OneInvolved'
    BY <2>0, <2>1, <2>2, <2>5 DEF OneInvolved
  <2>6. \A c \in Conns : child'[c] \in {"running", "exited"} => child'[c] = child[c]
    BY <1>3
  <2>4. Watched'
    BY <2>0, <2>1, <2>5, <2>6 DEF Watched
  <2> QED BY <2>3, <2>4
<1>6. /\ \A c \in Conns : Ready(c)' <=> Ready(c)
      /\ {c \in Conns : Ready(c)}' = {c \in Conns : Ready(c)}
  <2> HIDE DEF AppInv, MainStep, Step
  <2>1. \A c \in Conns : Ready(c)' <=> Ready(c)
    BY <1>1, <1>3 DEF Ready
  <2> QED BY <2>1
<1>7. ShutdownOrder'
  <2>0. due \subseteq Conns
    BY DEF SessionTypeOK
  <2>1. CASE CloseDisplay \/ JoinServer
    BY <1>3, <1>6, <2>0, <2>1 DEF ShutdownOrder, CloseDisplay, JoinServer
  <2>2. CASE KillApp
    BY <1>3, <1>6, <2>2 DEF ShutdownOrder, KillApp
  <2>3. CASE TakeWatcher
    BY <1>3, <1>6, <2>0, <2>3 DEF ShutdownOrder, TakeWatcher
  <2>4. CASE ReapApp
    <3>1. ASSUME ~timedOut', NEW c \in due PROVE child[c] = "reaped"
      <4>1. c \in awaited /\ c \notin watching /\ Ready(c) /\ child[c] # "dropped" /\ c \in Conns
        BY <2>0, <2>4, <3>1 DEF ShutdownOrder, ReapApp
      <4> QED BY <4>1 DEF Watched, Ready, SessionTypeOK
    <3> QED BY <1>3, <1>6, <2>0, <2>4, <3>1 DEF ShutdownOrder, ReapApp
  <2>5. CASE DropRuntime
    BY <1>3, <1>6, <2>0, <2>5 DEF ShutdownOrder, DropRuntime
  <2> QED BY <2>1, <2>2, <2>3, <2>4, <2>5
<1> QED
  BY <1>4, <1>5, <1>7

LEMMA AppStutter ==
  ASSUME AppInv, UNCHANGED sessionVars
  PROVE  AppInv'
BY DEF AppInv, sessionVars, displayVars, mainVars, SessionTypeOK, OneInvolved, Involved, Starting,
       Watched, ShutdownOrder, Ready

LEMMA AppStep ==
  ASSUME AppInv, [SessionNext]_sessionVars
  PROVE  AppInv'
<1>1. CASE UNCHANGED sessionVars
  BY <1>1, AppStutter
<1>2. ASSUME main # "down", NEW c \in Conns, HandlerStep(c) \/ WatcherStep(c) \/ Exit(c)
      PROVE  AppInv'
  BY <1>2, SwapKeeps, SpawnKeeps, ArmKeeps, WatchKeeps, KeepKeeps, DisconnectKeeps,
     WatcherKeeps, ExitKeeps DEF HandlerStep
<1>3. CASE NestListens \/ OthersListen \/ Look \/ Signal \/ MainStep
  BY <1>3, DisplaysKeep, MainKeeps
<1> QED
  BY <1>1, <1>2, <1>3 DEF SessionNext

-----------------------------------------------------------------------------
(***************************************************************************)
(* The one life of the application.                                         *)
(***************************************************************************)

\* A kill is asked for at the end only; who is watched lives or has exited, and
\* nobody is reaped before there is a watcher.
WatchOrder ==
  /\ killed # {} => main \in {"take", "reap", "done", "down"}
  /\ \A c \in Conns :
       /\ main # "down" /\ c \in watching =>
            child[c] \in {"running", "exited"} /\ conn[c] \in {"keep", "served", "gone"}
       /\ child[c] = "reaped" => conn[c] \in {"keep", "served", "gone"}

LifeInv == AppInv /\ WatchOrder

LEMMA WatchOrderKept ==
  ASSUME LifeInv, [SessionNext]_sessionVars
  PROVE  WatchOrder'
<1>1. /\ conn \in [Conns -> {"new", "served", "gone"} \cup Starting]
      /\ child \in [Conns -> {"none", "running", "exited", "reaped", "dropped"}]
  BY DEF LifeInv, AppInv, SessionTypeOK
<1> USE DEF LifeInv, WatchOrder, mainVars
<1>2. CASE UNCHANGED sessionVars
  BY <1>2 DEF sessionVars
<1>3. ASSUME main # "down", NEW c \in Conns, HandlerStep(c) PROVE WatchOrder'
  <2> USE <1>1, <1>3 DEF Go, Become, Starting
  <2>1. CASE Swap(c)
    BY <2>1 DEF Swap, AppInv, OneInvolved
  <2>2. CASE Spawn(c)
    <3>1. conn[c] = "spawn" /\ child[c] = "none" /\ c \notin watching
      BY <2>2 DEF Spawn, AppInv, OneInvolved
    <3> QED BY <2>2, <3>1 DEF Spawn, Fail
  <2>3. CASE Arm(c)
    BY <2>3 DEF Arm
  <2>4. CASE Watch(c)
    <3>1. conn[c] = "watch" /\ child[c] \in {"running", "exited"}
      BY <2>4 DEF Watch, AppInv, OneInvolved, ShutdownOrder
    <3> QED BY <2>4, <3>1 DEF Watch
  <2>5. CASE Keep(c)
    BY <2>5 DEF Keep
  <2>6. CASE Disconnect(c)
    BY <2>6 DEF Disconnect
  <2> QED
    BY <1>3, <2>1, <2>2, <2>3, <2>4, <2>5, <2>6 DEF HandlerStep
<1>4. ASSUME main # "down", NEW c \in Conns, WatcherStep(c) \/ Exit(c) PROVE WatchOrder'
  BY <1>1, <1>4 DEF WatcherStep, WatcherReaps, WatcherKills, Exit, Become
<1>5. CASE NestListens \/ OthersListen \/ Look \/ Signal
  BY <1>5 DEF NestListens, OthersListen, DisplaysOnly, Look, Signal
<1>6. CASE MainStep
  <2>1. CASE CloseDisplay \/ JoinServer \/ KillApp \/ TakeWatcher \/ ReapApp
    BY <2>1 DEF CloseDisplay, JoinServer, KillApp, TakeWatcher, ReapApp, Step
  <2>2. CASE DropRuntime
    BY <1>1, <2>2 DEF DropRuntime, Step
  <2> QED BY <1>6, <2>1, <2>2 DEF MainStep
<1> QED
  BY <1>2, <1>3, <1>4, <1>5, <1>6 DEF SessionNext

\* Who is ready, as a set.
ReadySet == {c \in Conns : child[c] # "none" /\ conn[c] \in {"served", "gone"}}

LEMMA LifeStep ==
  ASSUME LifeInv, AppInv', [SessionNext]_sessionVars
  PROVE  [Life!Next]_Life!lifeVars
<1>1. /\ child \in [Conns -> {"none", "running", "exited", "reaped", "dropped"}]
      /\ conn \in [Conns -> {"new", "served", "gone"} \cup Starting]
      /\ main # "render" => shutdown
      /\ timedOut \in BOOLEAN
  BY DEF LifeInv, AppInv, SessionTypeOK, ShutdownOrder
<1>2. ASSUME UNCHANGED <<child, main, due, timedOut>>, shutdown' = shutdown, ReadySet' = ReadySet
      PROVE  UNCHANGED Life!lifeVars
  BY <1>2 DEF Life!lifeVars, InState, ReadySet
<1>3. CASE UNCHANGED sessionVars
  BY <1>2, <1>3 DEF sessionVars, mainVars, ReadySet
<1>4. ASSUME NEW c \in Conns, Swap(c) \/ Arm(c) \/ Watch(c) \/ Disconnect(c)
      PROVE  UNCHANGED Life!lifeVars
  <2>1. UNCHANGED <<child, main, due, shutdown, timedOut>>
    BY <1>4 DEF Swap, Arm, Watch, Disconnect, mainVars
  <2>2. \A d \in Conns : Ready(d)' <=> Ready(d)
    BY <1>1, <1>4 DEF Swap, Arm, Watch, Disconnect, Go, Ready, LifeInv, AppInv, OneInvolved
  <2> QED BY <1>2, <2>1, <2>2 DEF ReadySet, Ready
<1>5. ASSUME NEW c \in Conns, NEW state \in {"running", "exited", "reaped"},
             child' = [child EXCEPT ![c] = state], child[c] # "dropped"
      PROVE  /\ InState(state)' = InState(state) \cup {c}
             /\ state # "running" => InState("running")' = InState("running") \ {c}
             /\ state # "exited" => InState("exited")' = InState("exited") \ {c}
             /\ state # "reaped" => InState("reaped")' = InState("reaped") \ {c}
             /\ InState("dropped")' = InState("dropped")
  BY <1>1, <1>5 DEF InState
<1>6. ASSUME main # "down", NEW c \in Conns, Spawn(c)
      PROVE  [Life!Next]_Life!lifeVars
  <2>0. /\ conn[c] = "spawn" /\ child[c] = "none" /\ UNCHANGED <<main, shutdown, due, timedOut>>
        /\ conn' = [conn EXCEPT ![c] = "arm"] \/ (child' = child /\ conn' = [conn EXCEPT ![c] = "served"])
    <3>1. conn[c] = "spawn" /\ UNCHANGED <<main, shutdown, due, timedOut>>
      BY <1>6 DEF Spawn, mainVars
    <3>2. conn' = [conn EXCEPT ![c] = "arm"] \/ (child' = child /\ conn' = [conn EXCEPT ![c] = "served"])
      BY <1>6 DEF Spawn, Fail, Go
    <3>3. child[c] = "none"
      BY <3>1 DEF LifeInv, AppInv, OneInvolved
    <3> QED BY <3>1, <3>2, <3>3
  <2>1. ReadySet' = ReadySet
    <3>1. \A d \in Conns : child[d] = "none"
      BY <2>0 DEF LifeInv, AppInv, OneInvolved, Involved, Starting
    <3>2. \A d \in Conns \ {c} : child'[d] = child[d]
      BY <1>1, <1>6 DEF Spawn, Fail, Become
    <3> QED BY <1>1, <2>0, <3>1, <3>2 DEF ReadySet
  <2>2. CASE Fail(c)
    BY <1>2, <2>0, <2>1, <2>2 DEF Fail
  <2>3. CASE Become(c, "running")
    <3>1. \A d \in Conns : child[d] = "none"
      BY <2>0 DEF LifeInv, AppInv, OneInvolved, Involved, Starting
    <3>2. InState("running") = {} /\ InState("exited") = {} /\ InState("reaped") = {}
      BY <3>1 DEF InState
    <3>3. /\ InState("running")' = {c} /\ InState("exited")' = {} /\ InState("reaped")' = {}
          /\ InState("dropped")' = InState("dropped")
      BY <1>5, <2>0, <2>3, <3>2 DEF Become
    <3>4. Life!Start(c)
      BY <1>6, <2>0, <2>1, <3>2, <3>3 DEF Life!Start, ReadySet
    <3> QED BY <3>4 DEF Life!Next
  <2> QED BY <1>6, <2>2, <2>3 DEF Spawn
<1>7. ASSUME main # "down", NEW c \in Conns, Keep(c)
      PROVE  Life!Settle(c)
  <2>1. /\ conn[c] = "keep" /\ conn' = [conn EXCEPT ![c] = "served"]
        /\ UNCHANGED <<child, main, shutdown, due, timedOut>>
    BY <1>7 DEF Keep, Go, mainVars
  <2>2. child[c] \in {"running", "exited", "reaped"}
    BY <1>1, <1>7, <2>1 DEF LifeInv, AppInv, OneInvolved, ShutdownOrder
  <2>3. ReadySet' = ReadySet \cup {c}
    BY <1>1, <2>1, <2>2 DEF ReadySet
  <2>4. c \in InState("running") \cup InState("exited") \cup InState("reaped")
    BY <2>2 DEF InState
  <2>5. UNCHANGED <<InState("running"), InState("exited"), InState("reaped"), InState("dropped")>>
    BY <2>1 DEF InState
  <2> QED
    BY <1>7, <2>1, <2>3, <2>4, <2>5 DEF Life!Settle, ReadySet
<1>8. ASSUME main # "down", NEW c \in Conns, Exit(c)
      PROVE  Life!Exit(c)
  <2>1. child[c] = "running" /\ child' = [child EXCEPT ![c] = "exited"]
        /\ UNCHANGED <<conn, main, due, shutdown, timedOut>>
    BY <1>8 DEF Exit, Become, mainVars
  <2>2. c \in InState("running") /\ c \notin InState("reaped")
    BY <2>1 DEF InState
  <2>3. InState("reaped") \ {c} = InState("reaped")
    BY <2>2
  <2>4. /\ InState("exited")' = InState("exited") \cup {c}
        /\ InState("running")' = InState("running") \ {c}
        /\ InState("reaped")' = InState("reaped") \ {c}
        /\ InState("dropped")' = InState("dropped")
    BY <1>5, <2>1
  <2>5. ReadySet' = ReadySet
    BY <1>1, <2>1 DEF ReadySet
  <2> QED BY <1>8, <2>1, <2>2, <2>3, <2>4, <2>5 DEF Life!Exit, ReadySet
<1>9. ASSUME main # "down", NEW c \in Conns, WatcherStep(c)
      PROVE  Life!Reap(c) \/ Life!Kill(c)
  <2>1. /\ child' = [child EXCEPT ![c] = "reaped"] /\ UNCHANGED <<conn, main, due, timedOut>>
        /\ c \in watching /\ child[c] \in {"running", "exited"}
    BY <1>9 DEF WatcherStep, WatcherReaps, WatcherKills, Become, mainVars, LifeInv, WatchOrder
  <2>2. /\ InState("reaped")' = InState("reaped") \cup {c}
        /\ InState("running")' = InState("running") \ {c}
        /\ InState("exited")' = InState("exited") \ {c}
        /\ InState("dropped")' = InState("dropped")
    BY <1>5, <2>1
  <2>3. ReadySet' = ReadySet
    BY <1>1, <2>1 DEF ReadySet
  <2>4. CASE WatcherReaps(c)
    <3>1. child[c] = "exited" /\ shutdown'
      BY <2>4 DEF WatcherReaps, ReportExit
    <3>2. c \in InState("exited") /\ InState("running") \ {c} = InState("running")
      BY <3>1 DEF InState
    <3>3. Life!Reap(c)
      BY <1>1, <1>9, <2>1, <2>2, <2>3, <3>1, <3>2 DEF Life!Reap, ReadySet
    <3> QED BY <3>3
  <2>5. CASE WatcherKills(c)
    <3>1. main \in {"take", "reap", "done"} /\ UNCHANGED shutdown
      BY <1>9, <2>5 DEF WatcherKills, LifeInv, WatchOrder
    <3>2. c \in InState("running") \cup InState("exited")
      BY <2>1 DEF InState
    <3>3. Life!Kill(c)
      BY <2>1, <2>2, <2>3, <3>1, <3>2 DEF Life!Kill, ReadySet
    <3> QED BY <3>3
  <2> QED BY <1>9, <2>4, <2>5 DEF WatcherStep
<1>10. CASE NestListens \/ OthersListen \/ Look
  BY <1>2, <1>10 DEF NestListens, OthersListen, DisplaysOnly, Look, mainVars, ReadySet
<1>11. ASSUME UNCHANGED <<child, conn>>
       PROVE  UNCHANGED <<InState("running"), InState("exited"), InState("reaped"),
                          InState("dropped"), ReadySet>>
  BY <1>11 DEF InState, ReadySet
<1>12. CASE Signal
  <2>1. main = "render" /\ ~shutdown /\ shutdown' /\ UNCHANGED <<conn, child, main, due, timedOut>>
    BY <1>1, <1>12 DEF Signal, mainVars
  <2>2. Life!Close
    BY <1>11, <2>1 DEF Life!Close, ReadySet
  <2> QED BY <2>2 DEF Life!Next
<1>13. CASE MainStep
  <2>1. CASE CloseDisplay \/ JoinServer \/ TakeWatcher
    <3>1. /\ UNCHANGED <<conn, child, shutdown, due, timedOut>> /\ main # "down" /\ main' # "down"
          /\ main' \in {"take", "reap", "done"} <=> main \in {"take", "reap", "done"}
      BY <2>1 DEF CloseDisplay, JoinServer, TakeWatcher, Step
    <3>2. UNCHANGED Life!lifeVars
      BY <1>11, <3>1 DEF Life!lifeVars, ReadySet
    <3> QED BY <3>2
  <2>2. CASE KillApp
    <3>1. /\ main = "kill" /\ main' = "take" /\ due' = watcher
          /\ UNCHANGED <<conn, child, shutdown, timedOut>>
      BY <2>2 DEF KillApp, Step
    <3>2. watcher = ReadySet
      BY <3>1 DEF LifeInv, AppInv, ShutdownOrder, ReadySet, Ready
    <3>3. Life!Close
      BY <1>1, <1>11, <3>1, <3>2 DEF Life!Close, ReadySet
    <3> QED BY <3>3 DEF Life!Next
  <2>3. CASE ReapApp
    <3>1. /\ main = "reap" /\ main' = "done" /\ timedOut' \in {timedOut, TRUE}
          /\ UNCHANGED <<conn, child, shutdown, due>>
      BY <2>3 DEF ReapApp, Step
    <3>2. CASE timedOut' = timedOut
      BY <1>11, <3>1, <3>2 DEF Life!lifeVars, ReadySet
    <3>3. CASE timedOut' = TRUE
      <4>1. Life!GiveUp
        BY <1>11, <3>1, <3>3 DEF Life!GiveUp, ReadySet
      <4> QED BY <4>1 DEF Life!Next
    <3> QED BY <3>1, <3>2, <3>3
  <2>4. CASE DropRuntime
    <3>1. /\ main = "done" /\ main' = "down" /\ UNCHANGED <<conn, shutdown, due, timedOut>>
          /\ child' = [c \in Conns |-> IF child[c] = "running" THEN "dropped" ELSE child[c]]
      BY <2>4 DEF DropRuntime, Step
    <3>2. /\ InState("running")' = {} /\ InState("exited")' = InState("exited")
          /\ InState("reaped")' = InState("reaped")
      BY <1>1, <3>1 DEF InState
    <3>3. InState("dropped")' = InState("running")
      BY <1>1, <3>1 DEF InState, LifeInv, AppInv, ShutdownOrder
    <3>4. due \subseteq InState("reaped") \/ timedOut
      BY <3>1 DEF LifeInv, AppInv, ShutdownOrder, SessionTypeOK, InState
    <3>5. ReadySet' = ReadySet
      BY <1>1, <3>1 DEF ReadySet
    <3>6. Life!GoDown
      BY <3>1, <3>2, <3>3, <3>4, <3>5 DEF Life!GoDown, ReadySet
    <3> QED BY <3>6 DEF Life!Next
  <2> QED BY <1>13, <2>1, <2>2, <2>3, <2>4 DEF MainStep
<1> QED
  BY <1>3, <1>4, <1>6, <1>7, <1>8, <1>9, <1>10, <1>12, <1>13
     DEF SessionNext, HandlerStep, Life!Next

\* SessionManager and the end of main, seen from outside: one application with
\* one life, for any number of connections that race to start it and any order
\* of its exit, a signal and the steps of the shutdown.
THEOREM AppHasOneLife == NestedSpec => AppLifeKept
<1>1. NestedInit => LifeInv /\ Life!Init
  <2> SUFFICES ASSUME SessionInit PROVE LifeInv /\ Life!Init
    BY DEF NestedInit
  <2>1. WatchOrder
    BY DEF SessionInit, WatchOrder
  <2>2. Life!Init
    BY DEF SessionInit, Life!Init, InState
  <2> QED BY <2>1, <2>2, AppInitHolds DEF LifeInv
<1>2. [NestedNext]_nestedVars => [SessionNext]_sessionVars
  BY DEF NestedNext, nestedVars
<1>3. LifeInv /\ [NestedNext]_nestedVars => LifeInv' /\ [Life!Next]_Life!lifeVars
  BY <1>2, AppStep, WatchOrderKept, LifeStep DEF LifeInv
<1> QED
  BY <1>1, <1>3, PTL DEF NestedSpec, AppLifeKept, Life!Safety

-----------------------------------------------------------------------------
(***************************************************************************)
(* The clipboard bridge.                                                    *)
(*                                                                          *)
(* It never waits for itself because the compositor tells it that its source  *)
(* is cancelled before anybody else's selection is announced: once the bridge *)
(* has given up its ownership nothing of its own can be announced any more.   *)
(***************************************************************************)
Events ==
  [kind : {"cancelled"}, id : Nat] \cup [kind : {"selection"}, sel : Selections]

\* Whose selection an event is about.
Id(e) == IF e.kind = "cancelled" THEN e.id ELSE e.sel.id

BridgeTypes ==
  /\ clipIn \in Seq(Values \cup {Huge}) /\ Len(clipIn) <= QueueCap
  /\ forwarder \in {"waiting", "running", "ended"}
  /\ toRemote \in Seq(Values \cup {Huge})
  /\ bridge \in {"none", "up", "ended"}
  /\ source \in mine \cup {0} /\ owning \in BOOLEAN /\ (owning <=> source # 0)
  /\ serveBytes \in Values \cup {Empty}
  /\ lastValue \in Values \cup {Empty, NoValue} /\ clipOut \in Values \cup {Empty}
  /\ selection \in Selections /\ requests \in Seq(Selections) /\ events \in Seq(Events)
  /\ lastId \in Nat /\ mine \subseteq 1..lastId

\* No id is from the future, and only the bridge's sources are cancelled.
IdsKnown ==
  /\ selection.id <= lastId
  /\ \A i \in 1..Len(requests) : requests[i].id \in mine
  /\ \A i \in 1..Len(events) : /\ Id(events[i]) <= lastId
                               /\ events[i].kind = "cancelled" => events[i].id \in mine

\* Before the bridge there is nothing of its own.
NotYet == forwarder = "waiting" => bridge = "none" /\ requests = << >> /\ mine = {}

\* Nothing of the bridge's own is selected, asked for or about to be announced
\* after the first n events.
Forsaken(n) ==
  /\ requests = << >> /\ selection.id \notin mine
  /\ \A j \in 1..Len(events) : j > n => Id(events[j]) \notin mine

CancelAt(i) == events[i].kind = "cancelled" /\ events[i].id = source

GivenUp ==
  /\ source = 0 => Forsaken(0)
  /\ \A i \in 1..Len(events) : CancelAt(i) => Forsaken(i)

\* The last request is for the source, which nobody knows yet.
Asked ==
  requests # << >> =>
    /\ requests[Len(requests)].id = source /\ requests[Len(requests)].value = serveBytes
    /\ \A i \in 1..(Len(requests) - 1) : requests[i].id # source
    /\ selection.id # source
    /\ \A i \in 1..Len(events) : Id(events[i]) # source

Served ==
  /\ requests = << >> /\ selection.id \in mine =>
       selection.id = source /\ selection.value = serveBytes
  /\ source # 0 => lastValue = serveBytes

\* Somebody else's selection has been read or is the last to be announced,
\* and before it that the source is cancelled.
Told ==
  bridge = "up" /\ requests = << >> /\ selection.id \notin mine =>
    /\ source # 0 => \E i \in 1..Len(events) : CancelAt(i)
    /\ events = << >> => (selection.value \in Values => lastValue = selection.value)
    /\ events # << >> => events[Len(events)] = Selected(selection)

BridgeInv == BridgeTypes /\ IdsKnown /\ NotYet /\ GivenUp /\ Asked /\ Served /\ Told

LEMMA EventFacts ==
  /\ \A id \in Nat : Cancelled(id) \in Events /\ Id(Cancelled(id)) = id
                     /\ Cancelled(id).kind = "cancelled" /\ Cancelled(id).id = id
  /\ \A sel \in Selections : Selected(sel) \in Events /\ Id(Selected(sel)) = sel.id
                             /\ Selected(sel).kind = "selection" /\ Selected(sel).sel = sel
  /\ \A e \in Events : \/ e.kind = "cancelled" /\ e.id \in Nat
                       \/ e.kind = "selection" /\ e.sel \in Selections
<1>1. ASSUME NEW id \in Nat
      PROVE  Cancelled(id) \in Events /\ Id(Cancelled(id)) = id
             /\ Cancelled(id).kind = "cancelled" /\ Cancelled(id).id = id
  BY DEF Cancelled, Events, Id
<1>2. ASSUME NEW sel \in Selections
      PROVE  Selected(sel) \in Events /\ Id(Selected(sel)) = sel.id
             /\ Selected(sel).kind = "selection" /\ Selected(sel).sel = sel
  BY DEF Selected, Events, Id
<1>3. ASSUME NEW e \in Events
      PROVE  \/ e.kind = "cancelled" /\ e.id \in Nat
             \/ e.kind = "selection" /\ e.sel \in Selections
  BY DEF Events
<1> QED
  BY <1>1, <1>2, <1>3

LEMMA SelectionFacts ==
  /\ NoSelection \in Selections /\ NoSelection.id = 0 /\ NoSelection.value = Empty
  /\ \A i \in Nat, v \in Values \cup {Empty, Huge, Opaque} :
       LET s == [id |-> i, value |-> v] IN s \in Selections /\ s.id = i /\ s.value = v
BY DEF NoSelection, Selections

\* Two values appended, and one.
LEMMA TwoMore ==
  ASSUME NEW S, NEW q \in Seq(S), NEW a \in S, NEW b \in S
  PROVE  /\ Append(q, a) \o <<b>> \in Seq(S)
         /\ Len(Append(q, a) \o <<b>>) = Len(q) + 2
         /\ \A i \in 1..Len(q) : (Append(q, a) \o <<b>>)[i] = q[i]
         /\ (Append(q, a) \o <<b>>)[Len(q) + 1] = a
         /\ (Append(q, a) \o <<b>>)[Len(q) + 2] = b
<1> DEFINE r == Append(q, a)
<1>1. /\ r \in Seq(S) /\ Len(r) = Len(q) + 1 /\ r[Len(q) + 1] = a
      /\ \A i \in 1..Len(q) : r[i] = q[i]
  OBVIOUS
<1> HIDE DEF r
<1>2. /\ r \o <<b>> \in Seq(S) /\ Len(r \o <<b>>) = Len(r) + 1
      /\ \A i \in 1..Len(r) : (r \o <<b>>)[i] = r[i]
      /\ (r \o <<b>>)[Len(r) + 1] = b
  BY <1>1
<1>3. QED
  BY <1>1, <1>2 DEF r

LEMMA OneMore ==
  ASSUME NEW S, NEW q \in Seq(S), NEW b \in S
  PROVE  /\ q \o <<b>> \in Seq(S) /\ Len(q \o <<b>>) = Len(q) + 1
         /\ \A i \in 1..Len(q) : (q \o <<b>>)[i] = q[i]
         /\ (q \o <<b>>)[Len(q) + 1] = b
OBVIOUS

LEMMA FirstGone ==
  ASSUME NEW S, NEW q \in Seq(S), q # << >>
  PROVE  /\ Tail(q) \in Seq(S) /\ Head(q) = q[1] /\ q[1] \in S /\ Len(q) \in Nat \ {0}
         /\ Len(Tail(q)) = Len(q) - 1
         /\ \A i \in 1..(Len(q) - 1) : Tail(q)[i] = q[i + 1]
OBVIOUS

\* What a new selection adds to the events: the cancellation of a source of
\* the bridge, and the selection itself.
LEMMA ReplaceTells ==
  ASSUME BridgeTypes, NEW sel \in Selections, Replace(sel)
  PROVE  /\ events' \in Seq(Events) /\ Len(events) \in Nat
         /\ Len(events') \in Nat /\ Len(events') >= Len(events)
         /\ \A i \in 1..Len(events) : events'[i] = events[i]
         /\ \A i \in 1..Len(events') : i > Len(events) =>
              \/ events'[i] = Selected(sel)
              \/ /\ i = Len(events) + 1 /\ selection.id \in mine
                 /\ events'[i] = Cancelled(selection.id)
         /\ bridge = "up" =>
              /\ events' # << >> /\ events'[Len(events')] = Selected(sel)
              /\ selection.id \in mine => /\ Len(events) + 1 \in 1..Len(events')
                                          /\ events'[Len(events) + 1] = Cancelled(selection.id)
<1>0. events \in Seq(Events) /\ bridge # "stuck" /\ selection.id \in Nat
  BY DEF BridgeTypes, Selections
<1>1. Selected(sel) \in Events /\ Cancelled(selection.id) \in Events
  BY <1>0, EventFacts
<1>2. CASE bridge # "up"
  BY <1>0, <1>2 DEF Replace
<1>3. CASE bridge = "up" /\ selection.id \in mine
  <2> DEFINE a == Cancelled(selection.id)  b == Selected(sel)
  <2>1. events' = Append(events, a) \o <<b>>
    BY <1>3 DEF Replace
  <2>2. a \in Events /\ b \in Events
    BY <1>1
  <2> HIDE DEF a, b
  <2>3. /\ events' \in Seq(Events) /\ Len(events') = Len(events) + 2
        /\ \A i \in 1..Len(events) : events'[i] = events[i]
        /\ events'[Len(events) + 1] = a /\ events'[Len(events) + 2] = b
    BY <1>0, <2>1, <2>2, TwoMore
  <2>4. Len(events) \in Nat /\ events' # << >>
    BY <1>0, <2>3
  <2> QED
    BY <1>3, <2>3, <2>4 DEF a, b
<1>4. CASE bridge = "up" /\ selection.id \notin mine
  <2> DEFINE b == Selected(sel)
  <2>1. events' = events \o <<b>>
    BY <1>4 DEF Replace
  <2>2. b \in Events
    BY <1>1
  <2> HIDE DEF b
  <2>3. /\ events' \in Seq(Events) /\ Len(events') = Len(events) + 1
        /\ \A i \in 1..Len(events) : events'[i] = events[i]
        /\ events'[Len(events) + 1] = b
    BY <1>0, <2>1, <2>2, OneMore
  <2>4. Len(events) \in Nat /\ events' # << >>
    BY <1>0, <2>3
  <2> QED
    BY <1>4, <2>3, <2>4 DEF b
<1> QED
  BY <1>2, <1>3, <1>4

LEMMA BridgeInit == ClipboardInit => BridgeInv
<1> SUFFICES ASSUME ClipboardInit PROVE BridgeInv
  OBVIOUS
<1> USE DEF ClipboardInit
<1>1. BridgeTypes
  <2>1. /\ << >> \in Seq(Values \cup {Huge}) /\ << >> \in Seq(Selections)
        /\ << >> \in Seq(Events) /\ Len(<< >>) = 0 /\ 0 <= QueueCap
    BY ClipboardOK
  <2>2. NoSelection \in Selections
    BY SelectionFacts
  <2> QED BY <2>1, <2>2 DEF BridgeTypes
<1>2. Len(events) = 0 /\ Len(requests) = 0 /\ selection.id = 0 /\ selection.value = Empty
  BY SelectionFacts
<1> QED
  BY <1>1, <1>2, ClipboardOK
  DEF BridgeInv, IdsKnown, NotYet, GivenUp, Forsaken, CancelAt, Asked, Served, Told

\* Steps of the queues, that leave the bridge's state and the nest alone.
LEMMA QueuesKeep ==
  ASSUME BridgeInv,
         clipIn' \in Seq(Values \cup {Huge}), Len(clipIn') <= QueueCap,
         toRemote' \in Seq(Values \cup {Huge}),
         forwarder' \in {forwarder, "ended"},
         UNCHANGED <<bridgeVars, nestVars>>
  PROVE  BridgeInv'
<1> USE DEF BridgeInv, bridgeVars, nestVars
<1>1. BridgeTypes'
  BY DEF BridgeTypes
<1>2. IdsKnown' /\ NotYet'
  BY DEF IdsKnown, NotYet
<1>3. GivenUp' /\ Asked'
  BY DEF GivenUp, Forsaken, CancelAt, Asked
<1>4. Served' /\ Told'
  BY DEF Served, Told, CancelAt
<1> QED
  BY <1>1, <1>2, <1>3, <1>4

LEMMA DeviceKeeps ==
  ASSUME BridgeInv, NEW v \in Values \cup {Huge}, DeviceCopies(v)
  PROVE  BridgeInv'
<1> DEFINE V == Values \cup {Huge}
<1>1. clipIn \in Seq(V) /\ Len(clipIn) <= QueueCap /\ QueueCap \in Nat
      /\ toRemote \in Seq(V) /\ v \in V
  BY ClipboardOK DEF BridgeInv, BridgeTypes
<1>2. /\ clipIn' = clipIn \/ (clipIn' = Append(clipIn, v) /\ Len(clipIn) # QueueCap)
      /\ UNCHANGED <<forwarder, toRemote, bridgeVars, nestVars>>
  BY DEF DeviceCopies
<1> HIDE DEF V
<1>3. clipIn' \in Seq(V) /\ Len(clipIn') <= QueueCap
  BY <1>1, <1>2
<1>4. toRemote' \in Seq(V) /\ forwarder' \in {forwarder, "ended"}
      /\ UNCHANGED <<bridgeVars, nestVars>>
  BY <1>1, <1>2
<1> QED
  BY <1>3, <1>4, QueuesKeep DEF V

LEMMA ForwardKeeps ==
  ASSUME BridgeInv, Forward
  PROVE  BridgeInv'
<1> DEFINE V == Values \cup {Huge}
<1>1. clipIn \in Seq(V) /\ clipIn # << >> /\ Len(clipIn) <= QueueCap /\ QueueCap \in Nat
      /\ toRemote \in Seq(V)
  BY ClipboardOK DEF BridgeInv, BridgeTypes, Forward
<1>2. /\ \/ clipIn' = << >> /\ toRemote' = toRemote
         \/ clipIn' = Tail(clipIn) /\ toRemote' = Append(toRemote, Head(clipIn))
      /\ forwarder' \in {forwarder, "ended"}
      /\ UNCHANGED <<bridgeVars, nestVars>>
  BY DEF Forward
<1> HIDE DEF V
<1>3. clipIn' \in Seq(V) /\ Len(clipIn') <= QueueCap /\ toRemote' \in Seq(V)
  <2>1. /\ Tail(clipIn) \in Seq(V) /\ Len(Tail(clipIn)) <= QueueCap /\ Head(clipIn) \in V
        /\ << >> \in Seq(V) /\ Len(<< >>) <= QueueCap
    BY <1>1, FirstGone
  <2>2. Append(toRemote, Head(clipIn)) \in Seq(V)
    BY <1>1, <2>1
  <2> QED BY <1>1, <1>2, <2>1, <2>2
<1> QED
  BY <1>2, <1>3, QueuesKeep DEF V

\* StartBridge: nothing of its own is known to anybody.
LEMMA StartKeeps ==
  ASSUME BridgeInv, StartBridge
  PROVE  BridgeInv'
<1> USE DEF BridgeInv
<1>1. /\ bridge = "none" /\ requests = << >> /\ mine = {} /\ source = 0
      /\ selection \in Selections /\ lastId \in Nat /\ selection.id <= lastId
  BY DEF StartBridge, NotYet, BridgeTypes, IdsKnown
<1>2. /\ bridge' = "up" /\ forwarder' = "running"
      /\ UNCHANGED <<clipIn, toRemote, source, serveBytes, owning, lastValue, clipOut,
                     selection, requests, lastId, mine>>
      /\ \/ selection = NoSelection /\ events' = << >>
         \/ events' = <<Selected(selection)>>
  BY DEF StartBridge
<1>3. /\ events' \in Seq(Events)
      /\ \/ selection = NoSelection /\ events' = << >> /\ Len(events') = 0
         \/ /\ events' # << >> /\ Len(events') = 1 /\ events'[1] = Selected(selection)
            /\ events'[1].kind = "selection" /\ Id(events'[1]) = selection.id
  <2>1. Selected(selection) \in Events /\ Id(Selected(selection)) = selection.id
        /\ Selected(selection).kind = "selection"
    BY <1>1, EventFacts
  <2> DEFINE b == Selected(selection)
  <2> HIDE DEF b
  <2>2. b \in Events => <<b>> \in Seq(Events) /\ <<b>> # << >> /\ Len(<<b>>) = 1 /\ <<b>>[1] = b
    OBVIOUS
  <2>3. << >> \in Seq(Events) /\ Len(<< >>) = 0
    OBVIOUS
  <2>4. CASE events' = << >> /\ selection = NoSelection
    BY <2>3, <2>4
  <2>5. CASE events' = <<b>>
    BY <2>1, <2>2, <2>5 DEF b
  <2> QED BY <1>2, <2>4, <2>5 DEF b
<1>4. BridgeTypes'
  BY <1>2, <1>3 DEF BridgeTypes
<1>5. IdsKnown' /\ NotYet'
  BY <1>1, <1>2, <1>3 DEF IdsKnown, NotYet
<1>6. GivenUp' /\ Asked' /\ Served'
  BY <1>1, <1>2, <1>3 DEF GivenUp, Forsaken, CancelAt, Asked, Served
<1>7. Told'
  BY <1>1, <1>2, <1>3, SelectionFacts, ClipboardOK DEF Told
<1> QED
  BY <1>4, <1>5, <1>6, <1>7

\* The bridge fails to start, or ends.
LEMMA EndKeeps ==
  ASSUME BridgeInv, BridgeFails \/ BridgeEnds
  PROVE  BridgeInv'
<1> USE DEF BridgeInv
<1>1. CASE BridgeFails
  <2>1. /\ bridge' = "ended" /\ forwarder' = "running"
        /\ UNCHANGED <<clipIn, toRemote, source, serveBytes, owning, lastValue, clipOut,
                       selection, requests, events, lastId, mine>>
    BY <1>1 DEF BridgeFails, nestVars
  <2>2. BridgeTypes' /\ IdsKnown' /\ NotYet'
    BY <2>1 DEF BridgeTypes, IdsKnown, NotYet
  <2>3. GivenUp' /\ Asked' /\ Served' /\ Told'
    BY <2>1 DEF GivenUp, Forsaken, CancelAt, Asked, Served, Told
  <2> QED BY <2>2, <2>3
<1>2. CASE BridgeEnds
  <2>1. /\ bridge' = "ended" /\ selection' = NoSelection /\ requests' = << >>
        /\ events' = << >> /\ toRemote' = << >> /\ bridge = "up"
        /\ UNCHANGED <<clipIn, forwarder, source, serveBytes, owning, lastValue, clipOut,
                       lastId, mine>>
    BY <1>2 DEF BridgeEnds, BridgeTypes
  <2>2. /\ NoSelection \in Selections /\ NoSelection.id = 0 /\ 0 \notin mine
        /\ << >> \in Seq(Events) /\ Len(<< >>) = 0 /\ << >> \in Seq(Selections)
        /\ << >> \in Seq(Values \cup {Huge})
    BY SelectionFacts DEF BridgeTypes
  <2>3. BridgeTypes' /\ IdsKnown' /\ NotYet'
    BY <2>1, <2>2 DEF BridgeTypes, IdsKnown, NotYet
  <2>4. GivenUp' /\ Asked' /\ Served' /\ Told'
    BY <2>1, <2>2 DEF GivenUp, Forsaken, CancelAt, Asked, Served, Told
  <2> QED BY <2>3, <2>4
<1> QED
  BY <1>1, <1>2

\* set_selection: the new source's id is one that nobody knows.
LEMMA SetKeeps ==
  ASSUME BridgeInv, SetSelection
  PROVE  BridgeInv'
<1> USE DEF BridgeInv
<1> DEFINE V == Values \cup {Huge}  v == Head(toRemote)  n == lastId + 1
           r == [id |-> n, value |-> v]
<1>1. /\ toRemote \in Seq(V) /\ toRemote # << >> /\ toRemote' = Tail(toRemote)
      /\ v \in V /\ toRemote' \in Seq(V)
  BY FirstGone DEF SetSelection, BridgeTypes
<1>2. CASE UNCHANGED <<source, serveBytes, owning, lastValue, requests, lastId, mine>>
  <2>1. UNCHANGED <<bridgeVars, nestVars>> /\ UNCHANGED <<clipIn, forwarder>>
    BY <1>2 DEF SetSelection, bridgeVars, nestVars
  <2> QED
    BY <1>1, <2>1, QueuesKeep DEF BridgeTypes
<1>3. CASE /\ v # Huge /\ lastId' = n /\ mine' = mine \cup {n}
           /\ requests' = Append(requests, r)
           /\ source' = n /\ serveBytes' = v /\ owning' = TRUE /\ lastValue' = v
  <2>1. /\ n \in Nat \ {0} /\ v \in Values /\ r \in Selections /\ r.id = n /\ r.value = v
        /\ lastId \in Nat
    <3>1. lastId \in Nat /\ v \in Values
      BY <1>1, <1>3 DEF BridgeTypes
    <3>2. n \in Nat \ {0}
      BY <3>1
    <3> HIDE DEF n, v
    <3> QED BY <3>1, <3>2, SelectionFacts
  <2>2. UNCHANGED <<clipIn, forwarder, bridge, clipOut, selection, events>> /\ bridge = "up"
    BY DEF SetSelection
  <2> HIDE DEF v, n, r, V
  <2>3. requests \in Seq(Selections) /\ Len(requests) \in Nat
    BY DEF BridgeTypes
  <2>4. /\ requests' \in Seq(Selections) /\ requests' # << >>
        /\ Len(requests') = Len(requests) + 1 /\ requests'[Len(requests) + 1] = r
        /\ \A i \in 1..Len(requests) : requests'[i] = requests[i]
    BY <1>3, <2>1, <2>3
  <2>5. n \notin mine /\ selection.id # n /\ \A i \in 1..Len(events) : Id(events[i]) # n
    <3>1. lastId \in Nat /\ n = lastId + 1 /\ mine \subseteq 1..lastId
          /\ selection.id <= lastId /\ selection.id \in Nat
      BY DEF BridgeTypes, n, Selections, IdsKnown
    <3>2. ASSUME NEW i \in 1..Len(events) PROVE Id(events[i]) \in Nat
      <4>1. events[i] \in Events
        BY DEF BridgeTypes
      <4> QED BY <4>1, EventFacts DEF Id, Selections
    <3> QED BY <3>1, <3>2 DEF IdsKnown
  <2>6. BridgeTypes'
    BY <1>1, <1>3, <2>1, <2>2, <2>4 DEF BridgeTypes, n, V
  <2>7. NotYet'
    BY <2>2 DEF NotYet
  <2>8. IdsKnown'
    <3>1. selection'.id <= lastId'
      BY <1>3, <2>1, <2>2 DEF IdsKnown, n, BridgeTypes, Selections
    <3>2. \A i \in 1..Len(requests') : requests'[i].id \in mine'
      BY <1>3, <2>1, <2>3, <2>4 DEF IdsKnown
    <3>3. ASSUME NEW i \in 1..Len(events')
          PROVE  /\ Id(events'[i]) <= lastId'
                 /\ events'[i].kind = "cancelled" => events'[i].id \in mine'
      <4>1. events' = events /\ events[i] \in Events /\ i \in 1..Len(events)
        BY <2>2, <3>3 DEF BridgeTypes
      <4>2. Id(events[i]) \in Nat
        BY <4>1, EventFacts DEF Id, Selections
      <4>3. Id(events[i]) <= lastId
        BY <4>1 DEF IdsKnown
      <4>4. Id(events[i]) <= n
        BY <2>1, <4>2, <4>3 DEF n
      <4>5. events[i].kind = "cancelled" => events[i].id \in mine
        BY <4>1 DEF IdsKnown
      <4> QED BY <1>3, <4>1, <4>4, <4>5
    <3> QED BY <3>1, <3>2, <3>3 DEF IdsKnown
  <2>9. GivenUp'
    <3>1. source' # 0 /\ source' = n
      BY <1>3, <2>1
    <3>2. ASSUME NEW i \in 1..Len(events') PROVE ~CancelAt(i)'
      BY <2>2, <2>5, <3>1, <3>2 DEF CancelAt, Id
    <3> QED BY <3>1, <3>2 DEF GivenUp
  <2>10. Asked'
    BY <1>3, <2>1, <2>2, <2>3, <2>4, <2>5 DEF Asked, IdsKnown
  <2>11. Served' /\ Told'
    BY <1>3, <2>4 DEF Served, Told
  <2> QED BY <2>6, <2>7, <2>8, <2>9, <2>10, <2>11
<1> QED
  BY <1>2, <1>3 DEF SetSelection

\* A selection that is not the bridge's own: the source, if it was selected,
\* is announced to be cancelled before it.
LEMMA AppKeeps ==
  ASSUME BridgeInv, NEW v \in Values \cup {Huge, Opaque, Empty}, AppCopies(v)
  PROVE  BridgeInv'
<1> USE DEF BridgeInv
<1> DEFINE sel == IF v = Empty THEN NoSelection ELSE [id |-> lastId + 1, value |-> v]
<1>1. /\ lastId \in Nat /\ mine \subseteq 1..lastId /\ lastId' = lastId + 1 /\ mine' = mine
      /\ Replace(sel) /\ selection' = sel
      /\ UNCHANGED <<clipIn, forwarder, toRemote, bridge, source, serveBytes, owning,
                     lastValue, clipOut, requests>>
  BY DEF AppCopies, Replace, BridgeTypes, queueVars, bridgeVars
<1>2. sel \in Selections /\ sel.id <= lastId' /\ sel.id \in Nat /\ sel.id \notin mine
      /\ (sel.id # 0 => sel.id = lastId + 1)
  <2>1. CASE v = Empty
    BY <1>1, <2>1, SelectionFacts
  <2>2. CASE v # Empty
    <3> DEFINE s == [id |-> lastId + 1, value |-> v]
    <3>1. s \in Selections /\ s.id = lastId + 1
      BY <1>1, SelectionFacts
    <3>2. sel = s
      BY <2>2
    <3> HIDE DEF s, sel
    <3> QED BY <1>1, <3>1, <3>2
  <2> QED BY <2>1, <2>2
<1> HIDE DEF sel
<1>3. Selected(sel) \in Events /\ Id(Selected(sel)) = sel.id
      /\ Selected(sel).kind = "selection"
      /\ Id(Cancelled(selection.id)) = selection.id
      /\ Cancelled(selection.id).kind = "cancelled" /\ Cancelled(selection.id).id = selection.id
      /\ selection.id \in Nat
  BY <1>2, EventFacts DEF BridgeTypes, Selections
<1>4. /\ events' \in Seq(Events) /\ Len(events) \in Nat
      /\ Len(events') \in Nat /\ Len(events') >= Len(events)
      /\ \A i \in 1..Len(events) : events'[i] = events[i]
      /\ \A i \in 1..Len(events') : i > Len(events) =>
           \/ events'[i] = Selected(sel)
           \/ /\ i = Len(events) + 1 /\ selection.id \in mine
              /\ events'[i] = Cancelled(selection.id)
      /\ bridge = "up" =>
           /\ events' # << >> /\ events'[Len(events')] = Selected(sel)
           /\ selection.id \in mine => /\ Len(events) + 1 \in 1..Len(events')
                                       /\ events'[Len(events) + 1] = Cancelled(selection.id)
  BY <1>1, <1>2, ReplaceTells
<1> HIDE DEF Selected, Cancelled, Id
<1>5. BridgeTypes' /\ NotYet'
  BY <1>1, <1>2, <1>4 DEF BridgeTypes, NotYet
<1>6. IdsKnown'
  <2>1. \A i \in 1..Len(events) : events[i] \in Events /\ Id(events[i]) \in Nat
    <3>1. ASSUME NEW i \in 1..Len(events) PROVE events[i] \in Events /\ Id(events[i]) \in Nat
      <4>1. events[i] \in Events
        BY DEF BridgeTypes
      <4> QED BY <4>1, EventFacts DEF Id, Selections
    <3> QED BY <3>1
  <2>2. ASSUME NEW i \in 1..Len(events')
        PROVE  /\ Id(events'[i]) <= lastId'
               /\ events'[i].kind = "cancelled" => events'[i].id \in mine'
    <3>1. CASE i \in 1..Len(events)
      BY <1>1, <1>4, <2>1, <3>1 DEF IdsKnown
    <3>2. CASE events'[i] = Selected(sel)
      BY <1>2, <1>3, <3>2
    <3>3. CASE selection.id \in mine /\ events'[i] = Cancelled(selection.id)
      BY <1>1, <1>3, <3>3
    <3> QED BY <1>4, <3>1, <3>2, <3>3
  <2>3. \A i \in 1..Len(requests') : requests'[i].id \in mine'
    BY <1>1 DEF IdsKnown
  <2> QED BY <1>1, <1>2, <2>2, <2>3 DEF IdsKnown
<1>7. GivenUp'
  <2>1. ASSUME source = 0 PROVE Forsaken(0)'
    <3>1. requests = << >> /\ selection.id \notin mine
          /\ \A j \in 1..Len(events) : j > 0 => Id(events[j]) \notin mine
      BY <2>1 DEF GivenUp, Forsaken
    <3>2. ASSUME NEW j \in 1..Len(events') PROVE Id(events'[j]) \notin mine
      BY <1>2, <1>3, <1>4, <3>1, <3>2
    <3> QED BY <1>1, <1>2, <3>1, <3>2 DEF Forsaken
  <2>2. ASSUME NEW i \in 1..Len(events'), CancelAt(i)' PROVE Forsaken(i)'
    <3>1. CASE i \in 1..Len(events)
      <4>1. CancelAt(i)
        BY <1>1, <1>4, <2>2, <3>1 DEF CancelAt
      <4>2. requests = << >> /\ selection.id \notin mine
            /\ \A j \in 1..Len(events) : j > i => Id(events[j]) \notin mine
        BY <3>1, <4>1 DEF GivenUp, Forsaken
      <4>3. ASSUME NEW j \in 1..Len(events'), j > i PROVE Id(events'[j]) \notin mine
        BY <1>2, <1>3, <1>4, <4>2, <4>3
      <4> QED BY <1>1, <1>2, <4>2, <4>3 DEF Forsaken
    <3>2. CASE i = Len(events) + 1 /\ selection.id \in mine
               /\ events'[i] = Cancelled(selection.id)
      <4>1. selection.id = source
        BY <1>1, <1>3, <2>2, <3>2 DEF CancelAt
      <4>2. requests = << >>
        BY <4>1 DEF Asked
      <4>3. ASSUME NEW j \in 1..Len(events'), j > i PROVE Id(events'[j]) \notin mine
        BY <1>2, <1>3, <1>4, <3>2, <4>3
      <4> QED BY <1>1, <1>2, <4>2, <4>3 DEF Forsaken
    <3>3. CASE events'[i] = Selected(sel)
      BY <1>3, <2>2, <3>3 DEF CancelAt
    <3> QED BY <1>4, <3>1, <3>2, <3>3
  <2> QED BY <1>1, <2>1, <2>2 DEF GivenUp
<1>8. Asked'
  <2> SUFFICES ASSUME requests # << >> PROVE
          /\ selection'.id # source
          /\ \A i \in 1..Len(events') : Id(events'[i]) # source
    BY <1>1 DEF Asked
  <2>1. source \in mine /\ selection.id # source
        /\ \A i \in 1..Len(events) : Id(events[i]) # source
    BY DEF Asked, GivenUp, Forsaken, BridgeTypes
  <2>2. ASSUME NEW i \in 1..Len(events') PROVE Id(events'[i]) # source
    BY <1>2, <1>3, <1>4, <2>1, <2>2
  <2> QED BY <1>1, <1>2, <2>1, <2>2
<1>9. Served'
  BY <1>1, <1>2 DEF Served
<1>10. Told'
  <2> SUFFICES ASSUME bridge = "up", requests = << >>
               PROVE  /\ source # 0 => \E i \in 1..Len(events') : CancelAt(i)'
                      /\ events' # << >> /\ events'[Len(events')] = Selected(selection')
    BY <1>1 DEF Told
  <2>1. ASSUME source # 0 PROVE \E i \in 1..Len(events') : CancelAt(i)'
    <3>1. CASE selection.id \in mine
      <4>1. selection.id = source
        BY <3>1 DEF Served
      <4>2. PICK k \in 1..Len(events') : k = Len(events) + 1
        BY <1>4, <3>1
      <4>3. CancelAt(k)'
        BY <1>1, <1>3, <1>4, <3>1, <4>1, <4>2 DEF CancelAt
      <4> QED BY <4>3
    <3>2. CASE selection.id \notin mine
      <4>1. PICK i \in 1..Len(events) : CancelAt(i)
        BY <2>1, <3>2 DEF Told
      <4>2. i \in 1..Len(events') /\ CancelAt(i)'
        BY <1>1, <1>4, <4>1 DEF CancelAt
      <4> QED BY <4>2
    <3> QED BY <3>1, <3>2
  <2> QED BY <1>1, <1>4, <2>1
<1> QED
  BY <1>5, <1>6, <1>7, <1>8, <1>9, <1>10

\* The compositor handles a request of the bridge.
LEMMA RequestKeeps ==
  ASSUME BridgeInv, HandleRequest
  PROVE  BridgeInv'
<1> USE DEF BridgeInv
<1> DEFINE sel == Head(requests)
<1>1. /\ requests # << >> /\ requests' = Tail(requests) /\ Replace(sel) /\ selection' = sel
      /\ UNCHANGED <<clipIn, forwarder, toRemote, bridge, source, serveBytes, owning,
                     lastValue, clipOut, lastId, mine>>
  BY DEF HandleRequest, Replace, queueVars, bridgeVars
<1>2. /\ requests \in Seq(Selections) /\ requests' \in Seq(Selections)
      /\ Len(requests) \in Nat \ {0} /\ Len(requests') = Len(requests) - 1
      /\ sel = requests[1] /\ sel \in Selections
      /\ \A i \in 1..(Len(requests) - 1) : requests'[i] = requests[i + 1]
      /\ (requests' = << >> <=> Len(requests) = 1)
  <2>1. requests \in Seq(Selections)
    BY DEF BridgeTypes
  <2>2. /\ requests' \in Seq(Selections) /\ Len(requests) \in Nat \ {0}
        /\ Len(requests') = Len(requests) - 1 /\ sel = requests[1] /\ sel \in Selections
        /\ \A i \in 1..(Len(requests) - 1) : requests'[i] = requests[i + 1]
    BY <1>1, <2>1, FirstGone
  <2>3. requests' = << >> <=> Len(requests') = 0
    BY <2>2
  <2> QED BY <2>1, <2>2, <2>3
<1> HIDE DEF sel
<1>3. /\ requests[Len(requests)].id = source /\ requests[Len(requests)].value = serveBytes
      /\ \A i \in 1..(Len(requests) - 1) : requests[i].id # source
      /\ selection.id # source /\ \A i \in 1..Len(events) : Id(events[i]) # source
      /\ source # 0 /\ source \in mine
  BY <1>1 DEF Asked, GivenUp, Forsaken, BridgeTypes
<1>4. sel.id \in mine /\ sel.id \in Nat /\ sel.id <= lastId
  BY <1>2 DEF IdsKnown, BridgeTypes, Selections
<1>5. Selected(sel) \in Events /\ Id(Selected(sel)) = sel.id
      /\ Selected(sel).kind = "selection"
      /\ Id(Cancelled(selection.id)) = selection.id
      /\ Cancelled(selection.id).kind = "cancelled" /\ Cancelled(selection.id).id = selection.id
      /\ selection.id \in Nat
  BY <1>2, EventFacts DEF BridgeTypes, Selections
<1>6. /\ events' \in Seq(Events) /\ Len(events) \in Nat
      /\ Len(events') \in Nat /\ Len(events') >= Len(events)
      /\ \A i \in 1..Len(events) : events'[i] = events[i]
      /\ \A i \in 1..Len(events') : i > Len(events) =>
           \/ events'[i] = Selected(sel)
           \/ /\ i = Len(events) + 1 /\ selection.id \in mine
              /\ events'[i] = Cancelled(selection.id)
  BY <1>1, <1>2, ReplaceTells
<1> HIDE DEF Selected, Cancelled, Id
<1>7. BridgeTypes' /\ NotYet'
  BY <1>1, <1>2, <1>6 DEF BridgeTypes, NotYet
<1>8. IdsKnown'
  <2>1. ASSUME NEW i \in 1..Len(events')
        PROVE  /\ Id(events'[i]) <= lastId'
               /\ events'[i].kind = "cancelled" => events'[i].id \in mine'
    <3>1. CASE i \in 1..Len(events)
      BY <1>1, <1>6, <3>1 DEF IdsKnown
    <3>2. CASE events'[i] = Selected(sel)
      BY <1>1, <1>4, <1>5, <3>2
    <3>3. CASE selection.id \in mine /\ events'[i] = Cancelled(selection.id)
      BY <1>1, <1>5, <3>3 DEF IdsKnown
    <3> QED BY <1>6, <3>1, <3>2, <3>3
  <2>2. \A i \in 1..Len(requests') : requests'[i].id \in mine'
    BY <1>1, <1>2 DEF IdsKnown
  <2> QED BY <1>1, <1>4, <2>1, <2>2 DEF IdsKnown
<1>9. \A i \in 1..Len(events') : ~CancelAt(i)'
  <2>1. ASSUME NEW i \in 1..Len(events') PROVE ~CancelAt(i)'
    <3>1. CASE i \in 1..Len(events)
      <4>1. events'[i] = events[i] /\ Id(events[i]) # source
        BY <1>3, <1>6, <3>1
      <4> QED BY <1>1, <4>1 DEF CancelAt, Id
    <3>2. CASE events'[i] = Selected(sel)
      BY <1>5, <3>2 DEF CancelAt
    <3>3. CASE events'[i] = Cancelled(selection.id)
      BY <1>1, <1>3, <1>5, <3>3 DEF CancelAt
    <3> QED BY <1>6, <3>1, <3>2, <3>3
  <2> QED BY <2>1
<1>10. GivenUp'
  BY <1>1, <1>3, <1>9 DEF GivenUp
<1>11. Asked'
  <2> SUFFICES ASSUME requests' # << >>
               PROVE  /\ requests'[Len(requests')].id = source
                      /\ requests'[Len(requests')].value = serveBytes
                      /\ \A i \in 1..(Len(requests') - 1) : requests'[i].id # source
                      /\ sel.id # source
                      /\ \A i \in 1..Len(events') : Id(events'[i]) # source
    BY <1>1 DEF Asked
  <2>1. Len(requests) > 1
    BY <1>2
  <2>2. sel.id # source
    BY <1>2, <1>3, <2>1
  <2>3. requests'[Len(requests')] = requests[Len(requests)]
    BY <1>2, <2>1
  <2>4. \A i \in 1..(Len(requests') - 1) : requests'[i].id # source
    BY <1>2, <1>3, <2>1
  <2>5. ASSUME NEW i \in 1..Len(events') PROVE Id(events'[i]) # source
    BY <1>3, <1>5, <1>6, <2>2, <2>5
  <2> QED BY <1>3, <2>2, <2>3, <2>4, <2>5
<1>12. Served'
  <2>1. ASSUME requests' = << >> PROVE sel.id = source /\ sel.value = serveBytes
    BY <1>2, <1>3, <2>1
  <2> QED BY <1>1, <2>1 DEF Served
<1>13. Told'
  BY <1>1, <1>4 DEF Told
<1> QED
  BY <1>7, <1>8, <1>10, <1>11, <1>12, <1>13

\* An event is taken, and what is known of the others stays so.
LEMMA EventTaken ==
  ASSUME BridgeInv, HandleEvent
  PROVE  /\ bridge = "up" /\ events # << >> /\ 1 \in 1..Len(events)
         /\ UNCHANGED <<clipIn, forwarder, toRemote, serveBytes, selection, requests,
                        lastId, mine>>
         /\ events' \in Seq(Events) /\ events[1] \in Events /\ Head(events) = events[1]
         /\ Len(events) \in Nat \ {0} /\ Len(events') = Len(events) - 1
         /\ \A i \in 1..(Len(events) - 1) : events'[i] = events[i + 1]
         /\ events' = << >> <=> Len(events) = 1
<1>1. /\ bridge = "up" /\ events # << >> /\ events' = Tail(events) /\ events \in Seq(Events)
      /\ UNCHANGED <<clipIn, forwarder, toRemote, serveBytes, selection, requests,
                     lastId, mine>>
  BY DEF HandleEvent, BridgeInv, BridgeTypes, queueVars
<1>2. /\ events' \in Seq(Events) /\ Head(events) = events[1] /\ events[1] \in Events
      /\ Len(events) \in Nat \ {0} /\ Len(events') = Len(events) - 1
      /\ \A i \in 1..(Len(events) - 1) : events'[i] = events[i + 1]
  BY <1>1, FirstGone
<1>3. events' = << >> <=> Len(events') = 0
  BY <1>2
<1> QED
  BY <1>1, <1>2, <1>3

\* on_source_cancelled for the source: nothing of the bridge's own is left.
LEMMA CancelKeeps ==
  ASSUME BridgeInv, HandleEvent, events[1].kind = "cancelled", events[1].id = source,
         source' = 0, owning' = FALSE, UNCHANGED <<bridge, lastValue, clipOut>>
  PROVE  BridgeInv'
<1> USE DEF BridgeInv
<1>1. /\ bridge = "up" /\ events # << >> /\ 1 \in 1..Len(events)
      /\ UNCHANGED <<clipIn, forwarder, toRemote, serveBytes, selection, requests,
                     lastId, mine>>
      /\ events' \in Seq(Events)
      /\ Len(events) \in Nat \ {0} /\ Len(events') = Len(events) - 1
      /\ \A i \in 1..(Len(events) - 1) : events'[i] = events[i + 1]
      /\ events' = << >> <=> Len(events) = 1
  BY EventTaken
<1>2. /\ requests = << >> /\ selection.id \notin mine
      /\ \A j \in 1..Len(events) : j > 1 => Id(events[j]) \notin mine
  BY <1>1 DEF GivenUp, Forsaken, CancelAt
<1>3. 0 \notin mine
  BY DEF BridgeTypes
<1>4. BridgeTypes' /\ NotYet'
  BY <1>1 DEF BridgeTypes, NotYet
<1>5. IdsKnown'
  <2>1. ASSUME NEW i \in 1..Len(events')
        PROVE  /\ Id(events'[i]) <= lastId
               /\ events'[i].kind = "cancelled" => events'[i].id \in mine
    BY <1>1, <2>1 DEF IdsKnown
  <2> QED BY <1>1, <2>1 DEF IdsKnown
<1>6. GivenUp'
  <2>1. ASSUME NEW j \in 1..Len(events') PROVE Id(events'[j]) \notin mine
    BY <1>1, <1>2, <2>1
  <2>2. ASSUME NEW i \in 1..Len(events') PROVE ~CancelAt(i)'
    BY <1>1, <1>3, <1>5, <2>2 DEF CancelAt, IdsKnown
  <2> QED BY <1>1, <1>2, <2>1, <2>2 DEF GivenUp, Forsaken
<1>7. Asked' /\ Served'
  BY <1>1, <1>2 DEF Asked, Served
<1>8. Told'
  <2>1. events[Len(events)] = Selected(selection)
    BY <1>1, <1>2 DEF Told
  <2>2. Selected(selection).kind = "selection"
    BY EventFacts DEF BridgeTypes
  <2>3. Len(events) # 1
    BY <2>1, <2>2
  <2>4. events' # << >> /\ events'[Len(events')] = Selected(selection)
    BY <1>1, <2>1, <2>3
  <2> QED BY <1>1, <2>4 DEF Told
<1> QED
  BY <1>4, <1>5, <1>6, <1>7, <1>8

\* Any other event: another source's cancellation, or a selection, which is
\* read only if the bridge has no source.
LEMMA OtherEventKeeps ==
  ASSUME BridgeInv, HandleEvent, UNCHANGED <<source, owning, bridge>>,
         ~(events[1].kind = "cancelled" /\ events[1].id = source),
         lastValue' \in Values \cup {Empty, NoValue}, clipOut' \in Values \cup {Empty},
         source # 0 => lastValue' = lastValue,
         events[1] = Selected(selection) /\ source = 0 /\ selection.value \in Values =>
           lastValue' = selection.value
  PROVE  BridgeInv'
<1> USE DEF BridgeInv
<1>1. /\ bridge = "up" /\ events # << >> /\ 1 \in 1..Len(events)
      /\ UNCHANGED <<clipIn, forwarder, toRemote, serveBytes, selection, requests,
                     lastId, mine>>
      /\ events' \in Seq(Events)
      /\ Len(events) \in Nat \ {0} /\ Len(events') = Len(events) - 1
      /\ \A i \in 1..(Len(events) - 1) : events'[i] = events[i + 1]
      /\ events' = << >> <=> Len(events) = 1
  BY EventTaken
<1>2. \A i \in 1..Len(events') : /\ i + 1 \in 1..Len(events) /\ events'[i] = events[i + 1]
                                /\ CancelAt(i)' <=> CancelAt(i + 1)
  <2>1. ASSUME NEW i \in 1..Len(events')
        PROVE  /\ i + 1 \in 1..Len(events) /\ events'[i] = events[i + 1]
               /\ CancelAt(i)' <=> CancelAt(i + 1)
    BY <1>1, <2>1 DEF CancelAt
  <2> QED BY <2>1
<1>3. BridgeTypes' /\ NotYet'
  BY <1>1 DEF BridgeTypes, NotYet
<1>4. IdsKnown'
  <2>1. ASSUME NEW i \in 1..Len(events')
        PROVE  /\ Id(events'[i]) <= lastId
               /\ events'[i].kind = "cancelled" => events'[i].id \in mine
    BY <1>1, <2>1 DEF IdsKnown
  <2> QED BY <1>1, <2>1 DEF IdsKnown
<1>5. GivenUp'
  <2>1. ASSUME source = 0 PROVE Forsaken(0)'
    <3>1. requests = << >> /\ selection.id \notin mine
          /\ \A j \in 1..Len(events) : j > 0 => Id(events[j]) \notin mine
      BY <2>1 DEF GivenUp, Forsaken
    <3>2. ASSUME NEW j \in 1..Len(events') PROVE Id(events'[j]) \notin mine
      BY <1>1, <3>1, <3>2
    <3> QED BY <1>1, <3>1, <3>2 DEF Forsaken
  <2>2. ASSUME NEW i \in 1..Len(events'), CancelAt(i)' PROVE Forsaken(i)'
    <3>1. requests = << >> /\ selection.id \notin mine
          /\ \A j \in 1..Len(events) : j > i + 1 => Id(events[j]) \notin mine
      <4>1. i + 1 \in 1..Len(events) /\ events'[i] = events[i + 1]
        BY <1>1, <2>2
      <4>2. CancelAt(i + 1)
        BY <2>2, <4>1 DEF CancelAt
      <4> QED BY <4>1, <4>2 DEF GivenUp, Forsaken
    <3>2. ASSUME NEW j \in 1..Len(events'), j > i PROVE Id(events'[j]) \notin mine
      BY <1>1, <3>1, <3>2
    <3> QED BY <1>1, <3>1, <3>2 DEF Forsaken
  <2> QED BY <2>1, <2>2 DEF GivenUp
<1>6. Asked'
  <2>1. ASSUME requests # << >> PROVE \A i \in 1..Len(events') : Id(events'[i]) # source
    BY <1>1, <1>2, <2>1 DEF Asked
  <2> QED BY <1>1, <2>1 DEF Asked
<1>7. Served'
  BY <1>1 DEF Served
<1>8. Told'
  <2> SUFFICES ASSUME requests = << >>, selection.id \notin mine
               PROVE  /\ source # 0 => \E i \in 1..Len(events') : CancelAt(i)'
                      /\ events' = << >> /\ selection.value \in Values =>
                           lastValue' = selection.value
                      /\ events' # << >> => events'[Len(events')] = Selected(selection)
    BY <1>1 DEF Told
  <2>1. events[Len(events)] = Selected(selection)
    BY <1>1 DEF Told
  <2>2. ASSUME source # 0 PROVE \E i \in 1..Len(events') : CancelAt(i)'
    <3>1. PICK i \in 1..Len(events) : CancelAt(i)
      BY <1>1, <2>2 DEF Told
    <3>2. i # 1
      BY <3>1 DEF CancelAt
    <3>3. PICK k \in 1..Len(events') : i = k + 1
      <4>1. i - 1 \in 1..Len(events') /\ i = (i - 1) + 1
        BY <1>1, <3>2
      <4> QED BY <4>1
    <3>4. CancelAt(k)'
      BY <1>2, <3>1, <3>3
    <3> QED BY <3>4
  <2>3. ASSUME events' = << >>, selection.value \in Values
        PROVE  lastValue' = selection.value
    <3>1. Len(events) = 1 /\ Len(events') = 0
      BY <1>1, <2>3
    <3>2. source = 0
      BY <2>2, <3>1
    <3> QED BY <2>1, <2>3, <3>1, <3>2
  <2>4. ASSUME events' # << >> PROVE events'[Len(events')] = Selected(selection)
    BY <1>1, <2>1, <2>4
  <2> QED BY <2>2, <2>3, <2>4
<1> QED
  BY <1>3, <1>4, <1>5, <1>6, <1>7, <1>8

\* The bridge reads an offer only if it has no source, so that the offer is
\* not its own.
LEMMA EventKeeps ==
  ASSUME BridgeInv, HandleEvent
  PROVE  BridgeInv'
<1> DEFINE e == events[1]
<1>1. e \in Events /\ Head(events) = e /\ 1 \in 1..Len(events)
  BY EventTaken
<1>2. /\ owning \in BOOLEAN /\ (owning <=> source # 0)
      /\ lastValue \in Values \cup {Empty, NoValue} /\ clipOut \in Values \cup {Empty}
  BY DEF BridgeInv, BridgeTypes
<1>3. \/ e.kind = "cancelled" /\ OnSourceCancelled(e.id) /\ UNCHANGED <<bridge, lastValue, clipOut>>
      \/ e.kind = "selection" /\ OnSelection(e.sel) /\ UNCHANGED <<source, owning>>
  BY <1>1 DEF HandleEvent
<1> HIDE DEF e
<1>4. \A sel \in Selections : Selected(sel).kind = "selection" /\ Selected(sel).sel = sel
  BY EventFacts
<1>5. CASE e.kind = "cancelled" /\ OnSourceCancelled(e.id)
           /\ UNCHANGED <<bridge, lastValue, clipOut>>
  <2>1. CASE e.id = source
    BY <1>5, <2>1, CancelKeeps DEF OnSourceCancelled, e
  <2>2. CASE e.id # source
    <3>1. UNCHANGED <<source, owning>> /\ e # Selected(selection)
      BY <1>4, <1>5, <2>2 DEF OnSourceCancelled, BridgeInv, BridgeTypes
    <3> QED BY <1>2, <1>5, <2>2, <3>1, OtherEventKeeps DEF e
  <2> QED BY <2>1, <2>2
<1>6. CASE e.kind = "selection" /\ OnSelection(e.sel) /\ UNCHANGED <<source, owning>>
  <2>1. e.sel \in Selections /\ e.kind # "cancelled" /\ Id(e) = e.sel.id
    BY <1>1, <1>6, EventFacts DEF Id
  <2>2. CASE owning \/ e.sel = NoSelection
    <3>1. UNCHANGED <<bridge, lastValue, clipOut>>
      BY <1>6, <2>2 DEF OnSelection
    <3>2. e = Selected(selection) /\ source = 0 => selection.value \notin Values
      <4>1. ASSUME e = Selected(selection), source = 0 PROVE selection = NoSelection
        BY <1>2, <1>4, <2>2, <4>1 DEF BridgeInv, BridgeTypes
      <4> QED BY <4>1, SelectionFacts, ClipboardOK
    <3> QED BY <1>2, <1>6, <2>1, <3>1, <3>2, OtherEventKeeps DEF e
  <2>3. CASE ~owning /\ e.sel # NoSelection
    <3>1. source = 0 /\ e.sel.id \notin mine
      <4>1. source = 0 /\ Forsaken(0)
        BY <1>2, <2>3 DEF BridgeInv, GivenUp
      <4> QED BY <1>1, <2>1, <4>1 DEF Forsaken, e
    <3>2. UNCHANGED bridge
          /\ \E v \in Yields(e.sel) :
               IF v \in {Opaque, Huge, lastValue} THEN UNCHANGED <<lastValue, clipOut>>
               ELSE clipOut' = v /\ lastValue' = v
      BY <1>6, <2>3, <3>1 DEF OnSelection, ReadOffer, Publish
    <3>3. PICK v \in Yields(e.sel) :
            IF v \in {Opaque, Huge, lastValue} THEN UNCHANGED <<lastValue, clipOut>>
            ELSE clipOut' = v /\ lastValue' = v
      BY <3>2
    <3>4. v \in Values \cup {Empty, Huge, Opaque} /\ (e.sel = selection => v = selection.value)
      BY <2>1 DEF Yields, Selections
    <3>5. lastValue' \in Values \cup {Empty, NoValue} /\ clipOut' \in Values \cup {Empty}
      BY <1>2, <3>3, <3>4
    <3>6. ASSUME e = Selected(selection), selection.value \in Values
          PROVE  lastValue' = selection.value
      <4>1. e.sel = selection
        BY <1>4, <3>6 DEF BridgeInv, BridgeTypes
      <4>2. v = selection.value /\ v \notin {Opaque, Huge}
        BY <3>4, <3>6, <4>1, ClipboardOK
      <4> QED BY <3>3, <4>2
    <3> QED BY <1>6, <2>1, <3>1, <3>2, <3>5, <3>6, OtherEventKeeps DEF e
  <2> QED BY <2>2, <2>3
<1> QED
  BY <1>3, <1>5, <1>6

LEMMA BridgeStutter ==
  ASSUME BridgeInv, UNCHANGED clipVars
  PROVE  BridgeInv'
<1>1. UNCHANGED <<bridgeVars, nestVars, clipIn, forwarder, toRemote>>
  BY DEF clipVars, queueVars
<1> QED
  BY <1>1, QueuesKeep DEF BridgeInv, BridgeTypes

LEMMA BridgeStepKeeps ==
  ASSUME BridgeInv, [NestedNext]_nestedVars
  PROVE  BridgeInv'
<1>1. CASE UNCHANGED clipVars
  BY <1>1, BridgeStutter
<1>2. CASE ClipboardStep
  BY <1>2, DeviceKeeps, AppKeeps, RequestKeeps, ForwardKeeps, SetKeeps, EventKeeps
  DEF ClipboardStep, BridgeStep
<1>3. CASE BridgeTask \/ NestGone
  BY <1>3, StartKeeps, EndKeeps DEF BridgeTask, NestGone
<1> QED
  BY <1>1, <1>2, <1>3 DEF NestedNext, nestedVars

-----------------------------------------------------------------------------
(***************************************************************************)
(* The theorems, of the session with the clipboard bridge.                  *)
(***************************************************************************)

\* In every state of the composition the session is as its properties need
\* it; the bridge does not disturb it.
THEOREM SessionKept == NestedSpec => []AppInv
<1>1. NestedInit => AppInv
  BY AppInitHolds DEF NestedInit
<1>2. AppInv /\ [NestedNext]_nestedVars => AppInv'
  BY AppStep DEF NestedNext, nestedVars
<1> QED
  BY <1>1, <1>2, PTL DEF NestedSpec

\* ensure_started: however many connections race, one of them spawns the
\* command, and a failed spawn leaves the session ready for another.
THEOREM OneAppEver == NestedSpec => []OneApp
<1>1. AppInv => OneApp
  <2> SUFFICES ASSUME AppInv PROVE OneApp
    OBVIOUS
  <2> DEFINE S == {c \in Conns : child[c] # "none"}
  <2>1. Cardinality(S) <= 1
    <3>1. \A c, d \in S : c = d
      BY DEF AppInv, OneInvolved, Involved
    <3>2. CASE S = {}
      BY <3>2, FS_EmptySet
    <3>3. CASE S # {}
      <4>1. PICK c \in S : S = {c}
        BY <3>1, <3>3
      <4>2. Cardinality({c}) = 1
        BY FS_Singleton
      <4> QED BY <4>1, <4>2
    <3> QED BY <3>2, <3>3
  <2> QED
    BY <2>1 DEF AppInv, OneInvolved, OneApp
<1> QED
  BY <1>1, SessionKept, PTL

\* clipboard.rs: the bridge's state is as its properties need it, for any
\* payloads and copies on either side.
THEOREM BridgeKept == NestedSpec => []BridgeInv
<1>1. NestedInit => BridgeInv
  BY BridgeInit DEF NestedInit
<1> QED
  BY <1>1, BridgeStepKeeps, PTL DEF NestedSpec

\* The owning flag: the bridge never waits for its own answer, and once
\* everything has arrived it and the selection agree.
THEOREM BridgeNeverWaitsForItself == NestedSpec => []BridgeAgrees
<1>1. BridgeInv => BridgeAgrees
  <2> SUFFICES ASSUME BridgeInv PROVE BridgeAgrees
    OBVIOUS
  <2> USE DEF BridgeInv
  <2>1. bridge # "stuck"
    BY DEF BridgeTypes
  <2>2. ASSUME requests = << >>, selection.id \in mine
        PROVE  /\ selection.id = source /\ selection.value = serveBytes
               /\ lastValue = selection.value
    BY <2>2 DEF Served, BridgeTypes
  <2>3. ASSUME bridge = "up", requests = << >>, events = << >>, selection.id \notin mine,
               selection.value \in Values
        PROVE  lastValue = selection.value
    BY <2>3 DEF Told
  <2> QED BY <2>1, <2>2, <2>3 DEF BridgeAgrees
<1> QED
  BY <1>1, BridgeKept, PTL

\* The session's and the bridge's state keep their types, the queue of copies
\* its capacity, and the bridge owns the selection exactly while it has a
\* source.
THEOREM NestedTypes == NestedSpec => []NestedTypeOK
<1>1. AppInv => SessionTypeOK
  BY DEF AppInv
<1>2. BridgeInv => ClipboardTypeOK
  <2> SUFFICES ASSUME BridgeInv PROVE ClipboardTypeOK
    OBVIOUS
  <2> USE DEF BridgeInv
  <2>1. ASSUME NEW i \in 1..Len(events)
        PROVE  \/ events[i].kind = "cancelled" /\ events[i].id \in mine
               \/ events[i].kind = "selection" /\ events[i].sel \in Selections
    <3>1. events[i] \in Events
      BY DEF BridgeTypes
    <3> QED BY <3>1, EventFacts DEF IdsKnown
  <2>2. owning = (source # 0)
    BY DEF BridgeTypes
  <2> QED BY <2>1, <2>2 DEF BridgeTypes, ClipboardTypeOK
<1> QED
  BY <1>1, <1>2, SessionKept, BridgeKept, PTL DEF NestedTypeOK

=============================================================================
