----------------------------- MODULE SshTunnels -----------------------------
(***************************************************************************)
(* Port-forward tunnels: an ssh process each, with its askpass server, its *)
(* start window, its stop and what the window that lists the tunnels is    *)
(* told of it, until the application quits (SSHTunnelManager).             *)
(* The main process ends with the 'exit' event, as it does when it quits or *)
(* calls process.exit(); an end without one (SIGKILL, a crash of native     *)
(* code) runs no hook and is not modelled.                                 *)
(*                                                                         *)
(* A tunnel is named by its start: every start makes a new id. A listener  *)
(* of the process and the continuations it resolves are one action. A kill *)
(* that cannot be delivered is left out.                                   *)
(***************************************************************************)
EXTENDS Naturals

CONSTANT Tunnels

VARIABLES
  start,          \* the call of startTunnel: "new", "asking", "window", "started", "failed"
  session,        \* the tunnel in the map: "none", "active" or "error"
  askpass,        \* the tunnels whose askpass server runs
  child,          \* the ssh process: "none", "alive", "termed", "killed" or "dead"
  stop,           \* the call of stopTunnel: "no", "waiting", "finishing", "done"
  gaveUp,         \* the tunnels whose stop did not wait for the process
  shown,          \* what the window shows of each tunnel
  quit            \* "no", "stopping", "exited"

tunnelVars == <<start, session, askpass, child, stop, gaveUp, shown, quit>>

Sessions == {"none", "active", "error"}

TunnelTypeOK ==
  /\ start \in [Tunnels -> {"new", "asking", "window", "started", "failed"}]
  /\ session \in [Tunnels -> Sessions]
  /\ askpass \subseteq Tunnels
  /\ child \in [Tunnels -> {"none", "alive", "termed", "killed", "dead"}]
  /\ stop \in [Tunnels -> {"no", "waiting", "finishing", "done"}]
  /\ gaveUp \subseteq Tunnels
  /\ shown \in [Tunnels -> Sessions]
  /\ quit \in {"no", "stopping", "exited"}

TunnelInit ==
  /\ start = [t \in Tunnels |-> "new"]
  /\ session = [t \in Tunnels |-> "none"]
  /\ askpass = {}
  /\ child = [t \in Tunnels |-> "none"]
  /\ stop = [t \in Tunnels |-> "no"]
  /\ gaveUp = {}
  /\ shown = [t \in Tunnels |-> "none"]
  /\ quit = "no"

(* Code runs until the process exits.                                      *)
Alive == quit # "exited"

(* emitChange() sends the whole list; nobody listens once the quit began.  *)
Broadcast == shown' = IF quit = "no" THEN session' ELSE shown

-----------------------------------------------------------------------------
(* Starting. *)

(* ssh is spawned, and the tunnel is in the map; or the arguments cannot   *)
(* be built; or there is no ssh, which is reported after the spawn.        *)
Spawn(t) ==
  \/ /\ start' = [start EXCEPT ![t] = "window"]
     /\ session' = [session EXCEPT ![t] = "active"]
     /\ child' = [child EXCEPT ![t] = "alive"]
     /\ UNCHANGED <<askpass, shown>>
  \/ /\ start' = [start EXCEPT ![t] = "failed"]
     /\ askpass' = askpass \ {t}
     /\ UNCHANGED <<session, child, shown>>
  \/ /\ start' = [start EXCEPT ![t] = "failed"]
     /\ askpass' = askpass \ {t}
     /\ UNCHANGED <<session, child>>
     /\ Broadcast

(* startTunnel: a login that may ask starts an askpass server first.       *)
StartTunnel(t) ==
  /\ quit = "no" /\ start[t] = "new"
  /\ \/ /\ start' = [start EXCEPT ![t] = "asking"]
        /\ askpass' = askpass \cup {t}
        /\ UNCHANGED <<session, child, shown>>
     \/ Spawn(t)
  /\ UNCHANGED <<stop, gaveUp, quit>>

(* The askpass server listens; or it could not, and cleaned up.            *)
AskpassStarted(t) ==
  /\ Alive /\ start[t] = "asking"
  /\ \/ Spawn(t)
     \/ /\ start' = [start EXCEPT ![t] = "failed"]
        /\ askpass' = askpass \ {t}
        /\ UNCHANGED <<session, child, shown>>
  /\ UNCHANGED <<stop, gaveUp, quit>>

(* 800 ms without an exit: the tunnel counts as started, in the list that  *)
(* is sent and, whatever that says, in the window that started it.         *)
WindowEnds(t) ==
  /\ Alive /\ start[t] = "window"
  /\ start' = [start EXCEPT ![t] = "started"]
  /\ shown' = IF quit = "no" THEN [session EXCEPT ![t] = "active"] ELSE shown
  /\ UNCHANGED <<session, askpass, child, stop, gaveUp, quit>>

-----------------------------------------------------------------------------
(* The process ends. *)

Dying(t) == child[t] \in {"alive", "termed", "killed"} /\ child' = [child EXCEPT ![t] = "dead"]
Freed(t) == stop' = [stop EXCEPT ![t] = IF @ = "waiting" THEN "finishing" ELSE @]

\* A mutant: the entry of a start that failed is removed without a word.
DiesInWindowSilently(t) ==
  /\ Alive /\ start[t] = "window" /\ Dying(t) /\ Freed(t)
  /\ start' = [start EXCEPT ![t] = "failed"]
  /\ session' = [session EXCEPT ![t] = "none"]
  /\ askpass' = askpass \ {t}
  /\ shown' = [s \in Tunnels |-> IF s = t /\ session[t] # "none" THEN "error" ELSE session[s]]
  /\ UNCHANGED <<gaveUp, quit>>

(* Within the window: the start fails and the tunnel is forgotten.         *)
DiesInWindow(t) ==
  /\ Alive /\ start[t] = "window" /\ Dying(t) /\ Freed(t)
  /\ start' = [start EXCEPT ![t] = "failed"]
  /\ session' = [session EXCEPT ![t] = "none"]
  /\ askpass' = askpass \ {t}
  /\ Broadcast
  /\ UNCHANGED <<gaveUp, quit>>

(* Later: the tunnel is listed with its error, unless it is being stopped. *)
DiesLater(t) ==
  /\ Alive /\ start[t] = "started" /\ Dying(t) /\ Freed(t)
  /\ \/ /\ session[t] = "none"
        /\ UNCHANGED <<session, askpass, shown>>
     \/ /\ session[t] # "none"
        /\ session' = [session EXCEPT ![t] = "error"]
        /\ askpass' = askpass \ {t}
        /\ Broadcast
  /\ UNCHANGED <<start, gaveUp, quit>>

(* After the application: nobody listens.                                  *)
DiesAlone(t) ==
  /\ ~Alive /\ Dying(t)
  /\ UNCHANGED <<start, session, askpass, stop, gaveUp, shown, quit>>

-----------------------------------------------------------------------------
(* Stopping. *)

Terminated(c) == IF c = "alive" THEN "termed" ELSE c

(* stopTunnel up to its wait, for every tunnel of S: out of the map, told  *)
(* to end, and waited for if there is a process.                           *)
StopThese(S) ==
  /\ session' = [t \in Tunnels |-> IF t \in S THEN "none" ELSE session[t]]
  /\ child' = [t \in Tunnels |-> IF t \in S THEN Terminated(child[t]) ELSE child[t]]
  /\ stop' = [t \in Tunnels |-> IF t \notin S THEN stop[t]
                                ELSE IF child[t] = "dead" THEN "finishing" ELSE "waiting"]

\* A mutant: the stop is done once the process is told.
StopAtOnce(t) ==
  /\ quit = "no" /\ session[t] # "none"
  /\ session' = [session EXCEPT ![t] = "none"]
  /\ child' = [child EXCEPT ![t] = Terminated(@)]
  /\ stop' = [stop EXCEPT ![t] = "finishing"]
  /\ UNCHANGED <<start, askpass, gaveUp, shown, quit>>

StopTunnel(t) ==
  /\ quit = "no" /\ session[t] # "none"
  /\ StopThese({t})
  /\ UNCHANGED <<start, askpass, gaveUp, shown, quit>>

(* 1500 ms: a process that ignores the signal is killed. A start window,   *)
(* which is shorter and began before, is over by then.                     *)
Escalate(t) ==
  /\ Alive /\ stop[t] = "waiting" /\ child[t] = "termed" /\ start[t] # "window"
  /\ child' = [child EXCEPT ![t] = "killed"]
  /\ UNCHANGED <<start, session, askpass, stop, gaveUp, shown, quit>>

\* A mutant: the stop gives up before the process is killed.
GiveUpEarly(t) ==
  /\ Alive /\ stop[t] = "waiting" /\ child[t] \in {"termed", "killed"}
  /\ stop' = [stop EXCEPT ![t] = "finishing"]
  /\ gaveUp' = gaveUp \cup {t}
  /\ UNCHANGED <<start, session, askpass, child, shown, quit>>

(* 3000 ms: no exit was seen.                                              *)
GiveUp(t) ==
  /\ Alive /\ stop[t] = "waiting" /\ child[t] = "killed"
  /\ stop' = [stop EXCEPT ![t] = "finishing"]
  /\ gaveUp' = gaveUp \cup {t}
  /\ UNCHANGED <<start, session, askpass, child, shown, quit>>

\* A mutant: the askpass server of a stopped tunnel is left to the exit handler.
StopFinishedKeepsAskpass(t) ==
  /\ Alive /\ stop[t] = "finishing"
  /\ stop' = [stop EXCEPT ![t] = "done"]
  /\ UNCHANGED <<start, session, askpass, child, gaveUp, quit>>
  /\ Broadcast

(* The askpass server has stopped; the list is sent.                       *)
StopFinished(t) ==
  /\ Alive /\ stop[t] = "finishing"
  /\ stop' = [stop EXCEPT ![t] = "done"]
  /\ askpass' = askpass \ {t}
  /\ UNCHANGED <<start, session, child, gaveUp, quit>>
  /\ Broadcast

-----------------------------------------------------------------------------
(* The application quits. *)

(* dispose(): the listener goes, and stopAll() stops what is in the map.   *)
Dispose ==
  /\ quit = "no"
  /\ quit' = "stopping"
  /\ StopThese({t \in Tunnels : session[t] # "none"})
  /\ UNCHANGED <<start, askpass, gaveUp, shown>>

\* A mutant: an exit trusts stopAll().
ExitUnchecked ==
  /\ Alive
  /\ quit' = "exited"
  /\ UNCHANGED <<start, session, askpass, child, stop, gaveUp, shown>>

(* The 'exit' event, after the stops or without them: killAllSync() tells  *)
(* what is in the map by then.                                             *)
Exit ==
  /\ Alive
  /\ quit' = "exited"
  /\ child' = [t \in Tunnels |-> IF session[t] # "none" THEN Terminated(child[t]) ELSE child[t]]
  /\ UNCHANGED <<start, session, askpass, stop, gaveUp, shown>>

TunnelNext ==
  \/ \E t \in Tunnels :
       \/ StartTunnel(t) \/ AskpassStarted(t) \/ WindowEnds(t)
       \/ DiesInWindow(t) \/ DiesLater(t) \/ DiesAlone(t)
       \/ StopTunnel(t) \/ Escalate(t) \/ GiveUp(t) \/ StopFinished(t)
  \/ Dispose \/ Exit

(* Timers fire, local servers start and stop, and a killed process dies. A *)
(* process that is only told to end need not.                              *)
TunnelFairness ==
  \A t \in Tunnels :
    /\ WF_tunnelVars(AskpassStarted(t)) /\ WF_tunnelVars(WindowEnds(t) \/ DiesInWindow(t))
    /\ WF_tunnelVars(Escalate(t)) /\ WF_tunnelVars(GiveUp(t)) /\ WF_tunnelVars(StopFinished(t))
    /\ WF_tunnelVars(child[t] = "killed" /\ (DiesInWindow(t) \/ DiesLater(t) \/ DiesAlone(t)))

TunnelSpec == TunnelInit /\ [][TunnelNext]_tunnelVars
FairTunnelSpec == TunnelSpec /\ TunnelFairness

-----------------------------------------------------------------------------
(* Properties. *)

TunnelSettled(t) == start[t] # "window" /\ stop[t] \in {"no", "done"}

(* What the window shows of a tunnel is so: no tunnel stays in the list    *)
(* that is gone, and none is missing, once its start and its stop are over *)
(* (SSHTunnelManager 191-199, 240). A start that succeeds during its stop  *)
(* is shown all the same, until the stop sends the list.                   *)
ShownIsSo ==
  quit = "no" => \A t \in Tunnels : TunnelSettled(t) => shown[t] = session[t]

(* A stop that returns has freed the port: its process is gone, unless it  *)
(* outlived SIGKILL (SSHTunnelManager 210-214).                            *)
PortFreed ==
  \A t \in Tunnels \ gaveUp : stop[t] = "done" => child[t] = "dead"

(* No askpass server outlives its tunnel, whichever way a start, a process *)
(* or a stop ends (SSHTunnelManager 126-128).                              *)
AskpassStops ==
  Alive => \A t \in askpass :
    start[t] = "asking" \/ session[t] = "active" \/ stop[t] \in {"waiting", "finishing"}

(* Whether the application quits by itself or by process.exit(), and       *)
(* whatever was starting then, no ssh is left that was not told to end     *)
(* (SSHTunnelManager 33-39).                                               *)
ExitLeavesNone == ~Alive => \A t \in Tunnels : child[t] # "alive"

(* A stop returns (SSHTunnelManager 235), and a process that ignores the   *)
(* first signal is ended unless the application ends first.                *)
StopsEnd ==
  \A t \in Tunnels : stop[t] = "waiting" ~> (stop[t] = "done" /\ child[t] = "dead") \/ ~Alive

=============================================================================
