------------------------- MODULE StorageConnections -------------------------
(***************************************************************************)
(* The connections of the storage registry: the provider that is           *)
(* registered under an id, the ssh process behind it with its askpass      *)
(* server and control directory, the calls that connect on demand and      *)
(* reconnect after a lost connection, and the disconnects                  *)
(* (StorageRegistry, SFTPStorageProvider, OpenSshSftpClientAdapter,        *)
(* OpenSshSftpProcess).                                                    *)
(*                                                                         *)
(* One id, and a login that needs an askpass server: without one closing   *)
(* waits for nothing. A start of ssh is named by the call and the attempt  *)
(* that made it. What code does up to its next await is one action;        *)
(* continuations that are due run before the next event (Settled).         *)
(*                                                                         *)
(* A connection is the SFTP session on the ssh process that was spawned     *)
(* for it.  That process ends when it is told to, and its session with it;  *)
(* the multiplexing master it may have left in the background              *)
(* (ControlMaster=auto, ControlPersist=120: SmartcardDetector 244-247) has  *)
(* no session then and ends by itself.  Nothing here asks for it, and what  *)
(* is said of connections is not said of it.                                *)
(***************************************************************************)
EXTENDS Naturals, FiniteSets

CONSTANTS
  Providers,      \* the provider objects that may be made for the id
  Calls,          \* the operations on a provider that is or was registered
  Disconnects,    \* the calls of StorageRegistry.disconnect
  MaxDrops,       \* how many connections may be lost
  None

Starts == Calls \X {1, 2}

ASSUME ConnectionsAssumption ==
  /\ MaxDrops \in Nat /\ IsFiniteSet(Disconnects)
  /\ None \notin Providers \cup Starts /\ Providers \cap Disconnects = {}

VARIABLES
  registered,     \* the provider in the map, or None
  made,           \* the providers made so far
  link,           \* per provider: isConnected, connectionPromise, disconnectCount, adapter.protocol
  proc,           \* per provider: the fields of its OpenSshSftpProcess
  ssh,            \* per start: its ssh process
  servers,        \* the askpass servers not stopped
  dirs,           \* the control directories not removed
  stops,          \* per closer: the askpass server it waits for
  pc, target, gen, on,   \* per call: place, provider, generation, connection
  leave, leaving, \* per disconnect: place and provider
  drops,          \* how many connections were lost
  late,           \* the calls that began while their provider was disconnected
  kept,           \* the calls that began when it was not, or no longer, registered
  stolen          \* the providers whose entry another one's disconnect removed

registryVars == <<registered, made, stolen>>
sshVars == <<ssh, servers, dirs, stops>>
callVars == <<pc, target, gen, on, late, kept>>
leaveVars == <<leave, leaving>>
vars == <<registryVars, link, proc, sshVars, callVars, leaveVars, drops>>

Closers == Disconnects \cup Providers
Maker(s) == target[s[1]]

TypeOK ==
  /\ registered \in Providers \cup {None} /\ made \subseteq Providers
  /\ stolen \subseteq made
  /\ link \in [Providers -> [connected : BOOLEAN, connecting : Starts \cup {None},
                             protocol : Starts \cup {None}, count : 0..Cardinality(Disconnects)]]
  /\ proc \in [Providers -> [closed : BOOLEAN, child : Starts \cup {None},
                             askpass : Starts \cup {None}, dir : Starts \cup {None}]]
  /\ ssh \in [Starts -> {"none", "preparing", "starting", "open", "killed", "gone", "failed"}]
  /\ servers \subseteq Starts /\ dirs \subseteq Starts
  /\ stops \in [Closers -> Starts \cup {None}]
  /\ pc \in [Calls -> {"new", "waiting", "running", "dropped", "retrying", "rerunning",
                       "done", "failed"}]
  /\ target \in [Calls -> Providers \cup {None}]
  /\ gen \in [Calls -> 0..Cardinality(Disconnects)]
  /\ on \in [Calls -> Starts \cup {None}]
  /\ leave \in [Disconnects -> {"new", "waiting", "closing", "ended", "done"}]
  /\ leaving \in [Disconnects -> Providers \cup {None}]
  /\ drops \in 0..MaxDrops
  /\ late \subseteq Calls /\ kept \subseteq Calls

Init ==
  /\ registered = None /\ made = {} /\ stolen = {}
  /\ link = [p \in Providers |->
       [connected |-> FALSE, connecting |-> None, protocol |-> None, count |-> 0]]
  /\ proc = [p \in Providers |->
       [closed |-> FALSE, child |-> None, askpass |-> None, dir |-> None]]
  /\ ssh = [s \in Starts |-> "none"]
  /\ servers = {} /\ dirs = {} /\ stops = [x \in Closers |-> None]
  /\ pc = [c \in Calls |-> "new"] /\ target = [c \in Calls |-> None]
  /\ gen = [c \in Calls |-> 0] /\ on = [c \in Calls |-> None]
  /\ leave = [d \in Disconnects |-> "new"] /\ leaving = [d \in Disconnects |-> None]
  /\ drops = 0 /\ late = {} /\ kept = {}

(* No continuation is due: the next event may be handled. *)
Settled ==
  /\ \A c \in Calls : pc[c] # "dropped"
  /\ \A d \in Disconnects :
       leave[d] # "ended" /\ (leave[d] = "waiting" => link[leaving[d]].connecting # None)

Departing(p) ==
  \E d \in Disconnects : leaving[d] = p /\ leave[d] \in {"waiting", "closing"}

-----------------------------------------------------------------------------
(* The ssh process of a provider. *)

(* start() up to its first await: it forgets that it was closed and makes  *)
(* a control directory and an askpass server.                              *)
Start(p, s) ==
  /\ proc' = [proc EXCEPT ![p].closed = FALSE, ![p].askpass = s, ![p].dir = s]
  /\ ssh' = [ssh EXCEPT ![s] = "preparing"]
  /\ servers' = servers \cup {s} /\ dirs' = dirs \cup {s}
  /\ UNCHANGED stops

(* What kill('SIGTERM') makes of the process that was spawned; one that is *)
(* still logging in has no listeners, so it goes at once.                  *)
Killed(s) ==
  IF s = None THEN ssh
  ELSE [ssh EXCEPT ![s] = CASE @ = "open" -> "killed" [] @ = "starting" -> "failed" [] OTHER -> @]

(* The rest of close(): it clears the fields, whatever they hold by now. *)
Closed(p, x) ==
  /\ servers' = servers \ {stops[x]}
  /\ dirs' = dirs \ {proc[p].dir}
  /\ proc' = [proc EXCEPT ![p].askpass = None, ![p].dir = None]
  /\ stops' = [stops EXCEPT ![x] = None]

(* The askpass server listens and ssh is spawned. *)
Spawned(p) ==
  LET s == link[p].connecting IN
  /\ Settled
  /\ s # None /\ ssh[s] = "preparing"
  /\ ssh' = [ssh EXCEPT ![s] = "starting"]
  /\ proc' = [proc EXCEPT ![p].child = s]
  /\ UNCHANGED <<registryVars, link, servers, dirs, stops, callVars, leaveVars, drops>>

(* The handshake is done: the calls that wait for the connection go on,    *)
(* but not one that reconnects after its provider was disconnected.        *)
Ready(p) ==
  LET s == link[p].connecting
      Stale(c) == pc[c] = "retrying" /\ gen[c] # link[p].count IN
  /\ Settled
  /\ s # None /\ ssh[s] = "starting"
  /\ ssh' = [ssh EXCEPT ![s] = "open"]
  /\ link' = [link EXCEPT ![p].connected = TRUE, ![p].protocol = s, ![p].connecting = None]
  /\ pc' = [c \in Calls |->
       IF target[c] # p THEN pc[c]
       ELSE CASE pc[c] = "waiting" -> "running"
              [] Stale(c) -> "failed"
              [] pc[c] = "retrying" /\ ~Stale(c) -> "rerunning"
              [] OTHER -> pc[c]]
  /\ on' = [c \in Calls |->
       IF target[c] = p /\ pc[c] \in {"waiting", "retrying"} THEN s ELSE on[c]]
  /\ UNCHANGED <<registryVars, proc, servers, dirs, stops, target, gen, late, kept, leaveVars, drops>>

(* The start fails before or during the handshake; it cleans up after      *)
(* itself (close) before it reports the failure.                           *)
StartFails(p) ==
  LET s == link[p].connecting IN
  /\ Settled
  /\ s # None /\ ssh[s] \in {"preparing", "starting"}
  /\ proc' = [proc EXCEPT ![p].closed = TRUE, ![p].child = None]
  /\ ssh' = [Killed(proc[p].child) EXCEPT ![s] = "failed"]
  /\ stops' = [stops EXCEPT ![p] = proc[p].askpass]
  /\ UNCHANGED <<registryVars, link, servers, dirs, callVars, leaveVars, drops>>

\* A mutant: the directory of a failed start stays.
CleanedUpButDir(p) ==
  LET s == link[p].connecting IN
  /\ Settled
  /\ s # None /\ ssh[s] = "failed"
  /\ servers' = servers \ {stops[p]} /\ stops' = [stops EXCEPT ![p] = None]
  /\ proc' = [proc EXCEPT ![p].askpass = None, ![p].dir = None]
  /\ link' = [link EXCEPT ![p].connected = FALSE, ![p].connecting = None]
  /\ pc' = [c \in Calls |->
       IF target[c] = p /\ pc[c] \in {"waiting", "retrying"} THEN "failed" ELSE pc[c]]
  /\ UNCHANGED <<registryVars, ssh, dirs, target, gen, on, late, kept, leaveVars, drops>>

\* A mutant: the promise of a failed connection is kept.
CleanedUpKeepsPromise(p) ==
  LET s == link[p].connecting IN
  /\ Settled
  /\ s # None /\ ssh[s] = "failed"
  /\ Closed(p, p)
  /\ pc' = [c \in Calls |->
       IF target[c] = p /\ pc[c] \in {"waiting", "retrying"} THEN "failed" ELSE pc[c]]
  /\ UNCHANGED <<registryVars, link, ssh, target, gen, on, late, kept, leaveVars, drops>>

(* The failed start is cleaned up; whoever waited for it fails.            *)
CleanedUp(p) ==
  LET s == link[p].connecting IN
  /\ Settled
  /\ s # None /\ ssh[s] = "failed"
  /\ Closed(p, p)
  /\ link' = [link EXCEPT ![p].connected = FALSE, ![p].connecting = None]
  /\ pc' = [c \in Calls |->
       IF target[c] = p /\ pc[c] \in {"waiting", "retrying"} THEN "failed" ELSE pc[c]]
  /\ UNCHANGED <<registryVars, ssh, target, gen, on, late, kept, leaveVars, drops>>

(* The connection ends, lost or because ssh was told to: what ran on it is *)
(* rejected and the provider hears that it is no longer connected. A call  *)
(* tries once more if it has not yet.                                      *)
Dies(s) ==
  /\ Settled
  /\ \/ ssh[s] = "open" /\ drops < MaxDrops /\ drops' = drops + 1
     \/ ssh[s] = "killed" /\ UNCHANGED drops
  /\ ssh' = [ssh EXCEPT ![s] = "gone"]
  /\ link' = [link EXCEPT ![Maker(s)].connected = FALSE]
  /\ pc' = [c \in Calls |->
       IF on[c] # s THEN pc[c]
       ELSE CASE pc[c] = "running" -> "dropped"
              [] pc[c] = "rerunning" -> "failed"
              [] OTHER -> pc[c]]
  /\ UNCHANGED <<registryVars, proc, servers, dirs, stops, target, gen, on, late, kept, leaveVars>>

-----------------------------------------------------------------------------
(* Calls on a provider. *)

(* StorageRegistry.getOrCreate with nothing under the id. *)
GetOrCreate ==
  /\ Settled
  /\ registered = None
  /\ \E p \in Providers \ made : registered' = p /\ made' = made \cup {p}
  /\ UNCHANGED <<stolen, link, proc, sshVars, callVars, leaveVars, drops>>

(* A call begins on a provider: the registered one, or one its caller has   *)
(* kept since it was (a handler between two calls, a transfer under way),   *)
(* which nobody looks up again.  It notes the generation, and runs on the   *)
(* connection there is, joins a start in progress, or starts ssh.          *)
Begin(c, p) ==
  /\ Settled
  /\ pc[c] = "new" /\ p \in made
  /\ target' = [target EXCEPT ![c] = p]
  /\ gen' = [gen EXCEPT ![c] = link[p].count]
  /\ late' = IF Departing(p) THEN late \cup {c} ELSE late
  /\ kept' = IF p # registered THEN kept \cup {c} ELSE kept
  /\ \/ /\ link[p].connected
        /\ on' = [on EXCEPT ![c] = link[p].protocol]
        /\ pc' = [pc EXCEPT ![c] = IF ssh[link[p].protocol] = "gone" THEN "dropped" ELSE "running"]
        /\ UNCHANGED <<link, proc, sshVars>>
     \/ /\ ~link[p].connected /\ link[p].connecting # None
        /\ pc' = [pc EXCEPT ![c] = "waiting"]
        /\ UNCHANGED <<link, proc, sshVars, on>>
     \/ /\ ~link[p].connected /\ link[p].connecting = None
        /\ link' = [link EXCEPT ![p].connecting = <<c, 1>>]
        /\ Start(p, <<c, 1>>)
        /\ pc' = [pc EXCEPT ![c] = "waiting"]
        /\ UNCHANGED on
  /\ UNCHANGED <<registryVars, leaveVars, drops>>

(* The server answers. *)
Answered(c) ==
  /\ Settled
  /\ pc[c] \in {"running", "rerunning"} /\ ssh[on[c]] = "open"
  /\ pc' = [pc EXCEPT ![c] = "done"]
  /\ UNCHANGED <<registryVars, link, proc, sshVars, target, gen, on, late, kept, leaveVars, drops>>

\* A mutant: a lost call reconnects, disconnected or not.
RetryAlways(c) ==
  LET p == target[c] IN
  /\ pc[c] = "dropped" /\ link[p].connecting = None
  /\ pc' = [pc EXCEPT ![c] = "retrying"]
  /\ link' = [link EXCEPT ![p].connected = FALSE, ![p].connecting = <<c, 2>>]
  /\ Start(p, <<c, 2>>)
  /\ UNCHANGED <<registryVars, target, gen, on, late, kept, leaveVars, drops>>

(* The call lost its connection: it connects again, unless its provider    *)
(* was disconnected since it began.                                        *)
Retry(c) ==
  LET p == target[c] IN
  /\ pc[c] = "dropped"
  /\ \/ /\ gen[c] # link[p].count
        /\ pc' = [pc EXCEPT ![c] = "failed"]
        /\ UNCHANGED <<link, proc, sshVars>>
     \/ /\ gen[c] = link[p].count
        /\ pc' = [pc EXCEPT ![c] = "retrying"]
        /\ IF link[p].connecting # None
             THEN /\ link' = [link EXCEPT ![p].connected = FALSE]
                  /\ UNCHANGED <<proc, sshVars>>
             ELSE /\ link' = [link EXCEPT ![p].connected = FALSE, ![p].connecting = <<c, 2>>]
                  /\ Start(p, <<c, 2>>)
  /\ UNCHANGED <<registryVars, target, gen, on, late, kept, leaveVars, drops>>

-----------------------------------------------------------------------------
(* Disconnects. *)

(* SFTPStorageProvider.disconnect counts, so that no call in flight        *)
(* reconnects; a connection in progress is waited for.                     *)
Disconnect(d) ==
  LET p == registered IN
  /\ Settled
  /\ leave[d] = "new" /\ p # None
  /\ leaving' = [leaving EXCEPT ![d] = p]
  /\ leave' = [leave EXCEPT ![d] = "waiting"]
  /\ link' = [link EXCEPT ![p].count = @ + 1]
  /\ UNCHANGED <<registryVars, proc, sshVars, callVars, drops>>

(* client.end: the first to close kills ssh and waits for the askpass      *)
(* server to stop; whoever finds it closed is done.                        *)
End(d) ==
  LET p == leaving[d] IN
  /\ leave[d] = "waiting" /\ link[p].connecting = None
  /\ \/ /\ proc[p].closed
        /\ leave' = [leave EXCEPT ![d] = "ended"]
        /\ UNCHANGED <<proc, sshVars>>
     \/ /\ ~proc[p].closed
        /\ proc' = [proc EXCEPT ![p].closed = TRUE, ![p].child = None]
        /\ ssh' = Killed(proc[p].child)
        /\ stops' = [stops EXCEPT ![d] = proc[p].askpass]
        /\ leave' = [leave EXCEPT ![d] = IF proc[p].askpass = None THEN "ended" ELSE "closing"]
        /\ UNCHANGED <<servers, dirs>>
  /\ UNCHANGED <<registryVars, link, callVars, leaving, drops>>

(* The askpass server has stopped. *)
Ended(d) ==
  /\ Settled
  /\ leave[d] = "closing"
  /\ Closed(leaving[d], d)
  /\ leave' = [leave EXCEPT ![d] = "ended"]
  /\ UNCHANGED <<registryVars, link, ssh, callVars, leaving, drops>>

(* The provider counts as unconnected and the id is removed from the map,  *)
(* whatever it stands for by now.                                          *)
Finish(d) ==
  LET p == leaving[d] IN
  /\ leave[d] = "ended"
  /\ leave' = [leave EXCEPT ![d] = "done"]
  /\ link' = [link EXCEPT ![p].connected = FALSE]
  /\ registered' = None
  /\ stolen' = stolen \cup ({registered} \ {p, None})
  /\ UNCHANGED <<made, proc, sshVars, callVars, leaving, drops>>

Next ==
  \/ \E p \in Providers : Spawned(p) \/ Ready(p) \/ StartFails(p) \/ CleanedUp(p)
  \/ \E s \in Starts : Dies(s)
  \/ GetOrCreate
  \/ \E c \in Calls, p \in Providers : Begin(c, p)
  \/ \E c \in Calls : Answered(c) \/ Retry(c)
  \/ \E d \in Disconnects : Disconnect(d) \/ End(d) \/ Ended(d) \/ Finish(d)

(* Timers and the operating system: a start ends, a told process dies, a   *)
(* server that can be reached answers or the connection is lost, an        *)
(* askpass server stops. Continuations run.                                *)
Fairness ==
  /\ \A p \in Providers :
       WF_vars(Spawned(p) \/ Ready(p) \/ StartFails(p)) /\ WF_vars(CleanedUp(p))
  /\ \A s \in Starts : WF_vars(ssh[s] = "killed" /\ Dies(s))
  /\ \A c \in Calls : WF_vars(Answered(c)) /\ WF_vars(Retry(c))
  /\ \A d \in Disconnects : WF_vars(End(d)) /\ WF_vars(Ended(d)) /\ WF_vars(Finish(d))

Spec == Init /\ [][Next]_vars
FairSpec == Spec /\ Fairness

-----------------------------------------------------------------------------
(* Properties. *)

(* Nothing that was begun is still going on. *)
Idle ==
  /\ \A c \in Calls : pc[c] \in {"new", "done", "failed"}
  /\ \A d \in Disconnects : leave[d] \in {"new", "done"}
  /\ \A s \in Starts : ssh[s] # "killed"

Late(p) == \E c \in late : target[c] = p

(* A connection that was started for a call is not alive after a later     *)
(* disconnect of its provider, whoever waited, retried or joined           *)
(* (SFTPStorageProvider 248-265, 566-580).                                 *)
DisconnectSticks ==
  \A s \in Starts :
    /\ ssh[s] \in {"starting", "open"} /\ gen[s[1]] < link[Maker(s)].count
    => Departing(Maker(s))

(* A provider that left the registry by its own disconnect has no           *)
(* connection left once nothing is in progress, but one that was opened for *)
(* a call that began during that disconnect or after it.                    *)
DisconnectedIsClosed ==
  Idle => \A p \in made \ ({registered} \cup stolen), s \in Starts :
    Maker(s) = p => ssh[s] \in {"none", "gone", "failed"} \/ s[1] \in late \cup kept

(* What is disconnected stays so for the calls that were made before: none  *)
(* in flight opens it again, and none leaves anything open.  A caller that  *)
(* keeps the provider and calls it again does connect it, and nothing in    *)
(* the registry closes that connection.                                     *)
DisconnectHolds == DisconnectSticks /\ DisconnectedIsClosed

(* A live connection has the askpass server and the control directory it   *)
(* was started with: no clean-up of another start or a disconnect takes    *)
(* them (OpenSshSftpProcess 330-369).                                      *)
ConnectedIsIntact ==
  \A s \in Starts : ssh[s] = "open" /\ ~Late(Maker(s)) => s \in servers \cap dirs

(* A start that failed leaves no askpass server and no directory behind,   *)
(* also when the process object was closed before (OpenSshSftpProcess      *)
(* 79-91).                                                                 *)
FailedStartsLeaveNothing ==
  \A s \in Starts :
    ssh[s] = "failed" /\ link[Maker(s)].connecting # s /\ ~Late(Maker(s))
    => s \notin servers \cup dirs

(* What a live connection needs is there and what a failed start had is    *)
(* not, however starts, clean-ups and disconnects on one process object    *)
(* interleave.  It does not say that nothing else is there: the server and  *)
(* the directory of a connection that was lost stay when it is replaced.    *)
ResourcesAgree == TypeOK /\ ConnectedIsIntact /\ FailedStartsLeaveNothing

(* Calls and disconnects end, whoever waits for whom. *)
CallsEnd ==
  /\ \A c \in Calls : pc[c] # "new" ~> pc[c] \in {"done", "failed"}
  /\ \A d \in Disconnects : leave[d] # "new" ~> leave[d] = "done"
=============================================================================
