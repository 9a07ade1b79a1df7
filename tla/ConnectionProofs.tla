-------------------------- MODULE ConnectionProofs --------------------------
(***************************************************************************)
(* Theorems about the two components that start ssh processes of their     *)
(* own: StorageConnections, for any number of providers, calls and         *)
(* disconnects, and SshTunnels, for any number of tunnels.                 *)
(***************************************************************************)
EXTENDS StorageConnections, SshTunnels, FiniteSetTheorems, TLAPS

-----------------------------------------------------------------------------
(* The connections: the strengthening. *)

\* A start of ssh that is on its way, or the connection it became.
Live(s) == ssh[s] \in {"preparing", "starting", "open"}

\* It was begun before its provider was last disconnected.
Old(s) == gen[s[1]] < link[Maker(s)].count

\* A call came to the provider by a caller that had kept it.
KeptOn(p) == \E c \in kept : target[c] = p

(* A call: what it can have started, and what it ran on. *)
CallInv(c) ==
  /\ pc[c] = "new" <=> target[c] = None
  /\ pc[c] = "new" => ssh[<<c, 1>>] = "none"
  /\ pc[c] \notin {"retrying", "rerunning", "done", "failed"} => ssh[<<c, 2>>] = "none"
  /\ on[c] # None => target[c] # None /\ Maker(on[c]) = target[c]
  /\ pc[c] = "dropped" => \A s \in Starts : Maker(s) = target[c] =>
       /\ ssh[s] \in {"open", "killed"} => KeptOn(target[c])
       /\ ssh[s] = "open" => ~Old(s)
  /\ c \notin late \cup kept => gen[c] = 0
  /\ c \in kept =>
       /\ target[c] # None /\ registered # target[c]
       /\ c \in late \/ \A d \in Disconnects : leaving[d] = target[c] => leave[d] = "done"

(* A start: its provider has no other that is alive, unless a kept call     *)
(* made one, and closing that provider's process object finds this one if   *)
(* it has to.                                                               *)
StartInv(s) ==
  LET p == Maker(s) IN
  ssh[s] # "none" =>
    /\ p \in made
    /\ ssh[s] \in {"preparing", "starting"} => link[p].connecting = s /\ ~proc[p].closed
    /\ ssh[s] = "starting" => proc[p].child = s
    /\ ssh[s] \in {"open", "killed"} /\ ~KeptOn(p) =>
         /\ link[p].protocol = s /\ link[p].connecting = None
         /\ link[p].connected \/ registered # p
    /\ ssh[s] = "open" /\ (~KeptOn(p) \/ Old(s)) =>
         link[p].connecting = None /\ proc[p].child = s /\ ~proc[p].closed
    /\ ssh[s] = "open" /\ proc[p].askpass = s => proc[p].child = s
    /\ Live(s) /\ Old(s) => \E d \in Disconnects : leaving[d] = p /\ leave[d] = "waiting"

(* Its askpass server and control directory, unless a call began while the  *)
(* provider was disconnected.                                               *)
ResourceInv(s) ==
  LET p == Maker(s) IN
  ssh[s] # "none" /\ ~Late(p) =>
    /\ Live(s) => s \in servers \cap dirs
    /\ link[p].connecting = s => proc[p].dir = s /\ (Live(s) => proc[p].askpass = s)
    /\ ssh[s] = "failed" =>
         IF link[p].connecting = s THEN stops[p] = s ELSE s \notin servers \cup dirs

(* What the provider object and its process object refer to. *)
ProviderInv(p) ==
  /\ \A s \in {link[p].connecting, link[p].protocol, proc[p].child, proc[p].askpass, proc[p].dir} \ {None} :
       Maker(s) = p /\ ssh[s] # "none"
  /\ link[p].connecting # None =>
       /\ ssh[link[p].connecting] \in {"preparing", "starting", "failed"}
       /\ proc[p].askpass \in {link[p].connecting, None}
  /\ link[p].connected => link[p].protocol # None /\ ssh[link[p].protocol] \in {"open", "killed"}

(* The provider counts its disconnects. *)
CountInv == \A p \in Providers : link[p].count = Cardinality({d \in Disconnects : leaving[d] = p})

(* A disconnect: what it closed stays closed. *)
LeaveInv(d) ==
  /\ leave[d] = "new" <=> leaving[d] = None
  /\ leaving[d] \in made \cup {None}
  /\ leaving[d] # None /\ leave[d] = "done" => registered # leaving[d]
  /\ leave[d] \in {"closing", "ended"} /\ ~Late(leaving[d]) =>
       /\ link[leaving[d]].connecting = None
       /\ \A s \in Starts : Maker(s) = leaving[d] => ~Live(s)

(* The registry, and who waits for which askpass server. *)
RegistryInv ==
  /\ registered \in made \cup {None}
  /\ \A c \in Calls : target[c] \in made \cup {None}
  /\ \A p \in made \ ({registered} \cup stolen) :
       \E d \in Disconnects : leaving[d] = p /\ leave[d] = "done"
  /\ \A x \in Closers : stops[x] # None => ssh[stops[x]] \in {"killed", "gone", "failed"}

(* The inductive invariant. *)
ConnectionInv ==
  /\ TypeOK /\ RegistryInv /\ CountInv
  /\ \A c \in Calls : CallInv(c)
  /\ \A s \in Starts : StartInv(s) /\ ResourceInv(s)
  /\ \A p \in Providers : ProviderInv(p)
  /\ \A d \in Disconnects : LeaveInv(d)

\* The records of a provider object and of its process object.
Links == [connected : BOOLEAN, connecting : Starts \cup {None},
          protocol : Starts \cup {None}, count : 0..Cardinality(Disconnects)]
Processes == [closed : BOOLEAN, child : Starts \cup {None},
              askpass : Starts \cup {None}, dir : Starts \cup {None}]

-----------------------------------------------------------------------------
(* The connections: every step keeps the invariant. *)

\* Calls and the starts they make.
LEMMA StartFacts ==
  /\ \A s \in Starts : s[1] \in Calls /\ s # None
  /\ \A c \in Calls : /\ <<c, 1>> \in Starts /\ <<c, 2>> \in Starts /\ <<c, 1>> # <<c, 2>>
                     /\ <<c, 1>>[1] = c /\ <<c, 2>>[1] = c
BY ConnectionsAssumption DEF Starts

\* The records of a provider.
LEMMA Records ==
  ASSUME TypeOK
  PROVE  \A p \in Providers : link[p] \in Links /\ proc[p] \in Processes
BY DEF TypeOK, Links, Processes

\* A step that leaves a provider, its processes and its disconnects alone.
LEMMA OthersStay ==
  ASSUME ConnectionInv, NEW t \in Starts, StartInv(t), ssh'[t] = ssh[t], made \subseteq made',
         ssh[t] # "none" => link'[Maker(t)] = link[Maker(t)] /\ proc'[Maker(t)] = proc[Maker(t)],
         UNCHANGED <<registered, target, gen, kept, leave, leaving>>
  PROVE  StartInv(t)'
BY DEF StartInv, Live, Maker, Old, KeptOn

\* ssh is spawned for the start in progress, which is its provider's only one.
LEMMA SpawnedKeeps ==
  ASSUME ConnectionInv, NEW p \in Providers, Spawned(p)
  PROVE  ConnectionInv'
<1> USE StartFacts, ConnectionsAssumption DEF ConnectionInv
<1> DEFINE s == link[p].connecting
           process == [proc[p] EXCEPT !.child = s]
<1>1. /\ s \in Starts /\ s # None /\ ssh[s] = "preparing" /\ Maker(s) = p
      /\ link[p].connecting = s
  BY DEF Spawned, TypeOK, ProviderInv
<1> HIDE DEF s
<1>2. /\ ssh' = [ssh EXCEPT ![s] = "starting"]
      /\ UNCHANGED <<registryVars, link, servers, dirs, stops, callVars, leaveVars, drops>>
  BY DEF Spawned, s
<1>3. proc[p] \in Processes BY Records
<1>4. /\ process \in Processes /\ process.child = s /\ process.closed = proc[p].closed
      /\ process.askpass = proc[p].askpass /\ process.dir = proc[p].dir
  BY <1>1, <1>3 DEF Processes
<1>5. proc' = [proc EXCEPT ![p] = process] BY DEF Spawned, s, TypeOK
<1> HIDE DEF process
<1> USE <1>1, <1>2, <1>4, <1>5 DEF registryVars, callVars, leaveVars
<1>6. TypeOK' BY DEF TypeOK, Processes
<1>7. RegistryInv' BY DEF TypeOK, RegistryInv
<1>8. ASSUME NEW c \in Calls PROVE CallInv(c)' BY DEF TypeOK, CallInv, Maker, Old, KeptOn
<1>9. ASSUME NEW t \in Starts PROVE StartInv(t)'
  <2>1. /\ StartInv(t) /\ UNCHANGED <<registered, made, target, gen, kept, leave, leaving, link>>
        /\ proc[p].askpass \in {s, None}
    BY DEF ProviderInv
  <2>2. CASE Maker(t) = p
    <3>1. proc'[p] = process /\ (t # s => ssh'[t] = ssh[t]) /\ ssh'[s] = "starting" BY DEF TypeOK
    <3>2. StartInv(s) OBVIOUS
    <3> HIDE DEF ConnectionInv
    <3> QED BY <2>1, <2>2, <3>1, <3>2 DEF StartInv, Live, Maker, Old, KeptOn
  <2>3. CASE Maker(t) # p
    <3>1. ssh'[t] = ssh[t] BY <2>3 DEF TypeOK
    <3>2. ssh[t] # "none" => proc'[Maker(t)] = proc[Maker(t)]
      BY <2>1, <2>3 DEF StartInv, TypeOK
    <3> QED BY <2>1, <3>1, <3>2, OthersStay
  <2> QED BY <2>2, <2>3
<1>10. ASSUME NEW t \in Starts PROVE ResourceInv(t)'
  BY DEF TypeOK, ResourceInv, Maker, Live, Late
<1>11. ASSUME NEW q \in Providers PROVE ProviderInv(q)' BY DEF TypeOK, ProviderInv, Maker
<1>12. CountInv' BY DEF CountInv
<1>13. ASSUME NEW d \in Disconnects PROVE LeaveInv(d)'
  BY DEF TypeOK, LeaveInv, RegistryInv, Late, Live, Maker
<1> QED BY <1>6, <1>7, <1>8, <1>9, <1>10, <1>11, <1>12, <1>13

\* The start in progress becomes the connection; who waited for it runs on it.
LEMMA ReadyKeeps ==
  ASSUME ConnectionInv, NEW p \in Providers, Ready(p)
  PROVE  ConnectionInv'
<1> USE StartFacts, ConnectionsAssumption DEF ConnectionInv
<1> DEFINE s == link[p].connecting
           connection == [link[p] EXCEPT !.connected = TRUE, !.protocol = s, !.connecting = None]
<1>1. /\ s \in Starts /\ s # None /\ ssh[s] = "starting" /\ Maker(s) = p
      /\ link[p].connecting = s
  BY DEF Ready, TypeOK, ProviderInv
<1>2. \A c \in Calls : /\ pc[c] # "dropped"
                       /\ \/ pc'[c] = pc[c] /\ on'[c] = on[c]
                          \/ /\ target[c] = p /\ on'[c] = s
                             /\ \/ pc[c] = "waiting" /\ pc'[c] = "running"
                                \/ pc[c] = "retrying" /\ pc'[c] \in {"failed", "rerunning"}
  BY DEF Ready, Settled
<1>3. /\ DOMAIN pc' = Calls /\ pc' = [c \in Calls |-> pc'[c]]
      /\ DOMAIN on' = Calls /\ on' = [c \in Calls |-> on'[c]]
  BY DEF Ready
<1>4. /\ ssh' = [ssh EXCEPT ![s] = "open"]
      /\ UNCHANGED <<registryVars, proc, servers, dirs, stops, target, gen, late, kept, leaveVars, drops>>
  BY DEF Ready
<1>5. link' = [link EXCEPT ![p] = connection] BY DEF Ready, TypeOK
<1> HIDE DEF s
<1>6. link[p] \in Links BY Records
<1>7. /\ connection \in Links /\ connection.connected /\ connection.protocol = s
      /\ connection.connecting = None /\ connection.count = link[p].count
  BY <1>1, <1>6 DEF Links
<1> HIDE DEF connection
<1> USE <1>1, <1>2, <1>4, <1>5, <1>7 DEF registryVars, leaveVars
<1>8. TypeOK'
  <2>1. pc' \in [Calls -> {"new", "waiting", "running", "dropped", "retrying", "rerunning",
                           "done", "failed"}] /\ on' \in [Calls -> Starts \cup {None}]
    BY <1>3 DEF TypeOK
  <2> QED BY <2>1 DEF TypeOK, Links
<1>9. RegistryInv' BY DEF TypeOK, RegistryInv
<1>10. ASSUME NEW c \in Calls PROVE CallInv(c)' BY DEF TypeOK, CallInv, Maker, Old, KeptOn
<1>11. ASSUME NEW t \in Starts PROVE StartInv(t)'
  BY SMTT(30) DEF TypeOK, StartInv, Maker, Live, Old, KeptOn, ProviderInv
<1>12. ASSUME NEW t \in Starts PROVE ResourceInv(t)'
  BY SMTT(30) DEF TypeOK, StartInv, ResourceInv, Maker, Live, Late
<1>13. ASSUME NEW q \in Providers PROVE ProviderInv(q)' BY DEF TypeOK, ProviderInv, StartInv, Maker
<1>14. CountInv' BY DEF TypeOK, CountInv
<1>15. ASSUME NEW d \in Disconnects PROVE LeaveInv(d)'
  BY DEF TypeOK, LeaveInv, RegistryInv, Late, Live, Maker
<1> QED BY <1>8, <1>9, <1>10, <1>11, <1>12, <1>13, <1>14, <1>15

\* A failed start has the askpass server and the directory it will clean up,
\* and its provider has no other ssh process that runs.
LEMMA StartFailsKeeps ==
  ASSUME ConnectionInv, NEW p \in Providers, StartFails(p)
  PROVE  ConnectionInv'
<1> USE StartFacts, ConnectionsAssumption DEF ConnectionInv
<1> DEFINE s == link[p].connecting
           process == [proc[p] EXCEPT !.closed = TRUE, !.child = None]
<1>1. /\ s \in Starts /\ s # None /\ ssh[s] \in {"preparing", "starting"} /\ Maker(s) = p
      /\ link[p].connecting = s
  BY DEF StartFails, TypeOK, ProviderInv
<1>2. /\ ssh' = [Killed(proc[p].child) EXCEPT ![s] = "failed"]
      /\ stops' = [stops EXCEPT ![p] = proc[p].askpass]
      /\ proc' = [proc EXCEPT ![p] = process]
      /\ UNCHANGED <<registryVars, link, servers, dirs, callVars, leaveVars, drops>>
  BY DEF StartFails, TypeOK
<1> HIDE DEF s
<1>3. proc[p] \in Processes BY Records
<1>4. /\ process \in Processes /\ process.child = None /\ process.closed
      /\ process.askpass = proc[p].askpass /\ process.dir = proc[p].dir
  BY <1>1, <1>3 DEF Processes
<1> HIDE DEF process
<1>5. /\ ssh' \in [Starts -> {"none", "preparing", "starting", "open", "killed", "gone", "failed"}]
      /\ ssh'[s] = "failed"
      /\ \A t \in Starts \ {s} :
           \/ ssh'[t] = ssh[t]
           \/ ssh[t] = "open" /\ ssh'[t] = "killed" /\ KeptOn(Maker(t))
  <2> DEFINE k == proc[p].child
  <2>1. CASE k = None BY <1>1, <1>2, <2>1 DEF Killed, TypeOK
  <2>2. CASE k # None
    <3>1. k \in Starts /\ Maker(k) = p /\ ssh[k] # "none" BY <2>2 DEF TypeOK, ProviderInv
    <3>2. /\ ssh[k] = "open" => KeptOn(p)
          /\ ssh[k] = "starting" => k = s
      BY <1>1, <3>1 DEF StartInv
    <3> HIDE DEF k
    <3> DEFINE told == [ssh EXCEPT ![k] =
                 CASE @ = "open" -> "killed" [] @ = "starting" -> "failed" [] OTHER -> @]
    <3>3. ssh' = [told EXCEPT ![s] = "failed"] BY <1>2, <2>2 DEF Killed, k
    <3>4. /\ told \in [Starts -> {"none", "preparing", "starting", "open", "killed", "gone", "failed"}]
          /\ \A t \in Starts \ {s} :
               \/ told[t] = ssh[t]
               \/ t = k /\ ssh[t] = "open" /\ told[t] = "killed"
      BY <3>1, <3>2 DEF TypeOK
    <3> HIDE DEF told
    <3> QED BY <1>1, <3>1, <3>2, <3>3, <3>4
  <2> QED BY <2>1, <2>2
<1>6. proc[p].askpass \in {s, None}
  BY <1>1 DEF ProviderInv
<1> USE <1>1, <1>4, <1>5 DEF registryVars, callVars, leaveVars
<1>7. TypeOK' BY <1>2, <1>3 DEF TypeOK, Processes, Closers
<1>8. RegistryInv' BY <1>2, <1>6 DEF TypeOK, RegistryInv, Closers
<1>9. ASSUME NEW c \in Calls PROVE CallInv(c)' BY <1>2 DEF TypeOK, CallInv, Maker, Old, KeptOn
<1>10. ASSUME NEW t \in Starts PROVE StartInv(t)'
  <2>1. UNCHANGED <<registryVars, link, callVars, leaveVars>> BY <1>2
  <2>2. StartInv(t) /\ Maker(t)' = Maker(t) /\ (KeptOn(Maker(t))' <=> KeptOn(Maker(t)))
        /\ (Old(t)' <=> Old(t))
    BY <2>1 DEF Maker, KeptOn, Old
  <2>3. ssh'[t] = "none" => ssh[t] = "none" OBVIOUS
  <2>4. CASE t = s BY <2>1, <2>2, <2>4 DEF StartInv, Live
  <2>5. CASE t # s /\ Maker(t) = p
    <3>1. proc'[p] = process BY <1>2 DEF TypeOK
    <3> QED BY <1>6, <2>1, <2>2, <2>5, <3>1 DEF StartInv, Live
  <2>6. CASE t # s /\ Maker(t) # p /\ ssh[t] # "none"
    <3>1. proc'[Maker(t)] = proc[Maker(t)]
      BY <1>2, <2>2, <2>6 DEF TypeOK, StartInv
    <3> QED BY <2>1, <2>2, <2>6, <3>1 DEF StartInv, Live
  <2> QED BY <2>3, <2>4, <2>5, <2>6, <2>2 DEF StartInv
<1>11. ASSUME NEW t \in Starts PROVE ResourceInv(t)'
  <2>1. UNCHANGED <<registryVars, link, callVars, leaveVars, servers, dirs>> BY <1>2
  <2>2. ResourceInv(t) /\ StartInv(t) /\ Maker(t)' = Maker(t) /\ (Late(Maker(t))' <=> Late(Maker(t)))
    BY <2>1 DEF Maker, Late
  <2>3. ssh[t] = "none" => ssh'[t] = "none" OBVIOUS
  <2>4. CASE Maker(t) = p /\ ssh[t] # "none"
    <3>1. proc'[p] = process /\ stops'[p] = proc[p].askpass BY <1>2 DEF TypeOK, Closers
    <3>2. ~Late(p) => proc[p].askpass = s BY <1>1 DEF ResourceInv, Live
    <3>3. t # s => ssh'[t] = ssh[t] \/ (ssh[t] = "open" /\ ssh'[t] = "killed") OBVIOUS
    <3> HIDE DEF ConnectionInv
    <3> QED BY <2>1, <2>2, <2>4, <3>1, <3>2, <3>3 DEF ResourceInv, Live
  <2>5. CASE Maker(t) # p /\ ssh[t] # "none"
    <3>1. Maker(t) \in Providers BY <2>2, <2>5 DEF StartInv, TypeOK
    <3>2. proc'[Maker(t)] = proc[Maker(t)] /\ stops'[Maker(t)] = stops[Maker(t)]
      BY <1>2, <2>5, <3>1 DEF TypeOK, Closers
    <3>3. ssh'[t] = ssh[t] \/ (ssh[t] = "open" /\ ssh'[t] = "killed") BY <2>5
    <3> HIDE DEF ConnectionInv
    <3> QED BY <2>1, <2>2, <2>5, <3>2, <3>3 DEF ResourceInv, Live
  <2> QED BY <2>2, <2>3, <2>4, <2>5 DEF ResourceInv
<1>12. ASSUME NEW q \in Providers PROVE ProviderInv(q)'
  BY <1>2 DEF TypeOK, ProviderInv, StartInv, Maker
<1>13. CountInv' BY <1>2 DEF TypeOK, CountInv
<1>14. ASSUME NEW d \in Disconnects PROVE LeaveInv(d)'
  BY <1>2 DEF TypeOK, LeaveInv, RegistryInv, Late, Live, Maker
<1> QED BY <1>7, <1>8, <1>9, <1>10, <1>11, <1>12, <1>13, <1>14

\* The clean-up of a failed start takes what that start had, and no other's.
LEMMA CleanedUpKeeps ==
  ASSUME ConnectionInv, NEW p \in Providers, CleanedUp(p)
  PROVE  ConnectionInv'
<1> USE StartFacts, ConnectionsAssumption DEF ConnectionInv
<1> DEFINE s == link[p].connecting
           connection == [link[p] EXCEPT !.connected = FALSE, !.connecting = None]
           process == [proc[p] EXCEPT !.askpass = None, !.dir = None]
<1>1. /\ s \in Starts /\ s # None /\ ssh[s] = "failed" /\ Maker(s) = p
      /\ link[p].connecting = s
  BY DEF CleanedUp, TypeOK, ProviderInv
<1>2. \A c \in Calls : \/ pc'[c] = pc[c]
                       \/ target[c] = p /\ pc[c] \in {"waiting", "retrying"} /\ pc'[c] = "failed"
  BY DEF CleanedUp
<1>3. pc' = [c \in Calls |-> pc'[c]] BY DEF CleanedUp
<1>4. /\ servers' = servers \ {stops[p]} /\ dirs' = dirs \ {proc[p].dir}
      /\ stops' = [stops EXCEPT ![p] = None]
      /\ proc' = [proc EXCEPT ![p] = process] /\ link' = [link EXCEPT ![p] = connection]
      /\ UNCHANGED <<registryVars, ssh, target, gen, on, late, kept, leaveVars, drops>>
  BY DEF CleanedUp, Closed, TypeOK
<1> HIDE DEF s
<1>5. link[p] \in Links /\ proc[p] \in Processes BY Records
<1>6. /\ connection \in Links /\ ~connection.connected /\ connection.connecting = None
      /\ connection.protocol = link[p].protocol /\ connection.count = link[p].count
      /\ process \in Processes /\ process.child = proc[p].child
      /\ process.closed = proc[p].closed /\ process.askpass = None /\ process.dir = None
  BY <1>5 DEF Links, Processes
<1> HIDE DEF connection, process
<1> USE <1>1, <1>2, <1>4, <1>6 DEF registryVars, leaveVars
<1>7. TypeOK'
  <2>1. pc' \in [Calls -> {"new", "waiting", "running", "dropped", "retrying", "rerunning",
                           "done", "failed"}]
    BY <1>3 DEF TypeOK
  <2> QED BY <2>1 DEF TypeOK, Links, Processes, Closers
<1>8. RegistryInv' BY DEF TypeOK, RegistryInv, Closers
<1>9. ASSUME NEW c \in Calls PROVE CallInv(c)' BY DEF TypeOK, CallInv, Maker, Old, KeptOn
<1>10. ASSUME NEW t \in Starts PROVE StartInv(t)'
  <2>1. StartInv(t) /\ UNCHANGED <<registered, made, target, gen, kept, leave, leaving, ssh>>
    OBVIOUS
  <2>2. CASE Maker(t) = p
    <3>1. proc'[p] = process /\ link'[p] = connection BY DEF TypeOK
    <3>2. ssh[t] \notin {"preparing", "starting"}
          /\ (ssh[t] \in {"open", "killed"} => KeptOn(p)) /\ (ssh[t] = "open" => ~Old(t))
      BY <2>1, <2>2 DEF StartInv
    <3> HIDE DEF ConnectionInv
    <3> QED BY <2>1, <2>2, <3>1, <3>2 DEF StartInv, Live, Maker, Old, KeptOn
  <2>3. CASE Maker(t) # p
    <3>1. ssh[t] # "none" => /\ proc'[Maker(t)] = proc[Maker(t)]
                             /\ link'[Maker(t)] = link[Maker(t)]
      BY <2>1, <2>3 DEF StartInv, TypeOK
    <3> QED BY <2>1, <3>1, OthersStay
  <2> QED BY <2>2, <2>3
<1>11. ASSUME NEW t \in Starts PROVE ResourceInv(t)'
  <2>1. \A q \in Providers : proc[q].dir # None => Maker(proc[q].dir) = q BY DEF TypeOK, ProviderInv
  <2>2. stops[p] # None => ssh[stops[p]] \in {"killed", "gone", "failed"}
    BY DEF RegistryInv, Closers
  <2>3. /\ ResourceInv(t) /\ StartInv(t) /\ UNCHANGED <<ssh, target, late>>
        /\ Maker(t)' = Maker(t) /\ (Late(Maker(t))' <=> Late(Maker(t)))
    BY DEF Maker, Late
  <2>4. Live(t) /\ ~Late(Maker(t)) => t # proc[p].dir /\ t # stops[p]
    <3>1. ~Late(p) => proc[p].dir = s BY DEF ResourceInv
    <3> QED BY <2>1, <2>2, <2>3, <3>1, StartFacts DEF Live, StartInv, TypeOK
  <2>5. CASE Maker(t) = p /\ ssh[t] # "none"
    <3>1. /\ proc'[p] = process /\ link'[p] = connection
          /\ ssh[t] \notin {"preparing", "starting"} /\ ~Late(p) => proc[p].dir = s /\ stops[p] = s
      BY <2>3, <2>5 DEF TypeOK, ResourceInv
    <3> HIDE DEF ConnectionInv
    <3> QED BY <2>3, <2>4, <2>5, <3>1, StartFacts DEF ResourceInv, Live
  <2>6. CASE Maker(t) # p /\ ssh[t] # "none"
    <3>1. Maker(t) \in Providers BY <2>3, <2>6 DEF StartInv, TypeOK
    <3>2. /\ proc'[Maker(t)] = proc[Maker(t)] /\ link'[Maker(t)] = link[Maker(t)]
          /\ stops'[Maker(t)] = stops[Maker(t)]
      BY <2>6, <3>1 DEF TypeOK, Closers
    <3> HIDE DEF ConnectionInv
    <3> QED BY <2>3, <2>4, <2>6, <3>2 DEF ResourceInv, Live
  <2> QED BY <2>3, <2>5, <2>6 DEF ResourceInv
<1>12. ASSUME NEW q \in Providers PROVE ProviderInv(q)' BY DEF TypeOK, ProviderInv, Maker
<1>13. CountInv' BY DEF TypeOK, CountInv
<1>14. ASSUME NEW d \in Disconnects PROVE LeaveInv(d)'
  BY DEF TypeOK, LeaveInv, RegistryInv, Late, Live, Maker
<1> QED BY <1>7, <1>8, <1>9, <1>10, <1>11, <1>12, <1>13, <1>14

\* A connection that ends was its provider's only one, unless a kept call made
\* another, and what a disconnect is to close was closed before: so a call that
\* lost it finds none that must go.
LEMMA DiesKeeps ==
  ASSUME ConnectionInv, NEW s \in Starts, Dies(s)
  PROVE  ConnectionInv'
<1> USE StartFacts, ConnectionsAssumption DEF ConnectionInv
<1> DEFINE p == Maker(s)
           connection == [link[p] EXCEPT !.connected = FALSE]
<1>1. /\ ssh[s] \in {"open", "killed"} /\ p \in Providers
      /\ drops' \in 0..MaxDrops /\ drops' >= drops
  BY DEF Dies, TypeOK, StartInv
<1>2. \A c \in Calls : /\ pc[c] # "dropped"
                       /\ \/ pc'[c] = pc[c]
                          \/ /\ on[c] = s
                             /\ \/ pc[c] = "running" /\ pc'[c] = "dropped"
                                \/ pc[c] = "rerunning" /\ pc'[c] = "failed"
  BY DEF Dies, Settled
<1>3. pc' = [c \in Calls |-> pc'[c]] BY DEF Dies
<1>4. /\ ssh' = [ssh EXCEPT ![s] = "gone"] /\ link' = [link EXCEPT ![p] = connection]
      /\ UNCHANGED <<registryVars, proc, servers, dirs, stops, target, gen, on, late, kept, leaveVars>>
  BY <1>1 DEF Dies, TypeOK
<1>5. link[p] \in Links BY <1>1, Records
<1>6. /\ connection \in Links /\ ~connection.connected
      /\ connection.connecting = link[p].connecting
      /\ connection.protocol = link[p].protocol /\ connection.count = link[p].count
  BY <1>5 DEF Links
<1> HIDE DEF connection
<1> USE <1>1, <1>2, <1>4, <1>6 DEF registryVars, leaveVars
<1>7. TypeOK'
  <2>1. pc' \in [Calls -> {"new", "waiting", "running", "dropped", "retrying", "rerunning",
                           "done", "failed"}]
    BY <1>3 DEF TypeOK
  <2> QED BY <2>1 DEF TypeOK, Links
<1>8. RegistryInv' BY DEF TypeOK, RegistryInv
<1>9. ASSUME NEW c \in Calls PROVE CallInv(c)'
  <2>1. \A t \in Starts : Maker(t) = p => /\ ssh'[t] \in {"open", "killed"} => KeptOn(p)
                                          /\ ssh'[t] = "open" => ~Old(t)
    <3> SUFFICES ASSUME NEW t \in Starts, Maker(t) = p, t # s,
                        ssh[t] \in {"open", "killed"}
                 PROVE  KeptOn(p) /\ (ssh[t] = "open" => ~Old(t))
      BY DEF TypeOK
    <3>1. StartInv(t) /\ StartInv(s) OBVIOUS
    <3>2. KeptOn(p) BY <3>1 DEF StartInv
    <3>3. \A d \in Disconnects : leave[d] = "waiting" => link[leaving[d]].connecting # None
      BY DEF Dies, Settled
    <3>4. ssh[t] = "open" => ~Old(t) BY <3>1, <3>3 DEF StartInv, Live
    <3> QED BY <3>2, <3>4
  <2>2. CallInv(c) OBVIOUS
  <2>3. on[c] = s => target[c] = p BY <2>2 DEF CallInv
  <2>4. \A t \in Starts : ssh'[t] = "none" <=> ssh[t] = "none" BY DEF TypeOK
  <2>5. pc'[c] = "dropped" => on[c] = s OBVIOUS
  <2>6. \/ pc'[c] = pc[c]
        \/ pc[c] = "running" /\ pc'[c] = "dropped"
        \/ pc[c] = "rerunning" /\ pc'[c] = "failed"
    BY <1>2
  <2>7. UNCHANGED <<target, gen, on, late, kept, registered, leave, leaving>> OBVIOUS
  <2>8. link'[p].count = link[p].count BY DEF TypeOK
  <2>9. pc'[c] = "dropped" => target[c] = p
    BY <2>3, <2>5
  <2>10. p \in Providers OBVIOUS
  <2> HIDE <1>1, <1>2, <1>4, <1>6 DEF p, ConnectionInv
  <2> QED BY <2>1, <2>2, <2>3, <2>4, <2>5, <2>6, <2>7, <2>8, <2>9, <2>10 DEF CallInv, Maker, Old, KeptOn
<1>10. ASSUME NEW t \in Starts PROVE StartInv(t)'
  <2>1. /\ StartInv(t) /\ StartInv(s)
        /\ UNCHANGED <<registered, made, target, gen, kept, leave, leaving, proc>>
    OBVIOUS
  <2>2. CASE Maker(t) = p
    <3>1. link'[p] = connection /\ (t # s => ssh'[t] = ssh[t]) /\ ssh'[s] = "gone" BY DEF TypeOK
    <3>2. t # s /\ ssh[t] \in {"open", "killed"} => KeptOn(p) BY <2>1, <2>2 DEF StartInv
    <3> HIDE DEF ConnectionInv
    <3> QED BY <2>1, <2>2, <3>1, <3>2 DEF StartInv, Live, Maker, Old, KeptOn
  <2>3. CASE Maker(t) # p
    <3>1. ssh'[t] = ssh[t] BY <2>3 DEF TypeOK
    <3>2. ssh[t] # "none" => link'[Maker(t)] = link[Maker(t)]
      BY <2>1, <2>3 DEF StartInv, TypeOK
    <3> QED BY <2>1, <3>1, <3>2, OthersStay
  <2> QED BY <2>2, <2>3
<1>11. ASSUME NEW t \in Starts PROVE ResourceInv(t)'
  BY SMTT(30) DEF TypeOK, ResourceInv, Maker, Live, Late
<1>12. ASSUME NEW q \in Providers PROVE ProviderInv(q)'
  <2>1. ProviderInv(q) /\ UNCHANGED <<target, proc>> /\ link[q] \in Links /\ StartInv(s)
    BY Records
  <2>2. \A t \in Starts : (ssh'[t] = ssh[t] /\ t # s) \/ (t = s /\ ssh'[t] = "gone") BY DEF TypeOK
  <2>3. proc[q] \in Processes BY Records
  <2>4. CASE q = p
    <3>1. link'[q] = connection BY <2>4 DEF TypeOK
    <3>2. link[q].connecting # s BY <2>1, <2>4 DEF ProviderInv
    <3>3. \A t \in Starts : ssh[t] # "none" /\ Maker(t) = q => ssh'[t] # "none" /\ Maker(t)' = q
      BY <2>1, <2>2 DEF Maker
    <3>4. link[q].connecting # None => ssh'[link[q].connecting] = ssh[link[q].connecting]
      BY <2>1, <2>2, <3>2 DEF Links
    <3> HIDE DEF ConnectionInv
    <3> QED BY <2>1, <2>3, <2>4, <3>1, <3>3, <3>4 DEF ProviderInv, Links, Processes
  <2>5. CASE q # p
    <3>1. link'[q] = link[q] BY <2>5 DEF TypeOK
    <3>2. \A t \in Starts : Maker(t) = q => t # s BY <2>5
    <3> HIDE DEF ConnectionInv
    <3> QED BY <2>1, <2>2, <2>3, <2>5, <3>1, <3>2 DEF ProviderInv, Maker, Links, Processes
  <2> QED BY <2>4, <2>5
<1>13. CountInv' BY DEF TypeOK, CountInv
<1>14. ASSUME NEW d \in Disconnects PROVE LeaveInv(d)'
  BY DEF TypeOK, LeaveInv, RegistryInv, Late, Live, Maker
<1> QED BY <1>7, <1>8, <1>9, <1>10, <1>11, <1>12, <1>13, <1>14

\* A new provider has nothing yet.
LEMMA GetOrCreateKeeps ==
  ASSUME ConnectionInv, GetOrCreate
  PROVE  ConnectionInv'
<1> USE StartFacts, ConnectionsAssumption DEF ConnectionInv
<1>1. PICK p \in Providers \ made : registered' = p /\ made' = made \cup {p}
  BY DEF GetOrCreate
<1>2. /\ registered = None
      /\ UNCHANGED <<stolen, link, proc, sshVars, callVars, leaveVars, drops>>
  BY DEF GetOrCreate
<1> USE <1>1, <1>2 DEF sshVars, callVars, leaveVars
<1>3. TypeOK' BY DEF TypeOK
<1>4. RegistryInv' BY DEF TypeOK, RegistryInv
<1>5. ASSUME NEW c \in Calls PROVE CallInv(c)'
  <2>1. target[c] # p /\ registered' # None BY DEF RegistryInv
  <2> QED BY <2>1 DEF TypeOK, CallInv, Maker, Old, KeptOn
<1>6. ASSUME NEW t \in Starts PROVE StartInv(t)' BY DEF TypeOK, StartInv, Maker, Live, Old, KeptOn
<1>7. ASSUME NEW t \in Starts PROVE ResourceInv(t)'
  BY DEF TypeOK, ResourceInv, Maker, Live, Late
<1>8. ASSUME NEW q \in Providers PROVE ProviderInv(q)' BY DEF TypeOK, ProviderInv, Maker
<1>9. CountInv' BY DEF CountInv
<1>10. ASSUME NEW d \in Disconnects PROVE LeaveInv(d)'
  BY DEF TypeOK, LeaveInv, Late, Live, Maker
<1> QED BY <1>3, <1>4, <1>5, <1>6, <1>7, <1>8, <1>9, <1>10

\* An answer ends a call.
LEMMA AnsweredKeeps ==
  ASSUME ConnectionInv, NEW b \in Calls, Answered(b)
  PROVE  ConnectionInv'
<1> USE StartFacts, ConnectionsAssumption DEF ConnectionInv
<1>1. /\ pc[b] \in {"running", "rerunning"} /\ pc' = [pc EXCEPT ![b] = "done"]
      /\ UNCHANGED <<registryVars, link, proc, sshVars, target, gen, on, late, kept, leaveVars, drops>>
  BY DEF Answered
<1> USE <1>1 DEF registryVars, sshVars, leaveVars
<1>3. TypeOK' BY DEF TypeOK
<1>4. RegistryInv' BY DEF TypeOK, RegistryInv
<1>5. ASSUME NEW c \in Calls PROVE CallInv(c)' BY DEF TypeOK, CallInv, Maker, Old, KeptOn
<1>6. ASSUME NEW t \in Starts PROVE StartInv(t)' BY DEF TypeOK, StartInv, Maker, Live, Old, KeptOn
<1>7. ASSUME NEW t \in Starts PROVE ResourceInv(t)'
  BY DEF TypeOK, ResourceInv, Maker, Live, Late
<1>8. ASSUME NEW q \in Providers PROVE ProviderInv(q)' BY DEF TypeOK, ProviderInv, Maker
<1>9. CountInv' BY DEF CountInv
<1>10. ASSUME NEW d \in Disconnects PROVE LeaveInv(d)'
  BY DEF TypeOK, LeaveInv, Late, Live, Maker
<1> QED BY <1>3, <1>4, <1>5, <1>6, <1>7, <1>8, <1>9, <1>10

\* A disconnect of the registered provider is counted; what was started before
\* it is now for it to close.
LEMMA DisconnectKeeps ==
  ASSUME ConnectionInv, NEW x \in Disconnects, Disconnect(x)
  PROVE  ConnectionInv'
<1> USE StartFacts, ConnectionsAssumption DEF ConnectionInv
<1> DEFINE p == registered
           connection == [link[p] EXCEPT !.count = @ + 1]
<1>1. /\ p \in Providers /\ p # None /\ leave[x] = "new" /\ leaving[x] = None
      /\ p \in made
  BY DEF Disconnect, TypeOK, LeaveInv, RegistryInv
<1>2. /\ leaving' = [leaving EXCEPT ![x] = p] /\ leave' = [leave EXCEPT ![x] = "waiting"]
      /\ link' = [link EXCEPT ![p] = connection]
      /\ UNCHANGED <<registryVars, proc, sshVars, callVars, drops>>
  BY <1>1 DEF Disconnect, TypeOK
<1>3. link[p] \in Links BY <1>1, Records
<1>4. link[p].count + 1 = Cardinality({d \in Disconnects : leaving'[d] = p})
  <2> DEFINE D == {d \in Disconnects : leaving[d] = p}
  <2>1. {d \in Disconnects : leaving'[d] = p} = D \cup {x} BY <1>1, <1>2 DEF TypeOK
  <2>2. IsFiniteSet(D) /\ x \notin D BY <1>1, FS_Subset
  <2>3. Cardinality(D \cup {x}) = Cardinality(D) + 1 BY <2>2, FS_AddElement, Zenon
  <2> QED BY <1>1, <2>1, <2>3 DEF CountInv
<1>5. link[p].count + 1 \in 0..Cardinality(Disconnects)
  <2>1. Cardinality({d \in Disconnects : leaving'[d] = p}) <= Cardinality(Disconnects)
    BY FS_Subset
  <2>2. Cardinality(Disconnects) \in Nat BY FS_CardinalityType
  <2> QED BY <1>3, <1>4, <2>1, <2>2 DEF Links
<1>6. /\ connection \in Links /\ connection.connected = link[p].connected
      /\ connection.connecting = link[p].connecting
      /\ connection.protocol = link[p].protocol /\ connection.count = link[p].count + 1
  BY <1>3, <1>5 DEF Links
<1> HIDE DEF connection
<1> USE <1>1, <1>2, <1>6 DEF registryVars, sshVars, callVars
<1>7. TypeOK' BY DEF TypeOK, Links
<1>8. RegistryInv' BY DEF TypeOK, RegistryInv
<1> DEFINE Untouched == \A t \in Starts : Maker(t) # p => (Old(t)' <=> Old(t))
<1>untouched. ~KeptOn(p) /\ Untouched
  <2>1. ~KeptOn(p) BY DEF KeptOn, CallInv, TypeOK
  <2>2. ASSUME NEW t \in Starts, Maker(t) # p PROVE Old(t)' <=> Old(t)
    <3>1. link'[Maker(t)] = link[Maker(t)] BY <2>2 DEF TypeOK
    <3> QED BY <3>1 DEF Old, Maker
  <2> QED BY <2>1, <2>2
<1>9. ASSUME NEW c \in Calls PROVE CallInv(c)'
  <2>1. CallInv(c) OBVIOUS
  <2>2. target[c] = p => c \notin kept BY <1>untouched DEF KeptOn
  <2>3. pc[c] = "dropped" => \A t \in Starts : Maker(t) = target[c] =>
          /\ ssh[t] \in {"open", "killed"} => KeptOn(target[c])
          /\ ssh[t] = "open" => ~Old(t)'
    BY <1>untouched, <2>1 DEF CallInv
  <2>4. \A d \in Disconnects : (leaving'[d] = leaving[d] /\ leave'[d] = leave[d]) \/ leaving'[d] = p
    BY DEF TypeOK
  <2>5. UNCHANGED <<pc, target, gen, on, late, kept, registered, ssh>> OBVIOUS
  <2> QED BY <2>1, <2>2, <2>3, <2>4, <2>5 DEF CallInv, Maker, KeptOn
<1>10. ASSUME NEW t \in Starts PROVE StartInv(t)'
  <2>1. /\ StartInv(t) /\ (KeptOn(Maker(t))' <=> KeptOn(Maker(t))) /\ (Live(t)' <=> Live(t))
        /\ Maker(t)' = Maker(t)
        /\ UNCHANGED <<ssh, made, registered, proc>>
    BY DEF KeptOn, Maker, Live
  <2>2. CASE Maker(t) = p
    <3>1. link'[p] = connection /\ leaving'[x] = p /\ leave'[x] = "waiting" BY DEF TypeOK
    <3> QED BY <1>untouched, <2>1, <2>2, <3>1 DEF StartInv
  <2>3. CASE Maker(t) # p /\ ssh[t] # "none"
    <3>1. Maker(t) \in Providers BY <2>1, <2>3 DEF StartInv, TypeOK
    <3>2. link'[Maker(t)] = link[Maker(t)] BY <2>3, <3>1 DEF TypeOK
    <3>3. \A d \in Disconnects : leaving[d] = Maker(t) => leaving'[d] = leaving[d] /\ leave'[d] = leave[d]
      BY <3>1, ConnectionsAssumption DEF TypeOK
    <3> QED BY <1>untouched, <2>1, <2>3, <3>2, <3>3 DEF StartInv
  <2> QED BY <2>1, <2>2, <2>3 DEF StartInv
<1>11. ASSUME NEW t \in Starts PROVE ResourceInv(t)'
  BY DEF TypeOK, ResourceInv, Maker, Live, Late
<1>12. ASSUME NEW q \in Providers PROVE ProviderInv(q)' BY DEF TypeOK, ProviderInv, Maker
<1>13. CountInv'
  <2> SUFFICES ASSUME NEW q \in Providers
               PROVE  link'[q].count = Cardinality({d \in Disconnects : leaving'[d] = q})
    BY DEF CountInv
  <2>1. CASE q = p BY <1>4, <2>1 DEF TypeOK
  <2>2. CASE q # p
    <3>1. {d \in Disconnects : leaving'[d] = q} = {d \in Disconnects : leaving[d] = q}
      BY <2>2 DEF TypeOK
    <3>2. link'[q] = link[q] BY <2>2 DEF TypeOK
    <3> QED BY <3>1, <3>2 DEF CountInv
  <2> QED BY <2>1, <2>2
<1>14. ASSUME NEW d \in Disconnects PROVE LeaveInv(d)'
  BY DEF TypeOK, LeaveInv, RegistryInv, Late, Live, Maker
<1> QED BY <1>7, <1>8, <1>9, <1>10, <1>11, <1>12, <1>13, <1>14

\* Closing reaches whatever it has to: a start in progress was waited for, a
\* closed process object has none, and an open one knows its ssh.
LEMMA EndKeeps ==
  ASSUME ConnectionInv, NEW x \in Disconnects, End(x)
  PROVE  ConnectionInv'
<1> USE StartFacts, ConnectionsAssumption DEF ConnectionInv
<1> DEFINE p == leaving[x]
           process == [proc[p] EXCEPT !.closed = TRUE, !.child = None]
<1>1. /\ leave[x] = "waiting" /\ p \in made /\ p \in Providers /\ link[p].connecting = None
      /\ UNCHANGED <<registryVars, link, callVars, leaving, drops>>
  BY DEF End, TypeOK, LeaveInv
<1>0. ~Late(p) => ~KeptOn(p)
  BY <1>1 DEF Late, KeptOn, CallInv, TypeOK
<1>2. CASE proc[p].closed
  <2>1. /\ leave' = [leave EXCEPT ![x] = "ended"] /\ UNCHANGED <<proc, sshVars>>
    BY <1>2 DEF End
  <2> USE <1>1, <2>1 DEF registryVars, callVars, sshVars
  <2>3. TypeOK' BY DEF TypeOK
  <2>4. RegistryInv' BY DEF TypeOK, RegistryInv
  <2>5. ASSUME NEW c \in Calls PROVE CallInv(c)' BY DEF TypeOK, CallInv, Maker, Old, KeptOn
  <2>6. ASSUME NEW t \in Starts PROVE StartInv(t)' BY <1>2 DEF TypeOK, StartInv, Maker, Live, Old, KeptOn
  <2>7. ASSUME NEW t \in Starts PROVE ResourceInv(t)'
    BY DEF TypeOK, ResourceInv, Maker, Live, Late
  <2>8. ASSUME NEW q \in Providers PROVE ProviderInv(q)' BY DEF TypeOK, ProviderInv, Maker
  <2>9. CountInv' BY DEF CountInv
  <2>10. ASSUME NEW d \in Disconnects PROVE LeaveInv(d)'
    <3>1. ~Late(p) => \A t \in Starts : Maker(t) = p => ~Live(t)
      BY <1>0, <1>2 DEF StartInv, Live
    <3> QED BY <3>1 DEF TypeOK, LeaveInv, Late, Live, Maker
  <2> QED BY <2>3, <2>4, <2>5, <2>6, <2>7, <2>8, <2>9, <2>10
<1>3. CASE ~proc[p].closed
  <2>1. /\ proc' = [proc EXCEPT ![p] = process] /\ ssh' = Killed(proc[p].child)
        /\ stops' = [stops EXCEPT ![x] = proc[p].askpass]
        /\ \E l \in {"ended", "closing"} : leave' = [leave EXCEPT ![x] = l]
        /\ UNCHANGED <<servers, dirs>>
    BY <1>1, <1>3 DEF End, TypeOK
  <2>2. proc[p] \in Processes BY <1>1, Records
  <2>3. /\ process \in Processes /\ process.child = None /\ process.closed
        /\ process.askpass = proc[p].askpass /\ process.dir = proc[p].dir
    BY <2>2 DEF Processes
  <2> HIDE DEF process
  <2>4. /\ ssh' \in [Starts -> {"none", "preparing", "starting", "open", "killed", "gone", "failed"}]
        /\ \A t \in Starts : \/ ssh'[t] = ssh[t]
                             \/ t = proc[p].child /\ ssh[t] = "open" /\ ssh'[t] = "killed"
        /\ \A t \in Starts : t = proc[p].child /\ ssh[t] = "open" => ssh'[t] = "killed"
    <3> DEFINE t == proc[p].child
    <3>1. CASE t = None BY <2>1, <3>1 DEF Killed, TypeOK
    <3>2. CASE t # None
      <4>1. t \in Starts /\ Maker(t) = p /\ ssh[t] # "none"
        BY <1>1, <2>2, <3>2 DEF Processes, ProviderInv
      <4>2. ssh[t] # "starting" BY <1>1, <4>1 DEF StartInv
      <4> HIDE DEF t
      <4>3. ssh' = [ssh EXCEPT ![t] = IF ssh[t] = "open" THEN "killed" ELSE ssh[t]]
        BY <2>1, <3>2, <4>1, <4>2 DEF Killed, TypeOK, t
      <4> QED BY <4>1, <4>3 DEF TypeOK, t
    <3> QED BY <3>1, <3>2
  <2>5. \A t \in Starts : Maker(t) = p =>
          /\ ssh'[t] \notin {"preparing", "starting"}
          /\ ssh'[t] = "open" => KeptOn(p) /\ ~Old(t) /\ t # proc[p].askpass
    BY <1>1, <2>4 DEF StartInv
  <2>6. proc[p].askpass # None =>
          /\ proc[p].askpass \in Starts
          /\ ssh'[proc[p].askpass] \in {"killed", "gone", "failed"}
    BY <1>1, <2>2, <2>4, <2>5 DEF Processes, ProviderInv, TypeOK
  <2> USE <1>1, <2>3, <2>4, <2>5 DEF registryVars, callVars
  <2>7. TypeOK' BY <2>1, <2>6 DEF TypeOK, Processes, Closers
  <2>8. RegistryInv' BY SMTT(30), <2>1, <2>6 DEF TypeOK, RegistryInv, Closers
  <2>9. ASSUME NEW c \in Calls PROVE CallInv(c)'
    <3>1. CallInv(c) OBVIOUS
    <3>2. /\ UNCHANGED <<pc, target, gen, on, late, kept, registered, leaving, link>>
          /\ \A t \in Starts :
               /\ ssh[t] = "none" => ssh'[t] = "none"
               /\ ssh'[t] \in {"open", "killed"} => ssh[t] \in {"open", "killed"}
               /\ ssh'[t] = "open" => ssh[t] = "open"
          /\ \A d \in Disconnects : leave[d] = "done" => leave'[d] = "done"
      BY <2>1 DEF TypeOK
    <3> HIDE <1>1, <2>3, <2>4, <2>5 DEF p, ConnectionInv
    <3> QED BY <3>1, <3>2 DEF CallInv, Maker, Old, KeptOn
  <2>10. ASSUME NEW t \in Starts PROVE StartInv(t)'
    <3>1. StartInv(t) /\ UNCHANGED <<target, gen, kept, registered, made, link, leaving>> OBVIOUS
    <3>2. \A d \in Disconnects \ {x} : leave'[d] = leave[d] BY <2>1 DEF TypeOK
    <3>3. CASE Maker(t) = p
      <4>1. proc'[p].askpass = proc[p].askpass BY <2>1 DEF TypeOK
      <4> HIDE DEF ConnectionInv
      <4> QED BY <2>4, <2>5, <3>1, <3>3, <4>1 DEF StartInv, Live, Maker, Old, KeptOn
    <3>4. CASE Maker(t) # p /\ ssh[t] # "none"
      <4>1. Maker(t) \in Providers BY <3>1, <3>4 DEF StartInv, TypeOK
      <4>2. proc'[Maker(t)] = proc[Maker(t)] BY <2>1, <3>4, <4>1 DEF TypeOK
      <4>3. ssh'[t] = ssh[t]
        BY <2>2, <2>4, <3>4 DEF Processes, ProviderInv
      <4> HIDE DEF ConnectionInv
      <4> QED BY <3>1, <3>2, <3>4, <4>2, <4>3 DEF StartInv, Live, Maker, Old, KeptOn
    <3>5. ssh[t] = "none" => ssh'[t] = "none" OBVIOUS
    <3> QED BY <3>3, <3>4, <3>5 DEF StartInv
  <2>11. ASSUME NEW t \in Starts PROVE ResourceInv(t)'
    <3>1. /\ ssh'[t] # "none" => ssh[t] # "none"
          /\ Live(t)' => Live(t)
          /\ ssh'[t] = "failed" => ssh[t] = "failed"
      BY DEF Live
    <3>2. Maker(t)' = Maker(t) /\ (Late(Maker(t))' <=> Late(Maker(t))) BY DEF Maker, Late
    <3>3. ssh[t] # "none" => Maker(t) \in Providers BY DEF StartInv, TypeOK
    <3>4. ssh[t] # "none" => /\ stops'[Maker(t)] = stops[Maker(t)]
                             /\ proc'[Maker(t)].askpass = proc[Maker(t)].askpass
                             /\ proc'[Maker(t)].dir = proc[Maker(t)].dir
      BY <2>1, <3>3 DEF TypeOK, Closers
    <3>5. ResourceInv(t) OBVIOUS
    <3> QED BY SMTT(30), <2>1, <3>1, <3>2, <3>4, <3>5 DEF ResourceInv
  <2>12. ASSUME NEW q \in Providers PROVE ProviderInv(q)'
    BY <2>1 DEF TypeOK, ProviderInv, Maker
  <2>13. CountInv' BY DEF CountInv
  <2>14. ASSUME NEW d \in Disconnects PROVE LeaveInv(d)'
    <3>1. ~Late(p) => \A t \in Starts : Maker(t) = p => ~Live(t)'
      BY <1>0, <2>5 DEF Live
    <3> QED BY <2>1, <3>1 DEF TypeOK, LeaveInv, Late, Live, Maker
  <2> QED BY <2>7, <2>8, <2>9, <2>10, <2>11, <2>12, <2>13, <2>14
<1> QED BY <1>2, <1>3

\* The end of a close takes what the closed connection had, unless a call began
\* meanwhile.
LEMMA EndedKeeps ==
  ASSUME ConnectionInv, NEW x \in Disconnects, Ended(x)
  PROVE  ConnectionInv'
<1> USE StartFacts, ConnectionsAssumption DEF ConnectionInv
<1> DEFINE p == leaving[x]
           process == [proc[p] EXCEPT !.askpass = None, !.dir = None]
<1>1. leave[x] = "closing" /\ p \in made /\ p \in Providers
  BY DEF Ended, TypeOK, LeaveInv
<1>2. /\ servers' = servers \ {stops[x]} /\ dirs' = dirs \ {proc[p].dir}
      /\ stops' = [stops EXCEPT ![x] = None]
      /\ proc' = [proc EXCEPT ![p] = process] /\ leave' = [leave EXCEPT ![x] = "ended"]
      /\ UNCHANGED <<registryVars, link, ssh, callVars, leaving, drops>>
  BY <1>1 DEF Ended, Closed, TypeOK
<1>3. proc[p] \in Processes BY <1>1, Records
<1>4. /\ process \in Processes /\ process.child = proc[p].child
      /\ process.closed = proc[p].closed /\ process.askpass = None /\ process.dir = None
  BY <1>3 DEF Processes
<1> HIDE DEF process
<1> USE <1>1, <1>2, <1>4 DEF registryVars, callVars
<1>5. TypeOK' BY DEF TypeOK, Processes, Closers
<1>6. RegistryInv' BY DEF TypeOK, RegistryInv, Closers
<1>7. ASSUME NEW c \in Calls PROVE CallInv(c)' BY DEF TypeOK, CallInv, Maker, Old, KeptOn
<1>8. ASSUME NEW t \in Starts PROVE StartInv(t)' BY DEF TypeOK, StartInv, Maker, Live, Old, KeptOn
<1>9. ASSUME NEW t \in Starts PROVE ResourceInv(t)'
  <2>1. \A q \in Providers : proc[q].dir # None => Maker(proc[q].dir) = q BY DEF TypeOK, ProviderInv
  <2>2. stops[x] # None => ssh[stops[x]] \in {"killed", "gone", "failed"}
    BY DEF RegistryInv, Closers
  <2>3. ~Late(p) => link[p].connecting = None /\ \A u \in Starts : Maker(u) = p => ~Live(u)
    BY DEF LeaveInv
  <2>4. /\ (ssh[t] # "none")' = (ssh[t] # "none") /\ (Live(t)' <=> Live(t))
        /\ Maker(t)' = Maker(t) /\ (Late(Maker(t))' <=> Late(Maker(t)))
    BY DEF Live, Maker, Late
  <2>5. ssh[t] # "none" => Maker(t) \in Providers BY DEF StartInv, TypeOK
  <2>6. ssh[t] # "none" => stops'[Maker(t)] = stops[Maker(t)] BY <2>5 DEF TypeOK, Closers
  <2>7. ResourceInv(t) OBVIOUS
  <2> HIDE DEF p
  <2>8. CASE Maker(t) = p BY <2>2, <2>3, <2>4, <2>6, <2>7, <2>8 DEF ResourceInv, Live
  <2>9. CASE Maker(t) # p
    <3>1. ssh[t] # "none" => proc'[Maker(t)] = proc[Maker(t)] BY <2>5, <2>9 DEF TypeOK
    <3>2. proc[p].dir = t => Maker(t) = p BY <2>1, StartFacts DEF p
    <3>3. Live(t) => stops[x] # t BY <2>2 DEF Live
    <3> QED BY <2>4, <2>6, <2>7, <2>9, <3>1, <3>2, <3>3 DEF ResourceInv
  <2> QED BY <2>8, <2>9
<1>10. ASSUME NEW q \in Providers PROVE ProviderInv(q)' BY DEF TypeOK, ProviderInv, Maker
<1>11. CountInv' BY DEF CountInv
<1>12. ASSUME NEW d \in Disconnects PROVE LeaveInv(d)'
  BY DEF TypeOK, LeaveInv, Late, Live, Maker
<1> QED BY <1>5, <1>6, <1>7, <1>8, <1>9, <1>10, <1>11, <1>12

\* The provider, or the one that took its place, leaves the registry.
LEMMA FinishKeeps ==
  ASSUME ConnectionInv, NEW x \in Disconnects, Finish(x)
  PROVE  ConnectionInv'
<1> USE StartFacts, ConnectionsAssumption DEF ConnectionInv
<1> DEFINE p == leaving[x]
           connection == [link[p] EXCEPT !.connected = FALSE]
<1>1. leave[x] = "ended" /\ p \in made /\ p \in Providers
  BY DEF Finish, TypeOK, LeaveInv
<1>2. /\ leave' = [leave EXCEPT ![x] = "done"] /\ link' = [link EXCEPT ![p] = connection]
      /\ registered' = None /\ stolen' = stolen \cup ({registered} \ {p, None})
      /\ UNCHANGED <<made, proc, sshVars, callVars, leaving, drops>>
  BY <1>1 DEF Finish, TypeOK
<1>3. link[p] \in Links BY <1>1, Records
<1>4. /\ connection \in Links /\ ~connection.connected
      /\ connection.connecting = link[p].connecting
      /\ connection.protocol = link[p].protocol /\ connection.count = link[p].count
  BY <1>3 DEF Links
<1> HIDE DEF connection
<1> USE <1>1, <1>2, <1>4 DEF sshVars, callVars
<1>5. TypeOK' BY DEF TypeOK, Links, RegistryInv
<1>6. RegistryInv' BY DEF TypeOK, RegistryInv
<1>7. ASSUME NEW c \in Calls PROVE CallInv(c)' BY DEF TypeOK, CallInv, Maker, Old, KeptOn
<1>8. ASSUME NEW t \in Starts PROVE StartInv(t)'
  <2>1. CASE ssh[t] = "none" BY <2>1 DEF StartInv
  <2>2. CASE ssh[t] # "none"
    <3>1. StartInv(t) /\ Maker(t) \in Providers BY <2>2 DEF StartInv, TypeOK
    <3>2. Maker(t)' = Maker(t) /\ (Live(t)' <=> Live(t)) BY DEF Maker, Live
    <3>3. /\ link'[Maker(t)].connecting = link[Maker(t)].connecting
          /\ link'[Maker(t)].protocol = link[Maker(t)].protocol
          /\ link'[Maker(t)].count = link[Maker(t)].count
      BY <3>1 DEF TypeOK
    <3>4. /\ \A d \in Disconnects : leave[d] = "waiting" => leave'[d] = "waiting"
          /\ (KeptOn(Maker(t))' <=> KeptOn(Maker(t))) /\ (Old(t)' <=> Old(t))
      BY <3>2, <3>3 DEF TypeOK, KeptOn, Old, Maker
    <3>5. registered' # Maker(t) BY <3>1
    <3> QED BY <3>1, <3>2, <3>3, <3>4, <3>5 DEF StartInv
  <2> QED BY <2>1, <2>2
<1>9. ASSUME NEW t \in Starts PROVE ResourceInv(t)'
  BY DEF TypeOK, ResourceInv, Maker, Live, Late
<1>10. ASSUME NEW q \in Providers PROVE ProviderInv(q)' BY DEF TypeOK, ProviderInv, Maker
<1>11. CountInv' BY DEF TypeOK, CountInv
<1>12. ASSUME NEW d \in Disconnects PROVE LeaveInv(d)'
  BY DEF TypeOK, LeaveInv, Late, Live, Maker
<1> QED BY <1>5, <1>6, <1>7, <1>8, <1>9, <1>10, <1>11, <1>12

\* A call starts ssh only where none of its provider is alive, or where it is kept
\* and none is that a disconnect is to close. Where a disconnect is under way the
\* call is late; where none is, its provider was never disconnected or is kept.
LEMMA BeginKeeps ==
  ASSUME ConnectionInv, NEW b \in Calls, NEW p \in Providers, Begin(b, p)
  PROVE  ConnectionInv'
<1> USE StartFacts, ConnectionsAssumption DEF ConnectionInv
<1> DEFINE s == <<b, 1>>
           connection == [link[p] EXCEPT !.connecting = s]
           process == [proc[p] EXCEPT !.closed = FALSE, !.askpass = s, !.dir = s]
<1>1. /\ p \in Providers /\ p # None /\ p \in made /\ pc[b] = "new" /\ target[b] = None
      /\ s \in Starts /\ s # None /\ s[1] = b /\ ssh[s] = "none" /\ ssh[<<b, 2>>] = "none"
  BY DEF Begin, TypeOK, RegistryInv, CallInv
<1>2. /\ target' = [target EXCEPT ![b] = p] /\ gen' = [gen EXCEPT ![b] = link[p].count]
      /\ late' = IF Departing(p) THEN late \cup {b} ELSE late
      /\ kept' = IF p # registered THEN kept \cup {b} ELSE kept
      /\ UNCHANGED <<registryVars, leaveVars, drops>>
  BY DEF Begin
<1>3. /\ \A c \in Calls : pc[c] # "dropped"
      /\ \A d \in Disconnects :
           leave[d] # "ended" /\ (leave[d] = "waiting" => link[leaving[d]].connecting # None)
  BY DEF Begin, Settled
<1>4. link[p] \in Links /\ proc[p] \in Processes BY <1>1, Records
<1>5. link[p].count \in 0..Cardinality(Disconnects) BY <1>4 DEF Links
<1>6. \A t \in Starts : ssh[t] # "none" =>
        t[1] # b /\ Maker(t)' = Maker(t) /\ gen'[t[1]] = gen[t[1]]
  BY <1>1, <1>2 DEF StartInv, Maker, TypeOK
<1>7. \A q \in Providers : (Late(q) => Late(q)') /\ (KeptOn(q) => KeptOn(q)')
  BY <1>1, <1>2 DEF Late, KeptOn, TypeOK
<1>8. \A d \in Disconnects : leaving[d] = p =>
        leave[d] \in {"waiting", "closing"} \/ (leave[d] = "done" /\ registered # p)
  BY <1>1, <1>3 DEF LeaveInv, TypeOK
<1>9. /\ target'[b] = p /\ gen'[b] = link[p].count
      /\ Departing(p) => Late(p)'
      /\ registered # p => KeptOn(p)'
  <2>1. target'[b] = p /\ gen'[b] = link[p].count BY <1>2 DEF TypeOK
  <2> QED BY <1>2, <2>1 DEF Late, KeptOn
<1>10. /\ b \notin late' \cup kept' => gen'[b] = 0
       /\ b \in kept' =>
            /\ target'[b] # None /\ registered' # target'[b]
            /\ b \in late' \/ \A d \in Disconnects : leaving'[d] = target'[b] => leave'[d] = "done"
  <2>1. UNCHANGED <<registered, leave, leaving>> BY <1>2 DEF registryVars, leaveVars
  <2>2. b \notin kept BY <1>1 DEF CallInv
  <2>3. CASE b \notin late' \cup kept'
    <3>1. ~Departing(p) /\ registered = p BY <1>2, <2>3
    <3>2. {d \in Disconnects : leaving[d] = p} = {} BY <1>8, <3>1 DEF Departing
    <3> QED BY <1>1, <1>9, <2>3, <3>2, FS_EmptySet DEF CountInv
  <2>4. CASE b \in kept'
    <3>1. registered # p BY <1>2, <2>2, <2>4
    <3>2. b \in late' \/ \A d \in Disconnects : leaving[d] = p => leave[d] = "done"
      BY <1>2, <1>8 DEF Departing
    <3> QED BY <1>1, <1>9, <2>1, <2>4, <3>1, <3>2
  <2> QED BY <2>3, <2>4
<1>11. \A c \in Calls \ {b} : on[c] # None =>
          on[c] \in Starts /\ target'[on[c][1]] = target'[c] /\ target'[c] # None
  <2> SUFFICES ASSUME NEW c \in Calls \ {b}, on[c] # None
               PROVE  on[c] \in Starts /\ target'[on[c][1]] = target'[c] /\ target'[c] # None
    OBVIOUS
  <2>1. on[c] \in Starts BY DEF TypeOK
  <2>2. target[c] # None /\ target[on[c][1]] = target[c] BY DEF CallInv, Maker
  <2>3. on[c][1] \in Calls \ {b} BY <1>1, <2>1, <2>2
  <2> QED BY <1>2, <2>1, <2>2, <2>3 DEF TypeOK
<1>12. on[b] = None BY <1>1 DEF CallInv
<1>13. CASE /\ link[p].connected /\ on' = [on EXCEPT ![b] = link[p].protocol]
            /\ pc' = [pc EXCEPT ![b] = "running"]
            /\ UNCHANGED <<link, proc, sshVars>>
  <2>1. link[p].protocol \in Starts /\ Maker(link[p].protocol) = p /\ ssh[link[p].protocol] # "none"
    BY <1>1, <1>4, <1>13 DEF Links, ProviderInv
  <2>2. link[p].protocol[1] # b BY <1>6, <2>1
  <2> USE <1>1, <1>2, <1>13 DEF registryVars, leaveVars, sshVars
  <2>3. TypeOK' BY <1>5, <2>1 DEF TypeOK
  <2>4. RegistryInv' BY DEF TypeOK, RegistryInv
  <2>5. ASSUME NEW c \in Calls PROVE CallInv(c)'
    <3>1. CASE c = b
      BY <1>1, <1>9, <1>10, <2>1, <2>2, <3>1 DEF TypeOK, CallInv, Maker
    <3>2. CASE c # b
      <4>1. pc'[c] = pc[c] /\ target'[c] = target[c] /\ gen'[c] = gen[c] /\ on'[c] = on[c]
        BY <3>2 DEF TypeOK
      <4>2. /\ (c \in late' <=> c \in late) /\ (c \in kept' <=> c \in kept)
            /\ UNCHANGED <<registered, leave, leaving>>
        BY <3>2
      <4>3. CallInv(c) OBVIOUS
      <4> QED BY <1>3, <1>11, <3>2, <4>1, <4>2, <4>3 DEF CallInv, Maker
    <3> QED BY <3>1, <3>2
  <2>6. ASSUME NEW t \in Starts PROVE StartInv(t)'
    BY <1>6, <1>7 DEF TypeOK, StartInv, Live, Old
  <2>7. ASSUME NEW t \in Starts PROVE ResourceInv(t)'
    BY <1>6, <1>7 DEF TypeOK, StartInv, ResourceInv, Live
  <2>8. ASSUME NEW q \in Providers PROVE ProviderInv(q)' BY <1>6 DEF TypeOK, ProviderInv
  <2>9. CountInv' BY DEF CountInv
  <2>10. ASSUME NEW d \in Disconnects PROVE LeaveInv(d)'
    BY <1>6, <1>7 DEF TypeOK, LeaveInv, Live
  <2> QED BY <2>3, <2>4, <2>5, <2>6, <2>7, <2>8, <2>9, <2>10
<1>14. CASE /\ pc' = [pc EXCEPT ![b] = "waiting"]
            /\ UNCHANGED <<link, proc, sshVars, on>>
  <2> USE <1>1, <1>2, <1>14 DEF registryVars, leaveVars, sshVars
  <2>3. TypeOK' BY <1>5 DEF TypeOK
  <2>4. RegistryInv' BY DEF TypeOK, RegistryInv
  <2>5. ASSUME NEW c \in Calls PROVE CallInv(c)'
    <3>1. CASE c = b
      BY <1>1, <1>9, <1>10, <1>12, <3>1 DEF TypeOK, CallInv
    <3>2. CASE c # b
      <4>1. pc'[c] = pc[c] /\ target'[c] = target[c] /\ gen'[c] = gen[c] /\ on'[c] = on[c]
        BY <3>2 DEF TypeOK
      <4>2. /\ (c \in late' <=> c \in late) /\ (c \in kept' <=> c \in kept)
            /\ UNCHANGED <<registered, leave, leaving>>
        BY <3>2
      <4>3. CallInv(c) OBVIOUS
      <4> QED BY <1>3, <1>11, <3>2, <4>1, <4>2, <4>3 DEF CallInv, Maker
    <3> QED BY <3>1, <3>2
  <2>6. ASSUME NEW t \in Starts PROVE StartInv(t)'
    BY <1>6, <1>7 DEF TypeOK, StartInv, Live, Old
  <2>7. ASSUME NEW t \in Starts PROVE ResourceInv(t)'
    BY <1>6, <1>7 DEF TypeOK, StartInv, ResourceInv, Live
  <2>8. ASSUME NEW q \in Providers PROVE ProviderInv(q)' BY <1>6 DEF TypeOK, ProviderInv
  <2>9. CountInv' BY DEF CountInv
  <2>10. ASSUME NEW d \in Disconnects PROVE LeaveInv(d)'
    BY <1>6, <1>7 DEF TypeOK, LeaveInv, Live
  <2> QED BY <2>3, <2>4, <2>5, <2>6, <2>7, <2>8, <2>9, <2>10
<1>15. CASE /\ ~link[p].connected /\ link[p].connecting = None
            /\ link' = [link EXCEPT ![p].connecting = s]
            /\ Start(p, s)
            /\ pc' = [pc EXCEPT ![b] = "waiting"]
            /\ UNCHANGED on
  <2>1. /\ link' = [link EXCEPT ![p] = connection] /\ proc' = [proc EXCEPT ![p] = process]
        /\ ssh' = [ssh EXCEPT ![s] = "preparing"]
        /\ servers' = servers \cup {s} /\ dirs' = dirs \cup {s} /\ stops' = stops
    BY <1>1, <1>15 DEF Start, TypeOK
  <2>2. /\ connection \in Links /\ connection.connected = FALSE /\ connection.connecting = s
        /\ connection.protocol = link[p].protocol /\ connection.count = link[p].count
        /\ process \in Processes /\ process.child = proc[p].child
        /\ process.closed = FALSE /\ process.askpass = s /\ process.dir = s
    BY <1>1, <1>4, <1>15 DEF Links, Processes
  <2> HIDE DEF connection, process
  <2>3. ASSUME NEW t \in Starts, Maker(t) = p
        PROVE  /\ ssh[t] \notin {"preparing", "starting"}
               /\ ssh[t] \in {"open", "killed"} => KeptOn(p)'
               /\ ssh[t] = "open" => ~Old(t)
    <3>1. StartInv(t) OBVIOUS
    <3>2. ssh[t] \notin {"preparing", "starting"} BY <1>1, <1>15, <2>3, <3>1 DEF StartInv
    <3>3. ssh[t] \in {"open", "killed"} => KeptOn(p)'
      BY <1>7, <1>9, <1>15, <2>3, <3>1 DEF StartInv
    <3>4. ssh[t] = "open" => ~Old(t) BY <1>3, <1>15, <2>3, <3>1 DEF StartInv, Live
    <3> QED BY <3>2, <3>3, <3>4
  <2>4. Maker(s)' = p BY <1>1, <1>2 DEF Maker, TypeOK
  <2>5. gen'[s[1]] = link[p].count BY <1>1, <1>2 DEF TypeOK
  <2> USE <1>1, <1>2, <2>1, <2>2 DEF registryVars, leaveVars
  <2>6. TypeOK' BY <1>5, <1>15 DEF TypeOK, Links, Processes
  <2>7. RegistryInv'
    <3>1. \A x \in Closers : stops[x] \in Starts \cup {None} /\ stops[x] # s
      BY DEF TypeOK, RegistryInv
    <3>2. (\A x \in Closers : stops[x] # None => ssh[stops[x]] \in {"killed", "gone", "failed"})'
      BY <3>1 DEF TypeOK, RegistryInv
    <3>3. (\A c \in Calls : target[c] \in made \cup {None})' BY DEF TypeOK, RegistryInv
    <3> QED BY <3>2, <3>3 DEF RegistryInv
  <2>8. ASSUME NEW c \in Calls PROVE CallInv(c)'
    <3>1. CASE c = b
      BY <1>1, <1>9, <1>10, <1>12, <1>15, <3>1 DEF TypeOK, CallInv
    <3>2. CASE c # b
      <4>1. pc'[c] = pc[c] /\ target'[c] = target[c] /\ gen'[c] = gen[c] /\ on'[c] = on[c]
        BY <1>15, <3>2 DEF TypeOK
      <4>2. /\ (c \in late' <=> c \in late) /\ (c \in kept' <=> c \in kept)
            /\ UNCHANGED <<registered, leave, leaving>>
        BY <3>2
      <4>3. CallInv(c) OBVIOUS
      <4>4. ssh'[<<c, 1>>] = ssh[<<c, 1>>] /\ ssh'[<<c, 2>>] = ssh[<<c, 2>>] BY <3>2 DEF TypeOK
      <4> QED BY <1>3, <1>11, <3>2, <4>1, <4>2, <4>3, <4>4 DEF CallInv, Maker
    <3> QED BY <3>1, <3>2
  <2>9. ASSUME NEW t \in Starts PROVE StartInv(t)'
    <3>1. CASE t = s
      <4>1. ssh'[s] = "preparing" /\ link'[p] = connection /\ proc'[p] = process BY DEF TypeOK
      <4>2. ~(gen'[s[1]] < link'[p].count) BY <1>5, <2>5, <4>1
      <4> QED BY <2>4, <3>1, <4>1, <4>2 DEF StartInv, Live, Old
    <3>2. CASE t # s
      <4>1. ssh'[t] = ssh[t] BY <3>2 DEF TypeOK
      <4>2. CASE ssh[t] = "none" BY <4>1, <4>2 DEF StartInv
      <4>3. CASE ssh[t] # "none" /\ Maker(t) = p
        <5>1. link'[p] = connection /\ proc'[p] = process BY DEF TypeOK
        <5>2. Old(t)' <=> Old(t) BY <1>6, <4>3, <5>1 DEF Old
        <5>3. Maker(t)' = p BY <1>6, <4>3
        <5> QED BY <2>3, <3>2, <4>1, <4>3, <5>1, <5>2, <5>3 DEF StartInv, Live
      <4>4. CASE ssh[t] # "none" /\ Maker(t) # p
        <5>1. Maker(t) \in Providers /\ StartInv(t) BY <4>4 DEF StartInv, TypeOK
        <5>2. link'[Maker(t)] = link[Maker(t)] /\ proc'[Maker(t)] = proc[Maker(t)]
          BY <4>4, <5>1 DEF TypeOK
        <5>3. Old(t)' <=> Old(t) BY <1>6, <4>4, <5>2 DEF Old
        <5>4. Maker(t)' = Maker(t) BY <1>6, <4>4
        <5> QED BY <1>7, <4>1, <4>4, <5>1, <5>2, <5>3, <5>4 DEF StartInv, Live
      <4> QED BY <4>2, <4>3, <4>4
    <3> QED BY <3>1, <3>2
  <2>10. ASSUME NEW t \in Starts PROVE ResourceInv(t)'
    <3>1. CASE t = s
      <4>1. ssh'[s] = "preparing" /\ link'[p] = connection /\ proc'[p] = process BY DEF TypeOK
      <4>2. s \in servers' \cap dirs' OBVIOUS
      <4> QED BY <2>4, <3>1, <4>1, <4>2 DEF ResourceInv
    <3>2. CASE t # s
      <4>1. ssh'[t] = ssh[t] BY <3>2 DEF TypeOK
      <4> QED BY <1>6, <1>7, <1>15, <2>3, <3>2, <4>1 DEF StartInv, ResourceInv, Live, TypeOK
    <3> QED BY <3>1, <3>2
  <2>11. ASSUME NEW q \in Providers PROVE ProviderInv(q)'
    <3>1. CASE q = p
      <4>1. link'[p] = connection /\ proc'[p] = process /\ ssh'[s] = "preparing" BY DEF TypeOK
      <4>2. \A t \in {link[p].protocol, proc[p].child} \ {None} : t # s /\ Maker(t)' = p /\ ssh'[t] # "none"
        BY <1>4, <1>6 DEF ProviderInv, Links, Processes, TypeOK
      <4> QED BY <2>4, <3>1, <4>1, <4>2 DEF ProviderInv
    <3>2. CASE q # p
      <4>1. link'[q] = link[q] /\ proc'[q] = proc[q] BY <3>2 DEF TypeOK
      <4>2. link[q] \in Links /\ proc[q] \in Processes BY Records
      <4>3. \A t \in Starts : ssh[t] # "none" => ssh'[t] = ssh[t] BY DEF TypeOK
      <4> QED BY <1>6, <4>1, <4>2, <4>3 DEF ProviderInv, Links, Processes
    <3> QED BY <3>1, <3>2
  <2>12. CountInv' BY DEF TypeOK, CountInv
  <2>13. ASSUME NEW d \in Disconnects PROVE LeaveInv(d)'
    <3>1. CASE leaving[d] = p BY <1>3, <1>8, <1>9, <3>1 DEF LeaveInv, Departing, TypeOK
    <3>2. CASE leaving[d] # p
      <4>1. \A t \in Starts : t = s \/ ssh'[t] = ssh[t] BY DEF TypeOK
      <4>2. \A t \in Starts : Live(t)' => t = s \/ (Live(t) /\ Maker(t)' = Maker(t))
        BY <1>6, <4>1 DEF Live
      <4>3. leaving[d] # None => leaving[d] \in Providers /\ link'[leaving[d]] = link[leaving[d]]
        BY <3>2 DEF TypeOK
      <4>4. leave[d] \in {"closing", "ended"} => leaving[d] # None BY DEF LeaveInv
      <4>5. LeaveInv(d) /\ leaving'[d] = leaving[d] /\ leave'[d] = leave[d] OBVIOUS
      <4>6. leave[d] \in {"closing", "ended"} /\ ~Late(leaving[d])' => ~Late(leaving[d])
        BY <1>7, <4>3, <4>4
      <4> QED BY <2>4, <3>2, <4>2, <4>3, <4>4, <4>5, <4>6 DEF LeaveInv
    <3> QED BY <3>1, <3>2
  <2> QED BY <2>6, <2>7, <2>8, <2>9, <2>10, <2>11, <2>12, <2>13
<1> QED
  <2>1. link[p].connected => ssh[link[p].protocol] # "gone" BY <1>1 DEF ProviderInv
  <2> HIDE DEF connection, process
  <2> QED BY <1>13, <1>14, <1>15, <2>1 DEF Begin

\* A call that lost its connection starts ssh only where none of its provider is
\* alive that a disconnect is to close, and none came since the call began.
LEMMA RetryKeeps ==
  ASSUME ConnectionInv, NEW b \in Calls, Retry(b)
  PROVE  ConnectionInv'
<1> USE StartFacts, ConnectionsAssumption DEF ConnectionInv
<1> DEFINE p == target[b]
           s == <<b, 2>>
           lost == [link[p] EXCEPT !.connected = FALSE]
           connection == [link[p] EXCEPT !.connected = FALSE, !.connecting = s]
           process == [proc[p] EXCEPT !.closed = FALSE, !.askpass = s, !.dir = s]
<1>1. /\ pc[b] = "dropped" /\ p \in Providers /\ p # None /\ p \in made
      /\ s \in Starts /\ s # None /\ s[1] = b /\ ssh[s] = "none" /\ Maker(s) = p
      /\ UNCHANGED <<registryVars, target, gen, on, late, kept, leaveVars, drops>>
  BY DEF Retry, TypeOK, RegistryInv, CallInv, Maker, Old, KeptOn
<1>2. \A t \in Starts : Maker(t) = p => /\ ssh[t] \in {"open", "killed"} => KeptOn(p)
                                        /\ ssh[t] = "open" => ~Old(t)
  BY <1>1 DEF CallInv
<1>3. link[p] \in Links /\ proc[p] \in Processes BY <1>1, Records
<1>4. CASE pc' = [pc EXCEPT ![b] = "failed"] /\ UNCHANGED <<link, proc, sshVars>>
  <2> USE <1>1, <1>4 DEF registryVars, leaveVars, sshVars
  <2>3. TypeOK' BY DEF TypeOK
  <2>4. RegistryInv' BY DEF TypeOK, RegistryInv
  <2>5. ASSUME NEW c \in Calls PROVE CallInv(c)' BY DEF TypeOK, CallInv, Maker, Old, KeptOn
  <2>6. ASSUME NEW t \in Starts PROVE StartInv(t)' BY DEF TypeOK, StartInv, Maker, Live, Old, KeptOn
  <2>7. ASSUME NEW t \in Starts PROVE ResourceInv(t)'
    BY DEF TypeOK, ResourceInv, Maker, Live, Late
  <2>8. ASSUME NEW q \in Providers PROVE ProviderInv(q)' BY DEF TypeOK, ProviderInv, Maker
  <2>9. CountInv' BY DEF CountInv
  <2>10. ASSUME NEW d \in Disconnects PROVE LeaveInv(d)' BY DEF TypeOK, LeaveInv, Late, Live, Maker
  <2> QED BY <2>3, <2>4, <2>5, <2>6, <2>7, <2>8, <2>9, <2>10
<1>5. CASE /\ pc' = [pc EXCEPT ![b] = "retrying"]
           /\ link' = [link EXCEPT ![p].connected = FALSE]
           /\ UNCHANGED <<proc, sshVars>>
  <2>1. link' = [link EXCEPT ![p] = lost] BY <1>1, <1>5 DEF TypeOK
  <2>2. /\ lost \in Links /\ lost.connected = FALSE /\ lost.connecting = link[p].connecting
        /\ lost.protocol = link[p].protocol /\ lost.count = link[p].count
    BY <1>3 DEF Links
  <2> HIDE DEF lost
  <2> USE <1>1, <2>1, <2>2 DEF registryVars, leaveVars, sshVars
  <2>3. TypeOK' BY <1>5 DEF TypeOK, Links
  <2>4. RegistryInv' BY <1>5 DEF TypeOK, RegistryInv
  <2>5. ASSUME NEW c \in Calls PROVE CallInv(c)' BY <1>5 DEF TypeOK, CallInv, Maker, Old, KeptOn
  <2>6. ASSUME NEW t \in Starts PROVE StartInv(t)'
    <3>1. StartInv(t) /\ UNCHANGED <<registered, made, target, gen, kept, leave, leaving, proc, ssh>>
      BY <1>1, <1>5
    <3>2. CASE Maker(t) = p
      <4>1. link'[p] = lost BY DEF TypeOK
      <4> HIDE DEF ConnectionInv
      <4> QED BY <1>2, <3>1, <3>2, <4>1 DEF StartInv, Live, Maker, Old, KeptOn
    <3>3. CASE Maker(t) # p
      <4>1. ssh[t] # "none" => link'[Maker(t)] = link[Maker(t)]
        BY <3>1, <3>3 DEF StartInv, TypeOK
      <4> QED BY <3>1, <4>1, OthersStay
    <3> QED BY <3>2, <3>3
  <2>7. ASSUME NEW t \in Starts PROVE ResourceInv(t)'
    BY <1>5 DEF TypeOK, ResourceInv, Maker, Live, Late
  <2>8. ASSUME NEW q \in Providers PROVE ProviderInv(q)' BY <1>5 DEF TypeOK, ProviderInv, Maker
  <2>9. CountInv' BY DEF TypeOK, CountInv
  <2>10. ASSUME NEW d \in Disconnects PROVE LeaveInv(d)'
    BY <1>5 DEF TypeOK, LeaveInv, Late, Live, Maker
  <2> QED BY <2>3, <2>4, <2>5, <2>6, <2>7, <2>8, <2>9, <2>10
<1>6. CASE /\ pc' = [pc EXCEPT ![b] = "retrying"]
           /\ gen[b] = link[p].count /\ link[p].connecting = None
           /\ link' = [link EXCEPT ![p].connected = FALSE, ![p].connecting = s]
           /\ Start(p, s)
  <2>1. /\ link' = [link EXCEPT ![p] = connection] /\ proc' = [proc EXCEPT ![p] = process]
        /\ ssh' = [ssh EXCEPT ![s] = "preparing"]
        /\ servers' = servers \cup {s} /\ dirs' = dirs \cup {s} /\ stops' = stops
    BY <1>1, <1>6 DEF Start, TypeOK
  <2>2. /\ connection \in Links /\ connection.connected = FALSE /\ connection.connecting = s
        /\ connection.protocol = link[p].protocol /\ connection.count = link[p].count
        /\ process \in Processes /\ process.child = proc[p].child
        /\ process.closed = FALSE /\ process.askpass = s /\ process.dir = s
    BY <1>1, <1>3 DEF Links, Processes
  <2>3. link[p].count \in Nat BY <1>3 DEF Links
  <2> HIDE DEF connection, process
  <2>4. ASSUME NEW t \in Starts, Maker(t) = p
        PROVE  /\ ssh[t] \notin {"preparing", "starting"}
               /\ ssh[t] \in {"open", "killed"} => KeptOn(p)
               /\ ssh[t] = "open" => ~Old(t)
    <3>1. StartInv(t) OBVIOUS
    <3> QED BY <1>1, <1>2, <1>6, <2>4, <3>1 DEF StartInv
  <2>5. ~Late(p) => \A d \in Disconnects : leaving[d] = p => leave[d] = "done"
    <3> SUFFICES ASSUME ~Late(p), NEW d \in Disconnects, leaving[d] = p PROVE leave[d] = "done"
      OBVIOUS
    <3>1. b \notin late /\ CallInv(b) BY DEF Late
    <3>2. CASE b \in kept BY <3>1, <3>2 DEF CallInv
    <3>3. CASE b \notin kept
      <4>1. link[p].count = 0 BY <1>6, <3>1, <3>3 DEF CallInv
      <4>2. IsFiniteSet({e \in Disconnects : leaving[e] = p}) BY FS_Subset
      <4>3. {e \in Disconnects : leaving[e] = p} = {} BY <1>1, <4>1, <4>2, FS_EmptySet DEF CountInv
      <4> QED BY <4>3
    <3> QED BY <3>2, <3>3
  <2> USE <1>1, <2>1, <2>2 DEF registryVars, leaveVars
  <2>6. TypeOK' BY <1>6 DEF TypeOK, Links, Processes
  <2>7. RegistryInv'
    <3>1. \A x \in Closers : stops[x] \in Starts \cup {None} /\ stops[x] # s
      BY DEF TypeOK, RegistryInv
    <3>2. (\A x \in Closers : stops[x] # None => ssh[stops[x]] \in {"killed", "gone", "failed"})'
      BY <3>1 DEF TypeOK, RegistryInv
    <3>3. (\A c \in Calls : target[c] \in made \cup {None})' BY DEF TypeOK, RegistryInv
    <3> QED BY <3>2, <3>3 DEF RegistryInv
  <2>8. ASSUME NEW c \in Calls PROVE CallInv(c)'
    <3>1. CallInv(c) OBVIOUS
    <3>2. \A t \in Starts \ {s} : ssh'[t] = ssh[t]
      BY DEF TypeOK
    <3>3. \A q \in Providers : link'[q].count = link[q].count BY DEF TypeOK
    <3>4. c # b => pc'[c] = pc[c] BY <1>6 DEF TypeOK
    <3>5. c = b => pc'[c] = "retrying" BY <1>6 DEF TypeOK
    <3>6. ssh'[s] = "preparing" BY DEF TypeOK
    <3>7. UNCHANGED <<target, gen, on, late, kept, registered, leave, leaving>> OBVIOUS
    <3>8. target[c] # None => target[c] \in Providers BY DEF TypeOK
    <3> HIDE <2>1, <2>2 DEF ConnectionInv
    <3>9. CASE c = b BY <1>1, <3>1, <3>2, <3>5, <3>6, <3>7, <3>9 DEF CallInv, Maker
    <3>10. CASE c # b
      <4>1. s # <<c, 1>> /\ s # <<c, 2>> BY <3>10
      <4>2. /\ ssh'[<<c, 1>>] = ssh[<<c, 1>>] /\ ssh'[<<c, 2>>] = ssh[<<c, 2>>]
            /\ pc'[c] = pc[c]
        BY <3>2, <3>4, <3>10, <4>1
      <4>3. pc[c] = "dropped" => \A t \in Starts : Maker(t) = target[c] =>
              /\ ssh'[t] \in {"open", "killed"} => KeptOn(target[c])'
              /\ ssh'[t] = "open" => ~Old(t)'
        <5> SUFFICES ASSUME pc[c] = "dropped", NEW t \in Starts, Maker(t) = target[c],
                            ssh'[t] \in {"open", "killed"}
                     PROVE  KeptOn(target[c])' /\ (ssh'[t] = "open" => ~Old(t)')
          OBVIOUS
        <5>1. t # s /\ ssh'[t] = ssh[t] BY <3>2, <3>6
        <5>2. KeptOn(target[c])' <=> KeptOn(target[c]) BY <3>7 DEF KeptOn
        <5>3. target[c] \in Providers BY <3>1, <3>8 DEF CallInv
        <5>4. Old(t)' <=> Old(t) BY <3>3, <3>7, <5>3 DEF Old, Maker
        <5> QED BY <3>1, <5>1, <5>2, <5>4 DEF CallInv
      <4> QED BY <3>1, <3>7, <4>2, <4>3 DEF CallInv, Maker
    <3> QED BY <3>9, <3>10
  <2>9. ASSUME NEW t \in Starts PROVE StartInv(t)'
    <3>1. CASE t = s
      <4>1. ssh'[s] = "preparing" /\ link'[p] = connection /\ proc'[p] = process BY DEF TypeOK
      <4>2. ~(gen'[s[1]] < link'[p].count) BY <1>6, <2>3, <4>1
      <4>3. Maker(s)' = p BY DEF Maker
      <4> QED BY <3>1, <4>1, <4>2, <4>3 DEF StartInv, Live, Old
    <3>2. CASE t # s
      <4>1. ssh'[t] = ssh[t] /\ Maker(t)' = Maker(t) BY <3>2 DEF TypeOK, Maker
      <4>2. CASE ssh[t] = "none" BY <4>1, <4>2 DEF StartInv
      <4>3. CASE ssh[t] # "none" /\ Maker(t) = p
        <5>1. link'[p] = connection /\ proc'[p] = process BY DEF TypeOK
        <5>2. Old(t)' <=> Old(t) BY <4>3, <5>1 DEF Old, Maker
        <5>3. KeptOn(p)' <=> KeptOn(p) BY DEF KeptOn
        <5> QED BY <2>4, <3>2, <4>1, <4>3, <5>1, <5>2, <5>3 DEF StartInv, Live
      <4>4. CASE ssh[t] # "none" /\ Maker(t) # p
        <5>1. Maker(t) \in Providers /\ StartInv(t) BY <4>4 DEF StartInv, TypeOK
        <5>2. link'[Maker(t)] = link[Maker(t)] /\ proc'[Maker(t)] = proc[Maker(t)]
          BY <4>4, <5>1 DEF TypeOK
        <5>3. Old(t)' <=> Old(t) BY <4>4, <5>2 DEF Old, Maker
        <5>4. KeptOn(Maker(t))' <=> KeptOn(Maker(t)) BY DEF KeptOn, Maker
        <5> QED BY <4>1, <4>4, <5>1, <5>2, <5>3, <5>4 DEF StartInv, Live
      <4> QED BY <4>2, <4>3, <4>4
    <3> QED BY <3>1, <3>2
  <2>10. ASSUME NEW t \in Starts PROVE ResourceInv(t)'
    <3>1. CASE t = s BY <3>1 DEF ResourceInv, TypeOK, Maker
    <3>2. CASE t # s
      <4>1. ssh'[t] = ssh[t] /\ Maker(t)' = Maker(t) BY <3>2 DEF TypeOK, Maker
      <4>2. Late(Maker(t))' <=> Late(Maker(t)) BY DEF Late, Maker
      <4> QED BY <1>6, <2>4, <3>2, <4>1, <4>2 DEF StartInv, ResourceInv, Live, TypeOK
    <3> QED BY <3>1, <3>2
  <2>11. ASSUME NEW q \in Providers PROVE ProviderInv(q)'
    <3>1. CASE q = p
      <4>1. link'[p] = connection /\ proc'[p] = process /\ ssh'[s] = "preparing" BY DEF TypeOK
      <4>2. \A t \in {link[p].protocol, proc[p].child} \ {None} :
              t \in Starts /\ Maker(t) = p /\ ssh[t] # "none"
        BY <1>3 DEF ProviderInv, Links, Processes
      <4>3. \A t \in Starts : ssh[t] # "none" => t # s /\ ssh'[t] = ssh[t] BY DEF TypeOK
      <4> QED BY <3>1, <4>1, <4>2, <4>3 DEF ProviderInv, Maker
    <3>2. CASE q # p
      <4>1. link'[q] = link[q] /\ proc'[q] = proc[q] BY <3>2 DEF TypeOK
      <4>2. link[q] \in Links /\ proc[q] \in Processes BY Records
      <4>3. \A t \in Starts : ssh[t] # "none" => ssh'[t] = ssh[t] BY DEF TypeOK
      <4> QED BY <4>1, <4>2, <4>3 DEF ProviderInv, Links, Processes, Maker
    <3> QED BY <3>1, <3>2
  <2>12. CountInv' BY DEF TypeOK, CountInv
  <2>13. ASSUME NEW d \in Disconnects PROVE LeaveInv(d)'
    BY <2>5 DEF TypeOK, LeaveInv, Late, Live, Maker
  <2> QED BY <2>6, <2>7, <2>8, <2>9, <2>10, <2>11, <2>12, <2>13
<1> HIDE DEF lost, connection, process
<1> QED BY <1>4, <1>5, <1>6 DEF Retry

-----------------------------------------------------------------------------
(* The connections: the properties. *)

\* The initial state has the invariant.
LEMMA InitHolds == Init => ConnectionInv
<1> SUFFICES ASSUME Init PROVE ConnectionInv
  OBVIOUS
<1> USE StartFacts, ConnectionsAssumption DEF Init
<1>1. TypeOK
  <2>1. Cardinality(Disconnects) \in Nat BY FS_CardinalityType
  <2> QED BY <2>1 DEF TypeOK
<1>2. RegistryInv BY DEF RegistryInv
<1>3. CountInv
  <2>1. \A p \in Providers : {d \in Disconnects : leaving[d] = p} = {} OBVIOUS
  <2> QED BY <2>1, FS_EmptySet DEF CountInv
<1>4. \A c \in Calls : CallInv(c) BY DEF CallInv
<1>5. \A s \in Starts : StartInv(s) /\ ResourceInv(s) BY DEF StartInv, ResourceInv
<1>6. \A p \in Providers : ProviderInv(p) BY DEF ProviderInv
<1>7. \A d \in Disconnects : LeaveInv(d) BY DEF LeaveInv
<1> QED BY <1>1, <1>2, <1>3, <1>4, <1>5, <1>6, <1>7 DEF ConnectionInv

\* A stutter keeps the invariant.
LEMMA StutterKeeps == ConnectionInv /\ UNCHANGED vars => ConnectionInv'
<1> SUFFICES ASSUME ConnectionInv, UNCHANGED vars PROVE ConnectionInv'
  OBVIOUS
<1> USE DEF vars, registryVars, sshVars, callVars, leaveVars
<1>1. TypeOK' BY DEF ConnectionInv, TypeOK
<1>2. RegistryInv' /\ CountInv' BY DEF ConnectionInv, RegistryInv, CountInv
<1>3. ASSUME NEW c \in Calls PROVE CallInv(c)'
  <2>1. CallInv(c) BY DEF ConnectionInv
  <2> QED BY <2>1 DEF CallInv, Maker, Old, KeptOn
<1>4. \A s \in Starts : StartInv(s)' /\ ResourceInv(s)'
  BY DEF ConnectionInv, StartInv, ResourceInv, Maker, Live, Late, Old, KeptOn
<1>5. \A p \in Providers : ProviderInv(p)' BY DEF ConnectionInv, ProviderInv, Maker
<1>6. \A d \in Disconnects : LeaveInv(d)' BY DEF ConnectionInv, LeaveInv, Maker, Live, Late
<1> QED BY <1>1, <1>2, <1>3, <1>4, <1>5, <1>6 DEF ConnectionInv

\* Every step keeps the invariant.
LEMMA StepKeeps == ConnectionInv /\ [Next]_vars => ConnectionInv'
<1> SUFFICES ASSUME ConnectionInv, [Next]_vars PROVE ConnectionInv'
  OBVIOUS
<1>1. ASSUME NEW p \in Providers, Spawned(p) \/ Ready(p) \/ StartFails(p) \/ CleanedUp(p)
      PROVE  ConnectionInv'
  BY <1>1, SpawnedKeeps, ReadyKeeps, StartFailsKeeps, CleanedUpKeeps
<1>2. ASSUME NEW s \in Starts, Dies(s) PROVE ConnectionInv'
  BY <1>2, DiesKeeps
<1>3. CASE GetOrCreate
  BY <1>3, GetOrCreateKeeps
<1>4. ASSUME NEW c \in Calls,
             (\E p \in Providers : Begin(c, p)) \/ Answered(c) \/ Retry(c)
      PROVE  ConnectionInv'
  BY <1>4, BeginKeeps, AnsweredKeeps, RetryKeeps
<1>5. ASSUME NEW d \in Disconnects, Disconnect(d) \/ End(d) \/ Ended(d) \/ Finish(d)
      PROVE  ConnectionInv'
  BY <1>5, DisconnectKeeps, EndKeeps, EndedKeeps, FinishKeeps
<1>6. CASE UNCHANGED vars
  BY <1>6, StutterKeeps
<1> QED BY <1>1, <1>2, <1>3, <1>4, <1>5, <1>6 DEF Next

(* Every reachable state has the invariant: one live start per provider,   *)
(* unless a caller that had kept it made another; its process object refers *)
(* to one that is to be closed, and whoever closes finds that one.         *)
THEOREM ConnectionsInvariant == Spec => []ConnectionInv
BY InitHolds, StepKeeps, PTL DEF Spec

(* The registry, the providers, their processes and the calls keep their   *)
(* types; the count of a provider's disconnects stays within them.         *)
THEOREM ConnectionsTypeCorrect == Spec => []TypeOK
<1>1. ConnectionInv => TypeOK BY DEF ConnectionInv
<1> QED BY <1>1, ConnectionsInvariant, PTL

\* A provider that was left was left by a disconnect it counted.
LEMMA LeftIsCounted ==
  ASSUME ConnectionInv, NEW p \in Providers, NEW d \in Disconnects, leaving[d] = p
  PROVE  link[p].count \in Nat /\ 0 < link[p].count
<1>1. link[p].count \in Nat BY Records, FS_CardinalityType, ConnectionsAssumption DEF ConnectionInv, Links
<1>2. {e \in Disconnects : leaving[e] = p} # {} OBVIOUS
<1>3. IsFiniteSet({e \in Disconnects : leaving[e] = p}) BY ConnectionsAssumption, FS_Subset
<1>4. link[p].count # 0 BY <1>2, <1>3, FS_EmptySet DEF ConnectionInv, CountInv
<1> QED BY <1>1, <1>4

(* What is disconnected stays so, for any number of providers, calls and   *)
(* disconnects, whoever keeps a provider: a connection that was started     *)
(* for a call is not alive after a later disconnect of its provider, but    *)
(* while that disconnect is to close it, and of a provider that left the    *)
(* registry by its own disconnect nothing is alive once nothing is going    *)
(* on, but what was started for a call that began during that disconnect    *)
(* or after it.                                                             *)
THEOREM DisconnectsHold == Spec => []DisconnectHolds
<1>1. ConnectionInv => DisconnectSticks
  BY DEF ConnectionInv, DisconnectSticks, StartInv, Live, Old, Departing
<1>2. ConnectionInv => DisconnectedIsClosed
  <2> SUFFICES ASSUME ConnectionInv, Idle, NEW p \in made \ ({registered} \cup stolen),
                      NEW s \in Starts, Maker(s) = p, s[1] \notin late \cup kept
               PROVE  ssh[s] \in {"none", "gone", "failed"}
    BY DEF DisconnectedIsClosed
  <2>1. p \in Providers BY DEF ConnectionInv, TypeOK
  <2>2. PICK d \in Disconnects : leaving[d] = p BY DEF ConnectionInv, RegistryInv
  <2>3. 0 < link[p].count BY <2>1, <2>2, LeftIsCounted
  <2>4. gen[s[1]] = 0 BY StartFacts DEF ConnectionInv, CallInv
  <2>5. StartInv(s) BY DEF ConnectionInv
  <2>6. ~Live(s) BY <2>3, <2>4, <2>5 DEF StartInv, Live, Old, Idle
  <2> QED BY <2>6 DEF Idle, Live, ConnectionInv, TypeOK
<1> QED BY <1>1, <1>2, ConnectionsInvariant, PTL DEF DisconnectHolds

(* A connection has its askpass server and its control directory and a     *)
(* start that failed left neither, however starts, clean-ups and           *)
(* disconnects on one process object interleave; only a call that began    *)
(* during a disconnect may upset that.                                     *)
THEOREM ResourcesAreRight == Spec => []ResourcesAgree
<1>1. ConnectionInv => TypeOK BY DEF ConnectionInv
<1>2. ConnectionInv => ConnectedIsIntact
  BY DEF ConnectionInv, ConnectedIsIntact, ResourceInv, Live
<1>3. ConnectionInv => FailedStartsLeaveNothing
  BY DEF ConnectionInv, FailedStartsLeaveNothing, ResourceInv
<1> QED BY <1>1, <1>2, <1>3, ConnectionsInvariant, PTL DEF ResourcesAgree

-----------------------------------------------------------------------------
(* The connections: what is waited for. *)

(* A call that waits has a start in progress to wait for, and one that runs *)
(* has a process that will answer or end.                                   *)
WaitInv(c) ==
  /\ pc[c] \in {"waiting", "retrying"} => link[target[c]].connecting # None
  /\ pc[c] \in {"running", "rerunning"} => on[c] # None /\ ssh[on[c]] \in {"open", "killed"}

NobodyIsForgotten == \A c \in Calls : WaitInv(c)

\* The end of a start in progress, and of a connection, reaches whoever waits.
LEMMA StartsReachWaiters ==
  ASSUME ConnectionInv, NobodyIsForgotten, NEW p \in Providers,
         Spawned(p) \/ Ready(p) \/ StartFails(p) \/ CleanedUp(p)
  PROVE  NobodyIsForgotten'
<1> SUFFICES ASSUME NEW c \in Calls PROVE WaitInv(c)'
  BY DEF NobodyIsForgotten
<1> DEFINE s == link[p].connecting
<1>1. WaitInv(c) BY DEF NobodyIsForgotten
<1>2. /\ target' = target /\ s \in Starts /\ s # None
      /\ target[c] \in Providers \cup {None} /\ on[c] \in Starts \cup {None}
      /\ pc[c] # "new" => target[c] \in Providers
  <2>1. CallInv(c) /\ TypeOK BY DEF ConnectionInv
  <2>2. target' = target /\ s # None BY DEF Spawned, Ready, StartFails, CleanedUp, callVars
  <2>3. s \in Starts BY <2>1, <2>2 DEF TypeOK
  <2> QED BY <2>1, <2>2, <2>3 DEF TypeOK, CallInv
<1>3. CASE Spawned(p)
  <2>1. /\ ssh' = [ssh EXCEPT ![s] = "starting"] /\ ssh[s] = "preparing"
        /\ UNCHANGED <<link, pc, on>>
    BY <1>3 DEF Spawned, callVars
  <2> HIDE DEF s
  <2> QED BY <1>1, <1>2, <2>1 DEF WaitInv, ConnectionInv, TypeOK
<1>4. CASE Ready(p)
  <2>1. ssh' = [ssh EXCEPT ![s] = "open"] BY <1>4 DEF Ready
  <2>2. \A q \in Providers \ {p} : link'[q] = link[q] BY <1>4 DEF Ready, ConnectionInv, TypeOK
  <2>3. \/ pc'[c] = pc[c] /\ on'[c] = on[c]
           /\ (pc[c] \in {"waiting", "retrying"} => target[c] # p)
        \/ on'[c] = s /\ pc'[c] \in {"running", "rerunning", "failed"}
    BY <1>4 DEF Ready
  <2> HIDE DEF s
  <2>4. ssh'[s] = "open" /\ \A t \in Starts \ {s} : ssh'[t] = ssh[t]
    BY <1>2, <2>1 DEF ConnectionInv, TypeOK
  <2> QED BY <1>1, <1>2, <2>2, <2>3, <2>4 DEF WaitInv
<1>5. CASE StartFails(p)
  <2>1. ssh' = [Killed(proc[p].child) EXCEPT ![s] = "failed"] /\ UNCHANGED <<link, pc, on>>
        /\ ssh[s] \in {"preparing", "starting"}
    BY <1>5 DEF StartFails, callVars
  <2> HIDE DEF s
  <2>2. \A t \in Starts : ssh[t] \in {"open", "killed"} => ssh'[t] \in {"open", "killed"}
    <3> DEFINE k == proc[p].child
    <3>1. k \in Starts \cup {None} BY DEF ConnectionInv, TypeOK
    <3> HIDE DEF k
    <3>2. CASE k = None BY <1>2, <2>1, <3>2 DEF Killed, ConnectionInv, TypeOK, k
    <3>3. CASE k # None
      <4> DEFINE told == [ssh EXCEPT ![k] = CASE @ = "open" -> "killed" [] @ = "starting" -> "failed" [] OTHER -> @]
      <4>1. Killed(k) = told BY <3>3 DEF Killed
      <4>2. /\ DOMAIN told = Starts
            /\ \A t \in Starts : ssh[t] \in {"open", "killed"} => told[t] \in {"open", "killed"}
        BY <3>1 DEF ConnectionInv, TypeOK
      <4> HIDE DEF told
      <4>3. ssh' = [told EXCEPT ![s] = "failed"] BY <2>1, <4>1 DEF k
      <4> QED BY <1>2, <2>1, <4>2, <4>3
    <3> QED BY <3>2, <3>3
  <2> QED BY <1>1, <1>2, <2>1, <2>2 DEF WaitInv
<1>6. CASE CleanedUp(p)
  <2>1. \A q \in Providers \ {p} : link'[q] = link[q] BY <1>6 DEF CleanedUp, ConnectionInv, TypeOK
  <2>2. /\ ssh' = ssh /\ on' = on
        /\ \/ pc'[c] = pc[c] /\ (pc[c] \in {"waiting", "retrying"} => target[c] # p)
           \/ pc'[c] = "failed"
    BY <1>6 DEF CleanedUp
  <2> QED BY <1>1, <1>2, <2>1, <2>2 DEF WaitInv
<1> QED BY <1>3, <1>4, <1>5, <1>6

\* A call waits only for what is there, and the end of a connection ends what
\* ran on it.
LEMMA CallsWaitForSomething ==
  ASSUME ConnectionInv, NobodyIsForgotten,
         \/ \E s \in Starts : Dies(s)
         \/ \E c \in Calls, p \in Providers : Begin(c, p)
         \/ \E c \in Calls : Answered(c) \/ Retry(c)
  PROVE  NobodyIsForgotten'
<1> SUFFICES ASSUME NEW c \in Calls PROVE WaitInv(c)'
  BY DEF NobodyIsForgotten
<1> USE StartFacts
<1>1. /\ WaitInv(c) /\ CallInv(c)
      /\ target[c] \in Providers \cup {None} /\ on[c] \in Starts \cup {None}
      /\ pc[c] # "new" => target[c] \in Providers
  BY DEF NobodyIsForgotten, ConnectionInv, TypeOK, CallInv
<1>2. ASSUME NEW s \in Starts, Dies(s) PROVE WaitInv(c)'
  <2>1. \A q \in Providers : link'[q].connecting = link[q].connecting
    <3>1. \A q \in Providers : link[q] \in Links BY Records DEF ConnectionInv
    <3> QED BY <1>2, <3>1 DEF Dies, ConnectionInv, TypeOK, Links
  <2>2. /\ target' = target /\ on' = on
        /\ IF on[c] = s THEN pc'[c] \notin {"running", "rerunning"} ELSE pc'[c] = pc[c]
        /\ pc'[c] \in {"waiting", "retrying"} => pc'[c] = pc[c]
    BY <1>2 DEF Dies
  <2>3. \A t \in Starts \ {s} : ssh'[t] = ssh[t] BY <1>2 DEF Dies, ConnectionInv, TypeOK
  <2> QED BY <1>1, <2>1, <2>2, <2>3 DEF WaitInv
<1>3. ASSUME NEW b \in Calls, NEW p \in Providers, Begin(b, p) PROVE WaitInv(c)'
  <2>1. p \in Providers /\ target'[b] = p /\ (c # b => target'[c] = target[c])
    BY <1>3 DEF Begin, ConnectionInv, TypeOK
  <2>2. \A q \in Providers : link[q].connecting # None => link'[q].connecting # None
    <3>1. link \in [Providers -> Links] BY DEF ConnectionInv, TypeOK, Links
    <3>2. \/ link' = link
          \/ link' = [link EXCEPT ![p].connecting = <<b, 1>>] /\ <<b, 1>> # None
      BY <1>3 DEF Begin
    <3> QED BY <2>1, <3>1, <3>2 DEF Links
  <2>3. \A t \in Starts : ssh[t] \in {"open", "killed"} => ssh'[t] = ssh[t]
    <3>1. ssh[<<b, 1>>] = "none" BY <1>3 DEF Begin, ConnectionInv, CallInv
    <3>2. ssh' = ssh \/ ssh' = [ssh EXCEPT ![<<b, 1>>] = "preparing"]
      BY <1>3 DEF Begin, Start, sshVars
    <3> QED BY <3>1, <3>2 DEF ConnectionInv, TypeOK
  <2>4. CASE c = b
    <3>1. CASE link[p].connected
      <4>1. link[p].protocol # None /\ ssh[link[p].protocol] \in {"open", "killed"}
            /\ link[p].protocol \in Starts
        BY <2>1, <3>1 DEF ConnectionInv, ProviderInv, TypeOK
      <4>2. pc'[b] = "running" /\ on'[b] = link[p].protocol
        BY <1>3, <3>1, <4>1 DEF Begin, ConnectionInv, TypeOK
      <4> QED BY <2>3, <2>4, <4>1, <4>2 DEF WaitInv
    <3>2. CASE ~link[p].connected
      <4>1. link[p] \in Links BY <2>1, Records DEF ConnectionInv
      <4>2. pc'[b] = "waiting" BY <1>3, <3>2 DEF Begin, ConnectionInv, TypeOK
      <4>3. link'[p].connecting # None
        <5>1. CASE link[p].connecting # None BY <2>1, <2>2, <5>1
        <5>2. CASE link[p].connecting = None
          <6>1. link' = [link EXCEPT ![p].connecting = <<b, 1>>] BY <1>3, <3>2, <5>2 DEF Begin
          <6>2. link'[p] = [link[p] EXCEPT !.connecting = <<b, 1>>]
            BY <2>1, <6>1 DEF ConnectionInv, TypeOK
          <6> QED BY <4>1, <6>2 DEF Links
        <5> QED BY <5>1, <5>2
      <4> QED BY <2>1, <2>4, <4>2, <4>3 DEF WaitInv
    <3> QED BY <3>1, <3>2
  <2>5. CASE c # b
    <3>1. pc'[c] = pc[c] /\ on'[c] = on[c] BY <1>3, <2>5 DEF Begin, ConnectionInv, TypeOK
    <3> QED BY <1>1, <2>1, <2>2, <2>3, <2>5, <3>1 DEF WaitInv
  <2> QED BY <2>4, <2>5
<1>4. ASSUME NEW b \in Calls, Answered(b) PROVE WaitInv(c)'
  BY <1>1, <1>4 DEF Answered, WaitInv, sshVars, ConnectionInv, TypeOK
<1>5. ASSUME NEW b \in Calls, Retry(b) PROVE WaitInv(c)'
  <2> DEFINE p == target[b]
  <2>1. p \in Providers /\ pc[b] = "dropped" /\ UNCHANGED <<target, on>>
    <3>1. pc[b] = "dropped" /\ UNCHANGED <<target, on>> BY <1>5 DEF Retry
    <3>2. CallInv(b) /\ TypeOK BY DEF ConnectionInv
    <3> QED BY <3>1, <3>2 DEF CallInv, TypeOK
  <2>2. link[p] \in Links BY <2>1, Records DEF ConnectionInv
  <2> DEFINE lost == [link[p] EXCEPT !.connected = FALSE]
             again == [link[p] EXCEPT !.connected = FALSE, !.connecting = <<b, 2>>]
  <2>3. /\ \A q \in Providers \ {p} : link'[q] = link[q]
        /\ link'[p].connecting = link[p].connecting \/ link'[p].connecting = <<b, 2>>
        /\ pc'[b] = "retrying" => link'[p].connecting # None
    <3>1. lost.connecting = link[p].connecting /\ again.connecting = <<b, 2>> BY <2>2 DEF Links
    <3>2. \/ link' = link /\ pc' = [pc EXCEPT ![b] = "failed"]
          \/ link[p].connecting # None /\ link' = [link EXCEPT ![p] = lost]
          \/ link' = [link EXCEPT ![p] = again]
      <4>1. \/ link' = link /\ pc' = [pc EXCEPT ![b] = "failed"]
            \/ link[p].connecting # None /\ link' = [link EXCEPT ![p].connected = FALSE]
            \/ link' = [link EXCEPT ![p].connected = FALSE, ![p].connecting = <<b, 2>>]
        BY <1>5 DEF Retry
      <4>2. /\ [link EXCEPT ![p].connected = FALSE] = [link EXCEPT ![p] = lost]
            /\ [link EXCEPT ![p].connected = FALSE, ![p].connecting = <<b, 2>>]
                 = [link EXCEPT ![p] = again]
        BY <2>1 DEF ConnectionInv, TypeOK
      <4> QED BY <4>1, <4>2
    <3> HIDE DEF lost, again
    <3>3. DOMAIN link = Providers /\ DOMAIN pc = Calls BY DEF ConnectionInv, TypeOK
    <3>4. <<b, 2>> # None BY ConnectionsAssumption DEF Starts
    <3> QED BY <2>1, <3>1, <3>2, <3>3, <3>4
  <2>4. \A t \in Starts : ssh[t] \in {"open", "killed"} => ssh'[t] = ssh[t]
    <3>1. ssh[<<b, 2>>] = "none" BY <2>1 DEF ConnectionInv, CallInv
    <3>2. ssh' = ssh \/ ssh' = [ssh EXCEPT ![<<b, 2>>] = "preparing"]
      BY <1>5 DEF Retry, Start, sshVars
    <3> QED BY <3>1, <3>2 DEF ConnectionInv, TypeOK
  <2>5. \A q \in Providers : link[q].connecting # None => link'[q].connecting # None
    BY <2>3
  <2>6. pc'[b] \in {"failed", "retrying"} /\ (c # b => pc'[c] = pc[c])
    BY <1>5 DEF Retry, ConnectionInv, TypeOK
  <2> QED BY <1>1, <2>1, <2>3, <2>4, <2>5, <2>6 DEF WaitInv
<1> QED BY <1>2, <1>3, <1>4, <1>5

\* A disconnect takes no connection from a call without an end it hears of.
LEMMA DisconnectsForgetNobody ==
  ASSUME ConnectionInv, NobodyIsForgotten,
         \/ GetOrCreate
         \/ \E d \in Disconnects : Disconnect(d) \/ End(d) \/ Ended(d) \/ Finish(d)
  PROVE  NobodyIsForgotten'
<1> SUFFICES ASSUME NEW c \in Calls PROVE WaitInv(c)'
  BY DEF NobodyIsForgotten
<1>1. /\ WaitInv(c) /\ target[c] \in Providers \cup {None} /\ on[c] \in Starts \cup {None}
      /\ pc[c] # "new" => target[c] \in Providers
  <2>1. WaitInv(c) /\ CallInv(c) /\ TypeOK BY DEF NobodyIsForgotten, ConnectionInv
  <2> QED BY <2>1 DEF TypeOK, CallInv
<1>2. UNCHANGED <<pc, target, on>>
  BY DEF GetOrCreate, Disconnect, End, Ended, Finish, callVars
<1>3. \A q \in Providers : link'[q].connecting = link[q].connecting
  <2> SUFFICES ASSUME NEW q \in Providers PROVE link'[q].connecting = link[q].connecting
    OBVIOUS
  <2>1. link[q] \in Links BY Records DEF ConnectionInv
  <2>2. \/ link' = link
        \/ \E p \in Providers \cup {None} : link' = [link EXCEPT ![p].count = @ + 1]
        \/ \E p \in Providers \cup {None} : link' = [link EXCEPT ![p].connected = FALSE]
    BY DEF GetOrCreate, Disconnect, End, Ended, Finish, ConnectionInv, TypeOK
  <2>3. link'[q] \in {link[q], [link[q] EXCEPT !.count = @ + 1], [link[q] EXCEPT !.connected = FALSE]}
    BY <2>2 DEF ConnectionInv, TypeOK
  <2> QED BY <2>1, <2>3 DEF Links
<1>4. \A t \in Starts : ssh[t] \in {"open", "killed"} => ssh'[t] \in {"open", "killed"}
  <2>1. CASE ssh' = ssh BY <2>1
  <2>2. ASSUME NEW k \in Starts \cup {None}, ssh' = Killed(k)
        PROVE  \A t \in Starts : ssh[t] \in {"open", "killed"} => ssh'[t] \in {"open", "killed"}
    BY <2>2 DEF Killed, ConnectionInv, TypeOK
  <2>3. \/ ssh' = ssh
        \/ \E d \in Disconnects : leave[d] = "waiting" /\ ssh' = Killed(proc[leaving[d]].child)
    BY DEF GetOrCreate, Disconnect, End, Ended, Finish, sshVars
  <2>4. \A d \in Disconnects : leave[d] = "waiting" => proc[leaving[d]].child \in Starts \cup {None}
    BY DEF ConnectionInv, TypeOK, LeaveInv
  <2> QED BY <2>1, <2>2, <2>3, <2>4
<1> QED BY <1>1, <1>2, <1>3, <1>4 DEF WaitInv

(* No call is left waiting for nothing, whatever starts, losses, clean-ups  *)
(* and disconnects overlap: what the end of every operation rests on.       *)
THEOREM WaitersAreServed == Spec => []NobodyIsForgotten
<1>1. Init => NobodyIsForgotten BY DEF Init, NobodyIsForgotten, WaitInv
<1>2. ConnectionInv /\ NobodyIsForgotten /\ [Next]_vars => NobodyIsForgotten'
  <2>1. UNCHANGED vars /\ NobodyIsForgotten => NobodyIsForgotten'
    BY DEF vars, callVars, sshVars, NobodyIsForgotten, WaitInv
  <2> QED
    BY <2>1, StartsReachWaiters, CallsWaitForSomething, DisconnectsForgetNobody DEF Next
<1> QED BY <1>1, <1>2, ConnectionsInvariant, PTL DEF Spec

-----------------------------------------------------------------------------
(* The tunnels: types. *)

\* Every step keeps the types.
LEMMA TunnelTypesKept == TunnelTypeOK /\ [TunnelNext]_tunnelVars => TunnelTypeOK'
<1> SUFFICES ASSUME TunnelTypeOK, [TunnelNext]_tunnelVars PROVE TunnelTypeOK'
  OBVIOUS
<1> USE DEF TunnelTypeOK, Sessions
<1>1. ASSUME NEW t \in Tunnels, StartTunnel(t) PROVE TunnelTypeOK'
  BY <1>1 DEF StartTunnel, Spawn, Broadcast
<1>2. ASSUME NEW t \in Tunnels, AskpassStarted(t) PROVE TunnelTypeOK'
  BY <1>2 DEF AskpassStarted, Spawn, Broadcast
<1>3. ASSUME NEW t \in Tunnels, WindowEnds(t) PROVE TunnelTypeOK'
  BY <1>3 DEF WindowEnds
<1>4. ASSUME NEW t \in Tunnels, DiesInWindow(t) PROVE TunnelTypeOK'
  BY <1>4 DEF DiesInWindow, Dying, Freed, Broadcast
<1>5. ASSUME NEW t \in Tunnels, DiesLater(t) PROVE TunnelTypeOK'
  BY <1>5 DEF DiesLater, Dying, Freed, Broadcast
<1>6. ASSUME NEW t \in Tunnels, DiesAlone(t) PROVE TunnelTypeOK'
  BY <1>6 DEF DiesAlone, Dying
<1>7. ASSUME NEW t \in Tunnels, StopTunnel(t) PROVE TunnelTypeOK'
  BY <1>7 DEF StopTunnel, StopThese, Terminated
<1>8. ASSUME NEW t \in Tunnels, Escalate(t) PROVE TunnelTypeOK'
  BY <1>8 DEF Escalate
<1>9. ASSUME NEW t \in Tunnels, GiveUp(t) PROVE TunnelTypeOK'
  BY <1>9 DEF GiveUp
<1>10. ASSUME NEW t \in Tunnels, StopFinished(t) PROVE TunnelTypeOK'
  BY <1>10 DEF StopFinished, Broadcast
<1>11. CASE Dispose
  BY <1>11 DEF Dispose, StopThese, Terminated
<1>12. CASE Exit
  BY <1>12 DEF Exit, Terminated
<1>13. CASE UNCHANGED tunnelVars
  BY <1>13 DEF tunnelVars
<1> QED
  BY <1>1, <1>2, <1>3, <1>4, <1>5, <1>6, <1>7, <1>8, <1>9, <1>10, <1>11, <1>12, <1>13 DEF TunnelNext

(* The tunnels, their calls and processes keep their types.                *)
THEOREM TunnelsTypeCorrect == TunnelSpec => []TunnelTypeOK
<1>1. TunnelInit => TunnelTypeOK
  BY DEF TunnelInit, TunnelTypeOK, Sessions
<1> QED
  BY <1>1, TunnelTypesKept, PTL DEF TunnelSpec

-----------------------------------------------------------------------------
(* The tunnels: the strengthening. *)

\* Where the start of a tunnel is, and what there is of it by then.
Started(t) ==
  /\ start[t] \in {"new", "asking"} => child[t] = "none"
  /\ start[t] \in {"new", "failed"} => t \notin askpass
  /\ start[t] \in {"new", "asking", "failed"} => session[t] = "none"
  /\ start[t] = "failed" => child[t] \in {"none", "dead"}
  /\ start[t] \in {"new", "asking"} => stop[t] = "no"

\* A tunnel in the map is not being stopped, and its process tells its status.
Listed(t) ==
  /\ session[t] # "none" => stop[t] = "no"
  /\ session[t] = "error" => start[t] = "started" /\ child[t] = "dead" /\ t \notin askpass
  /\ Alive /\ session[t] = "active" => child[t] = "alive"
  /\ start[t] \in {"window", "started"} /\ session[t] = "none" => stop[t] # "no"

\* A stop waits for a process that was told, and not beyond the start window.
Waited(t) ==
  /\ Alive /\ stop[t] = "waiting" => child[t] \in {"termed", "killed"}
  /\ Alive /\ start[t] = "window" => stop[t] \in {"no", "waiting"} /\ child[t] # "killed"
  /\ stop[t] \in {"finishing", "done"} => child[t] = "dead" \/ t \in gaveUp
  /\ stop[t] = "done" => t \notin askpass

\* No process that runs is out of the map, or left after the end.
Told(t) == child[t] = "alive" => Alive /\ session[t] = "active"

\* The list in a window.
Shown(t) == quit = "no" /\ TunnelSettled(t) => shown[t] = session[t]

TunnelInv(t) == Started(t) /\ Listed(t) /\ Waited(t) /\ Told(t) /\ Shown(t)
TunnelsInv == TunnelTypeOK /\ \A t \in Tunnels : TunnelInv(t)

\* Every step keeps the strengthening.
LEMMA TunnelInvKept == TunnelsInv /\ [TunnelNext]_tunnelVars => TunnelsInv'
<1> SUFFICES ASSUME TunnelsInv, [TunnelNext]_tunnelVars, NEW u \in Tunnels PROVE TunnelInv(u)'
  BY TunnelTypesKept DEF TunnelsInv
<1> USE DEF TunnelsInv, TunnelInv, Started, Listed, Waited, Told, Shown, TunnelSettled, Alive, TunnelTypeOK, Sessions
<1>1. ASSUME NEW t \in Tunnels, StartTunnel(t) PROVE TunnelInv(u)'
  BY <1>1 DEF StartTunnel, Spawn, Broadcast
<1>2. ASSUME NEW t \in Tunnels, AskpassStarted(t) PROVE TunnelInv(u)'
  BY <1>2 DEF AskpassStarted, Spawn, Broadcast
<1>3. ASSUME NEW t \in Tunnels, WindowEnds(t) PROVE TunnelInv(u)'
  BY <1>3 DEF WindowEnds
<1>4. ASSUME NEW t \in Tunnels, DiesInWindow(t) PROVE TunnelInv(u)'
  BY <1>4 DEF DiesInWindow, Dying, Freed, Broadcast
<1>5. ASSUME NEW t \in Tunnels, DiesLater(t) PROVE TunnelInv(u)'
  BY <1>5 DEF DiesLater, Dying, Freed, Broadcast
<1>6. ASSUME NEW t \in Tunnels, DiesAlone(t) PROVE TunnelInv(u)'
  BY <1>6 DEF DiesAlone, Dying
<1>7. ASSUME NEW t \in Tunnels, StopTunnel(t) PROVE TunnelInv(u)'
  BY <1>7 DEF StopTunnel, StopThese, Terminated
<1>8. ASSUME NEW t \in Tunnels, Escalate(t) PROVE TunnelInv(u)'
  BY <1>8 DEF Escalate
<1>9. ASSUME NEW t \in Tunnels, GiveUp(t) PROVE TunnelInv(u)'
  BY <1>9 DEF GiveUp
<1>10. ASSUME NEW t \in Tunnels, StopFinished(t) PROVE TunnelInv(u)'
  BY <1>10 DEF StopFinished, Broadcast
<1>11. CASE Dispose
  BY <1>11 DEF Dispose, StopThese, Terminated
<1>12. CASE Exit
  BY <1>12 DEF Exit, Terminated
<1>13. CASE UNCHANGED tunnelVars
  BY <1>13 DEF tunnelVars
<1> QED
  BY <1>1, <1>2, <1>3, <1>4, <1>5, <1>6, <1>7, <1>8, <1>9, <1>10, <1>11, <1>12, <1>13 DEF TunnelNext

\* The strengthening holds throughout.
LEMMA TunnelInvHolds == TunnelSpec => []TunnelsInv
<1>1. TunnelInit => TunnelsInv
  BY DEF TunnelInit, TunnelsInv, TunnelTypeOK, Sessions, TunnelInv, Started, Listed, Waited, Told, Shown, TunnelSettled, Alive
<1> QED
  BY <1>1, TunnelInvKept, PTL DEF TunnelSpec

-----------------------------------------------------------------------------
(* The tunnels: the properties. *)

(* However starts, stops and exits of any tunnels overlap: a window lists  *)
(* what the map holds of each tunnel whose start and stop are over.        *)
THEOREM ShownIsCurrent == TunnelSpec => []ShownIsSo
<1>1. TunnelsInv => ShownIsSo
  BY DEF TunnelsInv, TunnelInv, Shown, ShownIsSo
<1> QED
  BY <1>1, TunnelInvHolds, PTL

(* A stop that returned left no process on its port, unless it gave up.    *)
THEOREM PortsAreFreed == TunnelSpec => []PortFreed
<1>1. TunnelsInv => PortFreed
  BY DEF TunnelsInv, TunnelInv, Waited, PortFreed
<1> QED
  BY <1>1, TunnelInvHolds, PTL

(* No askpass server outlives its tunnel.                                  *)
THEOREM AskpassServersStop == TunnelSpec => []AskpassStops
<1>1. TunnelsInv => AskpassStops
  BY DEF TunnelsInv, TunnelInv, Started, Listed, Waited, AskpassStops, TunnelTypeOK, Sessions
<1> QED
  BY <1>1, TunnelInvHolds, PTL

(* When the 'exit' event has ended the application, every ssh process was  *)
(* told to end.                                                            *)
THEOREM NoTunnelIsOrphaned == TunnelSpec => []ExitLeavesNone
<1>1. TunnelsInv => ExitLeavesNone
  BY DEF TunnelsInv, TunnelInv, Told, ExitLeavesNone
<1> QED
  BY <1>1, TunnelInvHolds, PTL

-----------------------------------------------------------------------------
(* The tunnels: stops end, as far as it is not about fairness. *)

(* A stop that waits does so for a process that was told to end, and whose  *)
(* exit the start window or what follows it listens for: one of the steps   *)
(* that let it return is always to come.                                   *)
StopsWaitForTold ==
  Alive => \A t \in Tunnels : stop[t] = "waiting" =>
    /\ child[t] \in {"termed", "killed"} /\ start[t] \in {"window", "started"}
    /\ child[t] = "killed" => start[t] = "started"

\* What a stop has before it.
Ahead(t) ==
  IF stop[t] = "no" THEN 5
  ELSE IF stop[t] = "done" THEN 0
  ELSE IF stop[t] = "finishing" THEN 1
  ELSE IF child[t] = "killed" THEN 2
  ELSE IF start[t] = "started" THEN 3 ELSE 4

(* No step sets a stop back, one of another tunnel or of the quit neither.  *)
StopsOnlyGetOn ==
  [][\A t \in Tunnels : Ahead(t)' # Ahead(t) /\ quit' # "exited" => Ahead(t)' < Ahead(t)]_tunnelVars

(* Every stop waits for what will come, and each step on its way brings its *)
(* return nearer (the part of StopsEnd that is not about fairness).         *)
THEOREM StopsGetOn == TunnelSpec => []StopsWaitForTold /\ StopsOnlyGetOn
<1>1. TunnelsInv => StopsWaitForTold
  BY DEF TunnelsInv, TunnelInv, Started, Listed, Waited, StopsWaitForTold, TunnelTypeOK, Sessions
<1>2. TunnelsInv /\ [TunnelNext]_tunnelVars
      => [\A t \in Tunnels : Ahead(t)' # Ahead(t) /\ quit' # "exited"
            => Ahead(t)' < Ahead(t)]_tunnelVars
  <2> SUFFICES ASSUME TunnelsInv, TunnelNext, NEW u \in Tunnels, quit' # "exited",
                      Ahead(u)' # Ahead(u)
               PROVE  Ahead(u)' < Ahead(u)
    OBVIOUS
  <2> USE DEF TunnelsInv, TunnelInv, Started, Listed, Waited, Alive, TunnelTypeOK, Ahead
  <2>1. ASSUME NEW t \in Tunnels, StartTunnel(t) PROVE Ahead(u)' < Ahead(u)
    BY <2>1 DEF StartTunnel, Spawn
  <2>2. ASSUME NEW t \in Tunnels, AskpassStarted(t) PROVE Ahead(u)' < Ahead(u)
    BY <2>2 DEF AskpassStarted, Spawn
  <2>3. ASSUME NEW t \in Tunnels, WindowEnds(t) PROVE Ahead(u)' < Ahead(u)
    BY <2>3 DEF WindowEnds
  <2>4. ASSUME NEW t \in Tunnels, DiesInWindow(t) PROVE Ahead(u)' < Ahead(u)
    BY <2>4 DEF DiesInWindow, Dying, Freed
  <2>5. ASSUME NEW t \in Tunnels, DiesLater(t) PROVE Ahead(u)' < Ahead(u)
    BY <2>5 DEF DiesLater, Dying, Freed
  <2>6. ASSUME NEW t \in Tunnels, DiesAlone(t) PROVE Ahead(u)' < Ahead(u)
    BY <2>6 DEF DiesAlone
  <2>7. ASSUME NEW t \in Tunnels, StopTunnel(t) PROVE Ahead(u)' < Ahead(u)
    BY <2>7 DEF StopTunnel, StopThese, Terminated
  <2>8. ASSUME NEW t \in Tunnels, Escalate(t) PROVE Ahead(u)' < Ahead(u)
    BY <2>8 DEF Escalate
  <2>9. ASSUME NEW t \in Tunnels, GiveUp(t) PROVE Ahead(u)' < Ahead(u)
    BY <2>9 DEF GiveUp
  <2>10. ASSUME NEW t \in Tunnels, StopFinished(t) PROVE Ahead(u)' < Ahead(u)
    BY <2>10 DEF StopFinished
  <2>11. CASE Dispose
    BY <2>11 DEF Dispose, StopThese, Terminated
  <2>12. CASE Exit
    BY <2>12 DEF Exit
  <2> QED
    BY <2>1, <2>2, <2>3, <2>4, <2>5, <2>6, <2>7, <2>8, <2>9, <2>10, <2>11, <2>12 DEF TunnelNext
<1> QED
  BY <1>1, <1>2, TunnelInvHolds, PTL DEF TunnelSpec, StopsOnlyGetOn

=============================================================================
