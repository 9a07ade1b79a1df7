----------------------------- MODULE SshCaProofs -----------------------------
(***************************************************************************)
(* Proofs about SshCa, for any number of cards, operations and troubles.   *)
(***************************************************************************)
EXTENDS SshCa, TLAPS

-----------------------------------------------------------------------------
(* The inductive invariant. *)

InPlace == phase \in {"evict", "replace"}
Installing == phase \in {"install", "taken", "evict", "replace"}
LoggingOut == phase \in {"logout", "leaving", "left"}

(* An operation that runs was asked for, and what it installs is its own.  *)
Running ==
  /\ phase # "idle" => ended < asked
  /\ Installing => fresh # NoSession /\ fresh.born = born[op]
  /\ phase = "taken" => fresh.source = Memory
  /\ LoggingOut => kind[op] = "logout" /\ ~ timer

TypeInv == TypeOK /\ Running

(* A logout comes after what was asked for before it, and those that are    *)
(* still to come are after the one that was carried out.                   *)
Ordered ==
  /\ \A n \in 1 .. asked : born[n] <= epoch
  /\ \A n \in 1 .. asked : \A m \in 1 .. (n - 1) :
       born[m] <= born[n] /\ (kind[n] = "logout" => born[m] < born[n])
  /\ \A n \in (ended + 1) .. asked :
       settled <= born[n] /\ (kind[n] = "logout" => settled < born[n])
  /\ settled <= epoch
  /\ phase # "idle" /\ ~ aborted => born[op] = epoch
  /\ session # NoSession => settled <= session.born /\ session.born <= epoch

(* Where the certificates are.  Those of a card are never in the agent.    *)
Placed ==
  /\ session # NoSession => session.cert <= certs
  /\ Installing => fresh.cert <= certs
  /\ Installing /\ session # NoSession => session.cert # fresh.cert
  /\ \A c \in Cards : InPlace /\ fresh.source = c => files[c] # None
  /\ (phase = "taken" \/ InPlace) /\ fresh.source = Memory => fresh.cert \in agent \cup gone
  /\ phase = "install" => fresh.cert \notin agent
  /\ InPlace /\ fresh.source # Memory => fresh.cert \notin agent
  /\ session # NoSession /\ session.source # Memory => session.cert \notin agent
  /\ \A c \in agent : c <= certs

(* What a session that is about to end leaves: nothing it could remove.    *)
Cleared ==
  /\ phase \in {"leaving", "left"} /\ session # NoSession /\ session.source # Memory
       => files[session.source] = None \/ session.source \in leakedFiles
  /\ phase = "replace" /\ session # NoSession /\ session.source # Memory
       => \/ session.source = fresh.source
          \/ files[session.source] = None \/ session.source \in leakedFiles
  /\ phase \in {"left", "replace"} /\ session # NoSession
       => session.cert \notin agent \ leaked

Certs == Placed /\ Cleared /\ NothingLeft /\ SessionIsLoaded /\ TimerHasSession

IInv == TypeInv /\ Ordered /\ Certs

-----------------------------------------------------------------------------
(* Type correctness. *)

LEMMA InitTyped == Init => TypeInv
<1> SUFFICES ASSUME Init PROVE TypeInv OBVIOUS
<1>1. kind \in [Ops -> Kinds] /\ born \in [Ops -> Nat] /\ files \in [Cards -> Nat]
  BY DEF Init, Kinds, None
<1>2. asked \in 0 .. MaxOps /\ ended \in 0 .. asked /\ troubles \in 0 .. MaxTroubles
  BY BoundsAssumption DEF Init
<1>3. TypeOK BY <1>1, <1>2 DEF Init, TypeOK, Phases
<1>4. Running BY DEF Init, Running, Installing, LoggingOut
<1> QED BY <1>3, <1>4 DEF TypeInv

(* What is known of the session and of the one to come. *)
LEMMA SessionTyped ==
  ASSUME TypeOK
  PROVE  /\ session # NoSession =>
              /\ session \in Sessions /\ session.cert \in Nat \ {None}
              /\ session.source \in Cards \cup {Memory}
              /\ session.refresh \in BOOLEAN /\ session.born \in Nat
         /\ fresh # NoSession =>
              /\ fresh \in Sessions /\ fresh.cert \in Nat \ {None}
              /\ fresh.source \in Cards \cup {Memory}
              /\ fresh.refresh \in BOOLEAN /\ fresh.born \in Nat
BY DEF TypeOK, Sessions, Sources

(* The operation that is next is one that was asked for. *)
LEMMA OpTyped ==
  ASSUME TypeOK, ended < asked
  PROVE  /\ op \in Ops /\ op \in 1 .. asked /\ born[op] \in Nat
         /\ op \in 0 .. asked /\ op = ended + 1
BY BoundsAssumption DEF TypeOK, op, Ops

(* What is asked for goes to the end of the queue. *)
LEMMA Enqueued ==
  ASSUME TypeInv, NEW k \in Kinds, NEW e \in Nat, Enqueue(k, e)
  PROVE  /\ asked' = asked + 1 /\ asked' \in 0 .. MaxOps /\ ended \in 0 .. asked'
         /\ kind' \in [Ops -> Kinds] /\ born' \in [Ops -> Nat]
         /\ \A n \in 1 .. asked : kind'[n] = kind[n] /\ born'[n] = born[n]
         /\ kind'[asked + 1] = k /\ born'[asked + 1] = e
BY BoundsAssumption DEF TypeInv, TypeOK, Enqueue, Ops

(* What removing a certificate or a file may do. *)
LEMMA Removing ==
  ASSUME TypeOK, NEW cert \in Nat, RemoveIdentity(cert)
  PROVE  /\ agent' \in SUBSET Nat /\ leaked' \in SUBSET Nat
         /\ troubles' \in 0 .. MaxTroubles
         /\ agent' \subseteq agent /\ leaked \subseteq leaked'
         /\ agent \ {cert} \subseteq agent'
         /\ cert \notin agent' \ leaked'
<1>1. CASE agent' = agent \ {cert} /\ UNCHANGED <<leaked, troubles>>
  BY <1>1 DEF TypeOK
<1>2. CASE /\ cert \in agent /\ Trouble
           /\ leaked' = leaked \cup {cert} /\ UNCHANGED agent
  <2>1. troubles' \in 0 .. MaxTroubles BY <1>2, BoundsAssumption DEF Trouble, TypeOK
  <2> QED BY <1>2, <2>1 DEF TypeOK
<1> QED BY <1>1, <1>2, Zenon DEF RemoveIdentity

LEMMA Unlinking ==
  ASSUME TypeOK, NEW c \in Cards, Unlink(c)
  PROVE  /\ files' \in [Cards -> Nat] /\ leakedFiles' \in SUBSET Cards
         /\ troubles' \in 0 .. MaxTroubles
         /\ \A d \in Cards \ {c} :
              files'[d] = files[d] /\ (d \in leakedFiles' <=> d \in leakedFiles)
         /\ files'[c] = None \/ c \in leakedFiles'
<1>1. CASE files' = [files EXCEPT ![c] = None] /\ leakedFiles' = leakedFiles \ {c}
           /\ UNCHANGED troubles
  BY <1>1 DEF TypeOK, None
<1>2. CASE Trouble /\ leakedFiles' = leakedFiles \cup {c} /\ UNCHANGED files
  <2>1. troubles' \in 0 .. MaxTroubles BY <1>2, BoundsAssumption DEF Trouble, TypeOK
  <2> QED BY <1>2, <2>1 DEF TypeOK
<1> QED BY <1>1, <1>2, Zenon DEF Unlink

(* A failure ends the operation or takes it back to a sign-in. *)
LEMMA Failing ==
  ASSUME TypeInv, Failed, phase # "idle"
  PROVE  /\ ended' \in 0 .. asked /\ aborted' \in BOOLEAN /\ refreshed' = FALSE
         /\ renewable' = FALSE /\ overrun' = FALSE /\ fresh' = NoSession
         /\ \/ phase' = "idle" /\ ended' = ended + 1 /\ aborted' = FALSE
            \/ /\ phase' = "signIn" /\ ended' = ended /\ aborted' = aborted /\ ~ aborted
               /\ kind[op] # "logout"
<1>1. ended < asked /\ op \in 0 .. asked /\ op = ended + 1
  BY OpTyped DEF TypeInv, Running
<1>2. ended \in 0 .. asked /\ aborted \in BOOLEAN BY DEF TypeInv, TypeOK
<1>3. CASE (phase = "refresh" \/ refreshed) /\ ~ aborted /\ Interactive
  BY <1>2, <1>3, Zenon DEF Failed, Go, Interactive
<1>4. CASE ~ ((phase = "refresh" \/ refreshed) /\ ~ aborted /\ Interactive)
  <2>1. End BY <1>4, Zenon DEF Failed
  <2> QED BY <1>1, <2>1 DEF End
<1> QED BY <1>3, <1>4

LEMMA StepTyped == TypeInv /\ [Next]_vars => TypeOK'
<1> SUFFICES ASSUME TypeInv, [Next]_vars PROVE TypeOK' OBVIOUS
<1> USE DEF TypeInv
<1>1. CASE Ask
  <2>1. PICK k \in {"login", "renew"} : Enqueue(k, epoch) BY <1>1 DEF Ask
  <2>2. k \in Kinds /\ epoch \in Nat BY DEF Kinds, TypeOK
  <2> QED BY <1>1, <2>1, <2>2, Enqueued DEF Ask, TypeOK, worldVars, historyVars
<1>2. CASE AskLogout
  <2>1. "logout" \in Kinds /\ epoch + 1 \in Nat BY DEF Kinds, TypeOK
  <2> QED BY <1>2, <2>1, Enqueued DEF AskLogout, TypeOK, historyVars
<1>3. CASE RenewalDue
  <2>1. "silent" \in Kinds /\ epoch \in Nat BY DEF Kinds, TypeOK
  <2> QED BY <1>3, <2>1, Enqueued DEF RenewalDue, TypeOK, historyVars
<1>4. CASE Start
  BY <1>4 DEF Start, TypeOK, Go, FirstPhase, Phases, historyVars
<1>5. CASE Dropped
  <2>1. ended' \in 0 .. asked BY <1>5, OpTyped DEF Dropped, AtTurn, End
  <2> QED BY <1>5, <2>1 DEF Dropped, End, TypeOK, Phases, worldVars, historyVars
<1>6. CASE SignedIn \/ Refreshed
  BY <1>6 DEF SignedIn, Refreshed, Go, TypeOK, Phases, worldVars, historyVars
<1>7. CASE Fail
  BY <1>7, Failing DEF Fail, TypeOK, Phases, worldVars, historyVars
<1>8. CASE Signed
  <2>1. PICK s \in SourcesOf :
          fresh' = [cert |-> certs + 1, source |-> s, refresh |-> renewable, born |-> born[op]]
    BY <1>8 DEF Signed
  <2>2. s \in Sources BY DEF SourcesOf, Sources
  <2>3. born[op] \in Nat BY <1>8, OpTyped DEF Signed, Running
  <2>4. fresh' \in Sessions BY <2>1, <2>2, <2>3 DEF Sessions, TypeOK, None
  <2>5. /\ phase' = "install" /\ certs' = certs + 1 /\ overrun' = FALSE
        /\ UNCHANGED <<kind, born, asked, ended, epoch, aborted, refreshed, renewable, session,
                       timer, agent, files, wiping, troubles, settled, gone, leaked, leakedFiles>>
    BY <1>8, Zenon DEF Signed, Go, historyVars
  <2>6. certs' \in Nat /\ phase' \in Phases BY <2>5 DEF TypeOK, Phases
  <2>7. overrun' \in BOOLEAN BY <2>5
  <2> QED BY <2>4, <2>5, <2>6, <2>7 DEF TypeOK
<1>9. CASE FileInPlace
  BY <1>9, SessionTyped DEF FileInPlace, Go, TypeOK, Phases, Running, Installing
<1>10. CASE AgentTakes
  BY <1>10, SessionTyped DEF AgentTakes, Go, TypeOK, Phases, Running, Installing, historyVars
<1>11. CASE InstallFails
  BY <1>11, Failing DEF InstallFails, TypeOK, Phases, worldVars, historyVars
<1>12. CASE Loaded
  BY <1>12 DEF Loaded, Go, TypeOK, Phases, worldVars, historyVars
<1>13. CASE Unconfirmed
  <2>1. phase # "idle" /\ Failed BY <1>13 DEF Unconfirmed
  <2>2. leaked' \in SUBSET Nat BY <1>13 DEF Unconfirmed, TypeOK
  <2>3. troubles' \in 0 .. MaxTroubles
    BY <1>13, BoundsAssumption DEF Unconfirmed, Trouble, TypeOK
  <2> QED BY <1>13, <2>1, <2>2, <2>3, Failing DEF Unconfirmed, TypeOK, Phases
<1>14. CASE Overrun
  BY <1>14, Failing DEF Overrun, TypeOK, Phases
<1>15. CASE Evicted
  <2>1. agent' \in SUBSET Nat /\ leaked' \in SUBSET Nat /\ files' \in [Cards -> Nat]
        /\ leakedFiles' \in SUBSET Cards /\ troubles' \in 0 .. MaxTroubles
    <3>1. CASE EvictNobody BY <3>1 DEF EvictNobody, TypeOK
    <3>2. CASE EvictKey BY <3>2, SessionTyped, Removing DEF EvictKey, TypeOK
    <3>3. CASE EvictFile BY <3>3, SessionTyped, Unlinking DEF EvictFile, TypeOK
    <3> QED BY <1>15, <3>1, <3>2, <3>3 DEF Evicted
  <2> QED BY <1>15, <2>1 DEF Evicted, Go, TypeOK, Phases
<1>16. CASE Installed
  <2>1. fresh # NoSession /\ ended < asked BY <1>16 DEF Installed, Running, Installing
  <2>2. timer' \in BOOLEAN BY <1>16, <2>1, SessionTyped DEF Installed
  <2>3. ended' \in 0 .. asked BY <1>16, <2>1, OpTyped DEF Installed, End
  <2> QED BY <1>16, <2>2, <2>3 DEF Installed, End, TypeOK, Phases, historyVars
<1>17. CASE LogoutUnlinks
  BY <1>17, SessionTyped, Unlinking DEF LogoutUnlinks, Go, TypeOK, Phases
<1>18. CASE LogoutRemoves
  <2>1. agent' \in SUBSET Nat /\ leaked' \in SUBSET Nat /\ troubles' \in 0 .. MaxTroubles
    BY <1>18, SessionTyped, Removing DEF LogoutRemoves, TypeOK
  <2> QED BY <1>18, <2>1 DEF LogoutRemoves, Go, TypeOK, Phases
<1>19. CASE LoggedOut
  <2>1. ended < asked BY <1>19 DEF LoggedOut, Running
  <2>2. settled' \in Nat BY <1>19, <2>1, OpTyped DEF LoggedOut, TypeOK
  <2>3. ended' \in 0 .. asked BY <1>19, <2>1, OpTyped DEF LoggedOut, End
  <2> QED BY <1>19, <2>2, <2>3 DEF LoggedOut, End, TypeOK, Phases, worldVars
<1>20. CASE Lock
  BY <1>20, BoundsAssumption DEF Lock, Trouble, TypeOK, historyVars
<1>21. CASE Wipe
  BY <1>21 DEF Wipe, Emptied, TypeOK, opVars
<1>22. CASE AgentLost
  BY <1>22, BoundsAssumption DEF AgentLost, Emptied, Trouble, TypeOK, opVars
<1>23. CASE Expire
  BY <1>23, SessionTyped DEF Expire, TypeOK, opVars
<1>24. CASE UNCHANGED vars
  BY <1>24 DEF vars, opVars, worldVars, historyVars, TypeOK
<1> QED BY <1>1, <1>2, <1>3, <1>4, <1>5, <1>6, <1>7, <1>8, <1>9, <1>10, <1>11, <1>12, <1>13,
           <1>14, <1>15, <1>16, <1>17, <1>18, <1>19, <1>20, <1>21, <1>22, <1>23, <1>24
        DEF Next, OpStep, World

(* What each step does to the queue. *)
LEMMA StepRunning == TypeInv /\ [Next]_vars => Running'
<1> SUFFICES ASSUME TypeInv, [Next]_vars PROVE Running' OBVIOUS
<1> USE DEF TypeInv
<1>0. TypeOK /\ Running /\ phase \in Phases BY DEF TypeOK
<1>1. CASE Ask \/ AskLogout \/ RenewalDue
  <2>1. \E k \in Kinds, e \in Nat : Enqueue(k, e)
    BY <1>1 DEF Ask, AskLogout, RenewalDue, Kinds, TypeOK
  <2>2. asked' = asked + 1 /\ \A n \in 1 .. asked : kind'[n] = kind[n] /\ born'[n] = born[n]
    BY <2>1, Enqueued
  <2>3. ended' = ended /\ phase' = phase /\ fresh' = fresh /\ (timer' => timer)
    BY <1>1 DEF Ask, AskLogout, RenewalDue, worldVars
  <2>4. phase # "idle" => op \in 1 .. asked /\ op' = op
    BY <2>3, OpTyped DEF Running, op
  <2> QED BY <1>0, <2>2, <2>3, <2>4 DEF Running, Installing, LoggingOut, TypeOK
<1>2. CASE Start
  <2>1. (FirstPhase = "logout" => kind[op] = "logout") /\ FirstPhase \notin {"leaving", "left"}
        /\ FirstPhase \notin {"install", "taken", "evict", "replace"}
    BY DEF FirstPhase
  <2> QED BY <1>2, <2>1 DEF Start, AtTurn, Go, Running, Installing, LoggingOut, op, TypeOK
<1>3. CASE Fail \/ InstallFails \/ Unconfirmed \/ Overrun
  <2>1. phase # "idle" /\ Failed /\ UNCHANGED <<kind, born, asked, timer>>
    BY <1>3 DEF Fail, InstallFails, Unconfirmed, Overrun, worldVars
  <2>0. phase # "idle" /\ Failed BY <2>1
  <2>2. phase' = "idle" \/ (phase' = "signIn" /\ ended' = ended) BY <2>0, Failing
  <2> QED BY <1>0, <2>0, <2>1, <2>2 DEF Running, Installing, LoggingOut
<1>4. CASE Dropped \/ Installed \/ LoggedOut
  <2>1. phase' = "idle" BY <1>4 DEF Dropped, Installed, LoggedOut, End
  <2> QED BY <2>1 DEF Running, Installing, LoggingOut
<1>5. CASE SignedIn \/ Refreshed
  <2>1. phase' = "sign" /\ ended < asked /\ UNCHANGED <<ended, asked>>
    BY <1>5 DEF SignedIn, Refreshed, Go, Running
  <2> QED BY <2>1 DEF Running, Installing, LoggingOut
<1>6. CASE Signed
  <2>1. /\ phase' = "install" /\ ended < asked /\ UNCHANGED <<ended, asked, born, kind>>
        /\ \E s \in SourcesOf :
             fresh' = [cert |-> certs + 1, source |-> s, refresh |-> renewable, born |-> born[op]]
    BY <1>6 DEF Signed, Go, Running
  <2>2. fresh'.born = born[op] /\ op' = op BY <2>1 DEF op
  <2>3. fresh' # NoSession
    <3>1. PICK s \in SourcesOf :
            fresh' = [cert |-> certs + 1, source |-> s, refresh |-> renewable, born |-> born[op]]
      BY <2>1
    <3>2. s \in Sources BY DEF SourcesOf, Sources
    <3>3. fresh' \in Sessions
      BY <2>1, <3>1, <3>2, OpTyped DEF Sessions, TypeOK, None
    <3> QED BY <3>3, NoSessionIsNoSession
  <2> QED BY <2>1, <2>2, <2>3 DEF Running, Installing, LoggingOut
<1>7. CASE FileInPlace \/ AgentTakes \/ Loaded \/ Evicted
  <2>1. /\ Installing /\ phase' \in {"taken", "evict", "replace"}
        /\ UNCHANGED <<kind, born, asked, ended, fresh>>
        /\ phase' = "taken" => fresh.source = Memory
    BY <1>7 DEF FileInPlace, AgentTakes, Loaded, Evicted, Go, Installing
  <2> QED BY <2>1 DEF Running, Installing, LoggingOut, op
<1>8. CASE LogoutUnlinks \/ LogoutRemoves
  BY <1>8 DEF LogoutUnlinks, LogoutRemoves, Go, Running, Installing, LoggingOut, op
<1>9. CASE Lock \/ Wipe \/ AgentLost \/ Expire \/ UNCHANGED vars
  <2>1. UNCHANGED <<kind, born, asked, ended, phase, fresh, timer>>
    BY <1>9 DEF Lock, Wipe, AgentLost, Expire, opVars, vars, worldVars
  <2> QED BY <1>0, <2>1 DEF Running, Installing, LoggingOut, op
<1> QED BY <1>1, <1>2, <1>3, <1>4, <1>5, <1>6, <1>7, <1>8, <1>9 DEF Next, OpStep, World

LEMMA NextTyped == TypeInv /\ [Next]_vars => TypeInv'
BY StepTyped, StepRunning DEF TypeInv

(* Every variable keeps its type. *)
THEOREM TypeCorrect == Spec => []TypeOK
<1>1. TypeInv => TypeOK BY DEF TypeInv
<1> QED BY <1>1, InitTyped, NextTyped, PTL DEF Spec

-----------------------------------------------------------------------------
(* The order of the queue, and the logouts. *)

(* Something is asked for: it comes last, and a logout opens an epoch.      *)
LEMMA AskOrdered ==
  ASSUME TypeInv, Ordered, Ask \/ AskLogout \/ RenewalDue
  PROVE  Ordered'
<1> USE DEF TypeInv
<1>1. PICK k \in Kinds, e \in Nat :
        Enqueue(k, e) /\ e = epoch' /\ epoch <= e /\ (k = "logout" => epoch < e)
  BY DEF Ask, AskLogout, RenewalDue, Kinds, TypeOK, worldVars
<1>2. /\ asked' = asked + 1 /\ kind'[asked + 1] = k /\ born'[asked + 1] = e
      /\ \A n \in 1 .. asked : kind'[n] = kind[n] /\ born'[n] = born[n]
  BY <1>1, Enqueued
<1>3. ended' = ended /\ settled' = settled /\ session' = session /\ phase' = phase
  BY DEF Ask, AskLogout, RenewalDue, worldVars, historyVars
<1>4. asked \in Nat /\ ended \in 0 .. asked /\ epoch \in Nat /\ settled \in Nat
  BY BoundsAssumption DEF TypeOK
<1>5. \A n \in 1 .. asked : born[n] \in Nat BY BoundsAssumption DEF TypeOK, Ops
<1>6. \A n \in 1 .. asked' : born'[n] <= epoch'
  BY <1>1, <1>2, <1>4, <1>5 DEF Ordered
<1>7. \A n \in 1 .. asked' : \A m \in 1 .. (n - 1) :
        born'[m] <= born'[n] /\ (kind'[n] = "logout" => born'[m] < born'[n])
  <2> SUFFICES ASSUME NEW n \in 1 .. asked', NEW m \in 1 .. (n - 1)
               PROVE  born'[m] <= born'[n] /\ (kind'[n] = "logout" => born'[m] < born'[n])
    OBVIOUS
  <2>1. m \in 1 .. asked BY <1>2, <1>4
  <2>2. CASE n \in 1 .. asked BY <1>2, <2>1, <2>2 DEF Ordered
  <2>3. CASE n = asked + 1
    <3>1. born[m] <= epoch /\ born[m] \in Nat BY <1>5, <2>1 DEF Ordered
    <3> QED BY <1>1, <1>2, <1>4, <2>1, <2>3, <3>1
  <2> QED BY <1>2, <1>4, <2>2, <2>3
<1>8. \A n \in (ended' + 1) .. asked' :
        settled' <= born'[n] /\ (kind'[n] = "logout" => settled' < born'[n])
  <2> SUFFICES ASSUME NEW n \in (ended + 1) .. (asked + 1)
               PROVE  settled <= born'[n] /\ (kind'[n] = "logout" => settled < born'[n])
    BY <1>2, <1>3
  <2>1. CASE n \in (ended + 1) .. asked
    <3>1. n \in 1 .. asked BY <1>4, <2>1
    <3> QED BY <1>2, <2>1, <3>1 DEF Ordered
  <2>2. CASE n = asked + 1
    <3>1. settled <= epoch BY DEF Ordered
    <3> QED BY <1>1, <1>2, <1>4, <2>2, <3>1
  <2> QED BY <1>4, <2>1, <2>2
<1>9. settled' <= epoch' /\ epoch <= epoch' BY <1>1, <1>3, <1>4 DEF Ordered
<1>10. phase' # "idle" /\ ~ aborted' => born'[ended' + 1] = epoch'
  <2> SUFFICES ASSUME phase # "idle", ~ aborted' PROVE born'[ended + 1] = epoch'
    BY <1>3
  <2>1. Ask \/ RenewalDue BY DEF AskLogout
  <2>2. ~ aborted /\ epoch' = epoch BY <2>1 DEF Ask, RenewalDue
  <2>3. ended + 1 \in 1 .. asked BY <1>4 DEF Running
  <2> QED BY <1>2, <2>2, <2>3 DEF Ordered, op
<1>11. session' # NoSession => settled' <= session'.born /\ session'.born <= epoch'
  <2> SUFFICES ASSUME session # NoSession
               PROVE  settled <= session.born /\ session.born <= epoch'
    BY <1>3
  <2>1. session.born \in Nat /\ epoch' \in Nat BY <1>1, SessionTyped
  <2>2. settled <= session.born /\ session.born <= epoch BY DEF Ordered
  <2> QED BY <1>4, <1>9, <2>1, <2>2
<1> QED BY <1>6, <1>7, <1>8, <1>9, <1>10, <1>11 DEF Ordered, op

(* The queue moves on without carrying out a logout. *)
LEMMA MoveOrdered ==
  ASSUME TypeInv, Ordered, UNCHANGED <<kind, born, asked, epoch, settled>>,
         ended' = ended \/ ended' = ended + 1,
         phase' # "idle" /\ ~ aborted' => ended' = ended /\ born[op] = epoch,
         session' = session \/ (session' # NoSession /\ session'.born = born[op] /\ ended < asked)
  PROVE  Ordered'
<1> USE DEF TypeInv
<1>1. ended \in Nat /\ asked \in Nat /\ epoch \in Nat /\ settled \in Nat BY BoundsAssumption DEF TypeOK
<1>2. \A n \in (ended' + 1) .. asked : n \in (ended + 1) .. asked BY <1>1
<1>3. session' # session => settled <= born[op] /\ born[op] <= epoch
  <2> SUFFICES ASSUME ended < asked PROVE settled <= born[op] /\ born[op] <= epoch OBVIOUS
  <2>1. op \in (ended + 1) .. asked /\ op \in 1 .. asked BY <1>1 DEF op
  <2> QED BY <2>1 DEF Ordered
<1>4. session' # NoSession => settled <= session'.born /\ session'.born <= epoch
  BY <1>3 DEF Ordered
<1>5. phase' # "idle" /\ ~ aborted' => born'[op'] = epoch' BY DEF op
<1> QED BY <1>2, <1>4, <1>5 DEF Ordered

LEMMA LogoutOrdered == ASSUME TypeInv, Ordered, LoggedOut PROVE Ordered'
<1> USE DEF TypeInv
<1>1. ended \in Nat /\ asked \in Nat /\ epoch \in Nat /\ ended < asked
  BY BoundsAssumption DEF TypeOK, Running, LoggedOut
<1>2. /\ UNCHANGED <<kind, born, asked, epoch>> /\ ended' = ended + 1 /\ settled' = born[ended + 1]
      /\ phase' = "idle" /\ session' = NoSession
  BY DEF LoggedOut, End, op
<1>3. \A n \in (ended + 2) .. asked :
        born[ended + 1] <= born[n] /\ (kind[n] = "logout" => born[ended + 1] < born[n])
  <2> TAKE n \in (ended + 2) .. asked
  <2>1. n \in 1 .. asked /\ ended + 1 \in 1 .. (n - 1) BY <1>1
  <2> QED BY <2>1 DEF Ordered
<1>4. born[ended + 1] <= epoch
  <2>1. ended + 1 \in 1 .. asked BY <1>1
  <2> QED BY <2>1 DEF Ordered
<1>5. \A n \in (ended' + 1) .. asked' : n \in (ended + 2) .. asked BY <1>1, <1>2
<1> QED BY <1>2, <1>3, <1>4, <1>5 DEF Ordered

LEMMA NextOrdered == TypeInv /\ Ordered /\ [Next]_vars => Ordered'
<1> SUFFICES ASSUME TypeInv, Ordered, [Next]_vars PROVE Ordered' OBVIOUS
<1> USE DEF TypeInv
<1>1. CASE Ask \/ AskLogout \/ RenewalDue BY <1>1, AskOrdered
<1>2. CASE LoggedOut BY <1>2, LogoutOrdered
<1>3. CASE Start
  <2>1. born[op] = epoch /\ UNCHANGED <<kind, born, asked, ended, epoch, settled, session>>
    BY <1>3 DEF Start, historyVars
  <2> QED BY <2>1, MoveOrdered
<1>4. CASE Dropped \/ Installed
  <2>1. phase' = "idle" /\ ended' = ended + 1 /\ UNCHANGED <<kind, born, asked, epoch, settled>>
    BY <1>4 DEF Dropped, Installed, End, op, historyVars
  <2>2. session' = session \/ (session' # NoSession /\ session'.born = born[op] /\ ended < asked)
    BY <1>4 DEF Dropped, Installed, Running, Installing
  <2> QED BY <2>1, <2>2, MoveOrdered
<1>5. CASE Fail \/ InstallFails \/ Unconfirmed \/ Overrun
  <2>1. /\ phase # "idle" /\ Failed /\ UNCHANGED <<kind, born, asked, epoch, settled, session>>
    BY <1>5 DEF Fail, InstallFails, Unconfirmed, Overrun, historyVars
  <2>2. \/ phase' = "idle" /\ ended' = ended + 1
        \/ phase' = "signIn" /\ ended' = ended /\ ~ aborted
    BY <2>1, Failing, Zenon
  <2>3. ~ aborted => born[op] = epoch BY <2>1 DEF Ordered
  <2> QED BY <2>1, <2>2, <2>3, MoveOrdered
<1>6. CASE \/ SignedIn \/ Refreshed \/ Signed \/ FileInPlace \/ AgentTakes \/ Loaded
           \/ Evicted \/ LogoutUnlinks \/ LogoutRemoves \/ Lock \/ Wipe \/ AgentLost \/ Expire \/ UNCHANGED vars
  <2>1. /\ UNCHANGED <<kind, born, asked, ended, epoch, settled, session, aborted>>
        /\ phase' # "idle" => phase # "idle"
    BY <1>6 DEF SignedIn, Refreshed, Signed, FileInPlace, AgentTakes, Loaded, Evicted,
       LogoutUnlinks, LogoutRemoves, Lock, Wipe, AgentLost, Expire, Go, vars, opVars, worldVars, historyVars
  <2>2. phase' # "idle" /\ ~ aborted' => born[op] = epoch BY <2>1 DEF Ordered
  <2> QED BY <2>1, <2>2, MoveOrdered
<1> QED BY <1>1, <1>2, <1>3, <1>4, <1>5, <1>6 DEF Next, OpStep, World

-----------------------------------------------------------------------------
(* Where the certificates are. *)

(* An operation that goes back to its sign-in, or ends, installs nothing.   *)
LEMMA FailingPlaced ==
  ASSUME IInv, Fail \/ InstallFails \/ Unconfirmed \/ Overrun
  PROVE  Certs'
<1> USE DEF IInv, TypeInv, Certs
<1>1. phase # "idle" /\ Failed /\ UNCHANGED <<session, timer, files, certs, leakedFiles>>
  BY DEF Fail, InstallFails, Unconfirmed, Overrun, worldVars, historyVars
<1>2. phase' \in {"idle", "signIn"} BY <1>1, Failing, Zenon
<1>3. phase \notin {"evict", "replace", "leaving", "left"}
  BY DEF Fail, InstallFails, Unconfirmed, Overrun
<1>4. /\ agent' \subseteq agent
      /\ agent \cup gone \subseteq agent' \cup gone'
      /\ \A c \in agent' \ leaked' : c \in agent \ leaked /\ (phase = "taken" => c # fresh.cert)
  <2>1. CASE Fail \/ InstallFails BY <2>1 DEF Fail, InstallFails, worldVars, historyVars
  <2>2. CASE Unconfirmed BY <2>2 DEF Unconfirmed
  <2>3. CASE Overrun BY <2>3 DEF Overrun
  <2> QED BY <2>1, <2>2, <2>3
<1>5. Placed' BY <1>1, <1>2, <1>4 DEF Placed, Installing, InPlace
<1>6. Cleared' BY <1>2 DEF Cleared
<1>7. NothingLeft' BY <1>1, <1>2, <1>3, <1>4 DEF NothingLeft
<1>8. SessionIsLoaded' BY <1>1, <1>2, <1>3, <1>4 DEF SessionIsLoaded, Usable
<1>9. TimerHasSession' BY <1>1 DEF TimerHasSession
<1> QED BY <1>5, <1>6, <1>7, <1>8, <1>9

(* The certificate of the session goes, that of the new one stays. *)
LEMMA EvictedPlaced == ASSUME IInv, Evicted PROVE Certs'
<1> USE DEF IInv, TypeInv, Certs
<1>1. /\ phase = "evict" /\ phase' = "replace" /\ fresh # NoSession
      /\ UNCHANGED <<session, fresh, timer, certs, gone>>
  BY DEF Evicted, Go, Running, Installing
<1>2. fresh.cert \in Nat \ {None} /\ fresh.source \in Cards \cup {Memory} BY <1>1, SessionTyped
<1>3. session # NoSession => session.cert # fresh.cert /\ session.cert \in Nat
                             /\ session.source \in Cards \cup {Memory}
  BY <1>1, SessionTyped DEF Placed, Installing
<1>4. /\ agent' \subseteq agent
      /\ fresh.cert \in agent => fresh.cert \in agent'
      /\ \A c \in agent' \ leaked' : c \in agent \ leaked
      /\ session # NoSession => session.cert \notin agent' \ leaked'
  <2>1. CASE EvictNobody BY <2>1 DEF EvictNobody
  <2>2. CASE EvictKey
    <3>1. session # NoSession /\ RemoveIdentity(session.cert) BY <2>2 DEF EvictKey
    <3> QED BY <1>3, <3>1, Removing
  <2>3. CASE EvictFile BY <2>3 DEF EvictFile, Placed
  <2> QED BY <2>1, <2>2, <2>3 DEF Evicted
<1>5. /\ \A c \in Cards : c \notin leakedFiles' /\ files'[c] # None
                          => c \notin leakedFiles /\ files[c] # None
      /\ \A c \in Cards : c = fresh.source => files'[c] # None
      /\ session # NoSession /\ session.source # Memory /\ session.source # fresh.source
           => files'[session.source] = None \/ session.source \in leakedFiles'
  <2>0. \A c \in Cards : c = fresh.source => files[c] # None
    BY <1>1 DEF Placed, InPlace
  <2>1. CASE EvictNobody BY <2>0, <2>1 DEF EvictNobody
  <2>2. CASE EvictKey BY <2>0, <2>2 DEF EvictKey
  <2>3. CASE EvictFile /\ session.source = fresh.source BY <2>0, <2>3 DEF EvictFile
  <2>4. CASE EvictFile /\ session.source # fresh.source
    <3>1. session.source \in Cards /\ Unlink(session.source) BY <1>3, <2>4 DEF EvictFile
    <3> QED BY <2>0, <2>4, <3>1, Unlinking
  <2> QED BY <2>1, <2>2, <2>3, <2>4 DEF Evicted
<1>6. fresh.source = Memory => fresh.cert \in agent' \cup gone'
  BY <1>1, <1>4 DEF Placed, InPlace
<1>7. Placed' BY <1>1, <1>3, <1>4, <1>5, <1>6 DEF Placed, Installing, InPlace
<1>8. Cleared' BY <1>1, <1>4, <1>5 DEF Cleared
<1>9. NothingLeft' BY <1>1, <1>4, <1>5 DEF NothingLeft
<1>10. SessionIsLoaded' BY <1>1, <1>2, <1>5, <1>6 DEF SessionIsLoaded, Usable
<1>11. TimerHasSession' BY <1>1 DEF TimerHasSession
<1> QED BY <1>7, <1>8, <1>9, <1>10, <1>11

(* The new session takes the place of the one before it. *)
LEMMA InstalledPlaced == ASSUME IInv, Installed PROVE Certs'
<1> USE DEF IInv, TypeInv, Certs
<1>1. /\ phase = "replace" /\ phase' = "idle" /\ session' = fresh
      /\ UNCHANGED <<certs, gone, agent, files, leaked, leakedFiles>>
      /\ fresh # NoSession /\ timer' \in {FALSE, fresh.refresh}
  BY DEF Installed, End, Running, Installing, historyVars
<1>2. fresh.source \in Cards \cup {Memory} BY <1>1, SessionTyped
<1>3. fresh.source = Memory => fresh.cert \in agent \cup gone BY <1>1 DEF Placed, InPlace
<1>4. \A c \in Cards : c = fresh.source => files[c] # None BY <1>1 DEF Placed, InPlace
<1>5. Placed' BY <1>1 DEF Placed, Installing, InPlace
<1>6. Cleared' BY <1>1 DEF Cleared
<1>7. NothingLeft'
  <2>1. \A c \in agent \ leaked : fresh.cert = c BY <1>1 DEF NothingLeft, Cleared
  <2>2. \A c \in Cards \ leakedFiles : files[c] # None => fresh.source = c
    BY <1>1, MemoryIsNoCard DEF NothingLeft, Cleared
  <2> QED BY <1>1, <2>1, <2>2 DEF NothingLeft
<1>8. SessionIsLoaded' BY <1>1, <1>2, <1>3, <1>4 DEF SessionIsLoaded, Usable
<1>9. TimerHasSession' BY <1>1 DEF TimerHasSession
<1> QED BY <1>5, <1>6, <1>7, <1>8, <1>9

(* Steps that leave certificates where they are, or take them all away.     *)
LEMMA OtherPlaced ==
  ASSUME IInv, \/ Ask \/ AskLogout \/ RenewalDue \/ Start \/ Dropped \/ SignedIn \/ Refreshed
               \/ Loaded \/ Lock \/ Wipe \/ AgentLost \/ Expire \/ UNCHANGED vars
  PROVE  Certs'
<1> USE DEF IInv, TypeInv, Certs
<1>1. /\ UNCHANGED <<session, files, certs, leakedFiles>>
      /\ timer' => timer
      /\ agent' \subseteq agent /\ agent \cup gone \subseteq agent' \cup gone'
      /\ \A c \in agent' \ leaked' : c \in agent \ leaked
  <2>1. CASE \/ Ask \/ AskLogout \/ RenewalDue \/ Start \/ Dropped \/ SignedIn \/ Refreshed
             \/ Loaded \/ Lock \/ UNCHANGED vars
    <3>1. UNCHANGED <<session, files, certs, leakedFiles, agent, gone, leaked>>
      BY <2>1 DEF Ask, AskLogout, RenewalDue, Start, Dropped, SignedIn, Refreshed, Loaded, Lock,
         vars, worldVars, historyVars
    <3>2. CASE AskLogout \/ RenewalDue BY <3>1, <3>2 DEF AskLogout, RenewalDue
    <3>3. CASE Start BY <3>1, <3>3, Zenon DEF Start
    <3>4. CASE ~ (AskLogout \/ RenewalDue \/ Start)
      BY <2>1, <3>1, <3>4
         DEF Ask, Dropped, SignedIn, Refreshed, Loaded, Lock, vars, worldVars
    <3> QED BY <3>2, <3>3, <3>4
  <2>2. CASE Wipe \/ AgentLost BY <2>2 DEF Wipe, AgentLost, Emptied
  <2>3. CASE Expire BY <2>3 DEF Expire
  <2> QED BY <2>1, <2>2, <2>3
<1>2. \/ phase' = phase /\ fresh' = fresh
      \/ phase = "taken" /\ phase' = "evict" /\ fresh' = fresh
      \/ /\ ~ Installing /\ phase \notin {"leaving", "left"}
         /\ phase' \notin {"install", "taken", "evict", "replace", "leaving", "left"}
  BY DEF Ask, AskLogout, RenewalDue, Start, AtTurn, Dropped, SignedIn, Refreshed, Loaded, Lock,
     Wipe, AgentLost, Expire, End, Go, FirstPhase, vars, opVars, Installing
<1>3. phase = "taken" => fresh.source = Memory BY DEF Running
<1>4. Placed' BY <1>1, <1>2, <1>3, MemoryIsNoCard DEF Placed, Installing, InPlace
<1>5. Cleared' BY <1>1, <1>2 DEF Cleared
<1>6. NothingLeft' BY <1>1, <1>2, <1>3 DEF NothingLeft, Installing
<1>7. SessionIsLoaded' BY <1>1, <1>2 DEF SessionIsLoaded, Usable, Installing
<1>8. TimerHasSession' BY <1>1 DEF TimerHasSession
<1> QED BY <1>4, <1>5, <1>6, <1>7, <1>8

(* A certificate is issued, and put in place. *)
LEMMA SignedPlaced ==
  ASSUME IInv, Signed \/ FileInPlace \/ AgentTakes
  PROVE  Certs'
<1> USE DEF IInv, TypeInv, Certs
<1>0. UNCHANGED <<session, timer>> /\ TimerHasSession' /\ certs \in Nat
  BY DEF Signed, FileInPlace, AgentTakes, TimerHasSession, TypeOK
<1>1. CASE Signed
  <2>1. /\ phase = "sign" /\ phase' = "install" /\ certs' = certs + 1
        /\ UNCHANGED <<session, timer, agent, files, gone, leaked, leakedFiles>>
        /\ \E s \in SourcesOf :
             fresh' = [cert |-> certs + 1, source |-> s, refresh |-> renewable, born |-> born[op]]
    BY <1>1, Zenon DEF Signed, Go, historyVars
  <2>2. fresh'.cert = certs + 1 BY <2>1
  <2>3. session # NoSession => session.cert \in Nat /\ session.cert <= certs
    BY SessionTyped DEF Placed
  <2>4. \A c \in agent : c \in Nat /\ c <= certs BY DEF Placed, TypeOK
  <2>5. Placed' BY <1>0, <2>1, <2>2, <2>3, <2>4 DEF Placed, Installing, InPlace
  <2> QED BY <1>0, <2>1, <2>5 DEF NothingLeft, SessionIsLoaded, Usable, Cleared
<1>2. CASE FileInPlace
  <2>1. /\ phase = "install" /\ phase' = "evict" /\ fresh.source \in Cards
        /\ fresh.cert \in Nat \ {None}
        /\ files' = [files EXCEPT ![fresh.source] = fresh.cert]
        /\ leakedFiles' = leakedFiles \ {fresh.source}
        /\ UNCHANGED <<session, fresh, agent, gone, leaked, certs>>
    BY <1>2, SessionTyped DEF FileInPlace, Go, Running, Installing
  <2>2. \A c \in Cards : files'[c] = IF c = fresh.source THEN fresh.cert ELSE files[c]
    BY <2>1 DEF TypeOK
  <2>3. session # NoSession /\ session.source # Memory => session.source \in Cards
    BY SessionTyped
  <2>4. Placed' BY <2>1, <2>2, <2>3, MemoryIsNoCard DEF Placed, Installing, InPlace
  <2>5. NothingLeft' BY <2>1, <2>2 DEF NothingLeft
  <2>6. SessionIsLoaded' BY <2>1, <2>2, <2>3 DEF SessionIsLoaded, Usable
  <2> QED BY <1>0, <2>1, <2>4, <2>5, <2>6 DEF Cleared
<1>3. CASE AgentTakes
  <2>1. /\ phase = "install" /\ phase' = "taken" /\ fresh.source = Memory
        /\ agent' = agent \cup {fresh.cert}
        /\ UNCHANGED <<session, fresh, files, gone, leaked, leakedFiles, certs>>
    BY <1>3 DEF AgentTakes, Go, historyVars
  <2>2. Placed' BY <2>1 DEF Placed, Installing, InPlace
  <2>3. NothingLeft' BY <2>1 DEF NothingLeft
  <2>4. SessionIsLoaded' BY <2>1 DEF SessionIsLoaded, Usable
  <2> QED BY <1>0, <2>1, <2>2, <2>3, <2>4 DEF Cleared
<1> QED BY <1>1, <1>2, <1>3

LEMMA LogoutPlaced ==
  ASSUME IInv, LogoutUnlinks \/ LogoutRemoves \/ LoggedOut
  PROVE  Certs'
<1> USE DEF IInv, TypeInv, Certs
<1>0. session # NoSession => session.cert \in Nat /\ session.source \in Cards \cup {Memory}
  BY SessionTyped
<1>1. CASE LogoutUnlinks
  <2>1. /\ phase = "logout" /\ phase' = "leaving"
        /\ UNCHANGED <<session, timer, agent, gone, leaked, certs>>
    BY <1>1 DEF LogoutUnlinks, Go
  <2>2. \A c \in Cards :
          \/ files'[c] = files[c] /\ (c \in leakedFiles' <=> c \in leakedFiles)
          \/ files'[c] = None \/ c \in leakedFiles'
    BY <1>0, <1>1, Unlinking, Zenon DEF LogoutUnlinks
  <2>3. session # NoSession /\ session.source # Memory
          => files'[session.source] = None \/ session.source \in leakedFiles'
    BY <1>0, <1>1, Unlinking DEF LogoutUnlinks
  <2>4. Placed' BY <2>1 DEF Placed, Installing, InPlace
  <2>5. Cleared' BY <2>1, <2>3 DEF Cleared
  <2>6. NothingLeft' BY <2>1, <2>2 DEF NothingLeft
  <2> QED BY <2>1, <2>4, <2>5, <2>6 DEF SessionIsLoaded, Usable, TimerHasSession
<1>2. CASE LogoutRemoves
  <2>1. /\ phase = "leaving" /\ phase' = "left"
        /\ UNCHANGED <<session, timer, files, gone, certs, leakedFiles>>
    BY <1>2 DEF LogoutRemoves, Go
  <2>2. /\ agent' \subseteq agent /\ \A c \in agent' \ leaked' : c \in agent \ leaked
        /\ session # NoSession => session.cert \notin agent' \ leaked'
    <3>1. CASE session = NoSession BY <1>2, <3>1 DEF LogoutRemoves
    <3>2. CASE session # NoSession
      <4>1. RemoveIdentity(session.cert) BY <1>2, <3>2 DEF LogoutRemoves
      <4> QED BY <1>0, <3>2, <4>1, Removing
    <3> QED BY <3>1, <3>2
  <2>3. Placed' BY <2>1, <2>2 DEF Placed, Installing, InPlace
  <2>4. Cleared' BY <2>1, <2>2 DEF Cleared
  <2>5. NothingLeft' BY <2>1, <2>2 DEF NothingLeft
  <2> QED BY <2>1, <2>3, <2>4, <2>5 DEF SessionIsLoaded, TimerHasSession
<1>3. CASE LoggedOut
  <2>1. /\ phase = "left" /\ phase' = "idle" /\ session' = NoSession /\ ~ timer'
        /\ UNCHANGED <<agent, files, gone, certs, leaked, leakedFiles>>
    BY <1>3 DEF LoggedOut, End, Running, LoggingOut, worldVars
  <2>2. Placed' BY <2>1 DEF Placed, Installing, InPlace
  <2>3. NothingLeft' BY <2>1, MemoryIsNoCard DEF NothingLeft, Cleared
  <2> QED BY <2>1, <2>2, <2>3 DEF Cleared, SessionIsLoaded, TimerHasSession
<1> QED BY <1>1, <1>2, <1>3

LEMMA InitInvariant == Init => IInv
<1> SUFFICES ASSUME Init PROVE IInv OBVIOUS
<1>1. TypeInv BY InitTyped
<1>2. Ordered BY DEF Init, Ordered
<1>3. Placed /\ Cleared BY DEF Init, Placed, Cleared, Installing, InPlace
<1>4. NothingLeft /\ SessionIsLoaded /\ TimerHasSession
  BY DEF Init, NothingLeft, SessionIsLoaded, TimerHasSession
<1> QED BY <1>1, <1>2, <1>3, <1>4 DEF IInv, Certs

LEMMA NextInvariant == IInv /\ [Next]_vars => IInv'
<1> SUFFICES ASSUME IInv, [Next]_vars PROVE IInv' OBVIOUS
<1>1. TypeInv' /\ Ordered' BY NextTyped, NextOrdered DEF IInv
<1>2. Certs'
  BY FailingPlaced, EvictedPlaced, InstalledPlaced, OtherPlaced, SignedPlaced, LogoutPlaced
     DEF Next, OpStep, World
<1> QED BY <1>1, <1>2 DEF IInv

LEMMA SpecInvariant == Spec => []IInv
BY InitInvariant, NextInvariant, PTL DEF Spec

(* Nothing but the certificates in use is ever left behind. *)
THEOREM NothingIsLeft == Spec => []NothingLeft
<1>1. IInv => NothingLeft BY DEF IInv, Certs
<1> QED BY <1>1, SpecInvariant, PTL

(* A renewal or a sign-in leaves the session its certificate until that of  *)
(* its successor is in place, and takes nothing away if it fails.           *)
THEOREM SessionStaysLoaded == Spec => []SessionIsLoaded
<1>1. IInv => SessionIsLoaded BY DEF IInv, Certs
<1> QED BY <1>1, SpecInvariant, PTL

(* No renewal outlives the session it is for. *)
THEOREM TimersHaveSessions == Spec => []TimerHasSession
<1>1. IInv => TimerHasSession BY DEF IInv, Certs
<1> QED BY <1>1, SpecInvariant, PTL

-----------------------------------------------------------------------------
(* What a logout promises. *)

(* Nothing asked for before a logout goes on to install a certificate.      *)
THEOREM LogoutsCancel == Spec => LogoutCancels
<1>1. IInv /\ [Next]_vars => [phase = "sign" /\ phase' = "install" => born[op] = epoch]_vars
  <2> SUFFICES ASSUME IInv, Next, phase = "sign", phase' = "install" PROVE born[op] = epoch
    OBVIOUS
  <2>1. TypeInv BY DEF IInv
  <2>2. Signed
    <3>1. ~ Fail
      <4> SUFFICES ASSUME Fail PROVE FALSE OBVIOUS
      <4>1. Failed BY DEF Fail
      <4> QED BY <2>1, <4>1, Failing
    <3> QED BY <3>1 DEF Next, OpStep, World, Ask, AskLogout, RenewalDue, Start, AtTurn, Dropped,
       SignedIn, Refreshed, FileInPlace, AgentTakes, InstallFails, Loaded, Unconfirmed, Overrun,
       Evicted, Installed, LogoutUnlinks, LogoutRemoves, LoggedOut, Lock, Wipe, AgentLost, Expire, opVars
  <2> QED BY <2>2 DEF Signed, IInv, Ordered
<1> QED BY <1>1, SpecInvariant, PTL DEF Spec, LogoutCancels

(* Every step of the service is a step, or no step, of the session that     *)
(* CaSession describes.                                                    *)
LEMMA StepRefines == IInv /\ [Next]_vars => [Abstract!Next]_(Abstract!sessionVars)
<1> SUFFICES ASSUME IInv, [Next]_vars PROVE [Abstract!Next]_(Abstract!sessionVars) OBVIOUS
<1> USE DEF IInv, TypeInv
<1>1. CASE UNCHANGED <<epoch, settled, session>> BY <1>1 DEF Abstract!sessionVars
<1>2. CASE AskLogout
  BY <1>2 DEF AskLogout, Abstract!Next, Abstract!AskLogout, historyVars
<1>3. CASE Installed
  <2>1. session' = fresh /\ fresh # NoSession /\ fresh.born = born[op] /\ ended < asked
        /\ UNCHANGED <<epoch, settled>>
    BY <1>3 DEF Installed, Running, Installing, historyVars
  <2>2. settled <= born[op] /\ born[op] <= epoch
    <3>1. op \in (ended + 1) .. asked /\ op \in 1 .. asked
      BY <2>1, BoundsAssumption DEF op, TypeOK
    <3> QED BY <3>1 DEF Ordered
  <2>3. born[op] \in settled .. epoch BY <2>1, <2>2, OpTyped DEF TypeOK
  <2> QED BY <2>1, <2>3 DEF Abstract!Next, Abstract!SignIn
<1>4. CASE LoggedOut
  <2>1. session' = NoSession /\ settled' = born[op] /\ ended < asked /\ kind[op] = "logout"
        /\ UNCHANGED epoch
    BY <1>4 DEF LoggedOut, Running, LoggingOut, worldVars
  <2>2. settled < born[op] /\ born[op] <= epoch
    <3>1. op \in (ended + 1) .. asked /\ op \in 1 .. asked
      BY <2>1, BoundsAssumption DEF op, TypeOK
    <3> QED BY <2>1, <3>1 DEF Ordered
  <2>3. born[op] \in (settled + 1) .. epoch BY <2>1, <2>2, OpTyped DEF TypeOK
  <2> QED BY <2>1, <2>3 DEF Abstract!Next, Abstract!SignOut
<1>5. UNCHANGED <<epoch, settled, session>> \/ AskLogout \/ Installed \/ LoggedOut
  BY DEF Next, OpStep, World, Ask, RenewalDue, Start, Dropped, SignedIn, Refreshed, Fail, Signed,
     FileInPlace, AgentTakes, InstallFails, Loaded, Unconfirmed, Overrun, Evicted, LogoutUnlinks,
     LogoutRemoves, Lock, Wipe, AgentLost, Expire, vars, opVars, worldVars, historyVars
<1> QED BY <1>1, <1>2, <1>3, <1>4, <1>5

(* The safety part of RefinesSession; that every logout takes effect is     *)
(* left to the run.                                                        *)
THEOREM RefinesSessionSafety ==
  Spec => Abstract!Init /\ [][Abstract!Next]_(Abstract!sessionVars)
<1>1. Init => Abstract!Init BY DEF Init, Abstract!Init
<1> QED BY <1>1, StepRefines, SpecInvariant, PTL DEF Spec

-----------------------------------------------------------------------------
(* Operations end: the part of OperationsEnd that is not about fairness. *)

\* The steps an operation has before it at most.  A refresh leaves room for
\* one interactive sign-in, and for no more than one.
StepsLeft ==
  IF phase = "idle" THEN 11
  ELSE IF phase = "refresh" THEN 10
  ELSE (IF refreshed THEN 4 ELSE 0) +
       (IF phase = "signIn" THEN 6
        ELSE IF phase = "sign" THEN 5
        ELSE IF phase = "install" THEN 4
        ELSE IF phase \in {"taken", "logout"} THEN 3
        ELSE IF phase \in {"evict", "leaving"} THEN 2
        ELSE 1)

(* Every step of an operation ends it or brings its end nearer, whatever    *)
(* is asked for, cancelled, locked or lost meanwhile: none goes round for   *)
(* ever between a sign-in, a refresh and their failures.                   *)
OperationsGetOn ==
  [][IF ended' = ended THEN StepsLeft' <= StepsLeft /\ (OpStep => StepsLeft' < StepsLeft)
     ELSE ended' = ended + 1 /\ phase' = "idle"]_vars

GetsOn == ended' = ended /\ StepsLeft' < StepsLeft
Ends == ended' = ended + 1 /\ phase' = "idle"

LEMMA FailingGetsOn ==
  ASSUME TypeInv, Failed, phase \in {"signIn", "refresh", "sign", "install", "taken"}
  PROVE  GetsOn \/ Ends
<1>1. CASE (phase = "refresh" \/ refreshed) /\ ~ aborted /\ Interactive
  <2>1. phase' = "signIn" /\ refreshed' = FALSE /\ ended' = ended
    BY <1>1, Zenon DEF Failed, Go
  <2>2. StepsLeft' = 6 BY <2>1 DEF StepsLeft
  <2>3. StepsLeft > 6 BY <1>1 DEF StepsLeft
  <2>4. StepsLeft' < StepsLeft BY <2>2, <2>3
  <2> QED BY <2>1, <2>4 DEF GetsOn
<1>2. CASE ~ ((phase = "refresh" \/ refreshed) /\ ~ aborted /\ Interactive)
  <2>1. End BY <1>2, Zenon DEF Failed
  <2> QED BY <2>1 DEF End, op, Ends
<1> QED BY <1>1, <1>2

LEMMA OperationGetsOn == TypeInv /\ OpStep => GetsOn \/ Ends
<1> SUFFICES ASSUME TypeInv, OpStep PROVE GetsOn \/ Ends OBVIOUS
<1>1. CASE Start
  <2>1. /\ phase = "idle" /\ phase' \in {"refresh", "signIn", "logout"}
        /\ ended' = ended /\ refreshed' = refreshed /\ refreshed \in BOOLEAN
    BY <1>1 DEF Start, AtTurn, Go, FirstPhase, TypeInv, TypeOK
  <2> QED BY <2>1 DEF GetsOn, StepsLeft
<1>2. CASE Dropped \/ Installed \/ LoggedOut
  BY <1>2 DEF Dropped, Installed, LoggedOut, End, op, Ends
<1>3. CASE SignedIn
  <2>1. /\ phase = "signIn" /\ phase' = "sign" /\ ended' = ended /\ refreshed' = FALSE
        /\ refreshed \in BOOLEAN
    BY <1>3 DEF SignedIn, Go, TypeInv, TypeOK
  <2> QED BY <2>1 DEF GetsOn, StepsLeft
<1>4. CASE Refreshed
  <2>1. phase = "refresh" /\ phase' = "sign" /\ ended' = ended /\ refreshed' = TRUE
    BY <1>4 DEF Refreshed, Go
  <2> QED BY <2>1 DEF GetsOn, StepsLeft
<1>5. CASE Fail \/ InstallFails \/ Unconfirmed \/ Overrun
  BY <1>5, FailingGetsOn DEF Fail, InstallFails, Unconfirmed, Overrun
<1>6. CASE \/ Signed \/ FileInPlace \/ AgentTakes \/ Loaded \/ Evicted
           \/ LogoutUnlinks \/ LogoutRemoves
  <2>1. /\ <<phase, phase'>> \in {<<"sign", "install">>, <<"install", "evict">>,
             <<"install", "taken">>, <<"taken", "evict">>, <<"evict", "replace">>,
             <<"logout", "leaving">>, <<"leaving", "left">>}
        /\ ended' = ended /\ refreshed' = refreshed
    BY <1>6 DEF Signed, FileInPlace, AgentTakes, Loaded, Evicted, LogoutUnlinks, LogoutRemoves, Go
  <2>2. refreshed \in BOOLEAN BY DEF TypeInv, TypeOK
  <2> QED BY <2>1, <2>2 DEF GetsOn, StepsLeft
<1> QED BY <1>1, <1>2, <1>3, <1>4, <1>5, <1>6 DEF OpStep

(* An operation takes at most eleven steps, and asks the user to sign in    *)
(* again at most once, however its steps fail.                              *)
THEOREM NoOperationGoesRound == Spec => OperationsGetOn
<1>1. TypeInv /\ [Next]_vars
      => [IF ended' = ended THEN StepsLeft' <= StepsLeft /\ (OpStep => StepsLeft' < StepsLeft)
          ELSE ended' = ended + 1 /\ phase' = "idle"]_vars
  <2> SUFFICES ASSUME TypeInv, Next
               PROVE  IF ended' = ended
                      THEN StepsLeft' <= StepsLeft /\ (OpStep => StepsLeft' < StepsLeft)
                      ELSE ended' = ended + 1 /\ phase' = "idle"
    OBVIOUS
  <2>1. ended \in Nat /\ StepsLeft \in Nat /\ StepsLeft' \in Nat
    BY DEF TypeInv, TypeOK, StepsLeft
  <2>2. CASE OpStep
    <3>1. CASE GetsOn BY <2>1, <3>1 DEF GetsOn
    <3>2. CASE Ends BY <2>1, <3>2 DEF Ends
    <3> QED BY <2>2, <3>1, <3>2, OperationGetsOn
  <2>3. CASE World /\ ~ OpStep
    <3>1. UNCHANGED <<ended, phase, refreshed>>
      BY <2>3 DEF World, Ask, AskLogout, RenewalDue, Lock, Wipe, AgentLost, Expire, opVars
    <3>2. StepsLeft' = StepsLeft BY <3>1 DEF StepsLeft
    <3> QED BY <2>1, <2>3, <3>1, <3>2
  <2> QED BY <2>2, <2>3 DEF Next
<1>2. Spec => []TypeInv BY InitTyped, NextTyped, PTL DEF Spec
<1> QED BY <1>1, <1>2, PTL DEF Spec, OperationsGetOn
=============================================================================
