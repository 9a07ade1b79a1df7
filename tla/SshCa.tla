-------------------------------- MODULE SshCa --------------------------------
(***************************************************************************)
(* The SSH certificate session: ca/SshCaService.ts over ca/operationQueue. *)
(* Sign-ins, renewals and logouts run one at a time in the order they were *)
(* asked for; a logout cancels what was asked for before it.  The app's    *)
(* agent may be locked, or be lost, at any moment.  Each await that        *)
(* another step can come between ends a step.                              *)
(***************************************************************************)
EXTENDS Integers, FiniteSets

CONSTANTS
  Cards,       \* the smartcards: each has a path of its own for a certificate
  Memory,      \* the other key source, a key made for one certificate
  MaxOps,      \* bound: operations asked for
  MaxTroubles, \* bound: locks, losses of the agent, failures of a clean-up
  NoSession    \* the null of activeSession

ASSUME MemoryIsNoCard == Memory \notin Cards
ASSUME BoundsAssumption == MaxOps \in Nat /\ MaxTroubles \in Nat
ASSUME NoSessionIsNoNumber == NoSession \notin Int

Ops == 1 .. MaxOps
Kinds == {"login", "renew", "silent", "logout"}
Sources == Cards \cup {Memory}
Phases == {"idle", "signIn", "refresh", "sign", "install", "taken", "evict", "replace",
           "logout", "leaving", "left"}

(* A certificate is a number; no two of them are the same. *)
None == 0
Sessions == [cert : Nat \ {None}, source : Sources, refresh : BOOLEAN, born : Nat]

ASSUME NoSessionIsNoSession == NoSession \notin Sessions

VARIABLES
  kind, born, \* of each operation: what it is, and the epoch it was asked in
  asked,      \* operations asked for so far
  ended,      \* those that have ended; the next one runs, or may start
  epoch,      \* OperationQueue.epoch, bumped by each logout
  aborted,    \* the signal of the running operation
  phase,      \* what the running operation waits for
  refreshed,  \* it got its tokens from a refresh
  renewable,  \* its tokens can be refreshed
  fresh,      \* the session it is about to install
  overrun     \* the agent was locked since its add was asked for

opVars == <<kind, born, asked, ended, epoch, aborted, phase, refreshed, renewable, fresh, overrun>>

VARIABLES
  session,    \* activeSession
  timer,      \* renewalTimer is set
  agent,      \* the certificates in the app's agent
  files,      \* the certificate at each card's path
  wiping,     \* a lock whose ssh-add -D has not run yet
  certs,      \* certificates issued so far
  troubles    \* locks, losses and failures so far

(* What the properties need to know of the past. *)
VARIABLES
  settled,    \* the epoch of the last logout that was carried out
  gone,       \* certificates that expired, or went with a lock or the agent
  leaked,     \* those that could not be removed, or whose add was not confirmed
  leakedFiles \* cards whose certificate file could not be removed

worldVars == <<timer, agent, files, wiping, certs, troubles>>
historyVars == <<settled, gone, leaked, leakedFiles>>
vars == <<opVars, session, worldVars, historyVars>>

TypeOK ==
  /\ kind \in [Ops -> Kinds] /\ born \in [Ops -> Nat]
  /\ asked \in 0 .. MaxOps /\ ended \in 0 .. asked
  /\ epoch \in Nat /\ settled \in Nat
  /\ aborted \in BOOLEAN /\ refreshed \in BOOLEAN
  /\ renewable \in BOOLEAN /\ overrun \in BOOLEAN
  /\ phase \in Phases
  /\ fresh \in Sessions \cup {NoSession}
  /\ session \in Sessions \cup {NoSession}
  /\ timer \in BOOLEAN /\ wiping \in BOOLEAN
  /\ agent \in SUBSET Nat
  /\ files \in [Cards -> Nat]
  /\ certs \in Nat
  /\ troubles \in 0 .. MaxTroubles
  /\ gone \in SUBSET Nat /\ leaked \in SUBSET Nat
  /\ leakedFiles \in SUBSET Cards

Init ==
  /\ kind = [n \in Ops |-> "login"] /\ born = [n \in Ops |-> 0]
  /\ asked = 0 /\ ended = 0 /\ epoch = 0 /\ settled = 0
  /\ aborted = FALSE /\ refreshed = FALSE /\ renewable = FALSE /\ overrun = FALSE
  /\ phase = "idle" /\ fresh = NoSession /\ session = NoSession
  /\ timer = FALSE /\ wiping = FALSE
  /\ agent = {} /\ files = [c \in Cards |-> None]
  /\ certs = 0 /\ troubles = 0
  /\ gone = {} /\ leaked = {} /\ leakedFiles = {}

-----------------------------------------------------------------------------
(* OperationQueue. *)

op == ended + 1   \* the operation that runs, or is next

(* run() *)
Enqueue(k, e) ==
  /\ asked < MaxOps
  /\ asked' = asked + 1
  /\ kind' = [kind EXCEPT ![asked + 1] = k]
  /\ born' = [born EXCEPT ![asked + 1] = e]

(* The user signs in or renews. *)
Ask ==
  /\ \E k \in {"login", "renew"} : Enqueue(k, epoch)
  /\ UNCHANGED <<ended, epoch, aborted, phase, refreshed, renewable, fresh, overrun, session,
                 worldVars, historyVars>>

\* A mutant: the logout is queued first, and cancels itself.
LogoutCancelsItself ==
  /\ Enqueue("logout", epoch)
  /\ epoch' = epoch + 1
  /\ aborted' = (phase # "idle")
  /\ timer' = FALSE
  /\ UNCHANGED <<ended, phase, refreshed, renewable, fresh, overrun, session, agent, files,
                 wiping, certs, troubles, historyVars>>

(* logout(): cancelAll and clearTimers at once, the rest when its turn comes. *)
AskLogout ==
  /\ Enqueue("logout", epoch + 1)
  /\ epoch' = epoch + 1
  /\ aborted' = (phase # "idle")
  /\ timer' = FALSE
  /\ UNCHANGED <<ended, phase, refreshed, renewable, fresh, overrun, session, agent, files,
                 wiping, certs, troubles, historyVars>>

(* The renewal timer fires. *)
RenewalDue ==
  /\ timer
  /\ timer' = FALSE
  /\ Enqueue("silent", epoch)
  /\ UNCHANGED <<ended, epoch, aborted, phase, refreshed, renewable, fresh, overrun, session,
                 agent, files, wiping, certs, troubles, historyVars>>

(* The running operation resolves or rejects. *)
End ==
  /\ ended' = op
  /\ phase' = "idle"
  /\ aborted' = FALSE /\ refreshed' = FALSE /\ renewable' = FALSE /\ overrun' = FALSE
  /\ fresh' = NoSession

Go(p) == phase' = p

(* Where a renewal, or a failed refresh, goes on to. *)
Interactive == kind[op] \in {"login", "renew"}

(* performRenew and performLogin up to their first await. *)
FirstPhase ==
  IF kind[op] = "logout" THEN "logout"
  ELSE IF kind[op] = "login" THEN "signIn"
  ELSE IF session = NoSession THEN "none"
  ELSE IF session.refresh THEN "refresh"
  ELSE IF Interactive THEN "signIn" ELSE "none"

AtTurn == phase = "idle" /\ ended < asked

\* A mutant: a logout that is carried out leaves the timers to logout().
StartKeepsTimer ==
  /\ AtTurn /\ born[op] = epoch /\ FirstPhase # "none"
  /\ Go(FirstPhase)
  /\ UNCHANGED <<kind, born, asked, ended, epoch, aborted, refreshed, renewable, fresh, overrun,
                 session, timer, agent, files, wiping, certs, troubles, historyVars>>

Start ==
  /\ AtTurn /\ born[op] = epoch /\ FirstPhase # "none"
  /\ Go(FirstPhase)
  /\ timer' = (timer /\ kind[op] # "logout")
  /\ UNCHANGED <<kind, born, asked, ended, epoch, aborted, refreshed, renewable, fresh, overrun,
                 session, agent, files, wiping, certs, troubles, historyVars>>

(* Asked for before the last logout, or nothing to renew. *)
Dropped ==
  /\ AtTurn /\ (born[op] # epoch \/ FirstPhase = "none")
  /\ End
  /\ UNCHANGED <<kind, born, asked, epoch, session, worldVars, historyVars>>

-----------------------------------------------------------------------------
(* Signing in. *)

(* The answers of the identity provider: an aborted request gets none. *)
SignedIn ==
  /\ phase = "signIn" /\ ~ aborted
  /\ Go("sign")
  /\ renewable' \in BOOLEAN
  /\ refreshed' = FALSE
  /\ UNCHANGED <<kind, born, asked, ended, epoch, aborted, fresh, overrun, session,
                 worldVars, historyVars>>

Refreshed ==
  /\ phase = "refresh" /\ ~ aborted
  /\ Go("sign")
  /\ renewable' = TRUE
  /\ refreshed' = TRUE
  /\ UNCHANGED <<kind, born, asked, ended, epoch, aborted, fresh, overrun, session,
                 worldVars, historyVars>>

(* Any step fails.  Only a refresh that nobody cancelled is followed by an  *)
(* interactive sign-in, and only if the user is there for it.              *)
Failed ==
  IF (phase = "refresh" \/ refreshed) /\ ~ aborted /\ Interactive
  THEN /\ Go("signIn")
       /\ refreshed' = FALSE /\ renewable' = FALSE /\ overrun' = FALSE /\ fresh' = NoSession
       /\ UNCHANGED <<ended, aborted>>
  ELSE End

\* A mutant: the waits of a cancelled operation do not end.
FailUncancelled ==
  /\ phase \in {"signIn", "refresh", "sign"} /\ ~ aborted
  /\ Failed
  /\ UNCHANGED <<kind, born, asked, epoch, session, worldVars, historyVars>>

Fail ==
  /\ phase \in {"signIn", "refresh", "sign"}
  /\ Failed
  /\ UNCHANGED <<kind, born, asked, epoch, session, worldVars, historyVars>>

(* The key sources of the operation's configuration: the session's for a    *)
(* renewal, whatever card is in the reader then.                           *)
SourcesOf ==
  IF kind[op] = "login" THEN Sources
  ELSE IF session.source = Memory THEN {Memory} ELSE Cards

\* A mutant: the signal is not looked at once the certificate is there.
SignedUnchecked ==
  /\ phase = "sign"
  /\ Go("install")
  /\ certs' = certs + 1
  /\ \E s \in SourcesOf :
       fresh' = [cert |-> certs + 1, source |-> s, refresh |-> renewable, born |-> born[op]]
  /\ overrun' = FALSE
  /\ UNCHANGED <<kind, born, asked, ended, epoch, aborted, refreshed, renewable, session, timer,
                 agent, files, wiping, troubles, historyVars>>

\* A mutant: the session is evicted before its replacement is in place.
SignedEvicts ==
  /\ phase = "sign" /\ ~ aborted
  /\ Go("install")
  /\ certs' = certs + 1
  /\ \E s \in SourcesOf :
       fresh' = [cert |-> certs + 1, source |-> s, refresh |-> renewable, born |-> born[op]]
  /\ overrun' = FALSE
  /\ agent' = IF session = NoSession THEN agent ELSE agent \ {session.cert}
  /\ UNCHANGED <<kind, born, asked, ended, epoch, aborted, refreshed, renewable, session, timer,
                 files, wiping, troubles, historyVars>>

(* The authority signs; this is the last look at the signal. *)
Signed ==
  /\ phase = "sign" /\ ~ aborted
  /\ Go("install")
  /\ certs' = certs + 1
  /\ \E s \in SourcesOf :
       fresh' = [cert |-> certs + 1, source |-> s, refresh |-> renewable, born |-> born[op]]
  /\ overrun' = FALSE
  /\ UNCHANGED <<kind, born, asked, ended, epoch, aborted, refreshed, renewable, session, timer,
                 agent, files, wiping, troubles, historyVars>>

-----------------------------------------------------------------------------
(* Installing the certificate. *)

Trouble == troubles < MaxTroubles /\ troubles' = troubles + 1

(* Written beside and renamed. *)
FileInPlace ==
  /\ phase = "install" /\ fresh.source # Memory
  /\ files' = [files EXCEPT ![fresh.source] = fresh.cert]
  /\ leakedFiles' = leakedFiles \ {fresh.source}
  /\ Go("evict")
  /\ UNCHANGED <<kind, born, asked, ended, epoch, aborted, refreshed, renewable, fresh, overrun,
                 session, timer, agent, wiping, certs, troubles, settled, gone, leaked>>

AgentTakes ==
  /\ phase = "install" /\ fresh.source = Memory
  /\ agent' = agent \cup {fresh.cert}
  /\ Go("taken")
  /\ UNCHANGED <<kind, born, asked, ended, epoch, aborted, refreshed, renewable, fresh, overrun,
                 session, timer, files, wiping, certs, troubles, historyVars>>

(* The write or the add fails before it changed anything. *)
InstallFails ==
  /\ phase = "install"
  /\ Failed
  /\ UNCHANGED <<kind, born, asked, epoch, session, worldVars, historyVars>>

Loaded ==
  /\ phase = "taken" /\ ~ overrun
  /\ Go("evict")
  /\ UNCHANGED <<kind, born, asked, ended, epoch, aborted, refreshed, renewable, fresh, overrun,
                 session, worldVars, historyVars>>

(* The agent took it, but its answer did not come. *)
Unconfirmed ==
  /\ phase = "taken" /\ ~ overrun
  /\ fresh.cert \in agent => Trouble
  /\ fresh.cert \notin agent => UNCHANGED troubles
  /\ leaked' = leaked \cup (agent \cap {fresh.cert})
  /\ Failed
  /\ UNCHANGED <<kind, born, asked, epoch, session, timer, agent, files, wiping, certs,
                 settled, gone, leakedFiles>>

(* AppAgent.runAdd: locked since, so everything is wiped again. *)
Overrun ==
  /\ phase = "taken" /\ overrun
  /\ agent' = {}
  /\ gone' = gone \cup agent
  /\ leaked' = leaked \ agent
  /\ Failed
  /\ UNCHANGED <<kind, born, asked, epoch, session, timer, files, wiping, certs, troubles,
                 settled, leakedFiles>>

(* Removing a file, and a certificate from the agent: a failure is ignored. *)
Unlink(c) ==
  \/ /\ files' = [files EXCEPT ![c] = None]
     /\ leakedFiles' = leakedFiles \ {c}
     /\ UNCHANGED troubles
  \/ /\ Trouble
     /\ leakedFiles' = leakedFiles \cup {c}
     /\ UNCHANGED files

RemoveIdentity(cert) ==
  \/ /\ agent' = agent \ {cert}
     /\ UNCHANGED <<leaked, troubles>>
  \/ /\ cert \in agent /\ Trouble
     /\ leaked' = leaked \cup {cert}
     /\ UNCHANGED agent

(* evictReplacedSession, awaited before activeSession is replaced.  A card   *)
(* has a file, if another than the new one; a key of memory is removed when *)
(* the agent gets to it.                                                    *)
EvictNobody ==
  /\ session = NoSession
  /\ UNCHANGED <<agent, files, leaked, leakedFiles, troubles>>
EvictKey ==
  /\ session # NoSession /\ session.source = Memory
  /\ RemoveIdentity(session.cert)
  /\ UNCHANGED <<files, leakedFiles>>
EvictFile ==
  /\ session # NoSession /\ session.source # Memory
  /\ IF session.source = fresh.source THEN UNCHANGED <<files, leakedFiles, troubles>>
     ELSE Unlink(session.source)
  /\ UNCHANGED <<agent, leaked>>

\* A mutant: the session that is replaced keeps its certificate.
EvictsNothing ==
  /\ phase = "evict"
  /\ Go("replace")
  /\ UNCHANGED <<kind, born, asked, ended, epoch, aborted, refreshed, renewable, fresh, overrun,
                 session, timer, agent, files, wiping, certs, troubles, historyVars>>

(* The certificate of the session goes; the session is still the active one. *)
Evicted ==
  /\ phase = "evict"
  /\ EvictNobody \/ EvictKey \/ EvictFile
  /\ Go("replace")
  /\ UNCHANGED <<kind, born, asked, ended, epoch, aborted, refreshed, renewable, fresh, overrun,
                 session, timer, wiping, certs, settled, gone>>

(* The new session takes its place.  A renewal is scheduled unless the      *)
(* certificate is too short for one.                                       *)
Installed ==
  /\ phase = "replace"
  /\ session' = fresh
  /\ timer' \in {FALSE, fresh.refresh}
  /\ End
  /\ UNCHANGED <<kind, born, asked, epoch, agent, files, wiping, certs, troubles, historyVars>>

-----------------------------------------------------------------------------
(* performLogout *)

LogoutUnlinks ==
  /\ phase = "logout"
  /\ Go("leaving")
  /\ IF session # NoSession /\ session.source # Memory THEN Unlink(session.source)
     ELSE UNCHANGED <<files, leakedFiles, troubles>>
  /\ UNCHANGED <<kind, born, asked, ended, epoch, aborted, refreshed, renewable, fresh, overrun,
                 session, timer, agent, wiping, certs, settled, gone, leaked>>

LogoutRemoves ==
  /\ phase = "leaving"
  /\ Go("left")
  /\ IF session # NoSession THEN RemoveIdentity(session.cert)
     ELSE UNCHANGED <<agent, leaked, troubles>>
  /\ UNCHANGED <<kind, born, asked, ended, epoch, aborted, refreshed, renewable, fresh, overrun,
                 session, timer, files, wiping, certs, settled, gone, leakedFiles>>

LoggedOut ==
  /\ phase = "left"
  /\ session' = NoSession
  /\ settled' = born[op]
  /\ End
  /\ UNCHANGED <<kind, born, asked, epoch, worldVars, gone, leaked, leakedFiles>>

-----------------------------------------------------------------------------
(* The rest of the world. *)

(* AppAgent.lockAll: cancels the adds that were asked for, then wipes. *)
Lock ==
  /\ ~ wiping /\ Trouble
  /\ wiping' = TRUE
  /\ overrun' = (phase \in {"install", "taken"})
  /\ UNCHANGED <<kind, born, asked, ended, epoch, aborted, phase, refreshed, renewable, fresh,
                 session, timer, agent, files, certs, historyVars>>

Emptied ==
  /\ agent' = {}
  /\ gone' = gone \cup agent
  /\ leaked' = leaked \ agent

Wipe ==
  /\ wiping
  /\ wiping' = FALSE
  /\ Emptied
  /\ UNCHANGED <<opVars, session, timer, files, certs, troubles, settled, leakedFiles>>

(* The agent dies, or is replaced after it answered too late. *)
AgentLost ==
  /\ agent # {} /\ Trouble
  /\ Emptied
  /\ UNCHANGED <<opVars, session, timer, files, wiping, certs, settled, leakedFiles>>

(* The agent drops a certificate when its lifetime ends. *)
Expire ==
  /\ session # NoSession /\ session.cert \notin gone
  /\ gone' = gone \cup {session.cert}
  /\ agent' = agent \ {session.cert}
  /\ UNCHANGED <<opVars, session, timer, files, wiping, certs, troubles, settled, leaked,
                 leakedFiles>>

OpStep ==
  \/ Start \/ Dropped
  \/ SignedIn \/ Refreshed \/ Fail \/ Signed
  \/ FileInPlace \/ AgentTakes \/ InstallFails \/ Loaded \/ Unconfirmed \/ Overrun
  \/ Evicted \/ Installed
  \/ LogoutUnlinks \/ LogoutRemoves \/ LoggedOut

World ==
  \/ Ask \/ AskLogout \/ RenewalDue
  \/ Lock \/ Wipe \/ AgentLost \/ Expire

Next == OpStep \/ World

Spec == Init /\ [][Next]_vars

(* Every wait of an operation ends: requests and the browser sign-in have   *)
(* timeouts or are aborted, and prompts are answered or time out.          *)
FairSpec == Spec /\ WF_vars(OpStep)

-----------------------------------------------------------------------------
(* Safety. *)

(* Nothing is left in the agent or on disk but the session's certificate    *)
(* and the one being installed, unless a removal failed or the agent never *)
(* confirmed an add.                                                       *)
NothingLeft ==
  /\ \A c \in agent \ leaked :
       \/ session # NoSession /\ session.cert = c
       \/ phase \in {"taken", "evict", "replace"} /\ fresh.cert = c
  /\ \A c \in Cards \ leakedFiles : files[c] # None =>
       \/ session # NoSession /\ session.source = c
       \/ phase \in {"evict", "replace"} /\ fresh.source = c

(* A certificate is in the agent, or at its card's path.  The agent may be   *)
(* locked or lost, and the lifetime may end, without the service knowing.  *)
Usable(s) ==
  IF s.source = Memory THEN s.cert \in agent \cup gone ELSE files[s.source] # None

(* What getActiveCertificateFilePath and the agent hand out for the active   *)
(* session can be used, whatever renewals or sign-ins fail meanwhile.  It   *)
(* is taken away in two windows only, while the session is still the active *)
(* one: by the install that replaces it, once the certificate of the new    *)
(* session is in its place, and by a logout that is being carried out.      *)
SessionIsLoaded ==
  session # NoSession =>
    \/ Usable(session)
    \/ phase = "replace" /\ Usable(fresh)
    \/ phase = "leaving" /\ session.source # Memory
    \/ phase = "left"

(* No renewal is scheduled for a session that is over.                      *)
TimerHasSession == timer => session # NoSession /\ session.refresh

(* Once a logout was asked for, what was asked for before it installs       *)
(* nothing, unless it had begun to.                                        *)
LogoutCancels ==
  [][phase = "sign" /\ phase' = "install" => born[op] = epoch]_vars

(* The queue serves every operation, whatever failed, was cancelled or was  *)
(* dropped before it.                                                      *)
OperationsEnd == \A n \in Ops : asked >= n ~> ended >= n

(* The session a user sees behaves as CaSession promises. *)
Abstract == INSTANCE CaSession WITH
  epoch <- epoch, settled <- settled,
  holder <- IF session = NoSession THEN NoSession ELSE session.born
RefinesSession == Abstract!Spec
=============================================================================
