------------------------------ MODULE AppAgent ------------------------------
(***************************************************************************)
(* The app-wide ssh-agent (ssh/AppAgent.ts) that holds the keys of every   *)
(* unlocked card: starting and restarting it, the queue of loads, and the  *)
(* lock.  The module states the agent's own state and steps; each step     *)
(* that ends a call is composed in SmartcardCoordinator with what the      *)
(* caller does next.  Unix only: on Windows the agent is a system service. *)
(*                                                                         *)
(* A key in the agent is represented by the epoch in which its load was    *)
(* asked for (lockEpoch), so that a key that outlives a lock can be told.  *)
(***************************************************************************)
EXTENDS Naturals, FiniteSets, Sequences

CONSTANTS
  Cards,        \* the PKCS#11 modules, and the FIDO2 security key
  SecurityKeys, \* the cards that are security keys: their PIN is kept
  Key,          \* the key behind each card; two modules may reach one card
  MaxLocks,     \* bound: the times the user locks
  Mortal        \* whether the agent may die, or be too slow for a probe

ASSUME CardsAssumption == IsFiniteSet(Cards) /\ SecurityKeys \subseteq Cards
ASSUME KeyAssumption == Key = [c \in Cards |-> Key[c]]
ASSUME MaxLocksAssumption == MaxLocks \in Nat
ASSUME MortalAssumption == Mortal \in BOOLEAN

Keys == {Key[c] : c \in Cards}
Epochs == 0 .. MaxLocks
None == MaxLocks + 1        \* no key, no PIN
Always == MaxLocks + 1      \* asked[c] of a call a lock does not cancel
Forgotten == [k \in Keys |-> None]

VARIABLES
  socket,    \* socketPath is set
  alive,     \* the agent process runs and answers
  keys,      \* what the process holds: an epoch for each key, or None
  pin,       \* fido2Pin: the epoch of the load it was entered for, or None
  epoch,     \* lockEpoch
  wipes,     \* locks whose ssh-add -D has not run yet
  ensuring,  \* what the shared ensure() is doing, "no" when there is none
  waits,     \* the cards whose load awaits ensure()
  queue,     \* addQueue: the calls of runAdd that have not ended
  asked,     \* the epoch in which each card's call of runAdd was made
  add        \* how far each card's call of runAdd is

agentVars ==
  <<socket, alive, keys, pin, epoch, wipes, ensuring, waits, queue, asked, add>>

AgentTypeOK ==
  /\ socket \in BOOLEAN /\ alive \in BOOLEAN
  /\ keys \in [Keys -> Epochs \cup {None}]
  /\ pin \in Epochs \cup {None}
  /\ epoch \in Epochs
  /\ wipes \in SUBSET Epochs
  /\ ensuring \in {"no", "probe", "discard", "spawn"}
  /\ waits \in SUBSET Cards
  /\ queue \in Seq(Cards)
  /\ asked \in [Cards -> Epochs \cup {Always}]
  /\ add \in [Cards -> {"idle", "queued", "ensuring", "running", "wiping"}]

AgentInit ==
  /\ socket = FALSE /\ alive = FALSE
  /\ keys = Forgotten
  /\ pin = None
  /\ epoch = 0
  /\ wipes = {}
  /\ ensuring = "no"
  /\ waits = {}
  /\ queue = <<>>
  /\ asked = [c \in Cards |-> 0]
  /\ add = [c \in Cards |-> "idle"]

-----------------------------------------------------------------------------
(* ensure(): one start of the agent for all its callers. *)

Ensure(c) ==
  /\ waits' = waits \cup {c}
  /\ ensuring' = IF ensuring # "no" THEN ensuring
                 ELSE IF socket THEN "probe" ELSE "spawn"

(* The callers resume; one of them may be the running call of runAdd. *)
Resume ==
  /\ ensuring' = "no"
  /\ waits' = {}
  /\ add' = [c \in Cards |->
               IF c \in waits /\ add[c] = "ensuring" THEN "running" ELSE add[c]]

ProbeAnswers ==
  /\ ensuring = "probe" /\ alive
  /\ Resume
  /\ UNCHANGED <<socket, alive, keys, pin, epoch, wipes, queue, asked>>

(* discardDeadAgent clears its fields first, and kills the process (which  *)
(* may only have been slow) once its askpass server has stopped.           *)
ProbeFails ==
  /\ ensuring = "probe" /\ (Mortal \/ ~alive)
  /\ ensuring' = "discard"
  /\ socket' = FALSE
  /\ pin' = None
  /\ UNCHANGED <<alive, keys, epoch, wipes, waits, queue, asked, add>>

Discarded ==
  /\ ensuring = "discard"
  /\ ensuring' = "spawn"
  /\ alive' = FALSE
  /\ keys' = Forgotten
  /\ UNCHANGED <<socket, pin, epoch, wipes, waits, queue, asked, add>>

Spawned ==
  /\ ensuring = "spawn"
  /\ socket' = TRUE
  /\ alive' = TRUE
  /\ Resume
  /\ UNCHANGED <<keys, pin, epoch, wipes, queue, asked>>

(* ensure() rejects for all its callers; a call of runAdd among them ends. *)
SpawnFails ==
  /\ ensuring = "spawn"
  /\ ensuring' = "no"
  /\ waits' = {}
  /\ queue' = IF queue # <<>> /\ add[Head(queue)] = "ensuring"
              THEN Tail(queue) ELSE queue
  /\ add' = [c \in Cards |-> IF add[c] = "ensuring" THEN "idle" ELSE add[c]]
  /\ UNCHANGED <<socket, alive, keys, pin, epoch, wipes, asked>>

AgentDies ==
  /\ Mortal /\ alive
  /\ alive' = FALSE
  /\ keys' = Forgotten
  /\ UNCHANGED <<socket, pin, epoch, wipes, ensuring, waits, queue, asked, add>>

-----------------------------------------------------------------------------
(* runAdd(): one load at a time; a lock cancels those asked for before it. *)

RunAdd(c, guarded) ==
  /\ queue' = Append(queue, c)
  /\ asked' = [asked EXCEPT ![c] = IF guarded THEN epoch ELSE Always]
  /\ add' = [add EXCEPT ![c] = "queued"]

LockedOut(c) == asked[c] \notin {epoch, Always}

Leave(c) ==
  /\ queue' = Tail(queue)
  /\ add' = [add EXCEPT ![c] = "idle"]

AtTurn(c) == add[c] = "queued" /\ queue # <<>> /\ Head(queue) = c

Turn(c) ==
  /\ AtTurn(c) /\ ~LockedOut(c)
  /\ add' = [add EXCEPT ![c] = "ensuring"]
  /\ Ensure(c)
  /\ UNCHANGED <<socket, alive, keys, pin, epoch, wipes, queue, asked>>

\* Mutant: a refused call stays at the head of the queue.
TurnRefusedKeepsTurn(c) ==
  /\ AtTurn(c) /\ LockedOut(c)
  /\ add' = [add EXCEPT ![c] = "idle"]
  /\ UNCHANGED <<socket, alive, keys, pin, epoch, wipes, ensuring, waits, queue,
                 asked>>

TurnRefused(c) ==
  /\ AtTurn(c) /\ LockedOut(c)
  /\ Leave(c)
  /\ UNCHANGED <<socket, alive, keys, pin, epoch, wipes, ensuring, waits, asked>>

(* ssh-add hands the key to whichever agent serves the socket. *)
KeyEnters(c) ==
  /\ add[c] = "running" /\ asked[c] # Always /\ alive
  /\ keys' = [keys EXCEPT ![Key[c]] = asked[c]]
  /\ UNCHANGED <<socket, alive, pin, epoch, wipes, ensuring, waits, queue, asked,
                 add>>

\* Mutant: the epoch is not looked at again after the add.
AddEndsUnchecked(c, ok) ==
  /\ add[c] = "running"
  /\ ok /\ asked[c] # Always => keys[Key[c]] # None
  /\ Leave(c)
  /\ pin' = IF ok /\ c \in SecurityKeys THEN asked[c] ELSE pin
  /\ UNCHANGED <<socket, alive, keys, epoch, wipes, asked>>

(* The add succeeded (the agent was seen to hold the key) or failed.  The  *)
(* PIN is kept only for a load that no lock cancelled.                     *)
AddEnds(c, ok) ==
  /\ add[c] = "running" /\ ~LockedOut(c)
  /\ ok /\ asked[c] # Always => keys[Key[c]] # None
  /\ Leave(c)
  /\ pin' = IF ok /\ c \in SecurityKeys THEN asked[c] ELSE pin
  /\ UNCHANGED <<socket, alive, keys, epoch, wipes, asked>>

(* The user locked while the add ran: what it added must go too. *)
AddOverrun(c) ==
  /\ add[c] = "running" /\ LockedOut(c)
  /\ add' = [add EXCEPT ![c] = "wiping"]
  /\ UNCHANGED <<socket, alive, keys, pin, epoch, wipes, ensuring, waits, queue,
                 asked>>

AddForgotten(c) ==
  /\ add[c] = "wiping"
  /\ keys' = Forgotten
  /\ Leave(c)
  /\ UNCHANGED <<socket, alive, pin, epoch, wipes, ensuring, waits, asked>>

-----------------------------------------------------------------------------
(* lockAll(): the wipe is an ssh-add -D beside the queue, not in it. *)

\* Mutant: the PIN is forgotten only when there is an agent to wipe.
LockKeepsPin ==
  /\ epoch < MaxLocks
  /\ epoch' = epoch + 1
  /\ pin' = IF socket THEN None ELSE pin
  /\ wipes' = IF socket THEN wipes \cup {epoch + 1} ELSE wipes
  /\ UNCHANGED <<socket, alive, keys, ensuring, waits, queue, asked, add>>

Lock ==
  /\ epoch < MaxLocks
  /\ epoch' = epoch + 1
  /\ pin' = None
  /\ wipes' = IF socket THEN wipes \cup {epoch + 1} ELSE wipes
  /\ UNCHANGED <<socket, alive, keys, ensuring, waits, queue, asked, add>>

Wipe(i) ==
  /\ i \in wipes
  /\ wipes' = wipes \ {i}
  /\ keys' = Forgotten
  /\ UNCHANGED <<socket, alive, pin, epoch, ensuring, waits, queue, asked, add>>

(* delegatePrompt drops a PIN asked for again right after it was replayed. *)
PinRefused ==
  /\ pin # None
  /\ pin' = None
  /\ UNCHANGED <<socket, alive, keys, epoch, wipes, ensuring, waits, queue, asked,
                 add>>

-----------------------------------------------------------------------------
(* A key whose load was asked for before a lock is on its way out: the     *)
(* lock's wipe is still to run, the load that brought it is to be undone,  *)
(* or the agent is being discarded.  No key of an earlier unlock is left   *)
(* behind by any interleaving of loads, locks and restarts.                *)
LockedKeysGo ==
  \A k \in Keys : keys[k] \notin {epoch, None} =>
    \/ \E i \in wipes : i > keys[k]
    \/ \E c \in Cards : add[c] \in {"running", "wiping"} /\ LockedOut(c)
    \/ ensuring = "discard"

(* The PIN kept for later signatures is one entered since the last lock.   *)
PinGoesWithLock == pin # None => pin = epoch
=============================================================================
