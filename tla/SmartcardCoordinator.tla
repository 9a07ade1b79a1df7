------------------------ MODULE SmartcardCoordinator ------------------------
(***************************************************************************)
(* Unlocking cards into the app agent (smartcard/SmartcardCoordinator.ts,  *)
(* mode 'agent-global'): a connection reuses a card that globalCards shows *)
(* as unlocked, and otherwise loads it, asking for the PIN.  Loads of      *)
(* different cards run beside each other and beside the user's locks; each *)
(* await is the end of a step.  At most one connection per card is         *)
(* followed: a second one waits for the load in flight.                    *)
(***************************************************************************)
EXTENDS AppAgent

VARIABLES
  cards,     \* globalCards: the cards shown as unlocked
  load,      \* how far the connection that needs each card is
  cooldown,  \* the cards whose load failed recently
  locks      \* locks that have not cleared cards and cooldown yet

coordinatorVars == <<cards, load, cooldown, locks>>
vars == <<agentVars, coordinatorVars>>

Stages == {"idle", "reuse", "insert", "list", "adopt", "confirm",
           "add", "check", "trim", "register"}

TypeOK ==
  /\ AgentTypeOK
  /\ cards \in SUBSET Cards
  /\ load \in [Cards -> Stages]
  /\ cooldown \in SUBSET Cards
  /\ locks \in SUBSET Epochs

Init ==
  /\ AgentInit
  /\ cards = {}
  /\ load = [c \in Cards |-> "idle"]
  /\ cooldown = {}
  /\ locks = {}

At(c, stage) == load[c] = stage /\ c \notin waits
Go(c, stage) == load' = [load EXCEPT ![c] = stage]

-----------------------------------------------------------------------------
(* A connection that needs the card. *)

Reuse(c) ==
  /\ At(c, "idle") /\ c \in cards
  /\ Ensure(c)
  /\ Go(c, "reuse")
  /\ UNCHANGED <<socket, alive, keys, pin, epoch, wipes, queue, asked, add,
                 cards, cooldown, locks>>

(* ensure() may have found the agent dead and dropped the cards. *)
Reused(c) ==
  /\ At(c, "reuse")
  /\ Go(c, IF c \in cards \cup cooldown THEN "idle" ELSE "insert")
  /\ UNCHANGED <<agentVars, cards, cooldown, locks>>

BeginLoad(c) ==
  /\ At(c, "idle") /\ c \notin cards \cup cooldown
  /\ Go(c, "insert")
  /\ UNCHANGED <<agentVars, cards, cooldown, locks>>

(* The user dismisses the "insert your token" prompt: no cooldown. *)
TokenDismissed(c) ==
  /\ At(c, "insert")
  /\ Go(c, "idle")
  /\ UNCHANGED <<agentVars, cards, cooldown, locks>>

(* A security key goes straight to the agent; of a module the certificates *)
(* are read and the agent is asked for what it holds already.              *)
TokenThere(c) ==
  /\ At(c, "insert")
  /\ \/ /\ c \in SecurityKeys
        /\ RunAdd(c, TRUE)
        /\ Go(c, "add")
        /\ UNCHANGED <<ensuring, waits>>
     \/ /\ c \notin SecurityKeys
        /\ Ensure(c)
        /\ Go(c, "list")
        /\ UNCHANGED <<queue, asked, add>>
  /\ UNCHANGED <<socket, alive, keys, pin, epoch, wipes, cards, cooldown, locks>>

NotLoaded(c) ==
  /\ At(c, "list") /\ keys[Key[c]] = None
  /\ RunAdd(c, TRUE)
  /\ Go(c, "add")
  /\ UNCHANGED <<socket, alive, keys, pin, epoch, wipes, ensuring, waits,
                 cards, cooldown, locks>>

(* Another module of the same card has loaded the key. *)
AlreadyLoaded(c) ==
  /\ At(c, "list") /\ keys[Key[c]] # None
  /\ Go(c, "adopt")
  /\ UNCHANGED <<agentVars, cards, cooldown, locks>>

Adopt(c) ==
  /\ At(c, "adopt")
  /\ cards' = cards \cup {c}
  /\ Ensure(c)
  /\ Go(c, "confirm")
  /\ UNCHANGED <<socket, alive, keys, pin, epoch, wipes, queue, asked, add,
                 cooldown, locks>>

Adopted(c) ==
  /\ At(c, "confirm")
  /\ Go(c, "idle")
  /\ cooldown' = cooldown \ {c}
  /\ UNCHANGED <<agentVars, cards, locks>>

-----------------------------------------------------------------------------
(* The load in the agent's queue and what follows it. *)

TakeTurn(c) == Turn(c) /\ UNCHANGED coordinatorVars
KeyArrives(c) == KeyEnters(c) /\ UNCHANGED coordinatorVars
Overrun(c) == AddOverrun(c) /\ UNCHANGED coordinatorVars

Loaded(c) ==
  /\ load[c] = "add"
  /\ AddEnds(c, TRUE)
  /\ Ensure(c)
  /\ Go(c, "check")
  /\ UNCHANGED <<cards, cooldown, locks>>

LoadFailed(c) ==
  /\ load[c] = "add"
  /\ AddEnds(c, FALSE)
  /\ Go(c, "idle")
  /\ cooldown' = cooldown \cup {c}
  /\ UNCHANGED <<ensuring, waits, cards, locks>>

(* KeysLockedWhileLoadingError: the load failed, but no cooldown. *)
LoadLocked(c) ==
  /\ load[c] = "add"
  /\ TurnRefused(c) \/ AddForgotten(c)
  /\ Go(c, "idle")
  /\ UNCHANGED <<cards, cooldown, locks>>

(* removeIdentities drops the keys that are not for authentication. *)
Trim(c) ==
  /\ At(c, "check") /\ c \notin SecurityKeys /\ socket
  /\ RunAdd(c, FALSE)
  /\ Go(c, "trim")
  /\ UNCHANGED <<socket, alive, keys, pin, epoch, wipes, ensuring, waits,
                 cards, cooldown, locks>>

Trimmed(c) ==
  /\ load[c] = "trim"
  /\ AddEnds(c, TRUE)
  /\ Go(c, "register")
  /\ UNCHANGED <<ensuring, waits, cards, cooldown, locks>>

Register(c) ==
  /\ At(c, "check") \/ At(c, "register")
  /\ cards' = cards \cup {c}
  /\ cooldown' = cooldown \ {c}
  /\ Go(c, "idle")
  /\ UNCHANGED <<agentVars, locks>>

CooldownPasses(c) ==
  /\ c \in cooldown
  /\ cooldown' = cooldown \ {c}
  /\ UNCHANGED <<agentVars, cards, load, locks>>

-----------------------------------------------------------------------------
(* The user's lock, and the agent's own steps. *)

LockAll ==
  /\ Lock
  /\ locks' = locks \cup {epoch'}
  /\ UNCHANGED <<cards, load, cooldown>>

WipeRuns(i) == Wipe(i) /\ UNCHANGED coordinatorVars

LockEnds(i) ==
  /\ i \in locks \ wipes
  /\ locks' = locks \ {i}
  /\ cards' = {}
  /\ cooldown' = {}
  /\ UNCHANGED <<agentVars, load>>

(* onExit: the cards went with the agent. *)
AgentDiscarded ==
  /\ Discarded
  /\ cards' = {}
  /\ UNCHANGED <<load, cooldown, locks>>

(* A load that awaited the agent fails; a reuse has no load to fail. *)
EnsureFails ==
  /\ SpawnFails
  /\ load' = [c \in Cards |-> IF c \in waits THEN "idle" ELSE load[c]]
  /\ cooldown' = cooldown \cup {c \in waits : load[c] # "reuse"}
  /\ UNCHANGED <<cards, locks>>

AgentAnswers == ProbeAnswers /\ UNCHANGED coordinatorVars
AgentSilent == ProbeFails /\ UNCHANGED coordinatorVars
AgentStarts == Spawned /\ UNCHANGED coordinatorVars
AgentGone == AgentDies /\ UNCHANGED coordinatorVars
PinDropped == PinRefused /\ UNCHANGED coordinatorVars

LoadStep(c) ==
  \/ Reused(c) \/ TokenDismissed(c) \/ TokenThere(c)
  \/ NotLoaded(c) \/ AlreadyLoaded(c) \/ Adopt(c) \/ Adopted(c)
  \/ TakeTurn(c) \/ Overrun(c)
  \/ Loaded(c) \/ LoadFailed(c) \/ LoadLocked(c)
  \/ Trim(c) \/ Trimmed(c) \/ Register(c)

EnsureStep ==
  AgentAnswers \/ AgentSilent \/ AgentDiscarded \/ AgentStarts \/ EnsureFails

LockStep(i) == WipeRuns(i) \/ LockEnds(i)

Next ==
  \/ \E c \in Cards : \/ Reuse(c) \/ BeginLoad(c) \/ LoadStep(c)
                      \/ KeyArrives(c) \/ CooldownPasses(c)
  \/ EnsureStep \/ AgentGone \/ PinDropped
  \/ LockAll
  \/ \E i \in Epochs : LockStep(i)

Spec == Init /\ [][Next]_vars

(* Every awaited call ends: child processes and probes have timeouts and   *)
(* prompts are answered or cancelled.  Nobody has to connect or to lock,   *)
(* and the agent need not die.                                             *)
Fairness ==
  /\ \A c \in Cards : WF_vars(LoadStep(c))
  /\ WF_vars(EnsureStep)
  /\ \A i \in Epochs : WF_vars(LockStep(i))

FairSpec == Spec /\ Fairness

-----------------------------------------------------------------------------
(* Every connection that needs a card is answered in the end, whatever is  *)
(* locked, refused or restarted: the queue and the shared start of the     *)
(* agent never leave a load behind.                                        *)
LoadsEnd == \A c \in Cards : load[c] # "idle" ~> load[c] = "idle"

(* "makes the app agent forget every key, forcing the next connection that *)
(* needs any of those cards to prompt for the PIN again": once a lock has  *)
(* ended, a card shown as unlocked is one whose key the agent holds.       *)
UnlockedCardIsLoaded ==
  locks = {} /\ alive => \A c \in cards : keys[Key[c]] # None
=============================================================================
