-------------------------- MODULE SmartcardProofs ---------------------------
(***************************************************************************)
(* Proofs about the app agent and its coordinator, for any set of cards    *)
(* and keys and any number of locks.                                       *)
(***************************************************************************)
EXTENDS SmartcardCoordinator, SequenceTheorems, TLAPS

Active == {"ensuring", "running", "wiping"}

(* The call that has the agent is the first of the queue.                  *)
Turns ==
  \A c \in Cards : add[c] \in Active => queue # <<>> /\ Head(queue) = c

(* Only a load calls runAdd, and while it awaits ensure() it has no other  *)
(* call of runAdd than the one that awaits it.                             *)
Calls ==
  \A c \in Cards :
    /\ add[c] # "idle" => load[c] \in {"add", "trim"}
    /\ c \in waits => add[c] \in {"idle", "ensuring"}

(* Without a socket there is no agent and no key, except while an agent    *)
(* that did not answer is being discarded.                                 *)
NoSocketNoKeys == ~socket /\ ensuring # "discard" => ~alive /\ keys = Forgotten

(* No call was made in an epoch that is yet to come.                       *)
AskedBefore == \A c \in Cards : asked[c] # Always => asked[c] <= epoch

CallInv == TypeOK /\ Turns /\ Calls
LockInv == NoSocketNoKeys /\ AskedBefore /\ LockedKeysGo /\ PinGoesWithLock

-----------------------------------------------------------------------------
LEMMA ConstantTypes ==
  /\ 0 \in Epochs
  /\ None \notin Epochs /\ Always \notin Epochs
  /\ Forgotten \in [Keys -> Epochs \cup {None}]
  /\ \A c \in Cards : Key[c] \in Keys
  BY MaxLocksAssumption DEF Epochs, None, Always, Forgotten, Keys

(* A load that is not in a call of runAdd and does not await the agent.    *)
LEMMA NotCalling ==
  ASSUME Calls, NEW c \in Cards, NEW stage,
         At(c, stage), stage \notin {"add", "trim"}
  PROVE  add[c] = "idle" /\ c \notin waits
  BY DEF Calls, At

LEMMA GoType ==
  ASSUME TypeOK, NEW c \in Cards, NEW stage \in Stages, Go(c, stage)
  PROVE  load' \in [Cards -> Stages]
  BY DEF Go, TypeOK

LEMMA EnsureType ==
  ASSUME TypeOK, NEW c \in Cards, Ensure(c)
  PROVE  /\ waits' \in SUBSET Cards
         /\ ensuring' \in {"no", "probe", "discard", "spawn"}
  BY DEF Ensure, TypeOK, AgentTypeOK

LEMMA RunAddType ==
  ASSUME TypeOK, NEW c \in Cards, NEW guarded \in BOOLEAN, RunAdd(c, guarded)
  PROVE  /\ queue' \in Seq(Cards)
         /\ asked' \in [Cards -> Epochs \cup {Always}]
         /\ add' \in [Cards -> {"idle", "queued", "ensuring", "running", "wiping"}]
<1>1. queue' \in Seq(Cards)
  BY AppendProperties DEF RunAdd, TypeOK, AgentTypeOK
<1> QED
  BY <1>1 DEF RunAdd, TypeOK, AgentTypeOK

LEMMA LeaveType ==
  ASSUME TypeOK, NEW c \in Cards, queue # <<>>, Leave(c)
  PROVE  /\ queue' \in Seq(Cards)
         /\ add' \in [Cards -> {"idle", "queued", "ensuring", "running", "wiping"}]
<1>1. queue' \in Seq(Cards)
  BY HeadTailProperties DEF Leave, TypeOK, AgentTypeOK
<1> QED
  BY <1>1 DEF Leave, TypeOK, AgentTypeOK

(* One step of a connection keeps the types.                               *)
LEMMA LoadKeepsType ==
  ASSUME CallInv, NEW c \in Cards,
         Reuse(c) \/ BeginLoad(c) \/ LoadStep(c) \/ KeyArrives(c) \/ CooldownPasses(c)
  PROVE  TypeOK'
<1> USE DEF CallInv
<1>1. TypeOK
  OBVIOUS
<1>2. CASE Reuse(c)
  BY <1>2, GoType, EnsureType DEF Reuse, TypeOK, AgentTypeOK, Stages
<1>3. CASE BeginLoad(c) \/ TokenDismissed(c) \/ AlreadyLoaded(c) \/ Adopted(c)
           \/ Register(c) \/ CooldownPasses(c)
  BY <1>3, GoType DEF BeginLoad, TokenDismissed, AlreadyLoaded, Adopted, Register,
     CooldownPasses, TypeOK, AgentTypeOK, Stages, agentVars
<1>4. CASE Reused(c)
  BY <1>4, GoType DEF Reused, TypeOK, AgentTypeOK, Stages, agentVars
<1>5. CASE TokenThere(c)
  BY <1>5, GoType, EnsureType, RunAddType DEF TokenThere, TypeOK, AgentTypeOK, Stages
<1>6. CASE NotLoaded(c)
  BY <1>6, GoType, RunAddType DEF NotLoaded, TypeOK, AgentTypeOK, Stages
<1>7. CASE Adopt(c)
  BY <1>7, GoType, EnsureType DEF Adopt, TypeOK, AgentTypeOK, Stages
<1>8. CASE TakeTurn(c)
  BY <1>8, EnsureType DEF TakeTurn, Turn, TypeOK, AgentTypeOK, coordinatorVars
<1>9. CASE Overrun(c)
  BY <1>9 DEF Overrun, AddOverrun, TypeOK, AgentTypeOK, coordinatorVars
<1>10. CASE KeyArrives(c)
  <2>1. asked[c] \in Epochs
    BY <1>10 DEF KeyArrives, KeyEnters, TypeOK, AgentTypeOK
  <2>2. keys' \in [Keys -> Epochs \cup {None}]
    BY <1>10, <2>1, ConstantTypes DEF KeyArrives, KeyEnters, TypeOK, AgentTypeOK
  <2> QED
    BY <1>10, <2>2 DEF KeyArrives, KeyEnters, TypeOK, AgentTypeOK, coordinatorVars
<1>11. CASE Loaded(c) \/ LoadFailed(c) \/ Trimmed(c)
  <2>1. PICK ok \in BOOLEAN : AddEnds(c, ok)
    BY <1>11 DEF Loaded, LoadFailed, Trimmed
  <2>2. queue # <<>> /\ Leave(c)
    BY <2>1 DEF AddEnds, Turns, Active
  <2>3. pin' \in Epochs \cup {None}
    BY <2>1 DEF AddEnds, TypeOK, AgentTypeOK, None, Always
  <2>4. load' \in [Cards -> Stages] /\ cooldown' \in SUBSET Cards
    BY <1>11, GoType DEF Loaded, LoadFailed, Trimmed, TypeOK, Stages
  <2>5. waits' \in SUBSET Cards /\ ensuring' \in {"no", "probe", "discard", "spawn"}
    BY <1>11, EnsureType DEF Loaded, LoadFailed, Trimmed, TypeOK, AgentTypeOK
  <2>6. UNCHANGED <<socket, alive, keys, epoch, wipes, asked, cards, locks>>
    BY <1>11 DEF Loaded, LoadFailed, Trimmed, AddEnds
  <2> QED
    BY <2>2, <2>3, <2>4, <2>5, <2>6, LeaveType DEF TypeOK, AgentTypeOK
<1>12. CASE LoadLocked(c)
  <2>1. queue # <<>> /\ Leave(c)
    BY <1>12 DEF LoadLocked, TurnRefused, AtTurn, AddForgotten, Turns, Active
  <2>2. load' \in [Cards -> Stages]
    BY <1>12, GoType DEF LoadLocked, Stages
  <2>3. keys' \in [Keys -> Epochs \cup {None}]
    BY <1>12, ConstantTypes DEF LoadLocked, TurnRefused, AddForgotten, TypeOK, AgentTypeOK
  <2>4. UNCHANGED <<socket, alive, pin, epoch, wipes, ensuring, waits, asked,
                    cards, cooldown, locks>>
    BY <1>12 DEF LoadLocked, TurnRefused, AddForgotten
  <2> QED
    BY <2>1, <2>2, <2>3, <2>4, LeaveType DEF TypeOK, AgentTypeOK
<1>13. CASE Trim(c)
  BY <1>13, GoType, RunAddType DEF Trim, TypeOK, AgentTypeOK, Stages
<1> QED
  BY <1>2, <1>3, <1>4, <1>5, <1>6, <1>7, <1>8, <1>9, <1>10, <1>11, <1>12, <1>13
     DEF LoadStep

(* So does a step of the agent or of the user.                             *)
LEMMA AgentKeepsType ==
  ASSUME CallInv,
         EnsureStep \/ AgentGone \/ PinDropped \/ LockAll
           \/ \E i \in Epochs : LockStep(i)
  PROVE  TypeOK'
<1> USE DEF CallInv
<1>1. CASE AgentAnswers \/ AgentStarts
  BY <1>1 DEF AgentAnswers, AgentStarts, ProbeAnswers, Spawned, Resume, TypeOK,
     AgentTypeOK, coordinatorVars
<1>2. CASE AgentSilent \/ AgentGone \/ PinDropped
  BY <1>2, ConstantTypes DEF AgentSilent, AgentGone, PinDropped, ProbeFails,
     AgentDies, PinRefused, TypeOK, AgentTypeOK, coordinatorVars
<1>3. CASE AgentDiscarded
  BY <1>3, ConstantTypes DEF AgentDiscarded, Discarded, TypeOK, AgentTypeOK
<1>4. CASE EnsureFails
  <2>1. queue' \in Seq(Cards)
    BY <1>4, HeadTailProperties DEF EnsureFails, SpawnFails, TypeOK, AgentTypeOK
  <2>2. load' \in [Cards -> Stages] /\ cooldown' \in SUBSET Cards
    BY <1>4 DEF EnsureFails, TypeOK, AgentTypeOK, Stages
  <2> QED
    BY <1>4, <2>1, <2>2 DEF EnsureFails, SpawnFails, TypeOK, AgentTypeOK
<1>5. CASE LockAll
  <2>1. epoch' \in Epochs
    BY <1>5, MaxLocksAssumption DEF LockAll, Lock, TypeOK, AgentTypeOK, Epochs
  <2> QED
    BY <1>5, <2>1 DEF LockAll, Lock, TypeOK, AgentTypeOK
<1>6. ASSUME NEW i \in Epochs, LockStep(i) PROVE TypeOK'
  BY <1>6, ConstantTypes DEF LockStep, WipeRuns, LockEnds, Wipe, TypeOK,
     AgentTypeOK, agentVars, coordinatorVars
<1> QED
  BY <1>1, <1>2, <1>3, <1>4, <1>5, <1>6 DEF EnsureStep

-----------------------------------------------------------------------------
(* The queue and the calls of runAdd. *)

(* A call that joins the queue does not take the place of the first.       *)
LEMMA RunAddKeepsTurns ==
  ASSUME CallInv, NEW c \in Cards, NEW guarded, RunAdd(c, guarded)
  PROVE  Turns'
<1>1. queue # <<>> => queue' # <<>> /\ Head(queue') = Head(queue)
  <2>1. queue \in Seq(Cards) /\ queue' = Append(queue, c)
    BY DEF CallInv, TypeOK, AgentTypeOK, RunAdd
  <2>2. /\ queue' # <<>> /\ queue' \in Seq(Cards)
        /\ \A i \in 1 .. Len(queue) : queue'[i] = queue[i]
    BY <2>1, AppendProperties
  <2> QED
    BY <2>1, <2>2
<1>2. \A d \in Cards : add'[d] \in Active => add[d] \in Active
  BY DEF CallInv, TypeOK, AgentTypeOK, RunAdd, Active
<1> QED
  BY <1>1, <1>2 DEF CallInv, Turns

(* When the first call leaves no other has the agent.                      *)
LEMMA LeaveKeepsTurns ==
  ASSUME CallInv, NEW c \in Cards, queue # <<>>, Head(queue) = c, Leave(c)
  PROVE  Turns'
<1>1. \A d \in Cards : add'[d] \notin Active
  BY DEF CallInv, TypeOK, AgentTypeOK, Turns, Leave, Active
<1> QED
  BY <1>1 DEF Turns

LEMMA EndKeepsTurns ==
  ASSUME CallInv, NEW c \in Cards, NEW ok, AddEnds(c, ok)
  PROVE  Turns'
  BY LeaveKeepsTurns DEF CallInv, AddEnds, Turns, Active

LEMMA LoadKeepsTurns ==
  ASSUME CallInv, NEW c \in Cards,
         Reuse(c) \/ BeginLoad(c) \/ LoadStep(c) \/ KeyArrives(c) \/ CooldownPasses(c)
  PROVE  Turns'
<1>1. CASE UNCHANGED <<queue, add>>
  BY <1>1 DEF CallInv, Turns
<1>2. CASE TokenThere(c) \/ NotLoaded(c) \/ Trim(c)
  BY <1>1, <1>2, RunAddKeepsTurns DEF TokenThere, NotLoaded, Trim
<1>3. CASE TakeTurn(c) \/ Overrun(c)
  BY <1>3 DEF CallInv, TypeOK, AgentTypeOK, Turns, Active, TakeTurn, Overrun, Turn,
     AddOverrun, AtTurn
<1>4. CASE Loaded(c) \/ LoadFailed(c) \/ Trimmed(c)
  BY <1>4, EndKeepsTurns DEF Loaded, LoadFailed, Trimmed
<1>5. CASE LoadLocked(c)
  BY <1>5, LeaveKeepsTurns
     DEF LoadLocked, TurnRefused, AtTurn, AddForgotten, CallInv, Turns, Active
<1> QED
  BY <1>1, <1>2, <1>3, <1>4, <1>5
     DEF LoadStep, Reuse, BeginLoad, KeyArrives, KeyEnters, CooldownPasses, Reused,
         TokenDismissed, AlreadyLoaded, Adopt, Adopted, Register, agentVars

LEMMA AgentKeepsTurns ==
  ASSUME CallInv,
         EnsureStep \/ AgentGone \/ PinDropped \/ LockAll
           \/ \E i \in Epochs : LockStep(i)
  PROVE  Turns'
<1>1. CASE UNCHANGED <<queue, add>>
  BY <1>1 DEF CallInv, Turns
<1>2. CASE AgentAnswers \/ AgentStarts
  <2>1. queue' = queue /\ \A c \in Cards : add'[c] \in Active => add[c] \in Active
    BY <1>2 DEF AgentAnswers, AgentStarts, ProbeAnswers, Spawned, Resume, Active
  <2> QED
    BY <2>1 DEF CallInv, Turns
<1>3. CASE EnsureFails
  <2>1. ASSUME NEW c \in Cards, add'[c] \in Active PROVE queue' = queue /\ add'[c] = add[c]
    BY <1>3, <2>1 DEF EnsureFails, SpawnFails, CallInv, Turns, Active
  <2> QED
    BY <2>1 DEF CallInv, Turns
<1> QED
  BY <1>1, <1>2, <1>3
     DEF EnsureStep, AgentSilent, ProbeFails, AgentDiscarded, Discarded, AgentGone,
         AgentDies, PinDropped, PinRefused, LockAll, Lock, LockStep, WipeRuns, Wipe,
         LockEnds, agentVars

(* A load moves between the stages that are not a call of runAdd, enters   *)
(* one of those that are with its call, and leaves them when it has ended. *)
LEMMA LoadKeepsCalls ==
  ASSUME CallInv, NEW c \in Cards,
         Reuse(c) \/ BeginLoad(c) \/ LoadStep(c) \/ KeyArrives(c) \/ CooldownPasses(c)
  PROVE  Calls'
<1> USE DEF CallInv, TypeOK, AgentTypeOK, Stages
<1>1. CASE Reuse(c) \/ BeginLoad(c) \/ Reused(c) \/ TokenDismissed(c)
           \/ AlreadyLoaded(c) \/ Adopt(c) \/ Adopted(c)
  <2>1. add[c] = "idle" /\ UNCHANGED add /\ waits' \in {waits, waits \cup {c}}
    BY <1>1, NotCalling DEF Reuse, BeginLoad, Reused, TokenDismissed, AlreadyLoaded,
       Adopt, Adopted, Ensure, agentVars
  <2>2. \A d \in Cards : d # c => load'[d] = load[d]
    BY <1>1 DEF Reuse, BeginLoad, Reused, TokenDismissed, AlreadyLoaded, Adopt,
       Adopted, Go
  <2> QED
    BY <2>1, <2>2 DEF Calls
<1>2. CASE Register(c)
  BY <1>2, NotCalling DEF Register, Go, Calls, agentVars
<1>3. CASE TokenThere(c)
  <2>1. add[c] = "idle" /\ c \notin waits
    BY <1>3, NotCalling DEF TokenThere
  <2> QED
    BY <1>3, <2>1 DEF TokenThere, RunAdd, Ensure, Go, Calls
<1>4. CASE NotLoaded(c) \/ Trim(c)
  <2>1. add[c] = "idle" /\ c \notin waits
    BY <1>4, NotCalling DEF NotLoaded, Trim
  <2> QED
    BY <1>4, <2>1 DEF NotLoaded, Trim, RunAdd, Go, Calls
<1>5. CASE TakeTurn(c)
  BY <1>5 DEF TakeTurn, Turn, AtTurn, Ensure, Calls, coordinatorVars
<1>6. CASE Overrun(c) \/ KeyArrives(c) \/ CooldownPasses(c)
  BY <1>6 DEF Overrun, AddOverrun, KeyArrives, KeyEnters, CooldownPasses, Calls,
     coordinatorVars, agentVars
<1>7. CASE Loaded(c) \/ LoadFailed(c) \/ Trimmed(c) \/ LoadLocked(c)
  <2>1. add' = [add EXCEPT ![c] = "idle"] /\ waits' \in {waits, waits \cup {c}}
    BY <1>7 DEF Loaded, LoadFailed, Trimmed, LoadLocked, AddEnds, TurnRefused,
       AddForgotten, Leave, Ensure
  <2>2. \A d \in Cards : d # c => load'[d] = load[d]
    BY <1>7 DEF Loaded, LoadFailed, Trimmed, LoadLocked, Go
  <2> QED
    BY <2>1, <2>2 DEF Calls
<1> QED
  BY <1>1, <1>2, <1>3, <1>4, <1>5, <1>6, <1>7 DEF LoadStep

LEMMA AgentKeepsCalls ==
  ASSUME CallInv,
         EnsureStep \/ AgentGone \/ PinDropped \/ LockAll
           \/ \E i \in Epochs : LockStep(i)
  PROVE  Calls'
<1> USE DEF CallInv, TypeOK, AgentTypeOK
<1>1. CASE UNCHANGED <<add, waits, load>>
  BY <1>1 DEF Calls
<1>2. CASE AgentAnswers \/ AgentStarts
  BY <1>2 DEF AgentAnswers, AgentStarts, ProbeAnswers, Spawned, Resume, Calls,
     coordinatorVars
<1>3. CASE EnsureFails
  BY <1>3 DEF EnsureFails, SpawnFails, Calls
<1> QED
  BY <1>1, <1>2, <1>3
     DEF EnsureStep, AgentSilent, ProbeFails, AgentDiscarded, Discarded, AgentGone,
         AgentDies, PinDropped, PinRefused, LockAll, Lock, LockStep, WipeRuns, Wipe,
         LockEnds, agentVars, coordinatorVars

-----------------------------------------------------------------------------
(* What a lock must take away. *)

(* Nothing that takes an old key away is lost, so every old key still goes. *)
LEMMA StillGoing ==
  ASSUME LockedKeysGo, UNCHANGED <<keys, epoch, wipes>>,
         ensuring = "discard" => ensuring' = "discard",
         \A c \in Cards : add[c] \in {"running", "wiping"} /\ LockedOut(c) =>
           add'[c] \in {"running", "wiping"} /\ asked'[c] = asked[c]
  PROVE  LockedKeysGo'
  BY DEF LockedKeysGo, LockedOut

LEMMA AllGone ==
  ASSUME keys' = Forgotten
  PROVE  LockedKeysGo'
  BY DEF LockedKeysGo, Forgotten

LEMMA LoadKeepsLocked ==
  ASSUME CallInv, LockInv, NEW c \in Cards,
         Reuse(c) \/ BeginLoad(c) \/ LoadStep(c) \/ KeyArrives(c) \/ CooldownPasses(c)
  PROVE  LockedKeysGo'
<1> USE DEF CallInv, LockInv, TypeOK, AgentTypeOK
<1>1. CASE UNCHANGED agentVars
  BY <1>1, StillGoing DEF agentVars
<1>2. CASE Reuse(c) \/ Adopt(c)
  BY <1>2, StillGoing DEF Reuse, Adopt, Ensure
<1>3. CASE TokenThere(c) \/ NotLoaded(c) \/ Trim(c)
  <2>1. add[c] = "idle"
    BY <1>3, NotCalling DEF TokenThere, NotLoaded, Trim
  <2> QED
    BY <1>3, <2>1, StillGoing DEF TokenThere, NotLoaded, Trim, RunAdd, Ensure
<1>4. CASE TakeTurn(c) \/ Overrun(c)
  BY <1>4, StillGoing DEF TakeTurn, Overrun, Turn, AtTurn, AddOverrun, Ensure
<1>5. CASE KeyArrives(c)
  <2>1. /\ keys' = [keys EXCEPT ![Key[c]] = asked[c]]
        /\ add[c] = "running" /\ asked[c] # Always
        /\ UNCHANGED <<epoch, wipes, add, asked, ensuring>>
    BY <1>5 DEF KeyArrives, KeyEnters
  <2>2. ASSUME NEW k \in Keys, keys'[k] \notin {epoch, None}, keys'[k] # keys[k]
        PROVE  add'[c] \in {"running", "wiping"} /\ LockedOut(c)'
    BY <2>1, <2>2 DEF LockedOut
  <2> QED
    BY <2>1, <2>2 DEF LockedKeysGo, LockedOut
<1>6. CASE Loaded(c) \/ LoadFailed(c) \/ Trimmed(c)
  BY <1>6, StillGoing DEF Loaded, LoadFailed, Trimmed, AddEnds, Leave, Ensure
<1>7. CASE LoadLocked(c)
  BY <1>7, StillGoing, AllGone
     DEF LoadLocked, TurnRefused, AtTurn, AddForgotten, Leave
<1> QED
  BY <1>1, <1>2, <1>3, <1>4, <1>5, <1>6, <1>7
     DEF LoadStep, BeginLoad, CooldownPasses, Reused, TokenDismissed, AlreadyLoaded,
         Adopted, Register

LEMMA AgentKeepsLocked ==
  ASSUME CallInv, LockInv,
         EnsureStep \/ AgentGone \/ PinDropped \/ LockAll
           \/ \E i \in Epochs : LockStep(i)
  PROVE  LockedKeysGo'
<1> USE DEF CallInv, LockInv, TypeOK, AgentTypeOK
<1>1. CASE AgentAnswers \/ AgentStarts
  BY <1>1, StillGoing DEF AgentAnswers, AgentStarts, ProbeAnswers, Spawned, Resume
<1>2. CASE AgentSilent \/ PinDropped
  BY <1>2, StillGoing DEF AgentSilent, ProbeFails, PinDropped, PinRefused
<1>3. CASE AgentDiscarded \/ AgentGone
  BY <1>3, AllGone DEF AgentDiscarded, Discarded, AgentGone, AgentDies
<1>4. CASE EnsureFails
  BY <1>4, StillGoing DEF EnsureFails, SpawnFails
<1>5. CASE LockAll
  <2>1. /\ epoch' = epoch + 1 /\ epoch < MaxLocks /\ epoch \in Nat
        /\ wipes' = IF socket THEN wipes \cup {epoch + 1} ELSE wipes
        /\ UNCHANGED <<socket, alive, keys, ensuring, add, asked>>
    BY <1>5 DEF LockAll, Lock, Epochs
  <2>2. ASSUME NEW k \in Keys, keys[k] = epoch, ensuring # "discard"
        PROVE  \E i \in wipes' : i > keys'[k]
    <3>1. keys[k] # None
      BY <2>1, <2>2, MaxLocksAssumption DEF None
    <3>2. socket
      BY <2>2, <3>1 DEF NoSocketNoKeys, Forgotten
    <3> QED
      BY <2>1, <2>2, <3>2
  <2>3. ASSUME NEW d \in Cards, LockedOut(d) PROVE LockedOut(d)'
    <3>1. asked[d] \in Epochs /\ asked[d] # epoch /\ asked[d] # Always
      BY <2>3 DEF LockedOut
    <3>2. asked[d] # epoch + 1
      BY <2>1, <3>1 DEF AskedBefore, Epochs
    <3> QED
      BY <2>1, <3>1, <3>2 DEF LockedOut
  <2>4. ASSUME NEW k \in Keys, keys[k] \notin {epoch, None}
        PROVE  \/ \E i \in wipes' : i > keys'[k]
               \/ \E d \in Cards : add'[d] \in {"running", "wiping"} /\ LockedOut(d)'
               \/ ensuring' = "discard"
    BY <2>1, <2>3, <2>4 DEF LockedKeysGo
  <2> QED
    BY <2>1, <2>2, <2>4 DEF LockedKeysGo
<1>6. ASSUME NEW i \in Epochs, LockStep(i) PROVE LockedKeysGo'
  BY <1>6, StillGoing, AllGone DEF LockStep, WipeRuns, Wipe, LockEnds, agentVars
<1> QED
  BY <1>1, <1>2, <1>3, <1>4, <1>5, <1>6 DEF EnsureStep

(* The rest of LockInv: what it says of socket, calls and PIN.             *)
LEMMA LoadKeepsRest ==
  ASSUME CallInv, LockInv, NEW c \in Cards,
         Reuse(c) \/ BeginLoad(c) \/ LoadStep(c) \/ KeyArrives(c) \/ CooldownPasses(c)
  PROVE  NoSocketNoKeys' /\ AskedBefore' /\ PinGoesWithLock'
<1> USE DEF CallInv, LockInv, TypeOK, AgentTypeOK
<1>1. NoSocketNoKeys'
  <2>1. CASE KeyArrives(c)
    BY <2>1 DEF KeyArrives, KeyEnters, NoSocketNoKeys
  <2>2. CASE LoadLocked(c)
    BY <2>2 DEF LoadLocked, TurnRefused, AddForgotten, NoSocketNoKeys
  <2>3. CASE ~KeyArrives(c) /\ ~LoadLocked(c)
    <3>1. /\ UNCHANGED <<socket, alive, keys>>
          /\ ensuring' = ensuring \/ Ensure(c)
      BY <2>3 DEF LoadStep, Reuse, BeginLoad, CooldownPasses, Reused, TokenDismissed,
         TokenThere, NotLoaded, AlreadyLoaded, Adopt, Adopted, TakeTurn, Turn, Overrun,
         AddOverrun, Loaded, LoadFailed, AddEnds, Trim, Trimmed, Register, agentVars
    <3>2. ensuring' = ensuring \/ (ensuring = "no" /\ ensuring' \in {"probe", "spawn"})
      BY <3>1 DEF Ensure
    <3> QED
      BY <3>1, <3>2 DEF NoSocketNoKeys
  <2> QED
    BY <2>1, <2>2, <2>3
<1>2. AskedBefore'
  <2>1. CASE TokenThere(c) \/ NotLoaded(c) \/ Trim(c)
    BY <2>1 DEF TokenThere, NotLoaded, Trim, RunAdd, AskedBefore, Epochs
  <2>2. CASE UNCHANGED <<asked, epoch>>
    BY <2>2 DEF AskedBefore
  <2> QED
    BY <2>1, <2>2 DEF LoadStep, Reuse, BeginLoad, KeyArrives, KeyEnters,
       CooldownPasses, Reused, TokenDismissed, AlreadyLoaded, Adopt, Adopted, TakeTurn,
       Turn, Overrun, AddOverrun, Loaded, LoadFailed, LoadLocked, TurnRefused,
       AddForgotten, AddEnds, Trimmed, Register, agentVars
<1>3. PinGoesWithLock'
  <2>1. CASE Loaded(c) \/ LoadFailed(c) \/ Trimmed(c)
    <3>1. PICK ok \in BOOLEAN : AddEnds(c, ok)
      BY <2>1 DEF Loaded, LoadFailed, Trimmed
    <3> QED
      BY <3>1 DEF AddEnds, LockedOut, PinGoesWithLock, Always, None
  <2>2. CASE UNCHANGED <<pin, epoch>>
    BY <2>2 DEF PinGoesWithLock
  <2> QED
    BY <2>1, <2>2 DEF LoadStep, Reuse, BeginLoad, KeyArrives, KeyEnters,
       CooldownPasses, Reused, TokenDismissed, TokenThere, NotLoaded, AlreadyLoaded,
       Adopt, Adopted, TakeTurn, Turn, Overrun, AddOverrun, LoadLocked, TurnRefused,
       AddForgotten, Trim, Register, agentVars
<1> QED
  BY <1>1, <1>2, <1>3

LEMMA AgentKeepsRest ==
  ASSUME CallInv, LockInv,
         EnsureStep \/ AgentGone \/ PinDropped \/ LockAll
           \/ \E i \in Epochs : LockStep(i)
  PROVE  NoSocketNoKeys' /\ AskedBefore' /\ PinGoesWithLock'
<1> USE DEF CallInv, LockInv, TypeOK, AgentTypeOK
<1>1. CASE EnsureStep
  BY <1>1 DEF EnsureStep, AgentAnswers, ProbeAnswers, AgentSilent, ProbeFails,
     AgentDiscarded, Discarded, AgentStarts, Spawned, EnsureFails, SpawnFails, Resume,
     NoSocketNoKeys, AskedBefore, PinGoesWithLock
<1>2. CASE AgentGone \/ PinDropped
  BY <1>2 DEF AgentGone, AgentDies, PinDropped, PinRefused, NoSocketNoKeys,
     AskedBefore, PinGoesWithLock
<1>3. CASE LockAll
  BY <1>3 DEF LockAll, Lock, NoSocketNoKeys, AskedBefore, PinGoesWithLock, Epochs
<1>4. ASSUME NEW i \in Epochs, LockStep(i)
      PROVE  NoSocketNoKeys' /\ AskedBefore' /\ PinGoesWithLock'
  BY <1>4 DEF LockStep, WipeRuns, Wipe, LockEnds, NoSocketNoKeys, AskedBefore,
     PinGoesWithLock, agentVars
<1> QED
  BY <1>1, <1>2, <1>3, <1>4

-----------------------------------------------------------------------------
LEMMA InitInv == Init => CallInv /\ LockInv
<1> SUFFICES ASSUME Init PROVE CallInv /\ LockInv
  OBVIOUS
<1> USE DEF Init, AgentInit
<1>1. TypeOK
  <2>1. keys \in [Keys -> Epochs \cup {None}] /\ queue \in Seq(Cards)
    BY ConstantTypes
  <2>2. /\ asked \in [Cards -> Epochs \cup {Always}]
        /\ pin \in Epochs \cup {None} /\ epoch \in Epochs
    BY ConstantTypes
  <2>3. load \in [Cards -> Stages]
    BY DEF Stages
  <2> QED
    BY <2>1, <2>2, <2>3 DEF TypeOK, AgentTypeOK
<1>2. Turns /\ Calls
  BY DEF Turns, Calls, Active
<1>3. LockInv
  BY DEF LockInv, NoSocketNoKeys, AskedBefore, LockedKeysGo, PinGoesWithLock,
     Forgotten
<1> QED
  BY <1>1, <1>2, <1>3 DEF CallInv

LEMMA NextInv == CallInv /\ LockInv /\ [Next]_vars => (CallInv /\ LockInv)'
<1> SUFFICES ASSUME CallInv, LockInv, [Next]_vars PROVE CallInv' /\ LockInv'
  OBVIOUS
<1>1. ASSUME NEW c \in Cards,
             Reuse(c) \/ BeginLoad(c) \/ LoadStep(c) \/ KeyArrives(c) \/ CooldownPasses(c)
      PROVE  CallInv' /\ LockInv'
  BY <1>1, LoadKeepsType, LoadKeepsTurns, LoadKeepsCalls, LoadKeepsLocked,
     LoadKeepsRest DEF CallInv, LockInv
<1>2. CASE EnsureStep \/ AgentGone \/ PinDropped \/ LockAll
             \/ \E i \in Epochs : LockStep(i)
  BY <1>2, AgentKeepsType, AgentKeepsTurns, AgentKeepsCalls, AgentKeepsLocked,
     AgentKeepsRest DEF CallInv, LockInv
<1>3. CASE UNCHANGED vars
  BY <1>3 DEF vars, agentVars, coordinatorVars, CallInv, TypeOK, AgentTypeOK, Turns,
     Calls, LockInv, NoSocketNoKeys, AskedBefore, LockedKeysGo, LockedOut,
     PinGoesWithLock
<1> QED
  BY <1>1, <1>2, <1>3 DEF Next

LEMMA SmartcardInvariant == Spec => [](CallInv /\ LockInv)
  BY InitInv, NextInv, PTL DEF Spec

(* The state of the agent and of its coordinator keeps its type.           *)
THEOREM SmartcardTypeCorrect == Spec => []TypeOK
<1>1. CallInv /\ LockInv => TypeOK
  BY DEF CallInv
<1> QED
  BY <1>1, SmartcardInvariant, PTL

(* Whatever is loaded, restarted or locked at the same time, a key asked   *)
(* for before a lock (runAdd, lockAll) never outlasts it.                  *)
THEOREM KeysGoWithTheLock == Spec => []LockedKeysGo
<1>1. CallInv /\ LockInv => LockedKeysGo
  BY DEF LockInv
<1> QED
  BY <1>1, SmartcardInvariant, PTL

(* Neither does the PIN of a security key (addFido2Resident).              *)
THEOREM PinGoes == Spec => []PinGoesWithLock
<1>1. CallInv /\ LockInv => PinGoesWithLock
  BY DEF LockInv
<1> QED
  BY <1>1, SmartcardInvariant, PTL

(* At most one load talks to a token: "most readers only allow one         *)
(* PKCS#11/FIDO2 transaction at a time" (runAdd).                          *)
THEOREM OneLoadAtATime ==
  Spec => [](\A c, d \in Cards : add[c] \in Active /\ add[d] \in Active => c = d)
<1>1. CallInv /\ LockInv =>
        \A c, d \in Cards : add[c] \in Active /\ add[d] \in Active => c = d
  BY DEF CallInv, Turns
<1> QED
  BY <1>1, SmartcardInvariant, PTL

-----------------------------------------------------------------------------
(* What a load waits for. *)

InQueue(c) == \E i \in DOMAIN queue : queue[i] = c
Once == \A i, j \in DOMAIN queue : queue[i] = queue[j] => i = j

(* The queue holds the calls of runAdd under way, each once, and a load in *)
(* a stage that is such a call has one; only loads that a lock may cancel  *)
(* are undone; who awaits the agent is in a start of it.                   *)
QueueInv ==
  /\ Once
  /\ \A c \in Cards :
       /\ add[c] # "idle" <=> InQueue(c)
       /\ load[c] \in {"add", "trim"} => add[c] # "idle"
       /\ add[c] = "ensuring" => c \in waits
       /\ add[c] = "wiping" => load[c] = "add"
       /\ load[c] = "trim" => asked[c] = Always
  /\ waits # {} => ensuring # "no"

AwaitsAgent(c) == c \in waits /\ ensuring # "no"

(* The call of runAdd at its turn: it awaits the agent or can take a step. *)
HasTurn(c) ==
  \/ AwaitsAgent(c)
  \/ (AtTurn(c) \/ add[c] = "running") /\ (LockedOut(c) => load[c] = "add")
  \/ add[c] = "wiping" /\ load[c] = "add"

LoadsGetOn ==
  \A c \in Cards : load[c] # "idle" =>
    \/ AwaitsAgent(c)
    \/ c \notin waits /\ load[c] \notin {"add", "trim"}
    \/ HasTurn(c)
    \/ add[c] = "queued" /\ InQueue(c) /\ HasTurn(Head(queue))

LEMMA JoinQueue ==
  ASSUME TypeOK, NEW c \in Cards, ~InQueue(c), Once, queue' = Append(queue, c)
  PROVE  Once' /\ \A d \in Cards : InQueue(d)' <=> InQueue(d) \/ d = c
<1>1. queue \in Seq(Cards) BY DEF TypeOK, AgentTypeOK
<1>2. /\ DOMAIN queue' = 1 .. Len(queue) + 1 /\ Len(queue) \in Nat
      /\ DOMAIN queue = 1 .. Len(queue)
      /\ queue'[Len(queue) + 1] = c
      /\ \A i \in DOMAIN queue : queue'[i] = queue[i]
  BY <1>1
<1>3. \A i \in DOMAIN queue' : i \in DOMAIN queue \/ i = Len(queue) + 1
  BY <1>2
<1>4. \A i \in DOMAIN queue : i \in DOMAIN queue' BY <1>2
<1>5. Len(queue) + 1 \in DOMAIN queue' BY <1>2
<1>6. Once' BY <1>2, <1>3 DEF Once, InQueue
<1>7. \A d \in Cards : InQueue(d)' <=> InQueue(d) \/ d = c
  BY <1>2, <1>3, <1>4, <1>5 DEF InQueue
<1> QED BY <1>6, <1>7

LEMMA LeaveQueue ==
  ASSUME TypeOK, queue # <<>>, Once, queue' = Tail(queue)
  PROVE  Once' /\ \A d \in Cards : InQueue(d)' <=> InQueue(d) /\ d # Head(queue)
<1>1. queue \in Seq(Cards) BY DEF TypeOK, AgentTypeOK
<1>2. 1 \in DOMAIN queue /\ Head(queue) = queue[1] BY <1>1
<1>3. \A i \in DOMAIN queue' : i + 1 \in DOMAIN queue /\ queue'[i] = queue[i + 1] /\ i \in Nat \ {0}
  BY <1>1
<1>4. \A i \in DOMAIN queue : i # 1 => i - 1 \in DOMAIN queue' /\ queue'[i - 1] = queue[i]
  BY <1>1
<1>5. Once'
  <2> SUFFICES ASSUME NEW i \in DOMAIN queue', NEW j \in DOMAIN queue', queue'[i] = queue'[j]
               PROVE  i = j
    BY DEF Once
  <2>1. i + 1 = j + 1 BY <1>3 DEF Once
  <2> QED BY <1>3, <2>1
<1>6. ASSUME NEW d \in Cards PROVE InQueue(d)' <=> InQueue(d) /\ d # Head(queue)
  <2>1. ASSUME InQueue(d)' PROVE InQueue(d) /\ d # Head(queue)
    <3>1. PICK i \in DOMAIN queue' : queue'[i] = d BY <2>1 DEF InQueue
    <3>2. i + 1 \in DOMAIN queue /\ queue[i + 1] = d /\ i + 1 # 1 BY <1>3, <3>1
    <3> QED BY <1>2, <3>2 DEF InQueue, Once
  <2>2. ASSUME InQueue(d), d # Head(queue) PROVE InQueue(d)'
    BY <1>2, <1>4, <2>2 DEF InQueue
  <2> QED BY <2>1, <2>2
<1> QED BY <1>5, <1>6

LEMMA LoadKeepsQueue ==
  ASSUME CallInv, QueueInv, NEW c \in Cards,
         Reuse(c) \/ BeginLoad(c) \/ LoadStep(c) \/ KeyArrives(c) \/ CooldownPasses(c)
  PROVE  QueueInv'
<1>0. TypeOK /\ Calls /\ Turns /\ Once BY DEF CallInv, QueueInv
<1>t. /\ load \in [Cards -> Stages] /\ asked \in [Cards -> Epochs \cup {Always}]
      /\ add \in [Cards -> {"idle", "queued", "ensuring", "running", "wiping"}]
  BY <1>0 DEF TypeOK, AgentTypeOK
<1>e. ASSUME UNCHANGED <<waits, ensuring>> \/ Ensure(c)
      PROVE  waits \subseteq waits' /\ (waits' # {} => ensuring' # "no")
  BY <1>e DEF Ensure, QueueInv
<1>a. ASSUME UNCHANGED <<queue, add, asked>>, UNCHANGED <<waits, ensuring>> \/ Ensure(c),
             \/ UNCHANGED load
             \/ add[c] = "idle" /\ \E stage \in Stages \ {"add", "trim"} : Go(c, stage)
      PROVE  QueueInv'
  <2>1. Once' /\ \A d \in Cards : InQueue(d)' <=> InQueue(d)
    BY <1>0, <1>a DEF Once, InQueue
  <2>2. \A d \in Cards : \/ load'[d] = load[d]
                         \/ add[d] = "idle" /\ load'[d] \notin {"add", "trim"}
    BY <1>a, <1>t DEF Go
  <2> QED BY <1>a, <1>e, <2>1, <2>2 DEF QueueInv
<1>1. CASE Reuse(c) \/ BeginLoad(c) \/ Reused(c) \/ TokenDismissed(c)
           \/ AlreadyLoaded(c) \/ Adopt(c) \/ Adopted(c) \/ Register(c)
  <2>1. add[c] = "idle"
    BY <1>0, <1>1, NotCalling DEF Reuse, BeginLoad, Reused, TokenDismissed,
       AlreadyLoaded, Adopt, Adopted, Register
  <2>2. /\ UNCHANGED <<queue, add, asked>> /\ (UNCHANGED <<waits, ensuring>> \/ Ensure(c))
        /\ \E stage \in Stages \ {"add", "trim"} : Go(c, stage)
    BY <1>1 DEF Reuse, BeginLoad, Reused, TokenDismissed, AlreadyLoaded, Adopt, Adopted,
       Register, Stages, agentVars
  <2> QED BY <1>a, <2>1, <2>2
<1>2. CASE KeyArrives(c) \/ CooldownPasses(c)
  BY <1>2, <1>a DEF KeyArrives, KeyEnters, CooldownPasses, coordinatorVars, agentVars
<1>3. CASE TokenThere(c) /\ c \notin SecurityKeys
  <2>1. add[c] = "idle" BY <1>0, <1>3, NotCalling DEF TokenThere
  <2> QED BY <1>3, <1>a, <2>1 DEF TokenThere, Stages
<1>4. CASE NotLoaded(c) \/ Trim(c) \/ (TokenThere(c) /\ c \in SecurityKeys)
  <2>1. add[c] = "idle" BY <1>0, <1>4, NotCalling DEF TokenThere, NotLoaded, Trim
  <2>2. /\ queue' = Append(queue, c) /\ add' = [add EXCEPT ![c] = "queued"]
        /\ UNCHANGED <<waits, ensuring>>
        /\ \/ Go(c, "add")
           \/ Go(c, "trim") /\ asked' = [asked EXCEPT ![c] = Always]
        /\ \A d \in Cards \ {c} : asked'[d] = asked[d]
    BY <1>4, <1>t DEF TokenThere, NotLoaded, Trim, RunAdd
  <2>3. Once' /\ \A d \in Cards : InQueue(d)' <=> InQueue(d) \/ d = c
    BY <1>0, <2>1, <2>2, JoinQueue DEF QueueInv
  <2>4. \/ load' = [load EXCEPT ![c] = "add"]
        \/ load' = [load EXCEPT ![c] = "trim"] /\ asked'[c] = Always
    BY <1>t, <2>2 DEF Go
  <2> QED BY <1>e, <1>t, <2>1, <2>2, <2>3, <2>4 DEF QueueInv
<1>5. CASE TakeTurn(c)
  <2>1. /\ add[c] = "queued" /\ add' = [add EXCEPT ![c] = "ensuring"] /\ Ensure(c)
        /\ UNCHANGED <<queue, asked, load>>
    BY <1>5 DEF TakeTurn, Turn, AtTurn, coordinatorVars
  <2>2. Once' /\ \A d \in Cards : InQueue(d)' <=> InQueue(d)
    BY <1>0, <2>1 DEF Once, InQueue
  <2>3. c \in waits' BY <2>1 DEF Ensure
  <2> QED BY <1>e, <1>t, <2>1, <2>2, <2>3 DEF QueueInv
<1>6. CASE Overrun(c)
  <2>1. /\ add[c] = "running" /\ LockedOut(c) /\ add' = [add EXCEPT ![c] = "wiping"]
        /\ UNCHANGED <<queue, asked, load, waits, ensuring>>
    BY <1>6 DEF Overrun, AddOverrun, coordinatorVars
  <2>2. Once' /\ \A d \in Cards : InQueue(d)' <=> InQueue(d)
    BY <1>0, <2>1 DEF Once, InQueue
  <2>3. load[c] = "add" BY <1>0, <2>1 DEF Calls, LockedOut, QueueInv
  <2> QED BY <1>t, <2>1, <2>2, <2>3 DEF QueueInv
<1>7. CASE Loaded(c) \/ LoadFailed(c) \/ Trimmed(c) \/ LoadLocked(c)
  <2>1. /\ queue' = Tail(queue) /\ add' = [add EXCEPT ![c] = "idle"] /\ UNCHANGED asked
        /\ UNCHANGED <<waits, ensuring>> \/ Ensure(c)
        /\ \E stage \in Stages \ {"add", "trim"} : load' = [load EXCEPT ![c] = stage]
    BY <1>7 DEF Loaded, LoadFailed, Trimmed, LoadLocked, AddEnds, TurnRefused,
       AddForgotten, Leave, Go, Stages
  <2>2. queue # <<>> /\ Head(queue) = c
    BY <1>0, <1>7 DEF Loaded, LoadFailed, Trimmed, LoadLocked, AddEnds, TurnRefused,
       AtTurn, AddForgotten, Turns, Active
  <2>3. Once' /\ \A d \in Cards : InQueue(d)' <=> InQueue(d) /\ d # c
    BY <1>0, <2>1, <2>2, LeaveQueue
  <2> QED BY <1>e, <1>t, <2>1, <2>3 DEF QueueInv
<1> QED BY <1>1, <1>2, <1>3, <1>4, <1>5, <1>6, <1>7 DEF LoadStep

LEMMA AgentKeepsQueue ==
  ASSUME CallInv, QueueInv,
         EnsureStep \/ AgentGone \/ PinDropped \/ LockAll
           \/ \E i \in Epochs : LockStep(i)
  PROVE  QueueInv'
<1>0. TypeOK /\ Calls /\ Turns /\ Once BY DEF CallInv, QueueInv
<1>t. /\ load \in [Cards -> Stages]
      /\ add \in [Cards -> {"idle", "queued", "ensuring", "running", "wiping"}]
  BY <1>0 DEF TypeOK, AgentTypeOK
<1>1. CASE UNCHANGED <<queue, add, asked, load, waits>> /\ (ensuring' = "no" => ensuring = "no")
  BY <1>1 DEF QueueInv, Once, InQueue
<1>2. CASE AgentAnswers \/ AgentStarts
  <2>1. /\ UNCHANGED <<queue, asked, load>> /\ waits' = {}
        /\ add' = [c \in Cards |-> IF c \in waits /\ add[c] = "ensuring" THEN "running" ELSE add[c]]
    BY <1>2 DEF AgentAnswers, AgentStarts, ProbeAnswers, Spawned, Resume, coordinatorVars
  <2>2. Once' /\ \A d \in Cards : InQueue(d)' <=> InQueue(d)
    BY <1>0, <2>1 DEF Once, InQueue
  <2> QED BY <2>1, <2>2 DEF QueueInv
<1>3. CASE EnsureFails
  <2>1. /\ UNCHANGED asked /\ waits' = {}
        /\ queue' = IF queue # <<>> /\ add[Head(queue)] = "ensuring" THEN Tail(queue) ELSE queue
        /\ add' = [c \in Cards |-> IF add[c] = "ensuring" THEN "idle" ELSE add[c]]
        /\ load' = [c \in Cards |-> IF c \in waits THEN "idle" ELSE load[c]]
    BY <1>3 DEF EnsureFails, SpawnFails
  <2>2. Once' /\ \A d \in Cards : InQueue(d)' <=> InQueue(d) /\ add[d] # "ensuring"
    <3>1. \A d \in Cards : add[d] = "ensuring" => queue # <<>> /\ Head(queue) = d
      BY <1>0 DEF Turns, Active
    <3>2. CASE queue # <<>> /\ add[Head(queue)] = "ensuring"
      <4>1. Once' /\ \A d \in Cards : InQueue(d)' <=> InQueue(d) /\ d # Head(queue)
        BY <1>0, <2>1, <3>2, LeaveQueue
      <4> QED BY <3>1, <3>2, <4>1
    <3>3. CASE ~(queue # <<>> /\ add[Head(queue)] = "ensuring")
      <4>1. queue' = queue BY <2>1, <3>3
      <4>2. \A d \in Cards : InQueue(d)' <=> InQueue(d) BY <4>1 DEF InQueue
      <4>3. Once' BY <1>0, <4>1 DEF Once
      <4> QED BY <3>1, <3>3, <4>2, <4>3
    <3> QED BY <3>2, <3>3
  <2> QED BY <1>0, <1>t, <2>1, <2>2 DEF QueueInv, Calls
<1> QED
  BY <1>1, <1>2, <1>3
     DEF EnsureStep, AgentSilent, ProbeFails, AgentDiscarded, Discarded, AgentGone,
         AgentDies, PinDropped, PinRefused, LockAll, Lock, LockStep, WipeRuns, Wipe,
         LockEnds, agentVars, coordinatorVars

(* The safety half of LoadsEnd.  A connection that needs a card can take a *)
(* step, or awaits a start of the agent that is under way, or is in the    *)
(* queue behind a load of which the same holds: no lock, refusal, failure  *)
(* or restart leaves the queue with a head that will never go.             *)
THEOREM NoLoadIsLeftBehind == Spec => []LoadsGetOn
<1>1. Init => QueueInv
  BY DEF Init, AgentInit, QueueInv, Once, InQueue
<1>2. CallInv /\ QueueInv /\ [Next]_vars => QueueInv'
  <2> SUFFICES ASSUME CallInv, QueueInv, [Next]_vars PROVE QueueInv'
    OBVIOUS
  <2>1. CASE UNCHANGED vars
    BY <2>1 DEF vars, agentVars, coordinatorVars, QueueInv, Once, InQueue
  <2> QED BY <2>1, LoadKeepsQueue, AgentKeepsQueue DEF Next
<1>3. CallInv /\ QueueInv => LoadsGetOn
  <2> SUFFICES ASSUME CallInv, QueueInv, NEW c \in Cards, load[c] # "idle"
               PROVE  \/ AwaitsAgent(c)
                      \/ c \notin waits /\ load[c] \notin {"add", "trim"}
                      \/ HasTurn(c)
                      \/ add[c] = "queued" /\ InQueue(c) /\ HasTurn(Head(queue))
    BY DEF LoadsGetOn
  <2>0. TypeOK /\ Calls BY DEF CallInv
  <2>1. ASSUME NEW d \in Cards, add[d] # "idle", add[d] = "queued" => AtTurn(d)
        PROVE  HasTurn(d)
    <3>1. add[d] \in {"queued", "ensuring", "running", "wiping"}
      BY <2>0, <2>1 DEF TypeOK, AgentTypeOK
    <3>2. LockedOut(d) => load[d] = "add"
      BY <2>0, <2>1 DEF LockedOut, QueueInv, Calls
    <3> QED BY <2>1, <3>1, <3>2 DEF HasTurn, AwaitsAgent, QueueInv
  <2>2. CASE add[c] # "queued" /\ add[c] # "idle" BY <2>1, <2>2
  <2>3. CASE add[c] = "idle" BY <2>3 DEF QueueInv, AwaitsAgent
  <2>4. CASE add[c] = "queued"
    <3>1. InQueue(c) BY <2>4 DEF QueueInv
    <3>2. queue \in Seq(Cards) BY <2>0 DEF TypeOK, AgentTypeOK
    <3>3. /\ queue # <<>> /\ 1 \in DOMAIN queue
          /\ Head(queue) = queue[1] /\ Head(queue) \in Cards
      BY <3>1, <3>2 DEF InQueue
    <3>4. InQueue(Head(queue)) BY <3>3 DEF InQueue
    <3>5. add[Head(queue)] # "idle" BY <3>3, <3>4 DEF QueueInv
    <3>6. HasTurn(Head(queue)) BY <2>1, <3>3, <3>5 DEF AtTurn
    <3> QED BY <2>4, <3>1, <3>6
  <2> QED BY <2>2, <2>3, <2>4
<1>4. CallInv /\ LockInv => CallInv
  OBVIOUS
<1> QED
  BY <1>1, <1>2, <1>3, <1>4, SmartcardInvariant, PTL DEF Spec
=============================================================================
