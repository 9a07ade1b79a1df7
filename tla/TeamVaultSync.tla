---------------------------- MODULE TeamVaultSync ----------------------------
(***************************************************************************)
(* A Team Vault shared through one remote file by the machines of a team:  *)
(* services/TeamVaultService.ts with the format upgrade of                 *)
(* services/teamVaultFormat.ts and the poll of IpcBridge.ts.  The remote   *)
(* store has no conditional write: a push looks, compares, writes and      *)
(* looks again.  Edits, pushes and pulls of one machine run one at a time  *)
(* (queueMutation); unlock and lock do not wait for them.  Each await that *)
(* another step can come between ends a step.                              *)
(***************************************************************************)
EXTENDS Integers, FiniteSets

CONSTANTS
  Machines,    \* one per user of the team
  Recipients,  \* who can have a wrapped key in the access header
  Admins,      \* machines whose user is an admin, or keeps the recovery key
  Creator,     \* the machine the vault was created on
  FirstFormat, \* the format it was created in
  MaxEdits,    \* bound: changes made to the vault
  MaxWrites,   \* bound: writes of the remote file
  MaxOldWrites, \* bound: the last of them that may be in an older format
  MaxTroubles  \* bound: locks, failures, restarts and removals of the vault

ASSUME MachinesAssumption == Machines \subseteq Recipients /\ Creator \in Machines
ASSUME RecipientsAreFinite == IsFiniteSet(Recipients)
ASSUME BoundsAssumption == {MaxEdits, MaxWrites, MaxOldWrites, MaxTroubles} \subseteq Nat
ASSUME FormatAssumption == FirstFormat \in {1, 2}

CONSTANTS NoFile, NoKey, Unknown
ASSUME UnknownIsNoNumber == Unknown \notin Int
ASSUME NoKeyIsNoNumber == NoKey \notin Int

Keys == 1..(MaxEdits + 1)
CurrentFormat == 2

(* A vault file.  edits says which changes it contains, access the key     *)
(* wrapped for each entry of the access header; proof is the key that a    *)
(* prevKeyProof covering this very file was made with, and NoKey           *)
(* also when the proof covers an earlier version.                          *)
Files == [rev : Nat, edits : SUBSET Nat, access : [Recipients -> Keys \cup {NoKey}],
          key : Keys, mac : Keys, proof : Keys \cup {NoKey}, format : {1, 2}]

Members(file) == {r \in Recipients : file.access[r] # NoKey}

ASSUME NoFileIsNoFile == NoFile \notin Files

(* How far the queued operation of a machine is. *)
Steps == {"idle", "rotating", "pushing", "pushed", "pulling", "forcing",
          "joined", "rekeyed", "kept"}

VARIABLES
  local,      \* the vault file of each machine
  key,        \* unlockedVaultKey
  acting,     \* machines with an unlockedAsRecipientId
  unlocking,  \* the key that an unlock in progress will end with
  known,      \* lastKnownRemoteEntry: the number of the write, 0 for none
  synced,     \* lastSyncedRevision
  floor,      \* remoteFormatVersion, 0 for undefined
  step,
  look,       \* the number of the write the operation saw, or made
  got         \* the file a pull has read

machineVars == <<local, key, acting, unlocking, known, synced, floor, step, look, got>>

VARIABLES
  remote,     \* the file at the target
  writes,     \* writes of it so far
  edits,      \* changes made so far
  keys,       \* vault keys generated so far
  troubles    \* locks, failures, restarts and removals so far

counters == <<writes, edits, keys, troubles>>
worldVars == <<remote, counters>>

(* What the properties need to know of the past. *)
VARIABLES
  published,  \* edits that have been in the remote file
  recorded,   \* machines that recorded a push or a pull of the file they have
  blind,      \* those whose last record is of a write they have not read
  mixed       \* a key has been held, or kept, for a file it is not of

historyVars == <<published, recorded, blind, mixed>>
vars == <<machineVars, worldVars, historyVars>>

TypeOK ==
  /\ local \in [Machines -> Files \cup {NoFile}]
  /\ key \in [Machines -> Keys \cup {NoKey}]
  /\ acting \in SUBSET Machines
  /\ unlocking \in [Machines -> Keys \cup {NoKey}]
  /\ known \in [Machines -> Nat \cup {Unknown}]
  /\ synced \in [Machines -> Nat \cup {Unknown}]
  /\ floor \in [Machines -> 0..2]
  /\ step \in [Machines -> Steps]
  /\ look \in [Machines -> Nat]
  /\ got \in [Machines -> Files \cup {NoFile}]
  /\ remote \in Files \cup {NoFile}
  /\ writes \in 0..MaxWrites
  /\ edits \in 0..MaxEdits
  /\ keys \in Keys
  /\ troubles \in 0..MaxTroubles
  /\ published \in SUBSET Nat
  /\ recorded \in SUBSET Machines
  /\ blind \in SUBSET Machines
  /\ mixed \in BOOLEAN

(* createVault, and the members who were added before the first push. *)
FirstFile ==
  [rev |-> 1, edits |-> {}, access |-> [r \in Recipients |-> 1],
   key |-> 1, mac |-> 1, proof |-> NoKey, format |-> FirstFormat]

Init ==
  /\ local = [m \in Machines |-> IF m = Creator THEN FirstFile ELSE NoFile]
  /\ key = [m \in Machines |-> IF m = Creator THEN 1 ELSE NoKey]
  /\ acting = {Creator}
  /\ unlocking = [m \in Machines |-> NoKey]
  /\ known = [m \in Machines |-> Unknown]
  /\ synced = [m \in Machines |-> Unknown]
  /\ floor = [m \in Machines |-> 0]
  /\ step = [m \in Machines |-> "idle"]
  /\ look = [m \in Machines |-> 0]
  /\ got = [m \in Machines |-> NoFile]
  /\ remote = NoFile /\ writes = 0 /\ edits = 0 /\ keys = 1 /\ troubles = 0
  /\ published = {} /\ recorded = {} /\ blind = {} /\ mixed = FALSE

-----------------------------------------------------------------------------
(* Changes of the local file. *)

Idle(m) == step[m] = "idle" /\ local[m] # NoFile
Unlocked(m) == key[m] # NoKey
Admin(m) == Unlocked(m) /\ m \in acting /\ m \in Admins
CanDecrypt(m) == key[m] = local[m].key

(* The next revision of a machine's file, with one more change in it. *)
Revised(m) ==
  [local[m] EXCEPT !.rev = @ + 1, !.edits = @ \cup {edits + 1},
                   !.proof = NoKey]

Store(m, file) ==
  /\ edits < MaxEdits
  /\ local' = [local EXCEPT ![m] = file]
  /\ edits' = edits + 1

(* persistPayload: the shared profiles, folders and icons. *)
EditPayload(m) ==
  /\ Idle(m) /\ Unlocked(m) /\ m \in acting /\ CanDecrypt(m)
  /\ Store(m, [Revised(m) EXCEPT !.mac = key[m]])
  /\ UNCHANGED <<key, acting, unlocking, known, synced, floor, step, look, got,
                 remote, writes, keys, troubles, historyVars>>

(* commitHeaderMutation: the name, the description, a role, a new member.  *)
(* Nothing is decrypted, so nothing compares the key with the file's.       *)
(* addMember waits for the age binary between its checks and its write; it  *)
(* has its turn of the queue then, and only a lock can come in between.     *)
EditHeader(m) ==
  /\ Idle(m) /\ Admin(m)
  /\ \/ Store(m, [Revised(m) EXCEPT !.mac = key[m]])
     \/ \E r \in Recipients \ Members(local[m]) :
          Store(m, [Revised(m) EXCEPT !.mac = key[m], !.access[r] = key[m]])
  /\ UNCHANGED <<key, acting, unlocking, known, synced, floor, step, look, got,
                 remote, writes, keys, troubles, historyVars>>

(* removeMember wraps a new key for everyone who stays before it writes. *)
RemoveMember(m) ==
  /\ Idle(m) /\ Admin(m) /\ CanDecrypt(m)
  /\ step' = [step EXCEPT ![m] = "rotating"]
  /\ UNCHANGED <<local, key, acting, unlocking, known, synced, floor, look, got,
                 worldVars, historyVars>>

(* The new key is held once the file is written, even if a lock came first. *)
Rotate(m) ==
  /\ step[m] = "rotating"
  /\ \E gone \in Members(local[m]) :
       Store(m, [Revised(m) EXCEPT !.key = keys + 1, !.mac = keys + 1,
              !.proof = local[m].key,
              !.access = [r \in Recipients |->
                 IF r \in Members(local[m]) \ {gone} THEN keys + 1 ELSE NoKey]])
  /\ keys' = keys + 1
  /\ key' = [key EXCEPT ![m] = keys + 1]
  /\ step' = [step EXCEPT ![m] = "idle"]
  /\ UNCHANGED <<acting, unlocking, known, synced, floor, look, got, remote, writes,
                 troubles, historyVars>>

(* upgradeFormatIfNeeded: same revision, and not if the MAC is not ours.   *)
(* The MAC of the new format covers more, so no older proof covers it.     *)
UpgradeFormat(m) ==
  /\ Idle(m) /\ Unlocked(m)
  /\ local[m].format < CurrentFormat
  /\ local[m].mac = key[m] /\ CanDecrypt(m)
  /\ local' = [local EXCEPT ![m].format = CurrentFormat, ![m].proof = NoKey]
  /\ UNCHANGED <<key, acting, unlocking, known, synced, floor, step, look, got,
                 worldVars, historyVars>>

-----------------------------------------------------------------------------
(* The held key.  None of these waits for the queue. *)

Hold(m, k) == key' = [key EXCEPT ![m] = k]

(* Bounded, because it can happen at any time. *)
Trouble == troubles < MaxTroubles /\ troubles' = troubles + 1

Lock(m) ==
  /\ Unlocked(m) /\ Trouble
  /\ Hold(m, NoKey)
  /\ acting' = acting \ {m}
  /\ UNCHANGED <<local, unlocking, known, synced, floor, step, look, got,
                 remote, writes, edits, keys, historyVars>>

(* What the card of a member, or the recovery key, unwraps. *)
Unwrapped(m) ==
  ({local[m].access[m]} \ {NoKey}) \cup {local[m].key : a \in Admins \cap {m}}

(* The views offer it for a locked vault.                                  *)
(* The file is read before the card asks for its PIN and for a touch; the  *)
(* key is checked against that file, not against the one there by then.    *)
Unlock(m) ==
  /\ local[m] # NoFile /\ ~ Unlocked(m) /\ unlocking[m] = NoKey
  /\ \E k \in Unwrapped(m) :
       k = local[m].mac /\ unlocking' = [unlocking EXCEPT ![m] = k]
  /\ UNCHANGED <<local, key, acting, known, synced, floor, step, look, got,
                 worldVars, historyVars>>

CompleteUnlock(m) ==
  /\ unlocking[m] # NoKey
  /\ unlocking' = [unlocking EXCEPT ![m] = NoKey]
  /\ Hold(m, unlocking[m])
  /\ acting' = acting \cup {m}
  /\ mixed' = (mixed \/ local[m] = NoFile \/ unlocking[m] # local[m].key)
  /\ UNCHANGED <<local, known, synced, floor, step, look, got, worldVars,
                 published, recorded, blind>>

(* The prompt is dismissed, or the card is not there. *)
FailUnlock(m) ==
  /\ unlocking[m] # NoKey
  /\ unlocking' = [unlocking EXCEPT ![m] = NoKey]
  /\ UNCHANGED <<local, key, acting, known, synced, floor, step, look, got,
                 worldVars, historyVars>>

-----------------------------------------------------------------------------
(* Push. *)

Go(m, s) == step' = [step EXCEPT ![m] = s]
Look(m, n) == look' = [look EXCEPT ![m] = n]
Fetch(m, file) == got' = [got EXCEPT ![m] = file]

(* A remote file that was never observed is not compared with. *)
FreshIfSeen(m) == known[m] = Unknown \/ remote # NoFile   \* a mutant: only that it is there
Fresh(m) == known[m] \in {Unknown, writes}

(* The state of the remote file and, for the format check, the file itself. *)
PushLook(m) ==
  /\ Idle(m)
  /\ remote # NoFile => remote.format <= local[m].format
  /\ Fresh(m)
  /\ Go(m, "pushing") /\ Look(m, writes)
  /\ UNCHANGED <<local, key, acting, unlocking, known, synced, floor, got,
                 worldVars, historyVars>>

PushWrite(m) ==
  /\ step[m] = "pushing"
  /\ writes < MaxWrites
  /\ local[m].format < CurrentFormat => writes < MaxOldWrites
  /\ remote' = local[m]
  /\ writes' = writes + 1
  /\ published' = published \cup local[m].edits
  /\ Go(m, "pushed") /\ Look(m, writes + 1)
  /\ UNCHANGED <<local, key, acting, unlocking, known, synced, floor, got,
                 edits, keys, troubles, recorded, blind, mixed>>

(* setLastKnownRemoteEntry, with what the store says of the file by now.    *)
(* That the write of the configuration fails, which the code passes over    *)
(* (567-572), or its reading after a restart (544), is left out.            *)
Record(m, format) ==
  /\ known' = [known EXCEPT ![m] = writes]
  /\ synced' = [synced EXCEPT ![m] = local[m].rev]
  /\ floor' = [floor EXCEPT ![m] = IF format > @ THEN format ELSE @]
  /\ recorded' = recorded \cup {m}
  /\ blind' = IF look[m] = writes THEN blind \ {m} ELSE blind \cup {m}
  /\ Go(m, "idle") /\ Look(m, 0)

PushRecord(m) ==
  /\ step[m] = "pushed"
  /\ Record(m, local[m].format)
  /\ UNCHANGED <<local, key, acting, unlocking, got, worldVars, published, mixed>>

-----------------------------------------------------------------------------
(* Pull. *)

(* hasUnpushedLocalChanges; a revision that was never synced counts as pushed. *)
HasUnpushed(m) == synced[m] \notin {Unknown, local[m].rev}

RemoteChanged(m) ==
  IF known[m] = Unknown THEN remote # NoFile ELSE known[m] # writes

PullLook(m, s) ==
  /\ step[m] = "idle" /\ remote # NoFile
  /\ Go(m, s) /\ Look(m, writes) /\ Fetch(m, remote)
  /\ UNCHANGED <<local, key, acting, unlocking, known, synced, floor,
                 worldVars, historyVars>>

(* The user pulls, joins with it, or pulls anyway. *)
Pull(m) == PullLook(m, "pulling")
ForcedPull(m) == local[m] # NoFile /\ PullLook(m, "forcing")

(* runTeamVaultAutoPoll *)
Poll(m) ==
  /\ Unlocked(m) /\ RemoteChanged(m) /\ local[m] # NoFile /\ ~ HasUnpushed(m)
  /\ PullLook(m, "pulling")

(* A header with no fewer entries must be signed with the held key. *)
NewMemberClaimed(m) ==   \* a mutant: an equal number does not count
  Cardinality(Members(got[m])) > Cardinality(Members(local[m]))
SameKeyClaimed(m) ==
  Cardinality(Members(got[m])) >= Cardinality(Members(local[m]))

Accepts(m) ==
  /\ got[m].format >= floor[m]
  /\ local[m] # NoFile =>
       /\ got[m].format >= local[m].format \/ got[m].rev > local[m].rev
       /\ Unlocked(m)
       /\ step[m] = "forcing" \/ ~ HasUnpushed(m)
       /\ got[m].rev >= local[m].rev
       /\ key[m] = IF SameKeyClaimed(m) THEN got[m].mac ELSE got[m].proof

PullTake(m) ==
  /\ step[m] \in {"pulling", "forcing"} /\ Accepts(m)
  /\ local' = [local EXCEPT ![m] = got[m]]
  /\ Go(m, IF local[m] = NoFile THEN "joined"
           ELSE IF SameKeyClaimed(m) THEN "kept" ELSE "rekeyed")
  /\ Fetch(m, NoFile)
  /\ UNCHANGED <<key, acting, unlocking, known, synced, floor, look,
                 worldVars, historyVars>>

(* One of the checks fails, each with an error of its own. *)
PullRefuse(m) ==
  /\ step[m] \in {"pulling", "forcing"} /\ ~ Accepts(m)
  /\ Go(m, "idle") /\ Look(m, 0) /\ Fetch(m, NoFile)
  /\ UNCHANGED <<local, key, acting, unlocking, known, synced, floor,
                 worldVars, historyVars>>

(* A mutant: the key stays although it was rotated away from. *)
PullRecordKeepsKey(m) ==
  /\ step[m] \in {"joined", "rekeyed", "kept"}
  /\ Record(m, IF step[m] = "joined" THEN 0 ELSE local[m].format)
  /\ UNCHANGED <<local, key, acting, unlocking, got, worldVars, published, mixed>>

(* The key is dropped unless the file was signed with it. *)
PullRecord(m) ==
  /\ step[m] \in {"joined", "rekeyed", "kept"}
  /\ Record(m, IF step[m] = "joined" THEN 0 ELSE local[m].format)
  /\ IF step[m] = "kept" THEN UNCHANGED <<key, acting>>
     ELSE Hold(m, NoKey) /\ acting' = acting \ {m}
  /\ UNCHANGED <<local, unlocking, got, worldVars, published, mixed>>

-----------------------------------------------------------------------------
(* Failures, and the ends of a vault on a machine. *)

(* The network or the disk fails: after a write, nothing of it is recorded, *)
(* and after a pull that brought a new key the old one stays held.         *)
Fail(m) ==
  /\ step[m] # "idle" /\ Trouble
  /\ Go(m, "idle") /\ Look(m, 0) /\ Fetch(m, NoFile)
  /\ mixed' = (mixed \/ (step[m] = "rekeyed" /\ Unlocked(m)))
  /\ UNCHANGED <<local, key, acting, unlocking, known, synced, floor,
                 remote, writes, edits, keys, published, recorded, blind>>

(* A mutant: hydratedState does not restore lastSyncedRevision. *)
RestartForgets(m) ==
  /\ Trouble
  /\ Hold(m, NoKey)
  /\ synced' = [synced EXCEPT ![m] = Unknown]
  /\ acting' = acting \ {m}
  /\ unlocking' = [unlocking EXCEPT ![m] = NoKey]
  /\ Go(m, "idle") /\ Look(m, 0) /\ Fetch(m, NoFile)
  /\ UNCHANGED <<local, known, floor, remote, writes, edits, keys, historyVars>>

(* Files and what setLastKnownRemoteEntry stored survive; the key does not. *)
Restart(m) ==
  /\ Trouble
  /\ Hold(m, NoKey)
  /\ acting' = acting \ {m}
  /\ unlocking' = [unlocking EXCEPT ![m] = NoKey]
  /\ Go(m, "idle") /\ Look(m, 0) /\ Fetch(m, NoFile)
  /\ UNCHANGED <<local, known, synced, floor, remote, writes, edits, keys, historyVars>>

(* deleteVault leaves the sync state in the configuration. *)
Delete(m) ==
  /\ Idle(m) /\ Admin(m) /\ Trouble
  /\ local' = [local EXCEPT ![m] = NoFile]
  /\ Hold(m, NoKey)
  /\ acting' = acting \ {m}
  /\ recorded' = recorded \ {m}
  /\ UNCHANGED <<unlocking, known, synced, floor, step, look, got,
                 remote, writes, edits, keys, published, blind, mixed>>

(* forgetLocalVault, and the configuration with it. *)
Forget(m) ==
  /\ Idle(m) /\ ~ Unlocked(m) /\ Trouble
  /\ local' = [local EXCEPT ![m] = NoFile]
  /\ known' = [known EXCEPT ![m] = Unknown]
  /\ synced' = [synced EXCEPT ![m] = Unknown]
  /\ floor' = [floor EXCEPT ![m] = 0]
  /\ recorded' = recorded \ {m}
  /\ UNCHANGED <<key, acting, unlocking, step, look, got,
                 remote, writes, edits, keys, published, blind, mixed>>

Next == \E m \in Machines :
  \/ EditPayload(m) \/ EditHeader(m) \/ RemoveMember(m) \/ Rotate(m)
  \/ UpgradeFormat(m) \/ Lock(m) \/ Unlock(m) \/ CompleteUnlock(m) \/ FailUnlock(m)
  \/ PushLook(m) \/ PushWrite(m) \/ PushRecord(m)
  \/ Pull(m) \/ ForcedPull(m) \/ Poll(m) \/ PullTake(m) \/ PullRefuse(m) \/ PullRecord(m)
  \/ Fail(m) \/ Restart(m) \/ Delete(m) \/ Forget(m)

Spec == Init /\ [][Next]_vars

-----------------------------------------------------------------------------
(* Safety. *)

(* The key a machine holds is the one its file is encrypted with, and every *)
(* file this code wrote verifies with its own key, so that nobody is locked *)
(* out: as long as no unlock was answered after the key it read had changed *)
(* and no pull broke off between taking a new key's file and locking.       *)
KeysAgree ==
  ~ mixed =>
    /\ \A m \in Machines :
         /\ Unlocked(m) /\ local[m] # NoFile /\ step[m] # "rekeyed" => CanDecrypt(m)
         /\ local[m] # NoFile => local[m].mac = local[m].key
    /\ remote # NoFile => remote.mac = remote.key

(* A push may replace a file it did not look at only if another write came  *)
(* in between, or if the machine recorded an earlier one it never read, or  *)
(* never recorded any: in every other case all changes in the file replaced *)
(* are in the new one.                                                      *)
Informed(m) == m \in recorded \ blind /\ look[m] = writes
PushKeepsEdits ==
  [][\A m \in Machines :
       /\ step[m] = "pushing" /\ step'[m] = "pushed"
       /\ Informed(m) /\ remote # NoFile
       => remote.edits \subseteq remote'.edits]_vars

(* Changes that were never published leave a machine's file only when the   *)
(* user pulls anyway or removes the vault from the machine, whatever call   *)
(* to the store failed or which machine restarted in between.  A machine    *)
(* that never recorded a sync takes any pull and is left out, and so is one *)
(* whose record of it was not written or not read (567-572, 544).           *)
UnpushedNeedForce ==
  [][\A m \in recorded :
       /\ local[m] # NoFile /\ local'[m] # NoFile /\ step[m] # "forcing"
       => local[m].edits \ local'[m].edits \subseteq published]_vars

(* One removal was missed, made with the held key and not followed by a     *)
(* change: the only change missed, or, if there were others, somebody the   *)
(* machine knew is gone and nobody new has come.                            *)
MissedRemoval(m) ==
  /\ key[m] = got[m].proof
  /\ \/ got[m].rev = local[m].rev + 1
     \/ /\ Members(got[m]) \subseteq Members(local[m])
        /\ Members(got[m]) # Members(local[m])

(* No false alarm: a pull on an unlocked machine with nothing unpushed is   *)
(* accepted when the remote file is in the current format, has lost no      *)
(* change, and is under the held key or one missed removal away from it.    *)
HonestPullAccepted ==
  \A m \in Machines :
    /\ step[m] = "pulling" /\ local[m] # NoFile /\ Unlocked(m) /\ ~ HasUnpushed(m)
    /\ m \in recorded
    /\ got[m].format = CurrentFormat /\ published \subseteq got[m].edits
    /\ key[m] = got[m].key \/ MissedRemoval(m)
    /\ ~ mixed
    => Accepts(m)
=============================================================================
