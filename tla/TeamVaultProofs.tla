--------------------------- MODULE TeamVaultProofs ---------------------------
(***************************************************************************)
(* Proofs about TeamVaultSync, for any team and any bounds.                *)
(***************************************************************************)
EXTENDS TeamVaultSync, FiniteSetTheorems, TLAPS

-----------------------------------------------------------------------------
(* Type correctness. *)

(* What the steps of an operation rely on: it has a file to work on.       *)
Working ==
  /\ keys <= edits + 1
  /\ \A m \in Machines :
       /\ step[m] \in {"pulling", "forcing"} => got[m] # NoFile
       /\ step[m] \in {"rotating", "pushing", "pushed", "joined", "rekeyed", "kept"}
            => local[m] # NoFile

TypeInv == TypeOK /\ Working

(* The next revision of a file is a file. *)
LEMMA RevisedTyped ==
  ASSUME TypeOK, NEW m \in Machines, local[m] # NoFile
  PROVE  /\ local[m] \in Files
         /\ Revised(m) \in Files
         /\ Revised(m).rev = local[m].rev + 1
         /\ Revised(m).edits = local[m].edits \cup {edits + 1}
         /\ Revised(m).access = local[m].access
         /\ Revised(m).key = local[m].key
         /\ Revised(m).format = local[m].format
         /\ Revised(m).proof = NoKey
<1>1. local[m] \in Files BY DEF TypeOK
<1>2. edits + 1 \in Nat BY BoundsAssumption DEF TypeOK
<1>3. local[m].edits \cup {edits + 1} \in SUBSET Nat BY <1>1, <1>2 DEF Files
<1>4. local[m].rev + 1 \in Nat BY <1>1 DEF Files
<1>5. Revised(m) = [local[m] EXCEPT !.rev = local[m].rev + 1,
         !.edits = local[m].edits \cup {edits + 1}, !.proof = NoKey]
  BY DEF Revised
<1> QED BY <1>1, <1>3, <1>4, <1>5 DEF Files

(* What a change stores is a file, with the changes there were and one more. *)
LEMMA StoreTyped ==
  ASSUME TypeOK, NEW m \in Machines, NEW file \in Files, Store(m, file)
  PROVE  /\ local' \in [Machines -> Files \cup {NoFile}]
         /\ local'[m] = file /\ file # NoFile
         /\ \A n \in Machines \ {m} : local'[n] = local[n]
         /\ edits' \in 0..MaxEdits /\ edits' = edits + 1
BY NoFileIsNoFile, BoundsAssumption DEF Store, TypeOK

(* The file that each change stores. *)
LEMMA PayloadStored ==
  ASSUME TypeOK, NEW m \in Machines, EditPayload(m)
  PROVE  \E file \in Files :
           /\ Store(m, file) /\ file.rev = local[m].rev + 1
           /\ file.edits = local[m].edits \cup {edits + 1}
           /\ file.key = local[m].key /\ file.mac = key[m] /\ file.proof = NoKey
           /\ Members(local[m]) \subseteq Members(file)
<1>1. local[m] # NoFile /\ key[m] \in Keys BY DEF EditPayload, Idle, Unlocked, TypeOK
<1> DEFINE file == [Revised(m) EXCEPT !.mac = key[m]]
<1>2. /\ file \in Files /\ file.rev = local[m].rev + 1
      /\ file.edits = local[m].edits \cup {edits + 1}
      /\ file.key = local[m].key /\ file.mac = key[m] /\ file.proof = NoKey
      /\ file.access = local[m].access
  BY <1>1, RevisedTyped DEF Files
<1> QED BY <1>2 DEF EditPayload, Members

LEMMA HeaderStored ==
  ASSUME TypeOK, NEW m \in Machines, EditHeader(m)
  PROVE  \E file \in Files :
           /\ Store(m, file) /\ file.rev = local[m].rev + 1
           /\ file.edits = local[m].edits \cup {edits + 1}
           /\ file.key = local[m].key /\ file.mac = key[m] /\ file.proof = NoKey
           /\ Members(local[m]) \subseteq Members(file)
<1>1. local[m] # NoFile /\ key[m] \in Keys BY DEF EditHeader, Idle, Admin, Unlocked, TypeOK
<1>2. CASE Store(m, [Revised(m) EXCEPT !.mac = key[m]])
  <2> DEFINE file == [Revised(m) EXCEPT !.mac = key[m]]
  <2>1. /\ file \in Files /\ file.rev = local[m].rev + 1
        /\ file.edits = local[m].edits \cup {edits + 1}
        /\ file.key = local[m].key /\ file.mac = key[m] /\ file.proof = NoKey
        /\ file.access = local[m].access
    BY <1>1, RevisedTyped DEF Files
  <2> QED BY <1>2, <2>1 DEF Members
<1>3. CASE \E r \in Recipients \ Members(local[m]) :
             Store(m, [Revised(m) EXCEPT !.mac = key[m], !.access[r] = key[m]])
  <2>1. PICK r \in Recipients :
          Store(m, [Revised(m) EXCEPT !.mac = key[m], !.access[r] = key[m]])
    BY <1>3
  <2> DEFINE file == [Revised(m) EXCEPT !.mac = key[m], !.access[r] = key[m]]
  <2>2. /\ file \in Files /\ file.rev = local[m].rev + 1
        /\ file.edits = local[m].edits \cup {edits + 1}
        /\ file.key = local[m].key /\ file.mac = key[m] /\ file.proof = NoKey
    BY <1>1, RevisedTyped DEF Files
  <2>3. Members(local[m]) \subseteq Members(file)
    <3>1. local[m].access \in [Recipients -> Keys \cup {NoKey}] /\ local[m].rev \in Nat
      BY <1>1, RevisedTyped DEF Files
    <3>2. file.access = [local[m].access EXCEPT ![r] = key[m]]
      BY <1>1, RevisedTyped DEF Files
    <3>3. key[m] # NoKey BY DEF EditHeader, Admin, Unlocked
    <3> HIDE DEF file
    <3> QED BY <3>1, <3>2, <3>3 DEF Members
  <2> QED BY <2>1, <2>2, <2>3
<1> QED BY <1>2, <1>3 DEF EditHeader

LEMMA RotationStored ==
  ASSUME TypeInv, NEW m \in Machines, Rotate(m)
  PROVE  /\ keys + 1 \in Keys /\ local[m] # NoFile
         /\ \E file \in Files :
              /\ Store(m, file) /\ file.rev = local[m].rev + 1
              /\ file.edits = local[m].edits \cup {edits + 1}
              /\ file.key = keys + 1 /\ file.mac = keys + 1
              /\ file.proof = local[m].key
              /\ \E gone \in Members(local[m]) :
                   Members(file) = Members(local[m]) \ {gone}
<1>1. local[m] # NoFile BY DEF Rotate, TypeInv, Working
<1>2. edits < MaxEdits /\ keys + 1 \in Keys
  BY BoundsAssumption DEF Rotate, Store, TypeInv, TypeOK, Working, Keys
<1>3. local[m].key \in Keys BY <1>1, RevisedTyped DEF TypeInv, Files
<1>4. PICK gone \in Members(local[m]) :
        Store(m, [Revised(m) EXCEPT !.key = keys + 1, !.mac = keys + 1,
               !.proof = local[m].key,
               !.access = [r \in Recipients |->
                  IF r \in Members(local[m]) \ {gone} THEN keys + 1 ELSE NoKey]])
  BY DEF Rotate
<1> DEFINE access == [r \in Recipients |->
             IF r \in Members(local[m]) \ {gone} THEN keys + 1 ELSE NoKey]
           file == [Revised(m) EXCEPT !.key = keys + 1, !.mac = keys + 1,
                    !.proof = local[m].key, !.access = access]
<1>5. access \in [Recipients -> Keys \cup {NoKey}] BY <1>2
<1> HIDE DEF access
<1>6. /\ file \in Files /\ file.rev = local[m].rev + 1
      /\ file.edits = local[m].edits \cup {edits + 1}
      /\ file.key = keys + 1 /\ file.mac = keys + 1
      /\ file.proof = local[m].key /\ file.access = access
  <2>1. Revised(m) \in Files /\ Revised(m).rev = local[m].rev + 1
        /\ Revised(m).edits = local[m].edits \cup {edits + 1}
    BY <1>1, RevisedTyped DEF TypeInv
  <2> QED BY <1>2, <1>3, <1>5, <2>1 DEF Files
<1>7. Members(file) = Members(local[m]) \ {gone}
  <2>1. keys + 1 # NoKey BY <1>2, NoKeyIsNoNumber DEF Keys
  <2> HIDE DEF file
  <2> QED BY <1>6, <2>1 DEF access, Members
<1> QED BY <1>1, <1>2, <1>4, <1>6, <1>7 DEF access

LEMMA FirstFileTyped == FirstFile \in Files
<1>1. 1 \in Keys BY BoundsAssumption DEF Keys
<1>2. [r \in Recipients |-> 1] \in [Recipients -> Keys \cup {NoKey}] BY <1>1
<1> QED BY <1>1, <1>2, FormatAssumption DEF FirstFile, Files

LEMMA InitTyped == Init => TypeInv
<1> SUFFICES ASSUME Init PROVE TypeInv OBVIOUS
<1>1. 1 \in Keys /\ 0 \in 0..MaxEdits /\ 0 \in 0..MaxWrites /\ 0 \in 0..MaxTroubles
  BY BoundsAssumption DEF Keys
<1>3. FirstFile \in Files BY FirstFileTyped
<1>4. Creator \in Machines BY MachinesAssumption
<1>5. TypeOK
  <2>1. /\ local \in [Machines -> Files \cup {NoFile}]
        /\ key \in [Machines -> Keys \cup {NoKey}]
        /\ acting \in SUBSET Machines
        /\ unlocking \in [Machines -> Keys \cup {NoKey}]
        /\ got \in [Machines -> Files \cup {NoFile}]
    BY <1>1, <1>3, <1>4 DEF Init
  <2>2. /\ known \in [Machines -> Nat \cup {Unknown}]
        /\ synced \in [Machines -> Nat \cup {Unknown}]
        /\ floor \in [Machines -> 0..2]
        /\ step \in [Machines -> Steps]
        /\ look \in [Machines -> Nat]
    BY DEF Init, Steps
  <2>3. /\ remote \in Files \cup {NoFile} /\ writes \in 0..MaxWrites
        /\ edits \in 0..MaxEdits /\ keys \in Keys /\ troubles \in 0..MaxTroubles
        /\ published \in SUBSET Nat /\ recorded \in SUBSET Machines
        /\ blind \in SUBSET Machines /\ mixed \in BOOLEAN
    BY <1>1 DEF Init
  <2> QED BY <2>1, <2>2, <2>3 DEF TypeOK
<1>6. Working BY DEF Init, Working
<1> QED BY <1>5, <1>6 DEF TypeInv

(* What a change stores keeps the types. *)
LEMMA StoreKeeps ==
  ASSUME TypeInv, NEW m \in Machines, NEW file \in Files, Store(m, file),
         step' \in [Machines -> Steps],
         \A n \in Machines : step'[n] # "idle" => step'[n] = step[n],
         key' \in [Machines -> Keys \cup {NoKey}],
         keys' \in Keys, keys' <= keys + 1,
         UNCHANGED <<acting, unlocking, known, synced, floor, look, got, remote, writes,
                     troubles, historyVars>>
  PROVE  TypeInv'
<1>1. /\ local' \in [Machines -> Files \cup {NoFile}]
      /\ local'[m] # NoFile /\ \A n \in Machines \ {m} : local'[n] = local[n]
      /\ edits' \in 0..MaxEdits /\ edits' = edits + 1
  BY StoreTyped DEF TypeInv
<1>2. TypeOK' BY <1>1 DEF TypeInv, TypeOK, historyVars
<1>3. keys' <= edits' + 1
  BY <1>1, BoundsAssumption DEF TypeInv, TypeOK, Working, Keys
<1>4. \A n \in Machines :
        /\ step'[n] \in {"pulling", "forcing"} => got'[n] # NoFile
        /\ step'[n] \in {"rotating", "pushing", "pushed", "joined", "rekeyed", "kept"}
             => local'[n] # NoFile
  BY <1>1 DEF TypeInv, Working
<1> QED BY <1>2, <1>3, <1>4 DEF TypeInv, Working

(* A change of the local file. *)
LEMMA ChangeTyped ==
  ASSUME TypeInv, NEW m \in Machines,
         \/ EditPayload(m) \/ EditHeader(m) \/ RemoveMember(m) \/ Rotate(m)
         \/ UpgradeFormat(m)
  PROVE  TypeInv'
<1> USE DEF TypeInv
<1>1. CASE EditPayload(m)
  <2>1. PICK file \in Files : Store(m, file) BY <1>1, PayloadStored
  <2>2. UNCHANGED <<key, acting, unlocking, known, synced, floor, step, look, got,
                    remote, writes, keys, troubles, historyVars>>
    BY <1>1, Zenon DEF EditPayload
  <2>3. keys' <= keys + 1 BY <2>2 DEF TypeOK, Keys
  <2> QED BY <2>1, <2>2, <2>3, StoreKeeps DEF TypeOK
<1>2. CASE EditHeader(m)
  <2>1. PICK file \in Files : Store(m, file) BY <1>2, HeaderStored
  <2>2. UNCHANGED <<key, acting, unlocking, known, synced, floor, step, look, got,
                    remote, writes, keys, troubles, historyVars>>
    BY <1>2, Zenon DEF EditHeader
  <2>3. keys' <= keys + 1 BY <2>2 DEF TypeOK, Keys
  <2> QED BY <2>1, <2>2, <2>3, StoreKeeps DEF TypeOK
<1>3. CASE RemoveMember(m)
  BY <1>3 DEF RemoveMember, Idle, TypeOK, Working, Steps, worldVars, counters, historyVars
<1>4. CASE Rotate(m)
  <2>1. PICK file \in Files : Store(m, file) BY <1>4, RotationStored
  <2>2. keys + 1 \in Keys BY <1>4, RotationStored
  <2>3. /\ step' = [step EXCEPT ![m] = "idle"]
        /\ key' = [key EXCEPT ![m] = keys + 1] /\ keys' = keys + 1
        /\ UNCHANGED <<acting, unlocking, known, synced, floor, look, got, remote, writes,
                      troubles, historyVars>>
    BY <1>4 DEF Rotate
  <2>4. /\ step' \in [Machines -> Steps] /\ key' \in [Machines -> Keys \cup {NoKey}]
        /\ \A n \in Machines : step'[n] # "idle" => step'[n] = step[n]
        /\ keys' \in Keys /\ keys' <= keys + 1
    BY <2>2, <2>3 DEF TypeOK, Steps, Keys
  <2> QED BY <2>1, <2>3, <2>4, StoreKeeps
<1>5. CASE UpgradeFormat(m)
  <2>1. local[m] \in Files BY <1>5 DEF UpgradeFormat, Idle, TypeOK
  <2> DEFINE file == [local[m] EXCEPT !.format = CurrentFormat, !.proof = NoKey]
  <2>2. file \in Files BY <2>1 DEF Files, CurrentFormat
  <2>3. local' = [local EXCEPT ![m] = file] BY <1>5, <2>1 DEF UpgradeFormat, TypeOK
  <2> HIDE DEF file
  <2>4. UNCHANGED <<key, acting, unlocking, known, synced, floor, step, look, got,
                    worldVars, historyVars>>
    BY <1>5, Zenon DEF UpgradeFormat
  <2>5. \A n \in Machines : local[n] # NoFile => local'[n] # NoFile
    BY <2>2, <2>3, NoFileIsNoFile DEF TypeOK
  <2>6. TypeOK' BY <2>2, <2>3, <2>4 DEF TypeOK, worldVars, counters, historyVars
  <2> QED BY <2>3, <2>4, <2>5, <2>6 DEF Working, worldVars, counters
<1> QED BY <1>1, <1>2, <1>3, <1>4, <1>5

(* A step of the held key. *)
LEMMA KeyTyped ==
  ASSUME TypeInv, NEW m \in Machines,
         Lock(m) \/ Unlock(m) \/ CompleteUnlock(m) \/ FailUnlock(m)
  PROVE  TypeInv'
<1> USE DEF TypeInv, TypeOK, Working, Hold, worldVars, counters, historyVars
<1>1. CASE Lock(m) BY <1>1, BoundsAssumption DEF Lock, Trouble
<1>2. CASE Unlock(m)
  <2>1. local[m] \in Files BY <1>2 DEF Unlock
  <2>2. unlocking' \in [Machines -> Keys \cup {NoKey}] BY <1>2, <2>1 DEF Unlock, Files
  <2> QED BY <1>2, <2>2 DEF Unlock
<1>3. CASE CompleteUnlock(m)
  <2>1. mixed' \in BOOLEAN BY <1>3 DEF CompleteUnlock
  <2> QED BY <1>3, <2>1 DEF CompleteUnlock
<1>4. CASE FailUnlock(m) BY <1>4 DEF FailUnlock
<1> QED BY <1>1, <1>2, <1>3, <1>4

(* What is recorded of the remote file has the right types. *)
LEMMA RecordTyped ==
  ASSUME TypeInv, NEW m \in Machines, local[m] # NoFile, NEW f \in 0..2, Record(m, f)
  PROVE  /\ known' \in [Machines -> Nat \cup {Unknown}]
         /\ synced' \in [Machines -> Nat \cup {Unknown}]
         /\ floor' \in [Machines -> 0..2]
         /\ recorded' \in SUBSET Machines /\ blind' \in SUBSET Machines
         /\ step' \in [Machines -> Steps] /\ look' \in [Machines -> Nat]
         /\ step' = [step EXCEPT ![m] = "idle"]
<1>1. local[m].rev \in Nat BY DEF TypeInv, TypeOK, Files
<1>2. writes \in Nat BY BoundsAssumption DEF TypeInv, TypeOK
<1>3. floor' \in [Machines -> 0..2] BY DEF Record, TypeInv, TypeOK
<1>4. blind' \in SUBSET Machines /\ recorded' \in SUBSET Machines
  BY DEF Record, TypeInv, TypeOK
<1> QED BY <1>1, <1>2, <1>3, <1>4 DEF Record, TypeInv, TypeOK, Go, Look, Steps

(* A step of a push or of a pull. *)
LEMMA SyncTyped ==
  ASSUME TypeInv, NEW m \in Machines,
         \/ PushLook(m) \/ PushWrite(m) \/ PushRecord(m)
         \/ Pull(m) \/ ForcedPull(m) \/ Poll(m)
         \/ PullTake(m) \/ PullRefuse(m) \/ PullRecord(m)
  PROVE  TypeInv'
<1> USE DEF TypeInv, TypeOK, Working, Go, Look, Fetch, Steps, worldVars, counters,
            historyVars
<1>0. writes \in Nat BY BoundsAssumption
<1>1. CASE PushLook(m) BY <1>0, <1>1 DEF PushLook, Idle
<1>2. CASE PushWrite(m)
  <2>1. local[m] \in Files BY <1>2 DEF PushWrite
  <2>2. writes' \in 0..MaxWrites BY <1>0, <1>2, BoundsAssumption DEF PushWrite
  <2>3. published' \in SUBSET Nat BY <1>2, <2>1 DEF PushWrite, Files
  <2> QED BY <1>0, <1>2, <2>1, <2>2, <2>3 DEF PushWrite
<1>3. CASE PushRecord(m)
  <2>1. local[m] # NoFile /\ local[m].format \in 0..2 BY <1>3 DEF PushRecord, Files
  <2> QED BY <1>3, <2>1, RecordTyped DEF PushRecord
<1>4. CASE \E s \in {"pulling", "forcing"} : PullLook(m, s)
  BY <1>0, <1>4 DEF PullLook
<1>5. CASE PullTake(m)
  <2>1. got[m] \in Files BY <1>5 DEF PullTake
  <2> QED BY <1>5, <2>1, NoFileIsNoFile DEF PullTake
<1>6. CASE PullRefuse(m) BY <1>6 DEF PullRefuse
<1>7. CASE PullRecord(m)
  <2>1. local[m] # NoFile BY <1>7 DEF PullRecord
  <2>2. (IF step[m] = "joined" THEN 0 ELSE local[m].format) \in 0..2 BY <2>1 DEF Files
  <2>3. key' \in [Machines -> Keys \cup {NoKey}] /\ acting' \in SUBSET Machines
    BY <1>7 DEF PullRecord, Hold
  <2> QED BY <1>7, <2>1, <2>2, <2>3, RecordTyped DEF PullRecord
<1> QED
  BY <1>1, <1>2, <1>3, <1>4, <1>5, <1>6, <1>7 DEF Pull, ForcedPull, Poll

(* A failure, a restart, or the end of the vault on a machine. *)
LEMMA TroubleTyped ==
  ASSUME TypeInv, NEW m \in Machines,
         Fail(m) \/ Restart(m) \/ Delete(m) \/ Forget(m)
  PROVE  TypeInv'
<1> USE DEF TypeInv, TypeOK, Working, Go, Look, Fetch, Hold, Steps, worldVars, counters,
            historyVars
<1>0. troubles' \in 0..MaxTroubles
  BY BoundsAssumption DEF Fail, Restart, Delete, Forget, Trouble
<1>1. CASE Fail(m)
  <2>1. mixed' \in BOOLEAN BY <1>1 DEF Fail
  <2> QED BY <1>0, <1>1, <2>1 DEF Fail
<1>2. CASE Restart(m) BY <1>0, <1>2 DEF Restart
<1>3. CASE Delete(m) BY <1>0, <1>3 DEF Delete, Idle
<1>4. CASE Forget(m) BY <1>0, <1>4 DEF Forget, Idle
<1> QED BY <1>1, <1>2, <1>3, <1>4

(* Every step keeps the types: one case per action. *)
LEMMA NextTyped == TypeInv /\ [Next]_vars => TypeInv'
<1> SUFFICES ASSUME TypeInv, [Next]_vars PROVE TypeInv' OBVIOUS
<1>1. CASE UNCHANGED vars
  BY <1>1 DEF vars, machineVars, worldVars, counters, historyVars, TypeInv, TypeOK, Working
<1>2. CASE Next
  <2>1. PICK m \in Machines :
          \/ EditPayload(m) \/ EditHeader(m) \/ RemoveMember(m) \/ Rotate(m)
          \/ UpgradeFormat(m) \/ Lock(m) \/ Unlock(m) \/ CompleteUnlock(m) \/ FailUnlock(m)
          \/ PushLook(m) \/ PushWrite(m) \/ PushRecord(m) \/ Pull(m) \/ ForcedPull(m)
          \/ Poll(m) \/ PullTake(m) \/ PullRefuse(m) \/ PullRecord(m)
          \/ Fail(m) \/ Restart(m) \/ Delete(m) \/ Forget(m)
    BY <1>2 DEF Next
  <2> QED BY <2>1, ChangeTyped, KeyTyped, SyncTyped, TroubleTyped
<1> QED BY <1>1, <1>2

(* The types of the model hold in every reachable state. *)
THEOREM TypeCorrect == Spec => []TypeOK
<1>1. Spec => []TypeInv BY InitTyped, NextTyped, PTL DEF Spec
<1>2. TypeInv => TypeOK BY DEF TypeInv
<1> QED BY <1>1, <1>2, PTL

-----------------------------------------------------------------------------
(* The held key and the file's. *)

KeyInv ==
  ~ mixed =>
    /\ \A m \in Machines :
         /\ Unlocked(m) /\ step[m] # "rekeyed" => local[m] # NoFile /\ CanDecrypt(m)
         /\ local[m] # NoFile => local[m].mac = local[m].key
         /\ got[m] # NoFile => got[m].mac = got[m].key
    /\ remote # NoFile => remote.mac = remote.key

LEMMA KeyInit == Init => KeyInv
<1> SUFFICES ASSUME Init PROVE KeyInv OBVIOUS
<1>1. FirstFile.key = 1 /\ FirstFile.mac = 1 BY DEF FirstFile
<1>2. \A m \in Machines :
        /\ local[m] = IF m = Creator THEN FirstFile ELSE NoFile
        /\ key[m] = IF m = Creator THEN 1 ELSE NoKey
        /\ got[m] = NoFile
  BY DEF Init
<1>4. remote = NoFile BY DEF Init
<1>5. FirstFile # NoFile BY FirstFileTyped, NoFileIsNoFile
<1> QED BY <1>1, <1>2, <1>4, <1>5 DEF KeyInv, Unlocked, CanDecrypt

(* Whatever is stored under its own key, with that key held, agrees. *)
LEMMA StoreAgrees ==
  ASSUME TypeInv, KeyInv, NEW m \in Machines, NEW file \in Files, Store(m, file),
         file.mac = file.key, mixed' = mixed, got' = got, remote' = remote,
         \A n \in Machines \ {m} : key'[n] = key[n] /\ step'[n] = step[n],
         ~ mixed => key'[m] = file.key
  PROVE  KeyInv'
<1>1. /\ local'[m] = file /\ file # NoFile
      /\ \A n \in Machines \ {m} : local'[n] = local[n]
  BY StoreTyped DEF TypeInv
<1> QED BY <1>1 DEF KeyInv, Unlocked, CanDecrypt

LEMMA ChangeAgrees ==
  ASSUME TypeInv, KeyInv, NEW m \in Machines,
         \/ EditPayload(m) \/ EditHeader(m) \/ RemoveMember(m) \/ Rotate(m)
         \/ UpgradeFormat(m)
  PROVE  KeyInv'
<1>0. CASE mixed /\ mixed' = mixed BY <1>0 DEF KeyInv
<1>1. CASE ~ mixed /\ (EditPayload(m) \/ EditHeader(m))
  <2>1. /\ UNCHANGED <<key, step, got, remote, mixed>>
        /\ Unlocked(m) /\ step[m] = "idle"
    BY <1>1 DEF EditPayload, EditHeader, Idle, Admin, historyVars
  <2>2. key[m] = local[m].key BY <1>1, <2>1 DEF KeyInv, CanDecrypt
  <2>3. PICK file \in Files : Store(m, file) /\ file.key = local[m].key /\ file.mac = key[m]
    BY <1>1, PayloadStored, HeaderStored DEF TypeInv
  <2> QED BY <2>1, <2>2, <2>3, StoreAgrees
<1>2. CASE Rotate(m)
  <2>1. PICK file \in Files : Store(m, file) /\ file.key = keys + 1 /\ file.mac = keys + 1
    BY <1>2, RotationStored
  <2>2. /\ key' = [key EXCEPT ![m] = keys + 1] /\ step' = [step EXCEPT ![m] = "idle"]
        /\ UNCHANGED <<got, remote, mixed>>
    BY <1>2 DEF Rotate, historyVars
  <2> QED BY <2>1, <2>2, StoreAgrees DEF TypeInv, TypeOK
<1>3. CASE ~ mixed /\ RemoveMember(m)
  BY <1>3 DEF RemoveMember, Idle, KeyInv, Unlocked, CanDecrypt, TypeInv, TypeOK,
              worldVars, historyVars
<1>4. CASE ~ mixed /\ UpgradeFormat(m)
  <2>1. local[m] \in Files BY <1>4 DEF UpgradeFormat, Idle, TypeInv, TypeOK
  <2>2. /\ local'[m] \in Files /\ local'[m].key = local[m].key /\ local'[m].mac = local[m].mac
        /\ \A n \in Machines \ {m} : local'[n] = local[n]
        /\ UNCHANGED <<key, step, got, remote, mixed>>
    BY <1>4, <2>1 DEF UpgradeFormat, TypeInv, TypeOK, Files, CurrentFormat,
                      worldVars, historyVars
  <2>3. local[m] # NoFile /\ local'[m] # NoFile BY <2>1, <2>2, NoFileIsNoFile
  <2> QED BY <2>2, <2>3 DEF KeyInv, Unlocked, CanDecrypt
<1>5. mixed \in BOOLEAN /\ mixed' = mixed
  BY DEF EditPayload, EditHeader, RemoveMember, Rotate, UpgradeFormat, historyVars,
         TypeInv, TypeOK
<1> QED BY <1>0, <1>1, <1>2, <1>3, <1>4, <1>5

LEMMA HoldAgrees ==
  ASSUME TypeInv, KeyInv, NEW m \in Machines,
         Lock(m) \/ Unlock(m) \/ CompleteUnlock(m) \/ FailUnlock(m)
  PROVE  KeyInv'
<1> USE DEF KeyInv, Unlocked, CanDecrypt, Hold, TypeInv, TypeOK, worldVars, historyVars
<1>1. CASE Lock(m) BY <1>1 DEF Lock
<1>2. CASE Unlock(m) BY <1>2 DEF Unlock
<1>3. CASE CompleteUnlock(m)
  <2>1. CASE mixed' BY <2>1
  <2>2. CASE ~ mixed'
    <3>1. ~ mixed /\ local[m] # NoFile /\ unlocking[m] = local[m].key
      BY <1>3, <2>2 DEF CompleteUnlock
    <3>2. /\ UNCHANGED <<local, step, got, remote>>
          /\ key'[m] = local[m].key /\ \A n \in Machines \ {m} : key'[n] = key[n]
      BY <1>3, <3>1 DEF CompleteUnlock
    <3> QED BY <3>1, <3>2
  <2> QED BY <2>1, <2>2
<1>4. CASE FailUnlock(m) BY <1>4 DEF FailUnlock
<1> QED BY <1>1, <1>2, <1>3, <1>4

LEMMA SyncAgrees ==
  ASSUME TypeInv, KeyInv, NEW m \in Machines,
         \/ PushLook(m) \/ PushWrite(m) \/ PushRecord(m)
         \/ Pull(m) \/ ForcedPull(m) \/ Poll(m)
         \/ PullTake(m) \/ PullRefuse(m) \/ PullRecord(m)
  PROVE  KeyInv'
<1> USE DEF KeyInv, Unlocked, CanDecrypt, TypeInv, TypeOK, Go, Look, Fetch, worldVars,
            historyVars
<1>1. CASE PushLook(m) BY <1>1 DEF PushLook, Idle
<1>2. CASE PushWrite(m) BY <1>2 DEF PushWrite, Working
<1>3. CASE PushRecord(m) BY <1>3 DEF PushRecord, Record
<1>4. CASE \E s \in {"pulling", "forcing"} : PullLook(m, s) BY <1>4 DEF PullLook
<1>5. CASE PullTake(m)
  <2>1. got[m] \in Files /\ got[m] # NoFile BY <1>5, NoFileIsNoFile DEF PullTake, Working
  <2>2. /\ local'[m] = got[m] /\ got'[m] = NoFile
        /\ \A n \in Machines \ {m} :
             local'[n] = local[n] /\ step'[n] = step[n] /\ got'[n] = got[n]
        /\ UNCHANGED <<key, remote, mixed>>
    BY <1>5 DEF PullTake
  <2>3. step'[m] = "rekeyed" \/ key[m] = NoKey \/ mixed \/ key[m] = got[m].mac
    <3>1. CASE local[m] = NoFile BY <1>5, <3>1 DEF PullTake
    <3>2. CASE local[m] # NoFile /\ SameKeyClaimed(m) BY <1>5, <3>2 DEF PullTake, Accepts
    <3>3. CASE local[m] # NoFile /\ ~ SameKeyClaimed(m) BY <1>5, <3>3 DEF PullTake
    <3> QED BY <3>1, <3>2, <3>3
  <2> QED BY <2>1, <2>2, <2>3
<1>6. CASE PullRefuse(m) BY <1>6 DEF PullRefuse
<1>7. CASE PullRecord(m)
  <2>1. /\ UNCHANGED <<local, got, remote, mixed>> /\ step' = [step EXCEPT ![m] = "idle"]
        /\ step[m] # "kept" => key' = [key EXCEPT ![m] = NoKey]
        /\ step[m] = "kept" => key' = key
    BY <1>7 DEF PullRecord, Record, Hold
  <2> QED BY <2>1
<1> QED
  BY <1>1, <1>2, <1>3, <1>4, <1>5, <1>6, <1>7 DEF Pull, ForcedPull, Poll

LEMMA TroubleAgrees ==
  ASSUME TypeInv, KeyInv, NEW m \in Machines,
         Fail(m) \/ Restart(m) \/ Delete(m) \/ Forget(m)
  PROVE  KeyInv'
<1> USE DEF KeyInv, Unlocked, CanDecrypt, TypeInv, TypeOK, Go, Look, Fetch, Hold,
            worldVars, historyVars
<1>1. CASE Fail(m)
  <2>1. CASE mixed' BY <2>1
  <2>2. CASE ~ mixed' BY <1>1, <2>2 DEF Fail
  <2> QED BY <2>1, <2>2
<1>2. CASE Restart(m) BY <1>2 DEF Restart
<1>3. CASE Delete(m) BY <1>3 DEF Delete
<1>4. CASE Forget(m) BY <1>4 DEF Forget
<1> QED BY <1>1, <1>2, <1>3, <1>4

LEMMA NextAgrees == TypeInv /\ KeyInv /\ [Next]_vars => KeyInv'
<1> SUFFICES ASSUME TypeInv, KeyInv, [Next]_vars PROVE KeyInv' OBVIOUS
<1>1. CASE UNCHANGED vars
  BY <1>1 DEF vars, machineVars, worldVars, historyVars, KeyInv, Unlocked, CanDecrypt
<1>2. CASE Next
  BY <1>2, ChangeAgrees, HoldAgrees, SyncAgrees, TroubleAgrees DEF Next
<1> QED BY <1>1, <1>2

(* A machine holds the key of its file, as long as no unlock was answered   *)
(* too late and no pull broke off before its lock.                          *)
THEOREM HeldKeyIsTheFiles == Spec => []KeysAgree
<1>1. Spec => []TypeInv BY InitTyped, NextTyped, PTL DEF Spec
<1>2. Spec => []KeyInv BY <1>1, KeyInit, NextAgrees, PTL DEF Spec
<1>3. KeyInv => KeysAgree BY DEF KeyInv, KeysAgree
<1> QED BY <1>2, <1>3, PTL

-----------------------------------------------------------------------------
(* What a machine knows of the remote file. *)

SyncInv ==
  /\ \A m \in Machines :
       /\ look[m] <= writes
       /\ known[m] # Unknown => known[m] <= writes
       /\ step[m] \in {"pulling", "forcing"} /\ known[m] # Unknown => known[m] <= look[m]
       /\ step[m] \in {"pulling", "forcing"} /\ look[m] = writes => got[m] = remote
       /\ step[m] \in {"pushed", "joined", "rekeyed", "kept"} /\ look[m] = writes
            /\ remote # NoFile => remote.edits \subseteq local[m].edits
  /\ \A m \in recorded :
       /\ local[m] # NoFile /\ known[m] # Unknown
       /\ step[m] = "pushing" => known[m] = look[m]
       /\ m \notin blind /\ known[m] = writes /\ remote # NoFile
            => remote.edits \subseteq local[m].edits

(* What has been published, and what a machine recorded of that. *)
PubInv ==
  /\ remote # NoFile => remote.edits \subseteq published
  /\ \A m \in Machines :
       /\ got[m] # NoFile => got[m].edits \subseteq published
       /\ step[m] \in {"pushed", "joined", "rekeyed", "kept"}
            => local[m].edits \subseteq published
  /\ \A m \in recorded :
       /\ local[m] # NoFile /\ synced[m] # Unknown /\ synced[m] <= local[m].rev
       /\ synced[m] = local[m].rev => local[m].edits \subseteq published

Synced == TypeInv /\ SyncInv /\ PubInv

LEMMA SyncInit == Init => SyncInv /\ PubInv
BY DEF Init, SyncInv, PubInv

(* A change takes no edit out of the file, and one that adds an edit is a   *)
(* new revision.                                                           *)
LEMMA ChangeAdds ==
  ASSUME TypeInv, NEW m \in Machines,
         EditPayload(m) \/ EditHeader(m) \/ Rotate(m) \/ UpgradeFormat(m)
  PROVE  /\ local[m] # NoFile /\ local'[m] # NoFile
         /\ local[m] \in Files /\ local'[m] \in Files
         /\ local[m].edits \subseteq local'[m].edits
         /\ \/ local'[m].rev = local[m].rev + 1
            \/ local'[m].rev = local[m].rev /\ local'[m].edits = local[m].edits
         /\ \A n \in Machines \ {m} : local'[n] = local[n]
         /\ step[m] \in {"idle", "rotating"} /\ step' = [step EXCEPT ![m] = "idle"]
         /\ UNCHANGED <<known, synced, look, got, remote, writes, published, recorded, blind>>
<1>1. CASE EditPayload(m) \/ EditHeader(m) \/ Rotate(m)
  <2>1. PICK file \in Files :
          /\ Store(m, file) /\ file.rev = local[m].rev + 1
          /\ file.edits = local[m].edits \cup {edits + 1}
    BY <1>1, PayloadStored, HeaderStored, RotationStored DEF TypeInv
  <2>2. local[m] # NoFile
    BY <1>1, RotationStored DEF EditPayload, EditHeader, Idle
  <2>3. /\ step[m] \in {"idle", "rotating"} /\ step' = [step EXCEPT ![m] = "idle"]
        /\ UNCHANGED <<known, synced, look, got, remote, writes, published, recorded, blind>>
    <3>1. CASE EditPayload(m) BY <3>1 DEF EditPayload, Idle, historyVars, TypeInv, TypeOK
    <3>2. CASE EditHeader(m)
      <4>1. step[m] = "idle" /\ step' = step BY <3>2, Zenon DEF EditHeader, Idle
      <4>2. UNCHANGED <<known, synced, look, got, remote, writes, published, recorded, blind>>
        BY <3>2, Zenon DEF EditHeader, historyVars
      <4> QED BY <4>1, <4>2 DEF TypeInv, TypeOK
    <3>3. CASE Rotate(m)
      <4>1. step[m] = "rotating" /\ step' = [step EXCEPT ![m] = "idle"]
        BY <3>3, Zenon DEF Rotate
      <4>2. UNCHANGED <<known, synced, look, got, remote, writes, published, recorded, blind>>
        BY <3>3, Zenon DEF Rotate, historyVars
      <4> QED BY <4>1, <4>2
    <3> QED BY <1>1, <3>1, <3>2, <3>3
  <2>4. local[m] \in Files BY <2>2 DEF TypeInv, TypeOK
  <2>5. /\ local'[m] = file /\ file # NoFile
        /\ \A n \in Machines \ {m} : local'[n] = local[n]
    BY <2>1, StoreTyped DEF TypeInv
  <2> QED BY <2>1, <2>2, <2>3, <2>4, <2>5
<1>2. CASE UpgradeFormat(m)
  <2>1. local[m] \in Files /\ local[m] # NoFile
    BY <1>2 DEF UpgradeFormat, Idle, TypeInv, TypeOK
  <2>2. /\ local'[m] = [local[m] EXCEPT !.format = 2, !.proof = NoKey]
        /\ \A n \in Machines \ {m} : local'[n] = local[n]
    BY <1>2, <2>1 DEF UpgradeFormat, CurrentFormat, TypeInv, TypeOK
  <2>3. local'[m] \in Files BY <2>1, <2>2 DEF Files
  <2>4. local'[m].rev = local[m].rev /\ local'[m].edits = local[m].edits
    BY <2>1, <2>2 DEF Files
  <2>5. /\ step[m] = "idle" /\ step' = [step EXCEPT ![m] = "idle"]
        /\ UNCHANGED <<known, synced, look, got, remote, writes, published, recorded, blind>>
    BY <1>2 DEF UpgradeFormat, Idle, TypeInv, TypeOK, worldVars, counters, historyVars
  <2> QED BY <2>1, <2>2, <2>3, <2>4, <2>5, NoFileIsNoFile
<1> QED BY <1>1, <1>2

LEMMA ChangeSynced ==
  ASSUME Synced, NEW m \in Machines,
         EditPayload(m) \/ EditHeader(m) \/ Rotate(m) \/ UpgradeFormat(m)
  PROVE  SyncInv' /\ PubInv'
<1> USE ChangeAdds DEF Synced
<1>0. step \in [Machines -> Steps] /\ recorded \subseteq Machines /\ local[m].rev \in Nat
  BY DEF TypeInv, TypeOK, Files
<1>1. SyncInv' BY <1>0 DEF SyncInv
<1>2. PubInv'
  <2>1. \A n \in recorded \ {m} : local'[n] = local[n] BY <1>0
  <2>2. m \in recorded => /\ synced[m] # Unknown /\ synced[m] <= local[m].rev
                          /\ synced[m] = local[m].rev => local[m].edits \subseteq published
    BY DEF PubInv
  <2>3. m \in recorded => /\ synced[m] <= local'[m].rev
                          /\ synced[m] = local'[m].rev => local'[m].edits \subseteq published
    BY <1>0, <2>2 DEF TypeInv, TypeOK
  <2> QED BY <1>0, <2>1, <2>2, <2>3 DEF PubInv
<1> QED BY <1>1, <1>2

(* Steps of the held key, and the start of a rotation. *)
LEMMA HoldSynced ==
  ASSUME Synced, NEW m \in Machines,
         RemoveMember(m) \/ Lock(m) \/ Unlock(m) \/ CompleteUnlock(m) \/ FailUnlock(m)
  PROVE  SyncInv' /\ PubInv'
<1>1. /\ UNCHANGED <<local, known, synced, look, got, remote, writes, published, recorded, blind>>
      /\ step' = step \/ (step[m] = "idle" /\ step' = [step EXCEPT ![m] = "rotating"])
  BY DEF RemoveMember, Idle, Lock, Unlock, CompleteUnlock, FailUnlock, worldVars, counters,
         historyVars
<1>2. \A n \in Machines : step'[n] \notin {"idle", "rotating"} => step'[n] = step[n]
  BY <1>1 DEF Synced, TypeInv, TypeOK
<1>3. recorded \subseteq Machines BY DEF Synced, TypeInv, TypeOK
<1> QED BY <1>1, <1>2, <1>3 DEF Synced, SyncInv, PubInv

LEMMA PushSynced ==
  ASSUME Synced, NEW m \in Machines, PushLook(m) \/ PushWrite(m)
  PROVE  SyncInv' /\ PubInv'
<1> USE DEF Synced, TypeInv, TypeOK, Go, Look, worldVars, counters, historyVars
<1>0. writes \in Nat /\ recorded \subseteq Machines BY BoundsAssumption
<1>1. CASE PushLook(m)
  <2>1. /\ UNCHANGED <<local, known, synced, got, remote, writes, published, recorded, blind>>
        /\ known[m] \in {Unknown, writes}
        /\ step'[m] = "pushing" /\ look'[m] = writes
        /\ \A n \in Machines \ {m} : step'[n] = step[n] /\ look'[n] = look[n]
    BY <1>1 DEF PushLook, Fresh
  <2> QED BY <1>0, <2>1 DEF SyncInv, PubInv
<1>2. CASE PushWrite(m)
  <2>1. /\ UNCHANGED <<local, known, synced, got, recorded, blind>>
        /\ remote' = local[m] /\ writes' = writes + 1
        /\ published' = published \cup local[m].edits
        /\ step'[m] = "pushed" /\ look'[m] = writes + 1
        /\ \A n \in Machines \ {m} : step'[n] = step[n] /\ look'[n] = look[n]
    BY <1>2 DEF PushWrite
  <2>2. SyncInv' BY <1>0, <2>1 DEF SyncInv
  <2>3. PubInv' BY <1>0, <2>1 DEF PubInv
  <2> QED BY <2>2, <2>3
<1> QED BY <1>1, <1>2

LEMMA RecordSynced ==
  ASSUME Synced, NEW m \in Machines, PushRecord(m) \/ PullRecord(m)
  PROVE  SyncInv' /\ PubInv'
<1> USE DEF Synced, TypeInv, TypeOK, Go, Look
<1>0. /\ writes \in Nat /\ writes # Unknown /\ recorded \subseteq Machines
      /\ step[m] \in {"pushed", "joined", "rekeyed", "kept"} /\ local[m] # NoFile
  BY BoundsAssumption, UnknownIsNoNumber DEF PushRecord, PullRecord, Working
<1>1. /\ UNCHANGED <<local, got, remote, writes, published>>
      /\ known' = [known EXCEPT ![m] = writes]
      /\ synced' = [synced EXCEPT ![m] = local[m].rev]
      /\ recorded' = recorded \cup {m}
      /\ blind' = IF look[m] = writes THEN blind \ {m} ELSE blind \cup {m}
      /\ step' = [step EXCEPT ![m] = "idle"] /\ look' = [look EXCEPT ![m] = 0]
  BY DEF PushRecord, PullRecord, Record, worldVars, counters
<1>2. local[m].rev \in Nat /\ local[m].rev # Unknown
  BY <1>0, UnknownIsNoNumber DEF Files
<1>3. SyncInv'
  <2>1. m \notin blind' /\ remote # NoFile => remote.edits \subseteq local[m].edits
    BY <1>0, <1>1 DEF SyncInv
  <2>2. known'[m] = writes /\ step'[m] = "idle" /\ look'[m] = 0 BY <1>1
  <2>3. \A n \in Machines \ {m} :
          /\ known'[n] = known[n] /\ step'[n] = step[n] /\ look'[n] = look[n]
          /\ n \in recorded' <=> n \in recorded
          /\ n \in blind' <=> n \in blind
    BY <1>1
  <2> QED BY <1>0, <1>1, <2>1, <2>2, <2>3 DEF SyncInv
<1>4. PubInv' BY <1>0, <1>1, <1>2 DEF PubInv
<1> QED BY <1>3, <1>4

LEMMA PullSynced ==
  ASSUME Synced, NEW m \in Machines,
         Pull(m) \/ ForcedPull(m) \/ Poll(m) \/ PullTake(m) \/ PullRefuse(m)
  PROVE  SyncInv' /\ PubInv'
<1> USE DEF Synced, TypeInv, TypeOK, Go, Look, Fetch, worldVars, counters, historyVars
<1>0. writes \in Nat /\ recorded \subseteq Machines BY BoundsAssumption
<1>1. CASE \E s \in {"pulling", "forcing"} : PullLook(m, s)
  <2>1. PICK s \in {"pulling", "forcing"} : PullLook(m, s) BY <1>1
  <2>2. /\ UNCHANGED <<local, known, synced, remote, writes, published, recorded, blind>>
        /\ remote # NoFile
        /\ step'[m] \in {"pulling", "forcing"} /\ look'[m] = writes /\ got'[m] = remote
        /\ \A n \in Machines \ {m} :
             step'[n] = step[n] /\ look'[n] = look[n] /\ got'[n] = got[n]
    BY <2>1 DEF PullLook
  <2>3. SyncInv' BY <1>0, <2>2 DEF SyncInv
  <2>4. PubInv' BY <1>0, <2>2 DEF PubInv
  <2> QED BY <2>3, <2>4
<1>2. CASE PullTake(m)
  <2>1. /\ UNCHANGED <<known, synced, look, remote, writes, published, recorded, blind>>
        /\ local'[m] = got[m] /\ got'[m] = NoFile
        /\ step[m] \in {"pulling", "forcing"}
        /\ step'[m] \in {"joined", "kept", "rekeyed"}
        /\ \A n \in Machines \ {m} :
             step'[n] = step[n] /\ local'[n] = local[n] /\ got'[n] = got[n]
    BY <1>2 DEF PullTake
  <2>2. got[m] \in Files /\ got[m] # NoFile BY <2>1 DEF Working
  <2>3. SyncInv'
    <3>1. m \in recorded /\ known[m] = writes => look[m] = writes
      BY <1>0, <2>1 DEF SyncInv
    <3>2. look[m] = writes /\ remote # NoFile => remote.edits \subseteq got[m].edits
      BY <2>1 DEF SyncInv
    <3> QED BY <1>0, <2>1, <2>2, <3>1, <3>2 DEF SyncInv
  <2>4. PubInv'
    <3>1. m \in recorded => local[m] # NoFile /\ got[m].rev >= local[m].rev
      BY <1>2 DEF PullTake, Accepts, PubInv
    <3>2. m \in recorded => /\ local[m].rev \in Nat /\ got[m].rev \in Nat
                            /\ synced[m] \in Nat /\ synced[m] <= local[m].rev
      BY <2>2, <3>1 DEF PubInv, Files
    <3>3. m \in recorded => synced[m] <= got[m].rev BY <3>1, <3>2
    <3>4. got[m].edits \subseteq published BY <2>2 DEF PubInv
    <3> QED BY <1>0, <2>1, <2>2, <3>3, <3>4 DEF PubInv
  <2> QED BY <2>3, <2>4
<1>3. CASE PullRefuse(m)
  <2>1. /\ UNCHANGED <<local, known, synced, remote, writes, published, recorded, blind>>
        /\ step'[m] = "idle" /\ look'[m] = 0 /\ got'[m] = NoFile
        /\ \A n \in Machines \ {m} :
             step'[n] = step[n] /\ look'[n] = look[n] /\ got'[n] = got[n]
    BY <1>3 DEF PullRefuse
  <2> QED BY <1>0, <2>1 DEF SyncInv, PubInv
<1> QED BY <1>1, <1>2, <1>3 DEF Pull, ForcedPull, Poll

LEMMA TroubleSynced ==
  ASSUME Synced, NEW m \in Machines,
         Fail(m) \/ Restart(m) \/ Delete(m) \/ Forget(m)
  PROVE  SyncInv' /\ PubInv'
<1> USE DEF Synced, TypeInv, TypeOK, Go, Look, Fetch, worldVars, counters, historyVars
<1>0. writes \in Nat /\ recorded \subseteq Machines BY BoundsAssumption
<1>1. CASE Fail(m) \/ Restart(m)
  <2>1. /\ UNCHANGED <<local, known, synced, remote, writes, published, recorded, blind>>
        /\ step'[m] = "idle" /\ look'[m] = 0 /\ got'[m] = NoFile
        /\ \A n \in Machines \ {m} :
             step'[n] = step[n] /\ look'[n] = look[n] /\ got'[n] = got[n]
    BY <1>1 DEF Fail, Restart
  <2> QED BY <1>0, <2>1 DEF SyncInv, PubInv
<1>2. CASE Delete(m) \/ Forget(m)
  <2>1. /\ UNCHANGED <<step, look, got, remote, writes, published, blind>>
        /\ step[m] = "idle" /\ recorded' = recorded \ {m}
        /\ known'[m] \in {known[m], Unknown}
        /\ \A n \in Machines \ {m} :
             local'[n] = local[n] /\ known'[n] = known[n] /\ synced'[n] = synced[n]
    BY <1>2 DEF Delete, Forget, Idle
  <2>2. SyncInv' BY <1>0, <2>1 DEF SyncInv
  <2>3. PubInv' BY <1>0, <2>1 DEF PubInv
  <2> QED BY <2>2, <2>3
<1> QED BY <1>1, <1>2

LEMMA NextSynced == Synced /\ [Next]_vars => SyncInv' /\ PubInv'
<1> SUFFICES ASSUME Synced, [Next]_vars PROVE SyncInv' /\ PubInv' OBVIOUS
<1>1. CASE UNCHANGED vars
  BY <1>1 DEF vars, machineVars, worldVars, counters, historyVars, Synced, SyncInv, PubInv
<1>2. CASE Next
  BY <1>2, ChangeSynced, HoldSynced, PushSynced, RecordSynced, PullSynced, TroubleSynced
     DEF Next
<1> QED BY <1>1, <1>2

LEMMA SpecSynced == Spec => []Synced
<1>1. Init => Synced BY InitTyped, SyncInit DEF Synced
<1>2. Synced /\ [Next]_vars => Synced' BY NextTyped, NextSynced DEF Synced
<1> QED BY <1>1, <1>2, PTL DEF Spec

(* An informed push replaces nothing it did not have. *)
LEMMA InformedPush ==
  ASSUME Synced, [Next]_vars, NEW m \in Machines,
         step[m] = "pushing", step'[m] = "pushed", Informed(m), remote # NoFile
  PROVE  remote.edits \subseteq remote'.edits
<1>1. PushWrite(m)
  <2>1. step' # step /\ step \in [Machines -> Steps] BY DEF Synced, TypeInv, TypeOK
  <2>2. PICK n \in Machines :
          \/ EditPayload(n) \/ EditHeader(n) \/ RemoveMember(n) \/ Rotate(n)
          \/ UpgradeFormat(n) \/ Lock(n) \/ Unlock(n) \/ CompleteUnlock(n) \/ FailUnlock(n)
          \/ PushLook(n) \/ PushWrite(n) \/ PushRecord(n) \/ Pull(n) \/ ForcedPull(n)
          \/ Poll(n) \/ PullTake(n) \/ PullRefuse(n) \/ PullRecord(n)
          \/ Fail(n) \/ Restart(n) \/ Delete(n) \/ Forget(n)
    BY <2>1 DEF Next, vars, machineVars
  <2>3. EditPayload(n) \/ EditHeader(n) \/ Rotate(n) \/ UpgradeFormat(n)
        => step' = [step EXCEPT ![n] = "idle"]
    BY ChangeAdds DEF Synced
  <2>4. PushWrite(n) \/ step' = step
        \/ \E s \in Steps \ {"pushed"} : step' = [step EXCEPT ![n] = s]
    BY <2>2, <2>3 DEF RemoveMember, Lock, Unlock, CompleteUnlock, FailUnlock, PushLook,
       PushRecord, PullRecord, Record, Pull, ForcedPull, Poll, PullLook, PullTake, PullRefuse,
       Fail, Restart, Delete, Forget, Go, Steps
  <2> QED BY <2>1, <2>4 DEF PushWrite, Go
<1>2. known[m] = writes BY <1>1 DEF Informed, Synced, SyncInv
<1> QED BY <1>1, <1>2 DEF PushWrite, Informed, Synced, SyncInv

(* No push of a machine that knows the remote file loses a change. *)
THEOREM PushesKeepEdits == Spec => PushKeepsEdits
<1>1. Synced /\ [Next]_vars =>
        [\A m \in Machines :
           /\ step[m] = "pushing" /\ step'[m] = "pushed"
           /\ Informed(m) /\ remote # NoFile
           => remote.edits \subseteq remote'.edits]_vars
  BY InformedPush
<1> QED BY <1>1, SpecSynced, PTL DEF Spec, PushKeepsEdits

(* Only a pull that the user forces takes unpublished changes away. *)
LEMMA OnlyForceDrops ==
  ASSUME Synced, [Next]_vars, NEW m \in recorded,
         local[m] # NoFile, local'[m] # NoFile, step[m] # "forcing"
  PROVE  local[m].edits \ local'[m].edits \subseteq published
<1> USE DEF Synced
<1>0. m \in Machines /\ local \in [Machines -> Files \cup {NoFile}] BY DEF TypeInv, TypeOK
<1>1. CASE local' = local BY <1>1
<1>2. CASE local' # local
  <2>1. PICK n \in Machines :
          \/ EditPayload(n) \/ EditHeader(n) \/ Rotate(n) \/ UpgradeFormat(n)
          \/ PullTake(n) \/ Delete(n) \/ Forget(n)
    BY <1>2 DEF Next, vars, machineVars, worldVars, RemoveMember, Lock, Unlock,
       CompleteUnlock, FailUnlock, PushLook, PushWrite, PushRecord, Pull, ForcedPull, Poll,
       PullLook, PullRefuse, PullRecord, Fail, Restart
  <2>2. CASE n # m /\ (PullTake(n) \/ Delete(n) \/ Forget(n))
    BY <1>0, <2>2 DEF PullTake, Delete, Forget
  <2>3. CASE EditPayload(n) \/ EditHeader(n) \/ Rotate(n) \/ UpgradeFormat(n)
    BY <1>0, <2>3, ChangeAdds
  <2>4. CASE n = m /\ (Delete(n) \/ Forget(n)) BY <1>0, <2>4 DEF Delete, Forget
  <2>5. CASE n = m /\ PullTake(n)
    <3>1. synced[m] \in {Unknown, local[m].rev}
      BY <2>5 DEF PullTake, Accepts, HasUnpushed
    <3> QED BY <3>1 DEF PubInv
  <2> QED BY <2>1, <2>2, <2>3, <2>4, <2>5
<1> QED BY <1>1, <1>2

(* Unpublished changes survive every pull that is not forced, on a machine  *)
(* whose records of a sync reach its configuration.                        *)
THEOREM UnpushedSurvive == Spec => UnpushedNeedForce
<1>1. Synced /\ [Next]_vars =>
        [\A m \in recorded :
           /\ local[m] # NoFile /\ local'[m] # NoFile /\ step[m] # "forcing"
           => local[m].edits \ local'[m].edits \subseteq published]_vars
  BY OnlyForceDrops
<1> QED BY <1>1, SpecSynced, PTL DEF Spec, UnpushedNeedForce

-----------------------------------------------------------------------------
(* How the files of a team descend from one another. *)

InPlay ==
  ({local[m] : m \in Machines} \cup {got[m] : m \in Machines} \cup {remote}) \ {NoFile}

(* The revision counts the changes, and a key is proved by an older one.    *)
Numbered(f) ==
  /\ f.edits \subseteq 1..edits
  /\ f.rev = Cardinality(f.edits) + 1
  /\ f.key <= keys
  /\ f.proof # NoKey => f.proof < f.key

(* A file with all changes of another is a later version of it: under the   *)
(* same key nobody has gone, and the rotation that came right after it took *)
(* somebody and brought nobody.                                             *)
Descends(f, g) ==
  f.edits \subseteq g.edits =>
    /\ f.key = g.key => Members(f) \subseteq Members(g)
    /\ f.key = g.proof /\ g.rev = f.rev + 1
         => Members(g) \subseteq Members(f) /\ Members(g) # Members(f)

LineageInv == \A f \in InPlay : Numbered(f) /\ \A g \in InPlay : Descends(f, g)

(* What the types say of the files in play. *)
LEMMA InPlayTyped ==
  ASSUME TypeInv
  PROVE  /\ InPlay \subseteq Files /\ edits \in Nat /\ keys \in Nat
         /\ \A m \in Machines : local[m] # NoFile => local[m] \in InPlay
         /\ \A m \in Machines : got[m] # NoFile => got[m] \in InPlay
<1>1. edits \in Nat /\ keys \in Nat BY BoundsAssumption DEF TypeInv, TypeOK, Keys
<1>2. InPlay \subseteq Files BY DEF TypeInv, TypeOK, InPlay
<1> QED BY <1>1, <1>2 DEF InPlay

(* The changes of a file in play are finitely many, and all are past. *)
LEMMA EditsArePast ==
  ASSUME TypeInv, LineageInv, NEW f \in InPlay
  PROVE  /\ edits + 1 \notin f.edits
         /\ IsFiniteSet(f.edits) /\ Cardinality(f.edits) \in Nat
<1>1. edits \in Nat BY InPlayTyped
<1>2. f.edits \subseteq 1..edits BY DEF LineageInv, Numbered
<1>3. IsFiniteSet(1..edits) BY <1>1, FS_Interval
<1>4. IsFiniteSet(f.edits) BY <1>2, <1>3, FS_Subset
<1>5. edits + 1 \notin 1..edits BY <1>1
<1> QED BY <1>2, <1>4, <1>5, FS_CardinalityType

(* A later version has no smaller revision. *)
LEMMA LaterIsNoOlder ==
  ASSUME TypeInv, LineageInv, NEW f \in InPlay, NEW g \in InPlay, f.edits \subseteq g.edits
  PROVE  /\ f.rev <= g.rev
         /\ f.rev = g.rev => f.edits = g.edits
<1>1. /\ IsFiniteSet(g.edits)
      /\ Cardinality(f.edits) \in Nat /\ Cardinality(g.edits) \in Nat
  BY EditsArePast
<1>2. /\ Cardinality(f.edits) <= Cardinality(g.edits)
      /\ Cardinality(g.edits) = Cardinality(f.edits) => g.edits = f.edits
  BY <1>1, FS_Subset
<1>3. f.rev = Cardinality(f.edits) + 1 /\ g.rev = Cardinality(g.edits) + 1
  BY DEF LineageInv, Numbered
<1> QED BY <1>1, <1>2, <1>3

(* Nothing new in play, or a version that differs in its format only. *)
LEMMA LineageKept ==
  ASSUME TypeInv, LineageInv, UNCHANGED <<edits, keys>>,
         NEW old \in InPlay, NEW new \in Files,
         new.edits = old.edits, new.rev = old.rev, new.key = old.key,
         new.access = old.access, new.proof \in {old.proof, NoKey},
         InPlay' \subseteq InPlay \cup {new}
  PROVE  LineageInv'
<1>1. Members(new) = Members(old) BY DEF Members
<1>2. \A f \in InPlay : f \in Files /\ f.key # NoKey
  BY InPlayTyped, NoKeyIsNoNumber DEF Files, Keys
<1>3. \A f \in InPlay : Numbered(f) /\ \A g \in InPlay : Descends(f, g) BY DEF LineageInv
<1>4. \A f \in InPlay \cup {new} : Numbered(f)' BY <1>3 DEF Numbered
<1>5. \A f \in InPlay : Descends(f, new) /\ Descends(new, f)
  BY <1>1, <1>2, <1>3 DEF Descends
<1>6. Descends(new, new) BY <1>1, <1>2, <1>3 DEF Descends, Files
<1> QED BY <1>3, <1>4, <1>5, <1>6 DEF LineageInv

(* A version with one more change, under the same key or a new one. *)
LEMMA LineageGrows ==
  ASSUME TypeInv, LineageInv, edits' = edits + 1, keys' \in {keys, keys + 1},
         NEW old \in InPlay, NEW new \in Files,
         new.edits = old.edits \cup {edits + 1}, new.rev = old.rev + 1,
         \/ /\ new.key = old.key /\ new.proof = NoKey
            /\ Members(old) \subseteq Members(new)
         \/ /\ new.key = keys + 1 /\ keys' = keys + 1 /\ new.proof = old.key
            /\ \E gone \in Members(old) : Members(new) = Members(old) \ {gone},
         InPlay' \subseteq InPlay \cup {new}
  PROVE  LineageInv'
<1>1. /\ edits \in Nat /\ keys \in Nat
      /\ \A f \in InPlay : /\ f.rev \in Nat /\ f.key \in Nat /\ f.key # NoKey
                           /\ edits + 1 \notin f.edits
  BY InPlayTyped, EditsArePast, NoKeyIsNoNumber DEF Files, Keys
<1>2. \A f \in InPlay : Numbered(f) /\ \A g \in InPlay : Descends(f, g) BY DEF LineageInv
<1>3. \A f \in InPlay : Numbered(f)'
  BY <1>1, <1>2 DEF Numbered
<1>4. Numbered(new)'
  <2>1. Cardinality(new.edits) = Cardinality(old.edits) + 1
    <3>1. IsFiniteSet(old.edits) /\ edits + 1 \notin old.edits BY EditsArePast
    <3>2. Cardinality(old.edits \cup {edits + 1}) = Cardinality(old.edits) + 1
      BY <3>1, FS_AddElement, Zenon
    <3> QED BY <3>2
  <2>2. new.edits \subseteq 1..(edits + 1) BY <1>1, <1>2 DEF Numbered
  <2>3. old.rev = Cardinality(old.edits) + 1 /\ old.key <= keys BY <1>2 DEF Numbered
  <2>4. new.key <= keys' /\ (new.proof # NoKey => new.proof < new.key)
    BY <1>1, <2>3
  <2> QED BY <2>1, <2>2, <2>3, <2>4 DEF Numbered
<1>5. \A g \in InPlay : Descends(new, g) BY <1>1 DEF Descends
<1>6. ASSUME NEW f \in InPlay PROVE Descends(f, new)
  <2>0. CASE ~ (f.edits \subseteq new.edits) BY <2>0 DEF Descends
  <2> SUFFICES ASSUME f.edits \subseteq new.edits PROVE Descends(f, new) BY <2>0
  <2>1. f.edits \subseteq old.edits BY <1>1
  <2>2. CASE new.key = old.key /\ new.proof = NoKey /\ Members(old) \subseteq Members(new)
    BY <1>1, <1>2, <2>1, <2>2 DEF Descends
  <2>3. CASE /\ new.key = keys + 1 /\ new.proof = old.key
             /\ \E gone \in Members(old) : Members(new) = Members(old) \ {gone}
    <3>1. f.key # new.key BY <1>1, <1>2, <2>3 DEF Numbered
    <3>2. ASSUME f.key = new.proof, new.rev = f.rev + 1
          PROVE  Members(new) \subseteq Members(f) /\ Members(new) # Members(f)
      <4>1. f.rev = old.rev BY <1>1, <3>2
      <4>2. f.edits = old.edits BY <2>1, <4>1, LaterIsNoOlder
      <4>3. f.key = old.key BY <2>3, <3>2
      <4>4. Members(f) = Members(old) BY <1>2, <4>2, <4>3 DEF Descends
      <4> QED BY <2>3, <4>4
    <3> QED BY <3>1, <3>2 DEF Descends
  <2> QED BY <2>2, <2>3
<1>7. Descends(new, new)
  <2>1. new.rev # new.rev + 1 BY <1>1
  <2> QED BY <2>1 DEF Descends
<1> QED BY <1>2, <1>3, <1>4, <1>5, <1>6, <1>7 DEF LineageInv

LEMMA LineageInit == Init => LineageInv
<1> SUFFICES ASSUME Init PROVE LineageInv OBVIOUS
<1>1. /\ \A m \in Machines : local[m] \in {FirstFile, NoFile} /\ got[m] = NoFile
      /\ remote = NoFile /\ edits = 0 /\ keys = 1
  BY DEF Init
<1>2. InPlay \subseteq {FirstFile} BY <1>1 DEF InPlay
<1>3. /\ FirstFile.rev = 1 /\ FirstFile.edits = {} /\ FirstFile.key = 1
      /\ FirstFile.proof = NoKey
  BY DEF FirstFile
<1>4. Numbered(FirstFile) BY <1>1, <1>3, FS_EmptySet DEF Numbered
<1>5. Descends(FirstFile, FirstFile) BY <1>3 DEF Descends
<1> QED BY <1>2, <1>4, <1>5 DEF LineageInv

(* A change puts one version in play. *)
LEMMA StoreInPlay ==
  ASSUME TypeOK, NEW m \in Machines, NEW file, local' = [local EXCEPT ![m] = file],
         UNCHANGED <<got, remote>>
  PROVE  InPlay' \subseteq InPlay \cup {file}
BY DEF InPlay, TypeOK

LEMMA ChangeLineage ==
  ASSUME TypeInv, LineageInv, NEW m \in Machines,
         EditPayload(m) \/ EditHeader(m) \/ Rotate(m) \/ UpgradeFormat(m)
  PROVE  LineageInv'
<1> USE InPlayTyped DEF TypeInv
<1>1. CASE EditPayload(m) \/ EditHeader(m)
  <2>1. PICK file \in Files :
          /\ Store(m, file) /\ file.rev = local[m].rev + 1
          /\ file.edits = local[m].edits \cup {edits + 1}
          /\ file.key = local[m].key /\ file.proof = NoKey
          /\ Members(local[m]) \subseteq Members(file)
    BY <1>1, PayloadStored, HeaderStored
  <2>2. local[m] # NoFile /\ UNCHANGED <<got, remote, keys>>
    BY <1>1 DEF EditPayload, EditHeader, Idle
  <2>3. edits' = edits + 1 /\ InPlay' \subseteq InPlay \cup {file}
    BY <2>1, <2>2, StoreInPlay DEF Store
  <2> QED BY <2>1, <2>2, <2>3, LineageGrows
<1>2. CASE Rotate(m)
  <2>1. PICK file \in Files :
          /\ Store(m, file) /\ file.rev = local[m].rev + 1
          /\ file.edits = local[m].edits \cup {edits + 1}
          /\ file.key = keys + 1 /\ file.proof = local[m].key
          /\ \E gone \in Members(local[m]) : Members(file) = Members(local[m]) \ {gone}
    BY <1>2, RotationStored
  <2>2. local[m] # NoFile /\ keys' = keys + 1 /\ UNCHANGED <<got, remote>>
    BY <1>2, RotationStored DEF Rotate
  <2>3. edits' = edits + 1 /\ InPlay' \subseteq InPlay \cup {file}
    BY <2>1, <2>2, StoreInPlay DEF Store
  <2> QED BY <2>1, <2>2, <2>3, LineageGrows
<1>3. CASE UpgradeFormat(m)
  <2>1. local[m] \in Files /\ local[m] # NoFile BY <1>3 DEF UpgradeFormat, Idle, TypeOK
  <2> DEFINE file == [local[m] EXCEPT !.format = CurrentFormat, !.proof = NoKey]
  <2>2. /\ file \in Files /\ file.rev = local[m].rev /\ file.edits = local[m].edits
        /\ file.key = local[m].key /\ file.access = local[m].access /\ file.proof = NoKey
    BY <2>1 DEF Files, CurrentFormat
  <2>3. local' = [local EXCEPT ![m] = file] BY <1>3, <2>1 DEF UpgradeFormat, TypeOK
  <2>4. UNCHANGED <<got, remote, edits, keys>>
    BY <1>3 DEF UpgradeFormat, worldVars, counters
  <2> HIDE DEF file
  <2>5. InPlay' \subseteq InPlay \cup {file} BY <2>3, <2>4, StoreInPlay
  <2> QED BY <2>1, <2>2, <2>4, <2>5, LineageKept
<1> QED BY <1>1, <1>2, <1>3

(* Every other step only moves files, or drops them. *)
LEMMA MoveLineage ==
  ASSUME TypeInv, LineageInv, UNCHANGED <<edits, keys>>, InPlay' \subseteq InPlay
  PROVE  LineageInv'
BY DEF LineageInv, Numbered

LEMMA HoldLineage ==
  ASSUME TypeInv, LineageInv, NEW m \in Machines,
         RemoveMember(m) \/ Lock(m) \/ Unlock(m) \/ CompleteUnlock(m) \/ FailUnlock(m)
  PROVE  LineageInv'
<1>1. UNCHANGED <<local, got, remote, edits, keys>>
  BY DEF RemoveMember, Lock, Unlock, CompleteUnlock, FailUnlock, worldVars, counters
<1> QED BY <1>1, MoveLineage DEF InPlay

LEMMA SyncLineage ==
  ASSUME TypeInv, LineageInv, NEW m \in Machines,
         \/ PushLook(m) \/ PushWrite(m) \/ PushRecord(m)
         \/ Pull(m) \/ ForcedPull(m) \/ Poll(m)
         \/ PullTake(m) \/ PullRefuse(m) \/ PullRecord(m)
  PROVE  LineageInv'
<1> USE DEF TypeInv, TypeOK, InPlay, Fetch, worldVars, counters
<1>1. UNCHANGED <<edits, keys>>
  BY DEF PushLook, PushWrite, PushRecord, Pull, ForcedPull, Poll, PullLook, PullTake,
         PullRefuse, PullRecord
<1>2. CASE PushLook(m) \/ PushRecord(m) \/ PullRecord(m)
  BY <1>1, <1>2, MoveLineage DEF PushLook, PushRecord, PullRecord
<1>3. CASE PushWrite(m) BY <1>1, <1>3, MoveLineage DEF PushWrite
<1>4. CASE \E s \in {"pulling", "forcing"} : PullLook(m, s)
  BY <1>1, <1>4, MoveLineage DEF PullLook
<1>5. CASE PullTake(m) BY <1>1, <1>5, MoveLineage DEF PullTake
<1>6. CASE PullRefuse(m) BY <1>1, <1>6, MoveLineage DEF PullRefuse
<1> QED BY <1>2, <1>3, <1>4, <1>5, <1>6 DEF Pull, ForcedPull, Poll

LEMMA TroubleLineage ==
  ASSUME TypeInv, LineageInv, NEW m \in Machines,
         Fail(m) \/ Restart(m) \/ Delete(m) \/ Forget(m)
  PROVE  LineageInv'
<1> USE DEF TypeInv, TypeOK, InPlay, Fetch
<1>1. UNCHANGED <<edits, keys, remote>> BY DEF Fail, Restart, Delete, Forget
<1>2. CASE Fail(m) \/ Restart(m) BY <1>1, <1>2, MoveLineage DEF Fail, Restart
<1>3. CASE Delete(m) \/ Forget(m) BY <1>1, <1>3, MoveLineage DEF Delete, Forget
<1> QED BY <1>2, <1>3

LEMMA NextLineage == TypeInv /\ LineageInv /\ [Next]_vars => LineageInv'
<1> SUFFICES ASSUME TypeInv, LineageInv, [Next]_vars PROVE LineageInv' OBVIOUS
<1>1. CASE UNCHANGED vars
  <2>1. UNCHANGED <<local, got, remote, edits, keys>>
    BY <1>1 DEF vars, machineVars, worldVars, counters
  <2> QED BY <2>1, MoveLineage DEF InPlay
<1>2. CASE Next
  BY <1>2, ChangeLineage, HoldLineage, SyncLineage, TroubleLineage DEF Next
<1> QED BY <1>1, <1>2

(* Whatever was pushed over, pulled, forced or restored: of two files of    *)
(* the team, the one with all changes of the other has no smaller revision, *)
(* and under the same key no fewer members.                                 *)
THEOREM LaterVersionsDescend == Spec => []LineageInv
BY InitTyped, NextTyped, LineageInit, NextLineage, PTL DEF Spec

(* What a missed removal looks like to the machine that missed it. *)
LEMMA RemovalShrinks ==
  ASSUME TypeInv, LineageInv, NEW m \in Machines, local[m] # NoFile, got[m] # NoFile,
         CanDecrypt(m), MissedRemoval(m), local[m].edits \subseteq got[m].edits
  PROVE  ~ SameKeyClaimed(m)
<1>1. Members(got[m]) \subseteq Members(local[m]) /\ Members(got[m]) # Members(local[m])
  BY InPlayTyped DEF LineageInv, Descends, MissedRemoval, CanDecrypt
<1>2. IsFiniteSet(Members(local[m])) BY RecipientsAreFinite, FS_Subset DEF Members
<1>3. /\ Cardinality(Members(got[m])) <= Cardinality(Members(local[m]))
      /\ Cardinality(Members(got[m])) # Cardinality(Members(local[m]))
      /\ Cardinality(Members(got[m])) \in Nat /\ Cardinality(Members(local[m])) \in Nat
  BY <1>1, <1>2, FS_Subset, FS_CardinalityType
<1> QED BY <1>3 DEF SameKeyClaimed

(* Under the held key nobody has gone. *)
LEMMA SameKeyKeepsMembers ==
  ASSUME TypeInv, LineageInv, NEW m \in Machines, local[m] # NoFile, got[m] # NoFile,
         CanDecrypt(m), key[m] = got[m].key, local[m].edits \subseteq got[m].edits
  PROVE  SameKeyClaimed(m)
<1>1. Members(local[m]) \subseteq Members(got[m])
  BY InPlayTyped DEF LineageInv, Descends, CanDecrypt
<1>2. IsFiniteSet(Members(got[m])) BY RecipientsAreFinite, FS_Subset DEF Members
<1>3. /\ Cardinality(Members(local[m])) <= Cardinality(Members(got[m]))
      /\ Cardinality(Members(got[m])) \in Nat /\ Cardinality(Members(local[m])) \in Nat
  BY <1>1, <1>2, FS_Subset, FS_CardinalityType
<1> QED BY <1>3 DEF SameKeyClaimed

LEMMA HonestPulls == Synced /\ KeyInv /\ LineageInv => HonestPullAccepted
<1> SUFFICES ASSUME Synced, KeyInv, LineageInv, NEW m \in Machines,
               step[m] = "pulling", local[m] # NoFile, Unlocked(m), ~ HasUnpushed(m),
               m \in recorded, got[m].format = CurrentFormat,
               published \subseteq got[m].edits,
               key[m] = got[m].key \/ MissedRemoval(m), ~ mixed
             PROVE Accepts(m)
  BY DEF HonestPullAccepted
<1>1. /\ TypeInv /\ got[m] # NoFile
      /\ got[m] \in Files /\ local[m] \in Files /\ floor[m] \in 0..2
  BY DEF Synced, TypeInv, TypeOK, Working
<1>2. CanDecrypt(m) /\ got[m].mac = got[m].key BY <1>1 DEF KeyInv
<1>3. local[m].edits \subseteq got[m].edits
  BY DEF Synced, PubInv, HasUnpushed
<1>4. got[m].rev >= local[m].rev
  <2>1. local[m].rev <= got[m].rev BY <1>1, <1>3, InPlayTyped, LaterIsNoOlder
  <2> QED BY <1>1, <2>1 DEF Files
<1>5. got[m].format >= floor[m] /\ got[m].format >= local[m].format
  BY <1>1 DEF Files, CurrentFormat
<1>6. key[m] = IF SameKeyClaimed(m) THEN got[m].mac ELSE got[m].proof
  <2>1. CASE key[m] = got[m].key BY <1>1, <1>2, <1>3, <2>1, SameKeyKeepsMembers
  <2>2. CASE MissedRemoval(m)
    BY <1>1, <1>2, <1>3, <2>2, RemovalShrinks DEF MissedRemoval
  <2> QED BY <2>1, <2>2
<1> QED BY <1>4, <1>5, <1>6 DEF Accepts

(* A machine that lost nothing can follow the team without the user.        *)
THEOREM HonestPullsAreAccepted == Spec => []HonestPullAccepted
<1>1. Spec => []TypeInv BY InitTyped, NextTyped, PTL DEF Spec
<1>2. Spec => []KeyInv BY <1>1, KeyInit, NextAgrees, PTL DEF Spec
<1> QED BY <1>2, SpecSynced, LaterVersionsDescend, HonestPulls, PTL
=============================================================================
