------------------------- MODULE ProfileSyncProofs -------------------------
(***************************************************************************)
(* Proofs about ProfileSync, for any set of devices and any bounds.        *)
(***************************************************************************)
EXTENDS ProfileSync, TLAPS

(* Changing the operation of one device.                                   *)
LEMMA GotoType ==
  ASSUME TypeOK, NEW d \in Devices, NEW o \in Operations, Goto(d, o)
  PROVE  op' \in [Devices -> Operations]
  BY DEF Goto, TypeOK

LEMMA ConstantTypes ==
  /\ Idle \in Operations
  /\ Absent \in [edit : Edits, stat : 0 .. MaxUploads]
  /\ Unknown \in 0 .. Unknown
  /\ \A n \in 0 .. MaxUploads : n \in 0 .. Unknown
  /\ 0 \in 0 .. Unknown
  /\ 0 \in Edits /\ 0 \in 0 .. MaxUploads
<1>1. 0 \in Edits /\ 0 \in 0 .. MaxUploads
  BY BoundsAssumption DEF Edits
<1>2. Absent \in [edit : Edits, stat : 0 .. MaxUploads]
  BY <1>1 DEF Absent
<1>3. Idle \in Operations
  BY <1>1 DEF Idle, Operations, Files, Profile
<1>4. /\ Unknown \in 0 .. Unknown
      /\ 0 \in 0 .. Unknown
      /\ \A n \in 0 .. MaxUploads : n \in 0 .. Unknown
  BY BoundsAssumption DEF Unknown
<1> QED
  BY <1>1, <1>2, <1>3, <1>4

(* What a pull merges is a profile again, and no older than the device's.  *)
LEMMA MergeKeepsNewer ==
  ASSUME NEW mine \in Profile, NEW r \in Profile, NEW pulled \in BOOLEAN
  PROVE  /\ Merge(mine, r, pulled) \in Profile
         /\ Merge(mine, r, pulled)["topology"] >= mine["topology"]
  BY DEF Merge, Profile, Files, Edits

LEMMA PushKeepsType ==
  ASSUME TypeOK, NEW d \in Devices,
         BeginPush(d) \/ Check(d) \/ Upload(d) \/ StatUploaded(d) \/ EndPush(d)
  PROVE  TypeOK'
<1>1. op[d] \in Operations
  BY DEF TypeOK
<1>2. CASE BeginPush(d)
  <2>1. [Idle EXCEPT !.kind = "push", !.at = "check", !.data = local[d]] \in Operations
    BY ConstantTypes DEF TypeOK, Operations
  <2> QED
    BY <1>2, <2>1, GotoType DEF BeginPush, TypeOK
<1>3. CASE Check(d)
  <2>1. [op[d] EXCEPT !.at = "upload"] \in Operations
    BY <1>1 DEF Operations
  <2> QED
    BY <1>3, <2>1, GotoType, ConstantTypes DEF Check, TypeOK
<1>4. CASE Upload(d)
  <2>1. [op[d] EXCEPT !.at = "stat"] \in Operations
    BY <1>1 DEF Operations
  <2>2. op[d].file \in Files /\ op[d].data[op[d].file] \in Edits
    BY <1>1 DEF Operations, Profile
  <2>3. uploads' \in [Files -> 0 .. MaxUploads]
    BY <1>4, <2>2, BoundsAssumption DEF Upload, TypeOK
  <2>4. remote' \in [Files -> [edit : Edits, stat : 0 .. MaxUploads]]
    BY <1>4, <2>2, <2>3 DEF Upload, TypeOK
  <2>5. op' \in [Devices -> Operations]
    BY <1>4, <2>1, GotoType DEF Upload
  <2> QED
    BY <1>4, <2>3, <2>4, <2>5 DEF Upload, TypeOK
<1>5. CASE StatUploaded(d)
  <2>1. /\ [op[d] EXCEPT !.at = "check", !.file = "credentials"] \in Operations
        /\ [op[d] EXCEPT !.at = "unmark"] \in Operations
    BY <1>1 DEF Operations, Files
  <2>2. op[d].file \in Files /\ remote[op[d].file].stat \in 0 .. Unknown
    BY <1>1, ConstantTypes DEF Operations, TypeOK
  <2>3. known' \in [Devices -> [Files -> 0 .. Unknown]]
    BY <1>5, <2>2 DEF StatUploaded, TypeOK
  <2>4. op' \in [Devices -> Operations]
    BY <1>5, <2>1, GotoType DEF StatUploaded
  <2> QED
    BY <1>5, <2>3, <2>4 DEF StatUploaded, TypeOK
<1>6. CASE EndPush(d)
  BY <1>6, GotoType, ConstantTypes DEF EndPush, TypeOK
<1> QED
  BY <1>2, <1>3, <1>4, <1>5, <1>6

LEMMA ReadKeepsType ==
  ASSUME TypeOK, NEW d \in Devices, NEW f \in Files,
         \/ \E kind \in {"pull", "compare"} : BeginRead(d, kind)
         \/ ProbeTopology(d) \/ StatFile(d, f) \/ ReadFile(d, f)
         \/ EndPull(d) \/ EndCompare(d)
  PROVE  TypeOK'
<1>1. op[d] \in Operations
  BY DEF TypeOK
<1>2. ASSUME NEW kind \in {"pull", "compare"}, BeginRead(d, kind) PROVE TypeOK'
  <2>1. [Idle EXCEPT !.kind = kind, !.todo = Files,
                     !.at = IF kind = "compare" THEN "probe" ELSE "read"] \in Operations
    BY ConstantTypes DEF Operations
  <2> QED
    BY <1>2, <2>1, GotoType DEF BeginRead, BeginReadUnchecked, TypeOK
<1>3. CASE ProbeTopology(d)
  <2>1. [op[d] EXCEPT !.at = "read"] \in Operations
    BY <1>1 DEF Operations
  <2> QED
    BY <1>3, <2>1, GotoType, ConstantTypes DEF ProbeTopology, TypeOK
<1>4. CASE StatFile(d, f)
  <2>1. /\ [op[d] EXCEPT !.todo = @ \ {f}] \in Operations
        /\ [op[d] EXCEPT !.seen[f] = remote[f].stat] \in Operations
    BY <1>1 DEF Operations, TypeOK
  <2>2. known' \in [Devices -> [Files -> 0 .. Unknown]]
    <3>1. known' = known \/ known' = [known EXCEPT ![d][f] = 0]
      BY <1>4 DEF StatFile
    <3>2. /\ known \in [Devices -> [Files -> 0 .. Unknown]]
          /\ 0 \in 0 .. Unknown
      BY ConstantTypes DEF TypeOK
    <3>3. [known EXCEPT ![d][f] = 0] \in [Devices -> [Files -> 0 .. Unknown]]
      BY <3>2
    <3> QED
      BY <3>1, <3>2, <3>3
  <2>3. op' \in [Devices -> Operations]
    <3>1. CASE remote[f] = Absent
      BY <1>4, <2>1, <3>1, GotoType DEF StatFile
    <3>2. CASE remote[f] # Absent
      BY <1>4, <2>1, <3>2, GotoType DEF StatFile
    <3> QED
      BY <3>1, <3>2
  <2> QED
    BY <1>4, <2>2, <2>3 DEF StatFile, TypeOK
<1>5. CASE ReadFile(d, f)
  <2>1. [op[d] EXCEPT !.todo = @ \ {f}, !.data[f] = remote[f].edit] \in Operations
    BY <1>1 DEF Operations, Profile, TypeOK
  <2>2. op[d].seen[f] \in 0 .. Unknown
    BY <1>1, ConstantTypes DEF Operations
  <2>3. known' \in [Devices -> [Files -> 0 .. Unknown]]
    BY <1>5, <2>2 DEF ReadFile, TypeOK
  <2>4. op' \in [Devices -> Operations]
    BY <1>5, <2>1, GotoType DEF ReadFile
  <2> QED
    BY <1>5, <2>3, <2>4 DEF ReadFile, TypeOK
<1>6. CASE EndPull(d)
  <2>1. Merge(local[d], op[d].data, op[d].seen["credentials"] # 0) \in Profile
    BY <1>1, MergeKeepsNewer DEF Operations, TypeOK
  <2> QED
    BY <1>6, <2>1, GotoType, ConstantTypes DEF EndPull, TypeOK
<1>7. CASE EndCompare(d)
  BY <1>7, GotoType, ConstantTypes DEF EndCompare, TypeOK
<1> QED
  BY <1>2, <1>3, <1>4, <1>5, <1>6, <1>7

LEMMA OtherStepsKeepType ==
  ASSUME TypeOK, NEW d \in Devices,
         \/ Edit(d) \/ BeginWipe(d) \/ DeleteFile(d) \/ EndWipe(d)
         \/ StorageFails(d) \/ Restart(d)
  PROVE  TypeOK'
<1>1. op[d] \in Operations
  BY DEF TypeOK
<1>2. CASE Edit(d)
  <2>1. edits + 1 \in Edits
    BY <1>2, BoundsAssumption DEF Edit, TypeOK, Edits
  <2> QED
    BY <1>2, <2>1 DEF Edit, TypeOK, Profile
<1>3. CASE BeginWipe(d)
  <2>1. [Idle EXCEPT !.kind = "wipe", !.at = "delete"] \in Operations
    BY ConstantTypes DEF Operations
  <2> QED
    BY <1>3, <2>1, GotoType DEF BeginWipe, TypeOK
<1>4. CASE DeleteFile(d)
  <2>1. /\ [op[d] EXCEPT !.file = "credentials"] \in Operations
        /\ [op[d] EXCEPT !.at = "rmdir"] \in Operations
    BY <1>1 DEF Operations, Files
  <2>2. remote' \in [Files -> [edit : Edits, stat : 0 .. MaxUploads]]
    BY <1>4, ConstantTypes DEF DeleteFile, TypeOK
  <2>3. op' \in [Devices -> Operations]
    BY <1>4, <2>1, GotoType DEF DeleteFile
  <2> QED
    BY <1>4, <2>2, <2>3 DEF DeleteFile, TypeOK
<1>5. CASE EndWipe(d)
  BY <1>5, GotoType, ConstantTypes DEF EndWipe, TypeOK
<1>6. CASE StorageFails(d)
  BY <1>6, GotoType, ConstantTypes DEF StorageFails, TypeOK
<1>7. CASE Restart(d)
  BY <1>7, GotoType, ConstantTypes DEF Restart, TypeOK
<1> QED
  BY <1>2, <1>3, <1>4, <1>5, <1>6, <1>7

(* The state of the devices and of the target keeps its type.              *)
THEOREM SyncTypeCorrect == Spec => []TypeOK
<1>1. Init => TypeOK
  <2> SUFFICES ASSUME Init PROVE TypeOK
    OBVIOUS
  <2>1. edits \in Edits /\ unnoticed \in BOOLEAN /\ marker \in BOOLEAN
    BY ConstantTypes DEF Init
  <2>2. local \in [Devices -> Profile] /\ op \in [Devices -> Operations]
    BY ConstantTypes DEF Init, Profile
  <2>3. /\ remote \in [Files -> [edit : Edits, stat : 0 .. MaxUploads]]
        /\ uploads \in [Files -> 0 .. MaxUploads]
    BY ConstantTypes DEF Init
  <2>4. known \in [Devices -> [Files -> 0 .. Unknown]]
    BY ConstantTypes DEF Init
  <2> QED
    BY <2>1, <2>2, <2>3, <2>4 DEF TypeOK
<1>2. TypeOK /\ [Next]_vars => TypeOK'
  <2> SUFFICES ASSUME TypeOK, [Next]_vars PROVE TypeOK'
    OBVIOUS
  <2>1. CASE UNCHANGED vars
    BY <2>1 DEF vars, TypeOK
  <2>2. Files # {}
    BY DEF Files
  <2> QED
    BY <2>1, <2>2, PushKeepsType, ReadKeepsType, OtherStepsKeepType DEF Next
<1> QED
  BY <1>1, <1>2, PTL DEF Spec

(* What the devices, the target and the operations hold was edited before: *)
(* the time of a new edit is later than that of anything already there.    *)
NoneFromTheFuture ==
  /\ \A d \in Devices, f \in Files : local[d][f] <= edits
  /\ \A f \in Files : remote[f].edit <= edits
  /\ \A d \in Devices, f \in Files : op[d].data[f] <= edits

LEMMA NoFutureInvariant == Spec => []NoneFromTheFuture
<1>1. Init => NoneFromTheFuture
  BY DEF Init, NoneFromTheFuture, Absent, Idle
<1>2. TypeOK /\ NoneFromTheFuture /\ [Next]_vars => NoneFromTheFuture'
  <2> SUFFICES ASSUME TypeOK, NoneFromTheFuture, [Next]_vars
               PROVE  NoneFromTheFuture'
    OBVIOUS
  <2>0. /\ edits \in Nat
        /\ \A f \in Files : Idle.data[f] <= edits
        /\ Absent.edit <= edits
        /\ \A d \in Devices : op[d] \in Operations /\ op[d].file \in Files
    BY DEF TypeOK, Edits, Idle, Absent, Operations
  <2>1. CASE UNCHANGED vars
    BY <2>1 DEF vars, NoneFromTheFuture
  <2>2. ASSUME NEW d \in Devices, Edit(d) PROVE NoneFromTheFuture'
    <3>1. edits' = edits + 1 /\ UNCHANGED <<remote, op>>
      BY <2>2 DEF Edit
    <3>2. \A e \in Devices, f \in Files : local'[e][f] \in {local[e][f], edits + 1}
      BY <2>2 DEF Edit, TypeOK
    <3>3. /\ \A e \in Devices, f \in Files : local[e][f] \in Nat
          /\ \A f \in Files : remote[f].edit \in Nat
          /\ \A e \in Devices, f \in Files : op[e].data[f] \in Nat
      BY DEF TypeOK, Operations, Profile, Edits
    <3> QED
      BY <2>0, <3>1, <3>2, <3>3 DEF NoneFromTheFuture
  (* A step that takes operation o and leaves all else as it is, or lowers.*)
  <2>3. ASSUME NEW d \in Devices, NEW o, Goto(d, o),
               \A f \in Files : o.data[f] <= edits,
               UNCHANGED <<edits, local>>,
               \A f \in Files : remote'[f].edit <= edits
        PROVE  NoneFromTheFuture'
    BY <2>3 DEF Goto, TypeOK, NoneFromTheFuture
  <2>4. ASSUME NEW d \in Devices, BeginPush(d) PROVE NoneFromTheFuture'
    <3>1. \A f \in Files : [Idle EXCEPT !.kind = "push", !.at = "check",
                                        !.data = local[d]].data[f] <= edits
      BY DEF Idle, NoneFromTheFuture
    <3> QED
      BY <2>3, <2>4, <3>1 DEF BeginPush, NoneFromTheFuture
  <2>5. ASSUME NEW d \in Devices, Check(d) PROVE NoneFromTheFuture'
    <3>1. \A f \in Files : [op[d] EXCEPT !.at = "upload"].data[f] <= edits
      BY <2>0 DEF NoneFromTheFuture, Operations
    <3> QED
      BY <2>0, <2>3, <2>5, <3>1 DEF Check, NoneFromTheFuture
  <2>6. ASSUME NEW d \in Devices, Upload(d) PROVE NoneFromTheFuture'
    <3>1. \A f \in Files : [op[d] EXCEPT !.at = "stat"].data[f] <= edits
      BY <2>0 DEF NoneFromTheFuture, Operations
    <3>2. \A f \in Files : remote'[f].edit \in {remote[f].edit, op[d].data[f]}
      BY <2>6 DEF Upload, TypeOK
    <3>3. \A f \in Files : remote'[f].edit <= edits
      BY <3>2 DEF NoneFromTheFuture
    <3> QED
      BY <2>3, <2>6, <3>1, <3>3 DEF Upload
  <2>7. ASSUME NEW d \in Devices, StatUploaded(d) PROVE NoneFromTheFuture'
    <3>1. \A f \in Files :
            /\ [op[d] EXCEPT !.at = "check", !.file = "credentials"].data[f] <= edits
            /\ [op[d] EXCEPT !.at = "unmark"].data[f] <= edits
      BY <2>0 DEF NoneFromTheFuture, Operations
    <3> QED
      BY <2>3, <2>7, <3>1 DEF StatUploaded, NoneFromTheFuture
  <2>8. ASSUME NEW d \in Devices, NEW kind, BeginRead(d, kind)
        PROVE  NoneFromTheFuture'
    <3>1. \A f \in Files :
            [Idle EXCEPT !.kind = kind, !.todo = Files,
               !.at = IF kind = "compare" THEN "probe" ELSE "read"].data[f] <= edits
      BY <2>0 DEF Idle
    <3> QED
      BY <2>3, <2>8, <3>1 DEF BeginRead, BeginReadUnchecked, NoneFromTheFuture
  <2>9. ASSUME NEW d \in Devices, ProbeTopology(d) PROVE NoneFromTheFuture'
    <3>1. \A f \in Files : [op[d] EXCEPT !.at = "read"].data[f] <= edits
      BY <2>0 DEF NoneFromTheFuture, Operations
    <3> QED
      BY <2>0, <2>3, <2>9, <3>1 DEF ProbeTopology, NoneFromTheFuture
  <2>10. ASSUME NEW d \in Devices, NEW f \in Files, StatFile(d, f)
         PROVE  NoneFromTheFuture'
    <3>1. \A g \in Files :
            /\ [op[d] EXCEPT !.todo = @ \ {f}].data[g] <= edits
            /\ [op[d] EXCEPT !.seen[f] = remote[f].stat].data[g] <= edits
      BY <2>0 DEF NoneFromTheFuture, Operations
    <3>2. /\ UNCHANGED <<edits, local, remote>>
          /\ \/ Goto(d, [op[d] EXCEPT !.todo = @ \ {f}])
             \/ Goto(d, [op[d] EXCEPT !.seen[f] = remote[f].stat])
      BY <2>10 DEF StatFile
    <3> QED
      BY <2>3, <3>1, <3>2 DEF NoneFromTheFuture
  <2>11. ASSUME NEW d \in Devices, NEW f \in Files, ReadFile(d, f)
         PROVE  NoneFromTheFuture'
    <3>1. \A g \in Files :
            [op[d] EXCEPT !.todo = @ \ {f}, !.data[f] = remote[f].edit].data[g] <= edits
      BY <2>0 DEF NoneFromTheFuture, Operations, Profile
    <3> QED
      BY <2>3, <2>11, <3>1 DEF ReadFile, NoneFromTheFuture
  <2>12. ASSUME NEW d \in Devices, EndPull(d) PROVE NoneFromTheFuture'
    <3> DEFINE r == op[d].data
               pulled == op[d].seen["credentials"] # 0
    <3>1. /\ r \in Profile /\ local[d] \in Profile
          /\ UNCHANGED <<edits, remote>>
          /\ op' = [op EXCEPT ![d] = Idle]
          /\ local' = [local EXCEPT ![d] = Merge(local[d], r, pulled)]
      BY <2>0, <2>12 DEF EndPull, Goto, TypeOK, Operations
    <3>2. \A f \in Files : Merge(local[d], r, pulled)[f] \in
                             {local[d]["topology"], local[d]["credentials"],
                              r["topology"], r["credentials"]}
      BY <3>1 DEF Merge, Profile, Files
    <3>3. \A f \in Files : Merge(local[d], r, pulled)[f] <= edits
      BY <3>2 DEF NoneFromTheFuture, Files
    <3> QED
      BY <2>0, <3>1, <3>3 DEF NoneFromTheFuture, TypeOK
  <2>13. ASSUME NEW d \in Devices, BeginWipe(d) PROVE NoneFromTheFuture'
    <3>1. \A f \in Files :
            [Idle EXCEPT !.kind = "wipe", !.at = "delete"].data[f] <= edits
      BY <2>0 DEF Idle
    <3> QED
      BY <2>3, <2>13, <3>1 DEF BeginWipe, NoneFromTheFuture
  <2>14. ASSUME NEW d \in Devices, DeleteFile(d) PROVE NoneFromTheFuture'
    <3>1. \A f \in Files :
            /\ [op[d] EXCEPT !.file = "credentials"].data[f] <= edits
            /\ [op[d] EXCEPT !.at = "rmdir"].data[f] <= edits
      BY <2>0 DEF NoneFromTheFuture, Operations
    <3>2. \A f \in Files : remote'[f] \in {remote[f], Absent}
      BY <2>14 DEF DeleteFile, TypeOK
    <3>3. \A f \in Files : remote'[f].edit <= edits
      BY <2>0, <3>2 DEF NoneFromTheFuture
    <3> QED
      BY <2>3, <2>14, <3>1, <3>3 DEF DeleteFile
  <2>15. ASSUME NEW d \in Devices, EndWipe(d) PROVE NoneFromTheFuture'
    <3>1. \A f \in Files : remote'[f] \in {remote[f], Absent}
      BY <2>15 DEF EndWipe
    <3>2. \A f \in Files : remote'[f].edit <= edits
      BY <2>0, <3>1 DEF NoneFromTheFuture
    <3> QED
      BY <2>0, <2>3, <2>15, <3>2 DEF EndWipe
  <2>16. ASSUME NEW d \in Devices,
                EndPush(d) \/ EndCompare(d) \/ StorageFails(d) \/ Restart(d)
         PROVE  NoneFromTheFuture'
    <3>1. Goto(d, Idle) /\ UNCHANGED <<edits, local, remote>>
      BY <2>16 DEF EndPush, EndCompare, StorageFails, Restart
    <3> QED
      BY <2>0, <2>3, <3>1 DEF NoneFromTheFuture
  <2> QED
    BY <2>1, <2>2, <2>4, <2>5, <2>6, <2>7, <2>8, <2>9, <2>10, <2>11, <2>12,
       <2>13, <2>14, <2>15, <2>16 DEF Next
<1> QED
  BY <1>1, <1>2, SyncTypeCorrect, PTL DEF Spec

(* A pull never takes a device back to an earlier change, whatever other   *)
(* devices do to the target in the meantime.                               *)
THEOREM PullsNeverGoBack == Spec => NewerNeverLost
<1> DEFINE Grows == \A d \in Devices : local'[d]["topology"] >= local[d]["topology"]
<1>1. TypeOK /\ NoneFromTheFuture /\ [Next]_vars => [Grows]_vars
  <2> SUFFICES ASSUME TypeOK, NoneFromTheFuture, Next PROVE Grows
    OBVIOUS
  <2>0. \A d \in Devices : local[d] \in Profile /\ local[d]["topology"] \in Nat
    BY DEF TypeOK, Profile, Files, Edits
  <2>1. (UNCHANGED local) \/ \E d \in Devices : Edit(d) \/ EndPull(d)
    <3>1. ASSUME NEW d \in Devices,
                 \/ BeginPush(d) \/ Check(d) \/ Upload(d) \/ StatUploaded(d) \/ EndPush(d)
          PROVE  UNCHANGED local
      BY <3>1 DEF BeginPush, Check, Upload, StatUploaded, EndPush
    <3>2. ASSUME NEW d \in Devices,
                 \/ \E kind \in {"pull", "compare"} : BeginRead(d, kind)
                 \/ \E f \in Files : StatFile(d, f) \/ ReadFile(d, f)
                 \/ ProbeTopology(d) \/ EndCompare(d)
          PROVE  UNCHANGED local
      BY <3>2 DEF BeginRead, BeginReadUnchecked, StatFile, ReadFile, ProbeTopology, EndCompare
    <3>3. ASSUME NEW d \in Devices,
                 \/ BeginWipe(d) \/ DeleteFile(d) \/ EndWipe(d) \/ StorageFails(d) \/ Restart(d)
          PROVE  UNCHANGED local
      BY <3>3 DEF BeginWipe, DeleteFile, EndWipe, StorageFails, Restart
    <3> QED
      BY <3>1, <3>2, <3>3 DEF Next
  <2>2. CASE UNCHANGED local
    BY <2>0, <2>2
  <2>3. ASSUME NEW d \in Devices, Edit(d) PROVE Grows
    <3>1. /\ edits \in Nat /\ local[d]["topology"] <= edits
          /\ local' = [local EXCEPT ![d] = [f \in Files |-> edits + 1]]
          /\ "topology" \in Files
      BY <2>3 DEF Edit, TypeOK, NoneFromTheFuture, Edits, Files
    <3> QED
      BY <2>0, <3>1 DEF TypeOK
  <2>4. ASSUME NEW d \in Devices, EndPull(d) PROVE Grows
    <3>1. op[d].data \in Profile
      BY DEF TypeOK, Operations
    <3>2. local'[d]["topology"] >= local[d]["topology"]
      BY <2>0, <2>4, <3>1, MergeKeepsNewer DEF EndPull, TypeOK
    <3> QED
      BY <2>0, <2>4, <3>2 DEF EndPull, TypeOK
  <2> QED
    BY <2>1, <2>2, <2>3, <2>4
<1> QED
  BY <1>1, SyncTypeCorrect, NoFutureInvariant, PTL DEF Spec, NewerNeverLost

-----------------------------------------------------------------------------
(* What holds when operations of different devices follow one another and  *)
(* no fault was passed over: the marker is on the target for as long as a  *)
(* push is under way, and what an operation did so far is still there.     *)

PushFacts(o, rem, mk) ==
  o.kind = "push" =>
    /\ mk
    /\ o.at \in {"check", "upload", "stat", "unmark"}
    /\ o.data["topology"] = o.data["credentials"]
    /\ o.file = "credentials" \/ o.at = "stat"
         => rem["topology"].edit = o.data["topology"]
    /\ (o.at = "stat" /\ o.file = "credentials") \/ o.at = "unmark"
         => rem["credentials"].edit = o.data["credentials"]
    /\ o.at = "unmark" => o.file = "credentials"

PullFacts(o, rem, mk) ==
  o.kind = "pull" =>
    /\ ~mk
    /\ o.at = "read"
    /\ \A f \in o.todo : o.data[f] = 0
    /\ \A f \in Files \ o.todo :
         /\ o.data[f] = rem[f].edit
         /\ o.seen[f] = 0 => rem[f].edit = 0

WipeFacts(o, rem) ==
  o.kind = "wipe" /\ o.file = "credentials" => rem["topology"] = Absent

OpFacts(o, rem, mk) ==
  PushFacts(o, rem, mk) /\ PullFacts(o, rem, mk) /\ WipeFacts(o, rem)

OneAtATime == \A d, e \in Devices : op[d] = Idle \/ op[e] = Idle \/ d = e

SyncInv ==
  /\ OneAtATime
  /\ WholeRecord
  /\ PartialPushLeavesTrace
  /\ \A d \in Devices : OpFacts(op[d], remote, marker)

LEMMA IdleFacts ==
  ASSUME NEW rem, NEW mk PROVE OpFacts(Idle, rem, mk)
  BY DEF OpFacts, PushFacts, PullFacts, WipeFacts, Idle

(* Whoever is in an operation, or may start one, is alone.                 *)
LEMMA OthersAreIdle ==
  ASSUME OneAtATime, ~Overlap, NEW d \in Devices, MayStart(d) \/ op[d] # Idle
  PROVE  \A e \in Devices \ {d} : op[e] = Idle
  BY DEF OneAtATime, MayStart

(* A step of the one device that is in an operation, which goes on as o.   *)
LEMMA StepOfOne ==
  ASSUME TypeOK, SyncInv, ~Overlap, NEW d \in Devices,
         MayStart(d) \/ op[d] # Idle,
         NEW o, Goto(d, o), OpFacts(o, remote', marker'),
         WholeRecord', PartialPushLeavesTrace'
  PROVE  SyncInv'
<1>1. \A e \in Devices \ {d} : op[e] = Idle /\ op'[e] = Idle
  BY OthersAreIdle DEF SyncInv, Goto, TypeOK
<1>2. op'[d] = o
  BY DEF Goto, TypeOK
<1>3. OneAtATime'
  BY <1>1 DEF OneAtATime
<1>4. \A e \in Devices : OpFacts(op'[e], remote', marker')
  BY <1>1, <1>2, IdleFacts
<1> QED
  BY <1>3, <1>4 DEF SyncInv

LEMMA PushKeepsWhole ==
  ASSUME TypeOK, SyncInv, ~Overlap, ~unnoticed, ~unnoticed', NEW d \in Devices,
         BeginPush(d) \/ Check(d) \/ Upload(d) \/ StatUploaded(d) \/ EndPush(d)
  PROVE  SyncInv'
<1> DEFINE o == op[d]
<1>0. /\ o \in Operations /\ o.file \in Files
      /\ OpFacts(o, remote, marker)
      /\ remote \in [Files -> [edit : Edits, stat : 0 .. MaxUploads]]
      /\ WholeRecord /\ PartialPushLeavesTrace
  BY DEF TypeOK, SyncInv, Operations
<1>1. o.kind = "push" => o # Idle
  BY DEF Idle
<1>2. CASE BeginPush(d)
  <2> DEFINE new == [Idle EXCEPT !.kind = "push", !.at = "check", !.data = local[d]]
  <2>1. OpFacts(new, remote', marker')
    BY <1>0, <1>2 DEF BeginPush, OpFacts, PushFacts, PullFacts, WipeFacts, Idle,
                      WholeRecord
  <2>2. Goto(d, new) /\ MayStart(d)
    BY <1>2 DEF BeginPush
  <2>3. WholeRecord' /\ PartialPushLeavesTrace'
    BY <1>0, <1>2 DEF BeginPush, WholeRecord, PartialPushLeavesTrace
  <2> HIDE DEF new
  <2> QED
    BY <2>1, <2>2, <2>3, StepOfOne
<1>3. CASE Check(d)
  <2> DEFINE new == [o EXCEPT !.at = "upload"]
  <2>1. o.kind = "push" /\ o.at = "check" /\ UNCHANGED <<local, remote, marker>>
    BY <1>3 DEF Check
  <2>2. OpFacts(new, remote', marker')
    BY <1>0, <2>1 DEF OpFacts, PushFacts, PullFacts, WipeFacts, Operations
  <2>3. Goto(d, new) \/ Goto(d, Idle)
    BY <1>3 DEF Check
  <2>4. WholeRecord' /\ PartialPushLeavesTrace'
    BY <1>0, <2>1 DEF WholeRecord, PartialPushLeavesTrace
  <2> HIDE DEF new
  <2> QED
    BY <1>1, <2>1, <2>2, <2>3, <2>4, StepOfOne, IdleFacts
<1>4. CASE Upload(d)
  <2> DEFINE new == [o EXCEPT !.at = "stat"]
  <2>1. /\ o.kind = "push" /\ o.at = "upload" /\ UNCHANGED <<local, marker>>
        /\ remote' = [remote EXCEPT ![o.file] =
                        [edit |-> o.data[o.file], stat |-> uploads'[o.file]]]
    BY <1>4 DEF Upload
  <2>2. /\ remote'[o.file].edit = o.data[o.file]
        /\ \A f \in Files \ {o.file} : remote'[f] = remote[f]
    BY <1>0, <2>1
  <2>3. OpFacts(new, remote', marker')
    BY <1>0, <2>1, <2>2 DEF OpFacts, PushFacts, PullFacts, WipeFacts, Operations,
                            Files
  <2>4. Goto(d, new)
    BY <1>4 DEF Upload
  <2>5. WholeRecord' /\ PartialPushLeavesTrace'
    BY <1>0, <2>1 DEF WholeRecord, PartialPushLeavesTrace, OpFacts, PushFacts
  <2> HIDE DEF new
  <2> QED
    BY <1>1, <2>1, <2>3, <2>4, <2>5, StepOfOne
<1>5. CASE StatUploaded(d)
  <2> DEFINE new == IF o.file = "topology"
                    THEN [o EXCEPT !.at = "check", !.file = "credentials"]
                    ELSE [o EXCEPT !.at = "unmark"]
  <2>1. o.kind = "push" /\ o.at = "stat" /\ UNCHANGED <<local, remote, marker>>
    BY <1>5 DEF StatUploaded
  <2>2. OpFacts(new, remote', marker')
    BY <1>0, <2>1 DEF OpFacts, PushFacts, PullFacts, WipeFacts, Operations, Files
  <2>3. Goto(d, new)
    BY <1>5 DEF StatUploaded
  <2>4. WholeRecord' /\ PartialPushLeavesTrace'
    BY <1>0, <2>1 DEF WholeRecord, PartialPushLeavesTrace
  <2> HIDE DEF new
  <2> QED
    BY <1>1, <2>1, <2>2, <2>3, <2>4, StepOfOne
<1>6. CASE EndPush(d)
  <2>1. o.kind = "push" /\ o.at = "unmark" /\ UNCHANGED <<local, remote>>
    BY <1>6 DEF EndPush
  <2>2. WholeRecord' /\ PartialPushLeavesTrace'
    BY <1>0, <2>1 DEF WholeRecord, PartialPushLeavesTrace, OpFacts, PushFacts
  <2> QED
    BY <1>1, <1>6, <2>1, <2>2, StepOfOne, IdleFacts DEF EndPush
<1> QED
  BY <1>2, <1>3, <1>4, <1>5, <1>6

LEMMA ReadKeepsWhole ==
  ASSUME TypeOK, SyncInv, ~Overlap, ~unnoticed, NEW d \in Devices, NEW f \in Files,
         \/ \E kind \in {"pull", "compare"} : BeginRead(d, kind)
         \/ ProbeTopology(d) \/ StatFile(d, f) \/ ReadFile(d, f)
         \/ EndPull(d) \/ EndCompare(d)
  PROVE  SyncInv'
<1> DEFINE o == op[d]
<1>0. /\ o \in Operations
      /\ OpFacts(o, remote, marker)
      /\ remote \in [Files -> [edit : Edits, stat : 0 .. MaxUploads]]
      /\ WholeRecord /\ PartialPushLeavesTrace
  BY DEF TypeOK, SyncInv, Operations
<1>1. o.at # "none" => o # Idle
  BY DEF Idle
<1>2. UNCHANGED <<local, remote, marker>> => WholeRecord' /\ PartialPushLeavesTrace'
  BY <1>0 DEF WholeRecord, PartialPushLeavesTrace
<1>3. ASSUME NEW kind \in {"pull", "compare"}, BeginRead(d, kind) PROVE SyncInv'
  <2> DEFINE new == [Idle EXCEPT !.kind = kind, !.todo = Files,
                       !.at = IF kind = "compare" THEN "probe" ELSE "read"]
  <2>1. /\ ~marker /\ UNCHANGED <<local, remote, marker>>
        /\ Goto(d, new) /\ MayStart(d)
    BY <1>3 DEF BeginRead, BeginReadUnchecked
  <2>2. OpFacts(new, remote', marker')
    BY <2>1 DEF OpFacts, PushFacts, PullFacts, WipeFacts, Idle
  <2> HIDE DEF new
  <2> QED
    BY <1>2, <2>1, <2>2, StepOfOne
<1>4. CASE ProbeTopology(d)
  <2> DEFINE new == [o EXCEPT !.at = "read"]
  <2>1. /\ o.at = "probe" /\ UNCHANGED <<local, remote, marker>>
        /\ Goto(d, new) \/ Goto(d, Idle)
    BY <1>4 DEF ProbeTopology
  <2>2. OpFacts(new, remote', marker')
    BY <1>0, <2>1 DEF OpFacts, PushFacts, PullFacts, WipeFacts, Operations
  <2> HIDE DEF new
  <2> QED
    BY <1>1, <1>2, <2>1, <2>2, StepOfOne, IdleFacts
<1>5. CASE StatFile(d, f)
  <2> DEFINE gone == [o EXCEPT !.todo = @ \ {f}]
             there == [o EXCEPT !.seen[f] = remote[f].stat]
  <2>1. /\ o.at = "read" /\ f \in o.todo /\ o.seen[f] = 0
        /\ UNCHANGED <<local, remote, marker>>
        /\ \/ remote[f] = Absent /\ Goto(d, gone)
           \/ Goto(d, there)
    BY <1>5 DEF StatFile
  <2>2. OpFacts(there, remote', marker')
    BY <1>0, <2>1 DEF OpFacts, PushFacts, PullFacts, WipeFacts, Operations
  <2>3. ASSUME remote[f] = Absent PROVE OpFacts(gone, remote', marker')
    BY <1>0, <2>1, <2>3 DEF OpFacts, PushFacts, PullFacts, WipeFacts, Operations, Absent
  <2> HIDE DEF gone, there
  <2> QED
    BY <1>1, <1>2, <2>1, <2>2, <2>3, StepOfOne
<1>6. CASE ReadFile(d, f)
  <2> DEFINE new == [o EXCEPT !.todo = @ \ {f}, !.data[f] = remote[f].edit]
  <2>1. /\ o.at = "read" /\ f \in o.todo /\ o.seen[f] # 0
        /\ UNCHANGED <<local, remote, marker>>
        /\ Goto(d, new)
    BY <1>6 DEF ReadFile
  <2>2. OpFacts(new, remote', marker')
    BY <1>0, <2>1 DEF OpFacts, PushFacts, PullFacts, WipeFacts, Operations, Profile
  <2> HIDE DEF new
  <2> QED
    BY <1>1, <1>2, <2>1, <2>2, StepOfOne
<1>7. CASE EndPull(d)
  <2> DEFINE mine == local[d]
             pulled == o.seen["credentials"] # 0
             merged == Merge(mine, o.data, pulled)
  <2>1. /\ o.kind = "pull" /\ o.todo = {} /\ UNCHANGED <<remote, marker>>
        /\ Goto(d, Idle)
        /\ local' = [local EXCEPT ![d] = merged]
    BY <1>7 DEF EndPull
  <2>2. /\ mine \in Profile /\ o.data \in Profile
        /\ mine["topology"] = mine["credentials"]
        /\ mine["topology"] \in Nat
    BY <1>0 DEF TypeOK, WholeRecord, Profile, Operations, Edits, Files
  (* The two halves read are those of one change, or no settings were read.*)
  <2>3. /\ o.data["topology"] \in {0, o.data["credentials"]}
        /\ o.data["topology"] # 0 => pulled
        /\ o.data["topology"] \in Nat
    <3>1. /\ ~marker
          /\ \A g \in Files : /\ o.data[g] = remote[g].edit
                              /\ o.seen[g] = 0 => remote[g].edit = 0
      BY <1>0, <2>1 DEF OpFacts, PullFacts
    <3>2. remote["topology"].edit \in {0, remote["credentials"].edit}
      BY <1>0, <3>1 DEF PartialPushLeavesTrace, Absent
    <3> QED
      BY <2>2, <3>1, <3>2 DEF Files, Profile, Edits
  <2>4. merged["topology"] = merged["credentials"] /\ merged \in Profile
    BY <2>2, <2>3 DEF Merge, Profile, Files
  <2>5. WholeRecord'
    BY <1>0, <2>1, <2>4 DEF WholeRecord, TypeOK
  <2>6. PartialPushLeavesTrace'
    BY <1>0, <2>1 DEF PartialPushLeavesTrace
  <2>7. o # Idle
    BY <2>1 DEF Idle
  <2> QED
    BY <2>1, <2>5, <2>6, <2>7, StepOfOne, IdleFacts
<1>8. CASE EndCompare(d)
  <2>1. o.kind = "compare" /\ Goto(d, Idle) /\ UNCHANGED <<local, remote, marker>>
    BY <1>8 DEF EndCompare
  <2>2. o # Idle
    BY <2>1 DEF Idle
  <2> QED
    BY <1>2, <2>1, <2>2, StepOfOne, IdleFacts
<1> QED
  BY <1>3, <1>4, <1>5, <1>6, <1>7, <1>8

LEMMA OtherStepsKeepWhole ==
  ASSUME TypeOK, SyncInv, ~Overlap, ~unnoticed, ~unnoticed', NEW d \in Devices,
         \/ Edit(d) \/ BeginWipe(d) \/ DeleteFile(d) \/ EndWipe(d)
         \/ StorageFails(d) \/ Restart(d)
  PROVE  SyncInv'
<1> DEFINE o == op[d]
<1>0. /\ o \in Operations
      /\ OpFacts(o, remote, marker)
      /\ remote \in [Files -> [edit : Edits, stat : 0 .. MaxUploads]]
      /\ WholeRecord /\ PartialPushLeavesTrace /\ OneAtATime
      /\ \A e \in Devices : OpFacts(op[e], remote, marker)
  BY DEF TypeOK, SyncInv
<1>1. UNCHANGED <<local, remote, marker>> => WholeRecord' /\ PartialPushLeavesTrace'
  BY <1>0 DEF WholeRecord, PartialPushLeavesTrace
<1>2. CASE Edit(d)
  <2>1. /\ local' = [local EXCEPT ![d] = [f \in Files |-> edits + 1]]
        /\ UNCHANGED <<op, remote, marker>>
    BY <1>2 DEF Edit
  <2>2. WholeRecord'
    BY <1>0, <2>1 DEF WholeRecord, TypeOK, Files
  <2> QED
    BY <1>0, <2>1, <2>2 DEF SyncInv, OneAtATime, PartialPushLeavesTrace
<1>3. CASE BeginWipe(d)
  <2> DEFINE new == [Idle EXCEPT !.kind = "wipe", !.at = "delete"]
  <2>1. MayStart(d) /\ Goto(d, new) /\ UNCHANGED <<local, remote, marker>>
    BY <1>3 DEF BeginWipe
  <2>2. OpFacts(new, remote', marker')
    BY DEF OpFacts, PushFacts, PullFacts, WipeFacts, Idle
  <2> HIDE DEF new
  <2> QED
    BY <1>1, <2>1, <2>2, StepOfOne
<1>4. CASE DeleteFile(d)
  <2> DEFINE new == IF o.file = "topology" THEN [o EXCEPT !.file = "credentials"]
                    ELSE [o EXCEPT !.at = "rmdir"]
  <2>1. /\ o.kind = "wipe" /\ UNCHANGED <<local, marker>> /\ Goto(d, new)
        /\ remote' = [remote EXCEPT ![o.file] = Absent]
    BY <1>4 DEF DeleteFile
  <2>2. remote'["topology"] = Absent
    BY <1>0, <2>1 DEF OpFacts, WipeFacts, Operations, Files
  <2>3. OpFacts(new, remote', marker')
    BY <1>0, <2>1, <2>2 DEF OpFacts, PushFacts, PullFacts, WipeFacts, Operations
  <2>4. WholeRecord' /\ PartialPushLeavesTrace'
    BY <1>0, <2>1, <2>2 DEF WholeRecord, PartialPushLeavesTrace
  <2>5. o # Idle
    BY <2>1 DEF Idle
  <2> HIDE DEF new
  <2> QED
    BY <2>1, <2>3, <2>4, <2>5, StepOfOne
<1>5. CASE EndWipe(d)
  <2>1. /\ o.kind = "wipe" /\ UNCHANGED local /\ Goto(d, Idle)
        /\ \/ remote' = [f \in Files |-> Absent]
           \/ UNCHANGED <<remote, marker>>
    BY <1>5 DEF EndWipe
  <2>2. WholeRecord' /\ PartialPushLeavesTrace'
    BY <1>0, <2>1 DEF WholeRecord, PartialPushLeavesTrace, Files
  <2>3. o # Idle
    BY <2>1 DEF Idle
  <2> QED
    BY <2>1, <2>2, <2>3, StepOfOne, IdleFacts
<1>6. CASE StorageFails(d) \/ Restart(d)
  <2>1. op' = [op EXCEPT ![d] = Idle] /\ UNCHANGED <<local, remote, marker>>
    BY <1>6 DEF StorageFails, Restart, Goto
  <2>2. \A e \in Devices : op'[e] = IF e = d THEN Idle ELSE op[e]
    BY <2>1 DEF TypeOK
  <2>3. \A e \in Devices : OpFacts(op'[e], remote', marker')
    BY <1>0, <2>1, <2>2, IdleFacts
  <2>4. OneAtATime'
    BY <1>0, <2>2 DEF OneAtATime
  <2> QED
    BY <1>1, <2>1, <2>3, <2>4 DEF SyncInv
<1> QED
  BY <1>2, <1>3, <1>4, <1>5, <1>6

(* A fault that was passed over stays one.                                 *)
LEMMA UnnoticedStays == Next /\ unnoticed => unnoticed'
<1> SUFFICES ASSUME Next, unnoticed PROVE unnoticed'
  OBVIOUS
<1>1. ASSUME NEW d \in Devices,
             \/ Edit(d) \/ BeginPush(d) \/ Check(d) \/ Upload(d) \/ StatUploaded(d) \/ EndPush(d)
      PROVE  unnoticed'
  BY <1>1 DEF Edit, BeginPush, Check, Upload, StatUploaded, EndPush
<1>2. ASSUME NEW d \in Devices,
             \/ \E kind \in {"pull", "compare"} : BeginRead(d, kind)
             \/ \E f \in Files : StatFile(d, f) \/ ReadFile(d, f)
             \/ ProbeTopology(d) \/ EndPull(d) \/ EndCompare(d)
      PROVE  unnoticed'
  BY <1>2 DEF BeginRead, BeginReadUnchecked, StatFile, ReadFile, ProbeTopology, EndPull, EndCompare
<1>3. ASSUME NEW d \in Devices,
             \/ BeginWipe(d) \/ DeleteFile(d) \/ EndWipe(d) \/ StorageFails(d) \/ Restart(d)
      PROVE  unnoticed'
  BY <1>3 DEF BeginWipe, DeleteFile, EndWipe, StorageFails, Restart
<1> QED
  BY <1>1, <1>2, <1>3 DEF Next

(* When the devices take turns, the inductive invariant behind the next    *)
(* two theorems, up to the first fault that is passed over.                *)
LEMMA SyncInvariant ==
  ASSUME ~Overlap PROVE Spec => [](unnoticed \/ SyncInv)
<1>1. Init => SyncInv
  <2> SUFFICES ASSUME Init PROVE SyncInv
    OBVIOUS
  <2>1. \A d \in Devices : OpFacts(op[d], remote, marker) /\ op[d] = Idle
    BY IdleFacts DEF Init
  <2> QED
    BY <2>1 DEF Init, SyncInv, OneAtATime, WholeRecord, PartialPushLeavesTrace, Files
<1>2. TypeOK /\ (unnoticed \/ SyncInv) /\ [Next]_vars => (unnoticed \/ SyncInv)'
  <2> SUFFICES ASSUME TypeOK, unnoticed \/ SyncInv, [Next]_vars, ~unnoticed'
               PROVE  SyncInv'
    OBVIOUS
  <2>1. SyncInv /\ ~unnoticed
    BY UnnoticedStays DEF vars
  <2>2. CASE UNCHANGED vars
    BY <2>1, <2>2 DEF vars, SyncInv, OneAtATime, WholeRecord, PartialPushLeavesTrace
  <2>3. Files # {}
    BY DEF Files
  <2> QED
    BY <2>1, <2>2, <2>3, PushKeepsWhole, ReadKeepsWhole, OtherStepsKeepWhole DEF Next
<1> QED
  BY <1>1, <1>2, SyncTypeCorrect, PTL DEF Spec

(* Then no device ever mixes the halves of two changes, however many       *)
(* pushes broke off or were stopped by a crash before it pulled.           *)
THEOREM RecordsStayWhole ==
  ASSUME ~Overlap PROVE Spec => []WholeRecord
<1>1. unnoticed \/ SyncInv => WholeRecord
  BY DEF SyncInv, WholeRecord
<1> QED
  BY <1>1, SyncInvariant, PTL

(* And a push that did not go through always leaves its marker.            *)
THEOREM TracesAreLeft ==
  ASSUME ~Overlap PROVE Spec => []PartialPushLeavesTrace
<1>1. unnoticed \/ SyncInv => PartialPushLeavesTrace
  BY DEF SyncInv, PartialPushLeavesTrace
<1> QED
  BY <1>1, SyncInvariant, PTL
=============================================================================
