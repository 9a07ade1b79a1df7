---------------------------- MODULE ProfileSync ----------------------------
(***************************************************************************)
(* Remote profile sync (services/ProfileSyncService.ts): several devices   *)
(* push their profiles to one storage target and pull them back.           *)
(*                                                                         *)
(* A profile is split in two files that are uploaded one after the other:  *)
(* "topology", which carries the time of the last change, and              *)
(* "credentials", which carries the secrets and no time.  One profile is   *)
(* enough to tell what can go wrong between the two files; its contents    *)
(* are the number of the edit that produced them (0: none).  The other     *)
(* five files are uploaded, checked and read in the same way.              *)
(*                                                                         *)
(* A device runs one operation at a time (runExclusive) and each call to   *)
(* the storage provider is a step, so operations of different devices      *)
(* interleave.  A fresh number stands for the size and mtime a stat sees.  *)
(***************************************************************************)
EXTENDS Naturals, FiniteSets

CONSTANTS
  Devices,      \* the devices that share the target
  MaxEdits,     \* bound: edits of the profile, on all devices together
  MaxUploads,   \* bound: uploads of one file
  Overlap       \* whether operations of different devices may overlap in time

ASSUME DevicesAssumption == IsFiniteSet(Devices)
ASSUME BoundsAssumption == MaxEdits \in Nat /\ MaxUploads \in Nat
ASSUME OverlapAssumption == Overlap \in BOOLEAN

Files == {"topology", "credentials"}
Absent == [edit |-> 0, stat |-> 0]      \* no such file
Unknown == MaxUploads + 1               \* lastKnownRemoteState has no entry

VARIABLES
  edits,     \* the number of edits so far; the clocks of the devices agree
  local,     \* the halves of the profile on each device
  remote,    \* the files of the target
  uploads,   \* the last number used for a stat of each file
  marker,    \* the push-in-progress marker exists on the target
  known,     \* lastKnownRemoteState of each device: a stat, 0 (null) or Unknown
  op,        \* the operation each device is in
  unnoticed  \* history: a write of the marker or a wipe's delete has failed,
             \* the calls whose failure the code passes over

vars == <<edits, local, remote, uploads, marker, known, op, unnoticed>>

Edits == 0 .. MaxEdits
Profile == [Files -> Edits]

(* An operation: its kind, the file it is at and what it does there, the   *)
(* snapshot it pushes or the halves it has read, and the stats it took.    *)
Idle == [kind |-> "idle", at |-> "none", file |-> "topology",
         data |-> [f \in Files |-> 0], seen |-> [f \in Files |-> 0],
         todo |-> {}]

Operations ==
  [kind : {"idle", "push", "pull", "compare", "wipe"},
   at   : {"none", "check", "upload", "stat", "unmark",
           "probe", "read", "delete", "rmdir"},
   file : Files, data : Profile, seen : [Files -> 0 .. MaxUploads],
   todo : SUBSET Files]

TypeOK ==
  /\ edits \in Edits
  /\ local \in [Devices -> Profile]
  /\ remote \in [Files -> [edit : Edits, stat : 0 .. MaxUploads]]
  /\ uploads \in [Files -> 0 .. MaxUploads]
  /\ marker \in BOOLEAN
  /\ known \in [Devices -> [Files -> 0 .. Unknown]]
  /\ op \in [Devices -> Operations]
  /\ unnoticed \in BOOLEAN

Init ==
  /\ edits = 0
  /\ local = [d \in Devices |-> [f \in Files |-> 0]]
  /\ remote = [f \in Files |-> Absent]
  /\ uploads = [f \in Files |-> 0]
  /\ marker = FALSE
  /\ known = [d \in Devices |-> [f \in Files |-> Unknown]]
  /\ op = [d \in Devices |-> Idle]
  /\ unnoticed = FALSE

-----------------------------------------------------------------------------
(* The user edits the profile: both halves are new, at a new time.         *)
Edit(d) ==
  /\ edits < MaxEdits
  /\ edits' = edits + 1
  /\ local' = [local EXCEPT ![d] = [f \in Files |-> edits + 1]]
  /\ UNCHANGED <<remote, uploads, marker, known, op, unnoticed>>

(* runExclusive: the operation starts when the device's queue is empty.    *)
MayStart(d) ==
  /\ op[d] = Idle
  /\ Overlap \/ \A e \in Devices : op[e] = Idle

Goto(d, o) == op' = [op EXCEPT ![d] = o]

-----------------------------------------------------------------------------
(* pushToRemoteNow                                                         *)

BeginPush(d) ==
  /\ MayStart(d)
  /\ \/ marker' = TRUE /\ UNCHANGED unnoticed
     \/ UNCHANGED marker /\ unnoticed' = TRUE
  /\ Goto(d, [Idle EXCEPT !.kind = "push", !.at = "check", !.data = local[d]])
  /\ UNCHANGED <<edits, local, remote, uploads, known>>

(* checkNotChangedRemotely; a conflict ends the push with its marker left. *)
Check(d) ==
  LET o == op[d]
  IN  /\ o.kind = "push" /\ o.at = "check"
      /\ IF known[d][o.file] \in {Unknown, remote[o.file].stat}
         THEN Goto(d, [o EXCEPT !.at = "upload"])
         ELSE Goto(d, Idle)
      /\ UNCHANGED <<edits, local, remote, uploads, marker, known, unnoticed>>

(* encryptAndUpload: the rename (or PutObject) puts the file in place.     *)
Upload(d) ==
  LET o == op[d]
  IN  /\ o.kind = "push" /\ o.at = "upload"
      /\ uploads[o.file] < MaxUploads
      /\ uploads' = [uploads EXCEPT ![o.file] = @ + 1]
      /\ remote' = [remote EXCEPT ![o.file] =
                      [edit |-> o.data[o.file], stat |-> uploads'[o.file]]]
      /\ Goto(d, [o EXCEPT !.at = "stat"])
      /\ UNCHANGED <<edits, local, marker, known, unnoticed>>

(* The stat after the upload, and on to the next file. *)
StatUploaded(d) ==
  LET o == op[d]
  IN  /\ o.kind = "push" /\ o.at = "stat"
      /\ known' = [known EXCEPT ![d][o.file] = remote[o.file].stat]
      /\ Goto(d, IF o.file = "topology"
                 THEN [o EXCEPT !.at = "check", !.file = "credentials"]
                 ELSE [o EXCEPT !.at = "unmark"])
      /\ UNCHANGED <<edits, local, remote, uploads, marker, unnoticed>>

EndPush(d) ==
  /\ op[d].kind = "push" /\ op[d].at = "unmark"
  /\ marker' = FALSE
  /\ Goto(d, Idle)
  /\ UNCHANGED <<edits, local, remote, uploads, known, unnoticed>>

-----------------------------------------------------------------------------
(* pullFromRemoteNow and compareWithRemoteNow                              *)

(* A plausible bug: the pull does not look for the marker. *)
BeginReadUnchecked(d, kind) ==
  /\ MayStart(d)
  /\ Goto(d, [Idle EXCEPT !.kind = kind, !.todo = Files,
                          !.at = IF kind = "compare" THEN "probe" ELSE "read"])
  /\ UNCHANGED <<edits, local, remote, uploads, marker, known, unnoticed>>

(* Both refuse a target with a marker. *)
BeginRead(d, kind) ==
  /\ ~marker
  /\ BeginReadUnchecked(d, kind)

(* A compare ends where there is no topology. *)
ProbeTopology(d) ==
  /\ op[d].at = "probe"
  /\ Goto(d, IF remote["topology"] = Absent THEN Idle
             ELSE [op[d] EXCEPT !.at = "read"])
  /\ UNCHANGED <<edits, local, remote, uploads, marker, known, unnoticed>>

(* downloadAndDecrypt first takes the stat; the files are read in parallel.*)
StatFile(d, f) ==
  LET o == op[d]
  IN  /\ o.at = "read" /\ f \in o.todo /\ o.seen[f] = 0
      /\ IF remote[f] = Absent
         THEN /\ known' = [known EXCEPT ![d][f] = 0]
              /\ Goto(d, [o EXCEPT !.todo = @ \ {f}])
         ELSE /\ Goto(d, [o EXCEPT !.seen[f] = remote[f].stat])
              /\ UNCHANGED known
      /\ UNCHANGED <<edits, local, remote, uploads, marker, unnoticed>>

(* The contents may be newer than the stat; a file deleted meanwhile makes *)
(* the read fail (StorageFails).                                           *)
ReadFile(d, f) ==
  LET o == op[d]
  IN  /\ o.at = "read" /\ f \in o.todo /\ o.seen[f] # 0
      /\ remote[f] # Absent
      /\ known' = [known EXCEPT ![d][f] = o.seen[f]]
      /\ Goto(d, [o EXCEPT !.todo = @ \ {f}, !.data[f] = remote[f].edit])
      /\ UNCHANGED <<edits, local, remote, uploads, marker, unnoticed>>

(* A plausible bug: what was pulled last wins. *)
MergeRemoteWins(mine, r, credentialsPulled) ==
  IF r["topology"] = 0 THEN mine ELSE r

(* joinById and mergeRecords, r being the halves pulled: without a record  *)
(* in the topology there is nothing to merge; the later change wins as a   *)
(* whole, with the credentials of mine if that file was not pulled; at the *)
(* same time only what is empty is filled in.                              *)
Merge(mine, r, credentialsPulled) ==
  IF r["topology"] > mine["topology"]
  THEN [r EXCEPT !["credentials"] =
          IF credentialsPulled THEN @ ELSE mine["credentials"]]
  ELSE IF r["topology"] = mine["topology"] /\ r["topology"] # 0
       THEN [mine EXCEPT !["credentials"] =
               IF @ = 0 THEN r["credentials"] ELSE @]
       ELSE mine

EndPull(d) ==
  /\ op[d].kind = "pull" /\ op[d].todo = {}
  /\ local' = [local EXCEPT ![d] =
              Merge(local[d], op[d].data, op[d].seen["credentials"] # 0)]
  /\ Goto(d, Idle)
  /\ UNCHANGED <<edits, remote, uploads, marker, known, unnoticed>>

EndCompare(d) ==
  /\ op[d].kind = "compare" /\ op[d].todo = {}
  /\ Goto(d, Idle)
  /\ UNCHANGED <<edits, local, remote, uploads, marker, known, unnoticed>>

-----------------------------------------------------------------------------
(* wipeRemoteNow: an error on one file does not stop the others, and the   *)
(* directory goes last, if the provider can delete it.                     *)

BeginWipe(d) ==
  /\ MayStart(d)
  /\ Goto(d, [Idle EXCEPT !.kind = "wipe", !.at = "delete"])
  /\ UNCHANGED <<edits, local, remote, uploads, marker, known, unnoticed>>

DeleteFile(d) ==
  LET o == op[d]
  IN  /\ o.kind = "wipe" /\ o.at = "delete"
      /\ \/ remote' = [remote EXCEPT ![o.file] = Absent] /\ UNCHANGED unnoticed
         \/ UNCHANGED remote /\ unnoticed' = TRUE
      /\ Goto(d, IF o.file = "topology" THEN [o EXCEPT !.file = "credentials"]
                 ELSE [o EXCEPT !.at = "rmdir"])
      /\ UNCHANGED <<edits, local, uploads, marker, known>>

EndWipe(d) ==
  /\ op[d].kind = "wipe" /\ op[d].at = "rmdir"
  /\ \/ /\ marker' = FALSE
        /\ remote' = [f \in Files |-> Absent]
     \/ UNCHANGED <<marker, remote>>
  /\ known' = [known EXCEPT ![d] = [f \in Files |-> Unknown]]
  /\ Goto(d, Idle)
  /\ UNCHANGED <<edits, local, uploads, unnoticed>>

-----------------------------------------------------------------------------
(* A plausible bug: a failed push tidies its marker up. *)
FailureUnmarks(d) ==
  /\ op[d].kind \in {"push", "pull", "compare"}
  /\ Goto(d, Idle)
  /\ marker' = IF op[d].kind = "push" THEN FALSE ELSE marker
  /\ UNCHANGED <<edits, local, remote, uploads, known, unnoticed>>

(* A call to the provider fails (or, in a pull, a file does not decrypt):  *)
(* the operation ends where it is.  In the code the downloads of a pull are *)
(* asked for together, and those that go on after one has failed may still  *)
(* record what they saw (1588, 1596): a record that runs further ahead of   *)
(* what was merged, as EndCompare leaves one too.                          *)
StorageFails(d) ==
  /\ op[d].kind \in {"push", "pull", "compare"}
  /\ Goto(d, Idle)
  /\ UNCHANGED <<edits, local, remote, uploads, marker, known, unnoticed>>

(* The application stops and starts again: lastKnownRemoteState is gone.   *)
Restart(d) ==
  /\ Goto(d, Idle)
  /\ known' = [known EXCEPT ![d] = [f \in Files |-> Unknown]]
  /\ UNCHANGED <<edits, local, remote, uploads, marker, unnoticed>>

Next ==
  \E d \in Devices :
    \/ Edit(d)
    \/ BeginPush(d) \/ Check(d) \/ Upload(d) \/ StatUploaded(d) \/ EndPush(d)
    \/ \E kind \in {"pull", "compare"} : BeginRead(d, kind)
    \/ \E f \in Files : StatFile(d, f) \/ ReadFile(d, f)
    \/ ProbeTopology(d) \/ EndPull(d) \/ EndCompare(d)
    \/ BeginWipe(d) \/ DeleteFile(d) \/ EndWipe(d)
    \/ StorageFails(d) \/ Restart(d)

Spec == Init /\ [][Next]_vars

-----------------------------------------------------------------------------
(* Properties *)

(* A profile is replaced as a whole: no device ever holds the settings of  *)
(* one change next to the credentials of another, whatever pushes broke    *)
(* off half way before it pulled.                                          *)
WholeRecord ==
  unnoticed \/ \A d \in Devices : local[d]["topology"] = local[d]["credentials"]

(* A pull never merges one half from before a push and the other half from *)
(* after it: the two files it has read hold the same change.               *)
PullReadsOnePush ==
  \A d \in Devices :
    /\ op[d].kind = "pull" /\ op[d].todo = {}
    /\ \A f \in Files : op[d].seen[f] # 0
    => op[d].data["topology"] = op[d].data["credentials"]

(* A target whose two files come from different changes carries the marker *)
(* of the push that left them so, until a push or a wipe goes through.     *)
PartialPushLeavesTrace ==
  \/ marker \/ unnoticed
  \/ remote["topology"] = Absent
  \/ remote["topology"].edit = remote["credentials"].edit

(* No pull takes a device back to an earlier change: the time of the       *)
(* profile on a device only grows, also when it was edited during the pull.*)
NewerNeverLost ==
  [][\A d \in Devices : local'[d]["topology"] >= local[d]["topology"]]_vars
=============================================================================
