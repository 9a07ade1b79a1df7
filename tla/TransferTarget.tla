--------------------------- MODULE TransferTarget ---------------------------
(***************************************************************************)
(* Attempts to write one path of an SFTP server: executeTransferFile of    *)
(* transfer/TransferPipeline.ts over the write stream of                   *)
(* storage/sftp/SftpStreams.ts.  The stream opens, and so truncates, the   *)
(* file with its first chunk; an attempt that fails deletes the file, but  *)
(* only if its open had touched it.  An attempt may fail while the open is *)
(* on the wire: it waits for the answer, though not for ever.  A retry is  *)
(* another attempt.  Each await ends a step.                               *)
(***************************************************************************)
EXTENDS Integers, Sequences

CONSTANTS
  Transfers,   \* attempts to write the path
  Size,        \* how many chunks the source of each has
  Sessions,    \* the connections to the server, one per storage provider
  SessionOf,   \* the one each attempt uses
  MaxDrops     \* bound: connections dropped

ASSUME SizeAssumption == Size \in [Transfers -> Nat]
ASSUME SessionAssumption == SessionOf \in [Transfers -> Sessions]
ASSUME DropsAssumption == MaxDrops \in Nat

CONSTANTS Original, NoFile, Hole  \* the file there before, no file, unwritten data
ASSUME NamesDiffer == /\ Original # NoFile
                      /\ Original \notin Transfers
                      /\ NoFile \notin Transfers

Files == Transfers \cup {Original}   \* a file is named after who created it
StreamOps == {"open", "write", "close"}
Ops == StreamOps \cup {"stat", "delete"}
Answers == [op : Ops, ok : BOOLEAN, size : Nat]

VARIABLES
  path,     \* the file at the path
  disk,     \* of each file, who truncated it last and who wrote each chunk
  handle,   \* the file the server holds open for each attempt
  wire,     \* requests of each session, not served yet
  inbox,    \* answers that each attempt has not seen yet
  cut,      \* attempts whose stream lost its connection
  drops     \* connections dropped so far

serverVars == <<path, disk, handle, wire, inbox, cut, drops>>

VARIABLES
  pc,       \* how far executeTransferFile is
  fds,      \* streams with a handle
  opening,  \* streams with an open in flight, until a late handle is closed
  closed,   \* streams destroyed (isClosed)
  opened,   \* streams whose open succeeded (targetTouched)
  sent,     \* currentOffset, in chunks
  late,     \* the clean-up after an open that did not settle in time
  alone,    \* the attempt begun last, if no other was under way since
  kept      \* attempts whose clean-up the server refused

clientVars == <<pc, fds, opening, closed, opened, sent, late, alone, kept>>
streamVars == <<fds, opening, closed, opened, sent>>
vars == <<serverVars, clientVars>>

Stages == {"new", "streaming", "finishing", "tearing", "settling", "verifying",
           "deleting", "completed", "failed"}
Contents == [by : Files, data : Seq(Transfers \cup {Hole})]

TypeOK ==
  /\ path \in Files \cup {NoFile}
  /\ disk \in [Files -> Contents]
  /\ handle \in [Transfers -> Files \cup {NoFile}]
  /\ wire \in [Sessions -> Seq([by : Transfers, op : Ops])]
  /\ inbox \in [Transfers -> Seq(Answers)]
  /\ cut \in SUBSET Transfers
  /\ drops \in 0..MaxDrops
  /\ pc \in [Transfers -> Stages]
  /\ fds \in SUBSET Transfers
  /\ opening \in SUBSET Transfers
  /\ closed \in SUBSET Transfers
  /\ opened \in SUBSET Transfers
  /\ sent \in [Transfers -> Nat]
  /\ late \in [Transfers -> {"none", "waiting", "stat", "deleting", "over"}]
  /\ alone \in SUBSET Transfers
  /\ kept \in SUBSET Transfers

Init ==
  /\ path \in {Original, NoFile}
  /\ disk = [f \in Files |-> [by |-> Original, data |-> <<>>]]
  /\ handle = [t \in Transfers |-> NoFile]
  /\ wire = [s \in Sessions |-> <<>>]
  /\ inbox = [t \in Transfers |-> <<>>]
  /\ cut = {}
  /\ drops = 0
  /\ pc = [t \in Transfers |-> "new"]
  /\ fds = {} /\ opening = {} /\ closed = {} /\ opened = {}
  /\ sent = [t \in Transfers |-> 0]
  /\ late = [t \in Transfers |-> "none"]
  /\ alone = {} /\ kept = {}

Go(t, stage) == pc' = [pc EXCEPT ![t] = stage]
GoLate(t, stage) == late' = [late EXCEPT ![t] = stage]

Send(t, op) ==
  wire' = [wire EXCEPT ![SessionOf[t]] = Append(@, [by |-> t, op |-> op])]

Receive(t, op) ==
  /\ inbox[t] # <<>> /\ Head(inbox[t]).op = op
  /\ inbox' = [inbox EXCEPT ![t] = Tail(@)]

Ok(t) == Head(inbox[t]).ok

(* Nothing of the attempt is on its way to the server or back. *)
Quiet(t) ==
  /\ inbox[t] = <<>>
  /\ \A i \in DOMAIN wire[SessionOf[t]] : wire[SessionOf[t]][i].by # t

(* The attempt has been reported, and no clean-up of it will follow. *)
Over(t) ==
  /\ pc[t] \in {"new", "completed", "failed"}
  /\ late[t] \in {"none", "over"}

-----------------------------------------------------------------------------
(* The write stream and the pipeline around it. *)

(* Nothing in the code keeps a path to one attempt at a time. *)
Begin(t) ==
  /\ pc[t] = "new"
  /\ Go(t, "streaming")
  /\ alone' = IF \A u \in Transfers \ {t} : Over(u) THEN {t} ELSE {}
  /\ UNCHANGED <<serverVars, streamVars, late, kept>>

Streaming(t) == pc[t] = "streaming" /\ t \notin closed /\ Quiet(t)

(* A chunk of the source; the first one opens the file. *)
Write(t) ==
  /\ Streaming(t) /\ sent[t] < Size[t]
  /\ \/ t \in fds /\ Send(t, "write") /\ UNCHANGED opening
     \/ t \notin fds /\ Send(t, "open") /\ opening' = opening \cup {t}
  /\ UNCHANGED <<path, disk, handle, inbox, cut, drops,
                 pc, fds, closed, opened, sent, late, alone, kept>>

(* The source ends, perhaps before the size it was said to have. *)
Final(t) ==
  /\ Streaming(t)
  /\ Go(t, "finishing")
  /\ \/ t \in fds /\ Send(t, "close") /\ fds' = fds \ {t} /\ UNCHANGED opening
     \/ t \notin fds /\ Send(t, "open") /\ opening' = opening \cup {t} /\ UNCHANGED fds
  /\ UNCHANGED <<path, disk, handle, inbox, cut, drops,
                 closed, opened, sent, late, alone, kept>>

(* The pipeline reports the error once _destroy has had its close answered. *)
Destroy(t) ==
  /\ closed' = closed \cup {t}
  /\ \/ t \in fds /\ Send(t, "close") /\ fds' = fds \ {t} /\ Go(t, "tearing")
     \/ t \notin fds /\ Go(t, "settling") /\ UNCHANGED <<fds, wire>>

(* The source fails or the user cancels. *)
Break(t) ==
  /\ pc[t] \in {"streaming", "finishing"} /\ t \notin closed
  /\ Destroy(t)
  /\ UNCHANGED <<path, disk, handle, inbox, cut, drops,
                 opening, opened, sent, late, alone, kept>>

(* Mutant: a handle that arrives after _destroy is forgotten. *)
LateHandleForgotten(t) ==
  /\ Receive(t, "open") /\ Ok(t)
  /\ opened' = opened \cup {t} /\ opening' = opening \ {t}
  /\ \/ t \in closed /\ UNCHANGED <<wire, fds>>
     \/ /\ t \notin closed
        /\ Send(t, IF pc[t] = "streaming" THEN "write" ELSE "close")
        /\ fds' = IF pc[t] = "streaming" THEN fds \cup {t} ELSE fds
  /\ UNCHANGED <<path, disk, handle, cut, drops, pc, closed, sent, late, alone, kept>>

(* A handle that arrives after _destroy is closed before the open settles. *)
OpenAnswered(t) ==
  /\ Receive(t, "open") /\ Ok(t)
  /\ opened' = opened \cup {t}
  /\ \/ /\ t \in closed
        /\ Send(t, "close")
        /\ UNCHANGED <<fds, opening>>
     \/ /\ t \notin closed /\ pc[t] = "streaming"
        /\ Send(t, "write")
        /\ fds' = fds \cup {t} /\ opening' = opening \ {t}
     \/ /\ t \notin closed /\ pc[t] = "finishing"
        /\ Send(t, "close")
        /\ opening' = opening \ {t}
        /\ UNCHANGED fds
  /\ UNCHANGED <<path, disk, handle, cut, drops, pc, closed, sent, late, alone, kept>>

OpenFailed(t) ==
  /\ Receive(t, "open") /\ ~Ok(t)
  /\ opening' = opening \ {t}
  /\ \/ t \in closed /\ UNCHANGED <<closed, fds, wire, pc>>
     \/ t \notin closed /\ Destroy(t)
  /\ UNCHANGED <<path, disk, handle, cut, drops, opened, sent, late, alone, kept>>

(* Mutant: a write that failed counts as written. *)
WriteErrorIgnored(t) ==
  /\ Receive(t, "write")
  /\ sent' = IF t \in closed THEN sent ELSE [sent EXCEPT ![t] = @ + 1]
  /\ UNCHANGED <<path, disk, handle, wire, cut, drops, pc, fds, closed,
                 opening, opened, late, alone, kept>>

WriteAnswered(t) ==
  /\ Receive(t, "write")
  /\ \/ t \in closed /\ UNCHANGED <<closed, fds, wire, pc, sent>>
     \/ /\ t \notin closed /\ Ok(t)
        /\ sent' = [sent EXCEPT ![t] = @ + 1]
        /\ UNCHANGED <<closed, fds, wire, pc>>
     \/ t \notin closed /\ ~Ok(t) /\ Destroy(t) /\ UNCHANGED sent
  /\ UNCHANGED <<path, disk, handle, cut, drops, opening, opened, late, alone, kept>>

(* The close of a late handle, of _destroy, or of _final: the last one     *)
(* ends the stream, and what was written is verified.                      *)
CloseAnswered(t) ==
  /\ Receive(t, "close")
  /\ \/ t \in opening /\ opening' = opening \ {t} /\ UNCHANGED <<closed, wire, pc>>
     \/ /\ t \notin opening /\ t \in closed
        /\ pc' = IF pc[t] = "tearing" THEN [pc EXCEPT ![t] = "settling"] ELSE pc
        /\ UNCHANGED <<closed, opening, wire>>
     \/ /\ t \notin opening /\ t \notin closed
        /\ closed' = closed \cup {t}
        /\ \/ Ok(t) /\ sent[t] = Size[t] /\ Send(t, "stat") /\ Go(t, "verifying")
           \/ ~(Ok(t) /\ sent[t] = Size[t]) /\ Go(t, "settling") /\ UNCHANGED wire
        /\ UNCHANGED opening
  /\ UNCHANGED <<path, disk, handle, cut, drops, fds, opened, sent, late, alone, kept>>

(* Of an empty source the size is not compared: 0 stands for unknown. *)
Verified(t) ==
  /\ pc[t] = "verifying" /\ Receive(t, "stat")
  /\ Go(t, IF Ok(t) /\ (Size[t] = 0 \/ Head(inbox[t]).size = Size[t])
           THEN "completed" ELSE "settling")
  /\ UNCHANGED <<path, disk, handle, wire, cut, drops, streamVars, late, alone, kept>>

-----------------------------------------------------------------------------
(* The clean-up of an attempt that failed. *)

CleanUp(t) == Go(t, "deleting") /\ Send(t, "delete")

(* Mutant: the file is deleted whether or not the open touched it. *)
SettledDeletes(t) ==
  /\ pc[t] = "settling" /\ t \notin opening
  /\ CleanUp(t)
  /\ UNCHANGED <<path, disk, handle, inbox, cut, drops, streamVars, late, alone, kept>>

Settled(t) ==
  /\ pc[t] = "settling" /\ t \notin opening
  /\ \/ t \in opened /\ CleanUp(t)
     \/ t \notin opened /\ Go(t, "failed") /\ UNCHANGED wire
  /\ UNCHANGED <<path, disk, handle, inbox, cut, drops, streamVars, late, alone, kept>>

(* Mutant: no clean-up follows an open that is answered too late. *)
TimesOutForGood(t) ==
  /\ pc[t] = "settling" /\ t \in opening
  /\ \/ t \in opened /\ CleanUp(t)
     \/ t \notin opened /\ Go(t, "failed") /\ UNCHANGED wire
  /\ UNCHANGED <<path, disk, handle, inbox, cut, drops, streamVars, late, alone, kept>>

(* Mutant: the wait for the open is not bounded. *)
NeverTimesOut(t) == FALSE /\ UNCHANGED vars

(* The open is not answered within TARGET_SETTLE_TIMEOUT_MS. *)
SettleTimesOut(t) ==
  /\ pc[t] = "settling" /\ t \in opening
  /\ \/ t \in opened /\ CleanUp(t) /\ UNCHANGED late
     \/ /\ t \notin opened
        /\ Go(t, "failed")
        /\ GoLate(t, "waiting")
        /\ UNCHANGED wire
  /\ UNCHANGED <<path, disk, handle, inbox, cut, drops, streamVars, alone, kept>>

LateSettled(t) ==
  /\ late[t] = "waiting" /\ t \notin opening
  /\ \/ t \in opened /\ Send(t, "stat") /\ GoLate(t, "stat")
     \/ t \notin opened /\ GoLate(t, "over") /\ UNCHANGED wire
  /\ UNCHANGED <<path, disk, handle, inbox, cut, drops, pc, streamVars, alone, kept>>

(* Only a file that is empty now is deleted. *)
LateStat(t) ==
  /\ late[t] = "stat" /\ Receive(t, "stat")
  /\ \/ Ok(t) /\ Head(inbox[t]).size = 0 /\ Send(t, "delete") /\ GoLate(t, "deleting")
     \/ ~(Ok(t) /\ Head(inbox[t]).size = 0) /\ GoLate(t, "over") /\ UNCHANGED wire
  /\ UNCHANGED <<path, disk, handle, cut, drops, pc, streamVars, alone, kept>>

Deleted(t) ==
  /\ Receive(t, "delete")
  /\ \/ pc[t] = "deleting" /\ Go(t, "failed") /\ UNCHANGED late
     \/ late[t] = "deleting" /\ GoLate(t, "over") /\ UNCHANGED pc
  /\ UNCHANGED <<path, disk, handle, wire, cut, drops, streamVars, alone, kept>>

-----------------------------------------------------------------------------
(* The server.  A session's requests are served in order. *)

First(s) == Head(wire[s])

Serve(s, op, ok, size) ==
  /\ wire[s] # <<>> /\ First(s).op = op
  /\ wire' = [wire EXCEPT ![s] = Tail(@)]
  /\ inbox' = [inbox EXCEPT ![First(s).by] =
                 Append(@, [op |-> op, ok |-> ok, size |-> size])]

ServeOpen(s) ==
  /\ Serve(s, "open", TRUE, 0)
  /\ First(s).by \notin cut
  /\ LET t == First(s).by
         f == IF path = NoFile THEN t ELSE path
     IN /\ path' = f
        /\ disk' = [disk EXCEPT ![f] = [by |-> t, data |-> <<>>]]
        /\ handle' = [handle EXCEPT ![t] = f]
  /\ UNCHANGED <<cut, drops, clientVars>>

(* Chunk at + 1 of the data; a gap before it reads as zeros. *)
Written(data, at, t) ==
  [k \in 1..(IF at < Len(data) THEN Len(data) ELSE at + 1) |->
     IF k = at + 1 THEN t ELSE IF k <= Len(data) THEN data[k] ELSE Hole]

ServeWrite(s) ==
  /\ Serve(s, "write", TRUE, 0)
  /\ LET t == First(s).by IN
       /\ handle[t] # NoFile
       /\ disk' = [disk EXCEPT ![handle[t]].data = Written(@, sent[t], t)]
  /\ UNCHANGED <<path, handle, cut, drops, clientVars>>

(* Closing ends the handle even when it reports a failed write. *)
ServeClose(s) ==
  /\ \E ok \in BOOLEAN : Serve(s, "close", ok, 0) /\ (ok => First(s).by \notin cut)
  /\ handle' = [handle EXCEPT ![First(s).by] = NoFile]
  /\ UNCHANGED <<path, disk, cut, drops, clientVars>>

ServeStat(s) ==
  /\ path # NoFile
  /\ Serve(s, "stat", TRUE, Len(disk[path].data))
  /\ UNCHANGED <<path, disk, handle, cut, drops, clientVars>>

ServeDelete(s) ==
  /\ path # NoFile
  /\ Serve(s, "delete", TRUE, 0)
  /\ path' = NoFile
  /\ UNCHANGED <<disk, handle, cut, drops, clientVars>>

(* No such file, no permission, no space, or a stream without connection. *)
Refuse(s) ==
  /\ \E op \in Ops \ {"close"} : Serve(s, op, FALSE, 0)
  /\ kept' = IF First(s).op \in {"stat", "delete"} THEN kept \cup {First(s).by} ELSE kept
  /\ UNCHANGED <<path, disk, handle, cut, drops,
                 pc, streamVars, late, alone>>

(* The streams get errors, those whose answer is on its way as those whose *)
(* request is not served.  The provider reconnects and asks again.         *)
Drop(s) ==
  LET lost == {t \in Transfers : SessionOf[t] = s /\ pc[t] # "new"}
      Seen(a) == IF a.op \in StreamOps THEN [a EXCEPT !.ok = FALSE] ELSE a
  IN /\ drops < MaxDrops
     /\ drops' = drops + 1
     /\ cut' = cut \cup lost
     /\ handle' = [t \in Transfers |-> IF t \in lost THEN NoFile ELSE handle[t]]
     /\ inbox' = [t \in Transfers |->
                    IF t \in lost THEN [i \in DOMAIN inbox[t] |-> Seen(inbox[t][i])]
                    ELSE inbox[t]]
     /\ UNCHANGED <<path, disk, wire, clientVars>>

-----------------------------------------------------------------------------
Client(t) ==
  \/ Write(t) \/ Final(t)
  \/ OpenAnswered(t) \/ OpenFailed(t) \/ WriteAnswered(t) \/ CloseAnswered(t)
  \/ Verified(t)
  \/ Settled(t) \/ SettleTimesOut(t) \/ LateSettled(t) \/ LateStat(t) \/ Deleted(t)

Server(s) ==
  \/ ServeOpen(s) \/ ServeWrite(s) \/ ServeClose(s) \/ ServeStat(s)
  \/ ServeDelete(s) \/ Refuse(s)

Finished ==
  /\ \A t \in Transfers : pc[t] \in {"completed", "failed"} /\ Over(t) /\ Quiet(t)
  /\ UNCHANGED vars

Next ==
  \/ \E t \in Transfers : Begin(t) \/ Break(t) \/ Client(t)
  \/ \E s \in Sessions : Server(s) \/ Drop(s)
  \/ Finished

Spec == Init /\ [][Next]_vars

(* The program's own steps happen; the server answers everything except,   *)
(* perhaps, an open.                                                       *)
AnswersAllButOpens(s) ==
  /\ wire[s] # <<>>
  /\ First(s).op # "open" \/ First(s).by \in cut
  /\ Server(s)

FairSpec ==
  /\ Spec
  /\ \A t \in Transfers : WF_vars(Client(t))
  /\ \A s \in Sessions : WF_vars(AnswersAllButOpens(s))

-----------------------------------------------------------------------------
Whole(t) ==
  /\ path # NoFile
  /\ disk[path] = [by |-> t, data |-> [k \in 1..Size[t] |-> t]]

(* What an attempt reported as completed wrote is at the path, whole, until *)
(* another one begins - whatever was refused, dropped or late, unless an    *)
(* earlier attempt still had an open or a clean-up of it to come           *)
(* (TransferPipeline 534-592).                                             *)
CompletedIsWhole == \A t \in alone : pc[t] = "completed" => Whole(t)

(* A failed attempt leaves no truncated file behind, however late its open *)
(* was answered, unless the connection was lost or the server refused the  *)
(* clean-up (TransferPipeline 607-627, "M7").                              *)
FailedLeavesNothing ==
  \A t \in alone \ (cut \cup kept) :
    pc[t] = "failed" /\ Over(t) => ~(path # NoFile /\ disk[path].by = t)

(* A file that no attempt has opened is never deleted (TransferPipeline    *)
(* 612-615, "H2"): not by a failure before the open, nor while the open is *)
(* on the wire, nor after it was refused.                                  *)
SparesUntouched ==
  [][path # NoFile /\ path' = NoFile => disk[path].by # Original]_vars

(* The server holds no file open for an attempt that is reported and has   *)
(* nothing on its way, also when its handle arrived after the stream was   *)
(* destroyed (SftpStreams 151-175).                                        *)
HandlesClosed ==
  \A t \in Transfers :
    pc[t] \in {"completed", "failed"} /\ Quiet(t) => handle[t] = NoFile

(* A failing attempt is reported even if its open is never answered        *)
(* (targetTouched 17-42).                                                  *)
FailureIsReported ==
  \A t \in Transfers :
    pc[t] \in {"tearing", "settling", "deleting"} ~> pc[t] = "failed"

(* The late clean-up deletes "only the empty file our own late open left   *)
(* behind" (TransferPipeline 623), not one that a newer attempt completed. *)
LateSparesCompleted ==
  [][\A s \in Sessions :
       /\ wire[s] # <<>> /\ First(s).op = "delete" /\ late[First(s).by] = "deleting"
       /\ path # NoFile /\ path' = NoFile
       => \A u \in Transfers : ~(pc[u] = "completed" /\ Whole(u))]_vars
=============================================================================
