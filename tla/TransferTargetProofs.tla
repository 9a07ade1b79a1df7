------------------------ MODULE TransferTargetProofs ------------------------
(***************************************************************************)
(* Proofs about TransferTarget, for any attempts, sizes and sessions: what *)
(* is deleted and which handles stay, and then the data, what an attempt   *)
(* reported as completed has written and one that failed leaves behind.    *)
(***************************************************************************)
EXTENDS TransferTarget, TLAPS

-----------------------------------------------------------------------------
(* Type correctness. *)

(* A request appended to a session's wire keeps the type of the wire. *)
LEMMA SendTyped ==
  ASSUME TypeOK, NEW t \in Transfers, NEW op \in Ops, Send(t, op)
  PROVE  wire' \in [Sessions -> Seq([by : Transfers, op : Ops])]
<1> DEFINE Request == [by : Transfers, op : Ops]
<1>1. wire \in [Sessions -> Seq(Request)] BY DEF TypeOK
<1>2. SessionOf[t] \in Sessions BY SessionAssumption
<1>3. [by |-> t, op |-> op] \in Request OBVIOUS
<1> HIDE DEF Request
<1>4. Append(wire[SessionOf[t]], [by |-> t, op |-> op]) \in Seq(Request)
  BY <1>1, <1>2, <1>3
<1>5. wire' \in [Sessions -> Seq(Request)] BY <1>1, <1>2, <1>4 DEF Send
<1> QED BY <1>5 DEF Request

(* An answer taken from an inbox keeps its type, and was an answer. *)
LEMMA ReceiveTyped ==
  ASSUME TypeOK, NEW t \in Transfers, NEW op \in Ops, Receive(t, op)
  PROVE  /\ inbox' \in [Transfers -> Seq(Answers)]
         /\ Head(inbox[t]) \in Answers
<1>1. inbox[t] \in Seq(Answers) /\ inbox[t] # <<>> BY DEF TypeOK, Receive
<1>2. Head(inbox[t]) \in Answers /\ Tail(inbox[t]) \in Seq(Answers) BY <1>1
<1> QED BY <1>2 DEF Receive, TypeOK

(* Serving a request keeps the types of the wire and the inbox. *)
LEMMA ServeTyped ==
  ASSUME TypeOK, NEW s \in Sessions, NEW op \in Ops, NEW ok \in BOOLEAN,
         NEW size \in Nat, Serve(s, op, ok, size)
  PROVE  /\ wire' \in [Sessions -> Seq([by : Transfers, op : Ops])]
         /\ inbox' \in [Transfers -> Seq(Answers)]
         /\ First(s).by \in Transfers
<1> DEFINE Request == [by : Transfers, op : Ops]
<1> DEFINE t == First(s).by
<1>1. wire[s] \in Seq(Request) /\ wire[s] # <<>> BY DEF TypeOK, Serve
<1>2. First(s) \in Request /\ Tail(wire[s]) \in Seq(Request)
  <2> HIDE DEF Request
  <2> QED BY <1>1 DEF First
<1>3. t \in Transfers BY <1>2
<1>4. [op |-> op, ok |-> ok, size |-> size] \in Answers BY DEF Answers
<1>5. inbox[t] \in Seq(Answers) BY <1>3 DEF TypeOK
<1>6. Append(inbox[t], [op |-> op, ok |-> ok, size |-> size]) \in Seq(Answers)
  BY <1>4, <1>5
<1>7. wire' \in [Sessions -> Seq(Request)] BY <1>2 DEF Serve, TypeOK
<1>8. inbox' \in [Transfers -> Seq(Answers)] BY <1>3, <1>6 DEF Serve, TypeOK
<1> QED BY <1>3, <1>7, <1>8

(* What a write leaves in a file is a sequence of chunks. *)
LEMMA WrittenTyped ==
  ASSUME NEW data \in Seq(Transfers \cup {Hole}), NEW at \in Nat, NEW t \in Transfers
  PROVE  Written(data, at, t) \in Seq(Transfers \cup {Hole})
<1> DEFINE n == IF at < Len(data) THEN Len(data) ELSE at + 1
<1>1. n \in Nat OBVIOUS
<1>2. \A k \in 1..n : (IF k = at + 1 THEN t ELSE IF k <= Len(data) THEN data[k] ELSE Hole)
                      \in Transfers \cup {Hole}
  OBVIOUS
<1>3. Written(data, at, t) =
        [k \in 1..n |-> IF k = at + 1 THEN t ELSE IF k <= Len(data) THEN data[k] ELSE Hole]
  BY DEF Written
<1> HIDE DEF n
<1> QED BY <1>1, <1>2, <1>3

LEMMA InitTyped == Init => TypeOK
<1> SUFFICES ASSUME Init PROVE TypeOK OBVIOUS
<1>1. <<>> \in Seq([by : Transfers, op : Ops]) OBVIOUS
<1>2. <<>> \in Seq(Answers) OBVIOUS
<1>3. <<>> \in Seq(Transfers \cup {Hole}) OBVIOUS
<1>4. [by |-> Original, data |-> <<>>] \in Contents BY <1>3 DEF Contents, Files
<1> QED BY <1>1, <1>2, <1>4, DropsAssumption DEF Init, TypeOK, Files, Stages

(* A step of an attempt leaves the server's files alone. *)
LEMMA ClientTyped ==
  ASSUME TypeOK, NEW t \in Transfers, Begin(t) \/ Break(t) \/ Client(t)
  PROVE  TypeOK'
<1> USE DEF Go, GoLate, Stages, Ops, StreamOps
<1>1. CASE Begin(t)
  BY <1>1 DEF Begin, TypeOK, serverVars, streamVars
<1>2. CASE Break(t)
  <2>1. wire' \in [Sessions -> Seq([by : Transfers, op : Ops])]
    BY <1>2, SendTyped DEF Break, Destroy, TypeOK
  <2> QED BY <1>2, <2>1 DEF Break, Destroy, TypeOK
<1>3. CASE Write(t)
  <2>1. wire' \in [Sessions -> Seq([by : Transfers, op : Ops])]
    BY <1>3, SendTyped DEF Write
  <2> QED BY <1>3, <2>1 DEF Write, TypeOK
<1>4. CASE Final(t)
  <2>1. wire' \in [Sessions -> Seq([by : Transfers, op : Ops])]
    BY <1>4, SendTyped DEF Final
  <2> QED BY <1>4, <2>1 DEF Final, TypeOK
<1>5. CASE OpenAnswered(t)
  <2>1. inbox' \in [Transfers -> Seq(Answers)] BY <1>5, ReceiveTyped DEF OpenAnswered
  <2>2. wire' \in [Sessions -> Seq([by : Transfers, op : Ops])]
    BY <1>5, SendTyped DEF OpenAnswered
  <2> QED BY <1>5, <2>1, <2>2 DEF OpenAnswered, TypeOK
<1>6. CASE OpenFailed(t)
  <2>1. inbox' \in [Transfers -> Seq(Answers)] BY <1>6, ReceiveTyped DEF OpenFailed
  <2>2. wire' \in [Sessions -> Seq([by : Transfers, op : Ops])]
    BY <1>6, SendTyped DEF OpenFailed, Destroy, TypeOK
  <2> QED BY <1>6, <2>1, <2>2 DEF OpenFailed, Destroy, TypeOK
<1>7. CASE WriteAnswered(t)
  <2>1. inbox' \in [Transfers -> Seq(Answers)] BY <1>7, ReceiveTyped DEF WriteAnswered
  <2>2. wire' \in [Sessions -> Seq([by : Transfers, op : Ops])]
    BY <1>7, SendTyped DEF WriteAnswered, Destroy, TypeOK
  <2>3. sent' \in [Transfers -> Nat] BY <1>7 DEF WriteAnswered, TypeOK
  <2>4. /\ pc' \in [Transfers -> Stages]
        /\ fds' \in SUBSET Transfers /\ closed' \in SUBSET Transfers
    BY <1>7 DEF WriteAnswered, Destroy, TypeOK
  <2> QED BY <1>7, <2>1, <2>2, <2>3, <2>4 DEF WriteAnswered, TypeOK
<1>8. CASE CloseAnswered(t)
  <2>1. inbox' \in [Transfers -> Seq(Answers)] BY <1>8, ReceiveTyped DEF CloseAnswered
  <2>2. wire' \in [Sessions -> Seq([by : Transfers, op : Ops])]
    BY <1>8, SendTyped DEF CloseAnswered, TypeOK
  <2> QED BY <1>8, <2>1, <2>2 DEF CloseAnswered, TypeOK
<1>9. CASE Verified(t)
  <2>1. inbox' \in [Transfers -> Seq(Answers)] BY <1>9, ReceiveTyped DEF Verified
  <2> QED BY <1>9, <2>1 DEF Verified, TypeOK, streamVars
<1>10. CASE Settled(t)
  <2>1. wire' \in [Sessions -> Seq([by : Transfers, op : Ops])]
    BY <1>10, SendTyped DEF Settled, CleanUp, TypeOK
  <2> QED BY <1>10, <2>1 DEF Settled, CleanUp, TypeOK, streamVars
<1>11. CASE SettleTimesOut(t)
  <2>1. wire' \in [Sessions -> Seq([by : Transfers, op : Ops])]
    BY <1>11, SendTyped DEF SettleTimesOut, CleanUp, TypeOK
  <2> QED BY <1>11, <2>1 DEF SettleTimesOut, CleanUp, TypeOK, streamVars
<1>12. CASE LateSettled(t)
  <2>1. wire' \in [Sessions -> Seq([by : Transfers, op : Ops])]
    BY <1>12, SendTyped DEF LateSettled, TypeOK
  <2> QED BY <1>12, <2>1 DEF LateSettled, TypeOK, streamVars
<1>13. CASE LateStat(t)
  <2>1. inbox' \in [Transfers -> Seq(Answers)] BY <1>13, ReceiveTyped DEF LateStat
  <2>2. wire' \in [Sessions -> Seq([by : Transfers, op : Ops])]
    BY <1>13, SendTyped DEF LateStat, TypeOK
  <2> QED BY <1>13, <2>1, <2>2 DEF LateStat, TypeOK, streamVars
<1>14. CASE Deleted(t)
  <2>1. inbox' \in [Transfers -> Seq(Answers)] BY <1>14, ReceiveTyped DEF Deleted
  <2> QED BY <1>14, <2>1 DEF Deleted, TypeOK, streamVars
<1> QED BY <1>1, <1>2, <1>3, <1>4, <1>5, <1>6, <1>7, <1>8, <1>9, <1>10,
           <1>11, <1>12, <1>13, <1>14 DEF Client

(* A step of the server, or a lost connection, changes no attempt. *)
LEMMA ServerTyped ==
  ASSUME TypeOK, NEW s \in Sessions, Server(s) \/ Drop(s)
  PROVE  TypeOK'
<1> USE DEF Ops, StreamOps
<1> DEFINE t == First(s).by
<1>1. CASE ServeOpen(s)
  <2>1. /\ wire' \in [Sessions -> Seq([by : Transfers, op : Ops])]
        /\ inbox' \in [Transfers -> Seq(Answers)]
        /\ t \in Transfers
    BY <1>1, ServeTyped DEF ServeOpen
  <2>2. PICK f \in Files : /\ path' = f
                           /\ disk' = [disk EXCEPT ![f] = [by |-> t, data |-> <<>>]]
                           /\ handle' = [handle EXCEPT ![t] = f]
    BY <1>1, <2>1 DEF ServeOpen, TypeOK, Files
  <2>3. <<>> \in Seq(Transfers \cup {Hole}) OBVIOUS
  <2>4. [by |-> t, data |-> <<>>] \in Contents BY <2>1, <2>3 DEF Contents, Files
  <2>5. disk' \in [Files -> Contents] BY <2>2, <2>4 DEF TypeOK
  <2>6. handle' \in [Transfers -> Files \cup {NoFile}] BY <2>1, <2>2 DEF TypeOK
  <2> QED BY <1>1, <2>1, <2>2, <2>5, <2>6 DEF ServeOpen, TypeOK, clientVars
<1>2. CASE ServeWrite(s)
  <2>1. /\ wire' \in [Sessions -> Seq([by : Transfers, op : Ops])]
        /\ inbox' \in [Transfers -> Seq(Answers)]
        /\ t \in Transfers
    BY <1>2, ServeTyped DEF ServeWrite
  <2>2. handle[t] \in Files /\ sent[t] \in Nat
    BY <1>2, <2>1 DEF ServeWrite, TypeOK
  <2> DEFINE new == Written(disk[handle[t]].data, sent[t], t)
  <2>3. disk[handle[t]] \in Contents BY <2>2 DEF TypeOK
  <2>4. new \in Seq(Transfers \cup {Hole})
    BY <2>1, <2>2, <2>3, WrittenTyped DEF Contents
  <2>5. disk' = [disk EXCEPT ![handle[t]] = [disk[handle[t]] EXCEPT !.data = new]]
    BY <1>2 DEF ServeWrite
  <2> HIDE DEF new
  <2>6. [disk[handle[t]] EXCEPT !.data = new] \in Contents BY <2>3, <2>4 DEF Contents
  <2>7. disk' \in [Files -> Contents] BY <2>2, <2>5, <2>6 DEF TypeOK
  <2> QED BY <1>2, <2>1, <2>7 DEF ServeWrite, TypeOK, clientVars
<1>3. CASE ServeClose(s)
  <2>1. /\ wire' \in [Sessions -> Seq([by : Transfers, op : Ops])]
        /\ inbox' \in [Transfers -> Seq(Answers)]
        /\ t \in Transfers
    BY <1>3, ServeTyped DEF ServeClose
  <2> QED BY <1>3, <2>1 DEF ServeClose, TypeOK, clientVars
<1>4. CASE ServeStat(s)
  <2>1. Len(disk[path].data) \in Nat BY <1>4 DEF ServeStat, TypeOK, Contents
  <2>2. /\ wire' \in [Sessions -> Seq([by : Transfers, op : Ops])]
        /\ inbox' \in [Transfers -> Seq(Answers)]
    BY <1>4, <2>1, ServeTyped DEF ServeStat
  <2> QED BY <1>4, <2>2 DEF ServeStat, TypeOK, clientVars
<1>5. CASE ServeDelete(s)
  <2>1. /\ wire' \in [Sessions -> Seq([by : Transfers, op : Ops])]
        /\ inbox' \in [Transfers -> Seq(Answers)]
    BY <1>5, ServeTyped DEF ServeDelete
  <2> QED BY <1>5, <2>1 DEF ServeDelete, TypeOK, clientVars
<1>6. CASE Refuse(s)
  <2>1. /\ wire' \in [Sessions -> Seq([by : Transfers, op : Ops])]
        /\ inbox' \in [Transfers -> Seq(Answers)]
        /\ t \in Transfers
    BY <1>6, ServeTyped DEF Refuse
  <2> QED BY <1>6, <2>1 DEF Refuse, TypeOK, streamVars
<1>7. CASE Drop(s)
  <2>1. inbox' \in [Transfers -> Seq(Answers)]
    <3> SUFFICES ASSUME NEW u \in Transfers,
                        inbox' = [v \in Transfers |-> inbox'[v]]
                 PROVE  inbox'[u] \in Seq(Answers)
      BY <1>7 DEF Drop
    <3>1. inbox[u] \in Seq(Answers) BY DEF TypeOK
    <3> DEFINE Seen(a) == IF a.op \in StreamOps THEN [a EXCEPT !.ok = FALSE] ELSE a
    <3>2. \A a \in Answers : Seen(a) \in Answers BY DEF Answers
    <3>3. inbox'[u] = inbox[u] \/ inbox'[u] = [i \in DOMAIN inbox[u] |-> Seen(inbox[u][i])]
      BY <1>7 DEF Drop
    <3> HIDE DEF Seen
    <3>4. [i \in DOMAIN inbox[u] |-> Seen(inbox[u][i])] \in Seq(Answers)
      BY <3>1, <3>2
    <3> QED BY <3>1, <3>3, <3>4
  <2>2. drops' \in 0..MaxDrops BY <1>7, DropsAssumption DEF Drop, TypeOK
  <2>3. handle' \in [Transfers -> Files \cup {NoFile}] BY <1>7 DEF Drop, TypeOK
  <2>4. cut' \in SUBSET Transfers BY <1>7 DEF Drop, TypeOK
  <2> QED BY <1>7, <2>1, <2>2, <2>3, <2>4 DEF Drop, TypeOK, clientVars
<1> QED BY <1>1, <1>2, <1>3, <1>4, <1>5, <1>6, <1>7 DEF Server

(* The state of server, streams and attempts keeps its type.           *)
THEOREM TargetTypeCorrect == Spec => []TypeOK
<1>1. TypeOK /\ [Next]_vars => TypeOK'
  <2> SUFFICES ASSUME TypeOK, [Next]_vars PROVE TypeOK' OBVIOUS
  <2>1. CASE UNCHANGED vars
    BY <2>1 DEF TypeOK, vars, serverVars, clientVars
  <2>2. CASE Next
    BY <2>1, <2>2, ClientTyped, ServerTyped DEF Next, Finished
  <2> QED BY <2>1, <2>2
<1> QED BY <1>1, InitTyped, PTL DEF Spec

-----------------------------------------------------------------------------
(* What a clean-up may delete. *)

(* The file that was there before is gone from the path, or truncated. *)
Gone == path = NoFile \/ disk[path].by # Original

(* The attempt was told that its open succeeded. *)
OpenTold(t) == \E i \in DOMAIN inbox[t] : inbox[t][i].op = "open" /\ inbox[t][i].ok

TouchedIsGone == \A t \in Transfers : t \in opened \/ OpenTold(t) => Gone
LateIsTouched == \A t \in Transfers : late[t] \in {"stat", "deleting"} => t \in opened
DeletesAreTouched ==
  \A s \in Sessions : \A i \in DOMAIN wire[s] :
    wire[s][i].op = "delete" => wire[s][i].by \in opened

CleanUpInv == TypeOK /\ TouchedIsGone /\ LateIsTouched /\ DeletesAreTouched

(* What a step of an attempt does to what the invariant speaks of. *)
Meets(t) ==
  /\ path' = path /\ disk' = disk
  /\ opened \subseteq opened'
  /\ \A u \in Transfers : u \in opened' => u \in opened \/ OpenTold(u)
  /\ \A u \in Transfers : OpenTold(u)' => OpenTold(u)
  /\ \A u \in Transfers : late'[u] \in {"stat", "deleting"} =>
       late[u] \in {"stat", "deleting"} \/ u \in opened
  /\ \/ wire' = wire
     \/ \E op \in Ops : Send(t, op) /\ (op = "delete" => t \in opened)

(* Receiving an answer brings no attempt a new one. *)
LEMMA ReceiveTells ==
  ASSUME TypeOK, NEW t \in Transfers, NEW op \in Ops, Receive(t, op),
         NEW u \in Transfers, OpenTold(u)'
  PROVE  OpenTold(u)
<1>1. inbox[t] \in Seq(Answers) /\ inbox[t] # <<>> BY DEF TypeOK, Receive
<1>2. \A i \in DOMAIN Tail(inbox[t]) :
        i + 1 \in DOMAIN inbox[t] /\ Tail(inbox[t])[i] = inbox[t][i + 1]
  BY <1>1
<1>3. inbox' = [inbox EXCEPT ![t] = Tail(inbox[t])] BY DEF Receive
<1>4. CASE u = t BY <1>2, <1>3, <1>4 DEF OpenTold, TypeOK
<1>5. CASE u # t BY <1>3, <1>5 DEF OpenTold, TypeOK
<1> QED BY <1>4, <1>5

LEMMA SameInbox ==
  ASSUME UNCHANGED inbox, NEW u \in Transfers, OpenTold(u)'
  PROVE  OpenTold(u)
  BY DEF OpenTold

LEMMA ClientMeets ==
  ASSUME CleanUpInv, NEW t \in Transfers, Begin(t) \/ Break(t) \/ Client(t)
  PROVE  Meets(t)
<1> USE DEF Ops, StreamOps, Go, GoLate
<1>0. TypeOK /\ LateIsTouched BY DEF CleanUpInv
<1>1. CASE Begin(t)
  BY <1>1, SameInbox DEF Begin, Meets, serverVars, streamVars
<1>2. CASE Break(t)
  BY <1>2, SameInbox DEF Break, Destroy, Meets
<1>3. CASE Write(t)
  BY <1>3, SameInbox DEF Write, Meets
<1>4. CASE Final(t)
  BY <1>4, SameInbox DEF Final, Meets
<1>5. CASE OpenAnswered(t)
  <2>1. OpenTold(t)
    BY <1>5, <1>0 DEF OpenAnswered, Receive, Ok, OpenTold, TypeOK
  <2>2. \A u \in Transfers : OpenTold(u)' => OpenTold(u)
    BY <1>0, <1>5, ReceiveTells DEF OpenAnswered
  <2> HIDE DEF Ops
  <2>3. "write" \in Ops /\ "close" \in Ops BY DEF Ops
  <2> QED BY <1>5, <2>1, <2>2, <2>3 DEF OpenAnswered, Meets
<1>6. CASE OpenFailed(t)
  <2>1. \A u \in Transfers : OpenTold(u)' => OpenTold(u)
    BY <1>0, <1>6, ReceiveTells DEF OpenFailed
  <2> QED BY <1>6, <2>1 DEF OpenFailed, Destroy, Meets
<1>7. CASE WriteAnswered(t)
  <2>1. \A u \in Transfers : OpenTold(u)' => OpenTold(u)
    BY <1>0, <1>7, ReceiveTells DEF WriteAnswered
  <2> QED BY <1>7, <2>1 DEF WriteAnswered, Destroy, Meets
<1>8. CASE CloseAnswered(t)
  <2>1. \A u \in Transfers : OpenTold(u)' => OpenTold(u)
    BY <1>0, <1>8, ReceiveTells DEF CloseAnswered
  <2> QED BY <1>8, <2>1 DEF CloseAnswered, Meets
<1>9. CASE Verified(t)
  <2>1. \A u \in Transfers : OpenTold(u)' => OpenTold(u)
    BY <1>0, <1>9, ReceiveTells DEF Verified
  <2> QED BY <1>9, <2>1 DEF Verified, Meets, streamVars
<1>10. CASE Settled(t)
  BY <1>10, SameInbox DEF Settled, CleanUp, Meets, streamVars
<1>11. CASE SettleTimesOut(t)
  <2>1. \A u \in Transfers : late'[u] \in {"stat", "deleting"} =>
          late[u] \in {"stat", "deleting"}
    BY <1>0, <1>11 DEF SettleTimesOut, TypeOK
  <2> QED BY <1>11, <2>1, SameInbox DEF SettleTimesOut, CleanUp, Meets, streamVars
<1>12. CASE LateSettled(t)
  <2>1. \A u \in Transfers : late'[u] \in {"stat", "deleting"} =>
          late[u] \in {"stat", "deleting"} \/ u \in opened
    BY <1>0, <1>12 DEF LateSettled, TypeOK
  <2> QED BY <1>12, <2>1, SameInbox DEF LateSettled, Meets, streamVars
<1>13. CASE LateStat(t)
  <2>1. \A u \in Transfers : OpenTold(u)' => OpenTold(u)
    BY <1>0, <1>13, ReceiveTells DEF LateStat
  <2>2. t \in opened BY <1>0, <1>13 DEF LateStat, LateIsTouched
  <2>3. \A u \in Transfers : late'[u] \in {"stat", "deleting"} =>
          late[u] \in {"stat", "deleting"} \/ u \in opened
    BY <1>0, <1>13, <2>2 DEF LateStat, TypeOK
  <2> QED BY <1>13, <2>1, <2>2, <2>3 DEF LateStat, Meets, streamVars
<1>14. CASE Deleted(t)
  <2>1. \A u \in Transfers : OpenTold(u)' => OpenTold(u)
    BY <1>0, <1>14, ReceiveTells DEF Deleted
  <2>2. \A u \in Transfers : late'[u] \in {"stat", "deleting"} =>
          late[u] \in {"stat", "deleting"}
    BY <1>0, <1>14 DEF Deleted, TypeOK
  <2> QED BY <1>14, <2>1, <2>2 DEF Deleted, Meets, streamVars
<1> QED BY <1>1, <1>2, <1>3, <1>4, <1>5, <1>6, <1>7, <1>8, <1>9, <1>10,
           <1>11, <1>12, <1>13, <1>14 DEF Client

LEMMA ClientKeeps ==
  ASSUME CleanUpInv, NEW t \in Transfers, Meets(t), TypeOK'
  PROVE  CleanUpInv'
<1>1. Gone => Gone' BY DEF Meets, Gone
<1>2. TouchedIsGone' BY <1>1 DEF CleanUpInv, TouchedIsGone, Meets
<1>3. LateIsTouched' BY DEF CleanUpInv, LateIsTouched, Meets
<1>4. DeletesAreTouched'
  <2> SUFFICES ASSUME NEW s \in Sessions, NEW i \in DOMAIN wire'[s],
                      wire'[s][i].op = "delete"
               PROVE  wire'[s][i].by \in opened'
    BY DEF DeletesAreTouched
  <2>1. CASE i \in DOMAIN wire[s] /\ wire'[s][i] = wire[s][i]
    BY <2>1 DEF CleanUpInv, DeletesAreTouched, Meets
  <2>2. CASE ~(i \in DOMAIN wire[s] /\ wire'[s][i] = wire[s][i])
    <3>1. PICK op \in Ops : Send(t, op) /\ (op = "delete" => t \in opened)
      BY <2>2 DEF Meets
    <3>2. wire[s] \in Seq([by : Transfers, op : Ops]) BY DEF CleanUpInv, TypeOK
    <3> DEFINE r == [by |-> t, op |-> op]
    <3>3. wire'[s] = wire[s] \/ wire'[s] = Append(wire[s], r)
      BY <3>1 DEF Send, CleanUpInv, TypeOK
    <3>4. r.op = op /\ r.by = t OBVIOUS
    <3> HIDE DEF r
    <3>5. wire'[s][i] = r BY <2>2, <3>2, <3>3
    <3> QED BY <3>1, <3>4, <3>5 DEF Meets
  <2> QED BY <2>1, <2>2
<1> QED BY <1>2, <1>3, <1>4 DEF CleanUpInv

(* Serving a request tells nobody but its sender, and of nothing else. *)
LEMMA ServeTells ==
  ASSUME TypeOK, NEW s \in Sessions, NEW op \in Ops, NEW ok \in BOOLEAN,
         NEW size \in Nat, Serve(s, op, ok, size)
  PROVE  /\ \A u \in Transfers : OpenTold(u)' => OpenTold(u) \/ (op = "open" /\ ok)
         /\ DeletesAreTouched /\ UNCHANGED opened => DeletesAreTouched'
<1>1. wire[s] \in Seq([by : Transfers, op : Ops]) /\ wire[s] # <<>>
  BY DEF TypeOK, Serve
<1>2. \A u \in Transfers : inbox[u] \in Seq(Answers) BY DEF TypeOK
<1> DEFINE a == [op |-> op, ok |-> ok, size |-> size]
<1>3. ASSUME NEW u \in Transfers, OpenTold(u)'
      PROVE  OpenTold(u) \/ (op = "open" /\ ok)
  <2>1. inbox'[u] = inbox[u] \/ inbox'[u] = Append(inbox[u], a)
    BY DEF Serve, TypeOK
  <2>2. a.op = op /\ a.ok = ok OBVIOUS
  <2> HIDE DEF a
  <2>3. PICK i \in DOMAIN inbox'[u] : inbox'[u][i].op = "open" /\ inbox'[u][i].ok
    BY <1>3 DEF OpenTold
  <2>4. CASE i \in DOMAIN inbox[u] /\ inbox'[u][i] = inbox[u][i]
    BY <2>3, <2>4 DEF OpenTold
  <2>5. CASE ~(i \in DOMAIN inbox[u] /\ inbox'[u][i] = inbox[u][i])
    <3>1. inbox'[u][i] = a BY <1>2, <2>1, <2>5
    <3> QED BY <2>2, <2>3, <3>1
  <2> QED BY <2>4, <2>5
<1>4. ASSUME DeletesAreTouched, UNCHANGED opened PROVE DeletesAreTouched'
  <2>1. \A i \in DOMAIN Tail(wire[s]) :
          i + 1 \in DOMAIN wire[s] /\ Tail(wire[s])[i] = wire[s][i + 1]
    BY <1>1
  <2>2. wire' = [wire EXCEPT ![s] = Tail(wire[s])] BY DEF Serve
  <2> SUFFICES ASSUME NEW q \in Sessions, NEW i \in DOMAIN wire'[q],
                      wire'[q][i].op = "delete"
               PROVE  wire'[q][i].by \in opened
    BY <1>4 DEF DeletesAreTouched
  <2>3. CASE q = s BY <1>4, <2>1, <2>2, <2>3 DEF DeletesAreTouched, TypeOK
  <2>4. CASE q # s BY <1>4, <2>2, <2>4 DEF DeletesAreTouched, TypeOK
  <2> QED BY <2>3, <2>4
<1> QED BY <1>3, <1>4

LEMMA ServerKeeps ==
  ASSUME CleanUpInv, NEW s \in Sessions, Server(s) \/ Drop(s), TypeOK'
  PROVE  CleanUpInv'
<1> USE DEF Ops, StreamOps
<1>0. TypeOK /\ TouchedIsGone /\ LateIsTouched /\ DeletesAreTouched BY DEF CleanUpInv
<1>1. UNCHANGED <<opened, late>>
  BY DEF Server, ServeOpen, ServeWrite, ServeClose, ServeStat, ServeDelete,
         Refuse, Drop, clientVars, streamVars
<1>2. LateIsTouched' BY <1>0, <1>1 DEF LateIsTouched
<1>3. CASE ServeOpen(s)
  <2>1. DeletesAreTouched' BY <1>0, <1>1, <1>3, ServeTells DEF ServeOpen
  <2>2. First(s).by \in Transfers BY <1>0, <1>3, ServeTyped DEF ServeOpen
  <2>3. path' \in Files /\ disk'[path'].by = First(s).by
    BY <1>0, <1>3, <2>2 DEF ServeOpen, TypeOK, Files
  <2>4. Gone' BY <2>2, <2>3, NamesDiffer DEF Gone
  <2> QED BY <1>0, <1>2, <2>1, <2>4 DEF CleanUpInv, TouchedIsGone
<1>4. CASE ServeWrite(s)
  <2>0. \E ok \in BOOLEAN : Serve(s, "write", ok, 0) BY <1>4 DEF ServeWrite
  <2>1. /\ DeletesAreTouched'
        /\ \A u \in Transfers : OpenTold(u)' => OpenTold(u)
    BY <1>0, <1>1, <2>0, ServeTells
  <2>2. First(s).by \in Transfers BY <1>0, <1>4, ServeTyped DEF ServeWrite
  <2>3. path' = path /\ (path \in Files => disk'[path].by = disk[path].by)
    BY <1>0, <1>4, <2>2 DEF ServeWrite, TypeOK, Contents
  <2>4. Gone => Gone' BY <1>0, <2>3 DEF Gone, TypeOK
  <2> QED BY <1>0, <1>1, <1>2, <2>1, <2>4 DEF CleanUpInv, TouchedIsGone
<1>5. CASE ServeClose(s)
  <2>1. /\ DeletesAreTouched'
        /\ \A u \in Transfers : OpenTold(u)' => OpenTold(u)
    BY <1>0, <1>1, <1>5, ServeTells DEF ServeClose
  <2>2. Gone => Gone' BY <1>5 DEF ServeClose, Gone
  <2> QED BY <1>0, <1>1, <1>2, <2>1, <2>2 DEF CleanUpInv, TouchedIsGone
<1>6. CASE ServeStat(s)
  <2>0. \E ok \in BOOLEAN : Serve(s, "stat", ok, Len(disk[path].data)) BY <1>6 DEF ServeStat
  <2>1. Len(disk[path].data) \in Nat BY <1>0, <1>6 DEF ServeStat, TypeOK, Contents
  <2>2. /\ DeletesAreTouched'
        /\ \A u \in Transfers : OpenTold(u)' => OpenTold(u)
    BY <1>0, <1>1, <2>0, <2>1, ServeTells
  <2>3. Gone => Gone' BY <1>6 DEF ServeStat, Gone
  <2> QED BY <1>0, <1>1, <1>2, <2>2, <2>3 DEF CleanUpInv, TouchedIsGone
<1>7. CASE ServeDelete(s)
  <2>0. \E ok \in BOOLEAN : Serve(s, "delete", ok, 0) BY <1>7 DEF ServeDelete
  <2>1. /\ DeletesAreTouched'
        /\ \A u \in Transfers : OpenTold(u)' => OpenTold(u)
    BY <1>0, <1>1, <2>0, ServeTells
  <2>2. Gone' BY <1>7 DEF ServeDelete, Gone
  <2> QED BY <1>0, <1>2, <2>1, <2>2 DEF CleanUpInv, TouchedIsGone
<1>8. CASE Refuse(s)
  <2>1. /\ DeletesAreTouched'
        /\ \A u \in Transfers : OpenTold(u)' => OpenTold(u)
    BY <1>0, <1>1, <1>8, ServeTells DEF Refuse
  <2>2. Gone => Gone' BY <1>8 DEF Refuse, Gone
  <2> QED BY <1>0, <1>1, <1>2, <2>1, <2>2 DEF CleanUpInv, TouchedIsGone
<1>9. CASE Drop(s)
  <2>1. DeletesAreTouched' BY <1>0, <1>1, <1>9 DEF Drop, DeletesAreTouched
  <2>2. ASSUME NEW u \in Transfers, OpenTold(u)' PROVE OpenTold(u)
    <3>1. inbox[u] \in Seq(Answers) BY <1>0 DEF TypeOK
    <3>2. ASSUME NEW i \in DOMAIN inbox'[u], inbox'[u][i].ok
          PROVE  i \in DOMAIN inbox[u] /\ inbox'[u][i] = inbox[u][i]
      BY <1>9, <3>1, <3>2 DEF Drop, Answers
    <3> QED BY <2>2, <3>2 DEF OpenTold
  <2>3. Gone => Gone' BY <1>9 DEF Drop, Gone
  <2> QED BY <1>0, <1>1, <1>2, <2>1, <2>2, <2>3 DEF CleanUpInv, TouchedIsGone
<1> QED BY <1>3, <1>4, <1>5, <1>6, <1>7, <1>8, <1>9 DEF Server

LEMMA CleanUpStep == CleanUpInv /\ [Next]_vars => CleanUpInv'
<1> SUFFICES ASSUME CleanUpInv, [Next]_vars PROVE CleanUpInv' OBVIOUS
<1>0. TypeOK BY DEF CleanUpInv
<1>1. CASE UNCHANGED vars
  BY <1>1 DEF CleanUpInv, TypeOK, TouchedIsGone, LateIsTouched, DeletesAreTouched,
              Gone, OpenTold, vars, serverVars, clientVars
<1>2. ASSUME NEW t \in Transfers, Begin(t) \/ Break(t) \/ Client(t) PROVE CleanUpInv'
  BY <1>0, <1>2, ClientTyped, ClientMeets, ClientKeeps
<1>3. ASSUME NEW s \in Sessions, Server(s) \/ Drop(s) PROVE CleanUpInv'
  BY <1>0, <1>3, ServerTyped, ServerKeeps
<1> QED BY <1>1, <1>2, <1>3 DEF Next, Finished

LEMMA CleanUpInit == Init => CleanUpInv
<1> SUFFICES ASSUME Init PROVE CleanUpInv OBVIOUS
<1>1. TypeOK BY InitTyped
<1>2. TouchedIsGone BY DEF Init, TouchedIsGone, OpenTold
<1>3. LateIsTouched BY DEF Init, LateIsTouched
<1>4. DeletesAreTouched BY DEF Init, DeletesAreTouched
<1> QED BY <1>1, <1>2, <1>3, <1>4 DEF CleanUpInv

(* However attempts on the path overlap, and whatever is refused, late or  *)
(* lost: no clean-up deletes a file that no attempt has opened.            *)
THEOREM UntouchedIsSpared == Spec => SparesUntouched
<1>1. CleanUpInv /\ [Next]_vars
        => (path # NoFile /\ path' = NoFile => disk[path].by # Original)
  <2> SUFFICES ASSUME CleanUpInv, [Next]_vars, path # NoFile, path' = NoFile
               PROVE  Gone
    BY DEF Gone
  <2>0. TypeOK BY DEF CleanUpInv
  <2>1. ASSUME NEW t \in Transfers, Begin(t) \/ Break(t) \/ Client(t) PROVE FALSE
    BY <2>1, ClientMeets DEF Meets
  <2>2. ASSUME NEW s \in Sessions, Server(s) \/ Drop(s) PROVE Gone
    <3>1. CASE ServeOpen(s)
      <4>1. First(s).by \in Transfers
        BY <2>0, <3>1, ServeTyped DEF ServeOpen, Ops, StreamOps
      <4> QED BY <3>1, <4>1, NamesDiffer DEF ServeOpen
    <3>2. CASE ServeDelete(s)
      <4>1. wire[s] \in Seq([by : Transfers, op : Ops]) /\ wire[s] # <<>>
        BY <2>0, <3>2 DEF ServeDelete, Serve, TypeOK
      <4>2. First(s).op = "delete" BY <3>2 DEF ServeDelete, Serve
      <4>3. 1 \in DOMAIN wire[s] /\ First(s) = wire[s][1] BY <4>1 DEF First
      <4>4. First(s).by \in Transfers /\ First(s).by \in opened
        BY <4>1, <4>2, <4>3 DEF CleanUpInv, DeletesAreTouched, TypeOK
      <4> QED BY <4>4 DEF CleanUpInv, TouchedIsGone
    <3>3. CASE ~ServeOpen(s) /\ ~ServeDelete(s)
      BY <2>2, <3>3 DEF Server, ServeWrite, ServeClose, ServeStat, Refuse, Drop
    <3> QED BY <3>1, <3>2, <3>3
  <2> QED BY <2>1, <2>2 DEF Next, Finished, vars, serverVars
<1> QED BY <1>1, CleanUpInit, CleanUpStep, PTL DEF Spec, SparesUntouched

-----------------------------------------------------------------------------
(* Who closes a handle. *)

(* The stream has done with its handle, or will send no more on it. *)
Closing(t) == t \in closed \/ pc[t] \notin {"new", "streaming"}

(* The close of the attempt's handle is on its way. *)
CloseSent(t) ==
  \E i \in DOMAIN wire[SessionOf[t]] :
    wire[SessionOf[t]][i].by = t /\ wire[SessionOf[t]][i].op = "close"

HandlesAreOwned ==
  \A t \in Transfers : handle[t] # NoFile => t \in fds \/ OpenTold(t) \/ CloseSent(t)
StreamsAreOpen == \A t \in fds : pc[t] = "streaming" /\ t \notin closed
ClosesAreAsked ==
  \A s \in Sessions : \A i \in DOMAIN wire[s] :
    wire[s][i].op = "close" => Closing(wire[s][i].by)
ClosesAreTold ==
  \A t \in Transfers : \A i \in DOMAIN inbox[t] : inbox[t][i].op = "close" => Closing(t)

HandleInv ==
  TypeOK /\ HandlesAreOwned /\ StreamsAreOpen /\ ClosesAreAsked /\ ClosesAreTold

(* What a step of an attempt does to what the invariant speaks of. *)
Hands(t) ==
  /\ handle' = handle
  /\ \A u \in Transfers : Closing(u) => Closing(u)'
  /\ StreamsAreOpen'
  /\ \A u \in Transfers : u \in fds \/ OpenTold(u) =>
       u \in fds' \/ OpenTold(u)' \/ (u = t /\ Send(t, "close"))
  /\ \A u \in Transfers : \A i \in DOMAIN inbox'[u] :
       \E j \in DOMAIN inbox[u] : inbox'[u][i] = inbox[u][j]
  /\ \/ wire' = wire
     \/ \E op \in Ops : Send(t, op) /\ (op = "close" => Closing(t)')

(* Receiving an answer takes that one away, and brings none. *)
LEMMA ReceiveTakes ==
  ASSUME TypeOK, NEW t \in Transfers, NEW op \in Ops, Receive(t, op)
  PROVE  /\ \A u \in Transfers : \A i \in DOMAIN inbox'[u] :
              \E j \in DOMAIN inbox[u] : inbox'[u][i] = inbox[u][j]
         /\ \A u \in Transfers : OpenTold(u) =>
              OpenTold(u)' \/ (u = t /\ op = "open" /\ Ok(t))
         /\ 1 \in DOMAIN inbox[t] /\ inbox[t][1].op = op
<1>1. inbox[t] \in Seq(Answers) /\ inbox[t] # <<>> BY DEF TypeOK, Receive
<1>2. \A i \in DOMAIN Tail(inbox[t]) :
        i + 1 \in DOMAIN inbox[t] /\ Tail(inbox[t])[i] = inbox[t][i + 1]
  BY <1>1
<1>3. \A j \in DOMAIN inbox[t] :
        j # 1 => j - 1 \in DOMAIN Tail(inbox[t]) /\ Tail(inbox[t])[j - 1] = inbox[t][j]
  BY <1>1
<1>4. 1 \in DOMAIN inbox[t] /\ Head(inbox[t]) = inbox[t][1] BY <1>1
<1>5. inbox' = [inbox EXCEPT ![t] = Tail(inbox[t])] BY DEF Receive
<1>6. ASSUME NEW u \in Transfers, NEW i \in DOMAIN inbox'[u]
      PROVE  \E j \in DOMAIN inbox[u] : inbox'[u][i] = inbox[u][j]
  <2>1. CASE u = t BY <1>2, <1>5, <1>6, <2>1 DEF TypeOK
  <2>2. CASE u # t BY <1>5, <1>6, <2>2 DEF TypeOK
  <2> QED BY <2>1, <2>2
<1>7. ASSUME NEW u \in Transfers, OpenTold(u)
      PROVE  OpenTold(u)' \/ (u = t /\ op = "open" /\ Ok(t))
  <2>1. PICK j \in DOMAIN inbox[u] : inbox[u][j].op = "open" /\ inbox[u][j].ok
    BY <1>7 DEF OpenTold
  <2>2. CASE u # t BY <1>5, <2>1, <2>2 DEF OpenTold, TypeOK
  <2>3. CASE u = t /\ j = 1 BY <1>4, <2>1, <2>3 DEF Receive, Ok
  <2>4. CASE u = t /\ j # 1
    <3>1. inbox'[t] = Tail(inbox[t]) BY <1>5 DEF TypeOK
    <3> QED BY <1>3, <2>1, <2>4, <3>1 DEF OpenTold
  <2> QED BY <2>2, <2>3, <2>4
<1> QED BY <1>4, <1>6, <1>7 DEF Receive

LEMMA SameInboxTakes ==
  ASSUME UNCHANGED inbox
  PROVE  /\ \A u \in Transfers : \A i \in DOMAIN inbox'[u] :
              \E j \in DOMAIN inbox[u] : inbox'[u][i] = inbox[u][j]
         /\ \A u \in Transfers : OpenTold(u) => OpenTold(u)'
  BY DEF OpenTold

(* What leaves stream and stage alone, or only moves on, past streaming. *)
LEMMA MovesOn ==
  ASSUME TypeOK, StreamsAreOpen, NEW t \in Transfers, UNCHANGED <<fds, closed>>,
         \/ UNCHANGED pc
         \/ /\ pc[t] \notin {"new", "streaming"}
            /\ \E stage \in Stages \ {"new", "streaming"} : pc' = [pc EXCEPT ![t] = stage]
  PROVE  /\ \A u \in Transfers : Closing(u) => Closing(u)'
         /\ StreamsAreOpen'
  BY DEF Closing, StreamsAreOpen, TypeOK

(* The stream is destroyed: it forgets its handle, and sends its close. *)
LEMMA DestroyHands ==
  ASSUME TypeOK, StreamsAreOpen, NEW t \in Transfers, Destroy(t)
  PROVE  /\ \A u \in Transfers : Closing(u) => Closing(u)'
         /\ Closing(t)'
         /\ StreamsAreOpen'
         /\ \A u \in Transfers : u \in fds => u \in fds' \/ (u = t /\ Send(t, "close"))
         /\ wire' = wire \/ Send(t, "close")
  BY DEF Destroy, Go, Closing, StreamsAreOpen, TypeOK

LEMMA ClientHands ==
  ASSUME HandleInv, NEW t \in Transfers, Begin(t) \/ Break(t) \/ Client(t)
  PROVE  Hands(t)
<1>0. TypeOK /\ StreamsAreOpen /\ ClosesAreTold BY DEF HandleInv
<1>o. {"open", "write", "close", "stat", "delete"} = Ops BY DEF Ops, StreamOps
<1>1. CASE Begin(t)
  <2>1. UNCHANGED <<inbox, handle, wire, fds, closed>> /\ pc[t] = "new"
        /\ pc' = [pc EXCEPT ![t] = "streaming"]
    BY <1>1 DEF Begin, Go, serverVars, streamVars
  <2>2. \A u \in Transfers : Closing(u) => Closing(u)'
    BY <1>0, <2>1 DEF Closing, TypeOK
  <2>3. StreamsAreOpen' BY <1>0, <2>1 DEF StreamsAreOpen, TypeOK
  <2> QED BY <2>1, <2>2, <2>3, SameInboxTakes DEF Hands
<1>2. CASE Break(t)
  <2>1. UNCHANGED <<inbox, handle>> /\ Destroy(t) BY <1>2 DEF Break
  <2> QED BY <1>0, <1>o, <2>1, DestroyHands, SameInboxTakes DEF Hands
<1>3. CASE Write(t)
  <2>1. UNCHANGED <<inbox, handle, fds, closed, pc>> /\ (Send(t, "write") \/ Send(t, "open"))
    BY <1>3 DEF Write
  <2> QED BY <1>0, <1>o, <2>1, MovesOn, SameInboxTakes DEF Hands
<1>4. CASE Final(t)
  <2>1. /\ UNCHANGED <<inbox, handle, closed>> /\ pc' = [pc EXCEPT ![t] = "finishing"]
        /\ \/ Send(t, "close") /\ fds' = fds \ {t}
           \/ t \notin fds /\ Send(t, "open") /\ UNCHANGED fds
    BY <1>4 DEF Final, Go
  <2>2. (\A u \in Transfers : Closing(u) => Closing(u)') /\ Closing(t)'
    BY <1>0, <2>1 DEF Closing, TypeOK
  <2>3. StreamsAreOpen' BY <1>0, <2>1 DEF StreamsAreOpen, TypeOK
  <2> QED BY <1>o, <2>1, <2>2, <2>3, SameInboxTakes DEF Hands
<1>5. CASE OpenAnswered(t)
  <2>1. Receive(t, "open") /\ UNCHANGED <<handle, closed, pc>> BY <1>5 DEF OpenAnswered
  <2>2. \A u \in Transfers : Closing(u) => Closing(u)' BY <2>1 DEF Closing
  <2>3. \/ t \in closed /\ Send(t, "close") /\ UNCHANGED fds
        \/ /\ t \notin closed /\ pc[t] = "streaming"
           /\ Send(t, "write") /\ fds' = fds \cup {t}
        \/ pc[t] = "finishing" /\ Send(t, "close") /\ UNCHANGED fds
    BY <1>5 DEF OpenAnswered
  <2>4. StreamsAreOpen' BY <1>0, <2>1, <2>3 DEF StreamsAreOpen
  <2>5. Send(t, "close") => Closing(t)'
    <3>1. SessionOf[t] \in Sessions BY SessionAssumption
    <3>2. ~(Send(t, "close") /\ Send(t, "write"))
      <4>1. wire[SessionOf[t]] \in Seq([by : Transfers, op : Ops]) BY <1>0, <3>1 DEF TypeOK
      <4> DEFINE Sent(op) == Append(wire[SessionOf[t]], [by |-> t, op |-> op])
      <4>2. ASSUME NEW op \in Ops
            PROVE  Sent(op)[Len(wire[SessionOf[t]]) + 1].op = op
        BY <4>1
      <4>3. Sent("close") # Sent("write") BY <1>o, <4>2
      <4> QED BY <1>0, <3>1, <4>3 DEF Send, TypeOK
    <3> QED BY <2>1, <2>3, <3>2 DEF Closing
  <2>6. \A u \in Transfers : u \in fds \/ OpenTold(u) =>
          u \in fds' \/ OpenTold(u)' \/ (u = t /\ Send(t, "close"))
    BY <1>0, <1>o, <2>1, <2>3, ReceiveTakes
  <2>7. \E op \in Ops : Send(t, op) /\ (op = "close" => Closing(t)')
    BY <1>o, <2>3, <2>5
  <2> QED BY <1>0, <1>o, <2>1, <2>2, <2>4, <2>6, <2>7, ReceiveTakes DEF Hands
<1>6. CASE OpenFailed(t)
  <2>1. Receive(t, "open") /\ ~Ok(t) /\ UNCHANGED handle BY <1>6 DEF OpenFailed
  <2>2. UNCHANGED <<closed, fds, wire, pc>> \/ Destroy(t) BY <1>6 DEF OpenFailed
  <2>3. CASE UNCHANGED <<closed, fds, wire, pc>>
    BY <1>0, <1>o, <2>1, <2>3, MovesOn, ReceiveTakes DEF Hands
  <2>4. CASE Destroy(t)
    BY <1>0, <1>o, <2>1, <2>4, DestroyHands, ReceiveTakes DEF Hands
  <2> QED BY <2>2, <2>3, <2>4
<1>7. CASE WriteAnswered(t)
  <2>1. Receive(t, "write") /\ UNCHANGED handle BY <1>7 DEF WriteAnswered
  <2>2. UNCHANGED <<closed, fds, wire, pc>> \/ Destroy(t) BY <1>7 DEF WriteAnswered
  <2>3. CASE UNCHANGED <<closed, fds, wire, pc>>
    BY <1>0, <1>o, <2>1, <2>3, MovesOn, ReceiveTakes DEF Hands
  <2>4. CASE Destroy(t)
    BY <1>0, <1>o, <2>1, <2>4, DestroyHands, ReceiveTakes DEF Hands
  <2> QED BY <2>2, <2>3, <2>4
<1>8. CASE CloseAnswered(t)
  <2>1. Receive(t, "close") /\ UNCHANGED <<handle, fds>> BY <1>8 DEF CloseAnswered
  <2>2. Closing(t) BY <1>0, <1>o, <2>1, ReceiveTakes DEF ClosesAreTold
  <2>3. t \notin fds BY <1>0, <2>2 DEF Closing, StreamsAreOpen
  <2>4. /\ pc' = pc \/ \E stage \in Stages \ {"new", "streaming"} : pc' = [pc EXCEPT ![t] = stage]
        /\ closed \subseteq closed' /\ closed' \subseteq closed \cup {t}
        /\ wire' = wire \/ Send(t, "stat")
    BY <1>8 DEF CloseAnswered, Go, Stages
  <2>5. \A u \in Transfers : Closing(u) => Closing(u)' BY <1>0, <2>4 DEF Closing, TypeOK
  <2>6. StreamsAreOpen' BY <1>0, <2>1, <2>3, <2>4 DEF StreamsAreOpen, TypeOK
  <2> QED BY <1>0, <1>o, <2>1, <2>4, <2>5, <2>6, ReceiveTakes DEF Hands
<1>9. CASE Verified(t)
  <2>1. /\ Receive(t, "stat") /\ UNCHANGED <<handle, wire, fds, closed>>
        /\ pc[t] = "verifying"
        /\ \E stage \in Stages \ {"new", "streaming"} : pc' = [pc EXCEPT ![t] = stage]
    BY <1>9 DEF Verified, Go, Stages, streamVars
  <2> QED BY <1>0, <1>o, <2>1, MovesOn, ReceiveTakes DEF Hands
<1>10. CASE Settled(t) \/ SettleTimesOut(t)
  <2>1. /\ UNCHANGED <<inbox, handle, fds, closed>>
        /\ pc[t] = "settling"
        /\ \E stage \in Stages \ {"new", "streaming"} : pc' = [pc EXCEPT ![t] = stage]
        /\ wire' = wire \/ Send(t, "delete")
    BY <1>10 DEF Settled, SettleTimesOut, CleanUp, Go, Stages, streamVars
  <2> QED BY <1>0, <1>o, <2>1, MovesOn, SameInboxTakes DEF Hands
<1>11. CASE LateSettled(t)
  <2>1. UNCHANGED <<inbox, handle, fds, closed, pc>> /\ (wire' = wire \/ Send(t, "stat"))
    BY <1>11 DEF LateSettled, streamVars
  <2> QED BY <1>0, <1>o, <2>1, MovesOn, SameInboxTakes DEF Hands
<1>12. CASE LateStat(t)
  <2>1. /\ Receive(t, "stat") /\ UNCHANGED <<handle, fds, closed, pc>>
        /\ wire' = wire \/ Send(t, "delete")
    BY <1>12 DEF LateStat, streamVars
  <2> QED BY <1>0, <1>o, <2>1, MovesOn, ReceiveTakes DEF Hands
<1>13. CASE Deleted(t)
  <2>1. /\ Receive(t, "delete") /\ UNCHANGED <<handle, wire, fds, closed>>
        /\ \/ UNCHANGED pc
           \/ pc[t] = "deleting" /\ pc' = [pc EXCEPT ![t] = "failed"]
    BY <1>13 DEF Deleted, Go, streamVars
  <2>2. "failed" \in Stages \ {"new", "streaming"} BY DEF Stages
  <2> QED BY <1>0, <1>o, <2>1, <2>2, MovesOn, ReceiveTakes DEF Hands
<1> QED BY <1>1, <1>2, <1>3, <1>4, <1>5, <1>6, <1>7, <1>8, <1>9, <1>10,
           <1>11, <1>12, <1>13 DEF Client

(* A request sent joins those of its session, which all stay. *)
LEMMA SendJoins ==
  ASSUME TypeOK, NEW t \in Transfers, NEW op \in Ops, Send(t, op)
  PROVE  /\ \A s \in Sessions : \A i \in DOMAIN wire'[s] :
              \/ i \in DOMAIN wire[s] /\ wire'[s][i] = wire[s][i]
              \/ wire'[s][i].by = t /\ wire'[s][i].op = op
         /\ \A u \in Transfers : CloseSent(u) => CloseSent(u)'
         /\ op = "close" => CloseSent(t)'
<1> DEFINE r == [by |-> t, op |-> op]
<1>1. r.by = t /\ r.op = op OBVIOUS
<1>2. \A s \in Sessions : wire[s] \in Seq([by : Transfers, op : Ops]) BY DEF TypeOK
<1>3. \A u \in Transfers : SessionOf[u] \in Sessions BY SessionAssumption
<1>4. /\ \A s \in Sessions : wire'[s] = wire[s] \/ wire'[s] = Append(wire[s], r)
      /\ wire'[SessionOf[t]] = Append(wire[SessionOf[t]], r)
  BY <1>3 DEF Send, TypeOK
<1> HIDE DEF r
<1>5. ASSUME NEW s \in Sessions
      PROVE  /\ \A i \in DOMAIN wire[s] : i \in DOMAIN wire'[s] /\ wire'[s][i] = wire[s][i]
             /\ \A i \in DOMAIN wire'[s] :
                  (i \in DOMAIN wire[s] /\ wire'[s][i] = wire[s][i]) \/ wire'[s][i] = r
  <2>1. wire'[s] = wire[s] \/ wire'[s] = Append(wire[s], r) BY <1>4
  <2> QED BY <1>2, <2>1
<1>6. \A u \in Transfers : CloseSent(u) => CloseSent(u)' BY <1>3, <1>5 DEF CloseSent
<1>7. ASSUME op = "close" PROVE CloseSent(t)'
  <2> DEFINE n == Len(wire[SessionOf[t]]) + 1
  <2>1. n \in DOMAIN wire'[SessionOf[t]] /\ wire'[SessionOf[t]][n] = r
    BY <1>2, <1>3, <1>4
  <2> QED BY <1>1, <1>7, <2>1 DEF CloseSent
<1> QED BY <1>1, <1>5, <1>6, <1>7

LEMMA HandsKeep ==
  ASSUME HandleInv, NEW t \in Transfers, Hands(t), TypeOK'
  PROVE  HandleInv'
<1>0. TypeOK /\ HandlesAreOwned /\ ClosesAreAsked /\ ClosesAreTold BY DEF HandleInv
<1>1. \/ wire' = wire
      \/ \E op \in Ops : Send(t, op) /\ (op = "close" => Closing(t)')
  BY DEF Hands
<1>2. \A u \in Transfers : CloseSent(u) => CloseSent(u)'
  BY <1>0, <1>1, SendJoins DEF CloseSent
<1>3. HandlesAreOwned'
  <2>1. Send(t, "close") => CloseSent(t)'
    BY <1>0, SendJoins DEF Ops, StreamOps
  <2> QED BY <1>0, <1>2, <2>1 DEF HandlesAreOwned, Hands
<1>4. ClosesAreAsked'
  <2> SUFFICES ASSUME NEW s \in Sessions, NEW i \in DOMAIN wire'[s],
                      wire'[s][i].op = "close"
               PROVE  \/ wire'[s][i].by \in closed'
                      \/ pc'[wire'[s][i].by] \notin {"new", "streaming"}
    BY DEF ClosesAreAsked, Closing
  <2>1. CASE i \in DOMAIN wire[s] /\ wire'[s][i] = wire[s][i]
    <3> DEFINE Request == [by : Transfers, op : Ops]
    <3>0. wire[s] \in Seq(Request) BY <1>0 DEF TypeOK
    <3>a. wire[s][i] \in Request
      <4> HIDE DEF Request
      <4> QED BY <2>1, <3>0
    <3>1. PICK u \in Transfers : u = wire[s][i].by BY <3>a
    <3>2. Closing(u) BY <1>0, <2>1, <3>1 DEF ClosesAreAsked
    <3>3. Closing(u)' BY <3>2 DEF Hands
    <3> QED BY <2>1, <3>1, <3>3 DEF Closing
  <2>2. CASE ~(i \in DOMAIN wire[s] /\ wire'[s][i] = wire[s][i])
    <3>1. wire'[s][i].by = t /\ Closing(t)' BY <1>0, <1>1, <2>2, SendJoins
    <3> QED BY <3>1 DEF Closing
  <2> QED BY <2>1, <2>2
<1>5. ClosesAreTold' BY <1>0 DEF ClosesAreTold, Hands
<1> QED BY <1>3, <1>4, <1>5 DEF HandleInv, Hands

(* Serving a request takes it off the wire and adds its answer. *)
LEMMA ServeTakes ==
  ASSUME TypeOK, NEW s \in Sessions, NEW op \in Ops, NEW ok \in BOOLEAN,
         NEW size \in Nat, Serve(s, op, ok, size)
  PROVE  /\ \A q \in Sessions : \A i \in DOMAIN wire'[q] :
              \E j \in DOMAIN wire[q] : wire'[q][i] = wire[q][j]
         /\ \A u \in Transfers :
              CloseSent(u) => CloseSent(u)' \/ (op = "close" /\ u = First(s).by)
         /\ \A u \in Transfers : OpenTold(u) => OpenTold(u)'
         /\ ClosesAreAsked /\ ClosesAreTold /\ UNCHANGED <<closed, pc>> => ClosesAreTold'
         /\ \A u \in Transfers :
              op = "open" /\ ok /\ u = First(s).by => OpenTold(u)'
<1>1. wire[s] \in Seq([by : Transfers, op : Ops]) /\ wire[s] # <<>> BY DEF TypeOK, Serve
<1>2. \A u \in Transfers : inbox[u] \in Seq(Answers) BY DEF TypeOK
<1> DEFINE a == [op |-> op, ok |-> ok, size |-> size]
<1> DEFINE t == First(s).by
<1>3. a.op = op /\ a.ok = ok OBVIOUS
<1>4. 1 \in DOMAIN wire[s] /\ First(s) = wire[s][1] /\ wire[s][1].op = op
  BY <1>1 DEF First, Serve
<1>5. t \in Transfers BY ServeTyped
<1>6. wire' = [wire EXCEPT ![s] = Tail(wire[s])] BY DEF Serve
<1>7. \A j \in DOMAIN wire[s] :
        j # 1 => j - 1 \in DOMAIN Tail(wire[s]) /\ Tail(wire[s])[j - 1] = wire[s][j]
  BY <1>1
<1>8. \A i \in DOMAIN Tail(wire[s]) :
        i + 1 \in DOMAIN wire[s] /\ Tail(wire[s])[i] = wire[s][i + 1]
  BY <1>1
<1>9. /\ inbox'[t] = Append(inbox[t], a)
      /\ \A u \in Transfers : u # t => inbox'[u] = inbox[u]
  BY <1>5 DEF Serve, TypeOK
<1> HIDE DEF a, t
<1>10. ASSUME NEW q \in Sessions, NEW i \in DOMAIN wire'[q]
       PROVE  \E j \in DOMAIN wire[q] : wire'[q][i] = wire[q][j]
  <2>1. CASE q = s BY <1>6, <1>8, <1>10, <2>1 DEF TypeOK
  <2>2. CASE q # s BY <1>6, <1>10, <2>2 DEF TypeOK
  <2> QED BY <2>1, <2>2
<1>11. ASSUME NEW u \in Transfers, CloseSent(u)
       PROVE  CloseSent(u)' \/ (op = "close" /\ u = t)
  <2> DEFINE q == SessionOf[u]
  <2>0. q \in Sessions BY SessionAssumption
  <2>1. PICK j \in DOMAIN wire[q] : wire[q][j].by = u /\ wire[q][j].op = "close"
    BY <1>11 DEF CloseSent
  <2>2. CASE q # s
    <3>1. wire'[q] = wire[q] BY <1>6, <2>0, <2>2 DEF TypeOK
    <3> QED BY <2>1, <3>1 DEF CloseSent
  <2>3. CASE q = s /\ j # 1
    <3>1. wire'[q] = Tail(wire[s]) BY <1>6, <2>0, <2>3 DEF TypeOK
    <3>2. j - 1 \in DOMAIN wire'[q] /\ wire'[q][j - 1] = wire[q][j]
      BY <1>7, <2>1, <2>3, <3>1
    <3> QED BY <2>1, <3>2 DEF CloseSent
  <2>4. CASE q = s /\ j = 1 BY <1>4, <2>1, <2>4 DEF t
  <2> QED BY <2>2, <2>3, <2>4
<1>12. \A u \in Transfers :
         /\ \A i \in DOMAIN inbox[u] : i \in DOMAIN inbox'[u] /\ inbox'[u][i] = inbox[u][i]
         /\ \A i \in DOMAIN inbox'[u] :
              (i \in DOMAIN inbox[u] /\ inbox'[u][i] = inbox[u][i]) \/ (u = t /\ inbox'[u][i] = a)
  <2> TAKE u \in Transfers
  <2>1. CASE u = t
    <3>1. inbox[u] \in Seq(Answers) /\ inbox'[u] = Append(inbox[u], a)
      BY <1>2, <1>9, <2>1
    <3> QED BY <2>1, <3>1
  <2>2. CASE u # t BY <1>9, <2>2
  <2> QED BY <2>1, <2>2
<1>13. \A u \in Transfers : OpenTold(u) => OpenTold(u)' BY <1>12 DEF OpenTold
<1>14. ASSUME ClosesAreAsked, ClosesAreTold, UNCHANGED <<closed, pc>> PROVE ClosesAreTold'
  <2>1. op = "close" => Closing(t) BY <1>4, <1>14 DEF ClosesAreAsked, t
  <2>2. \A u \in Transfers : Closing(u) => Closing(u)' BY <1>14 DEF Closing
  <2> SUFFICES ASSUME NEW u \in Transfers, NEW i \in DOMAIN inbox'[u],
                      inbox'[u][i].op = "close"
               PROVE  Closing(u)
    BY <2>2 DEF ClosesAreTold
  <2>3. CASE i \in DOMAIN inbox[u] /\ inbox'[u][i] = inbox[u][i]
    BY <1>14, <2>3 DEF ClosesAreTold
  <2>4. CASE u = t /\ inbox'[u][i] = a BY <1>3, <2>1, <2>4
  <2> QED BY <1>12, <2>3, <2>4
<1>15. ASSUME NEW u \in Transfers, op = "open", ok, u = t PROVE OpenTold(u)'
  <2> DEFINE n == Len(inbox[u]) + 1
  <2>1. n \in DOMAIN inbox'[u] /\ inbox'[u][n] = a BY <1>2, <1>9, <1>15
  <2> QED BY <1>3, <1>15, <2>1 DEF OpenTold
<1> QED BY <1>10, <1>11, <1>13, <1>14, <1>15 DEF t

(* The server and a lost connection change no stream and no stage. *)
LEMMA ServerHands ==
  ASSUME HandleInv, NEW s \in Sessions, Server(s) \/ Drop(s), TypeOK'
  PROVE  HandleInv'
<1> USE DEF Ops, StreamOps
<1>0. TypeOK /\ HandlesAreOwned /\ StreamsAreOpen /\ ClosesAreAsked /\ ClosesAreTold
  BY DEF HandleInv
<1>1. UNCHANGED <<fds, closed, pc>>
  BY DEF Server, ServeOpen, ServeWrite, ServeClose, ServeStat, ServeDelete,
         Refuse, Drop, clientVars, streamVars
<1>2. StreamsAreOpen' BY <1>0, <1>1 DEF StreamsAreOpen
<1>3. ASSUME NEW op \in Ops, NEW ok \in BOOLEAN, NEW size \in Nat, Serve(s, op, ok, size),
             \A u \in Transfers :
               handle'[u] # NoFile => \/ handle[u] # NoFile /\ (op = "close" => u # First(s).by)
                                      \/ op = "open" /\ ok /\ u = First(s).by
      PROVE  HandleInv'
  <2>1. ClosesAreAsked'
    <3>1. \A q \in Sessions : \A i \in DOMAIN wire'[q] :
            \E j \in DOMAIN wire[q] : wire'[q][i] = wire[q][j]
      BY <1>0, <1>3, ServeTakes
    <3> QED BY <1>0, <1>1, <3>1 DEF ClosesAreAsked, Closing
  <2>2. ClosesAreTold' BY <1>0, <1>1, <1>3, ServeTakes
  <2>3. HandlesAreOwned'
    <3> SUFFICES ASSUME NEW u \in Transfers, handle'[u] # NoFile
                 PROVE  u \in fds' \/ OpenTold(u)' \/ CloseSent(u)'
      BY DEF HandlesAreOwned
    <3>1. CASE op = "open" /\ ok /\ u = First(s).by BY <1>0, <1>3, <3>1, ServeTakes
    <3>2. CASE handle[u] # NoFile /\ (op = "close" => u # First(s).by)
      <4>1. u \in fds \/ OpenTold(u) \/ CloseSent(u) BY <1>0, <3>2 DEF HandlesAreOwned
      <4> QED BY <1>0, <1>1, <1>3, <3>2, <4>1, ServeTakes
    <3> QED BY <1>3, <3>1, <3>2
  <2> QED BY <1>2, <2>1, <2>2, <2>3 DEF HandleInv
<1>4. CASE ServeOpen(s)
  <2>1. Serve(s, "open", TRUE, 0) BY <1>4 DEF ServeOpen
  <2>2. \A u \in Transfers : u # First(s).by => handle'[u] = handle[u]
    BY <1>0, <1>4 DEF ServeOpen, TypeOK
  <2> QED BY <1>3, <2>1, <2>2
<1>5. CASE ServeWrite(s)
  <2>1. \E ok \in BOOLEAN : Serve(s, "write", ok, 0) BY <1>5 DEF ServeWrite
  <2>2. handle' = handle BY <1>5 DEF ServeWrite
  <2> QED BY <1>3, <2>1, <2>2
<1>6. CASE ServeClose(s)
  <2>1. PICK ok \in BOOLEAN : Serve(s, "close", ok, 0) BY <1>6 DEF ServeClose
  <2>2. handle' = [handle EXCEPT ![First(s).by] = NoFile] BY <1>6 DEF ServeClose
  <2>3. \A u \in Transfers :
          handle'[u] # NoFile => handle[u] # NoFile /\ u # First(s).by
    BY <1>0, <2>2 DEF TypeOK
  <2> QED BY <1>3, <2>1, <2>3
<1>7. CASE ServeStat(s)
  <2>1. Len(disk[path].data) \in Nat BY <1>0, <1>7 DEF ServeStat, TypeOK, Contents
  <2>2. \E ok \in BOOLEAN : Serve(s, "stat", ok, Len(disk[path].data))
    BY <1>7 DEF ServeStat
  <2>3. handle' = handle BY <1>7 DEF ServeStat
  <2> QED BY <1>3, <2>1, <2>2, <2>3
<1>8. CASE ServeDelete(s)
  <2>1. \E ok \in BOOLEAN : Serve(s, "delete", ok, 0) BY <1>8 DEF ServeDelete
  <2>2. handle' = handle BY <1>8 DEF ServeDelete
  <2> QED BY <1>3, <2>1, <2>2
<1>9. CASE Refuse(s) BY <1>3, <1>9 DEF Refuse
<1>10. CASE Drop(s)
  <2>1. \A u \in Transfers : handle'[u] # NoFile =>
          handle[u] # NoFile /\ inbox'[u] = inbox[u]
    BY <1>0, <1>10 DEF Drop, TypeOK
  <2>2. HandlesAreOwned'
    BY <1>0, <1>1, <1>10, <2>1 DEF Drop, HandlesAreOwned, OpenTold, CloseSent
  <2>3. ClosesAreAsked' BY <1>0, <1>1, <1>10 DEF Drop, ClosesAreAsked, Closing
  <2>4. \A u \in Transfers : \A i \in DOMAIN inbox'[u] :
          i \in DOMAIN inbox[u] /\ inbox'[u][i].op = inbox[u][i].op
    <3> TAKE u \in Transfers
    <3>1. inbox[u] \in Seq(Answers) BY <1>0 DEF TypeOK
    <3> QED BY <1>10, <3>1 DEF Drop, Answers
  <2>5. ClosesAreTold' BY <1>0, <1>1, <2>4 DEF ClosesAreTold, Closing
  <2> QED BY <1>2, <2>2, <2>3, <2>5 DEF HandleInv
<1> QED BY <1>4, <1>5, <1>6, <1>7, <1>8, <1>9, <1>10 DEF Server

LEMMA HandleStep == HandleInv /\ [Next]_vars => HandleInv'
<1> SUFFICES ASSUME HandleInv, [Next]_vars PROVE HandleInv' OBVIOUS
<1>0. TypeOK BY DEF HandleInv
<1>1. CASE UNCHANGED vars
  <2> USE <1>1 DEF vars, serverVars, clientVars
  <2>1. TypeOK' BY <1>0 DEF TypeOK
  <2>2. HandlesAreOwned' BY DEF HandleInv, HandlesAreOwned, OpenTold, CloseSent
  <2>3. StreamsAreOpen' BY DEF HandleInv, StreamsAreOpen
  <2>4. ClosesAreAsked' BY DEF HandleInv, ClosesAreAsked, Closing
  <2>5. ClosesAreTold' BY DEF HandleInv, ClosesAreTold, Closing
  <2> QED BY <2>1, <2>2, <2>3, <2>4, <2>5 DEF HandleInv
<1>2. ASSUME NEW t \in Transfers, Begin(t) \/ Break(t) \/ Client(t) PROVE HandleInv'
  BY <1>0, <1>2, ClientTyped, ClientHands, HandsKeep
<1>3. ASSUME NEW s \in Sessions, Server(s) \/ Drop(s) PROVE HandleInv'
  BY <1>0, <1>3, ServerTyped, ServerHands
<1> QED BY <1>1, <1>2, <1>3 DEF Next, Finished

LEMMA HandleInit == Init => HandleInv
<1> SUFFICES ASSUME Init PROVE HandleInv OBVIOUS
<1>1. TypeOK BY InitTyped
<1>2. HandlesAreOwned BY DEF Init, HandlesAreOwned
<1>3. StreamsAreOpen BY DEF Init, StreamsAreOpen
<1>4. ClosesAreAsked BY DEF Init, ClosesAreAsked
<1>5. ClosesAreTold BY DEF Init, ClosesAreTold
<1> QED BY <1>1, <1>2, <1>3, <1>4, <1>5 DEF HandleInv

(* However attempts overlap, and whatever is refused, late or lost: the    *)
(* server holds no file open for an attempt that is reported and has       *)
(* nothing on its way.                                                     *)
THEOREM HandlesAreClosed == Spec => []HandlesClosed
<1>1. HandleInv => HandlesClosed
  <2> SUFFICES ASSUME HandleInv, NEW t \in Transfers,
                      pc[t] \in {"completed", "failed"}, Quiet(t)
               PROVE  handle[t] = NoFile
    BY DEF HandlesClosed
  <2>1. t \notin fds BY DEF HandleInv, StreamsAreOpen
  <2>2. ~OpenTold(t) BY DEF OpenTold, Quiet
  <2>3. ~CloseSent(t) BY DEF CloseSent, Quiet
  <2> QED BY <2>1, <2>2, <2>3 DEF HandleInv, HandlesAreOwned
<1> QED BY <1>1, HandleInit, HandleStep, PTL DEF Spec

-----------------------------------------------------------------------------
(* What is on its way, and in which order. *)

(* A request of the attempt is in its session's queue. *)
Asked(t, op) ==
  \E i \in DOMAIN wire[SessionOf[t]] :
    wire[SessionOf[t]][i].by = t /\ wire[SessionOf[t]][i].op = op

(* An answer to it is in its inbox, perhaps a good one. *)
Told(t, op) == \E i \in DOMAIN inbox[t] : inbox[t][i].op = op
ToldOk(t, op) == \E i \in DOMAIN inbox[t] : inbox[t][i].op = op /\ inbox[t][i].ok

Flying(t, op) == Asked(t, op) \/ Told(t, op)

(* No request a of the attempt comes after a request b of it, on either    *)
(* way; with a = b there is at most one.                                   *)
WireOrder(t, a, b) ==
  \A i, j \in DOMAIN wire[SessionOf[t]] :
    /\ wire[SessionOf[t]][i].by = t /\ wire[SessionOf[t]][i].op = a
    /\ wire[SessionOf[t]][j].by = t /\ wire[SessionOf[t]][j].op = b
    => i <= j
InboxOrder(t, a, b) ==
  \A i, j \in DOMAIN inbox[t] : inbox[t][i].op = a /\ inbox[t][j].op = b => i <= j
InOrder(t, a, b) ==
  WireOrder(t, a, b) /\ InboxOrder(t, a, b) /\ (Told(t, b) => ~Asked(t, a))

Ordered(t) ==
  /\ \A op \in Ops : InOrder(t, op, op)
  /\ InOrder(t, "write", "close")
  /\ InOrder(t, "close", "delete")

OwnWire == \A s \in Sessions : \A i \in DOMAIN wire[s] : SessionOf[wire[s][i].by] = s

(* A request sent is the last of its attempt. *)
LEMMA SendAsks ==
  ASSUME TypeOK, OwnWire, NEW t \in Transfers, NEW op \in Ops, Send(t, op)
  PROVE  /\ OwnWire'
         /\ \A u \in Transfers : \A o \in Ops :
              Asked(u, o)' <=> Asked(u, o) \/ (u = t /\ o = op)
         /\ \A u \in Transfers : \A a, b \in Ops :
              WireOrder(u, a, b) /\ ~(u = t /\ a = op /\ Asked(t, b)) => WireOrder(u, a, b)'
<1> DEFINE r == [by |-> t, op |-> op]
<1>1. r.by = t /\ r.op = op OBVIOUS
<1>2. \A s \in Sessions : wire[s] \in Seq([by : Transfers, op : Ops]) BY DEF TypeOK
<1>3. \A u \in Transfers : SessionOf[u] \in Sessions BY SessionAssumption
<1>4. /\ \A s \in Sessions : wire'[s] = IF s = SessionOf[t] THEN Append(wire[s], r) ELSE wire[s]
  BY <1>3 DEF Send, TypeOK
<1> HIDE DEF r
<1>5. ASSUME NEW s \in Sessions
      PROVE  /\ \A i \in DOMAIN wire[s] : i \in DOMAIN wire'[s] /\ wire'[s][i] = wire[s][i]
             /\ \A i \in DOMAIN wire'[s] :
                  \/ i \in DOMAIN wire[s] /\ wire'[s][i] = wire[s][i]
                  \/ /\ s = SessionOf[t] /\ i = Len(wire[s]) + 1 /\ wire'[s][i] = r
             /\ s = SessionOf[t] => Len(wire[s]) + 1 \in DOMAIN wire'[s]
                                    /\ wire'[s][Len(wire[s]) + 1] = r
  <2>1. CASE s = SessionOf[t]
    <3>1. wire'[s] = Append(wire[s], r) BY <1>4, <2>1
    <3> QED BY <1>2, <2>1, <3>1
  <2>2. CASE s # SessionOf[t] BY <1>4, <2>2
  <2> QED BY <2>1, <2>2
<1>6. OwnWire' BY <1>1, <1>5 DEF OwnWire
<1>7. ASSUME NEW u \in Transfers, NEW o \in Ops
      PROVE  Asked(u, o)' <=> Asked(u, o) \/ (u = t /\ o = op)
  BY <1>1, <1>3, <1>5 DEF Asked
<1>8. ASSUME NEW u \in Transfers, NEW a \in Ops, NEW b \in Ops,
             WireOrder(u, a, b), ~(u = t /\ a = op /\ Asked(t, b))
      PROVE  WireOrder(u, a, b)'
  <2> DEFINE s == SessionOf[u]
  <2>1. s \in Sessions BY <1>3
  <2> SUFFICES ASSUME NEW i \in DOMAIN wire'[s], NEW j \in DOMAIN wire'[s],
                      wire'[s][i].by = u, wire'[s][i].op = a,
                      wire'[s][j].by = u, wire'[s][j].op = b
               PROVE  i <= j
    BY DEF WireOrder
  <2>2. DOMAIN wire[s] = 1..Len(wire[s]) /\ Len(wire[s]) \in Nat BY <1>2, <2>1
  <2>3. CASE j \in DOMAIN wire[s] /\ wire'[s][j] = wire[s][j]
    <3>1. CASE i \in DOMAIN wire[s] /\ wire'[s][i] = wire[s][i]
      BY <1>8, <2>3, <3>1 DEF WireOrder
    <3>2. CASE i = Len(wire[s]) + 1 /\ wire'[s][i] = r
      BY <1>1, <1>8, <2>3, <3>2 DEF Asked
    <3> QED BY <1>5, <2>1, <3>1, <3>2
  <2>4. CASE j = Len(wire[s]) + 1
    <3>1. i \in DOMAIN wire[s] \/ i = Len(wire[s]) + 1 BY <1>5, <2>1
    <3> QED BY <2>2, <2>4, <3>1
  <2> QED BY <1>5, <2>1, <2>3, <2>4
<1> QED BY <1>6, <1>7, <1>8

(* An answer received is the first of its attempt. *)
LEMMA ReceiveOrders ==
  ASSUME TypeOK, NEW t \in Transfers, NEW op \in Ops, Receive(t, op)
  PROVE  /\ Told(t, op) /\ (Ok(t) => ToldOk(t, op))
         /\ \A u \in Transfers \ {t} : inbox'[u] = inbox[u]
         /\ \A o \in Ops : Told(t, o)' => Told(t, o)
         /\ \A o \in Ops : ToldOk(t, o)' => ToldOk(t, o)
         /\ \A o \in Ops \ {op} : ToldOk(t, o) => ToldOk(t, o)'
         /\ \A a, b \in Ops : InboxOrder(t, a, b) => InboxOrder(t, a, b)'
         /\ \A a \in Ops : InboxOrder(t, a, op) => ~Told(t, a)'
         /\ \A i \in DOMAIN inbox'[t] : \E j \in DOMAIN inbox[t] : inbox'[t][i] = inbox[t][j]
<1> DEFINE old == inbox[t]
<1>1. old \in Seq(Answers) /\ old # <<>> BY DEF TypeOK, Receive
<1>2. \A i \in DOMAIN Tail(old) : i + 1 \in DOMAIN old /\ Tail(old)[i] = old[i + 1]
  BY <1>1
<1>3. \A j \in DOMAIN old : j # 1 => j - 1 \in DOMAIN Tail(old) /\ Tail(old)[j - 1] = old[j]
  BY <1>1
<1>4. 1 \in DOMAIN old /\ Head(old) = old[1] /\ old[1].op = op
  BY <1>1 DEF Receive
<1>5. DOMAIN old \subseteq Nat /\ DOMAIN Tail(old) \subseteq Nat \ {0} BY <1>1
<1>6. inbox' = [inbox EXCEPT ![t] = Tail(old)] BY DEF Receive
<1>7. inbox'[t] = Tail(old) /\ \A u \in Transfers \ {t} : inbox'[u] = inbox[u]
  BY <1>6 DEF TypeOK
<1>8. Told(t, op) /\ (Ok(t) => ToldOk(t, op)) BY <1>4 DEF Told, ToldOk, Ok
<1>9. \A o \in Ops : (Told(t, o)' => Told(t, o)) /\ (ToldOk(t, o)' => ToldOk(t, o))
  BY <1>2, <1>7 DEF Told, ToldOk
<1>10. \A o \in Ops \ {op} : ToldOk(t, o) => ToldOk(t, o)'
  <2> SUFFICES ASSUME NEW o \in Ops \ {op}, ToldOk(t, o) PROVE ToldOk(t, o)' OBVIOUS
  <2>1. PICK j \in DOMAIN old : old[j].op = o /\ old[j].ok BY DEF ToldOk
  <2>2. j - 1 \in DOMAIN inbox'[t] /\ inbox'[t][j - 1] = old[j]
    BY <1>3, <1>4, <1>7, <2>1
  <2> QED BY <2>1, <2>2 DEF ToldOk
<1>11. ASSUME NEW a \in Ops, NEW b \in Ops, InboxOrder(t, a, b)
       PROVE  InboxOrder(t, a, b)'
  <2> SUFFICES ASSUME NEW i \in DOMAIN inbox'[t], NEW j \in DOMAIN inbox'[t],
                      inbox'[t][i].op = a, inbox'[t][j].op = b
               PROVE  i <= j
    BY DEF InboxOrder
  <2>1. i + 1 <= j + 1 BY <1>2, <1>7, <1>11 DEF InboxOrder
  <2> QED BY <1>5, <1>7, <2>1
<1>12. ASSUME NEW a \in Ops, InboxOrder(t, a, op), Told(t, a)' PROVE FALSE
  <2>1. PICK i \in DOMAIN inbox'[t] : inbox'[t][i].op = a BY <1>12 DEF Told
  <2>2. i + 1 <= 1 BY <1>2, <1>4, <1>7, <1>12, <2>1 DEF InboxOrder
  <2> QED BY <1>5, <1>7, <2>1, <2>2
<1> QED BY <1>2, <1>7, <1>8, <1>9, <1>10, <1>11, <1>12

(* A request served is the first of its session, its answer the last. *)
LEMMA ServeOrders ==
  ASSUME TypeOK, OwnWire, NEW s \in Sessions, NEW op \in Ops, NEW ok \in BOOLEAN,
         NEW size \in Nat, Serve(s, op, ok, size),
         NEW t \in Transfers, t = First(s).by
  PROVE  /\ OwnWire' /\ Asked(t, op)
         /\ \A u \in Transfers : \A o \in Ops : Asked(u, o)' => Asked(u, o)
         /\ \A u \in Transfers : \A o \in Ops :
              Asked(u, o) => Asked(u, o)' \/ (u = t /\ o = op)
         /\ \A u \in Transfers : \A a, b \in Ops : WireOrder(u, a, b) => WireOrder(u, a, b)'
         /\ \A a \in Ops : WireOrder(t, a, op) => ~Asked(t, a)'
<1>1. wire[s] \in Seq([by : Transfers, op : Ops]) /\ wire[s] # <<>> BY DEF TypeOK, Serve
<1> DEFINE old == wire[s]
<1>2. \A i \in DOMAIN Tail(old) : i + 1 \in DOMAIN old /\ Tail(old)[i] = old[i + 1]
  BY <1>1
<1>3. \A j \in DOMAIN old : j # 1 => j - 1 \in DOMAIN Tail(old) /\ Tail(old)[j - 1] = old[j]
  BY <1>1
<1>4. 1 \in DOMAIN old /\ First(s) = old[1] /\ old[1].op = op /\ old[1].by = t
  BY <1>1 DEF First, Serve
<1>5. DOMAIN old \subseteq Nat /\ DOMAIN Tail(old) \subseteq Nat \ {0} BY <1>1
<1>6. wire' = [wire EXCEPT ![s] = Tail(old)] BY DEF Serve
<1>7. wire'[s] = Tail(old) /\ \A q \in Sessions \ {s} : wire'[q] = wire[q]
  BY <1>6 DEF TypeOK
<1>8. \A u \in Transfers : SessionOf[u] \in Sessions BY SessionAssumption
<1>9. SessionOf[t] = s BY <1>4 DEF OwnWire
<1> HIDE DEF old
<1>10. OwnWire'
  <2> SUFFICES ASSUME NEW q \in Sessions, NEW i \in DOMAIN wire'[q]
               PROVE  SessionOf[wire'[q][i].by] = q
    BY DEF OwnWire
  <2>1. CASE q = s
    <3>1. i + 1 \in DOMAIN wire[s] /\ wire'[q][i] = wire[s][i + 1]
      BY <1>2, <1>7, <2>1 DEF old
    <3> QED BY <2>1, <3>1 DEF OwnWire
  <2>2. CASE q # s BY <1>7, <2>2 DEF OwnWire
  <2> QED BY <2>1, <2>2
<1>11. Asked(t, op) BY <1>4, <1>9 DEF Asked, old
<1>12. ASSUME NEW u \in Transfers, NEW o \in Ops, Asked(u, o)' PROVE Asked(u, o)
  <2>1. CASE SessionOf[u] = s
    <3>1. PICK i \in DOMAIN wire'[s] : wire'[s][i].by = u /\ wire'[s][i].op = o
      BY <1>12, <2>1 DEF Asked
    <3>2. i + 1 \in DOMAIN wire[s] /\ wire'[s][i] = wire[s][i + 1]
      BY <1>2, <1>7 DEF old
    <3> QED BY <2>1, <3>1, <3>2 DEF Asked
  <2>2. CASE SessionOf[u] # s BY <1>7, <1>8, <1>12, <2>2 DEF Asked
  <2> QED BY <2>1, <2>2
<1>13. ASSUME NEW u \in Transfers, NEW o \in Ops, Asked(u, o)
       PROVE  Asked(u, o)' \/ (u = t /\ o = op)
  <2>1. CASE SessionOf[u] = s
    <3>1. PICK j \in DOMAIN old : old[j].by = u /\ old[j].op = o
      BY <1>13, <2>1 DEF Asked, old
    <3>2. CASE j = 1 BY <1>4, <3>1, <3>2
    <3>3. CASE j # 1
      <4>1. j - 1 \in DOMAIN wire'[s] /\ wire'[s][j - 1] = old[j] BY <1>3, <1>7, <3>3
      <4> QED BY <2>1, <3>1, <4>1 DEF Asked
    <3> QED BY <3>2, <3>3
  <2>2. CASE SessionOf[u] # s BY <1>7, <1>8, <1>13, <2>2 DEF Asked
  <2> QED BY <2>1, <2>2
<1>14. ASSUME NEW u \in Transfers, NEW a \in Ops, NEW b \in Ops, WireOrder(u, a, b)
       PROVE  WireOrder(u, a, b)'
  <2>1. CASE SessionOf[u] = s
    <3> SUFFICES ASSUME NEW i \in DOMAIN wire'[s], NEW j \in DOMAIN wire'[s],
                        wire'[s][i].by = u, wire'[s][i].op = a,
                        wire'[s][j].by = u, wire'[s][j].op = b
                 PROVE  i <= j
      BY <2>1 DEF WireOrder
    <3>1. i + 1 <= j + 1 BY <1>2, <1>7, <1>14, <2>1 DEF WireOrder, old
    <3> QED BY <1>5, <1>7, <3>1
  <2>2. CASE SessionOf[u] # s BY <1>7, <1>8, <1>14, <2>2 DEF WireOrder
  <2> QED BY <2>1, <2>2
<1>15. ASSUME NEW a \in Ops, WireOrder(t, a, op), Asked(t, a)' PROVE FALSE
  <2>1. PICK i \in DOMAIN wire'[s] : wire'[s][i].by = t /\ wire'[s][i].op = a
    BY <1>9, <1>15 DEF Asked
  <2>2. i + 1 <= 1 BY <1>2, <1>4, <1>7, <1>9, <1>15, <2>1 DEF WireOrder, old
  <2> QED BY <1>5, <1>7, <2>1, <2>2
<1> QED BY <1>10, <1>11, <1>12, <1>13, <1>14, <1>15

LEMMA ServeAnswers ==
  ASSUME TypeOK, NEW s \in Sessions, NEW op \in Ops, NEW ok \in BOOLEAN,
         NEW size \in Nat, Serve(s, op, ok, size),
         NEW t \in Transfers, t = First(s).by
  PROVE  /\ \A u \in Transfers : \A o \in Ops :
              Told(u, o)' <=> Told(u, o) \/ (u = t /\ o = op)
         /\ \A u \in Transfers : \A o \in Ops :
              ToldOk(u, o)' <=> ToldOk(u, o) \/ (u = t /\ o = op /\ ok)
         /\ \A u \in Transfers : \A a, b \in Ops :
              InboxOrder(u, a, b) /\ ~(u = t /\ a = op /\ Told(t, b)) => InboxOrder(u, a, b)'
         /\ \A u \in Transfers : \A i \in DOMAIN inbox'[u] :
              \/ i \in DOMAIN inbox[u] /\ inbox'[u][i] = inbox[u][i]
              \/ /\ u = t /\ inbox'[u][i].op = op
                 /\ inbox'[u][i].ok = ok /\ inbox'[u][i].size = size
<1>1. \A u \in Transfers : inbox[u] \in Seq(Answers) BY DEF TypeOK
<1> DEFINE a == [op |-> op, ok |-> ok, size |-> size]
<1>2. a.op = op /\ a.ok = ok /\ a.size = size OBVIOUS
<1>3. inbox' = [inbox EXCEPT ![t] = Append(inbox[t], a)] BY DEF Serve
<1> HIDE DEF a
<1>4. ASSUME NEW u \in Transfers
      PROVE  /\ \A i \in DOMAIN inbox[u] : i \in DOMAIN inbox'[u] /\ inbox'[u][i] = inbox[u][i]
             /\ \A i \in DOMAIN inbox'[u] :
                  \/ i \in DOMAIN inbox[u] /\ inbox'[u][i] = inbox[u][i]
                  \/ u = t /\ i = Len(inbox[u]) + 1 /\ inbox'[u][i] = a
             /\ u = t => Len(inbox[u]) + 1 \in DOMAIN inbox'[u]
                         /\ inbox'[u][Len(inbox[u]) + 1] = a
  <2>1. CASE u = t
    <3>1. inbox'[u] = Append(inbox[u], a) BY <1>3, <2>1 DEF TypeOK
    <3> QED BY <1>1, <2>1, <3>1
  <2>2. CASE u # t BY <1>3, <2>2 DEF TypeOK
  <2> QED BY <2>1, <2>2
<1>5. \A u \in Transfers : \A o \in Ops :
        Told(u, o)' <=> Told(u, o) \/ (u = t /\ o = op)
  BY <1>2, <1>4 DEF Told
<1>6. \A u \in Transfers : \A o \in Ops :
        ToldOk(u, o)' <=> ToldOk(u, o) \/ (u = t /\ o = op /\ ok)
  BY <1>2, <1>4 DEF ToldOk
<1>7. ASSUME NEW u \in Transfers, NEW p \in Ops, NEW q \in Ops,
             InboxOrder(u, p, q), ~(u = t /\ p = op /\ Told(t, q))
      PROVE  InboxOrder(u, p, q)'
  <2> SUFFICES ASSUME NEW i \in DOMAIN inbox'[u], NEW j \in DOMAIN inbox'[u],
                      inbox'[u][i].op = p, inbox'[u][j].op = q
               PROVE  i <= j
    BY DEF InboxOrder
  <2>1. DOMAIN inbox[u] = 1..Len(inbox[u]) /\ Len(inbox[u]) \in Nat BY <1>1
  <2>2. CASE j \in DOMAIN inbox[u] /\ inbox'[u][j] = inbox[u][j]
    <3>1. CASE i \in DOMAIN inbox[u] /\ inbox'[u][i] = inbox[u][i]
      BY <1>7, <2>2, <3>1 DEF InboxOrder
    <3>2. CASE u = t /\ inbox'[u][i] = a
      BY <1>2, <1>7, <2>2, <3>2 DEF Told
    <3> QED BY <1>4, <3>1, <3>2
  <2>3. CASE j = Len(inbox[u]) + 1
    <3>1. i \in DOMAIN inbox[u] \/ i = Len(inbox[u]) + 1 BY <1>4
    <3> QED BY <2>1, <2>3, <3>1
  <2> QED BY <1>4, <2>2, <2>3
<1> QED BY <1>2, <1>4, <1>5, <1>6, <1>7

-----------------------------------------------------------------------------
(* The order is kept. *)

LEMMA SendKeepsOrder ==
  ASSUME TypeOK, OwnWire, NEW t \in Transfers, NEW op \in Ops, Send(t, op),
         UNCHANGED inbox \/ \E o \in Ops : Receive(t, o),
         \A u \in Transfers : Ordered(u),
         ~Flying(t, op),
         op = "write" => ~Flying(t, "close"),
         op = "close" => ~Flying(t, "delete")
  PROVE  OwnWire' /\ \A u \in Transfers : Ordered(u)'
<1>1. \A u \in Transfers : \A a, b \in Ops :
        InboxOrder(u, a, b) => InboxOrder(u, a, b)'
  <2>1. CASE UNCHANGED inbox BY <2>1 DEF InboxOrder
  <2>2. CASE \E o \in Ops : Receive(t, o)
    <3>1. \A u \in Transfers \ {t} : inbox'[u] = inbox[u] BY <2>2, ReceiveOrders
    <3>2. \A a, b \in Ops : InboxOrder(t, a, b) => InboxOrder(t, a, b)'
      BY <2>2, ReceiveOrders
    <3> QED BY <3>1, <3>2 DEF InboxOrder
  <2> QED BY <2>1, <2>2
<1>2. \A u \in Transfers : \A o \in Ops : Told(u, o)' => Told(u, o)
  <2>1. CASE UNCHANGED inbox BY <2>1 DEF Told
  <2>2. CASE \E o \in Ops : Receive(t, o)
    <3>1. \A u \in Transfers \ {t} : inbox'[u] = inbox[u] BY <2>2, ReceiveOrders
    <3>2. \A o \in Ops : Told(t, o)' => Told(t, o) BY <2>2, ReceiveOrders
    <3> QED BY <3>1, <3>2 DEF Told
  <2> QED BY <2>1, <2>2
<1>3. ASSUME NEW u \in Transfers, NEW a \in Ops, NEW b \in Ops,
             InOrder(u, a, b), u = t /\ a = op => ~Flying(t, b)
      PROVE  InOrder(u, a, b)'
  <2>1. WireOrder(u, a, b)' BY <1>3, SendAsks DEF InOrder, Flying
  <2>2. InboxOrder(u, a, b)' BY <1>1, <1>3 DEF InOrder
  <2>3. Told(u, b)' => ~Asked(u, a)' BY <1>2, <1>3, SendAsks DEF InOrder, Flying
  <2> QED BY <2>1, <2>2, <2>3 DEF InOrder
<1>4. ASSUME NEW u \in Transfers PROVE Ordered(u)'
  <2>1. \A o \in Ops : InOrder(u, o, o)' BY <1>3 DEF Ordered
  <2>2. InOrder(u, "write", "close")' BY <1>3 DEF Ordered, Ops, StreamOps
  <2>3. InOrder(u, "close", "delete")' BY <1>3 DEF Ordered, Ops, StreamOps
  <2> QED BY <2>1, <2>2, <2>3 DEF Ordered
<1> QED BY <1>4, SendAsks

LEMMA SilenceKeepsOrder ==
  ASSUME TypeOK, OwnWire, NEW t \in Transfers, UNCHANGED wire,
         UNCHANGED inbox \/ \E o \in Ops : Receive(t, o),
         \A u \in Transfers : Ordered(u)
  PROVE  OwnWire' /\ \A u \in Transfers : Ordered(u)'
<1>1. CASE UNCHANGED inbox
  BY <1>1 DEF OwnWire, Ordered, InOrder, WireOrder, InboxOrder, Told, Asked
<1>2. ASSUME NEW op \in Ops, Receive(t, op) PROVE \A u \in Transfers : Ordered(u)'
  <2>1. ASSUME NEW u \in Transfers, NEW a \in Ops, NEW b \in Ops, InOrder(u, a, b)
        PROVE  InOrder(u, a, b)'
    <3>1. WireOrder(u, a, b)' BY <2>1 DEF InOrder, WireOrder
    <3>2. CASE u = t
      <4>1. InboxOrder(u, a, b)' BY <1>2, <2>1, <3>2, ReceiveOrders DEF InOrder
      <4>2. Told(u, b)' => ~Asked(u, a)'
        <5>1. Told(u, b)' => Told(u, b) BY <1>2, <3>2, ReceiveOrders
        <5> QED BY <2>1, <5>1 DEF InOrder, Asked
      <4> QED BY <3>1, <4>1, <4>2 DEF InOrder
    <3>3. CASE u # t
      <4>1. inbox'[u] = inbox[u] BY <1>2, <3>3, ReceiveOrders
      <4> QED BY <2>1, <3>1, <4>1 DEF InOrder, InboxOrder, Told, Asked
    <3> QED BY <3>2, <3>3
  <2> QED BY <2>1 DEF Ordered, Ops, StreamOps
<1> QED BY <1>1, <1>2 DEF OwnWire

LEMMA ServeKeepsOrder ==
  ASSUME TypeOK, OwnWire, NEW s \in Sessions, NEW op \in Ops, NEW ok \in BOOLEAN,
         NEW size \in Nat, Serve(s, op, ok, size), NEW t \in Transfers, t = First(s).by,
         \A u \in Transfers : Ordered(u)
  PROVE  \A u \in Transfers : Ordered(u)'
<1>a. \A u \in Transfers : \A o \in Ops :
        Told(u, o)' <=> Told(u, o) \/ (u = t /\ o = op)
  BY ServeAnswers
<1>b. \A u \in Transfers : \A p, q \in Ops :
        InboxOrder(u, p, q) /\ ~(u = t /\ p = op /\ Told(t, q)) => InboxOrder(u, p, q)'
  BY ServeAnswers
<1>1. ASSUME NEW u \in Transfers, NEW a \in Ops, NEW b \in Ops, InOrder(u, a, b)
      PROVE  InOrder(u, a, b)'
  <2>1. WireOrder(u, a, b)' BY <1>1, ServeOrders DEF InOrder
  <2>2. InboxOrder(u, a, b)'
    <3>1. ~(u = t /\ a = op /\ Told(t, b)) BY <1>1, ServeOrders DEF InOrder
    <3> QED BY <1>b, <1>1, <3>1 DEF InOrder
  <2>3. ASSUME Told(u, b)', Asked(u, a)' PROVE FALSE
    <3>1. Asked(u, a) BY <2>3, ServeOrders
    <3>2. ~Told(u, b) BY <1>1, <3>1 DEF InOrder
    <3>3. u = t /\ b = op BY <1>a, <2>3, <3>2
    <3> QED BY <1>1, <2>3, <3>3, ServeOrders DEF InOrder
  <2> QED BY <2>1, <2>2, <2>3 DEF InOrder
<1> QED BY <1>1 DEF Ordered, Ops, StreamOps

-----------------------------------------------------------------------------
(* What is on its way says how far the attempt is. *)

Flights(t) ==
  /\ Flying(t, "open") => t \in opening /\ t \notin opened
  /\ Flying(t, "write") => t \in opened /\ late[t] = "none"
  /\ Asked(t, "write") => t \in fds \/ Asked(t, "close")
  /\ Flying(t, "close") =>
       /\ t \in opened /\ t \notin fds
       /\ \/ pc[t] \in {"finishing", "tearing", "settling", "deleting"}
          \/ late[t] = "waiting" /\ t \in opening
  /\ Flying(t, "stat") => pc[t] = "verifying" \/ late[t] = "stat"
  /\ Flying(t, "delete") => pc[t] = "deleting" \/ late[t] = "deleting"

(* How the attempt's stage and its stream go together. *)
Stage(t) ==
  /\ t \in fds => pc[t] = "streaming" /\ t \in opened
  /\ t \in closed <=> pc[t] \notin {"new", "streaming", "finishing"}
  /\ late[t] # "none" => pc[t] = "failed"
  /\ t \in opening /\ t \notin opened =>
       pc[t] \in {"streaming", "finishing", "settling"} \/ late[t] = "waiting"
  /\ pc[t] = "new" => t \notin opened /\ t \notin opening /\ t \notin cut
  /\ pc[t] = "streaming" /\ t \in opened => t \in fds
  /\ t \notin opened => sent[t] = 0

OthersOver == \A t \in alone : \A u \in Transfers \ {t} : Over(u)

Attempts == \A t \in Transfers : Ordered(t) /\ Flights(t) /\ Stage(t)

FlightInv == TypeOK /\ OwnWire /\ Attempts /\ OthersOver

(* A step leaves all there is of an attempt as it was. *)
RowKept(u) ==
  /\ pc'[u] = pc[u] /\ late'[u] = late[u] /\ sent'[u] = sent[u] /\ inbox'[u] = inbox[u]
  /\ (u \in fds' <=> u \in fds) /\ (u \in closed' <=> u \in closed)
  /\ (u \in opening' <=> u \in opening) /\ (u \in opened' <=> u \in opened)
  /\ \A o \in Ops : Asked(u, o)' <=> Asked(u, o)

LEMMA ClientTalks ==
  ASSUME NEW t \in Transfers, Begin(t) \/ Break(t) \/ Client(t)
  PROVE  /\ UNCHANGED inbox \/ \E o \in Ops : Receive(t, o)
         /\ UNCHANGED wire \/ \E op \in Ops : Send(t, op)
         /\ UNCHANGED <<path, disk, handle, cut, drops, kept>>
         /\ UNCHANGED alone \/ Begin(t)
<1> USE DEF Ops, StreamOps
<1>1. CASE Begin(t) BY <1>1 DEF Begin, serverVars
<1>2. CASE Break(t) BY <1>2 DEF Break, Destroy
<1>3. CASE Write(t) BY <1>3 DEF Write
<1>4. CASE Final(t) BY <1>4 DEF Final
<1>5. CASE OpenAnswered(t) BY <1>5 DEF OpenAnswered
<1>6. CASE OpenFailed(t) BY <1>6 DEF OpenFailed, Destroy
<1>7. CASE WriteAnswered(t) BY <1>7 DEF WriteAnswered, Destroy
<1>8. CASE CloseAnswered(t) BY <1>8 DEF CloseAnswered
<1>9. CASE Verified(t) BY <1>9 DEF Verified
<1>10. CASE Settled(t) BY <1>10 DEF Settled, CleanUp
<1>11. CASE SettleTimesOut(t) BY <1>11 DEF SettleTimesOut, CleanUp
<1>12. CASE LateSettled(t) BY <1>12 DEF LateSettled
<1>13. CASE LateStat(t) BY <1>13 DEF LateStat
<1>14. CASE Deleted(t) BY <1>14 DEF Deleted
<1> QED BY <1>1, <1>2, <1>3, <1>4, <1>5, <1>6, <1>7, <1>8, <1>9, <1>10,
           <1>11, <1>12, <1>13, <1>14 DEF Client

LEMMA ClientOthers ==
  ASSUME TypeOK, OwnWire, NEW t \in Transfers, Begin(t) \/ Break(t) \/ Client(t)
  PROVE  \A u \in Transfers \ {t} : RowKept(u)
<1> SUFFICES ASSUME NEW u \in Transfers \ {t} PROVE RowKept(u) OBVIOUS
<1>a. /\ UNCHANGED inbox \/ \E o \in Ops : Receive(t, o)
      /\ UNCHANGED wire \/ \E op \in Ops : Send(t, op)
  BY ClientTalks
<1>b. inbox'[u] = inbox[u] BY <1>a, ReceiveOrders
<1>c. \A o \in Ops : Asked(u, o)' <=> Asked(u, o)
  <2>1. CASE UNCHANGED wire BY <2>1 DEF Asked
  <2>2. CASE \E op \in Ops : Send(t, op) BY <2>2, SendAsks
  <2> QED BY <1>a, <2>1, <2>2
<1>d. /\ pc'[u] = pc[u] /\ late'[u] = late[u] /\ sent'[u] = sent[u]
      /\ (u \in fds' <=> u \in fds) /\ (u \in closed' <=> u \in closed)
      /\ (u \in opening' <=> u \in opening) /\ (u \in opened' <=> u \in opened)
  <2> USE DEF TypeOK, Go, GoLate, streamVars
  <2>1. CASE Begin(t) BY <2>1 DEF Begin
  <2>2. CASE Break(t) BY <2>2 DEF Break, Destroy
  <2>3. CASE Write(t) BY <2>3 DEF Write
  <2>4. CASE Final(t) BY <2>4 DEF Final
  <2>5. CASE OpenAnswered(t) BY <2>5 DEF OpenAnswered
  <2>6. CASE OpenFailed(t) BY <2>6 DEF OpenFailed, Destroy
  <2>7. CASE WriteAnswered(t) BY <2>7 DEF WriteAnswered, Destroy
  <2>8. CASE CloseAnswered(t) BY <2>8 DEF CloseAnswered
  <2>9. CASE Verified(t) BY <2>9 DEF Verified
  <2>10. CASE Settled(t) BY <2>10 DEF Settled, CleanUp
  <2>11. CASE SettleTimesOut(t) BY <2>11 DEF SettleTimesOut, CleanUp
  <2>12. CASE LateSettled(t) BY <2>12 DEF LateSettled
  <2>13. CASE LateStat(t) BY <2>13 DEF LateStat
  <2>14. CASE Deleted(t) BY <2>14 DEF Deleted
  <2> QED BY <2>1, <2>2, <2>3, <2>4, <2>5, <2>6, <2>7, <2>8, <2>9, <2>10,
             <2>11, <2>12, <2>13, <2>14 DEF Client
<1> QED BY <1>b, <1>c, <1>d DEF RowKept

LEMMA RowKeeps ==
  ASSUME NEW u \in Transfers, RowKept(u), u \in cut' <=> u \in cut
  PROVE  /\ Flights(u) => Flights(u)'
         /\ Stage(u) => Stage(u)'
         /\ Over(u) => Over(u)'
<1>1. \A o \in Ops : Told(u, o)' <=> Told(u, o) BY DEF Told, RowKept
<1>2. \A o \in Ops : Flying(u, o)' <=> Flying(u, o) BY <1>1 DEF Flying, RowKept
<1>3. Flights(u) => Flights(u)' BY <1>2 DEF Flights, RowKept, Ops, StreamOps
<1>4. Stage(u) => Stage(u)' BY DEF Stage, RowKept
<1>5. Over(u) => Over(u)' BY DEF Over, RowKept
<1> QED BY <1>3, <1>4, <1>5

(* What a request sent, or only an answer received, makes of the flights. *)
LEMMA SendFlies ==
  ASSUME TypeOK, OwnWire, NEW t \in Transfers, NEW op \in Ops, Send(t, op)
  PROVE  \A o \in Ops : Asked(t, o)' <=> Asked(t, o) \/ o = op
  BY SendAsks

LEMMA ReceiveLands ==
  ASSUME TypeOK, Attempts, NEW t \in Transfers, NEW op \in Ops, Receive(t, op)
  PROVE  /\ Told(t, op) /\ ~Asked(t, op) /\ ~Told(t, op)'
         /\ \A o \in Ops : Told(t, o)' => Told(t, o)
         /\ op = "close" => ~Asked(t, "write") /\ ~Told(t, "write")'
         /\ op = "delete" => ~Asked(t, "close") /\ ~Told(t, "close")'
<1>1. Ordered(t) BY DEF Attempts
<1>2. Told(t, op) BY ReceiveOrders
<1>3. \A a \in Ops : InOrder(t, a, op) => ~Asked(t, a) /\ ~Told(t, a)'
  BY <1>2, ReceiveOrders DEF InOrder
<1>4. \A o \in Ops : Told(t, o)' => Told(t, o) BY ReceiveOrders
<1> QED BY <1>1, <1>2, <1>3, <1>4 DEF Ordered, Ops, StreamOps

LEMMA QuietFlies ==
  ASSUME NEW t \in Transfers, Quiet(t), NEW o \in Ops
  PROVE  ~Asked(t, o) /\ ~Told(t, o)
  BY DEF Quiet, Asked, Told

(* The attempt that takes a step: all but the order. *)
FlightsStep(t) == Flights(t)' /\ Stage(t)' /\ (Over(t) => Over(t)' \/ Begin(t))

LEMMA ClientFlights ==
  ASSUME FlightInv, NEW t \in Transfers, Begin(t) \/ Break(t) \/ Client(t)
  PROVE  OwnWire' /\ (\A u \in Transfers : Ordered(u)') /\ FlightsStep(t)
<1> USE DEF Ops, StreamOps, Go, GoLate, streamVars
<1>0. TypeOK /\ OwnWire /\ Attempts BY DEF FlightInv
<1>a. (\A u \in Transfers : Ordered(u)) /\ Flights(t) /\ Stage(t) BY <1>0 DEF Attempts
<1>b. UNCHANGED cut BY ClientTalks
<1>c. ASSUME UNCHANGED inbox PROVE \A o \in Ops : Told(t, o)' <=> Told(t, o)
  BY <1>c DEF Told
<1>d. ASSUME UNCHANGED wire PROVE \A o \in Ops : Asked(t, o)' <=> Asked(t, o)
  BY <1>d DEF Asked
<1>1. CASE Begin(t)
  <2>1. UNCHANGED <<inbox, wire>> BY <1>1 DEF Begin, serverVars
  <2>2. OwnWire' /\ \A u \in Transfers : Ordered(u)' BY <1>0, <1>a, <2>1, SilenceKeepsOrder
  <2>3. FlightsStep(t)
    BY <1>0, <1>1, <1>a, <1>b, <1>c, <1>d, <2>1
    DEF Begin, FlightsStep, Flights, Flying, Stage, TypeOK
  <2> QED BY <2>2, <2>3
<1>2. CASE Break(t)
  <2>1. UNCHANGED inbox BY <1>2 DEF Break
  <2>2. CASE t \in fds
    <3>1. Send(t, "close") BY <1>2, <2>2 DEF Break, Destroy
    <3>2. OwnWire' /\ \A u \in Transfers : Ordered(u)'
      <4>1. ~Flying(t, "close") /\ ~Flying(t, "delete")
        BY <1>a, <2>2 DEF Flights, Stage
      <4> QED BY <1>0, <1>a, <2>1, <3>1, <4>1, SendKeepsOrder
    <3>3. \A o \in Ops : Asked(t, o)' <=> Asked(t, o) \/ o = "close"
      BY <1>0, <3>1, SendFlies
    <3>4. FlightsStep(t)
      BY <1>0, <1>2, <1>a, <1>b, <1>c, <2>1, <2>2, <3>3
      DEF Break, Destroy, FlightsStep, Flights, Flying, Stage, Over, TypeOK
    <3> QED BY <3>2, <3>4
  <2>3. CASE t \notin fds
    <3>1. UNCHANGED wire BY <1>2, <2>3 DEF Break, Destroy
    <3>2. OwnWire' /\ \A u \in Transfers : Ordered(u)'
      BY <1>0, <1>a, <2>1, <3>1, SilenceKeepsOrder
    <3>3. FlightsStep(t)
      BY <1>0, <1>2, <1>a, <1>b, <1>c, <1>d, <2>1, <2>3, <3>1
      DEF Break, Destroy, FlightsStep, Flights, Flying, Stage, Over, TypeOK
    <3> QED BY <3>2, <3>3
  <2> QED BY <2>2, <2>3
<1>3. CASE Write(t)
  <2>1. UNCHANGED inbox /\ \A o \in Ops : ~Flying(t, o)
    BY <1>3, QuietFlies DEF Write, Streaming, Flying
  <2>2. PICK op \in {"write", "open"} :
          Send(t, op) /\ (IF op = "write" THEN t \in fds /\ UNCHANGED opening
                          ELSE t \notin fds /\ opening' = opening \cup {t})
    BY <1>3 DEF Write
  <2>3. OwnWire' /\ \A u \in Transfers : Ordered(u)'
    BY <1>0, <1>a, <2>1, <2>2, SendKeepsOrder
  <2>4. \A o \in Ops : Asked(t, o)' <=> o = op
    BY <1>0, <2>1, <2>2, SendFlies DEF Flying
  <2>5. FlightsStep(t)
    BY <1>0, <1>3, <1>a, <1>b, <1>c, <2>1, <2>2, <2>4
    DEF Write, Streaming, FlightsStep, Flights, Flying, Stage, Over, TypeOK
  <2> QED BY <2>3, <2>5
<1>4. CASE Final(t)
  <2>1. UNCHANGED inbox /\ \A o \in Ops : ~Flying(t, o)
    BY <1>4, QuietFlies DEF Final, Streaming, Flying
  <2>2. PICK op \in {"close", "open"} :
          Send(t, op) /\ (IF op = "close" THEN t \in fds /\ fds' = fds \ {t} /\ UNCHANGED opening
                          ELSE t \notin fds /\ opening' = opening \cup {t} /\ UNCHANGED fds)
    BY <1>4 DEF Final
  <2>3. OwnWire' /\ \A u \in Transfers : Ordered(u)'
    BY <1>0, <1>a, <2>1, <2>2, SendKeepsOrder
  <2>4. \A o \in Ops : Asked(t, o)' <=> o = op
    BY <1>0, <2>1, <2>2, SendFlies DEF Flying
  <2>5. FlightsStep(t)
    BY <1>0, <1>4, <1>a, <1>b, <1>c, <2>1, <2>2, <2>4
    DEF Final, Streaming, FlightsStep, Flights, Flying, Stage, Over, TypeOK
  <2> QED BY <2>3, <2>5
<1>5. CASE OpenAnswered(t)
  <2>1. Receive(t, "open") BY <1>5 DEF OpenAnswered
  <2>2. /\ Told(t, "open") /\ ~Asked(t, "open") /\ ~Told(t, "open")'
        /\ \A o \in Ops : Told(t, o)' => Told(t, o)
    BY <1>0, <2>1, ReceiveLands
  <2>3. /\ t \in opening /\ t \notin opened /\ t \notin fds
        /\ \A o \in {"write", "close"} : ~Flying(t, o)
        /\ pc[t] \in {"streaming", "finishing", "settling"} \/ late[t] = "waiting"
    BY <1>a, <2>2 DEF Flights, Stage, Flying
  <2>4. PICK op \in {"close", "write"} :
          /\ Send(t, op)
          /\ \/ op = "close" /\ t \in closed /\ UNCHANGED <<fds, opening>>
             \/ /\ op = "write" /\ t \notin closed /\ pc[t] = "streaming"
                /\ fds' = fds \cup {t} /\ opening' = opening \ {t}
             \/ /\ op = "close" /\ t \notin closed /\ pc[t] = "finishing"
                /\ opening' = opening \ {t} /\ UNCHANGED fds
    BY <1>5 DEF OpenAnswered
  <2>5. ~Flying(t, "delete") BY <1>a, <2>3 DEF Flights, Stage
  <2>6. OwnWire' /\ \A u \in Transfers : Ordered(u)'
    BY <1>0, <1>a, <2>1, <2>3, <2>4, <2>5, SendKeepsOrder
  <2>7. \A o \in Ops : Asked(t, o)' <=> Asked(t, o) \/ o = op
    BY <1>0, <2>4, SendFlies
  <2>8. opened' = opened \cup {t} /\ UNCHANGED <<pc, closed, sent, late>>
    BY <1>5 DEF OpenAnswered
  <2>9. FlightsStep(t)
    BY <1>0, <1>a, <1>b, <2>2, <2>3, <2>4, <2>5, <2>7, <2>8
    DEF FlightsStep, Flights, Flying, Stage, Over, TypeOK
  <2> QED BY <2>6, <2>9
<1>6. CASE OpenFailed(t)
  <2>1. Receive(t, "open") BY <1>6 DEF OpenFailed
  <2>2. /\ Told(t, "open") /\ ~Asked(t, "open") /\ ~Told(t, "open")'
        /\ \A o \in Ops : Told(t, o)' => Told(t, o)
    BY <1>0, <2>1, ReceiveLands
  <2>3. t \notin opened /\ t \notin fds /\ t \in opening
    BY <1>a, <2>2 DEF Flights, Stage, Flying
  <2>4. UNCHANGED wire BY <1>6, <2>3 DEF OpenFailed, Destroy
  <2>5. OwnWire' /\ \A u \in Transfers : Ordered(u)'
    BY <1>0, <1>a, <2>1, <2>4, SilenceKeepsOrder
  <2>6. FlightsStep(t)
    BY <1>0, <1>6, <1>a, <1>b, <1>d, <2>2, <2>3, <2>4
    DEF OpenFailed, Destroy, FlightsStep, Flights, Flying, Stage, Over, TypeOK
  <2> QED BY <2>5, <2>6
<1>7. CASE WriteAnswered(t)
  <2>1. Receive(t, "write") BY <1>7 DEF WriteAnswered
  <2>2. /\ Told(t, "write") /\ ~Asked(t, "write") /\ ~Told(t, "write")'
        /\ \A o \in Ops : Told(t, o)' => Told(t, o)
    BY <1>0, <2>1, ReceiveLands
  <2>3. t \in opened /\ late[t] = "none" BY <1>a, <2>2 DEF Flights, Flying
  <2>4. CASE t \in fds /\ ~Ok(t)
    <3>1. t \notin closed /\ pc[t] = "streaming" BY <1>a, <2>4 DEF Stage
    <3>2. Destroy(t) /\ Send(t, "close") /\ UNCHANGED <<opening, opened, sent, late>>
      BY <1>7, <2>4, <3>1 DEF WriteAnswered, Destroy
    <3>3. ~Flying(t, "close") /\ ~Flying(t, "delete")
      BY <1>a, <2>3, <2>4, <3>1 DEF Flights
    <3>4. OwnWire' /\ \A u \in Transfers : Ordered(u)'
      BY <1>0, <1>a, <2>1, <3>2, <3>3, SendKeepsOrder
    <3>5. \A o \in Ops : Asked(t, o)' <=> Asked(t, o) \/ o = "close"
      BY <1>0, <3>2, SendFlies
    <3>6. FlightsStep(t)
      BY <1>0, <1>a, <1>b, <2>2, <2>3, <2>4, <3>1, <3>2, <3>5
      DEF Destroy, FlightsStep, Flights, Flying, Stage, Over, TypeOK
    <3> QED BY <3>4, <3>6
  <2>5. CASE ~(t \in fds /\ ~Ok(t))
    <3>1. UNCHANGED wire BY <1>7, <2>5 DEF WriteAnswered, Destroy
    <3>2. OwnWire' /\ \A u \in Transfers : Ordered(u)'
      BY <1>0, <1>a, <2>1, <3>1, SilenceKeepsOrder
    <3>3. FlightsStep(t)
      BY <1>0, <1>7, <1>a, <1>b, <1>d, <2>2, <2>3, <2>5, <3>1
      DEF WriteAnswered, Destroy, FlightsStep, Flights, Flying, Stage, Over, TypeOK
    <3> QED BY <3>2, <3>3
  <2> QED BY <2>4, <2>5
<1>8. CASE CloseAnswered(t)
  <2>1. Receive(t, "close") BY <1>8 DEF CloseAnswered
  <2>2. /\ Told(t, "close") /\ ~Asked(t, "close") /\ ~Told(t, "close")'
        /\ ~Asked(t, "write") /\ ~Told(t, "write")'
        /\ \A o \in Ops : Told(t, o)' => Told(t, o)
    BY <1>0, <2>1, ReceiveLands
  <2>3. t \in opened /\ t \notin fds /\ ~Flying(t, "open")
    BY <1>a, <2>2 DEF Flights, Flying
  <2>4. CASE t \notin opening /\ t \notin closed /\ Ok(t) /\ sent[t] = Size[t]
    <3>1. /\ Send(t, "stat") /\ pc' = [pc EXCEPT ![t] = "verifying"]
          /\ closed' = closed \cup {t} /\ UNCHANGED <<fds, opening, opened, sent, late>>
      BY <1>8, <2>4 DEF CloseAnswered
    <3>2. pc[t] \in {"new", "streaming", "finishing"} BY <1>a, <2>4 DEF Stage
    <3>3. pc[t] = "finishing" BY <1>a, <2>2, <2>4, <3>2 DEF Flights, Flying
    <3>4. ~Flying(t, "stat") BY <1>a, <3>3 DEF Flights, Stage
    <3>5. OwnWire' /\ \A u \in Transfers : Ordered(u)'
      BY <1>0, <1>a, <2>1, <3>1, <3>4, SendKeepsOrder
    <3>6. \A o \in Ops : Asked(t, o)' <=> Asked(t, o) \/ o = "stat"
      BY <1>0, <3>1, SendFlies
    <3>7. FlightsStep(t)
      BY <1>0, <1>a, <1>b, <2>2, <2>3, <2>4, <3>1, <3>3, <3>6
      DEF FlightsStep, Flights, Flying, Stage, Over, TypeOK
    <3> QED BY <3>5, <3>7
  <2>5. CASE ~(t \notin opening /\ t \notin closed /\ Ok(t) /\ sent[t] = Size[t])
    <3>1. UNCHANGED wire BY <1>8, <2>5 DEF CloseAnswered
    <3>2. OwnWire' /\ \A u \in Transfers : Ordered(u)'
      BY <1>0, <1>a, <2>1, <3>1, SilenceKeepsOrder
    <3>3. t \notin closed /\ t \notin opening => pc[t] = "finishing"
      BY <1>a, <2>2 DEF Flights, Flying, Stage
    <3>4. \/ opening' = opening \ {t} /\ UNCHANGED <<closed, pc>>
          \/ /\ t \in closed /\ UNCHANGED <<closed, opening>>
             /\ pc' = IF pc[t] = "tearing" THEN [pc EXCEPT ![t] = "settling"] ELSE pc
          \/ /\ t \notin closed /\ t \notin opening /\ UNCHANGED opening
             /\ closed' = closed \cup {t} /\ pc' = [pc EXCEPT ![t] = "settling"]
      BY <1>8, <2>5 DEF CloseAnswered
    <3>5. UNCHANGED <<fds, opened, sent, late>> BY <1>8 DEF CloseAnswered
    <3>6. FlightsStep(t)
      BY <1>0, <1>a, <1>b, <1>d, <2>2, <2>3, <3>1, <3>3, <3>4, <3>5
      DEF FlightsStep, Flights, Flying, Stage, Over, TypeOK
    <3> QED BY <3>2, <3>6
  <2> QED BY <2>4, <2>5
<1>9. CASE Verified(t)
  <2>1. Receive(t, "stat") /\ UNCHANGED wire BY <1>9 DEF Verified
  <2>2. /\ Told(t, "stat") /\ ~Asked(t, "stat") /\ ~Told(t, "stat")'
        /\ \A o \in Ops : Told(t, o)' => Told(t, o)
    BY <1>0, <2>1, ReceiveLands
  <2>3. OwnWire' /\ \A u \in Transfers : Ordered(u)'
    BY <1>0, <1>a, <2>1, SilenceKeepsOrder
  <2>4. /\ pc[t] = "verifying"
        /\ \E stage \in {"completed", "settling"} : pc' = [pc EXCEPT ![t] = stage]
    BY <1>9 DEF Verified
  <2>5. FlightsStep(t)
    BY <1>0, <1>9, <1>a, <1>b, <1>d, <2>1, <2>2, <2>4
    DEF Verified, FlightsStep, Flights, Flying, Stage, Over, TypeOK
  <2> QED BY <2>3, <2>5
<1>10. CASE Settled(t) \/ SettleTimesOut(t)
  <2>1. UNCHANGED <<inbox, streamVars>> /\ pc[t] = "settling"
    BY <1>10 DEF Settled, SettleTimesOut
  <2>2. late[t] = "none" BY <1>a, <2>1 DEF Stage
  <2>3. CASE t \in opened
    <3>1. /\ Send(t, "delete") /\ UNCHANGED late
          /\ pc' = [pc EXCEPT ![t] = "deleting"]
      BY <1>10, <2>3 DEF Settled, SettleTimesOut, CleanUp
    <3>2. ~Flying(t, "delete") BY <1>a, <2>1, <2>2 DEF Flights
    <3>3. OwnWire' /\ \A u \in Transfers : Ordered(u)'
      BY <1>0, <1>a, <2>1, <3>1, <3>2, SendKeepsOrder
    <3>4. \A o \in Ops : Asked(t, o)' <=> Asked(t, o) \/ o = "delete"
      BY <1>0, <3>1, SendFlies
    <3>5. FlightsStep(t)
      BY <1>0, <1>a, <1>b, <1>c, <2>1, <2>2, <2>3, <3>1, <3>4
      DEF FlightsStep, Flights, Flying, Stage, Over, TypeOK
    <3> QED BY <3>3, <3>5
  <2>4. CASE t \notin opened
    <3>1. /\ UNCHANGED wire /\ pc' = [pc EXCEPT ![t] = "failed"]
          /\ IF t \in opening THEN late' = [late EXCEPT ![t] = "waiting"] ELSE UNCHANGED late
      BY <1>10, <2>4 DEF Settled, SettleTimesOut
    <3>2. OwnWire' /\ \A u \in Transfers : Ordered(u)'
      BY <1>0, <1>a, <2>1, <3>1, SilenceKeepsOrder
    <3>3. FlightsStep(t)
      BY <1>0, <1>a, <1>b, <1>c, <1>d, <2>1, <2>2, <2>4, <3>1
      DEF FlightsStep, Flights, Flying, Stage, Over, TypeOK
    <3> QED BY <3>2, <3>3
  <2> QED BY <2>3, <2>4
<1>11. CASE LateSettled(t)
  <2>1. /\ UNCHANGED <<inbox, streamVars, pc>> /\ late[t] = "waiting" /\ t \notin opening
    BY <1>11 DEF LateSettled
  <2>2. pc[t] = "failed" BY <1>a, <2>1 DEF Stage
  <2>3. CASE t \in opened
    <3>1. Send(t, "stat") /\ late' = [late EXCEPT ![t] = "stat"]
      BY <1>11, <2>3 DEF LateSettled
    <3>2. ~Flying(t, "stat") BY <1>a, <2>1, <2>2 DEF Flights
    <3>3. OwnWire' /\ \A u \in Transfers : Ordered(u)'
      BY <1>0, <1>a, <2>1, <3>1, <3>2, SendKeepsOrder
    <3>4. \A o \in Ops : Asked(t, o)' <=> Asked(t, o) \/ o = "stat"
      BY <1>0, <3>1, SendFlies
    <3>5. FlightsStep(t)
      BY <1>0, <1>a, <1>b, <1>c, <2>1, <2>2, <2>3, <3>1, <3>4
      DEF FlightsStep, Flights, Flying, Stage, Over, TypeOK
    <3> QED BY <3>3, <3>5
  <2>4. CASE t \notin opened
    <3>1. UNCHANGED wire /\ late' = [late EXCEPT ![t] = "over"]
      BY <1>11, <2>4 DEF LateSettled
    <3>2. OwnWire' /\ \A u \in Transfers : Ordered(u)'
      BY <1>0, <1>a, <2>1, <3>1, SilenceKeepsOrder
    <3>3. FlightsStep(t)
      BY <1>0, <1>a, <1>b, <1>c, <1>d, <2>1, <2>2, <2>4, <3>1
      DEF FlightsStep, Flights, Flying, Stage, Over, TypeOK
    <3> QED BY <3>2, <3>3
  <2> QED BY <2>3, <2>4
<1>12. CASE LateStat(t)
  <2>1. Receive(t, "stat") /\ UNCHANGED <<streamVars, pc>> /\ late[t] = "stat"
    BY <1>12 DEF LateStat
  <2>2. /\ Told(t, "stat") /\ ~Asked(t, "stat") /\ ~Told(t, "stat")'
        /\ \A o \in Ops : Told(t, o)' => Told(t, o)
    BY <1>0, <2>1, ReceiveLands
  <2>3. pc[t] = "failed" BY <1>a, <2>1 DEF Stage
  <2>4. CASE Ok(t) /\ Head(inbox[t]).size = 0
    <3>1. Send(t, "delete") /\ late' = [late EXCEPT ![t] = "deleting"]
      BY <1>12, <2>4 DEF LateStat
    <3>2. ~Flying(t, "delete") BY <1>a, <2>1, <2>3 DEF Flights
    <3>3. OwnWire' /\ \A u \in Transfers : Ordered(u)'
      BY <1>0, <1>a, <2>1, <3>1, <3>2, SendKeepsOrder
    <3>4. \A o \in Ops : Asked(t, o)' <=> Asked(t, o) \/ o = "delete"
      BY <1>0, <3>1, SendFlies
    <3>5. FlightsStep(t)
      BY <1>0, <1>a, <1>b, <2>1, <2>2, <2>3, <3>1, <3>4
      DEF FlightsStep, Flights, Flying, Stage, Over, TypeOK
    <3> QED BY <3>3, <3>5
  <2>5. CASE ~(Ok(t) /\ Head(inbox[t]).size = 0)
    <3>1. UNCHANGED wire /\ late' = [late EXCEPT ![t] = "over"]
      BY <1>12, <2>5 DEF LateStat
    <3>2. OwnWire' /\ \A u \in Transfers : Ordered(u)'
      BY <1>0, <1>a, <2>1, <3>1, SilenceKeepsOrder
    <3>3. FlightsStep(t)
      BY <1>0, <1>a, <1>b, <1>d, <2>1, <2>2, <2>3, <3>1
      DEF FlightsStep, Flights, Flying, Stage, Over, TypeOK
    <3> QED BY <3>2, <3>3
  <2> QED BY <2>4, <2>5
<1>13. CASE Deleted(t)
  <2>1. Receive(t, "delete") /\ UNCHANGED <<wire, streamVars>> BY <1>13 DEF Deleted
  <2>2. /\ Told(t, "delete") /\ ~Asked(t, "delete") /\ ~Told(t, "delete")'
        /\ ~Asked(t, "close") /\ ~Told(t, "close")'
        /\ \A o \in Ops : Told(t, o)' => Told(t, o)
    BY <1>0, <2>1, ReceiveLands
  <2>3. OwnWire' /\ \A u \in Transfers : Ordered(u)'
    BY <1>0, <1>a, <2>1, SilenceKeepsOrder
  <2>4. \/ pc[t] = "deleting" /\ pc' = [pc EXCEPT ![t] = "failed"] /\ UNCHANGED late
        \/ late[t] = "deleting" /\ late' = [late EXCEPT ![t] = "over"] /\ UNCHANGED pc
    BY <1>13 DEF Deleted
  <2>5. FlightsStep(t)
    BY <1>0, <1>a, <1>b, <1>d, <2>1, <2>2, <2>4
    DEF FlightsStep, Flights, Flying, Stage, Over, TypeOK
  <2> QED BY <2>3, <2>5
<1> QED BY <1>1, <1>2, <1>3, <1>4, <1>5, <1>6, <1>7, <1>8, <1>9, <1>10,
           <1>11, <1>12, <1>13 DEF Client

(* A step of the server serves one request. *)
LEMMA ServerServes ==
  ASSUME TypeOK, NEW s \in Sessions, Server(s)
  PROVE  /\ \E op \in Ops, ok \in BOOLEAN, size \in Nat : Serve(s, op, ok, size)
         /\ First(s).by \in Transfers
         /\ UNCHANGED <<cut, drops, pc, streamVars, late, alone>>
<1>1. UNCHANGED <<cut, drops, pc, streamVars, late, alone>>
  BY DEF Server, ServeOpen, ServeWrite, ServeClose, ServeStat, ServeDelete, Refuse,
         clientVars, streamVars
<1>a. \E op \in Ops, ok \in BOOLEAN, size \in Nat : Serve(s, op, ok, size)
  <2> USE DEF Ops, StreamOps
  <2>1. CASE ServeOpen(s)
    <3>1. Serve(s, "open", TRUE, 0) BY <2>1 DEF ServeOpen
    <3> QED BY <3>1
  <2>2. CASE ServeWrite(s)
    <3>1. Serve(s, "write", TRUE, 0) BY <2>2 DEF ServeWrite
    <3> QED BY <3>1
  <2>3. CASE ServeClose(s)
    <3>1. \E ok \in BOOLEAN : Serve(s, "close", ok, 0) BY <2>3 DEF ServeClose
    <3> QED BY <3>1
  <2>4. CASE ServeStat(s)
    <3>1. Len(disk[path].data) \in Nat BY <2>4 DEF ServeStat, TypeOK, Contents
    <3>2. Serve(s, "stat", TRUE, Len(disk[path].data)) BY <2>4 DEF ServeStat
    <3> QED BY <3>1, <3>2
  <2>5. CASE ServeDelete(s)
    <3>1. Serve(s, "delete", TRUE, 0) BY <2>5 DEF ServeDelete
    <3> QED BY <3>1
  <2>6. CASE Refuse(s)
    <3>1. \E op \in Ops \ {"close"} : Serve(s, op, FALSE, 0) BY <2>6 DEF Refuse
    <3> QED BY <3>1
  <2> QED BY <2>1, <2>2, <2>3, <2>4, <2>5, <2>6 DEF Server
<1>2. First(s).by \in Transfers BY <1>a, ServeTyped
<1> QED BY <1>1, <1>a, <1>2

LEMMA ServerFlights ==
  ASSUME FlightInv, NEW s \in Sessions, Server(s)
  PROVE  OwnWire' /\ Attempts'
<1>0. TypeOK /\ OwnWire /\ Attempts BY DEF FlightInv
<1>1. PICK op \in Ops, ok \in BOOLEAN, size \in Nat : Serve(s, op, ok, size)
  BY <1>0, ServerServes
<1>2. PICK t \in Transfers : t = First(s).by BY <1>0, ServerServes
<1>3. \A u \in Transfers : Ordered(u) BY <1>0 DEF Attempts
<1>4. OwnWire' /\ \A u \in Transfers : Ordered(u)'
  BY <1>0, <1>1, <1>2, <1>3, ServeOrders, ServeKeepsOrder
<1>5. UNCHANGED <<cut, pc, streamVars, late>> BY <1>0, ServerServes
<1>6. ASSUME NEW u \in Transfers PROVE Flights(u)' /\ Stage(u)'
  <2>1. \A o \in Ops : Asked(u, o)' => Asked(u, o) BY <1>0, <1>1, <1>2, ServeOrders
  <2>2. \A o \in Ops : Flying(u, o)' => Flying(u, o)
    <3>1. Asked(t, op) BY <1>0, <1>1, <1>2, ServeOrders
    <3>2. \A o \in Ops : Told(u, o)' => Told(u, o) \/ (u = t /\ o = op)
      BY <1>0, <1>1, <1>2, ServeAnswers
    <3> QED BY <2>1, <3>1, <3>2 DEF Flying
  <2>3. Asked(u, "write")' => u \in fds \/ Asked(u, "close")'
    <3>1. Asked(u, "write")' => Asked(u, "write") BY <2>1 DEF Ops, StreamOps
    <3>2. Asked(u, "write") => u \in fds \/ Asked(u, "close")
      BY <1>0 DEF Attempts, Flights
    <3>3. Asked(u, "close") => Asked(u, "close")' \/ (u = t /\ op = "close")
      BY <1>0, <1>1, <1>2, ServeOrders DEF Ops, StreamOps
    <3>4. u = t /\ op = "close" => ~Asked(u, "write")'
      <4>1. WireOrder(u, "write", "close") BY <1>3 DEF Ordered, InOrder
      <4> QED BY <1>0, <1>1, <1>2, <4>1, ServeOrders DEF Ops, StreamOps
    <3> QED BY <3>1, <3>2, <3>3, <3>4
  <2>4. Flights(u) /\ Stage(u) BY <1>0 DEF Attempts
  <2>5. Flights(u)'
    BY <1>5, <2>2, <2>3, <2>4 DEF Flights, Ops, StreamOps, streamVars
  <2>6. Stage(u)' BY <1>5, <2>4 DEF Stage, streamVars
  <2> QED BY <2>5, <2>6
<1> QED BY <1>4, <1>6 DEF Attempts

(* A lost connection turns good answers bad, and moves none. *)
LEMMA DropTurns ==
  ASSUME TypeOK, NEW s \in Sessions, Drop(s)
  PROVE  /\ UNCHANGED <<path, disk, wire, clientVars>>
         /\ \A u \in Transfers : \A i \in DOMAIN inbox'[u] :
              /\ i \in DOMAIN inbox[u] /\ inbox'[u][i].op = inbox[u][i].op
              /\ inbox'[u][i].size = inbox[u][i].size
              /\ inbox'[u][i].ok => inbox[u][i].ok
              /\ inbox[u][i].op \notin StreamOps => inbox'[u][i].ok = inbox[u][i].ok
              /\ u \in cut' \ cut /\ inbox[u][i].op \in StreamOps => ~inbox'[u][i].ok
         /\ \A u \in Transfers : u \notin cut' => inbox'[u] = inbox[u] /\ handle'[u] = handle[u]
         /\ \A u \in Transfers : handle'[u] = handle[u] \/ handle'[u] = NoFile
         /\ \A u \in cut' \ cut : handle'[u] = NoFile /\ pc[u] # "new"
         /\ cut \subseteq cut'
<1> DEFINE lost == {t \in Transfers : SessionOf[t] = s /\ pc[t] # "new"}
<1> DEFINE Seen(a) == IF a.op \in StreamOps THEN [a EXCEPT !.ok = FALSE] ELSE a
<1>1. /\ cut' = cut \cup lost
      /\ handle' = [t \in Transfers |-> IF t \in lost THEN NoFile ELSE handle[t]]
      /\ inbox' = [t \in Transfers |->
                    IF t \in lost THEN [i \in DOMAIN inbox[t] |-> Seen(inbox[t][i])]
                    ELSE inbox[t]]
      /\ UNCHANGED <<path, disk, wire, clientVars>>
  BY DEF Drop
<1>2. \A a \in Answers : /\ Seen(a).op = a.op /\ Seen(a).size = a.size
                         /\ Seen(a).ok => a.ok
                         /\ a.op \notin StreamOps => Seen(a).ok = a.ok
                         /\ a.op \in StreamOps => ~Seen(a).ok
  BY DEF Answers
<1>3. \A u \in Transfers : \A i \in DOMAIN inbox[u] : inbox[u][i] \in Answers
  BY DEF TypeOK
<1>4. lost \subseteq Transfers /\ \A u \in lost : pc[u] # "new" OBVIOUS
<1> HIDE DEF Seen, lost
<1>5. ASSUME NEW u \in Transfers, NEW i \in DOMAIN inbox'[u]
      PROVE  /\ i \in DOMAIN inbox[u] /\ inbox'[u][i].op = inbox[u][i].op
             /\ inbox'[u][i].size = inbox[u][i].size
             /\ inbox'[u][i].ok => inbox[u][i].ok
             /\ inbox[u][i].op \notin StreamOps => inbox'[u][i].ok = inbox[u][i].ok
             /\ u \in cut' \ cut /\ inbox[u][i].op \in StreamOps => ~inbox'[u][i].ok
  <2>1. CASE u \in lost
    <3>1. i \in DOMAIN inbox[u] /\ inbox'[u][i] = Seen(inbox[u][i])
      BY <1>1, <1>5, <2>1
    <3> QED BY <1>2, <1>3, <3>1
  <2>2. CASE u \notin lost BY <1>1, <1>5, <2>2
  <2> QED BY <2>1, <2>2
<1>6. /\ \A u \in cut' \ cut : u \in lost
      /\ \A u \in Transfers : u \notin cut' => u \notin lost
      /\ cut \subseteq cut'
  BY <1>1
<1>7. \A u \in Transfers : u \notin cut' => inbox'[u] = inbox[u] /\ handle'[u] = handle[u]
  BY <1>1, <1>6
<1>8. \A u \in Transfers : handle'[u] = handle[u] \/ handle'[u] = NoFile
  BY <1>1
<1>9. \A u \in cut' \ cut : handle'[u] = NoFile /\ pc[u] # "new"
  BY <1>1, <1>4, <1>6
<1> QED BY <1>1, <1>5, <1>6, <1>7, <1>8, <1>9

LEMMA DropFlights ==
  ASSUME FlightInv, NEW s \in Sessions, Drop(s)
  PROVE  OwnWire' /\ Attempts'
<1>0. TypeOK /\ OwnWire /\ Attempts BY DEF FlightInv
<1>1. UNCHANGED <<wire, clientVars>> BY <1>0, DropTurns
<1>2. \A u \in Transfers : \A i \in DOMAIN inbox'[u] :
        i \in DOMAIN inbox[u] /\ inbox'[u][i].op = inbox[u][i].op
  BY <1>0, DropTurns
<1>3. \A u \in Transfers : \A o \in Ops : Told(u, o)' => Told(u, o)
  BY <1>2 DEF Told
<1>4. \A u \in Transfers : \A o \in Ops : Asked(u, o)' <=> Asked(u, o)
  BY <1>1 DEF Asked
<1>5. ASSUME NEW u \in Transfers, NEW a \in Ops, NEW b \in Ops, InOrder(u, a, b)
      PROVE  InOrder(u, a, b)'
  <2>1. WireOrder(u, a, b)' BY <1>1, <1>5 DEF InOrder, WireOrder
  <2>2. InboxOrder(u, a, b)' BY <1>2, <1>5 DEF InOrder, InboxOrder
  <2> QED BY <1>3, <1>4, <1>5, <2>1, <2>2 DEF InOrder
<1>6. \A u \in Transfers : Ordered(u)'
  BY <1>0, <1>5 DEF Attempts, Ordered, Ops, StreamOps
<1>7. \A u \in cut' \ cut : pc[u] # "new" BY <1>0, DropTurns
<1>8. ASSUME NEW u \in Transfers PROVE Flights(u)' /\ Stage(u)'
  <2>1. Flights(u) /\ Stage(u) BY <1>0 DEF Attempts
  <2>2. \A o \in Ops : Flying(u, o)' => Flying(u, o) BY <1>3, <1>4 DEF Flying
  <2>3. Flights(u)'
    BY <1>1, <1>4, <2>1, <2>2 DEF Flights, Ops, StreamOps, clientVars
  <2>4. Stage(u)' BY <1>1, <1>7, <2>1 DEF Stage, clientVars
  <2> QED BY <2>3, <2>4
<1>9. OwnWire' BY <1>0, <1>1 DEF OwnWire
<1> QED BY <1>6, <1>8, <1>9 DEF Attempts

LEMMA FlightStep == FlightInv /\ [Next]_vars => FlightInv'
<1> SUFFICES ASSUME FlightInv, [Next]_vars PROVE FlightInv' OBVIOUS
<1>0. TypeOK /\ OwnWire /\ Attempts /\ OthersOver BY DEF FlightInv
<1>1. CASE UNCHANGED vars
  <2> USE <1>1 DEF vars, serverVars, clientVars
  <2>1. TypeOK' BY <1>0 DEF TypeOK
  <2>2. OwnWire' BY <1>0 DEF OwnWire
  <2>3. OthersOver' BY <1>0 DEF OthersOver, Over
  <2>4. \A u \in Transfers : RowKept(u) BY DEF RowKept, Asked
  <2>5. \A u \in Transfers : Flights(u)' /\ Stage(u)' BY <1>0, <2>4, RowKeeps DEF Attempts
  <2>6. \A u \in Transfers : Ordered(u)'
    BY SMTT(30), <1>0 DEF Attempts, Ordered, InOrder, WireOrder, InboxOrder, Told, Asked
  <2> QED BY <2>1, <2>2, <2>3, <2>5, <2>6 DEF FlightInv, Attempts
<1>2. ASSUME NEW t \in Transfers, Begin(t) \/ Break(t) \/ Client(t) PROVE FlightInv'
  <2>1. TypeOK' BY <1>0, <1>2, ClientTyped
  <2>2. \A u \in Transfers \ {t} : RowKept(u) BY <1>0, <1>2, ClientOthers
  <2>3. OwnWire' /\ (\A u \in Transfers : Ordered(u)') /\ FlightsStep(t)
    BY <1>2, ClientFlights
  <2>4. UNCHANGED cut /\ (UNCHANGED alone \/ Begin(t)) BY <1>2, ClientTalks
  <2>5. Attempts'
    <3> SUFFICES ASSUME NEW u \in Transfers PROVE Ordered(u)' /\ Flights(u)' /\ Stage(u)'
      BY DEF Attempts
    <3>1. CASE u = t BY <2>3, <3>1 DEF FlightsStep
    <3>2. CASE u # t
      BY <1>0, <2>2, <2>3, <2>4, <3>2, RowKeeps DEF Attempts
    <3> QED BY <3>1, <3>2
  <2>6. \A u \in Transfers \ {t} : Over(u) => Over(u)' BY <2>2, <2>4, RowKeeps
  <2>7. CASE Begin(t)
    <3>1. \A u \in alone' : u = t /\ \A v \in Transfers \ {t} : Over(v)
      BY <2>7 DEF Begin
    <3>2. OthersOver' BY <2>6, <3>1 DEF OthersOver
    <3> QED BY <2>1, <2>3, <2>5, <3>2 DEF FlightInv
  <2>8. CASE ~Begin(t)
    <3>1. Over(t) => Over(t)' BY <2>3, <2>8 DEF FlightsStep
    <3>2. OthersOver' BY <1>0, <2>4, <2>6, <2>8, <3>1 DEF OthersOver
    <3> QED BY <2>1, <2>3, <2>5, <3>2 DEF FlightInv
  <2> QED BY <2>7, <2>8
<1>3. ASSUME NEW s \in Sessions, Server(s) \/ Drop(s) PROVE FlightInv'
  <2>1. TypeOK' BY <1>0, <1>3, ServerTyped
  <2>2. OwnWire' /\ Attempts' BY <1>3, ServerFlights, DropFlights
  <2>3. UNCHANGED <<pc, late, alone>>
    BY <1>0, <1>3, ServerServes, DropTurns DEF clientVars
  <2>4. OthersOver' BY <1>0, <2>3 DEF OthersOver, Over
  <2> QED BY <2>1, <2>2, <2>4 DEF FlightInv
<1> QED BY <1>1, <1>2, <1>3 DEF Next, Finished

LEMMA FlightInit == Init => FlightInv
<1> SUFFICES ASSUME Init PROVE FlightInv OBVIOUS
<1>1. TypeOK BY InitTyped
<1>2. \A s \in Sessions : wire[s] = <<>> BY DEF Init
<1>3. \A t \in Transfers : inbox[t] = <<>> /\ SessionOf[t] \in Sessions
  BY SessionAssumption DEF Init
<1>4. OwnWire BY <1>2 DEF OwnWire
<1>5. \A t \in Transfers : \A o \in Ops : ~Asked(t, o) /\ ~Told(t, o)
  BY <1>2, <1>3 DEF Asked, Told
<1>6. \A t \in Transfers : \A a, b \in Ops : InOrder(t, a, b)
  BY <1>2, <1>3 DEF InOrder, WireOrder, InboxOrder, Told
<1>7. \A t \in Transfers : Ordered(t) BY <1>6 DEF Ordered, Ops, StreamOps
<1>8. \A t \in Transfers : Flights(t) BY <1>5 DEF Flights, Flying, Ops, StreamOps
<1>9. \A t \in Transfers : Stage(t) BY DEF Init, Stage
<1>10. OthersOver BY DEF Init, OthersOver
<1> QED BY <1>1, <1>4, <1>7, <1>8, <1>9, <1>10 DEF FlightInv, Attempts

(* An attempt that is over has nothing on its way that changes a file. *)
LEMMA OverIsQuiet ==
  ASSUME FlightInv, NEW t \in Transfers, Over(t), NEW o \in {"open", "write", "delete"}
  PROVE  ~Asked(t, o)
<1>1. Flights(t) /\ Stage(t) BY DEF FlightInv, Attempts
<1> QED BY <1>1 DEF Flights, Flying, Stage, Over

-----------------------------------------------------------------------------
(* What is in the file. *)

(* The attempt truncated the file at the path last. *)
Mine(t) == path # NoFile /\ disk[path].by = t
Empty == disk[path].data = <<>>
Holds(t, n) == Mine(t) /\ disk[path].data = [k \in 1..n |-> t]

(* Chunks of the attempt that the server has written. *)
Reached(t) == IF ToldOk(t, "write") THEN sent[t] + 1 ELSE sent[t]

Lost(t) == t \in cut => handle[t] = NoFile /\ \A op \in StreamOps : ~ToldOk(t, op)
Touched(t) == Mine(t) => t \in opened \/ ToldOk(t, "open") \/ t \in cut
Unwritten(t) == Mine(t) /\ (t \notin opened \/ late[t] # "none") => Empty
Cleaning(t) ==
  t \notin cut /\ t \notin kept /\ Mine(t) =>
    /\ ~(pc[t] = "failed" /\ late[t] \in {"none", "over"})
    /\ ~Told(t, "delete")
    /\ late[t] = "stat" =>
         \A i \in DOMAIN inbox[t] :
           inbox[t][i].op = "stat" => inbox[t][i].ok /\ inbox[t][i].size = 0
Streamed(t) ==
  /\ t \notin cut
  /\ pc[t] \in {"streaming", "finishing"}
  /\ t \in opened \/ ToldOk(t, "open")
  => /\ handle[t] \in {path, NoFile}
     /\ \E n \in Nat : n = Reached(t) /\ Holds(t, n)
Complete(t) == pc[t] \in {"verifying", "completed"} => Whole(t)

DataOf(t) ==
  /\ Lost(t) /\ Touched(t)
  /\ t \in alone => Unwritten(t) /\ Cleaning(t) /\ Streamed(t) /\ Complete(t)

DataInv == FlightInv /\ \A t \in Transfers : DataOf(t)

LEMMA RowKeepsData ==
  ASSUME NEW u \in Transfers, RowKept(u), UNCHANGED <<path, disk, handle, cut, kept>>,
         u \in alone' => u \in alone, DataOf(u)
  PROVE  DataOf(u)'
<1>1. \A o : ToldOk(u, o)' <=> ToldOk(u, o) BY DEF ToldOk, RowKept
<1>2. \A o : Told(u, o)' <=> Told(u, o) BY DEF Told, RowKept
<1>3. (Mine(u)' <=> Mine(u)) /\ (Empty' <=> Empty) BY DEF Mine, Empty
<1>4. \A n : Holds(u, n)' <=> Holds(u, n) BY <1>3 DEF Holds
<1>5. Whole(u)' <=> Whole(u) BY DEF Whole
<1>6. Reached(u)' = Reached(u) BY <1>1 DEF Reached, RowKept
<1>7. Lost(u)' /\ Touched(u)' BY <1>1, <1>3 DEF DataOf, Lost, Touched, RowKept
<1>8. CASE u \in alone'
  <2>1. Unwritten(u) /\ Cleaning(u) /\ Streamed(u) /\ Complete(u) BY <1>8 DEF DataOf
  <2>2. Unwritten(u)' BY <1>3, <2>1 DEF Unwritten, RowKept
  <2>3. Cleaning(u)' BY <1>2, <1>3, <2>1 DEF Cleaning, RowKept
  <2>4. Streamed(u)' BY <1>1, <1>4, <1>6, <2>1 DEF Streamed, RowKept
  <2>5. Complete(u)' BY <1>5, <2>1 DEF Complete, RowKept
  <2> QED BY <1>7, <2>2, <2>3, <2>4, <2>5 DEF DataOf
<1> QED BY <1>7, <1>8 DEF DataOf

(* An answer received is the only one of its kind. *)
LEMMA ReceiveOnly ==
  ASSUME TypeOK, Attempts, NEW t \in Transfers, NEW op \in Ops, Receive(t, op)
  PROVE  /\ ToldOk(t, op) <=> Ok(t)
         /\ ~ToldOk(t, op)'
         /\ \A o \in Ops \ {op} : ToldOk(t, o)' <=> ToldOk(t, o)
         /\ \A i \in DOMAIN inbox'[t] : \E j \in DOMAIN inbox[t] : inbox'[t][i] = inbox[t][j]
         /\ op = "close" => ~ToldOk(t, "write")
<1>1. InboxOrder(t, op, op) BY DEF Attempts, Ordered, InOrder
<1>2. inbox[t] \in Seq(Answers) /\ inbox[t] # <<>> BY DEF TypeOK, Receive
<1>3. 1 \in DOMAIN inbox[t] /\ Head(inbox[t]) = inbox[t][1] /\ inbox[t][1].op = op
  BY <1>2 DEF Receive
<1>4. \A i \in DOMAIN inbox[t] : inbox[t][i].op = op => i = 1
  <2>1. \A i \in DOMAIN inbox[t] : i \in Nat /\ 1 <= i BY <1>2
  <2>2. \A i \in DOMAIN inbox[t] : inbox[t][i].op = op => i <= 1 BY <1>1, <1>3 DEF InboxOrder
  <2> QED BY <2>1, <2>2
<1>5. ToldOk(t, op) <=> Ok(t) BY <1>3, <1>4 DEF ToldOk, Ok
<1>6. ~Told(t, op)' BY ReceiveLands
<1>7. ~ToldOk(t, op)' BY <1>6 DEF ToldOk, Told
<1>8. \A o \in Ops \ {op} : ToldOk(t, o)' <=> ToldOk(t, o) BY ReceiveOrders
<1>9. \A i \in DOMAIN inbox'[t] : \E j \in DOMAIN inbox[t] : inbox'[t][i] = inbox[t][j]
  BY ReceiveOrders
<1>10. op = "close" => ~ToldOk(t, "write")
  <2> SUFFICES ASSUME op = "close" PROVE ~ToldOk(t, "write") OBVIOUS
  <2>1. ~Told(t, "write")' BY ReceiveLands
  <2>2. ~ToldOk(t, "write")' BY <2>1 DEF ToldOk, Told
  <2> QED BY <1>8, <2>2 DEF Ops, StreamOps
<1> QED BY <1>5, <1>7, <1>8, <1>9, <1>10

LEMMA ClientData ==
  ASSUME DataInv, NEW t \in Transfers, Begin(t) \/ Break(t) \/ Client(t)
  PROVE  DataOf(t)'
<1> USE DEF Ops, StreamOps, Go, GoLate, streamVars
<1>0. FlightInv /\ TypeOK /\ OwnWire /\ Attempts BY DEF DataInv, FlightInv
<1>a. Flights(t) /\ Stage(t) /\ DataOf(t) BY <1>0 DEF DataInv, Attempts
<1>b. UNCHANGED <<path, disk, handle, cut, drops, kept>> /\ (UNCHANGED alone \/ Begin(t))
  BY ClientTalks
<1>c. ASSUME UNCHANGED inbox
      PROVE  \A o \in Ops : (ToldOk(t, o)' <=> ToldOk(t, o)) /\ (Told(t, o)' <=> Told(t, o))
  BY <1>c DEF ToldOk, Told
<1>m. (Mine(t)' <=> Mine(t)) /\ (Empty' <=> Empty) BY <1>b DEF Mine, Empty
<1>h. \A n : Holds(t, n)' <=> Holds(t, n) BY <1>b, <1>m DEF Holds
<1>w. Whole(t)' <=> Whole(t) BY <1>b DEF Whole
<1>n. \A o \in Ops : ToldOk(t, o) => Told(t, o) BY DEF ToldOk, Told
<1>o. t \notin opening /\ Mine(t) => t \in opened \/ t \in cut
  BY <1>a, <1>n DEF DataOf, Touched, Flights, Flying
<1>p. t \in alone => Unwritten(t) /\ Cleaning(t) /\ Streamed(t) /\ Complete(t)
  BY <1>a DEF DataOf
<1>l. Lost(t)'
  <2>1. \A o \in Ops : ToldOk(t, o)' => ToldOk(t, o)
    <3>1. CASE UNCHANGED inbox BY <1>c, <3>1
    <3>2. CASE \E o \in Ops : Receive(t, o) BY <1>0, <3>2, ReceiveOrders
    <3> QED BY <3>1, <3>2, ClientTalks
  <2> QED BY <1>a, <1>b, <2>1 DEF DataOf, Lost
<1>1. CASE Begin(t)
  <2>1. UNCHANGED <<inbox, sent, opened, late>> /\ pc[t] = "new" /\ pc' = [pc EXCEPT ![t] = "streaming"]
    BY <1>1 DEF Begin, serverVars
  <2>2. t \notin opened /\ ~ToldOk(t, "open") /\ t \notin cut /\ late[t] = "none"
    BY <1>0, <1>a, <1>n, <2>1 DEF Stage, Flights, Flying, TypeOK
  <2>3. ~Mine(t) BY <1>a, <2>2 DEF DataOf, Touched
  <2>4. Touched(t)' /\ Unwritten(t)' /\ Cleaning(t)'
    BY <1>m, <2>3 DEF Touched, Unwritten, Cleaning
  <2>5. Streamed(t)' BY <1>c, <2>1, <2>2 DEF Streamed
  <2>6. Complete(t)' BY <1>0, <2>1 DEF Complete, TypeOK
  <2> QED BY <1>l, <2>4, <2>5, <2>6 DEF DataOf
<1>2. CASE Break(t)
  <2>1. UNCHANGED <<inbox, opened, late, alone>> BY <1>2 DEF Break
  <2>2. late[t] = "none" /\ pc'[t] \in {"tearing", "settling"}
    BY <1>0, <1>2, <1>a DEF Break, Destroy, Stage, TypeOK
  <2>3. Touched(t)' BY <1>a, <1>b, <1>c, <1>m, <2>1 DEF DataOf, Touched
  <2>4. t \in alone => Unwritten(t)' /\ Cleaning(t)' /\ Streamed(t)' /\ Complete(t)'
    BY <1>b, <1>c, <1>m, <1>p, <2>1, <2>2 DEF Unwritten, Cleaning, Streamed, Complete
  <2> QED BY <1>l, <2>1, <2>3, <2>4 DEF DataOf
<1>3. CASE Write(t) \/ Final(t)
  <2>1. UNCHANGED <<inbox, opened, late, sent, alone>> BY <1>3 DEF Write, Final
  <2>2. late[t] = "none" /\ pc[t] = "streaming" /\ pc'[t] \in {"streaming", "finishing"}
    BY <1>0, <1>3, <1>a DEF Write, Final, Streaming, Stage, TypeOK
  <2>3. Touched(t)' BY <1>a, <1>b, <1>c, <1>m, <2>1 DEF DataOf, Touched
  <2>4. Reached(t)' = Reached(t) BY <1>c, <2>1 DEF Reached
  <2>5. t \in alone => Streamed(t)' BY <1>b, <1>c, <1>h, <1>p, <2>1, <2>2, <2>4 DEF Streamed
  <2>6. t \in alone => Unwritten(t)' /\ Cleaning(t)' /\ Complete(t)'
    BY <1>b, <1>c, <1>m, <1>p, <2>1, <2>2 DEF Unwritten, Cleaning, Complete
  <2> QED BY <1>l, <2>1, <2>3, <2>5, <2>6 DEF DataOf
<1>4. CASE OpenAnswered(t)
  <2>1. /\ Receive(t, "open") /\ Ok(t) /\ opened' = opened \cup {t}
        /\ UNCHANGED <<pc, sent, late, alone>>
    BY <1>4 DEF OpenAnswered
  <2>2. /\ ToldOk(t, "open")
        /\ ToldOk(t, "write")' <=> ToldOk(t, "write")
        /\ \A i \in DOMAIN inbox'[t] : \E j \in DOMAIN inbox[t] : inbox'[t][i] = inbox[t][j]
    BY <1>0, <2>1, ReceiveOnly
  <2>3. Told(t, "delete")' => Told(t, "delete") BY <1>0, <2>1, ReceiveLands
  <2>4. t \notin opened BY <1>a, <1>n, <2>2 DEF Flights, Flying
  <2>5. Touched(t)' BY <2>1 DEF Touched
  <2>6. Reached(t)' = Reached(t) BY <2>1, <2>2 DEF Reached
  <2>7. t \in alone => Streamed(t)' BY <1>b, <1>h, <1>p, <2>1, <2>2, <2>6 DEF Streamed
  <2>8. t \in alone => Unwritten(t)' BY <1>m, <1>p, <2>1, <2>4 DEF Unwritten
  <2>9. t \in alone => Cleaning(t)' BY <1>b, <1>m, <1>p, <2>1, <2>2, <2>3 DEF Cleaning
  <2>10. t \in alone => Complete(t)' BY <1>p, <1>w, <2>1 DEF Complete
  <2> QED BY <1>l, <2>1, <2>5, <2>7, <2>8, <2>9, <2>10 DEF DataOf
<1>5. CASE OpenFailed(t)
  <2>1. /\ Receive(t, "open") /\ ~Ok(t) /\ UNCHANGED <<opened, sent, late, alone>>
        /\ \/ t \in closed /\ UNCHANGED pc
           \/ t \notin closed /\ pc'[t] \in {"tearing", "settling"}
    BY <1>0, <1>5 DEF OpenFailed, Destroy, TypeOK
  <2>2. /\ ~ToldOk(t, "open")
        /\ \A i \in DOMAIN inbox'[t] : \E j \in DOMAIN inbox[t] : inbox'[t][i] = inbox[t][j]
    BY <1>0, <2>1, ReceiveOnly
  <2>3. Told(t, "delete")' => Told(t, "delete") BY <1>0, <2>1, ReceiveLands
  <2>4. Touched(t)' BY <1>a, <1>b, <1>m, <2>1, <2>2 DEF DataOf, Touched
  <2>5. t \in alone => Unwritten(t)' BY <1>m, <1>p, <2>1 DEF Unwritten
  <2>6. t \in alone => Cleaning(t)' BY <1>b, <1>m, <1>p, <2>1, <2>2, <2>3 DEF Cleaning
  <2>7. Streamed(t)' BY <1>a, <2>1 DEF Streamed, Stage
  <2>8. t \in alone => Complete(t)' BY <1>p, <1>w, <2>1 DEF Complete
  <2> QED BY <1>l, <2>1, <2>4, <2>5, <2>6, <2>7, <2>8 DEF DataOf
<1>6. CASE WriteAnswered(t)
  <2>1. /\ Receive(t, "write") /\ UNCHANGED <<opened, late, alone>>
        /\ \/ t \in closed /\ UNCHANGED <<pc, sent>>
           \/ t \notin closed /\ Ok(t) /\ UNCHANGED pc /\ sent' = [sent EXCEPT ![t] = @ + 1]
           \/ t \notin closed /\ pc'[t] \in {"tearing", "settling"}
    BY <1>0, <1>6 DEF WriteAnswered, Destroy, TypeOK
  <2>2. /\ ToldOk(t, "write") <=> Ok(t)
        /\ ~ToldOk(t, "write")'
        /\ ToldOk(t, "open")' <=> ToldOk(t, "open")
        /\ \A i \in DOMAIN inbox'[t] : \E j \in DOMAIN inbox[t] : inbox'[t][i] = inbox[t][j]
    BY <1>0, <2>1, ReceiveOnly
  <2>3. Told(t, "delete")' => Told(t, "delete") BY <1>0, <2>1, ReceiveLands
  <2>4. Touched(t)' BY <1>a, <1>b, <1>m, <2>1, <2>2 DEF DataOf, Touched
  <2>5. t \in alone => Unwritten(t)' BY <1>m, <1>p, <2>1 DEF Unwritten
  <2>6. t \in alone => Cleaning(t)' BY <1>b, <1>m, <1>p, <2>1, <2>2, <2>3 DEF Cleaning
  <2>7. t \in alone => Streamed(t)'
    <3>1. CASE t \notin closed /\ Ok(t) /\ UNCHANGED pc /\ sent' = [sent EXCEPT ![t] = @ + 1]
      <4>1. Reached(t)' = Reached(t) BY <1>0, <2>2, <3>1 DEF Reached, TypeOK
      <4> QED BY <1>b, <1>h, <1>p, <2>1, <2>2, <3>1, <4>1 DEF Streamed
    <3>2. CASE ~(t \notin closed /\ Ok(t) /\ UNCHANGED pc /\ sent' = [sent EXCEPT ![t] = @ + 1])
      BY <1>a, <2>1, <3>2 DEF Streamed, Stage
    <3> QED BY <3>1, <3>2
  <2>8. t \in alone => Complete(t)' BY <1>p, <1>w, <2>1 DEF Complete
  <2> QED BY <1>l, <2>1, <2>4, <2>5, <2>6, <2>7, <2>8 DEF DataOf
<1>7. CASE CloseAnswered(t)
  <2>1. /\ Receive(t, "close") /\ UNCHANGED <<opened, sent, late, alone>>
        /\ \/ UNCHANGED pc
           \/ pc'[t] = "settling"
           \/ /\ t \notin closed /\ Ok(t) /\ sent[t] = Size[t]
              /\ pc'[t] = "verifying"
    BY <1>0, <1>7 DEF CloseAnswered, TypeOK
  <2>2. /\ ToldOk(t, "close") <=> Ok(t)
        /\ ~ToldOk(t, "write")
        /\ \A o \in Ops \ {"close"} : ToldOk(t, o)' <=> ToldOk(t, o)
        /\ \A i \in DOMAIN inbox'[t] : \E j \in DOMAIN inbox[t] : inbox'[t][i] = inbox[t][j]
    BY <1>0, <2>1, ReceiveOnly
  <2>3. Told(t, "close") /\ (Told(t, "delete")' => Told(t, "delete"))
    BY <1>0, <2>1, ReceiveLands
  <2>4. Touched(t)' BY <1>a, <1>b, <1>m, <2>1, <2>2 DEF DataOf, Touched
  <2>5. t \in alone => Unwritten(t)' BY <1>m, <1>p, <2>1 DEF Unwritten
  <2>6. t \in alone => Cleaning(t)' BY <1>b, <1>m, <1>p, <2>1, <2>2, <2>3 DEF Cleaning
  <2>7. Reached(t)' = Reached(t) BY <2>1, <2>2 DEF Reached
  <2>8. t \in alone => Streamed(t)' BY <1>b, <1>h, <1>p, <2>1, <2>2, <2>7 DEF Streamed
  <2>9. t \in alone => Complete(t)'
    <3>1. CASE t \in alone /\ t \notin closed /\ Ok(t) /\ sent[t] = Size[t]
      <4>1. t \notin cut BY <1>a, <2>2, <3>1 DEF DataOf, Lost
      <4>2. t \in opened /\ pc[t] = "finishing"
        BY <1>a, <2>3, <3>1 DEF Flights, Flying, Stage
      <4>3. Holds(t, Size[t]) BY <1>p, <2>2, <3>1, <4>1, <4>2 DEF Streamed, Reached
      <4>4. path \in Files /\ disk[path] \in Contents
        BY <1>0, <4>3 DEF Holds, Mine, TypeOK
      <4>5. Whole(t) BY <4>3, <4>4 DEF Holds, Mine, Whole, Contents
      <4> QED BY <1>w, <4>5 DEF Complete
    <3>2. CASE ~(t \in alone /\ t \notin closed /\ Ok(t) /\ sent[t] = Size[t])
      BY <1>p, <1>w, <2>1, <3>2 DEF Complete
    <3> QED BY <3>1, <3>2
  <2> QED BY <1>l, <2>1, <2>4, <2>5, <2>6, <2>8, <2>9 DEF DataOf
<1>8. CASE Verified(t)
  <2>1. /\ Receive(t, "stat") /\ UNCHANGED <<opened, sent, late, alone>>
        /\ pc[t] = "verifying" /\ pc'[t] \in {"completed", "settling"}
    BY <1>0, <1>8 DEF Verified, TypeOK
  <2>2. /\ \A o \in Ops \ {"stat"} : ToldOk(t, o)' <=> ToldOk(t, o)
        /\ \A i \in DOMAIN inbox'[t] : \E j \in DOMAIN inbox[t] : inbox'[t][i] = inbox[t][j]
    BY <1>0, <2>1, ReceiveOnly
  <2>3. Told(t, "delete")' => Told(t, "delete") BY <1>0, <2>1, ReceiveLands
  <2>4. Touched(t)' BY <1>a, <1>b, <1>m, <2>1, <2>2 DEF DataOf, Touched
  <2>5. t \in alone => Unwritten(t)' BY <1>m, <1>p, <2>1 DEF Unwritten
  <2>6. t \in alone => Cleaning(t)' BY <1>b, <1>m, <1>p, <2>1, <2>2, <2>3 DEF Cleaning
  <2>7. Streamed(t)' BY <2>1 DEF Streamed
  <2>8. t \in alone => Complete(t)' BY <1>p, <1>w, <2>1 DEF Complete
  <2> QED BY <1>l, <2>1, <2>4, <2>5, <2>6, <2>7, <2>8 DEF DataOf
<1>9. CASE Settled(t) \/ SettleTimesOut(t)
  <2>1. /\ UNCHANGED <<inbox, opened, sent, alone>> /\ pc[t] = "settling" /\ late[t] = "none"
    BY <1>9, <1>a DEF Settled, SettleTimesOut, Stage
  <2>2. \/ t \in opened /\ pc'[t] = "deleting" /\ UNCHANGED late
        \/ t \notin opened /\ t \notin opening /\ pc'[t] = "failed" /\ UNCHANGED late
        \/ t \notin opened /\ t \in opening /\ pc'[t] = "failed" /\ late'[t] = "waiting"
    BY <1>0, <1>9 DEF Settled, SettleTimesOut, CleanUp, TypeOK
  <2>3. Touched(t)' BY <1>a, <1>b, <1>c, <1>m, <2>1 DEF DataOf, Touched
  <2>4. t \in alone => Unwritten(t)' BY <1>m, <1>p, <2>1, <2>2 DEF Unwritten
  <2>5. t \in alone => Cleaning(t)' BY <1>b, <1>c, <1>m, <1>o, <1>p, <2>1, <2>2 DEF Cleaning
  <2>6. Streamed(t)' /\ Complete(t)' BY <2>2 DEF Streamed, Complete
  <2> QED BY <1>l, <2>1, <2>3, <2>4, <2>5, <2>6 DEF DataOf
<1>10. CASE LateSettled(t)
  <2>1. /\ UNCHANGED <<inbox, opened, sent, alone, pc>> /\ t \notin opening
        /\ late[t] = "waiting" /\ pc[t] = "failed"
    BY <1>10, <1>a DEF LateSettled, Stage
  <2>2. \/ t \in opened /\ late'[t] = "stat"
        \/ t \notin opened /\ late'[t] = "over"
    BY <1>0, <1>10 DEF LateSettled, TypeOK
  <2>3. ~Told(t, "stat") BY <1>a, <2>1 DEF Flights, Flying
  <2>4. \A i \in DOMAIN inbox'[t] : inbox'[t][i].op # "stat" BY <2>1, <2>3 DEF Told
  <2>5. Touched(t)' BY <1>a, <1>b, <1>c, <1>m, <2>1 DEF DataOf, Touched
  <2>6. t \in alone => Unwritten(t)' BY <1>m, <1>p, <2>1 DEF Unwritten
  <2>7. t \in alone => Cleaning(t)'
    BY <1>b, <1>c, <1>m, <1>o, <1>p, <2>1, <2>2, <2>4 DEF Cleaning
  <2>8. Streamed(t)' /\ Complete(t)' BY <2>1 DEF Streamed, Complete
  <2> QED BY <1>l, <2>1, <2>5, <2>6, <2>7, <2>8 DEF DataOf
<1>11. CASE LateStat(t)
  <2>1. /\ Receive(t, "stat") /\ UNCHANGED <<opened, sent, alone, pc>>
        /\ late[t] = "stat" /\ pc[t] = "failed"
    BY <1>11, <1>a DEF LateStat, Stage
  <2>2. \/ late'[t] = "deleting"
        \/ late'[t] = "over" /\ ~(Ok(t) /\ Head(inbox[t]).size = 0)
    BY <1>0, <1>11 DEF LateStat, TypeOK
  <2>3. /\ \A o \in Ops \ {"stat"} : ToldOk(t, o)' <=> ToldOk(t, o)
    BY <1>0, <2>1, ReceiveOnly
  <2>4. Told(t, "delete")' => Told(t, "delete") BY <1>0, <2>1, ReceiveLands
  <2>5. Touched(t)' BY <1>a, <1>b, <1>m, <2>1, <2>3 DEF DataOf, Touched
  <2>6. t \in alone => Unwritten(t)' BY <1>m, <1>p, <2>1 DEF Unwritten
  <2>7. t \in alone => Cleaning(t)'
    <3>1. inbox[t] \in Seq(Answers) /\ inbox[t] # <<>> BY <1>0, <2>1 DEF Receive, TypeOK
    <3>2. 1 \in DOMAIN inbox[t] /\ Head(inbox[t]) = inbox[t][1] BY <3>1
    <3>3. t \in alone /\ t \notin cut /\ t \notin kept /\ Mine(t) =>
            Ok(t) /\ Head(inbox[t]).size = 0
      BY <1>p, <2>1, <3>2 DEF Cleaning, Receive, Ok
    <3> QED BY <1>b, <1>m, <1>p, <2>1, <2>2, <2>4, <3>3 DEF Cleaning
  <2>8. Streamed(t)' /\ Complete(t)' BY <2>1 DEF Streamed, Complete
  <2> QED BY <1>l, <2>1, <2>5, <2>6, <2>7, <2>8 DEF DataOf
<1>12. CASE Deleted(t)
  <2>1. /\ Receive(t, "delete") /\ UNCHANGED <<opened, sent, alone>>
        /\ \/ pc[t] = "deleting" /\ pc'[t] = "failed" /\ UNCHANGED late
           \/ late[t] = "deleting" /\ late'[t] = "over" /\ UNCHANGED pc
    BY <1>0, <1>12 DEF Deleted, TypeOK
  <2>2. \A o \in Ops \ {"delete"} : ToldOk(t, o)' <=> ToldOk(t, o)
    BY <1>0, <2>1, ReceiveOnly
  <2>3. Told(t, "delete") BY <1>0, <2>1, ReceiveLands
  <2>4. Touched(t)' BY <1>a, <1>b, <1>m, <2>1, <2>2 DEF DataOf, Touched
  <2>5. t \in alone => Unwritten(t)' BY <1>a, <1>m, <1>p, <2>1 DEF Unwritten, Stage
  <2>6. t \in alone => Cleaning(t)' BY <1>b, <1>m, <1>p, <2>3 DEF Cleaning
  <2>7. Streamed(t)' /\ Complete(t)' BY <1>a, <2>1 DEF Streamed, Complete, Stage
  <2> QED BY <1>l, <2>1, <2>4, <2>5, <2>6, <2>7 DEF DataOf
<1> QED BY <1>1, <1>2, <1>3, <1>4, <1>5, <1>6, <1>7, <1>8, <1>9, <1>10,
           <1>11, <1>12 DEF Client

(* Opening truncates the file, and the attempt is the only one at it. *)
LEMMA OpenData ==
  ASSUME DataInv, NEW s \in Sessions, ServeOpen(s)
  PROVE  \A v \in Transfers : DataOf(v)'
<1>0. FlightInv /\ TypeOK /\ OwnWire /\ Attempts /\ OthersOver BY DEF DataInv, FlightInv
<1>1. PICK t \in Transfers : t = First(s).by
  BY <1>0, ServeTyped DEF ServeOpen, Ops, StreamOps
<1>2. /\ Serve(s, "open", TRUE, 0) /\ t \notin cut
      /\ UNCHANGED <<cut, pc, opened, late, sent, kept, alone>>
  BY <1>1 DEF ServeOpen, clientVars, streamVars
<1>3. /\ Asked(t, "open")
      /\ \A v \in Transfers : \A o \in Ops : Told(v, o)' <=> Told(v, o) \/ (v = t /\ o = "open")
      /\ \A v \in Transfers : \A o \in Ops :
           ToldOk(v, o)' <=> ToldOk(v, o) \/ (v = t /\ o = "open")
  <2>0. "open" \in Ops /\ TRUE \in BOOLEAN /\ 0 \in Nat BY DEF Ops, StreamOps
  <2>1. Asked(t, "open") BY <1>0, <1>1, <1>2, <2>0, ServeOrders
  <2>a. PICK op \in Ops, ok \in BOOLEAN, size \in Nat :
          op = "open" /\ ok = TRUE /\ Serve(s, op, ok, size)
    BY <1>2, <2>0
  <2>b. Serve(s, op, ok, size) BY <2>a
  <2>2. \A v \in Transfers : \A o \in Ops : Told(v, o)' <=> Told(v, o) \/ (v = t /\ o = op)
    BY <1>0, <1>1, <2>b, ServeAnswers
  <2>3. \A v \in Transfers : \A o \in Ops :
          ToldOk(v, o)' <=> ToldOk(v, o) \/ (v = t /\ o = op /\ ok)
    BY <1>0, <1>1, <2>b, ServeAnswers
  <2> QED BY <2>1, <2>2, <2>3, <2>a
<1>4. PICK f \in Files : /\ path' = f
                         /\ disk' = [disk EXCEPT ![f] = [by |-> t, data |-> <<>>]]
                         /\ handle' = [handle EXCEPT ![t] = f]
  BY <1>0, <1>1 DEF ServeOpen, TypeOK, Files
<1>5. path' \in Files /\ disk'[path'].by = t /\ disk'[path'].data = <<>> /\ handle'[t] = path'
  BY <1>0, <1>4 DEF TypeOK
<1>6. path' # NoFile BY <1>5, NamesDiffer DEF Files
<1>7. Flights(t) /\ Stage(t) BY <1>0 DEF Attempts
<1>8. /\ t \notin opened /\ ~Told(t, "write") /\ ~Told(t, "delete") /\ late[t] # "stat"
      /\ pc[t] \in {"streaming", "finishing", "settling"} \/ late[t] = "waiting"
      /\ pc[t] \notin {"verifying", "completed"} /\ sent[t] = 0
  BY <1>3, <1>7 DEF Flights, Flying, Stage
<1>9. ASSUME NEW v \in Transfers \ {t} PROVE DataOf(v)'
  <2>1. ~Mine(v)' BY <1>5 DEF Mine
  <2>2. v \notin alone
    BY <1>0, <1>3, OverIsQuiet DEF OthersOver
  <2>3. Lost(v) /\ handle'[v] = handle[v] BY <1>0, <1>4 DEF DataInv, DataOf, TypeOK
  <2>4. Lost(v)' BY <1>2, <1>3, <2>3 DEF Lost, Ops, StreamOps
  <2>5. Touched(v)' BY <2>1 DEF Touched
  <2> QED BY <1>2, <2>2, <2>4, <2>5 DEF DataOf
<1>10. DataOf(t)'
  <2>1. Lost(t)' BY <1>2 DEF Lost
  <2>2. ToldOk(t, "open")' BY <1>3 DEF Ops, StreamOps
  <2>3. Touched(t)' BY <2>2 DEF Touched
  <2>4. Unwritten(t)' BY <1>5 DEF Unwritten, Empty
  <2>5. ~Told(t, "delete")' BY <1>3, <1>8 DEF Ops, StreamOps
  <2>6. Cleaning(t)' BY <1>2, <1>7, <1>8, <2>5 DEF Cleaning, Stage
  <2>7. ~ToldOk(t, "write")' BY <1>3, <1>8 DEF Told, ToldOk, Ops, StreamOps
  <2>8. Reached(t)' = 0 BY <1>2, <1>8, <2>7 DEF Reached
  <2>9. Holds(t, 0)'
    <3>1. [k \in 1..0 |-> t] = <<>> OBVIOUS
    <3> QED BY <1>5, <1>6, <3>1 DEF Holds, Mine
  <2>10. Streamed(t)' BY <1>5, <2>8, <2>9 DEF Streamed
  <2>11. Complete(t)' BY <1>2, <1>8 DEF Complete
  <2> QED BY <2>1, <2>3, <2>4, <2>6, <2>10, <2>11 DEF DataOf
<1> QED BY <1>9, <1>10

(* One more chunk, after those written so far. *)
LEMMA WrittenNext ==
  ASSUME NEW t, NEW n \in Nat, NEW data, data = [k \in 1..n |-> t]
  PROVE  Written(data, n, t) = [k \in 1..(n + 1) |-> t]
<1>1. data \in Seq({t}) /\ Len(data) = n OBVIOUS
<1>2. Written(data, n, t) =
        [k \in 1..(n + 1) |-> IF k = n + 1 THEN t ELSE IF k <= n THEN data[k] ELSE Hole]
  BY <1>1 DEF Written
<1>3. \A k \in 1..(n + 1) : k # n + 1 => k <= n /\ data[k] = t OBVIOUS
<1> QED BY <1>2, <1>3

(* A chunk written extends the file of the attempt, and no other. *)
LEMMA WriteData ==
  ASSUME DataInv, NEW s \in Sessions, ServeWrite(s)
  PROVE  \A v \in Transfers : DataOf(v)'
<1>0. FlightInv /\ TypeOK /\ OwnWire /\ Attempts /\ OthersOver BY DEF DataInv, FlightInv
<1>1. PICK t \in Transfers : t = First(s).by
  BY <1>0, ServeTyped DEF ServeWrite, Ops, StreamOps
<1>2. /\ Serve(s, "write", TRUE, 0) /\ handle[t] # NoFile
      /\ disk' = [disk EXCEPT ![handle[t]].data = Written(@, sent[t], t)]
      /\ UNCHANGED <<path, handle, cut, pc, opened, late, sent, kept, alone>>
  BY <1>1 DEF ServeWrite, clientVars, streamVars
<1>3. /\ Asked(t, "write")
      /\ \A v \in Transfers : \A o \in Ops : Told(v, o)' <=> Told(v, o) \/ (v = t /\ o = "write")
      /\ \A v \in Transfers : \A o \in Ops :
           ToldOk(v, o)' <=> ToldOk(v, o) \/ (v = t /\ o = "write")
  <2>0. "write" \in Ops /\ TRUE \in BOOLEAN /\ 0 \in Nat BY DEF Ops, StreamOps
  <2>1. Asked(t, "write") BY <1>0, <1>1, <1>2, <2>0, ServeOrders
  <2>a. PICK op \in Ops, ok \in BOOLEAN, size \in Nat :
          op = "write" /\ ok = TRUE /\ Serve(s, op, ok, size)
    BY <1>2, <2>0
  <2>b. Serve(s, op, ok, size) BY <2>a
  <2>2. \A v \in Transfers : \A o \in Ops : Told(v, o)' <=> Told(v, o) \/ (v = t /\ o = op)
    BY <1>0, <1>1, <2>b, ServeAnswers
  <2>3. \A v \in Transfers : \A o \in Ops :
          ToldOk(v, o)' <=> ToldOk(v, o) \/ (v = t /\ o = op /\ ok)
    BY <1>0, <1>1, <2>b, ServeAnswers
  <2> QED BY <2>1, <2>2, <2>3, <2>a
<1>4. Flights(t) /\ Stage(t) BY <1>0 DEF Attempts
<1>5. ~Told(t, "write")
  BY <1>0, <1>3 DEF Attempts, Ordered, InOrder, Ops, StreamOps
<1>6. /\ t \in opened /\ late[t] = "none" /\ pc[t] \notin {"failed", "verifying", "completed"}
  BY <1>3, <1>4 DEF Flights, Flying, Stage
<1>7. handle[t] \in Files BY <1>0, <1>2 DEF TypeOK
<1>8. \A v \in Transfers : Mine(v)' <=> Mine(v)
  <2>1. path \in Files => disk'[path].by = disk[path].by
    BY <1>0, <1>2, <1>7 DEF TypeOK, Contents
  <2> QED BY <1>0, <1>2, <2>1 DEF Mine, TypeOK
<1>9. t \notin cut BY <1>2 DEF DataInv, DataOf, Lost
<1>10. ASSUME NEW v \in Transfers PROVE Lost(v)' /\ Touched(v)'
  <2>1. Lost(v) /\ Touched(v) BY DEF DataInv, DataOf
  <2>2. Lost(v)' BY <1>2, <1>3, <1>9, <2>1 DEF Lost, Ops, StreamOps
  <2>3. Touched(v)' BY <1>2, <1>3, <1>8, <2>1 DEF Touched, Ops, StreamOps
  <2> QED BY <2>2, <2>3
<1>11. \A v \in alone : v = t
  BY <1>0, <1>3, OverIsQuiet DEF OthersOver
<1>12. ASSUME t \in alone
       PROVE  Unwritten(t)' /\ Cleaning(t)' /\ Streamed(t)' /\ Complete(t)'
  <2>1. Cleaning(t) /\ Streamed(t) BY <1>12 DEF DataInv, DataOf
  <2>2. Unwritten(t)' /\ Complete(t)' BY <1>2, <1>6 DEF Unwritten, Complete
  <2>3. Told(t, "delete")' <=> Told(t, "delete") BY <1>3 DEF Ops, StreamOps
  <2>4. Cleaning(t)' BY <1>2, <1>6, <1>8, <2>1, <2>3 DEF Cleaning
  <2>5. ASSUME pc[t] \in {"streaming", "finishing"} PROVE Streamed(t)'
    <3>1. Reached(t) = sent[t] BY <1>5 DEF Reached, Told, ToldOk
    <3>2. Reached(t)' = sent[t] + 1 BY <1>2, <1>3 DEF Reached, Ops, StreamOps
    <3>3. handle[t] = path /\ Holds(t, sent[t])
      BY <1>2, <1>6, <1>9, <2>1, <2>5, <3>1 DEF Streamed
    <3>4. sent[t] \in Nat BY <1>0 DEF TypeOK
    <3>5. Written(disk[path].data, sent[t], t) = [k \in 1..(sent[t] + 1) |-> t]
      BY <3>3, <3>4, WrittenNext DEF Holds
    <3>6. disk'[path].data = Written(disk[path].data, sent[t], t)
      BY <1>0, <1>2, <1>7, <3>3 DEF TypeOK, Contents
    <3>7. Holds(t, sent[t] + 1)' BY <1>2, <1>8, <3>3, <3>5, <3>6 DEF Holds
    <3> QED BY <1>2, <3>2, <3>3, <3>4, <3>7 DEF Streamed
  <2>6. Streamed(t)' BY <1>2, <2>5 DEF Streamed
  <2> QED BY <2>2, <2>4, <2>6
<1> QED BY <1>2, <1>10, <1>11, <1>12 DEF DataOf

(* Serving what changes no file, handles apart. *)
LEMMA ServeLeaves ==
  ASSUME DataInv, NEW s \in Sessions, NEW op \in Ops, NEW ok \in BOOLEAN, NEW size \in Nat,
         Serve(s, op, ok, size), NEW t \in Transfers, t = First(s).by,
         UNCHANGED <<path, disk, cut, pc, opened, late, sent, alone>>,
         kept \subseteq kept',
         \A v \in Transfers : handle'[v] = handle[v] \/ handle'[v] = NoFile,
         ok => op \notin {"open", "write"},
         ok /\ op \in StreamOps => t \notin cut,
         op = "delete" => t \in kept',
         op = "stat" /\ t \notin kept' => ok /\ size = Len(disk[path].data)
  PROVE  \A v \in Transfers : DataOf(v)'
<1>0. FlightInv /\ TypeOK /\ OwnWire /\ Attempts BY DEF DataInv, FlightInv
<1>1. \A v \in Transfers : \A o \in Ops : Told(v, o)' <=> Told(v, o) \/ (v = t /\ o = op)
  BY <1>0, ServeAnswers
<1>2. \A v \in Transfers : \A o \in Ops :
        ToldOk(v, o)' <=> ToldOk(v, o) \/ (v = t /\ o = op /\ ok)
  BY <1>0, ServeAnswers
<1>3. \A v \in Transfers : \A i \in DOMAIN inbox'[v] :
        \/ i \in DOMAIN inbox[v] /\ inbox'[v][i] = inbox[v][i]
        \/ /\ v = t /\ inbox'[v][i].op = op
           /\ inbox'[v][i].ok = ok /\ inbox'[v][i].size = size
  BY <1>0, ServeAnswers
<1> SUFFICES ASSUME NEW v \in Transfers PROVE DataOf(v)' OBVIOUS
<1>4. DataOf(v) BY DEF DataInv
<1>5. (Mine(v)' <=> Mine(v)) /\ (Empty' <=> Empty) BY DEF Mine, Empty
<1>6. \A n : Holds(v, n)' <=> Holds(v, n) BY <1>5 DEF Holds
<1>7. Whole(v)' <=> Whole(v) BY DEF Whole
<1>8. (ToldOk(v, "open")' <=> ToldOk(v, "open")) /\ (ToldOk(v, "write")' <=> ToldOk(v, "write"))
  BY <1>2 DEF Ops, StreamOps
<1>9. Lost(v)' BY <1>2, <1>4 DEF DataOf, Lost, Ops
<1>10. Touched(v)' BY <1>4, <1>5, <1>8 DEF DataOf, Touched
<1>11. ASSUME v \in alone
       PROVE  Unwritten(v)' /\ Cleaning(v)' /\ Streamed(v)' /\ Complete(v)'
  <2>1. Unwritten(v) /\ Cleaning(v) /\ Streamed(v) /\ Complete(v) BY <1>4, <1>11 DEF DataOf
  <2>2. Unwritten(v)' BY <1>5, <2>1 DEF Unwritten
  <2>3. Reached(v)' = Reached(v) BY <1>8 DEF Reached
  <2>4. Streamed(v)' BY <1>6, <1>8, <2>1, <2>3 DEF Streamed
  <2>5. Complete(v)' BY <1>7, <2>1 DEF Complete
  <2>6. Cleaning(v)'
    <3> SUFFICES ASSUME v \notin cut, v \notin kept', Mine(v)
                 PROVE  /\ ~(pc[v] = "failed" /\ late[v] \in {"none", "over"})
                        /\ ~Told(v, "delete")'
                        /\ late[v] = "stat" =>
                             \A i \in DOMAIN inbox'[v] : inbox'[v][i].op = "stat" =>
                               inbox'[v][i].ok /\ inbox'[v][i].size = 0
      BY <1>5 DEF Cleaning
    <3>1. /\ ~(pc[v] = "failed" /\ late[v] \in {"none", "over"})
          /\ ~Told(v, "delete")
          /\ late[v] = "stat" =>
               \A i \in DOMAIN inbox[v] : inbox[v][i].op = "stat" =>
                 inbox[v][i].ok /\ inbox[v][i].size = 0
      BY <2>1 DEF Cleaning
    <3>2. ~Told(v, "delete")' BY <1>1, <3>1 DEF Ops
    <3>3. late[v] = "stat" /\ v = t /\ op = "stat" => ok /\ size = 0
      <4>1. late[v] # "none" => Empty BY <2>1 DEF Unwritten
      <4>2. Len(<<>>) = 0 OBVIOUS
      <4> QED BY <4>1, <4>2 DEF Empty
    <3> QED BY <1>3, <3>1, <3>2, <3>3
  <2> QED BY <2>2, <2>4, <2>5, <2>6
<1> QED BY <1>9, <1>10, <1>11 DEF DataOf

LEMMA DeleteData ==
  ASSUME DataInv, NEW s \in Sessions, ServeDelete(s)
  PROVE  \A v \in Transfers : DataOf(v)'
<1>0. FlightInv /\ TypeOK /\ OwnWire /\ Attempts /\ OthersOver BY DEF DataInv, FlightInv
<1>a. "delete" \in Ops /\ TRUE \in BOOLEAN /\ 0 \in Nat BY DEF Ops
<1>1. PICK t \in Transfers : t = First(s).by
  BY <1>0, <1>a, ServeTyped DEF ServeDelete
<1>2. /\ Serve(s, "delete", TRUE, 0) /\ path' = NoFile
      /\ UNCHANGED <<handle, cut, pc, late, alone>>
  BY DEF ServeDelete, clientVars
<1>3. Asked(t, "delete") BY <1>0, <1>1, <1>2, <1>a, ServeOrders
<1>4. Flights(t) /\ Stage(t) BY <1>0 DEF Attempts
<1>5. pc[t] \in {"deleting", "failed"} BY <1>3, <1>4 DEF Flights, Flying, Stage
<1>6. \A v \in alone : v = t
  BY <1>0, <1>3, OverIsQuiet DEF OthersOver
<1> SUFFICES ASSUME NEW v \in Transfers PROVE DataOf(v)' OBVIOUS
<1>7. ~Mine(v)' BY <1>2 DEF Mine
<1>8. Lost(v)'
  <2>1. \A o \in StreamOps : ToldOk(v, o)' => ToldOk(v, o)
    <3>1. PICK op \in Ops, ok \in BOOLEAN, size \in Nat :
            op = "delete" /\ ok = TRUE /\ Serve(s, op, ok, size)
      BY <1>2, <1>a
    <3>a. Serve(s, op, ok, size) BY <3>1
    <3>2. \A u \in Transfers : \A o \in Ops :
            ToldOk(u, o)' <=> ToldOk(u, o) \/ (u = t /\ o = op /\ ok)
      BY <1>0, <1>1, <3>a, ServeAnswers
    <3> QED BY <3>1, <3>2 DEF Ops, StreamOps
  <2>2. Lost(v) BY DEF DataInv, DataOf
  <2> QED BY <1>2, <2>1, <2>2 DEF Lost
<1>9. Touched(v)' /\ Unwritten(v)' /\ Cleaning(v)' BY <1>7 DEF Touched, Unwritten, Cleaning
<1>10. v \in alone => Streamed(v)' /\ Complete(v)' BY <1>2, <1>5, <1>6 DEF Streamed, Complete
<1> QED BY <1>2, <1>8, <1>9, <1>10 DEF DataOf

LEMMA DropData ==
  ASSUME DataInv, NEW s \in Sessions, Drop(s)
  PROVE  \A v \in Transfers : DataOf(v)'
<1>0. FlightInv /\ TypeOK BY DEF DataInv, FlightInv
<1>1. UNCHANGED <<path, disk, pc, opened, late, sent, kept, alone>>
  BY <1>0, DropTurns DEF clientVars, streamVars
<1> SUFFICES ASSUME NEW v \in Transfers PROVE DataOf(v)' OBVIOUS
<1>2. DataOf(v) BY DEF DataInv
<1>3. cut \subseteq cut' /\ (v \notin cut' => inbox'[v] = inbox[v] /\ handle'[v] = handle[v])
  BY <1>0, DropTurns
<1>4. v \notin cut' => \A o : (ToldOk(v, o)' <=> ToldOk(v, o)) /\ (Told(v, o)' <=> Told(v, o))
  BY <1>3 DEF ToldOk, Told
<1>5. Lost(v)'
  <2>1. CASE v \in cut
    <3>1. handle'[v] = NoFile BY <1>0, <1>2, <2>1, DropTurns DEF DataOf, Lost
    <3>2. \A i \in DOMAIN inbox'[v] :
            /\ i \in DOMAIN inbox[v] /\ inbox'[v][i].op = inbox[v][i].op
            /\ inbox'[v][i].ok => inbox[v][i].ok
      BY <1>0, DropTurns
    <3>3. \A o \in StreamOps : ToldOk(v, o)' => ToldOk(v, o) BY <3>2 DEF ToldOk
    <3> QED BY <1>2, <2>1, <3>1, <3>3 DEF DataOf, Lost
  <2>2. CASE v \in cut' \ cut
    <3>1. handle'[v] = NoFile BY <1>0, <2>2, DropTurns
    <3>2. \A i \in DOMAIN inbox'[v] :
            inbox'[v][i].op \in StreamOps => ~inbox'[v][i].ok
      BY <1>0, <2>2, DropTurns
    <3>3. \A o \in StreamOps : ~ToldOk(v, o)' BY <3>2 DEF ToldOk
    <3> QED BY <3>1, <3>3 DEF Lost
  <2> QED BY <2>1, <2>2 DEF Lost
<1>6. (Mine(v)' <=> Mine(v)) /\ (Empty' <=> Empty) BY <1>1 DEF Mine, Empty
<1>7. \A n : Holds(v, n)' <=> Holds(v, n) BY <1>1, <1>6 DEF Holds
<1>8. Whole(v)' <=> Whole(v) BY <1>1 DEF Whole
<1>9. Touched(v)'
  <2>1. CASE v \in cut' BY <2>1 DEF Touched
  <2>2. CASE v \notin cut'
    BY <1>1, <1>2, <1>3, <1>4, <1>6, <2>2 DEF DataOf, Touched
  <2> QED BY <2>1, <2>2
<1>10. ASSUME v \in alone
       PROVE  Unwritten(v)' /\ Cleaning(v)' /\ Streamed(v)' /\ Complete(v)'
  <2>1. Unwritten(v) /\ Cleaning(v) /\ Streamed(v) /\ Complete(v) BY <1>2, <1>10 DEF DataOf
  <2>2. Unwritten(v)' BY <1>1, <1>6, <2>1 DEF Unwritten
  <2>3. Cleaning(v)' BY <1>1, <1>3, <1>4, <1>6, <2>1 DEF Cleaning
  <2>4. v \notin cut' => Reached(v)' = Reached(v) BY <1>1, <1>4 DEF Reached
  <2>5. Streamed(v)' BY <1>1, <1>3, <1>4, <1>7, <2>1, <2>4 DEF Streamed
  <2>6. Complete(v)' BY <1>1, <1>8, <2>1 DEF Complete
  <2> QED BY <2>2, <2>3, <2>5, <2>6
<1> QED BY <1>1, <1>5, <1>9, <1>10 DEF DataOf

LEMMA ServerData ==
  ASSUME DataInv, NEW s \in Sessions, Server(s) \/ Drop(s)
  PROVE  \A v \in Transfers : DataOf(v)'
<1>0. FlightInv /\ TypeOK BY DEF DataInv, FlightInv
<1>1. CASE ServeOpen(s) BY <1>1, OpenData
<1>2. CASE ServeWrite(s) BY <1>2, WriteData
<1>3. CASE ServeClose(s)
  <2>1. PICK ok \in BOOLEAN : Serve(s, "close", ok, 0) /\ (ok => First(s).by \notin cut)
    BY <1>3 DEF ServeClose
  <2>2. PICK t \in Transfers : t = First(s).by BY <1>0, <1>3, ServerServes DEF Server
  <2>3. /\ UNCHANGED <<path, disk, cut, pc, opened, late, sent, alone, kept>>
        /\ handle' = [handle EXCEPT ![t] = NoFile]
    BY <1>3, <2>2 DEF ServeClose, clientVars, streamVars
  <2>4. \A v \in Transfers : handle'[v] = handle[v] \/ handle'[v] = NoFile
    BY <1>0, <2>3 DEF TypeOK
  <2>5. "close" \in Ops BY DEF Ops, StreamOps
  <2> QED BY <2>1, <2>2, <2>3, <2>4, <2>5, ServeLeaves
<1>4. CASE ServeStat(s)
  <2>1. Len(disk[path].data) \in Nat BY <1>0, <1>4 DEF ServeStat, TypeOK, Contents
  <2>2. PICK t \in Transfers : t = First(s).by BY <1>0, <1>4, ServerServes DEF Server
  <2>3. /\ UNCHANGED <<path, disk, cut, pc, opened, late, sent, alone, kept, handle>>
        /\ Serve(s, "stat", TRUE, Len(disk[path].data))
    BY <1>4 DEF ServeStat, clientVars, streamVars
  <2>4. "stat" \in Ops /\ "stat" \notin StreamOps BY DEF Ops, StreamOps
  <2> QED BY <2>1, <2>2, <2>3, <2>4, ServeLeaves
<1>5. CASE ServeDelete(s) BY <1>5, DeleteData
<1>6. CASE Refuse(s)
  <2>1. PICK op \in Ops \ {"close"} : Serve(s, op, FALSE, 0) BY <1>6 DEF Refuse
  <2>2. PICK t \in Transfers : t = First(s).by BY <1>0, <1>6, ServerServes DEF Server
  <2>3. /\ UNCHANGED <<path, disk, cut, pc, opened, late, sent, alone, handle>>
        /\ kept' = IF op \in {"stat", "delete"} THEN kept \cup {t} ELSE kept
    BY <1>6, <2>1, <2>2 DEF Refuse, Serve, streamVars
  <2>4. kept \subseteq kept' /\ (op \in {"stat", "delete"} => t \in kept') BY <2>3
  <2> QED BY <2>1, <2>2, <2>3, <2>4, ServeLeaves
<1>7. CASE Drop(s) BY <1>7, DropData
<1> QED BY <1>1, <1>2, <1>3, <1>4, <1>5, <1>6, <1>7 DEF Server

LEMMA DataStep == DataInv /\ [Next]_vars => DataInv'
<1> SUFFICES ASSUME DataInv, [Next]_vars PROVE DataInv' OBVIOUS
<1>0. FlightInv /\ TypeOK /\ OwnWire BY DEF DataInv, FlightInv
<1>1. FlightInv' BY <1>0, FlightStep
<1>2. CASE UNCHANGED vars
  <2> USE <1>2 DEF vars, serverVars, clientVars, streamVars
  <2>1. \A u \in Transfers : RowKept(u) BY DEF RowKept, Asked
  <2>2. \A u \in Transfers : DataOf(u)' BY <2>1, RowKeepsData DEF DataInv
  <2> QED BY <1>1, <2>2 DEF DataInv
<1>3. ASSUME NEW t \in Transfers, Begin(t) \/ Break(t) \/ Client(t) PROVE DataInv'
  <2>1. DataOf(t)' BY <1>3, ClientData
  <2>2. \A u \in Transfers \ {t} : RowKept(u) BY <1>0, <1>3, ClientOthers
  <2>3. /\ UNCHANGED <<path, disk, handle, cut, kept>>
        /\ \A u \in Transfers \ {t} : u \in alone' => u \in alone
    BY <1>3, ClientTalks DEF Begin
  <2>4. \A u \in Transfers \ {t} : DataOf(u)' BY <2>2, <2>3, RowKeepsData DEF DataInv
  <2> QED BY <1>1, <2>1, <2>4 DEF DataInv
<1>4. ASSUME NEW s \in Sessions, Server(s) \/ Drop(s) PROVE DataInv'
  BY <1>1, <1>4, ServerData DEF DataInv
<1> QED BY <1>2, <1>3, <1>4 DEF Next, Finished

LEMMA DataInit == Init => DataInv
<1> SUFFICES ASSUME Init PROVE DataInv OBVIOUS
<1>1. FlightInv BY FlightInit
<1>2. ASSUME NEW t \in Transfers PROVE DataOf(t)
  <2>1. Lost(t) /\ t \notin alone BY DEF Init, Lost
  <2>2. path \in Files => disk[path].by = Original BY DEF Init
  <2>3. ~Mine(t) BY <2>2, NamesDiffer DEF Init, Mine, Files
  <2> QED BY <2>1, <2>3 DEF DataOf, Touched
<1> QED BY <1>1, <1>2 DEF DataInv

(* For any attempts on the path, sizes and sessions, and through refused,  *)
(* late and lost requests: what an attempt reported as completed wrote is  *)
(* at the path, whole, until another begins.                               *)
THEOREM CompletedAreWhole == Spec => []CompletedIsWhole
<1>1. DataInv => CompletedIsWhole
  <2> SUFFICES ASSUME DataInv, NEW t \in alone, pc[t] = "completed" PROVE Whole(t)
    BY DEF CompletedIsWhole
  <2>1. t \in Transfers BY DEF DataInv, FlightInv, TypeOK
  <2> QED BY <2>1 DEF DataInv, DataOf, Complete
<1> QED BY <1>1, DataInit, DataStep, PTL DEF Spec

(* An attempt that failed leaves no file it truncated, however late its    *)
(* open was answered, unless the connection was lost or the server refused *)
(* the clean-up.                                                           *)
THEOREM FailuresLeaveNothing == Spec => []FailedLeavesNothing
<1>1. DataInv => FailedLeavesNothing
  <2> SUFFICES ASSUME DataInv, NEW t \in alone \ (cut \cup kept), pc[t] = "failed", Over(t)
               PROVE  ~Mine(t)
    BY DEF FailedLeavesNothing, Mine
  <2>1. t \in Transfers BY DEF DataInv, FlightInv, TypeOK
  <2> QED BY <2>1 DEF DataInv, DataOf, Cleaning, Over
<1> QED BY <1>1, DataInit, DataStep, PTL DEF Spec

-----------------------------------------------------------------------------
(* What an attempt waits for. *)

(* Each await is for a request that is on its way, there or back. *)
Awaited(t) ==
  /\ pc[t] = "finishing" => t \in opening \/ Flying(t, "close")
  /\ pc[t] = "tearing" => t \notin opening /\ Flying(t, "close")
  /\ t \in opening => IF t \in opened THEN Flying(t, "close") ELSE Flying(t, "open")
  /\ t \in opening /\ pc[t] \in {"streaming", "finishing"} => t \notin opened
  /\ t \in fds => t \notin opening
  /\ pc[t] = "verifying" \/ late[t] = "stat" => Flying(t, "stat")
  /\ pc[t] = "deleting" \/ late[t] = "deleting" => Flying(t, "delete")

AwaitInv == FlightInv /\ \A t \in Transfers : Awaited(t)

(* The attempt has a handler for the answer, at the stage it is at. *)
Expects(t, op) ==
  /\ op = "open" => t \in closed \/ pc[t] \in {"streaming", "finishing"}
  /\ op = "stat" => pc[t] = "verifying" \/ late[t] = "stat"
  /\ op = "delete" => pc[t] = "deleting" \/ late[t] = "deleting"

MayAct(t) ==
  \/ Streaming(t)
  \/ pc[t] = "settling"
  \/ late[t] = "waiting" /\ t \notin opening
  \/ inbox[t] # <<>> /\ Expects(t, Head(inbox[t]).op)

AttemptsGetOn ==
  \A t \in Transfers : Over(t) \/ MayAct(t) \/ \E op \in Ops : Asked(t, op)

(* Receiving an answer leaves the others. *)
LEMMA ReceiveSpares ==
  ASSUME TypeOK, NEW t \in Transfers, NEW op \in Ops, Receive(t, op)
  PROVE  \A o \in Ops \ {op} : Told(t, o) => Told(t, o)'
<1> DEFINE old == inbox[t]
<1>1. old \in Seq(Answers) /\ old # <<>> BY DEF TypeOK, Receive
<1>2. \A j \in DOMAIN old : j # 1 => j - 1 \in DOMAIN Tail(old) /\ Tail(old)[j - 1] = old[j]
  BY <1>1
<1>3. old[1].op = op BY <1>1 DEF Receive
<1>4. inbox'[t] = Tail(old) BY DEF Receive, TypeOK
<1> SUFFICES ASSUME NEW o \in Ops \ {op}, Told(t, o) PROVE Told(t, o)' OBVIOUS
<1>5. PICK j \in DOMAIN old : old[j].op = o BY DEF Told
<1>6. j - 1 \in DOMAIN inbox'[t] /\ inbox'[t][j - 1] = old[j] BY <1>2, <1>3, <1>4, <1>5
<1> QED BY <1>5, <1>6 DEF Told

(* Nothing gets lost between the server and an attempt. *)
LEMMA ServerFlies ==
  ASSUME FlightInv, NEW s \in Sessions, Server(s) \/ Drop(s)
  PROVE  /\ \A u \in Transfers : \A o \in Ops : Flying(u, o) => Flying(u, o)'
         /\ UNCHANGED <<pc, fds, closed, opening, opened, late>>
<1>0. TypeOK /\ OwnWire BY DEF FlightInv
<1>1. CASE Server(s)
  <2>1. PICK op \in Ops, ok \in BOOLEAN, size \in Nat : Serve(s, op, ok, size)
    BY <1>0, <1>1, ServerServes
  <2>2. PICK t \in Transfers : t = First(s).by BY <1>0, <1>1, ServerServes
  <2>3. \A u \in Transfers : \A o \in Ops :
          Asked(u, o) => Asked(u, o)' \/ (u = t /\ o = op)
    BY <1>0, <2>1, <2>2, ServeOrders
  <2>4. \A u \in Transfers : \A o \in Ops :
          Told(u, o)' <=> Told(u, o) \/ (u = t /\ o = op)
    BY <1>0, <2>1, <2>2, ServeAnswers
  <2>5. UNCHANGED <<pc, fds, closed, opening, opened, late>>
    BY <1>0, <1>1, ServerServes DEF streamVars
  <2> QED BY <2>3, <2>4, <2>5 DEF Flying
<1>2. CASE Drop(s)
  <2>1. UNCHANGED <<wire, pc, fds, closed, opening, opened, late>>
    BY <1>2 DEF Drop, clientVars
  <2>2. \A u \in Transfers : \A i \in DOMAIN inbox[u] :
          i \in DOMAIN inbox'[u] /\ inbox'[u][i].op = inbox[u][i].op
    <3>1. \A u \in Transfers : \A i \in DOMAIN inbox[u] : inbox[u][i] \in Answers
      BY <1>0 DEF TypeOK
    <3> QED BY <1>2, <3>1 DEF Drop, Answers
  <2>3. \A u \in Transfers : \A o \in Ops : Told(u, o) => Told(u, o)'
    BY <2>2 DEF Told
  <2> QED BY <2>1, <2>3 DEF Flying, Asked
<1> QED BY <1>1, <1>2

(* A step of the attempt begins a wait with its request, and ends one with *)
(* the answer.                                                             *)
LEMMA ClientAwaits ==
  ASSUME FlightInv, NEW t \in Transfers, Awaited(t), Begin(t) \/ Break(t) \/ Client(t)
  PROVE  Awaited(t)'
<1> USE DEF Ops, StreamOps, Go, GoLate, streamVars
<1>0. TypeOK /\ OwnWire /\ Flights(t) /\ Stage(t) BY DEF FlightInv, Attempts
<1>a. /\ pc \in [Transfers -> Stages]
      /\ late \in [Transfers -> {"none", "waiting", "stat", "deleting", "over"}]
  BY <1>0 DEF TypeOK
<1>b. ASSUME UNCHANGED inbox PROVE \A o \in Ops : Told(t, o)' <=> Told(t, o)
  BY <1>b DEF Told
<1>c. ASSUME UNCHANGED wire PROVE \A o \in Ops : Asked(t, o)' <=> Asked(t, o)
  BY <1>c DEF Asked
<1>d. ASSUME NEW op \in Ops, Send(t, op)
      PROVE  \A o \in Ops : Asked(t, o)' <=> Asked(t, o) \/ o = op
  BY <1>0, <1>d, SendFlies
<1>e. ASSUME NEW op \in Ops, Receive(t, op)
      PROVE  Told(t, op) /\ \A o \in Ops \ {op} : Told(t, o) => Told(t, o)'
  BY <1>0, <1>e, ReceiveSpares, ReceiveOrders
<1>1. CASE Begin(t)
  <2>1. UNCHANGED <<inbox, wire>> BY <1>1 DEF Begin, serverVars
  <2> QED BY <1>0, <1>1, <1>a, <1>b, <1>c, <2>1 DEF Begin, Awaited, Flying, Stage
<1>2. CASE Break(t)
  <2>1. UNCHANGED inbox BY <1>2 DEF Break
  <2>2. CASE t \in fds
    <3>1. Send(t, "close") BY <1>2, <2>2 DEF Break, Destroy
    <3> QED BY <1>0, <1>2, <1>a, <1>b, <1>d, <2>1, <2>2, <3>1
            DEF Break, Destroy, Awaited, Flying, Stage
  <2>3. CASE t \notin fds
    <3>1. UNCHANGED wire BY <1>2, <2>3 DEF Break, Destroy
    <3> QED BY <1>0, <1>2, <1>a, <1>b, <1>c, <2>1, <2>3, <3>1
            DEF Break, Destroy, Awaited, Flying, Stage
  <2> QED BY <2>2, <2>3
<1>3. CASE Write(t) \/ Final(t)
  <2>1. UNCHANGED <<inbox, opened, late, closed>> /\ \A o \in Ops : ~Flying(t, o)
    BY <1>3, QuietFlies DEF Write, Final, Streaming, Flying
  <2>2. pc[t] = "streaming" /\ t \notin opening /\ late[t] = "none"
    BY <1>0, <1>3, <1>a, <2>1 DEF Write, Final, Streaming, Awaited, Stage
  <2>3. PICK op \in {"write", "close", "open"} :
          /\ Send(t, op)
          /\ IF op = "open" THEN t \notin fds /\ opening' = opening \cup {t}
                            ELSE t \in fds /\ UNCHANGED opening
          /\ fds' = IF op = "close" THEN fds \ {t} ELSE fds
          /\ op = "write" => UNCHANGED pc
          /\ UNCHANGED pc \/ (pc' = [pc EXCEPT ![t] = "finishing"] /\ op # "write")
    BY <1>3 DEF Write, Final
  <2>4. t \notin fds => t \notin opened BY <1>0, <2>2 DEF Stage
  <2>5. \A o \in Ops : Flying(t, o)' <=> o = op
    BY <1>b, <1>d, <2>1, <2>3 DEF Flying
  <2>6. pc'[t] \in {"streaming", "finishing"} /\ (pc'[t] = "finishing" => op # "write")
    BY <1>a, <2>2, <2>3
  <2> QED BY <1>a, <2>1, <2>2, <2>3, <2>4, <2>5, <2>6 DEF Awaited
<1>5. CASE OpenAnswered(t)
  <2>1. Receive(t, "open") /\ opened' = opened \cup {t} /\ UNCHANGED <<pc, closed, late>>
    BY <1>5 DEF OpenAnswered
  <2>2. t \in opening /\ t \notin opened /\ t \notin fds
    BY <1>0, <1>e, <2>1 DEF Flights, Stage, Flying
  <2>3. PICK op \in {"close", "write"} :
          /\ Send(t, op)
          /\ \/ op = "close" /\ t \in closed /\ UNCHANGED <<fds, opening>>
             \/ /\ op = "write" /\ t \notin closed /\ pc[t] = "streaming"
                /\ fds' = fds \cup {t} /\ opening' = opening \ {t}
             \/ /\ op = "close" /\ t \notin closed /\ pc[t] = "finishing"
                /\ opening' = opening \ {t} /\ UNCHANGED fds
    BY <1>5 DEF OpenAnswered
  <2>4. \A o \in Ops : (o # "open" /\ Flying(t, o)) \/ o = op => Flying(t, o)'
    BY <1>d, <1>e, <2>1, <2>3 DEF Flying
  <2> QED BY <1>0, <2>1, <2>2, <2>3, <2>4 DEF Awaited, Stage
<1>6. CASE OpenFailed(t)
  <2>1. /\ Receive(t, "open") /\ opening' = opening \ {t} /\ UNCHANGED <<opened, late>>
        /\ \/ t \in closed /\ UNCHANGED <<fds, wire, pc>>
           \/ t \notin closed /\ Destroy(t)
    BY <1>6 DEF OpenFailed
  <2>2. t \notin opened /\ t \notin fds /\ t \in opening
    BY <1>0, <1>e, <2>1 DEF Flights, Stage, Flying
  <2>3. UNCHANGED <<fds, wire>> /\ (UNCHANGED pc \/ pc' = [pc EXCEPT ![t] = "settling"])
    BY <2>1, <2>2 DEF Destroy
  <2>4. pc'[t] = "finishing" => t \notin closed BY <1>0, <1>a, <2>3 DEF Stage
  <2>5. pc'[t] # "finishing"
    <3>1. CASE t \in closed BY <2>1, <2>4, <3>1 DEF Destroy
    <3>2. CASE t \notin closed BY <1>a, <2>1, <2>2, <3>2 DEF Destroy
    <3> QED BY <3>1, <3>2
  <2>6. \A o \in Ops \ {"open"} : Flying(t, o) => Flying(t, o)'
    BY <1>c, <1>e, <2>1, <2>3 DEF Flying
  <2> QED BY <1>0, <1>a, <2>1, <2>2, <2>3, <2>5, <2>6 DEF Awaited, Stage
<1>7. CASE WriteAnswered(t)
  <2>1. /\ Receive(t, "write") /\ UNCHANGED <<opening, opened, late>>
        /\ UNCHANGED <<fds, wire, pc>> \/ (t \notin closed /\ Destroy(t))
    BY <1>7 DEF WriteAnswered
  <2>2. \A o \in Ops \ {"write"} : Told(t, o) => Told(t, o)' BY <1>e, <2>1
  <2>3. CASE UNCHANGED <<fds, wire, pc>>
    <3>1. \A o \in Ops \ {"write"} : Flying(t, o) => Flying(t, o)'
      BY <1>c, <2>2, <2>3 DEF Flying
    <3> QED BY <2>1, <2>3, <3>1 DEF Awaited
  <2>4. CASE t \notin closed /\ Destroy(t)
    <3>1. \/ t \in fds /\ Send(t, "close") /\ fds' = fds \ {t} /\ pc' = [pc EXCEPT ![t] = "tearing"]
          \/ t \notin fds /\ pc' = [pc EXCEPT ![t] = "settling"] /\ UNCHANGED <<fds, wire>>
      BY <2>4 DEF Destroy
    <3>2. \A o \in Ops \ {"write"} : Flying(t, o) \/ (o = "close" /\ t \in fds) => Flying(t, o)'
      BY <1>c, <1>d, <2>2, <3>1 DEF Flying
    <3>3. late[t] = "none" BY <1>0, <2>4 DEF Stage
    <3> QED BY <1>a, <2>1, <3>1, <3>2, <3>3 DEF Awaited
  <2> QED BY <2>1, <2>3, <2>4
<1>8. CASE CloseAnswered(t)
  <2>1. Receive(t, "close") /\ UNCHANGED <<fds, opened, late>> BY <1>8 DEF CloseAnswered
  <2>2. Told(t, "close") /\ \A o \in Ops \ {"close"} : Told(t, o) => Told(t, o)' BY <1>e, <2>1
  <2>3. t \in opened /\ t \notin fds BY <1>0, <2>2 DEF Flights, Flying
  <2>4. CASE t \in opening
    <3>1. opening' = opening \ {t} /\ UNCHANGED <<closed, wire, pc>>
      BY <1>8, <2>4 DEF CloseAnswered
    <3>2. pc[t] \notin {"finishing", "tearing"} BY <2>3, <2>4 DEF Awaited
    <3>3. \A o \in Ops \ {"close"} : Flying(t, o) => Flying(t, o)'
      BY <1>c, <2>2, <3>1 DEF Flying
    <3> QED BY <2>1, <2>3, <3>1, <3>2, <3>3 DEF Awaited
  <2>5. CASE t \notin opening /\ t \in closed
    <3>1. /\ pc' = IF pc[t] = "tearing" THEN [pc EXCEPT ![t] = "settling"] ELSE pc
          /\ UNCHANGED <<closed, opening, wire>>
      BY <1>8, <2>5 DEF CloseAnswered
    <3>2. pc[t] # "finishing" BY <1>0, <2>5 DEF Stage
    <3>3. \A o \in Ops \ {"close"} : Flying(t, o) => Flying(t, o)'
      BY <1>c, <2>2, <3>1 DEF Flying
    <3> QED BY <1>a, <2>1, <2>3, <2>5, <3>1, <3>2, <3>3 DEF Awaited
  <2>6. CASE t \notin opening /\ t \notin closed
    <3>1. /\ UNCHANGED opening
          /\ \/ Send(t, "stat") /\ pc' = [pc EXCEPT ![t] = "verifying"]
             \/ pc' = [pc EXCEPT ![t] = "settling"]
      BY <1>8, <2>6 DEF CloseAnswered
    <3>2. late[t] = "none" BY <1>0, <2>6 DEF Stage
    <3>3. pc'[t] = "settling" \/ (pc'[t] = "verifying" /\ Flying(t, "stat")')
      BY <1>a, <1>d, <3>1 DEF Flying
    <3> QED BY <2>1, <2>3, <2>6, <3>1, <3>2, <3>3 DEF Awaited
  <2> QED BY <2>4, <2>5, <2>6
<1>9. CASE Verified(t)
  <2>1. /\ Receive(t, "stat") /\ UNCHANGED <<wire, streamVars, late>> /\ pc[t] = "verifying"
        /\ \E stage \in {"completed", "settling"} : pc' = [pc EXCEPT ![t] = stage]
    BY <1>9 DEF Verified
  <2>2. \A o \in Ops \ {"stat"} : Flying(t, o) => Flying(t, o)'
    BY <1>c, <1>e, <2>1 DEF Flying
  <2>3. late[t] = "none" BY <1>0, <2>1 DEF Stage
  <2> QED BY <1>a, <2>1, <2>2, <2>3 DEF Awaited
<1>10. CASE Settled(t) \/ SettleTimesOut(t)
  <2>1. /\ UNCHANGED <<inbox, streamVars>> /\ pc[t] = "settling"
        /\ \/ Send(t, "delete") /\ pc' = [pc EXCEPT ![t] = "deleting"] /\ UNCHANGED late
           \/ /\ UNCHANGED wire /\ pc' = [pc EXCEPT ![t] = "failed"]
              /\ UNCHANGED late \/ late' = [late EXCEPT ![t] = "waiting"]
    BY <1>10 DEF Settled, SettleTimesOut, CleanUp
  <2>2. late[t] = "none" BY <1>0, <2>1 DEF Stage
  <2>3. \A o \in Ops : Flying(t, o) \/ (o = "delete" /\ Send(t, "delete")) => Flying(t, o)'
    BY <1>b, <1>c, <1>d, <2>1 DEF Flying
  <2> QED BY <1>a, <2>1, <2>2, <2>3 DEF Awaited
<1>11. CASE LateSettled(t)
  <2>1. /\ UNCHANGED <<inbox, streamVars, pc>> /\ late[t] = "waiting" /\ t \notin opening
        /\ \/ Send(t, "stat") /\ late' = [late EXCEPT ![t] = "stat"]
           \/ UNCHANGED wire /\ late' = [late EXCEPT ![t] = "over"]
    BY <1>11 DEF LateSettled
  <2>2. pc[t] = "failed" BY <1>0, <2>1 DEF Stage
  <2>3. \A o \in Ops : Flying(t, o) \/ (o = "stat" /\ Send(t, "stat")) => Flying(t, o)'
    BY <1>b, <1>c, <1>d, <2>1 DEF Flying
  <2> QED BY <1>a, <2>1, <2>2, <2>3 DEF Awaited, Stage
<1>12. CASE LateStat(t)
  <2>1. /\ Receive(t, "stat") /\ UNCHANGED <<streamVars, pc>> /\ late[t] = "stat"
        /\ \/ Send(t, "delete") /\ late' = [late EXCEPT ![t] = "deleting"]
           \/ UNCHANGED wire /\ late' = [late EXCEPT ![t] = "over"]
    BY <1>12 DEF LateStat
  <2>2. pc[t] = "failed" BY <1>0, <2>1 DEF Stage
  <2>3. \A o \in Ops \ {"stat"} :
          Flying(t, o) \/ (o = "delete" /\ Send(t, "delete")) => Flying(t, o)'
    BY <1>c, <1>d, <1>e, <2>1 DEF Flying
  <2> QED BY <1>a, <2>1, <2>2, <2>3 DEF Awaited
<1>13. CASE Deleted(t)
  <2>1. /\ Receive(t, "delete") /\ UNCHANGED <<wire, streamVars>>
        /\ \/ /\ pc[t] = "deleting" /\ pc' = [pc EXCEPT ![t] = "failed"] /\ UNCHANGED late
           \/ /\ late[t] = "deleting" /\ late' = [late EXCEPT ![t] = "over"] /\ UNCHANGED pc
    BY <1>13 DEF Deleted
  <2>2. \A o \in Ops \ {"delete"} : Flying(t, o) => Flying(t, o)'
    BY <1>c, <1>e, <2>1 DEF Flying
  <2>3. pc[t] = "deleting" => late[t] = "none" BY <1>0 DEF Stage
  <2>4. late[t] = "deleting" => pc[t] = "failed" BY <1>0 DEF Stage
  <2> QED BY <1>a, <2>1, <2>2, <2>3, <2>4 DEF Awaited
<1> QED BY <1>1, <1>2, <1>3, <1>5, <1>6, <1>7, <1>8, <1>9, <1>10,
           <1>11, <1>12, <1>13 DEF Client

LEMMA AwaitStep == AwaitInv /\ [Next]_vars => AwaitInv'
<1> SUFFICES ASSUME AwaitInv, [Next]_vars PROVE AwaitInv' OBVIOUS
<1>0. FlightInv /\ FlightInv' /\ \A t \in Transfers : Awaited(t)
  BY FlightStep DEF AwaitInv
<1> SUFFICES ASSUME NEW u \in Transfers PROVE Awaited(u)'
  BY <1>0 DEF AwaitInv
<1> USE DEF Ops, StreamOps
<1>1. CASE UNCHANGED vars
  BY <1>0, <1>1 DEF vars, serverVars, clientVars, Awaited, Flying, Asked, Told
<1>2. ASSUME NEW t \in Transfers, Begin(t) \/ Break(t) \/ Client(t) PROVE Awaited(u)'
  <2>1. CASE u = t BY <1>0, <1>2, <2>1, ClientAwaits
  <2>2. CASE u # t
    <3>1. RowKept(u) BY <1>0, <1>2, <2>2, ClientOthers DEF FlightInv
    <3>2. \A o \in Ops : Flying(u, o)' <=> Flying(u, o)
      BY <3>1 DEF RowKept, Flying, Told
    <3> QED BY <1>0, <3>1, <3>2 DEF RowKept, Awaited
  <2> QED BY <2>1, <2>2
<1>3. ASSUME NEW s \in Sessions, Server(s) \/ Drop(s) PROVE Awaited(u)'
  <2>1. /\ \A o \in Ops : Flying(u, o) => Flying(u, o)'
        /\ UNCHANGED <<pc, fds, closed, opening, opened, late>>
    BY <1>0, <1>3, ServerFlies
  <2> QED BY <1>0, <2>1 DEF Awaited
<1> QED BY <1>1, <1>2, <1>3 DEF Next, Finished

(* The safety half of FailureIsReported.  An attempt that is not over can  *)
(* act, or the answer it reads next is one it handles where it is, or a    *)
(* request of it is on the wire: it never awaits what cannot come, whatever *)
(* was refused, dropped or late.                                           *)
THEOREM NoAwaitIsInVain == Spec => []AttemptsGetOn
<1>1. Init => AwaitInv
  <2> SUFFICES ASSUME Init PROVE AwaitInv OBVIOUS
  <2>1. FlightInv BY FlightInit
  <2> QED BY <2>1 DEF AwaitInv, Awaited, Init
<1>2. AwaitInv => AttemptsGetOn
  <2> SUFFICES ASSUME AwaitInv, NEW t \in Transfers
               PROVE  Over(t) \/ MayAct(t) \/ \E op \in Ops : Asked(t, op)
    BY Zenon DEF AttemptsGetOn
  <2> SUFFICES ASSUME ~Over(t), \A op \in Ops : ~Asked(t, op) PROVE MayAct(t)
    BY Zenon
  <2> USE DEF Ops, StreamOps
  <2>0. TypeOK /\ Flights(t) /\ Stage(t) /\ Awaited(t)
    BY DEF AwaitInv, FlightInv, Attempts
  <2>1. inbox[t] \in Seq(Answers) /\ pc[t] \in Stages
        /\ late[t] \in {"none", "waiting", "stat", "deleting", "over"}
    BY <2>0 DEF TypeOK
  <2>2. CASE inbox[t] # <<>>
    <3>1. 1 \in DOMAIN inbox[t] /\ Head(inbox[t]) = inbox[t][1] /\ Head(inbox[t]) \in Answers
      BY <2>1, <2>2
    <3>2. Head(inbox[t]).op \in Ops BY <3>1 DEF Answers
    <3>3. Flying(t, Head(inbox[t]).op) BY <3>1 DEF Flying, Told
    <3>4. Expects(t, Head(inbox[t]).op)
      BY <2>0, <2>1, <3>2, <3>3 DEF Expects, Flights, Stage, Stages
    <3> QED BY <2>2, <3>4 DEF MayAct
  <2>3. CASE inbox[t] = <<>>
    <3>1. \A op \in Ops : ~Flying(t, op) BY <2>3 DEF Flying, Told
    <3>2. t \notin opening /\ pc[t] \in {"new", "streaming", "settling", "completed", "failed"}
          /\ late[t] \in {"none", "waiting", "over"}
      BY <2>0, <2>1, <3>1 DEF Awaited, Stages
    <3>3. CASE pc[t] = "streaming"
      <4>1. Quiet(t)
        <5> DEFINE Request == [by : Transfers, op : Ops]
        <5>1. wire[SessionOf[t]] \in Seq(Request)
          BY <2>0, SessionAssumption DEF TypeOK
        <5>2. \A i \in DOMAIN wire[SessionOf[t]] : wire[SessionOf[t]][i].op \in Ops
          <6>1. \A i \in DOMAIN wire[SessionOf[t]] : wire[SessionOf[t]][i] \in Request
            <7> HIDE DEF Request
            <7> QED BY <5>1
          <6> QED BY <6>1
        <5> QED BY <2>3, <5>2 DEF Quiet, Asked
      <4>2. t \notin closed BY <2>0, <3>3 DEF Stage
      <4> QED BY <3>3, <4>1, <4>2 DEF MayAct, Streaming
    <3> QED BY <3>2, <3>3 DEF MayAct, Over
  <2> QED BY <2>2, <2>3
<1> QED BY <1>1, <1>2, AwaitStep, PTL DEF Spec
=============================================================================
