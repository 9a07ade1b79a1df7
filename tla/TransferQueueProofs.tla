------------------------ MODULE TransferQueueProofs ------------------------
(***************************************************************************)
(* Proofs about TransferQueue, for any finite set of jobs, any limits and  *)
(* any number of retries.                                                  *)
(***************************************************************************)
EXTENDS TransferQueue, FiniteSetTheorems, TLAPS

(* The facts about single jobs, of a state given part by part so that they *)
(* can be stated of the state processQueue is called in.  Beyond the       *)
(* invariants SlotsMatchRuns, HeldIffPaused and WaiterAgrees they say that *)
(* only a job in a slot is "running", that the abort signals fired are     *)
(* those of the cancelled jobs in a slot, and that a job cleared from the  *)
(* list was completed.                                                     *)
JobFacts(st, rn, act, ctx, ab, hd, wr) ==
  /\ act = {j \in Jobs : rn[j] # "none"}
  /\ act \subseteq ctx
  /\ \A j \in act : st[j] \in {"running", "paused", "cancelled"}
  /\ \A j \in Jobs : st[j] \in {"pending", "running", "paused"} => j \in ctx
  /\ \A j \in Jobs : st[j] = "running" => j \in act
  /\ hd = {j \in act : st[j] = "paused"}
  /\ ab = {j \in act : st[j] = "cancelled"}
  /\ \A j \in Jobs :
       /\ wr[j] # "none" => st[j] \in {wr[j], "cleared"} /\ j \notin act
       /\ st[j] \in Terminal \ {"cancelled"} => wr[j] = st[j]
       /\ st[j] = "cancelled" /\ j \notin act => wr[j] = "cancelled"
       /\ st[j] = "cleared" => wr[j] = "completed"

JobInv == JobFacts(status, run, active, contexts, aborted, held, waitResult)

IInv == TypeOK /\ JobInv /\ NoLostWakeup /\ WaitForAllIsWoken

(* The state after processQueue has started the jobs of S. *)
StartedStatus(S, st) == [j \in Jobs |-> IF j \in S THEN "running" ELSE st[j]]
StartedRun(S, rn) == [j \in Jobs |-> IF j \in S THEN "preparing" ELSE rn[j]]

(* A set of jobs has a size. *)
LEMMA SlotsAreCounted ==
  ASSUME NEW A \in SUBSET Jobs
  PROVE  Cardinality(A) \in Nat
  BY JobsAssumption, FS_Subset, FS_CardinalityType

(* When every waiting job has its context, processQueue leaves no job      *)
(* waiting beside a free slot.                                             *)
LEMMA BatchFillsSlots ==
  ASSUME NEW st, NEW pl, NEW act, NEW ctx, NEW limit, NEW S,
         IsBatch(S, st, pl, act, ctx, limit),
         Waiting(st, act) \subseteq ctx
  PROVE  /\ S \subseteq Waiting(st, act)
         /\ \/ Waiting(StartedStatus(S, st), act \cup S) = {}
            \/ Cardinality(act \cup S) >= limit
<1>1. S \subseteq Waiting(st, act)
  BY DEF IsBatch
<1>2. S = Waiting(st, act) \/ Cardinality(act \cup S) >= limit
  BY DEF IsBatch
<1>3. S = Waiting(st, act) => Waiting(StartedStatus(S, st), act \cup S) = {}
  BY DEF Waiting, StartedStatus
<1> QED
  BY <1>1, <1>2, <1>3

(* Starting waiting jobs keeps the facts about the single jobs.            *)
LEMMA BatchKeepsJobFacts ==
  ASSUME NEW st \in [Jobs -> Statuses], NEW rn \in [Jobs -> Stages],
         NEW act \in SUBSET Jobs, NEW ctx, NEW ab, NEW hd,
         NEW wr \in [Jobs -> Terminal \cup {"none"}],
         NEW S \in SUBSET Waiting(st, act),
         JobFacts(st, rn, act, ctx, ab, hd, wr)
  PROVE  /\ StartedStatus(S, st) \in [Jobs -> Statuses]
         /\ StartedRun(S, rn) \in [Jobs -> Stages]
         /\ act \cup S \in SUBSET Jobs
         /\ JobFacts(StartedStatus(S, st), StartedRun(S, rn), act \cup S,
                     ctx, ab, hd, wr)
<1> DEFINE st2 == StartedStatus(S, st)
           rn2 == StartedRun(S, rn)
<1>1. \A j \in S : st[j] = "pending" /\ j \notin act /\ j \in Jobs
  BY DEF Waiting
<1>2. \A j \in S : j \in ctx /\ wr[j] = "none"
  BY <1>1 DEF JobFacts, Terminal
<1>3. /\ st2 \in [Jobs -> Statuses]
      /\ rn2 \in [Jobs -> Stages]
      /\ act \cup S \in SUBSET Jobs
  BY <1>1 DEF Statuses, Open, Stages, StartedStatus, StartedRun
<1>4. /\ \A j \in Jobs \ S : st2[j] = st[j] /\ rn2[j] = rn[j]
      /\ \A j \in S : st2[j] = "running" /\ rn2[j] = "preparing"
  BY <1>1 DEF StartedStatus, StartedRun
<1> HIDE DEF st2, rn2
<1>5. JobFacts(st2, rn2, act \cup S, ctx, ab, hd, wr)
  <2>1. /\ act \cup S = {j \in Jobs : rn2[j] # "none"}
        /\ act \cup S \subseteq ctx
    BY <1>1, <1>2, <1>4 DEF JobFacts
  <2>2. /\ \A j \in act \cup S : st2[j] \in {"running", "paused", "cancelled"}
        /\ \A j \in Jobs : st2[j] \in {"pending", "running", "paused"} => j \in ctx
        /\ \A j \in Jobs : st2[j] = "running" => j \in act \cup S
    BY <1>1, <1>2, <1>4 DEF JobFacts
  <2>3. /\ hd = {j \in act \cup S : st2[j] = "paused"}
        /\ ab = {j \in act \cup S : st2[j] = "cancelled"}
    BY <1>1, <1>4 DEF JobFacts
  <2>4. \A j \in Jobs :
          /\ wr[j] # "none" => st2[j] \in {wr[j], "cleared"} /\ j \notin act \cup S
          /\ st2[j] \in Terminal \ {"cancelled"} => wr[j] = st2[j]
          /\ st2[j] = "cancelled" /\ j \notin act \cup S => wr[j] = "cancelled"
          /\ st2[j] = "cleared" => wr[j] = "completed"
    BY <1>1, <1>2, <1>4 DEF JobFacts, Terminal
  <2> QED
    BY <2>1, <2>2, <2>3, <2>4 DEF JobFacts
<1> QED
  BY <1>3, <1>5 DEF st2, rn2

(* The named invariants are the conjuncts of JobFacts and back.            *)
LEMMA JobInvImplies ==
  JobInv => SlotsMatchRuns /\ HeldIffPaused /\ WaiterAgrees
  BY DEF JobInv, JobFacts, SlotsMatchRuns, HeldIffPaused, WaiterAgrees

LEMMA InitIInv == Init => IInv
<1> SUFFICES ASSUME Init PROVE IInv
  OBVIOUS
<1>0. 0 \in 0 .. MaxRetries
  BY RetriesAssumption
<1>1. TypeOK
  BY <1>0 DEF Init, TypeOK, Statuses, Open, Terminal, Stages
<1>2. JobInv
  BY DEF Init, JobInv, JobFacts, Terminal
<1>3. NoLostWakeup /\ WaitForAllIsWoken
  BY DEF Init, NoLostWakeup, WaitForAllIsWoken, Waiting
<1> QED
  BY <1>1, <1>2, <1>3 DEF IInv

LEMMA AddJobKeepsIInv ==
  ASSUME IInv, NEW j \in Jobs, AddJob(j)
  PROVE  IInv'
<1> DEFINE st == [status EXCEPT ![j] = "pending"]
<1>t. TypeOK /\ JobInv
  BY DEF IInv
<1>1. /\ status[j] = "absent"
      /\ contexts' = contexts \cup {j}
      /\ place' \in [Jobs -> Nat]
      /\ ProcessQueue(st, run, place', active, contexts', concurrency)
      /\ UNCHANGED <<concurrency, aborted, held, retries, kick, waitResult, waitingAll>>
  <2>1. Cardinality({k \in Jobs : status[k] # "absent"}) \in Nat
    BY SlotsAreCounted
  <2> QED
    BY <2>1, <1>t DEF AddJob, TypeOK
<1>2. PICK S \in SUBSET Waiting(st, active) :
        /\ IsBatch(S, st, place', active, contexts', concurrency)
        /\ active' = active \cup S
        /\ status' = StartedStatus(S, st)
        /\ run' = StartedRun(S, run)
  BY <1>1 DEF ProcessQueue, StartedStatus, StartedRun
<1>3. st \in [Jobs -> Statuses]
  BY <1>t DEF TypeOK, Statuses, Open
<1>4. JobFacts(st, run, active, contexts', aborted', held', waitResult')
  BY <1>t, <1>1 DEF JobInv, JobFacts, TypeOK, Terminal
<1>5. Waiting(st, active) \subseteq contexts'
  BY <1>4 DEF Waiting, JobFacts
<1>6. st[j] = "pending"
  BY <1>t DEF TypeOK
<1> HIDE DEF st
<1>7. /\ status' \in [Jobs -> Statuses]
      /\ run' \in [Jobs -> Stages]
      /\ active' \in SUBSET Jobs
      /\ JobInv'
  <2>1. /\ run \in [Jobs -> Stages] /\ active \in SUBSET Jobs
        /\ waitResult' \in [Jobs -> Terminal \cup {"none"}]
    BY <1>t, <1>1 DEF TypeOK
  <2>2. /\ StartedStatus(S, st) \in [Jobs -> Statuses]
        /\ StartedRun(S, run) \in [Jobs -> Stages]
        /\ active \cup S \in SUBSET Jobs
        /\ JobFacts(StartedStatus(S, st), StartedRun(S, run), active \cup S,
                    contexts', aborted', held', waitResult')
    BY <2>1, <1>3, <1>4, BatchKeepsJobFacts
  <2> QED
    BY <2>2, <1>2 DEF JobInv
<1>8. TypeOK'
  BY <1>t, <1>1, <1>7 DEF TypeOK
<1>9. NoLostWakeup'
  BY <1>1, <1>2, <1>5, BatchFillsSlots DEF NoLostWakeup
<1>10. WaitForAllIsWoken'
  BY <1>2, <1>6 DEF WaitForAllIsWoken, StartedStatus, Open
<1> QED
  BY <1>7, <1>8, <1>9, <1>10 DEF IInv

LEMMA PauseKeepsIInv ==
  ASSUME IInv, NEW j \in Jobs, PauseJob(j)
  PROVE  IInv'
<1>t. TypeOK /\ JobInv
  BY DEF IInv
<1>1. TypeOK'
  BY <1>t DEF PauseJob, TypeOK, Statuses, Open
<1>2. JobInv'
  BY <1>t DEF PauseJob, TypeOK, JobInv, JobFacts, Terminal
<1>3. NoLostWakeup'
  BY <1>t DEF IInv, PauseJob, TypeOK, NoLostWakeup, Waiting
<1>4. WaitForAllIsWoken'
  BY <1>t DEF IInv, PauseJob, TypeOK, WaitForAllIsWoken, Open
<1> QED
  BY <1>1, <1>2, <1>3, <1>4 DEF IInv

LEMMA ResumeKeepsIInv ==
  ASSUME IInv, NEW j \in Jobs, ResumeJob(j)
  PROVE  IInv'
<1>t. TypeOK /\ JobInv
  BY DEF IInv
<1>1. TypeOK'
  BY <1>t DEF ResumeJob, ResumeWith, TypeOK, Statuses, Open
<1>2. JobInv'
  BY <1>t DEF ResumeJob, ResumeWith, TypeOK, JobInv, JobFacts, Terminal
<1>3. NoLostWakeup'
  BY <1>t DEF IInv, ResumeJob, ResumeWith, TypeOK, NoLostWakeup, Waiting
<1>4. WaitForAllIsWoken'
  BY <1>t DEF IInv, ResumeJob, ResumeWith, TypeOK, WaitForAllIsWoken, Open
<1> QED
  BY <1>1, <1>2, <1>3, <1>4 DEF IInv

(* cancelJob and cancelAll: open jobs that all have a context.             *)
LEMMA CancelKeepsIInv ==
  ASSUME IInv, NEW S \in SUBSET contexts, \A j \in S : status[j] \in Open, Cancel(S)
  PROVE  IInv'
<1>t. TypeOK /\ JobInv
  BY DEF IInv
<1>1. TypeOK'
  <2>1. status' \in [Jobs -> Statuses] /\ waitResult' \in [Jobs -> Terminal \cup {"none"}]
    BY <1>t DEF Cancel, CancelWith, TypeOK, Statuses, Terminal, Resolved
  <2>2. waitingAll' \in BOOLEAN
    BY <1>t DEF Cancel, CancelWith, TypeOK, StillWaiting
  <2> QED
    BY <1>t, <2>1, <2>2 DEF Cancel, CancelWith, TypeOK
<1>2. \A j \in S : j \in Jobs /\ waitResult[j] = "none"
  BY <1>t DEF TypeOK, JobInv, JobFacts, Open, Terminal
<1>3. JobInv'
  BY <1>t, <1>2 DEF Cancel, CancelWith, Resolved, TypeOK, JobInv, JobFacts, Terminal, Open
<1>4. NoLostWakeup'
  BY <1>t DEF IInv, Cancel, CancelWith, TypeOK, NoLostWakeup, Waiting
<1>5. WaitForAllIsWoken'
  <2>1. CASE S \subseteq active
    BY <2>1, <1>t DEF IInv, Cancel, CancelWith, TypeOK, WaitForAllIsWoken
  <2>2. CASE ~(S \subseteq active)
    BY <2>2 DEF Cancel, CancelWith, StillWaiting, WaitForAllIsWoken
  <2> QED
    BY <2>1, <2>2
<1> QED
  BY <1>1, <1>3, <1>4, <1>5 DEF IInv

LEMMA RunKickKeepsIInv ==
  ASSUME IInv, RunKick
  PROVE  IInv'
<1>t. TypeOK /\ JobInv
  BY DEF IInv
<1>1. /\ kick' = FALSE
      /\ ProcessQueue(status, run, place, active, contexts, concurrency)
      /\ UNCHANGED <<place, contexts, concurrency, aborted, held, retries,
                     waitResult, waitingAll>>
  BY DEF RunKick
<1>2. PICK S \in SUBSET Waiting(status, active) :
        /\ IsBatch(S, status, place, active, contexts, concurrency)
        /\ active' = active \cup S
        /\ status' = StartedStatus(S, status)
        /\ run' = StartedRun(S, run)
  BY <1>1 DEF ProcessQueue, StartedStatus, StartedRun
<1>3. Waiting(status, active) \subseteq contexts
  BY <1>t DEF Waiting, JobInv, JobFacts
<1>4. /\ status' \in [Jobs -> Statuses]
      /\ run' \in [Jobs -> Stages]
      /\ active' \in SUBSET Jobs
      /\ JobInv'
  BY <1>t, <1>1, <1>2, BatchKeepsJobFacts DEF TypeOK, JobInv
<1>5. TypeOK'
  BY <1>t, <1>1, <1>4 DEF TypeOK
<1>6. NoLostWakeup'
  BY <1>1, <1>2, <1>3, BatchFillsSlots DEF NoLostWakeup
<1>7. WaitForAllIsWoken'
  BY <1>1, <1>2, <1>t DEF IInv, TypeOK, WaitForAllIsWoken, StartedStatus, Open
<1> QED
  BY <1>4, <1>5, <1>6, <1>7 DEF IInv

LEMMA SetConcurrencyKeepsIInv ==
  ASSUME IInv, NEW level \in ConcurrencyLevels, SetConcurrency(level)
  PROVE  IInv'
<1>t. TypeOK /\ JobInv
  BY DEF IInv
<1>1. /\ concurrency' = level
      /\ ProcessQueue(status, run, place, active, contexts, level)
      /\ UNCHANGED <<place, contexts, aborted, held, retries, kick,
                     waitResult, waitingAll>>
  BY DEF SetConcurrency
<1>2. PICK S \in SUBSET Waiting(status, active) :
        /\ IsBatch(S, status, place, active, contexts, level)
        /\ active' = active \cup S
        /\ status' = StartedStatus(S, status)
        /\ run' = StartedRun(S, run)
  BY <1>1 DEF ProcessQueue, StartedStatus, StartedRun
<1>3. Waiting(status, active) \subseteq contexts
  BY <1>t DEF Waiting, JobInv, JobFacts
<1>4. /\ status' \in [Jobs -> Statuses]
      /\ run' \in [Jobs -> Stages]
      /\ active' \in SUBSET Jobs
      /\ JobInv'
  BY <1>t, <1>1, <1>2, BatchKeepsJobFacts DEF TypeOK, JobInv
<1>5. TypeOK'
  BY <1>t, <1>1, <1>4 DEF TypeOK
<1>6. NoLostWakeup'
  BY <1>1, <1>2, <1>3, BatchFillsSlots DEF NoLostWakeup
<1>7. WaitForAllIsWoken'
  BY <1>1, <1>2, <1>t DEF IInv, TypeOK, WaitForAllIsWoken, StartedStatus, Open
<1> QED
  BY <1>4, <1>5, <1>6, <1>7 DEF IInv

LEMMA ClearCompletedKeepsIInv ==
  ASSUME IInv, ClearCompleted
  PROVE  IInv'
<1>t. TypeOK /\ JobInv
  BY DEF IInv
<1>1. TypeOK'
  BY <1>t DEF ClearCompleted, TypeOK, Statuses
<1>2. JobInv'
  BY <1>t DEF ClearCompleted, TypeOK, JobInv, JobFacts, Terminal
<1>3. NoLostWakeup'
  BY <1>t DEF IInv, ClearCompleted, TypeOK, NoLostWakeup, Waiting
<1>4. WaitForAllIsWoken'
  BY <1>t DEF IInv, ClearCompleted, TypeOK, WaitForAllIsWoken, Open
<1> QED
  BY <1>1, <1>2, <1>3, <1>4 DEF IInv

LEMMA WaitForAllKeepsIInv ==
  ASSUME IInv, WaitForAll
  PROVE  IInv'
<1>1. TypeOK'
  BY DEF IInv, WaitForAll, TypeOK
<1>2. JobInv'
  BY DEF IInv, WaitForAll, JobInv
<1>3. NoLostWakeup'
  BY DEF IInv, WaitForAll, NoLostWakeup, Waiting
<1>4. WaitForAllIsWoken'
  BY DEF WaitForAll, WaitForAllIsWoken
<1> QED
  BY <1>1, <1>2, <1>3, <1>4 DEF IInv

(* The end of a run: the slot of j is freed, and the queue moves on.       *)
LEMMA SettleKeepsIInv ==
  ASSUME IInv, NEW j \in Jobs, NEW how \in Terminal, run[j] # "none",
         status[j] = "cancelled" => how = "cancelled",
         Settle(j, how)
  PROVE  IInv'
<1> DEFINE st  == [status EXCEPT ![j] = how]
           rn  == [run EXCEPT ![j] = "none"]
           act == active \ {j}
<1>t. TypeOK /\ JobInv
  BY DEF IInv
<1>1. /\ waitResult' = Resolved({j}, how)
      /\ waitingAll' = StillWaiting(st)
      /\ contexts' = contexts \ {j}
      /\ aborted' = aborted \ {j}
      /\ held' = held \ {j}
      /\ retries' = [retries EXCEPT ![j] = 0]
      /\ ProcessQueue(st, rn, place, act, contexts', concurrency)
      /\ UNCHANGED <<place, concurrency, kick>>
  BY DEF Settle, SettleWith
<1>2. PICK S \in SUBSET Waiting(st, act) :
        /\ IsBatch(S, st, place, act, contexts', concurrency)
        /\ active' = act \cup S
        /\ status' = StartedStatus(S, st)
        /\ run' = StartedRun(S, rn)
  BY <1>1 DEF ProcessQueue, StartedStatus, StartedRun
<1>3. /\ st \in [Jobs -> Statuses] /\ rn \in [Jobs -> Stages] /\ act \in SUBSET Jobs
      /\ waitResult' \in [Jobs -> Terminal \cup {"none"}]
  BY <1>t, <1>1 DEF TypeOK, Statuses, Stages, Resolved
<1>4. JobFacts(st, rn, act, contexts', aborted', held', waitResult')
  <2>1. j \in active /\ waitResult[j] = "none"
    BY <1>t DEF TypeOK, JobInv, JobFacts
  <2>2. /\ \A k \in Jobs \ {j} : st[k] = status[k] /\ rn[k] = run[k]
                                /\ waitResult'[k] = waitResult[k]
        /\ st[j] = how /\ rn[j] = "none" /\ waitResult'[j] = how
    BY <2>1, <1>t, <1>1 DEF TypeOK, Resolved
  <2>3. how # "none" /\ how # "cleared" /\ how \notin {"pending", "running", "paused"}
    BY DEF Terminal
  <2> HIDE DEF st, rn
  <2>4. /\ act = {k \in Jobs : rn[k] # "none"}
        /\ act \subseteq contexts'
        /\ \A k \in act : st[k] \in {"running", "paused", "cancelled"}
    BY <2>1, <2>2, <2>3, <1>1, <1>t DEF TypeOK, JobInv, JobFacts
  <2>5. /\ \A k \in Jobs : st[k] \in {"pending", "running", "paused"} => k \in contexts'
        /\ \A k \in Jobs : st[k] = "running" => k \in act
        /\ held' = {k \in act : st[k] = "paused"}
        /\ aborted' = {k \in act : st[k] = "cancelled"}
    BY <2>1, <2>2, <2>3, <1>1, <1>t DEF TypeOK, JobInv, JobFacts
  <2>6. \A k \in Jobs :
          /\ waitResult'[k] # "none" =>
               st[k] \in {waitResult'[k], "cleared"} /\ k \notin act
          /\ st[k] \in Terminal \ {"cancelled"} => waitResult'[k] = st[k]
          /\ st[k] = "cancelled" /\ k \notin act => waitResult'[k] = "cancelled"
          /\ st[k] = "cleared" => waitResult'[k] = "completed"
    BY <2>1, <2>2, <2>3, <1>t DEF TypeOK, JobInv, JobFacts
  <2> QED
    BY <2>4, <2>5, <2>6 DEF JobFacts
<1>5. Waiting(st, act) \subseteq contexts'
  BY <1>4 DEF Waiting, JobFacts
<1>6. waitingAll' \in BOOLEAN
  BY <1>t, <1>1 DEF TypeOK, StillWaiting
<1>7. retries' \in [Jobs -> 0 .. MaxRetries]
  BY <1>t, <1>1, RetriesAssumption DEF TypeOK
<1> HIDE DEF st, rn, act
<1>8. /\ status' \in [Jobs -> Statuses]
      /\ run' \in [Jobs -> Stages]
      /\ active' \in SUBSET Jobs
      /\ JobInv'
  <2>1. /\ StartedStatus(S, st) \in [Jobs -> Statuses]
        /\ StartedRun(S, rn) \in [Jobs -> Stages]
        /\ act \cup S \in SUBSET Jobs
        /\ JobFacts(StartedStatus(S, st), StartedRun(S, rn), act \cup S,
                    contexts', aborted', held', waitResult')
    BY <1>3, <1>4, BatchKeepsJobFacts
  <2> QED
    BY <2>1, <1>2 DEF JobInv
<1>9. TypeOK'
  BY <1>t, <1>1, <1>3, <1>6, <1>7, <1>8 DEF TypeOK
<1>10. NoLostWakeup'
  BY <1>1, <1>2, <1>5, BatchFillsSlots DEF NoLostWakeup
<1>11. WaitForAllIsWoken'
  BY <1>1, <1>2 DEF WaitForAllIsWoken, StillWaiting, StartedStatus, Open
<1> QED
  BY <1>8, <1>9, <1>10, <1>11 DEF IInv

(* Progress inside a run changes nothing but the stage.                    *)
LEMMA AdvanceKeepsIInv ==
  ASSUME IInv, NEW j \in Jobs, NEW stage \in Stages \ {"none"},
         run[j] # "none", Advance(j, stage)
  PROVE  IInv'
<1>1. TypeOK'
  BY DEF IInv, Advance, TypeOK
<1>2. JobInv'
  BY DEF IInv, TypeOK, Advance, JobInv, JobFacts
<1>3. NoLostWakeup'
  BY DEF IInv, Advance, NoLostWakeup, Waiting
<1>4. WaitForAllIsWoken'
  BY DEF IInv, Advance, WaitForAllIsWoken
<1> QED
  BY <1>1, <1>2, <1>3, <1>4 DEF IInv

LEMMA RetryKeepsIInv ==
  ASSUME IInv, NEW j \in Jobs, Retry(j)
  PROVE  IInv'
<1>1. TypeOK'
  <2>1. retries[j] \in Nat /\ retries[j] + 1 \in 0 .. MaxRetries
    BY RetriesAssumption DEF IInv, Retry, TypeOK
  <2> QED
    BY <2>1 DEF IInv, Retry, TypeOK, Stages
<1>2. JobInv'
  BY DEF IInv, TypeOK, Retry, JobInv, JobFacts
<1>3. NoLostWakeup'
  BY DEF IInv, Retry, NoLostWakeup, Waiting
<1>4. WaitForAllIsWoken'
  BY DEF IInv, Retry, WaitForAllIsWoken
<1> QED
  BY <1>1, <1>2, <1>3, <1>4 DEF IInv

LEMMA FaultKeepsIInv ==
  ASSUME IInv, NEW j \in Jobs, Fault(j)
  PROVE  IInv'
<1>1. PICK how \in {"cancelled", "failed"} :
        /\ run[j] # "none"
        /\ status[j] = "cancelled" => how = "cancelled"
        /\ Settle(j, how)
  BY DEF Fault, Rejected, Cancelled
<1> QED
  BY <1>1, SettleKeepsIInv DEF Terminal

LEMMA CopyProgressKeepsIInv ==
  ASSUME IInv, NEW j \in Jobs, CopyProgress(j)
  PROVE  IInv'
<1>1. CASE Prepared(j)
  BY <1>1, AdvanceKeepsIInv DEF Prepared, Stages
<1>2. CASE Flush(j)
  BY <1>2, AdvanceKeepsIInv DEF Flush, Stages
<1>3. CASE StreamsEnd(j)
  BY <1>3, AdvanceKeepsIInv DEF StreamsEnd, Stages
<1>4. CASE AbortSeen(j)
  <2>1. run[j] # "none" /\ Settle(j, "cancelled")
    BY <1>4 DEF AbortSeen, Rejected
  <2> QED
    BY <2>1, SettleKeepsIInv DEF Terminal
<1>5. CASE Fulfilled(j)
  <2>1. PICK how \in {"cancelled", "completed"} :
          /\ run[j] # "none"
          /\ status[j] = "cancelled" => how = "cancelled"
          /\ Settle(j, how)
    BY <1>5 DEF Fulfilled, Cancelled
  <2> QED
    BY <2>1, SettleKeepsIInv DEF Terminal
<1> QED
  BY <1>1, <1>2, <1>3, <1>4, <1>5 DEF CopyProgress

LEMMA NextKeepsIInv == IInv /\ [Next]_vars => IInv'
<1> SUFFICES ASSUME IInv, [Next]_vars PROVE IInv'
  OBVIOUS
<1>c. contexts \subseteq Jobs
  BY DEF IInv, TypeOK
<1>1. ASSUME NEW j \in Jobs, CancelJob(j) PROVE IInv'
  BY <1>1, CancelKeepsIInv DEF CancelJob
<1>2. CASE CancelAll
  BY <1>2, CancelKeepsIInv DEF CancelAll
<1>3. CASE UNCHANGED vars
  <2>1. TypeOK'
    BY <1>3 DEF IInv, vars, TypeOK
  <2>2. JobInv'
    BY <1>3 DEF IInv, vars, JobInv
  <2>3. NoLostWakeup' /\ WaitForAllIsWoken'
    BY <1>3 DEF IInv, vars, NoLostWakeup, Waiting, WaitForAllIsWoken
  <2> QED
    BY <2>1, <2>2, <2>3 DEF IInv
<1> QED
  BY <1>1, <1>2, <1>3, AddJobKeepsIInv, PauseKeepsIInv, ResumeKeepsIInv,
     RunKickKeepsIInv, SetConcurrencyKeepsIInv, ClearCompletedKeepsIInv,
     WaitForAllKeepsIInv, FaultKeepsIInv, RetryKeepsIInv, CopyProgressKeepsIInv
  DEF Next

(* The inductive invariant holds in every reachable state.                 *)
THEOREM QueueInvariant == Spec => []IInv
<1> QED
  BY InitIInv, NextKeepsIInv, PTL DEF Spec

(* Type correctness of the queue's state.                                  *)
THEOREM TypeCorrect == Spec => []TypeOK
<1>1. IInv => TypeOK
  BY DEF IInv
<1> QED
  BY <1>1, QueueInvariant, PTL

(* Slots and runs agree: no slot leaks and no running copy lacks a slot,   *)
(* for any number of jobs and any limits, even when the limit is lowered.  *)
THEOREM SlotsNeverLeak == Spec => []SlotsMatchRuns
<1>1. IInv => SlotsMatchRuns
  BY JobInvImplies DEF IInv
<1> QED
  BY <1>1, QueueInvariant, PTL

(* A waiting job beside a free slot always has a wake-up on its way.       *)
THEOREM WakeupIsNeverLost == Spec => []NoLostWakeup
<1>1. IInv => NoLostWakeup
  BY DEF IInv
<1> QED
  BY <1>1, QueueInvariant, PTL

(* The pause controllers follow the status shown to the user.              *)
THEOREM PauseFollowsStatus == Spec => []HeldIffPaused
<1>1. IInv => HeldIffPaused
  BY JobInvImplies DEF IInv
<1> QED
  BY <1>1, QueueInvariant, PTL

(* The waiters of a job are told its final status and nothing else.        *)
THEOREM WaitersAreToldTheTruth == Spec => []WaiterAgrees
<1>1. IInv => WaiterAgrees
  BY JobInvImplies DEF IInv
<1> QED
  BY <1>1, QueueInvariant, PTL

(* An outstanding waitForAll always has an event to wake it.               *)
THEOREM WaitForAllWillBeWoken == Spec => []WaitForAllIsWoken
<1>1. IInv => WaitForAllIsWoken
  BY DEF IInv
<1> QED
  BY <1>1, QueueInvariant, PTL

(* So nobody who waits for the queue is misled or left behind.             *)
THEOREM NobodyWaitsInVain == Spec => []WaitersAreTold
<1>1. WaiterAgrees /\ WaitForAllIsWoken => WaitersAreTold
  BY DEF WaitersAreTold
<1> QED
  BY <1>1, WaitersAreToldTheTruth, WaitForAllWillBeWoken, PTL

-----------------------------------------------------------------------------
(* The queue implements TransferLifecycle.                                 *)

(* Starting a batch is invisible to the callers.                           *)
LEMMA BatchIsInvisible ==
  ASSUME NEW st, NEW act, NEW wr, NEW S \in SUBSET Waiting(st, act),
         NEW j \in Jobs, wr[j] = "none" \/ j \notin S
  PROVE  PhaseOf(StartedStatus(S, st)[j], wr[j]) = PhaseOf(st[j], wr[j])
  BY DEF Waiting, StartedStatus, PhaseOf

(* What a step that keeps every phase and every outcome is to a caller.    *)
LEMMA SamePhasesStutter ==
  ASSUME waitResult' = waitResult,
         \A j \in Jobs : PhaseOf(status'[j], waitResult[j]) = PhaseOf(status[j], waitResult[j])
  PROVE  UNCHANGED Lifecycle!lifecycleVars
  BY DEF Lifecycle!lifecycleVars, Phases

LEMMA AddJobRefines ==
  ASSUME IInv, NEW j \in Jobs, AddJob(j)
  PROVE  Lifecycle!Submit(j)
<1> DEFINE st == [status EXCEPT ![j] = "pending"]
<1>1. /\ status[j] = "absent" /\ waitResult' = waitResult
      /\ ProcessQueue(st, run, place', active, contexts', concurrency)
  BY DEF AddJob
<1>2. PICK S \in SUBSET Waiting(st, active) : status' = StartedStatus(S, st)
  BY <1>1 DEF ProcessQueue, StartedStatus
<1>3. waitResult[j] = "none"
  BY <1>1 DEF IInv, TypeOK, JobInv, JobFacts, Terminal
<1>4. \A k \in Waiting(st, active) : waitResult[k] = "none"
  BY <1>3 DEF IInv, TypeOK, JobInv, JobFacts, Terminal, Waiting
<1>5. \A k \in Jobs : st[k] = IF k = j THEN "pending" ELSE status[k]
  BY DEF IInv, TypeOK
<1> HIDE DEF st
<1>6. \A k \in Jobs : PhaseOf(status'[k], waitResult[k]) = PhaseOf(st[k], waitResult[k])
  BY <1>2, <1>4, BatchIsInvisible
<1>7. \A k \in Jobs : PhaseOf(status'[k], waitResult[k]) =
                        IF k = j THEN "open" ELSE PhaseOf(status[k], waitResult[k])
  BY <1>3, <1>5, <1>6 DEF PhaseOf
<1> QED
  BY <1>1, <1>3, <1>7 DEF Lifecycle!Submit, Phases, PhaseOf

LEMMA ProcessQueueRefines ==
  ASSUME IInv, RunKick \/ \E level \in ConcurrencyLevels : SetConcurrency(level)
  PROVE  UNCHANGED Lifecycle!lifecycleVars
<1>1. PICK S \in SUBSET Waiting(status, active) :
        /\ status' = StartedStatus(S, status)
        /\ waitResult' = waitResult
  BY DEF RunKick, SetConcurrency, ProcessQueue, StartedStatus
<1>2. \A k \in Waiting(status, active) : waitResult[k] = "none"
  BY DEF IInv, TypeOK, JobInv, JobFacts, Terminal, Waiting
<1>3. \A k \in Jobs : PhaseOf(status'[k], waitResult[k]) = PhaseOf(status[k], waitResult[k])
  BY <1>1, <1>2, BatchIsInvisible
<1> QED
  BY <1>1, <1>3, SamePhasesStutter

LEMMA CancelRefines ==
  ASSUME IInv, NEW S \in SUBSET contexts, \A j \in S : status[j] \in Open, Cancel(S)
  PROVE  Lifecycle!Cancel(S, S \ active)
<1>1. \A j \in S : /\ j \in Jobs /\ waitResult[j] = "none"
                   /\ status[j] # "absent" /\ status[j] # "cancelled"
  BY DEF IInv, TypeOK, JobInv, JobFacts, Open, Terminal
<1>2. /\ \A j \in Jobs : status'[j] = IF j \in S THEN "cancelled" ELSE status[j]
      /\ waitResult' = [j \in Jobs |-> IF j \in S \ active THEN "cancelled"
                                       ELSE waitResult[j]]
  BY <1>1 DEF Cancel, CancelWith, Resolved
<1>3. \A j \in S : Phases[j] = "open"
  BY <1>1 DEF Phases, PhaseOf
<1>4. \A j \in Jobs : Phases'[j] = IF j \in S
                                  THEN IF j \in S \ active THEN "closed" ELSE "ending"
                                  ELSE Phases[j]
  BY <1>1, <1>2 DEF Phases, PhaseOf
<1>5. Phases' = [j \in Jobs |-> Phases'[j]]
  BY DEF Phases
<1>6. Phases' = [j \in Jobs |-> IF j \in S
                               THEN IF j \in S \ active THEN "closed" ELSE "ending"
                               ELSE Phases[j]]
  BY <1>4, <1>5
<1>7. S \cap (S \ active) = S \ active
  OBVIOUS
<1> QED
  BY <1>2, <1>3, <1>6, <1>7 DEF Lifecycle!Cancel

LEMMA SettleRefines ==
  ASSUME IInv, NEW j \in Jobs, NEW how \in Terminal, run[j] # "none",
         status[j] = "cancelled" => how = "cancelled",
         Settle(j, how)
  PROVE  Lifecycle!Finish(j, how)
<1> DEFINE st == [status EXCEPT ![j] = how]
           act == active \ {j}
<1>1. /\ waitResult' = Resolved({j}, how)
      /\ ProcessQueue(st, [run EXCEPT ![j] = "none"], place, act, contexts', concurrency)
  BY DEF Settle, SettleWith
<1>2. PICK S \in SUBSET Waiting(st, act) : status' = StartedStatus(S, st)
  BY <1>1 DEF ProcessQueue, StartedStatus
<1>3. /\ waitResult[j] = "none"
      /\ status[j] \in {"running", "paused", "cancelled"}
  BY DEF IInv, TypeOK, JobInv, JobFacts
<1>4. waitResult' = [waitResult EXCEPT ![j] = how]
  BY <1>1, <1>3 DEF Resolved, IInv, TypeOK
<1>5. \A k \in Jobs : st[k] = IF k = j THEN how ELSE status[k]
  BY DEF IInv, TypeOK
<1>6. \A k \in Waiting(st, act) : k # j /\ waitResult'[k] = "none"
  BY <1>4, <1>5 DEF IInv, TypeOK, JobInv, JobFacts, Terminal, Waiting
<1> HIDE DEF st, act
<1>7. \A k \in Jobs : PhaseOf(status'[k], waitResult'[k]) = PhaseOf(st[k], waitResult'[k])
  BY <1>2, <1>6, BatchIsInvisible
<1>8. \A k \in Jobs : Phases'[k] = IF k = j THEN "closed" ELSE Phases[k]
  BY <1>3, <1>4, <1>5, <1>7 DEF Phases, PhaseOf, IInv, TypeOK, Terminal
<1>9. Phases' = [Phases EXCEPT ![j] = "closed"]
  BY <1>8 DEF Phases
<1>10. \/ Phases[j] = "open"
       \/ Phases[j] = "ending" /\ how = "cancelled"
  BY <1>3 DEF Phases, PhaseOf
<1> QED
  BY <1>4, <1>9, <1>10 DEF Lifecycle!Finish

(* A step that leaves every status alone, or only pauses, resumes or clears. *)
LEMMA QuietStepRefines ==
  ASSUME IInv,
         \/ \E j \in Jobs : PauseJob(j) \/ ResumeJob(j) \/ Retry(j)
                            \/ \E stage \in Stages : Advance(j, stage)
         \/ ClearCompleted
         \/ WaitForAll
  PROVE  UNCHANGED Lifecycle!lifecycleVars
<1>1. ASSUME NEW j \in Jobs, PauseJob(j) \/ ResumeJob(j)
      PROVE  /\ waitResult' = waitResult
             /\ \A k \in Jobs : PhaseOf(status'[k], waitResult[k]) = PhaseOf(status[k], waitResult[k])
  BY <1>1 DEF PauseJob, ResumeJob, ResumeWith, IInv, TypeOK, PhaseOf
<1>2. CASE ClearCompleted
  BY <1>2, SamePhasesStutter
  DEF ClearCompleted, IInv, TypeOK, JobInv, JobFacts, Terminal, PhaseOf
<1> QED
  BY <1>1, <1>2, SamePhasesStutter DEF Retry, Advance, WaitForAll

LEMMA CopyProgressRefines ==
  ASSUME IInv, NEW j \in Jobs, Fault(j) \/ CopyProgress(j)
  PROVE  [Lifecycle!Next]_(Lifecycle!lifecycleVars)
<1>1. CASE Prepared(j) \/ Flush(j) \/ StreamsEnd(j)
  BY <1>1, QuietStepRefines DEF Prepared, Flush, StreamsEnd, Stages
<1>2. CASE Fault(j) \/ AbortSeen(j) \/ Fulfilled(j)
  <2>1. PICK how \in Terminal : /\ run[j] # "none"
                                /\ status[j] = "cancelled" => how = "cancelled"
                                /\ Settle(j, how)
    BY <1>2 DEF Fault, AbortSeen, Fulfilled, Rejected, Cancelled, Terminal
  <2>2. Lifecycle!Finish(j, how)
    BY <2>1, SettleRefines
  <2> QED
    BY <2>2 DEF Lifecycle!Next, Lifecycle!Outcomes, Terminal
<1> QED
  BY <1>1, <1>2 DEF CopyProgress

(* Every step of the queue is a step of the lifecycle or invisible.        *)
LEMMA NextRefines ==
  IInv /\ [Next]_vars => [Lifecycle!Next]_(Lifecycle!lifecycleVars)
<1> SUFFICES ASSUME IInv, [Next]_vars
             PROVE  [Lifecycle!Next]_(Lifecycle!lifecycleVars)
  OBVIOUS
<1>1. ASSUME NEW j \in Jobs, AddJob(j) PROVE Lifecycle!Next
  BY <1>1, AddJobRefines DEF Lifecycle!Next
<1>2. CASE \E j \in Jobs : PauseJob(j) \/ ResumeJob(j) \/ Retry(j)
  BY <1>2, QuietStepRefines
<1>3. ASSUME NEW S \in SUBSET contexts, \A j \in S : status[j] \in Open, Cancel(S)
      PROVE  Lifecycle!Next
  <2>1. Lifecycle!Cancel(S, S \ active)
    BY <1>3, CancelRefines
  <2>2. S \in SUBSET Jobs /\ S \ active \in SUBSET S
    BY DEF IInv, TypeOK
  <2> QED
    BY <2>1, <2>2 DEF Lifecycle!Next
<1>4. CASE CancelAll \/ \E j \in Jobs : CancelJob(j)
  <2>1. PICK S \in SUBSET contexts : (\A j \in S : status[j] \in Open) /\ Cancel(S)
    BY <1>4 DEF CancelAll, CancelJob
  <2> QED
    BY <2>1, <1>3
<1>5. CASE \E j \in Jobs : Fault(j) \/ CopyProgress(j)
  BY <1>5, CopyProgressRefines
<1>6. CASE RunKick \/ \E level \in ConcurrencyLevels : SetConcurrency(level)
  BY <1>6, ProcessQueueRefines
<1>7. CASE ClearCompleted \/ WaitForAll
  BY <1>7, QuietStepRefines
<1>8. CASE UNCHANGED vars
  BY <1>8 DEF vars, Lifecycle!lifecycleVars, Phases
<1> QED
  BY <1>1, <1>2, <1>4, <1>5, <1>6, <1>7, <1>8 DEF Next

(* The queue implements the lifecycle its callers rely on: one outcome per *)
(* job, never revised, and no accepted cancel ends as completed or failed. *)
THEOREM QueueImplementsLifecycle == Spec => RefinesLifecycle
<1>1. Init => Lifecycle!Init
  BY DEF Init, Lifecycle!Init, Phases, PhaseOf
<1> QED
  BY <1>1, NextRefines, QueueInvariant, PTL DEF Spec, RefinesLifecycle, Lifecycle!Spec

-----------------------------------------------------------------------------
(* The list is served in its order. *)

\* The jobs that were ever in the list have ranks of their own, and a new
\* one goes to the end.
Added == {j \in Jobs : status[j] # "absent"}
PlacesInOrder ==
  /\ \A j \in Added : place[j] \in 1 .. Cardinality(Added)
  /\ \A j, k \in Added : place[j] = place[k] => j = k

(* No job is started while one ahead of it in the list is left waiting,     *)
(* whatever was added, resumed, cancelled or cleared before: the loop of    *)
(* processQueue takes the jobs in their order.                             *)
InOrder ==
  \A j, k \in Jobs :
    run[k] = "none" /\ run'[k] # "none" /\ status'[j] = "pending" => place'[k] < place'[j]
StartsInOrder == [][InOrder]_vars

\* What processQueue starts it starts in order, if it starts what did not run.
LEMMA BatchStartsInOrder ==
  ASSUME NEW st, NEW rn, NEW act, NEW ctx, NEW limit, IInv', PlacesInOrder',
         \A k \in Jobs : run[k] = "none" => rn[k] = "none",
         ProcessQueue(st, rn, place', act, ctx, limit)
  PROVE  InOrder
<1>1. PICK S \in SUBSET Waiting(st, act) :
        /\ IsBatch(S, st, place', act, ctx, limit)
        /\ active' = act \cup S
        /\ status' = StartedStatus(S, st)
        /\ run' = StartedRun(S, rn)
  BY DEF ProcessQueue, StartedStatus, StartedRun
<1> SUFFICES ASSUME NEW j \in Jobs, NEW k \in Jobs,
                    run[k] = "none", run'[k] # "none", status'[j] = "pending"
             PROVE  place'[k] < place'[j]
  BY DEF InOrder
<1>2. k \in S
  BY <1>1 DEF StartedRun
<1>3. j \notin S /\ st[j] = "pending"
  BY <1>1 DEF StartedStatus
<1>4. j \notin act
  BY <1>1 DEF IInv, JobInv, JobFacts
<1>5. j \in Waiting(st, act) /\ k \in Waiting(st, act)
  BY <1>2, <1>3, <1>4 DEF Waiting
<1>6. ~ (place'[j] < place'[k])
  BY <1>1, <1>2, <1>3, <1>5 DEF IsBatch
<1>7. status'[k] = "running"
  BY <1>1, <1>2 DEF StartedStatus
<1>8. place'[j] # place'[k]
  BY <1>2, <1>3, <1>7 DEF PlacesInOrder, Added
<1>9. place'[j] \in Nat /\ place'[k] \in Nat
  BY DEF IInv, TypeOK
<1> QED
  BY <1>6, <1>8, <1>9

\* A job that is added gets the next rank; nothing else changes a rank.
LEMMA AddJobPlaces ==
  ASSUME IInv, PlacesInOrder, NEW j \in Jobs, AddJob(j)
  PROVE  PlacesInOrder'
<1>1. /\ status[j] = "absent"
      /\ place' = [place EXCEPT ![j] = Cardinality(Added) + 1]
      /\ ProcessQueue([status EXCEPT ![j] = "pending"], run, place', active, contexts', concurrency)
  BY DEF AddJob, Added
<1>2. PICK S \in SUBSET Waiting([status EXCEPT ![j] = "pending"], active) :
        status' = StartedStatus(S, [status EXCEPT ![j] = "pending"])
  BY <1>1 DEF ProcessQueue, StartedStatus
<1>3. Added' = Added \cup {j}
  <2>1. \A k \in S : k = j \/ status[k] = "pending"
    BY <1>2 DEF Waiting, IInv, TypeOK
  <2> QED
    BY <1>2, <2>1 DEF Added, StartedStatus, IInv, TypeOK
<1>4. j \notin Added /\ Added \in SUBSET Jobs
  BY <1>1 DEF Added
<1>5. Cardinality(Added) \in Nat /\ Cardinality(Added') = Cardinality(Added) + 1
  BY <1>3, <1>4, JobsAssumption, SlotsAreCounted, FS_Subset, FS_AddElement
<1>6. /\ \A k \in Added : place'[k] = place[k]
      /\ place'[j] = Cardinality(Added) + 1
  BY <1>1, <1>4 DEF IInv, TypeOK
<1>7. \A k \in Added : place[k] \in 1 .. Cardinality(Added)
  BY DEF PlacesInOrder
<1> DEFINE n == Cardinality(Added)
           m == Cardinality(Added')
<1>8. n \in Nat /\ m = n + 1 /\ place'[j] = n + 1 /\ \A k \in Added : place[k] \in 1 .. n
  BY <1>5, <1>6, <1>7
<1> HIDE DEF n, m
<1>9. \A k \in Added' : place'[k] \in 1 .. m
  BY <1>3, <1>6, <1>8
<1>10. \A k, l \in Added' : place'[k] = place'[l] => k = l
  BY <1>3, <1>4, <1>6, <1>8 DEF PlacesInOrder
<1> QED
  BY <1>9, <1>10 DEF PlacesInOrder, m

LEMMA OthersKeepPlaces ==
  ASSUME IInv, Next, \A j \in Jobs : ~ AddJob(j)
  PROVE  place' = place /\ Added' = Added
<1> USE DEF IInv, TypeOK
<1>1. ASSUME NEW j \in Jobs, PauseJob(j) \/ ResumeJob(j) PROVE place' = place /\ Added' = Added
  BY <1>1 DEF PauseJob, ResumeJob, ResumeWith, Added
<1>2. ASSUME NEW S \in SUBSET contexts, \A j \in S : status[j] \in Open, Cancel(S)
      PROVE  place' = place /\ Added' = Added
  BY <1>2 DEF Cancel, CancelWith, Added, Open
<1>3. ASSUME NEW st \in [Jobs -> Statuses], NEW rn, NEW act, NEW ctx, NEW limit, place' = place,
             \A j \in Jobs : st[j] = "absent" <=> status[j] = "absent",
             ProcessQueue(st, rn, place, act, ctx, limit)
      PROVE  place' = place /\ Added' = Added
  BY <1>3 DEF ProcessQueue, Waiting, Added
<1>4. ASSUME NEW j \in Jobs, NEW how \in Terminal, run[j] # "none", Settle(j, how)
      PROVE  place' = place /\ Added' = Added
  <2>1. status[j] # "absent"
    BY <1>4 DEF JobInv, JobFacts
  <2> DEFINE st == [status EXCEPT ![j] = how]
  <2>2. st \in [Jobs -> Statuses] /\ \A k \in Jobs : st[k] = "absent" <=> status[k] = "absent"
    BY <2>1 DEF Statuses, Terminal
  <2>3. place' = place
        /\ ProcessQueue(st, [run EXCEPT ![j] = "none"], place, active \ {j}, contexts', concurrency)
    BY <1>4 DEF Settle, SettleWith
  <2> HIDE DEF st
  <2> QED
    BY <1>3, <2>2, <2>3
<1>5. ASSUME NEW j \in Jobs, Fault(j) \/ AbortSeen(j) \/ Fulfilled(j)
      PROVE  place' = place /\ Added' = Added
  BY <1>4, <1>5 DEF Fault, AbortSeen, Fulfilled, Rejected, Terminal
<1>6. ASSUME NEW j \in Jobs, Prepared(j) \/ Flush(j) \/ StreamsEnd(j) \/ Retry(j)
      PROVE  place' = place /\ Added' = Added
  BY <1>6 DEF Prepared, Flush, StreamsEnd, Advance, Retry, Added
<1>7. ASSUME NEW level \in ConcurrencyLevels, SetConcurrency(level)
      PROVE  place' = place /\ Added' = Added
  BY <1>3, <1>7 DEF SetConcurrency
<1>8. CASE RunKick
  BY <1>3, <1>8 DEF RunKick
<1>9. CASE ClearCompleted \/ WaitForAll
  BY <1>9 DEF ClearCompleted, WaitForAll, Added
<1>10. CASE CancelAll \/ \E j \in Jobs : CancelJob(j)
  BY <1>2, <1>10 DEF CancelAll, CancelJob
<1> QED
  BY <1>1, <1>5, <1>6, <1>7, <1>8, <1>9, <1>10 DEF Next, CopyProgress

LEMMA PlacesStayInOrder == IInv /\ PlacesInOrder /\ [Next]_vars => PlacesInOrder'
<1> SUFFICES ASSUME IInv, PlacesInOrder, [Next]_vars PROVE PlacesInOrder'
  OBVIOUS
<1>1. CASE \E j \in Jobs : AddJob(j)
  BY <1>1, AddJobPlaces
<1>2. CASE Next /\ \A j \in Jobs : ~ AddJob(j)
  <2>1. place' = place /\ Added' = Added
    BY <1>2, OthersKeepPlaces
  <2> QED
    BY <2>1 DEF PlacesInOrder
<1>3. CASE UNCHANGED vars
  BY <1>3 DEF vars, PlacesInOrder, Added
<1> QED
  BY <1>1, <1>2, <1>3

LEMMA NextStartsInOrder ==
  ASSUME IInv, IInv', PlacesInOrder', Next
  PROVE  InOrder
<1>1. CASE \E j \in Jobs : AddJob(j)
  BY <1>1, BatchStartsInOrder DEF AddJob
<1>2. CASE RunKick \/ \E level \in ConcurrencyLevels : SetConcurrency(level)
  BY <1>2, BatchStartsInOrder DEF RunKick, SetConcurrency
<1>3. ASSUME NEW j \in Jobs, NEW how, Settle(j, how) PROVE InOrder
  <2>1. /\ ProcessQueue([status EXCEPT ![j] = how], [run EXCEPT ![j] = "none"], place',
                        active \ {j}, contexts', concurrency)
        /\ \A k \in Jobs : run[k] = "none" => [run EXCEPT ![j] = "none"][k] = "none"
    BY <1>3 DEF Settle, SettleWith, IInv, TypeOK
  <2> QED
    BY <2>1, BatchStartsInOrder
<1>4. CASE \E j \in Jobs : Fault(j) \/ AbortSeen(j) \/ Fulfilled(j)
  BY <1>3, <1>4 DEF Fault, AbortSeen, Fulfilled, Rejected
<1>5. CASE \E j \in Jobs : Prepared(j) \/ Flush(j) \/ StreamsEnd(j) \/ Retry(j)
  BY <1>5 DEF Prepared, Flush, StreamsEnd, Advance, Retry, InOrder, IInv, TypeOK
<1>6. CASE \E j \in Jobs : PauseJob(j) \/ ResumeJob(j) \/ CancelJob(j)
  BY <1>6 DEF PauseJob, ResumeJob, ResumeWith, CancelJob, Cancel, CancelWith, InOrder
<1>7. CASE CancelAll \/ ClearCompleted \/ WaitForAll
  BY <1>7 DEF CancelAll, Cancel, CancelWith, ClearCompleted, WaitForAll, InOrder
<1> QED
  BY <1>1, <1>2, <1>4, <1>5, <1>6, <1>7 DEF Next, CopyProgress

(* The queue never passes over a job that waits: with NoLostWakeup, the     *)
(* part of PendingIsServed that is not about fairness.                      *)
THEOREM NobodyIsPassedOver == Spec => StartsInOrder
<1>1. Init => PlacesInOrder
  BY DEF Init, PlacesInOrder, Added
<1>2. IInv /\ PlacesInOrder /\ [Next]_vars => [InOrder]_vars
  BY NextKeepsIInv, PlacesStayInOrder, NextStartsInOrder
<1> QED
  BY <1>1, <1>2, QueueInvariant, PlacesStayInOrder, PTL DEF Spec, StartsInOrder

-----------------------------------------------------------------------------
(* A cancel is finalised, as far as it is not about fairness. *)

Unfinalised(j) == status[j] = "cancelled" /\ waitResult[j] = "none"

(* Behind a cancel that is not final there is a copy that was told and that *)
(* no pause holds.                                                         *)
CancelsAreTold ==
  \A j \in Jobs : Unfinalised(j) => run[j] # "none" /\ j \in aborted /\ j \notin held

\* The stages such a copy has before it.
CopyLeft(j) ==
  IF run[j] = "preparing" THEN 3 ELSE IF run[j] = "copying" THEN 2 ELSE 1

(* Every step of that copy takes it nearer to its end, no other step sets   *)
(* it back or starts it again, and it ends as cancelled.                    *)
CancelGetsOn(j) ==
  /\ status'[j] = "cancelled"
  /\ \/ waitResult'[j] = "cancelled"
     \/ /\ waitResult'[j] = "none"
        /\ CopyLeft(j)' <= CopyLeft(j)
        /\ CopyProgress(j) => CopyLeft(j)' < CopyLeft(j)
CancelsGetOn == [][\A j \in Jobs : Unfinalised(j) => CancelGetsOn(j)]_vars

\* What any step may do to a job whose cancel is not final, but for the
\* steps of its own copy.
Untouched(j) ==
  /\ status'[j] = "cancelled" /\ waitResult'[j] = "none" /\ run'[j] = run[j]

LEMMA CancelIsTold == IInv => CancelsAreTold
  BY DEF IInv, JobInv, JobFacts, CancelsAreTold, Unfinalised

\* processQueue starts nothing that is cancelled.
LEMMA BatchSpares ==
  ASSUME NEW st, NEW rn, NEW act, NEW ctx, NEW limit, NEW c \in Jobs,
         st[c] = "cancelled", ProcessQueue(st, rn, place', act, ctx, limit)
  PROVE  status'[c] = "cancelled" /\ run'[c] = rn[c]
  BY DEF ProcessQueue, Waiting

LEMMA SettleSpares ==
  ASSUME IInv, NEW c \in Jobs, Unfinalised(c), NEW j \in Jobs, NEW how, Settle(j, how)
  PROVE  /\ j # c => Untouched(c)
         /\ j = c /\ how = "cancelled" => status'[c] = "cancelled" /\ waitResult'[c] = "cancelled"
<1> USE DEF IInv, TypeOK, Unfinalised
<1> DEFINE st == [status EXCEPT ![j] = how]
           rn == [run EXCEPT ![j] = "none"]
<1>1. /\ ProcessQueue(st, rn, place', active \ {j}, contexts', concurrency)
      /\ waitResult' = Resolved({j}, how)
  BY DEF Settle, SettleWith
<1>2. /\ j # c => st[c] = "cancelled" /\ rn[c] = run[c] /\ waitResult'[c] = "none"
      /\ j = c => st[c] = how /\ waitResult'[c] = how
  BY <1>1 DEF Resolved
<1> HIDE DEF st, rn
<1> QED
  BY <1>1, <1>2, BatchSpares DEF Untouched

\* The copy of a cancelled job itself: it does not start again.
LEMMA OwnCopyGetsOn ==
  ASSUME IInv, NEW c \in Jobs, Unfinalised(c), Fault(c) \/ Retry(c) \/ CopyProgress(c)
  PROVE  CancelGetsOn(c)
<1>1. c \in aborted /\ c \notin held /\ run[c] # "none"
  BY CancelIsTold DEF CancelsAreTold
<1>2. Settle(c, "cancelled") => CancelGetsOn(c)
  BY SettleSpares DEF CancelGetsOn
<1>3. CASE Fault(c) \/ AbortSeen(c) \/ Fulfilled(c)
  <2>1. Settle(c, "cancelled")
    BY <1>3 DEF Fault, AbortSeen, Fulfilled, Rejected, Cancelled, Unfinalised
  <2> QED
    BY <1>2, <2>1
<1>4. CASE Prepared(c)
  <2>1. /\ run[c] = "preparing" /\ run'[c] = "copying"
        /\ UNCHANGED <<status, waitResult>>
    BY <1>4 DEF Prepared, Advance, IInv, TypeOK
  <2>2. CopyLeft(c) = 3 /\ CopyLeft(c)' = 2
    BY <2>1 DEF CopyLeft
  <2> QED
    BY <2>1, <2>2 DEF CancelGetsOn, Unfinalised
<1>5. CASE Flush(c) \/ StreamsEnd(c) \/ Retry(c)
  BY <1>1, <1>5 DEF Flush, StreamsEnd, Retry
<1> QED
  BY <1>3, <1>4, <1>5 DEF CopyProgress

\* The steps of other copies.
LEMMA OtherCopySpares ==
  ASSUME IInv, NEW c \in Jobs, Unfinalised(c), NEW j \in Jobs \ {c},
         Fault(j) \/ Retry(j) \/ CopyProgress(j)
  PROVE  Untouched(c)
<1>1. CASE Fault(j) \/ AbortSeen(j) \/ Fulfilled(j)
  BY <1>1, SettleSpares DEF Fault, AbortSeen, Fulfilled, Rejected
<1>2. CASE Prepared(j) \/ Flush(j) \/ StreamsEnd(j) \/ Retry(j)
  BY <1>2 DEF Prepared, Flush, StreamsEnd, Retry, Advance, Untouched, Unfinalised, IInv, TypeOK
<1> QED
  BY <1>1, <1>2 DEF CopyProgress

\* The calls of users, and the queue itself.
LEMMA CallsSpare ==
  ASSUME IInv, NEW c \in Jobs, Unfinalised(c),
         \/ \E j \in Jobs : AddJob(j) \/ PauseJob(j) \/ ResumeJob(j) \/ CancelJob(j)
         \/ RunKick \/ CancelAll \/ ClearCompleted \/ WaitForAll
         \/ \E level \in ConcurrencyLevels : SetConcurrency(level)
  PROVE  Untouched(c)
<1>1. ASSUME NEW j \in Jobs, AddJob(j) PROVE Untouched(c)
  <2> DEFINE st == [status EXCEPT ![j] = "pending"]
  <2>1. st[c] = "cancelled"
    BY <1>1 DEF AddJob, Unfinalised, IInv, TypeOK
  <2>2. ProcessQueue(st, run, place', active, contexts', concurrency) /\ UNCHANGED waitResult
    BY <1>1 DEF AddJob
  <2> HIDE DEF st
  <2>3. status'[c] = "cancelled" /\ run'[c] = run[c]
    BY <2>1, <2>2, BatchSpares
  <2> QED
    BY <2>2, <2>3 DEF Untouched, Unfinalised
<1>2. ASSUME NEW j \in Jobs, PauseJob(j) \/ ResumeJob(j) PROVE Untouched(c)
  BY <1>2 DEF PauseJob, ResumeJob, ResumeWith, Untouched, Unfinalised, IInv, TypeOK
<1>3. ASSUME NEW S \in SUBSET contexts, Cancel(S) PROVE Untouched(c)
  <2>1. c \in active
    BY DEF JobInv, JobFacts, Unfinalised, IInv
  <2> QED
    BY <1>3, <2>1 DEF Cancel, CancelWith, Resolved, Untouched, Unfinalised, IInv, TypeOK
<1>4. CASE RunKick \/ \E level \in ConcurrencyLevels : SetConcurrency(level)
  BY <1>4, BatchSpares DEF RunKick, SetConcurrency, Untouched, Unfinalised
<1>5. CASE ClearCompleted \/ WaitForAll
  BY <1>5 DEF ClearCompleted, WaitForAll, Untouched, Unfinalised, IInv, TypeOK
<1> QED
  BY <1>1, <1>2, <1>3, <1>4, <1>5 DEF CancelJob, CancelAll, IInv, TypeOK

\* The steps of a copy are told from the others: it has a stage less to go,
\* or is over.
LEMMA UntouchedIsNoProgress ==
  ASSUME IInv, NEW c \in Jobs, Unfinalised(c), Untouched(c)
  PROVE  CancelGetsOn(c)
<1>1. ~ CopyProgress(c)
  <2> SUFFICES ASSUME CopyProgress(c) PROVE FALSE
    OBVIOUS
  <2>1. CancelGetsOn(c)
    BY OwnCopyGetsOn
  <2> QED
    BY <2>1 DEF CancelGetsOn, Untouched, CopyLeft
<1> QED
  BY <1>1 DEF CancelGetsOn, Untouched, CopyLeft

(* Behind every cancel there is a copy that will see it, that never starts  *)
(* again and is never held, and whose end makes the cancel final: the part  *)
(* of CancelIsFinalised that is not about fairness.                         *)
THEOREM CancelsAreOnTheirWay == Spec => []CancelsAreTold /\ CancelsGetOn
<1>1. IInv /\ [Next]_vars => [\A j \in Jobs : Unfinalised(j) => CancelGetsOn(j)]_vars
  <2> SUFFICES ASSUME IInv, Next, NEW c \in Jobs, Unfinalised(c) PROVE CancelGetsOn(c)
    OBVIOUS
  <2>1. \/ \E j \in Jobs : Fault(j) \/ Retry(j) \/ CopyProgress(j)
        \/ Untouched(c)
    BY CallsSpare DEF Next
  <2> QED
    BY <2>1, OwnCopyGetsOn, OtherCopySpares, UntouchedIsNoProgress
<1> QED
  BY <1>1, CancelIsTold, QueueInvariant, PTL DEF Spec, CancelsGetOn
=============================================================================
