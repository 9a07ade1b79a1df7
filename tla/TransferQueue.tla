--------------------------- MODULE TransferQueue ---------------------------
(***************************************************************************)
(* The transfer queue of the main process (transfer/TransferQueue.ts): a   *)
(* FIFO list of copy jobs, at most `concurrency` of them running, that the *)
(* user may pause, resume and cancel while they run.                       *)
(*                                                                         *)
(* The JavaScript of one call runs to its end before anything else does,   *)
(* so each IPC call, each microtask and each continuation of an await is   *)
(* one action.  A job's copy is seen through the stages runJob can tell    *)
(* apart (`run`); transfer/TransferPipeline.ts decides when it moves on.   *)
(***************************************************************************)
EXTENDS Naturals, FiniteSets

CONSTANTS
  Jobs,               \* job ids; addJob draws a fresh one (crypto.randomUUID)
  ConcurrencyLevels,  \* values the concurrency setter is called with
  MaxRetries          \* how often a broken copy of one job starts again

ASSUME JobsAssumption == IsFiniteSet(Jobs)
ASSUME LevelsAssumption == ConcurrencyLevels \subseteq Nat
ASSUME RetriesAssumption == MaxRetries \in Nat

VARIABLES
  status,       \* job.progress.status; "absent": not yet added, "cleared": no longer in `jobs`
  place,        \* the rank of the job in the list `jobs`
  contexts,     \* keys of the map `contexts`
  active,       \* activeJobIds
  concurrency,  \* _concurrency
  aborted,      \* contexts whose abortController has fired
  held,         \* contexts whose pauseController is paused
  run,          \* where runJob is: "none" when no call of it is under way
  retries,      \* how often the pipeline has started the copy again
  kick,         \* a microtask that will call processQueue is queued
  waitResult,   \* what the promise of waitForJob was resolved with
  waitingAll    \* a promise of waitForAll is outstanding

vars == <<status, place, contexts, active, concurrency, aborted, held, run,
          retries, kick, waitResult, waitingAll>>

Open      == {"pending", "running", "paused"}
Terminal  == {"completed", "failed", "cancelled"}
Statuses  == Open \cup Terminal \cup {"absent", "cleared"}

(* "preparing": the awaits before the pipeline is called.  "copying": bytes *)
(* are moving.  "flushed": the last chunk has passed the meter, so a pause  *)
(* no longer stops the copy.  "checking": the size and checksum checks,     *)
(* which look at neither the pause nor the abort.                           *)
Stages == {"none", "preparing", "copying", "flushed", "checking"}

TypeOK ==
  /\ status \in [Jobs -> Statuses]
  /\ place \in [Jobs -> Nat]
  /\ contexts \in SUBSET Jobs
  /\ active \in SUBSET Jobs
  /\ concurrency \in ConcurrencyLevels
  /\ aborted \in SUBSET Jobs
  /\ held \in SUBSET Jobs
  /\ run \in [Jobs -> Stages]
  /\ retries \in [Jobs -> 0 .. MaxRetries]
  /\ kick \in BOOLEAN
  /\ waitResult \in [Jobs -> Terminal \cup {"none"}]
  /\ waitingAll \in BOOLEAN

Init ==
  /\ status = [j \in Jobs |-> "absent"]
  /\ place = [j \in Jobs |-> 0]
  /\ contexts = {}
  /\ active = {}
  /\ concurrency \in ConcurrencyLevels
  /\ aborted = {}
  /\ held = {}
  /\ run = [j \in Jobs |-> "none"]
  /\ retries = [j \in Jobs |-> 0]
  /\ kick = FALSE
  /\ waitResult = [j \in Jobs |-> "none"]
  /\ waitingAll = FALSE

-----------------------------------------------------------------------------
(* processQueue                                                            *)

(* The jobs processQueue may choose from in status st with the jobs act    *)
(* active.                                                                 *)
Waiting(st, act) == {j \in Jobs : st[j] = "pending"} \ act

(* S is what the loop of processQueue starts: the first waiting jobs of    *)
(* the list, until the slots are full, no job waits, or the next one has   *)
(* no context (the loop breaks there).                                     *)
IsBatch(S, st, pl, act, ctx, limit) ==
  LET W == Waiting(st, act)
  IN  /\ S \subseteq W \cap ctx
      /\ \A j \in S, k \in W : pl[k] < pl[j] => k \in S
      /\ S # {} => Cardinality(act \cup S) <= limit
      /\ \/ S = W
         \/ Cardinality(act \cup S) >= limit
         \/ \E k \in W \ ctx : \A j \in W : pl[j] < pl[k] => j \in S

(* processQueue, called when the queue is in the state the arguments give: *)
(* every job of the batch enters runJob, up to its first await.            *)
ProcessQueue(st, rn, pl, act, ctx, limit) ==
  \E S \in SUBSET Waiting(st, act) :
    /\ IsBatch(S, st, pl, act, ctx, limit)
    /\ active' = act \cup S
    /\ status' = [j \in Jobs |-> IF j \in S THEN "running" ELSE st[j]]
    /\ run' = [j \in Jobs |-> IF j \in S THEN "preparing" ELSE rn[j]]

-----------------------------------------------------------------------------
(* Calls of the IPC handlers and of the queue's other users                *)

(* addJob always gets a fresh id, so its "already exists" error is not     *)
(* reachable.                                                              *)
AddJob(j) ==
  /\ status[j] = "absent"
  /\ LET added == Cardinality({k \in Jobs : status[k] # "absent"})
     IN  place' = [place EXCEPT ![j] = added + 1]
  /\ contexts' = contexts \cup {j}
  /\ ProcessQueue([status EXCEPT ![j] = "pending"], run, place', active,
                  contexts', concurrency)
  /\ UNCHANGED <<concurrency, aborted, held, retries, kick, waitResult,
                 waitingAll>>

PauseJob(j) ==
  /\ j \in contexts
  /\ \/ /\ status[j] = "running"
        /\ held' = held \cup {j}
     \/ /\ status[j] = "pending"
        /\ UNCHANGED held
  /\ status' = [status EXCEPT ![j] = "paused"]
  /\ UNCHANGED <<place, contexts, active, concurrency, aborted, run, retries,
                 kick, waitResult, waitingAll>>

(* resumeJob, where wake is what becomes of the queued processQueue.       *)
ResumeWith(j, wake) ==
  /\ j \in contexts
  /\ status[j] = "paused"
  /\ \/ /\ j \in active
        /\ held' = held \ {j}
        /\ status' = [status EXCEPT ![j] = "running"]
        /\ UNCHANGED kick
     \/ /\ j \notin active
        /\ status' = [status EXCEPT ![j] = "pending"]
        /\ kick' = wake
        /\ UNCHANGED held
  /\ UNCHANGED <<place, contexts, active, concurrency, aborted, run, retries,
                 waitResult, waitingAll>>

(* A plausible bug: nothing looks at the queue after the resume. *)
ResumeWithoutKick(j) == ResumeWith(j, kick)
ResumeJob(j) == ResumeWith(j, TRUE)

(* The microtask resumeJob queued.                                         *)
RunKick ==
  /\ kick
  /\ kick' = FALSE
  /\ ProcessQueue(status, run, place, active, contexts, concurrency)
  /\ UNCHANGED <<place, contexts, concurrency, aborted, held, retries, waitResult,
                 waitingAll>>

(* A promise keeps the value it was resolved with first.                   *)
Resolved(S, how) ==
  [j \in Jobs |-> IF j \in S /\ waitResult[j] = "none" THEN how
                  ELSE waitResult[j]]

(* The listener of waitForAll, run by each terminal event.                 *)
StillWaiting(st) == waitingAll /\ \E j \in Jobs : st[j] \in Open

(* cancelJob on every job of S.  A running job is aborted and finalised by *)
(* runJob later; any other one is finalised here, and keeps its context.   *)
(* shut: the pauses the cancel leaves shut; notified: whose event it emits.*)
(* The code cancels the jobs of S one by one, and waitForAll looks again at *)
(* each event of an idle one; the last look sees the statuses used here, or *)
(* is followed by the events of the runs that are still to end.            *)
CancelWith(S, shut, notified) ==
  LET idle == S \ active
      st   == [j \in Jobs |-> IF j \in S THEN "cancelled" ELSE status[j]]
  IN  /\ status' = st
      /\ held' = shut
      /\ aborted' = aborted \cup (S \cap active)
      /\ waitResult' = Resolved(idle, "cancelled")
      /\ waitingAll' = IF notified = {} THEN waitingAll ELSE StillWaiting(st)
      /\ UNCHANGED <<place, contexts, active, concurrency, run, retries, kick>>

(* Plausible bugs: the pause of an aborted copy stays shut; a job that     *)
(* never ran is cancelled without an event.                                *)
CancelKeepsPause(S) == CancelWith(S, held, S \ active)
CancelWithoutEvent(S) == CancelWith(S, held \ (S \cap active), {})
Cancel(S) == CancelWith(S, held \ (S \cap active), S \ active)

CancelJob(j) ==
  /\ j \in contexts
  /\ status[j] \in Open
  /\ Cancel({j})

CancelAll ==
  LET S == {j \in contexts : status[j] \in Open}
  IN  S # {} /\ Cancel(S)

ClearCompleted ==
  LET S == {j \in Jobs : status[j] = "completed"}
  IN  /\ S # {}
      /\ status' = [j \in Jobs |-> IF j \in S THEN "cleared" ELSE status[j]]
      /\ contexts' = contexts \ S
      /\ UNCHANGED <<place, active, concurrency, aborted, held, run,
                     retries, kick, waitResult, waitingAll>>

SetConcurrency(level) ==
  /\ concurrency' = level
  /\ ProcessQueue(status, run, place, active, contexts, level)
  /\ UNCHANGED <<place, contexts, aborted, held, retries, kick, waitResult,
                 waitingAll>>

WaitForAll ==
  /\ ~waitingAll
  /\ \E j \in Jobs : status[j] \in Open
  /\ waitingAll' = TRUE
  /\ UNCHANGED <<status, place, contexts, active, concurrency, aborted, held,
                 run, retries, kick, waitResult>>

-----------------------------------------------------------------------------
(* runJob, after its first await                                           *)

(* The end of runJob: the terminal state, the event, the waiters (now told *)
(* result), and the finally block that drops the context with its          *)
(* controllers, leaves the slots act and starts what fits in limit.        *)
SettleWith(j, how, result, act, limit) ==
  LET st == [status EXCEPT ![j] = how]
  IN  /\ waitResult' = result
      /\ waitingAll' = StillWaiting(st)
      /\ contexts' = contexts \ {j}
      /\ aborted' = aborted \ {j}
      /\ held' = held \ {j}
      /\ retries' = [retries EXCEPT ![j] = 0]
      /\ ProcessQueue(st, [run EXCEPT ![j] = "none"], place, act, contexts', limit)
      /\ UNCHANGED <<place, concurrency, kick>>

(* Plausible bugs: the finally block starts nobody; the slot is not given  *)
(* back.                                                                   *)
SettleStartsNobody(j, how) ==
  SettleWith(j, how, Resolved({j}, how), active \ {j}, 0)
SettleKeepsSlot(j, how) ==
  SettleWith(j, how, Resolved({j}, how), active, concurrency)
Settle(j, how) ==
  SettleWith(j, how, Resolved({j}, how), active \ {j}, concurrency)

Cancelled(j) == status[j] = "cancelled" \/ j \in aborted

(* The pipeline's promise rejects; the error's name decides for a job that *)
(* nobody cancelled.                                                       *)
Rejected(j, isAbortError) ==
  Settle(j, IF Cancelled(j) \/ isAbortError THEN "cancelled" ELSE "failed")

Advance(j, stage) ==
  /\ run' = [run EXCEPT ![j] = stage]
  /\ UNCHANGED <<status, place, contexts, active, concurrency, aborted, held,
                 retries, kick, waitResult, waitingAll>>

Prepared(j) == run[j] = "preparing" /\ Advance(j, "copying")

(* The last chunk passes the meter, which holds a paused job's chunks.     *)
Flush(j) ==
  /\ run[j] = "copying"
  /\ j \notin held
  /\ j \notin aborted
  /\ Advance(j, "flushed")

(* The streams end; from here the abort signal is no longer looked at.     *)
StreamsEnd(j) ==
  /\ run[j] = "flushed"
  /\ j \notin aborted
  /\ Advance(j, "checking")

(* The source is a special file or the target is the source itself, a      *)
(* stream breaks, or a check after the copy fails.                         *)
Fault(j) ==
  /\ run[j] # "none"
  /\ \E isAbortError \in BOOLEAN :
       /\ isAbortError => run[j] # "preparing"
       /\ Rejected(j, isAbortError)

(* A transient error: transferFile starts the file again from its first    *)
(* byte, unless the job has been cancelled or the attempts are used up.    *)
Retry(j) ==
  /\ run[j] \in {"copying", "flushed", "checking"}
  /\ retries[j] < MaxRetries
  /\ j \notin aborted
  /\ run' = [run EXCEPT ![j] = "copying"]
  /\ retries' = [retries EXCEPT ![j] = @ + 1]
  /\ UNCHANGED <<status, place, contexts, active, concurrency, aborted, held,
                 kick, waitResult, waitingAll>>

(* A plausible bug: only the end of the stream looks at the abort signal.  *)
AbortSeenLate(j) ==
  /\ run[j] = "flushed"
  /\ j \in aborted
  /\ Rejected(j, TRUE)

(* The pipeline sees the abort signal.                                     *)
AbortSeen(j) ==
  /\ run[j] \in {"copying", "flushed"}
  /\ j \in aborted
  /\ Rejected(j, TRUE)

(* The M8 bug: the outcome of the copy decides, whatever was cancelled.    *)
FulfilledIgnoresCancel(j) ==
  /\ run[j] = "checking"
  /\ Settle(j, "completed")

(* The pipeline's promise is fulfilled; a cancel that came too late to     *)
(* stop it still decides the outcome.                                      *)
Fulfilled(j) ==
  /\ run[j] = "checking"
  /\ Settle(j, IF Cancelled(j) THEN "cancelled" ELSE "completed")

-----------------------------------------------------------------------------
CopyProgress(j) ==
  Prepared(j) \/ Flush(j) \/ StreamsEnd(j) \/ AbortSeen(j) \/ Fulfilled(j)

Next ==
  \/ \E j \in Jobs : \/ AddJob(j) \/ PauseJob(j) \/ ResumeJob(j)
                     \/ CancelJob(j) \/ Fault(j) \/ Retry(j)
                     \/ CopyProgress(j)
  \/ RunKick \/ CancelAll \/ ClearCompleted \/ WaitForAll
  \/ \E level \in ConcurrencyLevels : SetConcurrency(level)

(* Microtasks run, and a provider answers every call of a copy that is     *)
(* neither paused nor finished.  Users and faults owe nothing.             *)
Fairness ==
  /\ WF_vars(RunKick)
  /\ \A j \in Jobs : WF_vars(CopyProgress(j))

Spec == Init /\ [][Next]_vars
FairSpec == Spec /\ Fairness

-----------------------------------------------------------------------------
(* Properties                                                              *)

(* A slot is held exactly by the jobs whose runJob is under way, and each  *)
(* of them still has its context and a status runJob can leave.            *)
SlotsMatchRuns ==
  /\ active = {j \in Jobs : run[j] # "none"}
  /\ active \subseteq contexts
  /\ \A j \in active : status[j] \in {"running", "paused", "cancelled"}
  /\ \A j \in Jobs : status[j] \in {"pending", "running", "paused"}
                      => j \in contexts

(* No job waits beside a free slot unless a processQueue is queued: the    *)
(* queue has no timer, so a wake-up that is lost here is lost for good.    *)
NoLostWakeup ==
  \/ kick
  \/ Waiting(status, active) = {}
  \/ Cardinality(active) >= concurrency

(* The pause controller of a job is shut exactly while the job is shown as *)
(* paused and runs: a running job is never stuck behind a stale pause, a   *)
(* cancelled one never waits for a resume.                                 *)
HeldIffPaused == held = {j \in active : status[j] = "paused"}

(* A waiter of waitForJob is told what the job's status says, and no job   *)
(* that has ended leaves its waiter behind (the M8 comment in runJob).     *)
WaiterAgrees ==
  \A j \in Jobs :
    /\ waitResult[j] # "none" => /\ status[j] \in {waitResult[j], "cleared"}
                                /\ j \notin active
    /\ status[j] \in Terminal \ {"cancelled"} => waitResult[j] = status[j]
    /\ status[j] = "cancelled" /\ j \notin active
         => waitResult[j] = "cancelled"

(* While a promise of waitForAll is outstanding some job will still emit a *)
(* terminal event; the promise looks at the jobs only on such events.      *)
WaitForAllIsWoken ==
  waitingAll => \E j \in Jobs : status[j] \in Open \/ j \in active

(* Nobody who waits for the queue is told something else than what became  *)
(* of the job, or never looks again.                                       *)
WaitersAreTold == WaiterAgrees /\ WaitForAllIsWoken

(* What a caller sees of the queue, as TransferLifecycle states it.        *)
PhaseOf(st, result) ==
  IF st = "absent" THEN "unsubmitted"
  ELSE IF result # "none" THEN "closed"
  ELSE IF st = "cancelled" THEN "ending"
  ELSE "open"

Phases == [j \in Jobs |-> PhaseOf(status[j], waitResult[j])]

Lifecycle == INSTANCE TransferLifecycle
               WITH phase <- Phases, outcome <- waitResult

(* The queue implements the lifecycle: one outcome, never revised, and an  *)
(* accepted cancel is never answered with completed or failed, whatever    *)
(* the copy does meanwhile.                                                *)
RefinesLifecycle == Lifecycle!Spec

(* An accepted cancel is finalised, even for a paused job or one whose     *)
(* copy had already passed its last abort check.                           *)
CancelIsFinalised ==
  \A j \in Jobs : status[j] = "cancelled" ~> waitResult[j] = "cancelled"

(* If from some time on nothing is paused in a slot and the limit is not   *)
(* zero, every waiting job is started (or paused or cancelled by the user).*)
PendingIsServed ==
  <>[](held = {} /\ concurrency > 0)
    => \A j \in Jobs : status[j] = "pending" ~> status[j] # "pending"
=============================================================================
