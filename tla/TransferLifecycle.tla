------------------------- MODULE TransferLifecycle -------------------------
(***************************************************************************)
(* What the transfer queue promises to the caller that submits a job: the  *)
(* job stays open until it is closed with exactly one outcome, an outcome  *)
(* is never revised, and a cancel that was accepted can only end as        *)
(* "cancelled".  Slots, order, pausing and the copy itself are not visible *)
(* here; TransferQueue implements this specification.                      *)
(***************************************************************************)
CONSTANT Jobs       \* the ids of the jobs that may be submitted

VARIABLES
  phase,            \* what the caller may still do with each job
  outcome           \* how the promise of waitForJob was resolved

lifecycleVars == <<phase, outcome>>

Outcomes == {"completed", "failed", "cancelled"}

Init ==
  /\ phase = [j \in Jobs |-> "unsubmitted"]
  /\ outcome = [j \in Jobs |-> "none"]

Submit(j) ==
  /\ phase[j] = "unsubmitted"
  /\ phase' = [phase EXCEPT ![j] = "open"]
  /\ UNCHANGED outcome

(* A cancel closes at once the jobs that hold no slot (those of idle) and  *)
(* leaves the others ending; cancelAll cancels several jobs in one step.   *)
Cancel(S, idle) ==
  /\ \A j \in S : phase[j] = "open"
  /\ phase' = [j \in Jobs |-> IF j \in S
                              THEN IF j \in idle THEN "closed" ELSE "ending"
                              ELSE phase[j]]
  /\ outcome' = [j \in Jobs |-> IF j \in S \cap idle THEN "cancelled"
                                ELSE outcome[j]]

Finish(j, how) ==
  /\ \/ phase[j] = "open"
     \/ phase[j] = "ending" /\ how = "cancelled"
  /\ phase' = [phase EXCEPT ![j] = "closed"]
  /\ outcome' = [outcome EXCEPT ![j] = how]

Next ==
  \/ \E j \in Jobs : Submit(j)
  \/ \E S \in SUBSET Jobs : \E idle \in SUBSET S : Cancel(S, idle)
  \/ \E j \in Jobs, how \in Outcomes : Finish(j, how)

Spec == Init /\ [][Next]_lifecycleVars
=============================================================================
