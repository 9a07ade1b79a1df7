------------------------------ MODULE CaSession ------------------------------
(***************************************************************************)
(* What a user may expect of the SSH certificate session: a request that   *)
(* was made before a logout never outlives that logout, and every logout   *)
(* takes effect.  SshCa implements this.                                   *)
(***************************************************************************)
EXTENDS Integers

CONSTANT NoSession   \* no session, which is no number

VARIABLES
  epoch,    \* logouts asked for
  settled,  \* the last of them that has taken effect
  holder    \* the logouts there were when the session was asked for

sessionVars == <<epoch, settled, holder>>

Init == epoch = 0 /\ settled = 0 /\ holder = NoSession

AskLogout == epoch' = epoch + 1 /\ UNCHANGED <<settled, holder>>

SignIn ==
  /\ holder' \in settled .. epoch
  /\ UNCHANGED <<epoch, settled>>

SignOut ==
  /\ settled' \in (settled + 1) .. epoch
  /\ holder' = NoSession
  /\ UNCHANGED epoch

Next == AskLogout \/ SignIn \/ SignOut

Spec == Init /\ [][Next]_sessionVars /\ WF_sessionVars(SignOut)
=============================================================================
