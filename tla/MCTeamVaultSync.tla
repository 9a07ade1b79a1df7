--------------------------- MODULE MCTeamVaultSync ---------------------------
(* Two machines and a third recipient, who can be removed and added. *)
EXTENDS TeamVaultSync

CONSTANTS a, b, c
MCMachines == {a, b}
MCRecipients == {a, b, c}
MCAdmins == {a}
=============================================================================
