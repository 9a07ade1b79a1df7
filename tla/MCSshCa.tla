------------------------------ MODULE MCSshCa ------------------------------
(***************************************************************************)
(* Checking instance of SshCa.                                             *)
(***************************************************************************)
EXTENDS SshCa
=============================================================================
