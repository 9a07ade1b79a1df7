-------------------------- MODULE MCWindowSessions --------------------------
(***************************************************************************)
(* Checking instance of WindowSessions.                                    *)
(***************************************************************************)
EXTENDS WindowSessions
=============================================================================
