---------------------------- MODULE MCSshTunnels ----------------------------
(* Instances of SshTunnels for TLC. *)
EXTENDS SshTunnels

=============================================================================
