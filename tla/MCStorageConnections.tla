------------------------ MODULE MCStorageConnections ------------------------
(* A small instance of StorageConnections for TLC. *)
EXTENDS StorageConnections
=============================================================================
