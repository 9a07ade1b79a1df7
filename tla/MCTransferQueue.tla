-------------------------- MODULE MCTransferQueue --------------------------
(* A small instance of TransferQueue for TLC. *)
EXTENDS TransferQueue
=============================================================================
