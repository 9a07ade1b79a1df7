-------------------------- MODULE MCTransferTarget --------------------------
(* Model checking of TransferTarget. *)
EXTENDS TransferTarget

CONSTANTS t1, t2, s1, s2

MCTransfers == {t1, t2}

(* Two panes, each with a provider of its own, on one server. *)
MCSessions == {s1, s2}
MCSessionOf == [t \in MCTransfers |-> IF t = t1 THEN s1 ELSE s2]
MCSize == [t \in MCTransfers |-> IF t = t1 THEN 2 ELSE 1]

(* Files of one chunk. *)
MCShort == [t \in MCTransfers |-> 1]
=============================================================================
