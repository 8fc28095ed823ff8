---------------------------- MODULE MCLedgerEdits ----------------------------
(* A small instance of LedgerEdits: one protocol, one forged record. *)
EXTENDS LedgerEdits, TLC

MCForged == {[unit |-> "nobody", key |-> k, predictedAt |-> t] : k \in Key, t \in Time}

=============================================================================
