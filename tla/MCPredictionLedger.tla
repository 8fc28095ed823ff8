-------------------------- MODULE MCPredictionLedger --------------------------
(* Small instances of PredictionLedger for TLC. *)
EXTENDS PredictionLedger, TLC

Symmetry == Permutations(Proc) \cup Permutations(Unit) \cup Permutations(Key)

=============================================================================
