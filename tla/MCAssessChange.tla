---------------------------- MODULE MCAssessChange ----------------------------
(* Small instances of AssessChange for TLC. *)
EXTENDS AssessChange, TLC

Symmetry ==
  Permutations(Server) \cup Permutations(Cli) \cup Permutations(Change)
    \cup Permutations(RequestId) \cup Permutations(Argument)

=============================================================================
