--------------------------- MODULE MCPolicyLifecycle ---------------------------
(* PolicyLifecycle with one candidate and one or two reviews. *)
EXTENDS PolicyLifecycle, TLC

\* No reviewed artifact, or those of every kind a later reviewer left.
Fresh == [k \in Kind |-> [c \in Candidate |-> {}]]
Left(kinds, r) == [k \in Kind |-> [c \in Candidate |-> IF k \in kinds THEN {r} ELSE {}]]
Clones ==
  {Fresh} \cup
  {Left(kinds, r) : kinds \in {{"shadow", "approved"}, Kind}, r \in Review}
OnlyFresh == {Fresh}

Symmetry == Permutations(Proc) \cup Permutations(Review)

=============================================================================
