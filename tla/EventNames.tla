------------------------------ MODULE EventNames ------------------------------
(***************************************************************************)
(* The ids of the events that collectors record.  An id is made from what  *)
(* names the record: a tuple of its kind and of the numbers, times and     *)
(* contents that the code joins or hashes.  Ids are numbers here, since    *)
(* their order breaks ties, and no two names have the same: joins can be   *)
(* read back, and SHA-256 is taken to have no collisions.                  *)
(***************************************************************************)
EXTENDS Outcomes

CONSTANT IdOf(_)  \* the id of a name

HaveDistinctIds(names) ==
  \A n, m \in names : IdOf(n) \in Nat /\ (IdOf(n) = IdOf(m) => n = m)

=============================================================================
