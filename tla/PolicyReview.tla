----------------------------- MODULE PolicyReview -----------------------------
(***************************************************************************)
(* What the review of policies promises in one clone: a candidate's status *)
(* only advances, and whoever assesses a change uses each policy as it     *)
(* stood at some moment of the assessment.  PolicyLifecycle is shown to    *)
(* implement it.                                                           *)
(***************************************************************************)
EXTENDS Naturals

CONSTANTS
  Candidate,  \* candidate ids
  Proc        \* processes of the command line and of the MCP server

Status == {"candidate", "shadow", "approved", "deprecated"}

Rank == [s \in Status |->
           CASE s = "candidate" -> 0 [] s = "shadow" -> 1
             [] s = "approved" -> 2 [] s = "deprecated" -> 3]

VARIABLES
  status,   \* status[c]: what this clone's reviewers have made of c
  began,    \* began[p]: {} or {what was so when p began to assess}
  policies  \* policies[p]: {} or {the status p uses each candidate with}

vars == <<status, began, policies>>

\* The set of policies a load may return: f, for an assessment that began at b.
Current(f, b) ==
  \A c \in Candidate :
    \/ /\ f[c] \in {"shadow", "approved"}
       /\ f[c] = "shadow" => b.shadows
       /\ Rank[b.status[c]] <= Rank[f[c]] /\ Rank[f[c]] <= Rank[status[c]]
    \/ /\ f[c] = "absent"
       /\ \/ status[c] = "deprecated"
          \/ b.status[c] = "candidate"
          \/ b.status[c] = "shadow" /\ ~b.shadows

Init ==
  /\ status = [c \in Candidate |-> "candidate"]
  /\ began = [p \in Proc |-> {}]
  /\ policies = [p \in Proc |-> {}]

\* A transition takes effect.  A clone may trust a later status first.
Advance(c) ==
  /\ \E s \in Status :
       /\ Rank[status[c]] < Rank[s]
       /\ status' = [status EXCEPT ![c] = s]
  /\ UNCHANGED <<began, policies>>

Begin(p) ==
  /\ began[p] = {}
  /\ \E shadows \in BOOLEAN :
       began' = [began EXCEPT ![p] = {[status |-> status, shadows |-> shadows]}]
  /\ UNCHANGED <<status, policies>>

Load(p) ==
  /\ policies[p] = {}
  /\ \E b \in began[p], f \in [Candidate -> {"absent", "shadow", "approved"}] :
       /\ Current(f, b)
       /\ policies' = [policies EXCEPT ![p] = {f}]
  /\ UNCHANGED <<status, began>>

End(p) ==
  /\ began' = [began EXCEPT ![p] = {}]
  /\ policies' = [policies EXCEPT ![p] = {}]
  /\ UNCHANGED status

Next ==
  \/ \E c \in Candidate : Advance(c)
  \/ \E p \in Proc : Begin(p) \/ Load(p) \/ End(p)

Spec == Init /\ [][Next]_vars

=============================================================================
