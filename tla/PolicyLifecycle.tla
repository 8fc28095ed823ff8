---------------------------- MODULE PolicyLifecycle ----------------------------
(***************************************************************************)
(* Reviewed policies: promote_candidate, deprecate_candidate and           *)
(* trust_reviewed_artifact of lifecycle.py, with the artifacts, the local  *)
(* attestations and the loaders of storage.py they go through, and the     *)
(* assessment of a change up to the moment its prediction is recorded.     *)
(*                                                                         *)
(* An artifact is versioned with the work tree, its attestation is private *)
(* to one clone.  The two are written one after the other, and the loaders *)
(* list one directory after the other; a process may die between any two   *)
(* steps.                                                                  *)
(*                                                                         *)
(* Simplifications.  A set with at most one element is a file that may not *)
(* exist.  An artifact's content is the review that made it (the candidate *)
(* below it never changes), so one review stands for reviewer, note and    *)
(* timestamp.  Whether the evidence meets the gates is left open.          *)
(***************************************************************************)
EXTENDS Naturals, Sequences

CONSTANTS
  Candidate,  \* candidate ids
  Proc,       \* processes of the command line and of the MCP server
  Review,     \* reviews: who, when and why
  Clone       \* the artifacts a new clone may come with

Kind == {"shadow", "approved", "deprecated"}
Artifacts == [Kind -> [Candidate -> SUBSET Review]]
Attestation == [artifact : Review, trust : Review]

\* A clone was committed by somebody whose own transitions followed the rules.
ASSUME LifecycleAssumption ==
  /\ Clone \subseteq Artifacts
  /\ \A a \in Clone, k \in Kind, c \in Candidate :
       /\ \A r, s \in a[k][c] : r = s
       /\ a[k][c] # {} => a["shadow"][c] # {}

VARIABLES
  cloned,       \* history: the artifacts this clone came with
  artifact,     \* artifact[k][c]: c's file in the directory of kind k
  attestation,  \* attestation[k][c]: c's file among the transition records of k
  pc,           \* where each process is in its call
  call,         \* call[p]: the operation and its arguments
  todo,         \* todo[p]: the directories the call has yet to load
  listed,       \* listed[p]: {} or {the artifacts just listed in the first of them}
  loaded,       \* loaded[p][k]: the ids the call read in the directory of kind k
  began         \* history: began[p]: {} or {the statuses when p began to assess}

files == <<cloned, artifact, attestation>>
locals == <<call, todo, listed, loaded, began>>
vars == <<files, pc, locals>>

Idle == [op |-> "none"]
Transition ==
  [op : {"promote", "deprecate", "trust"}, id : Candidate, kind : Kind,
   artifact : Review, trust : Review]
Assessment == [op : {"assess"}, shadows : BOOLEAN]
Standing == {"candidate", "shadow", "approved", "deprecated"}

\* Every file holds what its directory is for, and every call is somewhere in its steps.
TypeOK ==
  /\ cloned \in Artifacts /\ artifact \in Artifacts
  /\ attestation \in [Kind -> [Candidate -> SUBSET Attestation]]
  /\ pc \in [Proc -> {"idle", "load", "decide", "check", "write", "done"}]
  /\ call \in [Proc -> {Idle} \cup Transition \cup Assessment]
  /\ todo \in [Proc -> Seq(Kind)]
  /\ listed \in [Proc -> SUBSET (SUBSET Candidate)]
  /\ loaded \in [Proc -> [Kind -> SUBSET Candidate]]
  /\ began \in [Proc -> SUBSET [status : [Candidate -> Standing], shadows : BOOLEAN]]

-----------------------------------------------------------------------------
(* What the files say. *)

Ids(files_k) == {c \in Candidate : files_k[c] # {}}

\* _verify_transition_attestation
Matches(k, c) ==
  \E v \in attestation[k][c] : artifact[k][c] = {v.artifact}

\* A candidate stands where its latest attested transition put it.
StatusOf(c) ==
  LET Has(k) == attestation[k][c] # {}
  IN CASE Has("deprecated") -> "deprecated"
       [] Has("approved") /\ ~Has("deprecated") -> "approved"
       [] Has("shadow") /\ ~Has("approved") /\ ~Has("deprecated") -> "shadow"
       [] OTHER -> "candidate"

Statuses == [c \in Candidate |-> StatusOf(c)]

NothingLoaded == [k \in Kind |-> {}]

LoadApproved == <<"deprecated", "approved">>
LoadShadow == <<"deprecated", "shadow">>

Init ==
  /\ cloned \in Clone
  /\ artifact = cloned
  /\ attestation = [k \in Kind |-> [c \in Candidate |-> {}]]
  /\ pc = [p \in Proc |-> "idle"]
  /\ call = [p \in Proc |-> Idle]
  /\ todo = [p \in Proc |-> <<>>]
  /\ listed = [p \in Proc |-> {}]
  /\ loaded = [p \in Proc |-> NothingLoaded]
  /\ began = [p \in Proc |-> {}]

-----------------------------------------------------------------------------
(* The calls.  Each begins with the checks that read one file. *)

Start(p, c, dirs) ==
  /\ pc[p] = "idle"
  /\ pc' = [pc EXCEPT ![p] = IF dirs = <<>> THEN "decide" ELSE "load"]
  /\ call' = [call EXCEPT ![p] = c]
  /\ todo' = [todo EXCEPT ![p] = dirs]
  /\ UNCHANGED <<files, listed, loaded>>

\* promote_candidate; approval needs a shadow artifact, no override helps.
PromoteToShadow(p, c, r) ==
  /\ Start(p, [op |-> "promote", id |-> c, kind |-> "shadow", artifact |-> r, trust |-> r], <<>>)
  /\ UNCHANGED began

PromoteToApproved(p, c, r) ==
  /\ artifact["shadow"][c] # {}
  /\ Start(p, [op |-> "promote", id |-> c, kind |-> "approved", artifact |-> r, trust |-> r],
           LoadShadow)
  /\ UNCHANGED began

\* deprecate_candidate
Deprecate(p, c, r) ==
  /\ artifact["deprecated"][c] = {}
  /\ Start(p, [op |-> "deprecate", id |-> c, kind |-> "deprecated", artifact |-> r, trust |-> r],
           LoadApproved \o LoadShadow)
  /\ UNCHANGED began

\* trust_reviewed_artifact: the artifact is read here, and attested as it was read.
Trust(p, c, k, r) ==
  /\ \E a \in artifact[k][c] :
       call' = [call EXCEPT ![p] =
                  [op |-> "trust", id |-> c, kind |-> k, artifact |-> a, trust |-> r]]
  /\ pc[p] = "idle"
  /\ pc' = [pc EXCEPT ![p] = "check"]
  /\ UNCHANGED <<files, todo, listed, loaded, began>>

\* _cmd_assess, with or without --include-shadow, and the MCP tool assess_change.
Assess(p, shadows) ==
  /\ Start(p, [op |-> "assess", shadows |-> shadows],
           IF shadows THEN LoadApproved \o LoadShadow ELSE LoadApproved)
  /\ began' = [began EXCEPT ![p] = {[status |-> Statuses, shadows |-> shadows]}]

-----------------------------------------------------------------------------
(* load_approved and load_shadow: each first reads the tombstones again. *)

\* _managed_json_paths
ListArtifacts(p) ==
  /\ pc[p] = "load"
  /\ listed[p] = {}
  /\ listed' = [listed EXCEPT ![p] = {Ids(artifact[Head(todo[p])])}]
  /\ UNCHANGED <<files, pc, call, todo, loaded, began>>

\* The artifacts listed are those attested, and each matches its attestation.
Trusted(k, ids) ==
  /\ ids = Ids(attestation[k])
  /\ \A c \in ids : Matches(k, c)

\* Fault: load_shadow keeps the ids that have a tombstone.
ForgetfulReadAttested(p) ==
  /\ pc[p] = "load"
  /\ \E ids \in listed[p] :
       /\ Trusted(Head(todo[p]), ids)
       /\ loaded' = [loaded EXCEPT ![p][Head(todo[p])] =
                       IF Head(todo[p]) = "approved" THEN ids \ loaded[p]["deprecated"] ELSE ids]
  /\ listed' = [listed EXCEPT ![p] = {}]
  /\ todo' = [todo EXCEPT ![p] = Tail(todo[p])]
  /\ pc' = [pc EXCEPT ![p] = IF Len(todo[p]) = 1 THEN "decide" ELSE "load"]
  /\ UNCHANGED <<files, call, began>>

\* _local_attestation_ids, then each artifact is read, and skipped if it is deprecated.
ReadAttested(p) ==
  /\ pc[p] = "load"
  /\ \E ids \in listed[p] :
       /\ Trusted(Head(todo[p]), ids)
       /\ loaded' = [loaded EXCEPT ![p][Head(todo[p])] =
                       IF Head(todo[p]) = "deprecated" THEN ids ELSE ids \ loaded[p]["deprecated"]]
  /\ listed' = [listed EXCEPT ![p] = {}]
  /\ todo' = [todo EXCEPT ![p] = Tail(todo[p])]
  /\ pc' = [pc EXCEPT ![p] = IF Len(todo[p]) = 1 THEN "decide" ELSE "load"]
  /\ UNCHANGED <<files, call, began>>

-----------------------------------------------------------------------------
(* The transition and its attestation. *)

\* Fault: a candidate that no load returned is deprecated as well.
UncheckedAllowed(p) ==
  LET c == call[p]
  IN \/ c.op = "promote" /\ c.kind = "shadow"
     \/ c.op = "promote" /\ c.kind = "approved" /\ c.id \in loaded[p]["shadow"]
     \/ c.op = "deprecate"

\* What the call found allows it.  The evidence gates are left open.
Allowed(p) ==
  LET c == call[p]
  IN \/ c.op = "promote" /\ c.kind = "shadow"
     \/ c.op = "promote" /\ c.kind = "approved" /\ c.id \in loaded[p]["shadow"]
     \/ c.op = "deprecate" /\ c.id \in loaded[p]["approved"] \cup loaded[p]["shadow"]

\* Fault: a reviewed artifact is replaced by a later review.
ReplacingSaveCandidate(p) ==
  /\ pc[p] = "decide"
  /\ Allowed(p)
  /\ artifact' = [artifact EXCEPT ![call[p].kind][call[p].id] = {call[p].artifact}]
  /\ pc' = [pc EXCEPT ![p] = "check"]
  /\ UNCHANGED <<cloned, attestation, locals>>

\* save_candidate: a reviewed artifact is never overwritten by another.
SaveCandidate(p) ==
  /\ pc[p] = "decide"
  /\ Allowed(p)
  /\ artifact[call[p].kind][call[p].id] \subseteq {call[p].artifact}
  /\ artifact' = [artifact EXCEPT ![call[p].kind][call[p].id] = {call[p].artifact}]
  /\ pc' = [pc EXCEPT ![p] = "check"]
  /\ UNCHANGED <<cloned, attestation, locals>>

AttestationOf(p) == [artifact |-> call[p].artifact, trust |-> call[p].trust]

\* record_transition_attestation: the file is looked at, and written, under no lock.
AttestedAlready(p) ==
  /\ pc[p] = "check"
  /\ attestation[call[p].kind][call[p].id] = {AttestationOf(p)}
  /\ pc' = [pc EXCEPT ![p] = "done"]
  /\ UNCHANGED <<files, locals>>

NotAttested(p) ==
  /\ pc[p] = "check"
  /\ attestation[call[p].kind][call[p].id] = {}
  /\ pc' = [pc EXCEPT ![p] = "write"]
  /\ UNCHANGED <<files, locals>>

WriteAttestation(p) ==
  /\ pc[p] = "write"
  /\ attestation' = [attestation EXCEPT ![call[p].kind][call[p].id] = {AttestationOf(p)}]
  /\ pc' = [pc EXCEPT ![p] = "done"]
  /\ UNCHANGED <<cloned, artifact, locals>>

-----------------------------------------------------------------------------
(* The assessment, and the end of a call. *)

\* Fault: a policy in both sets keeps its shadow status.
ShadowFirstPoliciesOf(p) ==
  [c \in Candidate |->
     CASE c \in loaded[p]["shadow"] -> "shadow"
       [] c \in loaded[p]["approved"] \ loaded[p]["shadow"] -> "approved"
       [] OTHER -> "absent"]

\* policies_by_id: an approved policy takes the place of its shadow.
PoliciesOf(p) ==
  [c \in Candidate |->
     CASE c \in loaded[p]["approved"] -> "approved"
       [] c \in loaded[p]["shadow"] \ loaded[p]["approved"] -> "shadow"
       [] OTHER -> "absent"]

\* append_prediction, with the policies the assessment loaded.
RecordPrediction(p) ==
  /\ pc[p] = "decide"
  /\ call[p].op = "assess"
  /\ pc' = [pc EXCEPT ![p] = "done"]
  /\ UNCHANGED <<files, locals>>

Leave(p) ==
  /\ pc' = [pc EXCEPT ![p] = "idle"]
  /\ call' = [call EXCEPT ![p] = Idle]
  /\ todo' = [todo EXCEPT ![p] = <<>>]
  /\ listed' = [listed EXCEPT ![p] = {}]
  /\ loaded' = [loaded EXCEPT ![p] = NothingLoaded]
  /\ began' = [began EXCEPT ![p] = {}]
  /\ UNCHANGED files

Return(p) == pc[p] = "done" /\ Leave(p)

\* A ModelError (a gate, a refused overwrite, files that differ from their
\* attestations, a lock that times out), or the death of the process.
Quit(p) == pc[p] \notin {"idle", "done"} /\ Leave(p)

Step(p) ==
  \/ \E c \in Candidate, r \in Review :
       \/ PromoteToShadow(p, c, r) \/ PromoteToApproved(p, c, r) \/ Deprecate(p, c, r)
       \/ \E k \in Kind : Trust(p, c, k, r)
  \/ \E shadows \in BOOLEAN : Assess(p, shadows)
  \/ ListArtifacts(p) \/ ReadAttested(p)
  \/ SaveCandidate(p) \/ AttestedAlready(p) \/ NotAttested(p) \/ WriteAttestation(p)
  \/ RecordPrediction(p) \/ Return(p) \/ Quit(p)

Next == \E p \in Proc : Step(p)

Spec == Init /\ [][Next]_vars

-----------------------------------------------------------------------------
(* Properties. *)

\* An attestation always has its artifact, exactly as it was attested.  Otherwise the
\* loaders refuse every policy of the clone, and no command repairs it: trust_reviewed_artifact
\* needs the artifact and record_transition_attestation replaces no attestation.
AttestationsMatch ==
  \A k \in Kind, c \in Candidate : attestation[k][c] # {} => Matches(k, c)

\* An approval or a tombstone written here was written for a policy that this clone had
\* attested before, in shadow for an approval: the gate of promote_candidate that no override
\* passes, and that of deprecate_candidate, whatever they raced with.
TransitionsFollowReview ==
  \A c \in Candidate :
    /\ (artifact["approved"][c] # {} /\ cloned["approved"][c] = {}) =>
         c \in Ids(attestation["shadow"])
    /\ (artifact["deprecated"][c] # {} /\ cloned["deprecated"][c] = {}) =>
         c \in Ids(attestation["shadow"]) \cup Ids(attestation["approved"])

-----------------------------------------------------------------------------
(* The inductive invariant. *)

\* No file has two contents.
OneContent == \A k \in Kind, c \in Candidate : \A r, s \in artifact[k][c] : r = s

\* What a process knows of the files in the middle of its call.
CallInv(p) ==
  /\ pc[p] = "load" => todo[p] # <<>>
  /\ pc[p] \in {"load", "decide"} =>
       \/ call[p] \in Assessment
       \/ call[p] \in Transition /\ (call[p].op = "deprecate" => call[p].kind = "deprecated")
  /\ pc[p] \in {"check", "write"} =>
       call[p] \in Transition /\ artifact[call[p].kind][call[p].id] = {call[p].artifact}
  /\ \A k \in Kind : loaded[p][k] \subseteq Ids(attestation[k])

\* The files are as transitions and their interruptions leave them, and what any call
\* has loaded is attested for good (save_candidate, record_transition_attestation and
\* the loaders, with any number of processes and crashes).
IInv ==
  /\ TypeOK
  /\ OneContent
  /\ AttestationsMatch
  /\ TransitionsFollowReview
  /\ \A p \in Proc : CallInv(p)

-----------------------------------------------------------------------------

Reviewed == INSTANCE PolicyReview WITH
              status <- Statuses,
              policies <- [p \in Proc |->
                             IF began[p] # {} /\ pc[p] \in {"decide", "done"}
                             THEN {PoliciesOf(p)} ELSE {}]

\* A candidate's status only advances, and a load, though it lists six directories one
\* by one, returns every candidate as it stood at some moment of the assessment: what was
\* deprecated before is never used, and what was approved before is never used as a shadow.
ImplementsPolicyReview == Reviewed!Spec

=============================================================================
