------------------------- MODULE PolicyLifecycleProofs -------------------------
(***************************************************************************)
(* Proofs about PolicyLifecycle, for any candidates, processes, reviews    *)
(* and clones.  The invariant IInv is inductive; its parts are the         *)
(* properties.                                                             *)
(***************************************************************************)
EXTENDS PolicyLifecycle, SequenceTheorems, TLAPS

(***************************************************************************)
(* Type correctness.                                                       *)
(***************************************************************************)

\* The directories a call goes through.
LEMMA LoadTypes ==
  /\ LoadApproved \in Seq(Kind) /\ LoadApproved # <<>>
  /\ LoadShadow \in Seq(Kind) /\ LoadShadow # <<>>
  /\ LoadApproved \o LoadShadow \in Seq(Kind) /\ LoadApproved \o LoadShadow # <<>>
<1>1. /\ LoadApproved \in Seq(Kind) /\ Len(LoadApproved) = 2
      /\ LoadShadow \in Seq(Kind) /\ Len(LoadShadow) = 2
  BY DEF LoadApproved, LoadShadow, Kind
<1>2. /\ LoadApproved \o LoadShadow \in Seq(Kind)
      /\ Len(LoadApproved \o LoadShadow) = 4
  BY <1>1, ConcatProperties
<1>3. QED
  BY <1>1, <1>2, LenProperties, EmptySeq

\* A candidate always has a standing.
LEMMA StandingType == Statuses \in [Candidate -> Standing]
<1>1. ASSUME NEW c \in Candidate
      PROVE  StatusOf(c) \in Standing
  BY DEF StatusOf, Standing
<1>2. QED
  BY <1>1 DEF Statuses

LEMMA TypeInit == Init => TypeOK
<1> SUFFICES ASSUME Init
             PROVE  TypeOK
  OBVIOUS
<1> USE DEF Init, TypeOK
<1>1. cloned \in Artifacts /\ artifact \in Artifacts
  BY LifecycleAssumption
<1>2. NothingLoaded \in [Kind -> SUBSET Candidate]
  BY DEF NothingLoaded
<1>3. todo \in [Proc -> Seq(Kind)]
  BY EmptySeq
<1>4. QED
  BY <1>1, <1>2, <1>3

LEMMA StartType ==
  ASSUME TypeOK, NEW p \in Proc, NEW c \in Transition \cup Assessment, NEW d \in Seq(Kind),
         Start(p, c, d), began' \in [Proc -> SUBSET [status : [Candidate -> Standing],
                                                      shadows : BOOLEAN]]
  PROVE  TypeOK'
BY DEF Start, TypeOK, files

\* The calls that begin by a transition.
LEMMA TransitionTypes ==
  ASSUME NEW c \in Candidate, NEW r \in Review, NEW t \in Review, NEW k \in Kind,
         NEW o \in {"promote", "deprecate", "trust"}
  PROVE  [op |-> o, id |-> c, kind |-> k, artifact |-> r, trust |-> t] \in Transition
BY DEF Transition

\* What is saved or attested is always a transition.
LEMMA CallTypes ==
  ASSUME IInv, NEW p \in Proc,
         \/ pc[p] = "decide" /\ Allowed(p)
         \/ pc[p] \in {"check", "write"}
  PROVE  /\ call[p] \in Transition
         /\ call[p].kind \in Kind /\ call[p].id \in Candidate
         /\ call[p].artifact \in Review /\ call[p].trust \in Review
<1>1. CallInv(p)
  BY DEF IInv
<1>2. call[p] \in Transition
  BY <1>1 DEF CallInv, Allowed, Assessment
<1>3. QED
  BY <1>2 DEF Transition

LEMMA TypeStep == IInv /\ [Next]_vars => TypeOK'
<1> SUFFICES ASSUME IInv, [Next]_vars
             PROVE  TypeOK'
  OBVIOUS
<1>a. TypeOK
  BY DEF IInv
<1>0. began' = began => began' \in [Proc -> SUBSET [status : [Candidate -> Standing],
                                                     shadows : BOOLEAN]]
  BY <1>a DEF TypeOK
<1>1. ASSUME NEW p \in Proc, NEW c \in Candidate, NEW r \in Review, PromoteToShadow(p, c, r)
      PROVE  TypeOK'
  <2>1. [op |-> "promote", id |-> c, kind |-> "shadow", artifact |-> r, trust |-> r]
          \in Transition \cup Assessment
    BY DEF Transition, Kind
  <2>2. <<>> \in Seq(Kind)
    BY EmptySeq
  <2>3. QED
    BY <1>a, <1>0, <1>1, <2>1, <2>2, StartType DEF PromoteToShadow
<1>2. ASSUME NEW p \in Proc, NEW c \in Candidate, NEW r \in Review, PromoteToApproved(p, c, r)
      PROVE  TypeOK'
  <2>1. [op |-> "promote", id |-> c, kind |-> "approved", artifact |-> r, trust |-> r]
          \in Transition \cup Assessment
    BY DEF Transition, Kind
  <2>2. QED
    BY <1>a, <1>0, <1>2, <2>1, LoadTypes, StartType DEF PromoteToApproved
<1>3. ASSUME NEW p \in Proc, NEW c \in Candidate, NEW r \in Review, Deprecate(p, c, r)
      PROVE  TypeOK'
  <2>1. [op |-> "deprecate", id |-> c, kind |-> "deprecated", artifact |-> r, trust |-> r]
          \in Transition \cup Assessment
    BY DEF Transition, Kind
  <2>2. QED
    BY <1>a, <1>0, <1>3, <2>1, LoadTypes, StartType DEF Deprecate
<1>4. ASSUME NEW p \in Proc, NEW c \in Candidate, NEW r \in Review, NEW k \in Kind,
             Trust(p, c, k, r)
      PROVE  TypeOK'
  <2>1. PICK a \in artifact[k][c] :
          call' = [call EXCEPT ![p] =
                     [op |-> "trust", id |-> c, kind |-> k, artifact |-> a, trust |-> r]]
    BY <1>4 DEF Trust
  <2>2. a \in Review
    BY <1>a DEF TypeOK, Artifacts
  <2>3. [op |-> "trust", id |-> c, kind |-> k, artifact |-> a, trust |-> r] \in Transition
    BY <2>2 DEF Transition
  <2>4. QED
    BY <1>a, <1>4, <2>1, <2>3 DEF Trust, TypeOK, files
<1>5. ASSUME NEW p \in Proc, NEW shadows \in BOOLEAN, Assess(p, shadows)
      PROVE  TypeOK'
  <2>1. [op |-> "assess", shadows |-> shadows] \in Transition \cup Assessment
    BY DEF Assessment
  <2>2. [status |-> Statuses, shadows |-> shadows]
          \in [status : [Candidate -> Standing], shadows : BOOLEAN]
    BY StandingType
  <2>3. began' \in [Proc -> SUBSET [status : [Candidate -> Standing], shadows : BOOLEAN]]
    BY <1>a, <1>5, <2>2 DEF Assess, TypeOK
  <2>4. Start(p, [op |-> "assess", shadows |-> shadows],
              IF shadows THEN LoadApproved \o LoadShadow ELSE LoadApproved)
    BY <1>5 DEF Assess
  <2>5. CASE shadows
    <3>1. Start(p, [op |-> "assess", shadows |-> shadows], LoadApproved \o LoadShadow)
      BY <2>4, <2>5
    <3>2. QED
      BY <1>a, <3>1, <2>1, <2>3, LoadTypes, StartType
  <2>6. CASE ~shadows
    <3>1. Start(p, [op |-> "assess", shadows |-> shadows], LoadApproved)
      BY <2>4, <2>6
    <3>2. QED
      BY <1>a, <3>1, <2>1, <2>3, LoadTypes, StartType
  <2>7. QED
    BY <2>5, <2>6
<1>6. ASSUME NEW p \in Proc, ListArtifacts(p)
      PROVE  TypeOK'
  BY <1>a, <1>6 DEF ListArtifacts, TypeOK, files, Ids
<1>7. ASSUME NEW p \in Proc, ReadAttested(p)
      PROVE  TypeOK'
  <2>1. PICK ids \in listed[p] :
          loaded' = [loaded EXCEPT ![p][Head(todo[p])] =
                       IF Head(todo[p]) = "deprecated" THEN ids ELSE ids \ loaded[p]["deprecated"]]
    BY <1>7 DEF ReadAttested
  <2>2. ids \subseteq Candidate
    BY <1>a, <2>1 DEF TypeOK
  <2>3. loaded' \in [Proc -> [Kind -> SUBSET Candidate]]
    BY <1>a, <2>1, <2>2 DEF TypeOK
  <2>4. todo[p] \in Seq(Kind) /\ todo[p] # <<>>
    BY <1>7 DEF ReadAttested, IInv, CallInv, TypeOK
  <2>5. Tail(todo[p]) \in Seq(Kind)
    BY <2>4, HeadTailProperties
  <2>6. todo' \in [Proc -> Seq(Kind)]
    BY <1>a, <1>7, <2>5 DEF ReadAttested, TypeOK
  <2>7. QED
    BY <1>a, <1>7, <2>3, <2>6 DEF ReadAttested, TypeOK, files
<1>8. ASSUME NEW p \in Proc, SaveCandidate(p)
      PROVE  TypeOK'
  <2>1. /\ call[p].kind \in Kind /\ call[p].id \in Candidate
        /\ call[p].artifact \in Review
    BY <1>8, CallTypes DEF SaveCandidate
  <2>2. artifact' \in Artifacts
    BY <1>a, <1>8, <2>1 DEF SaveCandidate, TypeOK, Artifacts
  <2>3. QED
    BY <1>a, <1>8, <2>2 DEF SaveCandidate, TypeOK, locals
<1>9. ASSUME NEW p \in Proc, AttestedAlready(p)
      PROVE  TypeOK'
  BY <1>a, <1>9 DEF AttestedAlready, TypeOK, files, locals
<1>10. ASSUME NEW p \in Proc, NotAttested(p)
       PROVE  TypeOK'
  BY <1>a, <1>10 DEF NotAttested, TypeOK, files, locals
<1>11. ASSUME NEW p \in Proc, WriteAttestation(p)
       PROVE  TypeOK'
  <2>1. /\ call[p].kind \in Kind /\ call[p].id \in Candidate
        /\ call[p].artifact \in Review /\ call[p].trust \in Review
    BY <1>11, CallTypes DEF WriteAttestation
  <2>2. AttestationOf(p) \in Attestation
    BY <2>1 DEF AttestationOf, Attestation
  <2>3. attestation' \in [Kind -> [Candidate -> SUBSET Attestation]]
    BY <1>a, <1>11, <2>1, <2>2 DEF WriteAttestation, TypeOK
  <2>4. QED
    BY <1>a, <1>11, <2>3 DEF WriteAttestation, TypeOK, locals
<1>12. ASSUME NEW p \in Proc, RecordPrediction(p)
       PROVE  TypeOK'
  BY <1>a, <1>12 DEF RecordPrediction, TypeOK, files, locals
<1>13. ASSUME NEW p \in Proc, Leave(p)
       PROVE  TypeOK'
  <2>1. NothingLoaded \in [Kind -> SUBSET Candidate]
    BY DEF NothingLoaded
  <2>2. QED
    BY <1>a, <1>13, <2>1, EmptySeq DEF Leave, TypeOK, files
<1>14. CASE UNCHANGED vars
  BY <1>a, <1>14 DEF vars, files, locals, TypeOK
<1>15. QED
  BY <1>1, <1>2, <1>3, <1>4, <1>5, <1>6, <1>7, <1>8, <1>9, <1>10, <1>11, <1>12, <1>13, <1>14
  DEF Next, Step, Return, Quit

(***************************************************************************)
(* The invariant.                                                          *)
(***************************************************************************)

LEMMA InvInit == Init => IInv
<1> SUFFICES ASSUME Init
             PROVE  IInv
  OBVIOUS
<1>1. TypeOK
  BY TypeInit
<1>2. OneContent
  BY LifecycleAssumption DEF Init, OneContent
<1>3. AttestationsMatch
  BY DEF Init, AttestationsMatch
<1>4. TransitionsFollowReview
  BY DEF Init, TransitionsFollowReview
<1>5. ASSUME NEW p \in Proc
      PROVE  CallInv(p)
  BY <1>5 DEF Init, CallInv, NothingLoaded
<1>6. QED
  BY <1>1, <1>2, <1>3, <1>4, <1>5 DEF IInv

\* What the files satisfy, they satisfy as long as nobody writes.
LEMMA FilesKept ==
  ASSUME IInv, UNCHANGED files
  PROVE  OneContent' /\ AttestationsMatch' /\ TransitionsFollowReview'
BY DEF IInv, files, OneContent, AttestationsMatch, Matches, TransitionsFollowReview, Ids

\* What a process knows stays true while others move, if they overwrite no file that it is
\* attesting and remove no attestation.
LEMMA OthersKept ==
  ASSUME IInv, NEW q \in Proc,
         pc'[q] = pc[q], call'[q] = call[q], todo'[q] = todo[q], loaded'[q] = loaded[q],
         \A k \in Kind, c \in Candidate :
           /\ artifact[k][c] # {} => artifact'[k][c] = artifact[k][c]
           /\ attestation[k][c] # {} => attestation'[k][c] # {}
  PROVE  CallInv(q)'
<1>1. CallInv(q)
  BY DEF IInv
<1>2. ASSUME pc[q] \in {"check", "write"}
      PROVE  artifact'[call[q].kind][call[q].id] = {call[q].artifact}
  <2>1. call[q].kind \in Kind /\ call[q].id \in Candidate
    BY <1>2, CallTypes
  <2>2. artifact[call[q].kind][call[q].id] = {call[q].artifact}
    BY <1>1, <1>2 DEF CallInv
  <2>3. QED
    BY <2>1, <2>2
<1>3. \A k \in Kind : loaded[q][k] \subseteq Ids(attestation'[k])
  BY <1>1 DEF CallInv, Ids
<1>4. QED
  BY <1>1, <1>2, <1>3 DEF CallInv

\* A call that begins knows nothing yet.
LEMMA StartInv ==
  ASSUME IInv, NEW p \in Proc, NEW c, NEW d,
         \/ c \in Assessment
         \/ c \in Transition /\ (c.op = "deprecate" => c.kind = "deprecated"),
         Start(p, c, d)
  PROVE  OneContent' /\ AttestationsMatch' /\ TransitionsFollowReview'
         /\ \A q \in Proc : CallInv(q)'
<1>1. OneContent' /\ AttestationsMatch' /\ TransitionsFollowReview'
  BY FilesKept DEF Start
<1>2. TypeOK /\ UNCHANGED <<artifact, attestation, loaded>>
  BY DEF Start, files, IInv
<1>3. CallInv(p)'
  <2>1. CallInv(p)
    BY DEF IInv
  <2>2. /\ pc'[p] = (IF d = <<>> THEN "decide" ELSE "load")
        /\ call'[p] = c /\ todo'[p] = d
    BY <1>2 DEF Start, TypeOK
  <2>3. QED
    BY <1>2, <2>1, <2>2 DEF CallInv
<1>4. ASSUME NEW q \in Proc, q # p
      PROVE  CallInv(q)'
  <2>1. /\ pc'[q] = pc[q] /\ call'[q] = call[q]
        /\ todo'[q] = todo[q] /\ loaded'[q] = loaded[q]
    BY <1>2, <1>4 DEF Start, TypeOK
  <2>2. QED
    BY <1>2, <1>4, <2>1, OthersKept
<1>5. QED
  BY <1>1, <1>3, <1>4

\* A step of p that writes no file and starts no load: what p knows is what has to be shown.
LEMMA QuietInv ==
  ASSUME IInv, NEW p \in Proc, UNCHANGED files, CallInv(p)',
         \A q \in Proc \ {p} : /\ pc'[q] = pc[q] /\ call'[q] = call[q]
                              /\ todo'[q] = todo[q] /\ loaded'[q] = loaded[q]
  PROVE  OneContent' /\ AttestationsMatch' /\ TransitionsFollowReview'
         /\ \A q \in Proc : CallInv(q)'
<1>1. OneContent' /\ AttestationsMatch' /\ TransitionsFollowReview'
  BY FilesKept
<1>2. UNCHANGED <<artifact, attestation>>
  BY DEF files
<1>3. ASSUME NEW q \in Proc, q # p
      PROVE  CallInv(q)'
  BY <1>2, <1>3, OthersKept
<1>4. QED
  BY <1>1, <1>3

LEMMA TrustInv ==
  ASSUME IInv, NEW p \in Proc, NEW c \in Candidate, NEW k \in Kind, NEW r \in Review,
         Trust(p, c, k, r)
  PROVE  OneContent' /\ AttestationsMatch' /\ TransitionsFollowReview'
         /\ \A q \in Proc : CallInv(q)'
<1>1. TypeOK /\ CallInv(p)
  BY DEF IInv
<1>2. PICK a \in artifact[k][c] :
        call' = [call EXCEPT ![p] =
                   [op |-> "trust", id |-> c, kind |-> k, artifact |-> a, trust |-> r]]
  BY DEF Trust
<1>3. artifact[k][c] = {a}
  BY <1>2 DEF IInv, OneContent
<1>4. a \in Review
  BY <1>1 DEF TypeOK, Artifacts
<1>5. /\ call'[p] = [op |-> "trust", id |-> c, kind |-> k, artifact |-> a, trust |-> r]
      /\ pc'[p] = "check"
  BY <1>1, <1>2 DEF Trust, TypeOK
<1>6. call'[p] \in Transition
  BY <1>4, <1>5 DEF Transition
<1>7. CallInv(p)'
  BY <1>1, <1>3, <1>5, <1>6 DEF CallInv, Trust, files
<1>8. \A q \in Proc \ {p} : /\ pc'[q] = pc[q] /\ call'[q] = call[q]
                            /\ todo'[q] = todo[q] /\ loaded'[q] = loaded[q]
  BY <1>1, <1>2 DEF Trust, TypeOK
<1>9. QED
  BY <1>7, <1>8, QuietInv DEF Trust

LEMMA ReadInv ==
  ASSUME IInv, NEW p \in Proc, ReadAttested(p)
  PROVE  OneContent' /\ AttestationsMatch' /\ TransitionsFollowReview'
         /\ \A q \in Proc : CallInv(q)'
<1>1. TypeOK /\ CallInv(p) /\ pc[p] = "load"
  BY DEF IInv, ReadAttested
<1>2. todo[p] \in Seq(Kind) /\ todo[p] # <<>>
  BY <1>1 DEF TypeOK, CallInv
<1>3. /\ Head(todo[p]) \in Kind /\ Tail(todo[p]) \in Seq(Kind)
      /\ Len(Tail(todo[p])) = Len(todo[p]) - 1
  BY <1>2, HeadTailProperties
<1>4. PICK ids \in listed[p] :
        /\ Trusted(Head(todo[p]), ids)
        /\ loaded' = [loaded EXCEPT ![p][Head(todo[p])] =
                        IF Head(todo[p]) = "deprecated" THEN ids
                        ELSE ids \ loaded[p]["deprecated"]]
  BY DEF ReadAttested
<1>5. ids = Ids(attestation[Head(todo[p])])
  BY <1>4 DEF Trusted
<1>6. \A k \in Kind : loaded'[p][k] \subseteq Ids(attestation[k])
  BY <1>1, <1>3, <1>4, <1>5 DEF TypeOK, CallInv
<1>7. pc'[p] = "load" => todo'[p] # <<>>
  <2>1. /\ todo'[p] = Tail(todo[p])
        /\ pc'[p] = (IF Len(todo[p]) = 1 THEN "decide" ELSE "load")
    BY <1>1 DEF ReadAttested, TypeOK
  <2>2. ASSUME Len(todo[p]) # 1
        PROVE  Len(Tail(todo[p])) # 0
    BY <1>2, <1>3, <2>2, LenProperties
  <2>3. QED
    BY <2>1, <2>2, EmptySeq
<1>8. pc'[p] \in {"load", "decide"} /\ call'[p] = call[p] /\ UNCHANGED <<artifact, attestation>>
  BY <1>1 DEF ReadAttested, TypeOK, files
<1>9. CallInv(p)'
  BY <1>1, <1>6, <1>7, <1>8 DEF CallInv
<1>10. \A q \in Proc \ {p} : /\ pc'[q] = pc[q] /\ call'[q] = call[q]
                             /\ todo'[q] = todo[q] /\ loaded'[q] = loaded[q]
  BY <1>1, <1>4 DEF ReadAttested, TypeOK
<1>11. QED
  BY <1>9, <1>10, QuietInv DEF ReadAttested

\* An artifact is only created: the files in the way of SaveCandidate make it stop.
LEMMA SaveInv ==
  ASSUME IInv, NEW p \in Proc, SaveCandidate(p)
  PROVE  OneContent' /\ AttestationsMatch' /\ TransitionsFollowReview'
         /\ \A q \in Proc : CallInv(q)'
<1>1. TypeOK /\ CallInv(p) /\ pc[p] = "decide" /\ Allowed(p)
  BY DEF IInv, SaveCandidate
<1>2. PICK k0, c0, a0 : k0 = call[p].kind /\ c0 = call[p].id /\ a0 = call[p].artifact
  OBVIOUS
<1>3. k0 \in Kind /\ c0 \in Candidate /\ a0 \in Review /\ call[p] \in Transition
  BY <1>1, <1>2, CallTypes
<1>4. /\ artifact[k0][c0] \subseteq {a0}
      /\ artifact' = [artifact EXCEPT ![k0][c0] = {a0}]
      /\ UNCHANGED <<cloned, attestation, locals>>
  BY <1>2 DEF SaveCandidate
<1>5. \A k \in Kind, c \in Candidate :
        artifact'[k][c] = IF k = k0 /\ c = c0 THEN {a0} ELSE artifact[k][c]
  BY <1>1, <1>3, <1>4 DEF TypeOK, Artifacts
<1>6. \A k \in Kind, c \in Candidate : artifact[k][c] # {} => artifact'[k][c] = artifact[k][c]
  BY <1>4, <1>5
<1>7. OneContent'
  BY <1>5 DEF IInv, OneContent
<1>8. AttestationsMatch'
  BY <1>4, <1>6 DEF IInv, AttestationsMatch, Matches
<1>9. TransitionsFollowReview'
  <2>1. \A k \in Kind : loaded[p][k] \subseteq Ids(attestation[k])
    BY <1>1 DEF CallInv
  <2>2. k0 = "approved" => c0 \in Ids(attestation["shadow"])
    BY <1>1, <1>2, <2>1 DEF Allowed, CallInv, Assessment, Kind
  <2>3. k0 = "deprecated" =>
          c0 \in Ids(attestation["shadow"]) \cup Ids(attestation["approved"])
    BY <1>1, <1>2, <2>1 DEF Allowed, CallInv, Assessment, Kind
  <2>4. ASSUME NEW c \in Candidate, artifact'["approved"][c] # {}, cloned["approved"][c] = {}
        PROVE  c \in Ids(attestation["shadow"])
    BY <1>5, <2>2, <2>4 DEF IInv, TransitionsFollowReview, Kind
  <2>5. ASSUME NEW c \in Candidate, artifact'["deprecated"][c] # {},
               cloned["deprecated"][c] = {}
        PROVE  c \in Ids(attestation["shadow"]) \cup Ids(attestation["approved"])
    BY <1>5, <2>3, <2>5 DEF IInv, TransitionsFollowReview, Kind
  <2>6. QED
    BY <1>4, <2>4, <2>5 DEF TransitionsFollowReview, Ids
<1>10. CallInv(p)'
  <2>1. pc'[p] = "check" /\ call'[p] = call[p] /\ loaded'[p] = loaded[p]
    BY <1>1, <1>4 DEF SaveCandidate, TypeOK, locals
  <2>2. artifact'[call[p].kind][call[p].id] = {call[p].artifact}
    BY <1>2, <1>3, <1>5
  <2>3. QED
    BY <1>1, <1>3, <1>4, <2>1, <2>2 DEF CallInv, Ids
<1>11. ASSUME NEW q \in Proc, q # p
       PROVE  CallInv(q)'
  <2>1. /\ pc'[q] = pc[q] /\ call'[q] = call[q]
        /\ todo'[q] = todo[q] /\ loaded'[q] = loaded[q]
    BY <1>1, <1>4, <1>11 DEF SaveCandidate, TypeOK, locals
  <2>2. QED
    BY <1>4, <1>6, <1>11, <2>1, OthersKept
<1>12. QED
  BY <1>7, <1>8, <1>9, <1>10, <1>11

\* An attestation is written over an artifact that the process has seen, and that nobody
\* can have replaced since.
LEMMA WriteInv ==
  ASSUME IInv, NEW p \in Proc, WriteAttestation(p)
  PROVE  OneContent' /\ AttestationsMatch' /\ TransitionsFollowReview'
         /\ \A q \in Proc : CallInv(q)'
<1>1. TypeOK /\ CallInv(p) /\ pc[p] = "write"
  BY DEF IInv, WriteAttestation
<1>2. PICK k0, c0, v0 : k0 = call[p].kind /\ c0 = call[p].id /\ v0 = AttestationOf(p)
  OBVIOUS
<1>3. k0 \in Kind /\ c0 \in Candidate
  BY <1>1, <1>2, CallTypes
<1>4. artifact[k0][c0] = {v0.artifact}
  BY <1>1, <1>2 DEF CallInv, AttestationOf
<1>5. /\ attestation' = [attestation EXCEPT ![k0][c0] = {v0}]
      /\ UNCHANGED <<cloned, artifact, locals>>
  BY <1>2 DEF WriteAttestation
<1>6. \A k \in Kind, c \in Candidate :
        attestation'[k][c] = IF k = k0 /\ c = c0 THEN {v0} ELSE attestation[k][c]
  BY <1>1, <1>3, <1>5 DEF TypeOK
<1>7. OneContent'
  BY <1>5 DEF IInv, OneContent
<1>8. AttestationsMatch'
  BY <1>4, <1>5, <1>6 DEF IInv, AttestationsMatch, Matches
<1>9. \A k \in Kind : Ids(attestation[k]) \subseteq Ids(attestation'[k])
  BY <1>6 DEF Ids
<1>10. TransitionsFollowReview'
  BY <1>5, <1>9 DEF IInv, TransitionsFollowReview, Kind
<1>11. CallInv(p)'
  <2>1. pc'[p] = "done" /\ call'[p] = call[p] /\ loaded'[p] = loaded[p]
    BY <1>1, <1>5 DEF WriteAttestation, TypeOK, locals
  <2>2. \A k \in Kind : loaded[p][k] \subseteq Ids(attestation'[k])
    BY <1>1, <1>9 DEF CallInv
  <2>3. QED
    BY <2>1, <2>2 DEF CallInv
<1>12. ASSUME NEW q \in Proc, q # p
       PROVE  CallInv(q)'
  <2>1. /\ pc'[q] = pc[q] /\ call'[q] = call[q]
        /\ todo'[q] = todo[q] /\ loaded'[q] = loaded[q]
    BY <1>1, <1>5, <1>12 DEF WriteAttestation, TypeOK, locals
  <2>2. \A k \in Kind, c \in Candidate :
          /\ artifact'[k][c] = artifact[k][c]
          /\ attestation[k][c] # {} => attestation'[k][c] # {}
    BY <1>5, <1>6
  <2>3. QED
    BY <1>12, <2>1, <2>2, OthersKept
<1>13. QED
  BY <1>7, <1>8, <1>10, <1>11, <1>12

\* The parts of IInv that a step has to keep, besides the types.
Kept ==
  /\ OneContent /\ AttestationsMatch /\ TransitionsFollowReview
  /\ \A q \in Proc : CallInv(q)

LEMMA InvStep == IInv /\ [Next]_vars => IInv'
<1> SUFFICES ASSUME IInv, [Next]_vars
             PROVE  IInv'
  OBVIOUS
<1>a. TypeOK /\ Kept
  BY DEF IInv, Kept
<1>b. SUFFICES Kept'
  BY TypeStep DEF IInv, Kept
<1>1. ASSUME NEW p \in Proc, NEW c \in Candidate, NEW r \in Review, PromoteToShadow(p, c, r)
      PROVE  Kept'
  <2>1. [op |-> "promote", id |-> c, kind |-> "shadow", artifact |-> r, trust |-> r]
          \in Transition
    BY TransitionTypes DEF Kind
  <2>2. QED
    BY <1>1, <2>1, StartInv DEF PromoteToShadow, Kept
<1>2. ASSUME NEW p \in Proc, NEW c \in Candidate, NEW r \in Review, PromoteToApproved(p, c, r)
      PROVE  Kept'
  <2>1. [op |-> "promote", id |-> c, kind |-> "approved", artifact |-> r, trust |-> r]
          \in Transition
    BY TransitionTypes DEF Kind
  <2>2. QED
    BY <1>2, <2>1, StartInv DEF PromoteToApproved, Kept
<1>3. ASSUME NEW p \in Proc, NEW c \in Candidate, NEW r \in Review, Deprecate(p, c, r)
      PROVE  Kept'
  <2>1. [op |-> "deprecate", id |-> c, kind |-> "deprecated", artifact |-> r, trust |-> r]
          \in Transition
    BY TransitionTypes DEF Kind
  <2>2. QED
    BY <1>3, <2>1, StartInv DEF Deprecate, Kept
<1>4. ASSUME NEW p \in Proc, NEW c \in Candidate, NEW r \in Review, NEW k \in Kind,
             Trust(p, c, k, r)
      PROVE  Kept'
  BY <1>4, TrustInv DEF Kept
<1>5. ASSUME NEW p \in Proc, NEW shadows \in BOOLEAN, Assess(p, shadows)
      PROVE  Kept'
  <2>1. [op |-> "assess", shadows |-> shadows] \in Assessment
    BY DEF Assessment
  <2>2. QED
    BY <1>5, <2>1, StartInv DEF Assess, Kept
<1>6. ASSUME NEW p \in Proc, ListArtifacts(p)
      PROVE  Kept'
  <2>1. UNCHANGED <<files, pc, call, todo, loaded>>
    BY <1>6 DEF ListArtifacts
  <2>2. CallInv(p)'
    BY <1>a, <2>1 DEF Kept, CallInv, files, Ids
  <2>3. QED
    BY <2>1, <2>2, QuietInv DEF Kept
<1>7. ASSUME NEW p \in Proc, ReadAttested(p)
      PROVE  Kept'
  BY <1>7, ReadInv DEF Kept
<1>8. ASSUME NEW p \in Proc, SaveCandidate(p)
      PROVE  Kept'
  BY <1>8, SaveInv DEF Kept
<1>9. ASSUME NEW p \in Proc, AttestedAlready(p) \/ RecordPrediction(p)
      PROVE  Kept'
  <2>1. UNCHANGED <<files, locals>> /\ pc' = [pc EXCEPT ![p] = "done"]
    BY <1>9 DEF AttestedAlready, RecordPrediction
  <2>2. CallInv(p)'
    BY <1>a, <2>1 DEF Kept, CallInv, TypeOK, files, locals, Ids
  <2>3. \A q \in Proc \ {p} : /\ pc'[q] = pc[q] /\ call'[q] = call[q]
                              /\ todo'[q] = todo[q] /\ loaded'[q] = loaded[q]
    BY <1>a, <2>1 DEF TypeOK, locals
  <2>4. QED
    BY <2>1, <2>2, <2>3, QuietInv DEF Kept
<1>10. ASSUME NEW p \in Proc, NotAttested(p)
       PROVE  Kept'
  <2>1. /\ UNCHANGED <<files, locals>> /\ pc' = [pc EXCEPT ![p] = "write"]
        /\ pc[p] = "check"
    BY <1>10 DEF NotAttested
  <2>2. CallInv(p)'
    BY <1>a, <2>1 DEF Kept, CallInv, TypeOK, files, locals, Ids
  <2>3. \A q \in Proc \ {p} : /\ pc'[q] = pc[q] /\ call'[q] = call[q]
                              /\ todo'[q] = todo[q] /\ loaded'[q] = loaded[q]
    BY <1>a, <2>1 DEF TypeOK, locals
  <2>4. QED
    BY <2>1, <2>2, <2>3, QuietInv DEF Kept
<1>11. ASSUME NEW p \in Proc, WriteAttestation(p)
       PROVE  Kept'
  BY <1>11, WriteInv DEF Kept
<1>12. ASSUME NEW p \in Proc, Leave(p)
       PROVE  Kept'
  <2>1. pc'[p] = "idle" /\ loaded'[p] = NothingLoaded /\ UNCHANGED files
    BY <1>a, <1>12 DEF Leave, TypeOK
  <2>2. CallInv(p)'
    BY <2>1 DEF CallInv, NothingLoaded
  <2>3. \A q \in Proc \ {p} : /\ pc'[q] = pc[q] /\ call'[q] = call[q]
                              /\ todo'[q] = todo[q] /\ loaded'[q] = loaded[q]
    BY <1>a, <1>12 DEF Leave, TypeOK
  <2>4. QED
    BY <2>1, <2>2, <2>3, QuietInv DEF Kept
<1>13. CASE UNCHANGED vars
  <2>1. UNCHANGED files /\ UNCHANGED <<pc, call, todo, loaded>>
    BY <1>13 DEF vars, locals
  <2>2. OneContent' /\ AttestationsMatch' /\ TransitionsFollowReview'
    BY <2>1, FilesKept
  <2>3. ASSUME NEW q \in Proc
        PROVE  CallInv(q)'
    BY <1>a, <2>1 DEF Kept, CallInv, files, Ids
  <2>4. QED
    BY <2>2, <2>3 DEF Kept
<1>14. CASE Next
  <2>1. PICK p \in Proc : Step(p)
    BY <1>14 DEF Next
  <2>2. CASE \E c \in Candidate, r \in Review :
               \/ PromoteToShadow(p, c, r) \/ PromoteToApproved(p, c, r) \/ Deprecate(p, c, r)
               \/ \E k \in Kind : Trust(p, c, k, r)
    BY <2>2, <1>1, <1>2, <1>3, <1>4
  <2>3. CASE \E shadows \in BOOLEAN : Assess(p, shadows)
    BY <2>3, <1>5
  <2>4. CASE \/ ListArtifacts(p) \/ ReadAttested(p)
             \/ SaveCandidate(p) \/ AttestedAlready(p) \/ NotAttested(p) \/ WriteAttestation(p)
             \/ RecordPrediction(p)
    BY <2>4, <1>6, <1>7, <1>8, <1>9, <1>10, <1>11
  <2>5. CASE Return(p) \/ Quit(p)
    BY <2>5, <1>12 DEF Return, Quit
  <2>6. QED
    BY <2>1, <2>2, <2>3, <2>4, <2>5 DEF Step
<1>15. QED
  BY <1>13, <1>14

(***************************************************************************)
(* The theorems.                                                           *)
(***************************************************************************)

\* The files are always as transitions and their interruptions leave them, and every call
\* knows only what is attested for good.
THEOREM InductiveInvariant == Spec => []IInv
<1>1. QED
  BY InvInit, InvStep, PTL DEF Spec

\* Every state is well typed: the shape of the files and of the calls.
THEOREM TypeCorrect == Spec => []TypeOK
<1>1. IInv => TypeOK
  BY DEF IInv
<1>2. QED
  BY <1>1, InductiveInvariant, PTL

\* No interleaving of transitions, and no death between an artifact and its attestation,
\* leaves an attestation that its artifact contradicts: the files stay loadable, or become
\* so again by trusting what lacks an attestation.
THEOREM Repairable == Spec => []AttestationsMatch
<1>1. IInv => AttestationsMatch
  BY DEF IInv
<1>2. QED
  BY <1>1, InductiveInvariant, PTL

\* No approval and no tombstone is written here for a policy that this clone had not
\* attested, however the checks of promote_candidate and deprecate_candidate race.
THEOREM FollowsReview == Spec => []TransitionsFollowReview
<1>1. IInv => TransitionsFollowReview
  BY DEF IInv
<1>2. QED
  BY <1>1, InductiveInvariant, PTL

(***************************************************************************)
(* The refinement.  For each load, what it has read so far settles how the *)
(* candidates stood when the assessment began.                             *)
(***************************************************************************)

\* The directories that an assessment may have yet to read.
Ahead(shadows) ==
  IF shadows
  THEN {<<"deprecated", "approved", "deprecated", "shadow">>,
        <<"approved", "deprecated", "shadow">>, <<"deprecated", "shadow">>, <<"shadow">>}
  ELSE {<<"deprecated", "approved">>, <<"approved">>}

\* p has read the directory of kind k, since these are all it has yet to read.
HasRead(p, k) ==
  \/ pc[p] # "load"
  \/ /\ k = "deprecated"
     /\ todo[p] \in {<<"approved">>, <<"approved", "deprecated", "shadow">>}
  \/ /\ k \in {"deprecated", "approved"}
     /\ todo[p] \in {<<"deprecated", "shadow">>, <<"shadow">>}

\* What an assessment that began at b has loaded: it missed nobody who stood in a
\* directory that it has read, and took nobody who stood further already.
LoadInv(p, b) ==
  /\ pc[p] \in {"load", "decide", "done"} /\ call[p].op = "assess"
  /\ pc[p] = "load" => todo[p] \in Ahead(b.shadows)
  /\ \A c \in Candidate :
       /\ b.status[c] # "candidate" => c \in Ids(attestation[b.status[c]])
       /\ \A k \in Kind :
            b.status[c] = k /\ HasRead(p, k) /\ (k = "shadow" => b.shadows) =>
              c \in loaded[p][k] \cup loaded[p]["deprecated"]
       /\ c \in loaded[p]["approved"] => b.status[c] # "deprecated"
       /\ c \in loaded[p]["shadow"] =>
            pc[p] # "load" /\ b.shadows /\ c \notin loaded[p]["deprecated"]

LoadsInv ==
  \A p \in Proc :
    /\ pc[p] = "idle" => began[p] = {} /\ loaded[p] = NothingLoaded
    /\ \A b \in began[p] : LoadInv(p, b) /\ began[p] = {b}

LEMMA LoadsInit == Init => LoadsInv
BY DEF Init, LoadsInv

\* What a load has read settles the same things while others attest more.
LEMMA LoadKept ==
  ASSUME NEW q \in Proc, LoadsInv, IInv,
         pc'[q] = pc[q], call'[q] = call[q], todo'[q] = todo[q], loaded'[q] = loaded[q],
         began'[q] = began[q],
         \A k \in Kind : Ids(attestation[k]) \subseteq Ids(attestation'[k])
  PROVE  /\ pc'[q] = "idle" => began'[q] = {} /\ loaded'[q] = NothingLoaded
         /\ \A b \in began'[q] : LoadInv(q, b)' /\ began'[q] = {b}
<1>1. /\ pc[q] = "idle" => began[q] = {} /\ loaded[q] = NothingLoaded
      /\ \A b \in began[q] : LoadInv(q, b) /\ began[q] = {b}
  BY DEF LoadsInv
<1>2. ASSUME NEW b \in began[q]
      PROVE  LoadInv(q, b)'
  <2>1. \A c \in Candidate : b.status[c] \in Standing
    BY DEF IInv, TypeOK
  <2>2. \A c \in Candidate :
          b.status[c] # "candidate" => c \in Ids(attestation'[b.status[c]])
    BY <1>1, <2>1 DEF LoadInv, Standing, Kind
  <2>3. QED
    BY <1>1, <2>2 DEF LoadInv, HasRead
<1>3. QED
  BY <1>1, <1>2

\* The places a call can be at, as it goes through its directories.
LEMMA Directories ==
  /\ LoadApproved = <<"deprecated", "approved">>
  /\ LoadApproved \o LoadShadow = <<"deprecated", "approved", "deprecated", "shadow">>
<1> DEFINE all == LoadApproved \o LoadShadow
           four == <<"deprecated", "approved", "deprecated", "shadow">>
<1>1. /\ LoadApproved \in Seq(Kind) /\ LoadShadow \in Seq(Kind)
      /\ Len(LoadApproved) = 2 /\ Len(LoadShadow) = 2
  BY DEF LoadApproved, LoadShadow, Kind
<1>2. /\ all \in Seq(Kind) /\ Len(all) = 4
      /\ all[1] = LoadApproved[1] /\ all[2] = LoadApproved[2]
      /\ all[3] = LoadShadow[1] /\ all[4] = LoadShadow[2]
  <2>1. all \in Seq(Kind) /\ Len(all) = Len(LoadApproved) + Len(LoadShadow)
    BY <1>1, ConcatProperties
  <2>2. \A i \in 1 .. Len(LoadApproved) + Len(LoadShadow) :
          all[i] = IF i <= Len(LoadApproved) THEN LoadApproved[i]
                   ELSE LoadShadow[i - Len(LoadApproved)]
    BY <1>1, ConcatProperties
  <2> HIDE DEF all, four
  <2>3. \A i \in 1 .. 4 : all[i] = IF i <= 2 THEN LoadApproved[i] ELSE LoadShadow[i - 2]
    BY <1>1, <2>2
  <2>4. QED
    BY <1>1, <2>1, <2>3
<1>3. \A i \in 1 .. 4 : all[i] = four[i]
  BY <1>2 DEF LoadApproved, LoadShadow
<1>4. four \in Seq(Kind) /\ Len(four) = 4
  BY DEF Kind
<1>5. all = four
  BY <1>2, <1>3, <1>4, SeqEqual
<1>6. QED
  BY <1>5 DEF LoadApproved

LEMMA NextDirectory ==
  ASSUME NEW t, NEW shadows \in BOOLEAN, t \in Ahead(shadows)
  PROVE  /\ Head(t) \in Kind
         /\ Len(t) = 1 => Tail(t) = <<>> /\ t \in {<<"approved">>, <<"shadow">>}
         /\ Len(t) # 1 => Tail(t) \in Ahead(shadows)
         /\ Len(t) = 1 /\ shadows => t = <<"shadow">>
<1>1. CASE t = <<"deprecated", "approved", "deprecated", "shadow">>
  BY <1>1 DEF Ahead, Kind
<1>2. CASE t = <<"approved", "deprecated", "shadow">>
  BY <1>2 DEF Ahead, Kind
<1>3. CASE t = <<"deprecated", "shadow">>
  BY <1>3 DEF Ahead, Kind
<1>4. CASE t = <<"shadow">>
  BY <1>4 DEF Ahead, Kind
<1>5. CASE t = <<"deprecated", "approved">>
  BY <1>5 DEF Ahead, Kind
<1>6. CASE t = <<"approved">>
  BY <1>6 DEF Ahead, Kind
<1>7. QED
  BY <1>1, <1>2, <1>3, <1>4, <1>5, <1>6 DEF Ahead

\* A directory is read in one step, as it is attested then.
LEMMA ReadEffect ==
  ASSUME IInv, NEW p \in Proc, ReadAttested(p), Head(todo[p]) \in Kind
  PROVE  LET k == Head(todo[p])
         IN /\ loaded'[p][k] =
                 IF k = "deprecated" THEN Ids(attestation[k])
                 ELSE Ids(attestation[k]) \ loaded[p]["deprecated"]
            /\ \A j \in Kind \ {k} : loaded'[p][j] = loaded[p][j]
            /\ loaded[p]["deprecated"] \subseteq loaded'[p]["deprecated"]
            /\ todo'[p] = Tail(todo[p])
            /\ pc'[p] = IF Len(todo[p]) = 1 THEN "decide" ELSE "load"
            /\ call'[p] = call[p]
            /\ UNCHANGED <<files, began>>
<1>1. TypeOK /\ CallInv(p)
  BY DEF IInv
<1>2. PICK ids \in listed[p] :
        /\ Trusted(Head(todo[p]), ids)
        /\ loaded' = [loaded EXCEPT ![p][Head(todo[p])] =
                        IF Head(todo[p]) = "deprecated" THEN ids
                        ELSE ids \ loaded[p]["deprecated"]]
  BY DEF ReadAttested
<1>3. ids = Ids(attestation[Head(todo[p])])
  BY <1>2 DEF Trusted
<1>4. loaded[p]["deprecated"] \subseteq Ids(attestation["deprecated"])
  BY <1>1 DEF CallInv, Kind
<1>5. /\ loaded'[p][Head(todo[p])] =
           IF Head(todo[p]) = "deprecated" THEN ids ELSE ids \ loaded[p]["deprecated"]
      /\ \A j \in Kind \ {Head(todo[p])} : loaded'[p][j] = loaded[p][j]
  BY <1>1, <1>2 DEF TypeOK
<1>6. loaded[p]["deprecated"] \subseteq loaded'[p]["deprecated"]
  BY <1>3, <1>4, <1>5 DEF Kind
<1>7. /\ todo'[p] = Tail(todo[p])
      /\ pc'[p] = IF Len(todo[p]) = 1 THEN "decide" ELSE "load"
      /\ call'[p] = call[p]
      /\ UNCHANGED <<files, began>>
  BY <1>1 DEF ReadAttested, TypeOK
<1>8. QED
  BY <1>3, <1>5, <1>6, <1>7

\* What the next call has read is what this one had, and the directory it reads.
LEMMA ReadNow ==
  ASSUME IInv, NEW p \in Proc, ReadAttested(p), NEW shadows \in BOOLEAN,
         todo[p] \in Ahead(shadows), NEW k \in Kind, HasRead(p, k)',
         k = "shadow" => shadows
  PROVE  k = Head(todo[p]) \/ HasRead(p, k)
<1>1. Head(todo[p]) \in Kind
  BY NextDirectory
<1>2. /\ todo'[p] = Tail(todo[p])
      /\ pc'[p] = IF Len(todo[p]) = 1 THEN "decide" ELSE "load"
  BY <1>1, ReadEffect
<1>3. CASE todo[p] = <<"deprecated", "approved", "deprecated", "shadow">>
  BY <1>2, <1>3 DEF HasRead, Kind
<1>4. CASE todo[p] = <<"approved", "deprecated", "shadow">>
  BY <1>2, <1>4 DEF HasRead, Kind
<1>5. CASE todo[p] = <<"deprecated", "shadow">>
  BY <1>2, <1>5 DEF HasRead, Kind
<1>6. CASE todo[p] = <<"shadow">>
  BY <1>2, <1>6 DEF HasRead, Kind
<1>7. CASE todo[p] = <<"deprecated", "approved">>
  BY <1>2, <1>7 DEF HasRead, Kind
<1>8. CASE todo[p] = <<"approved">> /\ ~shadows
  BY <1>2, <1>8 DEF HasRead, Kind
<1>9. QED
  BY <1>3, <1>4, <1>5, <1>6, <1>7, <1>8 DEF Ahead

\* Tombstones are always read before the policies that they rule out.
LEMMA TombstonesFirst ==
  ASSUME NEW p \in Proc, NEW shadows \in BOOLEAN, todo[p] \in Ahead(shadows),
         Head(todo[p]) # "deprecated"
  PROVE  /\ HasRead(p, "deprecated")
         /\ Head(todo[p]) = "shadow" => shadows /\ Len(todo[p]) = 1
BY DEF Ahead, HasRead

LEMMA ReadLoad ==
  ASSUME IInv, LoadsInv, NEW p \in Proc, ReadAttested(p), NEW b \in began[p]
  PROVE  LoadInv(p, b)'
<1> DEFINE h == Head(todo[p])
<1>1. /\ LoadInv(p, b) /\ pc[p] = "load" /\ todo[p] \in Ahead(b.shadows)
      /\ b.shadows \in BOOLEAN /\ b.status \in [Candidate -> Standing]
  BY DEF LoadsInv, LoadInv, ReadAttested, IInv, TypeOK
<1>2. h \in Kind
  BY <1>1, NextDirectory
<1> HIDE DEF h
<1>3. /\ loaded'[p][h] =
           IF h = "deprecated" THEN Ids(attestation[h])
           ELSE Ids(attestation[h]) \ loaded[p]["deprecated"]
      /\ \A j \in Kind \ {h} : loaded'[p][j] = loaded[p][j]
      /\ loaded[p]["deprecated"] \subseteq loaded'[p]["deprecated"]
      /\ todo'[p] = Tail(todo[p])
      /\ pc'[p] = IF Len(todo[p]) = 1 THEN "decide" ELSE "load"
      /\ call'[p] = call[p]
      /\ UNCHANGED <<attestation, began>>
  BY <1>2, ReadEffect DEF h, files
<1>4. pc'[p] \in {"load", "decide", "done"} /\ call'[p].op = "assess"
  BY <1>1, <1>3 DEF LoadInv
<1>5. pc'[p] = "load" => todo'[p] \in Ahead(b.shadows)
  BY <1>1, <1>3, NextDirectory
<1>6. ASSUME NEW c \in Candidate
      PROVE  /\ b.status[c] # "candidate" => c \in Ids(attestation'[b.status[c]])
             /\ \A k \in Kind :
                  b.status[c] = k /\ HasRead(p, k)' /\ (k = "shadow" => b.shadows) =>
                    c \in loaded'[p][k] \cup loaded'[p]["deprecated"]
             /\ c \in loaded'[p]["approved"] => b.status[c] # "deprecated"
             /\ c \in loaded'[p]["shadow"] =>
                  pc'[p] # "load" /\ b.shadows /\ c \notin loaded'[p]["deprecated"]
  <2>1. b.status[c] # "candidate" => c \in Ids(attestation[b.status[c]])
    BY <1>1 DEF LoadInv
  <2>2. ASSUME NEW k \in Kind, b.status[c] = k, HasRead(p, k)', k = "shadow" => b.shadows
        PROVE  c \in loaded'[p][k] \cup loaded'[p]["deprecated"]
    <3>1. k = h \/ HasRead(p, k)
      BY <1>1, <2>2, ReadNow DEF h
    <3>2. c \in Ids(attestation[k])
      BY <2>1, <2>2 DEF Kind
    <3>3. CASE k = h
      BY <1>3, <3>2, <3>3
    <3>4. CASE k # h /\ HasRead(p, k)
      <4>1. c \in loaded[p][k] \cup loaded[p]["deprecated"]
        BY <1>1, <2>2, <3>4 DEF LoadInv
      <4>2. QED
        BY <1>3, <3>4, <4>1
    <3>5. QED
      BY <3>1, <3>3, <3>4
  <2>3. ASSUME h # "deprecated"
        PROVE  /\ b.status[c] = "deprecated" => c \in loaded[p]["deprecated"]
               /\ h = "shadow" => b.shadows /\ pc'[p] # "load"
    <3>1. /\ HasRead(p, "deprecated")
          /\ h = "shadow" => b.shadows /\ Len(todo[p]) = 1
      BY <1>1, <2>3, TombstonesFirst DEF h
    <3>2. QED
      BY <1>1, <1>3, <3>1 DEF LoadInv, Kind
  <2>4. c \in loaded'[p]["approved"] => b.status[c] # "deprecated"
    <3>1. CASE h = "approved"
      BY <1>3, <2>3, <3>1
    <3>2. CASE h # "approved"
      BY <1>1, <1>3, <3>2 DEF LoadInv, Kind
    <3>3. QED
      BY <3>1, <3>2
  <2>5. ASSUME c \in loaded'[p]["shadow"]
        PROVE  pc'[p] # "load" /\ b.shadows /\ c \notin loaded'[p]["deprecated"]
    <3>1. c \notin loaded[p]["shadow"]
      BY <1>1 DEF LoadInv
    <3>2. h = "shadow"
      BY <1>3, <2>5, <3>1 DEF Kind
    <3>3. QED
      BY <1>3, <2>3, <2>5, <3>2 DEF Kind
  <2>6. QED
    BY <1>3, <2>1, <2>2, <2>4, <2>5
<1>7. QED
  BY <1>4, <1>5, <1>6 DEF LoadInv

\* Attestations only come into being.
LEMMA AttestationsGrow ==
  ASSUME IInv, NEW p \in Proc, WriteAttestation(p)
  PROVE  /\ call[p].kind \in Kind /\ call[p].id \in Candidate
         /\ \A k \in Kind, c \in Candidate :
              attestation'[k][c] = IF k = call[p].kind /\ c = call[p].id
                                   THEN {AttestationOf(p)} ELSE attestation[k][c]
         /\ \A k \in Kind : Ids(attestation[k]) \subseteq Ids(attestation'[k])
<1>1. call[p].kind \in Kind /\ call[p].id \in Candidate
  BY CallTypes DEF WriteAttestation
<1>2. \A k \in Kind, c \in Candidate :
        attestation'[k][c] = IF k = call[p].kind /\ c = call[p].id
                             THEN {AttestationOf(p)} ELSE attestation[k][c]
  BY <1>1 DEF WriteAttestation, IInv, TypeOK
<1>3. QED
  BY <1>1, <1>2 DEF Ids

\* A step of p: what p has loaded is what has to be shown.
LEMMA LoadsByOne ==
  ASSUME IInv, LoadsInv, NEW p \in Proc,
         \A k \in Kind : Ids(attestation[k]) \subseteq Ids(attestation'[k]),
         \A q \in Proc \ {p} : /\ pc'[q] = pc[q] /\ call'[q] = call[q] /\ todo'[q] = todo[q]
                              /\ loaded'[q] = loaded[q] /\ began'[q] = began[q],
         /\ pc'[p] = "idle" => began'[p] = {} /\ loaded'[p] = NothingLoaded
         /\ \A b \in began'[p] : LoadInv(p, b)' /\ began'[p] = {b}
  PROVE  LoadsInv'
<1>1. ASSUME NEW q \in Proc, q # p
      PROVE  /\ pc'[q] = "idle" => began'[q] = {} /\ loaded'[q] = NothingLoaded
             /\ \A b \in began'[q] : LoadInv(q, b)' /\ began'[q] = {b}
  BY <1>1, LoadKept
<1>2. QED
  BY <1>1 DEF LoadsInv

\* A transition is not an assessment, and has begun none.
LEMMA NotAssessing ==
  ASSUME IInv, LoadsInv, NEW p \in Proc,
         pc[p] = "idle" \/ pc[p] \in {"check", "write"} \/ (pc[p] = "decide" /\ Allowed(p))
  PROVE  began[p] = {}
BY DEF LoadsInv, LoadInv, Allowed

LEMMA AssessLoads ==
  ASSUME IInv, LoadsInv, NEW p \in Proc, NEW shadows \in BOOLEAN, Assess(p, shadows)
  PROVE  LoadsInv'
<1> DEFINE b == [status |-> Statuses, shadows |-> shadows]
<1>1. TypeOK /\ UNCHANGED <<attestation, loaded>> /\ pc[p] = "idle"
  BY DEF Assess, Start, files, IInv
<1>2. began' = [began EXCEPT ![p] = {b}]
  BY DEF Assess
<1>3. /\ call'[p] = [op |-> "assess", shadows |-> shadows]
      /\ todo'[p] = IF shadows THEN LoadApproved \o LoadShadow ELSE LoadApproved
      /\ pc'[p] = IF (IF shadows THEN LoadApproved \o LoadShadow ELSE LoadApproved) = <<>>
                  THEN "decide" ELSE "load"
  BY <1>1 DEF Assess, Start, TypeOK
<1>4. /\ todo'[p] = IF shadows
                    THEN <<"deprecated", "approved", "deprecated", "shadow">>
                    ELSE <<"deprecated", "approved">>
      /\ pc'[p] = "load"
  BY <1>3, Directories, LoadTypes
<1>5. todo'[p] \in Ahead(shadows) /\ \A k \in Kind : ~HasRead(p, k)'
  BY <1>4 DEF Ahead, HasRead
<1>6. loaded'[p] = NothingLoaded
  BY <1>1 DEF LoadsInv
<1>7. ASSUME NEW c \in Candidate, Statuses[c] # "candidate"
      PROVE  c \in Ids(attestation[Statuses[c]])
  BY <1>7 DEF Statuses, StatusOf, Ids
<1>8. began'[p] = {b}
  BY <1>1, <1>2 DEF TypeOK
<1>9. ASSUME NEW a \in began'[p]
      PROVE  LoadInv(p, a)' /\ began'[p] = {a}
  <2>1. a.shadows = shadows /\ a.status = Statuses /\ began'[p] = {a}
    BY <1>8
  <2>2. \A c \in Candidate :
          /\ a.status[c] # "candidate" => c \in Ids(attestation'[a.status[c]])
          /\ c \notin loaded'[p]["approved"] /\ c \notin loaded'[p]["shadow"]
    BY <1>1, <1>6, <1>7, <2>1 DEF NothingLoaded, Kind
  <2>3. QED
    BY <1>3, <1>4, <1>5, <2>1, <2>2 DEF LoadInv
<1>10. \A q \in Proc \ {p} : /\ pc'[q] = pc[q] /\ call'[q] = call[q] /\ todo'[q] = todo[q]
                             /\ loaded'[q] = loaded[q] /\ began'[q] = began[q]
  BY <1>1, <1>2 DEF Assess, Start, TypeOK
<1>11. QED
  BY <1>1, <1>4, <1>9, <1>10, LoadsByOne

\* The calls of others do not see a step of p, other than by the files.
OthersStill(p) ==
  \A q \in Proc \ {p} : /\ pc'[q] = pc[q] /\ call'[q] = call[q] /\ todo'[q] = todo[q]
                       /\ loaded'[q] = loaded[q] /\ began'[q] = began[q]

LEMMA LoadsStep == IInv /\ LoadsInv /\ [Next]_vars => LoadsInv'
<1> SUFFICES ASSUME IInv, LoadsInv, [Next]_vars
             PROVE  LoadsInv'
  OBVIOUS
<1>a. TypeOK
  BY DEF IInv
<1>b. ASSUME UNCHANGED files
      PROVE  \A k \in Kind : Ids(attestation[k]) \subseteq Ids(attestation'[k])
  BY <1>b DEF files
<1>1. ASSUME NEW p \in Proc, UNCHANGED files, began[p] = {}, began' = began, pc'[p] # "idle",
             OthersStill(p)
      PROVE  LoadsInv'
  BY <1>1, <1>b, LoadsByOne DEF OthersStill
<1>2. ASSUME NEW p \in Proc, NEW c, NEW d, Start(p, c, d), UNCHANGED began
      PROVE  LoadsInv'
  <2>1. began[p] = {}
    BY <1>2, NotAssessing DEF Start
  <2>2. pc'[p] # "idle" /\ OthersStill(p) /\ UNCHANGED files
    BY <1>a, <1>2 DEF Start, OthersStill, TypeOK
  <2>3. QED
    BY <1>1, <1>2, <2>1, <2>2
<1>3. ASSUME NEW p \in Proc, NEW c \in Candidate, NEW k \in Kind, NEW r \in Review,
             Trust(p, c, k, r)
      PROVE  LoadsInv'
  <2>1. began[p] = {}
    BY <1>3, NotAssessing DEF Trust
  <2>2. pc'[p] # "idle" /\ OthersStill(p) /\ UNCHANGED <<files, began>>
    BY <1>a, <1>3 DEF Trust, OthersStill, TypeOK
  <2>3. QED
    BY <1>1, <2>1, <2>2
<1>4. ASSUME NEW p \in Proc, ListArtifacts(p)
      PROVE  LoadsInv'
  <2>1. UNCHANGED <<files, pc, call, todo, loaded, began>>
    BY <1>4 DEF ListArtifacts
  <2>2. QED
    BY <1>b, <2>1, LoadKept DEF LoadsInv
<1>5. ASSUME NEW p \in Proc, ReadAttested(p)
      PROVE  LoadsInv'
  <2>1. UNCHANGED <<files, began>> /\ pc'[p] # "idle" /\ OthersStill(p)
    BY <1>a, <1>5 DEF ReadAttested, OthersStill, TypeOK
  <2>2. ASSUME NEW b \in began'[p]
        PROVE  LoadInv(p, b)' /\ began'[p] = {b}
    BY <1>5, <2>1, ReadLoad DEF LoadsInv
  <2>3. QED
    BY <1>b, <2>1, <2>2, LoadsByOne DEF OthersStill
<1>6. ASSUME NEW p \in Proc, SaveCandidate(p) \/ AttestedAlready(p) \/ NotAttested(p)
      PROVE  LoadsInv'
  <2>1. began[p] = {}
    BY <1>6, NotAssessing DEF SaveCandidate, AttestedAlready, NotAttested
  <2>2. pc'[p] # "idle" /\ OthersStill(p) /\ UNCHANGED <<attestation, began>>
    BY <1>a, <1>6
    DEF SaveCandidate, AttestedAlready, NotAttested, OthersStill, TypeOK, files, locals
  <2>3. QED
    BY <2>1, <2>2, LoadsByOne DEF OthersStill
<1>7. ASSUME NEW p \in Proc, WriteAttestation(p)
      PROVE  LoadsInv'
  <2>1. began[p] = {}
    BY <1>7, NotAssessing DEF WriteAttestation
  <2>2. pc'[p] # "idle" /\ OthersStill(p) /\ UNCHANGED began
    BY <1>a, <1>7 DEF WriteAttestation, OthersStill, TypeOK, locals
  <2>3. QED
    BY <1>7, <2>1, <2>2, AttestationsGrow, LoadsByOne DEF OthersStill
<1>8. ASSUME NEW p \in Proc, RecordPrediction(p)
      PROVE  LoadsInv'
  <2>1. /\ pc[p] = "decide" /\ pc'[p] = "done" /\ OthersStill(p)
        /\ UNCHANGED <<files, call, todo, loaded, began>>
    BY <1>a, <1>8 DEF RecordPrediction, OthersStill, TypeOK, locals
  <2>2. ASSUME NEW b \in began[p]
        PROVE  LoadInv(p, b)' /\ began[p] = {b}
    BY <2>1 DEF LoadsInv, LoadInv, HasRead, Ids, files
  <2>3. QED
    BY <1>b, <2>1, <2>2, LoadsByOne DEF OthersStill
<1>9. ASSUME NEW p \in Proc, Leave(p)
      PROVE  LoadsInv'
  <2>1. began'[p] = {} /\ loaded'[p] = NothingLoaded /\ OthersStill(p) /\ UNCHANGED files
    BY <1>a, <1>9 DEF Leave, OthersStill, TypeOK
  <2>2. QED
    BY <1>b, <2>1, LoadsByOne DEF OthersStill
<1>10. CASE UNCHANGED vars
  <2>1. UNCHANGED files /\ UNCHANGED <<pc, call, todo, loaded, began>>
    BY <1>10 DEF vars, locals
  <2>2. QED
    BY <1>b, <2>1, LoadKept DEF LoadsInv
<1>11. CASE Next
  <2>1. PICK p \in Proc : Step(p)
    BY <1>11 DEF Next
  <2>2. CASE \E c \in Candidate, r \in Review :
               \/ PromoteToShadow(p, c, r) \/ PromoteToApproved(p, c, r) \/ Deprecate(p, c, r)
               \/ \E k \in Kind : Trust(p, c, k, r)
    BY <2>2, <1>2, <1>3 DEF PromoteToShadow, PromoteToApproved, Deprecate
  <2>3. CASE \E shadows \in BOOLEAN : Assess(p, shadows)
    BY <2>3, AssessLoads
  <2>4. QED
    BY <2>1, <2>2, <2>3, <1>4, <1>5, <1>6, <1>7, <1>8, <1>9 DEF Step, Return, Quit
<1>12. QED
  BY <1>10, <1>11

(***************************************************************************)
(* Each step is one of the review's, or shows nothing of itself.           *)
(***************************************************************************)

\* The policies that p is using, as the refinement mapping has them.
Using(p) ==
  IF began[p] # {} /\ pc[p] \in {"decide", "done"} THEN {PoliciesOf(p)} ELSE {}

\* A later attestation never sets a candidate back.
LEMMA StatusAdvances ==
  ASSUME NEW c \in Candidate,
         \A k \in Kind : attestation[k][c] # {} => attestation'[k][c] # {},
         StatusOf(c)' # StatusOf(c)
  PROVE  /\ StatusOf(c) \in Standing /\ StatusOf(c)' \in Standing
         /\ Reviewed!Rank[StatusOf(c)] < Reviewed!Rank[StatusOf(c)']
<1> DEFINE Has(k) == attestation[k][c] # {}
<1>1. /\ StatusOf(c) = CASE Has("deprecated") -> "deprecated"
                         [] Has("approved") /\ ~Has("deprecated") -> "approved"
                         [] Has("shadow") /\ ~Has("approved") /\ ~Has("deprecated") -> "shadow"
                         [] OTHER -> "candidate"
      /\ StatusOf(c)' = CASE Has("deprecated")' -> "deprecated"
                          [] Has("approved")' /\ ~Has("deprecated")' -> "approved"
                          [] Has("shadow")' /\ ~Has("approved")' /\ ~Has("deprecated")' -> "shadow"
                          [] OTHER -> "candidate"
  BY DEF StatusOf
<1>2. \A k \in Kind : Has(k) => Has(k)'
  OBVIOUS
<1> HIDE DEF Has
<1>3. /\ Reviewed!Rank["candidate"] = 0 /\ Reviewed!Rank["shadow"] = 1
      /\ Reviewed!Rank["approved"] = 2 /\ Reviewed!Rank["deprecated"] = 3
  BY DEF Reviewed!Rank, Reviewed!Status
<1>4. QED
  BY <1>1, <1>2, <1>3 DEF Standing, Kind

\* What a load returns is current: the heart of the matter.
LEMMA LoadIsCurrent ==
  ASSUME IInv, LoadsInv, NEW p \in Proc, pc[p] = "decide", NEW b \in began[p]
  PROVE  Reviewed!Current(PoliciesOf(p), b)
<1>1. /\ LoadInv(p, b) /\ b.status \in [Candidate -> Standing] /\ b.shadows \in BOOLEAN
      /\ CallInv(p)
  BY DEF LoadsInv, IInv, TypeOK
<1> DEFINE f == PoliciesOf(p)
<1>2. ASSUME NEW c \in Candidate
      PROVE  \/ /\ f[c] \in {"shadow", "approved"}
                /\ f[c] = "shadow" => b.shadows
                /\ Reviewed!Rank[b.status[c]] <= Reviewed!Rank[f[c]]
                /\ Reviewed!Rank[f[c]] <= Reviewed!Rank[Statuses[c]]
             \/ /\ f[c] = "absent"
                /\ \/ Statuses[c] = "deprecated"
                   \/ b.status[c] = "candidate"
                   \/ b.status[c] = "shadow" /\ ~b.shadows
  <2>1. /\ \A k \in Kind : HasRead(p, k)
        /\ \A k \in Kind : c \in loaded[p][k] => attestation[k][c] # {}
    BY <1>1 DEF HasRead, CallInv, Ids
  <2>2. /\ c \in loaded[p]["approved"] => b.status[c] # "deprecated"
        /\ c \in loaded[p]["shadow"] => b.shadows /\ c \notin loaded[p]["deprecated"]
        /\ \A k \in Kind :
             b.status[c] = k /\ (k = "shadow" => b.shadows) =>
               c \in loaded[p][k] \cup loaded[p]["deprecated"]
        /\ b.status[c] \in Standing
    BY <1>1, <2>1 DEF LoadInv
  <2>3. Statuses[c] = StatusOf(c)
    BY DEF Statuses
  <2>4. f[c] = CASE c \in loaded[p]["approved"] -> "approved"
                 [] c \in loaded[p]["shadow"] \ loaded[p]["approved"] -> "shadow"
                 [] OTHER -> "absent"
    BY DEF PoliciesOf
  <2> HIDE DEF f
  <2>5. CASE c \in loaded[p]["approved"]
    <3>1. f[c] = "approved" /\ Statuses[c] \in {"approved", "deprecated"}
      BY <2>1, <2>3, <2>4, <2>5 DEF StatusOf, Kind
    <3>2. QED
      BY <2>2, <2>5, <3>1 DEF Reviewed!Rank, Reviewed!Status, Standing
  <2>6. CASE c \in loaded[p]["shadow"] \ loaded[p]["approved"]
    <3>1. f[c] = "shadow" /\ Statuses[c] \in {"shadow", "approved", "deprecated"}
      BY <2>1, <2>3, <2>4, <2>6 DEF StatusOf, Kind
    <3>2. b.status[c] \in {"candidate", "shadow"}
      BY <2>2, <2>6 DEF Standing, Kind
    <3>3. QED
      BY <2>2, <2>6, <3>1, <3>2 DEF Reviewed!Rank, Reviewed!Status
  <2>7. CASE c \notin loaded[p]["approved"] \cup loaded[p]["shadow"]
    <3>1. f[c] = "absent"
      BY <2>4, <2>7
    <3>2. c \in loaded[p]["deprecated"] => Statuses[c] = "deprecated"
      BY <2>1, <2>3 DEF StatusOf, Kind
    <3>3. QED
      BY <2>2, <2>7, <3>1, <3>2 DEF Standing, Kind
  <2>8. QED
    BY <2>5, <2>6, <2>7
<1>3. QED
  BY <1>2 DEF Reviewed!Current

\* A load that has just ended is current.
CurrentLoads ==
  \A p \in Proc : pc[p] = "decide" =>
    \A b \in began[p] : Reviewed!Current(PoliciesOf(p), b)

LEMMA LoadsAreCurrent == IInv /\ LoadsInv => CurrentLoads
BY LoadIsCurrent DEF CurrentLoads

LEMMA ReviewInit == Init => Reviewed!Init
<1> SUFFICES ASSUME Init
             PROVE  Reviewed!Init
  OBVIOUS
<1>1. \A c \in Candidate : StatusOf(c) = "candidate"
  BY DEF Init, StatusOf, Kind
<1>2. Statuses = [c \in Candidate |-> "candidate"]
  BY <1>1 DEF Statuses
<1>3. began = [p \in Proc |-> {}]
  BY DEF Init
<1>4. \A p \in Proc : Using(p) = {}
  BY <1>3 DEF Using
<1>5. QED
  BY <1>2, <1>3, <1>4 DEF Reviewed!Init, Using

\* Statuses are what is attested.
LEMMA StatusesKept ==
  ASSUME UNCHANGED attestation
  PROVE  UNCHANGED Statuses
BY DEF Statuses, StatusOf

LEMMA UsingKept ==
  ASSUME NEW q \in Proc, began'[q] = began[q],
         began[q] = {} \/ (pc'[q] = pc[q] /\ loaded'[q] = loaded[q])
  PROVE  Using(q)' = Using(q)
BY DEF Using, PoliciesOf

LEMMA Hidden ==
  ASSUME UNCHANGED Statuses, UNCHANGED began, \A q \in Proc : Using(q)' = Using(q)
  PROVE  UNCHANGED Reviewed!vars
BY DEF Reviewed!vars, Using

\* A step of a call that is not an assessment, or that reads on, is hidden.
LEMMA HiddenStep ==
  ASSUME NEW p \in Proc, UNCHANGED <<attestation, began>>, OthersStill(p),
         began[p] = {} \/ Using(p)' = Using(p)
  PROVE  UNCHANGED Reviewed!vars
<1>1. \A q \in Proc : Using(q)' = Using(q)
  BY UsingKept DEF OthersStill
<1>2. QED
  BY <1>1, Hidden, StatusesKept

LEMMA AssessMaps ==
  ASSUME IInv, LoadsInv, NEW p \in Proc, NEW shadows \in BOOLEAN, Assess(p, shadows)
  PROVE  Reviewed!Begin(p)
<1>1. /\ TypeOK /\ UNCHANGED <<attestation, loaded>> /\ pc[p] = "idle" /\ began[p] = {}
      /\ began' = [began EXCEPT ![p] = {[status |-> Statuses, shadows |-> shadows]}]
  BY DEF Assess, Start, files, IInv, LoadsInv
<1>2. pc'[p] = "load" /\ OthersStill(p)
  BY <1>1, LoadTypes DEF Assess, Start, OthersStill, TypeOK
<1>3. \A q \in Proc : Using(q)' = Using(q)
  BY <1>1, <1>2, UsingKept DEF OthersStill, Using
<1>4. QED
  BY <1>1, <1>3, StatusesKept DEF Reviewed!Begin, Using

LEMMA ReadMaps ==
  ASSUME IInv, LoadsInv, CurrentLoads', NEW p \in Proc, ReadAttested(p)
  PROVE  Reviewed!Load(p) \/ UNCHANGED Reviewed!vars
<1>1. /\ TypeOK /\ UNCHANGED <<attestation, began>> /\ pc[p] = "load" /\ OthersStill(p)
      /\ pc'[p] \in {"load", "decide"}
  BY DEF ReadAttested, IInv, OthersStill, TypeOK, files
<1>2. CASE began[p] = {} \/ pc'[p] = "load"
  BY <1>1, <1>2, HiddenStep DEF Using
<1>3. CASE began[p] # {} /\ pc'[p] = "decide"
  <2>1. PICK b \in began[p] : Reviewed!Current(PoliciesOf(p), b)'
    BY <1>1, <1>3 DEF CurrentLoads
  <2>2. UNCHANGED Statuses
    BY <1>1, StatusesKept
  <2>3. PICK f : f = PoliciesOf(p)'
    OBVIOUS
  <2>4. f \in [Candidate -> {"absent", "shadow", "approved"}]
    BY <2>3 DEF PoliciesOf
  <2>5. Reviewed!Current(f, b)
    BY <2>1, <2>2, <2>3 DEF Reviewed!Current
  <2>6. /\ Using(p) = {} /\ Using(p)' = {f}
        /\ \A q \in Proc \ {p} : Using(q)' = Using(q)
    BY <1>1, <1>3, <2>3, UsingKept DEF Using, OthersStill
  <2>7. [q \in Proc |-> Using(q)]' = [[q \in Proc |-> Using(q)] EXCEPT ![p] = {f}]
    BY <2>6
  <2>8. QED
    BY <1>1, <2>2, <2>4, <2>5, <2>6, <2>7 DEF Reviewed!Load, Using
<1>4. QED
  BY <1>1, <1>2, <1>3

LEMMA WriteMaps ==
  ASSUME IInv, LoadsInv, NEW p \in Proc, WriteAttestation(p)
  PROVE  (\E c \in Candidate : Reviewed!Advance(c)) \/ UNCHANGED Reviewed!vars
<1>1. /\ TypeOK /\ UNCHANGED began /\ began[p] = {} /\ OthersStill(p)
  BY NotAssessing DEF WriteAttestation, IInv, OthersStill, TypeOK, locals
<1>2. \A q \in Proc : Using(q)' = Using(q)
  BY <1>1, UsingKept DEF OthersStill
<1>3. PICK c0 \in Candidate :
        /\ \A k \in Kind, c \in Candidate \ {c0} : attestation'[k][c] = attestation[k][c]
        /\ \A k \in Kind : attestation[k][c0] # {} => attestation'[k][c0] # {}
  <2>1. PICK k0, c0 : k0 = call[p].kind /\ c0 = call[p].id
    OBVIOUS
  <2>2. \A k \in Kind, c \in Candidate :
          attestation'[k][c] = IF k = k0 /\ c = c0 THEN {AttestationOf(p)} ELSE attestation[k][c]
    BY <2>1, AttestationsGrow
  <2>3. c0 \in Candidate
    BY <2>1, AttestationsGrow
  <2>4. WITNESS c0 \in Candidate
  <2>5. QED
    BY <2>2, <2>3
<1>4. \A c \in Candidate \ {c0} : StatusOf(c)' = StatusOf(c)
  BY <1>3 DEF StatusOf, Kind
<1>5. CASE StatusOf(c0)' = StatusOf(c0)
  <2>1. UNCHANGED Statuses
    BY <1>4, <1>5 DEF Statuses
  <2>2. QED
    BY <1>1, <1>2, <2>1, Hidden
<1>6. CASE StatusOf(c0)' # StatusOf(c0)
  <2>1. PICK s : s = StatusOf(c0)'
    OBVIOUS
  <2>2. s \in Reviewed!Status /\ Reviewed!Rank[Statuses[c0]] < Reviewed!Rank[s]
    BY <1>3, <1>6, <2>1, StatusAdvances DEF Statuses, Standing, Reviewed!Status
  <2>3. Statuses' = [Statuses EXCEPT ![c0] = s]
    BY <1>4, <2>1 DEF Statuses
  <2>4. Reviewed!Advance(c0)
    BY <1>1, <1>2, <2>2, <2>3 DEF Reviewed!Advance, Using
  <2>5. QED
    BY <2>4
<1>7. QED
  BY <1>5, <1>6

LEMMA LeaveMaps ==
  ASSUME IInv, NEW p \in Proc, Leave(p)
  PROVE  Reviewed!End(p)
<1>1. /\ TypeOK /\ began' = [began EXCEPT ![p] = {}] /\ began'[p] = {} /\ OthersStill(p)
      /\ UNCHANGED attestation
  BY DEF Leave, IInv, OthersStill, TypeOK, files
<1>2. Using(p)' = {} /\ \A q \in Proc \ {p} : Using(q)' = Using(q)
  BY <1>1, UsingKept DEF Using, OthersStill
<1>3. [q \in Proc |-> Using(q)]' = [[q \in Proc |-> Using(q)] EXCEPT ![p] = {}]
  BY <1>2
<1>4. QED
  BY <1>1, <1>3, StatusesKept DEF Reviewed!End, Using

LEMMA ReviewStep ==
  IInv /\ LoadsInv /\ CurrentLoads' /\ [Next]_vars => [Reviewed!Next]_(Reviewed!vars)
<1> SUFFICES ASSUME IInv, LoadsInv, CurrentLoads', [Next]_vars
             PROVE  Reviewed!Next \/ UNCHANGED Reviewed!vars
  OBVIOUS
<1>a. TypeOK
  BY DEF IInv
<1>1. ASSUME NEW p \in Proc, NEW c, NEW d, Start(p, c, d), UNCHANGED began
      PROVE  UNCHANGED Reviewed!vars
  <2>1. began[p] = {} /\ OthersStill(p) /\ UNCHANGED attestation
    BY <1>a, <1>1 DEF Start, OthersStill, TypeOK, files, LoadsInv
  <2>2. QED
    BY <1>1, <2>1, HiddenStep
<1>2. ASSUME NEW p \in Proc, NEW c \in Candidate, NEW k \in Kind, NEW r \in Review,
             Trust(p, c, k, r)
      PROVE  UNCHANGED Reviewed!vars
  <2>1. began[p] = {} /\ OthersStill(p) /\ UNCHANGED <<attestation, began>>
    BY <1>a, <1>2 DEF Trust, OthersStill, TypeOK, files, LoadsInv
  <2>2. QED
    BY <2>1, HiddenStep
<1>3. ASSUME NEW p \in Proc, ListArtifacts(p)
      PROVE  UNCHANGED Reviewed!vars
  <2>1. OthersStill(p) /\ UNCHANGED <<attestation, pc, loaded, began>>
    BY <1>3 DEF ListArtifacts, OthersStill, files
  <2>2. QED
    BY <2>1, HiddenStep, UsingKept
<1>4. ASSUME NEW p \in Proc, SaveCandidate(p) \/ AttestedAlready(p) \/ NotAttested(p)
      PROVE  UNCHANGED Reviewed!vars
  <2>1. began[p] = {}
    BY <1>4, NotAssessing DEF SaveCandidate, AttestedAlready, NotAttested
  <2>2. OthersStill(p) /\ UNCHANGED <<attestation, began>>
    BY <1>a, <1>4
    DEF SaveCandidate, AttestedAlready, NotAttested, OthersStill, TypeOK, files, locals
  <2>3. QED
    BY <2>1, <2>2, HiddenStep
<1>5. ASSUME NEW p \in Proc, RecordPrediction(p)
      PROVE  UNCHANGED Reviewed!vars
  <2>1. /\ pc[p] = "decide" /\ pc'[p] = "done" /\ OthersStill(p)
        /\ UNCHANGED <<attestation, loaded, began>>
    BY <1>a, <1>5 DEF RecordPrediction, OthersStill, TypeOK, locals, files
  <2>2. Using(p)' = Using(p)
    BY <2>1 DEF Using, PoliciesOf
  <2>3. QED
    BY <2>1, <2>2, HiddenStep
<1>6. CASE UNCHANGED vars
  <2>1. UNCHANGED <<attestation, pc, loaded, began>>
    BY <1>6 DEF vars, files, locals
  <2>2. QED
    BY <2>1, Hidden, StatusesKept, UsingKept
<1>7. CASE Next
  <2>1. PICK p \in Proc : Step(p)
    BY <1>7 DEF Next
  <2>2. CASE \E c \in Candidate, r \in Review :
               \/ PromoteToShadow(p, c, r) \/ PromoteToApproved(p, c, r) \/ Deprecate(p, c, r)
               \/ \E k \in Kind : Trust(p, c, k, r)
    BY <2>2, <1>1, <1>2 DEF PromoteToShadow, PromoteToApproved, Deprecate
  <2>3. CASE \E shadows \in BOOLEAN : Assess(p, shadows)
    BY <2>3, AssessMaps DEF Reviewed!Next
  <2>4. CASE ReadAttested(p)
    BY <2>4, ReadMaps DEF Reviewed!Next
  <2>5. CASE WriteAttestation(p)
    BY <2>5, WriteMaps DEF Reviewed!Next
  <2>6. CASE Return(p) \/ Quit(p)
    BY <2>6, LeaveMaps DEF Return, Quit, Reviewed!Next
  <2>7. QED
    BY <2>1, <2>2, <2>3, <2>4, <2>5, <2>6, <1>3, <1>4, <1>5 DEF Step
<1>8. QED
  BY <1>6, <1>7

\* The loaders list six directories one after the other while reviewers go on, and still
\* every assessment uses each policy as it stood at some moment of it.
THEOREM Refinement == Spec => ImplementsPolicyReview
<1>1. Spec => []LoadsInv
  BY InductiveInvariant, LoadsInit, LoadsStep, PTL DEF Spec
<1>2. Spec => []CurrentLoads
  BY InductiveInvariant, <1>1, LoadsAreCurrent, PTL
<1>3. QED
  BY InductiveInvariant, <1>1, <1>2, ReviewInit, ReviewStep, PTL
  DEF Spec, ImplementsPolicyReview, Reviewed!Spec

=============================================================================
