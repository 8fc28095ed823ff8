------------------------ MODULE PredictionLedgerProofs ------------------------
(***************************************************************************)
(* Proofs about PredictionLedger, for any processes, protocols, clock,     *)
(* lag and cap, and at the end about LedgerEdits: what the attestations    *)
(* guarantee of the ledger whatever is done to its log.                    *)
(***************************************************************************)
EXTENDS LedgerEdits, SequenceTheorems, TLAPS

(***************************************************************************)
(* Sequences.                                                              *)
(***************************************************************************)

\* What appending does to the operators the ledger reads its log with.
LEMMA AppendFacts ==
  ASSUME NEW S, NEW s \in Seq(S), NEW x \in S
  PROVE  /\ Append(s, x) \in Seq(S)
         /\ Len(Append(s, x)) = Len(s) + 1
         /\ \A i \in 1..Len(s) : Append(s, x)[i] = s[i]
         /\ Append(s, x)[Len(s) + 1] = x
         /\ ToSet(Append(s, x)) = ToSet(s) \cup {x}
         /\ Append(s, x) # << >>
         /\ Last(Append(s, x)) = x
<1>1. /\ Append(s, x) \in Seq(S)
      /\ Append(s, x) # << >>
      /\ Len(Append(s, x)) = Len(s) + 1
      /\ \A i \in 1..Len(s) : Append(s, x)[i] = s[i]
      /\ Append(s, x)[Len(s) + 1] = x
  BY AppendProperties
<1>2. ToSet(Append(s, x)) = ToSet(s) \cup {x}
  BY <1>1, LenProperties DEF ToSet
<1>3. Last(Append(s, x)) = x
  BY <1>1 DEF Last
<1>4. QED
  BY <1>1, <1>2, <1>3

\* The part of a sequence before its appended element.
LEMMA AppendPrefix ==
  ASSUME NEW S, NEW s \in Seq(S), NEW x \in S
  PROVE  /\ Front(Append(s, x)) = s
         /\ \A i \in 1..(Len(s) + 1) : SubSeq(Append(s, x), 1, i - 1) = SubSeq(s, 1, i - 1)
         /\ SubSeq(Append(s, x), 1, Len(s)) = s
<1>1. /\ Append(s, x) \in Seq(S)
      /\ Len(Append(s, x)) = Len(s) + 1
      /\ \A i \in 1..Len(s) : Append(s, x)[i] = s[i]
  BY AppendProperties
<1>2. ASSUME NEW i \in 1..(Len(s) + 1)
      PROVE  SubSeq(Append(s, x), 1, i - 1) = SubSeq(s, 1, i - 1)
  BY <1>1, LenProperties
<1>3. SubSeq(Append(s, x), 1, Len(s)) = SubSeq(s, 1, Len(s))
  BY <1>2, LenProperties
<1>4. SubSeq(s, 1, Len(s)) = s
  BY SubSeqFull
<1>5. Front(Append(s, x)) = s
  BY <1>1, <1>3, <1>4, LenProperties DEF Front
<1>6. QED
  BY <1>2, <1>3, <1>4, <1>5

(***************************************************************************)
(* Type correctness.                                                       *)
(***************************************************************************)

LEMMA AttestationType ==
  ASSUME NEW x \in Prediction, NEW s \in Seq(Prediction), NEW at \in Time
  PROVE  AttestationOf(x, s, at) \in Attestation
<1>1. Len(s) + 1 \in Nat
  BY LenProperties
<1>2. QED
  BY <1>1 DEF AttestationOf, Attestation

LEMMA TypeStep == TypeOK /\ [Next]_vars => TypeOK'
<1> SUFFICES ASSUME TypeOK, [Next]_vars
             PROVE  TypeOK'
  OBVIOUS
<1> USE DEF TypeOK, Holding
<1>1. ASSUME NEW p \in Proc, NEW k \in Key, CallLoad(p, k)
      PROVE  TypeOK'
  BY <1>1 DEF CallLoad, Goto, files
<1>2. ASSUME NEW p \in Proc, NEW k \in Key, NEW u \in Unit, CallAppend(p, u, k)
      PROVE  TypeOK'
  <2>1. [unit |-> u, key |-> k, predictedAt |-> clock] \in Prediction
    BY DEF Prediction
  <2>2. QED
    BY <1>2, <2>1 DEF CallAppend, Goto, files
<1>3. ASSUME NEW p \in Proc, Acquire(p)
      PROVE  TypeOK'
  BY <1>3 DEF Acquire, Goto, files, locals
<1>4. ASSUME NEW p \in Proc, NoTransaction(p)
      PROVE  TypeOK'
  BY <1>4 DEF NoTransaction, Goto, files, locals
<1>5. ASSUME NEW p \in Proc, RecoverLogged(p)
      PROVE  TypeOK'
  BY <1>5 DEF RecoverLogged, Goto, files, locals
<1>6. ASSUME NEW p \in Proc, RecoverLog(p)
      PROVE  TypeOK'
  <2>1. PICK t \in transaction[call[p].key] : log' = Append(log, t.prediction)
    BY <1>6 DEF RecoverLog
  <2>2. t.prediction \in Prediction
    BY <2>1 DEF Attestation
  <2>3. log' \in Seq(Prediction)
    BY <2>1, <2>2, AppendFacts
  <2>4. QED
    BY <1>6, <2>3 DEF RecoverLog, Goto, locals
<1>7. ASSUME NEW p \in Proc, RecoverAttestation(p)
      PROVE  TypeOK'
  BY <1>7 DEF RecoverAttestation, Attest, Goto, locals
<1>8. ASSUME NEW p \in Proc, FinishRecovery(p)
      PROVE  TypeOK'
  BY <1>8 DEF FinishRecovery, Goto, locals
<1>9. ASSUME NEW p \in Proc, LoadReturns(p)
      PROVE  TypeOK'
  BY <1>9 DEF LoadReturns, Goto, files
<1>10. ASSUME NEW p \in Proc, WriteTransaction(p)
       PROVE  TypeOK'
  <2>1. PICK x \in call[p].new :
          /\ attestation' = [attestation EXCEPT ![p] = {AttestationOf(x, log, clock)}]
          /\ transaction' = [transaction EXCEPT ![call[p].key] = {AttestationOf(x, log, clock)}]
    BY <1>10 DEF WriteTransaction
  <2>2. AttestationOf(x, log, clock) \in Attestation
    BY AttestationType
  <2>3. attestation' \in [Proc -> SUBSET Attestation] /\ transaction' \in [Key -> SUBSET Attestation]
    BY <2>1, <2>2 DEF TypeOK
  <2>4. QED
    BY <1>10, <2>3 DEF WriteTransaction, Goto, TypeOK
<1>11. ASSUME NEW p \in Proc, WriteLog(p)
       PROVE  TypeOK'
  <2>1. PICK a \in attestation[p] : log' = Append(existing[p], a.prediction)
    BY <1>11 DEF WriteLog
  <2>2. a.prediction \in Prediction
    BY <2>1 DEF Attestation
  <2>3. log' \in Seq(Prediction)
    BY <2>1, <2>2, AppendFacts
  <2>4. QED
    BY <1>11, <2>3 DEF WriteLog, Goto, locals
<1>12. ASSUME NEW p \in Proc, WriteAttestation(p)
       PROVE  TypeOK'
  BY <1>12 DEF WriteAttestation, Attest, Goto, locals
<1>13. ASSUME NEW p \in Proc, Commit(p)
       PROVE  TypeOK'
  BY <1>13 DEF Commit, Goto, locals
<1>14. ASSUME NEW p \in Proc, Leave(p), acked' \subseteq acked \cup call[p].new
       PROVE  TypeOK'
  <2>1. existing' \in [Proc -> Seq(Prediction)]
    BY <1>14, EmptySeq DEF Leave
  <2>2. call' \in [Proc -> [key : Key, new : SUBSET Prediction]]
    BY <1>14 DEF Leave
  <2>3. QED
    BY <1>14, <2>1, <2>2 DEF Leave, files
<1>15. CASE SetClock
  BY <1>15 DEF SetClock, files, locals
<1>16. CASE UNCHANGED vars
  BY <1>16 DEF vars, files, locals
<1>17. QED
  BY <1>1, <1>2, <1>3, <1>4, <1>5, <1>6, <1>7, <1>8, <1>9, <1>10, <1>11, <1>12, <1>13, <1>14,
     <1>15, <1>16 DEF Next, Step, Return, Reject, Crash

LEMMA TypeInit == Init => TypeOK
  BY EmptySeq DEF Init, TypeOK

\* Every variable of the ledger keeps its type: files hold attestations of
\* predictions, and the log is a sequence of them.
THEOREM TypeCorrect == Spec => []TypeOK
<1>1. Init => TypeOK
  BY TypeInit
<1>2. TypeOK /\ [Next]_vars => TypeOK'
  BY TypeStep
<1>3. QED
  BY <1>1, <1>2, PTL DEF Spec

(***************************************************************************)
(* The checks on a chain of attestations.                                  *)
(***************************************************************************)

\* Attesting the next record of a verified log verifies the longer log.
LEMMA VerifiedAppend ==
  ASSUME NEW R \in SUBSET Attestation, NEW s \in Seq(Prediction), NEW a \in Attestation,
         Verified(R, s, {}), a.sequence = Len(s) + 1, a.previous = s,
         Timely(a.prediction.predictedAt, a.recordedAt)
  PROVE  Verified(R \cup {a}, Append(s, a.prediction), {})
<1> DEFINE x == a.prediction
           t == Append(s, x)
<1>1. x \in Prediction
  BY DEF Attestation
<1>2. /\ t \in Seq(Prediction) /\ Len(t) = Len(s) + 1
      /\ \A i \in 1..Len(s) : t[i] = s[i]
      /\ t[Len(s) + 1] = x
      /\ ToSet(t) = ToSet(s) \cup {x}
  BY <1>1, AppendFacts
<1>3. \A i \in 1..(Len(s) + 1) : SubSeq(t, 1, i - 1) = SubSeq(s, 1, i - 1)
  BY <1>1, AppendPrefix
<1>4. SubSeq(s, 1, Len(s)) = s /\ Len(s) \in Nat
  BY SubSeqFull, LenProperties
<1>5. PredictionsOf(R \cup {a}) = PredictionsOf(R) \cup {x}
  BY DEF PredictionsOf
<1>6. ASSUME NEW i \in 1..Len(t)
      PROVE  Linked(R \cup {a}, t, i)
  <2>1. CASE i \in 1..Len(s)
    <3>1. Linked(R, s, i)
      BY <2>1 DEF Verified
    <3>2. QED
      BY <3>1, <2>1, <1>2, <1>3 DEF Linked
  <2>2. CASE i = Len(s) + 1
    <3>1. SubSeq(t, 1, i - 1) = s
      BY <2>2, <1>3, <1>4
    <3>2. QED
      BY <3>1, <2>2, <1>2 DEF Linked
  <2>3. QED
    BY <2>1, <2>2, <1>2, <1>4
<1>7. QED
  BY <1>2, <1>5, <1>6 DEF Verified

\* A verified log stays verified when a pending id is allowed for.
LEMMA VerifiedPending ==
  ASSUME NEW R, NEW s, NEW P, Verified(R, s, {})
  PROVE  Verified(R, s, P)
  BY DEF Verified

\* Recovery may find the last record logged and attested already: its prefix verifies.
LEMMA VerifiedPrefix ==
  ASSUME NEW R \in SUBSET Attestation, NEW s \in Seq(Prediction), NEW x \in Prediction,
         Verified(R, Append(s, x), {})
  PROVE  Verified(R, s, {x})
<1> DEFINE t == Append(s, x)
<1>1. /\ Len(t) = Len(s) + 1 /\ Len(s) \in Nat
      /\ \A i \in 1..Len(s) : t[i] = s[i]
      /\ ToSet(t) = ToSet(s) \cup {x}
  BY AppendFacts, LenProperties
<1>2. \A i \in 1..(Len(s) + 1) : SubSeq(t, 1, i - 1) = SubSeq(s, 1, i - 1)
  BY AppendPrefix
<1>3. ASSUME NEW i \in 1..Len(s)
      PROVE  Linked(R, s, i)
  <2>1. Linked(R, t, i)
    BY <1>1 DEF Verified
  <2>2. QED
    BY <2>1, <1>1, <1>2 DEF Linked
<1>4. QED
  BY <1>1, <1>3 DEF Verified

\* With no attestation only the empty log verifies.
LEMMA VerifiedNoRecords ==
  ASSUME NEW s \in Seq(Prediction), NEW P, Verified({}, s, P)
  PROVE  s = << >>
<1>1. ToSet(s) = {}
  BY DEF Verified, PredictionsOf
<1>2. Len(s) = 0
  BY <1>1, LenProperties DEF ToSet
<1>3. QED
  BY <1>2, EmptySeq

\* An empty log verifies only while nothing is attested.
LEMMA VerifiedNothing ==
  ASSUME NEW R, Verified(R, << >>, {})
  PROVE  R = {}
<1>1. ToSet(<< >>) = {}
  BY DEF ToSet
<1>2. QED
  BY <1>1 DEF Verified, PredictionsOf

\* A new record within the cap keeps the log loadable.
LEMMA LoadableAppend ==
  ASSUME NEW s \in Seq(Prediction), NEW x \in Prediction,
         Loadable(s), Len(s) < MaxRecords, x \notin ToSet(s)
  PROVE  Loadable(Append(s, x))
<1>1. /\ Len(Append(s, x)) = Len(s) + 1 /\ Len(s) \in Nat
      /\ \A i \in 1..Len(s) : Append(s, x)[i] = s[i]
      /\ Append(s, x)[Len(s) + 1] = x
  BY AppendFacts, LenProperties
<1>2. \A i \in 1..Len(s) : s[i] # x
  BY LenProperties DEF ToSet
<1>3. QED
  BY <1>1, <1>2, LedgerAssumption DEF Loadable

\* The last record of a loadable log occurs once.
LEMMA LoadableLast ==
  ASSUME NEW s \in Seq(Prediction), NEW x \in Prediction, Loadable(Append(s, x))
  PROVE  x \notin ToSet(s)
<1>1. /\ Len(Append(s, x)) = Len(s) + 1 /\ Len(s) \in Nat
      /\ \A i \in 1..Len(s) : Append(s, x)[i] = s[i]
      /\ Append(s, x)[Len(s) + 1] = x
  BY AppendFacts, LenProperties
<1>2. SUFFICES ASSUME NEW i \in 1..Len(s), s[i] = x
               PROVE  FALSE
  BY LenProperties DEF ToSet
<1>3. QED
  BY <1>1, <1>2 DEF Loadable

\* A link of the chain is judged by the part of the log up to it.
LEMMA LinkedAppend ==
  ASSUME NEW R, NEW s \in Seq(Prediction), NEW x \in Prediction, NEW i \in 1..Len(s),
         Linked(R, s, i)
  PROVE  Linked(R, Append(s, x), i)
<1>1. /\ Append(s, x)[i] = s[i]
      /\ SubSeq(Append(s, x), 1, i - 1) = SubSeq(s, 1, i - 1)
  BY AppendFacts, AppendPrefix, LenProperties
<1>2. QED
  BY <1>1 DEF Linked

(***************************************************************************)
(* The lock.                                                               *)
(***************************************************************************)

LEMMA LockStep ==
  ASSUME lock \in SUBSET Proc, pc \in [Proc -> {"idle", "lock"} \cup Holding],
         LockInv, [Next]_vars
  PROVE  LockInv'
<1> USE DEF LockInv, Holding
<1>1. ASSUME NEW p \in Proc, Acquire(p)
      PROVE  LockInv'
  BY <1>1 DEF Acquire, Goto
<1>2. ASSUME NEW p \in Proc, Leave(p)
      PROVE  LockInv'
  BY <1>2 DEF Leave
<1>3. ASSUME NEW p \in Proc, lock' = lock, pc[p] \in Holding,
             \E to \in Holding : pc' = [pc EXCEPT ![p] = to]
      PROVE  LockInv'
  BY <1>3
<1>4. ASSUME NEW p \in Proc, lock' = lock, pc[p] = "idle", pc' = [pc EXCEPT ![p] = "lock"]
      PROVE  LockInv'
  BY <1>4
<1>5. CASE UNCHANGED <<lock, pc>>
  BY <1>5
<1>6. ASSUME NEW p \in Proc, NEW k \in Key, CallLoad(p, k) \/ \E u \in Unit : CallAppend(p, u, k)
      PROVE  LockInv'
  BY <1>4, <1>6 DEF CallLoad, CallAppend, Goto
<1>7. ASSUME NEW p \in Proc, Step(p) \/ Crash(p)
      PROVE  LockInv'
  <2>1. CASE NoTransaction(p) \/ RecoverLogged(p) \/ RecoverLog(p)
    BY <2>1, <1>3 DEF NoTransaction, RecoverLogged, RecoverLog, Goto
  <2>2. CASE RecoverAttestation(p) \/ FinishRecovery(p) \/ LoadReturns(p)
    BY <2>2, <1>3 DEF RecoverAttestation, FinishRecovery, LoadReturns, Goto
  <2>3. CASE WriteTransaction(p) \/ WriteLog(p)
    BY <2>3, <1>3 DEF WriteTransaction, WriteLog, Goto
  <2>4. CASE WriteAttestation(p) \/ Commit(p)
    BY <2>4, <1>3 DEF WriteAttestation, Commit, Goto
  <2>5. CASE Return(p) \/ Reject(p) \/ Crash(p)
    BY <2>5, <1>2 DEF Return, Reject, Crash
  <2>6. QED
    BY <1>7, <1>1, <2>1, <2>2, <2>3, <2>4, <2>5 DEF Step
<1>8. QED
  BY <1>5, <1>6, <1>7 DEF Next, SetClock, vars

\* Whoever is past the lock is alone there.
LEMMA OthersOutside ==
  ASSUME LockInv, NEW p \in Proc, pc[p] \in Holding, NEW q \in Proc, q # p
  PROVE  pc[q] \notin Holding
  BY DEF LockInv

\* What a process outside the lock knows of the files is nothing.
LEMMA OutsideCall ==
  ASSUME NEW q \in Proc, CallInv(q), pc[q] \notin Holding,
         pc'[q] = pc[q], call'[q] = call[q]
  PROVE  CallInv(q)'
  BY DEF CallInv, Holding

\* What a process knows stays true while neither it nor the files change.
LEMMA FrameCall ==
  ASSUME NEW q \in Proc, CallInv(q), UNCHANGED files,
         pc'[q] = pc[q], call'[q] = call[q],
         existing'[q] = existing[q], attestation'[q] = attestation[q]
  PROVE  CallInv(q)'
  BY DEF CallInv, Prepared, Logged, Attested, files

(***************************************************************************)
(* One ledger key.                                                         *)
(***************************************************************************)

\* A key's ledger is untouched by a step that leaves the log and its own files alone.
LEMMA FrameKey ==
  ASSUME NEW k \in Key, KeyInv(k), log' = log,
         attested'[k] = attested[k], transaction'[k] = transaction[k]
  PROVE  KeyInv(k)'
  BY DEF KeyInv, Foreign, InForce, Settled, InFlight, Prepared, Logged, Attested

\* A log that is empty, or holds one record of k, is k's.
LEMMA ShortLogInForce ==
  ASSUME TypeOK, NEW k \in Key, Len(log) = 0 \/ (Len(log) = 1 /\ log[1].key = k)
  PROVE  InForce(k)
  BY DEF InForce

\* An append under way is of the protocol in force.
LEMMA FlightInForce ==
  ASSUME TypeOK, NEW k \in Key, KeyInv(k), NEW t \in transaction[k],
         Prepared(k, t) \/ Logged(k, t) \/ Attested(k, t)
  PROVE  InForce(k)
<1>1. SUFFICES ASSUME Foreign(k)
               PROVE  FALSE
  BY DEF KeyInv
<1>2. t.prediction.key = k /\ t.sequence = 1 /\ ~InForce(k)
  BY <1>1 DEF Foreign
<1>3. /\ t.prediction \in Prediction
      /\ t.previous \in Seq(Prediction)
      /\ log \in Seq(Prediction)
  BY DEF TypeOK, Attestation
<1>4. CASE Prepared(k, t)
  <2>1. Len(log) = 0
    BY <1>2, <1>3, <1>4, LenProperties DEF Prepared
  <2>2. QED
    BY <2>1, <1>2, ShortLogInForce
<1>5. CASE Logged(k, t) \/ Attested(k, t)
  <2>1. log = Append(t.previous, t.prediction) /\ Len(log) = 1
    BY <1>2, <1>5 DEF Logged, Attested
  <2>2. log[1] = t.prediction
    BY <2>1, <1>3, AppendFacts, LenProperties
  <2>3. QED
    BY <2>1, <2>2, <1>2, ShortLogInForce
<1>6. QED
  BY <1>4, <1>5

\* A verified log that is not k's shows that k's ledger is in force.
LEMMA TrustedInForce ==
  ASSUME TypeOK, NEW k \in Key, KeyInv(k), Verified(attested[k], log, {})
  PROVE  InForce(k)
<1>1. SUFFICES ASSUME Foreign(k)
               PROVE  FALSE
  BY DEF KeyInv
<1>2. log = << >>
  BY <1>1, VerifiedNoRecords DEF Foreign, TypeOK
<1>3. QED
  BY <1>1, <1>2 DEF Foreign, InForce

\* When the log grows under k, every other protocol is shut out of it, and has
\* left no more behind than a transaction for a first record.
LEMMA LogGrows ==
  ASSUME TypeOK, NEW k \in Key, InForce(k),
         NEW x \in Prediction, x.key = k, log' = Append(log, x),
         NEW m \in Key, m # k, KeyInv(m),
         attested'[m] = attested[m], transaction'[m] = transaction[m]
  PROVE  KeyInv(m)'
<1>1. log \in Seq(Prediction) /\ Len(log) \in Nat
  BY LenProperties DEF TypeOK
<1>2. /\ Len(log') = Len(log) + 1
      /\ log'[Len(log) + 1] = x
      /\ \A i \in 1..Len(log) : log'[i] = log[i]
  BY <1>1, AppendFacts
<1>3. ~InForce(m)'
  BY <1>1, <1>2 DEF InForce
<1>4. attested[m] = {} /\ \A t \in transaction[m] : t.prediction.key = m /\ t.sequence = 1
  <2>1. CASE Foreign(m)
    BY <2>1 DEF Foreign
  <2>2. CASE InForce(m) /\ (Settled(m) \/ InFlight(m))
    <3>1. Len(log) = 0
      BY <1>1, <2>2 DEF InForce
    <3>2. log = << >>
      BY <1>1, <3>1, EmptySeq
    <3>3. CASE Settled(m)
      BY <3>2, <3>3, VerifiedNothing DEF Settled
    <3>4. CASE InFlight(m)
      <4>1. PICK t \in transaction[m] :
              transaction[m] = {t} /\ (Prepared(m, t) \/ Logged(m, t) \/ Attested(m, t))
        BY <3>4 DEF InFlight
      <4>2. t.prediction \in Prediction /\ t.previous \in Seq(Prediction)
        BY DEF TypeOK, Attestation
      <4>3. Append(t.previous, t.prediction) # << >>
        BY <4>2, AppendFacts
      <4>4. Prepared(m, t)
        BY <4>1, <4>3, <3>2 DEF Logged, Attested
      <4>5. attested[m] = {} /\ t.prediction.key = m /\ t.sequence = 1
        BY <4>4, <3>1, <3>2, VerifiedNothing DEF Prepared
      <4>6. QED
        BY <4>1, <4>5
    <3>5. QED
      BY <2>2, <3>3, <3>4
  <2>3. QED
    BY <2>1, <2>2 DEF KeyInv
<1>5. QED
  BY <1>3, <1>4 DEF KeyInv, Foreign

(***************************************************************************)
(* The inductive invariant, step by step.  A step either leaves the files  *)
(* alone, or is taken by the one process past the lock.                    *)
(***************************************************************************)

LEMMA IInvInit == Init => IInv
<1> SUFFICES ASSUME Init
             PROVE  IInv
  OBVIOUS
<1>1. TypeOK
  BY TypeInit
<1>2. LockInv /\ OneFileEach /\ AckedInv
  BY DEF Init, LockInv, OneFileEach, AckedInv, Holding
<1>3. Loadable(log) /\ OneProtocolPerLog /\ log = << >> /\ Len(log) = 0
  BY EmptySeq, LedgerAssumption DEF Init, Loadable, OneProtocolPerLog
<1>4. ASSUME NEW k \in Key
      PROVE  KeyInv(k)
  <2>1. Verified({}, << >>, {})
    BY EmptySeq DEF Verified, PredictionsOf, ToSet
  <2>2. QED
    BY <2>1, <1>3 DEF Init, KeyInv, InForce, Settled
<1>5. ASSUME NEW p \in Proc
      PROVE  CallInv(p)
  BY DEF Init, CallInv
<1>6. QED
  BY <1>1, <1>2, <1>3, <1>4, <1>5 DEF IInv

\* A step that touches no file.
LEMMA QuietStep ==
  ASSUME IInv, TypeOK', LockInv', UNCHANGED files, AckedInv',
         \A q \in Proc : CallInv(q)'
  PROVE  IInv'
<1>1. Loadable(log)' /\ OneProtocolPerLog' /\ OneFileEach'
  BY DEF IInv, Loadable, OneProtocolPerLog, OneFileEach, files
<1>2. \A k \in Key : KeyInv(k)'
  BY FrameKey DEF IInv, files
<1>3. QED
  BY <1>1, <1>2 DEF IInv

\* A step, by the holder p of the lock, that touches the files of p's ledger key.
LEMMA HolderStep ==
  ASSUME IInv, TypeOK', LockInv', acked' = acked, call' = call,
         NEW p \in Proc, pc[p] \in Holding, \A q \in Proc : q # p => pc'[q] = pc[q],
         \A k \in Key : attested[k] \subseteq attested'[k],
         Loadable(log)', OneProtocolPerLog', OneFileEach',
         \A k \in Key : KeyInv(k)', CallInv(p)'
  PROVE  IInv'
<1>1. ASSUME NEW q \in Proc, q # p
      PROVE  CallInv(q)'
  BY <1>1, OthersOutside, OutsideCall DEF IInv
<1>2. AckedInv'
  BY DEF IInv, TypeOK, AckedInv, PredictionsOf, Prediction
<1>3. QED
  BY <1>1, <1>2 DEF IInv

\* The log grows by the prediction of p's append, as the transaction says.
LEMMA LogWriteStep ==
  ASSUME IInv, TypeOK', LockInv', acked' = acked, call' = call,
         UNCHANGED <<attested, transaction>>,
         NEW p \in Proc, pc[p] \in Holding, \A q \in Proc : q # p => pc'[q] = pc[q],
         NEW t \in transaction[call[p].key], transaction[call[p].key] = {t},
         Prepared(call[p].key, t), log' = Append(log, t.prediction),
         Logged(call[p].key, t)' => CallInv(p)'
  PROVE  IInv'
<1> DEFINE k == call[p].key
           x == t.prediction
<1>1. /\ k \in Key /\ x \in Prediction /\ x.key = k /\ t.previous = log
      /\ log \in Seq(Prediction) /\ Len(log) \in Nat
  BY LenProperties DEF IInv, TypeOK, Attestation, Prepared
<1>2. InForce(k)
  BY <1>1, FlightInForce DEF IInv
<1>3. /\ Len(log') = Len(log) + 1
      /\ log'[Len(log) + 1] = x
      /\ \A i \in 1..Len(log) : log'[i] = log[i]
  BY <1>1, AppendFacts
<1>4. InForce(k)'
  <2>1. \A i \in 1..Len(log') : log'[i].key = k
    BY <1>1, <1>2, <1>3 DEF InForce
  <2>2. QED
    BY <2>1 DEF InForce
<1>5. OneProtocolPerLog'
  <2>1. \A i \in 1..Len(log') : log'[i].key = k
    BY <1>1, <1>2, <1>3 DEF InForce
  <2>2. QED
    BY <2>1 DEF OneProtocolPerLog
<1>6. Loadable(log)'
  BY <1>1, LoadableAppend DEF IInv, Prepared, Loadable
<1>7. Logged(k, t)'
  BY <1>1, <1>3 DEF Prepared, Logged
<1>8. KeyInv(k)'
  BY <1>4, <1>7 DEF KeyInv, InFlight
<1>9. ASSUME NEW m \in Key, m # k
      PROVE  KeyInv(m)'
  BY <1>1, <1>2, <1>9, LogGrows DEF IInv
<1>10. OneFileEach'
  BY DEF IInv, OneFileEach
<1>11. QED
  BY <1>5, <1>6, <1>7, <1>8, <1>9, <1>10, HolderStep

\* The attestation of a logged append is written, or found written.
LEMMA AttestStep ==
  ASSUME IInv, TypeOK', LockInv', acked' = acked, call' = call, UNCHANGED <<log, transaction>>,
         NEW p \in Proc, pc[p] \in Holding, \A q \in Proc : q # p => pc'[q] = pc[q],
         NEW t \in transaction[call[p].key], transaction[call[p].key] = {t},
         Logged(call[p].key, t) \/ Attested(call[p].key, t), Attest(call[p].key, t),
         Attested(call[p].key, t)' => CallInv(p)'
  PROVE  IInv'
<1> DEFINE k == call[p].key
<1>1. /\ k \in Key /\ t \in Attestation /\ t.prediction \in Prediction
      /\ t.previous \in Seq(Prediction) /\ log \in Seq(Prediction)
      /\ attested[k] \in SUBSET Attestation
  BY DEF IInv, TypeOK, Attestation
<1>2. /\ attested'[k] = attested[k] \cup {t}
      /\ \A m \in Key : m # k => attested'[m] = attested[m]
      /\ \A b \in attested[k] : b.prediction = t.prediction => b = t
  BY <1>1 DEF Attest, IInv, TypeOK
<1>3. Attested(k, t)'
  <2>1. CASE Attested(k, t)
    <3>1. attested'[k] = attested[k]
      BY <2>1, <1>2 DEF Attested
    <3>2. QED
      BY <2>1, <3>1 DEF Attested
  <2>2. CASE Logged(k, t)
    <3>1. t.sequence = Len(t.previous) + 1
      <4>1. Len(Append(t.previous, t.prediction)) = Len(t.previous) + 1
        BY <1>1, AppendFacts
      <4>2. QED
        BY <4>1, <2>2 DEF Logged
    <3>2. Verified(attested'[k], log, {})
      <4>1. /\ Verified(attested[k], t.previous, {})
            /\ Timely(t.prediction.predictedAt, t.recordedAt)
            /\ log = Append(t.previous, t.prediction)
        BY <2>2 DEF Logged
      <4>2. Verified(attested[k] \cup {t}, Append(t.previous, t.prediction), {})
        BY <4>1, <3>1, <1>1, VerifiedAppend
      <4>3. QED
        BY <4>1, <4>2, <1>2
    <3>3. QED
      BY <2>2, <3>2, <1>2 DEF Logged, Attested
  <2>3. QED
    BY <2>1, <2>2
<1>4. InForce(k)
  BY <1>1, FlightInForce DEF IInv
<1>5. KeyInv(k)'
  BY <1>3, <1>4 DEF KeyInv, InForce, InFlight
<1>6. ASSUME NEW m \in Key, m # k
      PROVE  KeyInv(m)'
  BY <1>2, <1>6, FrameKey DEF IInv
<1>7. OneFileEach'
  BY <1>2 DEF IInv, OneFileEach
<1>8. Loadable(log)' /\ OneProtocolPerLog' /\ \A m \in Key : attested[m] \subseteq attested'[m]
  BY <1>2 DEF IInv, Loadable, OneProtocolPerLog
<1>9. QED
  BY <1>3, <1>5, <1>6, <1>7, <1>8, HolderStep

\* The transaction of an attested append is unlinked.
LEMMA UnlinkStep ==
  ASSUME IInv, TypeOK', LockInv', acked' = acked, call' = call, UNCHANGED <<log, attested>>,
         NEW p \in Proc, pc[p] \in Holding, \A q \in Proc : q # p => pc'[q] = pc[q],
         transaction' = [transaction EXCEPT ![call[p].key] = {}],
         NEW t \in transaction[call[p].key], Attested(call[p].key, t), CallInv(p)'
  PROVE  IInv'
<1> DEFINE k == call[p].key
<1>1. k \in Key /\ transaction'[k] = {} /\ \A m \in Key : m # k => transaction'[m] = transaction[m]
  BY DEF IInv, TypeOK
<1>2. InForce(k)
  BY <1>1, FlightInForce DEF IInv
<1>3. KeyInv(k)'
  BY <1>1, <1>2 DEF KeyInv, InForce, Settled, Attested
<1>4. ASSUME NEW m \in Key, m # k
      PROVE  KeyInv(m)'
  BY <1>1, <1>4, FrameKey DEF IInv
<1>5. Loadable(log)' /\ OneProtocolPerLog' /\ OneFileEach'
  BY DEF IInv, Loadable, OneProtocolPerLog, OneFileEach
<1>6. QED
  BY <1>3, <1>4, <1>5, HolderStep

LEMMA NextInv ==
  ASSUME IInv, [Next]_vars
  PROVE  IInv'
<1>1. TypeOK' /\ LockInv'
  BY TypeStep, LockStep DEF IInv, TypeOK
<1>2. ASSUME UNCHANGED files, acked' = acked
      PROVE  AckedInv'
  BY <1>2 DEF IInv, AckedInv, files
<1>3. ASSUME NEW p \in Proc, NEW k \in Key, CallLoad(p, k)
      PROVE  IInv'
  <2>1. CallInv(p)'
    BY <1>3 DEF CallLoad, Goto, CallInv, IInv, TypeOK
  <2>2. ASSUME NEW q \in Proc, q # p
        PROVE  CallInv(q)'
    BY <1>3, <2>2, FrameCall DEF CallLoad, Goto, IInv, TypeOK, files
  <2>3. QED
    BY <1>1, <1>2, <1>3, <2>1, <2>2, QuietStep DEF CallLoad
<1>4. ASSUME NEW p \in Proc, NEW k \in Key, NEW u \in Unit, CallAppend(p, u, k)
      PROVE  IInv'
  <2>1. CallInv(p)'
    BY <1>4 DEF CallAppend, Goto, CallInv, IInv, TypeOK
  <2>2. ASSUME NEW q \in Proc, q # p
        PROVE  CallInv(q)'
    BY <1>4, <2>2, FrameCall DEF CallAppend, Goto, IInv, TypeOK, files
  <2>3. QED
    BY <1>1, <1>2, <1>4, <2>1, <2>2, QuietStep DEF CallAppend
<1>5. ASSUME NEW p \in Proc, Acquire(p)
      PROVE  IInv'
  <2>1. CallInv(p)'
    BY <1>5 DEF Acquire, Goto, CallInv, IInv, TypeOK, locals
  <2>2. ASSUME NEW q \in Proc, q # p
        PROVE  CallInv(q)'
    BY <1>5, <2>2, FrameCall DEF Acquire, Goto, IInv, TypeOK, locals
  <2>3. QED
    BY <1>1, <1>2, <1>5, <2>1, <2>2, QuietStep DEF Acquire
<1>6. ASSUME NEW p \in Proc, NoTransaction(p)
      PROVE  IInv'
  <2>1. CallInv(p)'
    BY <1>6 DEF NoTransaction, Goto, CallInv, IInv, TypeOK, locals, files
  <2>2. ASSUME NEW q \in Proc, q # p
        PROVE  CallInv(q)'
    BY <1>6, <2>2, FrameCall DEF NoTransaction, Goto, IInv, TypeOK, locals
  <2>3. QED
    BY <1>1, <1>2, <1>6, <2>1, <2>2, QuietStep DEF NoTransaction
<1>7. ASSUME NEW p \in Proc, RecoverLogged(p)
      PROVE  IInv'
  <2> DEFINE k == call[p].key
  <2>1. PICK t \in transaction[k] : AlreadyLogged(k, t)
    BY <1>7 DEF RecoverLogged
  <2>2. k \in Key /\ log \in Seq(Prediction) /\ Len(log) \in Nat /\ t \in Attestation
    BY <2>1, LenProperties DEF IInv, TypeOK
  <2>3. t.sequence = Len(log) /\ log # << >> /\ log[Len(log)] = t.prediction
    BY <2>1 DEF AlreadyLogged, Last
  <2>4. ~Foreign(k)
    <3>1. SUFFICES ASSUME Foreign(k)
                   PROVE  FALSE
      OBVIOUS
    <3>2. Len(log) = 1 /\ log[1].key = k
      BY <3>1, <2>3 DEF Foreign
    <3>3. QED
      BY <3>1, <3>2, <2>2, ShortLogInForce DEF Foreign, IInv
  <2>5. transaction[k] = {t} /\ (Prepared(k, t) \/ Logged(k, t) \/ Attested(k, t))
    BY <2>1, <2>2, <2>4 DEF IInv, KeyInv, Settled, InFlight
  <2>6. Logged(k, t) \/ Attested(k, t)
    BY <2>2, <2>3, <2>5 DEF Prepared
  <2>7. CallInv(p)'
    <3>1. /\ pc'[p] = "replayed" /\ UNCHANGED <<files, locals>>
      BY <1>7 DEF RecoverLogged, Goto, IInv, TypeOK
    <3>2. (Logged(k, t) \/ Attested(k, t))'
      BY <2>6, <3>1 DEF Logged, Attested, files, locals
    <3>3. QED
      BY <2>1, <2>5, <3>1, <3>2 DEF CallInv, IInv, files, locals
  <2>8. ASSUME NEW q \in Proc, q # p
        PROVE  CallInv(q)'
    BY <1>7, <2>8, FrameCall DEF RecoverLogged, Goto, IInv, TypeOK, locals
  <2>9. QED
    BY <1>1, <1>2, <1>7, <2>7, <2>8, QuietStep DEF RecoverLogged
<1>8. ASSUME NEW p \in Proc, RecoverLog(p)
      PROVE  IInv'
  <2> DEFINE k == call[p].key
  <2>1. PICK t \in transaction[k] : NotYetLogged(k, t) /\ log' = Append(log, t.prediction)
    BY <1>8 DEF RecoverLog
  <2>2. k \in Key /\ log \in Seq(Prediction) /\ Len(log) \in Nat /\ t \in Attestation
    BY <2>1, LenProperties DEF IInv, TypeOK
  <2>3. t.sequence = Len(log) + 1
    BY <2>1 DEF NotYetLogged
  <2>4. ~Foreign(k)
    <3>1. SUFFICES ASSUME Foreign(k)
                   PROVE  FALSE
      OBVIOUS
    <3>2. Len(log) = 0
      BY <3>1, <2>2, <2>3 DEF Foreign
    <3>3. QED
      BY <3>1, <3>2, <2>2, ShortLogInForce DEF Foreign, IInv
  <2>5. transaction[k] = {t} /\ (Prepared(k, t) \/ Logged(k, t) \/ Attested(k, t))
    BY <2>1, <2>2, <2>4 DEF IInv, KeyInv, Settled, InFlight
  <2>6. Prepared(k, t)
    BY <2>2, <2>3, <2>5 DEF Logged, Attested
  <2>7. /\ pc[p] \in Holding /\ pc'[p] = "replayed" /\ \A q \in Proc : q # p => pc'[q] = pc[q]
        /\ UNCHANGED <<attested, transaction, locals, acked>>
    BY <1>8 DEF RecoverLog, Goto, Holding, IInv, TypeOK
  <2>8. ASSUME Logged(k, t)'
        PROVE  CallInv(p)'
    BY <2>1, <2>5, <2>7, <2>8 DEF CallInv, IInv, locals
  <2>9. QED
    BY <1>1, <2>1, <2>5, <2>6, <2>7, <2>8, LogWriteStep DEF locals
<1>9. ASSUME NEW p \in Proc, RecoverAttestation(p)
      PROVE  IInv'
  <2> DEFINE k == call[p].key
  <2>1. /\ pc[p] = "replayed" /\ pc[p] \in Holding /\ pc'[p] = "closing"
        /\ \A q \in Proc : q # p => pc'[q] = pc[q]
        /\ UNCHANGED <<log, transaction, locals, acked>>
    BY <1>9 DEF RecoverAttestation, Goto, Holding, IInv, TypeOK
  <2>2. PICK t \in transaction[k] : transaction[k] = {t} /\ (Logged(k, t) \/ Attested(k, t))
    BY <2>1 DEF IInv, CallInv
  <2>3. Attest(k, t)
    BY <1>9, <2>2 DEF RecoverAttestation
  <2>4. ASSUME Attested(k, t)'
        PROVE  CallInv(p)'
    BY <2>1, <2>2, <2>4 DEF CallInv, IInv, locals
  <2>5. QED
    BY <1>1, <2>1, <2>2, <2>3, <2>4, AttestStep DEF locals
<1>10. ASSUME NEW p \in Proc, FinishRecovery(p)
       PROVE  IInv'
  <2> DEFINE k == call[p].key
  <2>1. /\ pc[p] = "closing" /\ pc[p] \in Holding /\ pc'[p] = "verify"
        /\ \A q \in Proc : q # p => pc'[q] = pc[q]
        /\ transaction' = [transaction EXCEPT ![k] = {}]
        /\ UNCHANGED <<log, attested, locals, acked>>
    BY <1>10 DEF FinishRecovery, Goto, Holding, IInv, TypeOK
  <2>2. PICK t \in transaction[k] : Attested(k, t)
    BY <2>1 DEF IInv, CallInv
  <2>3. CallInv(p)'
    BY <2>1 DEF CallInv, IInv, TypeOK, locals
  <2>4. QED
    BY <1>1, <2>1, <2>2, <2>3, UnlinkStep DEF locals
<1>11. ASSUME NEW p \in Proc, LoadReturns(p)
       PROVE  IInv'
  <2>1. CallInv(p)'
    BY <1>11 DEF LoadReturns, Goto, CallInv, IInv, TypeOK, files
  <2>2. ASSUME NEW q \in Proc, q # p
        PROVE  CallInv(q)'
    BY <1>11, <2>2, FrameCall DEF LoadReturns, Goto, IInv, TypeOK
  <2>3. QED
    BY <1>1, <1>2, <1>11, <2>1, <2>2, QuietStep DEF LoadReturns
<1>12. ASSUME NEW p \in Proc, WriteTransaction(p)
       PROVE  IInv'
  <2> DEFINE k == call[p].key
  <2>1. PICK x \in call[p].new :
          /\ Appendable(k, x)
          /\ attestation' = [attestation EXCEPT ![p] = {AttestationOf(x, log, clock)}]
          /\ transaction' = [transaction EXCEPT ![k] = {AttestationOf(x, log, clock)}]
    BY <1>12 DEF WriteTransaction
  <2>2. /\ pc[p] = "verify" /\ pc[p] \in Holding /\ pc'[p] = "wal"
        /\ \A q \in Proc : q # p => pc'[q] = pc[q]
        /\ existing'[p] = log
        /\ UNCHANGED <<log, attested, call, acked>>
    BY <1>12 DEF WriteTransaction, Goto, Holding, IInv, TypeOK
  <2>3. /\ k \in Key /\ call[p].new = {x} /\ x.key = k
    BY DEF IInv, TypeOK, CallInv
  <2>4. PICK t : t = AttestationOf(x, log, clock)
    OBVIOUS
  <2>5. /\ t.prediction = x /\ t.sequence = Len(log) + 1 /\ t.previous = log
         /\ t.recordedAt = clock
    BY <2>4 DEF AttestationOf
  <2>6. /\ Verified(attested[k], log, {}) /\ x \notin ToSet(log) /\ Len(log) < MaxRecords
        /\ Timely(x.predictedAt, clock)
    BY <2>1 DEF Appendable, Trusted
  <2>7. Prepared(k, t)'
    BY <2>2, <2>3, <2>5, <2>6 DEF Prepared
  <2>8. /\ transaction'[k] = {t} /\ attestation'[p] = {t}
        /\ \A m \in Key : m # k => transaction'[m] = transaction[m]
    BY <2>1, <2>3, <2>4 DEF IInv, TypeOK
  <2>9. InForce(k)
    BY <2>3, <2>6, TrustedInForce DEF IInv
  <2>10. KeyInv(k)'
    BY <2>2, <2>7, <2>8, <2>9 DEF KeyInv, InForce, InFlight
  <2>11. ASSUME NEW m \in Key, m # k
         PROVE  KeyInv(m)'
    BY <2>2, <2>8, <2>11, FrameKey DEF IInv
  <2>12. CallInv(p)'
    BY <2>2, <2>3, <2>5, <2>7, <2>8 DEF CallInv
  <2>13. Loadable(log)' /\ OneProtocolPerLog' /\ OneFileEach'
    BY <2>2 DEF IInv, Loadable, OneProtocolPerLog, OneFileEach
  <2>14. QED
    BY <1>1, <2>2, <2>10, <2>11, <2>12, <2>13, HolderStep
<1>13. ASSUME NEW p \in Proc, WriteLog(p)
       PROVE  IInv'
  <2> DEFINE k == call[p].key
  <2>1. /\ pc[p] = "wal" /\ pc[p] \in Holding /\ pc'[p] = "logged"
        /\ \A q \in Proc : q # p => pc'[q] = pc[q]
        /\ UNCHANGED <<attested, transaction, locals, acked>>
    BY <1>13 DEF WriteLog, Goto, Holding, IInv, TypeOK
  <2>2. PICK t \in transaction[k] :
          /\ transaction[k] = {t} /\ attestation[p] = {t} /\ call[p].new = {t.prediction}
          /\ existing[p] = t.previous /\ Prepared(k, t)
    BY <2>1 DEF IInv, CallInv
  <2>3. log' = Append(log, t.prediction)
    BY <1>13, <2>2 DEF WriteLog, Prepared
  <2>4. ASSUME Logged(k, t)'
        PROVE  CallInv(p)'
    BY <2>1, <2>2, <2>4 DEF CallInv, IInv, locals
  <2>5. QED
    BY <1>1, <2>1, <2>2, <2>3, <2>4, LogWriteStep DEF locals
<1>14. ASSUME NEW p \in Proc, WriteAttestation(p)
       PROVE  IInv'
  <2> DEFINE k == call[p].key
  <2>1. /\ pc[p] = "logged" /\ pc[p] \in Holding /\ pc'[p] = "attesting"
        /\ \A q \in Proc : q # p => pc'[q] = pc[q]
        /\ UNCHANGED <<log, transaction, locals, acked>>
    BY <1>14 DEF WriteAttestation, Goto, Holding, IInv, TypeOK
  <2>2. PICK t \in transaction[k] :
          /\ transaction[k] = {t} /\ attestation[p] = {t} /\ call[p].new = {t.prediction}
          /\ existing[p] = t.previous /\ Logged(k, t)
    BY <2>1 DEF IInv, CallInv
  <2>3. Attest(k, t)
    BY <1>14, <2>2 DEF WriteAttestation
  <2>4. ASSUME Attested(k, t)'
        PROVE  CallInv(p)'
    BY <2>1, <2>2, <2>4 DEF CallInv, IInv, locals
  <2>5. QED
    BY <1>1, <2>1, <2>2, <2>3, <2>4, AttestStep DEF locals
<1>15. ASSUME NEW p \in Proc, Commit(p)
       PROVE  IInv'
  <2> DEFINE k == call[p].key
  <2>1. /\ pc[p] = "attesting" /\ pc[p] \in Holding /\ pc'[p] = "done"
        /\ \A q \in Proc : q # p => pc'[q] = pc[q]
        /\ transaction' = [transaction EXCEPT ![k] = {}]
        /\ UNCHANGED <<log, attested, locals, acked>>
    BY <1>15 DEF Commit, Goto, Holding, IInv, TypeOK
  <2>2. PICK t \in transaction[k] : call[p].new = {t.prediction} /\ Attested(k, t)
    BY <2>1 DEF IInv, CallInv
  <2>3. call[p].new \subseteq PredictionsOf(attested[k])
    BY <2>2 DEF Attested, PredictionsOf
  <2>4. CallInv(p)'
    BY <2>1, <2>2, <2>3 DEF CallInv, IInv, locals
  <2>5. QED
    BY <1>1, <2>1, <2>2, <2>4, UnlinkStep DEF locals
<1>16. ASSUME NEW p \in Proc, Leave(p), AckedInv'
       PROVE  IInv'
  <2>1. CallInv(p)'
    BY <1>16 DEF Leave, CallInv, IInv, TypeOK
  <2>2. ASSUME NEW q \in Proc, q # p
        PROVE  CallInv(q)'
    BY <1>16, <2>2, FrameCall DEF Leave, IInv, TypeOK
  <2>3. QED
    BY <1>1, <1>16, <2>1, <2>2, QuietStep DEF Leave
<1>17. ASSUME NEW p \in Proc, Return(p)
       PROVE  IInv'
  <2>1. \A x \in call[p].new : x.key = call[p].key /\ x \in PredictionsOf(attested[call[p].key])
    BY <1>17 DEF Return, IInv, CallInv
  <2>2. AckedInv'
    BY <1>17, <2>1 DEF Return, Leave, IInv, AckedInv, files
  <2>3. QED
    BY <1>16, <1>17, <2>2 DEF Return
<1>18. ASSUME NEW p \in Proc, Reject(p) \/ Crash(p)
       PROVE  IInv'
  BY <1>2, <1>16, <1>18 DEF Reject, Crash, Leave
<1>19. CASE SetClock \/ UNCHANGED vars
  <2>1. UNCHANGED <<files, pc, locals, acked>>
    BY <1>19 DEF SetClock, vars
  <2>2. \A q \in Proc : CallInv(q)'
    BY <2>1, FrameCall DEF IInv, locals
  <2>3. QED
    BY <1>1, <1>2, <2>1, <2>2, QuietStep
<1>20. ASSUME NEW p \in Proc, Step(p)
       PROVE  IInv'
  BY <1>5, <1>6, <1>7, <1>8, <1>9, <1>10, <1>11, <1>12, <1>13, <1>14, <1>15, <1>17, <1>18, <1>20
  DEF Step
<1>21. QED
  BY <1>3, <1>4, <1>18, <1>19, <1>20 DEF Next

\* Every ledger is always in a state that some prefix of an append, cut off by a
\* crash or not, leaves behind.
THEOREM InductiveInvariant == Spec => []IInv
<1>1. Init => IInv
  BY IInvInit
<1>2. IInv /\ [Next]_vars => IInv'
  BY NextInv
<1>3. QED
  BY <1>1, <1>2, PTL DEF Spec

(***************************************************************************)
(* The properties.                                                         *)
(***************************************************************************)

\* The protocol in force always opens.
LEMMA OpenableFromInv == IInv => AlwaysOpenable
<1> SUFFICES ASSUME IInv, NEW k \in Key, InForce(k)
             PROVE  Openable(k)
  BY DEF AlwaysOpenable
<1>1. Loadable(log) /\ log \in Seq(Prediction) /\ (Settled(k) \/ InFlight(k))
  BY DEF IInv, TypeOK, KeyInv, Foreign
<1>2. CASE Settled(k)
  BY <1>1, <1>2 DEF Settled, Openable, Trusted
<1>3. CASE InFlight(k)
  <2>1. PICK t \in transaction[k] :
          transaction[k] = {t} /\ (Prepared(k, t) \/ Logged(k, t) \/ Attested(k, t))
    BY <1>3 DEF InFlight
  <2>2. /\ t.prediction \in Prediction /\ t.previous \in Seq(Prediction)
        /\ attested[k] \in SUBSET Attestation
    BY DEF IInv, TypeOK, Attestation
  <2>3. CASE Prepared(k, t)
    <3>1. NotYetLogged(k, t)
      <4>1. Verified(attested[k], log, {t.prediction})
        BY <2>3, VerifiedPending DEF Prepared
      <4>2. QED
        BY <4>1, <1>1, <2>3, LenProperties DEF Prepared, NotYetLogged
    <3>2. ~Conflicting(k, t)
      BY <2>3 DEF Prepared, Verified, PredictionsOf, Conflicting
    <3>3. QED
      BY <2>1, <3>1, <3>2 DEF Openable
  <2>4. CASE Logged(k, t) \/ Attested(k, t)
    <3>1. /\ log = Append(t.previous, t.prediction) /\ t.sequence = Len(log)
          /\ Timely(t.prediction.predictedAt, t.recordedAt)
      BY <2>4 DEF Logged, Attested
    <3>2. log # << >> /\ Last(log) = t.prediction /\ Front(log) = t.previous
      BY <2>2, <3>1, AppendFacts, AppendPrefix
    <3>3. Verified(attested[k], t.previous, {t.prediction})
      <4>1. CASE Logged(k, t)
        BY <4>1, VerifiedPending DEF Logged
      <4>2. CASE Attested(k, t)
        BY <4>2, <3>1, <2>2, VerifiedPrefix DEF Attested
      <4>3. QED
        BY <2>4, <4>1, <4>2
    <3>4. AlreadyLogged(k, t)
      BY <1>1, <3>1, <3>2, <3>3 DEF AlreadyLogged
    <3>5. ~Conflicting(k, t)
      <4>1. CASE Logged(k, t)
        <5>1. t.prediction \notin ToSet(t.previous)
          BY <1>1, <2>2, <3>1, LoadableLast
        <5>2. QED
          BY <4>1, <5>1 DEF Logged, Verified, PredictionsOf, Conflicting
      <4>2. CASE Attested(k, t)
        BY <4>2 DEF Attested, IInv, OneFileEach, Conflicting
      <4>3. QED
        BY <2>4, <4>1, <4>2
    <3>6. QED
      BY <2>1, <3>4, <3>5 DEF Openable
  <2>5. QED
    BY <2>1, <2>3, <2>4
<1>4. QED
  BY <1>1, <1>2, <1>3

\* A prediction attested under k is in the log, at its place in the chain.
LEMMA AttestedInLog ==
  ASSUME IInv, NEW k \in Key, NEW x \in PredictionsOf(attested[k])
  PROVE  x \in ToSet(log) /\ \E i \in 1..Len(log) : log[i] = x /\ Linked(attested[k], log, i)
<1>1. log \in Seq(Prediction) /\ Len(log) \in Nat
  BY LenProperties DEF IInv, TypeOK
<1>2. CASE Verified(attested[k], log, {})
  <2>1. x \in ToSet(log)
    BY <1>2 DEF Verified
  <2>2. PICK i \in 1..Len(log) : log[i] = x
    BY <1>1, <2>1 DEF ToSet
  <2>3. QED
    BY <1>2, <2>1, <2>2 DEF Verified
<1>3. ASSUME NEW t \in transaction[k], Logged(k, t)
      PROVE  x \in ToSet(log) /\ \E i \in 1..Len(log) : log[i] = x /\ Linked(attested[k], log, i)
  <2>1. t.prediction \in Prediction /\ t.previous \in Seq(Prediction)
    BY DEF IInv, TypeOK, Attestation
  <2>2. log = Append(t.previous, t.prediction) /\ Verified(attested[k], t.previous, {})
    BY <1>3 DEF Logged
  <2>3. /\ ToSet(log) = ToSet(t.previous) \cup {t.prediction}
        /\ Len(log) = Len(t.previous) + 1 /\ Len(t.previous) \in Nat
        /\ \A i \in 1..Len(t.previous) : log[i] = t.previous[i]
    BY <2>1, <2>2, AppendFacts, LenProperties
  <2>4. x \in ToSet(t.previous)
    BY <2>2 DEF Verified
  <2>5. PICK i \in 1..Len(t.previous) : t.previous[i] = x
    BY <2>1, <2>4 DEF ToSet
  <2>6. Linked(attested[k], t.previous, i)
    BY <2>2 DEF Verified
  <2>7. Linked(attested[k], log, i)
    BY <2>1, <2>2, <2>6, LinkedAppend
  <2>8. QED
    BY <2>3, <2>4, <2>5, <2>7
<1>4. attested[k] # {}
  BY DEF PredictionsOf
<1>5. QED
  BY <1>2, <1>3, <1>4
  DEF IInv, KeyInv, Foreign, Settled, InFlight, Prepared, Attested

LEMMA DurableFromInv == IInv => AcknowledgedDurable
<1> SUFFICES ASSUME IInv, NEW x \in acked
             PROVE  /\ x \in ToSet(log)
                    /\ \E i \in 1..Len(log) : log[i] = x /\ Linked(attested[x.key], log, i)
  BY DEF AcknowledgedDurable
<1>1. x.key \in Key /\ x \in PredictionsOf(attested[x.key])
  BY DEF IInv, TypeOK, Prediction, AckedInv
<1>2. QED
  BY <1>1, AttestedInLog

\* No crash point leaves the ledger of the protocol in force refusing its next user.
THEOREM Availability == Spec => []AlwaysOpenable
  BY InductiveInvariant, OpenableFromInv, PTL

\* An acknowledged prediction is in the log, attested in the chain, for ever.
THEOREM Durability == Spec => []AcknowledgedDurable
  BY InductiveInvariant, DurableFromInv, PTL

\* The log never holds records of two evidence protocols.
THEOREM Separation == Spec => []OneProtocolPerLog
<1>1. IInv => OneProtocolPerLog
  BY DEF IInv
<1>2. QED
  BY <1>1, InductiveInvariant, PTL

\* The two steps that write the log extend it by a new record of the protocol in
\* force; no other step changes it.
LEMMA LogSteps ==
  ASSUME IInv, [Next]_vars
  PROVE  \/ log' = log
         \/ \E p \in Proc, x \in Prediction :
              /\ RecoverLog(p) \/ WriteLog(p)
              /\ pc[p] \in {"recover", "wal"}
              /\ log' = Append(log, x)
              /\ Len(log) < MaxRecords
              /\ x \notin ToSet(log)
              /\ InForce(x.key)
<1>1. ASSUME NEW p \in Proc, WriteLog(p)
      PROVE  \E x \in Prediction :
               /\ log' = Append(log, x) /\ Len(log) < MaxRecords
               /\ x \notin ToSet(log) /\ InForce(x.key)
  <2> DEFINE k == call[p].key
  <2>1. pc[p] = "wal"
    BY <1>1 DEF WriteLog, Goto
  <2>2. PICK t \in transaction[k] :
          attestation[p] = {t} /\ existing[p] = t.previous /\ Prepared(k, t)
    BY <2>1 DEF IInv, CallInv
  <2>3. k \in Key /\ t.prediction \in Prediction
    BY DEF IInv, TypeOK, Attestation
  <2>4. log' = Append(log, t.prediction)
    BY <1>1, <2>2 DEF WriteLog, Prepared
  <2>5. InForce(k)
    BY <2>2, <2>3, FlightInForce DEF IInv
  <2>6. QED
    BY <2>2, <2>3, <2>4, <2>5 DEF Prepared
<1>2. ASSUME NEW p \in Proc, RecoverLog(p)
      PROVE  \E x \in Prediction :
               /\ log' = Append(log, x) /\ Len(log) < MaxRecords
               /\ x \notin ToSet(log) /\ InForce(x.key)
  <2> DEFINE k == call[p].key
  <2>1. PICK t \in transaction[k] : NotYetLogged(k, t) /\ log' = Append(log, t.prediction)
    BY <1>2 DEF RecoverLog
  <2>2. /\ k \in Key /\ t.prediction \in Prediction /\ t.previous \in Seq(Prediction)
        /\ t.sequence = Len(log) + 1 /\ Len(log) \in Nat
    BY <2>1, LenProperties DEF IInv, TypeOK, Attestation, NotYetLogged
  <2>3. Foreign(k) => Len(log) = 0 /\ ~InForce(k)
    BY <2>2 DEF Foreign
  <2>4. ~Foreign(k)
    BY <2>2, <2>3, ShortLogInForce DEF IInv
  <2>5. Prepared(k, t)
    BY <2>1, <2>2, <2>4 DEF IInv, KeyInv, Settled, InFlight, Logged, Attested
  <2>6. InForce(k)
    BY <2>2, <2>5, FlightInForce DEF IInv
  <2>7. QED
    BY <2>1, <2>2, <2>5, <2>6 DEF Prepared
<1>3. \A p \in Proc :
        (RecoverLog(p) => pc[p] = "recover") /\ (WriteLog(p) => pc[p] = "wal")
  BY DEF RecoverLog, WriteLog, Goto
<1>4. \/ log' = log
      \/ \E p \in Proc : RecoverLog(p) \/ WriteLog(p)
  BY DEF Next, Step, CallLoad, CallAppend, Acquire, NoTransaction, RecoverLogged,
         RecoverAttestation, FinishRecovery, LoadReturns, WriteTransaction, WriteAttestation,
         Commit, Return, Reject, Crash, Leave, SetClock, files, vars
<1>5. QED
  BY <1>1, <1>2, <1>3, <1>4

\* The log only ever grows, by one record at its end.
THEOREM AppendOnly == Spec => LogAppendOnly
<1>1. IInv /\ [Next]_vars => [\E x \in Prediction : log' = Append(log, x)]_log
  BY LogSteps
<1>2. QED
  BY <1>1, InductiveInvariant, PTL DEF Spec, LogAppendOnly

\* No step rewrites or removes an attestation.
THEOREM Permanence == Spec => AttestationsPermanent
<1>1. ASSUME TypeOK, [Next]_vars
      PROVE  [\A k \in Key : attested[k] \subseteq attested'[k]]_attested
  <2>1. ASSUME NEW p \in Proc, NEW a, Attest(call[p].key, a)
        PROVE  \A k \in Key : attested[k] \subseteq attested'[k]
    BY <1>1, <2>1 DEF TypeOK, Attest
  <2>2. \/ attested' = attested
        \/ \E p \in Proc : \E a \in transaction[call[p].key] \cup attestation[p] :
             Attest(call[p].key, a)
    BY <1>1 DEF Next, Step, CallLoad, CallAppend, Acquire, NoTransaction, RecoverLogged,
                RecoverLog, RecoverAttestation, FinishRecovery, LoadReturns, WriteTransaction,
                WriteLog, WriteAttestation, Commit, Return, Reject, Crash, Leave, SetClock,
                files, vars
  <2>3. QED
    BY <2>1, <2>2
<1>2. QED
  BY <1>1, TypeCorrect, PTL DEF Spec, AttestationsPermanent

(***************************************************************************)
(* Refinement.  A log write is the abstract Record, a load's return the    *)
(* Read, an append's return the Acknowledge; every other step stutters or  *)
(* forgets what a load had returned.                                       *)
(***************************************************************************)

LEMMA ReadingFrame ==
  ASSUME NEW q \in Proc, pc'[q] = pc[q], call'[q] = call[q], existing'[q] = existing[q]
  PROVE  Reading(q)' = Reading(q)
  BY DEF Reading

\* Between two states p is not done in, p has nothing to show.
LEMMA ReadingBusy ==
  ASSUME NEW q \in Proc, pc[q] # "done", pc'[q] # "done"
  PROVE  Reading(q)' = Reading(q)
  BY DEF Reading

LEMMA RefineInit == Init => Ledger!Init
<1> SUFFICES ASSUME Init
             PROVE  Ledger!Init
  OBVIOUS
<1>1. \A p \in Proc : Reading(p) = << >>
  BY DEF Init, Reading
<1>2. QED
  BY <1>1 DEF Init, Ledger!Init

\* A step of the holder that neither ends the call nor completes a load.
LEMMA BusyStep ==
  ASSUME TypeOK, NEW p \in Proc, pc[p] # "done",
         NEW to, to # "done", pc' = [pc EXCEPT ![p] = to],
         \A q \in Proc : q # p => call'[q] = call[q] /\ existing'[q] = existing[q]
  PROVE  [q \in Proc |-> Reading(q)]' = [q \in Proc |-> Reading(q)]
<1>1. pc'[p] = to /\ \A q \in Proc : q # p => pc'[q] = pc[q]
  BY DEF TypeOK
<1>2. \A q \in Proc : Reading(q)' = Reading(q)
  BY <1>1, ReadingFrame, ReadingBusy
<1>3. QED
  BY <1>2

\* A call ends, and with it what its load returned.
LEMMA LeaveForgets ==
  ASSUME TypeOK, NEW p \in Proc, Leave(p), acked' = acked
  PROVE  Ledger!Forget(p)
<1>1. Reading(p)' = << >>
  BY DEF Leave, Reading, TypeOK
<1>2. ASSUME NEW q \in Proc, q # p
      PROVE  Reading(q)' = Reading(q)
  BY <1>2, ReadingFrame DEF Leave, TypeOK
<1>3. [q \in Proc |-> Reading(q)]' = [[q \in Proc |-> Reading(q)] EXCEPT ![p] = << >>]
  BY <1>1, <1>2
<1>4. QED
  BY <1>3 DEF Ledger!Forget, Leave, files

LEMMA RefineStep ==
  ASSUME IInv, [Next]_vars
  PROVE  [Ledger!Next]_(Ledger!vars)
<1> DEFINE seen == [q \in Proc |-> Reading(q)]
<1>1. TypeOK
  BY DEF IInv
<1>2. ASSUME NEW p \in Proc, NEW k \in Key, CallLoad(p, k) \/ \E u \in Unit : CallAppend(p, u, k)
      PROVE  UNCHANGED Ledger!vars
  <2>1. seen' = seen
    BY <1>1, <1>2, BusyStep DEF CallLoad, CallAppend, Goto, TypeOK
  <2>2. QED
    BY <1>2, <2>1 DEF CallLoad, CallAppend, files, Ledger!vars
<1>3. ASSUME NEW p \in Proc, RecoverLog(p) \/ WriteLog(p)
      PROVE  [Ledger!Next]_(Ledger!vars)
  <2>1. seen' = seen /\ acked' = acked
    <3>1. CASE RecoverLog(p)
      BY <1>1, <3>1, BusyStep DEF RecoverLog, Goto, locals
    <3>2. CASE WriteLog(p)
      BY <1>1, <3>2, BusyStep DEF WriteLog, Goto, locals
    <3>3. QED
      BY <1>3, <3>1, <3>2
  <2>2. CASE log' = log
    BY <2>1, <2>2 DEF Ledger!vars
  <2>3. ASSUME NEW x \in Prediction, log' = Append(log, x), Len(log) < MaxRecords,
               x \notin ToSet(log), InForce(x.key)
        PROVE  Ledger!Next
    <3>1. Ledger!Record(x)
      BY <2>1, <2>3 DEF Ledger!Record, Ledger!ToSet, ToSet, InForce
    <3>2. QED
      BY <3>1 DEF Ledger!Next
  <2>4. QED
    BY <2>2, <2>3, LogSteps
<1>4. ASSUME NEW p \in Proc, LoadReturns(p)
      PROVE  Ledger!Next
  <2>1. Reading(p)' = log
    BY <1>1, <1>4 DEF LoadReturns, Goto, Reading, TypeOK
  <2>2. ASSUME NEW q \in Proc, q # p
        PROVE  Reading(q)' = Reading(q)
    BY <1>1, <1>4, <2>2, ReadingFrame DEF LoadReturns, Goto, TypeOK
  <2>3. seen' = [seen EXCEPT ![p] = log]
    BY <2>1, <2>2
  <2>4. Ledger!Read(p)
    BY <1>4, <2>3 DEF LoadReturns, files, Ledger!Read
  <2>5. QED
    BY <2>4 DEF Ledger!Next
<1>5. ASSUME NEW p \in Proc, Return(p)
      PROVE  Ledger!Next
  <2>1. CASE call[p].new = {}
    <3>1. Ledger!Forget(p)
      BY <1>1, <1>5, <2>1, LeaveForgets DEF Return
    <3>2. QED
      BY <3>1 DEF Ledger!Next
  <2>2. ASSUME NEW x \in call[p].new
        PROVE  Ledger!Next
    <3>1. call[p].new = {x} /\ x \in Prediction /\ call[p].key \in Key
      BY <1>1 DEF IInv, CallInv, TypeOK
    <3>2. x \in PredictionsOf(attested[call[p].key])
      BY <1>5, <3>1 DEF Return, IInv, CallInv
    <3>3. x \in ToSet(log)
      BY <3>1, <3>2, AttestedInLog
    <3>4. Reading(p) = << >> /\ Reading(p)' = << >>
      BY <1>1, <1>5, <3>1 DEF Return, Leave, Reading, TypeOK
    <3>5. ASSUME NEW q \in Proc, q # p
          PROVE  Reading(q)' = Reading(q)
      BY <1>1, <1>5, <3>5, ReadingFrame DEF Return, Leave, TypeOK
    <3>6. seen' = seen
      BY <3>4, <3>5
    <3>7. Ledger!Acknowledge(x)
      BY <1>5, <3>1, <3>3, <3>6 DEF Return, Leave, files, Ledger!Acknowledge, Ledger!ToSet, ToSet
    <3>8. QED
      BY <3>1, <3>7 DEF Ledger!Next
  <2>3. QED
    BY <2>1, <2>2
<1>6. ASSUME NEW p \in Proc, Reject(p) \/ Crash(p)
      PROVE  Ledger!Next
  <2>1. Ledger!Forget(p)
    BY <1>1, <1>6, LeaveForgets DEF Reject, Crash
  <2>2. QED
    BY <2>1 DEF Ledger!Next
<1>7. ASSUME NEW p \in Proc,
             Acquire(p) \/ NoTransaction(p) \/ RecoverLogged(p) \/ RecoverAttestation(p)
               \/ FinishRecovery(p)
      PROVE  UNCHANGED Ledger!vars
  <2>1. seen' = seen
    <3>1. CASE Acquire(p) \/ NoTransaction(p) \/ RecoverLogged(p)
      BY <1>1, <3>1, BusyStep DEF Acquire, NoTransaction, RecoverLogged, Goto, locals
    <3>2. CASE RecoverAttestation(p) \/ FinishRecovery(p)
      BY <1>1, <3>2, BusyStep DEF RecoverAttestation, FinishRecovery, Goto, locals
    <3>3. QED
      BY <1>7, <3>1, <3>2
  <2>2. QED
    BY <1>7, <2>1 DEF Acquire, NoTransaction, RecoverLogged, RecoverAttestation,
                      FinishRecovery, files, Ledger!vars
<1>8. ASSUME NEW p \in Proc, WriteTransaction(p) \/ WriteAttestation(p)
      PROVE  UNCHANGED Ledger!vars
  <2>1. seen' = seen
    <3>1. CASE WriteTransaction(p)
      BY <1>1, <3>1, BusyStep DEF WriteTransaction, Goto, TypeOK
    <3>2. CASE WriteAttestation(p)
      BY <1>1, <3>2, BusyStep DEF WriteAttestation, Goto, locals
    <3>3. QED
      BY <1>8, <3>1, <3>2
  <2>2. QED
    BY <1>8, <2>1 DEF WriteTransaction, WriteAttestation, Ledger!vars
<1>9. ASSUME NEW p \in Proc, Commit(p)
      PROVE  UNCHANGED Ledger!vars
  <2>1. pc[p] = "attesting" /\ call[p].new # {}
    BY <1>9 DEF Commit, Goto, IInv, CallInv
  <2>2. Reading(p) = << >> /\ Reading(p)' = << >>
    BY <1>9, <2>1 DEF Commit, Reading, locals
  <2>3. ASSUME NEW q \in Proc, q # p
        PROVE  Reading(q)' = Reading(q)
    BY <1>1, <1>9, <2>3, ReadingFrame DEF Commit, Goto, locals, TypeOK
  <2>4. seen' = seen
    BY <2>2, <2>3
  <2>5. QED
    BY <1>9, <2>4 DEF Commit, Ledger!vars
<1>10. CASE SetClock \/ UNCHANGED vars
  <2>1. UNCHANGED <<log, acked, pc, call, existing>>
    BY <1>10 DEF SetClock, vars, files, locals
  <2>2. seen' = seen
    BY <2>1, ReadingFrame
  <2>3. QED
    BY <2>1, <2>2 DEF Ledger!vars
<1>11. ASSUME NEW p \in Proc, Step(p)
       PROVE  [Ledger!Next]_(Ledger!vars)
  BY <1>3, <1>4, <1>5, <1>6, <1>7, <1>8, <1>9, <1>11 DEF Step
<1>12. QED
  BY <1>2, <1>6, <1>10, <1>11 DEF Next

\* The files, their lock and the write-ahead transaction implement one atomic
\* append-only sequence, with crashes at any point of any call.
THEOREM Refinement == Spec => ImplementsTrustedLedger
<1>1. Init => Ledger!Init
  BY RefineInit
<1>2. IInv /\ [Next]_vars => [Ledger!Next]_(Ledger!vars)
  BY RefineStep
<1>3. QED
  BY <1>1, <1>2, InductiveInvariant, PTL DEF Spec, ImplementsTrustedLedger, Ledger!Spec

(***************************************************************************)
(* Chains of attestations.                                                 *)
(***************************************************************************)

\* A log whose records are all attested holds predictions only.
LEMMA AttestedRecords ==
  ASSUME NEW R \in SUBSET Attestation, NEW s \in Seq(Prediction \cup Forged), NEW P,
         Verified(R, s, P)
  PROVE  s \in Seq(Prediction)
<1>1. ToSet(s) \subseteq Prediction
  BY DEF Verified, PredictionsOf, Attestation
<1>2. \A i \in 1..Len(s) : s[i] \in Prediction
  BY <1>1, LenProperties DEF ToSet
<1>3. s = [i \in 1..Len(s) |-> s[i]] /\ Len(s) \in Nat
  BY LenProperties
<1>4. QED
  BY <1>2, <1>3, IsASeq

\* A sequence is what comes before its last element, and that element.
LEMMA FrontAndLast ==
  ASSUME NEW S, NEW s \in Seq(S), s # << >>
  PROVE  s = Append(SubSeq(s, 1, Len(s) - 1), s[Len(s)])
<1> DEFINE n == Len(s)
           f == SubSeq(s, 1, n - 1)
<1>1. n \in Nat /\ n \in 1..n /\ \A i \in 1..n : s[i] \in S
  BY EmptySeq, LenProperties, ElementOfSeq
<1>2. f \in Seq(S) /\ Len(f) = n - 1 /\ \A i \in 1..(n - 1) : f[i] = s[i]
  <2>1. 1 \in Int /\ n - 1 \in Int /\ \A i \in 1..(n - 1) : s[i] \in S
    BY <1>1
  <2>2. /\ f \in Seq(S)
        /\ Len(f) = IF 1 <= n - 1 THEN (n - 1) - 1 + 1 ELSE 0
        /\ \A i \in 1..((n - 1) - 1 + 1) : f[i] = s[1 + i - 1]
    BY ONLY <2>1, SubSeqProperties
  <2> HIDE DEF f
  <2> HIDE DEF n
  <2>3. Len(f) = n - 1
    <3>1. CASE 1 <= n - 1
      BY <1>1, <2>2, <3>1
    <3>2. CASE ~(1 <= n - 1)
      BY <1>1, <2>2, <3>2
    <3>3. QED
      BY <3>1, <3>2
  <2>4. ASSUME NEW i \in 1..(n - 1)
        PROVE  f[i] = s[i]
    <3>1. i \in 1..((n - 1) - 1 + 1) /\ 1 + i - 1 = i
      BY <1>1
    <3>2. QED
      BY <2>2, <3>1
  <2>5. QED
    BY <2>2, <2>3, <2>4
<1>3. /\ Append(f, s[n]) \in Seq(S) /\ Len(Append(f, s[n])) = n
      /\ \A i \in 1..(n - 1) : Append(f, s[n])[i] = s[i]
      /\ Append(f, s[n])[n] = s[n]
  BY <1>1, <1>2, AppendProperties
<1>4. \A i \in 1..n : Append(f, s[n])[i] = s[i]
  BY <1>1, <1>3
<1>5. QED
  BY <1>3, <1>4, SeqEqual

\* A verified log is named by the attestation of its last record.
LEMMA VerifiedNamed ==
  ASSUME NEW R \in SUBSET Attestation, NEW s \in Seq(Prediction), Verified(R, s, {})
  PROVE  s \in AttestedLogs(R)
<1>1. CASE s = << >>
  BY <1>1 DEF AttestedLogs
<1>2. CASE s # << >>
  <2>1. Len(s) \in Nat /\ Len(s) \in 1..Len(s)
    BY <1>2, EmptySeq, LenProperties
  <2>2. PICK a \in R : a.prediction = s[Len(s)] /\ a.previous = SubSeq(s, 1, Len(s) - 1)
    BY <2>1 DEF Verified, Linked
  <2>3. s = Append(a.previous, a.prediction)
    BY <1>2, <2>2, FrontAndLast
  <2>4. QED
    BY <2>3 DEF AttestedLogs
<1>3. QED
  BY <1>1, <1>2

\* Each record has one attestation, so its place is fixed: a chain that was
\* linked once is the beginning of every log verified later.
LEMMA LinkedIsPrefix ==
  ASSUME NEW R \in SUBSET Attestation, \A a, b \in R : a.prediction = b.prediction => a = b,
         NEW r \in Seq(Prediction), \A i \in 1..Len(r) : Linked(R, r, i),
         NEW s \in Seq(Prediction), Verified(R, s, {})
  PROVE  IsPrefix(r, s)
<1>1. Len(r) \in Nat /\ Len(s) \in Nat
  BY LenProperties
<1>2. ASSUME NEW i \in 1..Len(r)
      PROVE  i \in 1..Len(s) /\ s[i] = r[i]
  <2>1. PICK a \in R : a.prediction = r[i] /\ a.sequence = i
    BY <1>2 DEF Linked
  <2>2. a.prediction \in ToSet(s)
    BY <2>1 DEF Verified, PredictionsOf
  <2>3. PICK j \in 1..Len(s) : s[j] = a.prediction
    BY <2>2, LenProperties DEF ToSet
  <2>4. PICK b \in R : b.prediction = s[j] /\ b.sequence = j
    BY <2>3 DEF Verified, Linked
  <2>5. i = j
    BY <2>1, <2>3, <2>4
  <2>6. QED
    BY <2>1, <2>3, <2>5
<1>3. Len(r) <= Len(s)
  <2>1. CASE Len(r) = 0
    BY <1>1, <2>1
  <2>2. CASE Len(r) # 0
    BY <1>1, <1>2, <2>2
  <2>3. QED
    BY <2>1, <2>2
<1>4. /\ SubSeq(s, 1, Len(r)) \in Seq(Prediction) /\ Len(SubSeq(s, 1, Len(r))) = Len(r)
      /\ \A i \in 1..Len(r) : SubSeq(s, 1, Len(r))[i] = s[i]
  BY <1>1, <1>3, SubSeqProperties
<1>5. r = SubSeq(s, 1, Len(r))
  BY <1>2, <1>4, SeqEqual
<1>6. SubSeq(r, 1, Len(r)) = r
  BY SubSeqFull
<1>7. QED
  BY <1>3, <1>5, <1>6 DEF IsPrefix

\* A link stays a link when more is attested.
LEMMA LinkedGrows ==
  ASSUME NEW R, NEW Q, R \subseteq Q, NEW s, NEW i, Linked(R, s, i)
  PROVE  Linked(Q, s, i)
  BY DEF Linked

(***************************************************************************)
(* Type correctness.                                                       *)
(***************************************************************************)

\* What an edit leaves is still a sequence of records.
LEMMA RewritingType ==
  ASSUME log \in Seq(Prediction \cup Forged)
  PROVE  Rewritings \subseteq Seq(Prediction \cup Forged)
<1> DEFINE S == Prediction \cup Forged
<1>1. Len(log) \in Nat /\ \A i \in 1..Len(log) : log[i] \in S
  BY LenProperties, ElementOfSeq
<1>2. Reverse(log) \in Seq(S)
  <2>1. \A i \in 1..Len(log) : log[(Len(log) - i) + 1] \in S
    BY <1>1
  <2>2. QED
    BY <1>1, <2>1, IsASeq DEF Reverse
<1>3. Front(log) \in Seq(S)
  <2>1. 1 \in Int /\ Len(log) - 1 \in Int /\ \A i \in 1..(Len(log) - 1) : log[i] \in S
    BY <1>1
  <2>2. QED
    BY <2>1, SubSeqProperties DEF Front
<1>4. \A x \in Forged : Append(log, x) \in Seq(S)
  BY AppendProperties
<1>5. << >> \in Seq(S)
  BY EmptySeq
<1>6. QED
  BY <1>2, <1>3, <1>4, <1>5 DEF Rewritings

\* A process's log, read once it is trusted, holds predictions only.
LEMMA TrustedType ==
  ASSUME EditTypeOK, NEW k \in Key, Trusted(k)
  PROVE  log \in Seq(Prediction)
<1>1. attested[k] \in SUBSET Attestation
  BY DEF EditTypeOK
<1>2. QED
  BY <1>1, AttestedRecords DEF Trusted, EditTypeOK

\* The variables of PredictionLedger keep their types in its own steps.
LEMMA EditTypeNext ==
  ASSUME EditTypeOK, Next, reported' \in [Key -> Seq(Prediction)]
  PROVE  EditTypeOK'
<1> USE DEF EditTypeOK, Holding
<1>1. ASSUME NEW p \in Proc, NEW k \in Key, CallLoad(p, k)
      PROVE  EditTypeOK'
  BY <1>1 DEF CallLoad, Goto, files
<1>2. ASSUME NEW p \in Proc, NEW k \in Key, NEW u \in Unit, CallAppend(p, u, k)
      PROVE  EditTypeOK'
  <2>1. [unit |-> u, key |-> k, predictedAt |-> clock] \in Prediction
    BY DEF Prediction
  <2>2. QED
    BY <1>2, <2>1 DEF CallAppend, Goto, files
<1>3. ASSUME NEW p \in Proc, Acquire(p) \/ NoTransaction(p) \/ RecoverLogged(p)
      PROVE  EditTypeOK'
  BY <1>3 DEF Acquire, NoTransaction, RecoverLogged, Goto, files, locals
<1>4. ASSUME NEW p \in Proc, RecoverLog(p)
      PROVE  EditTypeOK'
  <2>1. PICK t \in transaction[call[p].key] : log' = Append(log, t.prediction)
    BY <1>4 DEF RecoverLog
  <2>2. t.prediction \in Prediction \cup Forged
    BY <2>1 DEF Attestation
  <2>3. log' \in Seq(Prediction \cup Forged)
    BY <2>1, <2>2, AppendProperties
  <2>4. QED
    BY <1>4, <2>3 DEF RecoverLog, Goto, locals
<1>5. ASSUME NEW p \in Proc, RecoverAttestation(p) \/ WriteAttestation(p)
      PROVE  EditTypeOK'
  <2>1. PICK a \in Attestation : Attest(call[p].key, a)
    BY <1>5 DEF RecoverAttestation, WriteAttestation
  <2>2. attested' \in [Key -> SUBSET Attestation]
    BY <2>1 DEF Attest
  <2>3. pc' \in [Proc -> {"idle", "lock"} \cup Holding]
    BY <1>5 DEF RecoverAttestation, WriteAttestation, Goto
  <2>4. QED
    BY <1>5, <2>2, <2>3 DEF RecoverAttestation, WriteAttestation, locals
<1>6. ASSUME NEW p \in Proc, FinishRecovery(p) \/ Commit(p)
      PROVE  EditTypeOK'
  BY <1>6 DEF FinishRecovery, Commit, Goto, locals
<1>7. ASSUME NEW p \in Proc, LoadReturns(p)
      PROVE  EditTypeOK'
  <2>1. log \in Seq(Prediction)
    BY <1>7, TrustedType DEF LoadReturns
  <2>2. QED
    BY <1>7, <2>1 DEF LoadReturns, Goto, files
<1>8. ASSUME NEW p \in Proc, WriteTransaction(p)
      PROVE  EditTypeOK'
  <2>1. PICK x \in call[p].new :
          /\ Trusted(call[p].key)
          /\ attestation' = [attestation EXCEPT ![p] = {AttestationOf(x, log, clock)}]
          /\ transaction' = [transaction EXCEPT ![call[p].key] = {AttestationOf(x, log, clock)}]
    BY <1>8 DEF WriteTransaction, Appendable
  <2>2. log \in Seq(Prediction)
    BY <2>1, TrustedType
  <2>3. AttestationOf(x, log, clock) \in Attestation
    BY <2>2, AttestationType
  <2>4. attestation' \in [Proc -> SUBSET Attestation] /\ transaction' \in [Key -> SUBSET Attestation]
    BY <2>1, <2>3 DEF EditTypeOK
  <2>5. QED
    BY <1>8, <2>2, <2>4 DEF WriteTransaction, Goto, EditTypeOK
<1>9. ASSUME NEW p \in Proc, WriteLog(p)
      PROVE  EditTypeOK'
  <2>1. PICK a \in attestation[p] : log' = Append(existing[p], a.prediction)
    BY <1>9 DEF WriteLog
  <2>2. a.prediction \in Prediction
    BY <2>1 DEF Attestation
  <2>3. log' \in Seq(Prediction)
    BY <2>1, <2>2, AppendProperties
  <2>4. log' \in Seq(Prediction \cup Forged)
    BY <2>3, SeqMonotonic
  <2>5. QED
    BY <1>9, <2>4 DEF WriteLog, Goto, locals
<1>10. ASSUME NEW p \in Proc, Leave(p), acked' \subseteq acked \cup call[p].new
       PROVE  EditTypeOK'
  <2>1. existing' \in [Proc -> Seq(Prediction)]
    BY <1>10, EmptySeq DEF Leave
  <2>2. call' \in [Proc -> [key : Key, new : SUBSET Prediction]]
    BY <1>10 DEF Leave
  <2>3. QED
    BY <1>10, <2>1, <2>2 DEF Leave, files
<1>11. CASE SetClock
  BY <1>11 DEF SetClock, files, locals
<1>12. QED
  BY <1>1, <1>2, <1>3, <1>4, <1>5, <1>6, <1>7, <1>8, <1>9, <1>10, <1>11
     DEF Next, Step, Return, Reject, Crash

(***************************************************************************)
(* The files of the git directory.                                         *)
(***************************************************************************)

\* What a step of the ledger does to the attestations and the transactions.
LEMMA FileSteps ==
  ASSUME EditIInv, Next
  PROVE  \/ attested' = attested /\ transaction' = transaction
         \/ /\ attested' = attested
            /\ \E k \in Key : transaction' = [transaction EXCEPT ![k] = {}]
         \/ /\ attested' = attested
            /\ \E k \in Key, x \in Prediction :
                 /\ Appendable(k, x)
                 /\ transaction' = [transaction EXCEPT ![k] = {AttestationOf(x, log, clock)}]
         \/ /\ transaction' = transaction
            /\ \E k \in Key : \E t \in transaction[k] : Attest(k, t)
<1> USE DEF EditIInv, EditTypeOK
<1>1. CASE SetClock \/ \E p \in Proc, k \in Key : CallLoad(p, k) \/ \E u \in Unit : CallAppend(p, u, k)
  BY <1>1 DEF SetClock, CallLoad, CallAppend, files
<1>2. ASSUME NEW p \in Proc,
             \/ Acquire(p) \/ NoTransaction(p) \/ RecoverLogged(p) \/ RecoverLog(p)
             \/ LoadReturns(p) \/ WriteLog(p) \/ Return(p) \/ Reject(p) \/ Crash(p)
      PROVE  attested' = attested /\ transaction' = transaction
  BY <1>2 DEF Acquire, NoTransaction, RecoverLogged, RecoverLog, LoadReturns, WriteLog,
              Return, Reject, Crash, Leave, files
<1>3. ASSUME NEW p \in Proc, FinishRecovery(p) \/ Commit(p)
      PROVE  /\ attested' = attested
             /\ \E k \in Key : transaction' = [transaction EXCEPT ![k] = {}]
  BY <1>3 DEF FinishRecovery, Commit
<1>4. ASSUME NEW p \in Proc, WriteTransaction(p)
      PROVE  /\ attested' = attested
             /\ \E k \in Key, x \in Prediction :
                  /\ Appendable(k, x)
                  /\ transaction' = [transaction EXCEPT ![k] = {AttestationOf(x, log, clock)}]
  <2>1. call[p].key \in Key /\ call[p].new \subseteq Prediction
    OBVIOUS
  <2>2. QED
    BY <1>4, <2>1 DEF WriteTransaction
<1>5. ASSUME NEW p \in Proc, RecoverAttestation(p)
      PROVE  /\ transaction' = transaction
             /\ \E k \in Key : \E t \in transaction[k] : Attest(k, t)
  BY <1>5 DEF RecoverAttestation
<1>6. ASSUME NEW p \in Proc, WriteAttestation(p)
      PROVE  /\ transaction' = transaction
             /\ \E k \in Key : \E t \in transaction[k] : Attest(k, t)
  <2>1. PICK a \in attestation[p] : Attest(call[p].key, a)
    BY <1>6 DEF WriteAttestation
  <2>2. pc[p] = "logged"
    BY <1>6 DEF WriteAttestation, Goto
  <2>3. a \in transaction[call[p].key]
    BY <2>1, <2>2 DEF EditCallInv
  <2>4. QED
    BY <1>6, <2>1, <2>3 DEF WriteAttestation
<1>7. QED
  BY <1>1, <1>2, <1>3, <1>4, <1>5, <1>6 DEF Next, Step

\* Attestations are only ever added, one file to a prediction.
LEMMA AttestedStep ==
  ASSUME EditIInv, Next
  PROVE  (\A k \in Key : attested[k] \subseteq attested'[k]) /\ OneFileEach'
<1> USE DEF EditIInv, EditTypeOK
<1>1. CASE attested' = attested
  BY <1>1 DEF OneFileEach
<1>2. ASSUME NEW k \in Key, NEW t \in transaction[k], Attest(k, t)
      PROVE  (\A j \in Key : attested[j] \subseteq attested'[j]) /\ OneFileEach'
  <2>1. attested' = [attested EXCEPT ![k] = @ \cup {t}]
    BY <1>2 DEF Attest
  <2>2. \A j \in Key : attested'[j] = IF j = k THEN attested[j] \cup {t} ELSE attested[j]
    BY <2>1
  <2>3. OneFileEach'
    BY <1>2, <2>2 DEF OneFileEach, Attest
  <2>4. ASSUME NEW j \in Key
        PROVE  attested[j] \subseteq attested'[j]
    <3>1. attested'[j] = attested[j] \/ attested'[j] = attested[j] \cup {t}
      BY <2>2
    <3>2. QED
      BY ONLY <3>1
  <2>5. QED
    BY <2>3, <2>4
<1>3. QED
  BY <1>1, <1>2, FileSteps

\* A transaction file holds one append.
LEMMA TransactionStep ==
  ASSUME EditIInv, Next
  PROVE  \A k \in Key : \A t, u \in transaction'[k] : t = u
<1> USE DEF EditIInv, EditTypeOK
<1>1. ASSUME NEW k \in Key, NEW v, \A t, u \in v : t = u,
             transaction' = [transaction EXCEPT ![k] = v]
      PROVE  \A j \in Key : \A t, u \in transaction'[j] : t = u
  BY <1>1
<1>2. QED
  BY <1>1, FileSteps

(***************************************************************************)
(* The chain of one ledger key.                                            *)
(***************************************************************************)

\* A trusted log is the log of its key's chain, ready for a transaction.
LEMMA ChainStarts ==
  ASSUME EditTypeOK, NEW k \in Key, NEW x \in Prediction, Appendable(k, x),
         attested'[k] = attested[k], transaction'[k] = {AttestationOf(x, log, clock)}
  PROVE  KeyRestorable(k)'
<1>1. log \in Seq(Prediction) /\ attested[k] \in SUBSET Attestation
  BY TrustedType DEF Appendable, EditTypeOK
<1>2. Loadable(log) /\ Verified(attested[k], log, {})
  BY DEF Appendable, Trusted
<1>3. log \in AttestedLogs(attested[k])
  BY <1>1, <1>2, VerifiedNamed
<1>4. PICK s : s = log
  OBVIOUS
<1>5. ASSUME NEW t \in transaction'[k]
      PROVE  /\ t.sequence = Len(t.previous) + 1
             /\ Timely(t.prediction.predictedAt, t.recordedAt)
             /\ s = t.previous /\ t.prediction \notin ToSet(s) /\ Len(s) < MaxRecords
  BY <1>4 DEF AttestationOf, Appendable
<1>6. QED
  BY <1>2, <1>3, <1>4, <1>5 DEF KeyRestorable

\* Attesting the transaction of a key extends the chain by its record, or finds it there.
LEMMA ChainGrows ==
  ASSUME EditTypeOK, NEW k \in Key, KeyRestorable(k), NEW t \in transaction[k],
         \A u \in transaction[k] : u = t, Attest(k, t), transaction'[k] = transaction[k]
  PROVE  KeyRestorable(k)'
<1>1. attested'[k] = attested[k] \cup {t}
  BY DEF Attest, EditTypeOK
<1>2. PICK s \in AttestedLogs(attested[k]) :
        /\ Loadable(s)
        /\ Verified(attested[k], s, {})
        /\ t.sequence = Len(t.previous) + 1
        /\ Timely(t.prediction.predictedAt, t.recordedAt)
        /\ \/ s = t.previous /\ t.prediction \notin ToSet(s) /\ Len(s) < MaxRecords
           \/ s = Append(t.previous, t.prediction) /\ t \in attested[k]
  BY DEF KeyRestorable
<1>3. /\ attested[k] \in SUBSET Attestation /\ t \in Attestation
      /\ t.prediction \in Prediction /\ t.previous \in Seq(Prediction)
  BY DEF EditTypeOK, Attestation
<1>4. PICK r : r = Append(t.previous, t.prediction)
  OBVIOUS
<1>5. r \in AttestedLogs(attested'[k])
  BY <1>1, <1>4 DEF AttestedLogs
<1>6. Loadable(r) /\ Verified(attested'[k], r, {})
  <2>1. CASE s = t.previous /\ t.prediction \notin ToSet(s) /\ Len(s) < MaxRecords
    <3>1. Verified(attested[k] \cup {t}, r, {})
      BY <1>2, <1>3, <1>4, <2>1, VerifiedAppend
    <3>2. Loadable(r)
      BY <1>2, <1>3, <1>4, <2>1, LoadableAppend
    <3>3. QED
      BY <1>1, <3>1, <3>2
  <2>2. CASE s = Append(t.previous, t.prediction) /\ t \in attested[k]
    <3>1. attested'[k] = attested[k] /\ s = r
      BY <1>1, <1>4, <2>2
    <3>2. QED
      BY <1>2, <3>1
  <2>3. QED
    BY <1>2, <2>1, <2>2
<1>7. ASSUME NEW u \in transaction'[k]
      PROVE  /\ u.sequence = Len(u.previous) + 1
             /\ Timely(u.prediction.predictedAt, u.recordedAt)
             /\ r = Append(u.previous, u.prediction) /\ u \in attested'[k]
  BY <1>1, <1>2, <1>4, <1>7
<1>8. QED
  BY <1>5, <1>6, <1>7 DEF KeyRestorable

LEMMA ChainStep ==
  ASSUME EditIInv, Next
  PROVE  Restorable'
<1> SUFFICES ASSUME NEW j \in Key
             PROVE  KeyRestorable(j)'
  BY DEF Restorable
<1>1. EditTypeOK /\ KeyRestorable(j)
  BY DEF EditIInv, Restorable
<1>2. CASE attested'[j] = attested[j] /\ (transaction'[j] = transaction[j] \/ transaction'[j] = {})
  BY <1>1, <1>2 DEF KeyRestorable
<1>3. CASE \E k \in Key : attested' = attested /\ transaction' = [transaction EXCEPT ![k] = {}]
  BY <1>1, <1>2, <1>3 DEF EditTypeOK
<1>4. ASSUME attested' = attested, NEW k \in Key, NEW x \in Prediction, Appendable(k, x),
             transaction' = [transaction EXCEPT ![k] = {AttestationOf(x, log, clock)}]
      PROVE  KeyRestorable(j)'
  <2>1. CASE j = k
    <3>1. transaction'[k] = {AttestationOf(x, log, clock)} /\ attested'[k] = attested[k]
      BY <1>1, <1>4 DEF EditTypeOK
    <3>2. QED
      BY <1>1, <1>4, <2>1, <3>1, ChainStarts
  <2>2. CASE j # k
    BY <1>1, <1>2, <1>4, <2>2 DEF EditTypeOK
  <2>3. QED
    BY <2>1, <2>2
<1>5. ASSUME transaction' = transaction, NEW k \in Key, NEW t \in transaction[k], Attest(k, t)
      PROVE  KeyRestorable(j)'
  <2>1. CASE j = k
    <3>1. \A u \in transaction[k] : u = t
      BY DEF EditIInv
    <3>2. QED
      BY <1>1, <1>5, <2>1, <3>1, ChainGrows
  <2>2. CASE j # k
    BY <1>1, <1>2, <1>5, <2>2 DEF EditTypeOK, Attest
  <2>3. QED
    BY <2>1, <2>2
<1>6. QED
  BY <1>2, <1>3, <1>4, <1>5, FileSteps

(***************************************************************************)
(* What the processes inside a call know.                                  *)
(***************************************************************************)

\* A process outside the lock knows nothing of the files, so their change is nothing to it.
LEMMA EditOutside ==
  ASSUME NEW q \in Proc, EditCallInv(q), pc[q] \notin Holding,
         pc'[q] = pc[q], call'[q] = call[q]
  PROVE  EditCallInv(q)'
  BY DEF EditCallInv, Holding

\* The others stay outside while one that holds the lock takes a step.
LEMMA EditOthers ==
  ASSUME EditIInv, NEW p \in Proc, pc[p] \in Holding, NEW q \in Proc, q # p,
         pc'[q] = pc[q], call'[q] = call[q]
  PROVE  EditCallInv(q)'
  BY OthersOutside, EditOutside DEF EditIInv

\* Whoever is past a check knows no less after a step that leaves the key's files alone.
LEMMA EditFrame ==
  ASSUME NEW q \in Proc, EditCallInv(q),
         attested' = attested, transaction' = transaction,
         pc'[q] = pc[q], call'[q] = call[q],
         existing'[q] = existing[q], attestation'[q] = attestation[q]
  PROVE  EditCallInv(q)'
  BY DEF EditCallInv

LEMMA EditCallStep ==
  ASSUME EditIInv, Next, NEW q \in Proc
  PROVE  EditCallInv(q)'
<1> USE DEF EditTypeOK
<1>1. EditTypeOK /\ EditCallInv(q) /\ \A p \in Proc : EditCallInv(p)
  BY DEF EditIInv
<1>2. CASE SetClock
  BY <1>1, <1>2, EditFrame DEF SetClock, files, locals
<1>3. ASSUME NEW p \in Proc, NEW k \in Key, CallLoad(p, k) \/ \E u \in Unit : CallAppend(p, u, k)
      PROVE  EditCallInv(q)'
  <2>1. CASE q = p
    <3>1. pc'[q] = "lock"
      BY <1>1, <1>3, <2>1 DEF CallLoad, CallAppend, Goto
    <3>2. /\ call'[q].key = k
          /\ \A x, y \in call'[q].new : x.key = k /\ x = y
      BY <1>1, <1>3, <2>1 DEF CallLoad, CallAppend
    <3>3. QED
      BY <3>1, <3>2 DEF EditCallInv
  <2>2. CASE q # p
    BY <1>1, <1>3, <2>2, EditFrame DEF CallLoad, CallAppend, Goto, files
  <2>3. QED
    BY <2>1, <2>2
<1>4. ASSUME NEW p \in Proc, Leave(p)
      PROVE  EditCallInv(q)'
  <2>1. CASE q = p
    <3>1. pc'[q] = "idle" /\ call'[q].new = {}
      BY <1>1, <1>4, <2>1 DEF Leave
    <3>2. QED
      BY <3>1 DEF EditCallInv
  <2>2. CASE q # p
    BY <1>1, <1>4, <2>2, EditFrame DEF Leave, files
  <2>3. QED
    BY <2>1, <2>2
<1>5. ASSUME NEW p \in Proc, Step(p), ~Acquire(p), ~Return(p), ~Reject(p)
      PROVE  EditCallInv(q)'
  <2>1. pc[p] \in Holding /\ call' = call
    BY <1>5 DEF Step, NoTransaction, RecoverLogged, RecoverLog, RecoverAttestation, FinishRecovery,
                LoadReturns, WriteTransaction, WriteLog, WriteAttestation, Commit, Goto,
                Holding, locals
  <2>2. q # p => pc'[q] = pc[q]
    BY <1>1, <1>5 DEF Step, NoTransaction, RecoverLogged, RecoverLog, RecoverAttestation,
                FinishRecovery, LoadReturns, WriteTransaction, WriteLog, WriteAttestation,
                Commit, Goto
  <2>3. CASE q # p
    BY <2>1, <2>2, <2>3, EditOthers
  <2>4. CASE q = p
    <3> DEFINE k == call[p].key
    <3>1. k \in Key /\ EditCallInv(p)
      BY <1>1
    <3>2. ASSUME pc'[p] \in {"recover", "verify", "replayed", "closing"}
          PROVE  EditCallInv(p)'
      BY <2>1, <3>1, <3>2 DEF EditCallInv
    <3>3. CASE NoTransaction(p) \/ RecoverLogged(p) \/ RecoverLog(p)
      BY <1>1, <2>4, <3>2, <3>3 DEF NoTransaction, RecoverLogged, RecoverLog, Goto
    <3>4. CASE RecoverAttestation(p) \/ FinishRecovery(p)
      BY <1>1, <2>4, <3>2, <3>4 DEF RecoverAttestation, FinishRecovery, Goto
    <3>5. CASE LoadReturns(p)
      <4>1. /\ pc'[p] = "done" /\ call[p].new = {} /\ existing'[p] = log
            /\ attested' = attested
        BY <1>1, <3>5 DEF LoadReturns, Goto, files
      <4>2. Verified(attested[k], log, {})
        BY <3>5 DEF LoadReturns, Trusted
      <4>3. QED
        BY <2>1, <2>4, <4>1, <4>2 DEF EditCallInv
    <3>6. CASE WriteTransaction(p)
      <4>1. PICK x \in call[p].new :
              /\ attestation' = [attestation EXCEPT ![p] = {AttestationOf(x, log, clock)}]
              /\ transaction' = [transaction EXCEPT ![k] = {AttestationOf(x, log, clock)}]
        BY <3>6 DEF WriteTransaction
      <4>2. PICK t : t = AttestationOf(x, log, clock)
        OBVIOUS
      <4>3. t.prediction = x /\ call[p].new = {x}
        BY <3>1, <4>1, <4>2 DEF AttestationOf, EditCallInv
      <4>4. pc'[p] = "wal" /\ attestation'[p] = {t} /\ transaction'[k] = {t}
        BY <1>1, <3>1, <3>6, <4>1, <4>2 DEF WriteTransaction, Goto
      <4>5. \A y, z \in call[p].new : y.key = k /\ y = z
        BY <3>1 DEF EditCallInv
      <4>6. QED
        BY <2>1, <2>4, <4>3, <4>4, <4>5 DEF EditCallInv
    <3>7. CASE WriteLog(p) \/ WriteAttestation(p)
      <4>1. /\ pc[p] \in {"wal", "logged"} /\ pc'[p] \in {"logged", "attesting"}
            /\ transaction' = transaction /\ attestation' = attestation
        BY <1>1, <3>7 DEF WriteLog, WriteAttestation, Goto, locals
      <4>2. QED
        BY <2>1, <2>4, <3>1, <4>1 DEF EditCallInv
    <3>8. CASE Commit(p)
      <4>1. /\ pc[p] = "attesting" /\ pc'[p] = "done" /\ attested' = attested
            /\ \A s \in Appended(p) : Verified(attested[k], s, {})
        BY <1>1, <3>8 DEF Commit, Goto
      <4>2. PICK t \in transaction[k] : attestation[p] = {t} /\ call[p].new = {t.prediction}
        BY <3>1, <4>1 DEF EditCallInv
      <4>3. t.prediction \in Prediction /\ existing[p] \in Seq(Prediction)
        BY <1>1, <3>1, <4>2 DEF Attestation
      <4>4. Verified(attested[k], Append(existing[p], t.prediction), {})
        BY <4>1, <4>2 DEF Appended
      <4>5. ToSet(Append(existing[p], t.prediction)) = ToSet(existing[p]) \cup {t.prediction}
        BY <4>3, AppendFacts
      <4>6. call[p].new \subseteq PredictionsOf(attested[k]) /\ call[p].new # {}
        BY <4>2, <4>4, <4>5 DEF Verified
      <4>7. \A y, z \in call[p].new : y.key = k /\ y = z
        BY <3>1 DEF EditCallInv
      <4>8. QED
        BY <2>1, <2>4, <4>1, <4>6, <4>7 DEF EditCallInv
    <3>9. QED
      BY <1>5, <2>4, <3>3, <3>4, <3>5, <3>6, <3>7, <3>8 DEF Step
  <2>5. QED
    BY <2>3, <2>4
<1>6. ASSUME NEW p \in Proc, Acquire(p)
      PROVE  EditCallInv(q)'
  <2>1. CASE q = p
    <3>1. pc'[q] = "recover" /\ call' = call
      BY <1>1, <1>6, <2>1 DEF Acquire, Goto, locals
    <3>2. QED
      BY <1>1, <3>1 DEF EditCallInv
  <2>2. CASE q # p
    BY <1>1, <1>6, <2>2, EditFrame DEF Acquire, Goto, files, locals
  <2>3. QED
    BY <2>1, <2>2
<1>7. QED
  BY <1>2, <1>3, <1>4, <1>5, <1>6 DEF Next, Step, Return, Reject, Crash

(***************************************************************************)
(* What was acknowledged, and what loads reported.                         *)
(***************************************************************************)

\* A call acknowledges a prediction that is attested.
LEMMA EditAckedStep ==
  ASSUME EditIInv, Next
  PROVE  AckedInv'
<1> USE DEF EditTypeOK
<1>1. EditTypeOK /\ AckedInv /\ \A p \in Proc : EditCallInv(p)
  BY DEF EditIInv
<1>2. \A k \in Key : PredictionsOf(attested[k]) \subseteq PredictionsOf(attested'[k])
  BY AttestedStep DEF PredictionsOf
<1>3. \A x \in acked : x.key \in Key
  BY <1>1 DEF Prediction
<1>4. CASE acked' = acked
  BY <1>1, <1>2, <1>3, <1>4 DEF AckedInv
<1>5. ASSUME NEW p \in Proc, Return(p)
      PROVE  AckedInv'
  <2>1. /\ acked' = acked \cup call[p].new /\ attested' = attested
        /\ pc[p] = "done"
    BY <1>5 DEF Return, Leave, files
  <2>2. \A x \in call[p].new : x.key = call[p].key /\ x \in PredictionsOf(attested[call[p].key])
    BY <1>1, <2>1 DEF EditCallInv
  <2>3. QED
    BY <1>1, <2>1, <2>2 DEF AckedInv
<1>6. ASSUME NEW p \in Proc, Step(p), ~Return(p)
      PROVE  acked' = acked
  BY <1>6 DEF Step, Acquire, NoTransaction, RecoverLogged, RecoverLog, RecoverAttestation,
              FinishRecovery, LoadReturns, WriteTransaction, WriteLog, WriteAttestation, Commit,
              Reject
<1>7. CASE ~ \E p \in Proc : Step(p)
  BY <1>4, <1>7 DEF Next, CallLoad, CallAppend, Crash, SetClock
<1>8. QED
  BY <1>4, <1>5, <1>6, <1>7

\* What a load returned is what a verified log holds.
LEMMA DoneLoadVerified ==
  ASSUME EditIInv, NEW p \in Proc, pc[p] = "done", call[p].new = {}
  PROVE  Verified(attested[call[p].key], existing[p], {})
  BY DEF EditIInv, EditCallInv

\* What is reported next is what was, or what a load in hand returned.
LEMMA ReportedChoice ==
  ASSUME EditNext, NEW k \in Key, EditTypeOK
  PROVE  /\ reported' \in [Key -> Seq(Prediction)]
         /\ \/ reported'[k] = reported[k]
            \/ \E p \in Proc : /\ pc[p] = "done" /\ call[p].key = k /\ call[p].new = {}
                              /\ reported'[k] = existing[p]
<1> DEFINE readers(j) == {p \in Proc : pc[p] = "done" /\ call[p] = [key |-> j, new |-> {}]}
<1>1. CASE EditLog
  BY <1>1 DEF EditLog, EditTypeOK
<1>2. CASE reported' = [j \in Key |->
             IF readers(j) = {} THEN reported[j] ELSE existing[CHOOSE p \in readers(j) : TRUE]]
  <2>1. ASSUME NEW j \in Key
        PROVE  \/ reported'[j] = reported[j]
               \/ \E p \in readers(j) : reported'[j] = existing[p]
    <3>1. CASE readers(j) = {}
      BY <1>2, <3>1
    <3>2. CASE readers(j) # {}
      <4>1. (CHOOSE p \in readers(j) : TRUE) \in readers(j)
        BY <3>2
      <4>2. reported'[j] = existing[CHOOSE p \in readers(j) : TRUE]
        BY <1>2, <3>2
      <4>3. QED
        BY <4>1, <4>2
    <3>3. QED
      BY <3>1, <3>2
  <2>2. \A j \in Key : reported'[j] \in Seq(Prediction)
    BY <2>1 DEF EditTypeOK
  <2>3. reported' \in [Key -> Seq(Prediction)]
    <3>1. reported' = [j \in Key |-> reported'[j]]
      BY <1>2
    <3>2. QED
      BY <2>2, <3>1
  <2>4. CASE reported'[k] = reported[k]
    BY <2>3, <2>4
  <2>5. ASSUME NEW p \in readers(k), reported'[k] = existing[p]
        PROVE  \E q \in Proc : /\ pc[q] = "done" /\ call[q].key = k /\ call[q].new = {}
                             /\ reported'[k] = existing[q]
    BY <2>5
  <2>6. QED
    BY <2>1, <2>3, <2>4, <2>5
<1>3. QED
  BY <1>1, <1>2 DEF EditNext

\* A load that returned continues what the load before it under the key reported.
LEMMA ReportedGrows ==
  ASSUME EditIInv, EditNext, NEW k \in Key
  PROVE  /\ IsPrefix(reported[k], reported'[k])
         /\ \A i \in 1..Len(reported'[k]) : Linked(attested[k], reported'[k], i)
<1>1. EditTypeOK
  BY DEF EditIInv
<1>2. /\ attested[k] \in SUBSET Attestation
      /\ \A a, b \in attested[k] : a.prediction = b.prediction => a = b
      /\ reported[k] \in Seq(Prediction)
      /\ \A i \in 1..Len(reported[k]) : Linked(attested[k], reported[k], i)
  BY DEF EditIInv, OneFileEach, ReportedInv, EditTypeOK
<1>3. CASE reported'[k] = reported[k]
  BY <1>2, <1>3, LenProperties DEF IsPrefix
<1>4. ASSUME NEW p \in Proc, pc[p] = "done", call[p].key = k, call[p].new = {},
             reported'[k] = existing[p]
      PROVE  /\ IsPrefix(reported[k], reported'[k])
             /\ \A i \in 1..Len(reported'[k]) : Linked(attested[k], reported'[k], i)
  <2>1. Verified(attested[k], existing[p], {})
    BY <1>4, DoneLoadVerified
  <2>2. existing[p] \in Seq(Prediction)
    BY <1>1 DEF EditTypeOK
  <2>3. IsPrefix(reported[k], existing[p])
    BY <1>2, <2>1, <2>2, LinkedIsPrefix
  <2>4. QED
    BY <1>4, <2>1, <2>3 DEF Verified
<1>5. QED
  BY <1>1, <1>3, <1>4, ReportedChoice

(***************************************************************************)
(* The theorems.                                                           *)
(***************************************************************************)

LEMMA EditInitInv == EditInit => EditIInv
<1> SUFFICES ASSUME EditInit
             PROVE  EditIInv
  OBVIOUS
<1>1. EditTypeOK
  BY EmptySeq DEF EditInit, Init, EditTypeOK
<1>2. LockInv /\ OneFileEach /\ AckedInv
  BY DEF EditInit, Init, LockInv, OneFileEach, AckedInv, Holding
<1>3. ASSUME NEW k \in Key
      PROVE  KeyRestorable(k)
  <2>1. attested[k] = {} /\ transaction[k] = {}
    BY DEF EditInit, Init
  <2>2. ToSet(<< >>) = {} /\ Len(<< >>) = 0
    BY EmptySeq DEF ToSet
  <2>3. Loadable(<< >>) /\ Verified({}, << >>, {})
    BY <2>2, LedgerAssumption DEF Loadable, Verified, PredictionsOf
  <2>4. QED
    BY <2>1, <2>3 DEF KeyRestorable, AttestedLogs
<1>4. \A p \in Proc : EditCallInv(p)
  BY DEF EditInit, Init, EditCallInv
<1>5. ReportedInv
  BY EmptySeq DEF EditInit, ReportedInv
<1>6. \A k \in Key : \A t, u \in transaction[k] : t = u
  BY DEF EditInit, Init
<1>7. QED
  BY <1>1, <1>2, <1>3, <1>4, <1>5, <1>6 DEF EditIInv, Restorable

LEMMA EditNextInv == EditIInv /\ [EditNext]_editVars => EditIInv'
<1> SUFFICES ASSUME EditIInv, [EditNext]_editVars
             PROVE  EditIInv'
  OBVIOUS
<1>1. EditTypeOK
  BY DEF EditIInv
<1>2. CASE Next /\ EditNext
  <2>1. reported' \in [Key -> Seq(Prediction)] \/ Key = {}
    BY <1>1, <1>2, ReportedChoice
  <2>2. reported' \in [Key -> Seq(Prediction)]
    BY <1>1, <1>2, <2>1 DEF EditNext, EditLog, EditTypeOK
  <2>3. EditTypeOK'
    BY <1>1, <1>2, <2>2, EditTypeNext
  <2>4. LockInv'
    BY <1>2, LockStep DEF EditIInv, EditTypeOK
  <2>5. ASSUME NEW k \in Key, NEW i \in 1..Len(reported'[k])
        PROVE  Linked(attested'[k], reported'[k], i)
    <3>1. Linked(attested[k], reported'[k], i)
      BY <1>2, <2>5, ReportedGrows
    <3>2. attested[k] \subseteq attested'[k]
      BY <1>2, AttestedStep
    <3>3. QED
      BY <3>1, <3>2, LinkedGrows
  <2>6. QED
    BY <1>2, <2>3, <2>4, <2>5, AttestedStep, TransactionStep, ChainStep, EditCallStep, EditAckedStep
       DEF EditIInv, ReportedInv
<1>3. CASE EditLog
  <2>1. log' \in Seq(Prediction \cup Forged)
    BY <1>1, <1>3, RewritingType DEF EditLog, EditTypeOK
  <2>2. EditTypeOK'
    BY <1>1, <1>3, <2>1 DEF EditLog, EditTypeOK, locals
  <2>3. UNCHANGED <<lock, attested, transaction, pc, call, existing, attestation, acked, reported>>
    BY <1>3 DEF EditLog, locals
  <2>4. LockInv' /\ OneFileEach' /\ AckedInv' /\ ReportedInv'
    BY <2>3 DEF EditIInv, LockInv, OneFileEach, AckedInv, ReportedInv
  <2>5. Restorable' /\ \A k \in Key : \A t, u \in transaction'[k] : t = u
    BY <2>3 DEF EditIInv, Restorable, KeyRestorable
  <2>6. \A p \in Proc : EditCallInv(p)'
    BY <2>3 DEF EditIInv, EditCallInv
  <2>7. QED
    BY <2>2, <2>4, <2>5, <2>6 DEF EditIInv
<1>4. CASE UNCHANGED editVars
  <2>1. /\ UNCHANGED <<clock, lock, log, attested, transaction, pc, acked, reported>>
        /\ UNCHANGED <<call, existing, attestation>>
    BY <1>4 DEF editVars, vars, files, locals
  <2>2. EditTypeOK'
    BY <1>1, <2>1 DEF EditTypeOK
  <2>3. LockInv' /\ OneFileEach' /\ AckedInv' /\ ReportedInv'
    BY <2>1 DEF EditIInv, LockInv, OneFileEach, AckedInv, ReportedInv
  <2>4. Restorable'
    BY <2>1 DEF EditIInv, Restorable, KeyRestorable
  <2>5. \A p \in Proc : EditCallInv(p)'
    BY <2>1 DEF EditIInv, EditCallInv
  <2>6. QED
    BY <2>1, <2>2, <2>3, <2>4, <2>5 DEF EditIInv
<1>5. QED
  BY <1>2, <1>3, <1>4 DEF EditNext

LEMMA EditInvariant == EditSpec => []EditIInv
  BY EditInitInv, EditNextInv, PTL DEF EditSpec

\* Whatever is done to predictions.jsonl, a load that succeeds returns every
\* prediction acknowledged under its protocol and none that was not predicted.
THEOREM LoadsComplete == EditSpec => []LoadsAreComplete
<1>1. ASSUME EditIInv
      PROVE  LoadsAreComplete
  <2> SUFFICES ASSUME NEW p \in Proc, pc[p] = "done", call[p].new = {}
               PROVE  /\ \A x \in acked : x.key = call[p].key => x \in ToSet(existing[p])
                      /\ ToSet(existing[p]) \cap Forged = {}
    BY DEF LoadsAreComplete
  <2>1. Verified(attested[call[p].key], existing[p], {})
    BY <1>1, DoneLoadVerified
  <2>2. \A x \in acked : x.key = call[p].key => x \in ToSet(existing[p])
    BY <1>1, <2>1 DEF EditIInv, AckedInv, Verified
  <2>3. existing[p] \in Seq(Prediction)
    BY <1>1 DEF EditIInv, EditTypeOK
  <2>4. ToSet(existing[p]) \subseteq Prediction
    BY <2>3, LenProperties, ElementOfSeq DEF ToSet
  <2>5. QED
    BY <2>2, <2>4, ForgedAssumption
<1>2. QED
  BY <1>1, EditInvariant, PTL

\* An edit can stop the ledger, not rewind or reorder it: what loads return under
\* a protocol only grows at its end.
THEOREM LoadsMonotonic == EditSpec => LoadsNeverRewind
<1>1. EditIInv /\ [EditNext]_editVars => [\A k \in Key : IsPrefix(reported[k], reported'[k])]_reported
  BY ReportedGrows DEF editVars
<1>2. QED
  BY <1>1, EditInvariant, PTL DEF EditSpec, LoadsNeverRewind

\* Edits, crashes and recoveries together never break a key's chain of attestations:
\* it names a log it verifies, which a transaction left behind extends or ends.
THEOREM ChainsRestorable == EditSpec => []Restorable
<1>1. EditIInv => Restorable
  BY DEF EditIInv
<1>2. QED
  BY <1>1, EditInvariant, PTL

\* With Restorable: a log that was changed can be put back, and a log that verifies
\* is opened by its next user, who finishes whatever a crash left half done.
THEOREM RestoredOpens == EditSpec => []VerifiedOpens
<1>1. ASSUME EditIInv, NEW k \in Key, Trusted(k)
      PROVE  Openable(k)
  <2>1. /\ attested[k] \in SUBSET Attestation /\ transaction[k] \in SUBSET Attestation
        /\ \A a, b \in attested[k] : a.prediction = b.prediction => a = b
        /\ log \in Seq(Prediction)
    BY <1>1, TrustedType DEF EditIInv, EditTypeOK, OneFileEach
  <2>2. Loadable(log) /\ Verified(attested[k], log, {})
    BY <1>1 DEF Trusted
  <2>3. PICK s \in AttestedLogs(attested[k]) :
          /\ Verified(attested[k], s, {})
          /\ \A t \in transaction[k] :
               /\ t.sequence = Len(t.previous) + 1
               /\ Timely(t.prediction.predictedAt, t.recordedAt)
               /\ \/ s = t.previous /\ t.prediction \notin ToSet(s) /\ Len(s) < MaxRecords
                  \/ s = Append(t.previous, t.prediction) /\ t \in attested[k]
    BY <1>1 DEF EditIInv, Restorable, KeyRestorable
  <2>4. s \in Seq(Prediction)
    <3>1. \A a \in attested[k] : a.previous \in Seq(Prediction) /\ a.prediction \in Prediction
      BY <2>1 DEF Attestation
    <3>2. \A a \in attested[k] : Append(a.previous, a.prediction) \in Seq(Prediction)
      BY <3>1, AppendProperties
    <3>3. << >> \in Seq(Prediction)
      BY EmptySeq
    <3>4. QED
      BY <3>2, <3>3 DEF AttestedLogs
  <2>5. s = log
    <3>1. IsPrefix(s, log) /\ IsPrefix(log, s)
      BY <2>1, <2>2, <2>3, <2>4, LinkedIsPrefix DEF Verified
    <3>2. Len(s) = Len(log)
      BY <2>1, <2>4, <3>1, LenProperties DEF IsPrefix
    <3>3. QED
      BY <2>1, <2>4, <3>1, <3>2, SubSeqFull DEF IsPrefix
  <2>6. ASSUME NEW t \in transaction[k]
        PROVE  (AlreadyLogged(k, t) \/ NotYetLogged(k, t)) /\ ~Conflicting(k, t)
    <3>1. t.prediction \in Prediction /\ t.previous \in Seq(Prediction)
      BY <2>1 DEF Attestation
    <3>2. CASE s = t.previous /\ t.prediction \notin ToSet(s) /\ Len(s) < MaxRecords
      <4>1. NotYetLogged(k, t)
        BY <2>2, <2>3, <2>5, <3>2, VerifiedPending DEF NotYetLogged
      <4>2. \A b \in attested[k] : b.prediction \in ToSet(log)
        BY <2>2 DEF Verified, PredictionsOf
      <4>3. QED
        BY <2>5, <3>2, <4>1, <4>2 DEF Conflicting
    <3>3. CASE s = Append(t.previous, t.prediction) /\ t \in attested[k]
      <4>1. /\ Front(log) = t.previous /\ Last(log) = t.prediction /\ log # << >>
            /\ Len(log) = t.sequence
        BY <2>3, <2>5, <3>1, <3>3, AppendFacts, AppendPrefix
      <4>2. Verified(attested[k], t.previous, {t.prediction})
        BY <2>1, <2>2, <2>5, <3>1, <3>3, VerifiedPrefix
      <4>3. AlreadyLogged(k, t)
        BY <2>2, <2>3, <4>1, <4>2 DEF AlreadyLogged
      <4>4. ~Conflicting(k, t)
        BY <2>1, <3>3 DEF Conflicting
      <4>5. QED
        BY <4>3, <4>4
    <3>4. QED
      BY <2>3, <3>2, <3>3
  <2>7. QED
    BY <1>1, <2>6 DEF Openable
<1>2. EditIInv => VerifiedOpens
  BY <1>1 DEF VerifiedOpens
<1>3. QED
  BY <1>2, EditInvariant, PTL

=============================================================================
