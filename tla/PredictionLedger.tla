--------------------------- MODULE PredictionLedger ---------------------------
(***************************************************************************)
(* The prospective prediction ledger of src/src/ruleloom/storage.py.       *)
(*                                                                         *)
(* One log file, .ruleloom/predictions.jsonl, lies in the work tree; the   *)
(* evidence that each of its lines was recorded when it says it was lies   *)
(* in the git directory: one attestation file per prediction, chained by   *)
(* hash, under a directory named for the ledger key (the hash of the       *)
(* evidence protocol and the log's path).  An append makes three writes,   *)
(* so it first writes transaction.json, from which whoever next takes the  *)
(* lock finishes it.  Every file write is one atomic rename and one step   *)
(* here; a process may die, or a write may raise, between any two.         *)
(*                                                                         *)
(* Simplifications.  A prediction's id is the hash of its content, so a    *)
(* prediction is the record of what the ledger reads of it: the unit it is *)
(* about, the ledger key and predicted_at.  The hash chain's head after a  *)
(* prefix of the log is that prefix (no collisions).  A set with at most   *)
(* one element is a file that may not exist.  Files are not edited by      *)
(* hand, and a rename is not lost to a power cut.                          *)
(***************************************************************************)
EXTENDS Naturals, Sequences, SequencesExt, FiniteSets

CONSTANTS
  Proc,        \* processes that call the ledger
  Unit,        \* units of work a prediction is about
  Key,         \* ledger keys: one for each evidence protocol in use
  Time,        \* readings of the wall clock
  MaxLag,      \* _MAX_PREDICTION_RECORDING_LAG_SECONDS
  MaxRecords   \* _MAX_PREDICTION_RECORDS

ASSUME LedgerAssumption ==
  /\ Time \subseteq Nat
  /\ MaxLag \in Nat
  /\ MaxRecords \in Nat

VARIABLES
  clock,        \* the wall clock; it may be set back
  lock,         \* holder of flock on the log: {} or {p}
  log,          \* predictions.jsonl
  attested,     \* attested[k]: the files of prediction-ledgers/k/records
  transaction,  \* transaction[k]: prediction-ledgers/k/transaction.json
  pc,           \* where each process is in its call
  call,         \* call[p]: the ledger key it uses, and what it appends ({}: a load)
  existing,     \* existing[p]: the log as p last loaded it
  attestation,  \* attestation[p]: the attestation p computed for its append
  acked         \* history: predictions whose append returned

files == <<log, attested, transaction>>
locals == <<call, existing, attestation>>
vars == <<clock, lock, files, pc, locals, acked>>

Prediction == [unit : Unit, key : Key, predictedAt : Time]

\* What _prediction_attestation_value binds to a prediction.
Attestation ==
  [prediction : Prediction, sequence : Nat, previous : Seq(Prediction), recordedAt : Time]

\* Between the call and its return: "lock" waits for the lock, the others hold it.
Holding ==
  {"recover", "replayed", "closing", "verify", "wal", "logged", "attesting", "done"}

TypeOK ==
  /\ clock \in Time
  /\ lock \in SUBSET Proc
  /\ log \in Seq(Prediction)
  /\ attested \in [Key -> SUBSET Attestation]
  /\ transaction \in [Key -> SUBSET Attestation]
  /\ pc \in [Proc -> {"idle", "lock"} \cup Holding]
  /\ call \in [Proc -> [key : Key, new : SUBSET Prediction]]
  /\ existing \in [Proc -> Seq(Prediction)]
  /\ attestation \in [Proc -> SUBSET Attestation]
  /\ acked \in SUBSET Prediction

-----------------------------------------------------------------------------
(* Checks the code makes on the files. *)

\* 0 <= recorded_at - predicted_at <= _MAX_PREDICTION_RECORDING_LAG_SECONDS
Timely(predictedAt, recordedAt) ==
  predictedAt <= recordedAt /\ recordedAt <= predictedAt + MaxLag

\* The attestation files of a ledger, "records", and the predictions they attest.
PredictionsOf(records) == {a.prediction : a \in records}

\* load_predictions accepts the log: under the cap and no id twice.
Loadable(s) ==
  /\ Len(s) <= MaxRecords
  /\ \A i, j \in 1..Len(s) : s[i] = s[j] => i = j

\* Fault: the attestation is looked up by prediction alone, not by its place in the chain.
UnchainedLinked(records, s, i) == \E a \in records : a.prediction = s[i]

\* _verify_prediction_attestation: the i-th record's file is the link it should be.
Linked(records, s, i) ==
  \E a \in records :
    /\ a.prediction = s[i]
    /\ a.sequence = i
    /\ a.previous = SubSeq(s, 1, i - 1)
    /\ Timely(a.prediction.predictedAt, a.recordedAt)

\* Fault: attested records missing from the log go unnoticed.
GapBlindVerified(records, s, pending) ==
  /\ ToSet(s) \subseteq PredictionsOf(records)
  /\ \A i \in 1..Len(s) : Linked(records, s, i)

\* _verify_prediction_prefix; "pending" is the id that may be attested and not in s.
Verified(records, s, pending) ==
  /\ ToSet(s) \subseteq PredictionsOf(records)
  /\ PredictionsOf(records) \subseteq ToSet(s) \cup pending
  /\ \A i \in 1..Len(s) : Linked(records, s, i)

\* The value append_prediction attests for x after the prefix s.
AttestationOf(x, s, at) ==
  [prediction |-> x, sequence |-> Len(s) + 1, previous |-> s, recordedAt |-> at]

-----------------------------------------------------------------------------
(* Control. *)

Goto(p, from, to) ==
  /\ pc[p] = from
  /\ pc' = [pc EXCEPT ![p] = to]

Init ==
  /\ clock \in Time
  /\ lock = {}
  /\ log = << >>
  /\ attested = [k \in Key |-> {}]
  /\ transaction = [k \in Key |-> {}]
  /\ pc = [p \in Proc |-> "idle"]
  /\ call \in [Proc -> {[key |-> k, new |-> {}] : k \in Key}]
  /\ existing = [p \in Proc |-> << >>]
  /\ attestation = [p \in Proc |-> {}]
  /\ acked = {}

\* make_prediction stamps predicted_at before append_prediction asks for the lock.
CallAppend(p, u, k) ==
  /\ Goto(p, "idle", "lock")
  /\ call' = [call EXCEPT ![p] =
       [key |-> k, new |-> {[unit |-> u, key |-> k, predictedAt |-> clock]}]]
  /\ UNCHANGED <<clock, lock, files, existing, attestation, acked>>

\* load_trusted_predictions under the configuration whose ledger key is k.
CallLoad(p, k) ==
  /\ Goto(p, "idle", "lock")
  /\ call' = [call EXCEPT ![p] = [key |-> k, new |-> {}]]
  /\ UNCHANGED <<clock, lock, files, existing, attestation, acked>>

\* Fault: the log is entered without waiting for its lock.
UnlockedAcquire(p) ==
  /\ Goto(p, "lock", "recover")
  /\ lock' = {p}
  /\ UNCHANGED <<clock, files, locals, acked>>

\* flock succeeds.
Acquire(p) ==
  /\ Goto(p, "lock", "recover")
  /\ lock = {}
  /\ lock' = {p}
  /\ UNCHANGED <<clock, files, locals, acked>>

-----------------------------------------------------------------------------
(* _recover_prediction_transaction *)

NoTransaction(p) ==
  /\ transaction[call[p].key] = {}
  /\ Goto(p, "recover", "verify")
  /\ UNCHANGED <<clock, lock, files, locals, acked>>

\* The log already ends with the transaction's prediction.
AlreadyLogged(k, t) ==
  /\ Loadable(log)
  /\ Timely(t.prediction.predictedAt, t.recordedAt)
  /\ Len(log) = t.sequence
  /\ log # << >> /\ Last(log) = t.prediction
  /\ Front(log) = t.previous
  /\ Verified(attested[k], Front(log), {t.prediction})

\* The log is the prefix the transaction was to extend.
NotYetLogged(k, t) ==
  /\ Loadable(log)
  /\ Timely(t.prediction.predictedAt, t.recordedAt)
  /\ Len(log) + 1 = t.sequence
  /\ t.prediction \notin ToSet(log)
  /\ log = t.previous
  /\ Verified(attested[k], log, {t.prediction})
  /\ Len(log) < MaxRecords

RecoverLogged(p) ==
  /\ \E t \in transaction[call[p].key] : AlreadyLogged(call[p].key, t)
  /\ Goto(p, "recover", "replayed")
  /\ UNCHANGED <<clock, lock, files, locals, acked>>

\* Redo the log write.
RecoverLog(p) ==
  /\ Goto(p, "recover", "replayed")
  /\ \E t \in transaction[call[p].key] :
       /\ NotYetLogged(call[p].key, t)
       /\ log' = Append(log, t.prediction)
  /\ UNCHANGED <<clock, lock, attested, transaction, locals, acked>>

\* record_prediction_attestation: an existing file must be this very attestation.
Attest(k, a) ==
  /\ \A b \in attested[k] : b.prediction = a.prediction => b = a
  /\ attested' = [attested EXCEPT ![k] = @ \cup {a}]

Conflicting(k, a) == \E b \in attested[k] : b.prediction = a.prediction /\ b # a

\* Fault: recovery stamps the attestation with the present time.
RestampedRecoverAttestation(p) ==
  /\ Goto(p, "replayed", "closing")
  /\ \E t \in transaction[call[p].key] :
       Attest(call[p].key, [t EXCEPT !.recordedAt = clock])
  /\ UNCHANGED <<clock, lock, log, transaction, locals, acked>>

\* Redo the attestation, with the transaction's recorded_at.
RecoverAttestation(p) ==
  /\ Goto(p, "replayed", "closing")
  /\ \E t \in transaction[call[p].key] : Attest(call[p].key, t)
  /\ UNCHANGED <<clock, lock, log, transaction, locals, acked>>

Trusted(k) == Loadable(log) /\ Verified(attested[k], log, {})

\* Reload, verify the whole log, and only then unlink the transaction.
FinishRecovery(p) ==
  /\ Goto(p, "closing", "verify")
  /\ Trusted(call[p].key)
  /\ transaction' = [transaction EXCEPT ![call[p].key] = {}]
  /\ UNCHANGED <<clock, lock, log, attested, locals, acked>>

-----------------------------------------------------------------------------
(* load_trusted_predictions and append_prediction, after recovery *)

LoadReturns(p) ==
  /\ call[p].new = {}
  /\ Trusted(call[p].key)
  /\ Goto(p, "verify", "done")
  /\ existing' = [existing EXCEPT ![p] = log]
  /\ UNCHANGED <<clock, lock, files, call, attestation, acked>>

\* Fault: the new record is not looked for in the log.
DuplicatingAppendable(k, x) ==
  /\ Trusted(k)
  /\ Len(log) < MaxRecords
  /\ Timely(x.predictedAt, clock)

Appendable(k, x) ==
  /\ Trusted(k)
  /\ x \notin ToSet(log)
  /\ Len(log) < MaxRecords
  /\ Timely(x.predictedAt, clock)

\* The attestation is fixed, with recorded_at now, and transaction.json written.
WriteTransaction(p) ==
  /\ Goto(p, "verify", "wal")
  /\ \E x \in call[p].new :
       /\ Appendable(call[p].key, x)
       /\ attestation' = [attestation EXCEPT ![p] = {AttestationOf(x, log, clock)}]
       /\ transaction' = [transaction EXCEPT ![call[p].key] = {AttestationOf(x, log, clock)}]
  /\ existing' = [existing EXCEPT ![p] = log]
  /\ UNCHANGED <<clock, lock, log, attested, call, acked>>

\* The new content was computed from what this call loaded.
WriteLog(p) ==
  /\ Goto(p, "wal", "logged")
  /\ \E a \in attestation[p] : log' = Append(existing[p], a.prediction)
  /\ UNCHANGED <<clock, lock, attested, transaction, locals, acked>>

WriteAttestation(p) ==
  /\ Goto(p, "logged", "attesting")
  /\ \E a \in attestation[p] : Attest(call[p].key, a)
  /\ UNCHANGED <<clock, lock, log, transaction, locals, acked>>

\* _verify_prediction_prefix([*existing, prediction]), then unlink.
Appended(p) == {Append(existing[p], a.prediction) : a \in attestation[p]}

Commit(p) ==
  /\ Goto(p, "attesting", "done")
  /\ \A s \in Appended(p) : Verified(attested[call[p].key], s, {})
  /\ transaction' = [transaction EXCEPT ![call[p].key] = {}]
  /\ UNCHANGED <<clock, lock, log, attested, locals, acked>>

\* The call ends one way or the other: flock is released, its variables are gone.
Leave(p) ==
  /\ pc' = [pc EXCEPT ![p] = "idle"]
  /\ lock' = lock \ {p}
  /\ call' = [call EXCEPT ![p] = [key |-> call[p].key, new |-> {}]]
  /\ existing' = [existing EXCEPT ![p] = << >>]
  /\ attestation' = [attestation EXCEPT ![p] = {}]
  /\ UNCHANGED <<clock, files>>

Return(p) ==
  /\ pc[p] = "done"
  /\ acked' = acked \cup call[p].new
  /\ Leave(p)

\* Fault: a caller waits for the lock without a deadline, unlike _file_lock.
PatientRefuses(p) ==
  LET k == call[p].key
  IN \/ /\ pc[p] = "recover"
        /\ \E t \in transaction[k] : ~AlreadyLogged(k, t) /\ ~NotYetLogged(k, t)
     \/ pc[p] \in {"closing", "verify"} /\ ~Trusted(k)
     \/ pc[p] = "verify" /\ \E x \in call[p].new : ~Appendable(k, x)

\* The checks that end a call with a ModelError, touching no file.
Refuses(p) ==
  LET k == call[p].key
  IN \/ pc[p] = "lock" /\ lock # {}   \* ten seconds went by and the lock is held
     \/ /\ pc[p] = "recover"
        /\ \E t \in transaction[k] : ~AlreadyLogged(k, t) /\ ~NotYetLogged(k, t)
     \/ pc[p] = "replayed" /\ \E t \in transaction[k] : Conflicting(k, t)
     \/ pc[p] \in {"closing", "verify"} /\ ~Trusted(k)
     \/ pc[p] = "verify" /\ \E x \in call[p].new : ~Appendable(k, x)
     \/ pc[p] = "logged" /\ \E a \in attestation[p] : Conflicting(k, a)
     \/ pc[p] = "attesting" /\ \E s \in Appended(p) : ~Verified(attested[k], s, {})

Reject(p) ==
  /\ Refuses(p)
  /\ Leave(p)
  /\ UNCHANGED acked

-----------------------------------------------------------------------------
\* The process dies, or a write raises.
Crash(p) ==
  /\ pc[p] # "idle"
  /\ Leave(p)
  /\ UNCHANGED acked

\* Time passes, or the clock is set.
SetClock ==
  /\ clock' \in Time \ {clock}
  /\ UNCHANGED <<lock, files, pc, locals, acked>>

Step(p) ==
  \/ Acquire(p)
  \/ NoTransaction(p) \/ RecoverLogged(p) \/ RecoverLog(p)
  \/ RecoverAttestation(p) \/ FinishRecovery(p)
  \/ LoadReturns(p) \/ WriteTransaction(p) \/ WriteLog(p)
  \/ WriteAttestation(p) \/ Commit(p) \/ Return(p) \/ Reject(p)

Next ==
  \/ \E p \in Proc, k \in Key : CallLoad(p, k) \/ \E u \in Unit : CallAppend(p, u, k)
  \/ \E p \in Proc : Step(p) \/ Crash(p)
  \/ SetClock

Spec == Init /\ [][Next]_vars

\* A process that has called runs on: the code has no wait but the bounded one.
FairSpec == Spec /\ \A p \in Proc : WF_vars(Step(p))

-----------------------------------------------------------------------------
(* Properties. *)

\* The evidence protocol in force is the one whose records the log holds.
InForce(k) == \A i \in 1..Len(log) : log[i].key = k

\* A load under k would succeed, finishing an interrupted append first if there is one.
Openable(k) ==
  /\ transaction[k] = {} => Trusted(k)
  /\ \A t \in transaction[k] :
       /\ AlreadyLogged(k, t) \/ NotYetLogged(k, t)
       /\ ~Conflicting(k, t)

\* No crash, at any point of an append or of a recovery, leaves the ledger of the
\* protocol in force in a state its next user is refused (crash points of
\* append_prediction and _recover_prediction_transaction).
AlwaysOpenable == lock = {} => \A k \in Key : InForce(k) => Openable(k)

\* A prediction whose append returned stays in the log for good, attested at its
\* place in the chain: no later append, crash or recovery loses it.
AcknowledgedDurable ==
  \A x \in acked :
    /\ x \in ToSet(log)
    /\ \E i \in 1..Len(log) : log[i] = x /\ Linked(attested[x.key], log, i)

\* Two configurations sharing the log file never mix their records in it, though
\* each has a transaction file of its own that recovery would replay.
OneProtocolPerLog == \A i, j \in 1..Len(log) : log[i].key = log[j].key

\* The log only ever grows, by one record at its end.
LogAppendOnly == [][\E x \in Prediction : log' = Append(log, x)]_log

\* An attestation, with its original recorded_at, is never rewritten or removed.
AttestationsPermanent == [][\A k \in Key : attested[k] \subseteq attested'[k]]_attested

\* Every call ends: the lock is never held for good, whoever crashes.
CallsEnd == \A p \in Proc : pc[p] # "idle" ~> pc[p] = "idle"

-----------------------------------------------------------------------------
(***************************************************************************)
(* The inductive invariant: for each ledger key, how far the append that   *)
(* is in its transaction file has come.                                    *)
(***************************************************************************)

\* transaction.json is written, the log is not.
Prepared(k, t) ==
  /\ t.prediction.key = k
  /\ t.sequence = Len(log) + 1
  /\ t.previous = log
  /\ Timely(t.prediction.predictedAt, t.recordedAt)
  /\ t.prediction \notin ToSet(log)
  /\ Len(log) < MaxRecords
  /\ Verified(attested[k], log, {})

\* The log is written, the attestation is not.
Logged(k, t) ==
  /\ log = Append(t.previous, t.prediction)
  /\ t.sequence = Len(log)
  /\ Timely(t.prediction.predictedAt, t.recordedAt)
  /\ Verified(attested[k], t.previous, {})

\* Both are written; the transaction is about to be unlinked.
Attested(k, t) ==
  /\ log = Append(t.previous, t.prediction)
  /\ t.sequence = Len(log)
  /\ Timely(t.prediction.predictedAt, t.recordedAt)
  /\ t \in attested[k]
  /\ Verified(attested[k], log, {})

Settled(k) == transaction[k] = {} /\ Verified(attested[k], log, {})

\* The log belongs to another protocol: nothing was ever recorded under k, and a
\* transaction k's user left behind was for a first record.
Foreign(k) ==
  /\ ~InForce(k)
  /\ attested[k] = {}
  /\ \A t \in transaction[k] : t.prediction.key = k /\ t.sequence = 1

InFlight(k) ==
  \E t \in transaction[k] :
    transaction[k] = {t} /\ (Prepared(k, t) \/ Logged(k, t) \/ Attested(k, t))

KeyInv(k) == Foreign(k) \/ (InForce(k) /\ (Settled(k) \/ InFlight(k)))

\* A prediction's attestation file is named for its id.
OneFileEach ==
  \A k \in Key : \A a, b \in attested[k] : a.prediction = b.prediction => a = b

AckedInv == \A x \in acked : x \in PredictionsOf(attested[x.key])

LockInv ==
  /\ \A p, q \in lock : p = q
  /\ \A p \in Proc : p \in lock <=> pc[p] \in Holding

\* What a process inside its call knows of the files.
CallInv(p) ==
  LET k == call[p].key
  IN /\ \A x, y \in call[p].new : x.key = k /\ x = y
     /\ pc[p] = "verify" => transaction[k] = {}
     /\ pc[p] = "replayed" =>
          \E t \in transaction[k] : transaction[k] = {t} /\ (Logged(k, t) \/ Attested(k, t))
     /\ pc[p] = "closing" => \E t \in transaction[k] : transaction[k] = {t} /\ Attested(k, t)
     /\ pc[p] \in {"wal", "logged", "attesting"} =>
          \E t \in transaction[k] :
            /\ transaction[k] = {t} /\ attestation[p] = {t} /\ call[p].new = {t.prediction}
            /\ existing[p] = t.previous
            /\ pc[p] = "wal" => Prepared(k, t)
            /\ pc[p] = "logged" => Logged(k, t)
            /\ pc[p] = "attesting" => Attested(k, t)
     /\ pc[p] = "done" =>
          /\ call[p].new \subseteq PredictionsOf(attested[k])
          /\ call[p].new = {} => existing[p] = log

\* The state of every ledger is one a call left it in between two of its writes
\* (append_prediction and recovery, with any number of crashes).
IInv ==
  /\ TypeOK
  /\ LockInv
  /\ Loadable(log)
  /\ OneProtocolPerLog
  /\ OneFileEach
  /\ AckedInv
  /\ \A k \in Key : KeyInv(k)
  /\ \A p \in Proc : CallInv(p)

-----------------------------------------------------------------------------
(* The ledger as its callers know it. *)

Reading(p) == IF pc[p] = "done" /\ call[p].new = {} THEN existing[p] ELSE << >>

Ledger == INSTANCE TrustedLedger WITH
            ledger <- log, acked <- acked, seen <- [p \in Proc |-> Reading(p)]

\* Appends and loads behave as atomic operations on one append-only sequence.
ImplementsTrustedLedger == Ledger!Spec

=============================================================================
