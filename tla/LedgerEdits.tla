----------------------------- MODULE LedgerEdits -----------------------------
(***************************************************************************)
(* PredictionLedger with a log that others rewrite.  predictions.jsonl is  *)
(* a file of the work tree: a checkout, a merge or an editor replaces it   *)
(* at any time and takes no lock.  The attestations lie in the git         *)
(* directory, which such edits do not reach.  A rewritten ledger must be   *)
(* refused, never returned with records lost, reordered or added.          *)
(***************************************************************************)
EXTENDS PredictionLedger

CONSTANT
  Forged  \* log records that no process predicted

ASSUME ForgedAssumption == Forged \cap Prediction = {}

VARIABLE
  reported  \* reported[k]: what the last load under k returned

editVars == <<vars, reported>>

EditInit == Init /\ reported = [k \in Key |-> << >>]

\* Truncated to a prefix, emptied, reordered, or with a record of no one's appended.
Rewritings ==
  {Reverse(log), << >>} \cup (IF log = << >> THEN {} ELSE {Front(log)})
    \cup (IF Len(log) <= MaxRecords THEN {Append(log, x) : x \in Forged} ELSE {})

EditLog ==
  /\ log' \in Rewritings
  /\ UNCHANGED <<clock, lock, attested, transaction, pc, locals, acked, reported>>

EditNext ==
  \/ /\ Next
     /\ reported' = [k \in Key |->
          LET readers == {p \in Proc : pc[p] = "done" /\ call[p] = [key |-> k, new |-> {}]}
          IN IF readers = {} THEN reported[k] ELSE existing[CHOOSE p \in readers : TRUE]]
  \/ EditLog

EditSpec == EditInit /\ [][EditNext]_editVars

FairEditSpec == EditSpec /\ \A p \in Proc : WF_vars(Step(p))

-----------------------------------------------------------------------------
(* Properties, and CallsEnd of PredictionLedger: edits cannot keep a call going. *)

\* Whatever was done to the log, a load that succeeds under a protocol returns
\* every prediction acknowledged under it, and none that was not predicted
\* (both subset checks of _verify_prediction_prefix).
LoadsAreComplete ==
  \A p \in Proc :
    (pc[p] = "done" /\ call[p].new = {}) =>
      /\ \A x \in acked : x.key = call[p].key => x \in ToSet(existing[p])
      /\ ToSet(existing[p]) \cap Forged = {}

\* What successive loads under a protocol return only grows at its end: an edit
\* can stop the ledger, not rewind or reorder it (the hash chain).
LoadsNeverRewind ==
  [][\A k \in Key : IsPrefix(reported[k], reported'[k])]_reported

\* The logs an attestation file names: what came before its record, and the record.
AttestedLogs(records) == {<< >>} \cup {Append(a.previous, a.prediction) : a \in records}

\* The attestations of k verify a log that they themselves name, and a transaction
\* of k extends that log or is its last record.
KeyRestorable(k) ==
  \E s \in AttestedLogs(attested[k]) :
    /\ Loadable(s)
    /\ Verified(attested[k], s, {})
    /\ \A t \in transaction[k] :
         /\ t.sequence = Len(t.previous) + 1
         /\ Timely(t.prediction.predictedAt, t.recordedAt)
         /\ \/ s = t.previous /\ t.prediction \notin ToSet(s) /\ Len(s) < MaxRecords
            \/ s = Append(t.previous, t.prediction) /\ t \in attested[k]

\* Edits, crashes and recoveries together never break a chain, at any step.
Restorable == \A k \in Key : KeyRestorable(k)

\* Whoever puts the attested log back has a ledger its next user is not refused,
\* whatever transaction was left behind.
VerifiedOpens == \A k \in Key : Trusted(k) => Openable(k)

-----------------------------------------------------------------------------
(***************************************************************************)
(* The inductive invariant.  It says nothing of the log, which anyone may  *)
(* write: all that a caller relies on lies in the git directory.           *)
(***************************************************************************)

EditTypeOK ==
  /\ clock \in Time
  /\ lock \in SUBSET Proc
  /\ log \in Seq(Prediction \cup Forged)
  /\ attested \in [Key -> SUBSET Attestation]
  /\ transaction \in [Key -> SUBSET Attestation]
  /\ pc \in [Proc -> {"idle", "lock"} \cup Holding]
  /\ call \in [Proc -> [key : Key, new : SUBSET Prediction]]
  /\ existing \in [Proc -> Seq(Prediction)]
  /\ attestation \in [Proc -> SUBSET Attestation]
  /\ acked \in SUBSET Prediction
  /\ reported \in [Key -> Seq(Prediction)]

\* What a process inside its call knows of the attestations and the transaction.
EditCallInv(p) ==
  LET k == call[p].key
  IN /\ \A x, y \in call[p].new : x.key = k /\ x = y
     /\ pc[p] \in {"wal", "logged", "attesting"} =>
          \E t \in transaction[k] :
            transaction[k] = {t} /\ attestation[p] = {t} /\ call[p].new = {t.prediction}
     /\ pc[p] = "done" =>
          /\ call[p].new \subseteq PredictionsOf(attested[k])
          /\ call[p].new = {} => Verified(attested[k], existing[p], {})

\* Every record that a load returned is still attested at its place.
ReportedInv == \A k \in Key : \A i \in 1..Len(reported[k]) : Linked(attested[k], reported[k], i)

\* Each chain is whole and belongs to the callers' predictions (append_prediction
\* and recovery over a log that is not the one they wrote).
EditIInv ==
  /\ EditTypeOK
  /\ LockInv
  /\ OneFileEach
  /\ AckedInv
  /\ \A k \in Key : \A t, u \in transaction[k] : t = u
  /\ Restorable
  /\ \A p \in Proc : EditCallInv(p)
  /\ ReportedInv

=============================================================================
