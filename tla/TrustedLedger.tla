---------------------------- MODULE TrustedLedger ----------------------------
(***************************************************************************)
(* What RuleLoom promises of its prediction ledger, with the log file, the *)
(* attestation files and the write-ahead file hidden: one append-only      *)
(* sequence of predictions, all of one evidence protocol, that a process   *)
(* reads as a whole.  PredictionLedger is shown to implement it.           *)
(***************************************************************************)
EXTENDS Naturals, Sequences, SequencesExt

CONSTANTS
  Proc,        \* processes of the command line and the MCP server
  Prediction,  \* prediction records, each with the ledger key of its protocol
  MaxRecords   \* the record cap of one ledger

VARIABLES
  ledger,  \* the trusted predictions, in the order they were recorded
  acked,   \* predictions whose append returned to its caller
  seen     \* seen[p]: what p's load returned while p still holds it

vars == <<ledger, acked, seen>>

Init ==
  /\ ledger = << >>
  /\ acked = {}
  /\ seen = [p \in Proc |-> << >>]

\* One prediction is recorded: a new one, of the protocol of those before it.
Record(x) ==
  /\ Len(ledger) < MaxRecords
  /\ x \notin ToSet(ledger)
  /\ \A i \in 1..Len(ledger) : ledger[i].key = x.key
  /\ ledger' = Append(ledger, x)
  /\ UNCHANGED <<acked, seen>>

\* A caller is told that its prediction is recorded.
Acknowledge(x) ==
  /\ x \in ToSet(ledger)
  /\ acked' = acked \cup {x}
  /\ UNCHANGED <<ledger, seen>>

\* A load returns the whole ledger.
Read(p) ==
  /\ seen' = [seen EXCEPT ![p] = ledger]
  /\ UNCHANGED <<ledger, acked>>

\* The process drops what it read.
Forget(p) ==
  /\ seen' = [seen EXCEPT ![p] = << >>]
  /\ UNCHANGED <<ledger, acked>>

Next ==
  \/ \E x \in Prediction : Record(x) \/ Acknowledge(x)
  \/ \E p \in Proc : Read(p) \/ Forget(p)

Spec == Init /\ [][Next]_vars

=============================================================================
