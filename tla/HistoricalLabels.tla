--------------------------- MODULE HistoricalLabels ---------------------------
(***************************************************************************)
(* `history materialize` (cli.py, history/materialize.py): several         *)
(* commands read the history, derive the labels of its change units        *)
(* without any lock, and persist them under the lock of the dataset, while *)
(* imports keep appending events.  A mature label and the snapshot it      *)
(* belongs to are never rewritten.  validate_project recomputes every       *)
(* persisted label from the history of the moment.                         *)
(*                                                                         *)
(* Facts are those of the prediction commit and never change, so what a    *)
(* snapshot seals is its confirmatory flag, its weak-evidence mode and the *)
(* windows it was judged against.                                          *)
(***************************************************************************)
EXTENDS Outcomes

CONSTANTS
  Unit,     \* change units, all in the history from the start
  Batch,    \* sets of events that a collector or an import appends
  Target,   \* the outcome target that the experiment registers
  Process   \* commands that may run at the same time

\* An import refuses an id that the log has with another content
\* (_merge_records), and what it appends is one file or one scan.
ASSUME LabelsAssumption ==
  /\ Target \in Targets
  /\ \A u \in Unit : u.prediction \in Nat
  /\ \A batch \in Batch : IsFiniteSet(batch)
  /\ \A e \in UNION Batch : WellTimed(e) /\ (e.kind \in Coverage => CoversItsPast(e))
  /\ \A e, f \in UNION Batch : e.id = f.id => e = f

VARIABLES
  events,   \* the event log, append-only
  dataset,  \* the observations of the units that were materialized
  busy,     \* commands that have read the history and not yet persisted
  read,     \* the events such a command read
  mode      \* its --include-weak

vars == <<events, dataset, busy, read, mode>>

Known == {"positive", "negative"}

UnitEvents(u, log) ==
  {e \in log : e.change = u.id \/ (e.id \in u.attached /\ e.change = NoChange)}

Derive(u, log, weak) ==
  DeriveOutcome(u, UnitEvents(u, log), Target, weak, GitWindow(log), ReworkWindow(log))

\* Fault: only a window's vote counts as weak.
WindowWeakContributed(derivation, weak) ==
  /\ weak /\ derivation.label # "unknown"
  /\ \A v \in derivation.votes : v.strength = "weak" /\ v.group = 0

\* Weak votes made the label: without them it would be another or none.
WeakContributed(derivation, weak) ==
  /\ weak /\ derivation.label # "unknown"
  /\ Aggregate(derivation.votes, FALSE).label # derivation.label

\* Fault: the events that the unit's manifest attaches are not hashed.
UnattachedObservation(u, log, weak) ==
  LET d == Derive(u, log, weak)
  IN  [label |-> d.label, evidence |-> d.evidence, votes |-> d.votes,
       linked |-> {e \in log : e.change = u.id},
       sealed |-> [confirmatory |-> u.confirmatory /\ ~WeakContributed(d, weak),
                   weak |-> weak, gitWindow |-> GitWindow(log),
                   reworkWindow |-> ReworkWindow(log)]]

\* _historical_observation: an outcome that is not later than the prediction
\* would be dropped.
Observation(u, log, weak) ==
  LET d == Derive(u, log, weak)
      early == d.evidence # NoEvidence /\ d.evidence.available <= u.prediction
      label == IF early THEN "unknown" ELSE d.label
  IN  [label |-> label,
       evidence |-> IF early THEN NoEvidence ELSE d.evidence,
       votes |-> d.votes,
       linked |-> UnitEvents(u, log),
       sealed |-> [confirmatory |-> u.confirmatory
                                      /\ ~WeakContributed([d EXCEPT !.label = label], weak),
                   weak |-> weak,
                   gitWindow |-> GitWindow(log),
                   reworkWindow |-> ReworkWindow(log)]]

\* Fault: a later derivation overrules a mature label.
RelabelingMergeable(u, collected) ==
  u \in DOMAIN dataset => dataset[u].sealed = collected.sealed

\* _merge_historical_observation raises when this does not hold.
Mergeable(u, collected) ==
  u \in DOMAIN dataset =>
    /\ dataset[u].sealed = collected.sealed
    /\ dataset[u].label \in Known => collected.label = dataset[u].label

\* validate_materialized_outcome recomputes what the dataset says of a unit.
Matches(u, observation, log) ==
  LET d == Derive(u, log, observation.sealed.weak)
  IN  /\ observation.label = d.label /\ observation.evidence = d.evidence
      /\ observation.votes = d.votes /\ observation.linked = UnitEvents(u, log)
      /\ observation.sealed.confirmatory =
           (u.confirmatory /\ ~WeakContributed(d, observation.sealed.weak))
      /\ observation.sealed.gitWindow = GitWindow(log)
      /\ observation.sealed.reworkWindow = ReworkWindow(log)

ValidDataset(observations, log) ==
  \A u \in DOMAIN observations : Matches(u, observations[u], log)

-----------------------------------------------------------------------------

Init ==
  /\ events = {}
  /\ dataset = [u \in {} |-> {}]
  /\ busy = {}
  /\ read = [p \in Process |-> {}]
  /\ mode = [p \in Process |-> FALSE]

\* Fault: the log is saved as it was collected, not appended to.
OverwritingImport(batch) ==
  /\ ~(batch \subseteq events)
  /\ events' = batch
  /\ UNCHANGED <<dataset, busy, read, mode>>

\* A collector or an import appends immutable events under the history lock.
Import(batch) ==
  /\ ~(batch \subseteq events)
  /\ events' = events \cup batch
  /\ UNCHANGED <<dataset, busy, read, mode>>

\* load_history_snapshot, whose lock is released before anything is derived.
ReadHistory(p, weak) ==
  /\ p \notin busy
  /\ busy' = busy \cup {p}
  /\ read' = [read EXCEPT ![p] = events]
  /\ mode' = [mode EXCEPT ![p] = weak]
  /\ UNCHANGED <<events, dataset>>

Ends(p) ==
  /\ p \in busy
  /\ busy' = busy \ {p}
  /\ read' = [read EXCEPT ![p] = {}]
  /\ mode' = [mode EXCEPT ![p] = FALSE]
  /\ UNCHANGED events

\* Missing blobs of a partial clone end the command before it persists.
Abort(p) == Ends(p) /\ UNCHANGED dataset

\* _persist_historical.  Units whose Git objects are missing were skipped, and
\* one observation that cannot be merged refuses the whole batch.
\* validate_project then recomputes the dataset and writes nothing.
Persist(p, present) ==
  LET collected(u) == Observation(u, read[p], mode[p])
  IN  /\ Ends(p)
      /\ IF \A u \in present : Mergeable(u, collected(u))
         THEN dataset' = [u \in DOMAIN dataset \cup present |->
                            IF u \in present THEN collected(u) ELSE dataset[u]]
         ELSE UNCHANGED dataset

Next ==
  \/ \E batch \in Batch : Import(batch)
  \/ \E p \in Process :
       \/ \E weak \in BOOLEAN : ReadHistory(p, weak)
       \/ Abort(p)
       \/ \E present \in SUBSET Unit : Persist(p, present)

Spec == Init /\ [][Next]_vars

-----------------------------------------------------------------------------
(* Properties. *)

TypeOK ==
  /\ events \subseteq UNION Batch
  /\ DOMAIN dataset \subseteq Unit
  /\ \A u \in DOMAIN dataset : dataset[u].linked \subseteq events
  /\ busy \subseteq Process
  /\ read \in [Process -> SUBSET events] /\ mode \in [Process -> BOOLEAN]

\* A mature label, and the snapshot an observation sealed, are never
\* rewritten, in whatever order imports and concurrent materializations of
\* older and newer histories come (_merge_historical_observation).
MatureLabelsStand ==
  [][\A u \in DOMAIN dataset :
       /\ u \in DOMAIN dataset' /\ dataset'[u].sealed = dataset[u].sealed
       /\ dataset[u].label \in Known => dataset'[u].label = dataset[u].label]_vars

\* A confirmatory label is one that strong evidence alone gives: an opt-in
\* weak vote, and a window, never make a unit confirmatory.
ConfirmatoryIsStrong ==
  \A u \in DOMAIN dataset :
    (dataset[u].label \in Known /\ dataset[u].sealed.confirmatory) =>
      Aggregate(dataset[u].votes, FALSE).label = dataset[u].label

\* No leakage: what a label rests on is recorded in the history, of this
\* change or of its window, and became available only after the prediction.
EvidencePostdatesPrediction ==
  \A u \in DOMAIN dataset : dataset[u].label \in Known =>
    /\ dataset[u].evidence.available > u.prediction
    /\ \A e \in events : e.id \in dataset[u].evidence.ids =>
         /\ e.occurred > u.prediction
         /\ e.kind \in Coverage \/ e \in UnitEvents(u, events)
    /\ dataset[u].evidence.ids \subseteq {e.id : e \in events}

\* What a command persists from the history of the moment passes the
\* recomputation of validate_project, which derives it a second time.
FreshMaterializationValidates ==
  [][\A p \in Process, u \in DOMAIN dataset' :
       (/\ p \in busy \ busy' /\ read[p] = events
        /\ u \in DOMAIN dataset => dataset'[u] # dataset[u])
         => Matches(u, dataset'[u], events')]_vars

\* What the documentation promises of events appended later: an unknown label
\* may advance, unless the window it is judged against moved.
UnknownAdvances ==
  \A u \in DOMAIN dataset :
    LET now == Observation(u, events, dataset[u].sealed.weak)
    IN  (/\ dataset[u].label = "unknown"
         /\ dataset[u].sealed.gitWindow = GitWindow(events)
         /\ dataset[u].sealed.reworkWindow = ReworkWindow(events))
          => Mergeable(u, now)

=============================================================================
