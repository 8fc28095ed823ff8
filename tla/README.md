# RuleLoom in TLA+

RuleLoom (`src/src/ruleloom`, Python) mines a repository's history for Horn rules that predict
rework, has a reviewer promote the useful ones to policies, and records, before the outcome is
known, what the approved policies say of each change. What it claims rests on evidence: a
prediction must have been recorded when it says it was, a policy must have been reviewed, and a
label must come from events that are really in the history. The evidence is kept in plain files
by short-lived processes. This project models how those files change, checks the models with TLC,
and proves the main results with TLAPS.

Paths below are relative to `src/src/ruleloom`. `PROJECT.json` gives, for every definition of the
models, the lines it stands for, and lists the components, runs, hazards, findings and theorems.

## 1. The system

### Processes and shared state

There is no server in the usual sense. Every command of `cli.py` is a process; the MCP server
(`mcp_server.py`) is one more, which serves an agent over stdio and handles one call at a time.
They exchange no messages. They share files:

- in the **work tree**, under `.ruleloom/`: the prediction log `predictions.jsonl`, the dataset of
  observations, the artifacts `candidates/`, `shadow/`, `approved/`, `deprecated/`, and
  `history/events.jsonl` with `history/change-units.jsonl`. They are versioned: a clone comes with
  them, and a checkout or a merge may replace them;
- in the **git directory**, private to one clone: the attestations of predictions
  (`prediction-ledgers/<key>/`), of transitions (`transition-records/`), the journal and stages of
  a history batch, and the lock of MCP requests. (The key of a request is kept in the prediction
  it led to.)

One write is one atomic rename. Files are protected by `flock` on a lock file beside them, waited
for at most ten seconds; a dead process's lock is released by the kernel. What takes more than
one write needs a protocol: a write-ahead file (ledger), a rollback journal (history), or an order
of writes such that what an interruption leaves is harmless (policies).

### Components

| Component | State | Operations | What makes it correct |
| --- | --- | --- | --- |
| Prediction ledger (`storage.py`) | log, attestation files, `transaction.json`, lock | `append_prediction`, `load_trusted_predictions`, recovery | nothing acknowledged is lost, altered or backdated; a crash never makes the ledger unusable; protocols are never mixed; an edited log is refused |
| History store (`history/storage.py`, `history/units.py`) | two logs, two stages, journal, guard | `upsert_history_batch`, `save_events`, `save_change_units`, `load_history_snapshot`, rollback | the pair of logs changes as a whole; always valid; recoverable after any interruption |
| Policy lifecycle (`lifecycle.py`, `storage.py`) | artifacts, attestations | `promote_candidate`, `deprecate_candidate`, `trust_reviewed_artifact`, `load_approved`, `load_shadow` | a status only advances, after its review; what is deprecated is not used; files stay loadable |
| Assessment requests (`mcp_server.py`) | the keys in the ledger's records, a lock | `assess_change`, replay | one prediction per request key, through retries and crashes; an answer names it |
| Observations dataset (`storage.py`, `cli.py`) | one file, its lock | collect, assess, label, import labels, merge | evidence and mature labels are immutable; concurrent writers lose nothing; what was predicted from stays |
| Materialization and outcomes (`history/outcomes.py`, `materialize.py`) | labels and evidence in the dataset | votes, aggregation, windows, `history materialize`, `validate` | a label rests on what came after the prediction, is negative only when its window is observed, and stands once mature |
| Webhook capture and ingest (`history/github_webhooks.py`, `history/units.py`, the Actions step) | bundles, the history store | capture, ingest, finalization, imports beside them | lost, repeated, late and reordered deliveries converge; one label policy rules |
| Collectors (`history/git.py`, `rework.py`, `github.py`, `github_event_archive.py`, the exporter script) | the history store, export files | bootstrap, rework scan, GitHub import, archive export and import | whatever is collected again agrees with what is stored; a negative label is never due to something unseen |
| Learners and evaluation (`learners/horn.py`, `evaluation.py`) | candidates | temporal split, predicate selection, search, covering, pruning, baselines | nothing is learned from the holdout; every rule earns its place |
| Prospective evidence (`lifecycle.py`, `reporting.py`) | none of its own: ledger and dataset are read | `shadow_evidence`, promotion gates, pilot report | only predictions made before their outcome count, and they count once and for all |
| Manual rules, repository assertions, fact extraction, project set-up, agent skills | their own files | sequential rewrites and audits | validation |

Interactions: the collectors and the webhook observers fill the history store, from which labels
are materialized into the dataset. An assessment collects an observation, loads policies (lifecycle), persists the
observation (dataset) and appends a prediction (ledger). Materialization reads a history snapshot, lets go of its guard, and
later persists labels. Learning reads the dataset and writes a candidate. Ingest reads a snapshot, lets go, and later inserts a batch. Promotion
reads the ledger and the dataset and writes an artifact and an attestation.

### What is hard to test

Every protocol above is a sequence of writes that any process may leave half done and any other
may find half done, and most calls decide on something they read earlier under another lock or
under none. The list, with the line where each bites and the properties that cover it, is under
`hazards` in `PROJECT.json`. In one sentence each:

- crash points of the ledger's three writes and of its recovery, and an interrupted recovery that
  must reproduce the original time and sequence number;
- two configurations that share one log file but not their write-ahead files;
- a record cap, a bounded lag between prediction and recording, and a clock that is set back;
- a log rewritten by git behind the ledger's back;
- a history batch interrupted in its writes or in its rollback, or failing after its commit;
- artifact and attestation written one after the other, looked for under no lock;
- a loader that lists six directories while transitions write to them;
- an assessment that records policies loaded some time ago;
- a request retried after a lost answer, at another server or after a death between its two writes;
- a whole dataset rewritten by every collection and label, while predictions refer to it;
- observations whose derived facts depend on what else was collected before them;
- labels derived from an older snapshot of the history and persisted after newer ones, while
  reverts, horizons and finalizations keep arriving;
- deliveries that are lost, repeated, late or reordered, and observers that write what they decided
  from a history that has changed since;
- collections that run again from other refs, cursors, ranges and limits, of a service and an
  archive that move on between two of their requests;
- a scan recorded by how far it went and not by what it read;
- outcomes recorded late, backdated or in conflict, during a pilot that other policies join or leave;
- a holdout in commit order, labels that mature at any time, and rules chosen one after the other,
  grown on one window and kept or dropped on another.

## 2. The modules

| Module | Role |
| --- | --- |
| `TrustedLedger` | abstract: one append-only sequence of predictions of one protocol |
| `PredictionLedger` | the ledger with its files, lock, recovery, crashes; implements `TrustedLedger` |
| `LedgerEdits` | `PredictionLedger` composed with an environment that rewrites the log |
| `PredictionLedgerProofs` | the theorems of both |
| `HistoryRecords` | events, change units and the validity of a pair of logs |
| `AtomicHistory` | abstract: a pair of logs that changes by whole batches |
| `HistoryStore` | the two logs, journal, stages, guard, failures, crashes; implements `AtomicHistory` |
| `HistoryStoreProofs` | its theorems |
| `PolicyReview` | abstract: statuses that advance, and loads that return what held during them |
| `PolicyLifecycle` | artifacts, attestations, transitions, loaders, assessments; implements `PolicyReview` |
| `PolicyLifecycleProofs` | its theorems |
| `AssessChange` | assessment requests, the dataset and the commands that write it, over `TrustedLedger` |
| `AssessChangeProofs` | its theorems |
| `Outcomes` | the labelling functions: votes, windows, aggregation (operators) |
| `HistoricalLabels` | `history materialize` and the dataset, over `Outcomes`, under concurrent imports |
| `HistoricalLabelsProofs` | its theorems |
| `ChangeUnits` | how events assemble into change units, and when two logs are a valid snapshot (operators) |
| `WebhookIngest` | deliveries, bundles, observers and imports, over `ChangeUnits` |
| `WebhookIngestProofs` | its theorems |
| `EventNames` | the id of a collected event, by the name of what it records (operators) |
| `GitHistory` | commits, their reverts and horizons, and the rework scan, over `Outcomes` and `EventNames` |
| `GitHubArchive` | a bounded collection of closed pull requests, over the same |
| `EventArchive` | the archive of GitHub events, its exporter and its import, over the same |
| `Collectors` | composes the last three with the history they share |
| `CollectorsProofs` | its theorems |
| `Evaluation` | temporal split, confusion counts, metrics and baselines (operators) |
| `HornLearner` | the Horn rule learner, over `Evaluation` (operators) |
| `Experiment` | learning, pilot, outcomes, gates and report, over `HornLearner` |
| `ExperimentProofs` | its theorems |
| `MC...` | small instances |

Conventions. A set with at most one element is a file that may not exist. A process is a program
counter `pc[p]` and the local variables of its call; one action is one read or one atomic write,
with the checks that precede it. `Crash` (or `Quit`) ends a call at any step and leaves the files.
An exception that touches no file is `Reject`. Definitions whose name says what is wrong with
them, under a comment that begins with *Fault:*, are not part of the specification: each is a
plausible bug that a property must notice.

### Prediction ledger

`CallAppend` is `make_prediction`, which stamps `predicted_at` before the lock is asked for;
`Acquire` is `_file_lock`. `NoTransaction`, `RecoverLogged`, `RecoverLog`, `RecoverAttestation` and
`FinishRecovery` are `_recover_prediction_transaction`. `WriteTransaction`, `WriteLog`,
`WriteAttestation` and `Commit` are the four writes of `append_prediction`, `LoadReturns` the end
of `load_trusted_predictions`. `Verified` and `Linked` are `_verify_prediction_prefix` and
`_verify_prediction_attestation`.

A prediction is the record of what the ledger reads of it (unit, ledger key, `predicted_at`). The
head of the hash chain after a prefix *is* that prefix, which is to say that hashes do not
collide. A log that does not parse, a symbolic link, or wrong permissions are not modelled: they
are refused before anything else happens.

`LedgerEdits` adds what others do to a file of the work tree: truncate it, empty it, reverse it,
or append a record nobody predicted, at any time and under no lock.

### History store

`Call` starts any of the four operations. Recovery stands at the head of every call and in the
exception handler: `NoJournal`, `RollBackEvents`, `RollBackUnits`, `DropJournal`, `DropStages`, in
the order of the code. A batch is `StageEvents`, `StageUnits`, `WriteJournal`, `WriteEvents`,
`WriteUnits`, `Commit` (the unlink of the journal) and `DropNew`. `Fail` is an exception inside the
`try` block, which the handler turns into a rollback; it may strike at the journal's write and
after the commit, too. The locks of the two logs are only ever taken inside the guard, so the guard
stands for all three. `Valid` keeps of `validate_history_snapshot` what relates two records:
unique ids, links, sole ownership of events, and one GitHub origin.

### Policy lifecycle

`PromoteToShadow`, `PromoteToApproved`, `Deprecate`, `Trust` and `Assess` begin a call with the
checks that read one file. Calls that need the reviewed policies go through `ListArtifacts` and
`ReadAttested`, once for each directory that `load_approved` and `load_shadow` read, tombstones
first. `SaveCandidate` and then `NotAttested`/`AttestedAlready` and `WriteAttestation` are the two
halves of a transition; no lock is held, so others run between them. An assessment ends with
`RecordPrediction`.

What the evidence says (enough positives, precision, readiness) is left open here: a transition may
always be refused (`Quit`) and may be admitted whenever the gates that no override passes are met.
The properties hold for every outcome of the evidence; the gates themselves are in `Experiment`. An artifact's content is the review that
made it, because a candidate's rule never changes.

### Assessments and the dataset

`AssessChange` composes three of the parts: the MCP server's `assess_change`, the dataset, and the
ledger, which is the abstract `TrustedLedger` here (`PredictionLedger` is shown to implement it).
`CallTool` is a request, new or repeated; `Enter` takes the lock on `mcp-assessments`, `Replay` and
`FirstTime` are the outcomes of `_existing_request`, and `Reply` is an answer an agent received. The
commands begin with `CallAssess`, `CallCollect` and `CallLabel` and take no such lock. `Open` to
`Persist`, `PersistCollected` or `Label` is one `edit_observations`: the file is loaded under its
lock, edited, and saved as a whole. `AppendPrediction` is `make_prediction` and `append_prediction`.
`Abort` is every other end of a call: a death, a timeout, a refusal or a lost answer.

A snapshot's own facts are determined by the snapshot, so they are left out; an observation's
evidence is what a collection adds: whether `enrich_history_features` was called, and which
observations precede it. That function reads those that `_sort_key` puts before the collected one,
which the numbers of the snapshots stand for. An observation of `dataset[s]` is bound to at most one
change. A request is what both of its hashes are made from.

### Labels from history

`Outcomes` has one operator for each voting function of `history/outcomes.py`, for its two windows
(`GitWindow`, `ReworkWindow`), and for `aggregate_votes` and `derive_outcome`. In
`HistoricalLabels` a collector appends a batch (`Import`); a command reads the history
(`ReadHistory`), derives all labels from what it read (`Derive`, without a lock), and persists them
under the dataset's lock (`Persist`, through `Mergeable`, which is `_merge_historical_observation`)
or ends otherwise (`Abort`). `Matches` is `validate_materialized_outcome`, which recomputes a
persisted label from the history of the moment. Confidences and reasons never change a label and
are left out; facts are those of the prediction commit and never change.

### Webhook capture and ingest

`Emit` is the provider's next delivery. `CaptureDelivery` normalizes any delivery made so far,
again or for the first time, and keeps it as a create-once bundle (`WriteBundle`); one that is
never captured is lost. `IngestCapture`, `IngestDirectory`, `FinalizeUnits` and `ImportHistory`
read the history and decide (`Prepare`); `Write` is the one transaction in which the union is
validated and appended; `GiveUp` is its refusal or a death. The variables `stale` and `raced` only
record that a plan was made from a history that has changed since. A label policy is the set of its
declarations and stands for its keyed hash; signatures, keys, size limits and JSON shapes are left
out.

### Collectors

A commit of `GitHistory` is its place in `git log --date-order`; its patch is the keys
`<<file, line>>` that are left once trivial lines are gone. `Bootstrap` collects what a ref
reaches after a cursor, `ScanRework` reads the recorded commits and appends reworks and a coverage
record. In `GitHubArchive` the service is a sequence of states, and a collection reads one of
them under limits on each of its lists; a pull request of which anything is cut is left out
(`Whole`). That the service changes between two pages of one list is outside. `EventArchive` loads one file for each hour, late and in any order; the exporter's
three queries, two writes and death are actions of their own (`QueryMaximum` to `WriteManifest`,
`StopExport`). `Collectors` adds the history: each command reads and plans (`Plans`), and `Upsert`
later appends the batch or is refused whole, without a lock in between. Left out: `--since`,
shallow clones and byte budgets of the Git collector, the cap on indexed lines, the ids by which
the code orders commits of one time (here they have numbers), check names beyond
their identity.

### Learning and prospective evidence

`HornLearner` follows `learn_horn_diagnostics`: `SelectTrainPredicates`, exhaustive or beam search
(`Candidates`), `PruneBody` on the newest part of the window, the covering loop (`Cover`) and
`DropClauses`. Ratios are compared as integers; Wilson bounds, which are floats in the code, are
rational brackets tight enough for the sample sizes that occur (`WilsonTable`). Two more inputs are
made of the training examples: the order that the weights of a logistic model give the predicates
(`predicate_ranking = "logistic_weight"`, the default of a new project) and the seed bodies that the
tree of the signal probe proposes. Their arithmetic is floating-point, so they are constant
operators of the examples, `Heavier` and `TreeSeeds`: `Ordered` sorts by what the one says as
`apply_predicate_order` does, `ValidatedSeeds` keeps of the other what `_validated_seed_bodies` would.
`Experiment` follows one candidate: `Learn`, `PromoteToShadow`, `Assess`, `RecordOutcome` (a label
may be dated earlier than it is recorded), `ReviewOther` (another policy enters or leaves),
`PromoteToApproved` with every gate of `promotion_decision`, and `Report`. A cohort is of commits or
of historical changes, of which no label is recorded by hand. Here a call is one step: its files
and races are in `PolicyLifecycle` and `PredictionLedger`, and with them the lag by which a
prediction may be recorded after a later one. So `CellsAreFinal` does not speak of a prediction that
is inserted before a counted one. Of two predictions at one instant the first recorded is the
earlier, where the code compares their ids; no property tells the two apart. The signal probe, the
lift gate, the search budget and the permutation null are left out; stability and the logistic
baseline are left open, as gates that an override may pass.

## 3. What is checked

Every race has two processes or more, enough for every pairwise race; one more can only repeat what
a dead one did, since a crashed process may call again. The models have no other counters than
those named here.

| Run | Bounds | Shows |
| --- | --- | --- |
| `ledger_safety` | 2 processes, 1 unit, 2 protocols, 3 clock readings, lag 1, cap 2 | `AlwaysOpenable`, `AcknowledgedDurable`, and the refinement `ImplementsTrustedLedger` |
| `ledger_edits` | 2 processes, 2 units, 1 protocol, cap 2, 1 forged record | `LoadsAreComplete`, `LoadsNeverRewind`, and under fairness `CallsEnd` |
| `history` | 2 processes, 2 events, 2 units, 4 batches | `TypeOK`, `AlwaysRecoverable`, `AcknowledgedDurable`, `ImplementsAtomicHistory`, and under fairness `CallsEnd` |
| `policy_races` | 2 processes, 1 candidate, 2 reviews, fresh and reviewed clones | `AttestationsMatch`, `TransitionsFollowReview`, `ImplementsPolicyReview` |
| `assess` | 2 servers, 1 command, 2 snapshots, 2 changes, 1 request id, 2 arguments, 2 records | `OnePredictionPerRequest`, `AnswersAgree`, `PredictionsAnchored`, `Sealed` |
| `assess_resolve` | 1 server, 1 snapshot | refutes `Resolvable` |
| `labels` | 2 processes, 1 commit, 1 confirmatory pull request, 5 batches | `TypeOK`, `ConfirmatoryIsStrong`, `EvidencePostdatesPrediction`, `MatureLabelsStand`, `FreshMaterializationValidates` |
| `labels_advance` | as `labels` | refutes `UnknownAdvances` |
| `webhooks` | 2 observers, 8 scenarios of one pull request | `TypeOK`, `OutcomesUnderOnePolicy`, `ConvergesUnlessRaced`, `AvailabilityStands` |
| `collectors` | 2 processes, 3 batches, 2 Git repositories of 4 and 5 commits, 3 states of the GitHub service, 3 archives of 4 hours | `TypeOK`, `NegativeMeansUntouched`, `CollectorsAgree`, `PullsAreWhole`, `RevertedIsNotNegative`, `ArchiveNegativesAreTrue` |
| `collectors_coverage` | as `collectors` | refutes `NegativesWereScanned` |
| `experiment` | 544 histories of 8 commits and 32 of 8 changes, 4 learner settings; a pilot of 2 units, 2 snapshots, 3 predictions, 3 instants | `TypeOK`, `ReportAgrees`, `HoldoutUnseen`, `RuleSetIsEarned`, `BeamIsLossless`, `ApprovalIsProspective`, `CellsAreFinal` |

Why the bounds are enough. In the ledger, three clock readings with a lag of 1 give a recording
that is too early, on time and too late; a cap of 2 gives an empty log, one with a predecessor and
a full one, and lets an append be interrupted at the cap; two protocols meet in one log. With one
unit, a prediction repeats when the clock does. In the history, the four batches are one for each
way two batches can meet: independent, claiming the same event, contradicting a record, and coming
from another repository. In the lifecycle, two reviews make two artifacts for one file, the
clones bring artifacts without attestations; what is decided of one candidate reads no other's files. In the
assessments, two servers meet on one key with the same and with different arguments while a command
assesses beside them; two snapshots give a backfill of both, and one that precedes the other. The
proofs cover every other size.

In `labels`, the batches bring an early horizon, a revert that is reported late, weak reverts by
trailer and by heuristic, an explicit revert, and a finalization, so that every window is open,
closed in time, and closed by something that another process has not read. In `webhooks`, the
scenarios are the ways two deliveries of one pull request matter to each other: opened, pushed and
closed in any order; closed and reopened; labelled by a maintainer and by the author, under two
policies; opened and closed beside an archive import and an unrelated one; checks and reviews;
dismissals and removed labels; a renamed label and a check of no pull request. In `collectors`, one
repository merges a branch with an older commit late, with both branches deleting the same line;
the other reverts a merge, has an oversized commit, and a tip that is older than its parent; of the
pull requests one is reverted and one repeats a commit, is closed and merged in the end; the
archive has a file that comes late and a merge that is reported twice. Two batches make every pair
of collections, a third lets a scan or an import follow. In `experiment`, eight commits over two
predicates are split six and two, so that there are rules of one and two literals, a beam of
width 2 that is full, pruning that changes a body, and holdouts that contradict the training
window; all 256 ways to give four of the training commits their facts are learned from, under two
sequences of labels and four settings: exhaustive; a narrow beam that prunes and is seeded; a
wide one that asks for Wilson bounds and temporal support; and an exhaustive search of the one
predicate that a logistic model weighs most, seeded by the tree. The model and the tree are simple
stand-ins that read every label they are given. A few of the histories are of changes, or have a
commit whose label is recorded later. One of them is followed through a pilot in which each unit can
be predicted before, at and after its outcome, twice, with one other policy coming and going.

Deadlock is checked wherever a process can always start a call. `webhooks`, `collectors` and
`experiment` really stop, and say so with `CHECK_DEADLOCK FALSE`: the deliveries are all made and
ingested, the batches or the instants are used up. Symmetry is used for processes, units, keys,
reviews, changes and requests, in runs of safety and action properties only.

Every property of a passing run is known to fail for some plausible bug of the code: `mutants`
names, for each, the definition and its faulty form. The learner was compared with the
code on some thousand random cohorts as well: the same rules.

### Fairness

Only `history` and `ledger_edits` assume it, for `CallsEnd`: weak fairness of `Step(p)` for each process, that is, a process
that is running goes on running. The code justifies no more and needs no more: it has no wait but
`_file_lock`'s, which gives up after ten seconds (`Reject` while the lock is held is part of
`Step`), so no fairness of the lock is assumed. A starved process ends its call with an error.
Crashes, calls and the clock are not fair.

### Where the code and its documentation differ

1. `assess_resolve`. `assess_change` embeds the request's key and fingerprint in the source of the
   prediction's observation; the observation in the dataset has neither. `prospective_unit_outcome`
   compares the two, labels aside, and refuses. Once one prediction has been made through the MCP
   server, `ruleloom report` and the shadow evidence stop with an error. What does hold is
   `PredictionsAnchored`: the observation is there, with the same evidence and change.
2. `labels_advance`. New events "may advance an `unknown` derived label". A confirmatory unit that
   was materialized as unknown with `--include-weak` never does once a weak revert arrives: the
   collected source is no longer confirmatory, the merge compares sources before labels, and it
   refuses the whole batch, then and ever after. What does hold is `MatureLabelsStand`.
3. `collectors_coverage`. "A window negative is only derived where the scan was complete." A scan's
   record is named by its horizon and its skipped commits. After a deeper bootstrap the same
   horizon cannot be recorded again, and the commits that no scan has read get negatives from the
   old record. What does hold is `NegativeMeansUntouched`: no change that a *recorded* rework
   touched is negative.

Narrower differences were met while modelling; no run is kept for them.

- *History store.* A batch is said to be inserted whole "or restore both old logs"; when the
  `fsync` after the unlink of the journal raises, the call raises and both new logs stay.
- *Lifecycle.* `record_transition_attestation` looks for an attestation under no lock, so two calls
  that both find none both write; the second one's reviewer and time replace the first's, of the
  same artifact (`AttestationsMatch` holds). The MCP tool's description speaks of policies that
  "were approved when the durable prediction was recorded"; they were approved when they were
  loaded.
- *Assessments.* History facts "are added while observations are persisted", but `assess_change`
  persists without adding them, so that the same snapshot assessed by the agent and by the command
  is refused. A snapshot that is collected again after an observation that sorts before it was
  persisted derives other history facts, and is refused (`history_features.py:793`,
  `docs/DATA-SCHEMA.md:536`). The sealed observation itself is never altered (`Sealed`).
- *Webhooks.* A unit may be persisted without a final snapshot that another worker has just
  appended (`github_webhooks.py:1714`); every later ingest of the change and every finalization is
  then refused, which is why `ConvergesUnlessRaced` excludes races
  (`docs/integrations/GITHUB-CAPTURE.md:130`). A pull request that is reopened after its unit was
  persisted, or a snapshot that arrives after the close it precedes, has the same effect without a
  race, at the ingestion itself. An archive import after a capture mixes evidence
  unchecked, and `history import` may persist an open unit that can never be finalized.
- *Git.* An oversized *later* commit is recorded as skipped, yet an earlier one whose lines it
  deletes gets a window negative. A revert of a merge that is out of range is linked to a commit,
  and a deeper bootstrap is then refused. `reworked_lines` counts every occurrence of a repeated
  line. `scanned_until` is a maximum of strings, over mixed offsets.
- *GitHub.* A pull request that was reopened and closed again makes every later collection of it
  refuse. A commit that several pull requests list is attributed by what else was collected, and a
  collection with another `--since` or limit may be refused for it. Overlapping exports of the
  event archive are refused whole, because every event names its manifest. A file that is loaded
  late, outside the audited window, is not audited.
- *Learner.* Tree seeds are said to be additional; a seed takes a place in the beam and is never
  refined, so that the beam may lose rules by them (`docs/SIGNAL-PROTOCOL.md:122`).
  `BeamIsLossless` speaks of searches without seeds. Rules are said to be "re-gated on the complete
  window" (`README.md:832`); after a clause is dropped, the rest is not (`RuleSetIsEarned` says
  so).
- *Pilots.* `shadow_evidence` asks for one policy set, so another policy's approval during a pilot
  makes its evidence unreadable for good. Two snapshots of a unit with different labels make every
  report and approval refuse. Once a prospective outcome is mature, `learn` refuses the dataset for
  mixing observation units.

## 4. What is proved

The theorems below hold for every value of the constants, under the assumptions named in the modules:

- `LedgerAssumption`: times, lag and cap are natural numbers. `ForgedAssumption`: what others append
  to a log is not what this clone predicted.
- `HistoryAssumption`: batches hold events and units of the declared ids and origins.
- `LifecycleAssumption`: a clone comes with artifacts of people whose own transitions followed the
  rules.
- `AssessAssumption`: a server is not a command, snapshots are numbered, the cap is a natural number.
- `OutcomesAssumption`: registered windows and thresholds are positive. `LabelsAssumption`: the events
  of a history are finitely many, with ids of their own and the times that
  `HistoricalEvent.__post_init__` demands, and a horizon does not reach beyond when it was known. A
  coverage record written by hand and brought in by `history import` could say otherwise; it is outside.
- `WebhookAssumption`: a delivery has an id of its own and is of a kind that is normalized, policies
  declare a label once, and only webhook captures claim a delivery as their source.
- `WindowAssumption`, `CollectorsAssumption`: what a repository, the service and the archive can be:
  finite patches, unique numbers of pull requests, one opening each, files that hold what happened
  before the end of their hour.
- `ServiceAssumption`: the service may move on in any way that keeps a pull request's number, author,
  time, and (unless it was forced) first commit, what it was when it ended at one instant, where and
  when a review was submitted, and what a commit is. States of reviews, check runs and their results,
  lists and merge commits may change. `NamesAssumption`: two names have two ids, that is, SHA-256 and
  its prefixes have no collisions among the records of one scenario.
- `EvaluationAssumption`: what `EvaluationConfig.__post_init__` demands. `ExperimentAssumption`: a
  cohort is finite, its observations have ids of their own and are older than the pilot. Two bounds
  on numbering come with it: ids of a cohort are below 100, since the pilot's snapshots are numbered
  from there, and predicates are among 1 to 9, so that the signature of a body orders as names do.
  Nothing is assumed of `Heavier` and `TreeSeeds` but that they are functions of the training examples.

**Prediction ledger** (`PredictionLedgerProofs`). `TypeCorrect`, `InductiveInvariant`,
`Availability` (`AlwaysOpenable`), `Durability`, `Separation`, `AppendOnly`, `Permanence`, and
`Refinement`: the ledger implements `TrustedLedger`. That no crash makes the ledger unusable is not
inductive by itself: it says nothing of the states in which the lock is held. The strengthening
says, for each ledger key, how far the append in its write-ahead file has come. Either the log
belongs to another protocol, and nothing was ever attested under this key (`Foreign`); or there is
no write-ahead file and the whole log verifies (`Settled`); or there is one, and the log is not
yet written (`Prepared`), or written but not attested (`Logged`), or both (`Attested`). A crash
changes none of these, since they speak of files alone. `CallInv` ties each program counter to the
stage its call is in, and `LockInv` keeps others from moving it. `Foreign` is what makes two
configurations safe: a stale write-ahead file of a protocol that is not in force can only hold a
*first* record, which recovery will not replay onto a log that is not empty.

With an environment that rewrites the log (`LedgerEdits`), four more: `LoadsComplete`
(`LoadsAreComplete`), `LoadsMonotonic` (`LoadsNeverRewind`), `ChainsRestorable` and `RestoredOpens`.
None of the stages above survives an edit, so the argument speaks of the attestation files alone,
which no edit reaches: those of one key are linked, each to the log as it was before its record. A
log that a load accepts is the one chain they spell out, whatever it went through in between, and
putting that chain back always makes the ledger usable again.

**History store** (`HistoryStoreProofs`). `TypeCorrect`, `InductiveInvariant`, `Recoverable`
(`AlwaysRecoverable`), `Durability` (`AcknowledgedDurable`) and `Refinement`: the store implements
`AtomicHistory`. As with the ledger, the invariant speaks of files first: `FilesInv` says that each
file is there or not, and that the committed logs, which are those on disk or, while there is a
journal, the old ones in its stages, are a valid pair. `CallInv` says of the call that holds the
guard how far its writes have come: what it found is what the committed logs hold, what it staged
is what the journal will name, and only after its commit is the journal gone. A write that fails,
and a rollback that is itself interrupted, leave the committed pair as it was, so of all writes only
the commit shows in `AtomicHistory`, and a load shows the whole pair that it read.

**Policy lifecycle** (`PolicyLifecycleProofs`). `TypeCorrect`, `InductiveInvariant`, `Repairable`
(`AttestationsMatch`), `FollowsReview` (`TransitionsFollowReview`) and `Refinement`: the lifecycle
implements `PolicyReview`. There is no lock to lean on.
The argument is that files only come into being: an artifact is never replaced by a different one
(`SaveCandidate`), and ids are never removed from the attested ones. So what a process has seen
stays true: between its two writes its artifact is still there (`CallInv` at `check` and `write`),
and what it has loaded is still attested. `OthersKept` states this once for all actions of others.
The refinement needs more, since a load lists up to four directories one after the other while
reviewers go on. `LoadInv` says, of the directories that a load has read so far, that it missed
nobody who stood there when the assessment began, unless it saw a tombstone, and took nobody who
was past them; tombstones come before each directory that they rule out, and statuses only
advance. So when the last directory is read, every policy is returned as it stood at some moment of
the assessment (`LoadIsCurrent`).

**Assessments** (`AssessChangeProofs`). `TypeCorrect`, `InductiveInvariant`, `OnePerRequest`
(`OnePredictionPerRequest`), `Agree` (`AnswersAgree`), `Anchored` (`PredictionsAnchored`) and
`SealedAlways` (`Sealed`). Two locks carry the argument. `RequestInv`: a server between its look in
the ledger and its append holds the lock on `mcp-assessments`, and the ledger has no prediction of
its request yet; a command may append meanwhile, but its records carry no request. `DatasetInv`: a
process that is editing holds the dataset's lock and what it loaded is what is there, so a save
keeps all there was (`KeepsStep`); and what a process persisted, it still finds there when it
appends the prediction, though it has let go of the lock by then, since observations are only ever
extended. `AnswerInv` follows the answers.

**Labels** (`HistoricalLabelsProofs`). `TypeCorrect`, `InductiveInvariant`, `Confirmatory`
(`ConfirmatoryIsStrong`), `LabelsStand` (`MatureLabelsStand`), `NoLeakage`
(`EvidencePostdatesPrediction`) and `FreshlyValid` (`FreshMaterializationValidates`). What is
persisted is what some command derived from some history: that the flag was sealed with it, from
the same votes, is all that `ConfirmatoryIsStrong` needs, and the merge does the rest, for any events
and any rules of the labelling functions. The other two go through each voting function: every vote
names events that became available after the prediction, the aggregate takes its instants from the
votes it rests on, and what was derived from one history is derived again from the same history. The
votes rest on the first and latest of finite sets of events, which exist by a least element.

**Webhooks** (`WebhookIngestProofs`). `TypeCorrect`, `InductiveInvariant`, `OnePolicy`
(`OutcomesUnderOnePolicy`), `Availability` (`AvailabilityStands`) and `Convergence`
(`ConvergesUnlessRaced`). `LogInv` holds of the history
and of every plan that is still to be written: each event was normalized from a delivery
(`FromDelivery`), with an outcome only if the policy grants it, and stands beside the event that
every capture of this delivery has, with the same availability (`Witness`). Two captures of one
delivery therefore meet on that event's id, and either agree on it or cannot both be written
(`MergedLog`). That the policies are one policy is what the validation of each write keeps.

For `Convergence`: a plan that is not `stale` is what its worker would plan now, and what may be
assembled of a change depends on the events of that change alone. So without a race each persisted
unit is what the convergence pass would assemble again. It holds of histories that are `Undisturbed`:
a change that webhooks captured is only told by webhooks. The proof found why that is needed. An
import of the event archive for a change whose opening was captured is let through, since the check
for mixed sources asks for the adapter `ruleloom-github/1` alone (`github_webhooks.py:1583`), and
leaves a unit that the pass refuses, with no race at all; the run has that import among its
scenarios.

**Collectors** (`CollectorsProofs`). `Invariance`, `TypeCorrect` (`TypeOK`), `WholePulls`
(`PullsAreWhole`), `ArchiveIsTrue` (`ArchiveNegativesAreTrue`), `RevertIsSeen`
(`RevertedIsNotNegative`), `UntouchedIsUntouched` (`NegativeMeansUntouched`), `RecordsTold` and
`Agreement` (`CollectorsAgree`). The invariant has a part for each source. `SourcesOK`: the service is a later state of the scenario's. `ExportOK`: the
hours a manifest calls missing were missing when its rows were read, or earlier, and files are only
added; so an hour that could hide a request for changes is either missing in the manifest or was
there in full when the rows were read. `PlansOK` and `LogsOK`: each batch, planned or recorded, is
what its command found over the commits it covers, with their reverts, reworks and coverage record.
`ScansGrow` and `ScanNamesOK` carry `NegativeMeansUntouched`: a scan covers all commits recorded when
it began, so of two scans one covers the commits of the other; the name of its record tells how far it
went and what it skipped, and its data how many it read; two scans that could record one name
therefore read the same patches. That is why a negative is right about the commits that were read,
and why `NegativesWereScanned` is not.

`Agreement` (`CollectorsAgree`) rests on `RecordsTold`: of every event that is recorded or planned
there is a name of which it has the id, and it says what the sources let a record of that name say
(`Told`), at whatever moment it was read. For a commit, a horizon, a rework, a snapshot, a review
or a check that is one thing: the name says all that may differ between two reads, and the service
keeps the rest (`SamePull`, `SameHistory`). For the four exceptions that the property lists it is
more than one. Names tell kinds apart and ids tell names apart, so a conflict is between two records
of one name, and of a kind that the collector at hand writes (`OneRecord`). The proof bears out that
nothing is owed to the limits, the cursors or the order of the reads: they choose which records are
found, never what one says.

**Experiment** (`ExperimentProofs`). `Invariance`, `TypeCorrect` (`TypeOK`), the six other
properties that the run checks, `PastOnly` and `Clauses`.

- `ReportAndApproval` (`ReportAgrees`), `Prospective` (`ApprovalIsProspective`) and `Final`
  (`CellsAreFinal`). The evidence is a function of ledger and dataset. Predictions are numbered in the
  order of their times, so a unit's earliest one never changes; a label is never unsaid; and one that
  is recorded later, but not dated before the prediction, can only agree with what is known or make
  the evidence unreadable.
- `Unseen` (`HoldoutUnseen`): the split is a matter of ranks in an order that reads no label but
  whether there is one. Flipping labels that mature after the holdout's start keeps the order, and
  with it the training set, as a set of the very same observations; so the learner, its logistic model
  and its tree get what they got.
- `PastOnly` (`TrainedOnThePast`): the holdout takes the highest ranks of that order, so all that is
  trained on comes before it, and its labels were there by the earliest time of the holdout
  (`TestIsLater`).
- `Earned` (`RuleSetIsEarned`): the covering loop keeps that each rule so far brought its own
  positives and that together they pass the gate (`CoverInv`); a rule that goes in the end only leaves
  more to those behind it (`WithoutRule`).
- `Lossless` (`BeamIsLossless`): what a body covers, each shorter one covers. By induction over the
  depth the beam holds every body of that length with enough support, so no longer one is missed.
- `Clauses` (`RulesAreClauses`): every learned rule is one that `HornClause` accepts, and of predicates
  that tell the training observations apart. The ranking is a linear order, so the ranked predicates
  are among those that vary (`RankedVary`); a search refines bodies to bodies (`BeamSeesBodies`), with
  whatever seeds were validated; and pruning, which takes away the literal whose loss is best for the
  prune window, stops before it has taken the last (`PruningLeaves`). That there is a best one needs
  that fractions compared by cross-multiplying are linearly ordered, with the rank of the predicate to
  break ties (`OneLeads`).

`HoldoutUnseen` speaks of candidates with a holdout, for without one there is no instant at which it
begins. `BeamIsLossless` speaks of searches with fewer than 256 bodies, the widest beam there is.

**Induction.** The library's induction theorems take an operator as a parameter, which the provers
cannot instantiate. Where an induction is needed it is made by hand: a set of numbers that is not
everything has a least one outside it (`LeastNatural`, `SetInduction`), by the well-foundedness of the
naturals. For a recursive function, such as the covering loop or the levels of the beam, it is first
shown by such an induction that there is a function which satisfies the recursion (`IterationsRun`,
`DropsRun`, `SearchesRun`, and `ShrinkingRuns` for the pruning of a body, by the number of its
literals).

What is proved is not always run as well. The type invariants of the ledger, the lifecycle and the
assessments, all inductive invariants, `OneProtocolPerLog`, `LogAppendOnly` and
`AttestationsPermanent` of the ledger, and `PastOnly` and `Clauses` of the experiment rest on their proofs alone; where a theorem's `property` is named in `PROJECT.json`, a run shows the same
property on a small instance.

**Only model-checked.** `CallsEnd`, of the ledger and of the history store: liveness needs fairness,
and the provers have no ENABLED. Every safety property that a passing run checks is also a theorem.
What the folds of the community modules compute (`Signature` of a clause, which only breaks ties, and
the requests of `ApiRequests`) is nowhere used by a proof.

## 5. What is not modelled

- Power loss. `_atomic_write` of `storage.py` does not call `fsync`; `docs/PERFORMANCE.md` names
  fault injection for it as future work. The models have one level of durability: a process dies,
  the file system does not.
- Text: JSON, TOML, canonical forms, hashes, signatures, paths, permissions, sizes. They are total
  functions with errors, and every error is a rejected call here.
- Fact extraction (`gitfacts.py`, the packs): deterministic processing of one diff. Of
  `history_features.py`, `AssessChange` has which observations are read and when, not what is
  counted.
- The Popper learner is an external process. Of the Horn learner and of evaluation, what Section 2
  names: the signal probe, the logistic baseline, bootstrap stability, the permutation null and
  the lift gate are floating-point or random.
- Prospective `git_range` units and the check that they do not overlap.
- Manual rules and repository assertions: validation of declarations and audits over one
  snapshot. Once promoted, a manual rule is a candidate like any other to `PolicyLifecycle`.
- Project set-up, `doctor`, discovery, first hour, agent skills: sequential rewrites and reports
  with no state that another process shares. A death inside `initialize_project` leaves a project
  that `init` refuses to complete; it is listed as a hazard without a property.
- The stdio transport, argument parsing and output.

## 6. Plan

Ordered by how much the claims of the program rest on the part.

Next theorem: that `PredictionLedger` still implements the abstract `TrustedLedger` with the hash
chain spelled out, hashes being an injective constant operator like the ids of `EventNames`.

Next models: `LedgerPower` and `HistoryPower`, with renames and unlinks that a power cut may lose
in any combination; the partial failure of `initialize_project`; `git_range` units. Liveness stays
with TLC.
