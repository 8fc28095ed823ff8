----------------------------- MODULE AssessChange -----------------------------
(***************************************************************************)
(* Prospective assessments: assess_change of the MCP server, the assess,   *)
(* collect, label and import-labels commands, the dataset of observations  *)
(* they share, and the prediction ledger, here the abstract one of         *)
(* TrustedLedger.                                                          *)
(*                                                                         *)
(* An agent that gets no answer asks again, perhaps of another server on   *)
(* the same repository; assess_change looks in the ledger for what it      *)
(* recorded for the request before.  Between that look and the append it   *)
(* collects an observation, loads the policies (PolicyLifecycle) and       *)
(* persists the observation, under a lock that the commands do not take.   *)
(*                                                                         *)
(* Simplifications.  The work tree is the developer's: collecting finds    *)
(* any snapshot.  A snapshot's own facts are a function of the snapshot,   *)
(* so evidence is what else a collection puts beside them: the earlier     *)
(* observations that enrich_history_features derived facts from.           *)
(* predicted_at is a number of the record's own, as the clock has          *)
(* microseconds and a repeated id would be refused.  One experiment, whose *)
(* snapshots are all of one kind.                                          *)
(***************************************************************************)
EXTENDS Naturals, Sequences, SequencesExt

CONSTANTS
  Server,     \* MCP servers
  Cli,        \* processes of the command line
  Snapshot,   \* snapshots of the work tree, numbered as _sort_key orders them
  Change,     \* change ids: independent units of work
  RequestId,  \* request ids an agent makes up
  Argument,   \* what base and head a request names
  Enriches,   \* whether the fact pack is generic_changes, version 2 or later
  MaxRecords  \* _MAX_PREDICTION_RECORDS

ASSUME AssessAssumption ==
  /\ Server \cap Cli = {}
  /\ Snapshot \subseteq Nat
  /\ Enriches \in BOOLEAN
  /\ MaxRecords \in Nat

Proc == Server \cup Cli

VARIABLES
  dataset,      \* dataset[s]: {} or {the observation of s}
  ledger,       \* the trusted predictions, in the order they were recorded
  requestLock,  \* holder of the lock on mcp-assessments: {} or {p}
  datasetLock,  \* holder of the lock on the dataset: {} or {p}
  pc,           \* where each process is in its call
  call,         \* call[p]: the call in progress
  opened,       \* opened[p]: the dataset as p loaded it and, later, as p saved it
  found,        \* found[p]: {} or {the prediction p is to answer with}
  answers       \* history: the answers of assess_change that an agent received

locks == <<requestLock, datasetLock>>
locals == <<call, opened, found>>
vars == <<dataset, ledger, locks, pc, locals, answers>>

Maybe(S) == {{}} \cup {{x} : x \in S}

Request == [change : Change, id : RequestId, arguments : Argument]

\* What enrich_history_features read of earlier snapshots, if it was called.
Evidence == [enriched : BOOLEAN, prior : SUBSET Snapshot]

Mature == {"positive", "negative"}

Observation ==
  [change : Maybe(Change), evidence : Evidence, label : Mature \cup {"unknown"}]

\* source.mcp_request_key and mcp_request_fingerprint, together, are "request".
Prediction ==
  [key : {"protocol"}, predictedAt : Nat \ {0}, request : Maybe(Request),
   snapshot : Snapshot, change : Change, evidence : Evidence]

Tool == {"assess", "collect", "label"}

Call ==
  [tool : Tool, request : Maybe(Request), change : Maybe(Change),
   snapshots : SUBSET Snapshot]

NoCall == [tool |-> "assess", request |-> {}, change |-> {}, snapshots |-> {}]

NoDataset == [s \in Snapshot |-> {}]

TypeOK ==
  /\ dataset \in [Snapshot -> Maybe(Observation)]
  /\ ledger \in Seq(Prediction)
  /\ requestLock \in SUBSET Proc
  /\ datasetLock \in SUBSET Proc
  /\ pc \in [Proc -> {"idle", "request", "check", "collect", "open", "merge", "append", "reply"}]
  /\ call \in [Proc -> Call]
  /\ opened \in [Proc -> [Snapshot -> Maybe(Observation)]]
  /\ found \in [Proc -> SUBSET Prediction]
  /\ answers \in SUBSET [request : Request, prediction : Prediction]

\* The ledger as its users see it: PredictionLedger is shown to implement this.
Ledger == INSTANCE TrustedLedger WITH
  acked <- {}, seen <- [p \in Proc |-> << >>]

-----------------------------------------------------------------------------
(* What the code decides on. *)

Known(d) == {s \in Snapshot : d[s] # {}}

\* _persist_collected enriches what it persists, from the observations before it;
\* the server's _persist_observation persists what was collected.
EvidenceOf(d, collected, s, enriches) ==
  [enriched |-> enriches,
   prior |-> IF enriches THEN {t \in Known(d) \cup collected : t < s} ELSE {}]

\* _merge_observation, _merge_collected_prior: what they accept.
Mergeable(old, new) ==
  \A o \in old :
    /\ o.evidence = new.evidence
    /\ o.change = {} \/ new.change = {} \/ o.change = new.change

\* Fault: the collected observation replaces the one before it.
ReplacingMerged(old, new) == {new}

\* The observation kept: the earlier one, now bound to the change if it was not.
Merged(old, new) ==
  IF old = {} THEN {new} ELSE {[o EXCEPT !.change = @ \cup new.change] : o \in old}

\* Predictions recorded for the request's key, (change_id, request_id).
Existing(r) ==
  {x \in ToSet(ledger) : \E q \in x.request : q.change = r.change /\ q.id = r.id}

-----------------------------------------------------------------------------
(* Control. *)

Goto(p, from, to) ==
  /\ pc[p] = from
  /\ pc' = [pc EXCEPT ![p] = to]

Init ==
  /\ dataset = NoDataset
  /\ ledger = << >>
  /\ requestLock = {}
  /\ datasetLock = {}
  /\ pc = [p \in Proc |-> "idle"]
  /\ call = [p \in Proc |-> NoCall]
  /\ opened = [p \in Proc |-> NoDataset]
  /\ found = [p \in Proc |-> {}]
  /\ answers = {}

\* An agent calls assess_change, for the first time or again.
CallTool(p, r) ==
  /\ p \in Server
  /\ Goto(p, "idle", "request")
  /\ call' = [call EXCEPT ![p] = [NoCall EXCEPT !.request = {r}, !.change = {r.change}]]
  /\ UNCHANGED <<dataset, ledger, locks, opened, found, answers>>

\* ruleloom assess --change-id c
CallAssess(p, c) ==
  /\ p \in Cli
  /\ Goto(p, "idle", "collect")
  /\ call' = [call EXCEPT ![p] = [NoCall EXCEPT !.change = {c}]]
  /\ UNCHANGED <<dataset, ledger, locks, opened, found, answers>>

\* ruleloom collect git: one snapshot or a backfill of several, of no change.
CallCollect(p, S) ==
  /\ p \in Cli
  /\ Goto(p, "idle", "open")
  /\ call' = [call EXCEPT ![p] = [NoCall EXCEPT !.tool = "collect", !.snapshots = S]]
  /\ UNCHANGED <<dataset, ledger, locks, opened, found, answers>>

\* ruleloom label, or import-labels with a row for each of S.
CallLabel(p, S) ==
  /\ p \in Cli
  /\ Goto(p, "idle", "open")
  /\ call' = [call EXCEPT ![p] = [NoCall EXCEPT !.tool = "label", !.snapshots = S]]
  /\ UNCHANGED <<dataset, ledger, locks, opened, found, answers>>

-----------------------------------------------------------------------------
(* assess_change, under the lock on mcp-assessments *)

\* Fault: the requests of one server are serialised, those of two are not.
UnlockedEnter(p) ==
  /\ Goto(p, "request", "check")
  /\ requestLock' = {p}
  /\ UNCHANGED <<dataset, ledger, datasetLock, locals, answers>>

Enter(p) ==
  /\ Goto(p, "request", "check")
  /\ requestLock = {}
  /\ requestLock' = {p}
  /\ UNCHANGED <<dataset, ledger, datasetLock, locals, answers>>

\* Fault: the fingerprint of the arguments is not compared.
UncheckedReplay(p) ==
  /\ Goto(p, "check", "reply")
  /\ \E r \in call[p].request, x \in ToSet(ledger) :
       /\ Existing(r) = {x}
       /\ found' = [found EXCEPT ![p] = {x}]
  /\ UNCHANGED <<dataset, ledger, locks, call, opened, answers>>

\* The request was recorded before, with these very arguments: it is not assessed again.
Replay(p) ==
  /\ Goto(p, "check", "reply")
  /\ \E r \in call[p].request, x \in ToSet(ledger) :
       /\ Existing(r) = {x}
       /\ x.request = {r}
       /\ found' = [found EXCEPT ![p] = {x}]
  /\ UNCHANGED <<dataset, ledger, locks, call, opened, answers>>

FirstTime(p) ==
  /\ Goto(p, "check", "collect")
  /\ \A r \in call[p].request : Existing(r) = {}
  /\ UNCHANGED <<dataset, ledger, locks, locals, answers>>

\* The snapshot is taken and the policies are loaded.
Collect(p, s) ==
  /\ Goto(p, "collect", "open")
  /\ call' = [call EXCEPT ![p].snapshots = {s}]
  /\ UNCHANGED <<dataset, ledger, locks, opened, found, answers>>

-----------------------------------------------------------------------------
(* edit_observations: lock, load, edit, save, unlock *)

\* Fault: the dataset is loaded without its lock.
UnlockedOpen(p) ==
  /\ Goto(p, "open", "merge")
  /\ datasetLock' = {p}
  /\ opened' = [opened EXCEPT ![p] = dataset]
  /\ UNCHANGED <<dataset, ledger, requestLock, call, found, answers>>

Open(p) ==
  /\ Goto(p, "open", "merge")
  /\ datasetLock = {}
  /\ datasetLock' = {p}
  /\ opened' = [opened EXCEPT ![p] = dataset]
  /\ UNCHANGED <<dataset, ledger, requestLock, call, found, answers>>

\* The observation of s that p collected.
CollectedBy(p, s) ==
  [change |-> call[p].change,
   evidence |-> EvidenceOf(opened[p], call[p].snapshots, s, Enriches /\ p \in Cli),
   label |-> "unknown"]

\* The call ends: its locks are released and its variables gone.
Leave(p) ==
  /\ pc' = [pc EXCEPT ![p] = "idle"]
  /\ requestLock' = requestLock \ {p}
  /\ datasetLock' = datasetLock \ {p}
  /\ call' = [call EXCEPT ![p] = NoCall]
  /\ opened' = [opened EXCEPT ![p] = NoDataset]
  /\ found' = [found EXCEPT ![p] = {}]

\* The dataset with p's observations merged into what p loaded.
Persisted(p) ==
  [s \in Snapshot |->
     IF s \in call[p].snapshots THEN Merged(opened[p][s], CollectedBy(p, s)) ELSE opened[p][s]]

AllMergeable(p) ==
  \A s \in call[p].snapshots : Mergeable(opened[p][s], CollectedBy(p, s))

\* _persist_observation and _persist_collected within an assessment.
Persist(p) ==
  /\ Goto(p, "merge", "append")
  /\ call[p].tool = "assess"
  /\ AllMergeable(p)
  /\ dataset' = Persisted(p)
  /\ opened' = [opened EXCEPT ![p] = Persisted(p)]
  /\ datasetLock' = {}
  /\ UNCHANGED <<ledger, requestLock, call, found, answers>>

\* _persist_collected in the collect command.
PersistCollected(p) ==
  /\ pc[p] = "merge"
  /\ call[p].tool = "collect"
  /\ AllMergeable(p)
  /\ dataset' = Persisted(p)
  /\ Leave(p)
  /\ UNCHANGED <<ledger, answers>>

\* What p loaded, with the label v[s] for each observation p labels.
Labelled(p, v) ==
  [s \in Snapshot |->
     IF s \in DOMAIN v THEN {[o EXCEPT !.label = v[s]] : o \in opened[p][s]} ELSE opened[p][s]]

\* Fault: a row for an observation that is already labelled overrules it.
OverrulingLabel(p) ==
  /\ pc[p] = "merge"
  /\ call[p].tool = "label"
  /\ \E v \in [call[p].snapshots -> Mature] : dataset' = Labelled(p, v)
  /\ Leave(p)
  /\ UNCHANGED <<ledger, answers>>

\* _label_one for each: the observation is there and its label is not mature.
Label(p) ==
  /\ pc[p] = "merge"
  /\ call[p].tool = "label"
  /\ \A s \in call[p].snapshots : \E o \in opened[p][s] : o.label = "unknown"
  /\ \E v \in [call[p].snapshots -> Mature] : dataset' = Labelled(p, v)
  /\ Leave(p)
  /\ UNCHANGED <<ledger, answers>>

-----------------------------------------------------------------------------
(* The prediction *)

\* make_prediction over the canonical observation, its label struck out; the server
\* adds the request to the observation's source.
PredictionOf(p, s, o, c) ==
  [key |-> "protocol", predictedAt |-> Len(ledger) + 1, request |-> call[p].request,
   snapshot |-> s, change |-> c, evidence |-> o.evidence]

AppendPrediction(p) ==
  /\ Goto(p, "append", "reply")
  /\ \E s \in call[p].snapshots :
       \E o \in opened[p][s] : \E c \in o.change :
         /\ Ledger!Record(PredictionOf(p, s, o, c))
         /\ found' = [found EXCEPT ![p] = {PredictionOf(p, s, o, c)}]
  /\ UNCHANGED <<dataset, locks, call, opened, answers>>

\* The lock is released and the answer reaches the agent, or the command's user.
Reply(p) ==
  /\ pc[p] = "reply"
  /\ answers' = answers \cup [request : call[p].request, prediction : found[p]]
  /\ Leave(p)
  /\ UNCHANGED <<dataset, ledger>>

\* The call ends without an answer: a lock is not had in ten seconds, the request's
\* arguments have changed, the policies cannot be loaded, a merge or a label is
\* refused, the ledger is full, a read or a write raises, the process dies, or the
\* answer is lost on its way.
Abort(p) ==
  /\ pc[p] # "idle"
  /\ Leave(p)
  /\ UNCHANGED <<dataset, ledger, answers>>

Step(p) ==
  \/ Enter(p) \/ Replay(p) \/ FirstTime(p)
  \/ \E s \in Snapshot : Collect(p, s)
  \/ Open(p) \/ Persist(p) \/ PersistCollected(p) \/ Label(p)
  \/ AppendPrediction(p) \/ Reply(p)

Calls(p) ==
  \/ \E r \in Request : CallTool(p, r)
  \/ \E c \in Change : CallAssess(p, c)
  \/ \E S \in (SUBSET Snapshot) \ {{}} : CallCollect(p, S) \/ CallLabel(p, S)

Next == \E p \in Proc : Calls(p) \/ Step(p) \/ Abort(p)

Spec == Init /\ [][Next]_vars

-----------------------------------------------------------------------------
(* Properties. *)

\* However often a request is retried, at however many servers and after whatever
\* was lost, at most one prediction is recorded for its key (assess_change's lock
\* spans the look in the ledger and the append).
OnePredictionPerRequest ==
  \A i, j \in 1..Len(ledger) :
    \A q \in ledger[i].request, r \in ledger[j].request :
      q.change = r.change /\ q.id = r.id => i = j

\* An agent is never told of a prediction that was made for other arguments, for
\* another change or from no record: each answer names the recorded prediction of
\* its very request, and all answers for a key name the same one.
AnswersAgree ==
  /\ \A a \in answers : a.prediction \in ToSet(ledger) /\ a.prediction.request = {a.request}
  /\ \A a, b \in answers :
       a.request.change = b.request.change /\ a.request.id = b.request.id => a = b

\* d holds an observation of s, bound to this change and with this evidence.
Anchors(d, s, change, evidence) == \E o \in d[s] : o.change = change /\ o.evidence = evidence

\* The observation a prediction was made from stays in the dataset, with the same
\* evidence and bound to the same change, whatever is collected, assessed or
\* labelled meanwhile: prospective_unit_outcome will look for it there.
PredictionsAnchored ==
  \A x \in ToSet(ledger) : Anchors(dataset, x.snapshot, {x.change}, x.evidence)

\* Every observation of d is still in e, with its evidence, the change it is bound
\* to and its mature label.
Keeps(d, e) ==
  \A s \in Snapshot : \A o \in d[s] :
    \E n \in e[s] :
      /\ n.evidence = o.evidence
      /\ o.change # {} => n.change = o.change
      /\ o.label # "unknown" => n.label = o.label

\* A step never loses an observation, rewrites its evidence, moves it to another
\* change or alters a mature label (edit_observations and the merges): no process
\* saves a dataset that another has changed since it was loaded.
Sealed == [][Keeps(dataset, dataset')]_dataset

-----------------------------------------------------------------------------
(* The inductive invariants. *)

\* What the lock on mcp-assessments protects, up to the answer.
RequestInv ==
  /\ \A p \in Cli : call[p].request = {}
  /\ \A p \in Server : pc[p] \notin {"idle", "request"} => requestLock = {p}
  /\ \A p \in Server :
       pc[p] \in {"collect", "open", "merge", "append"} =>
         \A r \in call[p].request : Existing(r) = {}
  /\ OnePredictionPerRequest

AnswerInv ==
  /\ \A p \in Proc : pc[p] # "reply" => found[p] = {}
  /\ \A p \in Proc : \A x \in found[p] : x \in ToSet(ledger) /\ x.request = call[p].request
  /\ \A a \in answers : a.prediction \in ToSet(ledger) /\ a.prediction.request = {a.request}

\* What the lock on the dataset protects, up to the append.
DatasetInv ==
  /\ \A p \in Proc : pc[p] = "merge" => datasetLock = {p} /\ opened[p] = dataset
  /\ \A p \in Proc : pc[p] = "append" =>
       \A s \in Snapshot : \A o \in opened[p][s] :
         o.change # {} => Anchors(dataset, s, o.change, o.evidence)
  /\ PredictionsAnchored

IInv == TypeOK /\ RequestInv /\ AnswerInv /\ DatasetInv

-----------------------------------------------------------------------------
(* What the documents say and the code does not do. *)

\* What prospective_unit_outcome compares, labels aside: the dataset's observation o
\* and the one embedded in prediction x, all of their sources included.
CurrentSource(o) == [change |-> o.change, evidence |-> o.evidence, request |-> {}]
EmbeddedSource(x) == [change |-> {x.change}, evidence |-> x.evidence, request |-> x.request]

\* "The embedded observation is the decision-time snapshot": report and shadow evidence
\* find it in the dataset, whichever way the prediction was made.
Resolvable ==
  \A x \in ToSet(ledger) : \E o \in dataset[x.snapshot] : CurrentSource(o) = EmbeddedSource(x)

=============================================================================
