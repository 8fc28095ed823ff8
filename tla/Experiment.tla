------------------------------ MODULE Experiment ------------------------------
(***************************************************************************)
(* One experiment, from labelled history to an approved policy: learning,  *)
(* the two promotions with their gates, the prospective predictions, the   *)
(* outcomes that arrive for them, and the two readers of that evidence     *)
(* (lifecycle.py, reporting.py).                                           *)
(*                                                                         *)
(* One candidate is followed; the other reviewed policies only enter and   *)
(* leave the active set.  Files, attestations and races are the business   *)
(* of PolicyLifecycle and PredictionLedger: here a call is one step.       *)
(*                                                                         *)
(* Simplifications.  A snapshot of a change unit is known by its facts; a  *)
(* cohort of historical changes has one labelled snapshot of each.  The    *)
(* signal probe, which may refuse to learn, is left out; stability and the *)
(* logistic baseline are left open.  A day is one tick.                    *)
(***************************************************************************)
EXTENDS HornLearner

CONSTANTS
  Predicate,      \* the predicates of the pack, naturals
  Settings,       \* the learner settings an experiment may have been set up with
  Cohorts,        \* the labelled histories it may start from
  Pilots,         \* bound: the settings and histories followed into the pilot
  Start,          \* the first instant after every one of a cohort
  MaxClock,       \* bound on time
  Unit,           \* prospective change units
  Snapshots,      \* the facts a snapshot of a unit may have
  MaxPredictions, \* bound on the predictions recorded
  Other,          \* other policies
  OtherRules,     \* their rules: a set of bodies for each
  Gates,          \* PromotionConfig
  SizeFacts       \* large_change and multi_file_change

ASSUME ExperimentAssumption ==
  /\ Start \in Nat /\ MaxClock \in Nat /\ Start <= MaxClock
  /\ Gates.positiveForShadow \in Nat
  /\ Predicate \subseteq 1 .. 9 /\ Snapshots \subseteq SUBSET Predicate
  /\ SizeFacts \subseteq Predicate
  /\ Settings \subseteq Setting(Predicate)
  /\ \A D \in Cohorts : D \subseteq Observation(Predicate, 0 .. Start, {"history"})
  /\ Pilots \subseteq Settings \X Cohorts
  /\ \A D \in Cohorts : IsFiniteSet(D) /\ \A o \in D : o.id < 100
  /\ \A D \in Cohorts : \A o, q \in D : o.id = q.id => o = q

VARIABLES
  settings,     \* the frozen learner settings
  clock,        \* now
  dataset,      \* the observations
  candidate,    \* {} or {the candidate manifest}
  shadow,       \* {} or {its review for shadow}
  approved,     \* {} or {its review for approval, with the evidence}
  others,       \* how the other policies stand
  predictions   \* the ledger

vars == <<settings, clock, dataset, candidate, shadow, approved, others, predictions>>

Cell == {"tp", "fp", "tn", "fn"}
Times == Start .. MaxClock

Init ==
  /\ settings \in Settings
  /\ dataset \in Cohorts
  /\ clock = Start
  /\ candidate = {} /\ shadow = {} /\ approved = {}
  /\ others = [x \in Other |-> "candidate"]
  /\ predictions = {}

-----------------------------------------------------------------------------
(* learn_candidate *)

CanLearn(D, now) ==
  LET mature == Labeled(D, now)
  IN /\ mature # {}
     /\ {o.kind : o \in mature} \in {{"git_commit"}, {"historical_change"}}
     /\ Cardinality(AvailableTrain(TemporalSplit(D, now))) >= 2

Alerts(rules, S) == {o \in S : Predicts(rules, o.facts)}

\* readiness: the positive outcomes that have matured.
ReadyPositives(D, now) == Cardinality(Positive(Labeled(D, now)))

LearnCandidate(D, now) ==
  LET split == TemporalSplit(D, now)
      train == AvailableTrain(split)
  IN [rules |-> {rule.body : rule \in Range(LearnHorn(settings, train).kept)},
      train |-> train, test |-> split.test, dataset |-> D,
      positive |-> ReadyPositives(D, now)]

\* A candidate's training and holdout observations are apart, and of its dataset.
Candidate(c) == c.train \cap c.test = {} /\ (c.train \cup c.test) \subseteq c.dataset

\* _cmd_learn, save_learned_candidate
Learn ==
  /\ shadow = {}
  /\ CanLearn(dataset, clock)
  /\ candidate' = {LearnCandidate(dataset, clock)}
  /\ UNCHANGED <<settings, clock, dataset, shadow, approved, others, predictions>>

-----------------------------------------------------------------------------
(* Predictions and outcomes. *)

\* Bound: the pilot of a candidate of Pilots, from its review as a shadow to its approval.
InPilot ==
  shadow # {} /\ approved = {} /\ <<settings, {o \in dataset : o.kind # "git_worktree"}>> \in Pilots

\* The policies a call loads: the approved ones, and with --include-shadow the shadow too.
ActivePolicies(includeShadow) ==
  [candidate |-> CASE approved # {} -> "approved"
                   [] approved = {} /\ shadow # {} /\ includeShadow -> "shadow"
                   [] OTHER -> "absent",
   others |-> {x \in Other : others[x] = "approved"}]

\* match_rules
MatchedBy(policies, facts) ==
  [candidate |-> {body \in UNION {c.rules : c \in candidate} :
                    policies.candidate # "absent" /\ Matches(body, facts)},
   others |-> {x \in policies.others : Predicts(OtherRules[x], facts)}]

\* A prediction speaks of a snapshot of its unit that was there, and matches what its
\* policies say of it.
Prediction(p) ==
  \E o \in dataset :
    /\ o.id = p.observation /\ o.unit = p.unit /\ o.at <= p.at
    /\ p.matched = MatchedBy(p.policies, o.facts)

\* make_prediction, with the observation persisted first.
Assess(u, facts, includeShadow) ==
  LET policies == ActivePolicies(includeShadow)
      known == {o \in dataset : o.unit = u /\ o.facts = facts}
      new == [id |-> 100 + Cardinality(predictions), unit |-> u, kind |-> "git_worktree",
              at |-> clock, index |-> 0, facts |-> facts, label |-> "unknown", available |-> 0]
      current == IF known = {} THEN new ELSE CHOOSE o \in known : TRUE
  IN /\ InPilot
     /\ Cardinality(predictions) < MaxPredictions
     /\ dataset' = dataset \cup {current}
     /\ predictions' = predictions \cup
          {[id |-> Cardinality(predictions), at |-> clock, unit |-> u, observation |-> current.id,
            policies |-> policies, matched |-> MatchedBy(policies, facts)]}
     /\ UNCHANGED <<settings, clock, candidate, shadow, approved, others>>

\* Fault: the evidence may be dated later than it is recorded.
PostdatedRecordOutcome(o, label, available) ==
  /\ o.kind # "historical_change"
  /\ o.label = "unknown"
  /\ o.at < available
  /\ dataset' = (dataset \ {o}) \cup {[o EXCEPT !.label = label, !.available = available]}
  /\ UNCHANGED <<settings, clock, candidate, shadow, approved, others, predictions>>

\* _label_one: the evidence may have become available before it is recorded.  Labels of
\* historical changes are derived only.
RecordOutcome(o, label, available) ==
  /\ o.kind # "historical_change"
  /\ o.label = "unknown"
  /\ o.at < available /\ available <= clock
  /\ dataset' = (dataset \ {o}) \cup {[o EXCEPT !.label = label, !.available = available]}
  /\ UNCHANGED <<settings, clock, candidate, shadow, approved, others, predictions>>

\* Fault: the outcome is dated by the snapshot that was labelled first in the file.
FirstListedOutcome(u, now) ==
  LET known == {o \in dataset : o.unit = u /\ o.label # "unknown" /\ o.available <= now}
      listed == {o \in known : \A q \in known : o.id <= q.id}
  IN [labels |-> {o.label : o \in known}, available |-> {o.available : o \in listed}]

\* prospective_unit_outcome: the labels its snapshots have by now, and the earliest evidence.
UnitOutcome(u, now) ==
  LET known == {o \in dataset : o.unit = u /\ o.label # "unknown" /\ o.available <= now}
      earliest == {o \in known : \A q \in known : o.available <= q.available}
  IN [labels |-> {o.label : o \in known}, available |-> {o.available : o \in earliest}]

\* Only an outcome that became available strictly after the prediction evaluates it.
After(outcome, p) == outcome.labels # {} /\ \A a \in outcome.available : a > p.at

CellOf(predicted, labels) ==
  CASE labels = {"positive"} -> IF predicted THEN "tp" ELSE "fn"
    [] labels = {"negative"} -> IF predicted THEN "fp" ELSE "tn"

Conflicting(P, now) == \E p \in P : Cardinality(UnitOutcome(p.unit, now).labels) > 1

-----------------------------------------------------------------------------
(* shadow_evidence *)

\* By time, then in the order recorded: where the code compares ids, of two at one instant,
\* and no property tells the two apart.
Precedes(p, q) == Leads(<<q.at - p.at, q.id - p.id>>)

\* Fault: each unit's last prediction counts.
Latest(P) == {p \in P : \A q \in P : q.unit = p.unit /\ q # p => Precedes(q, p)}

\* Each unit's earliest prediction.
Earliest(P) == {p \in P : \A q \in P : q.unit = p.unit /\ q # p => Precedes(p, q)}

\* The predictions made by the exact shadow manifest since its review.
ShadowPredictions(now) ==
  {p \in predictions :
     p.policies.candidate = "shadow" /\ \E r \in shadow : r.at <= p.at /\ p.at <= now}

\* validate_prediction_cohort: one policy set.
OneCohort(P) == \A p, q \in P : p.policies = q.policies

EvidenceReadable(now) ==
  LET mine == ShadowPredictions(now)
  IN OneCohort(mine) /\ ~Conflicting(Earliest(mine), now)

\* Fault: an outcome known before the prediction counts too.
CarelessCounted(now) ==
  {p \in Earliest(ShadowPredictions(now)) : UnitOutcome(p.unit, now).labels # {}}

Counted(now) == {p \in Earliest(ShadowPredictions(now)) : After(UnitOutcome(p.unit, now), p)}

CellsOver(P, Predicted(_), now) ==
  [u \in Unit |->
     IF \E p \in P : p.unit = u
       THEN CellOf(Predicted(CHOOSE p \in P : p.unit = u), UnitOutcome(u, now).labels)
       ELSE "none"]

Tally(cells) ==
  LET Of(c) == Cardinality({u \in Unit : cells[u] = c})
  IN [tp |-> Of("tp"), fp |-> Of("fp"), tn |-> Of("tn"), fn |-> Of("fn")]

Matched(p) == p.matched.candidate # {}

ShadowCells(now) == CellsOver(Counted(now), Matched, now)

RuleTally(body, now) ==
  LET MatchedRule(p) == body \in p.matched.candidate
  IN Tally(CellsOver(Counted(now), MatchedRule, now))

ElapsedDays(now) ==
  LET instants == {p.at : p \in Earliest(ShadowPredictions(now))}
  IN IF instants = {} THEN 0 ELSE Max(instants) - Min(instants)

-----------------------------------------------------------------------------
(* promotion_decision and promote_candidate *)

\* The blocking gates on shadow evidence, for all rules and for each.
EvidenceMeetsGates(c, now) ==
  LET all == Tally(ShadowCells(now))
      Lower(s, n) == ~BelowPercent(WilsonLower(s, n), Gates.shadowPrecision)
  IN /\ Cardinality(Earliest(ShadowPredictions(now))) >= Gates.shadowUnits
     /\ Cardinality(Counted(now)) >= Gates.shadowMature
     /\ ElapsedDays(now) >= Gates.shadowDays
     /\ Lower(all.tp, all.tp + all.fp)
     /\ ~BelowPercent(WilsonLower(all.tp, all.tp + all.fn), Gates.shadowRecall)
     /\ Compare(Mcc(all), <<Gates.shadowMcc * Gates.shadowMcc, 10000>>) >= 0
     /\ all.tp + all.fn >= Gates.shadowPositive
     /\ all.tn + all.fp >= Gates.shadowNegative
     /\ \A body \in c.rules :
          LET rule == RuleTally(body, now)
          IN rule.tp + rule.fp >= Gates.shadowMatches /\ Lower(rule.tp, rule.tp + rule.fp)

\* The blocking gates on the holdout.
HoldoutMeetsGates(c) ==
  /\ c.rules # {}
  /\ Cardinality(c.train) >= MinTrain /\ Cardinality(c.test) >= MinTest
  /\ c.test # {}
  /\ \A body \in c.rules :
       LET rule == Counts(c.test, Alerts({body}, c.test))
       IN rule.tp + rule.fp > 0 /\ ~BelowPercent(Precision(rule), Gates.testPrecision)

\* What the baselines alert on: nothing, everything, the majority, the best literal, size.
Baselines(c) ==
  {{}, c.test, MajorityAlerts(c.train, c.test), BestLiteralAlerts(c.train, c.test),
   {o \in c.test : o.facts \cap SizeFacts # {}}}

\* The gates an override may pass; stability and the logistic baseline are left open.
Improves(c) ==
  LET On(M) == Mcc(Counts(c.test, M))
  IN \A M \in Baselines(c) : Compare(On(Alerts(c.rules, c.test)), On(M)) > 0

OtherwiseUnmet(c) ==
  LET test == Counts(c.test, Alerts(c.rules, c.test))
  IN \/ c.positive < Gates.positiveForApproval
     \/ BelowPercent(Precision(test), Gates.testPrecision)
     \/ BelowPercent(Recall(test), Gates.testRecall)
     \/ ~Improves(c)

\* The first reviewed transition needs the dataset the candidate was learned from.
PromoteToShadow ==
  /\ shadow = {}
  /\ \E c \in candidate :
       /\ c.dataset = dataset
       /\ CanLearn(dataset, clock) /\ LearnCandidate(dataset, clock) = c
       /\ c.rules # {}
       /\ shadow' = {[at |-> clock,
                      unmet |-> ReadyPositives(dataset, clock) < Gates.positiveForShadow]}
  /\ UNCHANGED <<settings, clock, dataset, candidate, approved, others, predictions>>

PromoteToApproved ==
  /\ shadow # {} /\ approved = {}
  /\ EvidenceReadable(clock)
  /\ \E c \in candidate :
       /\ HoldoutMeetsGates(c)
       /\ EvidenceMeetsGates(c, clock)
       /\ \E open \in BOOLEAN :
            approved' = {[at |-> clock, cells |-> ShadowCells(clock),
                          unmet |-> OtherwiseUnmet(c) \/ open]}
  /\ UNCHANGED <<settings, clock, dataset, candidate, shadow, others, predictions>>

\* Another policy is approved, or an approved one deprecated.  Bound: around one prediction.
ReviewOther(x) ==
  /\ InPilot /\ Cardinality(predictions) = 1
  /\ \/ others[x] = "candidate" /\ others' = [others EXCEPT ![x] = "approved"]
     \/ others[x] = "approved" /\ others' = [others EXCEPT ![x] = "deprecated"]
  /\ UNCHANGED <<settings, clock, dataset, candidate, shadow, approved, predictions>>

-----------------------------------------------------------------------------
(* build_pilot_report: every prediction under one policy set. *)

\* Fault: a report keeps the outcomes that were known before the prediction.
PoolingReport(policies, now) ==
  LET earliest == Earliest({p \in predictions : p.policies = policies /\ p.at <= now})
      Alerted(p) == p.matched.candidate # {} \/ p.matched.others # {}
      evaluated == {p \in earliest : UnitOutcome(p.unit, now).labels # {}}
  IN [units |-> Cardinality(earliest), cells |-> CellsOver(evaluated, Alerted, now)]

Report(policies, now) ==
  LET earliest == Earliest({p \in predictions : p.policies = policies /\ p.at <= now})
      Alerted(p) == p.matched.candidate # {} \/ p.matched.others # {}
      evaluated == {p \in earliest : After(UnitOutcome(p.unit, now), p)}
  IN [units |-> Cardinality(earliest), cells |-> CellsOver(evaluated, Alerted, now)]

-----------------------------------------------------------------------------
Tick ==
  /\ InPilot
  /\ clock < MaxClock
  /\ clock' = clock + 1
  /\ UNCHANGED <<settings, dataset, candidate, shadow, approved, others, predictions>>

Next ==
  \/ Learn \/ PromoteToShadow \/ PromoteToApproved \/ Tick
  \/ \E u \in Unit, facts \in Snapshots, includeShadow \in BOOLEAN : Assess(u, facts, includeShadow)
  \/ \E o \in dataset, label \in {"positive", "negative"}, available \in Times :
       RecordOutcome(o, label, available)
  \/ \E x \in Other : ReviewOther(x)

Spec == Init /\ [][Next]_vars

-----------------------------------------------------------------------------
(* Properties. *)

\* Each file holds what it is for, and nothing is dated in the future.
TypeOK ==
  /\ settings \in Settings /\ clock \in Start .. MaxClock
  /\ dataset \subseteq Observation(Predicate, 0 .. clock, Unit \cup {"history"})
  /\ \A c \in candidate : Candidate(c)
  /\ shadow \subseteq [at : Start .. clock, unmet : BOOLEAN]
  /\ \A a \in approved : a.at \in Start .. clock /\ a.cells \in [Unit -> Cell \cup {"none"}]
  /\ others \in [Other -> {"candidate", "approved", "deprecated"}]
  /\ \A p \in predictions : p.unit \in Unit /\ p.at \in Start .. clock /\ Prediction(p)

\* What every action keeps: no two observations have one id; before the review of the
\* candidate nothing is predicted; predictions are numbered in the order of their times,
\* and the shadow's are not older than its review.
IInv ==
  /\ TypeOK
  /\ IsFiniteSet(predictions)
  /\ IsFiniteSet(dataset)
  /\ \A o, q \in dataset : o.id = q.id => o = q
  /\ \A o \in dataset : o.id < 100 + Cardinality(predictions)
  /\ shadow = {} => predictions = {}
  /\ \A r, s \in shadow : r = s
  /\ \A p \in predictions : p.id \in Nat /\ p.id < Cardinality(predictions)
  /\ \A p, q \in predictions : (p.id = q.id => p = q) /\ (p.id < q.id => p.at <= q.at)
  /\ \A p \in predictions, r \in shadow : p.policies.candidate = "shadow" => r.at <= p.at

Learned == candidate' \ candidate

\* The rules of a candidate depend on no label that was not available when its holdout
\* begins: were any of those the opposite, it would have the same rules.  So neither the
\* split, the choice and ranking of predicates, the logistic model and the tree that give
\* an order and seeds, nor the search reads the holdout, and labels that matured late are
\* embargoed, in commit order as in time order.
HoldoutUnseen ==
  [][\A c \in Learned :
       LET start == Min({o.at : o \in c.test})
           unseen == {o \in Labeled(c.dataset, clock) : o.available > start}
           Opposite(o) == [o EXCEPT !.label = IF @ = "positive" THEN "negative" ELSE "positive"]
           Flipped(F) == (c.dataset \ F) \cup {Opposite(o) : o \in F}
       IN c.test # {} =>
            \A F \in SUBSET unseen : LearnCandidate(Flipped(F), clock).rules = c.rules]_vars

\* Each rule covers as many positives that no rule before it covers as the support gate
\* asks, and unless clauses were dropped the rules together pass the precision gate on the
\* whole training window, whatever was pruned, and on which window it was grown.
RuleSetIsEarned ==
  [][\A c \in Learned :
       LET run == LearnHorn(settings, c.train)
           kept == run.kept
           pos == run.search.pos
           Before(i) == UNION {kept[j].coverage : j \in 1 .. i - 1}
           union == Before(Len(kept) + 1)
       IN /\ \A i \in DOMAIN kept :
               Cardinality((kept[i].coverage \cap pos) \ Before(i)) >= settings.minSupport
          /\ kept # <<>> /\ kept = run.found =>
               ~FailsGate(settings, Cardinality(union \cap pos), Cardinality(union))]_vars

\* With a beam wide enough to keep every eligible clause, and no seeds, the beam search
\* finds every clause the exhaustive search would accept: what it does not refine could
\* have had no acceptable refinement.  (The widest there is keeps 256.)
BeamIsLossless ==
  [][\A c \in Learned :
       LET on == LearnHorn(settings, c.train).search
           With(strategy) == [settings EXCEPT !.strategy = strategy, !.beamWidth = 256]
       IN Cardinality(LiteralBodies(settings, on.preds)) < 256 =>
            Candidates(With("beam"), on, {}) = Candidates(With("exhaustive"), on, {})]_vars

\* A unit counts towards an approval only by a prediction of the shadow manifest itself,
\* made after its review, before any outcome of the unit was available, and with no
\* earlier one: however late and in whatever order outcomes were recorded or backdated.
ApprovalIsProspective ==
  [][\A a \in approved' \ approved, r \in shadow : \A u \in Unit :
       a.cells[u] # "none" =>
         \E p \in predictions :
           /\ p.unit = u /\ p.policies.candidate = "shadow" /\ p.at >= r.at
           /\ \A q \in predictions : q.unit = u /\ q.policies = p.policies => q.id >= p.id
           /\ \A o \in dataset : o.unit = u /\ o.label # "unknown" => o.available > p.at
           /\ (a.cells[u] \in {"tp", "fp"}) = (p.matched.candidate # {})]_vars

\* Once a unit counts, no later assessment and no later outcome changes how it counts,
\* unless that outcome was already available when the counted prediction was made.
CellsAreFinal ==
  [][EvidenceReadable(clock) =>
       LET counted == Counted(clock)
           before == ShadowCells(clock)
           Refutes(o, p) == o.unit = p.unit /\ o.label # "unknown" /\ o.available <= p.at
       IN (counted # {} /\ EvidenceReadable(clock)') =>
            LET after == ShadowCells(clock)'
            IN \A p \in counted :
                 \/ after[p.unit] = before[p.unit]
                 \/ \E o \in dataset' \ dataset : Refutes(o, p)]_vars

\* What the pilot report of a policy set says agrees with the evidence an approval would
\* rest on: the same units are evaluated, and the same way if no other policy was active.
ReportAgrees ==
  LET mine == ShadowPredictions(clock)
  IN EvidenceReadable(clock) =>
       \A p \in mine :
         LET cells == Report(p.policies, clock).cells
         IN /\ \A u \in Unit : cells[u] = "none" <=> ShadowCells(clock)[u] = "none"
            /\ p.policies.others = {} => cells = ShadowCells(clock)

=============================================================================
