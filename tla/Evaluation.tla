------------------------------- MODULE Evaluation -------------------------------
(***************************************************************************)
(* What is measured on labelled observations (evaluation.py, Metrics of    *)
(* models.py): which labels are mature, how the past is split from the     *)
(* holdout, confusion counts, and the baselines.                           *)
(*                                                                         *)
(* Simplifications.  Instants are integers, predicates are naturals in the *)
(* order of their names, and a prediction over a set of observations is    *)
(* the subset it alerts on.  Ratios are compared by cross-multiplying;     *)
(* percentages are whole.  The logistic baseline is left out.              *)
(***************************************************************************)
EXTENDS Integers, Sequences, FiniteSets, FiniteSetsExt

CONSTANTS
  MinTrain, MinTest,  \* the sizes the evaluation asks for
  TestPercent,        \* test_fraction
  TestStartAt         \* {} or {the frozen start of the holdout}

\* EvaluationConfig.__post_init__; a frozen start is one instant.
ASSUME EvaluationAssumption ==
  /\ MinTrain \in Nat /\ MinTrain >= 2 /\ MinTest \in Nat /\ MinTest >= 1
  /\ TestPercent \in 1 .. 99
  /\ TestStartAt \subseteq Nat /\ \A s, t \in TestStartAt : s = t

Label == {"positive", "negative", "unknown"}

\* One observation.  index is its first-parent position, 0 where it has none.
Observation(Fact, Instant, Unit) ==
  [id : Nat, unit : Unit, kind : {"git_commit", "historical_change", "git_worktree"}, at : Instant,
   index : Nat, facts : SUBSET Fact, label : Label, available : Instant]

Positive(S) == {o \in S : o.label = "positive"}
Negative(S) == {o \in S : o.label = "negative"}

\* label_is_mature, labeled
Labeled(S, now) == {o \in S : o.label # "unknown" /\ o.available <= now}

-----------------------------------------------------------------------------
(* Orders. *)

\* The first difference that is not zero is positive.
Leads(d) == \E i \in DOMAIN d : d[i] > 0 /\ \A j \in 1 .. i - 1 : d[j] = 0

\* The elements of S in the order of Lt.
InOrder(S, Lt(_, _)) ==
  [i \in 1 .. Cardinality(S) |-> CHOOSE x \in S : Cardinality({y \in S : Lt(y, x)}) = i - 1]

Chronological(S) ==
  LET Lt(x, y) == Leads(<<y.at - x.at, y.id - x.id>>) IN InOrder(S, Lt)

\* First-parent order when every example has a position, else observed_at.
SplitOrder(S) ==
  LET Lt(x, y) == Leads(<<y.index - x.index, y.id - x.id>>)
  IN IF \A o \in S : o.index > 0 THEN InOrder(S, Lt) ELSE Chronological(S)

-----------------------------------------------------------------------------
(* temporal_split and _availability_filter *)

Ceil(a, b) == (a + b - 1) \div b

TestSize(n) ==
  LET share == Ceil(n * TestPercent, 100)
  IN CASE n >= MinTrain + MinTest -> Min({Max({MinTest, share}), n - MinTrain})
       [] n < MinTrain + MinTest /\ n < 2 -> 0
       [] OTHER -> Max({1, Min({n - 1, share})})

TemporalSplit(S, now) ==
  LET examples == Labeled(S, now)
      order == SplitOrder(examples)
      fixed == {o \in examples : \E start \in TestStartAt : o.at >= start}
      n == Cardinality(examples)
      latest == {order[i] : i \in n - TestSize(n) + 1 .. n}
      test == IF TestStartAt = {} THEN latest ELSE fixed
  IN [train |-> examples \ test, test |-> test]

\* Fault: a label that only became available in the holdout is kept.
UnembargoedTrain(split) == split.train

\* A label that was not available when the holdout starts is not trained on.
AvailableTrain(split) ==
  IF split.test = {} THEN split.train
  ELSE LET start == Min({o.at : o \in split.test})
       IN {o \in split.train : o.available <= start}

-----------------------------------------------------------------------------
(* Metrics *)

\* evaluate: S is labelled, and the predictor alerts on those of M.
Counts(S, M) ==
  [tp |-> Cardinality(Positive(S) \cap M), fp |-> Cardinality(Negative(S) \cap M),
   tn |-> Cardinality(Negative(S) \ M), fn |-> Cardinality(Positive(S) \ M)]

Ratio(a, b) == IF b = 0 THEN <<0, 1>> ELSE <<a, b>>
Compare(r, s) == r[1] * s[2] - s[1] * r[2]

Precision(c) == Ratio(c.tp, c.tp + c.fp)
Recall(c) == Ratio(c.tp, c.tp + c.fn)
F1(c) == Ratio(2 * c.tp, 2 * c.tp + c.fp + c.fn)

\* matthews_correlation, squared with its sign
Mcc(c) ==
  LET num == c.tp * c.tn - c.fp * c.fn
      den == (c.tp + c.fp) * (c.tp + c.fn) * (c.tn + c.fp) * (c.tn + c.fn)
  IN Ratio(IF num < 0 THEN -(num * num) ELSE num * num, den)

BelowPercent(r, percent) == Compare(r, <<percent, 100>>) < 0

\* wilson_interval, _wilson_lower: the 95% bound in thousandths, of s out of n <= MaxTrials.
\* It is the t with (s/n - t)^2 = z^2 t (1 - t) / n, and z^2 = 3.84146.
MaxTrials == 8
WilsonTable ==
  [n \in 1 .. MaxTrials |-> [s \in 0 .. n |->
     LET AtLeast(t) ==
           LET d == 1000 * s - t * n
               spread == t * (1000 - t) * n
           IN d >= 0 /\ d * d >= 3 * spread + ((spread \div 100) * 84146) \div 1000
     IN Cardinality({t \in 1 .. 999 : AtLeast(t)})]]
WilsonLower(s, n) == IF n = 0 THEN <<0, 1>> ELSE <<WilsonTable[n][s], 1000>>

-----------------------------------------------------------------------------
(* Baselines *)

\* majority_baseline: what it alerts on in the test set.
MajorityAlerts(train, test) ==
  IF Cardinality(Positive(train)) > Cardinality(Negative(train)) THEN test ELSE {}

\* best_literal_baseline: chosen on the training set, a negation named before its predicate.
BestLiteralAlerts(train, test) ==
  LET Fact == UNION {o.facts : o \in train}
      Alerts(S, l) == {o \in S : (l[1] \in o.facts) = l[2]}
      On(l) == Counts(train, Alerts(train, l))
      Name(l) == IF l[2] THEN l[1] + Max(Fact) ELSE l[1]
      Beats(l, m) ==
        Leads(<<Compare(Mcc(On(l)), Mcc(On(m))), Compare(F1(On(l)), F1(On(m))),
                Compare(Precision(On(l)), Precision(On(m))), Name(l) - Name(m)>>)
      variants == Fact \X BOOLEAN
  IN IF Fact = {} THEN {}
     ELSE Alerts(test, CHOOSE l \in variants : \A m \in variants \ {l} : Beats(l, m))

=============================================================================
