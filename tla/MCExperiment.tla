------------------------------ MODULE MCExperiment ------------------------------
(* Experiment for TLC: histories of eight commits over two predicates, the last *)
(* two the holdout, and the pilot of a candidate over two change units.         *)
EXTENDS Experiment, TLC

\* Commit i: positions may differ from times, and an outcome may come late.
Commit(i, at, facts, positive, late) ==
  [id |-> i, unit |-> "history", kind |-> "git_commit", at |-> at, index |-> i, facts |-> facts,
   label |-> IF positive THEN "positive" ELSE "negative",
   available |-> IF late THEN 10 ELSE at + 1]

\* Commit 4 became available in the holdout, commits 5 and 6 were committed out of order.
MCHistory(f, positive) ==
  {Commit(1, 1, f[1], positive[1], FALSE), Commit(2, 2, f[2], positive[2], FALSE),
   Commit(3, 3, f[3], positive[3], FALSE), Commit(4, 4, {1}, positive[4], TRUE),
   Commit(5, 6, f[4], positive[5], FALSE), Commit(6, 5, {1, 2}, positive[6], FALSE),
   Commit(7, 8, {1}, positive[7], FALSE), Commit(8, 9, {}, positive[8], FALSE)}

Outcomes == {<<TRUE, FALSE, TRUE, FALSE, TRUE, FALSE, TRUE, FALSE>>,
             <<TRUE, TRUE, FALSE, TRUE, FALSE, TRUE, TRUE, FALSE>>}

MCPredicate == {1, 2}
MCCommits == {MCHistory(f, positive) : f \in [1 .. 4 -> SUBSET MCPredicate], positive \in Outcomes}

\* Changes have no position, and are split by time; a commit may not be labelled yet.
Changes(D) == {[o EXCEPT !.kind = "historical_change", !.index = 0] : o \in D}
Unlabelled(D) == {IF o.id = 2 THEN [o EXCEPT !.label = "unknown", !.available = 0] ELSE o : o \in D}
MCFew ==
  {MCHistory(f, positive) : f \in [1 .. 4 -> {{1}, {2}}], positive \in Outcomes}
MCCohorts == MCCommits \cup {Changes(D) : D \in MCFew} \cup {Unlabelled(D) : D \in MCFew}

\* A model that weighs a predicate by the difference of the classes it is seen in, and a
\* tree with a leaf for each combination of predicates.
MCWeight(ex, p) ==
  LET signed == Cardinality(Holding(ex, p) \cap PositiveMask(ex))
                - Cardinality(Holding(ex, p) \ PositiveMask(ex))
  IN IF signed < 0 THEN -signed ELSE signed
MCHeavier(ex, p) == {q \in MCPredicate : MCWeight(ex, q) > MCWeight(ex, p)}
MCLeaves ==
  {{[predicate |-> 1, negated |-> a], [predicate |-> 2, negated |-> b]} : a, b \in BOOLEAN}
MCTreeSeeds(ex) ==
  {b \in MCLeaves :
     /\ Coverage(ex, b) # {}
     /\ 2 * Cardinality(Coverage(ex, b) \cap PositiveMask(ex)) >= Cardinality(Coverage(ex, b))}

Plain ==
  [maxBody |-> 2, maxRules |-> 2, allowNegation |-> TRUE, maxPredicates |-> 2,
   minPrecision |-> 60, wilson |-> FALSE, minSupport |-> 1, costTenths |-> 5,
   priorOdds |-> FALSE, strategy |-> "exhaustive", beamWidth |-> 20, wracc |-> FALSE,
   temporal |-> FALSE, prunePercent |-> 0, ranking |-> "rate_gap", treeSeeds |-> FALSE]
Pruning ==
  [Plain EXCEPT !.strategy = "beam", !.beamWidth = 2, !.wracc = TRUE, !.priorOdds = TRUE,
                !.prunePercent = 40, !.treeSeeds = TRUE]
Weighing ==
  [Plain EXCEPT !.maxPredicates = 1, !.ranking = "logistic_weight", !.treeSeeds = TRUE]
Strict ==
  [Plain EXCEPT !.strategy = "beam", !.wilson = TRUE, !.minPrecision = 20, !.temporal = TRUE]
MCSettings == {Plain, Pruning, Strict, Weighing}

MCPilots ==
  {<<Plain, MCHistory(<<{1}, {2}, {1}, {1, 2}>>,
                      <<TRUE, FALSE, TRUE, FALSE, TRUE, FALSE, TRUE, FALSE>>)>>}

MCOtherRules == [x \in Other |-> {{[predicate |-> 2, negated |-> FALSE]}}]
MCSnapshots == {{1}, {2}}

MCGates ==
  [positiveForShadow |-> 2, positiveForApproval |-> 3, testPrecision |-> 50, testRecall |-> 50,
   shadowUnits |-> 2, shadowMature |-> 2, shadowDays |-> 1, shadowPrecision |-> 20,
   shadowRecall |-> 20, shadowMcc |-> 10, shadowPositive |-> 1, shadowNegative |-> 1,
   shadowMatches |-> 1]
MCTestStartAt == {}
Symmetry == Permutations(Unit)

=============================================================================
