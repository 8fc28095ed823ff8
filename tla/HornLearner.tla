------------------------------ MODULE HornLearner ------------------------------
(***************************************************************************)
(* The Horn learner (learners/horn.py): which predicates it searches, how  *)
(* it evaluates a conjunction, its two searches, the covering loop, and    *)
(* the pruning of literals and of whole clauses.                           *)
(*                                                                         *)
(* Simplifications.  A body is a set of literals: the code keeps one       *)
(* order, and compares signatures.  A bit mask is a set of positions in    *)
(* the chronological examples.  Gates are those of absolute precision with *)
(* a point or a Wilson estimate; the lift gate, the work budget, the near  *)
(* misses and the permutation null, which choose no rule, are left out.    *)
(* Utilities are scaled to integers.  What the logistic model and the tree *)
(* of the signal probe make of the training examples are constant          *)
(* operators: their arithmetic is floating-point.                          *)
(***************************************************************************)
EXTENDS Evaluation, Functions

CONSTANTS
  Heavier(_, _),  \* the predicates with a greater absolute weight than one's, by the examples
  TreeSeeds(_)    \* the conjunctions that the tree of the probe proposes, by the examples

\* HornSettings, and the inputs that LearnerConfig asks the training examples for.
Setting(Fact) ==
  [maxBody : Nat \ {0}, maxRules : Nat \ {0}, allowNegation : BOOLEAN, maxPredicates : Nat \ {0},
   minPrecision : 0 .. 100, wilson : BOOLEAN, minSupport : Nat, costTenths : Nat,
   priorOdds : BOOLEAN, strategy : {"exhaustive", "beam"}, beamWidth : 1 .. 256,
   wracc : BOOLEAN, temporal : BOOLEAN, prunePercent : 0 .. 50,
   ranking : {"rate_gap", "logistic_weight"}, treeSeeds : BOOLEAN]

PruneAttempts == 8  \* _MAX_PRUNE_ATTEMPTS

Where(ex, Test(_)) == {i \in DOMAIN ex : Test(ex[i])}
AllOf(ex) == DOMAIN ex
PositiveMask(ex) == Where(ex, LAMBDA o : o.label = "positive")
Holding(ex, p) == Where(ex, LAMBDA o : p \in o.facts)

-----------------------------------------------------------------------------
(* select_train_predicates: constant columns go, of equal columns the first *)
(* name stays, and the rest is ranked by the gap between the class rates.   *)

\* Predicates by falling score, equal ones by name.
ByScore(S, score) ==
  LET Lt(p, q) == Leads(<<score[p] - score[q], q - p>>) IN InOrder(S, Lt)

SelectTrainPredicates(s, ex) ==
  LET Fact == UNION {ex[i].facts : i \in DOMAIN ex}
      pos == PositiveMask(ex)
      neg == AllOf(ex) \ pos
      varying == {p \in Fact : Holding(ex, p) # AllOf(ex)}
      representatives ==
        {p \in varying : \A q \in varying : Holding(ex, q) = Holding(ex, p) => p <= q}
      signed == [p \in Fact |-> Cardinality(Holding(ex, p) \cap pos) * Cardinality(neg)
                                - Cardinality(Holding(ex, p) \cap neg) * Cardinality(pos)]
      gap == [p \in Fact |->
                IF s.allowNegation /\ signed[p] < 0 THEN -signed[p] ELSE signed[p]]
  IN IF pos = {} \/ neg = {} THEN <<>> ELSE ByScore(representatives, gap)

\* _train_predicate_order and apply_predicate_order: the model weighs every predicate, so a
\* ranking by weight leaves nothing of the ranking by gap.
Ordered(s, ex, ranked) ==
  LET among == Range(ranked)
      outweighed == [p \in among |-> Cardinality(among \ Heavier(ex, p))]
  IN IF s.ranking = "rate_gap" THEN ranked ELSE ByScore(among, outweighed)

RankedPredicates(s, ex) == Ordered(s, ex, SelectTrainPredicates(s, ex))

\* The predicates searched, and the rank of every other one behind them.
Searched(s, ranked) == SubSeq(ranked, 1, Min({s.maxPredicates, Len(ranked)}))

RankOf(preds, p) ==
  IF p \in Range(preds) THEN CHOOSE i \in DOMAIN preds : preds[i] = p ELSE Len(preds) + p

Literals(s, preds) ==
  {l \in [predicate : Range(preds), negated : BOOLEAN] : l.negated => s.allowNegation}

OfDistinctPredicates(b) == \A l, m \in b : l.predicate = m.predicate => l = m

\* _literal_bodies
LiteralBodies(s, preds) ==
  {b \in SUBSET Literals(s, preds) :
     Cardinality(b) \in 1 .. s.maxBody /\ OfDistinctPredicates(b)}

\* _validated_seed_bodies, of what tree_seed_bodies returns.
ValidatedSeeds(s, ex) ==
  IF s.treeSeeds THEN TreeSeeds(ex) \cap LiteralBodies(s, RankedPredicates(s, ex)) ELSE {}

-----------------------------------------------------------------------------
(* _evaluate *)

\* HornClause.matches, RuleSet.predicts
Matches(body, facts) == \A l \in body : (l.predicate \in facts) # l.negated
Predicts(rules, facts) == \E body \in rules : Matches(body, facts)

Coverage(ex, body) == Where(ex, LAMBDA o : Matches(body, o.facts))

Estimate(s, tp, alerted) == IF s.wilson THEN WilsonLower(tp, alerted) ELSE Ratio(tp, alerted)

\* _gate_reasons
FailsGate(s, tp, alerted) == BelowPercent(Estimate(s, tp, alerted), s.minPrecision)

\* _temporal_reasons: in each half it has examples of, the clause beats the base rate.
StableAcrossHalves(ex, cov, pos, scope) ==
  LET boundary == Len(ex) \div 2
      Beats(part) ==
        part # {} =>
          /\ cov \cap pos \cap part # {}
          /\ Cardinality(cov \cap pos \cap part) * Cardinality(part)
               > Cardinality(pos \cap part) * Cardinality(cov \cap part)
  IN Beats((1 .. boundary) \cap scope) /\ Beats((boundary + 1 .. Len(ex)) \cap scope)

\* A search: its examples, the predicates in their order, what is positive, the positives
\* no rule covers yet, what the rules cover, and the examples it looks at.
\* The utility, new - cost * fp - len / 20, is scaled by 20 times the divisor of the cost.
Evaluated(s, on, body) ==
  LET cov == Coverage(on.ex, body)
      pos == on.pos \cap on.scope
      neg == on.scope \ pos
      tp == Cardinality(cov \cap pos)
      fp == Cardinality(cov \cap neg)
      new == Cardinality(cov \cap pos \cap on.uncovered)
      odds == IF s.priorOdds /\ pos # {} /\ neg # {}
                THEN <<Cardinality(pos), Cardinality(neg)>> ELSE <<1, 1>>
      utility == 20 * odds[2] * new - 2 * s.costTenths * odds[1] * fp
                 - odds[2] * Cardinality(body)
      combined == on.selected \cup cov
  IN [body |-> body, coverage |-> cov, tp |-> tp, fp |-> fp, new |-> new, utility |-> utility,
      passes |->
        /\ ~FailsGate(s, tp, tp + fp)
        /\ new >= s.minSupport
        /\ utility > 0
        /\ ~FailsGate(s, Cardinality(combined \cap pos), Cardinality(combined \cap on.scope))
        /\ s.temporal => StableAcrossHalves(on.ex, cov, on.pos, on.scope)]

\* HornClause.signature, as a number that orders bodies the same way.
Signature(s, on, body) ==
  LET Name(l) == IF l.negated THEN l.predicate ELSE 10 + l.predicate
      Place(l) == Cardinality({m \in body : RankOf(on.preds, m.predicate)
                                              <= RankOf(on.preds, l.predicate)})
  IN SumSet({Name(l) * 20 ^ (s.maxBody - Place(l)) : l \in body})

\* _selection_key
Preferred(s, on, e, f) ==
  Leads(<<e.utility - f.utility,
          Compare(Estimate(s, e.tp, e.tp + e.fp), Estimate(s, f.tp, f.tp + f.fp)),
          e.new - f.new, f.fp - e.fp, Cardinality(f.body) - Cardinality(e.body),
          Signature(s, on, e.body) - Signature(s, on, f.body)>>)

-----------------------------------------------------------------------------
(* _search_iteration *)

\* _beam_key: weighted relative accuracy, then Laplace precision.
BeamLeads(s, on, e, f) ==
  LET Excess(x) == x.new * Cardinality(on.scope)
                   - (x.new + x.fp) * Cardinality(on.uncovered \cap on.scope)
      Laplace(x) == <<x.new + 1, x.new + x.fp + 2>>
  IN Leads(<<IF s.wracc THEN Excess(e) - Excess(f) ELSE 0, Compare(Laplace(e), Laplace(f)),
             e.new - f.new, f.fp - e.fp, Cardinality(f.body) - Cardinality(e.body),
             Signature(s, on, f.body) - Signature(s, on, e.body)>>)

\* Fault: only a clause that already passes the gates is refined.
GatedEligible(s, level) == {e \in level : e.new >= s.minSupport /\ e.passes}

\* What may be refined: the gates apply to what is kept, not to what is extended.
Eligible(s, level) == {e \in level : e.new >= s.minSupport}

\* _select_beam
SelectBeam(s, on, level) ==
  LET eligible == Eligible(s, level)
  IN {e \in eligible :
        Cardinality({f \in eligible : BeamLeads(s, on, f, e)}) < s.beamWidth}

\* The bodies one literal longer than those of the beam, at depth d.
Refinements(s, preds, beam, d) ==
  {b \in UNION {{e.body \cup {l} : l \in Literals(s, preds)} :
                  e \in {x \in beam : Cardinality(x.body) < d}} :
     OfDistinctPredicates(b)}

\* The next level of bodies.
Level(s, on, seen, fresh) ==
  [seen |-> seen \cup fresh, beam |-> SelectBeam(s, on, {Evaluated(s, on, b) : b \in fresh})]

\* A body is considered once, at the first depth it comes up.
Deeper(s, on, before, d) ==
  Level(s, on, before.seen, Refinements(s, on.preds, before.beam, d) \ before.seen)

\* Every body a search considers, down to the longest.
BeamSearch(s, on, first) ==
  LET search[n \in 0 .. s.maxBody - 1] ==
        IF n = 0 THEN Level(s, on, {}, first) ELSE Deeper(s, on, search[n - 1], n + 1)
  IN search[s.maxBody - 1].seen

Considered(s, on, seeds) ==
  IF s.strategy = "exhaustive" THEN LiteralBodies(s, on.preds) \cup seeds
  ELSE BeamSearch(s, on, {{l} : l \in Literals(s, on.preds)} \cup seeds)

Candidates(s, on, seeds) ==
  {e \in {Evaluated(s, on, b) : b \in Considered(s, on, seeds)} : e.passes}

-----------------------------------------------------------------------------
(* Pruning *)

\* _prune_body: literals go while the value on the prune window does not fall.
PruneBody(on, window, body) ==
  LET Value(b) ==
        LET covered == Coverage(on.ex, b) \cap window
            p == Cardinality(covered \cap on.pos)
        IN IF covered = {} THEN <<-1, 1>> ELSE <<2 * p - Cardinality(covered), Cardinality(covered)>>
      Rank(l) == RankOf(on.preds, l.predicate)
      Better(b, l, m) == Leads(<<Compare(Value(b \ {l}), Value(b \ {m})), Rank(m) - Rank(l)>>)
      pruned[b \in SUBSET body] ==
        LET best == CHOOSE l \in b : \A m \in b \ {l} : Better(b, l, m)
        IN IF Cardinality(b) = 1 \/ Compare(Value(b \ {best}), Value(b)) < 0 THEN b
           ELSE pruned[b \ {best}]
  IN pruned[body]

\* The chronological windows clauses are grown and pruned on.
PruneWindow(s, ex) ==
  LET count == (Len(ex) * s.prunePercent) \div 100
      window == Len(ex) - count + 1 .. Len(ex)
      pos == PositiveMask(ex)
      HasBoth(part) == part \cap pos # {} /\ part \ pos # {}
  IN IF HasBoth(window) /\ HasBoth(AllOf(ex) \ window) THEN window ELSE {}

Best(s, on, S) == {e \in S : \A f \in S \ {e} : Preferred(s, on, e, f)}

PassingOf(e, f) == IF e.passes THEN e ELSE f

\* Of the first candidates, the best that passes on the whole window, pruned or as it was.
ChosenAfterPruning(s, on, window, candidates) ==
  LET whole == [on EXCEPT !.scope = AllOf(on.ex)]
      tried == {e \in candidates :
                  Cardinality({f \in candidates : Preferred(s, on, f, e)}) < PruneAttempts}
      Repaired(e) == PassingOf(Evaluated(s, whole, PruneBody(on, window, e.body)),
                               Evaluated(s, whole, e.body))
  IN {Repaired(e) : e \in Best(s, on, {x \in tried : Repaired(x).passes})}

\* {} or {the rule of this iteration}
Chosen(s, on, window, candidates) ==
  IF window = {} THEN Best(s, on, candidates)
  ELSE ChosenAfterPruning(s, on, window, candidates)

Without(rules, i) == SubSeq(rules, 1, i - 1) \o SubSeq(rules, i + 1, Len(rules))

\* A clause goes if the prune window's MCC does not fall.
Pruned(on, window, rules, i) ==
  LET Part(set) == {[id |-> j, label |-> IF j \in on.pos THEN "positive" ELSE "negative"] : j \in set}
      MccOf(these) ==
        Mcc(Counts(Part(window), Part((UNION {r.coverage : r \in Range(these)}) \cap window)))
  IN IF Len(rules) > 1 /\ Compare(MccOf(Without(rules, i)), MccOf(rules)) >= 0
       THEN Without(rules, i) ELSE rules

\* From the last clause to the first.
DropClauses(on, window, found) ==
  LET left[n \in 0 .. Len(found)] ==
        IF n = 0 THEN found ELSE Pruned(on, window, left[n - 1], Len(found) + 1 - n)
  IN left[Len(found)]

-----------------------------------------------------------------------------
(* learn_horn_diagnostics *)

\* Fault: the positives that rules already cover count again.
RecountingAfterRule(on, rule) == [on EXCEPT !.selected = @ \cup rule.coverage]

\* What a rule leaves for the next iteration.
AfterRule(on, rule) ==
  [on EXCEPT !.selected = @ \cup rule.coverage, !.uncovered = @ \ rule.coverage]

\* Iteration n, up to the first that finds no rule.
Iteration(s, window, seeds, before, n) ==
  LET over == Len(before.rules) < n - 1 \/ before.on.uncovered = {}
      chosen == IF over THEN {}
                ELSE Chosen(s, before.on, window, Candidates(s, before.on, seeds))
      rule == CHOOSE r \in chosen : TRUE
  IN IF chosen = {} THEN before
     ELSE [on |-> AfterRule(before.on, rule), rules |-> Append(before.rules, rule)]

Cover(s, on, window, seeds) ==
  LET found[n \in 0 .. s.maxRules] ==
        IF n = 0 THEN [on |-> on, rules |-> <<>>]
        ELSE Iteration(s, window, seeds, found[n - 1], n)
  IN found[s.maxRules].rules

\* The first search over the examples.
FirstSearch(s, ex) ==
  LET pos == PositiveMask(ex)
  IN [ex |-> ex, pos |-> pos, uncovered |-> pos, selected |-> {},
      scope |-> AllOf(ex) \ PruneWindow(s, ex),
      preds |-> Searched(s, RankedPredicates(s, ex))]

\* The rules in the order they were found, and those left after clauses are dropped.
Kept(on, window, found) ==
  [search |-> on, found |-> found,
   kept |-> IF window = {} THEN found ELSE DropClauses(on, window, found)]

LearnHorn(s, train) ==
  LET ex == Chronological(train)
      on == FirstSearch(s, ex)
      window == PruneWindow(s, ex)
      seeds == ValidatedSeeds(s, ex)
  IN Kept(on, window, Cover(s, on, window, seeds))

=============================================================================
