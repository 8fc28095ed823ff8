--------------------------- MODULE ExperimentProofs ---------------------------
(***************************************************************************)
(* Proofs about Experiment, for any histories, settings, gates, horizons   *)
(* and split, and any number of units and predictions.                     *)
(***************************************************************************)
EXTENDS Experiment, FiniteSetTheorems, WellFoundedInduction, TLAPS

\* Every nonempty set of natural numbers has a least element.
LEMMA LeastNatural ==
  ASSUME NEW T \in SUBSET Nat, T # {}
  PROVE  \E m \in T : \A n \in T : m <= n
<1> DEFINE R == OpToRel(<, Nat)
<1>1. IsWellFoundedOn(R, Nat)
  BY NatLessThanWellFounded
<1>2. PICK m \in T : \A n \in T : ~(<<n, m>> \in R)
  <2> HIDE DEF R
  <2> QED
    BY <1>1, WFMin
<1>3. \A n \in T : ~(n < m)
  BY <1>2 DEF OpToRel
<1>4. QED
  BY <1>3

LEMMA MinOfNaturals ==
  ASSUME NEW T \in SUBSET Nat, T # {}
  PROVE  Min(T) \in T /\ \A n \in T : Min(T) <= n
BY LeastNatural DEF Min

-----------------------------------------------------------------------------
(* Ranks in a linear order. *)

LinearOrder(S, R) ==
  /\ \A x, y, z \in S : <<x, y>> \in R /\ <<y, z>> \in R => <<x, z>> \in R
  /\ \A x \in S : <<x, x>> \notin R
  /\ \A x, y \in S : x = y \/ <<x, y>> \in R \/ <<y, x>> \in R

Below(S, R, x) == {y \in S : <<y, x>> \in R}

LEMMA RankStrict ==
  ASSUME NEW S, IsFiniteSet(S), NEW R, LinearOrder(S, R)
  PROVE  /\ \A x \in S : Cardinality(Below(S, R, x)) \in 0 .. Cardinality(S) - 1
         /\ \A x, y \in S : <<x, y>> \in R =>
              Cardinality(Below(S, R, x)) < Cardinality(Below(S, R, y))
<1>1. ASSUME NEW x \in S
      PROVE  /\ IsFiniteSet(Below(S, R, x))
             /\ Cardinality(Below(S, R, x)) \in Nat
             /\ Cardinality(Below(S, R, x)) < Cardinality(S)
  <2>1. Below(S, R, x) \in SUBSET S /\ x \notin Below(S, R, x)
    BY DEF Below, LinearOrder
  <2>2. /\ IsFiniteSet(Below(S, R, x)) /\ Cardinality(Below(S, R, x)) <= Cardinality(S)
        /\ Cardinality(S) = Cardinality(Below(S, R, x)) => S = Below(S, R, x)
    BY <2>1, FS_Subset
  <2>3. Cardinality(Below(S, R, x)) \in Nat /\ Cardinality(S) \in Nat
    BY <2>2, FS_CardinalityType
  <2>4. QED
    BY <2>1, <2>2, <2>3
<1>2. ASSUME NEW x \in S, NEW y \in S, <<x, y>> \in R
      PROVE  Cardinality(Below(S, R, x)) < Cardinality(Below(S, R, y))
  <2>1. /\ Below(S, R, x) \in SUBSET Below(S, R, y)
        /\ x \in Below(S, R, y) /\ x \notin Below(S, R, x)
    BY <1>2 DEF Below, LinearOrder
  <2>2. /\ Cardinality(Below(S, R, x)) <= Cardinality(Below(S, R, y))
        /\ Cardinality(Below(S, R, y)) = Cardinality(Below(S, R, x))
             => Below(S, R, y) = Below(S, R, x)
    BY <1>1, <2>1, FS_Subset
  <2>3. QED
    BY <1>1, <2>1, <2>2
<1>3. Cardinality(S) \in Nat
  BY FS_CardinalityType
<1>4. QED
  BY <1>1, <1>2, <1>3

\* No two have one rank.
LEMMA RankUnique ==
  ASSUME NEW S, IsFiniteSet(S), NEW R, LinearOrder(S, R), NEW x \in S, NEW y \in S,
         Cardinality(Below(S, R, x)) = Cardinality(Below(S, R, y))
  PROVE  x = y
<1>1. \A z \in S : Cardinality(Below(S, R, z)) \in Int
  BY RankStrict, FS_CardinalityType
<1>2. ~(<<x, y>> \in R) /\ ~(<<y, x>> \in R)
  BY <1>1, RankStrict
<1>3. QED
  BY <1>2 DEF LinearOrder

\* Every rank is somebody's.
LEMMA RankExists ==
  ASSUME NEW S, IsFiniteSet(S), NEW R, LinearOrder(S, R), NEW i \in 1 .. Cardinality(S)
  PROVE  \E x \in S : Cardinality(Below(S, R, x)) = i - 1
<1> DEFINE n == Cardinality(S)
           rank == [x \in S |-> Cardinality(Below(S, R, x)) + 1]
<1>1. n \in Nat
  BY FS_CardinalityType
<1>2. rank \in [S -> 1 .. n]
  BY <1>1, RankStrict
<1>3. \A x, y \in S : rank[x] = rank[y] => x = y
  <2>1. \A x \in S : Cardinality(Below(S, R, x)) \in Int
    BY <1>1, RankStrict
  <2>2. QED
    BY <2>1, RankUnique
<1>4. rank \in Injection(S, 1 .. n)
  BY <1>2, <1>3 DEF Injection, IsInjective
<1>5. IsFiniteSet(1 .. n) /\ Cardinality(1 .. n) = n
  BY <1>1, FS_Interval
<1>6. rank \in Surjection(S, 1 .. n)
  BY <1>4, <1>5, FS_Injection
<1>7. PICK x \in S : rank[x] = i
  BY <1>6 DEF Surjection
<1>8. Cardinality(Below(S, R, x)) \in Int
  BY <1>1, RankStrict
<1>9. QED
  BY <1>7, <1>8

-----------------------------------------------------------------------------
(* The chronological split. *)

\* Finitely many observations with different ids, as load_observations demands.
Sound(S) ==
  /\ IsFiniteSet(S)
  /\ \A o \in S : o.id \in Nat /\ o.at \in Nat /\ o.index \in Nat
  /\ \A o, q \in S : o.id = q.id => o = q

\* Before which one an observation is split.
SplitBefore(S) ==
  {p \in S \X S :
     IF \A o \in S : o.index > 0
       THEN p[1].index < p[2].index \/ (p[1].index = p[2].index /\ p[1].id < p[2].id)
       ELSE p[1].at < p[2].at \/ (p[1].at = p[2].at /\ p[1].id < p[2].id)}

LEMMA LeadsPair ==
  ASSUME NEW a \in Int, NEW b \in Int
  PROVE  Leads(<<a, b>>) <=> a > 0 \/ (a = 0 /\ b > 0)
<1>1. DOMAIN <<a, b>> = {1, 2}
  OBVIOUS
<1>2. 1 .. 1 - 1 = {} /\ 1 .. 2 - 1 = {1}
  OBVIOUS
<1>3. Leads(<<a, b>>) <=> \/ a > 0 /\ \A j \in 1 .. 1 - 1 : <<a, b>>[j] = 0
                          \/ b > 0 /\ \A j \in 1 .. 2 - 1 : <<a, b>>[j] = 0
  BY <1>1 DEF Leads
<1>4. QED
  BY <1>2, <1>3

LEMMA SplitBeforeLinear ==
  ASSUME NEW S, Sound(S)
  PROVE  LinearOrder(S, SplitBefore(S))
<1>1. CASE \A o \in S : o.index > 0
  <2>1. \A x, y \in S : <<x, y>> \in SplitBefore(S) <=>
          x.index < y.index \/ (x.index = y.index /\ x.id < y.id)
    BY <1>1 DEF SplitBefore
  <2>2. QED
    BY <2>1 DEF Sound, LinearOrder
<1>2. CASE ~\A o \in S : o.index > 0
  <2>1. \A x, y \in S : <<x, y>> \in SplitBefore(S) <=>
          x.at < y.at \/ (x.at = y.at /\ x.id < y.id)
    BY <1>2 DEF SplitBefore
  <2>2. QED
    BY <2>1 DEF Sound, LinearOrder
<1>3. QED
  BY <1>1, <1>2

\* At each place of the order is the observation of that rank.
LEMMA SplitOrderRanks ==
  ASSUME NEW S, Sound(S), NEW i \in 1 .. Cardinality(S)
  PROVE  /\ SplitOrder(S)[i] \in S
         /\ Cardinality(Below(S, SplitBefore(S), SplitOrder(S)[i])) = i - 1
<1> DEFINE R == SplitBefore(S)
<1>1. IsFiniteSet(S) /\ LinearOrder(S, R)
  BY SplitBeforeLinear DEF Sound
<1>2. \E x \in S : Cardinality(Below(S, R, x)) = i - 1
  BY <1>1, RankExists
<1>3. CASE \A o \in S : o.index > 0
  <2> DEFINE LtI(x, y) == Leads(<<y.index - x.index, y.id - x.id>>)
             value == CHOOSE x \in S : Cardinality({y \in S : LtI(y, x)}) = i - 1
  <2>1. SplitOrder(S)[i] = value
    BY <1>3 DEF SplitOrder, InOrder
  <2>2. \A x, y \in S : LtI(y, x) <=> <<y, x>> \in R
    BY <1>3, LeadsPair DEF SplitBefore, Sound
  <2> HIDE DEF LtI
  <2>3. \A x \in S : {y \in S : LtI(y, x)} = Below(S, R, x)
    BY <2>2 DEF Below
  <2>4. value \in S /\ Cardinality({y \in S : LtI(y, value)}) = i - 1
    BY <1>2, <2>3
  <2>5. QED
    BY <2>1, <2>3, <2>4
<1>4. CASE ~\A o \in S : o.index > 0
  <2> DEFINE LtT(x, y) == Leads(<<y.at - x.at, y.id - x.id>>)
             value == CHOOSE x \in S : Cardinality({y \in S : LtT(y, x)}) = i - 1
  <2>1. SplitOrder(S)[i] = value
    BY <1>4 DEF SplitOrder, Chronological, InOrder
  <2>2. \A x, y \in S : LtT(y, x) <=> <<y, x>> \in R
    BY <1>4, LeadsPair DEF SplitBefore, Sound
  <2> HIDE DEF LtT
  <2>3. \A x \in S : {y \in S : LtT(y, x)} = Below(S, R, x)
    BY <2>2 DEF Below
  <2>4. value \in S /\ Cardinality({y \in S : LtT(y, value)}) = i - 1
    BY <1>2, <2>3
  <2>5. QED
    BY <2>1, <2>3, <2>4
<1>5. QED
  BY <1>3, <1>4

LEMMA MinOfTwo ==
  ASSUME NEW a \in Int, NEW b \in Int
  PROVE  Min({a, b}) = IF a <= b THEN a ELSE b
<1>1. \E x \in {a, b} : \A y \in {a, b} : x <= y
  OBVIOUS
<1>2. Min({a, b}) \in {a, b} /\ \A y \in {a, b} : Min({a, b}) <= y
  BY <1>1 DEF Min
<1>3. QED
  BY <1>2

LEMMA MaxOfTwo ==
  ASSUME NEW a \in Int, NEW b \in Int
  PROVE  Max({a, b}) = IF a >= b THEN a ELSE b
<1>1. \E x \in {a, b} : \A y \in {a, b} : x >= y
  OBVIOUS
<1>2. Max({a, b}) \in {a, b} /\ \A y \in {a, b} : Max({a, b}) >= y
  BY <1>1 DEF Max
<1>3. QED
  BY <1>2

\* The holdout is a part of what there is.
LEMMA TestSizeType ==
  ASSUME NEW n \in Nat
  PROVE  TestSize(n) \in 0 .. n
<1> DEFINE share == Ceil(n * TestPercent, 100)
<1>1. share \in Int
  BY EvaluationAssumption DEF Ceil
<1> HIDE DEF share
<1>2. CASE n >= MinTrain + MinTest
  <2>1. TestSize(n) = Min({Max({MinTest, share}), n - MinTrain})
    BY <1>2, EvaluationAssumption DEF TestSize, share
  <2>2. Max({MinTest, share}) \in Int /\ Max({MinTest, share}) >= 1
    BY <1>1, EvaluationAssumption, MaxOfTwo
  <2>3. QED
    BY <1>2, <2>1, <2>2, EvaluationAssumption, MinOfTwo
<1>3. CASE n < MinTrain + MinTest /\ n < 2
  BY <1>3, EvaluationAssumption DEF TestSize
<1>4. CASE n < MinTrain + MinTest /\ n >= 2
  <2>1. TestSize(n) = Max({1, Min({n - 1, share})})
    BY <1>4, EvaluationAssumption DEF TestSize, share
  <2>2. Min({n - 1, share}) \in Int /\ Min({n - 1, share}) <= n - 1
    BY <1>1, MinOfTwo
  <2>3. QED
    BY <1>4, <2>1, <2>2, MaxOfTwo
<1>5. QED
  BY <1>2, <1>3, <1>4, EvaluationAssumption

\* The holdout of the labelled observations E.
TestOf(E) ==
  LET n == Cardinality(E)
  IN IF TestStartAt = {} THEN {SplitOrder(E)[i] : i \in n - TestSize(n) + 1 .. n}
     ELSE {o \in E : \E start \in TestStartAt : o.at >= start}

LEMMA SplitOf ==
  ASSUME NEW S, NEW now
  PROVE  TemporalSplit(S, now)
           = [train |-> Labeled(S, now) \ TestOf(Labeled(S, now)), test |-> TestOf(Labeled(S, now))]
BY DEF TemporalSplit, TestOf

LEMMA TestIsPart ==
  ASSUME NEW E, Sound(E)
  PROVE  TestOf(E) \subseteq E
<1> DEFINE n == Cardinality(E)
<1>1. n \in Nat /\ TestSize(n) \in 0 .. n
  BY FS_CardinalityType, TestSizeType DEF Sound
<1>2. \A i \in n - TestSize(n) + 1 .. n : SplitOrder(E)[i] \in E
  BY <1>1, SplitOrderRanks
<1>3. QED
  BY <1>2 DEF TestOf

LEMMA TrainIsAvailable ==
  ASSUME NEW split
  PROVE  AvailableTrain(split) \subseteq split.train
BY DEF AvailableTrain

LEMMA SoundSubset ==
  ASSUME NEW S, Sound(S), NEW E \in SUBSET S
  PROVE  Sound(E)
<1>1. IsFiniteSet(E)
  BY FS_Subset DEF Sound
<1>2. QED
  BY <1>1 DEF Sound

LEMMA DatasetIsSound ==
  ASSUME IInv
  PROVE  Sound(dataset)
BY ExperimentAssumption DEF IInv, TypeOK, Sound, Observation

LEMMA LearnedCandidate ==
  ASSUME NEW D, Sound(D), NEW now
  PROVE  Candidate(LearnCandidate(D, now))
<1> DEFINE E == Labeled(D, now)
           split == TemporalSplit(D, now)
<1>1. E \in SUBSET D
  BY DEF Labeled
<1>2. Sound(E)
  BY <1>1, SoundSubset
<1>3. TestOf(E) \subseteq E
  BY <1>2, TestIsPart
<1>4. split.train = E \ TestOf(E) /\ split.test = TestOf(E)
  BY SplitOf
<1>5. AvailableTrain(split) \subseteq E \ TestOf(E)
  BY <1>4, TrainIsAvailable
<1>6. /\ LearnCandidate(D, now).train = AvailableTrain(split)
      /\ LearnCandidate(D, now).test = split.test
      /\ LearnCandidate(D, now).dataset = D
  BY DEF LearnCandidate
<1>7. QED
  BY <1>1, <1>3, <1>4, <1>5, <1>6 DEF Candidate

-----------------------------------------------------------------------------
(* Outcomes. *)

\* The labelled snapshots of a unit that are known now.
KnownOf(u, now) == {o \in dataset : o.unit = u /\ o.label # "unknown" /\ o.available <= now}

LEMMA OutcomeLabels ==
  ASSUME NEW u, NEW now
  PROVE  UnitOutcome(u, now).labels = {o.label : o \in KnownOf(u, now)}
BY DEF UnitOutcome, KnownOf

LEMMA KnownLabels ==
  ASSUME TypeOK, NEW u, NEW now
  PROVE  UnitOutcome(u, now).labels \subseteq {"positive", "negative"}
<1>1. \A o \in KnownOf(u, now) : o.label \in {"positive", "negative"}
  BY DEF TypeOK, Observation, Label, KnownOf
<1>2. QED
  BY <1>1, OutcomeLabels

\* That a prediction is evaluated by its unit's outcome says of each snapshot of the
\* unit that it was unlabelled when the prediction was made.
LEMMA AfterAll ==
  ASSUME TypeOK, NEW p, p.at \in Nat, NEW now
  PROVE  After(UnitOutcome(p.unit, now), p)
           <=> KnownOf(p.unit, now) # {} /\ \A o \in KnownOf(p.unit, now) : o.available > p.at
<1> DEFINE known == KnownOf(p.unit, now)
           earliest == {o \in known : \A q \in known : o.available <= q.available}
           times == {o.available : o \in known}
<1>1. /\ UnitOutcome(p.unit, now).labels = {o.label : o \in known}
      /\ UnitOutcome(p.unit, now).available = {o.available : o \in earliest}
  BY DEF UnitOutcome, KnownOf
<1>2. \A o \in known : o.available \in Nat
  BY ExperimentAssumption DEF TypeOK, Observation, KnownOf
<1> HIDE DEF known
<1>3. known # {} => \E o \in earliest : TRUE
  <2> SUFFICES ASSUME known # {}
               PROVE  \E o \in earliest : TRUE
    OBVIOUS
  <2>1. times \in SUBSET Nat /\ times # {}
    BY <1>2
  <2> HIDE DEF times
  <2>2. PICK t \in times : \A n \in times : t <= n
    BY <2>1, LeastNatural
  <2>3. PICK o \in known : o.available = t
    BY <2>2 DEF times
  <2>4. QED
    BY <2>2, <2>3 DEF times
<1>4. After(UnitOutcome(p.unit, now), p)
        <=> known # {} /\ \A o \in earliest : o.available > p.at
  BY <1>1 DEF After
<1>5. \A o \in earliest, q \in known : o.available <= q.available
  OBVIOUS
<1>6. earliest \subseteq known
  OBVIOUS
<1> HIDE DEF earliest
<1>7. known # {} /\ (\A o \in earliest : o.available > p.at)
        <=> known # {} /\ (\A o \in known : o.available > p.at)
  BY <1>2, <1>3, <1>5, <1>6
<1>8. QED
  BY <1>4, <1>7 DEF known

LEMMA OneLabel ==
  ASSUME TypeOK, NEW P, NEW now, ~Conflicting(P, now), NEW p \in P,
         UnitOutcome(p.unit, now).labels # {}
  PROVE  UnitOutcome(p.unit, now).labels \in {{"positive"}, {"negative"}}
<1> DEFINE labels == UnitOutcome(p.unit, now).labels
<1>1. labels \in SUBSET {"positive", "negative"}
  BY KnownLabels
<1>2. labels # {"positive", "negative"}
  <2>1. IsFiniteSet({"negative"}) /\ Cardinality({"negative"}) = 1
    BY FS_Singleton
  <2>2. Cardinality({"negative"} \cup {"positive"}) = 2
    <3>1. "positive" \notin {"negative"}
      OBVIOUS
    <3>2. Cardinality({"negative"} \cup {"positive"}) = Cardinality({"negative"}) + 1
      BY <2>1, <3>1, FS_AddElement, Zenon
    <3>3. QED
      BY <2>1, <3>2
  <2>3. {"negative"} \cup {"positive"} = {"positive", "negative"}
    OBVIOUS
  <2>4. ~(Cardinality(labels) > 1)
    BY DEF Conflicting
  <2> HIDE DEF labels
  <2>5. QED
    BY <2>2, <2>3, <2>4
<1> HIDE DEF labels
<1>3. labels # {}
  BY DEF labels
<1>4. labels \in {{"positive"}, {"negative"}}
  BY <1>1, <1>2, <1>3
<1>5. QED
  BY <1>4 DEF labels

LEMMA CellOfLabel ==
  ASSUME NEW predicted \in BOOLEAN, NEW labels \in {{"positive"}, {"negative"}}
  PROVE  /\ CellOf(predicted, labels) \in Cell
         /\ CellOf(predicted, labels) \in {"tp", "fp"} <=> predicted
<1>1. {"positive"} # {"negative"}
  OBVIOUS
<1>2. CASE labels = {"positive"}
  <2>1. CellOf(predicted, labels) = IF predicted THEN "tp" ELSE "fn"
    BY <1>1, <1>2 DEF CellOf
  <2>2. QED
    BY <2>1 DEF Cell
<1>3. CASE labels = {"negative"}
  <2>1. CellOf(predicted, labels) = IF predicted THEN "fp" ELSE "tn"
    BY <1>1, <1>3 DEF CellOf
  <2>2. QED
    BY <2>1 DEF Cell
<1>4. QED
  BY <1>2, <1>3

-----------------------------------------------------------------------------
(* The predictions that count. *)

\* The shadow's predictions are all those made with the shadow.
LEMMA ShadowsOwn ==
  ASSUME IInv
  PROVE  ShadowPredictions(clock) = {p \in predictions : p.policies.candidate = "shadow"}
<1>1. ASSUME NEW p \in predictions, p.policies.candidate = "shadow"
      PROVE  \E r \in shadow : r.at <= p.at /\ p.at <= clock
  <2>1. PICK r \in shadow : TRUE
    BY DEF IInv
  <2>2. r.at <= p.at
    BY <1>1 DEF IInv
  <2>3. p.at <= clock
    BY ExperimentAssumption DEF IInv, TypeOK
  <2>4. QED
    BY <2>2, <2>3
<1>2. QED
  BY <1>1 DEF ShadowPredictions

LEMMA Numbered ==
  ASSUME IInv, NEW p \in predictions
  PROVE  /\ p.id \in Nat /\ p.at \in Nat /\ p.at <= clock /\ clock \in Nat
         /\ p.unit \in Unit /\ Prediction(p)
BY ExperimentAssumption DEF IInv, TypeOK

LEMMA PrecedesById ==
  ASSUME IInv, NEW p \in predictions, NEW q \in predictions
  PROVE  Precedes(p, q) <=> p.id < q.id
<1>1. p.id \in Nat /\ p.at \in Nat /\ q.id \in Nat /\ q.at \in Nat
  BY Numbered
<1>2. Precedes(p, q) <=> q.at > p.at \/ (q.at = p.at /\ q.id > p.id)
  BY <1>1, LeadsPair DEF Precedes
<1>3. (p.id < q.id => p.at <= q.at) /\ (q.id < p.id => q.at <= p.at) /\ (p.id = q.id => p = q)
  BY DEF IInv
<1>4. QED
  BY <1>1, <1>2, <1>3

LEMMA EarliestOfUnit ==
  ASSUME IInv, NEW P \in SUBSET predictions, NEW p \in Earliest(P)
  PROVE  /\ p \in P
         /\ \A q \in P : q.unit = p.unit => p.id <= q.id
         /\ \A q \in Earliest(P) : q.unit = p.unit => q = p
<1>1. p \in P
  BY DEF Earliest
<1>2. ASSUME NEW x \in Earliest(P), NEW y \in P, y.unit = x.unit, y # x
      PROVE  x.id < y.id
  BY <1>2, PrecedesById DEF Earliest
<1>3. \A x \in P : x.id \in Nat
  BY Numbered
<1>4. \A q \in P : q.unit = p.unit => p.id <= q.id
  BY <1>1, <1>2, <1>3
<1>5. \A q \in Earliest(P) : q.unit = p.unit => q = p
  <2> SUFFICES ASSUME NEW q \in Earliest(P), q.unit = p.unit, q # p
               PROVE  FALSE
    OBVIOUS
  <2>1. q \in P
    BY DEF Earliest
  <2>2. p.id < q.id /\ q.id < p.id
    BY <1>1, <1>2, <2>1
  <2>3. QED
    BY <1>1, <1>3, <2>1, <2>2
<1>6. QED
  BY <1>1, <1>4, <1>5

LEMMA CountedFacts ==
  ASSUME IInv, NEW p \in Counted(clock)
  PROVE  /\ p \in ShadowPredictions(clock) /\ p \in Earliest(ShadowPredictions(clock))
         /\ p \in predictions /\ p.policies.candidate = "shadow"
         /\ After(UnitOutcome(p.unit, clock), p)
         /\ UnitOutcome(p.unit, clock).labels # {}
         /\ \A q \in Counted(clock) : q.unit = p.unit => q = p
<1> DEFINE mine == ShadowPredictions(clock)
<1>1. p \in Earliest(mine) /\ After(UnitOutcome(p.unit, clock), p)
  BY DEF Counted
<1>2. mine \in SUBSET predictions
  BY DEF ShadowPredictions
<1>3. p \in mine /\ p.policies.candidate = "shadow"
  BY <1>1 DEF Earliest, ShadowPredictions
<1>4. \A q \in Counted(clock) : q \in Earliest(mine)
  BY DEF Counted
<1> HIDE DEF mine
<1>5. \A q \in Counted(clock) : q.unit = p.unit => q = p
  BY <1>1, <1>2, <1>4, EarliestOfUnit
<1>6. UnitOutcome(p.unit, clock).labels # {}
  BY <1>1 DEF After
<1>7. QED
  BY <1>1, <1>2, <1>3, <1>5, <1>6 DEF mine

\* How a unit counts: by its one counted prediction, if it has one.
LEMMA CellOfCounted ==
  ASSUME IInv, NEW p \in Counted(clock)
  PROVE  ShadowCells(clock)[p.unit] = CellOf(Matched(p), UnitOutcome(p.unit, clock).labels)
<1>1. p.unit \in Unit
  BY CountedFacts, Numbered
<1> DEFINE chosen == CHOOSE q \in Counted(clock) : q.unit = p.unit
<1>2. ShadowCells(clock)[p.unit] = CellOf(Matched(chosen), UnitOutcome(p.unit, clock).labels)
  BY <1>1 DEF ShadowCells, CellsOver
<1>3. chosen \in Counted(clock) /\ chosen.unit = p.unit
  OBVIOUS
<1>4. chosen = p
  BY <1>3, CountedFacts
<1>5. QED
  BY <1>2, <1>4

LEMMA CellOfUncounted ==
  ASSUME NEW u \in Unit, ~\E p \in Counted(clock) : p.unit = u
  PROVE  ShadowCells(clock)[u] = "none"
BY DEF ShadowCells, CellsOver

LEMMA CountedLabel ==
  ASSUME IInv, EvidenceReadable(clock), NEW p \in Counted(clock)
  PROVE  UnitOutcome(p.unit, clock).labels \in {{"positive"}, {"negative"}}
<1>1. ~Conflicting(Earliest(ShadowPredictions(clock)), clock)
  BY DEF EvidenceReadable
<1>2. QED
  BY <1>1, CountedFacts, OneLabel DEF IInv

LEMMA CellsTyped ==
  ASSUME IInv, EvidenceReadable(clock)
  PROVE  ShadowCells(clock) \in [Unit -> Cell \cup {"none"}]
<1>1. ASSUME NEW u \in Unit
      PROVE  ShadowCells(clock)[u] \in Cell \cup {"none"}
  <2>1. CASE \E p \in Counted(clock) : p.unit = u
    <3>1. PICK p \in Counted(clock) : p.unit = u
      BY <2>1
    <3>2. Matched(p) \in BOOLEAN
      BY DEF Matched
    <3>3. QED
      BY <3>1, <3>2, CellOfCounted, CountedLabel, CellOfLabel
  <2>2. QED
    BY <2>1, CellOfUncounted
<1>2. DOMAIN ShadowCells(clock) = Unit /\ ShadowCells(clock) = [u \in Unit |-> ShadowCells(clock)[u]]
  BY DEF ShadowCells, CellsOver
<1>3. QED
  BY <1>1, <1>2

-----------------------------------------------------------------------------
(* The invariant. *)

LEMMA InitInv == Init => IInv
<1> SUFFICES ASSUME Init
             PROVE  IInv
  OBVIOUS
<1>1. IsFiniteSet(predictions)
  BY FS_EmptySet DEF Init
<1>2. dataset \subseteq Observation(Predicate, 0 .. clock, Unit \cup {"history"})
  BY ExperimentAssumption DEF Init, Observation
<1>3. clock \in Start .. MaxClock
  BY ExperimentAssumption DEF Init
<1>4. others \in [Other -> {"candidate", "approved", "deprecated"}]
  BY DEF Init
<1>5. TypeOK
  <2> settings \in Settings /\ candidate = {} /\ shadow = {} /\ approved = {} /\ predictions = {}
    BY DEF Init
  <2> QED
    BY <1>2, <1>3, <1>4 DEF TypeOK
<1>6. /\ IsFiniteSet(dataset) /\ \A o, q \in dataset : o.id = q.id => o = q
      /\ \A o \in dataset : o.id < 100 + Cardinality(predictions)
  <2>1. dataset \in Cohorts /\ Cardinality(predictions) = 0
    BY FS_EmptySet DEF Init
  <2>2. QED
    BY <2>1, ExperimentAssumption
<1>7. QED
  BY <1>1, <1>5, <1>6 DEF Init, IInv

LEMMA LearnStep ==
  ASSUME IInv, Learn
  PROVE  IInv'
<1>1. /\ shadow = {} /\ predictions = {}
      /\ candidate' = {LearnCandidate(dataset, clock)}
      /\ UNCHANGED <<settings, clock, dataset, shadow, approved, others, predictions>>
  BY DEF IInv, Learn
<1>2. Candidate(LearnCandidate(dataset, clock))
  BY DatasetIsSound, LearnedCandidate
<1>3. TypeOK'
  BY <1>1, <1>2 DEF IInv, TypeOK
<1>4. QED
  BY <1>1, <1>3 DEF IInv

LEMMA PromoteToShadowStep ==
  ASSUME IInv, PromoteToShadow
  PROVE  IInv'
<1> DEFINE short == ReadyPositives(dataset, clock) < Gates.positiveForShadow
           r == [at |-> clock, unmet |-> short]
<1>1. shadow' = {r} /\ r.at = clock /\ r \in [at : {clock}, unmet : BOOLEAN]
  <2>1. shadow' = {r}
    BY DEF PromoteToShadow
  <2>2. IsFiniteSet(dataset)
    BY DEF IInv
  <2>3. IsFiniteSet(Positive(Labeled(dataset, clock)))
    BY <2>2, FS_Subset DEF Positive, Labeled
  <2>4. short \in BOOLEAN
    BY <2>3, FS_CardinalityType, ExperimentAssumption DEF ReadyPositives
  <2> HIDE DEF short
  <2>5. QED
    BY <2>1, <2>4
<1> HIDE DEF r
<1>2. /\ UNCHANGED <<settings, clock, dataset, candidate, approved, others, predictions>>
      /\ predictions = {}
  BY DEF PromoteToShadow, IInv
<1>3. clock \in Start .. clock
  BY ExperimentAssumption DEF IInv, TypeOK
<1>4. shadow' \subseteq [at : Start .. clock', unmet : BOOLEAN]
  BY <1>1, <1>2, <1>3
<1>5. TypeOK'
  BY <1>2, <1>4 DEF IInv, TypeOK, Prediction, MatchedBy
<1>6. QED
  BY <1>1, <1>2, <1>5 DEF IInv

LEMMA PromoteToApprovedStep ==
  ASSUME IInv, PromoteToApproved
  PROVE  IInv'
<1>1. \A a \in approved' : a.at = clock /\ a.cells = ShadowCells(clock)
  BY DEF PromoteToApproved
<1>2. UNCHANGED <<settings, clock, dataset, candidate, shadow, others, predictions>>
  BY DEF PromoteToApproved
<1>3. clock \in Start .. clock
  BY ExperimentAssumption DEF IInv, TypeOK
<1>4. ShadowCells(clock) \in [Unit -> Cell \cup {"none"}]
  BY CellsTyped DEF PromoteToApproved
<1>5. \A x \in approved' : x.at \in Start .. clock' /\ x.cells \in [Unit -> Cell \cup {"none"}]
  BY <1>1, <1>2, <1>3, <1>4
<1>6. TypeOK'
  BY <1>2, <1>5 DEF IInv, TypeOK, Prediction, MatchedBy
<1>7. QED
  BY <1>2, <1>6 DEF IInv

LEMMA TickStep ==
  ASSUME IInv, Tick
  PROVE  IInv'
<1>1. /\ clock' = clock + 1 /\ clock < MaxClock
      /\ UNCHANGED <<settings, dataset, candidate, shadow, approved, others, predictions>>
  BY DEF Tick
<1>2. clock \in Nat /\ clock' \in Start .. MaxClock /\ 0 .. clock \subseteq 0 .. clock'
      /\ Start .. clock \subseteq Start .. clock'
  BY <1>1, ExperimentAssumption DEF IInv, TypeOK
<1>3. dataset' \subseteq Observation(Predicate, 0 .. clock', Unit \cup {"history"})
  BY <1>1, <1>2 DEF IInv, TypeOK, Observation
<1>4. shadow' \subseteq [at : Start .. clock', unmet : BOOLEAN]
  BY <1>1, <1>2 DEF IInv, TypeOK
<1>5. \A p \in predictions : Prediction(p)'
  BY <1>1 DEF IInv, TypeOK, Prediction, MatchedBy
<1>6. TypeOK'
  BY <1>1, <1>2, <1>3, <1>4, <1>5 DEF IInv, TypeOK
<1>7. QED
  BY <1>1, <1>6 DEF IInv

LEMMA ReviewOtherStep ==
  ASSUME IInv, NEW x \in Other, ReviewOther(x)
  PROVE  IInv'
<1>1. UNCHANGED <<settings, clock, dataset, candidate, shadow, approved, predictions>>
  BY DEF ReviewOther
<1>2. others' \in [Other -> {"candidate", "approved", "deprecated"}]
  BY DEF ReviewOther, IInv, TypeOK
<1>3. \A p \in predictions : Prediction(p)'
  BY <1>1 DEF IInv, TypeOK, Prediction, MatchedBy
<1>4. TypeOK'
  BY <1>1, <1>2, <1>3 DEF IInv, TypeOK
<1>5. QED
  BY <1>1, <1>4 DEF IInv

\* A prediction keeps speaking of its snapshot when that is labelled.
LEMMA RecordOutcomeStep ==
  ASSUME IInv, NEW o \in dataset, NEW label \in {"positive", "negative"}, NEW available \in Times,
         RecordOutcome(o, label, available)
  PROVE  IInv'
<1> DEFINE labelled == [o EXCEPT !.label = label, !.available = available]
<1>1. /\ dataset' = (dataset \ {o}) \cup {labelled} /\ available <= clock
      /\ UNCHANGED <<settings, clock, candidate, shadow, approved, others, predictions>>
  BY DEF RecordOutcome
<1>2. o \in Observation(Predicate, 0 .. clock, Unit \cup {"history"})
  BY DEF IInv, TypeOK
<1>3. available \in 0 .. clock
  BY <1>1, ExperimentAssumption DEF Times, IInv, TypeOK
<1>4. labelled \in Observation(Predicate, 0 .. clock, Unit \cup {"history"})
  BY <1>2, <1>3 DEF Observation, Label
<1>5. labelled.id = o.id /\ labelled.unit = o.unit /\ labelled.at = o.at /\ labelled.facts = o.facts
  BY <1>2 DEF Observation
<1> HIDE DEF labelled
<1>6. dataset' \subseteq Observation(Predicate, 0 .. clock', Unit \cup {"history"})
  BY <1>1, <1>4 DEF IInv, TypeOK
<1>7. \A policies, facts : MatchedBy(policies, facts)' = MatchedBy(policies, facts)
  BY <1>1 DEF MatchedBy
<1>8. ASSUME NEW p \in predictions
      PROVE  Prediction(p)'
  <2>1. PICK q \in dataset : /\ q.id = p.observation /\ q.unit = p.unit /\ q.at <= p.at
                             /\ p.matched = MatchedBy(p.policies, q.facts)
    BY Numbered DEF Prediction
  <2>2. PICK x \in dataset' : x.id = q.id /\ x.unit = q.unit /\ x.at = q.at /\ x.facts = q.facts
    BY <1>1, <1>5
  <2>3. p.matched = MatchedBy(p.policies, x.facts)'
    BY <1>1, <2>1, <2>2 DEF MatchedBy
  <2>4. QED
    BY <2>1, <2>2, <2>3 DEF Prediction
<1>9. TypeOK'
  BY <1>1, <1>6, <1>8 DEF IInv, TypeOK
<1>10. IsFiniteSet(dataset')
  BY <1>1, FS_RemoveElement, FS_AddElement DEF IInv
<1>11. \A x, y \in dataset' : x.id = y.id => x = y
  BY <1>1, <1>5 DEF IInv
<1>12. \A x \in dataset' : x.id < 100 + Cardinality(predictions')
  BY <1>1, <1>5 DEF IInv
<1>13. QED
  BY <1>1, <1>9, <1>10, <1>11, <1>12 DEF IInv

LEMMA AssessStep ==
  ASSUME IInv, NEW u \in Unit, NEW facts \in Snapshots, NEW includeShadow \in BOOLEAN,
         Assess(u, facts, includeShadow)
  PROVE  IInv'
<1> DEFINE n == Cardinality(predictions)
           new == [id |-> 100 + n, unit |-> u, kind |-> "git_worktree",
                   at |-> clock, index |-> 0, facts |-> facts, label |-> "unknown", available |-> 0]
<1>1. PICK current, p, policies :
        /\ dataset' = dataset \cup {current} /\ predictions' = predictions \cup {p}
        /\ current \in {o \in dataset : o.unit = u /\ o.facts = facts} \cup {new}
        /\ p = [id |-> n, at |-> clock, unit |-> u, observation |-> current.id,
                policies |-> policies, matched |-> MatchedBy(policies, facts)]
  <2> DEFINE known == {o \in dataset : o.unit = u /\ o.facts = facts}
             chosen == IF known = {} THEN new ELSE CHOOSE o \in known : TRUE
             active == ActivePolicies(includeShadow)
             made == [id |-> n, at |-> clock, unit |-> u, observation |-> chosen.id,
                      policies |-> active, matched |-> MatchedBy(active, facts)]
  <2>1. dataset' = dataset \cup {chosen} /\ predictions' = predictions \cup {made}
    BY DEF Assess
  <2>2. chosen \in known \cup {new}
    OBVIOUS
  <2> HIDE DEF chosen, active
  <2>3. QED
    BY <2>1, <2>2
<1>2. /\ n \in Nat /\ clock \in Nat /\ shadow # {}
      /\ UNCHANGED <<settings, clock, candidate, shadow, approved, others>>
  BY FS_CardinalityType, ExperimentAssumption DEF IInv, TypeOK, Assess, InPilot
<1>3. /\ current \in dataset \/ current = new
      /\ current.unit = u /\ current.facts = facts
  BY <1>1
<1>4. new \in Observation(Predicate, 0 .. clock, Unit \cup {"history"})
  BY <1>2, ExperimentAssumption DEF Observation, Label
<1>5. current.at <= clock
  BY <1>2, <1>3 DEF IInv, TypeOK, Observation
<1>6. new.id = 100 + n
  OBVIOUS
<1>7. /\ p.id = n /\ p.at = clock /\ p.unit = u /\ p.observation = current.id
      /\ p.policies = policies /\ p.matched = MatchedBy(policies, facts)
  BY <1>1
<1> HIDE DEF new
<1>8. dataset' \subseteq Observation(Predicate, 0 .. clock', Unit \cup {"history"})
  BY <1>1, <1>2, <1>3, <1>4 DEF IInv, TypeOK
<1>9. p \notin predictions /\ IsFiniteSet(predictions') /\ Cardinality(predictions') = n + 1
  <2>1. p \notin predictions
    BY <1>2, <1>7 DEF IInv
  <2>2. QED
    BY <1>1, <1>2, <2>1, FS_AddElement DEF IInv
<1>10. \A q \in predictions' : Prediction(q)'
  <2>1. ASSUME NEW q \in predictions
        PROVE  Prediction(q)'
    <3>1. PICK o \in dataset : /\ o.id = q.observation /\ o.unit = q.unit /\ o.at <= q.at
                               /\ q.matched = MatchedBy(q.policies, o.facts)
      BY Numbered DEF Prediction
    <3>2. q.matched = MatchedBy(q.policies, o.facts)'
      BY <1>2, <3>1 DEF MatchedBy
    <3>3. QED
      BY <1>1, <1>2, <3>1, <3>2 DEF Prediction
  <2>2. Prediction(p)'
    <3>1. p.matched = MatchedBy(p.policies, current.facts)'
      BY <1>2, <1>3, <1>7 DEF MatchedBy
    <3>2. QED
      BY <1>1, <1>2, <1>3, <1>5, <1>7, <3>1 DEF Prediction
  <2>3. QED
    BY <1>1, <1>2, <2>1, <2>2
<1>11. TypeOK'
  <2>1. clock \in Start .. clock
    BY ExperimentAssumption DEF IInv, TypeOK
  <2>2. \A q \in predictions' : q.unit \in Unit /\ q.at \in Start .. clock'
    BY <1>1, <1>2, <1>7, <2>1 DEF IInv, TypeOK
  <2>3. QED
    BY <1>1, <1>2, <1>8, <1>10, <2>2 DEF IInv, TypeOK
<1>12. IsFiniteSet(dataset')
  BY <1>1, <1>2, FS_AddElement DEF IInv
<1>13. \A x, y \in dataset' : x.id = y.id => x = y
  <2>1. \A x \in dataset : x.id \in Nat /\ x.id < 100 + n
    BY DEF IInv, TypeOK, Observation
  <2>2. QED
    BY <1>1, <1>2, <1>3, <1>6, <2>1 DEF IInv
<1>14. \A x \in dataset' : x.id < 100 + Cardinality(predictions')
  <2>1. \A x \in dataset : x.id \in Nat /\ x.id < 100 + n
    BY DEF IInv, TypeOK, Observation
  <2>2. QED
    BY <1>1, <1>2, <1>3, <1>6, <1>9, <2>1
<1>15. \A q \in predictions' : q.id \in Nat /\ q.id < Cardinality(predictions')
  BY <1>1, <1>2, <1>7, <1>9 DEF IInv
<1>16. \A x, y \in predictions' : (x.id = y.id => x = y) /\ (x.id < y.id => x.at <= y.at)
  <2>1. \A x \in predictions : x.id \in Nat /\ x.id < n /\ x.at <= clock
    BY Numbered DEF IInv
  <2>2. QED
    BY <1>1, <1>2, <1>7, <2>1 DEF IInv
<1>17. \A q \in predictions', r \in shadow' : q.policies.candidate = "shadow" => r.at <= q.at
  <2>1. \A r \in shadow : r.at <= clock
    BY <1>2, ExperimentAssumption DEF IInv, TypeOK
  <2>2. QED
    BY <1>1, <1>2, <1>7, <2>1 DEF IInv
<1>18. QED
  BY <1>1, <1>2, <1>9, <1>11, <1>12, <1>13, <1>14, <1>15, <1>16, <1>17 DEF IInv

LEMMA InvStep == IInv /\ [Next]_vars => IInv'
<1> SUFFICES ASSUME IInv, [Next]_vars
             PROVE  IInv'
  OBVIOUS
<1>1. CASE UNCHANGED vars
  <2>1. UNCHANGED <<settings, clock, dataset, candidate, shadow, approved, others, predictions>>
    BY <1>1 DEF vars
  <2>2. \A p \in predictions : Prediction(p)'
    BY <2>1 DEF IInv, TypeOK, Prediction, MatchedBy
  <2>3. TypeOK'
    BY <2>1, <2>2 DEF IInv, TypeOK
  <2>4. QED
    BY <2>1, <2>3 DEF IInv
<1>2. QED
  BY <1>1, LearnStep, PromoteToShadowStep, PromoteToApprovedStep, TickStep, AssessStep,
     RecordOutcomeStep, ReviewOtherStep DEF Next

\* No two observations share an id, predictions are numbered as they are made and never
\* belong to a review that came later (storage.py, lifecycle.py).
THEOREM Invariance == Spec => []IInv
<1>1. QED
  BY InitInv, InvStep, PTL DEF Spec

\* The history, the candidate and its reviews, the policies and the ledger are of their
\* types; a candidate's training examples are none of its holdout's, and each prediction
\* speaks of a snapshot of its unit that was there, with what its policies say of it
\* (lifecycle.py, evaluation.py, models.py).
THEOREM TypeCorrect == Spec => []TypeOK
<1>1. IInv => TypeOK
  BY DEF IInv
<1>2. QED
  BY <1>1, Invariance, PTL

-----------------------------------------------------------------------------
(* The report and the approval. *)

LEMMA ReportOfShadow ==
  ASSUME IInv, EvidenceReadable(clock), NEW p \in ShadowPredictions(clock), NEW u \in Unit
  PROVE  /\ Report(p.policies, clock).cells[u] = "none" <=> ShadowCells(clock)[u] = "none"
         /\ p.policies.others = {} =>
              Report(p.policies, clock).cells[u] = ShadowCells(clock)[u]
<1> DEFINE mine == ShadowPredictions(clock)
           pool == {q \in predictions : q.policies = p.policies /\ q.at <= clock}
           cells == Report(p.policies, clock).cells
           chosen == CHOOSE q \in Counted(clock) : q.unit = u
           Alerted(q) == q.matched.candidate # {} \/ q.matched.others # {}
           labels == UnitOutcome(u, clock).labels
<1>1. pool = mine
  <2>1. p \in predictions /\ p.policies.candidate = "shadow"
    BY ShadowsOwn
  <2>2. pool \subseteq mine
    BY <2>1, ShadowsOwn
  <2>3. \A q \in mine : q \in predictions /\ q.at <= clock
    BY ShadowsOwn, Numbered
  <2>4. \A q \in mine : q.policies = p.policies
    BY DEF EvidenceReadable, OneCohort
  <2>5. QED
    BY <2>2, <2>3, <2>4
<1>2. Counted(clock) = {q \in Earliest(pool) : After(UnitOutcome(q.unit, clock), q)}
  BY <1>1 DEF Counted
<1>3. cells[u] = IF \E q \in Counted(clock) : q.unit = u THEN CellOf(Alerted(chosen), labels)
                 ELSE "none"
  BY <1>2 DEF Report, CellsOver
<1>4. CASE ~\E q \in Counted(clock) : q.unit = u
  BY <1>3, <1>4, CellOfUncounted
<1>5. CASE \E q \in Counted(clock) : q.unit = u
  <2>1. chosen \in Counted(clock) /\ chosen.unit = u
    BY <1>5
  <2> HIDE DEF chosen
  <2>2. labels \in {{"positive"}, {"negative"}}
    BY <2>1, CountedLabel
  <2>3. ShadowCells(clock)[u] = CellOf(Matched(chosen), labels)
    BY <2>1, CellOfCounted
  <2>4. Alerted(chosen) \in BOOLEAN /\ Matched(chosen) \in BOOLEAN
    BY DEF Matched
  <2>5. p.policies.others = {} => Alerted(chosen) = Matched(chosen)
    <3>1. chosen \in predictions /\ chosen \in mine
      BY <2>1, CountedFacts
    <3>2. chosen.policies = p.policies
      BY <3>1 DEF EvidenceReadable, OneCohort
    <3>3. PICK o \in dataset : chosen.matched = MatchedBy(chosen.policies, o.facts)
      BY <3>1, Numbered DEF Prediction
    <3>4. chosen.matched.others \subseteq p.policies.others
      BY <3>2, <3>3 DEF MatchedBy
    <3>5. QED
      BY <3>4 DEF Matched
  <2>6. "none" \notin Cell
    BY DEF Cell
  <2> HIDE DEF cells, Alerted, labels
  <2>7. cells[u] = CellOf(Alerted(chosen), labels)
    BY <1>3, <1>5
  <2>8. cells[u] \in Cell /\ ShadowCells(clock)[u] \in Cell
    BY <2>2, <2>3, <2>4, <2>7, CellOfLabel
  <2>9. cells[u] # "none" /\ ShadowCells(clock)[u] # "none"
    BY <2>6, <2>8
  <2>10. p.policies.others = {} => cells[u] = ShadowCells(clock)[u]
    BY <2>3, <2>5, <2>7
  <2>11. QED
    BY <2>9, <2>10 DEF cells
<1>6. QED
  BY <1>4, <1>5

\* The pilot report and an approval read the same evidence: build_pilot_report and
\* shadow_evidence agree on which units are evaluated, and on how if no other policy was
\* active with the shadow (reporting.py, lifecycle.py).
THEOREM ReportAndApproval == Spec => []ReportAgrees
<1>1. IInv => ReportAgrees
  <2> SUFFICES ASSUME IInv, EvidenceReadable(clock), NEW p \in ShadowPredictions(clock)
               PROVE  /\ \A u \in Unit : Report(p.policies, clock).cells[u] = "none"
                                           <=> ShadowCells(clock)[u] = "none"
                      /\ p.policies.others = {} =>
                           Report(p.policies, clock).cells = ShadowCells(clock)
    BY DEF ReportAgrees
  <2> DEFINE cells == Report(p.policies, clock).cells
  <2>1. /\ \A u \in Unit : cells[u] = "none" <=> ShadowCells(clock)[u] = "none"
        /\ p.policies.others = {} => \A u \in Unit : cells[u] = ShadowCells(clock)[u]
    BY ReportOfShadow
  <2>2. /\ cells = [u \in Unit |-> cells[u]]
        /\ ShadowCells(clock) = [u \in Unit |-> ShadowCells(clock)[u]]
    BY DEF Report, ShadowCells, CellsOver
  <2> HIDE DEF cells
  <2>3. (\A u \in Unit : cells[u] = ShadowCells(clock)[u]) => cells = ShadowCells(clock)
    BY <2>2
  <2>4. QED
    BY <2>1, <2>3 DEF cells
<1>2. QED
  BY <1>1, Invariance, PTL

\* What a unit that counts was counted by.
LEMMA CountsProspectively ==
  ASSUME IInv, EvidenceReadable(clock), NEW r \in shadow, NEW u \in Unit,
         ShadowCells(clock)[u] # "none"
  PROVE  \E p \in predictions :
           /\ p.unit = u /\ p.policies.candidate = "shadow" /\ p.at >= r.at
           /\ \A q \in predictions : q.unit = u /\ q.policies = p.policies => q.id >= p.id
           /\ \A o \in dataset : o.unit = u /\ o.label # "unknown" => o.available > p.at
           /\ (ShadowCells(clock)[u] \in {"tp", "fp"}) = (p.matched.candidate # {})
<1>1. PICK p \in Counted(clock) : p.unit = u
  BY CellOfUncounted
<1>2. /\ p \in predictions /\ p.policies.candidate = "shadow"
      /\ p \in Earliest(ShadowPredictions(clock))
      /\ After(UnitOutcome(p.unit, clock), p)
  BY CountedFacts
<1>3. p.id \in Nat /\ p.at \in Nat /\ p.at >= r.at
  <2>1. r.at \in Nat
    BY ExperimentAssumption DEF IInv, TypeOK
  <2>2. QED
    BY <1>2, <2>1, Numbered DEF IInv
<1>4. ASSUME NEW q \in predictions, q.unit = u, q.policies = p.policies
      PROVE  q.id >= p.id
  <2>1. q \in ShadowPredictions(clock)
    BY <1>2, <1>4, ShadowsOwn
  <2>2. ShadowPredictions(clock) \in SUBSET predictions
    BY ShadowsOwn
  <2>3. p.id <= q.id
    BY <1>1, <1>2, <1>4, <2>1, <2>2, EarliestOfUnit
  <2>4. QED
    BY <1>3, <2>3, Numbered
<1>5. ASSUME NEW o \in dataset, o.unit = u, o.label # "unknown"
      PROVE  o.available > p.at
  <2>1. o.available <= clock
    BY ExperimentAssumption DEF IInv, TypeOK, Observation
  <2>2. o \in KnownOf(p.unit, clock)
    BY <1>1, <1>5, <2>1 DEF KnownOf
  <2>3. QED
    BY <1>2, <1>3, <2>2, AfterAll DEF IInv
<1>6. (ShadowCells(clock)[u] \in {"tp", "fp"}) = (p.matched.candidate # {})
  <2>1. Matched(p) \in BOOLEAN
    BY DEF Matched
  <2>2. ShadowCells(clock)[u] \in {"tp", "fp"} <=> Matched(p)
    BY <1>1, <2>1, CellOfCounted, CountedLabel, CellOfLabel
  <2>3. QED
    BY <2>2 DEF Matched
<1>7. QED
  BY <1>1, <1>2, <1>3, <1>4, <1>5, <1>6

\* However late and in whatever order outcomes are recorded or backdated, a unit counts
\* towards an approval only by the shadow's first prediction of it, made after its review
\* and before any outcome of the unit was available (shadow_evidence of lifecycle.py).
THEOREM Prospective == Spec => ApprovalIsProspective
<1>1. ASSUME IInv, [Next]_vars, NEW a \in approved' \ approved, NEW r \in shadow, NEW u \in Unit,
             a.cells[u] # "none"
      PROVE  \E p \in predictions :
               /\ p.unit = u /\ p.policies.candidate = "shadow" /\ p.at >= r.at
               /\ \A q \in predictions : q.unit = u /\ q.policies = p.policies => q.id >= p.id
               /\ \A o \in dataset : o.unit = u /\ o.label # "unknown" => o.available > p.at
               /\ (a.cells[u] \in {"tp", "fp"}) = (p.matched.candidate # {})
  <2>1. approved' # approved
    BY <1>1
  <2>2. PromoteToApproved
    BY <1>1, <2>1 DEF Next, vars, Learn, PromoteToShadow, Tick, Assess, RecordOutcome, ReviewOther
  <2>3. EvidenceReadable(clock) /\ a.cells = ShadowCells(clock)
    BY <1>1, <2>2 DEF PromoteToApproved
  <2>4. QED
    BY <1>1, <2>3, CountsProspectively
<1>2. IInv /\ [Next]_vars =>
        \A a \in approved' \ approved, r \in shadow : \A u \in Unit :
          a.cells[u] # "none" =>
            \E p \in predictions :
              /\ p.unit = u /\ p.policies.candidate = "shadow" /\ p.at >= r.at
              /\ \A q \in predictions : q.unit = u /\ q.policies = p.policies => q.id >= p.id
              /\ \A o \in dataset : o.unit = u /\ o.label # "unknown" => o.available > p.at
              /\ (a.cells[u] \in {"tp", "fp"}) = (p.matched.candidate # {})
  BY <1>1
<1>3. QED
  BY <1>2, Invariance, PTL DEF Spec, ApprovalIsProspective


-----------------------------------------------------------------------------
(* What counted stays counted. *)

ShadowMade(P) == {p \in P : p.policies.candidate = "shadow"}
LabelledOf(D, u) == {o \in D : o.unit = u /\ o.label # "unknown"}
LabelsOf(D, u) == {o.label : o \in LabelledOf(D, u)}
Informed(D, p) ==
  LabelledOf(D, p.unit) # {} /\ \A o \in LabelledOf(D, p.unit) : o.available > p.at

\* The evidence, of the dataset and the ledger alone: no label is from the future.
Evidence ==
  /\ Counted(clock) = {p \in Earliest(ShadowMade(predictions)) : Informed(dataset, p)}
  /\ \A p \in Counted(clock) :
       ShadowCells(clock)[p.unit] = CellOf(Matched(p), LabelsOf(dataset, p.unit))
  /\ EvidenceReadable(clock) =>
       \A p \in Counted(clock) : LabelsOf(dataset, p.unit) \in {{"positive"}, {"negative"}}

LEMMA EvidenceNow == IInv => Evidence
<1> SUFFICES ASSUME IInv
             PROVE  Evidence
  OBVIOUS
<1>1. \A u : KnownOf(u, clock) = LabelledOf(dataset, u)
  <2>1. \A o \in dataset : o.available <= clock
    BY ExperimentAssumption DEF IInv, TypeOK, Observation
  <2>2. QED
    BY <2>1 DEF KnownOf, LabelledOf
<1>2. \A u : UnitOutcome(u, clock).labels = LabelsOf(dataset, u)
  BY <1>1, OutcomeLabels DEF LabelsOf
<1>3. \A p \in predictions : After(UnitOutcome(p.unit, clock), p) <=> Informed(dataset, p)
  BY <1>1, AfterAll, Numbered DEF Informed, IInv
<1>4. ShadowPredictions(clock) = ShadowMade(predictions)
  BY ShadowsOwn DEF ShadowMade
<1>5. Earliest(ShadowMade(predictions)) \subseteq predictions
  BY DEF Earliest, ShadowMade
<1>6. Counted(clock) = {p \in Earliest(ShadowMade(predictions)) : Informed(dataset, p)}
  BY <1>3, <1>4, <1>5 DEF Counted
<1>7. \A p \in Counted(clock) :
        ShadowCells(clock)[p.unit] = CellOf(Matched(p), LabelsOf(dataset, p.unit))
  BY <1>2, CellOfCounted
<1>8. EvidenceReadable(clock) =>
        \A p \in Counted(clock) : LabelsOf(dataset, p.unit) \in {{"positive"}, {"negative"}}
  BY <1>2, CountedLabel
<1>9. QED
  BY <1>6, <1>7, <1>8 DEF Evidence

LEMMA EvidenceThen == IInv' => Evidence'
BY EvidenceNow, PTL

\* Nothing unsays a label, and what is predicted is added at the end.
LEMMA EvidenceGrows ==
  ASSUME IInv, [Next]_vars
  PROVE  /\ \A o \in dataset : o.label # "unknown" => o \in dataset'
         /\ predictions \subseteq predictions'
         /\ \A q \in predictions' \ predictions, p \in predictions : p.id < q.id
<1>1. ASSUME NEW u, NEW facts, NEW includeShadow, Assess(u, facts, includeShadow)
      PROVE  /\ dataset \subseteq dataset' /\ predictions \subseteq predictions'
             /\ \A q \in predictions' \ predictions, p \in predictions : p.id < q.id
  <2>1. dataset \subseteq dataset'
    BY <1>1 DEF Assess
  <2>2. /\ predictions \subseteq predictions'
        /\ \A q \in predictions' \ predictions : q.id = Cardinality(predictions)
    BY <1>1 DEF Assess
  <2>3. \A p \in predictions : p.id < Cardinality(predictions)
    BY DEF IInv
  <2>4. QED
    BY <2>1, <2>2, <2>3
<1>2. ASSUME NEW x \in dataset, NEW label, NEW available, RecordOutcome(x, label, available)
      PROVE  predictions' = predictions /\ \A o \in dataset : o.label # "unknown" => o \in dataset'
  BY <1>2 DEF RecordOutcome
<1>3. CASE dataset' = dataset /\ predictions' = predictions
  BY <1>3
<1>4. QED
  BY <1>1, <1>2, <1>3 DEF Next, vars, Learn, PromoteToShadow, PromoteToApproved, Tick, ReviewOther

LEMMA CountsOn ==
  ASSUME IInv, [Next]_vars, EvidenceReadable(clock), EvidenceReadable(clock)',
         NEW p \in Counted(clock),
         \A o \in dataset' \ dataset :
           ~(o.unit = p.unit /\ o.label # "unknown" /\ o.available <= p.at)
  PROVE  ShadowCells(clock)'[p.unit] = ShadowCells(clock)[p.unit]
<1>1. IInv'
  BY InvStep
<1>2. /\ Counted(clock)' = {q \in Earliest(ShadowMade(predictions')) : Informed(dataset', q)}
      /\ \A q \in Counted(clock)' :
           ShadowCells(clock)'[q.unit] = CellOf(Matched(q), LabelsOf(dataset', q.unit))
      /\ \A q \in Counted(clock)' : LabelsOf(dataset', q.unit) \in {{"positive"}, {"negative"}}
  BY <1>1, EvidenceThen DEF Evidence, Matched
<1>3. /\ p \in Earliest(ShadowMade(predictions)) /\ Informed(dataset, p)
      /\ ShadowCells(clock)[p.unit] = CellOf(Matched(p), LabelsOf(dataset, p.unit))
      /\ LabelsOf(dataset, p.unit) \in {{"positive"}, {"negative"}}
  BY EvidenceNow DEF Evidence
<1>4. /\ \A o \in dataset : o.label # "unknown" => o \in dataset'
      /\ predictions \subseteq predictions'
      /\ \A q \in predictions' \ predictions, x \in predictions : x.id < q.id
  BY EvidenceGrows
<1>5. p \in predictions /\ p \in ShadowMade(predictions)
  BY <1>3 DEF Earliest, ShadowMade
<1>6. p \in Earliest(ShadowMade(predictions'))
  <2>1. p \in ShadowMade(predictions')
    BY <1>4, <1>5 DEF ShadowMade
  <2>2. ASSUME NEW q \in ShadowMade(predictions'), q.unit = p.unit, q # p
        PROVE  Precedes(p, q)
    <3>1. CASE q \in predictions
      <4>1. q \in ShadowMade(predictions)
        BY <3>1 DEF ShadowMade
      <4>2. QED
        BY <1>3, <2>2, <4>1 DEF Earliest
    <3>2. CASE q \notin predictions
      <4>1. q \in predictions' /\ p \in predictions' /\ p.id < q.id
        BY <1>4, <1>5, <3>2 DEF ShadowMade
      <4>2. p.id \in Nat /\ q.id \in Nat /\ p.at \in Nat /\ q.at \in Nat /\ p.at <= q.at
        BY <1>1, <4>1, ExperimentAssumption DEF IInv, TypeOK
      <4>3. Leads(<<q.at - p.at, q.id - p.id>>)
        BY <4>1, <4>2, LeadsPair
      <4>4. QED
        BY <4>3 DEF Precedes
    <3>3. QED
      BY <3>1, <3>2
  <2>3. QED
    BY <2>1, <2>2 DEF Earliest
<1>7. LabelledOf(dataset, p.unit) \subseteq LabelledOf(dataset', p.unit)
  BY <1>4 DEF LabelledOf
<1>8. Informed(dataset', p)
  <2>1. ASSUME NEW o \in LabelledOf(dataset', p.unit)
        PROVE  o.available > p.at
    <3>1. CASE o \in dataset
      BY <1>3, <3>1 DEF Informed, LabelledOf
    <3>2. CASE o \notin dataset
      <4>1. o.available \in Nat /\ p.at \in Nat
        BY <1>1, <1>5, Numbered, ExperimentAssumption DEF IInv, TypeOK, Observation, LabelledOf
      <4>2. ~(o.available <= p.at)
        BY <3>2 DEF LabelledOf
      <4>3. QED
        BY <4>1, <4>2
    <3>3. QED
      BY <3>1, <3>2
  <2>2. QED
    BY <1>3, <1>7, <2>1 DEF Informed
<1>9. p \in Counted(clock)'
  BY <1>2, <1>6, <1>8
<1>10. LabelsOf(dataset, p.unit) = LabelsOf(dataset', p.unit)
  <2>1. LabelsOf(dataset, p.unit) \subseteq LabelsOf(dataset', p.unit)
    BY <1>7 DEF LabelsOf
  <2>2. LabelsOf(dataset', p.unit) \in {{"positive"}, {"negative"}}
    BY <1>2, <1>9
  <2>3. QED
    BY <1>3, <2>1, <2>2
<1>11. QED
  BY <1>2, <1>3, <1>9, <1>10

\* Once a unit counts for an approval, neither another assessment nor another outcome
\* changes how it counts, but for an outcome that was available when it was predicted
\* (shadow_evidence of lifecycle.py).
THEOREM Final == Spec => CellsAreFinal
<1> DEFINE Same == EvidenceReadable(clock) =>
             LET counted == Counted(clock)
                 before == ShadowCells(clock)
                 Refutes(o, p) == o.unit = p.unit /\ o.label # "unknown" /\ o.available <= p.at
             IN (counted # {} /\ EvidenceReadable(clock)') =>
                  LET after == ShadowCells(clock)'
                  IN \A p \in counted :
                       \/ after[p.unit] = before[p.unit]
                       \/ \E o \in dataset' \ dataset : Refutes(o, p)
<1>1. IInv /\ [Next]_vars => Same
  BY CountsOn
<1>2. QED
  BY <1>1, Invariance, PTL DEF Spec, CellsAreFinal


-----------------------------------------------------------------------------
(* The holdout is unseen. *)

Image(phi, A) == {phi[x] : x \in A}

LEMMA ImageSize ==
  ASSUME NEW S, IsFiniteSet(S), NEW T, NEW phi \in [S -> T],
         \A x, y \in S : phi[x] = phi[y] => x = y, NEW A \in SUBSET S
  PROVE  IsFiniteSet(Image(phi, A)) /\ Cardinality(Image(phi, A)) = Cardinality(A)
<1> DEFINE f == [x \in A |-> phi[x]]
<1>1. IsFiniteSet(A)
  BY FS_Subset
<1>2. f \in [A -> Image(phi, A)]
  BY DEF Image
<1>3. \A x, y \in A : f[x] = f[y] => x = y
  OBVIOUS
<1>4. \A z \in Image(phi, A) : \E x \in A : f[x] = z
  BY DEF Image
<1> HIDE DEF f
<1>5. f \in Injection(A, Image(phi, A)) /\ f \in Surjection(A, Image(phi, A))
  BY <1>2, <1>3, <1>4 DEF Injection, IsInjective, Surjection
<1>6. QED
  BY <1>1, <1>5, FS_Surjection

\* phi changes nothing that the split looks at.
Relabels(phi, E) ==
  /\ phi \in [E -> Image(phi, E)]
  /\ \A o \in E : phi[o].id = o.id /\ phi[o].at = o.at /\ phi[o].index = o.index

LEMMA RelabelledSound ==
  ASSUME NEW E, Sound(E), NEW phi, Relabels(phi, E)
  PROVE  /\ Sound(Image(phi, E))
         /\ \A x, y \in E : phi[x] = phi[y] => x = y
         /\ \A A \in SUBSET E : Cardinality(Image(phi, A)) = Cardinality(A)
<1>1. \A x, y \in E : phi[x] = phi[y] => x = y
  <2> SUFFICES ASSUME NEW x \in E, NEW y \in E, phi[x] = phi[y]
               PROVE  x = y
    OBVIOUS
  <2>1. phi[x].id = x.id /\ phi[y].id = y.id
    BY DEF Relabels
  <2>2. QED
    BY <2>1 DEF Sound
<1>2. \A A \in SUBSET E : IsFiniteSet(Image(phi, A)) /\ Cardinality(Image(phi, A)) = Cardinality(A)
  <2>1. IsFiniteSet(E) /\ phi \in [E -> Image(phi, E)]
    BY DEF Sound, Relabels
  <2>2. QED
    BY ONLY <1>1, <2>1, ImageSize
<1>3. \A z \in Image(phi, E) : \E x \in E : z = phi[x]
  BY DEF Image
<1>4. Sound(Image(phi, E))
  <2>1. \A z \in Image(phi, E) : z.id \in Nat /\ z.at \in Nat /\ z.index \in Nat
    BY <1>3 DEF Sound, Relabels
  <2>2. ASSUME NEW z \in Image(phi, E), NEW w \in Image(phi, E), z.id = w.id
        PROVE  z = w
    <3>1. PICK x \in E, y \in E : z = phi[x] /\ w = phi[y]
      BY <1>3
    <3>2. x.id = y.id
      BY <2>2, <3>1 DEF Relabels
    <3>3. x = y
      BY <3>2 DEF Sound
    <3>4. QED
      BY <3>1, <3>3
  <2>3. QED
    BY <1>2, <2>1, <2>2 DEF Sound
<1>5. QED
  BY <1>1, <1>2, <1>4

\* So the order of the split is the same,
LEMMA RelabelledOrder ==
  ASSUME NEW E, Sound(E), NEW phi, Relabels(phi, E), NEW i \in 1 .. Cardinality(E)
  PROVE  SplitOrder(Image(phi, E))[i] = phi[SplitOrder(E)[i]]
<1> DEFINE G == Image(phi, E)
           x == SplitOrder(E)[i]
           z == SplitOrder(G)[i]
<1>1. /\ Sound(G) /\ Cardinality(G) = Cardinality(E)
      /\ \A a, b \in E : phi[a] = phi[b] => a = b
      /\ \A A \in SUBSET E : Cardinality(Image(phi, A)) = Cardinality(A)
  BY RelabelledSound
<1>2. x \in E /\ Cardinality(Below(E, SplitBefore(E), x)) = i - 1
  BY SplitOrderRanks
<1>3. z \in G /\ Cardinality(Below(G, SplitBefore(G), z)) = i - 1
  BY <1>1, SplitOrderRanks
<1>4. (\A o \in G : o.index > 0) <=> (\A o \in E : o.index > 0)
  BY DEF Image, Relabels
<1>5. \A a \in E : phi[a] \in G
  BY DEF Image
<1>6. ASSUME NEW a \in E, NEW b \in E
      PROVE  <<phi[a], phi[b]>> \in SplitBefore(G) <=> <<a, b>> \in SplitBefore(E)
  <2>1. /\ phi[a] \in G /\ phi[b] \in G
        /\ phi[a].id = a.id /\ phi[a].at = a.at /\ phi[a].index = a.index
        /\ phi[b].id = b.id /\ phi[b].at = b.at /\ phi[b].index = b.index
    BY <1>5 DEF Relabels
  <2> HIDE DEF G
  <2>2. QED
    BY <1>4, <2>1 DEF SplitBefore
<1>7. Below(G, SplitBefore(G), phi[x]) = Image(phi, Below(E, SplitBefore(E), x))
  <2>1. \A w \in G : \E a \in E : w = phi[a]
    BY DEF Image
  <2>2. \A a \in E : phi[a] \in Below(G, SplitBefore(G), phi[x]) <=> a \in Below(E, SplitBefore(E), x)
    BY <1>2, <1>5, <1>6 DEF Below
  <2> HIDE DEF G
  <2>3. Below(G, SplitBefore(G), phi[x]) \subseteq G /\ Below(E, SplitBefore(E), x) \subseteq E
    BY DEF Below
  <2>4. QED
    BY <2>1, <2>2, <2>3 DEF Image
<1>8. Cardinality(Below(G, SplitBefore(G), phi[x])) = i - 1
  <2>1. Below(E, SplitBefore(E), x) \in SUBSET E
    BY DEF Below
  <2>2. QED
    BY <1>1, <1>2, <1>7, <2>1
<1>9. IsFiniteSet(G) /\ LinearOrder(G, SplitBefore(G)) /\ phi[x] \in G
  BY <1>1, <1>2, <1>5, SplitBeforeLinear DEF Sound
<1> HIDE DEF G, x, z
<1>10. z = phi[x]
  BY <1>3, <1>8, <1>9, RankUnique
<1>11. QED
  BY <1>10 DEF G, x, z

\* and the holdout.
LEMMA RelabelledTest ==
  ASSUME NEW E, Sound(E), NEW phi, Relabels(phi, E)
  PROVE  TestOf(Image(phi, E)) = Image(phi, TestOf(E))
<1> DEFINE n == Cardinality(E)
           G == Image(phi, E)
           late == n - TestSize(n) + 1 .. n
<1>1. Cardinality(G) = n
  BY RelabelledSound
<1>2. n \in Nat /\ TestSize(n) \in 0 .. n
  BY FS_CardinalityType, TestSizeType DEF Sound
<1>3. \A i \in late : i \in 1 .. n
  BY <1>2
<1>4. CASE TestStartAt = {}
  <2>1. TestOf(E) = {SplitOrder(E)[i] : i \in late} /\ TestOf(G) = {SplitOrder(G)[i] : i \in late}
    BY <1>1, <1>4 DEF TestOf
  <2> DEFINE order == SplitOrder(E)
             reordered == SplitOrder(G)
  <2>2. \A i \in late : reordered[i] = phi[order[i]]
    BY <1>3, RelabelledOrder
  <2>3. TestOf(E) = {order[i] : i \in late} /\ TestOf(G) = {reordered[i] : i \in late}
    BY <2>1
  <2> HIDE DEF late, order, reordered
  <2>4. {reordered[i] : i \in late} = Image(phi, {order[i] : i \in late})
    BY <2>2 DEF Image
  <2>5. QED
    BY <2>3, <2>4
<1>5. CASE TestStartAt # {}
  <2>1. /\ TestOf(E) = {o \in E : \E start \in TestStartAt : o.at >= start}
        /\ TestOf(G) = {o \in G : \E start \in TestStartAt : o.at >= start}
    BY <1>5 DEF TestOf
  <2>2. \A o \in E : phi[o].at = o.at
    BY DEF Relabels
  <2>3. QED
    BY <2>1, <2>2 DEF Image
<1>6. QED
  BY <1>4, <1>5

Opposite(o) == [o EXCEPT !.label = IF @ = "positive" THEN "negative" ELSE "positive"]

\* What is trained on is what was available, whatever the labels F come to be.
LEMMA FlipKeepsTrain ==
  ASSUME NEW D, Sound(D), NEW I, NEW U, D \subseteq Observation(Predicate, I, U), I \subseteq Nat,
         NEW now, TestOf(Labeled(D, now)) # {},
         NEW F \in SUBSET {o \in Labeled(D, now) :
                             o.available > Min({q.at : q \in TestOf(Labeled(D, now))})}
  PROVE  AvailableTrain(TemporalSplit((D \ F) \cup {Opposite(o) : o \in F}, now))
           = AvailableTrain(TemporalSplit(D, now))
<1> DEFINE E == Labeled(D, now)
           C == (D \ F) \cup {Opposite(o) : o \in F}
           T == TestOf(E)
           start == Min({q.at : q \in T})
           phi == [o \in E |-> IF o \in F THEN Opposite(o) ELSE o]
           G == Labeled(C, now)
<1>1. E \in SUBSET D /\ F \subseteq E /\ \A o \in F : o.available > start
  BY DEF Labeled
<1>2. Sound(E) /\ T \subseteq E
  BY <1>1, SoundSubset, TestIsPart
<1>3. \A o \in E : o.available \in Nat /\ o.at \in Nat
  BY <1>1 DEF Observation
<1>4. start \in Nat
  <2>1. {q.at : q \in T} \in SUBSET Nat /\ {q.at : q \in T} # {}
    BY <1>2, <1>3
  <2>2. QED
    BY <2>1, MinOfNaturals
<1>5. \A o \in D : /\ Opposite(o).id = o.id /\ Opposite(o).at = o.at /\ Opposite(o).index = o.index
                   /\ Opposite(o).available = o.available /\ Opposite(o).label # "unknown"
  BY DEF Opposite, Observation
<1>6. G = Image(phi, E)
  <2>1. ASSUME NEW x \in G
        PROVE  \E o \in E : x = phi[o]
    <3>1. x \in C /\ x.label # "unknown" /\ x.available <= now
      BY DEF Labeled
    <3>2. CASE x \in D \ F
      <4>1. x \in E /\ x \notin F
        BY <3>1, <3>2 DEF Labeled
      <4>2. QED
        BY <4>1
    <3>3. CASE x \in {Opposite(o) : o \in F}
      BY <1>1, <3>3
    <3>4. QED
      BY <3>1, <3>2, <3>3
  <2>2. ASSUME NEW o \in E
        PROVE  phi[o] \in G
    <3>1. CASE o \in F
      <4>1. phi[o] = Opposite(o) /\ Opposite(o) \in C
        BY <3>1
      <4>2. Opposite(o).label # "unknown" /\ Opposite(o).available <= now
        BY <1>1, <1>5 DEF Labeled
      <4>3. QED
        BY <4>1, <4>2 DEF Labeled
    <3>2. CASE o \notin F
      <4>1. phi[o] = o /\ o \in C
        BY <1>1, <3>2
      <4>2. QED
        BY <4>1 DEF Labeled
    <3>3. QED
      BY <3>1, <3>2
  <2> HIDE DEF E, G, phi
  <2>3. QED
    BY <2>1, <2>2 DEF Image
<1>7. Relabels(phi, E)
  BY <1>1, <1>5 DEF Relabels, Image
<1>8. TestOf(G) = Image(phi, T)
  BY <1>2, <1>6, <1>7, RelabelledTest
<1>9. \A x, y \in E : phi[x] = phi[y] => x = y
  BY <1>2, <1>7, RelabelledSound
<1>10. G \ TestOf(G) = Image(phi, E \ T)
  <2> HIDE DEF E, G, T, phi
  <2>1. QED
    BY <1>2, <1>6, <1>8, <1>9 DEF Image
<1>11. {q.at : q \in TestOf(G)} = {q.at : q \in T} /\ TestOf(G) # {}
  <2>1. \A o \in T : phi[o].at = o.at
    BY <1>2, <1>7 DEF Relabels
  <2> HIDE DEF E, G, T, phi
  <2>2. T # {}
    BY DEF T, E
  <2>3. QED
    BY <1>8, <2>1, <2>2 DEF Image
<1>12. AvailableTrain(TemporalSplit(D, now)) = {o \in E \ T : o.available <= start}
  BY SplitOf DEF AvailableTrain
<1>13. AvailableTrain(TemporalSplit(C, now)) = {o \in G \ TestOf(G) : o.available <= start}
  <2> HIDE DEF C
  <2>1. TemporalSplit(C, now) = [train |-> G \ TestOf(G), test |-> TestOf(G)]
    BY SplitOf
  <2> DEFINE split == TemporalSplit(C, now)
  <2>2. /\ split.train = G \ TestOf(G) /\ split.test # {}
        /\ {q.at : q \in split.test} = {q.at : q \in T}
    BY <1>11, <2>1
  <2> HIDE DEF split, G, T
  <2>3. AvailableTrain(split) = {o \in split.train : o.available <= Min({q.at : q \in split.test})}
    BY <2>2 DEF AvailableTrain
  <2>4. QED
    BY <2>2, <2>3 DEF split
<1>14. \A o \in E : /\ phi[o].available = o.available
                    /\ o.available <= start => phi[o] = o
  BY <1>1, <1>3, <1>4, <1>5
<1>15. {o \in Image(phi, E \ T) : o.available <= start} = {o \in E \ T : o.available <= start}
  <2> HIDE DEF E, T, phi, start
  <2>1. QED
    BY <1>14 DEF Image
<1>16. QED
  BY <1>10, <1>12, <1>13, <1>15

\* Only Learn makes a candidate, out of a sound dataset.
LEMMA LearnedSoundly ==
  ASSUME IInv, [Next]_vars, NEW c \in Learned
  PROVE  /\ c = LearnCandidate(dataset, clock)
         /\ settings \in Setting(Predicate) /\ Sound(c.train)
         /\ \A o \in c.train : o.facts \subseteq Predicate
<1>1. candidate' # candidate
  BY DEF Learned
<1>2. Learn
  BY <1>1 DEF Next, vars, PromoteToShadow, PromoteToApproved, Tick, Assess, RecordOutcome,
              ReviewOther
<1>3. c = LearnCandidate(dataset, clock)
  BY <1>2 DEF Learned, Learn
<1>4. c.train \in SUBSET dataset
  <2>1. Candidate(c) /\ c.dataset = dataset
    BY <1>3, DatasetIsSound, LearnedCandidate DEF LearnCandidate
  <2>2. QED
    BY <2>1 DEF Candidate
<1>5. Sound(c.train)
  BY <1>4, DatasetIsSound, SoundSubset
<1>6. \A o \in c.train : o.facts \subseteq Predicate
  BY <1>4 DEF IInv, TypeOK, Observation
<1>7. settings \in Setting(Predicate)
  BY ExperimentAssumption DEF IInv, TypeOK
<1>8. QED
  BY <1>3, <1>5, <1>6, <1>7

\* No label that was not available when the holdout begins has a say in what is learned:
\* the split, the ranking of predicates and the search do not read the holdout, and
\* labels that matured late are embargoed (temporal_split, _availability_filter).
THEOREM Unseen == Spec => HoldoutUnseen
<1>1. ASSUME IInv, [Next]_vars, NEW c \in Learned, c.test # {},
             NEW F \in SUBSET {o \in Labeled(c.dataset, clock) :
                                 o.available > Min({q.at : q \in c.test})}
      PROVE  LearnCandidate((c.dataset \ F) \cup {Opposite(o) : o \in F}, clock).rules = c.rules
  <2>3. c = LearnCandidate(dataset, clock)
    BY <1>1, LearnedSoundly
  <2>4. /\ c.dataset = dataset /\ c.test = TestOf(Labeled(dataset, clock))
        /\ c.rules = {rule.body : rule \in
                        Range(LearnHorn(settings, AvailableTrain(TemporalSplit(dataset, clock))).kept)}
    BY <2>3, SplitOf DEF LearnCandidate
  <2> DEFINE C == (dataset \ F) \cup {Opposite(o) : o \in F}
  <2>5. AvailableTrain(TemporalSplit(C, clock)) = AvailableTrain(TemporalSplit(dataset, clock))
    <3>1. Sound(dataset)
      BY <1>1, DatasetIsSound
    <3>2. dataset \subseteq Observation(Predicate, 0 .. clock, Unit \cup {"history"})
      BY <1>1 DEF IInv, TypeOK
    <3>3. 0 .. clock \subseteq Nat
      OBVIOUS
    <3>4. QED
      BY <1>1, <2>4, <3>1, <3>2, <3>3, FlipKeepsTrain
  <2> HIDE DEF C
  <2>6. LearnCandidate(C, clock).rules =
          {rule.body : rule \in
             Range(LearnHorn(settings, AvailableTrain(TemporalSplit(C, clock))).kept)}
    BY DEF LearnCandidate
  <2>7. QED
    BY <2>4, <2>5, <2>6 DEF C
<1> DEFINE Unread == \A c \in Learned :
             LET start == Min({o.at : o \in c.test})
                 unseen == {o \in Labeled(c.dataset, clock) : o.available > start}
                 Opp(o) == [o EXCEPT !.label = IF @ = "positive" THEN "negative" ELSE "positive"]
                 Flipped(F) == (c.dataset \ F) \cup {Opp(o) : o \in F}
             IN c.test # {} =>
                  \A F \in SUBSET unseen : LearnCandidate(Flipped(F), clock).rules = c.rules
<1>2. IInv /\ [Next]_vars => Unread
  BY <1>1 DEF Opposite
<1>3. QED
  BY <1>2, Invariance, PTL DEF Spec, HoldoutUnseen

\* Whatever is trained on comes before all of the holdout, in the order of the split.
LEMMA TestIsLater ==
  ASSUME NEW E, Sound(E), NEW o \in E \ TestOf(E), NEW q \in TestOf(E)
  PROVE  IF TestStartAt = {} THEN <<o, q>> \in SplitBefore(E) ELSE o.at < q.at
<1> DEFINE n == Cardinality(E)
           late == n - TestSize(n) + 1 .. n
           R == SplitBefore(E)
           rank(x) == Cardinality(Below(E, R, x))
<1>1. n \in Nat /\ TestSize(n) \in 0 .. n
  BY FS_CardinalityType, TestSizeType DEF Sound
<1>2. IsFiniteSet(E) /\ LinearOrder(E, R)
  BY SplitBeforeLinear DEF Sound
<1>3. q \in E /\ o \in E
  BY TestIsPart
<1>4. CASE TestStartAt = {}
  <2>1. TestOf(E) = {SplitOrder(E)[i] : i \in late}
    BY <1>4 DEF TestOf
  <2>2. \A i \in 1 .. n : SplitOrder(E)[i] \in E /\ rank(SplitOrder(E)[i]) = i - 1
    BY SplitOrderRanks
  <2>3. rank(o) \in 0 .. n - 1 /\ rank(q) \in 0 .. n - 1
    BY <1>2, <1>3, RankStrict
  <2>4. \A x, y \in E : rank(x) = rank(y) => x = y
    BY <1>2, RankUnique
  <2>5. \A x, y \in E : <<x, y>> \in R => rank(x) < rank(y)
    BY <1>2, RankStrict
  <2> HIDE DEF rank, R, n
  <2>6. \A i \in late : i \in 1 .. n
    BY <1>1
  <2>7. rank(q) >= n - TestSize(n)
    <3>1. PICK i \in late : q = SplitOrder(E)[i]
      BY <2>1
    <3>2. rank(q) = i - 1
      BY <2>2, <2>6, <3>1
    <3>3. QED
      BY <1>1, <3>2
  <2>8. rank(o) < n - TestSize(n)
    <3> SUFFICES ASSUME rank(o) >= n - TestSize(n)
                 PROVE  FALSE
      BY <1>1, <2>3
    <3>1. rank(o) + 1 \in late /\ rank(o) + 1 \in 1 .. n /\ (rank(o) + 1) - 1 = rank(o)
      BY <1>1, <2>3
    <3>2. SplitOrder(E)[rank(o) + 1] = o
      BY <1>3, <2>2, <2>4, <3>1
    <3>3. QED
      BY <2>1, <3>1, <3>2
  <2>9. rank(o) < rank(q)
    BY <1>1, <2>3, <2>7, <2>8
  <2>10. o # q /\ ~(<<q, o>> \in R)
    BY <1>3, <2>3, <2>5, <2>9
  <2>11. <<o, q>> \in R
    BY <1>2, <1>3, <2>10 DEF LinearOrder
  <2>12. QED
    BY <1>4, <2>11 DEF R
<1>5. CASE TestStartAt # {}
  <2>1. PICK start \in TestStartAt : q.at >= start
    BY <1>5 DEF TestOf
  <2>2. ~(o.at >= start)
    BY <1>3, <1>5 DEF TestOf
  <2>3. o.at \in Nat /\ q.at \in Nat /\ start \in Nat
    BY <1>3, EvaluationAssumption DEF Sound
  <2>4. QED
    BY <1>5, <2>1, <2>2, <2>3
<1>6. QED
  BY <1>4, <1>5

\* Each observation a candidate is trained on comes before every one of its holdout, in the
\* order the split uses, and its label was available by then.
TrainedOnThePast ==
  [][\A c \in Learned : \A o \in c.train, q \in c.test :
       /\ o.available <= q.at
       /\ IF TestStartAt = {} THEN <<o, q>> \in SplitBefore(Labeled(c.dataset, clock))
          ELSE o.at < q.at]_vars

\* For any dataset, with or without first-parent positions, and with a frozen start or a
\* fraction: the holdout is later than all that is trained on, and no label is trained on that
\* was not known before its first example (temporal_split, _availability_filter).
THEOREM PastOnly == Spec => TrainedOnThePast
<1>1. ASSUME IInv, [Next]_vars, NEW c \in Learned, NEW o \in c.train, NEW q \in c.test
      PROVE  /\ o.available <= q.at
             /\ IF TestStartAt = {} THEN <<o, q>> \in SplitBefore(Labeled(c.dataset, clock))
                ELSE o.at < q.at
  <2> DEFINE E == Labeled(dataset, clock)
             split == TemporalSplit(dataset, clock)
             start == Min({x.at : x \in split.test})
  <2>1. c = LearnCandidate(dataset, clock)
    BY <1>1, LearnedSoundly
  <2>2. c.dataset = dataset /\ c.test = split.test /\ c.train = AvailableTrain(split)
    BY <2>1 DEF LearnCandidate
  <2>3. split.train = E \ TestOf(E) /\ split.test = TestOf(E)
    BY SplitOf
  <2>4. Sound(E)
    <3>1. E \in SUBSET dataset
      BY DEF Labeled
    <3>2. QED
      BY <1>1, <3>1, DatasetIsSound, SoundSubset
  <2> HIDE DEF split
  <2>5. o \in split.train /\ o.available <= start
    BY <1>1, <2>2 DEF AvailableTrain
  <2>6. start \in Nat /\ start <= q.at
    <3> DEFINE instants == {x.at : x \in split.test}
    <3>1. split.test \subseteq E
      BY <2>3, <2>4, TestIsPart
    <3>2. instants \in SUBSET Nat
      BY <2>4, <3>1 DEF Sound
    <3>3. q.at \in instants
      BY <1>1, <2>2
    <3> HIDE DEF instants
    <3>4. Min(instants) \in instants /\ Min(instants) <= q.at
      BY <3>2, <3>3, MinOfNaturals
    <3>5. QED
      BY <3>2, <3>4 DEF instants
  <2>7. o.available \in Nat /\ q.at \in Nat
    <3>1. o \in dataset /\ q \in dataset
      BY <1>1, <2>2, <2>3, <2>4, <2>5, TestIsPart DEF Labeled
    <3>2. dataset \subseteq Observation(Predicate, 0 .. clock, Unit \cup {"history"})
      BY <1>1 DEF IInv, TypeOK
    <3>3. QED
      BY <3>1, <3>2 DEF Observation
  <2> HIDE DEF E, start
  <2>8. o.available <= q.at
    BY <2>5, <2>6, <2>7
  <2>9. IF TestStartAt = {} THEN <<o, q>> \in SplitBefore(E) ELSE o.at < q.at
    BY <1>1, <2>2, <2>3, <2>4, <2>5, TestIsLater
  <2>10. QED
    BY <2>2, <2>8, <2>9 DEF E
<1>2. IInv /\ [Next]_vars =>
        \A c \in Learned : \A o \in c.train, q \in c.test :
          /\ o.available <= q.at
          /\ IF TestStartAt = {} THEN <<o, q>> \in SplitBefore(Labeled(c.dataset, clock))
             ELSE o.at < q.at
  BY <1>1
<1>3. QED
  BY <1>2, Invariance, PTL DEF Spec, TrainedOnThePast

-----------------------------------------------------------------------------
(* The rules are earned. *)

CoverageOf(rules) == UNION {rules[j].coverage : j \in DOMAIN rules}
BeforeRule(rules, i) == UNION {rules[j].coverage : j \in 1 .. i - 1}

RulesOver(ex, rules) ==
  /\ \E T : rules \in Seq(T)
  /\ \A i \in DOMAIN rules : rules[i].coverage \subseteq DOMAIN ex

\* Each rule brings as many new positives as the support gate asks.
EachEarned(s, ex, rules) ==
  \A i \in DOMAIN rules :
    Cardinality((rules[i].coverage \cap PositiveMask(ex)) \ BeforeRule(rules, i)) >= s.minSupport

\* Together the rules pass the precision gate on all examples.
AllPass(s, ex, rules) ==
  rules # <<>> =>
    ~FailsGate(s, Cardinality(CoverageOf(rules) \cap PositiveMask(ex)), Cardinality(CoverageOf(rules)))

\* What the clauses of a search that pass its gates have.
LEMMA PassingClause ==
  ASSUME NEW s, NEW on, NEW body, Evaluated(s, on, body).passes
  PROVE  LET e == Evaluated(s, on, body)
             pos == on.pos \cap on.scope
             both == on.selected \cup e.coverage
         IN /\ e.coverage \subseteq DOMAIN on.ex
            /\ Cardinality(e.coverage \cap pos \cap on.uncovered) >= s.minSupport
            /\ ~FailsGate(s, Cardinality(both \cap pos), Cardinality(both \cap on.scope))
<1> DEFINE cov == Coverage(on.ex, body)
           pos == on.pos \cap on.scope
           both == on.selected \cup cov
           e == Evaluated(s, on, body)
<1>1. /\ e.coverage = cov
      /\ e.passes => /\ Cardinality(cov \cap pos \cap on.uncovered) >= s.minSupport
                     /\ ~FailsGate(s, Cardinality(both \cap pos), Cardinality(both \cap on.scope))
  BY DEF Evaluated
<1>2. cov \subseteq DOMAIN on.ex
  BY DEF Coverage, Where
<1> HIDE DEF cov, pos, e
<1>3. QED
  BY <1>1, <1>2 DEF e, pos

\* A rule is chosen for what it does on all examples, pruned or not.
LEMMA ChosenPasses ==
  ASSUME NEW s, NEW on, NEW window, NEW seeds, window = {} => on.scope = AllOf(on.ex),
         on = [ex |-> on.ex, pos |-> on.pos, uncovered |-> on.uncovered, selected |-> on.selected,
               scope |-> on.scope, preds |-> on.preds],
         NEW r \in Chosen(s, on, window, Candidates(s, on, seeds))
  PROVE  \E body : LET whole == [on EXCEPT !.scope = AllOf(on.ex)]
                   IN r = Evaluated(s, whole, body) /\ r.passes
<1> DEFINE whole == [on EXCEPT !.scope = AllOf(on.ex)]
<1>1. CASE window = {}
  <2>1. whole = on
    <3>1. on.scope = AllOf(on.ex)
      BY <1>1
    <3>2. whole = [ex |-> on.ex, pos |-> on.pos, uncovered |-> on.uncovered,
                   selected |-> on.selected, scope |-> AllOf(on.ex), preds |-> on.preds]
      OBVIOUS
    <3>3. QED
      BY <3>1, <3>2
  <2>2. r \in Candidates(s, on, seeds)
    BY <1>1 DEF Chosen, Best
  <2>3. r.passes /\ \E body : r = Evaluated(s, on, body)
    BY <2>2 DEF Candidates
  <2> HIDE DEF whole
  <2>4. QED
    BY <2>1, <2>3 DEF whole
<1>2. CASE window # {}
  <2> DEFINE P(e) == Evaluated(s, whole, PruneBody(on, window, e.body))
             Q(e) == Evaluated(s, whole, e.body)
  <2>1. PICK e : r = PassingOf(P(e), Q(e)) /\ PassingOf(P(e), Q(e)).passes
    BY <1>2 DEF Chosen, ChosenAfterPruning, Best
  <2>2. r.passes /\ (r = P(e) \/ r = Q(e))
    BY <2>1 DEF PassingOf
  <2> HIDE DEF whole
  <2>3. QED
    BY <2>2 DEF whole
<1>3. QED
  BY <1>1, <1>2

\* A search under way: what its rules cover is known, and they are earned so far.
CoverInv(s, ex, scope, preds, on, rules) ==
  /\ on = [ex |-> ex, pos |-> PositiveMask(ex),
           uncovered |-> PositiveMask(ex) \ CoverageOf(rules),
           selected |-> CoverageOf(rules), scope |-> scope, preds |-> preds]
  /\ RulesOver(ex, rules)
  /\ EachEarned(s, ex, rules)
  /\ AllPass(s, ex, rules)

ExtendedBy(longer, rules, r) ==
  /\ \E T : longer \in Seq(T)
  /\ Len(rules) \in Nat
  /\ DOMAIN rules = 1 .. Len(rules) /\ DOMAIN longer = 1 .. Len(rules) + 1
  /\ \A i \in DOMAIN rules : longer[i] = rules[i]
  /\ longer[Len(rules) + 1] = r
  /\ CoverageOf(longer) = CoverageOf(rules) \cup r.coverage
  /\ \A i \in DOMAIN rules : BeforeRule(longer, i) = BeforeRule(rules, i)
  /\ BeforeRule(longer, Len(rules) + 1) = CoverageOf(rules)

LEMMA AppendedRule ==
  ASSUME NEW T, NEW rules \in Seq(T), NEW r, NEW longer, longer = Append(rules, r)
  PROVE  ExtendedBy(longer, rules, r)
<1> DEFINE n == Len(rules)
<1>1. /\ longer \in Seq(T \cup {r}) /\ n \in Nat
      /\ DOMAIN rules = 1 .. n /\ DOMAIN longer = 1 .. n + 1
      /\ \A i \in 1 .. n : longer[i] = rules[i]
      /\ longer[n + 1] = r
  OBVIOUS
<1> HIDE DEF n
<1>2. CoverageOf(longer) = CoverageOf(rules) \cup r.coverage
  <2>1. 1 .. n + 1 = (1 .. n) \cup {n + 1}
    BY <1>1
  <2>2. \A x : (\E j \in 1 .. n + 1 : x \in longer[j].coverage)
                 <=> (\E j \in 1 .. n : x \in rules[j].coverage) \/ x \in r.coverage
    BY <1>1, <2>1
  <2>3. \A x : x \in CoverageOf(longer) <=> \E j \in 1 .. n + 1 : x \in longer[j].coverage
    BY <1>1 DEF CoverageOf
  <2>4. \A x : x \in CoverageOf(rules) <=> \E j \in 1 .. n : x \in rules[j].coverage
    BY <1>1 DEF CoverageOf
  <2>5. \A x : x \in CoverageOf(longer) <=> x \in CoverageOf(rules) \cup r.coverage
    BY <2>2, <2>3, <2>4
  <2>6. QED
    BY <2>5
<1>3. ASSUME NEW i \in 1 .. n + 1
      PROVE  BeforeRule(longer, i) = BeforeRule(rules, i)
  <2>1. \A j \in 1 .. i - 1 : longer[j] = rules[j]
    BY <1>1
  <2>2. {longer[j].coverage : j \in 1 .. i - 1} = {rules[j].coverage : j \in 1 .. i - 1}
    BY <2>1
  <2>3. QED
    BY <2>2 DEF BeforeRule
<1>4. BeforeRule(rules, n + 1) = CoverageOf(rules)
  <2>1. (n + 1) - 1 = n
    BY <1>1
  <2>2. QED
    BY <1>1, <2>1 DEF BeforeRule, CoverageOf
<1>5. n + 1 \in 1 .. n + 1 /\ \A i \in 1 .. n : i \in 1 .. n + 1
  BY <1>1
<1>6. BeforeRule(longer, n + 1) = CoverageOf(rules)
  BY <1>3, <1>4, <1>5
<1>7. QED
  BY <1>1, <1>2, <1>3, <1>5, <1>6 DEF n, ExtendedBy

LEMMA AfterRuleOf ==
  ASSUME NEW ex, NEW pos, NEW uncovered, NEW selected, NEW scope, NEW preds, NEW rule
  PROVE  AfterRule([ex |-> ex, pos |-> pos, uncovered |-> uncovered, selected |-> selected,
                    scope |-> scope, preds |-> preds], rule) =
           [ex |-> ex, pos |-> pos, uncovered |-> uncovered \ rule.coverage,
            selected |-> selected \cup rule.coverage, scope |-> scope, preds |-> preds]
<1> DEFINE on == [ex |-> ex, pos |-> pos, uncovered |-> uncovered, selected |-> selected,
                  scope |-> scope, preds |-> preds]
           mid == [on EXCEPT !.selected = @ \cup rule.coverage]
<1>1. mid = [ex |-> ex, pos |-> pos, uncovered |-> uncovered,
             selected |-> selected \cup rule.coverage, scope |-> scope, preds |-> preds]
  OBVIOUS
<1>2. AfterRule(on, rule) = [mid EXCEPT !.uncovered = @ \ rule.coverage]
  BY DEF AfterRule
<1> HIDE DEF mid
<1>3. QED
  BY <1>1, <1>2

LEMMA RuleEarns ==
  ASSUME NEW s, NEW ex, NEW scope, NEW preds, NEW window, NEW seeds, NEW on, NEW rules, NEW r,
         NEW longer, longer = Append(rules, r),
         window = {} => scope = AllOf(ex), CoverInv(s, ex, scope, preds, on, rules),
         r \in Chosen(s, on, window, Candidates(s, on, seeds))
  PROVE  CoverInv(s, ex, scope, preds, AfterRule(on, r), longer)
<1> DEFINE pos == PositiveMask(ex)
           whole == [on EXCEPT !.scope = AllOf(on.ex)]
<1>1. /\ on = [ex |-> ex, pos |-> pos, uncovered |-> pos \ CoverageOf(rules),
               selected |-> CoverageOf(rules), scope |-> scope, preds |-> preds]
      /\ RulesOver(ex, rules) /\ EachEarned(s, ex, rules)
  BY DEF CoverInv
<1> HIDE DEF pos
<1>2. /\ on.ex = ex /\ on.pos = pos /\ on.uncovered = pos \ CoverageOf(rules)
      /\ on.selected = CoverageOf(rules) /\ on.scope = scope /\ on.preds = preds
      /\ on = [ex |-> on.ex, pos |-> on.pos, uncovered |-> on.uncovered,
               selected |-> on.selected, scope |-> on.scope, preds |-> on.preds]
  BY <1>1
<1>3. /\ whole.ex = ex /\ whole.pos = pos /\ whole.uncovered = pos \ CoverageOf(rules)
      /\ whole.selected = CoverageOf(rules) /\ whole.scope = AllOf(ex)
  BY <1>1
<1>4. PICK body : r = Evaluated(s, whole, body) /\ r.passes
  BY <1>2, ChosenPasses
<1> HIDE DEF whole
<1> DEFINE both == CoverageOf(rules) \cup r.coverage
<1>5. /\ r.coverage \subseteq DOMAIN ex
      /\ Cardinality(r.coverage \cap (pos \cap AllOf(ex)) \cap (pos \ CoverageOf(rules)))
           >= s.minSupport
      /\ ~FailsGate(s, Cardinality(both \cap (pos \cap AllOf(ex))), Cardinality(both \cap AllOf(ex)))
  BY <1>3, <1>4, PassingClause
<1>6. pos \subseteq AllOf(ex) /\ AllOf(ex) = DOMAIN ex
  BY DEF pos, PositiveMask, Where, AllOf
<1>7. CoverageOf(rules) \subseteq DOMAIN ex
  BY <1>1 DEF RulesOver, CoverageOf
<1>8. /\ Cardinality((r.coverage \cap pos) \ CoverageOf(rules)) >= s.minSupport
       /\ ~FailsGate(s, Cardinality(both \cap pos), Cardinality(both))
  <2>1. r.coverage \cap (pos \cap AllOf(ex)) \cap (pos \ CoverageOf(rules))
          = (r.coverage \cap pos) \ CoverageOf(rules)
    BY <1>6
  <2>2. both \cap (pos \cap AllOf(ex)) = both \cap pos /\ both \cap AllOf(ex) = both
    BY <1>5, <1>6, <1>7
  <2> HIDE DEF both
  <2>3. QED
    BY <1>5, <2>1, <2>2
<1> HIDE DEF both
<1>9. PICK T : rules \in Seq(T)
  BY <1>1 DEF RulesOver
<1>10. ExtendedBy(longer, rules, r)
  BY <1>9, AppendedRule
<1>11. /\ Len(rules) \in Nat
       /\ DOMAIN rules = 1 .. Len(rules) /\ DOMAIN longer = 1 .. Len(rules) + 1
       /\ \A i \in DOMAIN rules : longer[i] = rules[i]
       /\ longer[Len(rules) + 1] = r
       /\ CoverageOf(longer) = CoverageOf(rules) \cup r.coverage
       /\ \A i \in DOMAIN rules : BeforeRule(longer, i) = BeforeRule(rules, i)
       /\ BeforeRule(longer, Len(rules) + 1) = CoverageOf(rules)
  BY <1>10 DEF ExtendedBy
<1>12. \A i \in DOMAIN longer : i \in DOMAIN rules \/ i = Len(rules) + 1
  BY <1>11
<1>13. RulesOver(ex, longer)
  <2>1. \A i \in DOMAIN longer : longer[i].coverage \subseteq DOMAIN ex
    BY <1>1, <1>5, <1>11, <1>12 DEF RulesOver
  <2>2. QED
    BY <1>10, <2>1 DEF RulesOver, ExtendedBy
<1>14. EachEarned(s, ex, longer)
  <2> SUFFICES ASSUME NEW i \in DOMAIN longer
               PROVE  Cardinality((longer[i].coverage \cap pos) \ BeforeRule(longer, i))
                        >= s.minSupport
    BY DEF EachEarned, pos
  <2>1. CASE i \in DOMAIN rules
    <3>1. Cardinality((rules[i].coverage \cap pos) \ BeforeRule(rules, i)) >= s.minSupport
      BY <1>1, <2>1 DEF EachEarned, pos
    <3>2. longer[i] = rules[i] /\ BeforeRule(longer, i) = BeforeRule(rules, i)
      BY <1>11, <2>1
    <3>3. QED
      BY <3>1, <3>2
  <2>2. CASE i = Len(rules) + 1
    <3>1. longer[i] = r /\ BeforeRule(longer, i) = CoverageOf(rules)
      BY <1>11, <2>2
    <3>2. QED
      BY <1>8, <3>1
  <2>3. QED
    BY <1>12, <2>1, <2>2
<1>15. AllPass(s, ex, longer)
  BY <1>8, <1>11 DEF AllPass, both, pos
<1>16. AfterRule(on, r) =
         [ex |-> ex, pos |-> pos, uncovered |-> pos \ CoverageOf(longer),
          selected |-> CoverageOf(longer), scope |-> scope, preds |-> preds]
  <2>1. AfterRule(on, r) =
          [ex |-> ex, pos |-> pos, uncovered |-> (pos \ CoverageOf(rules)) \ r.coverage,
           selected |-> CoverageOf(rules) \cup r.coverage, scope |-> scope, preds |-> preds]
    BY <1>1, AfterRuleOf
  <2>2. (pos \ CoverageOf(rules)) \ r.coverage = pos \ CoverageOf(longer)
    BY <1>11
  <2>3. QED
    BY <1>11, <2>1, <2>2
<1>17. QED
  BY <1>13, <1>14, <1>15, <1>16 DEF CoverInv, pos

LEMMA IterationEarns ==
  ASSUME NEW s, NEW ex, NEW scope, NEW preds, NEW window, NEW seeds, NEW now, NEW n,
         window = {} => scope = AllOf(ex), CoverInv(s, ex, scope, preds, now.on, now.rules)
  PROVE  LET next == Iteration(s, window, seeds, now, n)
         IN CoverInv(s, ex, scope, preds, next.on, next.rules)
<1> DEFINE over == Len(now.rules) < n - 1 \/ now.on.uncovered = {}
           chosen == IF over THEN {}
                     ELSE Chosen(s, now.on, window, Candidates(s, now.on, seeds))
           found == CHOOSE x \in chosen : TRUE
<1>1. Iteration(s, window, seeds, now, n) =
        IF chosen = {} THEN now
        ELSE [on |-> AfterRule(now.on, found), rules |-> Append(now.rules, found)]
  BY DEF Iteration
<1>2. CASE chosen = {}
  BY <1>1, <1>2
<1>3. CASE chosen # {}
  <2>1. found \in chosen
    BY <1>3
  <2>2. found \in Chosen(s, now.on, window, Candidates(s, now.on, seeds))
    BY <2>1
  <2> HIDE DEF over, chosen, found
  <2>3. PICK r, on, rules, longer :
          r = found /\ on = now.on /\ rules = now.rules /\ longer = Append(rules, r)
    OBVIOUS
  <2>4. CoverInv(s, ex, scope, preds, AfterRule(on, r), longer)
    BY <2>2, <2>3, RuleEarns
  <2>5. Iteration(s, window, seeds, now, n) = [on |-> AfterRule(on, r), rules |-> longer]
    BY <1>1, <1>3, <2>3
  <2>6. QED
    BY <2>4, <2>5
<1>4. QED
  BY <1>2, <1>3

\* Induction, up to a bound, for a set of numbers.
LEMMA SetInduction ==
  ASSUME NEW m \in Nat, NEW P, 0 \in P, \A n \in 0 .. m : n \in P /\ n < m => n + 1 \in P
  PROVE  0 .. m \subseteq P
<1> SUFFICES ASSUME (0 .. m) \ P # {}
             PROVE  FALSE
  OBVIOUS
<1>1. (0 .. m) \ P \in SUBSET Nat
  OBVIOUS
<1>2. PICK k \in (0 .. m) \ P : \A n \in (0 .. m) \ P : k <= n
  BY <1>1, LeastNatural
<1>3. k # 0 /\ k - 1 \in 0 .. m /\ k - 1 < m /\ (k - 1) + 1 = k
  BY <1>2
<1>4. k - 1 \in P
  BY <1>2, <1>3
<1>5. k \in P
  BY <1>3, <1>4
<1>6. QED
  BY <1>2, <1>5

\* g is the run of the iterations from first.
IterationRun(g, s, window, seeds, first, m) ==
  g = [n \in 0 .. m |-> IF n = 0 THEN first ELSE Iteration(s, window, seeds, g[n - 1], n)]

\* There is one.
LEMMA IterationsRun ==
  ASSUME NEW s, NEW window, NEW seeds, NEW first, NEW m \in Nat
  PROVE  \E g : IterationRun(g, s, window, seeds, first, m)
<1> DEFINE Runs(k) == \E g : IterationRun(g, s, window, seeds, first, k)
           P == {k \in Nat : Runs(k)}
<1>1. Runs(0)
  <2> DEFINE g == [n \in 0 .. 0 |-> first]
  <2>1. g = [n \in 0 .. 0 |-> IF n = 0 THEN first ELSE Iteration(s, window, seeds, g[n - 1], n)]
    OBVIOUS
  <2> HIDE DEF g
  <2>2. IterationRun(g, s, window, seeds, first, 0)
    BY <2>1 DEF IterationRun
  <2>3. QED
    BY <2>2
<1>2. ASSUME NEW k \in Nat, Runs(k)
      PROVE  Runs(k + 1)
  <2>1. PICK g : IterationRun(g, s, window, seeds, first, k)
    BY <1>2
  <2>2. PICK last : last = Iteration(s, window, seeds, g[k], k + 1)
    OBVIOUS
  <2> DEFINE h == [n \in 0 .. k + 1 |-> IF n <= k THEN g[n] ELSE last]
  <2>3. \A n \in 0 .. k : g[n] = IF n = 0 THEN first ELSE Iteration(s, window, seeds, g[n - 1], n)
    BY <2>1 DEF IterationRun
  <2>4. /\ \A n \in 0 .. k : h[n] = g[n] /\ (n # 0 => h[n - 1] = g[n - 1])
        /\ h[k + 1] = last /\ h[(k + 1) - 1] = g[k] /\ k + 1 # 0
        /\ DOMAIN h = 0 .. k + 1
    OBVIOUS
  <2>5. \A n \in 0 .. k + 1 : n \in 0 .. k \/ n = k + 1
    OBVIOUS
  <2>6. h = [n \in 0 .. k + 1 |-> h[n]]
    OBVIOUS
  <2> HIDE DEF h
  <2>7. ASSUME NEW n \in 0 .. k + 1
        PROVE  h[n] = IF n = 0 THEN first ELSE Iteration(s, window, seeds, h[n - 1], n)
    <3>1. CASE n \in 0 .. k
      <4>1. h[n] = g[n] /\ (n # 0 => h[n - 1] = g[n - 1])
        BY <2>4, <3>1
      <4>2. g[n] = IF n = 0 THEN first ELSE Iteration(s, window, seeds, g[n - 1], n)
        BY <2>3, <3>1
      <4>3. QED
        BY <4>1, <4>2
    <3>2. CASE n = k + 1
      BY <2>2, <2>4, <3>2
    <3>3. QED
      BY <2>5, <3>1, <3>2
  <2>8. [n \in 0 .. k + 1 |-> h[n]] =
          [n \in 0 .. k + 1 |-> IF n = 0 THEN first ELSE Iteration(s, window, seeds, h[n - 1], n)]
    BY <2>7
  <2>9. IterationRun(h, s, window, seeds, first, k + 1)
    BY <2>6, <2>8 DEF IterationRun
  <2>10. QED
    BY <2>9
<1> HIDE DEF Runs
<1>3. 0 \in P /\ \A n \in 0 .. m : n \in P /\ n < m => n + 1 \in P
  BY <1>1, <1>2
<1> HIDE DEF P
<1>4. m \in P
  <2>1. 0 .. m \subseteq P /\ m \in 0 .. m
    BY <1>3, SetInduction
  <2>2. QED
    BY <2>1
<1>5. QED
  BY <1>4 DEF P, Runs

LEMMA CoverEarns ==
  ASSUME NEW s, s.maxRules \in Nat, NEW ex, NEW scope, NEW preds, NEW window, NEW seeds, NEW on,
         window = {} => scope = AllOf(ex), CoverInv(s, ex, scope, preds, on, <<>>)
  PROVE  LET rules == Cover(s, on, window, seeds)
         IN RulesOver(ex, rules) /\ EachEarned(s, ex, rules) /\ AllPass(s, ex, rules)
<1> DEFINE first == [on |-> on, rules |-> <<>>]
           m == s.maxRules
           found == CHOOSE g : g = [n \in 0 .. m |->
                      IF n = 0 THEN first ELSE Iteration(s, window, seeds, g[n - 1], n)]
           P == {n \in 0 .. m : CoverInv(s, ex, scope, preds, found[n].on, found[n].rules)}
<1>1. Cover(s, on, window, seeds) = found[m].rules
  BY DEF Cover
<1>2. IterationRun(found, s, window, seeds, first, m)
  <2>1. \E g : IterationRun(g, s, window, seeds, first, m)
    BY IterationsRun
  <2>2. \E g : g = [n \in 0 .. m |->
                      IF n = 0 THEN first ELSE Iteration(s, window, seeds, g[n - 1], n)]
    BY <2>1 DEF IterationRun
  <2>3. found = [n \in 0 .. m |->
                   IF n = 0 THEN first ELSE Iteration(s, window, seeds, found[n - 1], n)]
    BY <2>2
  <2> HIDE DEF found
  <2>4. QED
    BY <2>3 DEF IterationRun
<1>3. \A n \in 0 .. m :
        found[n] = IF n = 0 THEN first ELSE Iteration(s, window, seeds, found[n - 1], n)
  BY <1>2 DEF IterationRun
<1> HIDE DEF found
<1>4. 0 \in P
  <2>1. 0 \in 0 .. m
    OBVIOUS
  <2>2. found[0] = first
    BY <1>3, <2>1
  <2>3. QED
    BY <2>1, <2>2
<1>5. ASSUME NEW n \in 0 .. m, n \in P, n < m
      PROVE  n + 1 \in P
  <2>1. n + 1 \in 0 .. m /\ n + 1 # 0 /\ (n + 1) - 1 = n
    BY <1>5
  <2>2. found[n + 1] = Iteration(s, window, seeds, found[n], n + 1)
    BY <1>3, <2>1
  <2>3. CoverInv(s, ex, scope, preds, found[n].on, found[n].rules)
    BY <1>5
  <2>4. CoverInv(s, ex, scope, preds, found[n + 1].on, found[n + 1].rules)
    BY <2>2, <2>3, IterationEarns
  <2>5. QED
    BY <2>1, <2>4
<1> HIDE DEF P
<1>6. m \in P
  <2>1. m \in Nat /\ m \in 0 .. m
    OBVIOUS
  <2>2. \A n \in 0 .. m : n \in P /\ n < m => n + 1 \in P
    BY <1>5
  <2> HIDE DEF m
  <2>3. 0 .. m \subseteq P
    BY <1>4, <2>1, <2>2, SetInduction
  <2>4. QED
    BY <2>1, <2>3
<1>7. CoverInv(s, ex, scope, preds, found[m].on, found[m].rules)
  BY <1>6 DEF P
<1>8. QED
  BY <1>1, <1>7 DEF CoverInv

LEMMA Joined ==
  ASSUME NEW T, NEW a \in Seq(T), NEW b \in Seq(T)
  PROVE  a \o b \in Seq(T) /\ Len(a \o b) = Len(a) + Len(b)
<1>1. a \o b \in Seq(T)
  OBVIOUS
<1>2. Len(a \o b) = Len(a) + Len(b)
  OBVIOUS
<1>3. QED
  BY <1>1, <1>2

\* A rule goes: the others stay in their order.
LEMMA WithoutRule ==
  ASSUME NEW T, NEW rules \in Seq(T), NEW i \in 1 .. Len(rules)
  PROVE  /\ Without(rules, i) \in Seq(T)
         /\ Len(Without(rules, i)) = Len(rules) - 1
         /\ \A j \in 1 .. Len(rules) - 1 :
              Without(rules, i)[j] = rules[IF j < i THEN j ELSE j + 1]
<1> DEFINE head == SubSeq(rules, 1, i - 1)
           tail == SubSeq(rules, i + 1, Len(rules))
<1>1. Len(rules) \in Nat /\ \A j \in 1 .. Len(rules) : rules[j] \in T
  OBVIOUS
<1>2. /\ head \in Seq(T) /\ Len(head) = i - 1
      /\ \A j \in 1 .. i - 1 : head[j] = rules[j]
  BY <1>1
<1>3. /\ tail \in Seq(T) /\ Len(tail) = Len(rules) - i
      /\ \A j \in 1 .. Len(rules) - i : tail[j] = rules[i + j]
  BY <1>1
<1>4. Without(rules, i) = head \o tail
  BY DEF Without
<1> HIDE DEF head, tail
<1>5. head \o tail \in Seq(T) /\ Len(head \o tail) = Len(rules) - 1
  <2>1. head \o tail \in Seq(T) /\ Len(head \o tail) = Len(head) + Len(tail)
    BY <1>2, <1>3, Joined
  <2>2. (i - 1) + (Len(rules) - i) = Len(rules) - 1
    BY <1>1
  <2>3. QED
    BY <1>2, <1>3, <2>1, <2>2
<1>6. ASSUME NEW j \in 1 .. Len(rules) - 1
      PROVE  (head \o tail)[j] = rules[IF j < i THEN j ELSE j + 1]
  <2>1. CASE j < i
    BY <1>1, <1>2, <1>3, <2>1
  <2>2. CASE ~(j < i)
    <3>1. (head \o tail)[j] = tail[j - (i - 1)]
      BY <1>1, <1>2, <1>3, <2>2
    <3>2. j - (i - 1) \in 1 .. Len(rules) - i /\ i + (j - (i - 1)) = j + 1
      BY <1>1, <2>2
    <3>3. tail[j - (i - 1)] = rules[i + (j - (i - 1))]
      BY <1>3, <3>2
    <3>4. QED
      BY <2>2, <3>1, <3>2, <3>3
  <2>3. QED
    BY <2>1, <2>2
<1>7. QED
  BY <1>4, <1>5, <1>6

\* What the others bring only grows.
LEMMA WithoutEarns ==
  ASSUME NEW s, s.minSupport \in Nat, NEW ex, IsFiniteSet(DOMAIN ex), NEW rules,
         RulesOver(ex, rules), EachEarned(s, ex, rules), NEW i \in 1 .. Len(rules)
  PROVE  /\ RulesOver(ex, Without(rules, i)) /\ EachEarned(s, ex, Without(rules, i))
         /\ Len(Without(rules, i)) = Len(rules) - 1
<1>1. PICK T : rules \in Seq(T)
  BY DEF RulesOver
<1>2. PICK left : left = Without(rules, i)
  OBVIOUS
<1> DEFINE n == Len(rules)
           At(j) == IF j < i THEN j ELSE j + 1
<1>3. n \in Nat /\ DOMAIN rules = 1 .. n
  BY <1>1
<1>4. left \in Seq(T) /\ Len(left) = n - 1 /\ \A j \in 1 .. n - 1 : left[j] = rules[At(j)]
  BY <1>1, <1>2, WithoutRule
<1>5. DOMAIN left = 1 .. n - 1
  BY <1>3, <1>4
<1> HIDE DEF n
<1>6. \A j \in 1 .. n - 1 : At(j) \in 1 .. n
  BY <1>3
<1>7. \A j \in 1 .. n - 1 : \A k \in 1 .. j - 1 : k \in 1 .. n - 1 /\ At(k) \in 1 .. At(j) - 1
  BY <1>3
<1> HIDE DEF At
<1>8. ASSUME NEW j \in 1 .. n - 1
      PROVE  /\ left[j].coverage \subseteq DOMAIN ex
             /\ Cardinality((left[j].coverage \cap PositiveMask(ex)) \ BeforeRule(left, j))
                  >= s.minSupport
  <2>1. At(j) \in DOMAIN rules /\ left[j] = rules[At(j)]
    BY <1>3, <1>4, <1>6
  <2>2. PICK was, now :
          /\ was = (rules[At(j)].coverage \cap PositiveMask(ex)) \ BeforeRule(rules, At(j))
          /\ now = (left[j].coverage \cap PositiveMask(ex)) \ BeforeRule(left, j)
    OBVIOUS
  <2>3. left[j].coverage \subseteq DOMAIN ex
    BY <2>1 DEF RulesOver
  <2>4. BeforeRule(left, j) \subseteq BeforeRule(rules, At(j))
    <3>1. \A k \in 1 .. j - 1 : left[k] = rules[At(k)] /\ At(k) \in 1 .. At(j) - 1
      BY <1>4, <1>7
    <3>2. QED
      BY <3>1 DEF BeforeRule
  <2>5. was \in SUBSET now /\ now \in SUBSET DOMAIN ex
    BY <2>1, <2>2, <2>3, <2>4
  <2>6. IsFiniteSet(now)
    BY <2>5, FS_Subset
  <2>7. IsFiniteSet(was) /\ Cardinality(was) <= Cardinality(now)
    BY <2>5, <2>6, FS_Subset
  <2>8. Cardinality(was) \in Nat /\ Cardinality(now) \in Nat
    BY <2>6, <2>7, FS_CardinalityType
  <2>9. Cardinality(was) >= s.minSupport
    BY <2>1, <2>2 DEF EachEarned
  <2>10. Cardinality(now) >= s.minSupport
    BY <2>7, <2>8, <2>9
  <2>11. QED
    BY <2>2, <2>3, <2>10
<1>9. RulesOver(ex, left)
  BY <1>4, <1>5, <1>8 DEF RulesOver
<1>10. EachEarned(s, ex, left)
  BY <1>5, <1>8 DEF EachEarned
<1>11. QED
  BY <1>2, <1>4, <1>9, <1>10 DEF n

LEMMA PrunedEarns ==
  ASSUME NEW s, s.minSupport \in Nat, NEW ex, IsFiniteSet(DOMAIN ex), NEW on, NEW window,
         NEW rules, RulesOver(ex, rules), EachEarned(s, ex, rules), NEW i \in 1 .. Len(rules)
  PROVE  LET left == Pruned(on, window, rules, i)
         IN /\ RulesOver(ex, left) /\ EachEarned(s, ex, left)
            /\ Len(left) \in Nat /\ Len(left) >= Len(rules) - 1
<1>1. Pruned(on, window, rules, i) \in {rules, Without(rules, i)}
  BY DEF Pruned
<1>2. Len(rules) \in Nat
  BY DEF RulesOver
<1>3. CASE Pruned(on, window, rules, i) = rules
  BY <1>2, <1>3
<1>4. CASE Pruned(on, window, rules, i) = Without(rules, i)
  BY <1>2, <1>4, WithoutEarns
<1>5. QED
  BY <1>1, <1>3, <1>4

\* g is the run of the drops from found.
DropRun(g, on, window, found, m) ==
  g = [n \in 0 .. m |->
         IF n = 0 THEN found ELSE Pruned(on, window, g[n - 1], Len(found) + 1 - n)]

LEMMA DropsRun ==
  ASSUME NEW on, NEW window, NEW found, NEW m \in Nat
  PROVE  \E g : DropRun(g, on, window, found, m)
<1> DEFINE Runs(k) == \E g : DropRun(g, on, window, found, k)
           P == {k \in Nat : Runs(k)}
<1>1. Runs(0)
  <2> DEFINE g == [n \in 0 .. 0 |-> found]
  <2>1. g = [n \in 0 .. 0 |->
               IF n = 0 THEN found ELSE Pruned(on, window, g[n - 1], Len(found) + 1 - n)]
    OBVIOUS
  <2> HIDE DEF g
  <2>2. DropRun(g, on, window, found, 0)
    BY <2>1 DEF DropRun
  <2>3. QED
    BY <2>2
<1>2. ASSUME NEW k \in Nat, Runs(k)
      PROVE  Runs(k + 1)
  <2>1. PICK g : DropRun(g, on, window, found, k)
    BY <1>2
  <2>2. PICK last : last = Pruned(on, window, g[k], Len(found) + 1 - (k + 1))
    OBVIOUS
  <2> DEFINE h == [n \in 0 .. k + 1 |-> IF n <= k THEN g[n] ELSE last]
  <2>3. \A n \in 0 .. k :
          g[n] = IF n = 0 THEN found ELSE Pruned(on, window, g[n - 1], Len(found) + 1 - n)
    BY <2>1 DEF DropRun
  <2>4. /\ \A n \in 0 .. k : h[n] = g[n] /\ (n # 0 => h[n - 1] = g[n - 1])
        /\ h[k + 1] = last /\ h[(k + 1) - 1] = g[k] /\ k + 1 # 0
        /\ DOMAIN h = 0 .. k + 1
    OBVIOUS
  <2>5. \A n \in 0 .. k + 1 : n \in 0 .. k \/ n = k + 1
    OBVIOUS
  <2>6. h = [n \in 0 .. k + 1 |-> h[n]]
    OBVIOUS
  <2> HIDE DEF h
  <2>7. ASSUME NEW n \in 0 .. k + 1
        PROVE  h[n] = IF n = 0 THEN found ELSE Pruned(on, window, h[n - 1], Len(found) + 1 - n)
    <3>1. CASE n \in 0 .. k
      <4>1. h[n] = g[n] /\ (n # 0 => h[n - 1] = g[n - 1])
        BY <2>4, <3>1
      <4>2. g[n] = IF n = 0 THEN found ELSE Pruned(on, window, g[n - 1], Len(found) + 1 - n)
        BY <2>3, <3>1
      <4>3. QED
        BY <4>1, <4>2
    <3>2. CASE n = k + 1
      BY <2>2, <2>4, <3>2
    <3>3. QED
      BY <2>5, <3>1, <3>2
  <2>8. [n \in 0 .. k + 1 |-> h[n]] =
          [n \in 0 .. k + 1 |->
             IF n = 0 THEN found ELSE Pruned(on, window, h[n - 1], Len(found) + 1 - n)]
    BY <2>7
  <2>9. DropRun(h, on, window, found, k + 1)
    BY <2>6, <2>8 DEF DropRun
  <2>10. QED
    BY <2>9
<1> HIDE DEF Runs
<1>3. 0 \in P /\ \A n \in 0 .. m : n \in P /\ n < m => n + 1 \in P
  BY <1>1, <1>2
<1> HIDE DEF P
<1>4. m \in P
  <2>1. 0 .. m \subseteq P /\ m \in 0 .. m
    BY <1>3, SetInduction
  <2>2. QED
    BY <2>1
<1>5. QED
  BY <1>4 DEF P, Runs

LEMMA DropsEarn ==
  ASSUME NEW s, s.minSupport \in Nat, NEW ex, IsFiniteSet(DOMAIN ex), NEW on, NEW window,
         NEW found, RulesOver(ex, found), EachEarned(s, ex, found)
  PROVE  /\ RulesOver(ex, DropClauses(on, window, found))
         /\ EachEarned(s, ex, DropClauses(on, window, found))
<1> DEFINE m == Len(found)
           left == CHOOSE g : g = [n \in 0 .. m |->
                     IF n = 0 THEN found ELSE Pruned(on, window, g[n - 1], m + 1 - n)]
           Fine(n) == /\ RulesOver(ex, left[n]) /\ EachEarned(s, ex, left[n])
                      /\ Len(left[n]) \in Nat /\ Len(left[n]) >= m - n
           P == {n \in 0 .. m : Fine(n)}
<1>1. m \in Nat
  BY DEF RulesOver
<1>2. DropClauses(on, window, found) = left[m]
  BY DEF DropClauses
<1>3. DropRun(left, on, window, found, m)
  <2>1. \E g : DropRun(g, on, window, found, m)
    BY <1>1, DropsRun
  <2>2. \E g : g = [n \in 0 .. m |->
                      IF n = 0 THEN found ELSE Pruned(on, window, g[n - 1], m + 1 - n)]
    BY <2>1 DEF DropRun
  <2>3. left = [n \in 0 .. m |->
                  IF n = 0 THEN found ELSE Pruned(on, window, left[n - 1], m + 1 - n)]
    BY <2>2
  <2> HIDE DEF left
  <2>4. QED
    BY <2>3 DEF DropRun
<1>4. \A n \in 0 .. m :
        left[n] = IF n = 0 THEN found ELSE Pruned(on, window, left[n - 1], m + 1 - n)
  BY <1>3 DEF DropRun
<1> HIDE DEF left
<1>5. 0 \in P
  <2>1. 0 \in 0 .. m /\ m >= m - 0
    BY <1>1
  <2>2. left[0] = found
    BY <1>4, <2>1
  <2>3. QED
    BY <1>1, <2>1, <2>2
<1>6. ASSUME NEW n \in 0 .. m, n \in P, n < m
      PROVE  n + 1 \in P
  <2>1. n + 1 \in 0 .. m /\ n + 1 # 0 /\ (n + 1) - 1 = n /\ m + 1 - (n + 1) = m - n
    BY <1>1, <1>6
  <2>2. left[n + 1] = Pruned(on, window, left[n], m - n)
    BY <1>4, <2>1
  <2>3. Fine(n)
    BY <1>6
  <2>4. m - n \in 1 .. Len(left[n])
    BY <1>1, <1>6, <2>3
  <2>5. /\ RulesOver(ex, left[n + 1]) /\ EachEarned(s, ex, left[n + 1])
        /\ Len(left[n + 1]) \in Nat /\ Len(left[n + 1]) >= Len(left[n]) - 1
    BY <2>2, <2>3, <2>4, PrunedEarns
  <2>6. Len(left[n + 1]) >= m - (n + 1)
    BY <1>1, <2>3, <2>5
  <2>7. QED
    BY <2>1, <2>5, <2>6
<1> HIDE DEF P
<1>7. m \in P
  <2>1. m \in 0 .. m
    BY <1>1
  <2>2. \A n \in 0 .. m : n \in P /\ n < m => n + 1 \in P
    BY <1>6
  <2> HIDE DEF m
  <2>3. 0 .. m \subseteq P
    BY <1>1, <1>5, <2>2, SetInduction
  <2>4. QED
    BY <2>1, <2>3
<1>8. QED
  BY <1>2, <1>7 DEF P

RunEarns(s, run) ==
  LET kept == run.kept
      pos == run.search.pos
      Before(i) == UNION {kept[j].coverage : j \in 1 .. i - 1}
      union == Before(Len(kept) + 1)
  IN /\ \A i \in DOMAIN kept :
          Cardinality((kept[i].coverage \cap pos) \ Before(i)) >= s.minSupport
     /\ kept # <<>> /\ kept = run.found =>
          ~FailsGate(s, Cardinality(union \cap pos), Cardinality(union))

\* What the learner returns for any settings and any finite training set.
LEMMA LearnHornEarns ==
  ASSUME NEW s, s.minSupport \in Nat, s.maxRules \in Nat, NEW train, IsFiniteSet(train)
  PROVE  RunEarns(s, LearnHorn(s, train))
<1> DEFINE ex == Chronological(train)
           on == FirstSearch(s, ex)
           window == PruneWindow(s, ex)
           seeds == ValidatedSeeds(s, ex)
           scope == AllOf(ex) \ window
           preds == Searched(s, RankedPredicates(s, ex))
           found == Cover(s, on, window, seeds)
           kept == IF window = {} THEN found ELSE DropClauses(on, window, found)
<1>1. LearnHorn(s, train) = [search |-> on, found |-> found, kept |-> kept]
  BY DEF LearnHorn, Kept
<1>2. IsFiniteSet(DOMAIN ex)
  <2>1. DOMAIN ex = 1 .. Cardinality(train)
    BY DEF Chronological, InOrder
  <2>2. QED
    BY <2>1, FS_CardinalityType, FS_Interval
<1> HIDE DEF ex
<1>3. on = [ex |-> ex, pos |-> PositiveMask(ex), uncovered |-> PositiveMask(ex), selected |-> {},
            scope |-> scope, preds |-> preds]
  BY DEF FirstSearch
<1> HIDE DEF window, preds, seeds
<1>4. window = {} => scope = AllOf(ex)
  OBVIOUS
<1>5. CoverInv(s, ex, scope, preds, on, <<>>)
  <2>1. DOMAIN <<>> = {}
    OBVIOUS
  <2>2. CoverageOf(<<>>) = {}
    BY <2>1 DEF CoverageOf
  <2>3. PositiveMask(ex) \ CoverageOf(<<>>) = PositiveMask(ex)
    BY <2>2
  <2>4. on = [ex |-> ex, pos |-> PositiveMask(ex),
              uncovered |-> PositiveMask(ex) \ CoverageOf(<<>>),
              selected |-> CoverageOf(<<>>), scope |-> scope, preds |-> preds]
    BY <1>3, <2>2, <2>3
  <2>5. <<>> \in Seq({})
    OBVIOUS
  <2>6. RulesOver(ex, <<>>)
    BY <2>1, <2>5 DEF RulesOver
  <2>7. EachEarned(s, ex, <<>>)
    BY <2>1 DEF EachEarned
  <2>8. AllPass(s, ex, <<>>)
    BY DEF AllPass
  <2>9. QED
    BY <2>4, <2>6, <2>7, <2>8 DEF CoverInv
<1>6. on.pos = PositiveMask(ex)
  BY <1>3
<1> HIDE DEF on, scope
<1>7. RulesOver(ex, found) /\ EachEarned(s, ex, found) /\ AllPass(s, ex, found)
  BY <1>4, <1>5, CoverEarns
<1> HIDE DEF found
<1>8. RulesOver(ex, kept) /\ EachEarned(s, ex, kept)
  BY <1>2, <1>7, DropsEarn
<1> HIDE DEF kept
<1>9. \A i \in DOMAIN kept :
        Cardinality((kept[i].coverage \cap on.pos) \ UNION {kept[j].coverage : j \in 1 .. i - 1})
          >= s.minSupport
  BY <1>6, <1>8 DEF EachEarned, BeforeRule
<1>10. ASSUME kept # <<>>, kept = found
       PROVE  LET union == UNION {kept[j].coverage : j \in 1 .. (Len(kept) + 1) - 1}
              IN ~FailsGate(s, Cardinality(union \cap on.pos), Cardinality(union))
  <2>1. ~FailsGate(s, Cardinality(CoverageOf(kept) \cap on.pos), Cardinality(CoverageOf(kept)))
    BY <1>6, <1>7, <1>10 DEF AllPass
  <2>2. DOMAIN kept = 1 .. (Len(kept) + 1) - 1
    BY <1>8 DEF RulesOver
  <2>3. CoverageOf(kept) = UNION {kept[j].coverage : j \in 1 .. (Len(kept) + 1) - 1}
    BY <2>2 DEF CoverageOf
  <2>4. QED
    BY <2>1, <2>3
<1>11. PICK run : run = LearnHorn(s, train)
  OBVIOUS
<1>12. run.search = on /\ run.found = found /\ run.kept = kept
  BY <1>1, <1>11
<1>13. RunEarns(s, run)
  BY ONLY <1>9, <1>10, <1>12 DEF RunEarns
<1>14. QED
  BY <1>11, <1>13

\* For any settings, each rule brings as many positives of its own as the support gate
\* asks, and unless clauses were dropped the rules together pass the precision gate on the
\* whole training window: neither growing and pruning on parts of it nor the covering loop
\* lets in what the gates would refuse (learn_horn_diagnostics of horn.py).
THEOREM Earned == Spec => RuleSetIsEarned
<1>1. ASSUME IInv, [Next]_vars, NEW c \in Learned
      PROVE  settings.minSupport \in Nat /\ settings.maxRules \in Nat /\ IsFiniteSet(c.train)
  <2>1. settings \in Setting(Predicate) /\ Sound(c.train)
    BY <1>1, LearnedSoundly
  <2>2. QED
    BY ONLY <2>1 DEF Setting, Sound
<1>2. IInv /\ [Next]_vars => \A c \in Learned : RunEarns(settings, LearnHorn(settings, c.train))
  BY <1>1, LearnHornEarns
<1>3. QED
  BY <1>2, Invariance, PTL DEF Spec, RuleSetIsEarned, RunEarns

-----------------------------------------------------------------------------
(* A wide beam loses nothing. *)

\* A body with the support the gate asks of it.
Supported(s, on, b) == Evaluated(s, on, b).new >= s.minSupport

LEMMA EvaluatedBody ==
  ASSUME NEW s, NEW on, NEW b
  PROVE  Evaluated(s, on, b).body = b
BY DEF Evaluated

LEMMA EvaluatedNew ==
  ASSUME NEW s, NEW on, NEW b
  PROVE  Evaluated(s, on, b).new
           = Cardinality(Coverage(on.ex, b) \cap (on.pos \cap on.scope) \cap on.uncovered)
BY DEF Evaluated

\* What a longer body covers, the shorter one does.
LEMMA ShorterIsSupported ==
  ASSUME NEW s, s.minSupport \in Nat, NEW on, IsFiniteSet(DOMAIN on.ex),
         NEW b, Supported(s, on, b), NEW shorter \in SUBSET b
  PROVE  Supported(s, on, shorter)
<1> DEFINE New(x) == Coverage(on.ex, x) \cap (on.pos \cap on.scope) \cap on.uncovered
<1>1. \A x : Coverage(on.ex, x) \subseteq DOMAIN on.ex
  BY DEF Coverage, Where
<1>2. Coverage(on.ex, b) \subseteq Coverage(on.ex, shorter)
  BY DEF Coverage, Where, Matches
<1>3. IsFiniteSet(New(b)) /\ IsFiniteSet(New(shorter)) /\ New(b) \in SUBSET New(shorter)
  <2>1. New(b) \in SUBSET DOMAIN on.ex /\ New(shorter) \in SUBSET DOMAIN on.ex
    BY <1>1
  <2>2. New(b) \in SUBSET New(shorter)
    BY <1>2
  <2> HIDE DEF New
  <2>3. QED
    BY <2>1, <2>2, FS_Subset
<1>4. /\ Cardinality(New(b)) \in Nat /\ Cardinality(New(shorter)) \in Nat
      /\ Cardinality(New(b)) <= Cardinality(New(shorter))
  <2> HIDE DEF New
  <2>1. QED
    BY <1>3, FS_Subset, FS_CardinalityType
<1>5. Evaluated(s, on, b).new = Cardinality(New(b))
      /\ Evaluated(s, on, shorter).new = Cardinality(New(shorter))
  BY EvaluatedNew
<1> HIDE DEF New
<1>6. QED
  BY <1>4, <1>5 DEF Supported

\* A body without one of its literals is a body too.
LEMMA OneLiteralLess ==
  ASSUME NEW s, s.maxBody \in Nat \ {0}, NEW preds, IsFiniteSet(Literals(s, preds)),
         NEW b \in LiteralBodies(s, preds), Cardinality(b) # 1, NEW l \in b
  PROVE  /\ b \ {l} \in LiteralBodies(s, preds)
         /\ Cardinality(b \ {l}) = Cardinality(b) - 1
<1>1. b \in SUBSET Literals(s, preds) /\ Cardinality(b) \in 1 .. s.maxBody /\ OfDistinctPredicates(b)
  BY DEF LiteralBodies
<1>2. IsFiniteSet(b)
  BY <1>1, FS_Subset
<1>3. Cardinality(b \ {l}) = Cardinality(b) - 1
  BY <1>2, FS_RemoveElement
<1>4. OfDistinctPredicates(b \ {l})
  BY <1>1 DEF OfDistinctPredicates
<1>5. Cardinality(b) - 1 \in 1 .. s.maxBody
  BY <1>1
<1>6. QED
  BY <1>1, <1>3, <1>4, <1>5 DEF LiteralBodies

\* How far a search is that considered the bodies of up to d literals: it has seen those
\* with support, and its beam holds the longest of them.
SearchedTo(s, on, x, d) ==
  /\ \A b \in x.seen : b \in LiteralBodies(s, on.preds) /\ Cardinality(b) <= d
  /\ \A e \in x.beam : \E b \in LiteralBodies(s, on.preds) :
       Cardinality(b) <= d /\ e = Evaluated(s, on, b)
  /\ \A b \in LiteralBodies(s, on.preds) :
       Supported(s, on, b) =>
         /\ Cardinality(b) <= d => b \in x.seen
         /\ Cardinality(b) = d => Evaluated(s, on, b) \in x.beam

\* A search whose beam keeps every eligible clause.
WideSearch(s, on) ==
  /\ s.maxBody \in Nat \ {0} /\ s.minSupport \in Nat /\ s.beamWidth = 256
  /\ IsFiniteSet(DOMAIN on.ex)
  /\ IsFiniteSet(Literals(s, on.preds))
  /\ IsFiniteSet(LiteralBodies(s, on.preds))
  /\ Cardinality(LiteralBodies(s, on.preds)) < 256

\* The beam of a level holds every new body with support, and only new bodies.
LEMMA LevelKeeps ==
  ASSUME NEW s, NEW on, WideSearch(s, on), NEW seen, NEW fresh,
         fresh \in SUBSET LiteralBodies(s, on.preds)
  PROVE  LET x == Level(s, on, seen, fresh)
         IN /\ x.seen = seen \cup fresh
            /\ \A e \in x.beam : \E b \in fresh : e = Evaluated(s, on, b)
            /\ \A b \in fresh : Supported(s, on, b) => Evaluated(s, on, b) \in x.beam
<1> DEFINE LB == LiteralBodies(s, on.preds)
           level == {Evaluated(s, on, b) : b \in fresh}
           eligible == Eligible(s, level)
           f == [b \in fresh |-> Evaluated(s, on, b)]
<1>1. IsFiniteSet(fresh) /\ Cardinality(fresh) \in Nat /\ Cardinality(fresh) < 256
  <2>1. /\ IsFiniteSet(fresh) /\ Cardinality(fresh) <= Cardinality(LB)
        /\ Cardinality(LB) < 256 /\ IsFiniteSet(LB)
    BY FS_Subset DEF WideSearch
  <2>2. Cardinality(fresh) \in Nat /\ Cardinality(LB) \in Nat
    BY <2>1, FS_CardinalityType
  <2>3. QED
    BY <2>1, <2>2
<1>2. f \in Surjection(fresh, level)
  BY DEF Surjection
<1>3. IsFiniteSet(level) /\ Cardinality(level) <= Cardinality(fresh)
  BY <1>1, <1>2, FS_Surjection
<1>4. /\ Level(s, on, seen, fresh).seen = seen \cup fresh
      /\ Level(s, on, seen, fresh).beam = SelectBeam(s, on, level)
  BY DEF Level
<1>5. eligible \in SUBSET level /\ eligible = {e \in level : e.new >= s.minSupport}
  BY DEF Eligible
<1>6. SelectBeam(s, on, level) =
        {e \in eligible : Cardinality({g \in eligible : BeamLeads(s, on, g, e)}) < 256}
  BY DEF SelectBeam, WideSearch
<1> HIDE DEF f, eligible
<1>7. \A e : Cardinality({g \in eligible : BeamLeads(s, on, g, e)}) < 256
  <2> SUFFICES ASSUME NEW e
               PROVE  Cardinality({g \in eligible : BeamLeads(s, on, g, e)}) < 256
    OBVIOUS
  <2>1. PICK ahead : ahead = {g \in eligible : BeamLeads(s, on, g, e)}
    OBVIOUS
  <2>2. ahead \in SUBSET level
    BY <1>5, <2>1
  <2> HIDE DEF level
  <2>3. /\ IsFiniteSet(ahead) /\ Cardinality(ahead) <= Cardinality(level)
    BY <1>3, <2>2, FS_Subset
  <2>4. Cardinality(ahead) \in Nat /\ Cardinality(level) \in Nat
    BY <1>3, <2>3, FS_CardinalityType
  <2>5. QED
    BY <1>1, <1>3, <2>1, <2>3, <2>4
<1>8. SelectBeam(s, on, level) = eligible
  BY <1>6, <1>7
<1>9. \A b \in fresh : Supported(s, on, b) => Evaluated(s, on, b) \in eligible
  BY <1>5 DEF Supported
<1>10. \A e \in eligible : \E b \in fresh : e = Evaluated(s, on, b)
  BY <1>5
<1> HIDE DEF level
<1>11. QED
  BY <1>4, <1>8, <1>9, <1>10

LEMMA FirstLevel ==
  ASSUME NEW s, NEW on, WideSearch(s, on)
  PROVE  SearchedTo(s, on, Level(s, on, {}, {{l} : l \in Literals(s, on.preds)}), 1)
<1> DEFINE LB == LiteralBodies(s, on.preds)
           first == {{l} : l \in Literals(s, on.preds)}
<1>1. \A b \in LB : Cardinality(b) \in 1 .. s.maxBody
  BY DEF LiteralBodies
<1>2. \A b \in first : b \in LB /\ Cardinality(b) = 1
  <2> SUFFICES ASSUME NEW l \in Literals(s, on.preds)
               PROVE  {l} \in LB /\ Cardinality({l}) = 1
    OBVIOUS
  <2>1. Cardinality({l}) = 1
    BY FS_Singleton
  <2>2. OfDistinctPredicates({l})
    BY DEF OfDistinctPredicates
  <2>3. 1 \in 1 .. s.maxBody
    BY DEF WideSearch
  <2>4. QED
    BY <2>1, <2>2, <2>3 DEF LiteralBodies
<1>3. ASSUME NEW b \in LB, Cardinality(b) <= 1
      PROVE  b \in first
  <2>1. b \in SUBSET Literals(s, on.preds)
    BY DEF LiteralBodies
  <2>2. Cardinality(b) = 1 /\ IsFiniteSet(b)
    BY <1>1, <1>3, <2>1, FS_Subset DEF WideSearch
  <2>3. PICK l : b = {l}
    BY <2>2, FS_Singleton
  <2>4. QED
    BY <2>1, <2>3
<1> HIDE DEF LB, first
<1>4. PICK x, none : none = {} /\ x = Level(s, on, none, first)
  OBVIOUS
<1>5. /\ x.seen = none \cup first
      /\ \A e \in x.beam : \E b \in first : e = Evaluated(s, on, b)
      /\ \A b \in first : Supported(s, on, b) => Evaluated(s, on, b) \in x.beam
  <2>1. first \in SUBSET LB
    BY <1>2
  <2>2. QED
    BY <1>4, <2>1, LevelKeeps DEF LB
<1>6. \A b \in LB : Cardinality(b) \in Int
  BY <1>1 DEF WideSearch
<1>7. SearchedTo(s, on, x, 1)
  BY <1>2, <1>3, <1>4, <1>5, <1>6 DEF SearchedTo, LB
<1>8. QED
  BY <1>4, <1>7 DEF first

\* What a level refines: bodies up to one literal longer, among them every longer body
\* with support.
LEMMA DeeperSearches ==
  ASSUME NEW s, NEW on, WideSearch(s, on), NEW d \in Nat \ {0}, d < s.maxBody,
         NEW x, SearchedTo(s, on, x, d)
  PROVE  SearchedTo(s, on, Deeper(s, on, x, d + 1), d + 1)
<1> DEFINE LB == LiteralBodies(s, on.preds)
           Lits == Literals(s, on.preds)
           fresh == Refinements(s, on.preds, x.beam, d + 1) \ x.seen
<1>1. s.maxBody \in Nat /\ IsFiniteSet(Lits)
  BY DEF WideSearch
<1>2. \A b \in LB : /\ b \in SUBSET Lits /\ Cardinality(b) \in 1 .. s.maxBody
                    /\ OfDistinctPredicates(b) /\ IsFiniteSet(b)
  BY <1>1, FS_Subset DEF LiteralBodies
<1>3. \A b : b \in Refinements(s, on.preds, x.beam, d + 1) <=>
        /\ OfDistinctPredicates(b)
        /\ \E e \in x.beam, l \in Lits : Cardinality(e.body) < d + 1 /\ b = e.body \cup {l}
  BY DEF Refinements
<1>4. ASSUME NEW b \in fresh
      PROVE  b \in LB /\ Cardinality(b) <= d + 1
  <2>1. PICK e \in x.beam, l \in Lits : b = e.body \cup {l}
    BY <1>3
  <2>2. PICK c \in LB : Cardinality(c) <= d /\ e = Evaluated(s, on, c)
    BY DEF SearchedTo
  <2>3. b = c \cup {l}
    BY <2>1, <2>2, EvaluatedBody
  <2>4. c \in SUBSET Lits /\ IsFiniteSet(c) /\ Cardinality(c) \in 1 .. s.maxBody
    BY <1>2
  <2>5. Cardinality(b) = IF l \in c THEN Cardinality(c) ELSE Cardinality(c) + 1
    BY <2>3, <2>4, FS_AddElement
  <2>6. Cardinality(b) \in 1 .. s.maxBody /\ Cardinality(b) <= d + 1
    BY <1>1, <2>2, <2>4, <2>5
  <2>7. b \in SUBSET Lits /\ OfDistinctPredicates(b)
    BY <1>3, <2>3, <2>4
  <2>8. QED
    BY <2>6, <2>7 DEF LiteralBodies
<1>5. ASSUME NEW b \in LB, Supported(s, on, b), Cardinality(b) = d + 1
      PROVE  b \in fresh
  <2>1. Cardinality(b) # 1 /\ b # {}
    BY <1>5, FS_EmptySet
  <2>2. PICK l \in b : TRUE
    BY <2>1
  <2>3. b \ {l} \in LB /\ Cardinality(b \ {l}) = d
    <3>1. b \ {l} \in LB /\ Cardinality(b \ {l}) = Cardinality(b) - 1
      BY <2>1, OneLiteralLess DEF WideSearch
    <3>2. QED
      BY <1>5, <3>1
  <2>4. Supported(s, on, b \ {l})
    BY <1>5, ShorterIsSupported DEF WideSearch
  <2>5. Evaluated(s, on, b \ {l}) \in x.beam
    BY <2>3, <2>4 DEF SearchedTo
  <2>6. Evaluated(s, on, b \ {l}).body = b \ {l}
    BY EvaluatedBody
  <2>7. l \in Lits /\ b = (b \ {l}) \cup {l} /\ OfDistinctPredicates(b)
    BY <1>2
  <2>8. d < d + 1
    OBVIOUS
  <2>9. b \in Refinements(s, on.preds, x.beam, d + 1)
    BY <1>3, <2>3, <2>5, <2>6, <2>7, <2>8
  <2>10. b \notin x.seen
    <3>1. ~(Cardinality(b) <= d)
      BY <1>5
    <3>2. QED
      BY <3>1 DEF SearchedTo
  <2>11. QED
    BY <2>9, <2>10
<1> HIDE DEF LB, Lits, fresh
<1>6. PICK y : y = Level(s, on, x.seen, fresh)
  OBVIOUS
<1>7. fresh \in SUBSET LB
  BY <1>4
<1>8. /\ y.seen = x.seen \cup fresh
      /\ \A e \in y.beam : \E b \in fresh : e = Evaluated(s, on, b)
      /\ \A b \in fresh : Supported(s, on, b) => Evaluated(s, on, b) \in y.beam
  BY <1>6, <1>7, LevelKeeps DEF LB
<1>9. \A b \in LB : Cardinality(b) \in Int
  BY <1>1, <1>2
<1>10. \A b \in y.seen : b \in LB /\ Cardinality(b) <= d + 1
  BY <1>4, <1>8, <1>9 DEF SearchedTo, LB
<1>11. \A e \in y.beam : \E b \in LB : Cardinality(b) <= d + 1 /\ e = Evaluated(s, on, b)
  BY <1>4, <1>8
<1>12. ASSUME NEW b \in LB, Supported(s, on, b)
       PROVE  /\ Cardinality(b) <= d + 1 => b \in y.seen
              /\ Cardinality(b) = d + 1 => Evaluated(s, on, b) \in y.beam
  <2>1. Cardinality(b) <= d => b \in x.seen
    BY <1>12 DEF SearchedTo, LB
  <2>2. Cardinality(b) = d + 1 => b \in fresh
    BY <1>5, <1>12
  <2>3. Cardinality(b) <= d + 1 => Cardinality(b) <= d \/ Cardinality(b) = d + 1
    BY <1>9
  <2>4. QED
    BY <1>8, <1>12, <2>1, <2>2, <2>3
<1>13. SearchedTo(s, on, y, d + 1)
  BY <1>10, <1>11, <1>12 DEF SearchedTo, LB
<1>14. Deeper(s, on, x, d + 1) = y
  BY <1>6 DEF Deeper, fresh
<1>15. QED
  BY <1>13, <1>14

\* g is the run of the search, level by level.
SearchRun(g, s, on, first, m) ==
  g = [n \in 0 .. m |-> IF n = 0 THEN Level(s, on, {}, first) ELSE Deeper(s, on, g[n - 1], n + 1)]

\* There is one.
LEMMA SearchesRun ==
  ASSUME NEW s, NEW on, NEW first, NEW m \in Nat
  PROVE  \E g : SearchRun(g, s, on, first, m)
<1> DEFINE Runs(k) == \E g : SearchRun(g, s, on, first, k)
           P == {k \in Nat : Runs(k)}
<1>1. Runs(0)
  <2> DEFINE g == [n \in 0 .. 0 |-> Level(s, on, {}, first)]
  <2>1. g = [n \in 0 .. 0 |->
               IF n = 0 THEN Level(s, on, {}, first) ELSE Deeper(s, on, g[n - 1], n + 1)]
    OBVIOUS
  <2> HIDE DEF g
  <2>2. SearchRun(g, s, on, first, 0)
    BY <2>1 DEF SearchRun
  <2>3. QED
    BY <2>2
<1>2. ASSUME NEW k \in Nat, Runs(k)
      PROVE  Runs(k + 1)
  <2>1. PICK g : SearchRun(g, s, on, first, k)
    BY <1>2
  <2>2. PICK last : last = Deeper(s, on, g[k], (k + 1) + 1)
    OBVIOUS
  <2> DEFINE h == [n \in 0 .. k + 1 |-> IF n <= k THEN g[n] ELSE last]
  <2>3. \A n \in 0 .. k :
          g[n] = IF n = 0 THEN Level(s, on, {}, first) ELSE Deeper(s, on, g[n - 1], n + 1)
    BY <2>1 DEF SearchRun
  <2>4. /\ \A n \in 0 .. k : h[n] = g[n] /\ (n # 0 => h[n - 1] = g[n - 1])
        /\ h[k + 1] = last /\ h[(k + 1) - 1] = g[k] /\ k + 1 # 0
        /\ DOMAIN h = 0 .. k + 1
    OBVIOUS
  <2>5. \A n \in 0 .. k + 1 : n \in 0 .. k \/ n = k + 1
    OBVIOUS
  <2>6. h = [n \in 0 .. k + 1 |-> h[n]]
    OBVIOUS
  <2> HIDE DEF h
  <2>7. ASSUME NEW n \in 0 .. k + 1
        PROVE  h[n] = IF n = 0 THEN Level(s, on, {}, first) ELSE Deeper(s, on, h[n - 1], n + 1)
    <3>1. CASE n \in 0 .. k
      <4>1. h[n] = g[n] /\ (n # 0 => h[n - 1] = g[n - 1])
        BY <2>4, <3>1
      <4>2. g[n] = IF n = 0 THEN Level(s, on, {}, first) ELSE Deeper(s, on, g[n - 1], n + 1)
        BY <2>3, <3>1
      <4>3. QED
        BY <4>1, <4>2
    <3>2. CASE n = k + 1
      BY <2>2, <2>4, <3>2
    <3>3. QED
      BY <2>5, <3>1, <3>2
  <2>8. [n \in 0 .. k + 1 |-> h[n]] =
          [n \in 0 .. k + 1 |->
             IF n = 0 THEN Level(s, on, {}, first) ELSE Deeper(s, on, h[n - 1], n + 1)]
    BY <2>7
  <2>9. SearchRun(h, s, on, first, k + 1)
    BY <2>6, <2>8 DEF SearchRun
  <2>10. QED
    BY <2>9
<1> HIDE DEF Runs
<1>3. 0 \in P /\ \A n \in 0 .. m : n \in P /\ n < m => n + 1 \in P
  BY <1>1, <1>2
<1> HIDE DEF P
<1>4. m \in P
  <2>1. 0 .. m \subseteq P /\ m \in 0 .. m
    BY <1>3, SetInduction
  <2>2. QED
    BY <2>1
<1>5. QED
  BY <1>4 DEF P, Runs

\* A search with a wide beam considers every body with support, and nothing but bodies.
LEMMA WideBeamSees ==
  ASSUME NEW s, NEW on, WideSearch(s, on)
  PROVE  LET seen == BeamSearch(s, on, {{l} : l \in Literals(s, on.preds)})
         IN /\ seen \subseteq LiteralBodies(s, on.preds)
            /\ \A b \in LiteralBodies(s, on.preds) : Supported(s, on, b) => b \in seen
<1> DEFINE first == {{l} : l \in Literals(s, on.preds)}
           m == s.maxBody - 1
           search == CHOOSE g : g = [n \in 0 .. m |->
                       IF n = 0 THEN Level(s, on, {}, first) ELSE Deeper(s, on, g[n - 1], n + 1)]
           P == {n \in 0 .. m : SearchedTo(s, on, search[n], n + 1)}
<1>1. BeamSearch(s, on, first) = search[m].seen
  BY DEF BeamSearch
<1>2. m \in Nat /\ m + 1 = s.maxBody
  BY DEF WideSearch
<1> HIDE DEF first, m
<1>3. SearchRun(search, s, on, first, m)
  <2>1. \E g : SearchRun(g, s, on, first, m)
    BY <1>2, SearchesRun
  <2>2. \E g : g = [n \in 0 .. m |->
                      IF n = 0 THEN Level(s, on, {}, first) ELSE Deeper(s, on, g[n - 1], n + 1)]
    BY <2>1 DEF SearchRun
  <2>3. search = [n \in 0 .. m |->
                    IF n = 0 THEN Level(s, on, {}, first) ELSE Deeper(s, on, search[n - 1], n + 1)]
    BY <2>2
  <2> HIDE DEF search
  <2>4. QED
    BY <2>3 DEF SearchRun
<1>4. \A n \in 0 .. m :
        search[n] = IF n = 0 THEN Level(s, on, {}, first) ELSE Deeper(s, on, search[n - 1], n + 1)
  BY <1>3 DEF SearchRun
<1> HIDE DEF search
<1>5. 0 \in P
  <2>1. 0 \in 0 .. m /\ 0 + 1 = 1
    BY <1>2
  <2>2. search[0] = Level(s, on, {}, first)
    BY <1>4, <2>1
  <2>3. SearchedTo(s, on, search[0], 1)
    BY <2>2, FirstLevel DEF first
  <2>4. QED
    BY <2>1, <2>3
<1>6. ASSUME NEW n \in 0 .. m, n \in P, n < m
      PROVE  n + 1 \in P
  <2>1. n + 1 \in 0 .. m /\ n + 1 # 0 /\ (n + 1) - 1 = n
    BY <1>2, <1>6
  <2>2. search[n + 1] = Deeper(s, on, search[n], (n + 1) + 1)
    BY <1>4, <2>1
  <2>3. SearchedTo(s, on, search[n], n + 1)
    BY <1>6
  <2>4. n + 1 \in Nat \ {0} /\ n + 1 < s.maxBody
    BY <1>2, <1>6, <2>1
  <2>5. SearchedTo(s, on, search[n + 1], (n + 1) + 1)
    BY <2>2, <2>3, <2>4, DeeperSearches
  <2>6. QED
    BY <2>1, <2>5
<1> HIDE DEF P
<1>7. m \in P
  <2>1. m \in 0 .. m
    BY <1>2
  <2>2. 0 .. m \subseteq P
    BY <1>2, <1>5, <1>6, SetInduction
  <2>3. QED
    BY <2>1, <2>2
<1>8. SearchedTo(s, on, search[m], s.maxBody)
  BY <1>2, <1>7 DEF P
<1>9. \A b \in LiteralBodies(s, on.preds) : Cardinality(b) <= s.maxBody
  BY DEF LiteralBodies, WideSearch
<1>10. QED
  BY <1>1, <1>8, <1>9 DEF SearchedTo, first

\* In time, then by id.
TimeBefore(S) == {p \in S \X S : p[1].at < p[2].at \/ (p[1].at = p[2].at /\ p[1].id < p[2].id)}

LEMMA ChronologicalPlaces ==
  ASSUME NEW S, Sound(S), NEW i \in 1 .. Cardinality(S)
  PROVE  Chronological(S)[i] \in S
<1> DEFINE R == TimeBefore(S)
           Lt(x, y) == Leads(<<y.at - x.at, y.id - x.id>>)
           value == CHOOSE x \in S : Cardinality({y \in S : Lt(y, x)}) = i - 1
<1>1. LinearOrder(S, R)
  <2>1. \A x, y \in S : <<x, y>> \in R <=> x.at < y.at \/ (x.at = y.at /\ x.id < y.id)
    BY DEF TimeBefore
  <2> HIDE DEF R
  <2>2. QED
    BY <2>1 DEF Sound, LinearOrder
<1>2. Chronological(S)[i] = value
  BY DEF Chronological, InOrder
<1>3. \A x, y \in S : Lt(y, x) <=> <<y, x>> \in R
  BY LeadsPair DEF TimeBefore, Sound
<1> HIDE DEF Lt, R
<1>4. \A x \in S : {y \in S : Lt(y, x)} = Below(S, R, x)
  BY <1>3 DEF Below
<1>5. \E x \in S : Cardinality(Below(S, R, x)) = i - 1
  BY <1>1, RankExists DEF Sound
<1>6. \E x \in S : Cardinality({y \in S : Lt(y, x)}) = i - 1
  BY <1>4, <1>5
<1>7. QED
  BY <1>2, <1>6

LEMMA RangeIsFinite ==
  ASSUME NEW T, NEW q \in Seq(T)
  PROVE  IsFiniteSet(Range(q))
<1>1. Len(q) \in Nat /\ DOMAIN q = 1 .. Len(q)
  OBVIOUS
<1>2. IsFiniteSet(DOMAIN q)
  BY <1>1, FS_Interval
<1> DEFINE f == [i \in DOMAIN q |-> q[i]]
<1>3. f \in Surjection(DOMAIN q, Range(q))
  BY DEF Surjection, Range
<1> HIDE DEF f
<1>4. QED
  BY <1>2, <1>3, FS_Surjection

\* A finite list without gaps.
IsList(q) == \E T : q \in Seq(T)

\* A list by score has the predicates it was made of.
LEMMA ScoredIsList ==
  ASSUME NEW S, IsFiniteSet(S), \A p \in S : p \in Int, NEW score, \A p \in S : score[p] \in Int
  PROVE  ByScore(S, score) \in Seq(S)
<1> DEFINE n == Cardinality(S)
           Lt(p, q) == Leads(<<score[p] - score[q], q - p>>)
           At(i) == CHOOSE x \in S : Cardinality({y \in S : Lt(y, x)}) = i - 1
           list == [i \in 1 .. n |-> At(i)]
           R == {p \in S \X S : Lt(p[1], p[2])}
<1>1. ByScore(S, score) = list
  BY DEF ByScore, InOrder
<1>2. n \in Nat
  BY FS_CardinalityType
<1>3. \A p, q \in S : Lt(p, q) <=> score[p] > score[q] \/ (score[p] = score[q] /\ q > p)
  <2> SUFFICES ASSUME NEW p \in S, NEW q \in S
               PROVE  Lt(p, q) <=> score[p] > score[q] \/ (score[p] = score[q] /\ q > p)
    OBVIOUS
  <2>1. score[p] \in Int /\ score[q] \in Int /\ p \in Int /\ q \in Int
    OBVIOUS
  <2>2. score[p] - score[q] \in Int /\ q - p \in Int
    BY <2>1
  <2>3. Lt(p, q) <=> score[p] - score[q] > 0 \/ (score[p] - score[q] = 0 /\ q - p > 0)
    BY <2>2, LeadsPair
  <2>4. QED
    BY <2>1, <2>3
<1> HIDE DEF Lt
<1>4. LinearOrder(S, R)
  <2>1. \A p, q \in S : <<p, q>> \in R <=> score[p] > score[q] \/ (score[p] = score[q] /\ q > p)
    BY <1>3
  <2> HIDE DEF R
  <2>2. QED
    BY <2>1 DEF LinearOrder
<1>5. \A x \in S : {y \in S : Lt(y, x)} = Below(S, R, x)
  BY DEF Below
<1> HIDE DEF R
<1>6. ASSUME NEW i \in 1 .. n
      PROVE  At(i) \in S
  <2>1. \E x \in S : Cardinality(Below(S, R, x)) = i - 1
    BY <1>4, RankExists
  <2>2. \E x \in S : Cardinality({y \in S : Lt(y, x)}) = i - 1
    BY <1>5, <2>1
  <2>3. QED
    BY <2>2
<1> HIDE DEF At
<1>7. list \in Seq(S)
  <2>1. list \in [1 .. n -> S]
    BY <1>6
  <2>2. QED
    BY <1>2, <2>1
<1> HIDE DEF list
<1>8. QED
  BY <1>1, <1>7

\* A predicate that some training observation has, and some has not.
Varies(train, p) == \E o, q \in train : p \in o.facts /\ p \notin q.facts

\* The ranked predicates are a list of predicates of the pack that vary.
LEMMA RankedVary ==
  ASSUME NEW s, NEW train, Sound(train), \A o \in train : o.facts \subseteq Predicate
  PROVE  LET ranked == SelectTrainPredicates(s, Chronological(train))
         IN /\ IsList(ranked)
            /\ \A p \in Range(ranked) : p \in 1 .. 9 /\ Varies(train, p)
<1> DEFINE ex == Chronological(train)
           ranked == SelectTrainPredicates(s, ex)
           Fact == UNION {ex[i].facts : i \in DOMAIN ex}
           pos == PositiveMask(ex)
           neg == AllOf(ex) \ pos
           varying == {p \in Fact : Holding(ex, p) # AllOf(ex)}
           chosen ==
             {p \in varying : \A q \in varying : Holding(ex, q) = Holding(ex, p) => p <= q}
           signed == [p \in Fact |-> Cardinality(Holding(ex, p) \cap pos) * Cardinality(neg)
                                     - Cardinality(Holding(ex, p) \cap neg) * Cardinality(pos)]
           gap == [p \in Fact |->
                     IF s.allowNegation /\ signed[p] < 0 THEN -signed[p] ELSE signed[p]]
<1>1. ranked = IF pos = {} \/ neg = {} THEN <<>> ELSE ByScore(chosen, gap)
  BY DEF SelectTrainPredicates
<1>2. DOMAIN ex = 1 .. Cardinality(train) /\ IsFiniteSet(DOMAIN ex)
  <2>1. DOMAIN ex = 1 .. Cardinality(train)
    BY DEF Chronological, InOrder
  <2>2. Cardinality(train) \in Nat
    BY FS_CardinalityType DEF Sound
  <2> HIDE DEF ex
  <2>3. QED
    BY <2>1, <2>2, FS_Interval
<1>3. \A i \in DOMAIN ex : ex[i] \in train
  BY <1>2, ChronologicalPlaces
<1> HIDE DEF ex
<1>4. Fact \in SUBSET (1 .. 9)
  <2>1. Predicate \subseteq 1 .. 9
    BY ExperimentAssumption
  <2>2. \A i \in DOMAIN ex : ex[i].facts \subseteq 1 .. 9
    BY <1>3, <2>1
  <2>3. QED
    BY <2>2
<1>5. IsFiniteSet(1 .. 9)
  <2>1. 1 \in Int /\ 9 \in Int
    OBVIOUS
  <2>2. QED
    BY ONLY <2>1, FS_Interval
<1>6. \A p \in varying : Varies(train, p)
  <2> SUFFICES ASSUME NEW p \in varying
               PROVE  Varies(train, p)
    OBVIOUS
  <2>1. PICK i \in DOMAIN ex : p \in ex[i].facts
    OBVIOUS
  <2>2. PICK j \in DOMAIN ex : p \notin ex[j].facts
    BY DEF Holding, Where, AllOf
  <2>3. QED
    BY <1>3, <2>1, <2>2 DEF Varies
<1>7. \A p \in chosen : gap[p] \in Int
  <2>1. ASSUME NEW p \in Fact
        PROVE  signed[p] \in Int
    <3>1. \A c : Cardinality(Holding(ex, p) \cap c) \in Nat
      <4> SUFFICES ASSUME NEW c
                   PROVE  Cardinality(Holding(ex, p) \cap c) \in Nat
        OBVIOUS
      <4>1. PICK both : both = Holding(ex, p) \cap c
        OBVIOUS
      <4>2. both \in SUBSET DOMAIN ex
        BY <4>1 DEF Holding, Where
      <4>3. IsFiniteSet(both)
        BY <1>2, <4>2, FS_Subset
      <4>4. Cardinality(both) \in Nat
        BY <4>3, FS_CardinalityType
      <4>5. QED
        BY <4>1, <4>4
    <3>2. pos \in SUBSET DOMAIN ex /\ neg \in SUBSET DOMAIN ex
      BY DEF PositiveMask, Where, AllOf
    <3> HIDE DEF pos, neg
    <3>3. Cardinality(pos) \in Nat /\ Cardinality(neg) \in Nat
      BY <1>2, <3>2, FS_Subset, FS_CardinalityType
    <3>4. PICK a, b : /\ a = Cardinality(Holding(ex, p) \cap pos)
                      /\ b = Cardinality(Holding(ex, p) \cap neg)
      OBVIOUS
    <3>5. a \in Nat /\ b \in Nat
      BY <3>1, <3>4
    <3>6. signed[p] = a * Cardinality(neg) - b * Cardinality(pos)
      BY <3>4
    <3>7. a * Cardinality(neg) \in Nat /\ b * Cardinality(pos) \in Nat
      BY <3>3, <3>5
    <3>8. QED
      BY <3>6, <3>7
  <2> HIDE DEF signed, pos, neg
  <2>2. \A p \in chosen : p \in Fact
    OBVIOUS
  <2> HIDE DEF Fact, varying, chosen
  <2>3. QED
    BY <2>1, <2>2
<1>8. chosen \in SUBSET (1 .. 9) /\ chosen \in SUBSET varying
  BY <1>4
<1> HIDE DEF Fact, pos, neg, varying, chosen, signed, gap
<1>9. IsFiniteSet(chosen) /\ \A p \in chosen : p \in Int
  <2>1. IsFiniteSet(chosen)
    BY <1>5, <1>8, FS_Subset
  <2>2. \A p \in chosen : p \in Int
    BY <1>8
  <2>3. QED
    BY <2>1, <2>2
<1>10. ByScore(chosen, gap) \in Seq(chosen)
  BY <1>7, <1>9, ScoredIsList
<1>11. ranked \in Seq(chosen)
  <2>1. <<>> \in Seq(chosen)
    OBVIOUS
  <2> HIDE DEF ranked
  <2>2. QED
    BY <1>1, <1>10, <2>1
<1> HIDE DEF ranked
<1>12. Range(ranked) \subseteq chosen
  BY <1>11 DEF Range
<1>13. QED
  BY <1>6, <1>8, <1>11, <1>12 DEF IsList, ranked, ex

\* A ranking by weight only reorders.
LEMMA OrderedIsPart ==
  ASSUME NEW s, NEW ex, NEW ranked, IsList(ranked), \A p \in Range(ranked) : p \in Int
  PROVE  IsList(Ordered(s, ex, ranked)) /\ Range(Ordered(s, ex, ranked)) \subseteq Range(ranked)
<1> DEFINE among == Range(ranked)
           outweighed == [p \in among |-> Cardinality(among \ Heavier(ex, p))]
           list == ByScore(among, outweighed)
<1>1. Ordered(s, ex, ranked) = IF s.ranking = "rate_gap" THEN ranked ELSE list
  BY DEF Ordered
<1>2. IsFiniteSet(among)
  BY RangeIsFinite DEF IsList
<1>3. ASSUME NEW p \in among
      PROVE  outweighed[p] \in Int
  <2>1. PICK those : those = among \ Heavier(ex, p)
    OBVIOUS
  <2>2. IsFiniteSet(those)
    BY <1>2, <2>1, FS_Subset
  <2>3. Cardinality(those) \in Nat
    BY <2>2, FS_CardinalityType
  <2>4. QED
    BY <2>1, <2>3
<1>4. \A p \in among : p \in Int
  OBVIOUS
<1> HIDE DEF among, outweighed
<1>5. list \in Seq(among)
  BY <1>2, <1>3, <1>4, ScoredIsList
<1> HIDE DEF list
<1>6. IsList(list) /\ Range(list) \subseteq among
  BY <1>5 DEF IsList, Range
<1>7. QED
  BY <1>1, <1>6 DEF among

\* So what is searched, and what seeds may have, varies.
LEMMA RankedPredicatesVary ==
  ASSUME NEW s, NEW train, Sound(train), \A o \in train : o.facts \subseteq Predicate
  PROVE  LET ranked == RankedPredicates(s, Chronological(train))
         IN /\ IsList(ranked)
            /\ \A p \in Range(ranked) : p \in 1 .. 9 /\ Varies(train, p)
<1> DEFINE ex == Chronological(train)
<1>1. PICK gaps : gaps = SelectTrainPredicates(s, ex)
  OBVIOUS
<1>2. IsList(gaps) /\ \A p \in Range(gaps) : p \in 1 .. 9 /\ Varies(train, p)
  BY <1>1, RankedVary
<1>3. \A p \in Range(gaps) : p \in Int
  BY <1>2
<1> HIDE DEF ex
<1>4. IsList(Ordered(s, ex, gaps)) /\ Range(Ordered(s, ex, gaps)) \subseteq Range(gaps)
  BY <1>2, <1>3, OrderedIsPart
<1>5. RankedPredicates(s, ex) = Ordered(s, ex, gaps)
  BY <1>1 DEF RankedPredicates
<1>6. QED
  BY <1>2, <1>4, <1>5 DEF ex

\* The predicates searched are some of those ranked.
LEMMA SearchedIsPart ==
  ASSUME NEW s, s.maxPredicates \in Nat, NEW ranked, IsList(ranked)
  PROVE  IsList(Searched(s, ranked)) /\ Range(Searched(s, ranked)) \subseteq Range(ranked)
<1>1. PICK T : ranked \in Seq(T)
  BY DEF IsList
<1>2. Len(ranked) \in Nat /\ DOMAIN ranked = 1 .. Len(ranked) /\ \A i \in 1 .. Len(ranked) : ranked[i] \in T
  BY <1>1
<1>3. PICK k : k = Min({s.maxPredicates, Len(ranked)})
  OBVIOUS
<1>4. k \in Nat /\ k <= Len(ranked)
  BY <1>2, <1>3, MinOfTwo
<1>5. PICK q : q \in Seq(T) /\ Len(q) = k /\ q = SubSeq(ranked, 1, k)
                /\ \A i \in 1 .. k : q[i] = ranked[i]
  <2>1. \A i \in 1 .. k : ranked[i] \in T
    BY <1>2, <1>4
  <2>2. SubSeq(ranked, 1, k) \in Seq(T) /\ Len(SubSeq(ranked, 1, k)) = k
    BY <1>1, <1>4, <2>1
  <2>3. \A i \in 1 .. k : SubSeq(ranked, 1, k)[i] = ranked[i]
    BY <1>1, <1>4, <2>1
  <2>4. QED
    BY <2>2, <2>3
<1>6. DOMAIN q = 1 .. k
  BY <1>5
<1>7. Range(q) \subseteq Range(ranked)
  BY <1>2, <1>4, <1>5, <1>6 DEF Range
<1>8. Searched(s, ranked) = q
  BY <1>3, <1>5 DEF Searched
<1>9. QED
  BY <1>5, <1>7, <1>8 DEF IsList

\* The predicates of the first search are a finite list.
LEMMA PredicatesAreList ==
  ASSUME NEW s, s.maxPredicates \in Nat, NEW train, Sound(train),
         \A o \in train : o.facts \subseteq Predicate
  PROVE  IsFiniteSet(Range(FirstSearch(s, Chronological(train)).preds))
<1> DEFINE ex == Chronological(train)
           ranked == RankedPredicates(s, ex)
<1>1. IsList(ranked)
  BY RankedPredicatesVary
<1>2. FirstSearch(s, ex).preds = Searched(s, ranked)
  BY DEF FirstSearch
<1> HIDE DEF ex, ranked
<1>3. IsList(Searched(s, ranked))
  BY <1>1, SearchedIsPart
<1>4. QED
  BY <1>2, <1>3, RangeIsFinite DEF IsList, ex

\* So there are finitely many literals, and bodies.
LEMMA BodiesAreFinite ==
  ASSUME NEW s, NEW preds, IsFiniteSet(Range(preds))
  PROVE  IsFiniteSet(Literals(s, preds)) /\ IsFiniteSet(LiteralBodies(s, preds))
<1> DEFINE all == [predicate : Range(preds), negated : BOOLEAN]
           pairs == Range(preds) \X (1 .. 2)
           f == [p \in pairs |-> [predicate |-> p[1], negated |-> p[2] = 1]]
<1>1. IsFiniteSet(1 .. 2)
  <2>1. 1 \in Int /\ 2 \in Int
    OBVIOUS
  <2>2. QED
    BY ONLY <2>1, FS_Interval
<1>2. IsFiniteSet(pairs)
  BY <1>1, FS_Product
<1>3. f \in Surjection(pairs, all)
  <2>1. f \in [pairs -> all]
    OBVIOUS
  <2>2. ASSUME NEW l \in all
        PROVE  \E p \in pairs : f[p] = l
    <3>1. PICK sign \in 1 .. 2 : l.negated <=> sign = 1
      <4>1. CASE l.negated
        BY <4>1
      <4>2. CASE ~l.negated
        BY <4>2
      <4>3. QED
        BY <4>1, <4>2
    <3>2. <<l.predicate, sign>> \in pairs
      OBVIOUS
    <3>3. f[<<l.predicate, sign>>] = [predicate |-> l.predicate, negated |-> sign = 1]
      BY <3>2
    <3>4. l = [predicate |-> l.predicate, negated |-> sign = 1]
      BY <3>1
    <3>5. QED
      BY <3>2, <3>3, <3>4
  <2> HIDE DEF f, all, pairs
  <2>3. QED
    BY <2>1, <2>2 DEF Surjection
<1> HIDE DEF f
<1>4. IsFiniteSet(all)
  BY <1>2, <1>3, FS_Surjection
<1>5. Literals(s, preds) \in SUBSET all
  BY DEF Literals
<1>6. IsFiniteSet(Literals(s, preds))
  BY <1>4, <1>5, FS_Subset
<1>7. IsFiniteSet(SUBSET Literals(s, preds))
  BY <1>6, FS_SUBSET
<1>8. LiteralBodies(s, preds) \in SUBSET SUBSET Literals(s, preds)
  BY DEF LiteralBodies
<1>9. QED
  BY <1>6, <1>7, <1>8, FS_Subset

\* An evaluation does not depend on the strategy, or on the width of the beam.
LEMMA SameEvaluation ==
  ASSUME NEW s, NEW t, NEW on,
         t.minPrecision = s.minPrecision, t.wilson = s.wilson, t.minSupport = s.minSupport,
         t.costTenths = s.costTenths, t.priorOdds = s.priorOdds, t.temporal = s.temporal,
         t.maxBody = s.maxBody, t.allowNegation = s.allowNegation
  PROVE  /\ \A b : Evaluated(t, on, b) = Evaluated(s, on, b)
         /\ \A preds : /\ Literals(t, preds) = Literals(s, preds)
                       /\ LiteralBodies(t, preds) = LiteralBodies(s, preds)
<1>1. ASSUME NEW b
      PROVE  Evaluated(t, on, b) = Evaluated(s, on, b)
  <2>1. \A tp, alerted : FailsGate(t, tp, alerted) <=> FailsGate(s, tp, alerted)
    BY DEF FailsGate, Estimate
  <2>2. QED
    BY <2>1 DEF Evaluated
<1>2. \A preds : Literals(t, preds) = Literals(s, preds)
  BY DEF Literals
<1>3. \A preds : LiteralBodies(t, preds) = LiteralBodies(s, preds)
  BY <1>2 DEF LiteralBodies
<1>4. QED
  BY <1>1, <1>2, <1>3

\* The accepted clauses of the two strategies.
LEMMA WideIsExhaustive ==
  ASSUME NEW b, NEW x, NEW on, WideSearch(b, on), b.strategy = "beam", x.strategy = "exhaustive",
         x.minPrecision = b.minPrecision, x.wilson = b.wilson, x.minSupport = b.minSupport,
         x.costTenths = b.costTenths, x.priorOdds = b.priorOdds, x.temporal = b.temporal,
         x.maxBody = b.maxBody, x.allowNegation = b.allowNegation
  PROVE  Candidates(b, on, {}) = Candidates(x, on, {})
<1> DEFINE LB == LiteralBodies(b, on.preds)
           seen == BeamSearch(b, on, {{l} : l \in Literals(b, on.preds)})
<1>1. /\ \A c : Evaluated(x, on, c) = Evaluated(b, on, c)
      /\ LiteralBodies(x, on.preds) = LB
  BY SameEvaluation
<1>2. seen \subseteq LB /\ \A c \in LB : Supported(b, on, c) => c \in seen
  BY WideBeamSees
<1>3. \A c : Evaluated(b, on, c).passes => Supported(b, on, c)
  BY DEF Evaluated, Supported
<1>4. Considered(x, on, {}) = LB
  BY <1>1 DEF Considered
<1>5. Considered(b, on, {}) = seen
  <2>1. {{l} : l \in Literals(b, on.preds)} \cup {} = {{l} : l \in Literals(b, on.preds)}
    OBVIOUS
  <2>2. QED
    BY <2>1 DEF Considered
<1> HIDE DEF LB, seen
<1>6. Candidates(b, on, {}) = {e \in {Evaluated(b, on, c) : c \in seen} : e.passes}
  BY <1>5 DEF Candidates
<1>7. Candidates(x, on, {}) = {e \in {Evaluated(b, on, c) : c \in LB} : e.passes}
  BY <1>1, <1>4 DEF Candidates
<1>8. QED
  BY <1>2, <1>3, <1>6, <1>7

\* What BeamIsLossless says of one training set.
WideAgrees(s, train) ==
  LET on == LearnHorn(s, train).search
      With(strategy) == [s EXCEPT !.strategy = strategy, !.beamWidth = 256]
  IN Cardinality(LiteralBodies(s, on.preds)) < 256 =>
       Candidates(With("beam"), on, {}) = Candidates(With("exhaustive"), on, {})

\* For any settings, and any finite training set of the pack's predicates.
LEMMA SettingsWide ==
  ASSUME NEW s \in Setting(Predicate), NEW train, Sound(train),
         \A o \in train : o.facts \subseteq Predicate
  PROVE  WideAgrees(s, train)
<1> DEFINE ex == Chronological(train)
           on == FirstSearch(s, ex)
           b == [s EXCEPT !.strategy = "beam", !.beamWidth = 256]
           x == [s EXCEPT !.strategy = "exhaustive", !.beamWidth = 256]
<1>1. LearnHorn(s, train).search = on
  BY DEF LearnHorn, Kept
<1>2. /\ s.maxBody \in Nat \ {0} /\ s.minSupport \in Nat /\ s.maxPredicates \in Nat
      /\ b.maxBody = s.maxBody /\ b.minSupport = s.minSupport /\ b.beamWidth = 256
      /\ b.strategy = "beam" /\ x.strategy = "exhaustive"
  BY DEF Setting
<1>3. /\ x.minPrecision = b.minPrecision /\ x.wilson = b.wilson /\ x.minSupport = b.minSupport
      /\ x.costTenths = b.costTenths /\ x.priorOdds = b.priorOdds /\ x.temporal = b.temporal
      /\ x.maxBody = b.maxBody /\ x.allowNegation = b.allowNegation
      /\ b.allowNegation = s.allowNegation
  BY DEF Setting
<1>4. on.ex = ex
  BY DEF FirstSearch
<1>5. IsFiniteSet(Range(on.preds))
  BY <1>2, PredicatesAreList
<1>6. IsFiniteSet(DOMAIN on.ex)
  <2>1. DOMAIN ex = 1 .. Cardinality(train) /\ Cardinality(train) \in Nat
    BY FS_CardinalityType DEF Chronological, InOrder, Sound
  <2> HIDE DEF ex
  <2>2. QED
    BY <1>4, <2>1, FS_Interval
<1> HIDE DEF b, x, on
<1>7. Literals(b, on.preds) = Literals(s, on.preds)
      /\ LiteralBodies(b, on.preds) = LiteralBodies(s, on.preds)
  <2>1. Literals(b, on.preds) = Literals(s, on.preds)
    BY <1>3 DEF Literals
  <2>2. QED
    BY <1>2, <2>1 DEF LiteralBodies
<1>8. IsFiniteSet(Literals(b, on.preds)) /\ IsFiniteSet(LiteralBodies(b, on.preds))
  BY <1>5, BodiesAreFinite
<1>9. ASSUME Cardinality(LiteralBodies(s, on.preds)) < 256
      PROVE  Candidates(b, on, {}) = Candidates(x, on, {})
  <2>1. WideSearch(b, on)
    BY <1>2, <1>6, <1>7, <1>8, <1>9 DEF WideSearch
  <2>2. QED
    BY <1>2, <1>3, <2>1, WideIsExhaustive
<1>10. QED
  BY <1>1, <1>9 DEF b, x, WideAgrees

\* For any settings, a beam that keeps every eligible clause finds all the clauses the
\* exhaustive search accepts: each body with support is reached through its shorter bodies,
\* which have as much (_search_iteration and _select_beam of horn.py).
THEOREM Lossless == Spec => BeamIsLossless
<1>1. ASSUME IInv, [Next]_vars, NEW c \in Learned
      PROVE  settings \in Setting(Predicate) /\ Sound(c.train)
             /\ \A o \in c.train : o.facts \subseteq Predicate
  BY <1>1, LearnedSoundly
<1>2. IInv /\ [Next]_vars => \A c \in Learned : WideAgrees(settings, c.train)
  BY <1>1, SettingsWide
<1>3. QED
  BY <1>2, Invariance, PTL DEF Spec, BeamIsLossless, WideAgrees

-----------------------------------------------------------------------------
(* Every rule is a clause. *)

LEMMA LessByFactor ==
  ASSUME NEW a \in Int, NEW b \in Int, NEW c \in Nat \ {0}, a * c > b * c
  PROVE  a > b
<1> SUFFICES ASSUME a <= b
             PROVE  FALSE
  OBVIOUS
<1>1. b - a \in Nat
  OBVIOUS
<1>2. (b - a) * c >= 0
  <2>1. \A x, y \in Nat : x * y >= 0
    OBVIOUS
  <2>2. QED
    BY <1>1, <2>1
<1>3. (b - a) * c = b * c - a * c
  OBVIOUS
<1>4. a * c \in Int /\ b * c \in Int
  OBVIOUS
<1>5. QED
  BY <1>2, <1>3, <1>4

LEMMA MoreByFactor ==
  ASSUME NEW a \in Int, NEW b \in Int, NEW c \in Nat \ {0}, a > b
  PROVE  a * c > b * c
<1>1. a - b \in Nat \ {0}
  OBVIOUS
<1>2. (a - b) * c > 0
  <2>1. \A x, y \in Nat \ {0} : x * y > 0
    OBVIOUS
  <2>2. QED
    BY <1>1, <2>1
<1>3. (a - b) * c = a * c - b * c
  OBVIOUS
<1>4. a * c \in Int /\ b * c \in Int
  OBVIOUS
<1>5. QED
  BY <1>2, <1>3, <1>4

\* A difference of fractions, by cross-multiplying.
Cross(a, d, b, e) == a * e - b * d

\* x leads over y, y over z, and x over z.
Chained(x, y, z) ==
  /\ x > 0 /\ y > 0 => z > 0
  /\ x > 0 /\ y = 0 => z > 0
  /\ x = 0 /\ y > 0 => z > 0
  /\ x = 0 /\ y = 0 => z = 0

LEMMA CrossIsTransitive ==
  ASSUME NEW a \in Int, NEW b \in Int, NEW c \in Int,
         NEW d \in Nat \ {0}, NEW e \in Nat \ {0}, NEW f \in Nat \ {0}
  PROVE  Chained(Cross(a, d, b, e), Cross(b, e, c, f), Cross(a, d, c, f))
<1> DEFINE x == Cross(a, d, b, e)
           y == Cross(b, e, c, f)
           z == Cross(a, d, c, f)
<1>1. x \in Int /\ y \in Int /\ z \in Int
  BY DEF Cross
<1>2. z * e = x * f + y * d
  <2>1. z * e = (a * f) * e - (c * d) * e
    BY DEF Cross
  <2>2. x * f = (a * e) * f - (b * d) * f
    BY DEF Cross
  <2>3. y * d = (b * f) * d - (c * e) * d
    BY DEF Cross
  <2>4. (a * f) * e = (a * e) * f /\ (b * d) * f = (b * f) * d /\ (c * d) * e = (c * e) * d
    OBVIOUS
  <2>5. (a * f) * e \in Int /\ (b * d) * f \in Int /\ (c * d) * e \in Int
    OBVIOUS
  <2> HIDE DEF x, y, z
  <2>6. QED
    BY <2>1, <2>2, <2>3, <2>4, <2>5
<1> HIDE DEF x, y, z
<1>3. x * f \in Int /\ y * d \in Int /\ z * e \in Int
  BY <1>1
<1>4. (x > 0 => x * f > 0) /\ (y > 0 => y * d > 0)
  <2>1. 0 * f = 0 /\ 0 * d = 0
    OBVIOUS
  <2>2. QED
    BY <1>1, <2>1, MoreByFactor
<1>5. (x = 0 => x * f = 0) /\ (y = 0 => y * d = 0)
  OBVIOUS
<1>6. z * e > 0 => z > 0
  <2>1. 0 * e = 0
    OBVIOUS
  <2>2. QED
    BY <1>1, <2>1, LessByFactor
<1>7. z * e = 0 => z = 0
  <2>1. 0 * e = 0
    OBVIOUS
  <2>2. z > 0 => z * e > 0
    BY <1>1, <2>1, MoreByFactor
  <2>3. 0 > z => 0 > z * e
    BY <1>1, <2>1, MoreByFactor
  <2>4. QED
    BY <1>1, <1>3, <2>2, <2>3
<1>8. QED
  BY <1>1, <1>2, <1>3, <1>4, <1>5, <1>6, <1>7 DEF x, y, z, Chained

\* l leads over the others of b.
LeadsAll(b, num, den, rank, l) ==
  \A m \in b \ {l} : Leads(<<num[l] * den[m] - num[m] * den[l], rank[m] - rank[l]>>)

\* Of finitely many fractions, ties broken by rank, one leads.
LEMMA OneLeads ==
  ASSUME NEW b, IsFiniteSet(b), b # {}, NEW num \in [b -> Int], NEW den \in [b -> Nat \ {0}],
         NEW rank \in [b -> Nat], \A l, m \in b : rank[l] = rank[m] => l = m
  PROVE  \E l \in b : LeadsAll(b, num, den, rank, l)
<1> DEFINE D(l, m) == Cross(num[l], den[l], num[m], den[m])
           R == {p \in b \X b : D(p[1], p[2]) > 0 \/ (D(p[1], p[2]) = 0 /\ rank[p[2]] > rank[p[1]])}
<1>1. \A l, m \in b : D(l, m) \in Int /\ D(l, m) = -D(m, l)
  <2> SUFFICES ASSUME NEW l \in b, NEW m \in b
               PROVE  D(l, m) \in Int /\ D(l, m) = -D(m, l)
    OBVIOUS
  <2>1. num[l] \in Int /\ num[m] \in Int /\ den[l] \in Int /\ den[m] \in Int
    OBVIOUS
  <2>2. num[l] * den[m] \in Int /\ num[m] * den[l] \in Int
    BY <2>1
  <2>3. QED
    BY <2>2 DEF Cross
<1>2. \A l, m, k \in b : Chained(D(l, m), D(m, k), D(l, k))
  <2> SUFFICES ASSUME NEW l \in b, NEW m \in b, NEW k \in b
               PROVE  Chained(D(l, m), D(m, k), D(l, k))
    OBVIOUS
  <2>1. /\ num[l] \in Int /\ num[m] \in Int /\ num[k] \in Int
        /\ den[l] \in Nat \ {0} /\ den[m] \in Nat \ {0} /\ den[k] \in Nat \ {0}
    OBVIOUS
  <2>2. QED
    BY ONLY <2>1, CrossIsTransitive
<1>3. \A l, m \in b : <<l, m>> \in R <=> D(l, m) > 0 \/ (D(l, m) = 0 /\ rank[m] > rank[l])
  OBVIOUS
<1>4. \A l, m \in b :
        Leads(<<num[l] * den[m] - num[m] * den[l], rank[m] - rank[l]>>) <=> <<l, m>> \in R
  <2> SUFFICES ASSUME NEW l \in b, NEW m \in b
               PROVE  Leads(<<num[l] * den[m] - num[m] * den[l], rank[m] - rank[l]>>)
                        <=> <<l, m>> \in R
    OBVIOUS
  <2>1. D(l, m) = num[l] * den[m] - num[m] * den[l]
    BY DEF Cross
  <2>2. D(l, m) \in Int /\ rank[l] \in Int /\ rank[m] \in Int
    BY <1>1
  <2>3. <<l, m>> \in R <=> D(l, m) > 0 \/ (D(l, m) = 0 /\ rank[m] > rank[l])
    BY <1>3
  <2> HIDE DEF D, R
  <2>4. Leads(<<D(l, m), rank[m] - rank[l]>>)
          <=> D(l, m) > 0 \/ (D(l, m) = 0 /\ rank[m] - rank[l] > 0)
    BY <2>2, LeadsPair
  <2>5. QED
    BY <2>1, <2>2, <2>3, <2>4
<1> HIDE DEF R, D
<1>5. LinearOrder(b, R)
  <2>1. \A l, m, k \in b : <<l, m>> \in R /\ <<m, k>> \in R => <<l, k>> \in R
    BY <1>1, <1>2, <1>3 DEF Chained
  <2>2. \A l \in b : <<l, l>> \notin R
    <3> SUFFICES ASSUME NEW l \in b
                 PROVE  <<l, l>> \notin R
      OBVIOUS
    <3>1. D(l, l) \in Int /\ D(l, l) = -D(l, l)
      BY <1>1
    <3>2. D(l, l) = 0 /\ ~(rank[l] > rank[l])
      BY <3>1
    <3>3. QED
      BY <1>3, <3>2
  <2>3. \A l, m \in b : l = m \/ <<l, m>> \in R \/ <<m, l>> \in R
    <3> SUFFICES ASSUME NEW l \in b, NEW m \in b, l # m
                 PROVE  <<l, m>> \in R \/ <<m, l>> \in R
      OBVIOUS
    <3>1. D(l, m) \in Int /\ D(m, l) \in Int /\ D(l, m) = -D(m, l)
      BY <1>1
    <3>2. rank[l] \in Nat /\ rank[m] \in Nat /\ rank[l] # rank[m]
      OBVIOUS
    <3>3. D(l, m) > 0 \/ D(m, l) > 0 \/ (D(l, m) = 0 /\ D(m, l) = 0)
      BY <3>1
    <3>4. QED
      BY <1>3, <3>2, <3>3
  <2>4. QED
    BY <2>1, <2>2, <2>3 DEF LinearOrder
<1>6. 1 \in 1 .. Cardinality(b)
  BY FS_CardinalityType, FS_EmptySet
<1>7. PICK l \in b : Cardinality(Below(b, R, l)) = 1 - 1
  BY <1>5, <1>6, RankExists
<1>8. Below(b, R, l) = {}
  <2>1. Below(b, R, l) \in SUBSET b
    BY DEF Below
  <2>2. IsFiniteSet(Below(b, R, l))
    BY <2>1, FS_Subset
  <2>3. QED
    BY <1>7, <2>2, FS_EmptySet
<1>9. \A m \in b \ {l} : <<l, m>> \in R
  BY <1>5, <1>8 DEF Below, LinearOrder
<1>10. QED
  BY <1>4, <1>9 DEF LeadsAll

\* g follows next from every part of a set until it stops.
ShrinkRun(g, set, stop, next) ==
  g = [b \in SUBSET set |-> IF b \in stop THEN b ELSE g[next[b]]]

\* Each step that does not stop makes a part smaller, and leaves something of it.
Shrinks(set, stop, next) ==
  /\ IsFiniteSet(set)
  /\ \A b \in SUBSET set :
       /\ b = {} => next[b] = {}
       /\ b # {} /\ b \notin stop =>
            /\ next[b] \in SUBSET b /\ next[b] # {}
            /\ Cardinality(next[b]) = Cardinality(b) - 1

\* There is such a run.
LEMMA ShrinkingRuns ==
  ASSUME NEW set, NEW stop, NEW next, Shrinks(set, stop, next)
  PROVE  \E g : ShrinkRun(g, set, stop, next)
<1> DEFINE All == SUBSET set
           Upto(g, k) == \A b \in All : Cardinality(b) <= k =>
                           g[b] = IF b \in stop THEN b ELSE g[next[b]]
           Runs(k) == \E g : g = [b \in All |-> g[b]] /\ Upto(g, k)
           P == {k \in Nat : Runs(k)}
<1>1. \A b \in All : IsFiniteSet(b) /\ Cardinality(b) \in Nat /\ (Cardinality(b) = 0 <=> b = {})
  BY FS_Subset, FS_CardinalityType, FS_EmptySet DEF Shrinks
<1>2. \A b \in All : /\ b = {} => next[b] = {}
                     /\ b # {} /\ b \notin stop =>
                          next[b] \in All /\ Cardinality(next[b]) = Cardinality(b) - 1
  BY DEF Shrinks
<1> HIDE DEF All
<1>3. Runs(0)
  <2> DEFINE g == [b \in All |-> b]
  <2>1. g = [b \in All |-> g[b]]
    OBVIOUS
  <2>2. Upto(g, 0)
    <3> SUFFICES ASSUME NEW b \in All, Cardinality(b) <= 0
                 PROVE  g[b] = IF b \in stop THEN b ELSE g[next[b]]
      OBVIOUS
    <3>1. Cardinality(b) \in Nat
      BY <1>1
    <3>2. Cardinality(b) = 0
      BY <3>1
    <3>3. b = {} /\ next[b] = b
      BY <1>1, <1>2, <3>2
    <3>4. QED
      BY <3>3
  <2> HIDE DEF g
  <2>3. QED
    BY <2>1, <2>2
<1>4. ASSUME NEW k \in Nat, Runs(k)
      PROVE  Runs(k + 1)
  <2>1. PICK g : Upto(g, k)
    BY <1>4
  <2> DEFINE At(b) == IF Cardinality(b) <= k THEN g[b] ELSE IF b \in stop THEN b ELSE g[next[b]]
             h == [b \in All |-> At(b)]
  <2>2. h = [b \in All |-> h[b]]
    OBVIOUS
  <2>3. \A b \in All : h[b] = At(b)
    OBVIOUS
  <2> HIDE DEF h
  <2>4. ASSUME NEW b \in All, Cardinality(b) <= k + 1
        PROVE  h[b] = IF b \in stop THEN b ELSE h[next[b]]
    <3>1. Cardinality(b) \in Nat
      BY <1>1
    <3>2. CASE b \in stop
      <4>1. Cardinality(b) <= k => g[b] = b
        BY <2>1, <3>2
      <4>2. QED
        BY <2>3, <3>2, <4>1
    <3>3. CASE b \notin stop
      <4>1. next[b] \in All /\ Cardinality(next[b]) <= k /\ Cardinality(next[b]) \in Nat
        <5>1. CASE b = {}
          <6>1. next[b] = b /\ Cardinality(b) = 0
            BY <1>1, <1>2, <5>1
          <6>2. QED
            BY <6>1
        <5>2. CASE b # {}
          <6>1. next[b] \in All /\ Cardinality(next[b]) = Cardinality(b) - 1
            BY <1>2, <3>3, <5>2
          <6>2. Cardinality(next[b]) \in Nat
            BY <1>1, <6>1
          <6>3. QED
            BY <2>4, <3>1, <6>1, <6>2
        <5>3. QED
          BY <5>1, <5>2
      <4>2. h[next[b]] = g[next[b]]
        BY <2>3, <4>1
      <4>3. Cardinality(b) <= k => g[b] = g[next[b]]
        BY <2>1, <3>3
      <4>4. h[b] = g[next[b]]
        BY <2>3, <3>3, <4>3
      <4>5. QED
        BY <3>3, <4>2, <4>4
    <3>4. QED
      BY <3>2, <3>3
  <2>5. QED
    BY <2>2, <2>4
<1> HIDE DEF Runs
<1>5. PICK n : n = Cardinality(set) /\ n \in Nat
  BY FS_CardinalityType DEF Shrinks
<1>6. 0 \in P /\ \A i \in 0 .. n : i \in P /\ i < n => i + 1 \in P
  BY <1>3, <1>4
<1> HIDE DEF P
<1>7. n \in P
  <2>1. 0 .. n \subseteq P /\ n \in 0 .. n
    BY <1>5, <1>6, SetInduction
  <2>2. QED
    BY <2>1
<1>8. PICK g : g = [b \in All |-> g[b]] /\ Upto(g, n)
  BY <1>7 DEF P, Runs
<1>9. \A b \in All : Cardinality(b) <= n
  BY <1>5, FS_Subset DEF All, Shrinks
<1>10. \A b \in All : g[b] = IF b \in stop THEN b ELSE g[next[b]]
  BY <1>8, <1>9
<1>11. g = [b \in All |-> IF b \in stop THEN b ELSE g[next[b]]]
  <2>1. [b \in All |-> g[b]] = [b \in All |-> IF b \in stop THEN b ELSE g[next[b]]]
    BY <1>10
  <2>2. QED
    BY <1>8, <2>1
<1>12. QED
  BY <1>11 DEF ShrinkRun, All

\* Where a run ends is a part of where it began, and not empty.
LEMMA ShrinkingEnds ==
  ASSUME NEW set, NEW stop, NEW next, Shrinks(set, stop, next),
         NEW g, ShrinkRun(g, set, stop, next), set # {}
  PROVE  g[set] \in SUBSET set /\ g[set] # {}
<1> DEFINE Fine(k) == \A b \in SUBSET set : b # {} /\ Cardinality(b) <= k =>
                        g[b] \in SUBSET b /\ g[b] # {}
           P == {k \in Nat : Fine(k)}
<1>1. \A b \in SUBSET set : Cardinality(b) \in Nat /\ (b # {} => Cardinality(b) # 0)
  BY FS_Subset, FS_CardinalityType, FS_EmptySet DEF Shrinks
<1>2. \A b \in SUBSET set : g[b] = IF b \in stop THEN b ELSE g[next[b]]
  BY DEF ShrinkRun
<1>3. Fine(0)
  BY <1>1
<1>4. ASSUME NEW k \in Nat, Fine(k)
      PROVE  Fine(k + 1)
  <2> SUFFICES ASSUME NEW b \in SUBSET set, b # {}, Cardinality(b) <= k + 1
               PROVE  g[b] \in SUBSET b /\ g[b] # {}
    OBVIOUS
  <2>1. CASE b \in stop
    BY <1>2, <2>1
  <2>2. CASE b \notin stop
    <3>1. /\ next[b] \in SUBSET b /\ next[b] # {}
          /\ Cardinality(next[b]) = Cardinality(b) - 1
      BY <2>2 DEF Shrinks
    <3>2. next[b] \in SUBSET set /\ Cardinality(next[b]) <= k
      BY <1>1, <3>1
    <3>3. g[next[b]] \in SUBSET next[b] /\ g[next[b]] # {}
      BY <1>4, <3>1, <3>2
    <3>4. g[b] = g[next[b]]
      BY <1>2, <2>2
    <3>5. QED
      BY <3>1, <3>3, <3>4
  <2>3. QED
    BY <2>1, <2>2
<1> HIDE DEF Fine
<1>5. PICK n : n = Cardinality(set) /\ n \in Nat
  BY FS_CardinalityType DEF Shrinks
<1>6. 0 \in P /\ \A i \in 0 .. n : i \in P /\ i < n => i + 1 \in P
  BY <1>3, <1>4
<1> HIDE DEF P
<1>7. n \in P
  <2>1. 0 .. n \subseteq P /\ n \in 0 .. n
    BY <1>5, <1>6, SetInduction
  <2>2. QED
    BY <2>1
<1>8. Fine(n)
  BY <1>7 DEF P
<1>9. QED
  BY <1>5, <1>8 DEF Fine

\* No two predicates have one rank.
LEMMA RanksDiffer ==
  ASSUME NEW preds, IsList(preds), NEW p \in Nat \ {0}, NEW q \in Nat \ {0},
         RankOf(preds, p) = RankOf(preds, q)
  PROVE  p = q
<1>1. Len(preds) \in Nat /\ DOMAIN preds = 1 .. Len(preds)
  BY DEF IsList
<1>2. \A x : x \in Range(preds) =>
        RankOf(preds, x) \in 1 .. Len(preds) /\ preds[RankOf(preds, x)] = x
  <2> SUFFICES ASSUME NEW x \in Range(preds)
               PROVE  RankOf(preds, x) \in 1 .. Len(preds) /\ preds[RankOf(preds, x)] = x
    OBVIOUS
  <2>1. \E i \in DOMAIN preds : preds[i] = x
    BY DEF Range
  <2>2. RankOf(preds, x) = CHOOSE i \in DOMAIN preds : preds[i] = x
    BY DEF RankOf
  <2>3. QED
    BY <1>1, <2>1, <2>2
<1>3. \A x : x \notin Range(preds) => RankOf(preds, x) = Len(preds) + x
  BY DEF RankOf
<1>4. QED
  BY <1>1, <1>2, <1>3

LEMMA RankIsNatural ==
  ASSUME NEW preds, IsList(preds), NEW p \in Nat
  PROVE  RankOf(preds, p) \in Nat
<1>1. Len(preds) \in Nat /\ DOMAIN preds = 1 .. Len(preds)
  BY DEF IsList
<1>2. CASE p \in Range(preds)
  <2>1. \E i \in DOMAIN preds : preds[i] = p
    BY <1>2 DEF Range
  <2>2. RankOf(preds, p) = CHOOSE i \in DOMAIN preds : preds[i] = p
    BY <1>2 DEF RankOf
  <2>3. RankOf(preds, p) \in DOMAIN preds
    BY <2>1, <2>2
  <2>4. QED
    BY <1>1, <2>3
<1>3. CASE p \notin Range(preds)
  BY <1>1, <1>3 DEF RankOf
<1>4. QED
  BY <1>2, <1>3

\* The value of a body on the prune window is a fraction.
LEMMA ValueIsFraction ==
  ASSUME NEW ex, IsFiniteSet(DOMAIN ex), NEW window, NEW pos, NEW b
  PROVE  LET covered == Coverage(ex, b) \cap window
             p == Cardinality(covered \cap pos)
             value == IF covered = {} THEN <<-1, 1>>
                      ELSE <<2 * p - Cardinality(covered), Cardinality(covered)>>
         IN value[1] \in Int /\ value[2] \in Nat \ {0}
<1> DEFINE covered == Coverage(ex, b) \cap window
           both == covered \cap pos
<1>1. covered \in SUBSET DOMAIN ex /\ both \in SUBSET DOMAIN ex
  BY DEF Coverage, Where
<1> HIDE DEF covered, both
<1>2. /\ IsFiniteSet(covered) /\ Cardinality(covered) \in Nat /\ Cardinality(both) \in Nat
      /\ covered # {} => Cardinality(covered) # 0
  BY <1>1, FS_Subset, FS_CardinalityType, FS_EmptySet
<1>3. CASE covered = {}
  BY <1>3 DEF both, covered
<1>4. CASE covered # {}
  <2>1. 2 * Cardinality(both) - Cardinality(covered) \in Int
    BY <1>2
  <2>2. QED
    BY <1>2, <1>4, <2>1 DEF both, covered
<1>5. QED
  BY <1>3, <1>4

\* A pruned body is a part of the body, and not empty.
LEMMA PruningLeaves ==
  ASSUME NEW on, IsFiniteSet(DOMAIN on.ex), IsList(on.preds), NEW window, NEW body,
         IsFiniteSet(body), body # {}, OfDistinctPredicates(body),
         \A l \in body : l.predicate \in Nat \ {0}
  PROVE  PruneBody(on, window, body) \in SUBSET body /\ PruneBody(on, window, body) # {}
<1> DEFINE Value(b) ==
             LET covered == Coverage(on.ex, b) \cap window
                 p == Cardinality(covered \cap on.pos)
             IN IF covered = {} THEN <<-1, 1>>
                ELSE <<2 * p - Cardinality(covered), Cardinality(covered)>>
           Rank(l) == RankOf(on.preds, l.predicate)
           Better(b, l, m) ==
             Leads(<<Compare(Value(b \ {l}), Value(b \ {m})), Rank(m) - Rank(l)>>)
           Best1(b) == CHOOSE l \in b : \A m \in b \ {l} : Better(b, l, m)
           Stops(b) == Cardinality(b) = 1 \/ Compare(Value(b \ {Best1(b)}), Value(b)) < 0
           stop == {b \in SUBSET body : Stops(b)}
           next == [b \in SUBSET body |-> b \ {Best1(b)}]
           run == CHOOSE g : g = [b \in SUBSET body |->
                                    IF Stops(b) THEN b ELSE g[b \ {Best1(b)}]]
<1>1. PruneBody(on, window, body) = run[body]
  BY DEF PruneBody
<1>2. \A b : Value(b)[1] \in Int /\ Value(b)[2] \in Nat \ {0}
  <2> SUFFICES ASSUME NEW b
               PROVE  Value(b)[1] \in Int /\ Value(b)[2] \in Nat \ {0}
    OBVIOUS
  <2>1. QED
    BY ValueIsFraction
<1>3. \A l \in body : Rank(l) \in Nat
  BY RankIsNatural
<1>4. \A l, m \in body : Rank(l) = Rank(m) => l = m
  <2> SUFFICES ASSUME NEW l \in body, NEW m \in body, Rank(l) = Rank(m)
               PROVE  l = m
    OBVIOUS
  <2>1. l.predicate = m.predicate
    BY RanksDiffer
  <2>2. QED
    BY <2>1 DEF OfDistinctPredicates
<1> HIDE DEF Value, Rank
<1>5. ASSUME NEW b \in SUBSET body, b # {}
      PROVE  Best1(b) \in b
  <2>1. PICK num, den, rank :
          /\ num = [l \in b |-> Value(b \ {l})[1]] /\ den = [l \in b |-> Value(b \ {l})[2]]
          /\ rank = [l \in b |-> Rank(l)]
    OBVIOUS
  <2>2. /\ num \in [b -> Int] /\ den \in [b -> Nat \ {0}] /\ rank \in [b -> Nat]
        /\ \A l, m \in b : rank[l] = rank[m] => l = m
    BY <1>2, <1>3, <1>4, <2>1
  <2>3. IsFiniteSet(b)
    BY FS_Subset
  <2>4. \E l \in b : LeadsAll(b, num, den, rank, l)
    BY ONLY <1>5, <2>2, <2>3, OneLeads
  <2>5. \A l, m \in b : num[l] * den[m] - num[m] * den[l] = Compare(Value(b \ {l}), Value(b \ {m}))
                        /\ rank[m] - rank[l] = Rank(m) - Rank(l)
    BY <2>1 DEF Compare
  <2>6. \E l \in b : \A m \in b \ {l} : Better(b, l, m)
    BY <2>4, <2>5 DEF LeadsAll
  <2> HIDE DEF Better
  <2>7. QED
    BY <2>6
<1> HIDE DEF Better, Best1
<1>6. Shrinks(body, stop, next)
  <2> SUFFICES ASSUME NEW b \in SUBSET body
               PROVE  /\ b = {} => next[b] = {}
                      /\ b # {} /\ b \notin stop =>
                           /\ next[b] \in SUBSET b /\ next[b] # {}
                           /\ Cardinality(next[b]) = Cardinality(b) - 1
    BY DEF Shrinks
  <2>1. next[b] = b \ {Best1(b)}
    OBVIOUS
  <2>2. ASSUME b # {}, b \notin stop
        PROVE  /\ next[b] \in SUBSET b /\ next[b] # {}
               /\ Cardinality(next[b]) = Cardinality(b) - 1
    <3>1. Cardinality(b) # 1
      BY <2>2
    <3>2. Best1(b) \in b
      BY <1>5, <2>2
    <3>3. IsFiniteSet(b)
      BY FS_Subset
    <3>4. PICK c, l : c = next[b] /\ l = Best1(b) /\ c = b \ {l} /\ l \in b
      BY <2>1, <3>2
    <3>5. IsFiniteSet(c) /\ Cardinality(c) = Cardinality(b) - 1
      <4>1. l \in b
        BY <3>4
      <4>2. IsFiniteSet(b \ {l}) /\ Cardinality(b \ {l}) = Cardinality(b) - 1
        BY ONLY <3>3, <4>1, FS_RemoveElement
      <4>3. QED
        BY <3>4, <4>2
    <3>6. c # {}
      BY <3>1, <3>3, <3>5, FS_EmptySet, FS_CardinalityType
    <3>7. QED
      BY <3>4, <3>5, <3>6
  <2>3. QED
    BY <2>1, <2>2
<1>7. \A g : ShrinkRun(g, body, stop, next) <=>
        g = [b \in SUBSET body |-> IF Stops(b) THEN b ELSE g[b \ {Best1(b)}]]
  <2> SUFFICES ASSUME NEW g
               PROVE  [b \in SUBSET body |-> IF b \in stop THEN b ELSE g[next[b]]]
                        = [b \in SUBSET body |-> IF Stops(b) THEN b ELSE g[b \ {Best1(b)}]]
    BY DEF ShrinkRun
  <2>1. \A b \in SUBSET body : (b \in stop <=> Stops(b)) /\ next[b] = b \ {Best1(b)}
    OBVIOUS
  <2> HIDE DEF stop, next, Stops
  <2>2. QED
    BY <2>1
<1> HIDE DEF Stops, stop, next
<1>8. \E g : g = [b \in SUBSET body |-> IF Stops(b) THEN b ELSE g[b \ {Best1(b)}]]
  BY <1>6, <1>7, ShrinkingRuns
<1>9. run = [b \in SUBSET body |-> IF Stops(b) THEN b ELSE run[b \ {Best1(b)}]]
  BY <1>8
<1> HIDE DEF run
<1>10. ShrinkRun(run, body, stop, next)
  BY <1>7, <1>9
<1>11. run[body] \in SUBSET body /\ run[body] # {}
  BY <1>6, <1>10, ShrinkingEnds
<1>12. QED
  BY <1>1, <1>11

LEMMA MoreLiterals ==
  ASSUME NEW s, NEW p, NEW q, Range(p) \subseteq Range(q)
  PROVE  Literals(s, p) \subseteq Literals(s, q) /\ LiteralBodies(s, p) \subseteq LiteralBodies(s, q)
<1>1. Literals(s, p) \subseteq Literals(s, q)
  BY DEF Literals
<1>2. QED
  BY <1>1 DEF LiteralBodies

\* The learner's settings, its predicates, and the ranked ones they are from.
Ranked(s, on, ranked) ==
  /\ s.maxBody \in Nat \ {0}
  /\ IsFiniteSet(Range(ranked)) /\ \A p \in Range(ranked) : p \in Nat \ {0}
  /\ IsFiniteSet(DOMAIN on.ex) /\ IsList(on.preds) /\ Range(on.preds) \subseteq Range(ranked)

\* All bodies seen, and all in the beam, are bodies over the ranked predicates.
SeesBodies(s, ranked, x) ==
  /\ x.seen \subseteq LiteralBodies(s, ranked)
  /\ \A e \in x.beam : e.body \in LiteralBodies(s, ranked)

LEMMA LevelSeesBodies ==
  ASSUME NEW s, NEW on, NEW ranked, NEW seen, NEW fresh,
         seen \subseteq LiteralBodies(s, ranked), fresh \subseteq LiteralBodies(s, ranked)
  PROVE  SeesBodies(s, ranked, Level(s, on, seen, fresh))
<1> DEFINE level == {Evaluated(s, on, b) : b \in fresh}
<1>1. /\ Level(s, on, seen, fresh).seen = seen \cup fresh
      /\ Level(s, on, seen, fresh).beam = SelectBeam(s, on, level)
  BY DEF Level
<1>2. SelectBeam(s, on, level) \subseteq level
  BY DEF SelectBeam, Eligible
<1>3. \A e \in level : e.body \in LiteralBodies(s, ranked)
  BY EvaluatedBody
<1> HIDE DEF level
<1>4. QED
  BY <1>1, <1>2, <1>3 DEF SeesBodies

LEMMA DeeperSeesBodies ==
  ASSUME NEW s, NEW on, NEW ranked, Ranked(s, on, ranked), NEW d \in Nat, d <= s.maxBody,
         NEW x, SeesBodies(s, ranked, x)
  PROVE  SeesBodies(s, ranked, Deeper(s, on, x, d))
<1> DEFINE LB == LiteralBodies(s, ranked)
           Lits == Literals(s, ranked)
           fresh == Refinements(s, on.preds, x.beam, d) \ x.seen
<1>1. s.maxBody \in Nat /\ IsFiniteSet(Lits) /\ Literals(s, on.preds) \subseteq Lits
  BY BodiesAreFinite, MoreLiterals DEF Ranked
<1>2. \A b \in LB : b \in SUBSET Lits /\ Cardinality(b) \in 1 .. s.maxBody
  BY DEF LiteralBodies
<1>3. \A b : b \in Refinements(s, on.preds, x.beam, d) <=>
        /\ OfDistinctPredicates(b)
        /\ \E e \in x.beam, l \in Literals(s, on.preds) :
             Cardinality(e.body) < d /\ b = e.body \cup {l}
  BY DEF Refinements
<1>4. ASSUME NEW b \in fresh
      PROVE  b \in LB
  <2>1. PICK e \in x.beam, l \in Lits : Cardinality(e.body) < d /\ b = e.body \cup {l}
    BY <1>1, <1>3
  <2>2. PICK c \in LB : c = e.body
    BY DEF SeesBodies
  <2>3. c \in SUBSET Lits /\ IsFiniteSet(c) /\ Cardinality(c) \in 1 .. s.maxBody
    BY <1>1, <1>2, FS_Subset
  <2>4. b = c \cup {l} /\ Cardinality(c) < d
    BY <2>1, <2>2
  <2>5. Cardinality(b) = IF l \in c THEN Cardinality(c) ELSE Cardinality(c) + 1
    BY <2>3, <2>4, FS_AddElement
  <2>6. Cardinality(b) \in 1 .. s.maxBody
    BY <1>1, <2>3, <2>4, <2>5
  <2>7. b \in SUBSET Lits /\ OfDistinctPredicates(b)
    BY <1>3, <2>3, <2>4
  <2>8. QED
    BY <2>6, <2>7 DEF LiteralBodies
<1> HIDE DEF fresh, LB, Lits
<1>5. x.seen \subseteq LiteralBodies(s, ranked) /\ fresh \subseteq LiteralBodies(s, ranked)
  BY <1>4 DEF SeesBodies, LB
<1>6. SeesBodies(s, ranked, Level(s, on, x.seen, fresh))
  BY <1>5, LevelSeesBodies
<1>7. QED
  BY <1>6 DEF Deeper, fresh

LEMMA BeamSeesBodies ==
  ASSUME NEW s, NEW on, NEW ranked, Ranked(s, on, ranked), NEW first,
         first \subseteq LiteralBodies(s, ranked)
  PROVE  BeamSearch(s, on, first) \subseteq LiteralBodies(s, ranked)
<1> DEFINE m == s.maxBody - 1
           search == CHOOSE g : g = [n \in 0 .. m |->
                       IF n = 0 THEN Level(s, on, {}, first) ELSE Deeper(s, on, g[n - 1], n + 1)]
           P == {n \in 0 .. m : SeesBodies(s, ranked, search[n])}
<1>1. BeamSearch(s, on, first) = search[m].seen
  BY DEF BeamSearch
<1>2. m \in Nat /\ m + 1 = s.maxBody
  BY DEF Ranked
<1> HIDE DEF m
<1>3. SearchRun(search, s, on, first, m)
  <2>1. \E g : SearchRun(g, s, on, first, m)
    BY <1>2, SearchesRun
  <2>2. \E g : g = [n \in 0 .. m |->
                      IF n = 0 THEN Level(s, on, {}, first) ELSE Deeper(s, on, g[n - 1], n + 1)]
    BY <2>1 DEF SearchRun
  <2>3. search = [n \in 0 .. m |->
                    IF n = 0 THEN Level(s, on, {}, first) ELSE Deeper(s, on, search[n - 1], n + 1)]
    BY <2>2
  <2> HIDE DEF search
  <2>4. QED
    BY <2>3 DEF SearchRun
<1>4. \A n \in 0 .. m :
        search[n] = IF n = 0 THEN Level(s, on, {}, first) ELSE Deeper(s, on, search[n - 1], n + 1)
  BY <1>3 DEF SearchRun
<1> HIDE DEF search
<1>5. 0 \in P
  <2>1. 0 \in 0 .. m
    BY <1>2
  <2>2. search[0] = Level(s, on, {}, first)
    BY <1>4, <2>1
  <2>3. PICK none : none = {}
    OBVIOUS
  <2>4. SeesBodies(s, ranked, Level(s, on, none, first))
    <3>1. none \subseteq LiteralBodies(s, ranked)
      BY <2>3
    <3>2. QED
      BY <3>1, LevelSeesBodies
  <2>5. QED
    BY <2>1, <2>2, <2>3, <2>4
<1>6. ASSUME NEW n \in 0 .. m, n \in P, n < m
      PROVE  n + 1 \in P
  <2>1. n + 1 \in 0 .. m /\ n + 1 # 0 /\ (n + 1) - 1 = n
    BY <1>2, <1>6
  <2>2. search[n + 1] = Deeper(s, on, search[n], (n + 1) + 1)
    BY <1>4, <2>1
  <2>3. SeesBodies(s, ranked, search[n])
    BY <1>6
  <2>4. (n + 1) + 1 \in Nat /\ (n + 1) + 1 <= s.maxBody
    BY <1>2, <1>6
  <2>5. SeesBodies(s, ranked, search[n + 1])
    BY <2>2, <2>3, <2>4, DeeperSeesBodies
  <2>6. QED
    BY <2>1, <2>5
<1> HIDE DEF P
<1>7. m \in P
  <2>1. m \in 0 .. m
    BY <1>2
  <2>2. 0 .. m \subseteq P
    BY <1>2, <1>5, <1>6, SetInduction
  <2>3. QED
    BY <2>1, <2>2
<1>8. SeesBodies(s, ranked, search[m])
  BY <1>7 DEF P
<1>9. QED
  BY <1>1, <1>8 DEF SeesBodies

\* Whichever the strategy and the seeds, what a search considers is a body over them.
LEMMA ConsideredAreBodies ==
  ASSUME NEW s, NEW on, NEW ranked, Ranked(s, on, ranked), NEW seeds,
         seeds \subseteq LiteralBodies(s, ranked)
  PROVE  Considered(s, on, seeds) \subseteq LiteralBodies(s, ranked)
<1>1. /\ Literals(s, on.preds) \subseteq Literals(s, ranked)
      /\ LiteralBodies(s, on.preds) \subseteq LiteralBodies(s, ranked)
  BY MoreLiterals DEF Ranked
<1>2. ASSUME NEW l \in Literals(s, ranked)
      PROVE  {l} \in LiteralBodies(s, ranked)
  <2>1. Cardinality({l}) = 1 /\ 1 \in 1 .. s.maxBody
    BY FS_Singleton DEF Ranked
  <2>2. OfDistinctPredicates({l})
    BY DEF OfDistinctPredicates
  <2>3. QED
    BY <2>1, <2>2 DEF LiteralBodies
<1> DEFINE first == {{l} : l \in Literals(s, on.preds)} \cup seeds
<1>3. first \subseteq LiteralBodies(s, ranked)
  BY <1>1, <1>2
<1>4. Considered(s, on, seeds) = IF s.strategy = "exhaustive"
        THEN LiteralBodies(s, on.preds) \cup seeds ELSE BeamSearch(s, on, first)
  BY DEF Considered
<1> HIDE DEF first
<1>5. BeamSearch(s, on, first) \subseteq LiteralBodies(s, ranked)
  BY <1>3, BeamSeesBodies
<1>6. QED
  BY <1>1, <1>4, <1>5

\* A pruned body is one of them too.
LEMMA PrunedIsBody ==
  ASSUME NEW s, NEW on, NEW ranked, Ranked(s, on, ranked), NEW window,
         NEW body \in LiteralBodies(s, ranked)
  PROVE  PruneBody(on, window, body) \in LiteralBodies(s, ranked)
<1>1. /\ body \in SUBSET Literals(s, ranked) /\ Cardinality(body) \in 1 .. s.maxBody
      /\ OfDistinctPredicates(body)
  BY DEF LiteralBodies
<1>2. IsFiniteSet(body)
  BY <1>1, BodiesAreFinite, FS_Subset DEF Ranked
<1>3. body # {}
  BY <1>1, FS_EmptySet
<1>4. \A l \in body : l.predicate \in Nat \ {0}
  BY <1>1 DEF Ranked, Literals
<1>5. PICK left : left = PruneBody(on, window, body) /\ left \in SUBSET body /\ left # {}
  BY <1>1, <1>2, <1>3, <1>4, PruningLeaves DEF Ranked
<1>6. IsFiniteSet(left) /\ Cardinality(left) <= Cardinality(body) /\ Cardinality(left) \in Nat
  BY <1>2, <1>5, FS_Subset, FS_CardinalityType
<1>7. Cardinality(left) # 0
  BY <1>5, <1>6, FS_EmptySet
<1>8. Cardinality(left) \in 1 .. s.maxBody
  BY <1>1, <1>6, <1>7 DEF Ranked
<1>9. left \in SUBSET Literals(s, ranked) /\ OfDistinctPredicates(left)
  BY <1>1, <1>5 DEF OfDistinctPredicates
<1>10. QED
  BY <1>5, <1>8, <1>9 DEF LiteralBodies

\* So is the body of the rule that an iteration chooses.
LEMMA ChosenIsBody ==
  ASSUME NEW s, NEW on, NEW ranked, Ranked(s, on, ranked), NEW window, NEW seeds,
         seeds \subseteq LiteralBodies(s, ranked),
         NEW r \in Chosen(s, on, window, Candidates(s, on, seeds))
  PROVE  r.body \in LiteralBodies(s, ranked)
<1>1. \A e \in Candidates(s, on, seeds) : e.body \in LiteralBodies(s, ranked)
  BY ConsideredAreBodies, EvaluatedBody DEF Candidates
<1>2. CASE window = {}
  BY <1>1, <1>2 DEF Chosen, Best
<1>3. CASE window # {}
  <2> DEFINE whole == [on EXCEPT !.scope = AllOf(on.ex)]
             P(e) == Evaluated(s, whole, PruneBody(on, window, e.body))
             Q(e) == Evaluated(s, whole, e.body)
  <2>1. PICK e \in Candidates(s, on, seeds) : r = PassingOf(P(e), Q(e))
    BY <1>3 DEF Chosen, ChosenAfterPruning, Best
  <2>2. r = P(e) \/ r = Q(e)
    BY <2>1 DEF PassingOf
  <2>3. P(e).body = PruneBody(on, window, e.body) /\ Q(e).body = e.body
    BY EvaluatedBody
  <2>4. PruneBody(on, window, e.body) \in LiteralBodies(s, ranked)
    BY <1>1, PrunedIsBody
  <2> HIDE DEF P, Q
  <2>5. QED
    BY <1>1, <2>2, <2>3, <2>4
<1>4. QED
  BY <1>2, <1>3

\* A list of rules whose bodies are over the ranked predicates.
RulesOfBodies(s, ranked, rules) ==
  IsList(rules) /\ \A r \in Range(rules) : r.body \in LiteralBodies(s, ranked)

LEMMA IterationOfBodies ==
  ASSUME NEW s, NEW ranked, NEW now, Ranked(s, now.on, ranked), NEW window, NEW seeds, NEW n,
         seeds \subseteq LiteralBodies(s, ranked), RulesOfBodies(s, ranked, now.rules),
         now.on = [ex |-> now.on.ex, pos |-> now.on.pos, uncovered |-> now.on.uncovered,
                   selected |-> now.on.selected, scope |-> now.on.scope, preds |-> now.on.preds]
  PROVE  LET next == Iteration(s, window, seeds, now, n)
         IN /\ Ranked(s, next.on, ranked) /\ RulesOfBodies(s, ranked, next.rules)
            /\ next.on = [ex |-> next.on.ex, pos |-> next.on.pos, uncovered |-> next.on.uncovered,
                          selected |-> next.on.selected, scope |-> next.on.scope,
                          preds |-> next.on.preds]
<1> DEFINE over == Len(now.rules) < n - 1 \/ now.on.uncovered = {}
           chosen == IF over THEN {}
                     ELSE Chosen(s, now.on, window, Candidates(s, now.on, seeds))
           found == CHOOSE x \in chosen : TRUE
<1>1. Iteration(s, window, seeds, now, n) =
        IF chosen = {} THEN now
        ELSE [on |-> AfterRule(now.on, found), rules |-> Append(now.rules, found)]
  BY DEF Iteration
<1>2. CASE chosen = {}
  BY <1>1, <1>2
<1>3. CASE chosen # {}
  <2>1. found \in chosen
    BY <1>3
  <2>2. found \in Chosen(s, now.on, window, Candidates(s, now.on, seeds))
    BY <2>1
  <2> HIDE DEF over, chosen, found
  <2>3. PICK r, on, rules, longer :
          r = found /\ on = now.on /\ rules = now.rules /\ longer = Append(rules, r)
    OBVIOUS
  <2>4. r.body \in LiteralBodies(s, ranked)
    BY <2>2, <2>3, ChosenIsBody
  <2>5. PICK T : rules \in Seq(T)
    BY <2>3 DEF RulesOfBodies, IsList
  <2>6. /\ longer \in Seq(T \cup {r})
        /\ DOMAIN rules = 1 .. Len(rules) /\ DOMAIN longer = 1 .. Len(rules) + 1
        /\ \A i \in DOMAIN rules : longer[i] = rules[i]
        /\ longer[Len(rules) + 1] = r
    <3>1. \A i \in 1 .. Len(rules) : rules[i] \in T
      BY <2>5
    <3>2. rules \in Seq(T \cup {r})
      BY <2>5
    <3>3. QED
      BY <2>3, <2>5, <3>1, <3>2
  <2>7. \A x \in Range(longer) : x \in Range(rules) \/ x = r
    <3>1. Len(rules) \in Nat
      BY <2>5
    <3>2. \A i \in DOMAIN longer : i \in DOMAIN rules \/ i = Len(rules) + 1
      BY <2>6, <3>1
    <3>3. QED
      BY <2>6, <3>2 DEF Range
  <2>8. RulesOfBodies(s, ranked, longer)
    BY <2>3, <2>4, <2>6, <2>7 DEF RulesOfBodies, IsList
  <2>9. PICK ex, pos, uncovered, selected, scope, preds :
          on = [ex |-> ex, pos |-> pos, uncovered |-> uncovered, selected |-> selected,
                scope |-> scope, preds |-> preds]
    BY <2>3
  <2>10. PICK after : after = AfterRule(on, r)
    OBVIOUS
  <2>11. after = [ex |-> ex, pos |-> pos, uncovered |-> uncovered \ r.coverage,
                  selected |-> selected \cup r.coverage, scope |-> scope, preds |-> preds]
    BY <2>9, <2>10, AfterRuleOf
  <2>12. after = [ex |-> after.ex, pos |-> after.pos, uncovered |-> after.uncovered,
                  selected |-> after.selected, scope |-> after.scope, preds |-> after.preds]
    BY <2>11
  <2>13. after.ex = now.on.ex /\ after.preds = now.on.preds
    BY <2>3, <2>9, <2>11
  <2>14. Ranked(s, after, ranked)
    BY <2>13 DEF Ranked
  <2>15. Iteration(s, window, seeds, now, n) = [on |-> after, rules |-> longer]
    BY <1>1, <1>3, <2>3, <2>10
  <2>16. QED
    BY <2>8, <2>12, <2>14, <2>15
<1>4. QED
  BY <1>2, <1>3

LEMMA CoverOfBodies ==
  ASSUME NEW s, s.maxRules \in Nat, NEW ranked, NEW on, Ranked(s, on, ranked), NEW window,
         NEW seeds, seeds \subseteq LiteralBodies(s, ranked),
         on = [ex |-> on.ex, pos |-> on.pos, uncovered |-> on.uncovered, selected |-> on.selected,
               scope |-> on.scope, preds |-> on.preds]
  PROVE  RulesOfBodies(s, ranked, Cover(s, on, window, seeds))
<1> DEFINE first == [on |-> on, rules |-> <<>>]
           m == s.maxRules
           found == CHOOSE g : g = [n \in 0 .. m |->
                      IF n = 0 THEN first ELSE Iteration(s, window, seeds, g[n - 1], n)]
           Fine(x) == /\ Ranked(s, x.on, ranked) /\ RulesOfBodies(s, ranked, x.rules)
                      /\ x.on = [ex |-> x.on.ex, pos |-> x.on.pos, uncovered |-> x.on.uncovered,
                                 selected |-> x.on.selected, scope |-> x.on.scope,
                                 preds |-> x.on.preds]
           P == {n \in 0 .. m : Fine(found[n])}
<1>1. Cover(s, on, window, seeds) = found[m].rules
  BY DEF Cover
<1>2. IterationRun(found, s, window, seeds, first, m)
  <2>1. \E g : IterationRun(g, s, window, seeds, first, m)
    BY IterationsRun
  <2>2. \E g : g = [n \in 0 .. m |->
                      IF n = 0 THEN first ELSE Iteration(s, window, seeds, g[n - 1], n)]
    BY <2>1 DEF IterationRun
  <2>3. found = [n \in 0 .. m |->
                   IF n = 0 THEN first ELSE Iteration(s, window, seeds, found[n - 1], n)]
    BY <2>2
  <2> HIDE DEF found
  <2>4. QED
    BY <2>3 DEF IterationRun
<1>3. \A n \in 0 .. m :
        found[n] = IF n = 0 THEN first ELSE Iteration(s, window, seeds, found[n - 1], n)
  BY <1>2 DEF IterationRun
<1> HIDE DEF found
<1>4. 0 \in P
  <2>1. 0 \in 0 .. m
    OBVIOUS
  <2>2. found[0] = first
    BY <1>3, <2>1
  <2>3. RulesOfBodies(s, ranked, <<>>)
    <3>1. <<>> \in Seq({}) /\ Range(<<>>) = {}
      BY DEF Range
    <3>2. QED
      BY <3>1 DEF RulesOfBodies, IsList
  <2>4. first.on = on /\ first.rules = <<>>
    OBVIOUS
  <2> HIDE DEF first
  <2>5. Fine(found[0])
    BY <2>2, <2>3, <2>4
  <2> HIDE DEF Fine
  <2>6. QED
    BY <2>1, <2>5
<1> HIDE DEF first
<1>5. ASSUME NEW n \in 0 .. m, n \in P, n < m
      PROVE  n + 1 \in P
  <2>1. n + 1 \in 0 .. m /\ n + 1 # 0 /\ (n + 1) - 1 = n
    BY <1>5
  <2>2. found[n + 1] = Iteration(s, window, seeds, found[n], n + 1)
    BY <1>3, <2>1
  <2>3. Fine(found[n])
    BY <1>5
  <2>4. Fine(Iteration(s, window, seeds, found[n], n + 1))
    BY <2>3, IterationOfBodies
  <2> HIDE DEF Fine
  <2>5. QED
    BY <2>1, <2>2, <2>4
<1> HIDE DEF Fine
<1>6. m \in P
  <2>1. m \in Nat /\ m \in 0 .. m
    OBVIOUS
  <2>2. \A n \in 0 .. m : n \in P /\ n < m => n + 1 \in P
    BY <1>5
  <2> HIDE DEF m, P
  <2>3. 0 .. m \subseteq P
    BY <1>4, <2>1, <2>2, SetInduction
  <2>4. QED
    BY <2>1, <2>3
<1>7. Fine(found[m])
  BY <1>6
<1>8. QED
  BY <1>1, <1>7 DEF Fine

\* Dropping clauses leaves some of them.
LEMMA DropsAreOfBodies ==
  ASSUME NEW s, NEW ranked, NEW on, NEW window, NEW found, RulesOfBodies(s, ranked, found)
  PROVE  RulesOfBodies(s, ranked, DropClauses(on, window, found))
<1> DEFINE m == Len(found)
           left == CHOOSE g : g = [n \in 0 .. m |->
                     IF n = 0 THEN found ELSE Pruned(on, window, g[n - 1], m + 1 - n)]
           Fine(n) == /\ RulesOfBodies(s, ranked, left[n])
                      /\ Len(left[n]) \in Nat /\ Len(left[n]) >= m - n
           P == {n \in 0 .. m : Fine(n)}
<1>1. m \in Nat
  BY DEF RulesOfBodies, IsList
<1>2. DropClauses(on, window, found) = left[m]
  BY DEF DropClauses
<1>3. DropRun(left, on, window, found, m)
  <2>1. \E g : DropRun(g, on, window, found, m)
    BY <1>1, DropsRun
  <2>2. \E g : g = [n \in 0 .. m |->
                      IF n = 0 THEN found ELSE Pruned(on, window, g[n - 1], m + 1 - n)]
    BY <2>1 DEF DropRun
  <2>3. left = [n \in 0 .. m |->
                  IF n = 0 THEN found ELSE Pruned(on, window, left[n - 1], m + 1 - n)]
    BY <2>2
  <2> HIDE DEF left
  <2>4. QED
    BY <2>3 DEF DropRun
<1>4. \A n \in 0 .. m :
        left[n] = IF n = 0 THEN found ELSE Pruned(on, window, left[n - 1], m + 1 - n)
  BY <1>3 DEF DropRun
<1> HIDE DEF left
<1>5. 0 \in P
  <2>1. 0 \in 0 .. m /\ m >= m - 0
    BY <1>1
  <2>2. left[0] = found
    BY <1>4, <2>1
  <2>3. QED
    BY <1>1, <2>1, <2>2
<1>6. ASSUME NEW rules, RulesOfBodies(s, ranked, rules), NEW i \in 1 .. Len(rules)
      PROVE  /\ RulesOfBodies(s, ranked, Pruned(on, window, rules, i))
             /\ Len(Pruned(on, window, rules, i)) \in Nat
             /\ Len(Pruned(on, window, rules, i)) >= Len(rules) - 1
  <2>1. Pruned(on, window, rules, i) \in {rules, Without(rules, i)}
    BY DEF Pruned
  <2>2. PICK T : rules \in Seq(T)
    BY <1>6 DEF RulesOfBodies, IsList
  <2>3. PICK n, shorter : n = Len(rules) /\ n \in Nat /\ DOMAIN rules = 1 .. n
                          /\ shorter = Without(rules, i)
    BY <2>2
  <2>4. /\ shorter \in Seq(T) /\ Len(shorter) = n - 1
        /\ \A j \in 1 .. n - 1 : shorter[j] = rules[IF j < i THEN j ELSE j + 1]
    BY <2>2, <2>3, WithoutRule
  <2>5. DOMAIN shorter = 1 .. n - 1
    BY <2>3, <2>4
  <2>6. \A j \in 1 .. n - 1 : (IF j < i THEN j ELSE j + 1) \in 1 .. n
    BY <2>3
  <2>7. Range(shorter) \subseteq Range(rules)
    BY <2>3, <2>4, <2>5, <2>6 DEF Range
  <2>8. RulesOfBodies(s, ranked, shorter)
    BY <1>6, <2>4, <2>7 DEF RulesOfBodies, IsList
  <2>9. n - 1 \in Nat /\ n >= n - 1
    BY <2>3
  <2>10. QED
    BY <1>6, <2>1, <2>3, <2>4, <2>8, <2>9
<1>7. ASSUME NEW n \in 0 .. m, n \in P, n < m
      PROVE  n + 1 \in P
  <2>1. n + 1 \in 0 .. m /\ n + 1 # 0 /\ (n + 1) - 1 = n /\ m + 1 - (n + 1) = m - n
    BY <1>1, <1>7
  <2>2. left[n + 1] = Pruned(on, window, left[n], m - n)
    BY <1>4, <2>1
  <2>3. Fine(n)
    BY <1>7
  <2>4. m - n \in 1 .. Len(left[n])
    BY <1>1, <1>7, <2>3
  <2>5. /\ RulesOfBodies(s, ranked, left[n + 1])
        /\ Len(left[n + 1]) \in Nat /\ Len(left[n + 1]) >= Len(left[n]) - 1
    BY <1>6, <2>2, <2>3, <2>4
  <2>6. Len(left[n + 1]) >= m - (n + 1)
    BY <1>1, <2>3, <2>5
  <2>7. QED
    BY <2>1, <2>5, <2>6
<1> HIDE DEF P
<1>8. m \in P
  <2>1. m \in 0 .. m
    BY <1>1
  <2>2. \A n \in 0 .. m : n \in P /\ n < m => n + 1 \in P
    BY <1>7
  <2> HIDE DEF m
  <2>3. 0 .. m \subseteq P
    BY <1>1, <1>5, <2>2, SetInduction
  <2>4. QED
    BY <2>1, <2>3
<1>9. QED
  BY <1>2, <1>8 DEF P

\* What a rule learned from these examples is: not empty, not too long, without a predicate
\* and its negation, and of predicates that tell the examples apart.
IsClause(s, train, body) ==
  /\ body # {} /\ Cardinality(body) <= s.maxBody
  /\ OfDistinctPredicates(body)
  /\ \A l \in body : (l.negated => s.allowNegation) /\ Varies(train, l.predicate)

\* For any settings, seeds, and finite training set of the pack's predicates.
LEMMA LearnsClauses ==
  ASSUME NEW s \in Setting(Predicate), NEW train, Sound(train),
         \A o \in train : o.facts \subseteq Predicate
  PROVE  \A r \in Range(LearnHorn(s, train).kept) : IsClause(s, train, r.body)
<1> DEFINE ex == Chronological(train)
           ranked == RankedPredicates(s, ex)
           on == FirstSearch(s, ex)
           window == PruneWindow(s, ex)
           seeds == ValidatedSeeds(s, ex)
           found == Cover(s, on, window, seeds)
           kept == IF window = {} THEN found ELSE DropClauses(on, window, found)
<1>1. LearnHorn(s, train).kept = kept
  BY DEF LearnHorn, Kept
<1>2. IsList(ranked) /\ \A p \in Range(ranked) : p \in 1 .. 9 /\ Varies(train, p)
  BY RankedPredicatesVary
<1>3. IsFiniteSet(DOMAIN ex)
  <2>1. DOMAIN ex = 1 .. Cardinality(train) /\ Cardinality(train) \in Nat
    BY FS_CardinalityType DEF Chronological, InOrder, Sound
  <2> HIDE DEF ex
  <2>2. QED
    BY <2>1, FS_Interval
<1>4. s.maxBody \in Nat \ {0} /\ s.maxRules \in Nat /\ s.maxPredicates \in Nat
  BY DEF Setting
<1>5. /\ on = [ex |-> on.ex, pos |-> on.pos, uncovered |-> on.uncovered,
               selected |-> on.selected, scope |-> on.scope, preds |-> on.preds]
      /\ on.ex = ex /\ on.preds = Searched(s, ranked)
  BY DEF FirstSearch
<1> HIDE DEF on, window, ex
<1>6. seeds \subseteq LiteralBodies(s, ranked)
  BY DEF ValidatedSeeds
<1> HIDE DEF seeds, ranked
<1>7. Ranked(s, on, ranked)
  <2>1. IsList(on.preds) /\ Range(on.preds) \subseteq Range(ranked)
    BY <1>2, <1>4, <1>5, SearchedIsPart
  <2>2. IsFiniteSet(Range(ranked))
    BY <1>2, RangeIsFinite DEF IsList
  <2>3. \A p \in Range(ranked) : p \in Nat \ {0}
    BY <1>2
  <2>4. IsFiniteSet(DOMAIN on.ex)
    BY <1>3, <1>5
  <2>5. QED
    BY <1>4, <2>1, <2>2, <2>3, <2>4 DEF Ranked
<1>8. RulesOfBodies(s, ranked, found)
  BY <1>4, <1>5, <1>6, <1>7, CoverOfBodies
<1> HIDE DEF found
<1>9. RulesOfBodies(s, ranked, kept)
  BY <1>8, DropsAreOfBodies
<1> HIDE DEF kept
<1>10. ASSUME NEW body \in LiteralBodies(s, ranked)
       PROVE  IsClause(s, train, body)
  <2>1. /\ body \in SUBSET Literals(s, ranked) /\ Cardinality(body) \in 1 .. s.maxBody
        /\ OfDistinctPredicates(body)
    BY DEF LiteralBodies
  <2>2. body # {} /\ Cardinality(body) <= s.maxBody
    BY <1>4, <2>1, FS_EmptySet
  <2>3. \A l \in body : (l.negated => s.allowNegation) /\ Varies(train, l.predicate)
    BY <1>2, <2>1 DEF Literals
  <2>4. QED
    BY <2>1, <2>2, <2>3 DEF IsClause
<1>11. QED
  BY <1>1, <1>9, <1>10 DEF RulesOfBodies

\* Every rule of a learned candidate is a clause that HornClause accepts: at least one
\* literal, no two of one predicate; as long as the settings allow, and of predicates that
\* some training observation has and some has not.
RulesAreClauses ==
  [][\A c \in Learned : \A body \in c.rules : IsClause(settings, c.train, body)]_vars

\* For any weights of the logistic model and any seed bodies, which the tree of the probe
\* proposes: neither the search, nor pruning literals, nor dropping clauses leaves an empty
\* or a contradictory rule, or one with a literal that tells nothing (apply_predicate_order,
\* _validated_seed_bodies, _prune_body and select_train_predicates of horn.py, HornClause of
\* models.py).
THEOREM Clauses == Spec => RulesAreClauses
<1>1. ASSUME IInv, [Next]_vars, NEW c \in Learned
      PROVE  /\ settings \in Setting(Predicate) /\ Sound(c.train)
             /\ \A o \in c.train : o.facts \subseteq Predicate
             /\ c.rules = {r.body : r \in Range(LearnHorn(settings, c.train).kept)}
  <2>1. c = LearnCandidate(dataset, clock)
    BY <1>1, LearnedSoundly
  <2>2. c.rules = {r.body : r \in Range(LearnHorn(settings, c.train).kept)}
    BY <2>1 DEF LearnCandidate
  <2>3. QED
    BY <1>1, <2>2, LearnedSoundly
<1>2. IInv /\ [Next]_vars =>
        \A c \in Learned : \A body \in c.rules : IsClause(settings, c.train, body)
  BY <1>1, LearnsClauses
<1>3. QED
  BY <1>2, Invariance, PTL DEF Spec, RulesAreClauses

=============================================================================
