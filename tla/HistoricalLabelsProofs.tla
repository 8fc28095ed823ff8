------------------------ MODULE HistoricalLabelsProofs ------------------------
(***************************************************************************)
(* Proofs about HistoricalLabels, for any change units, batches, target,   *)
(* windows and number of commands.  Labels stand and are strong by how     *)
(* they are merged and sealed, whatever the labelling functions return.    *)
(* That they do not leak and can be recomputed rests on what those         *)
(* functions guarantee for any unit, any events and any target: their      *)
(* choices have a value, and a label rests on events that happened after   *)
(* the prediction and on nothing else.                                     *)
(***************************************************************************)
EXTENDS HistoricalLabels, FiniteSetTheorems, WellFoundedInduction, TLAPS

\* Every nonempty set of natural numbers has a least element.
LEMMA LeastNatural ==
  ASSUME NEW T \in SUBSET Nat, T # {}
  PROVE  \E m \in T : \A n \in T : m <= n
<1> DEFINE R == OpToRel(<, Nat)
<1>1. IsWellFoundedOn(R, Nat)
  BY NatLessThanWellFounded
<1>2. PICK m \in T : \A n \in T : ~(<<n, m>> \in R)
  <2> HIDE DEF R
  <2> QED
    BY <1>1, WFMin
<1>3. \A n \in T : ~(n < m)
  BY <1>2 DEF OpToRel
<1>4. QED
  BY <1>3

\* A nonempty set has a member on which a numeric key is least.
LEMMA LeastKey ==
  ASSUME NEW S, S # {}, NEW key \in [S -> Nat]
  PROVE  \E x \in S : \A y \in S : key[x] <= key[y]
<1> DEFINE T == {key[x] : x \in S}
<1>1. T \in SUBSET Nat /\ T # {}
  OBVIOUS
<1>2. PICK m \in T : \A n \in T : m <= n
  <2> HIDE DEF T
  <2> QED
    BY <1>1, LeastNatural
<1>3. QED
  BY <1>2

\* A finite nonempty set has a member that no other one precedes in R.
LEMMA FiniteMinimal ==
  ASSUME NEW S, IsFiniteSet(S), S # {}, NEW R,
         \A x, y, z \in S : <<x, y>> \in R /\ <<y, z>> \in R => <<x, z>> \in R,
         \A x \in S : <<x, x>> \notin R
  PROVE  \E x \in S : \A y \in S : <<y, x>> \notin R
<1> DEFINE below(x) == {y \in S : <<y, x>> \in R}
           size == [x \in S |-> Cardinality(below(x))]
<1>1. ASSUME NEW x \in S
      PROVE  IsFiniteSet(below(x)) /\ size[x] = Cardinality(below(x)) /\ size[x] \in Nat
  <2>1. IsFiniteSet(below(x))
    BY FS_Subset
  <2>2. QED
    BY <2>1, FS_CardinalityType
<1> HIDE DEF size
<1>2. \A x \in S : size[x] \in Nat
  BY <1>1
<1>3. size \in [S -> Nat]
  BY <1>2 DEF size
<1> HIDE DEF below
<1>4. PICK x \in S : \A y \in S : size[x] <= size[y]
  BY <1>3, LeastKey
<1>5. ASSUME NEW y \in S, <<y, x>> \in R
      PROVE  FALSE
  <2>1. y \in below(x) /\ y \notin below(y) /\ below(y) \subseteq below(x)
    BY <1>5 DEF below
  <2>2. size[y] <= size[x] /\ size[x] # size[y]
    BY <1>1, <2>1, FS_Subset
  <2>3. QED
    BY <1>2, <1>4, <2>2
<1>6. QED
  BY <1>5

-----------------------------------------------------------------------------
(* The choices of Outcomes have a value. *)

\* Votes are ordered by three numbers, so a nonempty set of them has an
\* earliest one even if two compare equal.
LEMMA EarliestExists ==
  ASSUME NEW votes, votes # {},
         \A v \in votes : v.available \in Nat /\ v.group \in Nat /\ v.first \in Nat
  PROVE  Earliest(votes) \in votes
<1>1. PICK v1 \in votes : \A w \in votes : v1.available <= w.available
  <2> DEFINE key == [v \in votes |-> v.available]
  <2>1. key \in [votes -> Nat]
    OBVIOUS
  <2>2. PICK x \in votes : \A y \in votes : key[x] <= key[y]
    BY <2>1, LeastKey
  <2>3. QED
    BY <2>2
<1> DEFINE first == {v \in votes : v.available = v1.available}
<1>2. PICK v2 \in first : \A w \in first : v2.group <= w.group
  <2> DEFINE key == [v \in first |-> v.group]
  <2>1. key \in [first -> Nat]
    OBVIOUS
  <2>2. PICK x \in first : \A y \in first : key[x] <= key[y]
    BY <2>1, LeastKey
  <2>3. QED
    BY <2>2
<1> DEFINE group == {v \in first : v.group = v2.group}
<1>3. PICK v3 \in group : \A w \in group : v3.first <= w.first
  <2> DEFINE key == [v \in group |-> v.first]
  <2>1. key \in [group -> Nat]
    OBVIOUS
  <2>2. PICK x \in group : \A y \in group : key[x] <= key[y]
    BY <2>1, LeastKey
  <2>3. QED
    BY <2>2
<1>4. \A w \in votes : ~VoteBefore(w, v3)
  BY <1>1, <1>2, <1>3 DEF VoteBefore
<1>5. QED
  BY <1>4 DEF Earliest

\* So are events.
LEMMA FirstExists ==
  ASSUME NEW records, records # {}, \A e \in records : WellTimed(e)
  PROVE  FirstOf(records) \in records
<1>1. PICK e1 \in records : \A f \in records : e1.occurred <= f.occurred
  <2> DEFINE key == [e \in records |-> e.occurred]
  <2>1. key \in [records -> Nat]
    BY DEF WellTimed
  <2>2. PICK x \in records : \A y \in records : key[x] <= key[y]
    BY <2>1, LeastKey
  <2>3. QED
    BY <2>2
<1> DEFINE first == {e \in records : e.occurred = e1.occurred}
<1>2. PICK e2 \in first : \A f \in first : e2.available <= f.available
  <2> DEFINE key == [e \in first |-> e.available]
  <2>1. key \in [first -> Nat]
    BY DEF WellTimed
  <2>2. PICK x \in first : \A y \in first : key[x] <= key[y]
    BY <2>1, LeastKey
  <2>3. QED
    BY <2>2
<1> DEFINE known == {e \in first : e.available = e2.available}
<1>3. PICK e3 \in known : \A f \in known : e3.id <= f.id
  <2> DEFINE key == [e \in known |-> e.id]
  <2>1. key \in [known -> Nat]
    BY DEF WellTimed
  <2>2. PICK x \in known : \A y \in known : key[x] <= key[y]
    BY <2>1, LeastKey
  <2>3. QED
    BY <2>2
<1>4. \A f \in records : ~Before(f, e3)
  BY <1>1, <1>2, <1>3 DEF Before, WellTimed
<1>5. QED
  BY <1>4 DEF FirstOf

\* Of finitely many coverage records one is the newest.
LEMMA NewestExists ==
  ASSUME NEW records, records # {}, IsFiniteSet(records),
         \A e \in records : WellTimed(e) /\ CoversItsPast(e)
  PROVE  NewestOf(records) \in records
<1> DEFINE R == {p \in records \X records : Newer(p[1], p[2])}
<1>1. \A e, f \in records : <<e, f>> \in R <=> Newer(e, f)
  OBVIOUS
<1>2. \A e, f, g \in records : Newer(e, f) /\ Newer(f, g) => Newer(e, g)
  BY DEF Newer, WellTimed, CoversItsPast
<1>3. \A e \in records : ~Newer(e, e)
  BY DEF Newer, WellTimed, CoversItsPast
<1>4. \E e \in records : \A f \in records : <<f, e>> \notin R
  <2> HIDE DEF R
  <2> QED
    BY <1>1, <1>2, <1>3, FiniteMinimal
<1>5. QED
  BY <1>1, <1>4 DEF NewestOf

-----------------------------------------------------------------------------
(* What votes rest on. *)

\* The vote can be ordered, rests on events of the pool alone and was not
\* knowable before the prediction.
RestsOn(vote, unit, pool) ==
  /\ vote.available \in Nat /\ vote.group \in Nat /\ vote.first \in Nat
  /\ vote.available > unit.prediction
  /\ vote.ids \subseteq {e.id : e \in pool}

\* A pool of events that happened after the prediction.
Later(pool, unit) ==
  /\ unit.prediction \in Nat
  /\ \A e \in pool : WellTimed(e) /\ e.occurred > unit.prediction

LEMMA VoteRests ==
  ASSUME NEW unit, NEW pool, Later(pool, unit), NEW e \in pool, NEW value, NEW strength
  PROVE  RestsOn(Vote(value, strength, e), unit, pool)
BY DEF RestsOn, Later, Vote, WellTimed

LEMMA PositiveRests ==
  ASSUME NEW unit, NEW pool, Later(pool, unit), NEW told \in SUBSET pool, NEW strength,
         NEW v \in Positive(strength, told)
  PROVE  RestsOn(v, unit, pool)
BY VoteRests DEF Positive

LEMMA ExplicitRest ==
  ASSUME NEW unit, NEW pool, Later(pool, unit), NEW target,
         NEW v \in ExplicitVotes(unit, target, pool)
  PROVE  RestsOn(v, unit, pool)
<1>1. PICK e \in pool : v = Vote(e.data.value, e.data.strength, e)
  BY DEF ExplicitVotes, OfKind
<1>2. QED
  BY <1>1, VoteRests

\* A failure, its fix and the success that follows are there, and the last of
\* them became known after the prediction.
LEMMA RepairRests ==
  ASSUME NEW unit, NEW pool, Later(pool, unit), NEW failure \in pool,
         Fixes(failure, pool) # {}
  PROVE  RestsOn(RepairVote(failure, pool), unit, pool)
<1> DEFINE change == FirstOf(Fixes(failure, pool))
           success == FirstOf(SuccessesAfter(failure, change, pool))
           chain == {failure, change, success}
           vote == RepairVote(failure, pool)
<1>1. change \in pool /\ SuccessesAfter(failure, change, pool) # {}
  <2>1. Fixes(failure, pool) \subseteq pool
    BY DEF Fixes
  <2>2. change \in Fixes(failure, pool)
    BY <2>1, FirstExists DEF Later
  <2>3. QED
    BY <2>2 DEF Fixes
<1> HIDE DEF change
<1>2. success \in pool
  <2>1. SuccessesAfter(failure, change, pool) \subseteq pool
    BY DEF SuccessesAfter
  <2>2. QED
    BY <1>1, <2>1, FirstExists DEF Later
<1> HIDE DEF success
<1>3. LatestAvailable(chain) \in {e.available : e \in chain}
  <2>1. \E t \in {e.available : e \in chain} : \A e \in chain : e.available <= t
    BY <1>1, <1>2 DEF Later, WellTimed
  <2>2. QED
    BY <2>1 DEF LatestAvailable
<1>4. /\ vote.available = LatestAvailable(chain)
      /\ vote.ids = {e.id : e \in chain}
      /\ vote.group = failure.group /\ vote.first = failure.id
  BY DEF RepairVote, Vote, change, success
<1>5. LatestAvailable(chain) \in Nat /\ LatestAvailable(chain) > unit.prediction
  BY <1>1, <1>2, <1>3 DEF Later, WellTimed
<1>6. failure.group \in Nat /\ failure.id \in Nat
  BY DEF Later, WellTimed
<1>7. {e.id : e \in chain} \subseteq {e.id : e \in pool}
  BY <1>1, <1>2
<1>8. QED
  BY <1>4, <1>5, <1>6, <1>7 DEF RestsOn

LEMMA LabelingRests ==
  ASSUME NEW unit, NEW pool, Later(pool, unit), NEW target \in Targets, NEW window,
         NEW v \in LabelingVotes(unit, target, pool, window)
  PROVE  RestsOn(v, unit, pool)
<1>1. AfterLanding(unit, pool) \subseteq pool /\ PostMerge(unit, pool) \subseteq pool
  BY DEF AfterLanding, PostMerge
<1>2. CASE target = "validation" /\ v \in ValidationVotes(pool)
  BY <1>2, PositiveRests DEF ValidationVotes, Requests, OfKind
<1>3. CASE target = "review" /\ v \in ReviewVotes(pool)
  BY <1>3, PositiveRests DEF ReviewVotes, Requests, OfKind
<1>4. CASE target = "ci_failure" /\ v \in CiVotes(pool)
  <2>1. CASE v \in Positive("weak", {e \in Failures(pool) :
                                       e.data.attributed = "unattributed_weak"})
    BY <2>1, PositiveRests DEF Failures, OfKind
  <2>2. CASE \E f \in Failures(pool) : Fixes(f, pool) # {} /\ v = RepairVote(f, pool)
    BY <2>2, RepairRests DEF Failures, OfKind
  <2>3. QED
    BY <1>4, <2>1, <2>2 DEF CiVotes
<1>5. CASE target = "revert_or_hotfix" /\ v \in RevertVotes(unit, pool)
  <2>1. PICK told \in SUBSET pool, strength \in {"strong", "weak"} :
          v \in Positive(strength, told)
    BY <1>1, <1>5 DEF RevertVotes, OfKind
  <2>2. QED
    BY <2>1, PositiveRests
<1>6. CASE target = "defect" /\ v \in DefectVotes(unit, pool)
  <2>1. PICK told \in SUBSET pool, strength \in {"strong", "weak"} :
          v \in Positive(strength, told)
    BY <1>1, <1>6 DEF DefectVotes, OfKind
  <2>2. QED
    BY <2>1, PositiveRests
<1>7. CASE target = "rework" /\ v \in ReworkVotes(unit, pool, window)
  <2>1. PICK told \in SUBSET pool : v \in Positive("weak", told)
    BY <1>1, <1>7 DEF ReworkVotes, OfKind
  <2>2. QED
    BY <2>1, PositiveRests
<1>8. QED
  BY <1>2, <1>3, <1>4, <1>5, <1>6, <1>7 DEF LabelingVotes, Targets

-----------------------------------------------------------------------------
(* What labels rest on. *)

\* The window that a command judges absences against was registered, and is a
\* record of the log.
Recorded(window, days, log) ==
  window # NoWindow =>
    /\ days # Unregistered
    /\ \E e \in log : e.kind \in Coverage /\ window.id = e.id /\ window.until = e.data.until

Covers(log) ==
  /\ IsFiniteSet(log)
  /\ \A e \in log : WellTimed(e) /\ (e.kind \in Coverage => CoversItsPast(e))

LEMMA GitWindowRecorded ==
  ASSUME NEW log, Covers(log)
  PROVE  Recorded(GitWindow(log), GitWindowDays, log)
<1> DEFINE horizons == {e \in log : e.kind = "git_history_horizon"}
<1>1. CASE horizons # {}
  <2>1. IsFiniteSet(horizons)
    BY FS_Subset DEF Covers
  <2>2. \A e \in horizons : WellTimed(e) /\ CoversItsPast(e)
    BY DEF Covers, Coverage
  <2>3. NewestOf(horizons) \in horizons
    <3> HIDE DEF horizons
    <3> QED
      BY <1>1, <2>1, <2>2, NewestExists
  <2>4. QED
    BY <2>3 DEF GitWindow, Recorded, Coverage
<1>2. QED
  BY <1>1 DEF GitWindow, Recorded

LEMMA ReworkWindowRecorded ==
  ASSUME NEW log, Covers(log)
  PROVE  Recorded(ReworkWindow(log), ReworkWindowDays, log)
<1> DEFINE scans == {e \in log : e.kind = "git_rework_scan"}
<1>1. CASE scans # {}
  <2>1. IsFiniteSet(scans)
    BY FS_Subset DEF Covers
  <2>2. \A e \in scans : WellTimed(e) /\ CoversItsPast(e)
    BY DEF Covers, Coverage
  <2>3. NewestOf(scans) \in scans
    <3> HIDE DEF scans
    <3> QED
      BY <1>1, <2>1, <2>2, NewestExists
  <2>4. QED
    BY <2>3 DEF ReworkWindow, Recorded, Coverage
<1>2. QED
  BY <1>1 DEF ReworkWindow, Recorded

\* A window that has closed was recorded after the prediction.
LEMMA WindowRests ==
  ASSUME NEW unit, unit.prediction \in Nat, NEW log, Covers(log), NEW window,
         NEW days \in Nat \ {0}, Recorded(window, days, log), window # NoWindow,
         unit.prediction + days <= window.until,
         NEW pool, {e \in log : e.kind \in Coverage /\ e.occurred > unit.prediction} \subseteq pool
  PROVE  RestsOn(WindowVote(unit, days, window), unit, pool)
<1>1. PICK e \in log : e.kind \in Coverage /\ window.id = e.id /\ window.until = e.data.until
  BY DEF Recorded
<1>2. WellTimed(e) /\ CoversItsPast(e)
  BY <1>1 DEF Covers
<1>3. e.occurred > unit.prediction /\ e.id \in Nat /\ unit.prediction + days \in Nat
  BY <1>1, <1>2 DEF WellTimed, CoversItsPast
<1>4. e \in pool
  BY <1>1, <1>3
<1>5. QED
  BY <1>1, <1>3, <1>4 DEF RestsOn, WindowVote

\* A label is that of votes that were heard, and its evidence is one of theirs.
LEMMA AggregateRests ==
  ASSUME NEW unit, NEW pool, NEW votes, NEW weak,
         \A v \in votes : RestsOn(v, unit, pool),
         Aggregate(votes, weak).evidence # NoEvidence
           \/ Aggregate(votes, weak).label # "unknown"
  PROVE  /\ Aggregate(votes, weak).evidence.available \in Nat
         /\ Aggregate(votes, weak).evidence.available > unit.prediction
         /\ Aggregate(votes, weak).evidence.ids \subseteq {e.id : e \in pool}
<1> DEFINE heard == Applicable(votes, weak)
           strong == {v \in heard : v.strength = "strong"}
           chosen == IF strong # {} THEN strong ELSE heard
<1>1. Cardinality({v.value : v \in heard}) = 1
  BY DEF Aggregate
<1>2. heard # {}
  <2>1. Cardinality({}) = 0
    BY FS_EmptySet
  <2>2. heard = {} => {v.value : v \in heard} = {}
    OBVIOUS
  <2>3. QED
    BY <1>1, <2>1, <2>2
<1>3. chosen # {} /\ chosen \subseteq votes
  BY <1>2 DEF Applicable
<1>4. Earliest(chosen) \in votes
  <2> HIDE DEF chosen
  <2> QED
    BY <1>3, EarliestExists DEF RestsOn
<1>5. Aggregate(votes, weak).evidence
        = [available |-> Earliest(chosen).available, ids |-> Earliest(chosen).ids]
  BY <1>1 DEF Aggregate
<1>6. /\ Earliest(chosen).available \in Nat
      /\ Earliest(chosen).available > unit.prediction
      /\ Earliest(chosen).ids \subseteq {e.id : e \in pool}
  <2> HIDE DEF chosen
  <2> QED
    BY <1>4 DEF RestsOn
<1> HIDE DEF chosen
<1>7. QED
  BY <1>5, <1>6

\* What may speak for a unit that the given events are linked to.
MaySpeakFor(unit, told, log) ==
  {f \in log : /\ f.occurred > unit.prediction
               /\ f.kind \in Coverage \/ f \in Scoped(unit, told)}

IdsOf(told) == {e.id : e \in told}

\* Whatever the target and the mode, the evidence of a derived label became
\* available after the prediction, and is made of events of the unit, or of a
\* coverage record, that happened after it.
LEMMA DerivedRests ==
  ASSUME NEW unit, unit.prediction \in Nat, NEW told,
         NEW target \in Targets, NEW weak,
         NEW log, Covers(log), told \subseteq log,
         NEW git, Recorded(git, GitWindowDays, log),
         NEW rework, Recorded(rework, ReworkWindowDays, log),
         NEW d, d = DeriveOutcome(unit, told, target, weak, git, rework),
         d.evidence # NoEvidence \/ d.label # "unknown"
  PROVE  /\ d.evidence.available \in Nat /\ d.evidence.available > unit.prediction
         /\ d.evidence.ids \subseteq IdsOf(MaySpeakFor(unit, told, log))
<1> DEFINE scoped == Scoped(unit, told)
           pool == MaySpeakFor(unit, told, log)
           votes == ExplicitVotes(unit, target, scoped)
                      \cup LabelingVotes(unit, target, scoped, rework)
           window == CASE target = "revert_or_hotfix" -> GitWindowVotes(unit, git)
                       [] target = "rework" -> ReworkWindowVotes(unit, rework)
                       [] OTHER -> {}
           absent == \A v \in votes : v.value # "positive"
<1>1. Later(scoped, unit) /\ scoped \subseteq pool
  BY DEF Later, Scoped, Covers, MaySpeakFor
<1>2. \A v \in votes : RestsOn(v, unit, pool)
  <2> HIDE DEF scoped, pool
  <2>1. {e.id : e \in scoped} \subseteq {e.id : e \in pool}
    BY <1>1
  <2>2. \A v \in votes : RestsOn(v, unit, scoped)
    BY <1>1, ExplicitRest, LabelingRests
  <2>3. QED
    BY <2>1, <2>2 DEF RestsOn
<1>3. \A v \in window : RestsOn(v, unit, pool)
  <2>1. {e \in log : e.kind \in Coverage /\ e.occurred > unit.prediction} \subseteq pool
    BY DEF MaySpeakFor
  <2> HIDE DEF pool
  <2>2. \A v \in GitWindowVotes(unit, git) : RestsOn(v, unit, pool)
    <3>1. git # NoWindow => GitWindowDays \in Nat \ {0}
      BY OutcomesAssumption DEF Recorded
    <3>2. QED
      BY <2>1, <3>1, WindowRests DEF GitWindowVotes
  <2>3. \A v \in ReworkWindowVotes(unit, rework) : RestsOn(v, unit, pool)
    <3>1. rework # NoWindow => ReworkWindowDays \in Nat \ {0}
      BY OutcomesAssumption DEF Recorded
    <3>2. QED
      BY <2>1, <3>1, WindowRests DEF ReworkWindowVotes
  <2>4. QED
    BY <2>2, <2>3
<1>4. d = Aggregate(votes \cup (IF absent THEN window ELSE {}), weak)
  BY DEF DeriveOutcome
<1> HIDE DEF votes, window, absent, pool
<1>5. \A v \in votes \cup (IF absent THEN window ELSE {}) : RestsOn(v, unit, pool)
  BY <1>2, <1>3
<1>6. /\ d.evidence.available \in Nat /\ d.evidence.available > unit.prediction
      /\ d.evidence.ids \subseteq {e.id : e \in pool}
  BY <1>4, <1>5, AggregateRests
<1>7. QED
  BY <1>6 DEF pool, IdsOf

-----------------------------------------------------------------------------
(* What the commands keep. *)

\* The events that may speak for a unit: none that had happened when it was
\* predicted, and none of another change.
Speaks(u, log) ==
  {e \in log : e.occurred > u.prediction /\ (e.kind \in Coverage \/ e \in UnitEvents(u, log))}

\* A label, from whatever history it was derived, rests on what is recorded now.
EvidenceIsRecorded ==
  \A u \in DOMAIN dataset : dataset[u].label \in Known =>
    /\ dataset[u].evidence.available > u.prediction
    /\ dataset[u].evidence.ids \subseteq IdsOf(Speaks(u, events))

\* What every action keeps: types, a finite log, confirmatory labels that are
\* strong and evidence that is recorded.
IInv == TypeOK /\ IsFiniteSet(events) /\ ConfirmatoryIsStrong /\ EvidenceIsRecorded

\* A command reads the events that are there and no others.
LEMMA LinkedAreRead ==
  ASSUME NEW u, NEW log, NEW weak
  PROVE  Observation(u, log, weak).linked \subseteq log
BY DEF Observation, UnitEvents

\* An outcome is the aggregate of the votes that it lists.
LEMMA DerivedFromVotes ==
  ASSUME NEW u, NEW log, NEW weak
  PROVE  Derive(u, log, weak) = Aggregate(Derive(u, log, weak).votes, weak)
<1>1. ASSUME NEW votes
      PROVE  Aggregate(votes, weak).votes = votes
  BY DEF Aggregate
<1>2. PICK votes : Derive(u, log, weak) = Aggregate(votes, weak)
  BY DEF Derive, DeriveOutcome
<1>3. QED
  BY <1>1, <1>2

\* An observation that is confirmatory and has a label has one that strong
\* votes alone give: with weak evidence it is checked, and without it there are
\* no other votes.
LEMMA ObservedIsStrong ==
  ASSUME NEW u, NEW log, NEW weak \in BOOLEAN,
         Observation(u, log, weak).label \in Known,
         Observation(u, log, weak).sealed.confirmatory
  PROVE  Aggregate(Observation(u, log, weak).votes, FALSE).label
           = Observation(u, log, weak).label
<1> DEFINE d == Derive(u, log, weak)
           o == Observation(u, log, weak)
<1>1. o.votes = d.votes
  BY DEF Observation
<1>2. o.label = d.label
  BY DEF Observation, Known
<1>3. CASE ~weak
  <2>1. d = Aggregate(d.votes, FALSE)
    BY <1>3, DerivedFromVotes
  <2>2. QED
    BY <1>1, <1>2, <2>1
<1>4. CASE weak
  <2>1. ~WeakContributed([d EXCEPT !.label = o.label], weak)
    BY DEF Observation
  <2>2. [d EXCEPT !.label = o.label].votes = d.votes /\ [d EXCEPT !.label = o.label].label = o.label
    <3>1. d = Aggregate(d.votes, weak)
      BY DerivedFromVotes
    <3>2. \E l, e, v : d = [label |-> l, evidence |-> e, votes |-> v]
      BY <3>1 DEF Aggregate
    <3>3. QED
      BY <3>2
  <2>3. o.label # "unknown"
    BY DEF Known
  <2>4. QED
    BY <1>1, <1>4, <2>1, <2>2, <2>3 DEF WeakContributed
<1>5. QED
  BY <1>3, <1>4

\* What becomes of an observation when a command ends.
LEMMA PersistedObservations ==
  ASSUME NEW p \in Process, NEW present \in SUBSET Unit, Persist(p, present),
         NEW u \in DOMAIN dataset'
  PROVE  \/ u \in DOMAIN dataset /\ dataset'[u] = dataset[u]
         \/ /\ dataset'[u] = Observation(u, read[p], mode[p])
            /\ u \in present
            /\ Mergeable(u, Observation(u, read[p], mode[p]))
BY DEF Persist

\* An observation is replaced, never removed.
LEMMA ObservationsStay ==
  ASSUME NEW p \in Process, NEW present \in SUBSET Unit, Persist(p, present)
  PROVE  DOMAIN dataset \subseteq DOMAIN dataset'
BY DEF Persist

\* The log of any moment is one that a window can be read from.
LEMMA LogsCover ==
  ASSUME NEW log, IsFiniteSet(log), log \subseteq UNION Batch
  PROVE  Covers(log)
BY LabelsAssumption DEF Covers

\* A derived label never has evidence that was available at the prediction.
LEMMA DerivedIsLate ==
  ASSUME NEW u \in Unit, NEW log, IsFiniteSet(log), log \subseteq UNION Batch, NEW weak,
         Derive(u, log, weak).evidence # NoEvidence \/ Derive(u, log, weak).label # "unknown"
  PROVE  /\ Derive(u, log, weak).evidence.available \in Nat
         /\ Derive(u, log, weak).evidence.available > u.prediction
         /\ Derive(u, log, weak).evidence.ids \subseteq IdsOf(Speaks(u, log))
<1> DEFINE linked == UnitEvents(u, log)
           pool == MaySpeakFor(u, linked, log)
<1>1. Covers(log)
  BY LogsCover
<1>2. linked \subseteq log
  BY DEF UnitEvents
<1>3. pool \subseteq Speaks(u, log)
  BY DEF Speaks, Scoped, MaySpeakFor
<1>4. /\ Recorded(GitWindow(log), GitWindowDays, log)
      /\ Recorded(ReworkWindow(log), ReworkWindowDays, log)
  BY <1>1, GitWindowRecorded, ReworkWindowRecorded
<1>5. u.prediction \in Nat /\ Target \in Targets
  BY LabelsAssumption
<1>6. PICK d : d = Derive(u, log, weak)
  OBVIOUS
<1>7. /\ d.evidence.available \in Nat /\ d.evidence.available > u.prediction
      /\ d.evidence.ids \subseteq IdsOf(pool)
  <2>1. d = DeriveOutcome(u, linked, Target, weak, GitWindow(log), ReworkWindow(log))
    BY <1>6 DEF Derive
  <2>2. d.evidence # NoEvidence \/ d.label # "unknown"
    BY <1>6
  <2>3. PICK git, rework : git = GitWindow(log) /\ rework = ReworkWindow(log)
    OBVIOUS
  <2>4. Recorded(git, GitWindowDays, log) /\ Recorded(rework, ReworkWindowDays, log)
    BY <1>4, <2>3
  <2> HIDE DEF linked
  <2>5. d = DeriveOutcome(u, linked, Target, weak, git, rework)
    BY <2>1, <2>3
  <2>6. QED
    BY <1>1, <1>2, <1>5, <2>2, <2>4, <2>5, DerivedRests
<1> HIDE DEF pool
<1>8. IdsOf(pool) \subseteq IdsOf(Speaks(u, log))
  BY <1>3 DEF IdsOf
<1>9. QED
  BY <1>6, <1>7, <1>8

\* So the check for an early outcome drops none: what a command persists is what
\* it derived.
LEMMA ObservedAsDerived ==
  ASSUME NEW u \in Unit, NEW log, IsFiniteSet(log), log \subseteq UNION Batch, NEW weak
  PROVE  /\ Observation(u, log, weak).label = Derive(u, log, weak).label
         /\ Observation(u, log, weak).evidence = Derive(u, log, weak).evidence
<1> DEFINE d == Derive(u, log, weak)
<1>1. ~(d.evidence # NoEvidence /\ d.evidence.available <= u.prediction)
  <2>1. CASE d.evidence # NoEvidence
    <3>1. u.prediction \in Nat
      BY LabelsAssumption
    <3>2. d.evidence.available \in Nat /\ d.evidence.available > u.prediction
      BY <2>1, DerivedIsLate
    <3> HIDE DEF d
    <3>3. QED
      BY <3>1, <3>2
  <2>2. QED
    BY <2>1
<1>2. QED
  BY <1>1 DEF Observation

-----------------------------------------------------------------------------

LEMMA InitInv == Init => IInv
<1> SUFFICES ASSUME Init
             PROVE  IInv
  OBVIOUS
<1>1. DOMAIN dataset = {}
  BY DEF Init
<1>2. TypeOK
  BY <1>1 DEF Init, TypeOK
<1>3. ConfirmatoryIsStrong
  BY <1>1 DEF ConfirmatoryIsStrong
<1>4. IsFiniteSet(events)
  BY FS_EmptySet DEF Init
<1>5. EvidenceIsRecorded
  BY <1>1 DEF EvidenceIsRecorded
<1>6. QED
  BY <1>2, <1>3, <1>4, <1>5 DEF IInv

\* Reading, importing and giving up leave the dataset as it is.
LEMMA UnpersistedType ==
  ASSUME TypeOK, dataset' = dataset, events \subseteq events', events' \subseteq UNION Batch,
         busy' \subseteq Process, read' \in [Process -> SUBSET events'],
         mode' \in [Process -> BOOLEAN]
  PROVE  TypeOK'
BY DEF TypeOK

LEMMA EndsType ==
  ASSUME TypeOK, NEW p \in Process, Ends(p)
  PROVE  /\ events' = events /\ busy' \subseteq Process
         /\ read' \in [Process -> SUBSET events'] /\ mode' \in [Process -> BOOLEAN]
BY DEF Ends, TypeOK

LEMMA TypeStep == TypeOK /\ [Next]_vars => TypeOK'
<1> SUFFICES ASSUME TypeOK, [Next]_vars
             PROVE  TypeOK'
  OBVIOUS
<1>1. ASSUME NEW batch \in Batch, Import(batch)
      PROVE  TypeOK'
  <2>1. events \subseteq events' /\ events' \subseteq UNION Batch
    BY <1>1 DEF Import, TypeOK
  <2>2. read \in [Process -> SUBSET events']
    BY <2>1 DEF TypeOK
  <2>3. QED
    BY <1>1, <2>1, <2>2, UnpersistedType DEF Import, TypeOK
<1>2. ASSUME NEW p \in Process, NEW weak \in BOOLEAN, ReadHistory(p, weak)
      PROVE  TypeOK'
  <2>1. busy' \subseteq Process
    BY <1>2 DEF ReadHistory, TypeOK
  <2>2. read' \in [Process -> SUBSET events'] /\ mode' \in [Process -> BOOLEAN]
    BY <1>2 DEF ReadHistory, TypeOK
  <2>3. QED
    BY <1>2, <2>1, <2>2, UnpersistedType DEF ReadHistory, TypeOK
<1>3. ASSUME NEW p \in Process, Abort(p)
      PROVE  TypeOK'
  BY <1>3, EndsType, UnpersistedType DEF Abort, TypeOK
<1>4. ASSUME NEW p \in Process, NEW present \in SUBSET Unit, Persist(p, present)
      PROVE  TypeOK'
  <2>1. Ends(p)
    BY <1>4 DEF Persist
  <2>2. DOMAIN dataset' \subseteq Unit
    BY <1>4 DEF Persist, TypeOK
  <2>3. ASSUME NEW u \in DOMAIN dataset'
        PROVE  dataset'[u].linked \subseteq events'
    <3>1. read[p] \subseteq events /\ events' = events
      BY <2>1 DEF TypeOK, Ends
    <3>2. QED
      BY <1>4, <3>1, PersistedObservations, LinkedAreRead DEF TypeOK
  <2>4. QED
    BY <2>1, <2>2, <2>3, EndsType DEF TypeOK
<1>5. CASE UNCHANGED vars
  BY <1>5 DEF vars, TypeOK
<1>6. QED
  BY <1>1, <1>2, <1>3, <1>4, <1>5 DEF Next

LEMMA StrongStep == IInv /\ [Next]_vars => ConfirmatoryIsStrong'
<1> SUFFICES ASSUME IInv, [Next]_vars
             PROVE  ConfirmatoryIsStrong'
  OBVIOUS
<1>1. CASE dataset' = dataset
  BY <1>1 DEF IInv, ConfirmatoryIsStrong
<1>2. ASSUME NEW p \in Process, NEW present \in SUBSET Unit, Persist(p, present)
      PROVE  ConfirmatoryIsStrong'
  <2>1. mode[p] \in BOOLEAN
    BY DEF IInv, TypeOK
  <2>2. ASSUME NEW u \in DOMAIN dataset',
               dataset'[u].label \in Known, dataset'[u].sealed.confirmatory
        PROVE  Aggregate(dataset'[u].votes, FALSE).label = dataset'[u].label
    <3>1. CASE u \in DOMAIN dataset /\ dataset'[u] = dataset[u]
      BY <2>2, <3>1 DEF IInv, ConfirmatoryIsStrong
    <3>2. CASE dataset'[u] = Observation(u, read[p], mode[p])
      BY <2>1, <2>2, <3>2, ObservedIsStrong
    <3>3. QED
      BY <1>2, <3>1, <3>2, PersistedObservations
  <2>3. QED
    BY <2>2 DEF ConfirmatoryIsStrong
<1>3. QED
  BY <1>1, <1>2 DEF Next, Import, ReadHistory, Abort, vars

\* Growing the log takes nothing away from what speaks for a unit.
LEMMA SpeaksGrows ==
  ASSUME NEW u, NEW log, NEW more, log \subseteq more
  PROVE  IdsOf(Speaks(u, log)) \subseteq IdsOf(Speaks(u, more))
<1>1. Speaks(u, log) \subseteq Speaks(u, more)
  BY DEF Speaks, UnitEvents
<1>2. QED
  BY <1>1 DEF IdsOf

LEMMA EventsStay ==
  ASSUME TypeOK, IsFiniteSet(events), [Next]_vars
  PROVE  events \subseteq events' /\ IsFiniteSet(events')
<1>1. ASSUME NEW batch \in Batch, Import(batch)
      PROVE  events \subseteq events' /\ IsFiniteSet(events')
  <2>1. events' = events \cup batch /\ IsFiniteSet(batch)
    BY <1>1, LabelsAssumption DEF Import
  <2>2. QED
    BY <2>1, FS_Union
<1>2. CASE events' = events
  BY <1>2
<1>3. QED
  BY <1>1, <1>2 DEF Next, ReadHistory, Abort, Persist, Ends, vars

\* What a command is about to persist rests on the history that it read, which
\* the log still contains.
LEMMA EvidenceStep == IInv /\ [Next]_vars => EvidenceIsRecorded'
<1> SUFFICES ASSUME IInv, [Next]_vars
             PROVE  EvidenceIsRecorded'
  OBVIOUS
<1>1. events \subseteq events'
  BY EventsStay DEF IInv
<1>2. CASE dataset' = dataset
  <2>1. ASSUME NEW u \in DOMAIN dataset
        PROVE  IdsOf(Speaks(u, events)) \subseteq IdsOf(Speaks(u, events'))
    BY <1>1, SpeaksGrows
  <2>2. QED
    BY <1>2, <2>1 DEF IInv, EvidenceIsRecorded
<1>3. ASSUME NEW p \in Process, NEW present \in SUBSET Unit, Persist(p, present)
      PROVE  EvidenceIsRecorded'
  <2>1. events' = events
    BY <1>3 DEF Persist, Ends
  <2>2. read[p] \subseteq events /\ IsFiniteSet(read[p]) /\ read[p] \subseteq UNION Batch
    BY FS_Subset DEF IInv, TypeOK
  <2>3. ASSUME NEW u \in DOMAIN dataset', dataset'[u].label \in Known
        PROVE  /\ dataset'[u].evidence.available > u.prediction
               /\ dataset'[u].evidence.ids \subseteq IdsOf(Speaks(u, events))
    <3>1. CASE u \in DOMAIN dataset /\ dataset'[u] = dataset[u]
      BY <2>3, <3>1 DEF IInv, EvidenceIsRecorded
    <3>2. CASE dataset'[u] = Observation(u, read[p], mode[p]) /\ u \in Unit
      <4>1. /\ dataset'[u].label = Derive(u, read[p], mode[p]).label
            /\ dataset'[u].evidence = Derive(u, read[p], mode[p]).evidence
        BY <2>2, <3>2, ObservedAsDerived
      <4>2. Derive(u, read[p], mode[p]).label # "unknown"
        BY <2>3, <4>1 DEF Known
      <4>3. /\ Derive(u, read[p], mode[p]).evidence.available > u.prediction
            /\ Derive(u, read[p], mode[p]).evidence.ids
                 \subseteq IdsOf(Speaks(u, read[p]))
        BY <2>2, <3>2, <4>2, DerivedIsLate
      <4>4. IdsOf(Speaks(u, read[p])) \subseteq IdsOf(Speaks(u, events))
        BY <2>2, SpeaksGrows
      <4>5. QED
        BY <4>1, <4>3, <4>4
    <3>3. QED
      BY <1>3, <3>1, <3>2, PersistedObservations
  <2>4. QED
    BY <2>1, <2>3 DEF EvidenceIsRecorded
<1>4. QED
  BY <1>2, <1>3 DEF Next, Import, ReadHistory, Abort, vars

\* The invariant holds in every reachable state.
THEOREM InductiveInvariant == Spec => []IInv
<1>1. IInv /\ [Next]_vars => IInv'
  BY TypeStep, StrongStep, EventsStay, EvidenceStep DEF IInv
<1>2. QED
  BY InitInv, <1>1, PTL DEF Spec

\* The variables are what they are declared to be; no command has read, and no
\* observation is linked to, an event that is not in the history.
THEOREM TypeCorrect == Spec => []TypeOK
<1>1. IInv => TypeOK
  BY DEF IInv
<1>2. QED
  BY InductiveInvariant, <1>1, PTL

\* A confirmatory label is one that strong evidence alone gives, however often
\* and from whatever history the unit was materialized.
THEOREM Confirmatory == Spec => []ConfirmatoryIsStrong
<1>1. IInv => ConfirmatoryIsStrong
  BY DEF IInv
<1>2. QED
  BY InductiveInvariant, <1>1, PTL

\* No interleaving of imports and materializations, of older or newer histories
\* and of either mode, rewrites a mature label or a sealed snapshot.
THEOREM LabelsStand == Spec => MatureLabelsStand
<1> DEFINE Stands ==
      \A u \in DOMAIN dataset :
        /\ u \in DOMAIN dataset' /\ dataset'[u].sealed = dataset[u].sealed
        /\ dataset[u].label \in Known => dataset'[u].label = dataset[u].label
<1>1. ASSUME [Next]_vars
      PROVE  Stands
  <2>1. CASE dataset' = dataset
    BY <2>1
  <2>2. ASSUME NEW p \in Process, NEW present \in SUBSET Unit, Persist(p, present)
        PROVE  Stands
    <3>1. ASSUME NEW u \in DOMAIN dataset
          PROVE  /\ u \in DOMAIN dataset' /\ dataset'[u].sealed = dataset[u].sealed
                 /\ dataset[u].label \in Known => dataset'[u].label = dataset[u].label
      <4>1. u \in DOMAIN dataset'
        BY <2>2, <3>1, ObservationsStay
      <4>2. QED
        BY <2>2, <3>1, <4>1, PersistedObservations DEF Mergeable
    <3>2. QED
      BY <3>1
  <2>3. QED
    BY <1>1, <2>1, <2>2 DEF Next, Import, ReadHistory, Abort, vars
<1>2. QED
  BY <1>1, PTL DEF Spec, MatureLabelsStand

\* No leakage: in every reachable state, a label rests on recorded events of its
\* change, or on the record of its window, all of which happened after the
\* prediction, and the label became available after it.
THEOREM NoLeakage == Spec => []EvidencePostdatesPrediction
<1>1. IInv => EvidencePostdatesPrediction
  <2> SUFFICES ASSUME IInv, NEW u \in DOMAIN dataset, dataset[u].label \in Known
               PROVE  /\ dataset[u].evidence.available > u.prediction
                      /\ \A e \in events : e.id \in dataset[u].evidence.ids =>
                           /\ e.occurred > u.prediction
                           /\ e.kind \in Coverage \/ e \in UnitEvents(u, events)
                      /\ dataset[u].evidence.ids \subseteq {e.id : e \in events}
    BY DEF EvidencePostdatesPrediction
  <2>1. /\ dataset[u].evidence.available > u.prediction
        /\ dataset[u].evidence.ids \subseteq IdsOf(Speaks(u, events))
    BY DEF IInv, EvidenceIsRecorded
  <2>2. ASSUME NEW e \in events, e.id \in dataset[u].evidence.ids
        PROVE  e \in Speaks(u, events)
    <3>1. PICK f \in Speaks(u, events) : e.id = f.id
      BY <2>1, <2>2 DEF IdsOf
    <3>2. f \in UNION Batch /\ e \in UNION Batch
      BY DEF Speaks, IInv, TypeOK
    <3>3. QED
      BY <3>1, <3>2, LabelsAssumption
  <2>3. IdsOf(Speaks(u, events)) \subseteq {e.id : e \in events}
    BY DEF Speaks, IdsOf
  <2>4. QED
    BY <2>1, <2>2, <2>3 DEF Speaks
<1>2. QED
  BY InductiveInvariant, <1>1, PTL

\* What is persisted from the history of the moment is recomputed the same.
LEMMA FreshMatches ==
  ASSUME NEW u \in Unit, NEW log, IsFiniteSet(log), log \subseteq UNION Batch, NEW weak
  PROVE  Matches(u, Observation(u, log, weak), log)
<1> DEFINE d == Derive(u, log, weak)
           o == Observation(u, log, weak)
<1>1. o.label = d.label /\ o.evidence = d.evidence
  BY ObservedAsDerived
<1>2. /\ o.votes = d.votes /\ o.linked = UnitEvents(u, log) /\ o.sealed.weak = weak
      /\ o.sealed.gitWindow = GitWindow(log) /\ o.sealed.reworkWindow = ReworkWindow(log)
  BY DEF Observation
<1>3. o.sealed.confirmatory = (u.confirmatory /\ ~WeakContributed(d, weak))
  <2>1. o.sealed.confirmatory
          = (u.confirmatory /\ ~WeakContributed([d EXCEPT !.label = o.label], weak))
    BY DEF Observation
  <2>2. [d EXCEPT !.label = d.label] = d
    <3>1. d = Aggregate(d.votes, weak)
      BY DerivedFromVotes
    <3>2. \E l, e, v : d = [label |-> l, evidence |-> e, votes |-> v]
      BY <3>1 DEF Aggregate
    <3>3. QED
      BY <3>2
  <2>3. QED
    BY <1>1, <2>1, <2>2
<1>4. QED
  BY <1>1, <1>2, <1>3 DEF Matches

\* In any interleaving, what a command persists from a history that did not move
\* since it was read passes validate_project.
THEOREM FreshlyValid == Spec => FreshMaterializationValidates
<1> DEFINE Fresh ==
      \A p \in Process, u \in DOMAIN dataset' :
        (/\ p \in busy \ busy' /\ read[p] = events
         /\ u \in DOMAIN dataset => dataset'[u] # dataset[u])
          => Matches(u, dataset'[u], events')
<1>1. ASSUME IInv, [Next]_vars
      PROVE  Fresh
  <2> SUFFICES ASSUME NEW p \in Process, NEW u \in DOMAIN dataset',
                      p \in busy \ busy', read[p] = events,
                      u \in DOMAIN dataset => dataset'[u] # dataset[u]
               PROVE  Matches(u, dataset'[u], events')
    OBVIOUS
  <2>1. PICK q \in Process, present \in SUBSET Unit : Persist(q, present)
    BY <1>1 DEF Next, Import, ReadHistory, Abort, vars
  <2>2. q = p /\ events' = events
    BY <2>1 DEF Persist, Ends
  <2>3. dataset'[u] = Observation(u, events, mode[p]) /\ u \in Unit
    BY <2>1, <2>2, PersistedObservations
  <2>4. IsFiniteSet(events) /\ events \subseteq UNION Batch
    BY <1>1 DEF IInv, TypeOK
  <2>5. QED
    BY <2>2, <2>3, <2>4, FreshMatches
<1>2. QED
  BY InductiveInvariant, <1>1, PTL DEF Spec, FreshMaterializationValidates

=============================================================================
