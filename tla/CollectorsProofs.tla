--------------------------- MODULE CollectorsProofs ---------------------------
(***************************************************************************)
(* Proofs about Collectors, for any repository, service and archive, any   *)
(* refs, cursors, ranges, limits and windows, and any number of commands.  *)
(***************************************************************************)
EXTENDS Collectors, FiniteSetTheorems, SequenceTheorems, WellFoundedInduction, TLAPS

\* Every nonempty set of natural numbers has a least element.
LEMMA LeastNatural ==
  ASSUME NEW T \in SUBSET Nat, T # {}
  PROVE  \E m \in T : \A n \in T : m <= n
<1> DEFINE R == OpToRel(<, Nat)
<1>1. IsWellFoundedOn(R, Nat)
  BY NatLessThanWellFounded
<1>2. PICK m \in T : \A n \in T : ~(<<n, m>> \in R)
  <2> HIDE DEF R
  <2> QED
    BY <1>1, WFMin
<1>3. \A n \in T : ~(n < m)
  BY <1>2 DEF OpToRel
<1>4. QED
  BY <1>3

\* A nonempty set has a member on which a numeric key is least.
LEMMA LeastKey ==
  ASSUME NEW S, S # {}, NEW key \in [S -> Nat]
  PROVE  \E x \in S : \A y \in S : key[x] <= key[y]
<1> DEFINE T == {key[x] : x \in S}
<1>1. T \in SUBSET Nat /\ T # {}
  OBVIOUS
<1>2. PICK m \in T : \A n \in T : m <= n
  <2> HIDE DEF T
  <2> QED
    BY <1>1, LeastNatural
<1>3. QED
  BY <1>2

\* A finite nonempty set has a member that no other one precedes in R.
LEMMA FiniteMinimal ==
  ASSUME NEW S, IsFiniteSet(S), S # {}, NEW R,
         \A x, y, z \in S : <<x, y>> \in R /\ <<y, z>> \in R => <<x, z>> \in R,
         \A x \in S : <<x, x>> \notin R
  PROVE  \E x \in S : \A y \in S : <<y, x>> \notin R
<1> DEFINE below(x) == {y \in S : <<y, x>> \in R}
           size == [x \in S |-> Cardinality(below(x))]
<1>1. ASSUME NEW x \in S
      PROVE  IsFiniteSet(below(x)) /\ size[x] = Cardinality(below(x)) /\ size[x] \in Nat
  <2>1. IsFiniteSet(below(x))
    BY FS_Subset
  <2>2. QED
    BY <2>1, FS_CardinalityType
<1> HIDE DEF size
<1>2. \A x \in S : size[x] \in Nat
  BY <1>1
<1>3. size \in [S -> Nat]
  BY <1>2 DEF size
<1> HIDE DEF below
<1>4. PICK x \in S : \A y \in S : size[x] <= size[y]
  BY <1>3, LeastKey
<1>5. ASSUME NEW y \in S, <<y, x>> \in R
      PROVE  FALSE
  <2>1. y \in below(x) /\ y \notin below(y) /\ below(y) \subseteq below(x)
    BY <1>5 DEF below
  <2>2. size[y] <= size[x] /\ size[x] # size[y]
    BY <1>1, <2>1, FS_Subset
  <2>3. QED
    BY <1>2, <1>4, <2>2
<1>6. QED
  BY <1>5

\* Of finitely many coverage records one is the newest.
LEMMA NewestExists ==
  ASSUME NEW records, records # {}, IsFiniteSet(records),
         \A e \in records : WellTimed(e) /\ CoversItsPast(e)
  PROVE  NewestOf(records) \in records
<1> DEFINE R == {p \in records \X records : Newer(p[1], p[2])}
<1>1. \A e, f \in records : <<e, f>> \in R <=> Newer(e, f)
  OBVIOUS
<1>2. \A e, f, g \in records : Newer(e, f) /\ Newer(f, g) => Newer(e, g)
  BY DEF Newer, WellTimed, CoversItsPast
<1>3. \A e \in records : ~Newer(e, e)
  BY DEF Newer, WellTimed, CoversItsPast
<1>4. \E e \in records : \A f \in records : <<f, e>> \notin R
  <2> HIDE DEF R
  <2> QED
    BY <1>1, <1>2, <1>3, FiniteMinimal
<1>5. QED
  BY <1>1, <1>4 DEF NewestOf

-----------------------------------------------------------------------------
(* When a label is negative. *)

\* What a labelling function sees speaks for the outcome, never against it.
LEMMA LabelingPositive ==
  ASSUME NEW unit, NEW target \in Targets, NEW pool, NEW window,
         NEW v \in LabelingVotes(unit, target, pool, window)
  PROVE  v.value = "positive"
<1>1. \A strength, told : \A w \in Positive(strength, told) : w.value = "positive"
  BY DEF Positive, Vote
<1>2. \A failure : RepairVote(failure, pool).value = "positive"
  BY DEF RepairVote, Vote
<1>3. CASE target = "validation"
  BY <1>1, <1>3 DEF LabelingVotes, ValidationVotes
<1>4. CASE target = "review"
  BY <1>1, <1>4 DEF LabelingVotes, ReviewVotes
<1>5. CASE target = "ci_failure"
  BY <1>1, <1>2, <1>5 DEF LabelingVotes, CiVotes
<1>6. CASE target = "revert_or_hotfix"
  BY <1>1, <1>6 DEF LabelingVotes, RevertVotes
<1>7. CASE target = "defect"
  BY <1>1, <1>7 DEF LabelingVotes, DefectVotes
<1>8. CASE target = "rework"
  BY <1>1, <1>8 DEF LabelingVotes, ReworkVotes
<1>9. QED
  BY <1>3, <1>4, <1>5, <1>6, <1>7, <1>8 DEF Targets

LEMMA PositiveAggregate ==
  ASSUME NEW votes, \A v \in votes : v.value = "positive", NEW weak
  PROVE  Aggregate(votes, weak).label # "negative"
<1> DEFINE heard == Applicable(votes, weak)
<1>1. \A v \in heard : v.value = "positive"
  BY DEF Applicable
<1>2. CASE heard = {}
  <2>1. {v.value : v \in heard} = {}
    BY <1>2
  <2>2. Cardinality({v.value : v \in heard}) # 1
    BY <2>1, FS_EmptySet
  <2>3. QED
    BY <2>2 DEF Aggregate
<1>3. CASE heard # {}
  <2>1. (CHOOSE v \in heard : TRUE).value = "positive"
    BY <1>1, <1>3
  <2>2. QED
    BY <2>1 DEF Aggregate
<1>4. QED
  BY <1>2, <1>3

\* An outcome that was seen silences the window: without an explicit outcome, no
\* negative label is left.
LEMMA SeenIsNotNegative ==
  ASSUME NEW unit, NEW told, NEW target \in Targets, NEW weak, NEW git, NEW rework,
         ExplicitVotes(unit, target, Scoped(unit, told)) = {},
         LabelingVotes(unit, target, Scoped(unit, told), rework) # {}
  PROVE  DeriveOutcome(unit, told, target, weak, git, rework).label # "negative"
<1> DEFINE votes == LabelingVotes(unit, target, Scoped(unit, told), rework)
<1>1. \A v \in votes : v.value = "positive"
  BY LabelingPositive
<1> HIDE DEF votes
<1>2. ~\A v \in votes : v.value # "positive"
  BY <1>1 DEF votes
<1>3. DeriveOutcome(unit, told, target, weak, git, rework) = Aggregate(votes, weak)
  BY <1>2 DEF DeriveOutcome, votes
<1>4. QED
  BY <1>1, <1>3, PositiveAggregate

\* The evidence of a label that rests on one vote is that of the vote.
LEMMA LoneVote ==
  ASSUME NEW vote, vote.strength = "weak",
         vote.available \in Nat, vote.group \in Nat, vote.first \in Nat,
         NEW votes, votes = {vote}, NEW weak, Aggregate(votes, weak).label # "unknown"
  PROVE  Aggregate(votes, weak).evidence.ids = vote.ids
<1> DEFINE heard == Applicable(votes, weak)
           strong == {v \in heard : v.strength = "strong"}
           chosen == IF strong # {} THEN strong ELSE heard
<1>1. Cardinality({v.value : v \in heard}) = 1
  BY DEF Aggregate
<1>2. heard # {}
  <2>1. Cardinality({}) = 0
    BY FS_EmptySet
  <2>2. heard = {} => {v.value : v \in heard} = {}
    OBVIOUS
  <2>3. {v.value : v \in heard} = {} => Cardinality({v.value : v \in heard}) = 0
    BY ONLY <2>1
  <2> HIDE DEF heard
  <2>4. QED
    BY <1>1, <2>2, <2>3
<1>3. chosen = {vote}
  BY <1>2 DEF Applicable
<1>4. Earliest(chosen) \in {vote}
  <2> HIDE DEF chosen
  <2> QED
    BY <1>3 DEF Earliest, VoteBefore
<1>5. Aggregate(votes, weak).evidence
        = [available |-> Earliest(chosen).available, ids |-> Earliest(chosen).ids]
  BY <1>1 DEF Aggregate
<1> HIDE DEF chosen
<1>6. QED
  BY <1>4, <1>5

\* Without an explicit outcome, a negative rework label rests on the newest
\* scan, which did not skip the commit, and no event of rework counted.
LEMMA NegativeRework ==
  ASSUME NEW unit, unit.prediction \in Nat, NEW told, NEW weak, NEW git, NEW rework,
         rework # NoWindow => rework.id \in Nat /\ ReworkWindowDays \in Nat,
         ExplicitVotes(unit, "rework", Scoped(unit, told)) = {},
         DeriveOutcome(unit, told, "rework", weak, git, rework).label = "negative"
  PROVE  /\ ReworkVotes(unit, Scoped(unit, told), rework) = {}
         /\ rework # NoWindow /\ unit.id \notin rework.skipped
         /\ DeriveOutcome(unit, told, "rework", weak, git, rework).evidence.ids = {rework.id}
<1> DEFINE d == DeriveOutcome(unit, told, "rework", weak, git, rework)
           vote == WindowVote(unit, ReworkWindowDays, rework)
<1>1. LabelingVotes(unit, "rework", Scoped(unit, told), rework)
        = ReworkVotes(unit, Scoped(unit, told), rework)
  BY DEF LabelingVotes
<1>2. ReworkVotes(unit, Scoped(unit, told), rework) = {}
  BY <1>1, SeenIsNotNegative DEF Targets
<1>3. d = Aggregate(ReworkWindowVotes(unit, rework), weak)
  BY <1>1, <1>2 DEF DeriveOutcome
<1>4. /\ ReworkWindowVotes(unit, rework) = {vote}
      /\ rework # NoWindow /\ unit.id \notin rework.skipped
  <2>1. ReworkWindowVotes(unit, rework) # {}
    BY <1>3, PositiveAggregate
  <2>2. QED
    BY <2>1 DEF ReworkWindowVotes
<1>5. d.evidence.ids = {rework.id}
  <2>1. vote.strength = "weak" /\ vote.ids = {rework.id}
    BY DEF WindowVote
  <2>2. vote.available \in Nat /\ vote.group \in Nat /\ vote.first \in Nat
    BY <1>4 DEF WindowVote
  <2> HIDE DEF vote
  <2>3. QED
    BY <1>3, <1>4, <2>1, <2>2, LoneVote
<1>6. QED
  BY <1>2, <1>4, <1>5

-----------------------------------------------------------------------------
(* The sources. *)

IdsOf(told) == {e.id : e \in told}

\* The sources are those of a scenario; the service may have moved on.
SourcesAre(s) ==
  /\ commit = s.commit /\ rows = s.rows
  /\ \E l \in 1..Len(s.github) + 1 : github = SubSeq(s.github, l, Len(s.github))

SourcesOK == \E s \in Scenario : SourcesAre(s)

-----------------------------------------------------------------------------
(* Pull requests. *)

LEMMA LeastOfNaturals ==
  ASSUME NEW S \in SUBSET Nat, S # {}
  PROVE  Min(S) \in S
BY LeastNatural DEF Min

\* Where no list of checks is cut, all commits are read.
LEMMA WholeReadsAll ==
  ASSUME NEW pull, pull.commits \in Seq(Range(pull.commits)), NEW state, NEW limit,
         Whole(pull, state, limit)
  PROVE  {CheckedShas(pull)[i] : i \in 1 .. FirstCut(pull, state, limit) - 1}
           = Range(CheckedShas(pull))
<1> DEFINE shas == CheckedShas(pull)
           n == Len(shas)
           cuts == {i \in DOMAIN shas : Cut(ChecksOf(shas[i], state), limit.checks)} \cup {n + 1}
<1>1. n \in Nat /\ DOMAIN shas = 1..n
  <2> DEFINE S == Range(pull.commits) \cup {pull.merge}
  <2>1. pull.commits \in Seq(S)
    BY SeqMonotonic
  <2>2. <<>> \in Seq(S) /\ <<pull.merge>> \in Seq(S)
    OBVIOUS
  <2>3. shas \in Seq(S)
    BY <2>1, <2>2, ConcatProperties DEF CheckedShas
  <2>4. QED
    BY <2>3, LenProperties
<1>2. FirstCut(pull, state, limit) = n + 1
  <2>1. FirstCut(pull, state, limit) = Min(cuts)
    BY DEF FirstCut
  <2>2. cuts \in SUBSET Nat /\ cuts # {} /\ \A i \in cuts : i <= n + 1
    BY <1>1
  <2> HIDE DEF cuts
  <2>3. Min(cuts) \in cuts
    BY <2>2, LeastOfNaturals
  <2>4. Min(cuts) > n
    BY <2>1 DEF Whole
  <2>5. \A m \in Nat : m <= n + 1 /\ m > n => m = n + 1
    <3> HIDE DEF n
    <3> QED
      BY <1>1
  <2>6. QED
    BY <2>1, <2>2, <2>3, <2>4, <2>5
<1>3. 1 .. FirstCut(pull, state, limit) - 1 = DOMAIN shas
  BY <1>1, <1>2
<1>4. QED
  BY <1>3 DEF Range

\* What is collected of a pull request that is whole.
LEMMA WholePull ==
  ASSUME NEW pull, pull.commits \in Seq(Range(pull.commits)), NEW state, NEW limit,
         Whole(pull, state, limit), NEW until
  PROVE  /\ \A r \in pull.reviews :
              InTime(r.at, pull, until) => ReviewEvent(pull, r) \in PullEvents(pull, state, until, limit)
         /\ \A c \in state.checks :
              (/\ c.sha \in Range(CheckedShas(pull)) /\ c.conclusion # "pending"
               /\ InTime(c.at, pull, until))
                => CheckEvent(pull, c) \in PullEvents(pull, state, until, limit)
<1>1. {CheckedShas(pull)[i] : i \in 1 .. FirstCut(pull, state, limit) - 1}
        = Range(CheckedShas(pull))
  BY WholeReadsAll
<1>2. QED
  BY <1>1 DEF PullEvents

\* The units of a collection are those of its pull requests, which are whole.
LEMMA AssembledPulls ==
  ASSUME NEW state, NEW since, NEW until, NEW limit,
         NEW p \in Assembled(state, since, until, limit)
  PROVE  p \in state.pulls /\ Whole(p, state, limit)
BY DEF Assembled, Considered, Listed

\* The service's answers are those of a scenario.
LEMMA ServiceAnswers ==
  ASSUME NEW s \in Scenario, SourcesAre(s), github # <<>>
  PROVE  \E i \in DOMAIN s.github : github[1] = s.github[i]
<1>1. PICK l \in 1..Len(s.github) + 1 : github = SubSeq(s.github, l, Len(s.github))
  BY DEF SourcesAre
<1>2. s.github \in Seq(Range(s.github))
  BY CollectorsAssumption
<1>3. Len(s.github) \in Nat /\ DOMAIN s.github = 1..Len(s.github)
  BY <1>2, LenProperties
<1>4. \A i \in l..Len(s.github) : s.github[i] \in Range(s.github)
  BY <1>3 DEF Range
<1>5. /\ github \in Seq(Range(s.github))
      /\ Len(github) = IF l <= Len(s.github) THEN Len(s.github) - l + 1 ELSE 0
      /\ \A i \in 1..(Len(s.github) - l + 1) : github[i] = s.github[l + i - 1]
  <2>1. l \in Int /\ Len(s.github) \in Int
    BY <1>3
  <2>2. QED
    BY <1>1, <1>4, <2>1, SubSeqProperties
<1>6. Len(github) # 0
  BY <1>5, EmptySeq
<1>7. QED
  BY <1>3, <1>5, <1>6

LEMMA ServiceState ==
  ASSUME SourcesOK, github # <<>>
  PROVE  \A p \in github[1].pulls :
           /\ p.commits \in Seq(Range(p.commits))
           /\ \A q \in github[1].pulls : p.number = q.number => p = q
<1>1. PICK s \in Scenario : SourcesAre(s)
  BY DEF SourcesOK
<1>2. PICK i \in DOMAIN s.github : github[1] = s.github[i]
  BY <1>1, ServiceAnswers
<1>3. QED
  BY <1>2, CollectorsAssumption

\* Whatever the service answers and the limits are, what may be collected of a
\* pull request is collected whole.
LEMMA CollectedWhole == SourcesOK => PullsAreWhole
<1> SUFFICES ASSUME SourcesOK, github # <<>>, NEW batch \in Imports,
                    NEW p \in github[1].pulls, PullUnit(p) \in batch.found.units
             PROVE  /\ \A r \in p.reviews :
                         InTime(r.at, p, batch.until) => ReviewEvent(p, r) \in batch.found.events
                    /\ \A c \in github[1].checks :
                         (/\ c.sha \in Range(CheckedShas(p)) /\ c.conclusion # "pending"
                          /\ InTime(c.at, p, batch.until))
                            => CheckEvent(p, c) \in batch.found.events
  BY DEF PullsAreWhole
<1>1. PICK since, until, limit :
        /\ batch.found = GitHubCollection(github[1], since, until, limit)
        /\ batch.until = until
  BY DEF Imports
<1> DEFINE pulls == Assembled(github[1], since, until, limit)
<1>2. /\ batch.found.units = {PullUnit(q) : q \in pulls}
      /\ UNION {PullEvents(q, github[1], until, limit) : q \in pulls} \subseteq batch.found.events
  BY <1>1 DEF GitHubCollection
<1>3. PICK q \in pulls : PullUnit(p) = PullUnit(q)
  BY <1>2
<1>4. q \in github[1].pulls /\ Whole(q, github[1], limit)
  BY AssembledPulls
<1>5. p = q
  <2>1. ChangeOf(p) = ChangeOf(q)
    BY <1>3 DEF PullUnit
  <2>2. p.number = q.number
    BY <2>1 DEF ChangeOf
  <2>3. QED
    BY <1>4, <2>2, ServiceState
<1>6. PullEvents(p, github[1], until, limit) \subseteq batch.found.events
  BY <1>2, <1>5
<1>7. p.commits \in Seq(Range(p.commits))
  BY ServiceState
<1>8. QED
  BY <1>1, <1>4, <1>5, <1>6, <1>7, WholePull

-----------------------------------------------------------------------------
(* The event archive. *)

\* What was read of a window is there, and nothing that an hour holds of it is
\* missing unless the hour is said to be missing.
Faithful(read, window, missing) ==
  /\ read \subseteq rows
  /\ \A r \in rows :
       (r.file \in HoursOf(window) \ missing /\ 2 * window.start <= r.at /\ r.at < 2 * window.end)
         => r \in read

\* The hours are audited before the rows are read, so that an hour that is not
\* said to be missing was there; the manifest names the rows that were read.
ExportOK ==
  /\ export.step \in {"covers", "audited", "read", "written"} => export.window \in Window
  /\ export.step \in {"audited", "read", "written"} =>
       HoursOf(export.window) \ export.missing \subseteq loaded
  /\ export.step = "read" =>
       \E w, m, r : export = [step |-> "read", window |-> w, missing |-> m, rows |-> r]
  /\ export.step \in {"read", "written"} =>
       Faithful(export.rows, export.window, export.missing)
  /\ \E r, m : disk = [rows |-> r, manifest |-> m]
  /\ \A m \in disk.manifest : m.window \in Window /\ Faithful(m.hash, m.window, m.missing)

\* A review outcome says of all that happened what it says of what was read.
ReviewProven(e) ==
  /\ e.data.target = "review"
  /\ LET pull == PullRows(e.change[2], rows)
         window == e.data.manifest.window
     IN  \A r \in EligibleReviews(pull) :
           (r.file \in HoursOf(window) /\ r.actor # Opening(pull).actor)
             => r.state # "changes_requested"

LEMMA RowsOK ==
  ASSUME SourcesOK
  PROVE  /\ \A r \in rows :
              r.id \in Nat /\ r.at \in Nat /\ r.file \in Nat /\ r.at < 2 * (r.file + 1)
         /\ \A r, q \in rows : (r.number = q.number /\ r.type = "opened") =>
              /\ q.type = "opened" => q.at = r.at /\ q.file = r.file /\ q.actor = r.actor
              /\ q.type = "review" => q.at >= r.at
BY CollectorsAssumption DEF SourcesOK, SourcesAre

\* A row becomes available at the end of its file's hour.
LEMMA AvailableAtEnd ==
  ASSUME SourcesOK, NEW r \in rows
  PROVE  AvailableAt(r) = 2 * (r.file + 1) /\ AvailableAt(r) \in Nat
BY RowsOK DEF AvailableAt

LEMMA OldestExists ==
  ASSUME SourcesOK, NEW pull \in SUBSET rows, pull # {}
  PROVE  OldestRow(pull) \in pull
<1>1. \A r \in pull : r.at \in Nat /\ AvailableAt(r) \in Nat /\ r.id \in Nat
  BY RowsOK, AvailableAtEnd
<1>2. PICK r1 \in pull : \A s \in pull : r1.at <= s.at
  <2> DEFINE key == [r \in pull |-> r.at]
  <2>1. key \in [pull -> Nat]
    BY <1>1
  <2>2. PICK x \in pull : \A y \in pull : key[x] <= key[y]
    BY <2>1, LeastKey
  <2>3. QED
    BY <2>2
<1> DEFINE first == {r \in pull : r.at = r1.at}
<1>3. PICK r2 \in first : \A s \in first : AvailableAt(r2) <= AvailableAt(s)
  <2> DEFINE key == [r \in first |-> AvailableAt(r)]
  <2>1. key \in [first -> Nat]
    BY <1>1
  <2>2. PICK x \in first : \A y \in first : key[x] <= key[y]
    <3> HIDE DEF key
    <3> QED
      BY <2>1, LeastKey
  <2>3. QED
    BY <2>2
<1> DEFINE known == {r \in first : AvailableAt(r) = AvailableAt(r2)}
<1>4. PICK r3 \in known : \A s \in known : r3.id <= s.id
  <2> DEFINE key == [r \in known |-> r.id]
  <2>1. key \in [known -> Nat]
    BY <1>1
  <2>2. PICK x \in known : \A y \in known : key[x] <= key[y]
    <3> HIDE DEF key
    <3> QED
      BY <2>1, LeastKey
  <2>3. QED
    BY <2>2
<1>5. \A s \in pull : ~OlderRow(s, r3)
  BY <1>1, <1>2, <1>3, <1>4 DEF OlderRow
<1>6. QED
  BY <1>5 DEF OldestRow

\* No missing hour can hide a request for changes from a negative outcome: a
\* request that counts is later than the opening and not later than the merge
\* that was read, and so in an hour that was there, and in the window.
LEMMA NothingHidden ==
  ASSUME SourcesOK, NEW manifest, manifest.window \in Window,
         NEW read, Faithful(read, manifest.window, manifest.missing),
         LoadsRows(read, manifest), NEW number \in OpenedPulls(read),
         NegativeReview(PullRows(number, read), manifest.missing),
         NEW r \in EligibleReviews(PullRows(number, rows)),
         r.file \in HoursOf(manifest.window),
         r.actor # Opening(PullRows(number, rows)).actor
  PROVE  r.state # "changes_requested"
<1> DEFINE seen == PullRows(number, read)
           all == PullRows(number, rows)
           opening == Opening(seen)
           first == Opening(all)
           merge == OldestRow(Merges(seen))
           window == manifest.window
<1>1. seen \subseteq all /\ all \subseteq rows
  BY DEF PullRows, Faithful
<1>2. /\ opening \in seen /\ opening.type = "opened"
      /\ first \in all /\ first.type = "opened"
  <2>1. Typed(seen, "opened") # {} /\ Typed(seen, "opened") \subseteq Typed(all, "opened")
    BY <1>1 DEF Typed, OpenedPulls, PullRows
  <2>2. Typed(all, "opened") \in SUBSET rows
    BY <1>1 DEF Typed
  <2>3. opening \in Typed(seen, "opened") /\ first \in Typed(all, "opened")
    BY <2>1, <2>2, OldestExists DEF Opening
  <2>4. QED
    BY <2>3 DEF Typed
<1>3. merge \in Merges(seen)
  <2>1. Merges(seen) # {} /\ Merges(seen) \in SUBSET rows
    BY <1>1 DEF NegativeReview, Merges, Typed
  <2>2. QED
    BY <2>1, OldestExists
<1>4. merge \in Merges(all) /\ merge \in rows
  BY <1>1, <1>3 DEF Merges, Typed
<1>5. r \in all /\ r.type = "review" /\ AvailableAt(r) > AvailableAt(first)
      /\ \A m \in Merges(all) : AvailableAt(r) <= AvailableAt(m)
  BY DEF EligibleReviews, Typed
<1>6. /\ first.at = opening.at /\ first.file = opening.file /\ first.actor = opening.actor
      /\ r.at >= opening.at
  <2>1. opening \in rows /\ first \in rows /\ r \in rows
    BY <1>1, <1>2, <1>5
  <2>2. opening.number = number /\ first.number = number /\ r.number = number
    BY <1>2, <1>5 DEF PullRows
  <2>3. QED
    BY <1>2, <1>5, <2>1, <2>2, RowsOK
<1> HIDE DEF opening, first, merge
<1>7. /\ AvailableAt(opening) = 2 * (opening.file + 1) /\ AvailableAt(first) = 2 * (first.file + 1)
      /\ AvailableAt(merge) = 2 * (merge.file + 1) /\ AvailableAt(r) = 2 * (r.file + 1)
      /\ opening.file \in Nat /\ merge.file \in Nat /\ r.file \in Nat /\ r.at \in Nat
      /\ opening.at \in Nat /\ r.at < 2 * (r.file + 1)
  BY <1>1, <1>2, <1>4, <1>5, AvailableAtEnd, RowsOK
<1>8. r.file \notin manifest.missing
  <2>1. IntervalIsComplete(manifest.missing, opening, merge)
    BY DEF NegativeReview, opening, merge
  <2>2. 2 * (opening.file + 1) < 2 * (r.file + 1) /\ 2 * (r.file + 1) <= 2 * (merge.file + 1)
    BY <1>4, <1>5, <1>6, <1>7
  <2>3. QED
    BY <1>7, <2>1, <2>2 DEF IntervalIsComplete
<1>9. r \in seen
  <2>1. window.start \in Nat /\ window.end \in Nat /\ r.file <= window.end - 1
    BY WindowAssumption DEF HoursOf
  <2>2. 2 * window.start <= opening.at
    BY <1>2 DEF LoadsRows, PullRows
  <2> HIDE DEF window
  <2>3. 2 * window.start <= r.at /\ r.at < 2 * window.end
    BY <1>6, <1>7, <2>1, <2>2
  <2>4. r \in rows /\ r.number = number
    BY <1>5 DEF PullRows
  <2>5. r \in read
    BY <1>8, <2>3, <2>4 DEF Faithful, window
  <2>6. QED
    BY <2>4, <2>5 DEF PullRows
<1>10. r \in EligibleReviews(seen)
  <2>1. Merges(seen) \subseteq Merges(all)
    BY <1>1 DEF Merges, Typed
  <2>2. AvailableAt(r) > AvailableAt(opening)
    BY <1>5, <1>6, <1>7
  <2>3. QED
    BY <1>5, <1>9, <2>1, <2>2 DEF EligibleReviews, Typed, opening
<1>11. r.state \in IndependentStates(seen)
  BY <1>6, <1>10 DEF IndependentStates, opening, first
<1>12. QED
  BY <1>11 DEF NegativeReview

\* What an import derives of a pull request, from files that were exported.
LEMMA DerivedIsProven ==
  ASSUME SourcesOK, NEW manifest, manifest.window \in Window,
         NEW read, Faithful(read, manifest.window, manifest.missing),
         LoadsRows(read, manifest), NEW number \in OpenedPulls(read),
         NEW e \in ArchivedPull(PullRows(number, read), manifest),
         e.kind = "change_finalized"
  PROVE  ReviewProven(e)
<1> DEFINE seen == PullRows(number, read)
           merge == OldestRow(Merges(seen))
<1>1. /\ NegativeReview(seen, manifest.missing)
      /\ e = ArchiveEvent(OutcomeId(Opening(seen).number), "change_finalized", merge, 10000,
                          [target |-> "review", value |-> "negative", complete |-> TRUE,
                           strength |-> "strong", manifest |-> manifest, sound |-> TRUE])
  BY DEF ArchivedPull, MergeEvents, ArchiveEvent, EventOf
<1>2. /\ e.change = <<"pull", merge.number>>
      /\ e.data.target = "review" /\ e.data.manifest = manifest
  BY <1>1 DEF ArchiveEvent, EventOf
<1>3. merge.number = number
  <2>1. Merges(seen) # {} /\ Merges(seen) \in SUBSET rows
    BY <1>1 DEF NegativeReview, Merges, Typed, PullRows, Faithful
  <2>2. merge \in Merges(seen)
    BY <2>1, OldestExists
  <2>3. QED
    BY <2>2 DEF Merges, Typed, PullRows
<1> HIDE DEF merge
<1>4. e.change[2] = number
  BY <1>2, <1>3
<1>5. \A r \in EligibleReviews(PullRows(number, rows)) :
        (r.file \in HoursOf(manifest.window) /\ r.actor # Opening(PullRows(number, rows)).actor)
          => r.state # "changes_requested"
  BY <1>1, NothingHidden
<1>6. QED
  BY <1>2, <1>4, <1>5 DEF ReviewProven

\* The exporter reads what an hour that was audited holds, whatever files are
\* loaded between its queries, and wherever it stops.
LEMMA ExportStep ==
  ASSUME ExportOK, rows' = rows,
         \/ UNCHANGED <<loaded, export, disk>>
         \/ \E hour \in Hour : LoadFile(hour)
         \/ \E window \in Window : QueryMaximum(window)
         \/ QueryHours \/ QueryRows \/ WriteRows \/ WriteManifest \/ StopExport
  PROVE  ExportOK'
<1>1. CASE UNCHANGED <<loaded, export, disk>>
  BY <1>1 DEF ExportOK, Faithful
<1>2. ASSUME NEW hour \in Hour, LoadFile(hour)
      PROVE  ExportOK'
  <2>1. loaded \subseteq loaded' /\ export' = export /\ disk' = disk
    BY <1>2 DEF LoadFile
  <2>2. QED
    BY <2>1 DEF ExportOK, Faithful
<1>3. ASSUME NEW window \in Window, QueryMaximum(window)
      PROVE  ExportOK'
  BY <1>3 DEF QueryMaximum, ExportOK, Faithful
<1>4. CASE QueryHours
  BY <1>4 DEF QueryHours, ExportOK, Faithful
<1>5. CASE QueryRows
  <2>1. /\ export.step = "audited" /\ disk' = disk /\ loaded' = loaded
        /\ export' = [step |-> "read", window |-> export.window, missing |-> export.missing,
                      rows |-> InArchive(export.window)]
    BY <1>5 DEF QueryRows
  <2>2. export.window \in Window /\ HoursOf(export.window) \ export.missing \subseteq loaded
    BY <2>1 DEF ExportOK
  <2>3. Faithful(InArchive(export.window), export.window, export.missing)
    BY <2>2 DEF Faithful, InArchive
  <2>4. Faithful(export.rows, export.window, export.missing)'
    BY <2>1, <2>3 DEF Faithful
  <2>5. \A m \in disk'.manifest : m.window \in Window /\ Faithful(m.hash, m.window, m.missing)'
    BY <2>1 DEF ExportOK, Faithful
  <2>6. QED
    BY <2>1, <2>2, <2>4, <2>5 DEF ExportOK
<1>6. CASE WriteRows
  <2>1. /\ export.step = "read" /\ loaded' = loaded
        /\ disk' = [disk EXCEPT !.rows = {export.rows}]
        /\ export' = [export EXCEPT !.step = "written"]
    BY <1>6 DEF WriteRows
  <2>2. /\ export'.step = "written" /\ export'.window = export.window
        /\ export'.missing = export.missing /\ export'.rows = export.rows
    BY <2>1 DEF ExportOK
  <2>3. disk'.manifest = disk.manifest /\ \E r, m : disk' = [rows |-> r, manifest |-> m]
    BY <2>1 DEF ExportOK
  <2>4. Faithful(export.rows, export.window, export.missing)'
    BY <2>1, <2>2 DEF ExportOK, Faithful
  <2>5. \A m \in disk'.manifest : m.window \in Window /\ Faithful(m.hash, m.window, m.missing)'
    BY <2>3 DEF ExportOK, Faithful
  <2>6. export'.window \in Window /\ HoursOf(export'.window) \ export'.missing \subseteq loaded'
    BY <2>1, <2>2 DEF ExportOK
  <2>7. QED
    BY <2>2, <2>3, <2>4, <2>5, <2>6 DEF ExportOK
<1>7. CASE WriteManifest
  <2>1. /\ export.step = "written" /\ export' = NoExport
        /\ disk' = [disk EXCEPT !.manifest =
             {[window |-> export.window, missing |-> export.missing, hash |-> export.rows]}]
    BY <1>7 DEF WriteManifest
  <2>2. /\ disk'.manifest
             = {[window |-> export.window, missing |-> export.missing, hash |-> export.rows]}
        /\ \E r, m : disk' = [rows |-> r, manifest |-> m]
    BY <2>1 DEF ExportOK
  <2>3. export.window \in Window /\ Faithful(export.rows, export.window, export.missing)
    BY <2>1 DEF ExportOK
  <2>4. \A m \in disk'.manifest : m.window \in Window /\ Faithful(m.hash, m.window, m.missing)'
    BY <2>2, <2>3 DEF Faithful
  <2>5. export'.step = "idle"
    BY <2>1 DEF NoExport
  <2>6. QED
    BY <2>2, <2>4, <2>5 DEF ExportOK
<1>8. CASE StopExport
  BY <1>8 DEF StopExport, NoExport, ExportOK, Faithful
<1>9. QED
  BY <1>1, <1>2, <1>3, <1>4, <1>5, <1>6, <1>7, <1>8

-----------------------------------------------------------------------------
(* The invariant. *)

ScanOf(commits) == ScanEvent(commits, Skipped(commits))

\* What a record of the history covers: the commits of a collection, or of a
\* scan, which has a name.
PastOK(x) ==
  IF x.scan = {} THEN x.commits \subseteq Commits
  ELSE /\ x.commits \subseteq Candidates(Commits) /\ x.commits # {}
       /\ x.scan = {ScanOf(x.commits).id}

\* What it left in the log: a collection an event for each revert of one of its
\* commits by a later one, under the name of the unit that was reverted, and a
\* scan its coverage record and an event for each pair of commits of which the
\* later deleted lines of the earlier in time.
RevertsLeft(commits) ==
  {RevertOf(p[1], p[2], KindOf(p[2])) :
     p \in {q \in commits \X commits :
              q[2] \in commit[q[1]].reverts /\ commit[q[2]].at < commit[q[1]].at}}

Reworked(commits) ==
  {p \in Eligible(commits) \X Eligible(commits) :
     /\ ScannedBefore(p[1], p[2]) /\ InWindow(p[1], p[2])
     /\ Cardinality(Hits(p[1], p[2])) > 0}

ReworkOf(p) == ReworkEvent(p[1], p[2], Cardinality(Hits(p[1], p[2])))

ReworkLeft(commits) == {ReworkOf(p) : p \in Reworked(commits)}

Left(x) ==
  IF x.scan = {} THEN RevertsLeft(x.commits) ELSE {ScanOf(x.commits)} \cup ReworkLeft(x.commits)

BatchOK(batch) ==
  /\ \A u \in batch.units : u.attached \subseteq IdsOf(batch.events)
  /\ \A e \in batch.events : e.kind = "change_finalized" => ReviewProven(e)
  /\ \A e \in batch.events : e.kind = "git_rework_scan" =>
       batch.past.scan # {} /\ e = ScanOf(batch.past.commits)
  /\ PastOK(batch.past) /\ Left(batch.past) \subseteq batch.events

PlansOK ==
  /\ DOMAIN plan = Process
  /\ \A p \in Process : plan[p] = {} \/ \E batch : plan[p] = {batch} /\ BatchOK(batch)

LogsOK ==
  /\ \A u \in units : u.attached \subseteq IdsOf(events)
  /\ \A e \in events : e.kind = "change_finalized" => ReviewProven(e)
  /\ \A e \in events : e.kind = "git_rework_scan" =>
       \E x \in past : x.scan # {} /\ e = ScanOf(x.commits)
  /\ \A x \in past : PastOK(x) /\ Left(x) \subseteq events

\* Scans that were recorded, or are about to be: each read the commits that were
\* recorded when it began, so that of two scans one covers all that the other does.
Scans ==
  {x \in past \cup {batch.past : batch \in UNION {plan[p] : p \in Process}} : x.scan # {}}

ScansGrow ==
  /\ \A x \in Scans : x.commits \subseteq Candidates(Landings)
  /\ \A x, y \in Scans : x.commits \subseteq y.commits \/ y.commits \subseteq x.commits

\* Two coverage records of one name are one record.
ScanNamesOK ==
  \A x, y \in past : (x.scan # {} /\ x.scan = y.scan) => ScanOf(x.commits) = ScanOf(y.commits)

IInv == SourcesOK /\ ExportOK /\ PlansOK /\ LogsOK /\ ScansGrow /\ ScanNamesOK

\* The repository's commits and what happened do not change, nor does what is
\* said of them.
LEMMA Framed ==
  ASSUME commit' = commit, rows' = rows
  PROVE  /\ \A x : PastOK(x)' <=> PastOK(x)
         /\ \A x : Left(x)' = Left(x)
         /\ \A batch : BatchOK(batch)' <=> BatchOK(batch)
         /\ \A e : ReviewProven(e)' <=> ReviewProven(e)
         /\ \A commits : ScanOf(commits)' = ScanOf(commits)
         /\ \A commits : Candidates(commits)' = Candidates(commits)
         /\ \A c : UnitOf(c)' = UnitOf(c)
<1>1. \A c : (IsMerge(c)' <=> IsMerge(c)) /\ KindOf(c)' = KindOf(c)
  BY DEF IsMerge, KindOf
<1>2. \A c : UnitOf(c)' = UnitOf(c)
  BY <1>1 DEF UnitOf
<1>3. \A commits : Candidates(commits)' = Candidates(commits)
  BY <1>1 DEF Candidates
<1>4. \A commits, size : Sized(commits, size)' = Sized(commits, size)
  BY <1>3 DEF Sized
<1>5. \A commits : Eligible(commits)' = Eligible(commits) /\ Skipped(commits)' = Skipped(commits)
  BY <1>4 DEF Eligible, Skipped
<1>6. \A c, d : /\ ScannedBefore(c, d)' <=> ScannedBefore(c, d)
               /\ InWindow(c, d)' <=> InWindow(c, d)
               /\ Hits(c, d)' = Hits(c, d)
  BY DEF ScannedBefore, InWindow, Hits
<1>7. \A commits : NewestAt(commits)' = NewestAt(commits)
  BY DEF NewestAt
<1>8. \A commits, skipped : ScanEvent(commits, skipped)' = ScanEvent(commits, skipped)
  <2>1. \A candidates : LastScanned(candidates)' = LastScanned(candidates)
    BY DEF LastScanned, ScannedBefore
  <2> SUFFICES ASSUME NEW commits, NEW skipped
               PROVE  ScanEvent(commits, skipped)' = ScanEvent(commits, skipped)
    OBVIOUS
  <2>2. PICK c : c = Candidates(commits) /\ Candidates(commits)' = c
    BY <1>3
  <2>3. PICK e : e = Eligible(commits) /\ Eligible(commits)' = e
    BY <1>5
  <2>4. PICK n : n = Sized(commits, "none") /\ Sized(commits, "none")' = n
    BY <1>4
  <2>5. PICK t : t = NewestAt(c) /\ NewestAt(c)' = t
    BY <1>7
  <2>6. PICK l : l = LastScanned(c) /\ LastScanned(c)' = l
    BY <2>1
  <2>7. QED
    BY <2>2, <2>3, <2>4, <2>5, <2>6 DEF ScanEvent
<1>9. \A commits : ScanOf(commits)' = ScanOf(commits)
  BY <1>5, <1>8 DEF ScanOf
<1>10. \A x : PastOK(x)' <=> PastOK(x)
  BY <1>3, <1>9 DEF PastOK, Commits
<1>11. \A c, d, n : /\ ReworkEvent(c, d, n)' = ReworkEvent(c, d, n)
                   /\ RevertOf(c, d, n)' = RevertOf(c, d, n)
  BY DEF ReworkEvent, RevertOf
<1>12. \A x : Left(x)' = Left(x)
  <2>1. \A commits : RevertsLeft(commits)' = RevertsLeft(commits)
    BY <1>1, <1>11 DEF RevertsLeft
  <2>2. \A commits : ReworkLeft(commits)' = ReworkLeft(commits)
    <3>1. \A p : ReworkOf(p)' = ReworkOf(p)
      BY DEF ReworkOf, ReworkEvent, Hits
    <3>2. \A commits : Reworked(commits)' = Reworked(commits)
      <4> SUFFICES ASSUME NEW commits
                   PROVE  Reworked(commits)' = Reworked(commits)
        OBVIOUS
      <4>1. PICK texts : texts = Eligible(commits) /\ Eligible(commits)' = texts
        BY <1>5
      <4>2. \A p : (/\ ScannedBefore(p[1], p[2]) /\ InWindow(p[1], p[2])
                   /\ Cardinality(Hits(p[1], p[2])) > 0)'
               <=> /\ ScannedBefore(p[1], p[2]) /\ InWindow(p[1], p[2])
                   /\ Cardinality(Hits(p[1], p[2])) > 0
        BY DEF ScannedBefore, InWindow, Hits
      <4>3. QED
        BY <4>1, <4>2 DEF Reworked
    <3>3. QED
      BY <3>1, <3>2 DEF ReworkLeft
  <2>3. QED
    BY <1>9, <2>1, <2>2 DEF Left
<1>13. \A e : ReviewProven(e)' <=> ReviewProven(e)
  BY DEF ReviewProven
<1>14. \A batch : BatchOK(batch)' <=> BatchOK(batch)
  BY <1>9, <1>10, <1>12, <1>13 DEF BatchOK
<1>15. QED
  BY <1>2, <1>3, <1>9, <1>10, <1>12, <1>13, <1>14

-----------------------------------------------------------------------------
(* What each command plans. *)

LEMMA CommitsOK ==
  ASSUME SourcesOK
  PROVE  /\ IsFiniteSet(Commits)
         /\ \A c \in Commits :
              /\ commit[c].at \in Nat /\ commit[c].size \in {"text", "large", "none"}
              /\ commit[c].size = "none" => commit[c].added = <<>>
              /\ IsFiniteSet(DOMAIN commit[c].added) /\ IsFiniteSet(DOMAIN commit[c].deleted)
BY CollectorsAssumption DEF SourcesOK, SourcesAre, Commits

LEMMA CollectionOK ==
  ASSUME SourcesOK, NEW tip, NEW after, NEW max
  PROVE  BatchOK(Collection(tip, after, max))
<1> DEFINE batch == Collection(tip, after, max)
           retained == Newest(Selected(tip, after), max)
           reverts == {p \in retained \X Commits : p[2] \in commit[p[1]].reverts \ {p[1]}}
           horizon == IF retained = {} THEN {} ELSE {HorizonEvent(tip, NewestAt(retained))}
<1>1. /\ batch.units = {UnitOf(c) : c \in retained}
      /\ batch.events = {CommitEvent(c) : c \in retained}
                          \cup {RevertEvent(p[1], p[2], retained) : p \in reverts} \cup horizon
      /\ batch.past = [scan |-> {}, commits |-> retained]
  BY DEF Collection
<1>2. retained \subseteq Commits
  BY DEF Newest, Selected
<1> HIDE DEF batch, retained
<1>3. \A u \in batch.units : u.attached \subseteq IdsOf(batch.events)
  <2>1. \A c \in retained : UnitOf(c).attached = {CommitEvent(c).id}
    BY DEF UnitOf, CommitEvent, EventOf
  <2>2. QED
    BY <1>1, <2>1 DEF IdsOf
<1>4. \A e \in batch.events :
        e.kind \in {"git_commit", "git_merge", "revert", "git_history_horizon"}
  <2>1. \A c : CommitEvent(c).kind \in {"git_commit", "git_merge"}
    BY DEF CommitEvent, EventOf, KindOf
  <2>2. \A c, d : RevertEvent(c, d, retained).kind = "revert"
    BY DEF RevertEvent, RevertOf, EventOf
  <2>3. \A until : HorizonEvent(tip, until).kind = "git_history_horizon"
    BY DEF HorizonEvent, HorizonOf, EventOf
  <2>4. QED
    BY <1>1, <2>1, <2>2, <2>3
<1>5. PastOK(batch.past)
  BY <1>1, <1>2 DEF PastOK
<1>6. Left(batch.past) \subseteq batch.events
  <2>1. Left(batch.past) = RevertsLeft(retained)
    BY <1>1 DEF Left
  <2>2. ASSUME NEW c \in retained, NEW d \in retained,
               d \in commit[c].reverts, commit[d].at < commit[c].at
        PROVE  RevertOf(c, d, KindOf(d)) \in batch.events
    <3>1. c # d
      BY <1>2, <2>2, CommitsOK
    <3>2. <<c, d>> \in reverts
      BY <1>2, <2>2, <3>1
    <3>3. RevertEvent(c, d, retained) = RevertOf(c, d, KindOf(d))
      BY DEF RevertEvent
    <3>4. QED
      BY <1>1, <3>2, <3>3
  <2>3. QED
    BY <2>1, <2>2 DEF RevertsLeft
<1>7. QED
  BY <1>3, <1>4, <1>5, <1>6 DEF BatchOK, batch

\* A scan of the recorded commits is one of those that are no merges.
LEMMA CandidatesTwice ==
  ASSUME NEW recorded
  PROVE  /\ Eligible(Candidates(recorded)) = Eligible(recorded)
         /\ ScanOf(Candidates(recorded)) = ScanEvent(recorded, Skipped(recorded))
<1>1. Candidates(Candidates(recorded)) = Candidates(recorded)
  BY DEF Candidates
<1>2. \A size : Sized(Candidates(recorded), size) = Sized(recorded, size)
  BY <1>1 DEF Sized
<1>3. /\ Eligible(Candidates(recorded)) = Eligible(recorded)
      /\ Skipped(Candidates(recorded)) = Skipped(recorded)
  BY <1>2 DEF Eligible, Skipped
<1>4. \A skipped : ScanEvent(Candidates(recorded), skipped) = ScanEvent(recorded, skipped)
  BY <1>1, <1>2, <1>3 DEF ScanEvent
<1>5. QED
  BY <1>3, <1>4 DEF ScanOf

LEMMA ScanOK ==
  ASSUME Candidates(Landings) # {}
  PROVE  BatchOK(Scan(Landings))
<1> DEFINE batch == Scan(Landings)
           scan == ScanEvent(Landings, Skipped(Landings))
           commits == Candidates(Landings)
<1>1. /\ batch.units = {}
      /\ batch.past = [scan |-> {scan.id}, commits |-> commits]
      /\ batch.events = ReworkLeft(Landings) \cup {scan}
  BY DEF Scan, ReworkLeft, Reworked, ReworkOf, ReworkedLines
<1>2. scan = ScanOf(commits) /\ Eligible(commits) = Eligible(Landings)
  BY CandidatesTwice
<1>3. ReworkLeft(commits) = ReworkLeft(Landings)
  BY <1>2 DEF ReworkLeft, Reworked
<1>4. commits \subseteq Candidates(Commits)
  BY DEF Candidates, Landings
<1>5. \A e \in ReworkLeft(Landings) : e.kind = "rework"
  <2>1. \A p : ReworkOf(p).kind = "rework"
    BY DEF ReworkOf, ReworkEvent, EventOf
  <2>2. QED
    BY <2>1 DEF ReworkLeft
<1>6. scan.kind = "git_rework_scan"
  BY DEF ScanEvent, EventOf
<1> HIDE DEF batch, scan, commits
<1>7. PastOK(batch.past)
  BY <1>1, <1>2, <1>4 DEF PastOK, commits
<1>8. Left(batch.past) \subseteq batch.events
  BY <1>1, <1>2, <1>3 DEF Left
<1>9. \A e \in batch.events : e.kind # "change_finalized"
  BY <1>1, <1>5, <1>6
<1>10. \A e \in batch.events : e.kind = "git_rework_scan" =>
         batch.past.scan # {} /\ e = ScanOf(batch.past.commits)
  BY <1>1, <1>2, <1>5
<1>11. BatchOK(batch)
  BY <1>1, <1>7, <1>8, <1>9, <1>10 DEF BatchOK
<1>12. QED
  BY <1>11 DEF batch

\* A batch of a provider covers no commits.
LEMMA ProviderOK ==
  ASSUME NEW found,
         \A u \in found.units : u.attached \subseteq IdsOf(found.events),
         \A e \in found.events :
           /\ e.kind # "git_rework_scan"
           /\ e.kind = "change_finalized" => ReviewProven(e)
  PROVE  BatchOK(FromProvider(found))
<1>1. RevertsLeft({}) = {}
  BY DEF RevertsLeft
<1>2. QED
  BY <1>1 DEF BatchOK, FromProvider, PastOK, Left

LEMMA GitHubOK ==
  ASSUME NEW state, NEW since, NEW until, NEW limit
  PROVE  BatchOK(FromProvider(GitHubCollection(state, since, until, limit)))
<1> DEFINE found == GitHubCollection(state, since, until, limit)
           pulls == Assembled(state, since, until, limit)
<1>1. /\ found.units = {PullUnit(p) : p \in pulls}
      /\ found.events = (UNION {PullEvents(p, state, until, limit) : p \in pulls})
                          \cup PullReverts(state, pulls, since, until, limit.log)
  BY DEF GitHubCollection
<1> HIDE DEF found, pulls
<1>2. \A u \in found.units : u.attached \subseteq IdsOf(found.events)
  <2>1. \A p \in pulls : {Snapshot(p), Final(p)} \subseteq found.events
    BY <1>1 DEF PullEvents
  <2>2. \A p \in pulls : PullUnit(p).attached = {Snapshot(p).id, Final(p).id}
    BY DEF PullUnit
  <2>3. QED
    BY <1>1, <2>1, <2>2 DEF IdsOf
<1>3. \A e \in found.events : e.kind \notin {"git_rework_scan", "change_finalized"}
  <2>1. \A p : Snapshot(p).kind = "change_snapshot"
    BY DEF Snapshot, EventOf
  <2>2. \A p : Final(p).kind \in {"change_merged", "change_closed"}
    BY DEF Final, EventOf
  <2>3. \A p, r : ReviewEvent(p, r).kind = "review"
    BY DEF ReviewEvent, EventOf
  <2>4. \A p, c : CheckEvent(p, c).kind = "ci_run"
    BY DEF CheckEvent, EventOf
  <2>5. \A p \in pulls : \A e \in PullEvents(p, state, until, limit) :
          e.kind \notin {"git_rework_scan", "change_finalized"}
    BY <2>1, <2>2, <2>3, <2>4 DEF PullEvents
  <2>6. \A e \in PullReverts(state, pulls, since, until, limit.log) : e.kind = "revert"
    <3> SUFFICES ASSUME NEW e \in PullReverts(state, pulls, since, until, limit.log)
                 PROVE  e.kind = "revert"
      OBVIOUS
    <3>1. \A c, change : RevertOfChange(c, change).kind = "revert"
      BY DEF RevertOfChange, EventOf
    <3>2. PICK S : PullReverts(state, pulls, since, until, limit.log)
                     = {RevertOfChange(a[1], ChangeOf(PullOfCommit(pulls, a[2]))) : a \in S}
      BY Zenon DEF PullReverts
    <3>3. QED
      BY <3>1, <3>2
  <2>7. QED
    BY <1>1, <2>5, <2>6
<1>4. QED
  BY <1>2, <1>3, ProviderOK DEF found

LEMMA ArchiveOK ==
  ASSUME SourcesOK, ExportOK, NEW read, NEW manifest \in disk.manifest,
         LoadsRows(read, manifest)
  PROVE  BatchOK(FromProvider(ArchiveCollection(read, manifest)))
<1> DEFINE found == ArchiveCollection(read, manifest)
<1>1. /\ found.units = {ArchiveUnit(PullRows(n, read)) : n \in OpenedPulls(read)}
      /\ found.events = UNION {ArchivedPull(PullRows(n, read), manifest) : n \in OpenedPulls(read)}
  BY DEF ArchiveCollection
<1> HIDE DEF found
<1>2. \A u \in found.units : u.attached \subseteq IdsOf(found.events)
  <2>1. ASSUME NEW pull
        PROVE  ArchiveUnit(pull).attached \subseteq IdsOf(ArchivedPull(pull, manifest))
    <3> DEFINE ends == {r \in Merges(pull) : r = OldestRow(Merges(pull))}
    <3>1. ArchiveUnit(pull).attached
              = {ArchiveId("snapshot", Opening(pull))} \cup {ArchiveId("final", r) : r \in ends}
      BY DEF ArchiveUnit
    <3>2. \A id, kind, row, group, data : ArchiveEvent(id, kind, row, group, data).id = id
      BY DEF ArchiveEvent, EventOf
    <3> DEFINE opening == Opening(pull)
               opened == ArchiveEvent(ArchiveId("snapshot", opening), "change_snapshot", opening,
                           opening.number, [head |-> opening.head, manifest |-> manifest, sound |-> TRUE])
               Merged(r) == ArchiveEvent(ArchiveId("final", r), "change_merged", r, r.number,
                              [head |-> r.head, manifest |-> manifest, sound |-> TRUE])
    <3>3. opened \in ArchivedPull(pull, manifest) /\ opened.id = ArchiveId("snapshot", opening)
      BY <3>2 DEF ArchivedPull
    <3>4. \A r : Merged(r).id = ArchiveId("final", r)
      BY <3>2
    <3>5. ASSUME NEW r \in ends
          PROVE  Merged(r) \in ArchivedPull(pull, manifest)
      <4>1. MergeEvents(pull, manifest) = {Merged(m) : m \in ends}
        BY DEF MergeEvents
      <4>2. MergeEvents(pull, manifest) \subseteq ArchivedPull(pull, manifest)
        BY DEF ArchivedPull
      <4> HIDE DEF Merged, ends
      <4>3. QED
        BY <4>1, <4>2
    <3> HIDE DEF opened, Merged, ends
    <3>6. QED
      BY <3>1, <3>3, <3>4, <3>5 DEF IdsOf
  <2>2. \A n \in OpenedPulls(read) :
          IdsOf(ArchivedPull(PullRows(n, read), manifest)) \subseteq IdsOf(found.events)
    BY <1>1 DEF IdsOf
  <2>3. QED
    BY <1>1, <2>1, <2>2
<1>3. manifest.window \in Window /\ Faithful(read, manifest.window, manifest.missing)
  BY DEF LoadsRows, ExportOK
<1>4. \A e \in found.events : e.kind = "change_finalized" => ReviewProven(e)
  BY <1>1, <1>3, DerivedIsProven
<1>5. \A e \in found.events : e.kind # "git_rework_scan"
  BY <1>1 DEF ArchivedPull, MergeEvents, ArchiveEvent, EventOf
<1>6. QED
  BY <1>2, <1>4, <1>5, ProviderOK DEF found

-----------------------------------------------------------------------------
(* The steps. *)

LEMMA ScenarioKept ==
  ASSUME NEW s \in Scenario, SourcesAre(s), commit' = commit, rows' = rows,
         github' = github \/ (Len(github) > 1 /\ github' = Tail(github))
  PROVE  SourcesAre(s)'
<1>1. PICK l \in 1..Len(s.github) + 1 : github = SubSeq(s.github, l, Len(s.github))
  BY DEF SourcesAre
<1>2. s.github \in Seq(Range(s.github))
  BY CollectorsAssumption
<1>3. CASE github' = github
  BY <1>3 DEF SourcesAre
<1>4. CASE Len(github) > 1 /\ github' = Tail(github)
  <2>1. Len(s.github) \in Nat /\ DOMAIN s.github = 1..Len(s.github)
    BY <1>2, LenProperties
  <2>2. \A i \in l..Len(s.github) : s.github[i] \in Range(s.github)
    BY <2>1 DEF Range
  <2>3. Len(github) = IF l <= Len(s.github) THEN Len(s.github) - l + 1 ELSE 0
    BY <1>1, <2>1, <2>2, SubSeqProperties
  <2>4. l \in 1..Len(s.github) /\ Len(s.github) \in l..Len(s.github)
    BY <1>4, <2>1, <2>3
  <2>5. github' = SubSeq(s.github, l + 1, Len(s.github))
    BY <1>1, <1>2, <1>4, <2>4, HeadTailOfSubSeq
  <2>6. l + 1 \in 1..Len(s.github) + 1
    BY <2>1, <2>4
  <2>7. QED
    BY <2>5, <2>6 DEF SourcesAre
<1>5. QED
  BY <1>3, <1>4

LEMMA SourcesKept ==
  ASSUME SourcesOK, commit' = commit, rows' = rows,
         github' = github \/ (Len(github) > 1 /\ github' = Tail(github))
  PROVE  SourcesOK'
<1>1. PICK s \in Scenario : SourcesAre(s)
  BY DEF SourcesOK
<1>2. SourcesAre(s)'
  BY <1>1, ScenarioKept
<1>3. QED
  BY <1>2 DEF SourcesOK

\* Recorded units stay recorded, so that an earlier scan covers nothing that a
\* scan that begins now does not.
LEMMA GrowStep ==
  ASSUME commit' = commit, rows' = rows, ScansGrow, units \subseteq units',
         \A x \in Scans' : x \in Scans \/ x.commits = Candidates(Landings)
  PROVE  ScansGrow'
<1>1. Candidates(Landings) \subseteq Candidates(Landings)'
  <2>1. Landings \subseteq Landings'
    BY Framed DEF Landings, Commits
  <2>2. \A c : IsMerge(c)' <=> IsMerge(c)
    BY DEF IsMerge
  <2>3. QED
    BY <2>1, <2>2 DEF Candidates
<1>2. \A x \in Scans' : x.commits \subseteq Candidates(Landings)
  BY DEF ScansGrow
<1>3. \A x, y \in Scans' : x.commits \subseteq y.commits \/ y.commits \subseteq x.commits
  BY <1>2 DEF ScansGrow
<1>4. QED
  BY <1>1, <1>2, <1>3 DEF ScansGrow

\* Nothing is recorded or planned.
LEMMA QuietStep ==
  ASSUME IInv, commit' = commit, rows' = rows, SourcesOK', ExportOK',
         UNCHANGED <<events, units, plan, past>>
  PROVE  IInv'
<1>1. PlansOK' /\ LogsOK' /\ ScanNamesOK'
  BY Framed DEF IInv, PlansOK, LogsOK, ScanNamesOK, IdsOf
<1>2. ScansGrow'
  <2>1. Scans' = Scans
    BY DEF Scans
  <2>2. ScansGrow
    BY DEF IInv
  <2>3. QED
    BY <2>1, <2>2, GrowStep
<1>3. QED
  BY <1>1, <1>2 DEF IInv

LEMMA PlanStep ==
  ASSUME IInv, NEW p \in Process, NEW batch, Plans(p, batch), BatchOK(batch),
         batch.past.scan = {} \/ batch.past.commits = Candidates(Landings)
  PROVE  IInv'
<1>1. /\ commit' = commit /\ rows' = rows
      /\ UNCHANGED <<sources, events, units, past>>
      /\ plan' = [plan EXCEPT ![p] = {batch}] /\ DOMAIN plan = Process
  BY DEF Plans, sources, archiveVars, IInv, PlansOK
<1>2. SourcesOK' /\ ExportOK'
  <2>1. SourcesOK /\ ExportOK /\ UNCHANGED <<loaded, export, disk>> /\ github' = github
    BY <1>1 DEF IInv, sources, archiveVars
  <2>2. QED
    BY <1>1, <2>1, SourcesKept, ExportStep
<1>3. PlansOK'
  BY <1>1, Framed DEF IInv, PlansOK
<1>4. LogsOK' /\ ScanNamesOK'
  BY <1>1, Framed DEF IInv, LogsOK, ScanNamesOK, IdsOf
<1>5. ScansGrow'
  <2>1. \A x \in Scans' : x \in Scans \/ x.commits = Candidates(Landings)
    BY <1>1 DEF Scans
  <2>2. ScansGrow
    BY DEF IInv
  <2>3. QED
    BY <1>1, <2>1, <2>2, GrowStep
<1>6. QED
  BY <1>2, <1>3, <1>4, <1>5 DEF IInv

LEMMA GiveUpStep ==
  ASSUME IInv, NEW p \in Process, GiveUp(p)
  PROVE  IInv'
<1>1. /\ commit' = commit /\ rows' = rows
      /\ UNCHANGED <<sources, events, units, past>>
      /\ plan' = [plan EXCEPT ![p] = {}] /\ DOMAIN plan = Process
  BY DEF GiveUp, sources, archiveVars, IInv, PlansOK
<1>2. SourcesOK' /\ ExportOK'
  <2>1. SourcesOK /\ ExportOK /\ UNCHANGED <<loaded, export, disk>> /\ github' = github
    BY <1>1 DEF IInv, sources, archiveVars
  <2>2. QED
    BY <1>1, <2>1, SourcesKept, ExportStep
<1>3. PlansOK'
  BY <1>1, Framed DEF IInv, PlansOK
<1>4. LogsOK' /\ ScanNamesOK'
  BY <1>1, Framed DEF IInv, LogsOK, ScanNamesOK, IdsOf
<1>5. ScansGrow'
  <2>1. Scans' \subseteq Scans
    BY <1>1 DEF Scans
  <2>2. ScansGrow
    BY DEF IInv
  <2>3. QED
    BY <1>1, <2>1, <2>2, GrowStep
<1>6. QED
  BY <1>2, <1>3, <1>4, <1>5 DEF IInv

\* A batch is only recorded where no record of its names differs.
LEMMA UpsertStep ==
  ASSUME IInv, NEW p \in Process, Upsert(p)
  PROVE  IInv'
<1>1. PICK batch \in plan[p] :
        /\ Conflicts(events, batch.events) = {}
        /\ events' = events \cup batch.events /\ units' = units \cup batch.units
        /\ past' = past \cup {batch.past}
        /\ plan' = [plan EXCEPT ![p] = {}]
        /\ UNCHANGED sources
  BY DEF Upsert
<1>2. commit' = commit /\ rows' = rows /\ DOMAIN plan = Process
  BY <1>1 DEF sources, archiveVars, IInv, PlansOK
<1>3. BatchOK(batch)
  BY <1>1 DEF IInv, PlansOK
<1>4. SourcesOK' /\ ExportOK'
  <2>1. SourcesOK /\ ExportOK /\ UNCHANGED <<loaded, export, disk>> /\ github' = github
    BY <1>1 DEF IInv, sources, archiveVars
  <2>2. QED
    BY <1>2, <2>1, SourcesKept, ExportStep
<1>5. PlansOK'
  BY <1>1, <1>2, Framed DEF IInv, PlansOK
<1>6. LogsOK'
  <2>1. \A u \in units' : u.attached \subseteq IdsOf(events)'
    BY <1>1, <1>3 DEF IInv, LogsOK, BatchOK, IdsOf
  <2>2. \A e \in events' : e.kind = "change_finalized" => ReviewProven(e)'
    BY <1>1, <1>2, <1>3, Framed DEF IInv, LogsOK, BatchOK
  <2>3. \A e \in events' : e.kind = "git_rework_scan" =>
          \E x \in past' : x.scan # {} /\ e = ScanOf(x.commits)'
    BY <1>1, <1>2, <1>3, Framed DEF IInv, LogsOK, BatchOK
  <2>4. \A x \in past' : PastOK(x)' /\ Left(x)' \subseteq events'
    BY <1>1, <1>2, <1>3, Framed DEF IInv, LogsOK, BatchOK
  <2>5. QED
    BY <2>1, <2>2, <2>3, <2>4 DEF LogsOK
<1>7. ScansGrow'
  <2>1. Scans' \subseteq Scans
    BY <1>1, <1>2 DEF Scans
  <2>2. ScansGrow
    BY DEF IInv
  <2>3. QED
    BY <1>1, <1>2, <2>1, <2>2, GrowStep
<1>8. ScanNamesOK'
  <2>1. \A e \in events, f \in batch.events : e.id = f.id => e = f
    <3> SUFFICES ASSUME NEW e \in events, NEW f \in batch.events, e.id = f.id, e # f
                 PROVE  FALSE
      OBVIOUS
    <3>1. <<e, f>> \in Conflicts(events, batch.events)
      BY DEF Conflicts
    <3>2. QED
      BY <1>1, <3>1
  <2>2. \A x \in past : (x.scan # {} /\ x.scan = batch.past.scan) =>
          ScanOf(x.commits) = ScanOf(batch.past.commits)
    <3> SUFFICES ASSUME NEW x \in past, x.scan # {}, x.scan = batch.past.scan
                 PROVE  ScanOf(x.commits) = ScanOf(batch.past.commits)
      OBVIOUS
    <3>1. ScanOf(x.commits) \in events /\ x.scan = {ScanOf(x.commits).id}
      BY DEF IInv, LogsOK, PastOK, Left
    <3>2. /\ ScanOf(batch.past.commits) \in batch.events
          /\ batch.past.scan = {ScanOf(batch.past.commits).id}
      BY <1>3 DEF BatchOK, PastOK, Left
    <3>3. QED
      BY <2>1, <3>1, <3>2
  <2>3. \A x, y \in past' : (x.scan # {} /\ x.scan = y.scan) =>
          ScanOf(x.commits) = ScanOf(y.commits)
    BY <1>1, <2>2 DEF IInv, ScanNamesOK
  <2>4. QED
    BY <1>2, <2>3, Framed DEF ScanNamesOK
<1>9. QED
  BY <1>4, <1>5, <1>6, <1>7, <1>8 DEF IInv

LEMMA InitIInv == Init => IInv
<1> SUFFICES ASSUME Init
             PROVE  IInv
  OBVIOUS
<1>1. SourcesOK
  <2>1. PICK s \in Scenario : commit = s.commit /\ github = s.github /\ rows = s.rows
    BY DEF Init
  <2>2. s.github \in Seq(Range(s.github))
    BY CollectorsAssumption
  <2>3. github = SubSeq(s.github, 1, Len(s.github)) /\ 1 \in 1..Len(s.github) + 1
    BY <2>1, <2>2, SubSeqFull, LenProperties
  <2>4. QED
    BY <2>1, <2>3 DEF SourcesOK, SourcesAre
<1>2. ExportOK
  BY DEF Init, NoExport, ExportOK
<1>3. PlansOK
  BY DEF Init, PlansOK
<1>4. LogsOK /\ ScanNamesOK
  BY DEF Init, LogsOK, ScanNamesOK
<1>5. ScansGrow
  <2>1. Scans = {}
    BY DEF Init, Scans
  <2>2. QED
    BY <2>1 DEF ScansGrow
<1>6. QED
  BY <1>1, <1>2, <1>3, <1>4, <1>5 DEF IInv

LEMMA NextIInv == IInv /\ [Next]_vars => IInv'
<1> SUFFICES ASSUME IInv, [Next]_vars
             PROVE  IInv'
  OBVIOUS
<1>0. SourcesOK /\ ExportOK
  BY DEF IInv
<1>1. CASE Move
  <2>1. /\ commit' = commit /\ rows' = rows /\ Len(github) > 1 /\ github' = Tail(github)
        /\ UNCHANGED <<loaded, export, disk>> /\ UNCHANGED <<events, units, plan, past>>
    BY <1>1 DEF Move, archiveVars
  <2>2. SourcesOK' /\ ExportOK'
    BY <1>0, <2>1, SourcesKept, ExportStep
  <2>3. QED
    BY <2>1, <2>2, QuietStep
<1>2. CASE Archive
  <2>1. commit' = commit /\ github' = github /\ UNCHANGED <<events, units, plan, past>>
    BY <1>2 DEF Archive
  <2>2. rows' = rows
    BY <1>2 DEF Archive, LoadFile, QueryMaximum, QueryHours, QueryRows, WriteRows,
                WriteManifest, StopExport
  <2>3. ExportOK'
    BY <1>0, <1>2, <2>2, ExportStep DEF Archive
  <2>4. SourcesOK'
    BY <1>0, <2>1, <2>2, SourcesKept
  <2>5. QED
    BY <2>1, <2>2, <2>3, <2>4, QuietStep
<1>3. ASSUME NEW p \in Process, NEW tip, NEW after, NEW max, Bootstrap(p, tip, after, max)
      PROVE  IInv'
  <2>1. Collection(tip, after, max).past.scan = {}
    BY DEF Collection
  <2>2. Plans(p, Collection(tip, after, max))
    BY <1>3 DEF Bootstrap
  <2>3. BatchOK(Collection(tip, after, max))
    BY <1>0, CollectionOK
  <2>4. QED
    BY <2>1, <2>2, <2>3, PlanStep
<1>4. ASSUME NEW p \in Process, ScanRework(p)
      PROVE  IInv'
  <2>1. Scan(Landings).past.commits = Candidates(Landings)
    BY DEF Scan
  <2>2. Plans(p, Scan(Landings)) /\ Candidates(Landings) # {}
    BY <1>4 DEF ScanRework
  <2>3. BatchOK(Scan(Landings))
    BY <2>2, ScanOK
  <2>4. QED
    BY <2>1, <2>2, <2>3, PlanStep
<1>5. ASSUME NEW p \in Process, NEW found, Plans(p, FromProvider(found)),
             BatchOK(FromProvider(found))
      PROVE  IInv'
  <2>1. FromProvider(found).past.scan = {}
    BY DEF FromProvider
  <2>2. QED
    BY <1>5, <2>1, PlanStep
<1>6. ASSUME NEW p \in Process, NEW since, NEW until, NEW limit,
             ImportGithub(p, since, until, limit)
      PROVE  IInv'
  <2>1. Plans(p, FromProvider(GitHubCollection(github[1], since, until, limit)))
    BY <1>6 DEF ImportGithub
  <2>2. BatchOK(FromProvider(GitHubCollection(github[1], since, until, limit)))
    BY GitHubOK
  <2>3. QED
    BY <1>5, <2>1, <2>2
<1>7. ASSUME NEW p \in Process, ImportArchive(p)
      PROVE  IInv'
  <2>1. PICK read \in disk.rows, manifest \in disk.manifest :
          Normalizable(read, manifest) /\ Plans(p, FromProvider(ArchiveCollection(read, manifest)))
    BY <1>7 DEF ImportArchive
  <2>2. BatchOK(FromProvider(ArchiveCollection(read, manifest)))
    BY <1>0, <2>1, ArchiveOK DEF Normalizable
  <2>3. QED
    BY <1>5, <2>1, <2>2
<1>8. CASE UNCHANGED vars
  <2>1. /\ commit' = commit /\ rows' = rows /\ github' = github
        /\ UNCHANGED <<loaded, export, disk>> /\ UNCHANGED <<events, units, plan, past>>
    BY <1>8 DEF vars, sources, archiveVars
  <2>2. SourcesOK' /\ ExportOK'
    BY <1>0, <2>1, SourcesKept, ExportStep
  <2>3. QED
    BY <2>1, <2>2, QuietStep
<1>9. QED
  BY <1>1, <1>2, <1>3, <1>4, <1>6, <1>7, <1>8, GiveUpStep, UpsertStep DEF Next

-----------------------------------------------------------------------------
(* What the labels of commits rest on. *)

\* The only explicit outcomes are the review outcomes of the archive.
LEMMA NoExplicitOutcome ==
  ASSUME IInv, NEW unit, NEW target \in {"revert_or_hotfix", "rework"}
  PROVE  ExplicitVotes(unit, target, Scoped(unit, events)) = {}
<1>1. \A e \in Scoped(unit, events) : e.kind = "change_finalized" => e.data.target = "review"
  BY DEF Scoped, IInv, LogsOK, ReviewProven
<1>2. QED
  BY <1>1 DEF ExplicitVotes, OfKind

\* An event that a collection or a scan left for a recorded commit is heard.
LEMMA HeardLater ==
  ASSUME SourcesOK, NEW c \in Commits, NEW e \in events,
         e.change = UnitOf(c).id, e.occurred > commit[c].at
  PROVE  e \in AfterLanding(UnitOf(c), Scoped(UnitOf(c), events))
<1>1. e \in Scoped(UnitOf(c), events)
  BY DEF Scoped, UnitOf
<1>2. UnitOf(c).finalized \in {commit[c].at, Never} /\ IsLanded(UnitOf(c))
  BY DEF UnitOf, IsLanded, KindOf, Landed
<1>3. QED
  BY <1>1, <1>2 DEF AfterLanding, PostMerge

LEMMA RevertIsHeard ==
  ASSUME IInv, NEW b \in past, b.scan = {}, NEW c \in b.commits, NEW d \in b.commits,
         c \in commit[d].reverts, commit[c].at < commit[d].at
  PROVE  Label(c, "revert_or_hotfix").label # "negative"
<1> DEFINE unit == UnitOf(c)
           e == RevertOf(d, c, KindOf(c))
<1>1. /\ e.change = unit.id /\ e.occurred = commit[d].at /\ e.kind = "revert"
      /\ e.data.sound /\ e.data.linked = unit.id /\ e.data.weak
      /\ e.data.link = "git_trailer"
  BY DEF RevertOf, EventOf, UnitOf
<1>2. e \in events
  <2>1. e \in RevertsLeft(b.commits)
    <3> DEFINE pairs == {q \in b.commits \X b.commits :
                           /\ q[2] \in commit[q[1]].reverts
                           /\ commit[q[2]].at < commit[q[1]].at}
    <3>1. <<d, c>> \in pairs
      OBVIOUS
    <3>2. RevertsLeft(b.commits) = {RevertOf(p[1], p[2], KindOf(p[2])) : p \in pairs}
      BY DEF RevertsLeft
    <3> HIDE DEF pairs
    <3>3. QED
      BY <3>1, <3>2
  <2>2. QED
    BY <2>1 DEF IInv, LogsOK, Left
<1>3. SourcesOK /\ c \in Commits /\ d \in Commits
  BY DEF IInv, LogsOK, PastOK
<1> HIDE DEF unit, e
<1>4. e \in AfterLanding(unit, Scoped(unit, events))
  <2>1. e.occurred > commit[c].at
    BY <1>1, <1>3, CommitsOK
  <2>2. QED
    BY <1>1, <1>2, <1>3, <2>1, HeardLater DEF unit
<1>5. Vote("positive", "weak", e) \in RevertVotes(unit, Scoped(unit, events))
  BY <1>1, <1>4 DEF RevertVotes, OfKind, Linked, WeakReverts, Positive
<1>6. LabelingVotes(unit, "revert_or_hotfix", Scoped(unit, events), ReworkWindow(events)) # {}
  BY <1>5 DEF LabelingVotes
<1>7. ExplicitVotes(unit, "revert_or_hotfix", Scoped(unit, events)) = {}
  BY NoExplicitOutcome
<1>8. QED
  BY <1>6, <1>7, SeenIsNotNegative DEF Label, unit, Targets

-----------------------------------------------------------------------------
(* Coverage records. *)

\* The newest of a finite number of commits.
LEMMA NewestTime ==
  ASSUME SourcesOK, NEW commits \in SUBSET Commits, commits # {}
  PROVE  NewestAt(commits) \in {commit[c].at : c \in commits} /\ NewestAt(commits) \in Nat
<1> DEFINE R == {p \in commits \X commits : commit[p[1]].at > commit[p[2]].at}
<1>1. IsFiniteSet(commits)
  BY CommitsOK, FS_Subset
<1>2. \A c \in commits : commit[c].at \in Nat
  BY CommitsOK
<1>3. \A x, y \in commits : <<x, y>> \in R <=> commit[x].at > commit[y].at
  OBVIOUS
<1>4. \E y \in commits : \A x \in commits : <<x, y>> \notin R
  <2> HIDE DEF R
  <2>1. \A x, y, z \in commits : <<x, y>> \in R /\ <<y, z>> \in R => <<x, z>> \in R
    BY <1>2, <1>3
  <2>2. \A x \in commits : <<x, x>> \notin R
    BY <1>2, <1>3
  <2>3. QED
    BY <1>1, <2>1, <2>2, FiniteMinimal
<1> HIDE DEF R
<1>5. PICK y \in commits : \A x \in commits : <<x, y>> \notin R
  BY <1>4
<1>6. ASSUME NEW x \in commits
      PROVE  commit[x].at <= commit[y].at
  <2>1. ~(commit[x].at > commit[y].at)
    BY <1>3, <1>5
  <2>2. commit[x].at \in Nat /\ commit[y].at \in Nat
    BY <1>2
  <2>3. QED
    BY <2>1, <2>2
<1>7. NewestAt(commits) \in {commit[c].at : c \in commits}
  BY <1>6 DEF NewestAt
<1>8. QED
  BY <1>2, <1>7

\* A coverage record is well formed: it claims nothing later than itself.
LEMMA ScanTimed ==
  ASSUME SourcesOK, NEW commits \in SUBSET Candidates(Commits), commits # {}
  PROVE  WellTimed(ScanOf(commits)) /\ CoversItsPast(ScanOf(commits))
<1> DEFINE until == NewestAt(commits)
           id == IdOf(<<"scan", until, Skipped(commits)>>)
<1>1. Candidates(commits) = commits /\ commits \subseteq Commits
  BY DEF Candidates
<1>2. until \in {commit[c].at : c \in commits} /\ until \in Nat
  BY <1>1, NewestTime
<1>3. Skipped(commits) \in SUBSET Commits
  BY <1>1 DEF Skipped, Sized
<1>4. id \in Nat
  <2> HIDE DEF until
  <2>1. PICK s \in Scenario : SourcesAre(s)
    BY DEF SourcesOK
  <2>2. <<"scan", until, Skipped(commits)>> \in GitNames(s)
    BY <1>1, <1>2, <1>3, <2>1 DEF GitNames, SourcesAre, Commits
  <2>3. QED
    BY <2>1, <2>2, NamesAssumption DEF Names, HaveDistinctIds
<1>5. /\ ScanOf(commits).id = id /\ ScanOf(commits).group = id
      /\ ScanOf(commits).occurred = until /\ ScanOf(commits).available = until
      /\ ScanOf(commits).data.until = until
  BY <1>1 DEF ScanOf, ScanEvent, EventOf
<1> HIDE DEF until, id
<1>6. QED
  BY <1>2, <1>4, <1>5 DEF WellTimed, CoversItsPast

\* Where the log holds a scan, the window is that of the newest.
LEMMA WindowIsOfScan ==
  ASSUME IInv, ReworkWindow(events) # NoWindow
  PROVE  \E y \in past :
           /\ y.scan # {} /\ y.scan = {ReworkWindow(events).id}
           /\ ReworkWindow(events).skipped = ScanOf(y.commits).data.skipped
           /\ ReworkWindow(events).id \in Nat /\ ReworkWindowDays \in Nat
<1> DEFINE scans == {e \in events : e.kind = "git_rework_scan"}
           all == {ScanOf(commits) : commits \in SUBSET Commits}
<1>1. /\ ReworkWindowDays # Unregistered /\ scans # {}
      /\ ReworkWindow(events).id = NewestOf(scans).id
      /\ ReworkWindow(events).skipped = NewestOf(scans).data.skipped
  BY DEF ReworkWindow
<1>2. ASSUME NEW e \in scans
      PROVE  \E x \in past : /\ x.scan = {e.id} /\ e = ScanOf(x.commits)
                            /\ x.commits \in SUBSET Candidates(Commits) /\ x.commits # {}
  BY DEF IInv, LogsOK, PastOK
<1>3. IsFiniteSet(scans)
  <2>1. IsFiniteSet(Commits)
    BY CommitsOK DEF IInv
  <2>2. IsFiniteSet(SUBSET Commits)
    BY <2>1, FS_SUBSET
  <2>3. IsFiniteSet(all)
    <3> DEFINE named == [commits \in SUBSET Commits |-> ScanOf(commits)]
    <3>1. named \in Surjection(SUBSET Commits, all)
      BY DEF Surjection
    <3> HIDE DEF named, all
    <3>2. QED
      BY <2>2, <3>1, FS_Surjection
  <2>4. scans \subseteq all
    <3>1. Candidates(Commits) \subseteq Commits
      BY DEF Candidates
    <3> HIDE DEF scans
    <3>2. QED
      BY <1>2, <3>1
  <2> HIDE DEF scans, all
  <2>5. QED
    BY <2>3, <2>4, FS_Subset
<1> HIDE DEF scans
<1>4. \A e \in scans : WellTimed(e) /\ CoversItsPast(e)
  BY <1>2, ScanTimed DEF IInv
<1>5. NewestOf(scans) \in scans
  BY <1>1, <1>3, <1>4, NewestExists
<1>6. NewestOf(scans).id \in Nat /\ ReworkWindowDays \in Nat
  BY <1>1, <1>4, <1>5, OutcomesAssumption DEF WellTimed
<1>7. QED
  BY <1>1, <1>2, <1>5, <1>6

\* Two scans of one name read the same patches: of two scans one covers all
\* that the other does, and their records tell how much each read.
LEMMA SameRead ==
  ASSUME IInv, NEW x \in past, NEW y \in past, x.scan # {}, x.scan = y.scan
  PROVE  /\ Eligible(x.commits) = Eligible(y.commits)
         /\ ScanOf(x.commits) = ScanOf(y.commits)
<1>1. ScanOf(x.commits) = ScanOf(y.commits)
  BY DEF IInv, ScanNamesOK
<1>2. Cardinality(Eligible(x.commits)) = Cardinality(Eligible(y.commits))
  <2>1. \A commits : ScanOf(commits).data.scanned = Cardinality(Eligible(commits))
    BY DEF ScanOf, ScanEvent, EventOf
  <2>2. QED
    BY <1>1, <2>1
<1>3. \A c, d : c \subseteq d => Eligible(c) \subseteq Eligible(d)
  BY DEF Eligible, Sized, Candidates
<1>4. x.commits \subseteq y.commits \/ y.commits \subseteq x.commits
  BY DEF IInv, ScansGrow, Scans
<1>5. IsFiniteSet(Eligible(x.commits)) /\ IsFiniteSet(Eligible(y.commits))
  <2>1. Eligible(x.commits) \subseteq Commits /\ Eligible(y.commits) \subseteq Commits
    BY DEF IInv, LogsOK, PastOK, Eligible, Sized, Candidates
  <2>2. QED
    BY <2>1, CommitsOK, FS_Subset DEF IInv
<1>6. Eligible(x.commits) = Eligible(y.commits)
  BY <1>2, <1>3, <1>4, <1>5, FS_Subset
<1>7. QED
  BY <1>1, <1>6

\* What the scan that a negative rework label rests on covered.
LEMMA CoveredByScan ==
  ASSUME IInv, NEW c, UnitOf(c).prediction \in Nat, Label(c, "rework").label = "negative"
  PROVE  /\ ReworkVotes(UnitOf(c), Scoped(UnitOf(c), events), ReworkWindow(events)) = {}
         /\ ReworkWindow(events) # NoWindow
         /\ \E y \in past :
              /\ y.scan # {}
              /\ UnitOf(c).id \notin ScanOf(y.commits).data.skipped
              /\ \A b \in past :
                   (b.scan # {} /\ b.scan \subseteq Label(c, "rework").evidence.ids)
                     => b.scan = y.scan
<1> DEFINE window == ReworkWindow(events)
           unit == UnitOf(c)
           git == GitWindow(events)
           weak == TRUE
           label == DeriveOutcome(unit, events, "rework", weak, git, window)
<1>1. window # NoWindow => window.id \in Nat /\ ReworkWindowDays \in Nat
  BY WindowIsOfScan
<1>2. ExplicitVotes(unit, "rework", Scoped(unit, events)) = {}
  BY NoExplicitOutcome
<1>3. Label(c, "rework") = label /\ label.label = "negative" /\ unit.prediction \in Nat
  BY DEF Label
<1> HIDE DEF window, unit, git, weak
<1>4. /\ ReworkVotes(unit, Scoped(unit, events), window) = {}
      /\ window # NoWindow /\ unit.id \notin window.skipped
      /\ label.evidence.ids = {window.id}
  BY <1>1, <1>2, <1>3, NegativeRework
<1> HIDE DEF label
<1>5. PICK y \in past : /\ y.scan # {} /\ y.scan = {window.id}
                       /\ window.skipped = ScanOf(y.commits).data.skipped
  BY <1>4, WindowIsOfScan DEF window
<1>6. \A b \in past : (b.scan # {} /\ b.scan \subseteq {window.id}) => b.scan = y.scan
  BY <1>5
<1>7. QED
  BY <1>3, <1>4, <1>5, <1>6 DEF window, unit

\* A commit that the scan read, and that deleted as many lines as are
\* registered, left an event, and the label of what it reworked is not negative.
LEMMA ReworkIsHeard ==
  ASSUME IInv, ReworkWindow(events) # NoWindow,
         NEW y \in past, y.scan # {},
         NEW c \in Eligible(y.commits), NEW d \in Eligible(y.commits),
         ScannedBefore(c, d), commit[c].at < commit[d].at, InWindow(c, d),
         Cardinality(Hits(c, d)) >= MinLines, Cardinality(Hits(c, d)) > 0,
         ~(IgnoreSameAuthor /\ commit[c].author = commit[d].author)
  PROVE  ReworkVotes(UnitOf(c), Scoped(UnitOf(c), events), ReworkWindow(events)) # {}
<1> DEFINE unit == UnitOf(c)
           lines == Cardinality(Hits(c, d))
           e == ReworkEvent(c, d, lines)
<1>1. SourcesOK /\ y.commits \subseteq Candidates(Commits)
  BY DEF IInv, LogsOK, PastOK
<1>2. c \in Commits /\ d \in Commits /\ KindOf(c) = "git_commit"
  BY <1>1 DEF Eligible, Sized, Candidates, KindOf
<1>3. e \in events
  <2>1. <<c, d>> \in Reworked(y.commits)
    BY DEF Reworked
  <2>2. ReworkOf(<<c, d>>) \in ReworkLeft(y.commits)
    BY <2>1 DEF ReworkLeft
  <2>3. ReworkOf(<<c, d>>) = e
    BY DEF ReworkOf
  <2> HIDE DEF e
  <2>4. QED
    BY <2>2, <2>3 DEF IInv, LogsOK, Left
<1>4. /\ e.change = unit.id /\ e.occurred = commit[d].at /\ e.kind = "rework"
      /\ e.data.sound /\ e.data.linked = unit.id /\ e.data.weak /\ e.data.lines = lines
      /\ e.data.same_author = (commit[c].author = commit[d].author)
  BY <1>2 DEF ReworkEvent, EventOf, UnitOf
<1> HIDE DEF unit, e, lines
<1>5. e \in AfterLanding(unit, Scoped(unit, events))
  <2>1. e.occurred > commit[c].at
    BY <1>1, <1>2, <1>4, CommitsOK
  <2>2. QED
    BY <1>1, <1>2, <1>3, <1>4, <2>1, HeardLater DEF unit
<1>6. e.data.lines >= MinLines /\ (IgnoreSameAuthor => ~e.data.same_author)
  BY <1>4 DEF lines
<1>7. Vote("positive", "weak", e) \in ReworkVotes(unit, Scoped(unit, events), ReworkWindow(events))
  BY <1>4, <1>5, <1>6 DEF ReworkVotes, OfKind, Linked, Positive
<1>8. QED
  BY <1>7 DEF unit

LEMMA HitsCounted ==
  ASSUME SourcesOK, NEW c \in Commits, NEW d \in Commits
  PROVE  /\ Cardinality(Hits(c, d)) \in Nat
         /\ commit[c].size = "none" => Cardinality(Hits(c, d)) = 0
<1>1. Hits(c, d) \subseteq (DOMAIN commit[c].added) \X (DOMAIN commit[d].deleted)
  BY DEF Hits
<1>2. IsFiniteSet(Hits(c, d))
  BY <1>1, CommitsOK, FS_Product, FS_Subset
<1>3. ASSUME commit[c].size = "none"
      PROVE  Hits(c, d) = {}
  <2>1. DOMAIN commit[c].added = {}
    BY <1>3, CommitsOK
  <2>2. QED
    BY <1>1, <2>1
<1>4. QED
  BY <1>2, <1>3, FS_CardinalityType, FS_EmptySet

LEMMA UntouchedOnly ==
  ASSUME IInv, NEW c \in ReworkNegatives, c \in CoverageOf(Label(c, "rework")),
         NEW d \in Eligible(CoverageOf(Label(c, "rework"))),
         ScannedBefore(c, d), commit[c].at < commit[d].at, InWindow(c, d)
  PROVE  \/ Cardinality(Hits(c, d)) < MinLines
         \/ IgnoreSameAuthor /\ commit[c].author = commit[d].author
<1> DEFINE covered == CoverageOf(Label(c, "rework"))
           covering == {b \in past : b.scan # {} /\ b.scan \subseteq Label(c, "rework").evidence.ids}
           window == ReworkWindow(events)
<1>0. SourcesOK
  BY DEF IInv
<1>1. c \in Commits /\ KindOf(c) = "git_commit" /\ Label(c, "rework").label = "negative"
  BY DEF ReworkNegatives, Candidates, Landings, KindOf
<1>2. UnitOf(c).prediction \in Nat
  BY <1>0, <1>1, CommitsOK DEF UnitOf
<1>3. PICK y \in past :
        /\ y.scan # {} /\ UnitOf(c).id \notin ScanOf(y.commits).data.skipped
        /\ \A b \in covering : b.scan = y.scan
  BY <1>1, <1>2, CoveredByScan
<1>4. \A b \in covering : /\ Eligible(b.commits) = Eligible(y.commits)
                          /\ ScanOf(b.commits) = ScanOf(y.commits)
  BY <1>3, SameRead
<1>5. covered = UNION {b.commits : b \in covering}
  BY DEF CoverageOf
<1> HIDE DEF covered, covering
<1>6. \A k \in covered : \E b \in covering : k \in b.commits
  BY <1>5
<1>7. Eligible(covered) \subseteq Eligible(y.commits)
  <2>1. \A k \in Eligible(covered) : \E b \in covering : k \in Eligible(b.commits)
    BY <1>6 DEF Eligible, Sized, Candidates
  <2>2. QED
    BY <1>4, <2>1
<1>8. PICK b \in covering : c \in b.commits
  BY <1>6 DEF covered
<1>9. c \in Candidates(b.commits) /\ d \in Eligible(y.commits) /\ d \in Commits
  <2>1. c \in Candidates(b.commits)
    BY <1>8 DEF ReworkNegatives, Candidates
  <2>2. d \in Eligible(y.commits)
    BY <1>7 DEF covered
  <2>3. d \in Commits
    BY <1>3, <2>2 DEF IInv, LogsOK, PastOK, Eligible, Sized, Candidates
  <2>4. QED
    BY <2>1, <2>2, <2>3
<1>10. Cardinality(Hits(c, d)) \in Nat /\ MinLines \in Nat \ {0}
  BY <1>0, <1>1, <1>9, HitsCounted, OutcomesAssumption
<1>11. CASE commit[c].size = "text"
  <2>1. c \in Eligible(y.commits)
    BY <1>4, <1>8, <1>9, <1>11 DEF Eligible, Sized
  <2>2. ReworkVotes(UnitOf(c), Scoped(UnitOf(c), events), window) = {} /\ window # NoWindow
    BY <1>1, <1>2, CoveredByScan
  <2> HIDE DEF window
  <2>3. \/ Cardinality(Hits(c, d)) < MinLines
        \/ Cardinality(Hits(c, d)) >= MinLines /\ Cardinality(Hits(c, d)) > 0
    BY <1>10
  <2>4. QED
    BY <1>3, <1>9, <2>1, <2>2, <2>3, ReworkIsHeard DEF window
<1>12. CASE commit[c].size = "none"
  BY <1>0, <1>1, <1>9, <1>10, <1>12, HitsCounted
<1>13. commit[c].size # "large"
  <2> SUFFICES ASSUME commit[c].size = "large"
               PROVE  FALSE
    OBVIOUS
  <2>1. c \in Skipped(b.commits)
    BY <1>9 DEF Skipped, Sized
  <2>2. <<"git_commit", c>> \in ScanOf(b.commits).data.skipped
    BY <2>1 DEF ScanOf, ScanEvent, EventOf
  <2>3. UnitOf(c).id = <<"git_commit", c>>
    BY <1>1 DEF UnitOf
  <2>4. QED
    BY <1>3, <1>4, <1>8, <2>2, <2>3
<1>14. QED
  BY <1>0, <1>1, <1>11, <1>12, <1>13, CommitsOK

-----------------------------------------------------------------------------
(* What collectors find is what was found before. *)

\* Pull requests that ended, of which a collection could be made, checks and
\* commits that the service listed at any time.
Ended(s) ==
  {p \in UNION {s.github[i].pulls : i \in DOMAIN s.github} : HasContext(p)}

Checked(s) == UNION {s.github[i].checks : i \in DOMAIN s.github}

Logged(s) == UNION {s.github[i].log : i \in DOMAIN s.github}

GitKinds == {"commit", "revert", "horizon"}
ScanKinds == {"rework", "scan"}
ServiceKinds == {"pull-snapshot", "pull-final", "review", "check", "pull-revert"}
Kinds == GitKinds \cup ScanKinds \cup ServiceKinds \cup {"eventarchive"}

\* What a record of Git says, by its name.
ToldByGit(n, e) ==
  /\ n[1] = "commit" => e = CommitEvent(n[2])
  /\ n[1] = "revert" =>
       e = RevertOf(n[2], n[3], "git_commit") \/ e = RevertOf(n[2], n[3], KindOf(n[3]))
  /\ n[1] = "horizon" => e = HorizonEvent(n[2], n[3])
  /\ n[1] = "rework" => e = ReworkOf(<<n[3], n[2]>>)
  /\ n[1] = "scan" => e.kind = "git_rework_scan"

\* What a record of a pull request says: what the service said of it once.
ToldByService(s, n, e) ==
  /\ n[1] = "pull-snapshot" => \E p \in Ended(s) : n[2] = p.number /\ e = Snapshot(p)
  /\ n[1] = "pull-final" => \E p \in Ended(s) : n[2] = p.number /\ e = Final(p)
  /\ n[1] = "review" =>
       \E p \in Ended(s) : \E r \in p.reviews : n[2] = r.id /\ e = ReviewEvent(p, r)
  /\ n[1] = "check" =>
       \E p \in Ended(s), c \in Checked(s) : n = CheckName(p, c) /\ e = CheckEvent(p, c)
  /\ n[1] = "pull-revert" =>
       \E c \in Logged(s) : n[2] = c.sha /\ e = RevertOfChange(c, e.change)

Told(s, n, e) == e.id = IdOf(n) /\ ToldByGit(n, e) /\ ToldByService(s, n, e)

IsTold(s, kinds, e) == \E n \in Names(s) : n[1] \in kinds /\ Told(s, n, e)

\* Every event that is recorded, or about to be, has a name, and says what its
\* name lets it say.
Found == events \cup UNION {batch.events : batch \in UNION {plan[p] : p \in Process}}

EventsTold ==
  \E s \in Scenario : SourcesAre(s) /\ \A e \in Found : IsTold(s, Kinds, e)

\* Two records of one name are one, but for what the name does not settle: the
\* unit of a reverted merge, what a scan covered, how a pull request ended, and
\* the change of a commit that several pull requests list.
SameButFor(n, e, f) ==
  \/ e = f
  \/ n[1] = "revert" /\ e.kind = "revert" /\ IsMerge(e.data.reverted)
  \/ n[1] = "scan" /\ e.kind = "git_rework_scan"
  \/ n[1] = "pull-final" /\ e.kind \in {"change_closed", "change_merged"} /\ e.occurred # f.occurred
  \/ n[1] = "pull-revert" /\ e.kind = "revert" /\ e.change # f.change
  \/ n[1] = "eventarchive"

LEMMA EndedAgree ==
  ASSUME NEW s \in Scenario, NEW p \in Ended(s), NEW q \in Ended(s), p.number = q.number
  PROVE  /\ p.created = q.created /\ p.author = q.author /\ p.commits[1] = q.commits[1]
         /\ FinalizedAt(p) = FinalizedAt(q) => p.merged = q.merged /\ p.commits = q.commits
<1>1. PICK i \in DOMAIN s.github : p \in s.github[i].pulls
  BY DEF Ended
<1>2. PICK j \in DOMAIN s.github : q \in s.github[j].pulls
  BY DEF Ended
<1>3. HasContext(p) /\ HasContext(q)
  BY DEF Ended
<1>4. QED
  BY <1>1, <1>2, <1>3, ServiceAssumption

LEMMA ReviewsAgree ==
  ASSUME NEW s \in Scenario, NEW p \in Ended(s), NEW q \in Ended(s),
         NEW r \in p.reviews, NEW t \in q.reviews, r.id = t.id
  PROVE  p.number = q.number /\ r.at = t.at /\ r.reviewer = t.reviewer
<1>1. PICK i \in DOMAIN s.github : p \in s.github[i].pulls
  BY DEF Ended
<1>2. PICK j \in DOMAIN s.github : q \in s.github[j].pulls
  BY DEF Ended
<1>3. QED
  BY <1>1, <1>2, ServiceAssumption

LEMMA LoggedAgree ==
  ASSUME NEW s \in Scenario, NEW c \in Logged(s), NEW d \in Logged(s), c.sha = d.sha
  PROVE  c = d
<1>1. PICK i \in DOMAIN s.github : c \in s.github[i].log
  BY DEF Logged
<1>2. PICK j \in DOMAIN s.github : d \in s.github[j].log
  BY DEF Logged
<1>3. QED
  BY <1>1, <1>2, ServiceAssumption

LEMMA SamePull ==
  ASSUME NEW s \in Scenario, NEW n, NEW e, NEW f,
         ToldByService(s, n, e), ToldByService(s, n, f), n[1] \in ServiceKinds
  PROVE  SameButFor(n, e, f)
<1>1. CASE n[1] = "pull-snapshot"
  <2>1. PICK p \in Ended(s) : n[2] = p.number /\ e = Snapshot(p)
    BY <1>1 DEF ToldByService
  <2>2. PICK q \in Ended(s) : n[2] = q.number /\ f = Snapshot(q)
    BY <1>1 DEF ToldByService
  <2>3. p.number = q.number /\ p.created = q.created /\ p.commits[1] = q.commits[1]
    <3>1. p.number = q.number
      BY ONLY <2>1, <2>2
    <3>2. QED
      BY ONLY <3>1, EndedAgree, s \in Scenario, p \in Ended(s), q \in Ended(s)
  <2>4. Snapshot(p) = Snapshot(q)
    BY <2>3 DEF Snapshot, ChangeOf
  <2>5. QED
    BY <2>1, <2>2, <2>4 DEF SameButFor
<1>2. CASE n[1] = "pull-final"
  <2>1. PICK p \in Ended(s) : n[2] = p.number /\ e = Final(p)
    BY <1>2 DEF ToldByService
  <2>2. PICK q \in Ended(s) : n[2] = q.number /\ f = Final(q)
    BY <1>2 DEF ToldByService
  <2>3. /\ e.kind \in {"change_closed", "change_merged"}
        /\ e.occurred = FinalizedAt(p) /\ f.occurred = FinalizedAt(q)
    BY <2>1, <2>2 DEF Final, EventOf
  <2>4. CASE FinalizedAt(p) # FinalizedAt(q)
    BY <1>2, <2>3, <2>4 DEF SameButFor
  <2>5. CASE FinalizedAt(p) = FinalizedAt(q)
    <3>1. p.number = q.number /\ p.merged = q.merged /\ p.commits = q.commits
      <4>1. p.number = q.number
        BY ONLY <2>1, <2>2
      <4>2. QED
        BY ONLY <4>1, <2>5, EndedAgree, s \in Scenario, p \in Ended(s), q \in Ended(s)
    <3>2. Final(p) = Final(q)
      BY <2>5, <3>1 DEF Final, ChangeOf
    <3>3. QED
      BY <2>1, <2>2, <3>2 DEF SameButFor
  <2>6. QED
    BY <2>4, <2>5
<1>3. CASE n[1] = "review"
  <2>1. PICK p \in Ended(s) : \E r \in p.reviews : n[2] = r.id /\ e = ReviewEvent(p, r)
    BY <1>3 DEF ToldByService
  <2>2. PICK r \in p.reviews : n[2] = r.id /\ e = ReviewEvent(p, r)
    BY <2>1
  <2>3. PICK q \in Ended(s) : \E t \in q.reviews : n[2] = t.id /\ f = ReviewEvent(q, t)
    BY <1>3 DEF ToldByService
  <2>4. PICK t \in q.reviews : n[2] = t.id /\ f = ReviewEvent(q, t)
    BY <2>3
  <2>5. p.number = q.number /\ r.at = t.at /\ r.reviewer = t.reviewer
    <3>1. r.id = t.id
      BY ONLY <2>2, <2>4
    <3>2. QED
      BY ONLY <3>1, ReviewsAgree, s \in Scenario, p \in Ended(s), q \in Ended(s),
              r \in p.reviews, t \in q.reviews
  <2>6. p.author = q.author
    BY ONLY <2>5, EndedAgree, s \in Scenario, p \in Ended(s), q \in Ended(s)
  <2>7. ReviewEvent(p, r) = ReviewEvent(q, t)
    BY <2>2, <2>4, <2>5, <2>6 DEF ReviewEvent, ChangeOf
  <2>8. QED
    BY <2>2, <2>4, <2>7 DEF SameButFor
<1>4. CASE n[1] = "check"
  <2>1. PICK p \in Ended(s), c \in Checked(s) : n = CheckName(p, c) /\ e = CheckEvent(p, c)
    BY <1>4 DEF ToldByService
  <2>2. PICK q \in Ended(s), d \in Checked(s) : n = CheckName(q, d) /\ f = CheckEvent(q, d)
    BY <1>4 DEF ToldByService
  <2>3. CheckName(p, c) = CheckName(q, d)
    BY <2>1, <2>2
  <2>4. /\ p.number = q.number /\ c.name = d.name /\ c.conclusion = d.conclusion
        /\ c.at = d.at /\ c.sha = d.sha /\ (c.sha = p.merge) = (d.sha = q.merge)
    BY <2>3 DEF CheckName
  <2>5. CheckEvent(p, c) = CheckEvent(q, d)
    BY <2>3, <2>4 DEF CheckEvent, ChangeOf
  <2>6. QED
    BY <2>1, <2>2, <2>5 DEF SameButFor
<1>5. CASE n[1] = "pull-revert"
  <2>1. PICK c \in Logged(s) : n[2] = c.sha /\ e = RevertOfChange(c, e.change)
    BY <1>5 DEF ToldByService
  <2>2. PICK d \in Logged(s) : n[2] = d.sha /\ f = RevertOfChange(d, f.change)
    BY <1>5 DEF ToldByService
  <2>3. c = d
    <3>1. c.sha = d.sha
      BY ONLY <2>1, <2>2
    <3>2. QED
      BY ONLY <3>1, LoggedAgree, s \in Scenario, c \in Logged(s), d \in Logged(s)
  <2>4. e.kind = "revert"
    BY <2>1 DEF RevertOfChange, EventOf
  <2>5. e.change = f.change => e = f
    BY <2>1, <2>2, <2>3
  <2>6. QED
    BY <1>5, <2>4, <2>5 DEF SameButFor
<1>6. QED
  BY <1>1, <1>2, <1>3, <1>4, <1>5 DEF ServiceKinds

LEMMA SameHistory ==
  ASSUME NEW n, NEW e, NEW f, ToldByGit(n, e), ToldByGit(n, f), n[1] \in GitKinds \cup ScanKinds
  PROVE  SameButFor(n, e, f)
<1>1. CASE n[1] = "revert"
  <2>1. CASE IsMerge(n[3])
    <3>1. \A kind : /\ RevertOf(n[2], n[3], kind).kind = "revert"
                   /\ RevertOf(n[2], n[3], kind).data.reverted = n[3]
      BY DEF RevertOf, EventOf
    <3>2. e.kind = "revert" /\ e.data.reverted = n[3]
      BY <1>1, <3>1 DEF ToldByGit
    <3>3. QED
      BY <1>1, <2>1, <3>2 DEF SameButFor
  <2>2. CASE ~IsMerge(n[3])
    <3>1. KindOf(n[3]) = "git_commit"
      BY <2>2 DEF KindOf
    <3>2. e = f
      BY <1>1, <3>1 DEF ToldByGit
    <3>3. QED
      BY <3>2 DEF SameButFor
  <2>3. QED
    BY <2>1, <2>2
<1>2. CASE n[1] # "revert"
  BY <1>2 DEF ToldByGit, SameButFor, GitKinds, ScanKinds
<1>3. QED
  BY <1>1, <1>2

LEMMA KindOfName ==
  ASSUME NEW s, NEW n \in Names(s)
  PROVE  n[1] \in Kinds
<1>1. CASE n \in GitNames(s)
  BY <1>1 DEF GitNames, Kinds, GitKinds, ScanKinds
<1>2. CASE n \in ArchiveNames(s)
  BY <1>2 DEF ArchiveNames, Kinds
<1>3. ASSUME NEW i \in DOMAIN s.github, n \in ServiceNames(s.github[i])
      PROVE  n[1] \in ServiceKinds
  BY <1>3 DEF ServiceNames, ServiceKinds, CheckName
<1>4. QED
  BY <1>1, <1>2, <1>3 DEF Names, Kinds

\* Two records with one id are one, but for what their name does not settle.
LEMMA OneRecord ==
  ASSUME NEW s \in Scenario, NEW kinds, NEW e, NEW f,
         IsTold(s, Kinds, e), IsTold(s, kinds, f), e.id = f.id
  PROVE  \E n \in Names(s) : n[1] \in kinds /\ SameButFor(n, e, f)
<1>1. PICK n \in Names(s) : Told(s, n, e)
  BY DEF IsTold
<1>2. PICK m \in Names(s) : m[1] \in kinds /\ Told(s, m, f)
  BY DEF IsTold
<1>3. n = m
  BY <1>1, <1>2, NamesAssumption DEF Told, HaveDistinctIds
<1>4. SameButFor(n, e, f)
  <2>1. CASE n[1] \in ServiceKinds
    BY <1>1, <1>2, <1>3, <2>1, SamePull DEF Told
  <2>2. CASE n[1] \in GitKinds \cup ScanKinds
    BY <1>1, <1>2, <1>3, <2>2, SameHistory DEF Told
  <2>3. CASE n[1] = "eventarchive"
    BY <2>3 DEF SameButFor
  <2>4. QED
    BY <2>1, <2>2, <2>3, KindOfName DEF Kinds
<1>5. QED
  BY <1>2, <1>3, <1>4

\* What Git says of a name depends on the repository's commits alone.
LEMMA ToldStays ==
  ASSUME commit' = commit, NEW s, NEW kinds, NEW e, IsTold(s, kinds, e)
  PROVE  IsTold(s, kinds, e)'
<1>1. PICK n \in Names(s) : n[1] \in kinds /\ Told(s, n, e)
  BY DEF IsTold
<1>2. \A c : (IsMerge(c)' <=> IsMerge(c)) /\ KindOf(c)' = KindOf(c)
  BY DEF IsMerge, KindOf
<1>3. \A c : CommitEvent(c)' = CommitEvent(c)
  BY <1>2 DEF CommitEvent
<1>4. \A c, d, kind : RevertOf(c, d, kind)' = RevertOf(c, d, kind)
  BY DEF RevertOf
<1>5. \A p : ReworkOf(p)' = ReworkOf(p)
  BY DEF ReworkOf, ReworkEvent, Hits
<1>6. ToldByGit(n, e)' <=> ToldByGit(n, e)
  BY <1>2, <1>3, <1>4, <1>5 DEF ToldByGit
<1>7. QED
  BY <1>1, <1>6 DEF IsTold, Told

LEMMA CommitsNamed ==
  ASSUME NEW s, SourcesAre(s), NEW c \in Commits, NEW d \in Commits
  PROVE  /\ <<"commit", c>> \in Names(s)
         /\ <<"revert", c, d>> \in Names(s) /\ <<"rework", c, d>> \in Names(s)
         /\ <<"horizon", c, commit[d].at>> \in Names(s)
         /\ \A skipped \in SUBSET Commits : <<"scan", commit[c].at, skipped>> \in Names(s)
<1>1. commit = s.commit /\ c \in DOMAIN s.commit /\ d \in DOMAIN s.commit
  BY DEF SourcesAre, Commits
<1>2. commit[d].at \in {s.commit[x].at : x \in DOMAIN s.commit}
  BY <1>1
<1>3. commit[c].at \in {s.commit[x].at : x \in DOMAIN s.commit}
  BY <1>1
<1>4. QED
  BY <1>1, <1>2, <1>3 DEF Names, GitNames, Commits

LEMMA CollectionTold ==
  ASSUME NEW s \in Scenario, SourcesAre(s), NEW tip \in Commits, NEW after, NEW max
  PROVE  \A e \in Collection(tip, after, max).events : IsTold(s, GitKinds, e)
<1> DEFINE retained == Newest(Selected(tip, after), max)
           reverts == {p \in retained \X Commits : p[2] \in commit[p[1]].reverts \ {p[1]}}
           horizon == IF retained = {} THEN {} ELSE {HorizonEvent(tip, NewestAt(retained))}
<1>0. SourcesOK
  BY DEF SourcesOK
<1>1. Collection(tip, after, max).events
        = {CommitEvent(c) : c \in retained}
            \cup {RevertEvent(p[1], p[2], retained) : p \in reverts} \cup horizon
  BY DEF Collection
<1>2. retained \subseteq Commits
  BY DEF Newest, Selected
<1> HIDE DEF retained
<1>3. ASSUME NEW c \in retained
      PROVE  IsTold(s, GitKinds, CommitEvent(c))
  <2>1. <<"commit", c>> \in Names(s)
    BY <1>2, CommitsNamed
  <2>2. CommitEvent(c).id = IdOf(<<"commit", c>>)
    BY DEF CommitEvent, EventOf, CommitId
  <2>3. Told(s, <<"commit", c>>, CommitEvent(c))
    BY <2>2 DEF Told, ToldByGit, ToldByService
  <2>4. QED
    BY <2>1, <2>3 DEF IsTold, GitKinds
<1>4. ASSUME NEW c \in retained, NEW d \in Commits
      PROVE  IsTold(s, GitKinds, RevertEvent(c, d, retained))
  <2>1. <<"revert", c, d>> \in Names(s)
    BY <1>2, CommitsNamed
  <2>2. \A kind : RevertOf(c, d, kind).id = IdOf(<<"revert", c, d>>)
    BY DEF RevertOf, EventOf
  <2>3. \/ RevertEvent(c, d, retained) = RevertOf(c, d, "git_commit")
        \/ RevertEvent(c, d, retained) = RevertOf(c, d, KindOf(d))
    BY DEF RevertEvent
  <2>4. Told(s, <<"revert", c, d>>, RevertEvent(c, d, retained))
    BY <2>2, <2>3 DEF Told, ToldByGit, ToldByService
  <2>5. QED
    BY <2>1, <2>4 DEF IsTold, GitKinds
<1>5. ASSUME retained # {}
      PROVE  IsTold(s, GitKinds, HorizonEvent(tip, NewestAt(retained)))
  <2>1. PICK c \in retained : NewestAt(retained) = commit[c].at
    BY <1>0, <1>2, <1>5, NewestTime
  <2>2. <<"horizon", tip, NewestAt(retained)>> \in Names(s)
    BY <1>2, <2>1, CommitsNamed
  <2>3. HorizonEvent(tip, NewestAt(retained)).id = IdOf(<<"horizon", tip, NewestAt(retained)>>)
    BY DEF HorizonEvent, HorizonOf, EventOf
  <2>4. Told(s, <<"horizon", tip, NewestAt(retained)>>, HorizonEvent(tip, NewestAt(retained)))
    BY <2>3 DEF Told, ToldByGit, ToldByService
  <2>5. QED
    BY <2>2, <2>4 DEF IsTold, GitKinds
<1>6. QED
  BY <1>1, <1>3, <1>4, <1>5

LEMMA ScanTold ==
  ASSUME NEW s \in Scenario, SourcesAre(s), Candidates(Landings) # {}
  PROVE  \A e \in Scan(Landings).events : IsTold(s, ScanKinds, e)
<1> DEFINE scan == ScanEvent(Landings, Skipped(Landings))
<1>0. SourcesOK
  BY DEF SourcesOK
<1>1. Scan(Landings).events = ReworkLeft(Landings) \cup {scan}
  BY DEF Scan, ReworkLeft, Reworked, ReworkOf, ReworkedLines
<1>2. /\ Candidates(Landings) \subseteq Commits /\ Eligible(Landings) \subseteq Commits
      /\ Skipped(Landings) \subseteq Commits
  BY DEF Candidates, Landings, Eligible, Skipped, Sized
<1>3. ASSUME NEW p \in Eligible(Landings) \X Eligible(Landings)
      PROVE  IsTold(s, ScanKinds, ReworkOf(p))
  <2>1. PICK c \in Commits, d \in Commits : p = <<c, d>>
    BY <1>2
  <2>2. <<"rework", d, c>> \in Names(s)
    BY CommitsNamed
  <2>3. ReworkOf(p).id = IdOf(<<"rework", d, c>>)
    BY <2>1 DEF ReworkOf, ReworkEvent, EventOf
  <2>4. Told(s, <<"rework", d, c>>, ReworkOf(p))
    BY <2>1, <2>3 DEF Told, ToldByGit, ToldByService
  <2>5. QED
    BY <2>2, <2>4 DEF IsTold, ScanKinds
<1>4. IsTold(s, ScanKinds, scan)
  <2> DEFINE name == <<"scan", NewestAt(Candidates(Landings)), Skipped(Landings)>>
  <2>1. PICK c \in Candidates(Landings) : NewestAt(Candidates(Landings)) = commit[c].at
    BY <1>0, <1>2, NewestTime
  <2>2. name \in Names(s)
    BY <1>2, <2>1, CommitsNamed
  <2>3. scan.id = IdOf(name) /\ scan.kind = "git_rework_scan"
    BY DEF ScanEvent, EventOf
  <2>4. Told(s, name, scan)
    <3> HIDE DEF scan
    <3> QED
      BY <2>3 DEF Told, ToldByGit, ToldByService
  <2>5. QED
    BY <2>2, <2>4 DEF IsTold, ScanKinds
<1>5. QED
  BY <1>1, <1>3, <1>4 DEF ReworkLeft, Reworked

LEMMA GitHubTold ==
  ASSUME NEW s \in Scenario, NEW i \in DOMAIN s.github, NEW since, NEW until, NEW limit
  PROVE  \A e \in GitHubCollection(s.github[i], since, until, limit).events :
           IsTold(s, ServiceKinds, e)
<1> DEFINE state == s.github[i]
           pulls == Assembled(state, since, until, limit)
<1>1. GitHubCollection(state, since, until, limit).events
        = (UNION {PullEvents(p, state, until, limit) : p \in pulls})
            \cup PullReverts(state, pulls, since, until, limit.log)
  BY DEF GitHubCollection
<1>2. ServiceNames(state) \subseteq Names(s)
  BY DEF Names
<1>3. /\ \A p \in pulls : p \in state.pulls /\ p \in Ended(s)
      /\ \A c \in state.checks : c \in Checked(s)
      /\ \A c \in state.log : c \in Logged(s)
  BY DEF Assembled, Considered, Listed, Ended, Checked, Logged
<1> HIDE DEF pulls, state
<1>4. ASSUME NEW p \in pulls
      PROVE  IsTold(s, ServiceKinds, Snapshot(p)) /\ IsTold(s, ServiceKinds, Final(p))
  <2>1. /\ <<"pull-snapshot", p.number>> \in Names(s)
        /\ <<"pull-final", p.number>> \in Names(s)
    BY <1>2, <1>3 DEF ServiceNames
  <2>2. /\ Snapshot(p).id = IdOf(<<"pull-snapshot", p.number>>)
        /\ Final(p).id = IdOf(<<"pull-final", p.number>>)
    BY DEF Snapshot, Final, EventOf
  <2>3. /\ Told(s, <<"pull-snapshot", p.number>>, Snapshot(p))
        /\ Told(s, <<"pull-final", p.number>>, Final(p))
    BY <1>3, <2>2 DEF Told, ToldByGit, ToldByService
  <2>4. QED
    BY <2>1, <2>3 DEF IsTold, ServiceKinds
<1>5. ASSUME NEW p \in pulls, NEW r \in p.reviews
      PROVE  IsTold(s, ServiceKinds, ReviewEvent(p, r))
  <2>1. <<"review", r.id>> \in Names(s)
    BY <1>2, <1>3 DEF ServiceNames
  <2>2. ReviewEvent(p, r).id = IdOf(<<"review", r.id>>)
    BY DEF ReviewEvent, EventOf
  <2>3. Told(s, <<"review", r.id>>, ReviewEvent(p, r))
    BY <1>3, <2>2 DEF Told, ToldByGit, ToldByService
  <2>4. QED
    BY <2>1, <2>3 DEF IsTold, ServiceKinds
<1>6. ASSUME NEW p \in pulls, NEW c \in state.checks
      PROVE  IsTold(s, ServiceKinds, CheckEvent(p, c))
  <2>1. CheckName(p, c) \in Names(s) /\ CheckName(p, c)[1] = "check"
    BY <1>2, <1>3 DEF ServiceNames, CheckName
  <2>2. CheckEvent(p, c).id = IdOf(CheckName(p, c))
    BY DEF CheckEvent, EventOf
  <2>3. Told(s, CheckName(p, c), CheckEvent(p, c))
    BY <1>3, <2>1, <2>2 DEF Told, ToldByGit, ToldByService
  <2>4. QED
    BY <2>1, <2>3 DEF IsTold, ServiceKinds
<1>7. ASSUME NEW c \in state.log, NEW change
      PROVE  IsTold(s, ServiceKinds, RevertOfChange(c, change))
  <2>1. <<"pull-revert", c.sha>> \in Names(s)
    BY <1>2, <1>3 DEF ServiceNames
  <2>2. /\ RevertOfChange(c, change).id = IdOf(<<"pull-revert", c.sha>>)
        /\ RevertOfChange(c, change).change = change
    BY DEF RevertOfChange, EventOf
  <2>3. Told(s, <<"pull-revert", c.sha>>, RevertOfChange(c, change))
    BY <1>3, <2>2 DEF Told, ToldByGit, ToldByService
  <2>4. QED
    BY <2>1, <2>3 DEF IsTold, ServiceKinds
<1>8. \A p \in pulls : \A e \in PullEvents(p, state, until, limit) : IsTold(s, ServiceKinds, e)
  BY <1>4, <1>5, <1>6 DEF PullEvents
<1>9. \A e \in PullReverts(state, pulls, since, until, limit.log) : IsTold(s, ServiceKinds, e)
  <2> DEFINE inTime == {c \in state.log : /\ c.at <= until
                                          /\ since # NoSince => c.at >= since}
             read == NewestCommits(inTime, limit.log)
             listed == read \X (UNION {Range(p.commits) : p \in pulls})
             Change(a) == ChangeOf(PullOfCommit(pulls, a[2]))
  <2>1. PICK S \in SUBSET listed :
          PullReverts(state, pulls, since, until, limit.log) = {RevertOfChange(a[1], Change(a)) : a \in S}
    <3> DEFINE S == {x \in {a \in listed : a[1].reverts = {a[2]}} :
                      x[1].at > FinalizedAt(PullOfCommit(pulls, x[2]))}
    <3>1. PullReverts(state, pulls, since, until, limit.log) = {RevertOfChange(a[1], Change(a)) : a \in S}
      BY Zenon DEF PullReverts
    <3>2. S \in SUBSET listed
      OBVIOUS
    <3> HIDE DEF S, listed, Change
    <3>3. QED
      BY <3>1, <3>2
  <2>2. \A a \in listed : a[1] \in state.log
    BY DEF NewestCommits
  <2> HIDE DEF listed, Change
  <2>3. QED
    BY <1>7, <2>1, <2>2
<1>10. QED
  BY <1>1, <1>8, <1>9 DEF pulls, state

LEMMA ArchiveTold ==
  ASSUME NEW s \in Scenario, SourcesAre(s), NEW read \in SUBSET rows, NEW manifest
  PROVE  \A e \in ArchiveCollection(read, manifest).events : IsTold(s, {"eventarchive"}, e)
<1>0. SourcesOK /\ rows = s.rows
  BY DEF SourcesOK, SourcesAre
<1>1. ASSUME NEW kind \in {"snapshot", "review", "final"}, NEW r \in rows, NEW e,
             e.id = ArchiveId(kind, r)
      PROVE  IsTold(s, {"eventarchive"}, e)
  <2>1. <<"eventarchive", kind, r.id>> \in Names(s)
    BY <1>0 DEF Names, ArchiveNames
  <2>2. Told(s, <<"eventarchive", kind, r.id>>, e)
    BY <1>1 DEF Told, ToldByGit, ToldByService, ArchiveId
  <2>3. QED
    BY <2>1, <2>2 DEF IsTold
<1>2. ASSUME NEW r \in rows, NEW e, e.id = OutcomeId(r.number)
      PROVE  IsTold(s, {"eventarchive"}, e)
  <2>1. <<"eventarchive", "outcome", r.number>> \in Names(s)
    BY <1>0 DEF Names, ArchiveNames
  <2>2. Told(s, <<"eventarchive", "outcome", r.number>>, e)
    BY <1>2 DEF Told, ToldByGit, ToldByService, OutcomeId
  <2>3. QED
    BY <2>1, <2>2 DEF IsTold
<1>3. ASSUME NEW n \in OpenedPulls(read), NEW e \in ArchivedPull(PullRows(n, read), manifest)
      PROVE  IsTold(s, {"eventarchive"}, e)
  <2>1. PICK pull : pull = PullRows(n, read)
    OBVIOUS
  <2> DEFINE opening == Opening(pull)
  <2>3. opening \in rows
    <3>1. Typed(pull, "opened") # {} /\ Typed(pull, "opened") \in SUBSET rows
      BY <2>1 DEF OpenedPulls, PullRows, Typed
    <3>2. QED
      BY <1>0, <3>1, OldestExists DEF Opening
  <2>4. Merges(pull) \subseteq rows /\ EligibleReviews(pull) \subseteq rows
    BY <2>1 DEF Merges, EligibleReviews, Typed, PullRows
  <2>5. \A id, kind, row, group, data : ArchiveEvent(id, kind, row, group, data).id = id
    BY DEF ArchiveEvent, EventOf
  <2>6. \/ e.id = ArchiveId("snapshot", opening)
        \/ \E r \in EligibleReviews(pull) : e.id = ArchiveId("review", r)
        \/ \E r \in Merges(pull) : e.id = ArchiveId("final", r)
        \/ e.id = OutcomeId(opening.number)
    <3>1. CASE e \in MergeEvents(pull, manifest)
      <4> DEFINE Merged(r) == ArchiveEvent(ArchiveId("final", r), "change_merged", r, r.number,
                                [head |-> r.head, manifest |-> manifest, sound |-> TRUE])
                 ends == {x \in Merges(pull) : x = OldestRow(Merges(pull))}
      <4>1. MergeEvents(pull, manifest) = {Merged(r) : r \in ends}
        BY DEF MergeEvents
      <4>2. \A r : Merged(r).id = ArchiveId("final", r)
        BY <2>5
      <4>3. ends \subseteq Merges(pull)
        OBVIOUS
      <4> HIDE DEF Merged, ends
      <4>4. QED
        BY <3>1, <4>1, <4>2, <4>3
    <3>2. CASE e \notin MergeEvents(pull, manifest)
      <4> DEFINE opened == ArchiveEvent(ArchiveId("snapshot", opening), "change_snapshot", opening,
                             opening.number,
                             [head |-> opening.head, manifest |-> manifest, sound |-> TRUE])
                 Review(r) == ArchiveEvent(ArchiveId("review", r), "review", r, r.actor,
                                [decision |-> r.state, category |-> "unspecified",
                                 independent |-> r.actor # opening.actor,
                                 manifest |-> manifest, sound |-> TRUE])
                 outcome == ArchiveEvent(OutcomeId(opening.number), "change_finalized",
                              OldestRow(Merges(pull)), 10000,
                              [target |-> "review", value |-> "negative", complete |-> TRUE,
                               strength |-> "strong", manifest |-> manifest, sound |-> TRUE])
      <4>1. ArchivedPull(pull, manifest)
              = {opened} \cup {Review(r) : r \in EligibleReviews(pull)}
                  \cup MergeEvents(pull, manifest)
                  \cup (IF NegativeReview(pull, manifest.missing) THEN {outcome} ELSE {})
        BY DEF ArchivedPull
      <4>2. /\ opened.id = ArchiveId("snapshot", opening)
            /\ \A r : Review(r).id = ArchiveId("review", r)
            /\ outcome.id = OutcomeId(opening.number)
        BY <2>5
      <4> HIDE DEF opened, Review, outcome
      <4>3. QED
        BY <1>3, <2>1, <3>2, <4>1, <4>2
    <3>3. QED
      BY <3>1, <3>2
  <2> HIDE DEF opening
  <2>7. QED
    BY <1>1, <1>2, <2>3, <2>4, <2>6
<1>4. QED
  BY <1>3 DEF ArchiveCollection

LEMMA ToldStep ==
  ASSUME NEW s \in Scenario, SourcesAre(s), \A e \in Found : IsTold(s, Kinds, e),
         commit' = commit, rows' = rows,
         github' = github \/ (Len(github) > 1 /\ github' = Tail(github)),
         NEW more, Found' \subseteq Found \cup more,
         NEW kinds \in SUBSET Kinds, \A e \in more : IsTold(s, kinds, e)
  PROVE  EventsTold'
<1>1. SourcesAre(s)'
  BY ScenarioKept
<1>2. \A e \in more : IsTold(s, Kinds, e)
  BY DEF IsTold
<1>3. \A e \in Found' : IsTold(s, Kinds, e)
  BY <1>2
<1>4. Kinds' = Kinds
  BY DEF Kinds, GitKinds, ScanKinds, ServiceKinds
<1>5. ASSUME NEW e \in Found'
      PROVE  IsTold(s, Kinds, e)'
  BY <1>3, <1>5, ToldStays
<1>6. QED
  BY <1>1, <1>5 DEF EventsTold

LEMMA InitTold == Init => EventsTold
<1> SUFFICES ASSUME Init
             PROVE  EventsTold
  OBVIOUS
<1>1. SourcesOK
  BY InitIInv DEF IInv
<1>2. Found = {}
  BY DEF Init, Found
<1>3. QED
  BY <1>1, <1>2 DEF SourcesOK, EventsTold

LEMMA NextTold == IInv /\ EventsTold /\ [Next]_vars => EventsTold'
<1> SUFFICES ASSUME IInv, EventsTold, [Next]_vars
             PROVE  EventsTold'
  OBVIOUS
<1>0. PICK s \in Scenario : SourcesAre(s) /\ \A e \in Found : IsTold(s, Kinds, e)
  BY DEF EventsTold
<1>1. DOMAIN plan = Process
  BY DEF IInv, PlansOK
<1>2. ASSUME NEW p \in Process, NEW batch, Plans(p, batch), NEW kinds \in SUBSET Kinds,
             \A e \in batch.events : IsTold(s, kinds, e)
      PROVE  EventsTold'
  <2>1. /\ commit' = commit /\ rows' = rows /\ github' = github /\ events' = events
        /\ plan' = [plan EXCEPT ![p] = {batch}]
    BY <1>2 DEF Plans, sources, archiveVars
  <2>2. Found' \subseteq Found \cup batch.events
    BY <1>1, <2>1 DEF Found
  <2>3. QED
    BY <1>0, <1>2, <2>1, <2>2, ToldStep
<1>3. ASSUME commit' = commit, rows' = rows,
             github' = github \/ (Len(github) > 1 /\ github' = Tail(github)),
             Found' \subseteq Found
      PROVE  EventsTold'
  <2>1. Found' \subseteq Found \cup {} /\ {} \in SUBSET Kinds
    BY <1>3
  <2>2. QED
    BY <1>0, <1>3, <2>1, ToldStep
<1>4. ASSUME NEW p \in Process, NEW tip \in Commits, NEW after, NEW max,
             Bootstrap(p, tip, after, max)
      PROVE  EventsTold'
  <2>1. Plans(p, Collection(tip, after, max))
    BY <1>4 DEF Bootstrap
  <2>2. QED
    BY <1>0, <1>2, <2>1, CollectionTold DEF Kinds
<1>5. ASSUME NEW p \in Process, ScanRework(p)
      PROVE  EventsTold'
  <2>1. Plans(p, Scan(Landings)) /\ Candidates(Landings) # {}
    BY <1>5 DEF ScanRework
  <2>2. QED
    BY <1>0, <1>2, <2>1, ScanTold DEF Kinds
<1>6. ASSUME NEW p \in Process, NEW since, NEW until, NEW limit,
             ImportGithub(p, since, until, limit)
      PROVE  EventsTold'
  <2> DEFINE found == GitHubCollection(github[1], since, until, limit)
  <2>1. github # <<>> /\ Plans(p, FromProvider(found))
    BY <1>6 DEF ImportGithub
  <2>2. PICK i \in DOMAIN s.github : github[1] = s.github[i]
    BY <1>0, <2>1, ServiceAnswers
  <2>3. \A e \in found.events : IsTold(s, ServiceKinds, e)
    BY <1>0, <2>2, GitHubTold
  <2>4. FromProvider(found).events = found.events
    BY DEF FromProvider
  <2> HIDE DEF found
  <2>5. QED
    BY <1>2, <2>1, <2>3, <2>4 DEF Kinds
<1>7. ASSUME NEW p \in Process, ImportArchive(p)
      PROVE  EventsTold'
  <2>1. PICK read \in disk.rows, manifest \in disk.manifest :
          Normalizable(read, manifest) /\ Plans(p, FromProvider(ArchiveCollection(read, manifest)))
    BY <1>7 DEF ImportArchive
  <2> DEFINE found == ArchiveCollection(read, manifest)
  <2>2. read \in SUBSET rows
    BY <2>1 DEF IInv, ExportOK, Faithful, Normalizable, LoadsRows
  <2>3. \A e \in found.events : IsTold(s, {"eventarchive"}, e)
    BY <1>0, <2>2, ArchiveTold
  <2>4. FromProvider(found).events = found.events
    BY DEF FromProvider
  <2> HIDE DEF found
  <2>5. Plans(p, FromProvider(found))
    BY <2>1 DEF found
  <2>6. QED
    BY <1>2, <2>3, <2>4, <2>5 DEF Kinds
<1>8. ASSUME NEW p \in Process, Upsert(p)
      PROVE  EventsTold'
  <2>1. PICK batch \in plan[p] :
          /\ events' = events \cup batch.events /\ plan' = [plan EXCEPT ![p] = {}]
          /\ commit' = commit /\ rows' = rows /\ github' = github
    BY <1>8 DEF Upsert, sources, archiveVars
  <2>2. Found' \subseteq Found
    BY <1>1, <2>1 DEF Found
  <2>3. QED
    BY <1>3, <2>1, <2>2
<1>9. ASSUME NEW p \in Process, GiveUp(p)
      PROVE  EventsTold'
  <2>1. /\ events' = events /\ plan' = [plan EXCEPT ![p] = {}]
        /\ commit' = commit /\ rows' = rows /\ github' = github
    BY <1>9 DEF GiveUp, sources, archiveVars
  <2>2. Found' \subseteq Found
    BY <1>1, <2>1 DEF Found
  <2>3. QED
    BY <1>3, <2>1, <2>2
<1>10. CASE Move \/ Archive \/ UNCHANGED vars
  <2>1. /\ commit' = commit /\ events' = events /\ plan' = plan
        /\ github' = github \/ (Len(github) > 1 /\ github' = Tail(github))
    BY <1>10 DEF Move, Archive, vars, sources
  <2>2. rows' = rows
    BY <1>10 DEF Move, Archive, LoadFile, QueryMaximum, QueryHours, QueryRows, WriteRows,
                 WriteManifest, StopExport, vars, sources, archiveVars
  <2>3. Found' \subseteq Found
    BY <2>1 DEF Found
  <2>4. QED
    BY <1>3, <2>1, <2>2, <2>3
<1>11. QED
  BY <1>4, <1>5, <1>6, <1>7, <1>8, <1>9, <1>10 DEF Next

\* Records of one id differ only in what their name does not settle.
LEMMA ToldAgree == EventsTold => CollectorsAgree
<1> SUFFICES ASSUME EventsTold
             PROVE  CollectorsAgree
  OBVIOUS
<1>1. PICK s \in Scenario : SourcesAre(s) /\ \A e \in Found : IsTold(s, Kinds, e)
  BY DEF EventsTold
<1>2. ASSUME NEW incoming, NEW kinds, \A f \in incoming : IsTold(s, kinds, f),
             NEW p \in Conflicts(events, incoming)
      PROVE  \E n \in Names(s) : n[1] \in kinds /\ p[1] # p[2] /\ SameButFor(n, p[1], p[2])
  <2>1. p[1] \in events /\ p[2] \in incoming /\ p[1].id = p[2].id /\ p[1] # p[2]
    BY DEF Conflicts
  <2>2. IsTold(s, Kinds, p[1]) /\ IsTold(s, kinds, p[2])
    BY <1>1, <1>2, <2>1 DEF Found
  <2>3. QED
    BY <2>1, <2>2, OneRecord
<1>3. ASSUME Candidates(Landings) # {}, NEW p \in Conflicts(events, Scan(Landings).events)
      PROVE  p[1].kind = "git_rework_scan"
  <2>1. \A e \in Scan(Landings).events : IsTold(s, ScanKinds, e)
    BY <1>1, <1>3, ScanTold
  <2>2. PICK n \in Names(s) : n[1] \in ScanKinds /\ p[1] # p[2] /\ SameButFor(n, p[1], p[2])
    BY <1>2, <2>1
  <2>3. QED
    BY <2>2 DEF SameButFor, ScanKinds
<1>4. ASSUME NEW tip \in Commits, NEW after, NEW max,
             NEW p \in Conflicts(events, Collection(tip, after, max).events)
      PROVE  p[1].kind = "revert" /\ IsMerge(p[1].data.reverted)
  <2>1. \A e \in Collection(tip, after, max).events : IsTold(s, GitKinds, e)
    BY <1>1, CollectionTold
  <2>2. PICK n \in Names(s) : n[1] \in GitKinds /\ p[1] # p[2] /\ SameButFor(n, p[1], p[2])
    BY <1>2, <2>1
  <2>3. QED
    BY <2>2 DEF SameButFor, GitKinds
<1>5. ASSUME NEW batch \in Imports, NEW p \in Conflicts(events, batch.found.events)
      PROVE  \/ p[1].kind \in {"change_closed", "change_merged"} /\ p[1].occurred # p[2].occurred
             \/ p[1].kind = "revert" /\ p[1].change # p[2].change
  <2>1. github # <<>>
    BY DEF Imports
  <2>2. PICK since, until, limit :
          batch.found = GitHubCollection(github[1], since, until, limit)
    BY <2>1 DEF Imports
  <2>3. PICK i \in DOMAIN s.github : github[1] = s.github[i]
    BY <1>1, <2>1, ServiceAnswers
  <2>4. \A e \in batch.found.events : IsTold(s, ServiceKinds, e)
    BY <2>2, <2>3, GitHubTold
  <2>5. PICK n \in Names(s) : n[1] \in ServiceKinds /\ p[1] # p[2] /\ SameButFor(n, p[1], p[2])
    BY <1>2, <2>4
  <2>6. QED
    BY <2>5 DEF SameButFor, ServiceKinds
<1>6. QED
  BY <1>3, <1>4, <1>5 DEF CollectorsAgree

-----------------------------------------------------------------------------
(* Theorems. *)

THEOREM Invariance == Spec => []IInv
BY InitIInv, NextIInv, PTL DEF Spec

\* The sources are those of a scenario, a command plans at most one batch, and
\* the events attached to a recorded unit were recorded with it, whichever
\* collector made it (upsert_history_batch of history/storage.py).
THEOREM TypeCorrect == Spec => []TypeOK
<1>1. IInv => TypeOK
  <2> SUFFICES ASSUME IInv
               PROVE  TypeOK
    OBVIOUS
  <2>1. \E s \in Scenario : commit = s.commit /\ \E t \in Suffixes(s.github) : github = t
    <3>1. PICK s \in Scenario : SourcesAre(s)
      BY DEF IInv, SourcesOK
    <3>2. PICK l \in 1..Len(s.github) + 1 : github = SubSeq(s.github, l, Len(s.github))
      BY <3>1 DEF SourcesAre
    <3>3. Len(s.github) \in Nat
      BY CollectorsAssumption, LenProperties
    <3>4. l \in 1..Len(s.github) \/ l = Len(s.github) + 1
      BY <3>3
    <3>5. l = Len(s.github) + 1 => github = <<>>
      BY <3>2, <3>3, SubSeqEmpty
    <3>6. github \in Suffixes(s.github)
      BY <3>2, <3>4, <3>5 DEF Suffixes
    <3>7. QED
      BY <3>1, <3>6 DEF SourcesAre
  <2>2. \A u \in units : u.attached \subseteq {e.id : e \in events}
    BY DEF IInv, LogsOK, IdsOf
  <2>3. ASSUME NEW p \in Process
        PROVE  Cardinality(plan[p]) <= 1
    <3>1. plan[p] = {} \/ \E batch : plan[p] = {batch}
      BY DEF IInv, PlansOK
    <3>2. CASE plan[p] = {}
      BY <3>2, FS_EmptySet
    <3>3. CASE \E batch : plan[p] = {batch}
      <4>1. PICK batch : plan[p] = {batch}
        BY <3>3
      <4>2. Cardinality({batch}) = 1
        BY FS_Singleton
      <4>3. QED
        BY <4>1, <4>2
    <3>4. QED
      BY <3>1, <3>2, <3>3
  <2>4. QED
    BY <2>1, <2>2, <2>3 DEF TypeOK
<1>2. QED
  BY <1>1, Invariance, PTL

\* Whatever the service answers, the cutoffs and the limits are, a pull request
\* is collected with all its reviews and checks, or not at all
\* (collect_github_history of history/github.py).
THEOREM WholePulls == Spec => []PullsAreWhole
<1>1. IInv => PullsAreWhole
  BY CollectedWhole DEF IInv
<1>2. QED
  BY <1>1, Invariance, PTL

\* However files come in while the exporter asks its questions, and whichever
\* pair of files it left, a negative review outcome of the archive is true of
\* all that happened (_outcome_interval_is_complete of
\* history/github_event_archive.py).
THEOREM ArchiveIsTrue == Spec => []ArchiveNegativesAreTrue
<1>1. IInv => ArchiveNegativesAreTrue
  BY DEF IInv, LogsOK, ReviewProven, ArchiveNegativesAreTrue
<1>2. QED
  BY <1>1, Invariance, PTL

\* A change that was collected with a commit that reverts it is never labelled
\* as one that was not reverted (_revert_events of history/git.py).
THEOREM RevertIsSeen == Spec => []RevertedIsNotNegative
<1>1. IInv => RevertedIsNotNegative
  BY RevertIsHeard DEF RevertedIsNotNegative
<1>2. QED
  BY <1>1, Invariance, PTL

\* However histories are collected and scanned, by commands that may run at the
\* same time, a commit whose lines a scan saw deleted is not labelled as one
\* that was left alone: the scan that the label rests on read both commits, and
\* an event of the rework was recorded with it, or the commit was recorded as
\* skipped (rework_window_from_events of history/outcomes.py).
THEOREM UntouchedIsUntouched == Spec => []NegativeMeansUntouched
<1>1. IInv => NegativeMeansUntouched
  BY UntouchedOnly DEF NegativeMeansUntouched
<1>2. QED
  BY <1>1, Invariance, PTL

\* Every event that is recorded or about to be has a name, and says what the
\* sources let a record of that name say: a collector reads nothing else, and
\* the service and the files move on in between.
THEOREM RecordsTold == Spec => []EventsTold
<1>1. Init => IInv /\ EventsTold
  BY InitIInv, InitTold
<1>2. IInv /\ EventsTold /\ [Next]_vars => (IInv /\ EventsTold)'
  BY NextIInv, NextTold
<1>3. QED
  BY <1>1, <1>2, PTL DEF Spec

\* Whatever was collected and scanned before, by commands that ran at the same
\* time and before the service moved on, a collector finds the same facts, but
\* for what scans cover, reverts of merges, and pull requests that ended again
\* or share a commit: no record's name leaves open what else was read with it
\* (upsert_history_batch of history/storage.py refuses a batch that conflicts).
THEOREM Agreement == Spec => []CollectorsAgree
BY RecordsTold, ToldAgree, PTL

=============================================================================
