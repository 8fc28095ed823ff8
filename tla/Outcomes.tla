------------------------------- MODULE Outcomes -------------------------------
(***************************************************************************)
(* The labelling functions of history/outcomes.py: which events may speak  *)
(* for a change unit, the votes they cast for one target, and the label    *)
(* and evidence that the votes aggregate to.  Times are numbers of days.   *)
(* Event ids and groups are numbered in the order that breaks ties.        *)
(* The `data` of an event is a record of the fields its kind is read for;  *)
(* `sound` stands for a confidence that is absent or a number in 0..1.     *)
(* Confidences themselves and reasons are left out: they never change a    *)
(* label.  A check is named with its provider, and a commit by its unit.   *)
(***************************************************************************)
EXTENDS Integers, FiniteSets

CONSTANTS
  GitWindowDays,    \* config.outcomes.git_window_days, or Unregistered
  ReworkWindowDays, \* config.outcomes.rework_window_days, or Unregistered
  MinLines,         \* config.outcomes.rework_min_lines
  IgnoreSameAuthor, \* config.outcomes.rework_ignore_same_author
  Unregistered,     \* a window that the experiment does not register
  Never,            \* finalized_at of a unit that was not finalized
  NoWindow,         \* no horizon or scan was recorded
  NoEvidence,       \* label_evidence of an unknown label
  NoChange          \* change_id of an event that belongs to no change

ASSUME OutcomesAssumption ==
  /\ GitWindowDays # Unregistered => GitWindowDays \in Nat \ {0}
  /\ ReworkWindowDays # Unregistered => ReworkWindowDays \in Nat \ {0}
  /\ MinLines \in Nat \ {0} /\ IgnoreSameAuthor \in BOOLEAN

\* An event that is known as soon as it happens.
EventOf(id, kind, change, at, group, data) ==
  [id |-> id, kind |-> kind, change |-> change, occurred |-> at, available |-> at,
   group |-> group, data |-> data]

\* What HistoricalEvent.__post_init__ demands of the times of any event.
WellTimed(e) ==
  /\ e.id \in Nat /\ e.group \in Nat
  /\ e.occurred \in Nat /\ e.available \in Nat /\ e.occurred <= e.available

\* What a Git collector records of how far it has seen: git.py and rework.py
\* write the record with the time that it covers.
Coverage == {"git_history_horizon", "git_rework_scan"}

CoversItsPast(e) == e.data.until \in Nat /\ e.data.until <= e.occurred

Targets == {"validation", "review", "ci_failure", "revert_or_hotfix", "defect", "rework"}

Landed == {"git_commit", "git_merge"}
WeakReverts == {"heuristic", "git_trailer"}
WeakDefects == {"fix_keyword", "szz"}

\* The order in which labelling functions read events.
Before(e, f) ==
  \/ e.occurred < f.occurred
  \/ e.occurred = f.occurred /\ e.available < f.available
  \/ e.occurred = f.occurred /\ e.available = f.available /\ e.id < f.id

FirstOf(events) == CHOOSE e \in events : \A f \in events : ~Before(f, e)

LatestAvailable(events) ==
  CHOOSE t \in {e.available : e \in events} : \A e \in events : e.available <= t

\* Fault: an event that became known after the prediction counts.
LateKnownScoped(unit, events) ==
  {e \in events :
     /\ e.change = unit.id \/ (e.id \in unit.attached /\ e.change = NoChange)
     /\ e.available > unit.prediction}

\* Only events of this change that happened strictly after its prediction.
Scoped(unit, events) ==
  {e \in events :
     /\ e.change = unit.id \/ (e.id \in unit.attached /\ e.change = NoChange)
     /\ e.occurred > unit.prediction}

IsLanded(unit) == unit.kind \in Landed

PostMerge(unit, events) ==
  IF unit.finalized = Never THEN {} ELSE {e \in events : e.occurred > unit.finalized}

AfterLanding(unit, events) ==
  IF unit.finalized # Never THEN PostMerge(unit, events)
  ELSE IF IsLanded(unit) THEN events ELSE {}

Linked(e, unit) == e.data.linked = unit.id

Vote(value, strength, e) ==
  [value |-> value, strength |-> strength, first |-> e.id, ids |-> {e.id},
   group |-> e.group, available |-> e.available]

Positive(strength, events) == {Vote("positive", strength, e) : e \in events}

OfKind(kind, events) == {e \in events : e.kind = kind /\ e.data.sound}

-----------------------------------------------------------------------------
(* Labelling functions: the votes that scoped events cast for a target.    *)

ExplicitVotes(unit, target, events) ==
  {Vote(e.data.value, e.data.strength, e) :
     e \in {f \in OfKind("change_finalized", events) :
              /\ target \in {"revert_or_hotfix", "defect"} =>
                   unit.finalized # Never /\ f.occurred > unit.finalized
              /\ f.data.target = target /\ f.data.complete}}

Requests(events) ==
  {e \in OfKind("review", events) :
     e.data.decision = "changes_requested" /\ e.data.independent}

ValidationVotes(events) ==
  Positive("strong", {e \in Requests(events) : e.data.category = "validation"})
    \cup Positive("weak", {e \in OfKind("change_snapshot", events) : e.data.test_changed})

ReviewVotes(events) == Positive("strong", Requests(events))

Failures(events) ==
  {e \in OfKind("ci_run", events) : e.data.conclusion = "failure"}

SuccessesAfter(failure, change, events) ==
  {e \in events :
     /\ e.kind = "ci_run" /\ e.data.conclusion = "success"
     /\ e.data.check = failure.data.check
     /\ e.occurred > change.occurred}

\* Changes of the code after the failure that a success of its check follows.
Fixes(failure, events) ==
  {e \in events :
     /\ e.kind = "change_snapshot" /\ e.data.code_changed
     /\ e.occurred > failure.occurred
     /\ SuccessesAfter(failure, e, events) # {}}

\* Failure, change, success: the vote is knowable when all three are.
RepairVote(failure, events) ==
  LET change == FirstOf(Fixes(failure, events))
      success == FirstOf(SuccessesAfter(failure, change, events))
      chain == {failure, change, success}
  IN  [Vote("positive", "strong", failure) EXCEPT
         !.ids = {e.id : e \in chain}, !.available = LatestAvailable(chain)]

CiVotes(events) ==
  Positive("weak", {e \in Failures(events) : e.data.attributed = "unattributed_weak"})
    \cup {RepairVote(f, events) :
            f \in {e \in Failures(events) :
                     e.data.attributed = "change" /\ Fixes(e, events) # {}}}

RevertVotes(unit, events) ==
  LET landed == AfterLanding(unit, events)
      reverts == {e \in OfKind("revert", landed) : Linked(e, unit)}
      hotfixes == {e \in OfKind("incident", landed) :
                     Linked(e, unit) /\ e.data.category = "hotfix" /\ e.data.link = "explicit"}
  IN  Positive("strong", hotfixes \cup {e \in reverts : e.data.link = "explicit"})
        \cup Positive("weak", {e \in reverts : e.data.link \in WeakReverts /\ e.data.weak})

DefectVotes(unit, events) ==
  LET defects == {e \in OfKind("incident", PostMerge(unit, events)) :
                    Linked(e, unit) /\ e.data.category = "defect"}
  IN  Positive("strong", {e \in defects : e.data.link = "explicit"})
        \cup Positive("weak", {e \in defects : e.data.link \in WeakDefects})

\* Without a recorded scan the registered thresholds are not known either.
ReworkVotes(unit, events, window) ==
  LET lines == IF window = NoWindow THEN 1 ELSE MinLines
      ignore == window # NoWindow /\ IgnoreSameAuthor
  IN  Positive("weak",
        {e \in OfKind("rework", AfterLanding(unit, events)) :
           /\ Linked(e, unit) /\ e.data.weak
           /\ e.data.lines >= lines
           /\ ignore => ~e.data.same_author})

-----------------------------------------------------------------------------
(* Windows: an absence becomes a weak negative only once it is observable. *)

Newer(e, f) ==
  e.data.until > f.data.until \/ (e.data.until = f.data.until /\ e.id > f.id)

NewestOf(records) == CHOOSE e \in records : \A f \in records : ~Newer(f, e)

GitWindow(events) ==
  LET horizons == {e \in events : e.kind = "git_history_horizon"}
  IN  IF GitWindowDays = Unregistered \/ horizons = {} THEN NoWindow
      ELSE [id |-> NewestOf(horizons).id, until |-> NewestOf(horizons).data.until]

ReworkWindow(events) ==
  LET scans == {e \in events : e.kind = "git_rework_scan"}
  IN  IF ReworkWindowDays = Unregistered \/ scans = {} THEN NoWindow
      ELSE [id |-> NewestOf(scans).id, until |-> NewestOf(scans).data.until,
            skipped |-> NewestOf(scans).data.skipped]

\* Group 0 is the group that each window vote has for itself.
WindowVote(unit, days, window) ==
  [value |-> "negative", strength |-> "weak", first |-> window.id, ids |-> {window.id},
   group |-> 0, available |-> unit.prediction + days]

GitWindowVotes(unit, window) ==
  IF /\ window # NoWindow /\ IsLanded(unit)
     /\ unit.prediction + GitWindowDays <= window.until
  THEN {WindowVote(unit, GitWindowDays, window)} ELSE {}

ReworkWindowVotes(unit, window) ==
  IF /\ window # NoWindow /\ unit.kind = "git_commit"
     /\ unit.id \notin window.skipped
     /\ unit.prediction + ReworkWindowDays <= window.until
  THEN {WindowVote(unit, ReworkWindowDays, window)} ELSE {}

-----------------------------------------------------------------------------

VoteBefore(v, w) ==
  \/ v.available < w.available
  \/ v.available = w.available /\ v.group < w.group
  \/ v.available = w.available /\ v.group = w.group /\ v.first < w.first

Earliest(votes) == CHOOSE v \in votes : \A w \in votes : ~VoteBefore(w, v)

Applicable(votes, weak) ==
  {v \in votes : v.value # "abstain" /\ (v.strength = "strong" \/ weak)}

\* No majority: any disagreement leaves the label unknown.
Aggregate(votes, weak) ==
  LET heard == Applicable(votes, weak)
      strong == {v \in heard : v.strength = "strong"}
      earliest == Earliest(IF strong # {} THEN strong ELSE heard)
  IN  IF Cardinality({v.value : v \in heard}) # 1
      THEN [label |-> "unknown", evidence |-> NoEvidence, votes |-> votes]
      ELSE [label |-> (CHOOSE v \in heard : TRUE).value,
            evidence |-> [available |-> earliest.available, ids |-> earliest.ids],
            votes |-> votes]

LabelingVotes(unit, target, events, rework) ==
  CASE target = "validation" -> ValidationVotes(events)
    [] target = "review" -> ReviewVotes(events)
    [] target = "ci_failure" -> CiVotes(events)
    [] target = "revert_or_hotfix" -> RevertVotes(unit, events)
    [] target = "defect" -> DefectVotes(unit, events)
    [] target = "rework" -> ReworkVotes(unit, events, rework)

\* derive_outcome: a window speaks only where nothing positive was seen.
DeriveOutcome(unit, events, target, weak, gitWindow, reworkWindow) ==
  LET scoped == Scoped(unit, events)
      votes == ExplicitVotes(unit, target, scoped)
                 \cup LabelingVotes(unit, target, scoped, reworkWindow)
      absent == \A v \in votes : v.value # "positive"
      window == CASE target = "revert_or_hotfix" -> GitWindowVotes(unit, gitWindow)
                  [] target = "rework" -> ReworkWindowVotes(unit, reworkWindow)
                  [] OTHER -> {}
  IN  Aggregate(votes \cup (IF absent THEN window ELSE {}), weak)

=============================================================================
