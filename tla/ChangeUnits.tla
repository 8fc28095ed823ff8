----------------------------- MODULE ChangeUnits -----------------------------
(***************************************************************************)
(* Change units and the evidence they rest on (history/units.py): how the  *)
(* events of one provider change assemble into a unit, and what a snapshot *)
(* of the two logs must satisfy to be written.  Times are numbers; an id   *)
(* is a number, whose order breaks ties between times.  One repository is  *)
(* modelled, and base commits are left out: they follow the heads.         *)
(***************************************************************************)
EXTENDS Integers, FiniteSets, SequencesExt

CONSTANTS
  NoChange,  \* change_id of an event that belongs to no change
  NoSha,     \* an event that names no head, a unit that is not final
  NoPolicy   \* an event that no webhook adapter captured

PredictionEvents == {"change_opened", "change_snapshot"}
FinalEvents == {"change_finalized", "change_merged", "change_closed"}

EventBefore(e, f) ==
  \/ e.occurred < f.occurred
  \/ e.occurred = f.occurred /\ e.available < f.available
  \/ e.occurred = f.occurred /\ e.available = f.available /\ e.id < f.id

Earliest(events) == CHOOSE e \in events : \A f \in events \ {e} : EventBefore(e, f)
Latest(events) == CHOOSE e \in events : \A f \in events \ {e} : EventBefore(f, e)

\* An explicit outcome is no structural finalization.
Semantic(e) == e.kind = "change_finalized" /\ e.semantic

Predictions(group) == {e \in group : e.kind \in PredictionEvents /\ e.head # NoSha}
Finals(group) == {e \in group : e.kind \in FinalEvents /\ ~Semantic(e) /\ e.head # NoSha}

InOrder(events) ==
  [k \in 1..Cardinality(events) |->
     CHOOSE e \in events : Cardinality({f \in events : EventBefore(f, e)}) = k - 1]

\* _commits: each commit once, in the order of the events that name it.
Commits(group) ==
  LET Add(seen, commit) == IF commit \in ToSet(seen) THEN seen ELSE Append(seen, commit)
      AddAll(seen, e) == FoldLeft(Add, seen, e.commits)
  IN  FoldLeft(AddAll, <<>>, InOrder({e \in group : e.commits # <<>>}))

Of(change, events) == {e \in events : e.change = change}
Changes(events) == {e.change : e \in events} \ {NoChange}

\* The unit of a change that has a snapshot or a final event.
AssembledUnit(change, group) ==
  LET rich == Predictions(group) # {}
      last == IF Finals(group) = {} THEN {} ELSE {Latest(Finals(group))}
      first == IF rich THEN Earliest(Predictions(group)) ELSE Latest(Finals(group))
      commits == Commits(group)
      heads == IF last = {} THEN <<first.head>>
               ELSE LET final == Latest(Finals(group)).head
                    IN  IF final = first.head THEN <<final>> ELSE <<first.head, final>>
  IN  [id |-> change,
       kind |-> IF rich THEN "provider_change" ELSE "final_change",
       prediction |-> first.head,
       predicted |-> first.occurred,
       final |-> {[head |-> e.head, at |-> e.occurred] : e \in last},
       commits |-> IF commits = <<>> THEN heads ELSE commits,
       attached |-> {first.id} \cup {e.id : e \in last},
       source |-> first.source,
       rich |-> rich,
       confirmatory |-> rich /\ first.pointInTime /\ first.available <= first.occurred]

\* The last end of a change is no earlier than its first snapshot.
InSequence(group) ==
  (Predictions(group) # {} /\ Finals(group) # {}) =>
    Latest(Finals(group)).occurred >= Earliest(Predictions(group)).occurred

\* assemble_change_units raises, for all changes, when one is not in sequence.
Assembles(events) == \A change \in Changes(events) : InSequence(Of(change, events))

AssembleChangeUnits(events) ==
  {AssembledUnit(c, Of(c, events)) :
     c \in {d \in Changes(events) :
              Predictions(Of(d, events)) \cup Finals(Of(d, events)) # {}}}

-----------------------------------------------------------------------------

\* validate_change_unit_event_links
Linked(unit, events) ==
  \A id \in unit.attached :
    \E e \in events : e.id = id /\ e.change \in {NoChange, unit.id}

\* A confirmatory unit has its point-in-time snapshot, a final one its end.
Evidenced(unit, events) ==
  LET attached == {e \in events : e.id \in unit.attached /\ e.change = unit.id}
  IN  /\ unit.confirmatory =>
           \E e \in attached :
             /\ e.kind \in PredictionEvents /\ e.pointInTime
             /\ e.source = unit.source /\ e.head = unit.prediction
             /\ e.occurred = unit.predicted /\ e.available <= unit.predicted
      /\ \A final \in unit.final :
           \E e \in attached :
             /\ e.kind \in FinalEvents \cup {"git_merge"} /\ ~Semantic(e)
             /\ e.head = final.head /\ e.occurred = final.at

\* Fault: the experiment may change its label policy.
LaxSnapshot(events, units) ==
  /\ \A u, v \in units : u # v => u.attached \cap v.attached = {}
  /\ \A u \in units : Linked(u, events) /\ Evidenced(u, events)

\* validate_history_snapshot, over logs whose ids are unique.
ValidSnapshot(events, units) ==
  /\ \A u, v \in units : u # v => u.attached \cap v.attached = {}
  /\ \A e, f \in events :
       (e.policy # NoPolicy /\ f.policy # NoPolicy) => e.policy = f.policy
  /\ \A u \in units : Linked(u, events) /\ Evidenced(u, events)

\* _merge_records refuses an id that is there with another content.
Agree(stored, incoming) == \A s \in stored, i \in incoming : s.id = i.id => s = i

=============================================================================
