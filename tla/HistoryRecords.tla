---------------------------- MODULE HistoryRecords ----------------------------
(***************************************************************************)
(* The records of the two history logs (history/models.py) and what one    *)
(* snapshot of them must satisfy (history/units.py).  A log is the set of  *)
(* its records: the file holds them sorted, in one canonical form.         *)
(***************************************************************************)
EXTENDS FiniteSets

CONSTANTS
  EventId,  \* ids of historical events
  UnitId,   \* ids of change units
  Origin,   \* where an event's provenance says it was captured
  Local,    \* the origin of an event that no built-in GitHub adapter captured
  Batch     \* what callers ask to insert: sets of events and of units

Event == [id : EventId, origin : Origin]
ChangeUnit == [id : UnitId, events : SUBSET EventId]

ASSUME HistoryAssumption ==
  /\ Local \in Origin
  /\ Batch \subseteq [events : SUBSET Event, units : SUBSET ChangeUnit]

IdsOf(records) == {r.id : r \in records}

\* _read_records and _canonical_content refuse a log with an id twice.
UniqueIds(records) == \A r, s \in records : r.id = s.id => r = s

\* validate_change_unit_event_links: a unit's events are in the event log.
Links(events, units) == \A u \in units : u.events \subseteq IdsOf(events)

\* validate_unique_event_ownership: no event supports two changes.
SoleOwners(units) == \A u, v \in units : u # v => u.events \cap v.events = {}

\* One store holds the history of one GitHub repository.
OneOrigin(events) ==
  \A e, f \in events : (e.origin # Local /\ f.origin # Local) => e.origin = f.origin

\* validate_history_snapshot, over logs that were read.
Valid(events, units) ==
  /\ UniqueIds(events) /\ UniqueIds(units)
  /\ Links(events, units)
  /\ SoleOwners(units)
  /\ OneOrigin(events)

=============================================================================
