---------------------------- MODULE AtomicHistory ----------------------------
(***************************************************************************)
(* What the history store promises: the two logs change together or not at *)
(* all, records are only ever added, and every reader sees a valid pair.   *)
(* HistoryStore is shown to implement it.                                  *)
(***************************************************************************)
EXTENDS HistoryRecords

CONSTANT Proc  \* processes of the command line

VARIABLES
  events,  \* events.jsonl: {} when there is none, {S} when it holds the set S
  units,   \* change-units.jsonl, likewise
  seen     \* seen[p]: the snapshot p's load returned while p holds it

vars == <<events, units, seen>>

Nothing == [events |-> {}, units |-> {}]

Init ==
  /\ events = {}
  /\ units = {}
  /\ seen = [p \in Proc |-> Nothing]

\* A batch of records, each new or there already, is added to both logs at once.
Insert(b) ==
  /\ Valid((UNION events) \cup b.events, (UNION units) \cup b.units)
  /\ events' = {(UNION events) \cup b.events}
  /\ units' = {(UNION units) \cup b.units}
  /\ UNCHANGED seen

\* One log is created whole.
CreateEvents(b) ==
  /\ events = {}
  /\ Valid(b.events, UNION units)
  /\ events' = {b.events}
  /\ UNCHANGED <<units, seen>>

CreateUnits(b) ==
  /\ units = {}
  /\ Valid(UNION events, b.units)
  /\ units' = {b.units}
  /\ UNCHANGED <<events, seen>>

Read(p) ==
  /\ seen' = [seen EXCEPT ![p] = [events |-> UNION events, units |-> UNION units]]
  /\ UNCHANGED <<events, units>>

Forget(p) ==
  /\ seen' = [seen EXCEPT ![p] = Nothing]
  /\ UNCHANGED <<events, units>>

Next ==
  \/ \E b \in Batch : Insert(b) \/ CreateEvents(b) \/ CreateUnits(b)
  \/ \E p \in Proc : Read(p) \/ Forget(p)

Spec == Init /\ [][Next]_vars

=============================================================================
