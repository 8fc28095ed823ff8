---------------------------- MODULE MCHistoryStore ----------------------------
(* HistoryStore on two events, two units and the batches that make them meet. *)
EXTENDS HistoryStore, TLC

CONSTANTS e1, e2, u1, u2, local, github, mirror

Ev(id, origin) == [id |-> id, origin |-> origin]
Un(id, evs) == [id |-> id, events |-> evs]

\* A change and its event; a second one; a unit that claims the first one's event; an
\* event of another GitHub repository, which contradicts the second one's too.
Batches == {
  [events |-> {Ev(e1, github)}, units |-> {Un(u1, {e1})}],
  [events |-> {Ev(e2, local)}, units |-> {Un(u2, {e2})}],
  [events |-> {}, units |-> {Un(u2, {e1})}],
  [events |-> {Ev(e2, mirror)}, units |-> {}]}

=============================================================================
