----------------------------- MODULE HistoryStore -----------------------------
(***************************************************************************)
(* The two historical logs of src/src/ruleloom/history/storage.py:         *)
(* events.jsonl and change-units.jsonl in the work tree, whose records     *)
(* refer to each other.  A batch that changes both first stages their old  *)
(* contents and writes a journal in the git directory; whoever next enters *)
(* the guard rolls an unfinished batch back.  Every write or unlink is one *)
(* step (each is followed by an fsync), and a process may die, or a write  *)
(* raise, between any two.                                                 *)
(*                                                                         *)
(* Simplifications.  A set with at most one element is a file that may not *)
(* exist; a log is the set of its records.  The journal's digests of the   *)
(* stages are the staged contents.  The stages of the new contents, which  *)
(* nothing reads back, are left out.  The locks on the two logs are only   *)
(* ever taken inside the guard, so the guard stands for all three.         *)
(***************************************************************************)
EXTENDS HistoryRecords

CONSTANT Proc  \* processes of the command line

VARIABLES
  guard,      \* holder of the transaction guard's flock: {} or {p}
  events,     \* events.jsonl: {} or {its records}
  units,      \* change-units.jsonl
  eventsOld,  \* the stage of the old events
  unitsOld,   \* the stage of the old units
  journal,    \* the journal: {} or {what it says}
  pc,         \* where each process is in its call
  call,       \* call[p]: the operation and its batch
  raising,    \* raising[p]: an exception is on its way out of the call
  found,      \* found[p]: what the call read of the two logs
  acked       \* history: batches whose insertion returned

files == <<events, units, eventsOld, unitsOld, journal>>
locals == <<call, raising, found>>
vars == <<guard, files, pc, locals, acked>>

Journal ==
  [eventsExisted : BOOLEAN, unitsExisted : BOOLEAN,
   eventsOld : SUBSET Event, unitsOld : SUBSET ChangeUnit]
Snapshot == [events : SUBSET Event, units : SUBSET ChangeUnit]
Nothing == [events |-> {}, units |-> {}]
Operation == {"load", "upsert", "saveEvents", "saveUnits"}

\* Between the call and its return: "guard" waits for the guard, the others hold it.
Holding ==
  {"recover", "rollUnits", "dropJournal", "dropStages", "read", "stageUnits", "journal",
   "events", "units", "commit", "dropNew", "done"}

\* Every file holds records of its kind, and every process is somewhere in a call.
TypeOK ==
  /\ guard \in SUBSET Proc
  /\ events \in SUBSET (SUBSET Event)
  /\ units \in SUBSET (SUBSET ChangeUnit)
  /\ eventsOld \in SUBSET (SUBSET Event)
  /\ unitsOld \in SUBSET (SUBSET ChangeUnit)
  /\ journal \in SUBSET Journal
  /\ pc \in [Proc -> {"idle", "guard"} \cup Holding]
  /\ call \in [Proc -> [op : Operation, batch : Snapshot]]
  /\ raising \in [Proc -> BOOLEAN]
  /\ found \in [Proc -> Snapshot]
  /\ acked \in SUBSET Snapshot

-----------------------------------------------------------------------------
(* Control. *)

Goto(p, from, to) ==
  /\ pc[p] = from
  /\ pc' = [pc EXCEPT ![p] = to]

Init ==
  /\ guard = {}
  /\ events = {} /\ units = {}
  /\ eventsOld = {} /\ unitsOld = {}
  /\ journal = {}
  /\ pc = [p \in Proc |-> "idle"]
  /\ call = [p \in Proc |-> [op |-> "load", batch |-> Nothing]]
  /\ raising = [p \in Proc |-> FALSE]
  /\ found = [p \in Proc |-> Nothing]
  /\ acked = {}

\* load_history_snapshot, upsert_history_batch, save_events or save_change_units.
Call(p, op, b) ==
  /\ Goto(p, "idle", "guard")
  /\ call' = [call EXCEPT ![p] = [op |-> op, batch |-> IF op = "load" THEN Nothing ELSE b]]
  /\ UNCHANGED <<guard, files, raising, found, acked>>

\* Fault: a reader does not wait for a writer.
UnguardedAcquire(p) ==
  /\ Goto(p, "guard", "recover")
  /\ guard = {} \/ (call[p].op = "load" /\ journal = {})
  /\ guard' = {p}
  /\ UNCHANGED <<files, locals, acked>>

Acquire(p) ==
  /\ Goto(p, "guard", "recover")
  /\ guard = {}
  /\ guard' = {p}
  /\ UNCHANGED <<files, locals, acked>>

\* The call ends: the guard is released and the call's variables are gone.
Leave(p) ==
  /\ pc' = [pc EXCEPT ![p] = "idle"]
  /\ guard' = guard \ {p}
  /\ call' = [call EXCEPT ![p] = [op |-> "load", batch |-> Nothing]]
  /\ raising' = [raising EXCEPT ![p] = FALSE]
  /\ found' = [found EXCEPT ![p] = Nothing]
  /\ UNCHANGED files

-----------------------------------------------------------------------------
(* _recover_history_transaction: at the head of every call, and from the   *)
(* exception handler of upsert_history_batch.                              *)

NoJournal(p) ==
  /\ journal = {}
  /\ Goto(p, "recover", "dropStages")
  /\ UNCHANGED <<guard, files, locals, acked>>

\* The journal is trusted only with both stages as it describes them.
Staged(j) == eventsOld = {j.eventsOld} /\ unitsOld = {j.unitsOld}

RollBackEvents(p) ==
  /\ Goto(p, "recover", "rollUnits")
  /\ \E j \in journal :
       /\ Staged(j)
       /\ events' = IF j.eventsExisted THEN {j.eventsOld} ELSE {}
  /\ UNCHANGED <<guard, units, eventsOld, unitsOld, journal, locals, acked>>

\* Fault: the wrong stage is put back.
SwappedRollBackUnits(p) ==
  /\ Goto(p, "rollUnits", "dropJournal")
  /\ \E j \in journal : units' = IF j.unitsExisted THEN {j.eventsOld} ELSE {}
  /\ UNCHANGED <<guard, events, eventsOld, unitsOld, journal, locals, acked>>

RollBackUnits(p) ==
  /\ Goto(p, "rollUnits", "dropJournal")
  /\ \E j \in journal : units' = IF j.unitsExisted THEN {j.unitsOld} ELSE {}
  /\ UNCHANGED <<guard, events, eventsOld, unitsOld, journal, locals, acked>>

\* Fault: the stages go before the journal that names them.
StagesFirstDropJournal(p) ==
  /\ Goto(p, "dropJournal", "dropStages")
  /\ eventsOld' = {}
  /\ UNCHANGED <<guard, events, units, unitsOld, journal, locals, acked>>

DropJournal(p) ==
  /\ Goto(p, "dropJournal", "dropStages")
  /\ journal' = {}
  /\ UNCHANGED <<guard, events, units, eventsOld, unitsOld, locals, acked>>

\* _cleanup_transaction_stages; then the call goes on, unless it is raising.
DropStages(p) ==
  /\ ~raising[p]
  /\ Goto(p, "dropStages", "read")
  /\ eventsOld' = {} /\ unitsOld' = {}
  /\ UNCHANGED <<guard, events, units, journal, locals, acked>>

DropStagesAndRaise(p) ==
  /\ raising[p]
  /\ Goto(p, "dropStages", "done")
  /\ eventsOld' = {} /\ unitsOld' = {}
  /\ UNCHANGED <<guard, events, units, journal, locals, acked>>

-----------------------------------------------------------------------------
(* The operations, after recovery. *)

\* load_history_snapshot
LoadReturns(p) ==
  /\ call[p].op = "load"
  /\ Valid(UNION events, UNION units)
  /\ Goto(p, "read", "done")
  /\ found' = [found EXCEPT ![p] = [events |-> UNION events, units |-> UNION units]]
  /\ UNCHANGED <<guard, files, call, raising, acked>>

\* _merge_records refuses a record that differs from the one of its id.
Mergeable(b) == Valid((UNION events) \cup b.events, (UNION units) \cup b.units)

Present(b) ==
  /\ \E E \in events : b.events \subseteq E
  /\ \E U \in units : b.units \subseteq U

\* All of the batch is there already: nothing is written.
UpsertNothing(p) ==
  /\ call[p].op = "upsert"
  /\ Mergeable(call[p].batch)
  /\ Present(call[p].batch)
  /\ Goto(p, "read", "done")
  /\ UNCHANGED <<guard, files, locals, acked>>

StageEvents(p) ==
  /\ call[p].op = "upsert"
  /\ Mergeable(call[p].batch)
  /\ ~Present(call[p].batch)
  /\ Goto(p, "read", "stageUnits")
  /\ found' = [found EXCEPT ![p] = [events |-> UNION events, units |-> UNION units]]
  /\ eventsOld' = {UNION events}
  /\ unitsOld' = {}
  /\ UNCHANGED <<guard, events, units, journal, call, raising, acked>>

StageUnits(p) ==
  /\ Goto(p, "stageUnits", "journal")
  /\ unitsOld' = {found[p].units}
  /\ UNCHANGED <<guard, events, units, eventsOld, journal, locals, acked>>

WriteJournal(p) ==
  /\ Goto(p, "journal", "events")
  /\ journal' = {[eventsExisted |-> events # {}, unitsExisted |-> units # {},
                  eventsOld |-> found[p].events, unitsOld |-> found[p].units]}
  /\ UNCHANGED <<guard, events, units, eventsOld, unitsOld, locals, acked>>

WriteEvents(p) ==
  /\ Goto(p, "events", "units")
  /\ events' = {found[p].events \cup call[p].batch.events}
  /\ UNCHANGED <<guard, units, eventsOld, unitsOld, journal, locals, acked>>

WriteUnits(p) ==
  /\ Goto(p, "units", "commit")
  /\ units' = {found[p].units \cup call[p].batch.units}
  /\ UNCHANGED <<guard, events, eventsOld, unitsOld, journal, locals, acked>>

\* Fault: the journal is left for the clean-up, which removes only the stages.
ForgetfulCommit(p) ==
  /\ Goto(p, "commit", "dropNew")
  /\ UNCHANGED <<guard, files, locals, acked>>

\* Unlinking the journal commits the batch.
Commit(p) ==
  /\ Goto(p, "commit", "dropNew")
  /\ journal' = {}
  /\ UNCHANGED <<guard, events, units, eventsOld, unitsOld, locals, acked>>

DropNew(p) ==
  /\ Goto(p, "dropNew", "done")
  /\ eventsOld' = {} /\ unitsOld' = {}
  /\ UNCHANGED <<guard, events, units, journal, locals, acked>>

\* save_events: an existing log may only be saved as it is.
SaveEvents(p) ==
  /\ call[p].op = "saveEvents"
  /\ Valid(call[p].batch.events, UNION units)
  /\ events \subseteq {call[p].batch.events}
  /\ Goto(p, "read", "done")
  /\ events' = {call[p].batch.events}
  /\ UNCHANGED <<guard, units, eventsOld, unitsOld, journal, locals, acked>>

\* save_change_units
SaveUnits(p) ==
  /\ call[p].op = "saveUnits"
  /\ Valid(UNION events, call[p].batch.units)
  /\ units \subseteq {call[p].batch.units}
  /\ Goto(p, "read", "done")
  /\ units' = {call[p].batch.units}
  /\ UNCHANGED <<guard, events, eventsOld, unitsOld, journal, locals, acked>>

\* The call's batch is one the caller will be told is stored.
Inserted(p) == call[p].op = "upsert" /\ pc[p] = "done" /\ ~raising[p]

Return(p) ==
  /\ pc[p] = "done"
  /\ acked' = acked \cup (IF Inserted(p) THEN {call[p].batch} ELSE {})
  /\ Leave(p)

\* Fault: a caller waits for the guard without a deadline.
PatientRefuses(p) ==
  LET b == call[p].batch
  IN \/ pc[p] = "recover" /\ \E j \in journal : ~Staged(j)
     \/ pc[p] = "read" /\ call[p].op = "load" /\ ~Valid(UNION events, UNION units)
     \/ pc[p] = "read" /\ call[p].op = "upsert" /\ ~Mergeable(b)
     \/ /\ pc[p] = "read" /\ call[p].op = "saveEvents"
        /\ ~Valid(b.events, UNION units) \/ ~(events \subseteq {b.events})
     \/ /\ pc[p] = "read" /\ call[p].op = "saveUnits"
        /\ ~Valid(UNION events, b.units) \/ ~(units \subseteq {b.units})

\* The checks that end a call with a ModelError, touching no file.
Refuses(p) ==
  LET b == call[p].batch
  IN \/ pc[p] = "guard" /\ guard # {}   \* ten seconds went by and the guard is held
     \/ pc[p] = "recover" /\ \E j \in journal : ~Staged(j)
     \/ pc[p] = "read" /\ call[p].op = "load" /\ ~Valid(UNION events, UNION units)
     \/ pc[p] = "read" /\ call[p].op = "upsert" /\ ~Mergeable(b)
     \/ /\ pc[p] = "read" /\ call[p].op = "saveEvents"
        /\ ~Valid(b.events, UNION units) \/ ~(events \subseteq {b.events})
     \/ /\ pc[p] = "read" /\ call[p].op = "saveUnits"
        /\ ~Valid(UNION events, b.units) \/ ~(units \subseteq {b.units})

Reject(p) ==
  /\ Refuses(p)
  /\ Leave(p)
  /\ UNCHANGED acked

\* A write raises inside the try block; its handler rolls the batch back.  The
\* journal's own write may have happened, or the unlink, when the fsync raises.
Fail(p) ==
  /\ pc[p] \in {"journal", "events", "units", "commit", "dropNew"}
  /\ pc' = [pc EXCEPT ![p] = "recover"]
  /\ raising' = [raising EXCEPT ![p] = TRUE]
  /\ UNCHANGED <<guard, files, call, found, acked>>

\* The process dies, or a write raises outside the try block.
Crash(p) ==
  /\ pc[p] # "idle"
  /\ Leave(p)
  /\ UNCHANGED acked

Step(p) ==
  \/ Acquire(p)
  \/ NoJournal(p) \/ RollBackEvents(p) \/ RollBackUnits(p) \/ DropJournal(p)
  \/ DropStages(p) \/ DropStagesAndRaise(p)
  \/ LoadReturns(p) \/ UpsertNothing(p) \/ SaveEvents(p) \/ SaveUnits(p)
  \/ StageEvents(p) \/ StageUnits(p) \/ WriteJournal(p)
  \/ WriteEvents(p) \/ WriteUnits(p) \/ Commit(p) \/ DropNew(p)
  \/ Return(p) \/ Reject(p)

Next ==
  \/ \E p \in Proc, op \in Operation, b \in Batch : Call(p, op, b)
  \/ \E p \in Proc : Step(p) \/ Fail(p) \/ Crash(p)

Spec == Init /\ [][Next]_vars

FairSpec == Spec /\ \A p \in Proc : WF_vars(Step(p))

-----------------------------------------------------------------------------
(* Properties. *)

\* The logs as the next holder of the guard will find them after recovery.
CommittedEvents ==
  IF journal = {} THEN events
  ELSE UNION {IF j.eventsExisted THEN {j.eventsOld} ELSE {} : j \in journal}
CommittedUnits ==
  IF journal = {} THEN units
  ELSE UNION {IF j.unitsExisted THEN {j.unitsOld} ELSE {} : j \in journal}

\* Whatever interrupts a batch or a recovery, the next call finds a journal whose
\* stages are whole, or none: recovery never refuses (the order of the writes of
\* upsert_history_batch and of the unlinks of _recover_history_transaction).
AlwaysRecoverable == \A j \in journal : Staged(j)

\* A batch whose insertion returned is in both logs for good: neither the rollback
\* of a later batch nor a crash takes any of it back.
AcknowledgedDurable ==
  \A b \in acked :
    /\ b.events \subseteq UNION CommittedEvents
    /\ b.units \subseteq UNION CommittedUnits

\* Every call ends: an interrupted batch never leaves the guard held for good.
CallsEnd == \A p \in Proc : pc[p] # "idle" ~> pc[p] = "idle"

Reading(p) == IF pc[p] = "done" /\ call[p].op = "load" THEN found[p] ELSE Nothing

History == INSTANCE AtomicHistory WITH
             events <- CommittedEvents, units <- CommittedUnits,
             seen <- [p \in Proc |-> Reading(p)]

\* Batches are atomic: the pair of logs changes only by whole batches, a rolled back
\* batch leaves both files exactly as they were, and every load reads a whole pair.
ImplementsAtomicHistory == History!Spec

=============================================================================
