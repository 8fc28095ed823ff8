-------------------------- MODULE HistoryStoreProofs --------------------------
(***************************************************************************)
(* Proofs about HistoryStore, for any records, batches and number of       *)
(* processes.  The invariant IInv is inductive: it says what the two logs, *)
(* the stages and the journal may be at each point of the call that holds  *)
(* the guard, and that what a recovery would restore is valid.             *)
(***************************************************************************)
EXTENDS HistoryStore, TLAPS

(***************************************************************************)
(* The inductive invariant.                                                *)
(***************************************************************************)

\* A file is there or not; a log that the next recovery leaves is valid.
FilesInv ==
  /\ \A x, y \in events : x = y
  /\ \A x, y \in units : x = y
  /\ \A j, k \in journal : j = k
  /\ AlwaysRecoverable
  /\ Valid(UNION CommittedEvents, UNION CommittedUnits)

Stored(p) ==
  /\ call[p].batch.events \subseteq UNION events
  /\ call[p].batch.units \subseteq UNION units

\* From the look at the logs to the commit, a call knows what they hold, and that
\* they stay valid with its batch; what was written is what recovery expects.
CallInv(p) ==
  /\ pc[p] \in Holding => guard = {p}
  /\ call[p].op # "load" => call[p].batch \in Batch
  /\ raising[p] => pc[p] \in Holding /\ call[p].op = "upsert"
  /\ pc[p] \in {"rollUnits", "dropJournal"} => journal # {} /\ events = CommittedEvents
  /\ pc[p] = "dropJournal" => units = CommittedUnits
  /\ pc[p] \in {"dropStages", "read", "stageUnits", "journal", "dropNew", "done"} => journal = {}
  /\ pc[p] \in {"events", "units", "commit"} => journal # {}
  /\ pc[p] \in {"stageUnits", "journal", "events", "units", "commit"} =>
       /\ call[p].op = "upsert"
       /\ found[p] = [events |-> UNION CommittedEvents, units |-> UNION CommittedUnits]
       /\ Valid(found[p].events \cup call[p].batch.events, found[p].units \cup call[p].batch.units)
  /\ pc[p] \in {"stageUnits", "journal"} => eventsOld = {found[p].events}
  /\ pc[p] = "journal" => unitsOld = {found[p].units}
  /\ pc[p] \in {"units", "commit"} => events = {found[p].events \cup call[p].batch.events}
  /\ pc[p] = "commit" => units = {found[p].units \cup call[p].batch.units}
  /\ pc[p] = "dropNew" => call[p].op = "upsert" /\ Stored(p)
  /\ Inserted(p) => Stored(p)

IInv ==
  /\ TypeOK
  /\ FilesInv
  /\ \A p \in Proc : CallInv(p)
  /\ AcknowledgedDurable

(***************************************************************************)
(* Type correctness.                                                       *)
(***************************************************************************)

LEMMA NothingType == Nothing \in Snapshot
BY DEF Nothing, Snapshot

LEMMA BatchType == \A b \in Batch : b \in Snapshot
BY HistoryAssumption DEF Snapshot

LEMMA TypeInit == Init => TypeOK
BY NothingType DEF Init, TypeOK, Operation

LEMMA LeaveType ==
  ASSUME TypeOK, NEW p \in Proc, Leave(p), acked' \in SUBSET Snapshot
  PROVE  TypeOK'
BY NothingType DEF Leave, TypeOK, Operation, files

\* Recovery puts back what the journal's stages hold.
LEMMA RecoveryType ==
  ASSUME TypeOK, NEW p \in Proc,
         \/ NoJournal(p) \/ RollBackEvents(p) \/ RollBackUnits(p) \/ DropJournal(p)
         \/ DropStages(p) \/ DropStagesAndRaise(p)
  PROVE  TypeOK'
<1> USE DEF TypeOK, Goto, Holding, files, locals
<1>1. CASE NoJournal(p)
  BY <1>1 DEF NoJournal
<1>2. CASE RollBackEvents(p)
  BY <1>2 DEF RollBackEvents, Journal
<1>3. CASE RollBackUnits(p)
  BY <1>3 DEF RollBackUnits, Journal
<1>4. CASE DropJournal(p)
  BY <1>4 DEF DropJournal
<1>5. CASE DropStages(p)
  BY <1>5 DEF DropStages
<1>6. CASE DropStagesAndRaise(p)
  BY <1>6 DEF DropStagesAndRaise
<1>7. QED
  BY <1>1, <1>2, <1>3, <1>4, <1>5, <1>6

\* What a call found and what it writes are sets of records.
LEMMA FoundType ==
  ASSUME TypeOK, NEW p \in Proc
  PROVE  /\ [events |-> UNION events, units |-> UNION units] \in Snapshot
         /\ found[p].events \in SUBSET Event /\ found[p].units \in SUBSET ChangeUnit
         /\ call[p].batch.events \in SUBSET Event /\ call[p].batch.units \in SUBSET ChangeUnit
         /\ call[p].batch \in Snapshot
BY DEF TypeOK, Snapshot

LEMMA InsertionType ==
  ASSUME TypeOK, NEW p \in Proc,
         \/ StageEvents(p) \/ StageUnits(p) \/ WriteJournal(p)
         \/ WriteEvents(p) \/ WriteUnits(p) \/ Commit(p) \/ DropNew(p)
  PROVE  TypeOK'
<1> USE DEF TypeOK, Goto, Holding, files, locals
<1>1. CASE StageEvents(p)
  BY <1>1, FoundType DEF StageEvents
<1>2. CASE StageUnits(p)
  BY <1>2, FoundType DEF StageUnits
<1>3. CASE WriteJournal(p)
  <2>1. journal' \in SUBSET Journal
    BY <1>3, FoundType DEF WriteJournal, Journal
  <2>2. QED
    BY <1>3, <2>1 DEF WriteJournal
<1>4. CASE WriteEvents(p)
  BY <1>4, FoundType DEF WriteEvents
<1>5. CASE WriteUnits(p)
  BY <1>5, FoundType DEF WriteUnits
<1>6. CASE Commit(p)
  BY <1>6 DEF Commit
<1>7. CASE DropNew(p)
  BY <1>7 DEF DropNew
<1>8. QED
  BY <1>1, <1>2, <1>3, <1>4, <1>5, <1>6, <1>7

LEMMA TypeStep == TypeOK /\ [Next]_vars => TypeOK'
<1> SUFFICES ASSUME TypeOK, [Next]_vars
             PROVE  TypeOK'
  OBVIOUS
<1>1. ASSUME NEW p \in Proc, NEW op \in Operation, NEW b \in Batch, Call(p, op, b)
      PROVE  TypeOK'
  BY <1>1, NothingType, BatchType DEF Call, Goto, TypeOK, files
<1>2. ASSUME NEW p \in Proc, Acquire(p)
      PROVE  TypeOK'
  BY <1>2 DEF Acquire, Goto, TypeOK, Holding, files, locals
<1>3. ASSUME NEW p \in Proc,
             \/ LoadReturns(p) \/ UpsertNothing(p) \/ SaveEvents(p) \/ SaveUnits(p)
      PROVE  TypeOK'
  <2> USE DEF TypeOK, Goto, Holding, files, locals
  <2>1. CASE LoadReturns(p)
    BY <2>1, FoundType DEF LoadReturns
  <2>2. CASE UpsertNothing(p)
    BY <2>2 DEF UpsertNothing
  <2>3. CASE SaveEvents(p)
    BY <2>3, FoundType DEF SaveEvents
  <2>4. CASE SaveUnits(p)
    BY <2>4, FoundType DEF SaveUnits
  <2>5. QED
    BY <1>3, <2>1, <2>2, <2>3, <2>4
<1>4. ASSUME NEW p \in Proc, Return(p)
      PROVE  TypeOK'
  BY <1>4, LeaveType, FoundType DEF Return, TypeOK
<1>5. ASSUME NEW p \in Proc, Reject(p) \/ Crash(p)
      PROVE  TypeOK'
  BY <1>5, LeaveType DEF Reject, Crash, TypeOK
<1>6. ASSUME NEW p \in Proc, Fail(p)
      PROVE  TypeOK'
  BY <1>6 DEF Fail, TypeOK, Holding, files
<1>7. CASE UNCHANGED vars
  BY <1>7 DEF vars, files, locals, TypeOK
<1>8. QED
  BY <1>1, <1>2, <1>3, <1>4, <1>5, <1>6, <1>7, RecoveryType, InsertionType DEF Next, Step

(***************************************************************************)
(* What a recovery would leave.                                            *)
(***************************************************************************)

LEMMA CommittedWithoutJournal ==
  /\ journal = {} => CommittedEvents = events /\ CommittedUnits = units
  /\ journal' = {} => CommittedEvents' = events' /\ CommittedUnits' = units'
BY DEF CommittedEvents, CommittedUnits

LEMMA CommittedWithJournal ==
  ASSUME NEW j
  PROVE  /\ journal = {j} =>
              /\ CommittedEvents = IF j.eventsExisted THEN {j.eventsOld} ELSE {}
              /\ CommittedUnits = IF j.unitsExisted THEN {j.unitsOld} ELSE {}
         /\ journal' = {j} =>
              /\ CommittedEvents' = IF j.eventsExisted THEN {j.eventsOld} ELSE {}
              /\ CommittedUnits' = IF j.unitsExisted THEN {j.unitsOld} ELSE {}
BY DEF CommittedEvents, CommittedUnits

\* While there is a journal, the two logs may change: what is committed does not.
LEMMA CommittedKept ==
  ASSUME journal' = journal, journal = {} => events' = events /\ units' = units
  PROVE  CommittedEvents' = CommittedEvents /\ CommittedUnits' = CommittedUnits
BY DEF CommittedEvents, CommittedUnits

\* The journal of the moment, and what it says.
LEMMA TheJournal ==
  ASSUME FilesInv, NEW j \in journal
  PROVE  /\ journal = {j}
         /\ Staged(j)
         /\ CommittedEvents = IF j.eventsExisted THEN {j.eventsOld} ELSE {}
         /\ CommittedUnits = IF j.unitsExisted THEN {j.unitsOld} ELSE {}
<1>1. journal = {j} /\ Staged(j)
  BY DEF FilesInv, AlwaysRecoverable
<1>2. QED
  BY <1>1, CommittedWithJournal

\* Steps that leave what is committed as it is.
LEMMA FilesKept ==
  ASSUME FilesInv, CommittedEvents' = CommittedEvents, CommittedUnits' = CommittedUnits,
         \A x, y \in events' : x = y, \A x, y \in units' : x = y,
         \A j, k \in journal' : j = k, AlwaysRecoverable'
  PROVE  FilesInv'
BY DEF FilesInv

LEMMA AcknowledgedKept ==
  ASSUME AcknowledgedDurable, acked' = acked,
         UNION CommittedEvents \subseteq UNION CommittedEvents',
         UNION CommittedUnits \subseteq UNION CommittedUnits'
  PROVE  AcknowledgedDurable'
BY DEF AcknowledgedDurable

(***************************************************************************)
(* Only the holder of the guard is in the middle of a call.                *)
(***************************************************************************)

LEMMA OthersWait ==
  ASSUME IInv, NEW p \in Proc, NEW q \in Proc, p # q, pc[p] \in Holding,
         pc'[q] = pc[q], call'[q] = call[q], raising'[q] = raising[q]
  PROVE  CallInv(q)'
<1>1. pc[q] \notin Holding
  <2>1. guard = {p}
    BY DEF IInv, CallInv
  <2>2. pc[q] \in Holding => guard = {q}
    BY DEF IInv, CallInv
  <2>3. QED
    BY <2>1, <2>2
<1>2. pc'[q] \notin Holding
  BY <1>1
<1>3. (call'[q].op # "load" => call'[q].batch \in Batch) /\ ~raising'[q]
  BY <1>1 DEF IInv, CallInv
<1>4. QED
  BY <1>2, <1>3 DEF CallInv, Holding, Inserted

LEMMA OthersUndisturbed ==
  ASSUME IInv, NEW q \in Proc, UNCHANGED files, guard = {q} => guard' = {q},
         pc'[q] = pc[q], call'[q] = call[q], found'[q] = found[q], raising'[q] = raising[q]
  PROVE  CallInv(q)'
<1>1. CallInv(q)
  BY DEF IInv
<1>2. CommittedEvents' = CommittedEvents /\ CommittedUnits' = CommittedUnits
  BY CommittedKept DEF files
<1>3. pc'[q] \in Holding => guard' = {q}
  BY <1>1 DEF CallInv
<1>4. QED
  BY <1>1, <1>2, <1>3 DEF CallInv, Stored, Inserted, files

\* A step that changes no file.
LEMMA FilesUnchanged ==
  ASSUME FilesInv, UNCHANGED files
  PROVE  /\ FilesInv'
         /\ CommittedEvents' = CommittedEvents /\ CommittedUnits' = CommittedUnits
         /\ AcknowledgedDurable /\ acked' = acked => AcknowledgedDurable'
<1>1. CommittedEvents' = CommittedEvents /\ CommittedUnits' = CommittedUnits
  BY CommittedKept DEF files
<1>2. AlwaysRecoverable'
  BY DEF FilesInv, AlwaysRecoverable, Staged, files
<1>3. FilesInv'
  BY <1>1, <1>2, FilesKept DEF FilesInv, files
<1>4. QED
  BY <1>1, <1>3, AcknowledgedKept

(***************************************************************************)
(* The steps of a call.                                                    *)
(***************************************************************************)

LEMMA LeaveInv ==
  ASSUME IInv, NEW p \in Proc, Leave(p)
  PROVE  /\ FilesInv' /\ \A q \in Proc : CallInv(q)'
         /\ acked' = acked => AcknowledgedDurable'
<1>1. FilesInv' /\ (acked' = acked => AcknowledgedDurable')
  BY FilesUnchanged DEF IInv, Leave
<1>2. CallInv(p)'
  BY DEF IInv, TypeOK, Leave, CallInv, Holding, Inserted
<1>3. ASSUME NEW q \in Proc, q # p
      PROVE  CallInv(q)'
  BY <1>3, OthersUndisturbed DEF IInv, TypeOK, Leave
<1>4. QED
  BY <1>1, <1>2, <1>3

LEMMA CallStep ==
  ASSUME IInv, NEW p \in Proc, NEW op \in Operation, NEW b \in Batch, Call(p, op, b)
  PROVE  FilesInv' /\ (\A q \in Proc : CallInv(q)') /\ AcknowledgedDurable'
<1>1. FilesInv' /\ AcknowledgedDurable'
  BY FilesUnchanged DEF IInv, Call
<1>2. CallInv(p)'
  <2>1. /\ pc[p] = "idle" /\ pc'[p] = "guard" /\ raising' = raising
        /\ call'[p].op # "load" => call'[p].batch \in Batch
    BY DEF IInv, TypeOK, Call, Goto
  <2>2. ~raising[p]
    BY <2>1 DEF IInv, CallInv, Holding
  <2>3. QED
    BY <2>1, <2>2 DEF CallInv, Holding, Inserted
<1>3. ASSUME NEW q \in Proc, q # p
      PROVE  CallInv(q)'
  BY <1>3, OthersUndisturbed DEF IInv, TypeOK, Call, Goto
<1>4. QED
  BY <1>1, <1>2, <1>3

LEMMA AcquireStep ==
  ASSUME IInv, NEW p \in Proc, Acquire(p)
  PROVE  FilesInv' /\ (\A q \in Proc : CallInv(q)') /\ AcknowledgedDurable'
<1>1. FilesInv' /\ AcknowledgedDurable'
  BY FilesUnchanged DEF IInv, Acquire
<1>2. CallInv(p)'
  BY DEF IInv, TypeOK, Acquire, Goto, CallInv, Holding, Inserted, locals
<1>3. ASSUME NEW q \in Proc, q # p
      PROVE  CallInv(q)'
  BY <1>3, OthersUndisturbed DEF IInv, TypeOK, Acquire, Goto, locals
<1>4. QED
  BY <1>1, <1>2, <1>3

\* A failing write changes no file: the handler finds them as they are.
LEMMA FailStep ==
  ASSUME IInv, NEW p \in Proc, Fail(p)
  PROVE  FilesInv' /\ (\A q \in Proc : CallInv(q)') /\ AcknowledgedDurable'
<1>1. FilesInv' /\ AcknowledgedDurable'
  BY FilesUnchanged DEF IInv, Fail
<1>2. CallInv(p)'
  <2>1. CallInv(p) /\ pc[p] \in Holding /\ call[p].op = "upsert"
    BY DEF IInv, Fail, CallInv, Holding
  <2>2. pc'[p] = "recover" /\ guard' = guard /\ call' = call
    BY DEF IInv, TypeOK, Fail
  <2>3. QED
    BY <2>1, <2>2 DEF CallInv, Holding, Inserted
<1>3. ASSUME NEW q \in Proc, q # p
      PROVE  CallInv(q)'
  BY <1>3, OthersUndisturbed DEF IInv, TypeOK, Fail
<1>4. QED
  BY <1>1, <1>2, <1>3

\* Each step of a recovery brings one log back, or removes what is no longer needed.
LEMMA RecoveryStep ==
  ASSUME IInv, NEW p \in Proc,
         \/ NoJournal(p) \/ RollBackEvents(p) \/ RollBackUnits(p) \/ DropJournal(p)
         \/ DropStages(p) \/ DropStagesAndRaise(p)
  PROVE  FilesInv' /\ (\A q \in Proc : CallInv(q)') /\ AcknowledgedDurable'
<1>0. CallInv(p) /\ FilesInv /\ pc \in [Proc -> {"idle", "guard"} \cup Holding]
  BY DEF IInv, TypeOK
<1>1. ASSUME NEW q \in Proc, q # p
      PROVE  CallInv(q)'
  <2>1. pc[p] \in Holding /\ pc'[q] = pc[q] /\ call'[q] = call[q] /\ raising'[q] = raising[q]
    BY <1>0, <1>1 DEF NoJournal, RollBackEvents, RollBackUnits, DropJournal, DropStages,
                      DropStagesAndRaise, Goto, Holding, locals
  <2>2. QED
    BY <1>1, <2>1, OthersWait
<1>2. CASE NoJournal(p)
  <2>1. FilesInv' /\ AcknowledgedDurable'
    BY <1>2, FilesUnchanged DEF NoJournal, IInv
  <2>2. CallInv(p)'
    BY <1>0, <1>2 DEF NoJournal, Goto, CallInv, Holding, Inserted, files, locals
  <2>3. QED
    BY <1>1, <2>1, <2>2
<1>3. CASE RollBackEvents(p)
  <2>1. PICK j \in journal : /\ Staged(j)
                             /\ events' = IF j.eventsExisted THEN {j.eventsOld} ELSE {}
    BY <1>3 DEF RollBackEvents
  <2>2. journal = {j} /\ events' = CommittedEvents
    BY <1>0, <2>1, TheJournal
  <2>3. CommittedEvents' = CommittedEvents /\ CommittedUnits' = CommittedUnits
    BY <1>3, <2>2, CommittedKept DEF RollBackEvents
  <2>4. AlwaysRecoverable'
    BY <1>0, <1>3 DEF FilesInv, AlwaysRecoverable, Staged, RollBackEvents
  <2>5. FilesInv'
    <3>1. \A x, y \in events' : x = y
      BY <2>1
    <3>2. QED
      BY <1>0, <1>3, <2>3, <2>4, <3>1, FilesKept DEF FilesInv, RollBackEvents
  <2>6. AcknowledgedDurable'
    BY <1>3, <2>3, AcknowledgedKept DEF IInv, RollBackEvents
  <2>7. CallInv(p)'
    <3>1. pc'[p] = "rollUnits" /\ guard' = guard /\ call' = call /\ raising' = raising /\ pc[p] = "recover"
      BY <1>0, <1>3 DEF RollBackEvents, Goto, locals
    <3>2. journal' # {} /\ events' = CommittedEvents'
      BY <1>3, <2>2, <2>3 DEF RollBackEvents
    <3>3. QED
      BY <1>0, <3>1, <3>2 DEF CallInv, Holding, Inserted
  <2>8. QED
    BY <1>1, <2>5, <2>6, <2>7
<1>4. CASE RollBackUnits(p)
  <2>1. PICK j \in journal : units' = IF j.unitsExisted THEN {j.unitsOld} ELSE {}
    BY <1>4 DEF RollBackUnits
  <2>2. journal = {j} /\ units' = CommittedUnits
    BY <1>0, <2>1, TheJournal
  <2>3. CommittedEvents' = CommittedEvents /\ CommittedUnits' = CommittedUnits
    BY <1>4, <2>2, CommittedKept DEF RollBackUnits
  <2>4. AlwaysRecoverable'
    BY <1>0, <1>4 DEF FilesInv, AlwaysRecoverable, Staged, RollBackUnits
  <2>5. FilesInv'
    <3>1. \A x, y \in units' : x = y
      BY <2>1
    <3>2. QED
      BY <1>0, <1>4, <2>3, <2>4, <3>1, FilesKept DEF FilesInv, RollBackUnits
  <2>6. AcknowledgedDurable'
    BY <1>4, <2>3, AcknowledgedKept DEF IInv, RollBackUnits
  <2>7. CallInv(p)'
    <3>1. pc'[p] = "dropJournal" /\ guard' = guard /\ call' = call /\ raising' = raising /\ pc[p] = "rollUnits"
      BY <1>0, <1>4 DEF RollBackUnits, Goto, locals
    <3>2. journal' # {} /\ events' = CommittedEvents' /\ units' = CommittedUnits'
      BY <1>0, <1>4, <2>2, <2>3, <3>1 DEF RollBackUnits, CallInv
    <3>3. QED
      BY <1>0, <3>1, <3>2 DEF CallInv, Holding, Inserted
  <2>8. QED
    BY <1>1, <2>5, <2>6, <2>7
<1>5. CASE DropJournal(p)
  <2>1. pc'[p] = "dropStages" /\ guard' = guard /\ call' = call /\ raising' = raising /\ pc[p] = "dropJournal"
    BY <1>0, <1>5 DEF DropJournal, Goto, locals
  <2>2. events' = CommittedEvents /\ units' = CommittedUnits /\ journal' = {}
    BY <1>0, <1>5, <2>1 DEF DropJournal, CallInv
  <2>3. CommittedEvents' = CommittedEvents /\ CommittedUnits' = CommittedUnits
    BY <2>2, CommittedWithoutJournal
  <2>4. FilesInv'
    BY <1>0, <1>5, <2>2, <2>3, FilesKept DEF FilesInv, DropJournal, AlwaysRecoverable
  <2>5. AcknowledgedDurable'
    BY <1>5, <2>3, AcknowledgedKept DEF IInv, DropJournal
  <2>6. CallInv(p)'
    BY <1>0, <2>1, <2>2 DEF CallInv, Holding, Inserted
  <2>7. QED
    BY <1>1, <2>4, <2>5, <2>6
<1>6. CASE DropStages(p) \/ DropStagesAndRaise(p)
  <2>1. /\ pc[p] = "dropStages" /\ guard' = guard /\ call' = call /\ raising' = raising
        /\ events' = events /\ units' = units /\ journal' = journal /\ acked' = acked
        /\ \/ pc'[p] = "read"
           \/ pc'[p] = "done" /\ raising'[p]
    BY <1>0, <1>6 DEF DropStages, DropStagesAndRaise, Goto, locals
  <2>2. journal' = {}
    BY <1>0, <2>1 DEF CallInv
  <2>3. CommittedEvents' = CommittedEvents /\ CommittedUnits' = CommittedUnits
    BY <2>1, CommittedKept
  <2>4. FilesInv'
    BY <1>0, <2>1, <2>2, <2>3, FilesKept DEF FilesInv, AlwaysRecoverable
  <2>5. AcknowledgedDurable'
    BY <2>1, <2>3, AcknowledgedKept DEF IInv
  <2>6. CallInv(p)'
    BY <1>0, <2>1, <2>2 DEF CallInv, Holding, Inserted
  <2>7. QED
    BY <1>1, <2>4, <2>5, <2>6
<1>7. QED
  BY <1>2, <1>3, <1>4, <1>5, <1>6

\* The journal describes the logs as they are and the stages as they were written,
\* so that writing it changes nothing that a recovery would leave.
LEMMA JournalWritten ==
  ASSUME IInv, NEW p \in Proc, WriteJournal(p)
  PROVE  /\ CommittedEvents' = CommittedEvents /\ CommittedUnits' = CommittedUnits
         /\ AlwaysRecoverable'
<1>1. PICK j :
        /\ journal' = {j}
        /\ j = [eventsExisted |-> events # {}, unitsExisted |-> units # {},
                eventsOld |-> found[p].events, unitsOld |-> found[p].units]
  BY DEF WriteJournal
<1>2. /\ j.eventsExisted = (events # {})
      /\ j.unitsExisted = (units # {})
      /\ j.eventsOld = found[p].events /\ j.unitsOld = found[p].units
  BY <1>1
<1>3. /\ eventsOld = {found[p].events} /\ unitsOld = {found[p].units}
      /\ eventsOld' = eventsOld /\ unitsOld' = unitsOld
      /\ CommittedEvents = events /\ CommittedUnits = units
      /\ found[p].events = UNION events /\ found[p].units = UNION units
  <2>1. CallInv(p) /\ pc[p] = "journal" /\ eventsOld' = eventsOld /\ unitsOld' = unitsOld
    BY DEF IInv, WriteJournal, Goto
  <2>2. QED
    BY <2>1, CommittedWithoutJournal DEF CallInv
<1>4. /\ events # {} => events = {UNION events}
      /\ units # {} => units = {UNION units}
  <2>1. (\A x, y \in events : x = y) /\ (\A x, y \in units : x = y)
    BY DEF IInv, FilesInv
  <2>2. \A x : UNION {x} = x
    OBVIOUS
  <2>3. (events # {} => \E x : events = {x}) /\ (units # {} => \E x : units = {x})
    BY ONLY <2>1
  <2>4. QED
    BY ONLY <2>2, <2>3
<1>5. journal' = {j}
  BY <1>1
<1>6. CommittedEvents' = IF events # {} THEN {UNION events} ELSE {}
  BY <1>2, <1>3, <1>5, CommittedWithJournal
<1>7. CommittedUnits' = IF units # {} THEN {UNION units} ELSE {}
  BY <1>2, <1>3, <1>5, CommittedWithJournal
<1>8. AlwaysRecoverable'
  <2>1. eventsOld' = {j.eventsOld} /\ unitsOld' = {j.unitsOld}
    BY <1>2, <1>3
  <2>2. QED
    BY <1>5, <2>1 DEF AlwaysRecoverable, Staged
<1>9. QED
  BY <1>3, <1>4, <1>6, <1>7, <1>8

\* The unlink of the journal adds the whole batch to both logs.
LEMMA CommitInserts ==
  ASSUME IInv, NEW p \in Proc, Commit(p)
  PROVE  /\ CommittedEvents' = {(UNION CommittedEvents) \cup call[p].batch.events}
         /\ CommittedUnits' = {(UNION CommittedUnits) \cup call[p].batch.units}
         /\ Valid((UNION CommittedEvents) \cup call[p].batch.events,
                  (UNION CommittedUnits) \cup call[p].batch.units)
         /\ call[p].batch \in Batch
<1>1. CallInv(p) /\ pc[p] = "commit" /\ journal' = {} /\ events' = events /\ units' = units
  BY DEF IInv, Commit, Goto
<1>2. /\ found[p].events = UNION CommittedEvents /\ found[p].units = UNION CommittedUnits
      /\ events = {found[p].events \cup call[p].batch.events}
      /\ units = {found[p].units \cup call[p].batch.units}
      /\ Valid(found[p].events \cup call[p].batch.events, found[p].units \cup call[p].batch.units)
      /\ call[p].batch \in Batch
  BY <1>1 DEF CallInv
<1>3. CommittedEvents' = events /\ CommittedUnits' = units
  BY <1>1, CommittedWithoutJournal
<1>4. QED
  BY <1>2, <1>3

\* An insertion, from its look at the logs to the removal of its stages.
LEMMA InsertionStep ==
  ASSUME IInv, NEW p \in Proc,
         \/ StageEvents(p) \/ StageUnits(p) \/ WriteJournal(p)
         \/ WriteEvents(p) \/ WriteUnits(p) \/ Commit(p) \/ DropNew(p)
  PROVE  FilesInv' /\ (\A q \in Proc : CallInv(q)') /\ AcknowledgedDurable'
<1>0. /\ CallInv(p) /\ FilesInv /\ pc \in [Proc -> {"idle", "guard"} \cup Holding]
      /\ found \in [Proc -> Snapshot]
  BY DEF IInv, TypeOK
<1>1. ASSUME NEW q \in Proc, q # p
      PROVE  CallInv(q)'
  <2>1. pc[p] \in Holding /\ pc'[q] = pc[q] /\ call'[q] = call[q] /\ raising'[q] = raising[q]
    BY <1>0, <1>1 DEF StageEvents, StageUnits, WriteJournal, WriteEvents, WriteUnits,
                      Commit, DropNew, Goto, Holding, locals
  <2>2. QED
    BY <1>1, <2>1, OthersWait
<1>2. CASE StageEvents(p)
  <2>1. /\ pc[p] = "read" /\ pc'[p] = "stageUnits" /\ guard' = guard /\ call' = call /\ raising' = raising
        /\ events' = events /\ units' = units /\ journal' = journal /\ acked' = acked
        /\ found'[p] = [events |-> UNION events, units |-> UNION units]
        /\ eventsOld' = {UNION events} /\ call[p].op = "upsert" /\ Mergeable(call[p].batch)
    BY <1>0, <1>2 DEF StageEvents, Goto
  <2>2. journal' = {}
    BY <1>0, <2>1 DEF CallInv
  <2>3. /\ CommittedEvents' = CommittedEvents /\ CommittedUnits' = CommittedUnits
        /\ CommittedEvents' = events /\ CommittedUnits' = units
    BY <2>1, <2>2, CommittedWithoutJournal
  <2>4. FilesInv'
    BY <1>0, <2>1, <2>2, <2>3, FilesKept DEF FilesInv, AlwaysRecoverable
  <2>5. AcknowledgedDurable'
    BY <2>1, <2>3, AcknowledgedKept DEF IInv
  <2>6. CallInv(p)'
    <3>1. Valid(found'[p].events \cup call'[p].batch.events,
                found'[p].units \cup call'[p].batch.units)
      <4>1. found'[p].events = UNION events /\ found'[p].units = UNION units
        BY <2>1
      <4>2. QED
        BY <2>1, <4>1 DEF Mergeable
    <3>2. found'[p] = [events |-> UNION CommittedEvents', units |-> UNION CommittedUnits']
      BY <2>1, <2>3
    <3>3. eventsOld' = {found'[p].events}
      BY <2>1
    <3>4. QED
      BY <1>0, <2>1, <2>2, <3>1, <3>2, <3>3 DEF CallInv, Holding, Inserted
  <2>7. QED
    BY <1>1, <2>4, <2>5, <2>6
<1>3. CASE StageUnits(p)
  <2>1. /\ pc[p] = "stageUnits" /\ pc'[p] = "journal" /\ guard' = guard
        /\ call' = call /\ raising' = raising /\ found' = found /\ acked' = acked
        /\ events' = events /\ units' = units /\ journal' = journal
        /\ eventsOld' = eventsOld /\ unitsOld' = {found[p].units}
    BY <1>0, <1>3 DEF StageUnits, Goto, locals
  <2>2. journal' = {}
    BY <1>0, <2>1 DEF CallInv
  <2>3. CommittedEvents' = CommittedEvents /\ CommittedUnits' = CommittedUnits
    BY <2>1, CommittedKept
  <2>4. FilesInv'
    BY <1>0, <2>1, <2>2, <2>3, FilesKept DEF FilesInv, AlwaysRecoverable
  <2>5. AcknowledgedDurable'
    BY <2>1, <2>3, AcknowledgedKept DEF IInv
  <2>6. CallInv(p)'
    BY <1>0, <2>1, <2>2, <2>3 DEF CallInv, Holding, Inserted
  <2>7. QED
    BY <1>1, <2>4, <2>5, <2>6
<1>4. CASE WriteJournal(p)
  <2>1. /\ pc[p] = "journal" /\ pc'[p] = "events" /\ guard' = guard
        /\ call' = call /\ raising' = raising /\ found' = found /\ acked' = acked
        /\ events' = events /\ units' = units /\ journal' # {}
        /\ \A j, k \in journal' : j = k
    BY <1>0, <1>4 DEF WriteJournal, Goto, locals
  <2>2. /\ CommittedEvents' = CommittedEvents /\ CommittedUnits' = CommittedUnits
        /\ AlwaysRecoverable'
    BY <1>4, JournalWritten
  <2>3. FilesInv'
    BY <1>0, <2>1, <2>2, FilesKept DEF FilesInv
  <2>4. AcknowledgedDurable'
    BY <2>1, <2>2, AcknowledgedKept DEF IInv
  <2>5. CallInv(p)'
    BY <1>0, <2>1, <2>2 DEF CallInv, Holding, Inserted
  <2>6. QED
    BY <1>1, <2>3, <2>4, <2>5
<1>5. CASE WriteEvents(p)
  <2>1. /\ pc[p] = "events" /\ pc'[p] = "units" /\ guard' = guard
        /\ call' = call /\ raising' = raising /\ found' = found /\ acked' = acked
        /\ events' = {found[p].events \cup call[p].batch.events} /\ units' = units
        /\ journal' = journal /\ eventsOld' = eventsOld /\ unitsOld' = unitsOld
    BY <1>0, <1>5 DEF WriteEvents, Goto, locals
  <2>2. journal # {}
    BY <1>0, <2>1 DEF CallInv
  <2>3. CommittedEvents' = CommittedEvents /\ CommittedUnits' = CommittedUnits
    BY <2>1, <2>2, CommittedKept
  <2>4. AlwaysRecoverable'
    BY <1>0, <2>1 DEF FilesInv, AlwaysRecoverable, Staged
  <2>5. FilesInv'
    BY <1>0, <2>1, <2>3, <2>4, FilesKept DEF FilesInv
  <2>6. AcknowledgedDurable'
    BY <2>1, <2>3, AcknowledgedKept DEF IInv
  <2>7. CallInv(p)'
    BY <1>0, <2>1, <2>2, <2>3 DEF CallInv, Holding, Inserted
  <2>8. QED
    BY <1>1, <2>5, <2>6, <2>7
<1>6. CASE WriteUnits(p)
  <2>1. /\ pc[p] = "units" /\ pc'[p] = "commit" /\ guard' = guard
        /\ call' = call /\ raising' = raising /\ found' = found /\ acked' = acked
        /\ events' = events /\ units' = {found[p].units \cup call[p].batch.units}
        /\ journal' = journal /\ eventsOld' = eventsOld /\ unitsOld' = unitsOld
    BY <1>0, <1>6 DEF WriteUnits, Goto, locals
  <2>2. journal # {}
    BY <1>0, <2>1 DEF CallInv
  <2>3. CommittedEvents' = CommittedEvents /\ CommittedUnits' = CommittedUnits
    BY <2>1, <2>2, CommittedKept
  <2>4. AlwaysRecoverable'
    BY <1>0, <2>1 DEF FilesInv, AlwaysRecoverable, Staged
  <2>5. FilesInv'
    BY <1>0, <2>1, <2>3, <2>4, FilesKept DEF FilesInv
  <2>6. AcknowledgedDurable'
    BY <2>1, <2>3, AcknowledgedKept DEF IInv
  <2>7. CallInv(p)'
    BY <1>0, <2>1, <2>2, <2>3 DEF CallInv, Holding, Inserted
  <2>8. QED
    BY <1>1, <2>5, <2>6, <2>7
<1>7. CASE Commit(p)
  <2>1. /\ pc[p] = "commit" /\ pc'[p] = "dropNew" /\ guard' = guard
        /\ call' = call /\ raising' = raising /\ acked' = acked
        /\ events' = events /\ units' = units /\ journal' = {}
    BY <1>0, <1>7 DEF Commit, Goto, locals
  <2>2. /\ CommittedEvents' = {(UNION CommittedEvents) \cup call[p].batch.events}
        /\ CommittedUnits' = {(UNION CommittedUnits) \cup call[p].batch.units}
        /\ Valid((UNION CommittedEvents) \cup call[p].batch.events,
                 (UNION CommittedUnits) \cup call[p].batch.units)
    BY <1>7, CommitInserts
  <2>3. CommittedEvents' = events /\ CommittedUnits' = units
    BY <2>1, CommittedWithoutJournal
  <2>4. FilesInv'
    <3>1. Valid(UNION CommittedEvents', UNION CommittedUnits')
      <4>1. /\ UNION CommittedEvents' = (UNION CommittedEvents) \cup call[p].batch.events
            /\ UNION CommittedUnits' = (UNION CommittedUnits) \cup call[p].batch.units
        BY <2>2
      <4>2. QED
        BY <2>2, <4>1
    <3>2. QED
      BY <2>1, <2>2, <2>3, <3>1 DEF FilesInv, AlwaysRecoverable
  <2>5. AcknowledgedDurable'
    BY <2>1, <2>2, AcknowledgedKept DEF IInv
  <2>6. CallInv(p)'
    <3>1. Stored(p)' /\ call[p].op = "upsert"
      BY <1>0, <2>1, <2>2, <2>3 DEF CallInv, Stored
    <3>2. QED
      BY <1>0, <2>1, <3>1 DEF CallInv, Holding, Inserted
  <2>7. QED
    BY <1>1, <2>4, <2>5, <2>6
<1>8. CASE DropNew(p)
  <2>1. /\ pc[p] = "dropNew" /\ pc'[p] = "done" /\ guard' = guard
        /\ call' = call /\ raising' = raising /\ acked' = acked
        /\ events' = events /\ units' = units /\ journal' = journal
    BY <1>0, <1>8 DEF DropNew, Goto, locals
  <2>2. journal' = {} /\ Stored(p)
    BY <1>0, <2>1 DEF CallInv
  <2>3. CommittedEvents' = CommittedEvents /\ CommittedUnits' = CommittedUnits
    BY <2>1, CommittedKept
  <2>4. FilesInv'
    BY <1>0, <2>1, <2>2, <2>3, FilesKept DEF FilesInv, AlwaysRecoverable
  <2>5. AcknowledgedDurable'
    BY <2>1, <2>3, AcknowledgedKept DEF IInv
  <2>6. CallInv(p)'
    BY <1>0, <2>1, <2>2 DEF CallInv, Holding, Inserted, Stored
  <2>7. QED
    BY <1>1, <2>4, <2>5, <2>6
<1>9. QED
  BY <1>2, <1>3, <1>4, <1>5, <1>6, <1>7, <1>8

\* What is decided in one step from the logs, once they are recovered.
LEMMA OperationStep ==
  ASSUME IInv, NEW p \in Proc,
         \/ LoadReturns(p) \/ UpsertNothing(p) \/ SaveEvents(p) \/ SaveUnits(p)
  PROVE  FilesInv' /\ (\A q \in Proc : CallInv(q)') /\ AcknowledgedDurable'
<1>0. CallInv(p) /\ FilesInv /\ pc \in [Proc -> {"idle", "guard"} \cup Holding]
  BY DEF IInv, TypeOK
<1>1. /\ pc[p] = "read" /\ pc'[p] = "done" /\ guard' = guard /\ call' = call /\ raising' = raising /\ acked' = acked
      /\ journal' = journal /\ eventsOld' = eventsOld /\ unitsOld' = unitsOld
      /\ \A q \in Proc : q # p => pc'[q] = pc[q]
  BY <1>0 DEF LoadReturns, UpsertNothing, SaveEvents, SaveUnits, Goto, files, locals
<1>2. journal = {} /\ journal' = {}
  BY <1>0, <1>1 DEF CallInv
<1>3. /\ CommittedEvents = events /\ CommittedUnits = units
      /\ CommittedEvents' = events' /\ CommittedUnits' = units'
  BY <1>2, CommittedWithoutJournal
<1>4. ASSUME NEW q \in Proc, q # p
      PROVE  CallInv(q)'
  BY <1>1, <1>4, OthersWait DEF Holding
<1>5. CASE LoadReturns(p) \/ UpsertNothing(p)
  <2>1. UNCHANGED files
    BY <1>5 DEF LoadReturns, UpsertNothing
  <2>2. FilesInv' /\ AcknowledgedDurable'
    BY <1>1, <2>1, FilesUnchanged DEF IInv
  <2>3. Inserted(p)' => Stored(p)'
    <3>1. CASE LoadReturns(p)
      BY <1>1, <3>1 DEF LoadReturns, Inserted
    <3>2. CASE UpsertNothing(p)
      BY <1>1, <2>1, <3>2 DEF UpsertNothing, Present, Stored, files
    <3>3. QED
      BY <1>5, <3>1, <3>2
  <2>4. CallInv(p)'
    BY <1>0, <1>1, <1>2, <2>3 DEF CallInv, Holding
  <2>5. QED
    BY <1>4, <2>2, <2>4
<1>6. CASE SaveEvents(p)
  <2>1. /\ events' = {call[p].batch.events} /\ units' = units
        /\ events \subseteq {call[p].batch.events} /\ call[p].op = "saveEvents"
        /\ Valid(call[p].batch.events, UNION units)
    BY <1>6 DEF SaveEvents
  <2>2. UNION events' = call[p].batch.events /\ UNION events \subseteq UNION events'
    BY <2>1
  <2>3. FilesInv'
    BY <1>0, <1>1, <1>2, <1>3, <2>1, <2>2 DEF FilesInv, AlwaysRecoverable
  <2>4. AcknowledgedDurable'
    BY <1>1, <1>3, <2>1, <2>2, AcknowledgedKept DEF IInv
  <2>5. CallInv(p)'
    BY <1>0, <1>1, <1>2, <2>1 DEF CallInv, Holding, Inserted
  <2>6. QED
    BY <1>4, <2>3, <2>4, <2>5
<1>7. CASE SaveUnits(p)
  <2>1. /\ units' = {call[p].batch.units} /\ events' = events
        /\ units \subseteq {call[p].batch.units} /\ call[p].op = "saveUnits"
        /\ Valid(UNION events, call[p].batch.units)
    BY <1>7 DEF SaveUnits
  <2>2. UNION units' = call[p].batch.units /\ UNION units \subseteq UNION units'
    BY <2>1
  <2>3. FilesInv'
    BY <1>0, <1>1, <1>2, <1>3, <2>1, <2>2 DEF FilesInv, AlwaysRecoverable
  <2>4. AcknowledgedDurable'
    BY <1>1, <1>3, <2>1, <2>2, AcknowledgedKept DEF IInv
  <2>5. CallInv(p)'
    BY <1>0, <1>1, <1>2, <2>1 DEF CallInv, Holding, Inserted
  <2>6. QED
    BY <1>4, <2>3, <2>4, <2>5
<1>8. QED
  BY <1>5, <1>6, <1>7

\* Whoever is told that a batch is stored has seen it in both logs.
LEMMA ReturnStep ==
  ASSUME IInv, NEW p \in Proc, Return(p)
  PROVE  FilesInv' /\ (\A q \in Proc : CallInv(q)') /\ AcknowledgedDurable'
<1>1. FilesInv' /\ \A q \in Proc : CallInv(q)'
  BY LeaveInv DEF Return
<1>2. CommittedEvents' = CommittedEvents /\ CommittedUnits' = CommittedUnits
  BY FilesUnchanged DEF Return, Leave, IInv
<1>3. Inserted(p) => /\ call[p].batch.events \subseteq UNION CommittedEvents
                     /\ call[p].batch.units \subseteq UNION CommittedUnits
  <2>1. CallInv(p) /\ pc[p] = "done"
    BY DEF IInv, Return
  <2>2. journal = {}
    BY <2>1 DEF CallInv
  <2>3. QED
    BY <2>1, <2>2, CommittedWithoutJournal DEF CallInv, Stored
<1>4. AcknowledgedDurable'
  BY <1>2, <1>3 DEF IInv, AcknowledgedDurable, Return
<1>5. QED
  BY <1>1, <1>4

(***************************************************************************)
(* The theorems.                                                           *)
(***************************************************************************)

LEMMA InitInv == Init => IInv
<1> SUFFICES ASSUME Init
             PROVE  IInv
  OBVIOUS
<1>1. CommittedEvents = {} /\ CommittedUnits = {}
  BY CommittedWithoutJournal DEF Init
<1>2. FilesInv
  <2>1. Valid(UNION {}, UNION {})
    BY DEF Valid, UniqueIds, Links, SoleOwners, OneOrigin
  <2>2. QED
    BY <1>1, <2>1 DEF Init, FilesInv, AlwaysRecoverable
<1>3. ASSUME NEW p \in Proc
      PROVE  CallInv(p)
  BY DEF Init, CallInv, Holding, Inserted
<1>4. AcknowledgedDurable
  BY DEF Init, AcknowledgedDurable
<1>5. QED
  BY <1>2, <1>3, <1>4, TypeInit DEF IInv

LEMMA InvStep == IInv /\ [Next]_vars => IInv'
<1> SUFFICES ASSUME IInv, [Next]_vars
             PROVE  IInv'
  OBVIOUS
<1>0. TypeOK'
  BY TypeStep DEF IInv
<1>1. ASSUME NEW p \in Proc, Step(p)
      PROVE  FilesInv' /\ (\A q \in Proc : CallInv(q)') /\ AcknowledgedDurable'
  <2>1. CASE Reject(p)
    BY <2>1, LeaveInv DEF Reject
  <2>2. QED
    BY <1>1, <2>1, AcquireStep, RecoveryStep, OperationStep, InsertionStep, ReturnStep DEF Step
<1>2. ASSUME NEW p \in Proc, Crash(p)
      PROVE  FilesInv' /\ (\A q \in Proc : CallInv(q)') /\ AcknowledgedDurable'
  BY <1>2, LeaveInv DEF Crash
<1>3. CASE UNCHANGED vars
  <2>1. FilesInv' /\ AcknowledgedDurable'
    BY <1>3, FilesUnchanged DEF IInv, vars
  <2>2. ASSUME NEW q \in Proc
        PROVE  CallInv(q)'
    BY <1>3, OthersUndisturbed DEF vars, locals
  <2>3. QED
    BY <1>0, <2>1, <2>2 DEF IInv
<1>4. QED
  BY <1>0, <1>1, <1>2, <1>3, CallStep, FailStep DEF Next, IInv

\* The invariant holds in every reachable state.
THEOREM InductiveInvariant == Spec => []IInv
BY InitInv, InvStep, PTL DEF Spec

\* Every file holds records of its kind, and every process is somewhere in a call.
THEOREM TypeCorrect == Spec => []TypeOK
<1>1. IInv => TypeOK
  BY DEF IInv
<1>2. QED
  BY InductiveInvariant, <1>1, PTL

\* Whatever interrupts a batch or a recovery, the next recovery finds whole stages.
THEOREM Recoverable == Spec => []AlwaysRecoverable
<1>1. IInv => AlwaysRecoverable
  BY DEF IInv, FilesInv
<1>2. QED
  BY InductiveInvariant, <1>1, PTL

\* A batch whose insertion returned is in both logs for good.
THEOREM Durability == Spec => []AcknowledgedDurable
<1>1. IInv => AcknowledgedDurable
  BY DEF IInv
<1>2. QED
  BY InductiveInvariant, <1>1, PTL

(***************************************************************************)
(* The store implements AtomicHistory.                                     *)
(***************************************************************************)

LEMMA ValidMaps ==
  ASSUME NEW E, NEW U
  PROVE  History!Valid(E, U) <=> Valid(E, U)
BY DEF History!Valid, Valid, History!UniqueIds, UniqueIds, History!Links, Links, History!IdsOf,
       IdsOf, History!SoleOwners, SoleOwners, History!OneOrigin, OneOrigin

\* No load returned or was forgotten in this step.
NothingRead == \A q \in Proc : Reading(q)' = Reading(q)

\* Steps of a call between its begin and its return, but for a load's last look.
LEMMA BetweenReads ==
  ASSUME IInv, NEW p \in Proc, NEW to, Goto(p, pc[p], to),
         pc[p] # "done", to # "done" \/ call'[p].op # "load",
         \A q \in Proc : q # p => call'[q] = call[q] /\ found'[q] = found[q]
  PROVE  NothingRead
<1>1. ASSUME NEW q \in Proc, q # p
      PROVE  Reading(q)' = Reading(q)
  BY <1>1 DEF IInv, TypeOK, Reading, Goto
<1>2. Reading(p)' = Reading(p)
  BY DEF Reading, IInv, TypeOK, Goto
<1>3. QED
  BY <1>1, <1>2 DEF NothingRead

LEMMA SeenKept ==
  ASSUME NothingRead
  PROVE  [q \in Proc |-> Reading(q)]' = [q \in Proc |-> Reading(q)]
BY DEF NothingRead

LEMMA StutterMaps ==
  ASSUME NothingRead, CommittedEvents' = CommittedEvents, CommittedUnits' = CommittedUnits
  PROVE  UNCHANGED History!vars
BY SeenKept DEF History!vars

\* A call that ends forgets what it read.
LEMMA LeaveMaps ==
  ASSUME IInv, NEW p \in Proc, Leave(p)
  PROVE  History!Next
<1>1. CommittedEvents' = CommittedEvents /\ CommittedUnits' = CommittedUnits
  BY FilesUnchanged DEF Leave, IInv
<1>2. Reading(p)' = Nothing
  BY DEF Leave, Reading, IInv, TypeOK
<1>3. ASSUME NEW q \in Proc, q # p
      PROVE  Reading(q)' = Reading(q)
  BY <1>3 DEF Leave, Reading, IInv, TypeOK
<1>4. [q \in Proc |-> Reading(q)]' = [[q \in Proc |-> Reading(q)] EXCEPT ![p] = Nothing]
  BY <1>2, <1>3
<1>5. History!Forget(p)
  BY <1>1, <1>4 DEF History!Forget, History!Nothing, Nothing
<1>6. QED
  BY <1>5 DEF History!Next

\* Of an insertion only its commit shows, and of a recovery nothing.
LEMMA HiddenSteps ==
  ASSUME IInv, NEW p \in Proc,
         \/ NoJournal(p) \/ RollBackEvents(p) \/ RollBackUnits(p) \/ DropJournal(p)
         \/ DropStages(p) \/ DropStagesAndRaise(p)
         \/ StageEvents(p) \/ StageUnits(p) \/ WriteJournal(p)
         \/ WriteEvents(p) \/ WriteUnits(p) \/ DropNew(p)
  PROVE  UNCHANGED History!vars
<1>0. CallInv(p) /\ FilesInv
  BY DEF IInv
<1>1. CommittedEvents' = CommittedEvents /\ CommittedUnits' = CommittedUnits
  <2>1. CASE DropJournal(p)
    BY <1>0, <2>1, CommittedWithoutJournal DEF DropJournal, Goto, CallInv
  <2>2. CASE RollBackEvents(p) \/ RollBackUnits(p)
    BY <2>2, CommittedKept DEF RollBackEvents, RollBackUnits
  <2>3. CASE WriteEvents(p) \/ WriteUnits(p)
    BY <1>0, <2>3, CommittedKept DEF WriteEvents, WriteUnits, Goto, CallInv
  <2>4. CASE WriteJournal(p)
    BY <2>4, JournalWritten
  <2>5. CASE \/ NoJournal(p) \/ DropStages(p) \/ DropStagesAndRaise(p)
             \/ StageEvents(p) \/ StageUnits(p) \/ DropNew(p)
    BY <2>5, CommittedKept
       DEF NoJournal, DropStages, DropStagesAndRaise, StageEvents, StageUnits, DropNew, files
  <2>6. QED
    BY <2>1, <2>2, <2>3, <2>4, <2>5
<1>2. /\ call' = call
      /\ \A q \in Proc : q # p => found'[q] = found[q]
  BY DEF NoJournal, RollBackEvents, RollBackUnits, DropJournal, DropStages, DropStagesAndRaise,
         StageEvents, StageUnits, WriteJournal, WriteEvents, WriteUnits, DropNew, locals,
         IInv, TypeOK
<1>3. PICK to : /\ Goto(p, pc[p], to) /\ pc[p] # "done"
                /\ to = "done" => pc[p] = "dropNew" \/ raising[p]
  BY DEF NoJournal, RollBackEvents, RollBackUnits, DropJournal, DropStages, DropStagesAndRaise,
         StageEvents, StageUnits, WriteJournal, WriteEvents, WriteUnits, DropNew, Goto
<1>4. to = "done" => call'[p].op = "upsert"
  BY <1>0, <1>2, <1>3 DEF CallInv
<1>5. NothingRead
  BY <1>2, <1>3, <1>4, BetweenReads
<1>6. QED
  BY <1>1, <1>5, StutterMaps

LEMMA CommitMaps ==
  ASSUME IInv, NEW p \in Proc, Commit(p)
  PROVE  History!Next
<1>1. NothingRead
  BY BetweenReads DEF Commit, Goto, locals
<1>2. History!Valid((UNION CommittedEvents) \cup call[p].batch.events,
                    (UNION CommittedUnits) \cup call[p].batch.units)
  BY CommitInserts, ValidMaps
<1>3. History!Insert(call[p].batch)
  BY <1>1, <1>2, CommitInserts, SeenKept DEF History!Insert
<1>4. QED
  BY <1>3, CommitInserts DEF History!Next

\* A load reads the pair of logs as it stands; a save creates a log or changes nothing.
LEMMA OperationMaps ==
  ASSUME IInv, NEW p \in Proc,
         \/ LoadReturns(p) \/ UpsertNothing(p) \/ SaveEvents(p) \/ SaveUnits(p)
  PROVE  History!Next \/ UNCHANGED History!vars
<1>0. CallInv(p) /\ FilesInv
  BY DEF IInv
<1>1. /\ Goto(p, "read", "done") /\ pc[p] = "read" /\ call' = call /\ journal' = journal
  BY DEF LoadReturns, UpsertNothing, SaveEvents, SaveUnits, Goto, files, locals
<1>2. journal = {} /\ journal' = {}
  BY <1>0, <1>1 DEF CallInv
<1>3. /\ CommittedEvents = events /\ CommittedUnits = units
      /\ CommittedEvents' = events' /\ CommittedUnits' = units'
  BY <1>2, CommittedWithoutJournal
<1>4. CASE LoadReturns(p)
  <2>1. UNCHANGED <<events, units>> /\ call[p].op = "load"
    BY <1>4 DEF LoadReturns, files
  <2>2. Reading(p)' = [events |-> UNION events, units |-> UNION units]
    BY <1>1, <1>4 DEF LoadReturns, Reading, IInv, TypeOK, Goto
  <2>3. ASSUME NEW q \in Proc, q # p
        PROVE  Reading(q)' = Reading(q)
    BY <1>1, <1>4, <2>3 DEF LoadReturns, Reading, IInv, TypeOK, Goto
  <2>4. [q \in Proc |-> Reading(q)]'
          = [[q \in Proc |-> Reading(q)] EXCEPT ![p] = [events |-> UNION events,
                                                        units |-> UNION units]]
    BY <2>2, <2>3
  <2>5. History!Read(p)
    BY <1>3, <2>1, <2>4 DEF History!Read
  <2>6. QED
    BY <2>5 DEF History!Next
<1>5. CASE UpsertNothing(p)
  <2>1. NothingRead
    BY <1>1, <1>5, BetweenReads DEF UpsertNothing, locals
  <2>2. QED
    BY <1>3, <1>5, <2>1, StutterMaps DEF UpsertNothing, files
<1>6. CASE SaveEvents(p)
  <2>1. NothingRead
    BY <1>1, <1>6, BetweenReads DEF SaveEvents, locals
  <2>2. /\ events' = {call[p].batch.events} /\ units' = units
        /\ events \subseteq {call[p].batch.events}
        /\ Valid(call[p].batch.events, UNION units)
    BY <1>6 DEF SaveEvents
  <2>3. CASE events = {}
    <3>1. call[p].batch \in Batch
      BY <1>0, <1>6 DEF CallInv, SaveEvents
    <3>2. History!CreateEvents(call[p].batch)
      BY <1>3, <2>1, <2>2, <2>3, ValidMaps, SeenKept DEF History!CreateEvents
    <3>3. QED
      BY <3>1, <3>2 DEF History!Next
  <2>4. CASE events # {}
    <3>1. events' = events
      BY <2>2, <2>4
    <3>2. QED
      BY <1>3, <2>1, <2>2, <3>1, StutterMaps
  <2>5. QED
    BY <2>3, <2>4
<1>7. CASE SaveUnits(p)
  <2>1. NothingRead
    BY <1>1, <1>7, BetweenReads DEF SaveUnits, locals
  <2>2. /\ units' = {call[p].batch.units} /\ events' = events
        /\ units \subseteq {call[p].batch.units}
        /\ Valid(UNION events, call[p].batch.units)
    BY <1>7 DEF SaveUnits
  <2>3. CASE units = {}
    <3>1. call[p].batch \in Batch
      BY <1>0, <1>7 DEF CallInv, SaveUnits
    <3>2. History!CreateUnits(call[p].batch)
      BY <1>3, <2>1, <2>2, <2>3, ValidMaps, SeenKept DEF History!CreateUnits
    <3>3. QED
      BY <3>1, <3>2 DEF History!Next
  <2>4. CASE units # {}
    <3>1. units' = units
      BY <2>2, <2>4
    <3>2. QED
      BY <1>3, <2>1, <2>2, <3>1, StutterMaps
  <2>5. QED
    BY <2>3, <2>4
<1>8. QED
  BY <1>4, <1>5, <1>6, <1>7

LEMMA InitMaps == Init => History!Init
<1> SUFFICES ASSUME Init
             PROVE  History!Init
  OBVIOUS
<1>1. CommittedEvents = {} /\ CommittedUnits = {}
  BY CommittedWithoutJournal DEF Init
<1>2. [q \in Proc |-> Reading(q)] = [q \in Proc |-> Nothing]
  BY DEF Init, Reading
<1>3. QED
  BY <1>1, <1>2 DEF History!Init, History!Nothing, Nothing

LEMMA NextMaps == IInv /\ [Next]_vars => [History!Next]_History!vars
<1> SUFFICES ASSUME IInv, [Next]_vars
             PROVE  History!Next \/ UNCHANGED History!vars
  OBVIOUS
<1>1. ASSUME NEW p \in Proc, NEW op \in Operation, NEW b \in Batch, Call(p, op, b)
      PROVE  UNCHANGED History!vars
  <2>1. NothingRead
    BY <1>1, BetweenReads DEF Call, Goto, IInv, TypeOK
  <2>2. QED
    BY <1>1, <2>1, FilesUnchanged, StutterMaps DEF Call, IInv
<1>2. ASSUME NEW p \in Proc, Acquire(p)
      PROVE  UNCHANGED History!vars
  <2>1. NothingRead
    BY <1>2, BetweenReads DEF Acquire, Goto, locals
  <2>2. QED
    BY <1>2, <2>1, FilesUnchanged, StutterMaps DEF Acquire, IInv
<1>3. ASSUME NEW p \in Proc, Fail(p)
      PROVE  UNCHANGED History!vars
  <2>1. NothingRead
    BY <1>3, BetweenReads DEF Fail, Goto
  <2>2. QED
    BY <1>3, <2>1, FilesUnchanged, StutterMaps DEF Fail, IInv
<1>4. ASSUME NEW p \in Proc, Return(p) \/ Reject(p) \/ Crash(p)
      PROVE  History!Next
  BY <1>4, LeaveMaps DEF Return, Reject, Crash
<1>5. CASE UNCHANGED vars
  <2>1. NothingRead
    BY <1>5 DEF vars, locals, NothingRead, Reading
  <2>2. QED
    BY <1>5, <2>1, FilesUnchanged, StutterMaps DEF vars, IInv
<1>6. QED
  BY <1>1, <1>2, <1>3, <1>4, <1>5, HiddenSteps, CommitMaps, OperationMaps DEF Next, Step

\* Batches are atomic: the pair of logs changes only by whole batches, whatever fails
\* or dies in between, and every load reads a whole valid pair.
THEOREM Refinement == Spec => ImplementsAtomicHistory
<1>1. Spec => []IInv
  BY InductiveInvariant
<1>2. QED
  BY <1>1, InitMaps, NextMaps, PTL DEF Spec, ImplementsAtomicHistory, History!Spec

=============================================================================
