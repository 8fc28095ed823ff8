-------------------------- MODULE AssessChangeProofs --------------------------
(***************************************************************************)
(* Proofs about AssessChange, for any servers, processes, snapshots,       *)
(* changes, requests and cap.                                              *)
(***************************************************************************)
EXTENDS AssessChange, SequenceTheorems, TLAPS

(***************************************************************************)
(* Helpers.                                                                *)
(***************************************************************************)

\* What recording a prediction does to the ledger.
LEMMA RecordFacts ==
  ASSUME NEW x \in Prediction, ledger \in Seq(Prediction), Ledger!Record(x)
  PROVE  /\ ledger' \in Seq(Prediction)
         /\ Len(ledger') = Len(ledger) + 1
         /\ \A i \in 1..Len(ledger) : ledger'[i] = ledger[i]
         /\ ledger'[Len(ledger) + 1] = x
         /\ ToSet(ledger') = ToSet(ledger) \cup {x}
         /\ Len(ledger) \in Nat
<1>1. ledger' = Append(ledger, x)
  BY DEF Ledger!Record
<1>2. Len(ledger) \in Nat
  BY LenProperties
<1>3. /\ ledger' \in Seq(Prediction)
      /\ Len(ledger') = Len(ledger) + 1
      /\ \A i \in 1..Len(ledger) : ledger'[i] = ledger[i]
      /\ ledger'[Len(ledger) + 1] = x
  BY <1>1, AppendProperties
<1>4. ToSet(ledger') = ToSet(ledger) \cup {x}
  BY <1>2, <1>3 DEF ToSet
<1>5. QED
  BY <1>2, <1>3, <1>4

LEMMA CallTypes ==
  /\ NoCall \in Call
  /\ \A c \in Change :
       [NoCall EXCEPT !.change = {c}] \in Call /\ [NoCall EXCEPT !.change = {c}].request = {}
  /\ \A r \in Request : [NoCall EXCEPT !.request = {r}, !.change = {r.change}] \in Call
  /\ \A S \in SUBSET Snapshot, t \in Tool :
       /\ [NoCall EXCEPT !.tool = t, !.snapshots = S] \in Call
       /\ [NoCall EXCEPT !.tool = t, !.snapshots = S].request = {}
  /\ NoCall.request = {}
  BY DEF NoCall, Call, Maybe, Tool, Request

\* Merging keeps an observation an observation.
LEMMA MergedType ==
  ASSUME NEW old \in Maybe(Observation), NEW new \in Observation, Mergeable(old, new)
  PROVE  Merged(old, new) \in Maybe(Observation)
<1>1. CASE old = {}
  BY <1>1 DEF Merged, Maybe
<1>2. CASE \E o \in Observation : old = {o}
  <2>1. PICK o \in Observation : old = {o}
    BY <1>2
  <2>2. o.change \cup new.change \in Maybe(Change)
    BY <2>1 DEF Mergeable, Observation, Maybe
  <2>3. [o EXCEPT !.change = @ \cup new.change] \in Observation
    BY <2>2 DEF Observation
  <2>4. Merged(old, new) = {[o EXCEPT !.change = @ \cup new.change]}
    BY <2>1 DEF Merged
  <2>5. QED
    BY <2>3, <2>4 DEF Maybe
<1>3. QED
  BY <1>1, <1>2 DEF Maybe

LEMMA CollectedType ==
  ASSUME TypeOK, NEW p \in Proc, NEW s \in Snapshot
  PROVE  CollectedBy(p, s) \in Observation
<1>1. (Enriches /\ p \in Cli) \in BOOLEAN
  BY AssessAssumption
<1>2. EvidenceOf(opened[p], call[p].snapshots, s, Enriches /\ p \in Cli) \in Evidence
  BY <1>1 DEF TypeOK, EvidenceOf, Evidence, Known, Call
<1>3. call[p].change \in Maybe(Change)
  BY DEF TypeOK, Call
<1>4. QED
  BY <1>2, <1>3 DEF CollectedBy, Observation

LEMMA PersistedType ==
  ASSUME TypeOK, NEW p \in Proc, AllMergeable(p)
  PROVE  Persisted(p) \in [Snapshot -> Maybe(Observation)]
<1>1. ASSUME NEW s \in Snapshot
      PROVE  /\ s \in call[p].snapshots =>
                  Merged(opened[p][s], CollectedBy(p, s)) \in Maybe(Observation)
             /\ opened[p][s] \in Maybe(Observation)
  <2>1. opened[p][s] \in Maybe(Observation)
    BY DEF TypeOK
  <2>2. QED
    BY <2>1, CollectedType, MergedType DEF AllMergeable
<1>2. QED
  BY <1>1 DEF Persisted

\* The prediction an append records.
LEMMA PredictionType ==
  ASSUME TypeOK, NEW p \in Proc, NEW s \in call[p].snapshots,
         NEW o \in opened[p][s], NEW c \in o.change
  PROVE  /\ PredictionOf(p, s, o, c) \in Prediction
         /\ s \in Snapshot
         /\ o \in Observation
         /\ o.change = {c}
<1>1. s \in Snapshot /\ call[p].request \in Maybe(Request)
  BY DEF TypeOK, Call
<1>2. o \in Observation
  BY <1>1 DEF TypeOK, Maybe
<1>3. c \in Change /\ o.change = {c} /\ o.evidence \in Evidence
  BY <1>2 DEF Observation, Maybe
<1>4. Len(ledger) + 1 \in Nat \ {0}
  BY LenProperties DEF TypeOK
<1>5. QED
  BY <1>1, <1>2, <1>3, <1>4 DEF PredictionOf, Prediction

(***************************************************************************)
(* Type correctness.                                                       *)
(***************************************************************************)

LEMMA TypeInit == Init => TypeOK
<1> SUFFICES ASSUME Init
             PROVE  TypeOK
  OBVIOUS
<1>1. NoDataset \in [Snapshot -> Maybe(Observation)]
  BY DEF NoDataset, Maybe
<1>2. ledger \in Seq(Prediction)
  BY EmptySeq DEF Init
<1>3. call \in [Proc -> Call]
  BY CallTypes DEF Init
<1>4. QED
  BY <1>1, <1>2, <1>3 DEF Init, TypeOK

LEMMA LeaveType ==
  ASSUME TypeOK, NEW p \in Proc, Leave(p)
  PROVE  /\ requestLock' \in SUBSET Proc
         /\ datasetLock' \in SUBSET Proc
         /\ pc' \in [Proc -> {"idle", "request", "check", "collect", "open", "merge",
                              "append", "reply"}]
         /\ call' \in [Proc -> Call]
         /\ opened' \in [Proc -> [Snapshot -> Maybe(Observation)]]
         /\ found' \in [Proc -> SUBSET Prediction]
<1>1. NoDataset \in [Snapshot -> Maybe(Observation)]
  BY DEF NoDataset, Maybe
<1>2. QED
  BY <1>1, CallTypes DEF TypeOK, Leave

LEMMA TypeStep == TypeOK /\ [Next]_vars => TypeOK'
<1> SUFFICES ASSUME TypeOK, [Next]_vars
             PROVE  TypeOK'
  OBVIOUS
<1>1. ASSUME NEW p \in Proc, Calls(p)
      PROVE  TypeOK'
  <2>1. ASSUME NEW r \in Request, CallTool(p, r)
        PROVE  TypeOK'
    BY <2>1, CallTypes DEF TypeOK, CallTool, Goto, locks
  <2>2. ASSUME NEW c \in Change, CallAssess(p, c)
        PROVE  TypeOK'
    BY <2>2, CallTypes DEF TypeOK, CallAssess, Goto, locks
  <2>3. \A S \in SUBSET Snapshot :
          /\ [NoCall EXCEPT !.tool = "collect", !.snapshots = S] \in Call
          /\ [NoCall EXCEPT !.tool = "label", !.snapshots = S] \in Call
    BY CallTypes DEF Tool
  <2>4. ASSUME NEW S \in SUBSET Snapshot, CallCollect(p, S)
        PROVE  TypeOK'
    BY <2>3, <2>4 DEF TypeOK, CallCollect, Goto, locks
  <2>5. ASSUME NEW S \in SUBSET Snapshot, CallLabel(p, S)
        PROVE  TypeOK'
    BY <2>3, <2>5 DEF TypeOK, CallLabel, Goto, locks
  <2>6. QED
    BY <1>1, <2>1, <2>2, <2>4, <2>5 DEF Calls
<1>2. ASSUME NEW p \in Proc, Enter(p)
      PROVE  TypeOK'
  BY <1>2 DEF TypeOK, Enter, Goto, locals
<1>3. ASSUME NEW p \in Proc, Replay(p)
      PROVE  TypeOK'
  <2>1. PICK x \in ToSet(ledger) : found' = [found EXCEPT ![p] = {x}]
    BY <1>3 DEF Replay
  <2>2. x \in Prediction
    BY <2>1, LenProperties DEF TypeOK, ToSet
  <2>3. found' \in [Proc -> SUBSET Prediction]
    BY <2>1, <2>2 DEF TypeOK
  <2>4. QED
    BY <1>3, <2>3 DEF TypeOK, Replay, Goto, locks
<1>4. ASSUME NEW p \in Proc, FirstTime(p)
      PROVE  TypeOK'
  BY <1>4 DEF TypeOK, FirstTime, Goto, locks, locals
<1>5. ASSUME NEW p \in Proc, NEW s \in Snapshot, Collect(p, s)
      PROVE  TypeOK'
  <2>1. [call[p] EXCEPT !.snapshots = {s}] \in Call
    BY DEF TypeOK, Call
  <2>2. call' \in [Proc -> Call]
    BY <1>5, <2>1 DEF TypeOK, Collect
  <2>3. QED
    BY <1>5, <2>2 DEF TypeOK, Collect, Goto, locks
<1>6. ASSUME NEW p \in Proc, Open(p)
      PROVE  TypeOK'
  BY <1>6 DEF TypeOK, Open, Goto
<1>7. ASSUME NEW p \in Proc, Persist(p)
      PROVE  TypeOK'
  <2>1. Persisted(p) \in [Snapshot -> Maybe(Observation)]
    BY <1>7, PersistedType DEF Persist
  <2>2. QED
    BY <1>7, <2>1 DEF TypeOK, Persist, Goto
<1>8. ASSUME NEW p \in Proc, PersistCollected(p)
      PROVE  TypeOK'
  <2>1. Persisted(p) \in [Snapshot -> Maybe(Observation)]
    BY <1>8, PersistedType DEF PersistCollected
  <2>2. Leave(p)
    BY <1>8 DEF PersistCollected
  <2>3. QED
    BY <1>8, <2>1, <2>2, LeaveType DEF TypeOK, PersistCollected
<1>9. ASSUME NEW p \in Proc, Label(p)
      PROVE  TypeOK'
  <2>1. PICK v \in [call[p].snapshots -> Mature] : dataset' = Labelled(p, v)
    BY <1>9 DEF Label
  <2>2. ASSUME NEW s \in Snapshot
        PROVE  /\ opened[p][s] \in Maybe(Observation)
               /\ s \in DOMAIN v =>
                    {[o EXCEPT !.label = v[s]] : o \in opened[p][s]} \in Maybe(Observation)
    <3>1. opened[p][s] \in Maybe(Observation)
      BY DEF TypeOK
    <3>2. ASSUME s \in DOMAIN v
          PROVE  \A o \in Observation : [o EXCEPT !.label = v[s]] \in Observation
      BY <3>2 DEF Observation
    <3>3. ASSUME s \in DOMAIN v
          PROVE  {[o EXCEPT !.label = v[s]] : o \in opened[p][s]} \in Maybe(Observation)
      <4>1. CASE opened[p][s] = {}
        BY <4>1 DEF Maybe
      <4>2. CASE \E o \in Observation : opened[p][s] = {o}
        BY <4>2, <3>2, <3>3 DEF Maybe
      <4>3. QED
        BY <3>1, <4>1, <4>2 DEF Maybe
    <3>4. QED
      BY <3>1, <3>3
  <2>3. dataset' \in [Snapshot -> Maybe(Observation)]
    BY <2>1, <2>2 DEF Labelled
  <2>4. Leave(p)
    BY <1>9 DEF Label
  <2>5. QED
    BY <1>9, <2>3, <2>4, LeaveType DEF TypeOK, Label
<1>10. ASSUME NEW p \in Proc, AppendPrediction(p)
       PROVE  TypeOK'
  <2>1. PICK s \in call[p].snapshots :
          \E o \in opened[p][s] : \E c \in o.change :
            /\ Ledger!Record(PredictionOf(p, s, o, c))
            /\ found' = [found EXCEPT ![p] = {PredictionOf(p, s, o, c)}]
    BY <1>10 DEF AppendPrediction
  <2>2. PICK o \in opened[p][s] : \E c \in o.change :
            /\ Ledger!Record(PredictionOf(p, s, o, c))
            /\ found' = [found EXCEPT ![p] = {PredictionOf(p, s, o, c)}]
    BY <2>1
  <2>3. PICK c \in o.change :
            /\ Ledger!Record(PredictionOf(p, s, o, c))
            /\ found' = [found EXCEPT ![p] = {PredictionOf(p, s, o, c)}]
    BY <2>2
  <2>4. PredictionOf(p, s, o, c) \in Prediction
    BY PredictionType
  <2>5. ledger' \in Seq(Prediction)
    BY <2>3, <2>4, RecordFacts DEF TypeOK
  <2>6. found' \in [Proc -> SUBSET Prediction]
    BY <2>3, <2>4 DEF TypeOK
  <2>7. QED
    BY <1>10, <2>5, <2>6 DEF TypeOK, AppendPrediction, Goto, locks
<1>11. ASSUME NEW p \in Proc, Reply(p)
       PROVE  TypeOK'
  <2>1. call[p].request \in SUBSET Request /\ found[p] \in SUBSET Prediction
    BY DEF TypeOK, Call, Maybe
  <2>2. answers' \in SUBSET [request : Request, prediction : Prediction]
    BY <1>11, <2>1 DEF TypeOK, Reply
  <2>3. Leave(p)
    BY <1>11 DEF Reply
  <2>4. QED
    BY <1>11, <2>2, <2>3, LeaveType DEF TypeOK, Reply
<1>12. ASSUME NEW p \in Proc, Abort(p)
       PROVE  TypeOK'
  <2>1. Leave(p)
    BY <1>12 DEF Abort
  <2>2. QED
    BY <1>12, <2>1, LeaveType DEF TypeOK, Abort
<1>13. CASE UNCHANGED vars
  BY <1>13 DEF TypeOK, vars, locks, locals
<1>14. QED
  BY <1>1, <1>2, <1>3, <1>4, <1>5, <1>6, <1>7, <1>8, <1>9, <1>10, <1>11, <1>12, <1>13
     DEF Next, Step

\* Every variable keeps its type; a snapshot never has two observations and no
\* observation two changes.
THEOREM TypeCorrect == Spec => []TypeOK
<1>1. Init => TypeOK
  BY TypeInit
<1>2. TypeOK /\ [Next]_vars => TypeOK'
  BY TypeStep
<1>3. QED
  BY <1>1, <1>2, PTL DEF Spec

(***************************************************************************)
(* What the steps do.                                                      *)
(***************************************************************************)

\* An append records one prediction, made from an observation the process persisted.
LEMMA AppendStep ==
  ASSUME TypeOK, NEW p \in Proc, AppendPrediction(p)
  PROVE  \E x \in Prediction : \E o \in opened[p][x.snapshot] :
           /\ o.change = {x.change} /\ o.evidence = x.evidence
           /\ x.request = call[p].request
           /\ ToSet(ledger') = ToSet(ledger) \cup {x}
           /\ Len(ledger) \in Nat /\ Len(ledger') = Len(ledger) + 1
           /\ \A i \in 1..Len(ledger) : ledger'[i] = ledger[i]
           /\ ledger'[Len(ledger) + 1] = x
           /\ found' = [found EXCEPT ![p] = {x}]
<1>1. PICK s \in call[p].snapshots :
        \E o \in opened[p][s] : \E c \in o.change :
          /\ Ledger!Record(PredictionOf(p, s, o, c))
          /\ found' = [found EXCEPT ![p] = {PredictionOf(p, s, o, c)}]
  BY DEF AppendPrediction
<1>2. PICK o \in opened[p][s] : \E c \in o.change :
          /\ Ledger!Record(PredictionOf(p, s, o, c))
          /\ found' = [found EXCEPT ![p] = {PredictionOf(p, s, o, c)}]
  BY <1>1
<1>3. PICK c \in o.change :
          /\ Ledger!Record(PredictionOf(p, s, o, c))
          /\ found' = [found EXCEPT ![p] = {PredictionOf(p, s, o, c)}]
  BY <1>2
<1> DEFINE x == PredictionOf(p, s, o, c)
<1>4. x \in Prediction /\ o.change = {c}
  BY PredictionType
<1>5. x.snapshot = s /\ x.change = c /\ x.evidence = o.evidence /\ x.request = call[p].request
  BY DEF PredictionOf
<1>6. /\ ToSet(ledger') = ToSet(ledger) \cup {x}
      /\ Len(ledger) \in Nat /\ Len(ledger') = Len(ledger) + 1
      /\ \A i \in 1..Len(ledger) : ledger'[i] = ledger[i]
      /\ ledger'[Len(ledger) + 1] = x
  BY <1>3, <1>4, RecordFacts DEF TypeOK
<1> HIDE DEF x
<1>7. QED
  BY <1>3, <1>4, <1>5, <1>6 DEF x

(***************************************************************************)
(* The lock on mcp-assessments.                                            *)
(***************************************************************************)

LEMMA RequestStep ==
  ASSUME TypeOK, RequestInv, [Next]_vars
  PROVE  RequestInv'
<1>0. Server \cap Cli = {} /\ Server \subseteq Proc /\ Cli \subseteq Proc
  BY AssessAssumption DEF Proc
<1> USE DEF TypeOK
<1>1. ASSUME ledger' = ledger
      PROVE  (\A r : Existing(r)' = Existing(r)) /\ OnePredictionPerRequest'
  BY <1>1 DEF Existing, RequestInv, OnePredictionPerRequest
<1>2. ASSUME NEW p \in Proc, Calls(p)
      PROVE  RequestInv'
  <2>1. ASSUME NEW r \in Request, CallTool(p, r)
        PROVE  RequestInv'
    BY <2>1, <1>0, <1>1 DEF CallTool, Goto, locks, RequestInv
  <2>2. ASSUME p \in Cli, ledger' = ledger, requestLock' = requestLock, call'[p].request = {},
               \A q \in Proc : q # p => call'[q] = call[q] /\ pc'[q] = pc[q]
        PROVE  RequestInv'
    <3>1. \A q \in Server : q # p /\ call'[q] = call[q] /\ pc'[q] = pc[q]
      BY <2>2, <1>0
    <3>2. \A q \in Cli : call'[q].request = {}
      BY <2>2, <1>0 DEF RequestInv
    <3>3. \A q \in Server : pc'[q] \notin {"idle", "request"} => requestLock' = {q}
      BY <2>2, <3>1 DEF RequestInv
    <3>4. ASSUME NEW q \in Server, pc'[q] \in {"collect", "open", "merge", "append"},
                 NEW r \in call'[q].request
          PROVE  Existing(r)' = {}
      <4>1. Existing(r) = {}
        BY <3>1, <3>4 DEF RequestInv
      <4>2. QED
        BY <4>1, <2>2 DEF Existing
    <3>5. OnePredictionPerRequest'
      BY <2>2, <1>1
    <3>6. QED
      BY <3>2, <3>3, <3>4, <3>5 DEF RequestInv
  <2>3. ASSUME NEW c \in Change, CallAssess(p, c)
        PROVE  RequestInv'
    <3>1. call'[p].request = {}
      BY <2>3, CallTypes DEF CallAssess
    <3>2. QED
      BY <2>2, <2>3, <3>1 DEF CallAssess, Goto, locks
  <2>4. ASSUME NEW S \in SUBSET Snapshot, CallCollect(p, S) \/ CallLabel(p, S)
        PROVE  RequestInv'
    <3>1. call'[p].request = {}
      BY <2>4, CallTypes DEF CallCollect, CallLabel, Tool
    <3>2. QED
      BY <2>2, <2>4, <3>1 DEF CallCollect, CallLabel, Goto, locks
  <2>5. QED
    BY <1>2, <2>1, <2>3, <2>4 DEF Calls
<1>3. ASSUME NEW p \in Proc, Enter(p)
      PROVE  RequestInv'
  BY <1>3, <1>0, <1>1 DEF Enter, Goto, locals, RequestInv
<1>4. ASSUME NEW p \in Proc, Replay(p)
      PROVE  RequestInv'
  BY <1>4, <1>0, <1>1 DEF Replay, Goto, locks, RequestInv
<1>5. ASSUME NEW p \in Proc, FirstTime(p)
      PROVE  RequestInv'
  BY <1>5, <1>0, <1>1 DEF FirstTime, Goto, locks, locals, RequestInv
<1>6. ASSUME NEW p \in Proc, NEW s \in Snapshot, Collect(p, s)
      PROVE  RequestInv'
  <2>1. \A q \in Proc : call'[q].request = call[q].request
    BY <1>6 DEF Collect, Call
  <2>2. QED
    BY <1>6, <2>1, <1>0, <1>1 DEF Collect, Goto, locks, RequestInv
<1>7. ASSUME NEW p \in Proc, Open(p)
      PROVE  RequestInv'
  BY <1>7, <1>0, <1>1 DEF Open, Goto, RequestInv
<1>8. ASSUME NEW p \in Proc, Persist(p)
      PROVE  RequestInv'
  BY <1>8, <1>0, <1>1 DEF Persist, Goto, RequestInv
<1>9. ASSUME NEW p \in Proc, Leave(p), ledger' = ledger
      PROVE  RequestInv'
  BY <1>9, <1>0, <1>1, CallTypes DEF Leave, RequestInv
<1>10. ASSUME NEW p \in Proc, AppendPrediction(p)
       PROVE  RequestInv'
  <2>1. PICK x \in Prediction :
          /\ x.request = call[p].request
          /\ ToSet(ledger') = ToSet(ledger) \cup {x}
          /\ Len(ledger) \in Nat /\ Len(ledger') = Len(ledger) + 1
          /\ \A i \in 1..Len(ledger) : ledger'[i] = ledger[i]
          /\ ledger'[Len(ledger) + 1] = x
    BY <1>10, AppendStep
  <2>2. /\ pc[p] = "append" /\ pc' = [pc EXCEPT ![p] = "reply"]
        /\ call' = call /\ requestLock' = requestLock
    BY <1>10 DEF AppendPrediction, Goto, locks
  <2>3. \A r \in call[p].request : Existing(r) = {}
    BY <2>2, <1>0 DEF RequestInv, Proc
  <2>4. ASSUME NEW q \in Server, q # p,
               pc[q] \in {"collect", "open", "merge", "append"}, NEW r \in call[q].request
        PROVE  Existing(r)' = {}
    <3>1. requestLock = {q} /\ Existing(r) = {}
      BY <2>4 DEF RequestInv
    <3>2. p \notin Server
      BY <3>1, <2>2, <2>4 DEF RequestInv
    <3>3. x.request = {}
      BY <3>2, <2>1, <1>0 DEF RequestInv, Proc
    <3>4. QED
      BY <3>1, <3>3, <2>1 DEF Existing
  <2>5. ASSUME NEW i \in 1..Len(ledger), NEW q \in ledger[i].request, NEW r \in x.request
        PROVE  ~(q.change = r.change /\ q.id = r.id)
    <3>1. ledger[i] \in ToSet(ledger)
      BY DEF ToSet
    <3>2. QED
      BY <3>1, <2>1, <2>3, <2>5 DEF Existing
  <2>6. OnePredictionPerRequest'
    <3> SUFFICES ASSUME NEW i \in 1..(Len(ledger) + 1), NEW j \in 1..(Len(ledger) + 1),
                        NEW q \in ledger'[i].request, NEW r \in ledger'[j].request,
                        q.change = r.change, q.id = r.id
                 PROVE  i = j
      BY <2>1 DEF OnePredictionPerRequest
    <3>1. CASE i \in 1..Len(ledger) /\ j \in 1..Len(ledger)
      BY <3>1, <2>1 DEF RequestInv, OnePredictionPerRequest
    <3>2. CASE i \in 1..Len(ledger) /\ j = Len(ledger) + 1
      BY <3>2, <2>1, <2>5
    <3>3. CASE i = Len(ledger) + 1 /\ j \in 1..Len(ledger)
      BY <3>3, <2>1, <2>5
    <3>4. QED
      BY <3>1, <3>2, <3>3, <2>1
  <2>7. \A q \in Server : pc'[q] \notin {"idle", "request"} => requestLock' = {q}
    BY <2>2, <1>0 DEF RequestInv
  <2>8. \A q \in Server :
          pc'[q] \in {"collect", "open", "merge", "append"} =>
            \A r \in call'[q].request : Existing(r)' = {}
    BY <2>2, <2>4, <1>0
  <2>9. \A q \in Cli : call'[q].request = {}
    BY <2>2 DEF RequestInv
  <2>10. QED
    BY <2>6, <2>7, <2>8, <2>9 DEF RequestInv
<1>11. CASE UNCHANGED vars
  BY <1>11, <1>0, <1>1 DEF vars, locks, locals, RequestInv
<1>12. QED
  BY <1>2, <1>3, <1>4, <1>5, <1>6, <1>7, <1>8, <1>9, <1>10, <1>11
     DEF Next, Step, PersistCollected, Label, Reply, Abort

(***************************************************************************)
(* The answers.                                                            *)
(***************************************************************************)

LEMMA AnswerStep ==
  ASSUME TypeOK, AnswerInv, [Next]_vars
  PROVE  AnswerInv'
<1> USE DEF TypeOK
<1>1. ASSUME NEW p \in Proc, pc[p] # "reply", found' = found, answers' = answers,
             ledger' = ledger, \A q \in Proc : q # p => call'[q] = call[q] /\ pc'[q] = pc[q]
      PROVE  AnswerInv'
  BY <1>1 DEF AnswerInv
<1>2. ASSUME NEW p \in Proc, Calls(p)
      PROVE  AnswerInv'
  BY <1>1, <1>2 DEF Calls, CallTool, CallAssess, CallCollect, CallLabel, Goto
<1>3. ASSUME NEW p \in Proc, Enter(p) \/ FirstTime(p) \/ Open(p) \/ Persist(p)
      PROVE  AnswerInv'
  BY <1>1, <1>3 DEF Enter, FirstTime, Open, Persist, Goto, locals
<1>4. ASSUME NEW p \in Proc, NEW s \in Snapshot, Collect(p, s)
      PROVE  AnswerInv'
  BY <1>1, <1>4 DEF Collect, Goto
<1>5. ASSUME NEW p \in Proc, Replay(p)
      PROVE  AnswerInv'
  <2>1. PICK r \in call[p].request, x \in ToSet(ledger) :
          x.request = {r} /\ found' = [found EXCEPT ![p] = {x}]
    BY <1>5 DEF Replay
  <2>2. call[p].request = {r}
    BY <2>1 DEF Call, Maybe
  <2>3. QED
    BY <1>5, <2>1, <2>2 DEF Replay, Goto, AnswerInv
<1>6. ASSUME NEW p \in Proc, AppendPrediction(p)
      PROVE  AnswerInv'
  <2>1. PICK x \in Prediction :
          /\ x.request = call[p].request
          /\ ToSet(ledger') = ToSet(ledger) \cup {x}
          /\ found' = [found EXCEPT ![p] = {x}]
    BY <1>6, AppendStep
  <2>2. QED
    BY <1>6, <2>1 DEF AppendPrediction, Goto, AnswerInv
<1>7. ASSUME NEW p \in Proc, Leave(p), ledger' = ledger, answers' = answers
      PROVE  AnswerInv'
  BY <1>7 DEF Leave, AnswerInv
<1>8. ASSUME NEW p \in Proc, Reply(p)
      PROVE  AnswerInv'
  <2>1. ASSUME NEW a \in [request : call[p].request, prediction : found[p]]
        PROVE  a.prediction \in ToSet(ledger) /\ a.prediction.request = {a.request}
    <3>1. a.prediction \in found[p] /\ a.request \in call[p].request
      OBVIOUS
    <3>2. a.prediction \in ToSet(ledger) /\ a.prediction.request = call[p].request
      BY <3>1 DEF AnswerInv
    <3>3. call[p].request = {a.request}
      BY <3>1 DEF Call, Maybe
    <3>4. QED
      BY <3>2, <3>3
  <2>2. ledger' = ledger /\ Leave(p)
        /\ answers' = answers \cup [request : call[p].request, prediction : found[p]]
    BY <1>8 DEF Reply
  <2>3. QED
    BY <2>1, <2>2 DEF Leave, AnswerInv
<1>9. CASE UNCHANGED vars
  BY <1>9 DEF vars, locals, AnswerInv
<1>10. QED
  BY <1>2, <1>3, <1>4, <1>5, <1>6, <1>7, <1>8, <1>9
     DEF Next, Step, PersistCollected, Label, Abort

(***************************************************************************)
(* The lock on the dataset.                                                *)
(***************************************************************************)

\* Merging keeps the earlier observation.
LEMMA MergedKeeps ==
  ASSUME NEW old \in Maybe(Observation), NEW new \in Observation, Mergeable(old, new),
         NEW o \in old
  PROVE  \E n \in Merged(old, new) :
           /\ n.evidence = o.evidence /\ n.label = o.label
           /\ o.change # {} => n.change = o.change
<1>1. o \in Observation /\ old # {}
  BY DEF Maybe
<1>2. [o EXCEPT !.change = @ \cup new.change] \in Merged(old, new)
  BY <1>1 DEF Merged
<1>3. o.change # {} => o.change \cup new.change = o.change
  BY DEF Mergeable
<1>4. QED
  BY <1>1, <1>2, <1>3 DEF Observation

\* A save under the lock loses nothing of what the dataset holds.
LEMMA KeepsStep ==
  ASSUME TypeOK, DatasetInv, [Next]_vars
  PROVE  Keeps(dataset, dataset')
<1> USE DEF TypeOK
<1>1. ASSUME dataset' = dataset
      PROVE  Keeps(dataset, dataset')
  BY <1>1 DEF Keeps
<1>2. ASSUME NEW p \in Proc, pc[p] = "merge", AllMergeable(p), dataset' = Persisted(p)
      PROVE  Keeps(dataset, dataset')
  <2>1. opened[p] = dataset
    BY <1>2 DEF DatasetInv
  <2> SUFFICES ASSUME NEW s \in Snapshot, NEW o \in dataset[s]
               PROVE  \E n \in dataset'[s] :
                        /\ n.evidence = o.evidence /\ n.label = o.label
                        /\ o.change # {} => n.change = o.change
    BY DEF Keeps
  <2>2. CASE s \in call[p].snapshots
    <3>1. /\ dataset[s] \in Maybe(Observation) /\ CollectedBy(p, s) \in Observation
          /\ Mergeable(dataset[s], CollectedBy(p, s))
      BY <1>2, <2>1, <2>2, CollectedType DEF AllMergeable
    <3>2. dataset'[s] = Merged(dataset[s], CollectedBy(p, s))
      BY <1>2, <2>1, <2>2 DEF Persisted
    <3>3. QED
      BY <3>1, <3>2, MergedKeeps
  <2>3. CASE s \notin call[p].snapshots
    BY <1>2, <2>1, <2>3 DEF Persisted
  <2>4. QED
    BY <2>2, <2>3
<1>3. ASSUME NEW p \in Proc, Label(p)
      PROVE  Keeps(dataset, dataset')
  <2>1. opened[p] = dataset /\ \A s \in call[p].snapshots : \E o \in dataset[s] : o.label = "unknown"
    BY <1>3 DEF Label, DatasetInv
  <2>2. PICK v \in [call[p].snapshots -> Mature] : dataset' = Labelled(p, v)
    BY <1>3 DEF Label
  <2> SUFFICES ASSUME NEW s \in Snapshot, NEW o \in dataset[s]
               PROVE  \E n \in dataset'[s] :
                        /\ n.evidence = o.evidence /\ n.change = o.change
                        /\ o.label # "unknown" => n.label = o.label
    BY DEF Keeps
  <2>3. CASE s \in call[p].snapshots
    <3>1. o \in Observation /\ o.label = "unknown"
      BY <2>1, <2>3 DEF Maybe
    <3>2. [o EXCEPT !.label = v[s]] \in dataset'[s]
      BY <2>1, <2>2, <2>3 DEF Labelled
    <3>3. QED
      BY <3>1, <3>2 DEF Observation
  <2>4. CASE s \notin call[p].snapshots
    BY <2>1, <2>2, <2>4 DEF Labelled
  <2>5. QED
    BY <2>3, <2>4
<1>4. ASSUME NEW p \in Proc, Calls(p) \/ Abort(p)
      PROVE  dataset' = dataset
  BY <1>4 DEF Calls, CallTool, CallAssess, CallCollect, CallLabel, Abort
<1>5. ASSUME NEW p \in Proc,
             \/ Enter(p) \/ Replay(p) \/ FirstTime(p) \/ Open(p) \/ AppendPrediction(p) \/ Reply(p)
             \/ \E s \in Snapshot : Collect(p, s)
      PROVE  dataset' = dataset
  BY <1>5 DEF Enter, Replay, FirstTime, Open, AppendPrediction, Reply, Collect
<1>6. ASSUME NEW p \in Proc, Persist(p) \/ PersistCollected(p)
      PROVE  Keeps(dataset, dataset')
  BY <1>2, <1>6 DEF Persist, PersistCollected, Goto
<1>7. CASE UNCHANGED vars
  BY <1>1, <1>7 DEF vars
<1>8. QED
  BY <1>1, <1>3, <1>4, <1>5, <1>6, <1>7 DEF Next, Step

\* Every prediction stays anchored when the dataset only grows.
LEMMA AnchorsKept ==
  ASSUME Keeps(dataset, dataset'), NEW s \in Snapshot, NEW c, NEW e, c # {},
         Anchors(dataset, s, c, e)
  PROVE  Anchors(dataset', s, c, e)
  BY DEF Keeps, Anchors

LEMMA DatasetStep ==
  ASSUME TypeOK, DatasetInv, [Next]_vars
  PROVE  DatasetInv'
<1>0. ASSUME NEW p \in Proc, AppendPrediction(p)
      PROVE  \E x \in Prediction :
               /\ \E o \in opened[p][x.snapshot] : o.change = {x.change} /\ o.evidence = x.evidence
               /\ ToSet(ledger') = ToSet(ledger) \cup {x}
  <2>1. PICK x \in Prediction : \E o \in opened[p][x.snapshot] :
          /\ o.change = {x.change} /\ o.evidence = x.evidence
          /\ x.request = call[p].request
          /\ ToSet(ledger') = ToSet(ledger) \cup {x}
          /\ Len(ledger) \in Nat /\ Len(ledger') = Len(ledger) + 1
          /\ \A i \in 1..Len(ledger) : ledger'[i] = ledger[i]
          /\ ledger'[Len(ledger) + 1] = x
          /\ found' = [found EXCEPT ![p] = {x}]
    BY <1>0, AppendStep
  <2>2. QED
    BY ONLY <2>1
<1> USE DEF TypeOK
<1>1. Keeps(dataset, dataset')
  BY KeepsStep
<1>2. ASSUME NEW x \in ToSet(ledger)
      PROVE  Anchors(dataset', x.snapshot, {x.change}, x.evidence)
  <2>1. x \in Prediction
    BY LenProperties DEF ToSet
  <2>2. x.snapshot \in Snapshot
    BY <2>1 DEF Prediction
  <2>3. Anchors(dataset, x.snapshot, {x.change}, x.evidence)
    BY DEF DatasetInv, PredictionsAnchored
  <2>4. QED
    BY <2>2, <2>3, <1>1, AnchorsKept
<1>3. ASSUME NEW p \in Proc, pc[p] = "append", NEW s \in Snapshot, NEW o \in opened[p][s],
             o.change # {}
      PROVE  Anchors(dataset', s, o.change, o.evidence)
  <2>1. Anchors(dataset, s, o.change, o.evidence)
    BY <1>3 DEF DatasetInv
  <2>2. QED
    BY <2>1, <1>1, <1>3, AnchorsKept
<1>4. ASSUME ledger' = ledger
      PROVE  PredictionsAnchored'
  BY <1>2, <1>4 DEF PredictionsAnchored
\* What a step leaves of the second conjunct for a process it is not of.
<1>5. ASSUME NEW p \in Proc, pc'[p] # "append",
             \A q \in Proc : q # p => pc'[q] = pc[q] /\ opened'[q] = opened[q]
      PROVE  \A q \in Proc : pc'[q] = "append" =>
               \A s \in Snapshot : \A o \in opened'[q][s] :
                 o.change # {} => Anchors(dataset', s, o.change, o.evidence)
  BY <1>3, <1>5
\* A step of p that is not in its critical section, nor in it when it ends.
<1>6. ASSUME NEW p \in Proc, pc'[p] \notin {"merge", "append"},
             \A q \in Proc : q # p => pc'[q] = pc[q] /\ opened'[q] = opened[q],
             dataset' = dataset, datasetLock' = datasetLock, ledger' = ledger
      PROVE  DatasetInv'
  <2>1. \A q \in Proc : pc'[q] = "merge" => datasetLock' = {q} /\ opened'[q] = dataset'
    BY <1>6 DEF DatasetInv
  <2>2. QED
    BY <2>1, <1>4, <1>5, <1>6 DEF DatasetInv
<1>7. ASSUME NEW p \in Proc, Calls(p)
      PROVE  DatasetInv'
  BY <1>6, <1>7 DEF Calls, CallTool, CallAssess, CallCollect, CallLabel, Goto, locks
<1>8. ASSUME NEW p \in Proc, Enter(p) \/ Replay(p) \/ FirstTime(p)
      PROVE  DatasetInv'
  BY <1>6, <1>8 DEF Enter, Replay, FirstTime, Goto, locks, locals
<1>9. ASSUME NEW p \in Proc, NEW s \in Snapshot, Collect(p, s)
      PROVE  DatasetInv'
  BY <1>6, <1>9 DEF Collect, Goto, locks
<1>10. ASSUME NEW p \in Proc, Open(p)
       PROVE  DatasetInv'
  <2>1. \A q \in Proc : pc'[q] = "merge" => datasetLock' = {q} /\ opened'[q] = dataset'
    BY <1>10 DEF Open, Goto, DatasetInv
  <2>2. QED
    BY <2>1, <1>4, <1>5, <1>10 DEF Open, Goto, DatasetInv
\* p holds the lock, so no other process is in its critical section.
<1>11. ASSUME NEW p \in Proc, pc[p] = "merge",
              \A q \in Proc : q # p => pc'[q] = pc[q], pc'[p] # "merge"
       PROVE  \A q \in Proc : pc'[q] # "merge"
  BY <1>11 DEF DatasetInv
<1>12. ASSUME NEW p \in Proc, Persist(p)
       PROVE  DatasetInv'
  <2>1. \A q \in Proc : pc'[q] # "merge"
    BY <1>11, <1>12 DEF Persist, Goto
  <2>2. opened'[p] = dataset' /\ ledger' = ledger
    BY <1>12 DEF Persist
  <2>3. ASSUME NEW q \in Proc, pc'[q] = "append", NEW s \in Snapshot, NEW o \in opened'[q][s],
               o.change # {}
        PROVE  Anchors(dataset', s, o.change, o.evidence)
    <3>1. CASE q = p
      BY <2>2, <2>3, <3>1 DEF Anchors
    <3>2. CASE q # p
      BY <1>3, <1>12, <2>3, <3>2 DEF Persist, Goto
    <3>3. QED
      BY <3>1, <3>2
  <2>4. QED
    BY <2>1, <2>2, <2>3, <1>4 DEF DatasetInv
<1>13. ASSUME NEW p \in Proc, pc[p] = "merge", Leave(p), ledger' = ledger
       PROVE  DatasetInv'
  <2>1. \A q \in Proc : pc'[q] # "merge"
    BY <1>11, <1>13 DEF Leave
  <2>2. QED
    BY <2>1, <1>4, <1>5, <1>13 DEF Leave, DatasetInv
<1>14. ASSUME NEW p \in Proc, Leave(p), ledger' = ledger, dataset' = dataset
       PROVE  DatasetInv'
  <2>1. \A q \in Proc : pc'[q] = "merge" => datasetLock' = {q} /\ opened'[q] = dataset'
    BY <1>14 DEF Leave, DatasetInv
  <2>2. QED
    BY <2>1, <1>4, <1>5, <1>14 DEF Leave, DatasetInv
<1>15. ASSUME NEW p \in Proc, AppendPrediction(p)
       PROVE  DatasetInv'
  <2>1. PICK x \in Prediction :
          /\ \E o \in opened[p][x.snapshot] : o.change = {x.change} /\ o.evidence = x.evidence
          /\ ToSet(ledger') = ToSet(ledger) \cup {x}
    BY ONLY <1>0, <1>15, p \in Proc
  <2>2. /\ pc[p] = "append" /\ pc' = [pc EXCEPT ![p] = "reply"]
        /\ dataset' = dataset /\ opened' = opened /\ datasetLock' = datasetLock
    BY <1>15 DEF AppendPrediction, Goto, locks
  <2>3. Anchors(dataset', x.snapshot, {x.change}, x.evidence)
    <3>1. x.snapshot \in Snapshot
      BY DEF Prediction
    <3>2. PICK o \in opened[p][x.snapshot] : o.change = {x.change} /\ o.evidence = x.evidence
      BY <2>1
    <3>3. QED
      BY <3>1, <3>2, <2>2, <1>3
  <2>4. PredictionsAnchored'
    BY <2>1, <2>3, <1>2 DEF PredictionsAnchored
  <2>5. \A q \in Proc : pc'[q] = "merge" => datasetLock' = {q} /\ opened'[q] = dataset'
    BY <2>2 DEF DatasetInv
  <2>6. QED
    BY <2>2, <2>4, <2>5, <1>5 DEF DatasetInv
<1>16. CASE UNCHANGED vars
  <2>1. /\ pc' = pc /\ opened' = opened /\ dataset' = dataset
        /\ datasetLock' = datasetLock /\ ledger' = ledger
    BY <1>16 DEF vars, locks, locals
  <2>2. \A q \in Proc : pc'[q] = "merge" => datasetLock' = {q} /\ opened'[q] = dataset'
    BY <2>1 DEF DatasetInv
  <2>3. QED
    BY <2>1, <2>2, <1>3, <1>4 DEF DatasetInv
<1>17. QED
  BY <1>7, <1>8, <1>9, <1>10, <1>12, <1>13, <1>14, <1>15, <1>16
     DEF Next, Step, PersistCollected, Label, Reply, Abort

(***************************************************************************)
(* The invariant and what follows from it.                                 *)
(***************************************************************************)

\* The locks' holders, what each process holds of the ledger and of the dataset, and
\* the properties it is for: the conjunction that every step keeps.
THEOREM InductiveInvariant == Spec => []IInv
<1>1. Init => IInv
  <2> SUFFICES ASSUME Init
               PROVE  IInv
    OBVIOUS
  <2>1. TypeOK
    BY TypeInit
  <2>2. ledger = << >> /\ Len(ledger) = 0 /\ ToSet(ledger) = {}
    BY DEF Init, ToSet
  <2>3. \A p \in Proc : pc[p] = "idle" /\ call[p] = NoCall /\ found[p] = {}
    BY DEF Init
  <2>4. OnePredictionPerRequest
    BY <2>2 DEF OnePredictionPerRequest
  <2>5. RequestInv
    BY <2>3, <2>4, CallTypes DEF RequestInv, Proc
  <2>6. AnswerInv
    BY <2>3 DEF AnswerInv, Init
  <2>7. DatasetInv
    BY <2>2, <2>3 DEF DatasetInv, PredictionsAnchored
  <2>8. QED
    BY <2>1, <2>5, <2>6, <2>7 DEF IInv
<1>2. IInv /\ [Next]_vars => IInv'
  BY TypeStep, RequestStep, AnswerStep, DatasetStep DEF IInv
<1>3. QED
  BY <1>1, <1>2, PTL DEF Spec

\* At most one prediction is ever recorded for the key of a request, whatever is
\* retried, at however many servers, and whatever dies or is lost.
THEOREM OnePerRequest == Spec => []OnePredictionPerRequest
<1>1. IInv => OnePredictionPerRequest
  BY DEF IInv, RequestInv
<1>2. QED
  BY <1>1, InductiveInvariant, PTL

\* Every answer an agent receives names the recorded prediction of its very request,
\* and there is one for a key.
THEOREM Agree == Spec => []AnswersAgree
<1>1. IInv => AnswersAgree
  <2> SUFFICES ASSUME IInv
               PROVE  AnswersAgree
    OBVIOUS
  <2>1. \A a \in answers : a.prediction \in ToSet(ledger) /\ a.prediction.request = {a.request}
    BY DEF IInv, AnswerInv
  <2>2. ASSUME NEW a \in answers, NEW b \in answers,
               a.request.change = b.request.change, a.request.id = b.request.id
        PROVE  a = b
    <3>1. PICK i \in 1..Len(ledger) : ledger[i] = a.prediction
      BY <2>1 DEF ToSet
    <3>2. PICK j \in 1..Len(ledger) : ledger[j] = b.prediction
      BY <2>1 DEF ToSet
    <3>3. a.request \in ledger[i].request /\ b.request \in ledger[j].request
      BY <2>1, <3>1, <3>2
    <3>4. i = j
      BY <3>3, <2>2 DEF IInv, RequestInv, OnePredictionPerRequest
    <3>5. a.prediction = b.prediction /\ a.request = b.request
      BY <2>1, <3>1, <3>2, <3>4
    <3>6. QED
      BY <3>5 DEF IInv, TypeOK
  <2>3. QED
    BY <2>1, <2>2 DEF AnswersAgree
<1>2. QED
  BY <1>1, InductiveInvariant, PTL

\* The observation each prediction was made from stays in the dataset, with its
\* evidence and bound to its change.
THEOREM Anchored == Spec => []PredictionsAnchored
<1>1. IInv => PredictionsAnchored
  BY DEF IInv, DatasetInv
<1>2. QED
  BY <1>1, InductiveInvariant, PTL

\* No step loses an observation, rewrites its evidence, moves it to another change or
\* alters a mature label.
THEOREM SealedAlways == Spec => Sealed
<1>1. IInv /\ [Next]_vars => [Keeps(dataset, dataset')]_dataset
  BY KeepsStep DEF IInv
<1>2. QED
  BY <1>1, InductiveInvariant, PTL DEF Spec, Sealed

=============================================================================
