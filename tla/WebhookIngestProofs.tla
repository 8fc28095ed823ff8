-------------------------- MODULE WebhookIngestProofs --------------------------
(***************************************************************************)
(* Proofs about WebhookIngest, for any scenario, workers and policies: the *)
(* logs are always a valid snapshot, one label policy rules every outcome, *)
(* and a delivery keeps the availability it was first stored with.         *)
(***************************************************************************)
EXTENDS WebhookIngest, FiniteSetTheorems, TLAPS

Deliveries == 1..Len(scenario.deliveries)

\* c is what an observer received of a delivery, under the policy of worker v.
CapturedFor(c, v) ==
  /\ \E i \in 1..now :
       c.delivery = scenario.deliveries[i] /\ c.at = i
  /\ c.received \in c.at..now
  /\ c.policy = scenario.pin[v]
  /\ ValidCapture(c)

\* One capture of each delivery, as write_github_capture_bundle keeps them.
InboxInv ==
  /\ \A c \in inbox : \E v \in Worker : CapturedFor(c, v)
  /\ \A c, other \in inbox : c.delivery = other.delivery => c = other

\* An actor to whom the policy grants it has set the label, and not the author.
Granted(d, policy) ==
  \E declaration \in policy :
    /\ declaration.name = d.label
    /\ d.sender \in declaration.actors \ {d.author}

\* e was normalized from a delivery, and it claims an outcome only if that was granted.
FromDelivery(e) ==
  \E i \in 1..now, v \in Worker :
    LET d == scenario.deliveries[i]
    IN  /\ e.source = <<"github-webhook", d.id>> /\ e.policy = scenario.pin[v]
        /\ Semantic(e) => Granted(d, scenario.pin[v])

\* The event that every capture has, and that names its delivery.
Witness(e, log) ==
  \E f \in log :
    /\ f.id = 10 * e.source[2] + 0
    /\ f.source = e.source /\ f.available = e.available

LogInv(log) ==
  /\ \A e \in log : e.adapter = "webhook" => FromDelivery(e) /\ Witness(e, log)
  /\ \A e \in log : e.adapter # "webhook" => e.source[1] # "github-webhook"
  /\ \A e, f \in log :
       e.adapter = "webhook" /\ f.source = e.source => f.available = e.available

IInv ==
  /\ TypeOK
  /\ plan = [w \in Worker |-> plan[w]]
  /\ InboxInv
  /\ LogInv(events)
  /\ \A w \in Worker : plan[w] # Idle => LogInv(plan[w].events)

-----------------------------------------------------------------------------

LEMMA ScenarioFacts ==
  ASSUME TypeOK
  PROVE  /\ Len(scenario.deliveries) \in Nat /\ now \in Nat /\ 1..now \subseteq Deliveries
         /\ \A i \in Deliveries : Supported(scenario.deliveries[i])
         /\ \A i, j \in Deliveries :
              scenario.deliveries[i].id = scenario.deliveries[j].id => i = j
         /\ \A w \in Worker : scenario.pin[w] # NoPolicy
         /\ \A b \in scenario.imports : \A e \in b.events :
              e.adapter # "webhook" /\ e.source[1] # "github-webhook"
BY WebhookAssumption DEF TypeOK, Deliveries

\* A valid capture has the event that names its delivery.
LEMMA HasDeliveryEvent ==
  ASSUME NEW c, ValidCapture(c)
  PROVE  \E f \in EventsOf(c) : f.kind = "provider_delivery"
<1>1. Cardinality({e \in EventsOf(c) : e.kind = "provider_delivery"}) = 1
  BY DEF ValidCapture
<1>2. {e \in EventsOf(c) : e.kind = "provider_delivery"} # {}
  BY <1>1, FS_EmptySet
<1>3. QED
  BY <1>2

\* What the normalization of each kind of delivery makes of it.
Normalized(e, c) ==
  /\ e.adapter = "webhook"
  /\ e.kind = "provider_delivery" => e.id = 10 * c.delivery.id + 0
  /\ Semantic(e) => Granted(c.delivery, c.policy)

LEMMA PullNormalized ==
  ASSUME NEW c, Supported(c.delivery), c.delivery.event = "pull_request",
         NEW e \in PullEvents(c)
  PROVE  Normalized(e, c)
<1> DEFINE d == c.delivery
           Own(suffix, kind) == EventOf(c, suffix, kind, d.change)
           WithHead(ev) == [ev EXCEPT !.head = d.head, !.commits = <<d.head>>]
<1>1. CASE e = Own(0, "provider_delivery")
  BY <1>1 DEF EventOf, Normalized, Semantic
<1>2. CASE d.action \in {"opened", "reopened", "synchronize"}
           /\ e = WithHead(Own(1, "change_snapshot"))
  BY <1>2 DEF EventOf, Normalized, Semantic
<1>3. CASE d.action = "closed"
           /\ e = [WithHead(Own(1, IF d.merged THEN "change_merged" ELSE "change_closed"))
                     EXCEPT !.occurred = c.at]
  BY <1>3 DEF EventOf, Normalized, Semantic
<1>4. CASE d.action = "unlabeled" /\ e = Own(1, "provider_label_removed")
  BY <1>4 DEF EventOf, Normalized, Semantic
<1>5. CASE d.action = "labeled" /\ e = Own(1, "provider_label_applied")
  BY <1>5 DEF EventOf, Normalized, Semantic
<1>6. CASE d.action = "labeled" /\ Authorized(c)
           /\ e = [Own(2, "change_finalized") EXCEPT !.semantic = TRUE]
  <2>1. Granted(c.delivery, c.policy)
    BY <1>6 DEF Authorized, Granted
  <2>2. e.kind = "change_finalized" /\ e.adapter = "webhook"
    BY <1>6 DEF EventOf
  <2>3. QED
    BY <2>1, <2>2 DEF Normalized
<1>7. QED
  <2>1. d.action \in {"opened", "reopened", "synchronize", "closed", "labeled", "unlabeled"}
    BY DEF Supported
  <2>2. CASE d.action \in {"opened", "reopened", "synchronize"}
    <3>1. e \in {Own(0, "provider_delivery"), WithHead(Own(1, "change_snapshot"))}
      BY <2>2 DEF PullEvents
    <3>2. QED
      BY <2>2, <3>1, <1>1, <1>2
  <2>3. CASE d.action = "closed"
    <3>1. e \in {Own(0, "provider_delivery"),
                 [WithHead(Own(1, IF d.merged THEN "change_merged" ELSE "change_closed"))
                   EXCEPT !.occurred = c.at]}
      BY <2>3 DEF PullEvents
    <3>2. QED
      BY <2>3, <3>1, <1>1, <1>3
  <2>4. CASE d.action = "unlabeled"
    <3>1. e \in {Own(0, "provider_delivery"), Own(1, "provider_label_removed")}
      BY <2>4 DEF PullEvents
    <3>2. QED
      BY <2>4, <3>1, <1>1, <1>4
  <2>5. CASE d.action = "labeled"
    <3>1. \/ e \in {Own(0, "provider_delivery"), Own(1, "provider_label_applied")}
          \/ Authorized(c) /\ e = [Own(2, "change_finalized") EXCEPT !.semantic = TRUE]
      BY <2>5 DEF PullEvents
    <3>2. QED
      BY <2>5, <3>1, <1>1, <1>5, <1>6
  <2>6. QED
    BY <2>1, <2>2, <2>3, <2>4, <2>5

LEMMA ReviewNormalized ==
  ASSUME NEW c, NEW e \in ReviewEvents(c)
  PROVE  Normalized(e, c)
BY DEF ReviewEvents, EventOf, Normalized, Semantic

LEMMA CheckNormalized ==
  ASSUME NEW c, NEW e \in CheckEvents(c)
  PROVE  Normalized(e, c)
<1> DEFINE d == c.delivery
<1>1. ASSUME NEW change, e = EventOf(c, 0, "provider_delivery", change)
      PROVE  Normalized(e, c)
  BY <1>1 DEF EventOf, Normalized, Semantic
<1>2. ASSUME NEW i, e = [EventOf(c, i, "ci_run", d.pulls[i]) EXCEPT !.occurred = c.at]
      PROVE  Normalized(e, c)
  BY <1>2 DEF EventOf, Normalized, Semantic
<1>3. CASE d.pulls = <<>>
  BY <1>1, <1>3 DEF CheckEvents
<1>4. CASE d.pulls # <<>>
  <2>1. \/ e = EventOf(c, 0, "provider_delivery", d.pulls[1])
        \/ \E i \in DOMAIN d.pulls :
             e = [EventOf(c, i, "ci_run", d.pulls[i]) EXCEPT !.occurred = c.at]
    BY <1>4 DEF CheckEvents
  <2>2. QED
    BY <2>1, <1>1, <1>2
<1>5. QED
  BY <1>3, <1>4

LEMMA LabelNormalized ==
  ASSUME NEW c, NEW e \in RepositoryLabelEvents(c)
  PROVE  Normalized(e, c)
BY DEF RepositoryLabelEvents, EventOf, Normalized, Semantic

LEMMA EventsNormalized ==
  ASSUME NEW c, Supported(c.delivery), NEW e \in EventsOf(c)
  PROVE  Normalized(e, c)
<1>1. CASE c.delivery.event = "pull_request"
  BY <1>1, PullNormalized DEF EventsOf
<1>2. CASE c.delivery.event = "pull_request_review"
  BY <1>2, ReviewNormalized DEF EventsOf
<1>3. CASE c.delivery.event = "check_run"
  BY <1>3, CheckNormalized DEF EventsOf
<1>4. CASE c.delivery.event = "label"
  BY <1>4, LabelNormalized DEF EventsOf
<1>5. QED
  BY <1>1, <1>2, <1>3, <1>4 DEF Supported

-----------------------------------------------------------------------------

LEMMA CaptureEvents ==
  ASSUME TypeOK, NEW v \in Worker, NEW c, CapturedFor(c, v), NEW e \in EventsOf(c)
  PROVE  /\ e.adapter = "webhook" /\ e.available = c.received
         /\ e.source = <<"github-webhook", c.delivery.id>>
         /\ FromDelivery(e) /\ Witness(e, EventsOf(c))
<1>1. PICK i \in 1..now : c.delivery = scenario.deliveries[i]
  BY DEF CapturedFor
<1>2. Supported(c.delivery)
  BY <1>1, ScenarioFacts
<1>3. Normalized(e, c)
  BY <1>2, EventsNormalized
<1>4. /\ ValidCapture(c) /\ c.policy = scenario.pin[v]
      /\ e.available = c.received /\ e.policy = c.policy
      /\ e.source = <<"github-webhook", c.delivery.id>>
  BY DEF CapturedFor, ValidCapture
<1>5. FromDelivery(e)
  BY <1>1, <1>3, <1>4 DEF FromDelivery, Normalized
<1>6. Witness(e, EventsOf(c))
  <2>1. PICK f \in EventsOf(c) : f.kind = "provider_delivery"
    BY <1>4, HasDeliveryEvent
  <2>2. Normalized(f, c)
    BY <1>2, EventsNormalized
  <2>3. f.available = c.received /\ f.source = <<"github-webhook", c.delivery.id>>
    BY <1>4 DEF ValidCapture
  <2>4. e.source[2] = c.delivery.id
    BY <1>4
  <2>5. QED
    BY <1>4, <2>1, <2>2, <2>3, <2>4 DEF Witness, Normalized
<1>7. QED
  BY <1>3, <1>4, <1>5, <1>6 DEF Normalized

\* A batch of captures, one of each delivery, agrees with itself on availability.
LEMMA BatchLog ==
  ASSUME TypeOK, NEW batch,
         \A c \in batch : \E v \in Worker : CapturedFor(c, v),
         \A c, other \in batch : c.delivery = other.delivery => c = other
  PROVE  LogInv(UNION {EventsOf(c) : c \in batch})
<1> DEFINE log == UNION {EventsOf(c) : c \in batch}
<1>1. ASSUME NEW e \in log
      PROVE  e.adapter = "webhook" /\ FromDelivery(e) /\ Witness(e, log)
  <2>1. PICK c \in batch : e \in EventsOf(c)
    OBVIOUS
  <2>2. e.adapter = "webhook" /\ FromDelivery(e) /\ Witness(e, EventsOf(c))
    BY <2>1, CaptureEvents
  <2>3. QED
    BY <2>1, <2>2 DEF Witness
<1>2. ASSUME NEW e \in log, NEW f \in log, f.source = e.source
      PROVE  f.available = e.available
  <2>1. PICK c \in batch : e \in EventsOf(c)
    OBVIOUS
  <2>2. PICK other \in batch : f \in EventsOf(other)
    OBVIOUS
  <2>3. /\ e.available = c.received /\ e.source = <<"github-webhook", c.delivery.id>>
        /\ f.available = other.received
        /\ f.source = <<"github-webhook", other.delivery.id>>
    BY <2>1, <2>2, CaptureEvents
  <2>4. c.delivery.id = other.delivery.id
    BY <1>2, <2>3
  <2>5. PICK i \in Deliveries, j \in Deliveries :
          c.delivery = scenario.deliveries[i] /\ other.delivery = scenario.deliveries[j]
    BY ScenarioFacts DEF CapturedFor
  <2>6. c = other
    BY <2>4, <2>5, ScenarioFacts
  <2>7. QED
    BY <2>3, <2>6
<1>3. QED
  BY <1>1, <1>2 DEF LogInv

\* Two logs that agree on ids agree on availability: each delivery's own event is in both.
LEMMA MergedLog ==
  ASSUME NEW old, NEW new, LogInv(old), LogInv(new), Agree(old, new)
  PROVE  LogInv(old \cup new)
<1>1. ASSUME NEW e \in old \cup new, e.adapter = "webhook"
      PROVE  FromDelivery(e) /\ Witness(e, old \cup new)
  BY <1>1 DEF LogInv, Witness
<1>2. ASSUME NEW e \in old, NEW f \in new, f.source = e.source,
             e.adapter = "webhook" \/ f.adapter = "webhook"
      PROVE  f.available = e.available
  <2>1. e.source[1] = "github-webhook" /\ f.source[1] = "github-webhook"
    BY <1>2 DEF LogInv, FromDelivery
  <2>2. e.adapter = "webhook" /\ f.adapter = "webhook"
    BY <2>1 DEF LogInv
  <2>3. PICK g \in old : /\ g.id = 10 * e.source[2] + 0
                         /\ g.source = e.source /\ g.available = e.available
    BY <2>2 DEF LogInv, Witness
  <2>4. PICK h \in new : /\ h.id = 10 * f.source[2] + 0
                         /\ h.source = f.source /\ h.available = f.available
    BY <2>2 DEF LogInv, Witness
  <2>5. g = h
    BY <1>2, <2>3, <2>4 DEF Agree
  <2>6. QED
    BY <2>3, <2>4, <2>5
<1>3. ASSUME NEW e \in old \cup new, NEW f \in old \cup new,
             e.adapter = "webhook", f.source = e.source
      PROVE  f.available = e.available
  <2>1. CASE e \in old /\ f \in old
    BY <1>3, <2>1 DEF LogInv
  <2>2. CASE e \in new /\ f \in new
    BY <1>3, <2>2 DEF LogInv
  <2>3. CASE e \in old /\ f \in new
    BY <1>2, <1>3, <2>3
  <2>4. CASE e \in new /\ f \in old
    BY <1>2, <1>3, <2>4
  <2>5. QED
    BY <2>1, <2>2, <2>3, <2>4
<1>4. QED
  BY <1>1, <1>3 DEF LogInv

\* What was delivered stays delivered.
Later == UNCHANGED scenario /\ now' \in Nat /\ now <= now'

LEMMA LaterDelivery ==
  ASSUME TypeOK, Later, NEW e, FromDelivery(e)
  PROVE  FromDelivery(e)'
<1>1. 1..now \subseteq 1..now'
  BY ScenarioFacts DEF Later
<1>2. QED
  BY <1>1 DEF Later, FromDelivery, Semantic, Granted

LEMMA InboxLater ==
  ASSUME IInv, Later, UNCHANGED inbox
  PROVE  InboxInv'
<1>1. ASSUME NEW c \in inbox, NEW v \in Worker, CapturedFor(c, v)
      PROVE  CapturedFor(c, v)'
  <2>1. PICK i \in 1..now : c.delivery = scenario.deliveries[i] /\ c.at = i
    BY <1>1 DEF CapturedFor
  <2>2. i \in 1..now' /\ c.received \in c.at..now'
    BY <1>1, <2>1, ScenarioFacts DEF CapturedFor, Later, IInv
  <2>3. QED
    BY <1>1, <2>1, <2>2 DEF CapturedFor, Later
<1>2. QED
  BY <1>1 DEF IInv, InboxInv

\* A step that writes no log, and after which w alone may have another plan.
LEMMA PlanStep ==
  ASSUME IInv, Later, UNCHANGED history, InboxInv', NEW w \in Worker, NEW new,
         plan' = [plan EXCEPT ![w] = new], new = Idle \/ LogInv(new.events),
         TypeOK'
  PROVE  IInv'
<1>1. /\ plan' = [v \in Worker |-> plan'[v]] /\ plan'[w] = new
      /\ \A v \in Worker \ {w} : plan'[v] = plan[v]
  BY DEF IInv
<1>2. LogInv(events)'
  BY LaterDelivery DEF IInv, LogInv, Witness, history
<1>3. ASSUME NEW v \in Worker, plan'[v] # Idle
      PROVE  LogInv(plan[v].events)'
  <2>1. PICK log : log = plan'[v].events
    OBVIOUS
  <2>2. LogInv(log)
    BY <1>1, <1>3, <2>1 DEF IInv
  <2>3. QED
    BY <2>1, <2>2, LaterDelivery DEF IInv, LogInv, Witness
<1>4. QED
  BY <1>1, <1>2, <1>3 DEF IInv

\* A plan made from the history as it is.
LEMMA PrepareInv ==
  ASSUME IInv, NEW w \in Worker, NEW incoming, NEW complete, Prepare(w, incoming, complete),
         LogInv(incoming)
  PROVE  IInv'
<1>1. Later
  BY ScenarioFacts DEF Prepare, Later, IInv
<1>2. InboxInv'
  BY <1>1, InboxLater DEF Prepare
<1>3. /\ plan' = [plan EXCEPT ![w] = [events |-> incoming, units |-> complete]]
      /\ \A v \in Worker \ {w} : plan'[v] = plan[v]
  BY DEF Prepare, IInv
<1>4. TypeOK'
  BY <1>3 DEF Prepare, TypeOK, IInv, history
<1>5. QED
  BY <1>1, <1>2, <1>3, <1>4, PlanStep DEF Prepare

LEMMA CaptureFacts ==
  ASSUME TypeOK, NEW i \in 1..now, NEW v \in Worker,
         ValidCapture(Captured(i, scenario.pin[v]))
  PROVE  CapturedFor(Captured(i, scenario.pin[v]), v)
BY ScenarioFacts DEF Captured, CapturedFor

LEMMA BatchInv ==
  ASSUME IInv, NEW w \in Worker, NEW batch, IngestBatch(w, batch),
         \A c \in batch : \E v \in Worker : CapturedFor(c, v),
         \A c, other \in batch : c.delivery = other.delivery => c = other
  PROVE  IInv'
<1>1. LogInv(UNION {EventsOf(c) : c \in batch})
  BY BatchLog DEF IInv
<1>2. QED
  BY <1>1, PrepareInv DEF IngestBatch

LEMMA CaptureInv ==
  ASSUME IInv, NEW i \in 1..now, NEW v \in Worker, Capture(i, scenario.pin[v])
  PROVE  IInv'
<1> DEFINE c0 == Captured(i, scenario.pin[v])
<1>1. PICK c : c = c0
  OBVIOUS
<1>2. CapturedFor(c, v) /\ inbox' = inbox \cup {c}
      /\ \A kept \in inbox : kept.delivery # c.delivery
  BY <1>1, CaptureFacts DEF IInv, Capture, WriteBundle
<1>3. Later /\ UNCHANGED <<scenario, now, history, plan, stale, raced>>
  BY ScenarioFacts DEF Capture, Later, IInv
<1>4. ASSUME NEW d \in inbox', NEW u \in Worker, CapturedFor(d, u)
      PROVE  CapturedFor(d, u)'
  BY <1>3, <1>4 DEF CapturedFor
<1>5. InboxInv'
  BY <1>2, <1>4 DEF IInv, InboxInv
<1>6. TypeOK'
  BY <1>2, <1>3 DEF IInv, TypeOK, CapturedFor, history
<1>7. LogInv(events)' /\ \A u \in Worker : plan'[u] # Idle => LogInv(plan[u].events)'
  BY <1>3, LaterDelivery DEF IInv, LogInv, Witness, history
<1>8. QED
  BY <1>3, <1>5, <1>6, <1>7 DEF IInv

LEMMA WriteInv ==
  ASSUME IInv, NEW w \in Worker, Write(w)
  PROVE  IInv'
<1> DEFINE new == plan[w].events
<1>1. /\ plan[w] # Idle /\ Agree(events, new) /\ Agree(new, new)
      /\ events' = events \cup new /\ units' = units \cup plan[w].units
      /\ Agree(units, plan[w].units) /\ Agree(plan[w].units, plan[w].units)
      /\ ValidSnapshot(events', units')
  BY DEF Write, Upsertable
<1>2. Later /\ UNCHANGED <<scenario, now, inbox>>
  BY ScenarioFacts DEF Write, Later, IInv
<1>3. InboxInv'
  BY <1>2, InboxLater
<1>4. LogInv(events \cup new)
  BY <1>1, MergedLog DEF IInv
<1>5. LogInv(events)'
  <2>1. PICK log : log = events \cup new
    OBVIOUS
  <2>2. LogInv(log)
    BY <1>4, <2>1
  <2>3. QED
    BY <1>1, <1>2, <2>1, <2>2, LaterDelivery DEF IInv, LogInv, Witness
<1>6. /\ plan' = [v \in Worker |-> plan'[v]] /\ plan'[w] = Idle
      /\ \A v \in Worker \ {w} : plan'[v] = plan[v]
  BY DEF Write, IInv
<1>7. ASSUME NEW v \in Worker, plan'[v] # Idle
      PROVE  LogInv(plan[v].events)'
  <2>1. PICK log : log = plan'[v].events
    OBVIOUS
  <2>2. LogInv(log)
    BY <1>6, <1>7, <2>1 DEF IInv
  <2>3. QED
    BY <1>2, <2>1, <2>2, LaterDelivery DEF IInv, LogInv, Witness
<1>8. TypeOK'
  <2>1. Agree(events', events') /\ Agree(units', units')
    BY <1>1 DEF IInv, TypeOK, Agree
  <2>2. stale' \subseteq {v \in Worker : plan'[v] # Idle} /\ raced' \in BOOLEAN
    BY <1>6 DEF Write, IInv, TypeOK
  <2>3. QED
    BY <1>1, <1>2, <2>1, <2>2 DEF IInv, TypeOK
<1>9. QED
  BY <1>3, <1>5, <1>6, <1>7, <1>8 DEF IInv

LEMMA GiveUpInv ==
  ASSUME IInv, NEW w \in Worker, GiveUp(w)
  PROVE  IInv'
<1>1. Later
  BY ScenarioFacts DEF GiveUp, Later, IInv
<1>2. InboxInv'
  BY <1>1, InboxLater DEF GiveUp
<1>3. plan' = [plan EXCEPT ![w] = Idle] /\ \A v \in Worker \ {w} : plan'[v] = plan[v]
  BY DEF GiveUp, IInv
<1>4. TypeOK'
  BY <1>3 DEF GiveUp, TypeOK, IInv, history
<1>5. QED
  BY <1>1, <1>2, <1>3, <1>4, PlanStep DEF GiveUp

LEMMA InitInv == Init => IInv
<1> SUFFICES ASSUME Init
             PROVE  IInv
  OBVIOUS
<1>1. TypeOK
  <2>1. scenario \in Scenario /\ now \in 0..Len(scenario.deliveries)
    BY WebhookAssumption DEF Init
  <2>2. Agree({}, {}) /\ ValidSnapshot({}, {})
    BY DEF Agree, ValidSnapshot
  <2>3. events = {} /\ units = {} /\ inbox = {} /\ stale = {} /\ raced \in BOOLEAN
    BY DEF Init
  <2>4. QED
    BY <2>1, <2>2, <2>3 DEF TypeOK
<1>2. QED
  BY <1>1 DEF Init, IInv, InboxInv, LogInv

LEMMA InvStep == IInv /\ [Next]_vars => IInv'
<1> SUFFICES ASSUME IInv, [Next]_vars
             PROVE  IInv'
  OBVIOUS
<1>1. ASSUME Later, UNCHANGED <<scenario, inbox, history, plan, stale, raced>>,
             now' \in 0..Len(scenario.deliveries)
      PROVE  IInv'
  <2>1. InboxInv'
    BY <1>1, InboxLater
  <2>2. TypeOK'
    BY <1>1, <2>1, ScenarioFacts DEF IInv, TypeOK, Later, history
  <2>3. LogInv(events)' /\ \A w \in Worker : plan'[w] # Idle => LogInv(plan[w].events)'
    BY <1>1, LaterDelivery DEF IInv, LogInv, Witness, history
  <2>4. QED
    BY <1>1, <2>1, <2>2, <2>3 DEF IInv
<1>2. CASE Emit
  BY <1>1, <1>2, ScenarioFacts DEF Emit, Later, IInv, TypeOK
<1>3. CASE UNCHANGED vars
  BY <1>1, <1>3, ScenarioFacts DEF vars, history, Later, IInv, TypeOK
<1>4. CASE CaptureDelivery
  BY <1>4, CaptureInv DEF CaptureDelivery
<1>5. ASSUME NEW w \in Worker, IngestCapture(w)
      PROVE  IInv'
  <2>1. CASE \E c \in inbox : IngestBatch(w, {c})
    BY <2>1, BatchInv DEF IInv, InboxInv
  <2>2. CASE \E i \in 1..now :
               LET c == Captured(i, scenario.pin[w]) IN ValidCapture(c) /\ IngestBatch(w, {c})
    BY <2>2, BatchInv, CaptureFacts DEF IInv
  <2>3. QED
    BY <1>5, <2>1, <2>2 DEF IngestCapture
<1>6. ASSUME NEW w \in Worker, IngestDirectory(w)
      PROVE  IInv'
  BY <1>6, BatchInv DEF IngestDirectory, IInv, InboxInv
<1>7. ASSUME NEW w \in Worker, FinalizeUnits(w)
      PROVE  IInv'
  <2>1. LogInv({})
    BY DEF LogInv
  <2>2. QED
    BY <1>7, <2>1, PrepareInv DEF FinalizeUnits
<1>8. ASSUME NEW w \in Worker, NEW b \in scenario.imports, ImportHistory(w, b)
      PROVE  IInv'
  <2>1. LogInv(b.events)
    BY ScenarioFacts DEF IInv, LogInv
  <2>2. QED
    BY <1>8, <2>1, PrepareInv DEF ImportHistory
<1>9. QED
  BY <1>2, <1>3, <1>4, <1>5, <1>6, <1>7, <1>8, WriteInv, GiveUpInv DEF Next

-----------------------------------------------------------------------------
(* Convergence.  What a worker decides holds of the history that it read, *)
(* so it holds of the history that it writes when no one wrote between.    *)

\* What an observer makes of captures, and of the history alone.
Ingests(p) ==
  /\ \A e \in p.events : e.adapter = "webhook"
  /\ Completes(events \cup p.events, units, Changes(p.events))
  /\ p.units = Candidates(events \cup p.events, Changes(p.events))

Finalizes(p) == p.events = {} /\ p.units = Candidates(events, WebhookChanges(events))

ImportsBatch(p) ==
  \E b \in scenario.imports :
    /\ p.events = b.events
    /\ b.assemble => Assembles(events \cup b.events)
    /\ p.units = b.units \cup (IF b.assemble THEN AssembleChangeUnits(events \cup b.events)
                               ELSE {})

Fresh(p) == Ingests(p) \/ Finalizes(p) \/ ImportsBatch(p)

\* All that webhooks speak of assembles, to the units that are there.
Converged ==
  /\ \A c \in WebhookChanges(events) : InSequence(Of(c, events))
  /\ Agree(units, Candidates(events, WebhookChanges(events)))

ConvergeInv ==
  /\ \A w \in Worker : (plan[w] # Idle /\ w \notin stale) => Fresh(plan[w])
  /\ (~raced /\ Separate) => Converged

LEMMA CandidateFacts ==
  ASSUME NEW log, NEW changes, NEW u \in Candidates(log, changes)
  PROVE  u.id \in changes /\ u = AssembledUnit(u.id, Of(u.id, log))
<1>1. u \in AssembleChangeUnits(log) /\ u.id \in changes
  BY DEF Candidates
<1>2. PICK c \in Changes(log) : u = AssembledUnit(c, Of(c, log))
  BY <1>1 DEF AssembleChangeUnits
<1>3. AssembledUnit(c, Of(c, log)).id = c
  BY DEF AssembledUnit
<1>4. QED
  BY <1>1, <1>2, <1>3

\* A change of which no new event speaks has the candidate it had.
LEMMA CandidateStays ==
  ASSUME NEW old, NEW new, NEW before, NEW after, NEW u \in Candidates(new, after),
         Of(u.id, new) = Of(u.id, old), u.id \in before
  PROVE  u \in Candidates(old, before)
<1>1. /\ u \in AssembleChangeUnits(new) /\ u.id \in after
      /\ u.rich /\ u.confirmatory /\ u.final # {} /\ Head(u.source) = "github-webhook"
  BY DEF Candidates
<1>2. PICK c \in Changes(new) :
        /\ u = AssembledUnit(c, Of(c, new))
        /\ Predictions(Of(c, new)) \cup Finals(Of(c, new)) # {}
  BY <1>1 DEF AssembleChangeUnits
<1>3. u.id = c
  BY <1>2 DEF AssembledUnit
<1>4. c \in Changes(old)
  <2>1. Of(c, old) # {} /\ c # NoChange
    BY <1>2, <1>3 DEF Changes, Predictions, Finals
  <2>2. QED
    BY <2>1 DEF Of, Changes
<1>5. u \in AssembleChangeUnits(old)
  BY <1>2, <1>3, <1>4 DEF AssembleChangeUnits
<1>6. QED
  BY <1>1, <1>5 DEF Candidates

\* A log that grows by events that speak of none of the changes.
LEMMA UntouchedGroup ==
  ASSUME NEW old, NEW new, NEW c, c # NoChange, c \notin Changes(new)
  PROVE  Of(c, old \cup new) = Of(c, old)
BY DEF Of, Changes

LEMMA WebhookChangesGrow ==
  ASSUME NEW old, NEW new
  PROVE  /\ WebhookChanges(old) \subseteq WebhookChanges(old \cup new)
         /\ (\A e \in new : e.adapter = "webhook")
              => WebhookChanges(old \cup new) = WebhookChanges(old) \cup Changes(new)
         /\ (\A e \in new : e.adapter # "webhook")
              => WebhookChanges(old \cup new) = WebhookChanges(old)
         /\ NoChange \notin WebhookChanges(old)
BY DEF WebhookChanges, Changes

\* Once mixed, always mixed.
LEMMA SeparateBefore ==
  ASSUME Separate', UNCHANGED scenario, events \subseteq events', units \subseteq units'
  PROVE  Separate
<1>1. WebhookChanges(events) \subseteq WebhookChanges(events')
  BY DEF WebhookChanges, Changes
<1>2. ArchiveChanges(events) \subseteq ArchiveChanges(events')
  BY DEF ArchiveChanges
<1>3. ASSUME NEW b \in scenario.imports
      PROVE  Changes(b.events \cap events) \subseteq Changes(b.events \cap events')
  BY DEF Changes
<1>4. QED
  BY <1>1, <1>2, <1>3 DEF Separate

LEMMA IngestConverges ==
  ASSUME NEW p, Converged, Ingests(p),
         events' = events \cup p.events, units' = units \cup p.units
  PROVE  Converged'
<1> DEFINE changes == Changes(p.events)
           old == WebhookChanges(events)
<1>1. WebhookChanges(events') = old \cup changes /\ NoChange \notin old
  BY WebhookChangesGrow DEF Ingests
<1>2. \A c \in old \ changes : Of(c, events') = Of(c, events)
  BY <1>1, UntouchedGroup
<1>3. ASSUME NEW c \in WebhookChanges(events')
      PROVE  InSequence(Of(c, events'))
  <2>1. CASE c \in changes
    <3>1. Assembles(events')
      BY <2>1 DEF Ingests, Completes
    <3>2. c \in Changes(events')
      BY <2>1 DEF Changes
    <3>3. QED
      BY <3>1, <3>2 DEF Assembles
  <2>2. CASE c \in old \ changes
    BY <1>2, <2>2 DEF Converged
  <2>3. QED
    BY <1>1, <2>1, <2>2
<1>4. ASSUME NEW u \in units', NEW v \in Candidates(events', WebhookChanges(events')),
             u.id = v.id
      PROVE  u = v
  <2>1. v.id \in old \cup changes /\ v = AssembledUnit(v.id, Of(v.id, events'))
    BY <1>1, CandidateFacts
  <2>2. CASE v.id \in changes
    <3>1. v \in Candidates(events', changes)
      BY <2>2 DEF Candidates
    <3>2. CASE u \in units
      BY <1>4, <2>2, <3>1, <3>2 DEF Ingests, Completes, Agree
    <3>3. CASE u \in p.units
      <4>1. u = AssembledUnit(u.id, Of(u.id, events'))
        BY <3>3, CandidateFacts DEF Ingests
      <4>2. QED
        BY <1>4, <2>1, <4>1
    <3>4. QED
      BY <3>2, <3>3
  <2>3. CASE v.id \in old \ changes
    <3>1. v \in Candidates(events, old)
      BY <1>2, <2>3, CandidateStays
    <3>2. u \in units
      BY <1>4, <2>3, CandidateFacts DEF Ingests
    <3>3. QED
      BY <1>4, <3>1, <3>2 DEF Converged, Agree
  <2>4. QED
    BY <2>1, <2>2, <2>3
<1>5. QED
  BY <1>3, <1>4 DEF Converged, Agree

LEMMA FinalizeConverges ==
  ASSUME NEW p, Converged, Finalizes(p),
         events' = events \cup p.events, units' = units \cup p.units
  PROVE  Converged'
<1>1. events' = events
  BY DEF Finalizes
<1>2. ASSUME NEW u \in units', NEW v \in Candidates(events, WebhookChanges(events)),
             u.id = v.id
      PROVE  u = v
  <2>1. CASE u \in units
    BY <1>2, <2>1 DEF Converged, Agree
  <2>2. CASE u \in p.units
    BY <1>2, <2>2, CandidateFacts DEF Finalizes
  <2>3. QED
    BY <2>1, <2>2
<1>3. QED
  BY <1>1, <1>2 DEF Converged, Agree

\* An import that assembles has seen all units that the history could have; one
\* that does not must leave the changes of the webhooks alone.
LEMMA ImportConverges ==
  ASSUME NEW p, Converged, NEW b \in scenario.imports,
         \A e \in b.events : e.adapter # "webhook",
         p.events = b.events, b.assemble => Assembles(events \cup b.events),
         p.units = b.units \cup (IF b.assemble THEN AssembleChangeUnits(events \cup b.events)
                                 ELSE {}),
         Agree(units, p.units), Agree(p.units, p.units),
         events' = events \cup p.events, units' = units \cup p.units,
         Separate', UNCHANGED scenario
  PROVE  Converged'
<1> DEFINE old == WebhookChanges(events)
<1>1. WebhookChanges(events') = old /\ NoChange \notin old
  BY WebhookChangesGrow
<1>2. old \subseteq Changes(events')
  BY DEF WebhookChanges, Changes
<1>3. CASE b.assemble
  <2>1. \A c \in old : InSequence(Of(c, events'))
    BY <1>2, <1>3 DEF Assembles
  <2>2. Candidates(events', old) \subseteq p.units
    BY <1>3 DEF Candidates
  <2>3. Agree(units', Candidates(events', old))
    BY <2>2 DEF Agree
  <2>4. QED
    BY <1>1, <2>1, <2>3 DEF Converged
<1>4. CASE ~b.assemble
  <2>1. /\ \A c \in old : c \notin Changes(b.events)
        /\ \A u \in p.units : u.id \notin old
    <3>1. b.events \cap events' = b.events /\ b.units \cap units' = b.units /\ p.units = b.units
      BY <1>4
    <3>2. (Changes(b.events \cap events') \cup {u.id : u \in b.units \cap units'}) \cap old = {}
      BY <1>1, <1>4 DEF Separate
    <3>3. QED
      BY <3>1, <3>2
  <2>2. \A c \in old : Of(c, events') = Of(c, events)
    BY <1>1, <2>1, UntouchedGroup
  <2>3. ASSUME NEW u \in units', NEW v \in Candidates(events', old), u.id = v.id
        PROVE  u = v
    <3>1. v.id \in old
      BY CandidateFacts
    <3>2. v \in Candidates(events, old)
      BY <2>2, <3>1, CandidateStays
    <3>3. u \in units
      BY <2>1, <2>3, <3>1
    <3>4. QED
      BY <2>3, <3>2, <3>3 DEF Converged, Agree
  <2>4. QED
    BY <1>1, <2>2, <2>3 DEF Converged, Agree
<1>5. QED
  BY <1>3, <1>4

LEMMA WriteConverges ==
  ASSUME IInv, ConvergeInv, NEW w \in Worker, Write(w)
  PROVE  ConvergeInv'
<1> DEFINE p == plan[w]
<1>1. /\ p # Idle /\ Agree(units, p.units) /\ Agree(p.units, p.units)
      /\ events' = events \cup p.events /\ units' = units \cup p.units
      /\ scenario' = scenario /\ raced' = (raced \/ w \in stale)
  BY DEF Write, Upsertable
<1>2. plan' = [v \in Worker |-> plan'[v]] /\ plan'[w] = Idle
      /\ \A v \in Worker \ {w} : plan'[v] = plan[v]
  BY DEF Write, IInv
<1>3. ASSUME NEW v \in Worker, plan'[v] # Idle, v \notin stale'
      PROVE  Fresh(plan[v])'
  <2>1. v # w /\ plan'[v] = plan[v]
    BY <1>2, <1>3
  <2>2. history' = history
    BY <1>3, <2>1 DEF Write
  <2>3. v \notin stale
    BY <1>3, <2>1, <2>2 DEF Write
  <2>4. Fresh(plan[v])
    BY <1>3, <2>1, <2>3 DEF ConvergeInv
  <2>5. QED
    BY <1>1, <2>1, <2>2, <2>4
       DEF history, Fresh, Ingests, Finalizes, ImportsBatch
<1>4. ASSUME ~raced', Separate'
      PROVE  Converged'
  <2>1. Fresh(p) /\ ~raced
    BY <1>1, <1>4 DEF ConvergeInv
  <2>2. Converged
    BY <1>1, <1>4, <2>1, SeparateBefore DEF ConvergeInv
  <2>3. CASE Ingests(p)
    BY <1>1, <2>2, <2>3, IngestConverges
  <2>4. CASE Finalizes(p)
    BY <1>1, <2>2, <2>4, FinalizeConverges
  <2>5. CASE ImportsBatch(p)
    <3>1. PICK b \in scenario.imports :
            /\ p.events = b.events
            /\ b.assemble => Assembles(events \cup b.events)
            /\ p.units = b.units \cup (IF b.assemble THEN AssembleChangeUnits(events \cup b.events)
                                       ELSE {})
      BY <2>5 DEF ImportsBatch
    <3>2. \A e \in b.events : e.adapter # "webhook"
      BY ScenarioFacts DEF IInv
    <3>3. QED
      BY <1>1, <1>4, <2>2, <3>1, <3>2, ImportConverges
  <2>6. QED
    BY <2>1, <2>3, <2>4, <2>5 DEF Fresh
<1>5. QED
  BY <1>3, <1>4 DEF ConvergeInv

\* A step that writes neither log keeps what was decided, and what was written.
LEMMA QuietConverges ==
  ASSUME ConvergeInv, UNCHANGED <<scenario, history, raced>>,
         \A w \in Worker : (plan'[w] # Idle /\ w \notin stale') =>
           (plan'[w] = plan[w] /\ w \notin stale) \/ Fresh(plan'[w])
  PROVE  ConvergeInv'
<1>1. ASSUME NEW w \in Worker, plan'[w] # Idle, w \notin stale'
      PROVE  Fresh(plan[w])'
  <2>1. Fresh(plan'[w])
    BY <1>1 DEF ConvergeInv
  <2>2. QED
    BY <2>1 DEF history, Fresh, Ingests, Finalizes, ImportsBatch
<1>2. Separate' => Separate
  BY DEF Separate, history
<1>3. Converged => Converged'
  BY DEF Converged, history
<1>4. QED
  BY <1>1, <1>2, <1>3 DEF ConvergeInv

LEMMA PrepareConverges ==
  ASSUME IInv, ConvergeInv, NEW w \in Worker, NEW incoming, NEW complete,
         Prepare(w, incoming, complete),
         Fresh([events |-> incoming, units |-> complete])
  PROVE  ConvergeInv'
<1>1. /\ plan'[w] = [events |-> incoming, units |-> complete]
      /\ \A v \in Worker \ {w} : plan'[v] = plan[v]
      /\ UNCHANGED <<scenario, history, raced, stale>>
  BY DEF Prepare, IInv
<1>2. QED
  BY <1>1, QuietConverges

LEMMA BatchConverges ==
  ASSUME IInv, ConvergeInv, NEW w \in Worker, NEW batch, IngestBatch(w, batch),
         \A c \in batch : \E v \in Worker : CapturedFor(c, v)
  PROVE  ConvergeInv'
<1> DEFINE incoming == UNION {EventsOf(c) : c \in batch}
           complete == Candidates(Combined(events, incoming), Changes(incoming))
           p == [events |-> incoming, units |-> complete]
<1>1. \A e \in incoming : e.adapter = "webhook"
  BY CaptureEvents DEF IInv
<1>2. /\ Completes(Combined(events, incoming), units, Changes(incoming))
      /\ Prepare(w, incoming, complete)
  BY DEF IngestBatch, IngestAccepts
<1>3. Ingests(p)
  <2> HIDE DEF incoming
  <2>1. p.events = incoming /\ p.units = complete
    OBVIOUS
  <2>2. QED
    BY <1>1, <1>2, <2>1 DEF Ingests, Combined
<1> HIDE DEF incoming, complete
<1>4. QED
  BY <1>2, <1>3, PrepareConverges DEF Fresh

LEMMA ConvergeStep == IInv /\ ConvergeInv /\ [Next]_vars => ConvergeInv'
<1> SUFFICES ASSUME IInv, ConvergeInv, [Next]_vars
             PROVE  ConvergeInv'
  OBVIOUS
<1>1. CASE Emit \/ CaptureDelivery \/ UNCHANGED vars
  BY <1>1, QuietConverges DEF Emit, CaptureDelivery, Capture, vars, history
<1>2. ASSUME NEW w \in Worker, IngestCapture(w)
      PROVE  ConvergeInv'
  <2>1. CASE \E c \in inbox : IngestBatch(w, {c})
    BY <2>1, BatchConverges DEF IInv, InboxInv
  <2>2. CASE \E i \in 1..now :
               LET c == Captured(i, scenario.pin[w]) IN ValidCapture(c) /\ IngestBatch(w, {c})
    BY <2>2, BatchConverges, CaptureFacts DEF IInv
  <2>3. QED
    BY <1>2, <2>1, <2>2 DEF IngestCapture
<1>3. ASSUME NEW w \in Worker, IngestDirectory(w)
      PROVE  ConvergeInv'
  BY <1>3, BatchConverges DEF IngestDirectory, IInv, InboxInv
<1>4. ASSUME NEW w \in Worker, FinalizeUnits(w)
      PROVE  ConvergeInv'
  <2> DEFINE complete == Candidates(events, WebhookChanges(events))
  <2>1. Prepare(w, {}, complete)
    BY <1>4 DEF FinalizeUnits
  <2>2. Finalizes([events |-> {}, units |-> complete])
    BY DEF Finalizes
  <2> HIDE DEF complete
  <2>3. QED
    BY <2>1, <2>2, PrepareConverges DEF Fresh
<1>5. ASSUME NEW w \in Worker, NEW b \in scenario.imports, ImportHistory(w, b)
      PROVE  ConvergeInv'
  <2> DEFINE complete == b.units \cup (IF b.assemble THEN AssembleChangeUnits(events \cup b.events)
                                      ELSE {})
  <2>1. Prepare(w, b.events, complete) /\ (b.assemble => Assembles(events \cup b.events))
    BY <1>5 DEF ImportHistory
  <2>2. ImportsBatch([events |-> b.events, units |-> complete])
    BY <2>1 DEF ImportsBatch
  <2> HIDE DEF complete
  <2>3. QED
    BY <2>1, <2>2, PrepareConverges DEF Fresh
<1>6. ASSUME NEW w \in Worker, GiveUp(w)
      PROVE  ConvergeInv'
  <2>1. /\ plan'[w] = Idle /\ \A v \in Worker \ {w} : plan'[v] = plan[v]
        /\ stale' = stale \ {w} /\ UNCHANGED <<scenario, history, raced>>
    BY <1>6 DEF GiveUp, IInv
  <2>2. QED
    BY <2>1, QuietConverges
<1>7. QED
  BY <1>1, <1>2, <1>3, <1>4, <1>5, <1>6, WriteConverges DEF Next

LEMMA ConvergeInit == Init => ConvergeInv
<1> SUFFICES ASSUME Init
             PROVE  ConvergeInv
  OBVIOUS
<1>1. events = {} /\ units = {} /\ WebhookChanges(events) = {}
  BY DEF Init, WebhookChanges, Changes
<1>2. \A w \in Worker : plan[w] = Idle
  BY DEF Init
<1>3. QED
  BY <1>1, <1>2 DEF ConvergeInv, Converged, Agree

-----------------------------------------------------------------------------

\* Every event that speaks for a delivery was normalized from it, in the history, in the
\* plans of the workers and in the inbox.
THEOREM InductiveInvariant == Spec => []IInv
BY InitInv, InvStep, PTL DEF Spec

\* The history is a snapshot that the next transaction would accept, in every state.
THEOREM TypeCorrect == Spec => []TypeOK
<1>1. IInv => TypeOK
  BY DEF IInv
<1>2. QED
  BY InductiveInvariant, <1>1, PTL

\* Observers with different pins can race, but they cannot both write: one policy rules
\* all that was captured, and it granted every strong outcome.
THEOREM OnePolicy == Spec => []OutcomesUnderOnePolicy
<1>1. IInv => OutcomesUnderOnePolicy
  <2> SUFFICES ASSUME IInv
               PROVE  OutcomesUnderOnePolicy
    OBVIOUS
  <2>1. CASE \A e \in events : e.adapter # "webhook"
    BY <2>1, WebhookAssumption DEF OutcomesUnderOnePolicy
  <2>2. CASE \E e \in events : e.adapter = "webhook"
    <3>1. PICK first \in events : first.adapter = "webhook"
      BY <2>2
    <3>2. PICK v \in Worker : first.policy = scenario.pin[v]
      BY <3>1 DEF IInv, LogInv, FromDelivery
    <3>3. ASSUME NEW e \in events, e.adapter = "webhook"
          PROVE  /\ e.policy = scenario.pin[v]
                 /\ Semantic(e) =>
                      \E i \in 1..now :
                        /\ e.source = <<"github-webhook", scenario.deliveries[i].id>>
                        /\ Granted(scenario.deliveries[i], scenario.pin[v])
      <4>1. PICK i \in 1..now, u \in Worker :
              /\ e.source = <<"github-webhook", scenario.deliveries[i].id>>
              /\ e.policy = scenario.pin[u]
              /\ Semantic(e) => Granted(scenario.deliveries[i], scenario.pin[u])
        BY <3>3 DEF IInv, LogInv, FromDelivery
      <4>2. scenario.pin[u] # NoPolicy /\ scenario.pin[v] # NoPolicy
        BY ScenarioFacts DEF IInv
      <4>3. e.policy = first.policy
        BY <3>2, <4>1, <4>2 DEF IInv, TypeOK, ValidSnapshot
      <4>4. QED
        BY <3>2, <4>1, <4>3
    <3>4. QED
      BY <3>3 DEF OutcomesUnderOnePolicy, Granted
  <2>3. QED
    BY <2>1, <2>2
<1>2. QED
  BY InductiveInvariant, <1>1, PTL

\* A delivery that is repeated, late or ingested twice keeps the availability it has.
THEOREM Availability == Spec => AvailabilityStands
<1>1. IInv' /\ [Next]_vars =>
        [/\ events \subseteq events'
         /\ \A e \in events, f \in events' :
              (e.adapter = "webhook" /\ f.source = e.source) => f.available = e.available]_vars
  <2> SUFFICES ASSUME IInv', [Next]_vars
               PROVE  /\ events \subseteq events'
                      /\ \A e \in events, f \in events' :
                           (e.adapter = "webhook" /\ f.source = e.source) =>
                             f.available = e.available
    OBVIOUS
  <2>1. events \subseteq events'
    BY DEF Next, Emit, CaptureDelivery, Capture, IngestCapture, IngestDirectory, IngestBatch,
       FinalizeUnits, ImportHistory, Prepare, Write, GiveUp, history, vars
  <2>2. QED
    BY <2>1 DEF IInv, LogInv
<1>2. QED
  BY InductiveInvariant, <1>1, PTL DEF Spec, AvailabilityStands

\* With any number of observers, captures and imports, in any order of deliveries: a
\* history that no race wrote passes the convergence pass (_complete_github_webhook_units),
\* as long as collectors stay away from the changes that webhooks speak of.
THEOREM Convergence == Spec => []ConvergesUnlessRaced
<1>1. IInv /\ ConvergeInv => ConvergesUnlessRaced
  <2> SUFFICES ASSUME ConvergeInv, ~raced, Undisturbed
               PROVE  Completes(events, units, WebhookChanges(events))
    BY DEF ConvergesUnlessRaced, FinalizeAccepts
  <2> DEFINE imported == {e \in events : e.adapter # "webhook"}
  <2>1. Separate /\ Assembles(imported) /\ Converged
    BY DEF Undisturbed, ConvergeInv
  <2>2. ASSUME NEW c \in Changes(events)
        PROVE  InSequence(Of(c, events))
    <3>1. CASE c \in WebhookChanges(events)
      BY <2>1, <3>1 DEF Converged
    <3>2. CASE c \notin WebhookChanges(events)
      <4>1. Of(c, events) = Of(c, imported)
        BY <3>2 DEF Of, WebhookChanges, Changes
      <4>2. c \in Changes(imported)
        BY <3>2 DEF WebhookChanges, Changes
      <4>3. QED
        BY <2>1, <4>1, <4>2 DEF Assembles
    <3>3. QED
      BY <3>1, <3>2
  <2>3. QED
    BY <2>1, <2>2 DEF Completes, Separate, Assembles, Converged
<1>2. QED
  BY InitInv, InvStep, ConvergeInit, ConvergeStep, <1>1, PTL DEF Spec

=============================================================================
