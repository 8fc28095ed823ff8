---------------------------- MODULE WebhookIngest ----------------------------
(***************************************************************************)
(* Point-in-time capture of pull requests (history/github_webhooks.py,     *)
(* integrations/github-action/capture.py).  The provider's deliveries are  *)
(* lost, delayed, repeated and reordered; each one received is normalized  *)
(* to a capture and kept as a create-once bundle.  Workers ingest single   *)
(* captures or the whole inbox, and finalize what is complete: each reads  *)
(* the history under its lock, decides without it which units to persist,  *)
(* and writes both logs in one transaction that validates their union.     *)
(* Imports do the same beside them.                                        *)
(*                                                                         *)
(* A label policy is the set of its declarations and stands for its hash.  *)
(* Keys, digests and size limits are left out; so are captures of another  *)
(* repository, which are refused as those under another policy are.        *)
(***************************************************************************)
EXTENDS ChangeUnits

CONSTANTS
  Scenario,  \* what may happen: deliveries in their order, pin[w], the frozen
             \* policy that worker w is given, and batches that are imported
  Worker,    \* observer processes
  Idle       \* a worker without a plan

VARIABLES
  scenario,  \* the scenario of this behaviour
  now,       \* how many deliveries the provider has made: the time
  inbox,     \* bundles in the observer's directory
  events,    \* the event log
  units,     \* the unit log
  plan,      \* plan[w]: what worker w is about to write, or Idle
  stale,     \* workers whose snapshot is no longer the history
  raced      \* history: some worker wrote a plan it made from a stale snapshot

vars == <<scenario, now, inbox, events, units, plan, stale, raced>>

\* A declaration grants a label's outcome to the actors it lists, and lists some.
LabelOutcome(d) == d.actors # {}

\* parse_github_label_policy: each label is declared once.
LabelPolicy(p) ==
  /\ \A d \in p : LabelOutcome(d)
  /\ \A d, other \in p : d.name = other.name => d = other

\* The deliveries that are normalized: capture refuses all others.
Supported(d) ==
  /\ d.event \in {"pull_request", "pull_request_review", "check_run", "label"}
  /\ d.event = "pull_request" =>
       d.action \in {"opened", "reopened", "synchronize", "closed", "labeled", "unlabeled"}

\* Each delivery has an id of its own; the webhook adapter alone speaks of deliveries.
ASSUME WebhookAssumption ==
  /\ Worker # {}
  /\ \A s \in Scenario :
       /\ \A w \in Worker : LabelPolicy(s.pin[w]) /\ s.pin[w] # NoPolicy
       /\ Len(s.deliveries) \in Nat
       /\ \A i, j \in 1..Len(s.deliveries) :
            /\ Supported(s.deliveries[i])
            /\ s.deliveries[i].id = s.deliveries[j].id => i = j
       /\ \A b \in s.imports : \A e \in b.events :
            e.adapter # "webhook" /\ e.source[1] # "github-webhook"

-----------------------------------------------------------------------------
(* Normalization of one delivery. *)

EventOf(capture, suffix, kind, change) ==
  [id |-> 10 * capture.delivery.id + suffix, kind |-> kind, change |-> change,
   occurred |-> capture.received, available |-> capture.received,
   head |-> NoSha, commits |-> <<>>, semantic |-> FALSE, pointInTime |-> TRUE,
   source |-> <<"github-webhook", capture.delivery.id>>, policy |-> capture.policy, adapter |-> "webhook"]

\* Fault: anyone may speak for a label that the policy declares.
AnyoneAuthorized(capture) ==
  \E declaration \in capture.policy : declaration.name = capture.delivery.label

\* Only an actor whom the policy lists, and never the author.
Authorized(capture) ==
  \E declaration \in capture.policy :
    /\ declaration.name = capture.delivery.label
    /\ capture.delivery.sender \in declaration.actors
    /\ capture.delivery.sender # capture.delivery.author

PullEvents(capture) ==
  LET d == capture.delivery
      Own(suffix, kind) == EventOf(capture, suffix, kind, d.change)
      WithHead(e) == [e EXCEPT !.head = d.head, !.commits = <<d.head>>]
  IN  {Own(0, "provider_delivery")} \cup
      CASE d.action \in {"opened", "reopened", "synchronize"} ->
             {WithHead(Own(1, "change_snapshot"))}
        [] d.action = "closed" ->
             {[WithHead(Own(1, IF d.merged THEN "change_merged" ELSE "change_closed"))
                 EXCEPT !.occurred = capture.at]}
        [] d.action = "unlabeled" -> {Own(1, "provider_label_removed")}
        [] d.action = "labeled" ->
             {Own(1, "provider_label_applied")} \cup
             (IF Authorized(capture)
              THEN {[Own(2, "change_finalized") EXCEPT !.semantic = TRUE]} ELSE {})

ReviewEvents(capture) ==
  LET d == capture.delivery
      Own(suffix, kind) == EventOf(capture, suffix, kind, d.change)
  IN  {Own(0, "provider_delivery"),
       IF d.action = "submitted"
       THEN [Own(1, "review") EXCEPT !.occurred = capture.at]
       ELSE Own(1, "provider_review_changed")}

\* A check run speaks of every pull request it lists; the delivery event
\* belongs to the first of them.
CheckEvents(capture) ==
  LET d == capture.delivery
  IN  IF d.pulls = <<>> THEN {EventOf(capture, 0, "provider_delivery", NoChange)}
      ELSE {EventOf(capture, 0, "provider_delivery", d.pulls[1])} \cup
           {[EventOf(capture, i, "ci_run", d.pulls[i]) EXCEPT !.occurred = capture.at] :
              i \in DOMAIN d.pulls}

RepositoryLabelEvents(capture) ==
  {EventOf(capture, 0, "provider_delivery", NoChange),
   EventOf(capture, 1, "provider_label_definition", NoChange)}

EventsOf(capture) ==
  CASE capture.delivery.event = "pull_request" -> PullEvents(capture)
    [] capture.delivery.event = "pull_request_review" -> ReviewEvents(capture)
    [] capture.delivery.event = "check_run" -> CheckEvents(capture)
    [] capture.delivery.event = "label" -> RepositoryLabelEvents(capture)

\* GitHubWebhookCapture raises unless its events are all of this delivery, and one
\* of them is the delivery itself.
ValidCapture(capture) ==
  LET made == EventsOf(capture)
  IN  /\ Agree(made, made)
      /\ Cardinality({e \in made : e.kind = "provider_delivery"}) = 1
      /\ \A e \in made :
           /\ e.available = capture.received /\ e.policy = capture.policy
           /\ e.source = <<"github-webhook", capture.delivery.id>>

-----------------------------------------------------------------------------
(* What an observer decides from a snapshot of the history. *)

ArchiveChanges(log) == {e.change : e \in {f \in log : f.adapter = "archive"}}
WebhookChanges(log) == Changes({e \in log : e.adapter = "webhook"})

\* Complete rich units of the given changes.
Candidates(log, changes) ==
  IF changes = {} THEN {}
  ELSE {u \in AssembleChangeUnits(log) :
          /\ u.id \in changes
          /\ u.rich /\ u.confirmatory /\ u.final # {}
          /\ Head(u.source) = "github-webhook"}

\* _complete_github_webhook_units raises when this does not hold.
Completes(log, stored, changes) ==
  changes # {} =>
    /\ \A u \in stored : u.id \in changes => u.kind # "github_archive_change"
    /\ changes \cap ArchiveChanges(log) = {}
    /\ Assembles(log)
    /\ Agree(stored, Candidates(log, changes))

\* _validate_history_capture_pins
Pinned(w, log) == \A e \in log : e.adapter = "webhook" => e.policy = scenario.pin[w]

\* Fault: units are completed from the history without the new events.
StaleCombined(log, incoming) == log

Combined(log, incoming) == log \cup incoming

\* An ingestion of these events, seen from this history, would be written.
IngestAccepts(w, log, stored, incoming) ==
  /\ Pinned(w, log)
  /\ Agree(log, incoming)
  /\ Completes(Combined(log, incoming), stored, Changes(incoming))

FinalizeAccepts(w, log, stored) ==
  Pinned(w, log) /\ Completes(log, stored, WebhookChanges(log))

-----------------------------------------------------------------------------

Init ==
  /\ scenario \in Scenario
  /\ now = 0
  /\ inbox = {}
  /\ events = {} /\ units = {}
  /\ plan = [w \in Worker |-> Idle]
  /\ stale = {} /\ raced = FALSE

history == <<events, units>>

\* The provider makes its next delivery.
Emit ==
  /\ now < Len(scenario.deliveries)
  /\ now' = now + 1
  /\ UNCHANGED <<scenario, inbox, history, plan, stale, raced>>

\* _capture_delivery: a delivery, or a repetition of it, arrives now and is normalized.
Captured(i, policy) ==
  [delivery |-> scenario.deliveries[i], at |-> i, received |-> now, policy |-> policy]

\* write_github_capture_bundle: create-once, under the name of its delivery.
WriteBundle(c) ==
  /\ \A kept \in inbox : kept.delivery # c.delivery
  /\ inbox' = inbox \cup {c}

\* A webhook receiver, or the capture step of a workflow run.
Capture(i, policy) ==
  /\ ValidCapture(Captured(i, policy))
  /\ WriteBundle(Captured(i, policy))
  /\ UNCHANGED <<scenario, now, history, plan, stale, raced>>

\* Each is configured with the policy that some observer pins.
CaptureDelivery == \E i \in 1..now, w \in Worker : Capture(i, scenario.pin[w])

\* A worker has read the history and decided; nothing is locked any more.
Prepare(w, incoming, complete) ==
  /\ plan[w] = Idle
  /\ plan' = [plan EXCEPT ![w] = [events |-> incoming, units |-> complete]]
  /\ UNCHANGED <<scenario, now, inbox, history, stale, raced>>

\* _validate_capture_pins
CapturePinned(w, c) == c.policy = scenario.pin[w]

\* The batch of ingest_github_capture is one capture.
IngestBatch(w, batch) ==
  LET incoming == UNION {EventsOf(c) : c \in batch}
  IN  /\ batch # {}
      /\ \A c \in batch : CapturePinned(w, c)
      /\ IngestAccepts(w, events, units, incoming)
      /\ Prepare(w, incoming, Candidates(Combined(events, incoming), Changes(incoming)))

\* Of a stored bundle, or of a capture that its receiver did not keep.
IngestCapture(w) ==
  \/ \E c \in inbox : IngestBatch(w, {c})
  \/ \E i \in 1..now :
       LET c == Captured(i, scenario.pin[w]) IN ValidCapture(c) /\ IngestBatch(w, {c})

IngestDirectory(w) == IngestBatch(w, inbox)

\* finalize_github_capture_units, of all changes.
FinalizeUnits(w) ==
  /\ FinalizeAccepts(w, events, units)
  /\ Candidates(events, WebhookChanges(events)) # {}
  /\ Prepare(w, {}, Candidates(events, WebhookChanges(events)))

\* history import assembles all it knows, unless it is told not to; the
\* collectors bring the units they made themselves.
ImportHistory(w, b) ==
  LET log == events \cup b.events
  IN  /\ b.assemble => Agree(events, b.events) /\ Assembles(log)
      /\ Prepare(w, b.events,
                 b.units \cup (IF b.assemble THEN AssembleChangeUnits(log) ELSE {}))

\* Fault: events are appended without a look at those that are there.
UncheckedUpsertable(w) ==
  /\ Agree(units, plan[w].units)
  /\ ValidSnapshot(events \cup plan[w].events, units \cup plan[w].units)

\* upsert_history_batch refuses, or appends to both logs in one transaction.
Upsertable(w) ==
  /\ Agree(events, plan[w].events) /\ Agree(plan[w].events, plan[w].events)
  /\ Agree(units, plan[w].units) /\ Agree(plan[w].units, plan[w].units)
  /\ ValidSnapshot(events \cup plan[w].events, units \cup plan[w].units)

Write(w) ==
  /\ plan[w] # Idle /\ Upsertable(w)
  /\ events' = events \cup plan[w].events
  /\ units' = units \cup plan[w].units
  /\ plan' = [plan EXCEPT ![w] = Idle]
  /\ stale' = IF history' = history THEN stale \ {w}
              ELSE {v \in Worker \ {w} : plan[v] # Idle}
  /\ raced' = (raced \/ w \in stale)
  /\ UNCHANGED <<scenario, now, inbox>>

\* The write is refused, or the worker dies.
GiveUp(w) ==
  /\ plan[w] # Idle
  /\ plan' = [plan EXCEPT ![w] = Idle]
  /\ stale' = stale \ {w}
  /\ UNCHANGED <<scenario, now, inbox, history, raced>>

Next ==
  \/ Emit
  \/ CaptureDelivery
  \/ \E w \in Worker :
       \/ IngestCapture(w) \/ IngestDirectory(w) \/ FinalizeUnits(w)
       \/ \E b \in scenario.imports : ImportHistory(w, b)
       \/ Write(w) \/ GiveUp(w)

Spec == Init /\ [][Next]_vars

-----------------------------------------------------------------------------
(* Properties. *)

\* Both logs hold each id once, and are a snapshot that the next transaction
\* would accept as it is, whoever wrote them in whatever order.
TypeOK ==
  /\ scenario \in Scenario /\ now \in 0..Len(scenario.deliveries)
  /\ \A c \in inbox : c.received \in c.at..now
  /\ stale \subseteq {w \in Worker : plan[w] # Idle} /\ raced \in BOOLEAN
  /\ Agree(events, events) /\ Agree(units, units)
  /\ ValidSnapshot(events, units)

\* Whatever observers race with whatever pins, one label policy rules all that
\* was captured, and every strong outcome is one that this policy grants.
OutcomesUnderOnePolicy ==
  \E v \in Worker :
    \A e \in events : e.adapter = "webhook" =>
      /\ e.policy = scenario.pin[v]
      /\ Semantic(e) =>
           \E i \in 1..now, declaration \in scenario.pin[v] :
             LET d == scenario.deliveries[i]
             IN  /\ e.source = <<"github-webhook", d.id>>
                 /\ declaration.name = d.label
                 /\ d.sender \in declaration.actors \ {d.author}

\* A delivery keeps the availability of its first stored capture: a repetition
\* that was received at another time neither rewrites it nor adds to it, whichever
\* observer normalized it and ingests it when (write_github_capture_bundle,
\* upsert_history_batch).
AvailabilityStands ==
  [][/\ events \subseteq events'
     /\ \A e \in events, f \in events' :
          (e.adapter = "webhook" /\ f.source = e.source) => f.available = e.available]_vars

\* What webhooks speak of is not mixed with what the collectors made of it.
Separate ==
  /\ WebhookChanges(events) \cap ArchiveChanges(events) = {}
  /\ \A u \in units : u.id \in WebhookChanges(events) => u.kind # "github_archive_change"
  /\ \A b \in scenario.imports : ~b.assemble =>
       (Changes(b.events \cap events) \cup {u.id : u \in b.units \cap units})
         \cap WebhookChanges(events) = {}

\* Nor is anything that was imported out of sequence, which stops all assembly.
Undisturbed == Separate /\ Assembles({e \in events : e.adapter # "webhook"})

\* The convergence pass accepts every history that was written without a race,
\* in whatever order deliveries arrived: what it refuses was refused before.
ConvergesUnlessRaced ==
  (~raced /\ Undisturbed) =>
    \A w \in Worker : Pinned(w, events) => FinalizeAccepts(w, events, units)

=============================================================================
