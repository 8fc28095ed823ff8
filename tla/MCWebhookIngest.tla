--------------------------- MODULE MCWebhookIngest ---------------------------
(***************************************************************************)
(* One pull request through a few deliveries, two observers, and the two   *)
(* ways to import beside them.                                             *)
(***************************************************************************)
EXTENDS WebhookIngest

Perms == Permutations(Worker)

CONSTANTS A, B, w1, w2

Delivery(id, event, action, head) ==
  [id |-> id, event |-> event, action |-> action, change |-> A, head |-> head,
   merged |-> TRUE, sender |-> "maintainer", author |-> "author",
   label |-> "bug", pulls |-> <<A, B>>]

Pull(id, action, head) == Delivery(id, "pull_request", action, head)

Opened == Pull(2, "opened", "h1")
Pushed == Pull(1, "synchronize", "h2")
Closed == Pull(3, "closed", "h2")
Reopened == Pull(4, "reopened", "h1")
Abandoned == [Pull(5, "closed", "h1") EXCEPT !.merged = FALSE]
Labeled == Pull(6, "labeled", NoSha)
SelfLabeled == [Labeled EXCEPT !.id = 7, !.sender = "author"]
Unlabeled == Pull(8, "unlabeled", NoSha)
Checked == Delivery(9, "check_run", "completed", NoSha)
Unattributed == [Checked EXCEPT !.id = 10, !.pulls = <<>>]
Reviewed == Delivery(11, "pull_request_review", "submitted", NoSha)
Dismissed == Delivery(12, "pull_request_review", "dismissed", NoSha)
Renamed == Delivery(13, "label", "edited", NoSha)

Archived(change) ==
  LET e == [id |-> 1000, kind |-> "change_snapshot", change |-> change,
            occurred |-> 0, available |-> 1, head |-> "h1", commits |-> <<"h1">>,
            semantic |-> FALSE, pointInTime |-> FALSE, source |-> <<"github", 1>>,
            policy |-> NoPolicy, adapter |-> "archive"]
  IN  [events |-> {e}, assemble |-> FALSE,
       units |-> {[AssembledUnit(change, {e}) EXCEPT !.kind = "github_archive_change"]}]

\* The event archive tells of the merge, too, by another adapter and without a
\* unit kind of its own.
EventArchived(change) ==
  LET e == [CHOOSE e \in Archived(change).events : TRUE
              EXCEPT !.id = 1002, !.occurred = 2, !.available = 2, !.pointInTime = TRUE,
                     !.source = <<"github-event-archive", 1>>, !.adapter = "event_archive"]
      merged == [e EXCEPT !.id = 1003, !.kind = "change_merged"]
  IN  [events |-> {e, merged}, units |-> {AssembledUnit(change, {e, merged})}, assemble |-> FALSE]

Unrelated ==
  [events |-> {[CHOOSE e \in Archived(B).events : TRUE
                  EXCEPT !.id = 1001, !.adapter = "import", !.source = <<"import", 1>>]},
   units |-> {}, assemble |-> TRUE]

Grants(actors) == {[name |-> "bug", actors |-> actors]}
Frozen == Grants({"maintainer"})
Amended == Grants({"maintainer", "author"})

One == (w1 :> Frozen) @@ (w2 :> Frozen)
Two == (w1 :> Frozen) @@ (w2 :> Amended)
TwoSwapped == (w1 :> Amended) @@ (w2 :> Frozen)

Case(deliveries, pin, imports) ==
  [deliveries |-> deliveries, pin |-> pin, imports |-> imports]

RaceScenario == {Case(<<Opened, Pushed, Closed>>, One, {})}

MCScenario ==
  RaceScenario \cup
  { Case(<<Abandoned, Reopened>>, One, {}),
    Case(<<Labeled, SelfLabeled>>, Two, {}),
    Case(<<Labeled, SelfLabeled>>, TwoSwapped, {}),
    Case(<<Opened, Closed>>, One, {Archived(A), EventArchived(A), Unrelated}),
    Case(<<Checked, Reviewed>>, One, {}),
    Case(<<Dismissed, Unlabeled>>, One, {}),
    Case(<<Renamed, Unattributed>>, One, {}) }

=============================================================================
