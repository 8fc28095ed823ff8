----------------------------- MODULE GitHubArchive -----------------------------
(***************************************************************************)
(* `history import-github` (history/github.py): a bounded collection of    *)
(* the closed pull requests of a repository, their reviews and checks, and *)
(* the reverts of their commits.  Only what happened up to a cutoff is     *)
(* read, and a pull request of which anything is missing is left out.      *)
(*                                                                         *)
(* `github` is what the service answers, one record for each of its        *)
(* states; a collection reads one state.  Times and names are numbers.     *)
(* A list that is longer than its limit is cut.                            *)
(***************************************************************************)
EXTENDS EventNames, Sequences, FiniteSetsExt, SequencesExt

CONSTANTS
  NoSince,  \* no --since
  NoMerge   \* merge_commit_sha of a pull request that was not merged

VARIABLE github

Cut(records, max) == Cardinality(records) > max

ListedFirst(p, q) == p.created > q.created \/ (p.created = q.created /\ p.number > q.number)

\* Pull requests are listed newest first.
Listed(closed, max) ==
  {p \in closed : Cardinality({q \in closed : ListedFirst(q, p)}) < max}

FinalizedAt(pull) == IF pull.merged # Never THEN pull.merged ELSE pull.closed

ChangeOf(pull) == <<"pull", pull.number>>

\* _normalize_pull_context: the opening of a pull request that was forced
\* cannot be reconstructed.
HasContext(pull) == pull.state = "closed" /\ ~pull.forced

-----------------------------------------------------------------------------

Snapshot(pull) ==
  EventOf(IdOf(<<"pull-snapshot", pull.number>>), "change_snapshot", ChangeOf(pull), pull.created,
          pull.number,
          [head |-> pull.commits[1], test_changed |-> FALSE, code_changed |-> FALSE,
           sound |-> TRUE])

Final(pull) ==
  EventOf(IdOf(<<"pull-final", pull.number>>),
          IF pull.merged # Never THEN "change_merged" ELSE "change_closed",
          ChangeOf(pull), FinalizedAt(pull), pull.number,
          [head |-> Last(pull.commits), commits |-> pull.commits])

PullUnit(pull) ==
  [id |-> ChangeOf(pull), kind |-> "github_archive_change", prediction |-> pull.created,
   finalized |-> FinalizedAt(pull), commits |-> pull.commits,
   attached |-> {Snapshot(pull).id, Final(pull).id}]

InTime(at, pull, until) == at > pull.created /\ at <= until

\* Fault: a review carries its state, which GitHub changes afterwards.
StatefulReviewEvent(pull, review) ==
  EventOf(IdOf(<<"review", review.id>>), "review", ChangeOf(pull), review.at, review.reviewer,
          [decision |-> review.state, category |-> "unspecified",
           independent |-> review.reviewer # pull.author, sound |-> TRUE])

\* A review's state may be changed afterwards, and is not recorded.
ReviewEvent(pull, review) ==
  EventOf(IdOf(<<"review", review.id>>), "review", ChangeOf(pull), review.at, review.reviewer,
          [decision |-> "unspecified", category |-> "unspecified",
           independent |-> review.reviewer # pull.author, sound |-> TRUE])

\* Fault: a check run is named by its number alone.
UnversionedCheckName(pull, check) ==
  <<"check", pull.number, check.id, check.name, "any", 0, 0, FALSE>>

\* A check run is named with everything that a rerun of it may change.
CheckName(pull, check) ==
  <<"check", pull.number, check.id, check.name, check.conclusion, check.at, check.sha,
    check.sha = pull.merge>>

CheckEvent(pull, check) ==
  LET merge == check.sha = pull.merge
      failed == check.conclusion = "failure"
  IN  EventOf(IdOf(CheckName(pull, check)), "ci_run", ChangeOf(pull), check.at, check.name,
              [check |-> check.name, conclusion |-> check.conclusion, head |-> check.sha,
               attributed |-> IF merge /\ failed THEN "unattributed_weak" ELSE "unattributed",
               sound |-> TRUE])

ChecksOf(sha, state) == {c \in state.checks : c.sha = sha}

\* The commits whose checks are read, in order.
CheckedShas(pull) ==
  pull.commits \o (IF pull.merge = NoMerge \/ pull.merge \in Range(pull.commits)
                   THEN <<>> ELSE <<pull.merge>>)

\* Reading stops at the first commit whose list of checks is cut.
FirstCut(pull, state, limit) ==
  Min({i \in DOMAIN CheckedShas(pull) :
         Cut(ChecksOf(CheckedShas(pull)[i], state), limit.checks)}
        \cup {Len(CheckedShas(pull)) + 1})

PullEvents(pull, state, until, limit) ==
  LET read == {CheckedShas(pull)[i] : i \in 1 .. FirstCut(pull, state, limit) - 1}
  IN  {Snapshot(pull), Final(pull)}
        \cup {ReviewEvent(pull, r) : r \in {x \in pull.reviews : InTime(x.at, pull, until)}}
        \cup {CheckEvent(pull, c) :
                c \in {x \in state.checks : /\ x.sha \in read /\ x.conclusion # "pending"
                                            /\ InTime(x.at, pull, until)}}

-----------------------------------------------------------------------------

WholeLists(pull, limit) ==
  /\ ~Cut(Range(pull.commits), limit.commits)
  /\ pull.timeline <= limit.reviews
  /\ ~Cut(pull.reviews, limit.reviews)

\* Fault: a pull request whose check runs are cut is kept.
WholeButForChecks(pull, state, limit) == WholeLists(pull, limit)

Whole(pull, state, limit) ==
  /\ WholeLists(pull, limit)
  /\ FirstCut(pull, state, limit) > Len(CheckedShas(pull))

Considered(state, since, until, limit) ==
  {p \in Listed({q \in state.pulls : q.state = "closed"}, limit.pulls) :
     /\ p.created <= until /\ (since # NoSince => p.created >= since)
     /\ FinalizedAt(p) <= until}

Assembled(state, since, until, limit) ==
  {p \in Considered(state, since, until, limit) : Whole(p, state, limit) /\ HasContext(p)}

\* The pull request that a commit is attributed to: of several, the first.
PullOfCommit(pulls, sha) ==
  CHOOSE p \in pulls : /\ sha \in Range(p.commits)
                       /\ \A q \in pulls : sha \in Range(q.commits) => ~ListedFirst(p, q)

NewestCommits(commits, max) ==
  {c \in commits : Cardinality({d \in commits : d.at > c.at \/ (d.at = c.at /\ d.sha > c.sha)})
                     < max}

\* The revert of a change by a commit.
RevertOfChange(c, change) ==
  EventOf(IdOf(<<"pull-revert", c.sha>>), "revert", change, c.at, c.sha,
          [linked |-> change, link |-> "heuristic", weak |-> TRUE, sound |-> TRUE,
           reverted |-> CHOOSE sha \in c.reverts : TRUE])

\* A commit with exactly one revert trailer, after the pull request ended.
PullReverts(state, pulls, since, until, max) ==
  LET read == NewestCommits({c \in state.log : /\ c.at <= until
                                               /\ since # NoSince => c.at >= since}, max)
      attributed == {a \in read \X (UNION {Range(p.commits) : p \in pulls}) :
                       a[1].reverts = {a[2]}}
  IN  {RevertOfChange(a[1], ChangeOf(PullOfCommit(pulls, a[2]))) :
         a \in {x \in attributed : x[1].at > FinalizedAt(PullOfCommit(pulls, x[2]))}}

\* Requests of lists that fit a page each: the repository, the pulls, the
\* commits; every listed pull; three lists of each that is considered, and
\* the checks of each of its commits, read until one list is cut.
ApiRequests(state, since, until, limit) ==
  LET listed == Listed({q \in state.pulls : q.state = "closed"}, limit.pulls)
      read == {p \in Considered(state, since, until, limit) :
                 WholeLists(p, limit) /\ HasContext(p)}
      Lists(p) == Min({FirstCut(p, state, limit), Len(CheckedShas(p))})
  IN  3 + Cardinality(listed) + 3 * Cardinality(Considered(state, since, until, limit))
        + MapThenSumSet(Lists, read)

\* collect_github_history: nothing is collected beyond the request budget.
Importable(state, since, until, limit) ==
  /\ until <= state.now /\ (since # NoSince => since <= until)
  /\ ApiRequests(state, since, until, limit) <= limit.requests

GitHubCollection(state, since, until, limit) ==
  LET pulls == Assembled(state, since, until, limit)
  IN  [units |-> {PullUnit(p) : p \in pulls},
       events |-> (UNION {PullEvents(p, state, until, limit) : p \in pulls})
                    \cup PullReverts(state, pulls, since, until, limit.log)]

=============================================================================
