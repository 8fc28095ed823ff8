---------------------------- MODULE MCCollectors -----------------------------
(***************************************************************************)
(* Two repositories, and the pull requests of a third.  In one a branch    *)
(* with an older commit is merged late and both branches delete the same   *)
(* line; in the other a merge is reverted, a commit is oversized, and the  *)
(* tip is older than its parent.  Of the pull requests one is reverted;    *)
(* another repeats its commit, is closed, and is merged in the end; a      *)
(* review is dismissed and a check is run again.                           *)
(***************************************************************************)
EXTENDS Collectors, TLC

Perms == Permutations(Process)

\* Ids as numbers: a commit is its own.
Digits(fields) == FoldLeft(LAMBDA number, field : 8 * number + field, 0, fields)
Sum(commits) == MapThenSumSet(LAMBDA c : 2^c, commits)
One(condition) == IF condition THEN 1 ELSE 0

MCIdOf(n) ==
  CASE n[1] = "commit" -> n[2]
    [] n[1] = "revert" -> 1000 + 100 * n[2] + n[3]
    [] n[1] = "horizon" -> 10000 + 100 * n[2] + n[3]
    [] n[1] = "rework" -> 100000 + 100 * n[2] + n[3]
    [] n[1] = "scan" -> 1000000 + 1000 * n[2] + Sum(n[3])
    [] n[1] = "pull-snapshot" -> Digits(<<11, n[2]>>)
    [] n[1] = "pull-final" -> Digits(<<12, n[2]>>)
    [] n[1] = "review" -> Digits(<<13, n[2]>>)
    [] n[1] = "pull-revert" -> Digits(<<15, n[2]>>)
    [] n[1] = "check" ->
         Digits(<<14, n[2], n[3], n[4], n[6], n[7], One(n[5] = "failure"), One(n[8])>>)
    [] n[1] = "eventarchive" ->
         CASE n[2] = "outcome" -> 10000 + n[3]
           [] n[2] = "snapshot" -> 10 * n[3]
           [] n[2] = "review" -> 10 * n[3] + 1
           [] n[2] = "final" -> 10 * n[3] + 2

Commit(parents, at, author, size, added, deleted, reverts) ==
  [parents |-> parents, at |-> at, author |-> author, size |-> size,
   added |-> added, deleted |-> deleted, reverts |-> reverts]

X == <<"f", "x">>
Y == <<"f", "y">>
Z == <<"f", "z">>

Branches == <<
  Commit(<<>>,     1, "a", "text", <<X, Y, Z>>, <<>>,     {}),
  Commit(<<1>>,    2, "b", "text", <<Y>>,       <<X, Y>>, {}),
  Commit(<<1>>,    3, "b", "text", <<>>,        <<X, Z>>, {}),
  Commit(<<3, 2>>, 4, "a", "none", <<>>,        <<>>,     {}) >>

Reverted == <<
  Commit(<<>>,     2, "a", "large", <<X, X, Y>>, <<>>,     {}),
  Commit(<<1>>,    2, "a", "text",  <<X, X, Y>>, <<>>,     {}),
  Commit(<<1, 2>>, 3, "a", "none",  <<>>,        <<>>,     {}),
  Commit(<<3>>,    6, "b", "text",  <<>>,        <<X, Y>>, {2, 3}),
  Commit(<<4>>,    4, "b", "text",  <<>>,        <<X, Y>>, {}) >>

Pull(number, state, created, closed, merged, commits, merge, reviews) ==
  [number |-> number, state |-> state, created |-> created, closed |-> closed,
   merged |-> merged, commits |-> commits, merge |-> merge, forced |-> FALSE,
   author |-> 1, timeline |-> 1, reviews |-> reviews]

Review(state) == [id |-> 1, at |-> 2, reviewer |-> 2, state |-> state]

Check(id, sha, at, conclusion) ==
  [id |-> id, name |-> 1, sha |-> sha, at |-> at, conclusion |-> conclusion]

First(review) == Pull(1, "closed", 1, 3, 3, <<1, 2>>, 3, {Review(review)})

Service(now, pulls, checks) ==
  [now |-> now, pulls |-> pulls, checks |-> checks,
   log |-> {[sha |-> 6, at |-> 4, reverts |-> {2}]}]

Pulls == <<
  Service(4, {First("approved"), Pull(2, "closed", 2, 3, Never, <<2>>, NoMerge, {})},
          {Check(1, 1, 2, "failure"), Check(2, 1, 2, "success"), Check(3, 3, 4, "failure")}),
  Service(5, {First("dismissed"), Pull(2, "open", 2, Never, Never, <<2, 4>>, NoMerge, {})},
          {Check(1, 1, 3, "success"), Check(2, 1, 2, "success"), Check(3, 3, 4, "failure")}),
  Service(6, {First("dismissed"), Pull(2, "closed", 2, 6, 6, <<2, 4>>, 5, {})},
          {Check(1, 1, 3, "success"), Check(2, 1, 2, "success"), Check(3, 3, 4, "failure"),
           Check(4, 4, 5, "failure")}) >>

Row(id, type, file, at, actor, state) ==
  [id |-> id, number |-> 1, type |-> type, file |-> file, at |-> at, actor |-> actor,
   head |-> 1, state |-> state]

\* The request for changes may be published an hour late, and the merge is
\* reported twice.
PullRequest(request) ==
  {Row(1, "opened", 0, 0, 1, "none"), Row(2, "review", 2, 4, 2, "approved"), request,
   Row(4, "merged", 2, 5, 2, "none"), Row(5, "merged", 2, 5, 2, "none")}

MCRows == {PullRequest(Row(3, "review", 1, 3, actor, "changes_requested")) : actor \in {1, 3}}
            \cup {PullRequest(Row(3, "review", 2, 3, 3, "changes_requested"))}

MCWindow == {[start |-> 0, end |-> 3]}

MCScenario ==
  {[commit |-> Branches, github |-> <<>>, rows |-> {}],
   [commit |-> Reverted, github |-> <<>>, rows |-> {}],
   [commit |-> <<>>, github |-> Pulls, rows |-> {}]}
    \cup {[commit |-> <<>>, github |-> <<>>, rows |-> r] : r \in MCRows}

Limits(pulls, checks, requests) ==
  [pulls |-> pulls, commits |-> 2, reviews |-> 1, checks |-> checks, log |-> 1,
   requests |-> requests]

MCLimit == {Limits(9, 9, 15), Limits(1, 9, 99), Limits(9, 1, 99)}

=============================================================================
