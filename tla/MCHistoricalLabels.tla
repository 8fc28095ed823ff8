-------------------------- MODULE MCHistoricalLabels --------------------------
(***************************************************************************)
(* A Git commit and a confirmatory pull request of one repository, and the *)
(* events that speak for them under the target revert_or_hotfix.           *)
(***************************************************************************)
EXTENDS HistoricalLabels, TLC

Perms == Permutations(Process)

Commit == [id |-> "commit", kind |-> "git_commit", prediction |-> 1, finalized |-> Never,
           attached |-> {}, confirmatory |-> FALSE]
Pull == [id |-> "pull", kind |-> "provider_change", prediction |-> 1, finalized |-> 2,
         attached |-> {4}, confirmatory |-> TRUE]

MCUnit == {Commit, Pull}

At(id, kind, change, occurred, available, data) ==
  [id |-> id, kind |-> kind, change |-> change, occurred |-> occurred,
   available |-> available, group |-> id, data |-> data]

Revert(id, change, linked, at, link) ==
  At(id, "revert", change, at, at,
     [linked |-> linked, link |-> link, weak |-> link # "explicit", sound |-> TRUE])

\* A revert that happened with the prediction and was reported later.
Early == At(5, "revert", "commit", 1, 3,
            [linked |-> "commit", link |-> "explicit", weak |-> FALSE, sound |-> TRUE])

Finalized(id, change, at, value) ==
  At(id, "change_finalized", change, at, at + 1,
     [target |-> "revert_or_hotfix", value |-> value, strength |-> "strong",
      complete |-> TRUE, sound |-> TRUE])

Horizon(id, at) ==
  At(id, "git_history_horizon", NoChange, at, at, [until |-> at, sound |-> TRUE])

\* An early bootstrap, one that saw a revert, and what providers report.
MCBatch ==
  { {Horizon(6, 4), Early},
    {Horizon(7, 6), Revert(1, "commit", "commit", 5, "git_trailer")},
    {Revert(2, "pull", "pull", 3, "heuristic")},
    {Revert(3, "pull", "pull", 4, "explicit")},
    {Finalized(4, NoChange, 3, "negative")} }

=============================================================================
