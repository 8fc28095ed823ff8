------------------------------ MODULE GitHistory ------------------------------
(***************************************************************************)
(* What Git itself says of its changes (history/git.py, history/rework.py, *)
(* and their commands in cli.py).  `history bootstrap-git` collects the    *)
(* commits that a ref reaches, the reverts their trailers name, and how    *)
(* far it saw; `history scan-rework` looks for later commits that deleted  *)
(* lines of earlier ones.                                                  *)
(*                                                                         *)
(* A commit is the number of its place in `git log --date-order`, oldest   *)
(* first, of a repository whose refs may be any of its commits.  Its patch *)
(* holds keys <<file, line>>: what is left once trivial lines and ignored  *)
(* paths are gone.  Left out: --since, shallow clones, byte budgets, the   *)
(* caps on indexed lines and skipped commits, and the pruning of lines     *)
(* whose window is over, which no later commit can rework.                 *)
(***************************************************************************)
EXTENDS EventNames, Sequences

CONSTANT NoCursor  \* no --after

VARIABLE commit    \* the repository's commits

Commits == DOMAIN commit
IsMerge(c) == Len(commit[c].parents) > 1
KindOf(c) == IF IsMerge(c) THEN "git_merge" ELSE "git_commit"

\* The commits that each commit reaches.
Ancestry ==
  LET reach[c \in Commits] ==
        {c} \cup (UNION {reach[commit[c].parents[i]] : i \in DOMAIN commit[c].parents})
  IN  reach

NewestAt(commits) ==
  CHOOSE t \in {commit[c].at : c \in commits} : \A c \in commits : commit[c].at <= t

-----------------------------------------------------------------------------
(* Collection. *)

CommitId(c) == IdOf(<<"commit", c>>)

CommitEvent(c) ==
  EventOf(CommitId(c), KindOf(c), <<KindOf(c), c>>, commit[c].at, c, [author |-> commit[c].author])

\* A unit as the labelling functions read it.
UnitOf(c) ==
  [id |-> <<KindOf(c), c>>, kind |-> KindOf(c), prediction |-> commit[c].at,
   finalized |-> IF IsMerge(c) THEN commit[c].at ELSE Never, attached |-> {CommitId(c)}]

RevertOf(c, reverted, kind) ==
  EventOf(IdOf(<<"revert", c, reverted>>), "revert", <<kind, reverted>>, commit[c].at, c,
          [linked |-> <<kind, reverted>>, link |-> "git_trailer", weak |-> TRUE,
           sound |-> TRUE, reverted |-> reverted])

\* Fault: a revert names a commit, whatever it reverts.
CommitRevertEvent(c, reverted, retained) == RevertOf(c, reverted, "git_commit")

\* What was reverted is only known to be a merge when it is collected as well.
RevertEvent(c, reverted, retained) ==
  RevertOf(c, reverted, IF reverted \in retained THEN KindOf(reverted) ELSE "git_commit")

HorizonOf(id, until) ==
  EventOf(id, "git_history_horizon", NoChange, until, id, [until |-> until, sound |-> TRUE])

\* Fault: one horizon for each ref.
RefHorizonEvent(tip, until) == HorizonOf(IdOf(<<"horizon", tip, 0>>), until)

HorizonEvent(tip, until) == HorizonOf(IdOf(<<"horizon", tip, until>>), until)

Selected(tip, after) ==
  {c \in Commits : c \in Ancestry[tip] /\ (after # NoCursor => c \notin Ancestry[after])}

Newest(commits, max) ==
  {c \in commits : Cardinality({d \in commits : d > c}) < max}

\* A cursor is a recorded commit of the same history, and leaves no gap.
Collectable(events, tip, after, max) ==
  after # NoCursor =>
    /\ \E e \in events : e.id = CommitId(after) /\ e.kind \in Landed
    /\ after \in Ancestry[tip]
    /\ Cardinality(Selected(tip, after)) <= max

Collection(tip, after, max) ==
  LET retained == Newest(Selected(tip, after), max)
      reverts == {p \in retained \X Commits : p[2] \in commit[p[1]].reverts \ {p[1]}}
  IN  [units |-> {UnitOf(c) : c \in retained},
       events |-> {CommitEvent(c) : c \in retained}
                    \cup {RevertEvent(p[1], p[2], retained) : p \in reverts}
                    \cup (IF retained = {} THEN {}
                          ELSE {HorizonEvent(tip, NewestAt(retained))}),
       past |-> [scan |-> {}, commits |-> retained]]

-----------------------------------------------------------------------------
(* The rework scan. *)

Candidates(recorded) == {c \in recorded : ~IsMerge(c)}
Sized(recorded, size) == {c \in Candidates(recorded) : commit[c].size = size}
Eligible(recorded) == Sized(recorded, "text")

\* By time; of one time, commits are taken by number where the code compares unit ids.
ScannedBefore(c, d) ==
  commit[c].at < commit[d].at \/ (commit[c].at = commit[d].at /\ c < d)

InWindow(earlier, later) == commit[later].at - commit[earlier].at <= ReworkWindowDays

\* Lines that one commit added and a later one deleted from the same file,
\* without adding them anywhere: each as often as both patches have it.
Hits(earlier, later) ==
  LET added == commit[earlier].added
      deleted == commit[later].deleted
      moved == {commit[later].added[k][2] : k \in DOMAIN commit[later].added}
  IN  {h \in (DOMAIN added) \X (DOMAIN deleted) :
         added[h[1]] = deleted[h[2]] /\ deleted[h[2]][2] \notin moved}

\* Fault: a line that a commit deletes is no longer indexed.
ConsumingReworkedLines(recorded, earlier, later) ==
  Cardinality({h \in Hits(earlier, later) :
    \A between \in Eligible(recorded) :
      (ScannedBefore(earlier, between) /\ ScannedBefore(between, later)) =>
        \A k \in DOMAIN commit[between].deleted :
          commit[between].deleted[k] # commit[later].deleted[h[2]]})

ReworkedLines(recorded, earlier, later) == Cardinality(Hits(earlier, later))

ReworkEvent(earlier, later, lines) ==
  EventOf(IdOf(<<"rework", later, earlier>>), "rework", <<"git_commit", earlier>>,
          commit[later].at, later,
          [linked |-> <<"git_commit", earlier>>, weak |-> TRUE, sound |-> TRUE,
           lines |-> lines, same_author |-> commit[earlier].author = commit[later].author])

LastScanned(candidates) ==
  CHOOSE c \in candidates : \A d \in candidates \ {c} : ScannedBefore(d, c)

\* The coverage record: its name says how far the scan went and what it
\* skipped, its data also how much it scanned.
ScanEvent(recorded, skipped) ==
  LET candidates == Candidates(recorded)
      until == NewestAt(candidates)
      id == IdOf(<<"scan", until, skipped>>)
  IN  EventOf(id, "git_rework_scan", NoChange, until, id,
              [until |-> until, skipped |-> {<<"git_commit", c>> : c \in skipped},
               scanned |-> Cardinality(Eligible(recorded)),
               empty |-> Cardinality(Sized(recorded, "none")),
               source |-> LastScanned(candidates), sound |-> TRUE])

\* Fault: an oversized commit is not recorded as skipped.
UnrecordedSkips(recorded) == {}

Skipped(recorded) == Sized(recorded, "large")

Scan(recorded) ==
  LET pairs == {p \in Eligible(recorded) \X Eligible(recorded) :
                  /\ ScannedBefore(p[1], p[2]) /\ InWindow(p[1], p[2])
                  /\ ReworkedLines(recorded, p[1], p[2]) > 0}
      scan == ScanEvent(recorded, Skipped(recorded))
  IN  [units |-> {},
       events |-> {ReworkEvent(p[1], p[2], ReworkedLines(recorded, p[1], p[2])) : p \in pairs}
                    \cup {scan},
       past |-> [scan |-> {scan.id}, commits |-> Candidates(recorded)]]

=============================================================================
