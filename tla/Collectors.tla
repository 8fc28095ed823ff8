------------------------------ MODULE Collectors ------------------------------
(***************************************************************************)
(* The collectors of one repository and the history they share (cli.py):   *)
(* `bootstrap-git`, `scan-rework`, `import-github` and                     *)
(* `import-github-event-archive` read their sources, and then append what  *)
(* they found to the immutable logs.  They run again and again, from other *)
(* refs and cursors, with other ranges and limits, while the service moves *)
(* on, and hold no lock between what they read and what they write.  A     *)
(* batch with a record that differs from a stored one of the same name is  *)
(* refused whole.                                                          *)
(***************************************************************************)
EXTENDS GitHistory, GitHubArchive, EventArchive

CONSTANTS
  Scenario,    \* what the sources may be: records [commit, github, rows]
  MaxCommits,  \* values of --max-commits
  Since,       \* values of --since
  Until,       \* values of --until
  Limit,       \* limits of a GitHub collection
  Window,      \* windows that are exported from the event archive
  Hour,        \* hours of the event archive
  MaxBatches,  \* bound: no command starts once so many batches are recorded
  Process      \* commands that may run at the same time

\* What a repository, the service and the archive can be.  Numbers of pull
\* requests are unique.  A pull request is opened once, in one file; a file of
\* the archive holds what happened before the end of its hour, and nobody
\* reviews what is not opened.
ASSUME WindowAssumption == \A window \in Window : window.start \in Nat /\ window.end \in Nat

ASSUME CollectorsAssumption ==
  \A s \in Scenario :
    /\ IsFiniteSet(DOMAIN s.commit)
    /\ \A c \in DOMAIN s.commit :
         LET patch == s.commit[c]
         IN  /\ patch.at \in Nat /\ patch.size \in {"text", "large", "none"}
             /\ patch.size = "none" => patch.added = <<>>
             /\ IsFiniteSet(DOMAIN patch.added) /\ IsFiniteSet(DOMAIN patch.deleted)
    /\ s.github \in Seq(Range(s.github))
    /\ \A i \in DOMAIN s.github : \A p \in s.github[i].pulls :
         /\ p.commits \in Seq(Range(p.commits))
         /\ \A q \in s.github[i].pulls : p.number = q.number => p = q
    /\ \A r \in s.rows :
         r.id \in Nat /\ r.at \in Nat /\ r.file \in Nat /\ r.at < 2 * (r.file + 1)
    /\ \A r, q \in s.rows : (r.number = q.number /\ r.type = "opened") =>
         /\ q.type = "opened" => q.at = r.at /\ q.file = r.file /\ q.actor = r.actor
         /\ q.type = "review" => q.at >= r.at

\* The service moves on, and what it said stays true: a pull request keeps its
\* number, author and time, and its first commit unless it was forced; it ends
\* once at a time, with the commits it has then; a review stays where it was
\* submitted, and a commit what it is.
ASSUME ServiceAssumption ==
  \A s \in Scenario : \A i, j \in DOMAIN s.github :
    /\ \A p \in s.github[i].pulls, q \in s.github[j].pulls :
         /\ p.number = q.number =>
              /\ p.created = q.created /\ p.author = q.author
              /\ HasContext(p) /\ HasContext(q) =>
                   /\ p.commits[1] = q.commits[1]
                   /\ FinalizedAt(p) = FinalizedAt(q) =>
                        p.merged = q.merged /\ p.commits = q.commits
         /\ \A r \in p.reviews, t \in q.reviews : r.id = t.id =>
              p.number = q.number /\ r.at = t.at /\ r.reviewer = t.reviewer
    /\ \A c \in s.github[i].log, d \in s.github[j].log : c.sha = d.sha => c = d

\* The names of the records that collectors may find.
GitNames(s) ==
  LET commits == DOMAIN s.commit
      times == {s.commit[c].at : c \in commits}
  IN  {<<"commit", c>> : c \in commits}
        \cup {"revert", "rework"} \X commits \X commits
        \cup {"horizon"} \X commits \X times
        \cup {"scan"} \X times \X SUBSET commits

ServiceNames(state) ==
  {<<"pull-snapshot", p.number>> : p \in state.pulls}
    \cup {<<"pull-final", p.number>> : p \in state.pulls}
    \cup {<<"review", r.id>> : r \in UNION {p.reviews : p \in state.pulls}}
    \cup {CheckName(p, c) : p \in state.pulls, c \in state.checks}
    \cup {<<"pull-revert", c.sha>> : c \in state.log}

ArchiveNames(s) ==
  {<<"eventarchive", kind, r.id>> : kind \in {"snapshot", "review", "final"}, r \in s.rows}
    \cup {<<"eventarchive", "outcome", r.number>> : r \in s.rows}

Names(s) ==
  GitNames(s) \cup ArchiveNames(s)
    \cup UNION {ServiceNames(s.github[i]) : i \in DOMAIN s.github}

ASSUME NamesAssumption == \A s \in Scenario : HaveDistinctIds(Names(s))

VARIABLES
  events,  \* the event log
  units,   \* the unit log
  plan,    \* what a command is about to write: {} or a set of one batch
  past     \* history: what each recorded batch covered

sources == <<commit, github, archiveVars>>
vars == <<sources, events, units, plan, past>>

Landings == {c \in Commits : UnitOf(c) \in units}

Conflicts(stored, incoming) ==
  {p \in stored \X incoming : p[1].id = p[2].id /\ p[1] # p[2]}

Init ==
  /\ \E s \in Scenario : commit = s.commit /\ github = s.github /\ rows = s.rows
  /\ loaded = {} /\ export = NoExport /\ disk = [rows |-> {}, manifest |-> {}]
  /\ events = {} /\ units = {} /\ past = {}
  /\ plan = [p \in Process |-> {}]

Plans(p, batch) ==
  /\ plan[p] = {}
  /\ Cardinality(past) < MaxBatches
  /\ plan' = [plan EXCEPT ![p] = {batch}]
  /\ UNCHANGED <<sources, events, units, past>>

\* A batch that covers no commits.
FromProvider(found) ==
  [units |-> found.units, events |-> found.events, past |-> [scan |-> {}, commits |-> {}]]

\* history bootstrap-git, up to what it collected.
Bootstrap(p, tip, after, max) ==
  /\ Collectable(events, tip, after, max)
  /\ Plans(p, Collection(tip, after, max))

\* history scan-rework, up to what it found.
ScanRework(p) ==
  /\ Candidates(Landings) # {}
  /\ Plans(p, Scan(Landings))

\* history import-github, up to what it collected.
ImportGithub(p, since, until, limit) ==
  /\ github # <<>>
  /\ Importable(github[1], since, until, limit)
  /\ Plans(p, FromProvider(GitHubCollection(github[1], since, until, limit)))

\* The service moves on.
Move ==
  /\ Len(github) > 1
  /\ github' = Tail(github)
  /\ UNCHANGED <<commit, archiveVars, events, units, plan, past>>

\* history import-github-event-archive, up to what it normalized.
ImportArchive(p) ==
  \E read \in disk.rows, manifest \in disk.manifest :
    /\ Normalizable(read, manifest)
    /\ Plans(p, FromProvider(ArchiveCollection(read, manifest)))

\* The archive and its exporter.
Archive ==
  /\ rows # {}
  /\ \/ \E hour \in Hour : LoadFile(hour)
     \/ \E window \in Window : QueryMaximum(window)
     \/ QueryHours \/ QueryRows \/ WriteRows \/ WriteManifest \/ StopExport
  /\ UNCHANGED <<commit, github, events, units, plan, past>>

\* upsert_history_batch.
Upsert(p) ==
  \E batch \in plan[p] :
    /\ Conflicts(events, batch.events) = {} /\ Conflicts(units, batch.units) = {}
    /\ events' = events \cup batch.events
    /\ units' = units \cup batch.units
    /\ past' = past \cup {batch.past}
    /\ plan' = [plan EXCEPT ![p] = {}]
    /\ UNCHANGED sources

\* The batch is refused, or the command dies.
GiveUp(p) ==
  /\ plan[p] # {}
  /\ plan' = [plan EXCEPT ![p] = {}]
  /\ UNCHANGED <<sources, events, units, past>>

Next ==
  \/ Move
  \/ Archive
  \/ \E p \in Process :
       \/ \E tip \in Commits, after \in Commits \cup {NoCursor}, max \in MaxCommits :
            Bootstrap(p, tip, after, max)
       \/ ScanRework(p)
       \/ \E since \in Since, until \in Until, limit \in Limit :
            ImportGithub(p, since, until, limit)
       \/ ImportArchive(p)
       \/ Upsert(p)
       \/ GiveUp(p)

Spec == Init /\ [][Next]_vars

-----------------------------------------------------------------------------
(* Properties. *)

\* The sources are those of a scenario, a command plans at most one batch, and
\* the events attached to a recorded unit are recorded with it.
TypeOK ==
  /\ \E s \in Scenario : commit = s.commit /\ \E t \in Suffixes(s.github) : github = t
  /\ \A u \in units : u.attached \subseteq {e.id : e \in events}
  /\ \A p \in Process : Cardinality(plan[p]) <= 1

\* What `import-github` may collect at this moment.
Imports ==
  IF github = <<>> THEN {}
  ELSE {[found |-> GitHubCollection(github[1], r.since, r.until, r.limit),
         until |-> r.until] :
          r \in {x \in [since : Since, until : Until, limit : Limit] :
                   Importable(github[1], x.since, x.until, x.limit)}}

Label(c, target) ==
  DeriveOutcome(UnitOf(c), events, target, TRUE, GitWindow(events), ReworkWindow(events))

\* What the scan that a negative rework label rests on covered.
CoverageOf(derivation) ==
  UNION {b.commits : b \in {x \in past : x.scan # {} /\ x.scan \subseteq derivation.evidence.ids}}

ReworkNegatives == {c \in Candidates(Landings) : Label(c, "rework").label = "negative"}

\* A negative rework label of a commit that the scan covered means that no
\* commit it read has, within the window, deleted as many of its lines as the
\* experiment registers: neither the order in which histories are recorded
\* and scanned, nor what the scan skips, makes a reworked commit negative.
\* (scan_rework, rework_window_from_events and the window vote.)
NegativeMeansUntouched ==
  \A c \in ReworkNegatives :
    LET covered == CoverageOf(Label(c, "rework"))
    IN  c \in covered =>
          \A d \in Eligible(covered) :
            (ScannedBefore(c, d) /\ commit[c].at < commit[d].at /\ InWindow(c, d)) =>
              \/ Cardinality(Hits(c, d)) < MinLines
              \/ IgnoreSameAuthor /\ commit[c].author = commit[d].author

\* Whatever was collected and scanned before, from other refs, cursors, ranges
\* and limits, by commands that ran at the same time, and before the service
\* moved on, a collector finds the same facts, and is refused only for
\*  - the coverage record of a scan that covers other commits than before,
\*  - a revert that was collected without the merge that it reverts,
\*  - a pull request that has ended differently since, or
\*  - the revert of a commit that several pull requests list.
\* (scan_rework, collect_git_history and collect_github_history; a record's
\* name and content must not depend on what else was read with it.)
CollectorsAgree ==
  /\ Candidates(Landings) # {} =>
       \A p \in Conflicts(events, Scan(Landings).events) : p[1].kind = "git_rework_scan"
  /\ \A tip \in Commits, after \in Commits \cup {NoCursor}, max \in MaxCommits :
       Collectable(events, tip, after, max) =>
         \A p \in Conflicts(events, Collection(tip, after, max).events) :
           p[1].kind = "revert" /\ IsMerge(p[1].data.reverted)
  /\ \A batch \in Imports :
       \A p \in Conflicts(events, batch.found.events) :
         \/ p[1].kind \in {"change_closed", "change_merged"} /\ p[1].occurred # p[2].occurred
         \/ p[1].kind = "revert" /\ p[1].change # p[2].change

\* A pull request that is collected is collected whole: whatever the limits,
\* with every review of it and every result of its checks up to the cutoff.
\* (collect_github_history skips it when any list of it was cut.)
PullsAreWhole ==
  github # <<>> =>
    \A batch \in Imports : \A p \in github[1].pulls :
      PullUnit(p) \in batch.found.units =>
        /\ \A r \in p.reviews :
             InTime(r.at, p, batch.until) => ReviewEvent(p, r) \in batch.found.events
        /\ \A c \in github[1].checks :
             (/\ c.sha \in Range(CheckedShas(p)) /\ c.conclusion # "pending"
              /\ InTime(c.at, p, batch.until)) => CheckEvent(p, c) \in batch.found.events

\* A change that was collected together with a later commit that reverts it is
\* never labelled as one that was not reverted, whatever is collected later.
\* (_revert_events; a merge and a commit have units of different names.)
RevertedIsNotNegative ==
  \A b \in past : \A c \in b.commits, d \in b.commits :
    (b.scan = {} /\ c \in commit[d].reverts /\ commit[c].at < commit[d].at) =>
      Label(c, "revert_or_hotfix").label # "negative"

\* A review outcome that the event archive is taken to prove negative is one:
\* before the merge was known nobody but the author asked for changes in any
\* hour of the exported window, whichever files were missing when the exporter
\* asked for them or loaded between its questions, and whichever pair of files
\* it left behind.  (The order of the exporter's queries, the hash in the
\* manifest, and _outcome_interval_is_complete.)
ArchiveNegativesAreTrue ==
  \A e \in events :
    (e.kind = "change_finalized" /\ e.data.target = "review") =>
      LET pull == PullRows(e.change[2], rows)
          window == e.data.manifest.window
      IN  \A r \in EligibleReviews(pull) :
            (r.file \in HoursOf(window) /\ r.actor # Opening(pull).actor)
              => r.state # "changes_requested"

\* Expected to fail: a window negative is only derived where the scan was
\* complete: the scan whose record it rests on has read the commit and every
\* recorded commit of its window.  (ReworkWindow; README.md and
\* docs/SIGNAL-PROTOCOL.md say that the coverage record sees to it.)
NegativesWereScanned ==
  \A c \in ReworkNegatives :
    {c} \cup {d \in Candidates(Landings) : ScannedBefore(c, d) /\ InWindow(c, d)}
      \subseteq CoverageOf(Label(c, "rework"))

=============================================================================
