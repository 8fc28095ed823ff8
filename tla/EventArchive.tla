----------------------------- MODULE EventArchive -----------------------------
(***************************************************************************)
(* The public archive of GitHub events (scripts/export_gharchive_          *)
(* clickhouse.py, history/github_event_archive.py).  The archive loads one *)
(* file for each hour, late and in any order; a row is available at the    *)
(* end of its file's hour.  The exporter asks how far the archive goes,    *)
(* which hours of its window are there, and for the rows, in three queries *)
(* between which more files may be loaded; it writes the rows and then a   *)
(* manifest that names their hash.  An import derives a strong negative    *)
(* review outcome where no missing hour could hide a request for changes.  *)
(*                                                                         *)
(* Two units of time are one hour.  Row numbers stand for row digests.     *)
(***************************************************************************)
EXTENDS EventNames

VARIABLES
  rows,    \* what happened: the rows of all files, loaded or not
  loaded,  \* hours whose file the archive has
  export,  \* the exporter: its step, window, and what it has read
  disk     \* the files it wrote: sets that hold at most one

archiveVars == <<rows, loaded, export, disk>>

NoExport == [step |-> "idle"]

AvailableAt(row) ==
  LET published == 2 * (row.file + 1) IN IF row.at > published THEN row.at ELSE published

HoursOf(window) == window.start .. window.end - 1

InArchive(window) ==
  {r \in rows : /\ r.file \in loaded
                /\ 2 * window.start <= r.at /\ r.at < 2 * window.end}

-----------------------------------------------------------------------------
(* The exporter. *)

LoadFile(hour) ==
  /\ hour \notin loaded
  /\ loaded' = loaded \cup {hour}
  /\ UNCHANGED <<rows, export, disk>>

\* The archive must already go beyond the window.
QueryMaximum(window) ==
  /\ export.step = "idle"
  /\ \E hour \in loaded : hour >= window.end
  /\ export' = [step |-> "covers", window |-> window]
  /\ UNCHANGED <<rows, loaded, disk>>

QueryHours ==
  /\ export.step = "covers"
  /\ export' = [step |-> "audited", window |-> export.window,
                missing |-> HoursOf(export.window) \ loaded]
  /\ UNCHANGED <<rows, loaded, disk>>

QueryRows ==
  /\ export.step = "audited"
  /\ export' = [step |-> "read", window |-> export.window, missing |-> export.missing,
                rows |-> InArchive(export.window)]
  /\ UNCHANGED <<rows, loaded, disk>>

WriteRows ==
  /\ export.step = "read"
  /\ disk' = [disk EXCEPT !.rows = {export.rows}]
  /\ export' = [export EXCEPT !.step = "written"]
  /\ UNCHANGED <<rows, loaded>>

\* Fault: the hours are audited last, when more files may be there.
WriteAuditedManifest ==
  /\ export.step = "written"
  /\ disk' = [disk EXCEPT !.manifest =
                {[window |-> export.window, missing |-> HoursOf(export.window) \ loaded,
                  hash |-> export.rows]}]
  /\ export' = NoExport
  /\ UNCHANGED <<rows, loaded>>

WriteManifest ==
  /\ export.step = "written"
  /\ disk' = [disk EXCEPT !.manifest =
                {[window |-> export.window, missing |-> export.missing, hash |-> export.rows]}]
  /\ export' = NoExport
  /\ UNCHANGED <<rows, loaded>>

\* A query fails, or the exporter dies.
StopExport ==
  /\ export.step # "idle"
  /\ export' = NoExport
  /\ UNCHANGED <<rows, loaded, disk>>

-----------------------------------------------------------------------------
(* normalize_github_event_archive *)

Typed(pull, type) == {r \in pull : r.type = type}

\* What several rows of one opening, or of one merge, must agree on.
Shape(row) == <<row.at, AvailableAt(row), row.actor, row.head>>

OlderRow(r, s) ==
  \/ r.at < s.at
  \/ r.at = s.at /\ AvailableAt(r) < AvailableAt(s)
  \/ r.at = s.at /\ AvailableAt(r) = AvailableAt(s) /\ r.id < s.id

OldestRow(pull) == CHOOSE r \in pull : \A s \in pull : ~OlderRow(s, r)

Opening(pull) == OldestRow(Typed(pull, "opened"))
Merges(pull) == Typed(pull, "merged")

Consistent(pull) ==
  Typed(pull, "opened") # {} =>
    /\ Cardinality({Shape(r) : r \in Typed(pull, "opened")}) = 1
    /\ Cardinality({Shape(r) : r \in Merges(pull)}) <= 1
    /\ \A r \in Merges(pull) : AvailableAt(r) >= AvailableAt(Opening(pull))

\* Reviews after the opening was available and not after the merge was.
EligibleReviews(pull) ==
  {r \in Typed(pull, "review") :
     /\ AvailableAt(r) > AvailableAt(Opening(pull))
     /\ \A m \in Merges(pull) : AvailableAt(r) <= AvailableAt(m)}

IndependentStates(pull) ==
  {r.state : r \in {x \in EligibleReviews(pull) : x.actor # Opening(pull).actor}}

\* _outcome_interval_is_complete: a file's rows are available at its end.
IntervalIsComplete(missing, opening, merged) ==
  \A hour \in missing :
    ~(AvailableAt(opening) < 2 * (hour + 1) /\ 2 * (hour + 1) <= AvailableAt(merged))

NegativeReview(pull, missing) ==
  /\ Merges(pull) # {}
  /\ IntervalIsComplete(missing, Opening(pull), OldestRow(Merges(pull)))
  /\ "approved" \in IndependentStates(pull)
  /\ "changes_requested" \notin IndependentStates(pull)

\* A record is named by the digest of its row, an outcome by its change.
ArchiveId(kind, row) == IdOf(<<"eventarchive", kind, row.id>>)
OutcomeId(number) == IdOf(<<"eventarchive", "outcome", number>>)

ArchiveEvent(id, kind, row, group, data) ==
  EventOf(id, kind, <<"pull", row.number>>, AvailableAt(row), group, data)

\* The merge that closed the pull request, if it did.
MergeEvents(pull, manifest) ==
  {ArchiveEvent(ArchiveId("final", r), "change_merged", r, r.number,
                [head |-> r.head, manifest |-> manifest, sound |-> TRUE]) :
     r \in {x \in Merges(pull) : x = OldestRow(Merges(pull))}}

ArchivedPull(pull, manifest) ==
  LET opening == Opening(pull)
  IN  {ArchiveEvent(ArchiveId("snapshot", opening), "change_snapshot", opening, opening.number,
                    [head |-> opening.head, manifest |-> manifest, sound |-> TRUE])}
        \cup {ArchiveEvent(ArchiveId("review", r), "review", r, r.actor,
                           [decision |-> r.state, category |-> "unspecified",
                            independent |-> r.actor # opening.actor,
                            manifest |-> manifest, sound |-> TRUE]) :
                r \in EligibleReviews(pull)}
        \cup MergeEvents(pull, manifest)
        \cup (IF NegativeReview(pull, manifest.missing)
              THEN {ArchiveEvent(OutcomeId(opening.number), "change_finalized",
                                 OldestRow(Merges(pull)), 10000,
                                 [target |-> "review", value |-> "negative", complete |-> TRUE,
                                  strength |-> "strong", manifest |-> manifest,
                                  sound |-> TRUE])}
              ELSE {})

PullRows(number, read) == {r \in read : r.number = number}

OpenedPulls(read) == {r.number : r \in {x \in read : x.type = "opened"}}

\* Fault: every row of the merge is attached, and only the oldest recorded.
EveryMergeArchiveUnit(pull) ==
  [id |-> <<"pull", Opening(pull).number>>, kind |-> "provider_change",
   prediction |-> AvailableAt(Opening(pull)),
   finalized |-> IF Merges(pull) = {} THEN Never ELSE AvailableAt(OldestRow(Merges(pull))),
   attached |-> {ArchiveId("snapshot", Opening(pull))}
                  \cup {ArchiveId("final", r) : r \in Merges(pull)}]

ArchiveUnit(pull) ==
  LET ends == {r \in Merges(pull) : r = OldestRow(Merges(pull))}
  IN  [id |-> <<"pull", Opening(pull).number>>, kind |-> "provider_change",
       prediction |-> AvailableAt(Opening(pull)),
       finalized |-> IF ends = {} THEN Never ELSE AvailableAt(OldestRow(ends)),
       attached |-> {ArchiveId("snapshot", Opening(pull))}
                      \cup {ArchiveId("final", r) : r \in ends}]

\* GitHubEventArchiveManifest: a window of whole hours, and missing hours within it.
Manifest(m) == m.window.start < m.window.end /\ m.missing \subseteq HoursOf(m.window)

\* _ArchiveRow: only reviews have a state, one of the two that decide.
ArchiveRow(row) ==
  CASE row.type = "review" -> row.state \in {"approved", "changes_requested"}
    [] row.type \in {"opened", "merged"} -> row.state = "none"
    [] OTHER -> FALSE

\* _load_rows: the manifest must name the rows that are there, all of its window.
LoadsRows(read, manifest) ==
  /\ manifest.hash = read
  /\ \A r \in read : /\ ArchiveRow(r)
                      /\ 2 * manifest.window.start <= r.at /\ r.at < 2 * manifest.window.end

\* Every pull request of the rows must be consistent.
Normalizable(read, manifest) ==
  /\ Manifest(manifest) /\ LoadsRows(read, manifest)
  /\ \A number \in OpenedPulls(read) : Consistent(PullRows(number, read))

ArchiveCollection(read, manifest) ==
  [units |-> {ArchiveUnit(PullRows(n, read)) : n \in OpenedPulls(read)},
   events |-> UNION {ArchivedPull(PullRows(n, read), manifest) : n \in OpenedPulls(read)}]

=============================================================================
