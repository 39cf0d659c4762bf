------------------------------ MODULE ReviewRun ------------------------------
(***************************************************************************)
(* A run of boro review: run() of src/main.rs spawns a task for each       *)
(* commit, collects what they return in the order they end, fills in for   *)
(* those that Ctrl-C has aborted from their snapshots, and validates and   *)
(* prints one report.  The stages of a task are those CommitTask promises, *)
(* the texts of the report those of ReportTexts.                           *)
(***************************************************************************)
EXTENDS CommitTask, ReportTexts

CONSTANTS
  Modes,          \* values of --validation-mode: filter, findings or off
  MayCancel,      \* whether the user may press Ctrl-C
  HandlerFails,   \* whether tokio::signal::ctrl_c returns an error
  ValidatorLists, \* additions that the validator may answer with
  SummaryAnswers  \* what the model may answer when asked for a summary

ASSUME ReviewRunAssumption ==
  /\ Commits \subseteq Nat
  /\ Modes \subseteq {"filter", "findings", "off"}
  /\ MayCancel \in BOOLEAN /\ HandlerFails \in BOOLEAN
  /\ \A list \in ValidatorLists \cup {answer.highlights : answer \in SummaryAnswers} : IsList(list)

VARIABLES
  mode,       \* --validation-mode
  phase,      \* joining, collected, merged, printed, or failed
  joined,     \* tasks that join_next has returned
  triples,    \* rows in the order they came, with their commit
  cancelled,
  report,     \* the rows in the report, "commits" of the output
  prose,      \* "lkml_report" of each row, with what its fast review said
  summary     \* "summary" of the output, None without one

textVars == <<prose, summary>>
runVars == <<mode, phase, joined, triples, cancelled, report, textVars>>
vars == <<taskVars, runVars>>

Init ==
  /\ TaskInit
  /\ mode \in (IF fast THEN {"off"} ELSE Modes)
  /\ phase = "joining"
  /\ joined = {}
  /\ triples = <<>>
  /\ cancelled = FALSE
  /\ report = <<>>
  /\ prose = <<>>
  /\ summary = None

Waiting == [said |-> None, answer |-> "none yet", body |-> None]

Tasks == TaskStep /\ UNCHANGED runVars

\* The select of the joining loop is biased: Ctrl-C first, as long as the run
\* is not cancelled.  It is polled in vain if the handler cannot be installed.
CtrlC ==
  /\ phase = "joining" /\ ~cancelled /\ MayCancel /\ ~HandlerFails
  /\ cancelled' = TRUE
  /\ AbortAll
  /\ UNCHANGED <<mode, phase, joined, triples, report, textVars>>

\* Mutation: join_next is polled only while the run is not cancelled.
JoinUntilCancelled == phase = "joining" /\ ~cancelled

\* An error of ctrl_c() ends the iteration before join_next is polled.
JoinNextPolled == phase = "joining" /\ (cancelled \/ ~HandlerFails)

Take(c) == JoinNextPolled /\ c \notin joined /\ joined' = joined \union {c}

JoinReturned(c) ==
  /\ task[c] = "returned" /\ Take(c)
  /\ triples' = Append(triples, [commit |-> c, value |-> row[c]])
  /\ UNCHANGED <<taskVars, mode, phase, cancelled, report, textVars>>

\* A task that was aborted, or panicked after Ctrl-C, has no row.
JoinLost(c) ==
  /\ task[c] \in (IF cancelled THEN {"aborted", "panicked"} ELSE {"aborted"})
  /\ Take(c)
  /\ UNCHANGED <<taskVars, mode, phase, triples, cancelled, report, textVars>>

\* The run ends without a report, and the JoinSet aborts the other tasks.
JoinPanicked(c) ==
  /\ task[c] = "panicked" /\ ~cancelled /\ Take(c)
  /\ phase' = "failed"
  /\ AbortAll
  /\ UNCHANGED <<mode, triples, cancelled, report, textVars>>

\* Mutation: a row from a snapshot looks like one of a finished review.
SnapshotRowComplete(s) == [Row(s.findings, <<>>) EXCEPT !.error = s.error]

\* snapshot_to_value
SnapshotRow(s) ==
  [Row(s.findings, <<>>) EXCEPT !.error = s.error, !.partial = ~s.completed]

Have == {triples[i].commit : i \in DOMAIN triples}

\* The rows that are missing after Ctrl-C, from the snapshots of their commits.
Filled ==
  Subsequence([c \in Commits |-> [commit |-> c, value |-> SnapshotRow(snap[c])]],
              IF cancelled THEN Commits \ Have ELSE {})

\* Rows by their commits, those of one commit in the order they had.
Sorted(rows) ==
  LET before(k, i) == rows[k].commit < rows[i].commit \/ (rows[k].commit = rows[i].commit /\ k <= i)
      place(i) == Cardinality({k \in DOMAIN rows : before(k, i)})
  IN [j \in DOMAIN rows |-> rows[CHOOSE i \in DOMAIN rows : place(i) = j]]

\* Mutation: rows are reported in the order in which the tasks ended.
CollectUnsorted ==
  /\ JoinNextPolled /\ joined = Commits
  /\ report' = triples \o Filled
  /\ phase' = "collected"
  /\ UNCHANGED <<taskVars, mode, joined, triples, cancelled, textVars>>

\* The loop ends when no task is left; after Ctrl-C the commits without a row
\* get one from their snapshots; rows are sorted by commit.
Collect ==
  /\ JoinNextPolled /\ joined = Commits
  /\ report' = Sorted(triples \o Filled)
  /\ phase' = "collected"
  /\ UNCHANGED <<taskVars, mode, joined, triples, cancelled, textVars>>

Validated == ~fast /\ ~cancelled /\ mode # "off"

\* What a row shows once the hand-over to the validator is taken out of it:
\* its validated findings if it has anything to validate, the union of both
\* lists without validation, or the baseline alone if Ctrl-C has made the run
\* skip validation.
ShownOf(value) ==
  IF Validated /\ value.findings \o value.additions # <<>>
    THEN Validations(value.findings, value.additions, ValidatorLists)
    ELSE {MergeNovel(value.findings, IF mode = "off" THEN value.additions ELSE <<>>)}

\* run_findings_validation or the merge that replaces it, and the removal of
\* the internal lists.
MergeReport ==
  /\ phase = "collected"
  /\ \E shown \in [DOMAIN report -> UNION {ShownOf(report[i].value) : i \in DOMAIN report}] :
       /\ \A i \in DOMAIN report : shown[i] \in ShownOf(report[i].value)
       /\ report' = [i \in DOMAIN report |->
                      [report[i] EXCEPT !.value.findings = shown[i], !.value.additions = <<>>]]
  /\ phase' = "merged"
  /\ prose' = [i \in DOMAIN report |-> Waiting]
  /\ UNCHANGED <<taskVars, mode, joined, triples, cancelled, summary>>

\* The rows of a run have no text of their own if it was cancelled, or reports
\* findings.
Prosaic == ~cancelled /\ mode # "findings"

FastRow(i) ==
  /\ fast /\ task[report[i].commit] = "returned" /\ ~report[i].value.error

\* render_commit_lkml_phase, a task for each row; one that panics is passed
\* over.  A second Ctrl-C no longer interrupts this or what follows.
RenderCommit(i) ==
  /\ phase = "merged" /\ Prosaic /\ prose[i] = Waiting
  /\ \E said \in (IF FastRow(i) THEN {"none found", "issues"} ELSE {None}) :
       \/ \E answer \in {"mail", "sentinel", "failed"} :
            prose' = [prose EXCEPT ![i] =
                       [said |-> said, answer |-> answer,
                        body |-> Prose(report[i].value.findings, said, answer)]]
       \/ /\ MayPanic
          /\ prose' = [prose EXCEPT ![i] = [said |-> said, answer |-> "panic", body |-> None]]
  /\ UNCHANGED <<taskVars, mode, phase, joined, triples, cancelled, report, summary>>

\* run_quick_summary, unless the run was cancelled or fast, and the report.
PrintReport ==
  /\ phase = "merged"
  /\ Prosaic => \A i \in DOMAIN prose : prose[i] # Waiting
  /\ summary' \in (IF cancelled \/ fast THEN {None}
                    ELSE Summaries([i \in DOMAIN report |-> report[i].value.findings],
                                   SummaryAnswers))
  /\ phase' = "printed"
  /\ UNCHANGED <<taskVars, mode, joined, triples, cancelled, report, prose>>

Driver ==
  \/ \E c \in Commits : JoinReturned(c) \/ JoinLost(c) \/ JoinPanicked(c)
  \/ Collect \/ MergeReport \/ PrintReport
  \/ \E i \in DOMAIN report : RenderCommit(i)

Next == Tasks \/ CtrlC \/ Driver

Spec == Init /\ [][Next]_vars

FairSpec == Spec /\ TaskFairness /\ WF_vars(Driver)

-----------------------------------------------------------------------------
(* Properties                                                              *)

\* Whatever order the tasks end in and whenever Ctrl-C, or a panic after it,
\* comes: each commit has one row, in the order of the range.
OneRowPerCommit ==
  phase \in {"collected", "merged", "printed"} =>
    /\ {report[i].commit : i \in DOMAIN report} = Commits
    /\ \A i, j \in DOMAIN report : i < j => report[i].commit < report[j].commit

\* A row is marked partial exactly if its task did not return, and then it
\* shows what the task had published, no less and no more.
PartialIsSnapshot ==
  phase = "printed" =>
    \A i \in DOMAIN report :
      LET c == report[i].commit
      IN /\ report[i].value.partial <=> task[c] # "returned"
         /\ report[i].value.partial => report[i].value.findings = snap[c].findings

\* A finding of append_upstream_fix_findings: a model that says that a finding
\* of its own is one may anchor it, and lose it to the repair of anchors.
FromGit(f) == IsUpstreamFix(f) /\ f.location = None /\ f.quotes = {}

\* An upstream fix that a task has found is in every report of the run: no
\* validation, merge or cancellation loses it.
UpstreamFixShown ==
  phase = "printed" =>
    \A i \in DOMAIN report :
      LET found == base[report[i].commit]
      IN found # None =>
           {f \in ToSet(found) : FromGit(f)} \subseteq ToSet(report[i].value.findings)

\* Of a run that was not cancelled, each finding is printed, and so is each
\* fast review that has one, unless the model takes it back or panics; the
\* counts of the summary are those of the rows, and its highlights are of
\* findings that the report has, no finding twice, with their own severities.
NothingUnsaid ==
  phase = "printed" /\ ~cancelled =>
    LET rows == [i \in DOMAIN report |-> report[i].value.findings]
        fastRows == {i \in DOMAIN report : FastRow(i)}
        bodies == [i \in DOMAIN prose |-> IF Prosaic THEN prose[i].body ELSE None]
    IN /\ \A i \in DOMAIN report :
            /\ rows[i] # <<>> => FindingsPrinted(fastRows, rows)
            /\ FastRow(i) /\ prose[i].said = "issues"
                 => i \in ProsePrinted(mode, bodies) \/ prose[i].answer \in {"sentinel", "panic"}
       /\ summary # None =>
            /\ \A s \in Canonical :
                 summary.counts[s] =
                   Cardinality({ref \in Refs(rows) : SeverityOf(rows[ref[1]][ref[2]]) = s})
            /\ \A j, k \in DOMAIN summary.highlights :
                 LET h == summary.highlights[k]
                 IN /\ h.ref \in Refs(rows)
                    /\ h.severity = SeverityOf(rows[h.ref[1]][h.ref[2]])
                    /\ h.ref = summary.highlights[j].ref => j = k

\* A cancelled run shows all that its tasks have published, but for the repair
\* of anchors.
CancelKeepsPublished ==
  phase = "printed" /\ cancelled =>
    \A i \in DOMAIN report :
      \A f \in ToSet(Cleaned(snap[report[i].commit].findings)) :
        \/ Known(report[i].value.findings, f)
        \/ \E g \in ToSet(report[i].value.findings) : ToSet(Cleaned(<<g>>)) = {f}

\* The run comes to an end: it prints a report or fails.
RunEnds == <>(phase \in {"printed", "failed"})
=============================================================================
