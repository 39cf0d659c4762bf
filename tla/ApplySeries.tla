------------------------------ MODULE ApplySeries -----------------------------
(***************************************************************************)
(* boro apply on a series: run_apply_command of src/main.rs, with the      *)
(* import of a posted series by ImportedSeries (src/worktree.rs) and       *)
(* cancellable_output (src/process.rs).  A run can be killed at any time;  *)
(* the user cleans up, or not, and runs it again.                          *)
(***************************************************************************)
EXTENDS ApplyCommit

CONSTANTS
  Series,      \* the commits to apply, oldest first
  Sources,     \* how they are given: "range", "message"
  MaxRuns      \* bound: runs of the program

\* A range that selects nothing is refused, rev-list names each commit once,
\* HEAD is no dependency, its log has its subject, and git lists files in
\* conflict.
ASSUME ApplySeriesAssumption ==
  /\ MaxRuns \in Nat \ {0}
  /\ Series # <<>> /\ Len(Series) \in Nat /\ DOMAIN Series = 1..Len(Series)
  /\ \A k, l \in DOMAIN Series : Series[k] = Series[l] => k = l
  /\ None \notin Nat \union {"clean", "amended", "needs_human"}
  /\ DOMAIN Trees \subseteq Nat
  /\ Base \in ToSet(Series) => Subject[Base] \in History
  /\ \A c \in ToSet(Series) : Base \notin ToSet(Refs[c])
  /\ \A t \in Texts : Len(t) \in Nat /\ DOMAIN t = 1..Len(t)

VARIABLES
  source,      \* how the series is given
  runs,        \* runs so far
  start,       \* length of the branch at the start of the run: target_base
  index,       \* the commit of the series that is in hand
  exit,        \* the exit status, None while the program runs
  import,      \* the worktree of the import: none, there, removed
  child        \* the import's subprocess: none, running, held (it is gone, but
               \* a descendant has its pipes), killed (likewise), or stray (no one
               \* has its pipes, but a descendant goes on with pipes of its own)

seriesVars == <<source, runs, start, index, exit, import, child>>
vars == <<applyVars, seriesVars>>

Killed == 137
Interrupted == 130

Fresh(s) ==
  /\ at' = IF s = "message" THEN "import" ELSE "loop"
  /\ current' = None
  /\ deps' = None
  /\ hunks' = <<>> /\ codes' = <<>> /\ attempt' = 1 /\ offer' = None
  /\ review' = None /\ tree' = None /\ repairs' = 0

Init ==
  /\ source \in Sources
  /\ head = <<Commit(Base, FALSE)>>
  /\ picking = None
  /\ text = <<>> /\ files = <<>> /\ unmerged = {}
  /\ dirty = {}
  /\ series = Series
  /\ at = IF source = "message" THEN "import" ELSE "loop"
  /\ current = None
  /\ deps = None
  /\ hunks = <<>> /\ codes = <<>> /\ attempt = 1 /\ offer = None
  /\ review = None /\ tree = None /\ repairs = 0
  /\ faulted = Faulted
  /\ runs = 1 /\ start = 1 /\ index = 1
  /\ exit = None
  /\ import = "none" /\ child = "none"

Running == exit = None

\* The program returns or calls exit; the guard of the import, if there is one,
\* is dropped on every such way out.
Leave(code) ==
  /\ exit' = code
  /\ import' = IF import = "there" THEN "removed" ELSE import
  /\ UNCHANGED <<source, runs, start, index, child>>

-----------------------------------------------------------------------------
(* The import.                                                             *)

\* git worktree add, and then b4 shazam in the worktree it has made; each is a
\* child that is waited for, with its pipes.
SpawnImport ==
  /\ Running /\ at \in {"import", "shazam"} /\ child = "none"
  /\ child' = "running"
  /\ import' = "there"
  /\ UNCHANGED <<applyVars, source, runs, start, index, exit>>

\* The child ends, and its pipes with it or only with those it has left behind.
ChildEnds ==
  /\ Running /\ child = "running"
  /\ child' = "held"
  /\ UNCHANGED <<applyVars, source, runs, start, index, exit, import>>

\* The last holder of the pipes is gone: the next child, the series or an error.
Collected ==
  /\ Running /\ child = "held"
  /\ child' = "none"
  /\ \/ /\ OnlyGoTo(IF at = "import" THEN "shazam" ELSE "loop")
        /\ UNCHANGED <<gitVars, source, runs, start, index, exit, import>>
     \/ /\ exit' = 1 /\ import' = "removed"
        /\ UNCHANGED <<applyVars, source, runs, start, index>>

\* Mutation: the guards unwind as soon as Ctrl-C is seen.
ImportCancelledAtOnce ==
  /\ Running /\ child = "running"
  /\ exit' = 1 /\ import' = "removed"
  /\ UNCHANGED <<applyVars, source, runs, start, index, child>>

\* Ctrl-C while the child runs: it is killed and reaped first.
ImportCancelled ==
  /\ Running /\ child = "running"
  /\ child' = "killed"
  /\ UNCHANGED <<applyVars, source, runs, start, index, exit, import>>

\* Then its readers are awaited, and "operation cancelled" is an error.  Only the
\* child has been killed: git under b4, which reads from it, may go on.
CancelCollected ==
  /\ Running /\ child = "killed"
  /\ child' \in {"none", "stray"}
  /\ exit' = 1 /\ import' = "removed"
  /\ UNCHANGED <<applyVars, source, runs, start, index>>

-----------------------------------------------------------------------------
(* The loop over the series.                                               *)

NextCommit ==
  /\ Running /\ At("loop")
  /\ IF index > Len(series) THEN Leave(0) /\ UNCHANGED applyVars
     ELSE Begin(series[index]) /\ UNCHANGED <<gitVars, series, faulted, seriesVars>>

\* A commit with a report: the next one, unless its code is an error.
CommitEnds ==
  /\ Running /\ at \in {"finished", "rejected"}
  /\ IF ExitCode = 0
       THEN /\ index' = index + 1
            /\ OnlyGoTo("loop")
            /\ UNCHANGED <<gitVars, source, runs, start, exit, import, child>>
       ELSE Leave(ExitCode) /\ UNCHANGED applyVars

\* An error of run() ends the program at once, and with it the reports of the
\* commits before.
CommitFails ==
  /\ Running /\ At("error")
  /\ Leave(1) /\ UNCHANGED applyVars

\* Ctrl-C is seen only where run() awaits a model, and only if the import has
\* installed its handler; otherwise it kills the program.
Interrupt ==
  /\ Running /\ source = "message"
  /\ at \in {"suggest", "validate", "review", "repair"}
  /\ Leave(Interrupted) /\ UNCHANGED applyVars

\* SIGKILL at any time, and Ctrl-C with a range; what the import has made, and
\* its child, are left to themselves.
Kill ==
  /\ Running /\ runs < MaxRuns
  /\ exit' = Killed
  /\ UNCHANGED <<applyVars, source, runs, start, index, import, child>>

\* The user takes back what a run has left behind.
CleanUp ==
  /\ ~Running /\ runs < MaxRuns /\ exit # 0
  /\ ~Clean
  /\ picking' = None /\ NoConflict
  /\ dirty' = dirty \cap {"ignored"}
  /\ UNCHANGED <<head, runVars, seriesVars>>

\* The same command again.
Rerun ==
  /\ ~Running /\ runs < MaxRuns /\ exit # 0
  /\ runs' = runs + 1
  /\ start' = Len(head)
  /\ index' = 1
  /\ exit' = None
  /\ import' = "none" /\ child' = "none"
  /\ Fresh(source)
  /\ UNCHANGED <<gitVars, series, faulted, source>>

\* run() for one commit, which nothing but an await interrupts.
ApplyStep == Running /\ Step /\ UNCHANGED seriesVars

Meanwhile ==
  Running /\ (Work \/ SomeoneEdits) /\ UNCHANGED seriesVars

Program ==
  \/ SpawnImport \/ Collected \/ CancelCollected
  \/ NextCommit \/ CommitEnds \/ CommitFails \/ ApplyStep

Next ==
  \/ Program \/ ChildEnds \/ ImportCancelled \/ Interrupt \/ Kill
  \/ Meanwhile \/ CleanUp \/ Rerun

Spec == Init /\ [][Next]_vars

\* The program goes on, its models answer and its children end; the rest need
\* not happen.
FairSpec == Spec /\ WF_vars(Program) /\ WF_vars(ChildEnds)

-----------------------------------------------------------------------------
(* Properties                                                              *)

\* What this run has put on the branch.
AppliedRange == SubSeq(head, start + 1, Len(head))

\* "Boro stops at the first failure and leaves earlier commits applied": the
\* commits before the one in hand are on the branch, or one of the same
\* subject is, and none of those after it has been put there by this run,
\* dependencies and retries notwithstanding.  And a commit is there twice only
\* if it is of the series, an earlier run has put the first there, and git has
\* picked it again without a conflict: no dependency comes a second time, and
\* no model is asked to resolve what is there already.
SeriesAccounted ==
  /\ \A k \in 1..(index - 1) :
       series[k] \in Ids(head) \/ AlreadyApplied(series[k])
  /\ \A k \in (index + 1)..Len(series) : series[k] \notin Ids(AppliedRange)
  /\ \A i, j \in DOMAIN head :
       i < j /\ head[i].id = head[j].id =>
         head[j].id \in ToSet(series) /\ i <= start /\ ~head[j].resolved

\* A run that reports success leaves nothing to clean up, no pick in progress,
\* and the backport trailer on exactly the commits it has resolved.
SuccessIsClean ==
  exit = 0 =>
    /\ Clean /\ picking = None
    /\ \A i \in (start + 1)..Len(head) :
         head[i].resolved <=> head[i].trailer = "backported"

\* The lines that an accepted resolution puts in the place of its hunk.
ResolvedSection(section, code, last) ==
  IF ~section.hunk THEN section.lines
  ELSE [i \in DOMAIN code |->
         Line(code[i].w, IF last /\ i = Len(code) /\ code[i].eol = "none"
                           THEN "none" ELSE section.eol)]

\* The hunks of all files before section k of file i.
HunksBefore(i, k) ==
  Cardinality(UNION {{<<f, j>> : j \in {j \in DOMAIN text[f] :
                                       text[f][j].hunk /\ (f < i \/ j < k)}} : f \in 1..i})

\* What is staged is the conflicted text with each hunk replaced by what was
\* accepted for it and the lines around it as they were, edits during the
\* models' calls included: no marker, no fused line, no other terminator.
ResolutionKeepsSource ==
  at = "continue" =>
    \A i \in Resolvable :
      files[i] = FlattenSeq([k \in DOMAIN text[i] |->
        ResolvedSection(text[i][k],
                        IF text[i][k].hunk THEN codes[HunksBefore(i, k) + 1] ELSE <<>>,
                        k = Len(text[i]))])

\* The sources that the check is made for, and that use a missing field.
Broken == {k \in DOMAIN Trees : Plain(Trees[k]) /\ RealIssues(Trees[k]) # {}}

\* A commit is reported as applied only if no edit is left in the tree and
\* what HEAD has become, by repairs that may break what they do not mend, has
\* no use of a field that its structure lacks; and it is not called clean if
\* the audit has changed it.
VerdictTellsTree ==
  at = "finished" /\ ExitCode = 0 =>
    /\ Clean
    /\ tree \notin Broken
    /\ review \in {None, "clean"} /\ Len(head) > start /\ Last(head).id = current
         => ~Last(head).amended

\* The branch only grows by the commit in hand or its dependencies, or the
\* commit that this run has just made for it is amended.
OnlyOwnAmended ==
  [][\/ head' = head
     \/ /\ Front(head') = head
        /\ Last(head').id \in {current} \union ToSet(Refs[current])
     \/ /\ Len(head) > start /\ Last(head).id = current
        /\ Front(head') = Front(head) /\ Last(head').id = current]_vars

\* cancellable_output: when the guard removes the worktree of an import, its
\* child has been reaped and no process has the pipes of the child any more.
\* That is less than that nothing is at work there: a descendant with pipes of
\* its own outlives a child that was killed, and no one waits for it.
ImportGuarded == import = "removed" => child \in {"none", "stray"}

\* Each run ends.
SeriesEnds == []<>(~Running)
=============================================================================
