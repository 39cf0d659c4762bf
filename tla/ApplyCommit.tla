----------------------------- MODULE ApplyCommit ------------------------------
(***************************************************************************)
(* boro apply on one commit: run() of src/apply.rs, one action for each    *)
(* git command and for each answer of a model, since the user may kill     *)
(* the program, or press Ctrl-C, between any two of them.                  *)
(*                                                                         *)
(* Git is external: a cherry-pick lands, stops, leaves a conflict or is    *)
(* refused, as it likes, and the other commands do what they are           *)
(* documented to do or fail.  Prompts, usage and output are left out.      *)
(***************************************************************************)
EXTENDS FieldCheck

CONSTANTS
  Base,         \* the commit that HEAD is at before the first run
  Subject,      \* subject of each commit
  History,      \* subjects in the history of HEAD before the first run
  Refs,         \* commits that a message refers to and HEAD does not have
  Texts,        \* conflicts that git may leave: sequences of files
  Codes,        \* resolutions that the model may suggest
  Trees,        \* sources that HEAD may have, a sequence of trees
  MaxResolutionAttempts,
  MaxStaticRepairAttempts,
  GitMayFail,   \* whether git add, commit and --continue may fail
  MayEdit       \* whether someone edits a conflicted file meanwhile

ASSUME ApplyCommitAssumption ==
  /\ MaxResolutionAttempts \in Nat \ {0}
  /\ MaxStaticRepairAttempts \in Nat \ {0}
  /\ {GitMayFail, MayEdit} \subseteq BOOLEAN

VARIABLES
  head,      \* the branch: commits with how they came about
  picking,   \* CHERRY_PICK_HEAD
  text,      \* what git has put in conflict, as sections
  files,     \* the same files as lines, with what has been done to them
  unmerged,  \* the indices of the files that are unmerged in git's index
  dirty,     \* "tracked", "untracked", "ignored" paths that differ from HEAD
  series,    \* the commits to apply
  current,   \* the one that is being applied
  at,        \* the next step of run(), or how it ended
  deps,      \* positions in Refs still to be tried, None before they are asked for
  hunks,     \* the parsed conflicts
  codes,     \* per hunk the accepted resolution, or Rejected
  attempt,   \* resolution_attempt of the hunk in hand
  offer,     \* the suggestion that is being validated
  review,    \* the verdict of the post-apply review, None without one
  tree,      \* the source of HEAD, None unless it has been checked
  repairs,   \* repairs tried
  faulted    \* the sources in which the check finds something: a table

gitVars == <<head, picking, text, files, unmerged, dirty>>
hunkVars == <<hunks, codes, attempt, offer>>
auditVars == <<review, tree, repairs>>
runVars == <<series, current, at, deps, hunkVars, auditVars, faulted>>
applyVars == <<gitVars, runVars>>

Rejected == <<"rejected">>

Faulted == {k \in DOMAIN Trees : Issues(Trees[k]) # {}}

-----------------------------------------------------------------------------
(* Git (external).                                                         *)

Commit(c, resolved) ==
  [id |-> c, resolved |-> resolved, trailer |-> "picked", amended |-> FALSE]

Ids(commits) == {commits[i].id : i \in DOMAIN commits}

\* A conflicted section with git's markers around its three sides.
RenderSection(section) ==
  IF ~section.hunk THEN section.lines
  ELSE LET mark(m) == <<Marker(m, section.size, section.eol)>>
       IN mark("<") \o section.sides[1] \o mark("|") \o section.sides[2]
            \o mark("=") \o section.sides[3] \o mark(">")

Render(file) == FlattenSeq([i \in DOMAIN file |-> RenderSection(file[i])])

\* Lines that end alike, but for one that may not end at all.
Ordinary(lines, eol) ==
  lines \in Seq(ToSet(lines)) /\ \A x \in ToSet(lines) : x.eol \in {eol, "none"}

\* A section of such a file.  Something is between two hunks, or they would be
\* one; and the markers are of a size that tells them from the text.
Regular(file, k, eol) ==
  LET section == file[k]
  IN \/ /\ section.hunk
        /\ section.eol = eol
        /\ k < Len(file) => ~file[k + 1].hunk
        /\ \A n \in 1..3 :
             /\ Ordinary(section.sides[n], eol)
             /\ \A x \in ToSet(section.sides[n]) :
                  ~(x.mark = <<"|", "=", ">">>[n] /\ x.w = section.size)
     \/ /\ ~section.hunk
        /\ section.lines # <<>> /\ Ordinary(section.lines, eol)
        /\ \A x \in ToSet(section.lines) : x.mark # "<"

\* A file in one style of line ends.
InConflict(file) ==
  /\ file # <<>> /\ file \in Seq(ToSet(file))
  /\ \E eol \in {"lf", "crlf"} : \A k \in DOMAIN file : Regular(file, k, eol)

\* Resolutions are without markers.
ASSUME TextsAssumption ==
  /\ \A t \in Texts : t \in Seq(ToSet(t)) /\ \A i \in DOMAIN t : InConflict(t[i])
  /\ \A code \in Codes :
       /\ code \in Seq(ToSet(code))
       /\ \A x \in ToSet(code) : x = Line(x.w, x.eol)

NoConflict == text' = <<>> /\ files' = <<>> /\ unmerged' = {}

\* git cherry-pick -x -s.  It lands wherever its context fits: a second time too,
\* if the audit has taken back what it did or its lines may be repeated.
PickLands(c) ==
  /\ head' = Append(head, Commit(c, FALSE))
  /\ picking' = None
  /\ UNCHANGED <<text, files, unmerged, dirty>>

\* It stops at an empty commit, or after a hook has refused the commit.
PickStops(c) ==
  /\ picking' = c
  /\ dirty' \in {dirty, dirty \union {"tracked"}}
  /\ UNCHANGED <<head, text, files, unmerged>>

PickConflicts(c) ==
  /\ picking' = c
  /\ text' \in Texts
  /\ files' = [i \in DOMAIN text' |-> Render(text'[i])]
  /\ unmerged' = DOMAIN text'
  /\ UNCHANGED <<head, dirty>>

PickRefused == UNCHANGED gitVars

PickFails(c) == PickStops(c) \/ PickConflicts(c) \/ PickRefused

\* git cherry-pick --abort or --skip, which need a pick to be in progress.
PickDropped ==
  /\ picking # None
  /\ picking' = None
  /\ NoConflict
  /\ dirty' = dirty \ {"tracked"}
  /\ UNCHANGED head

-----------------------------------------------------------------------------
(* Up to the conflict: pick, detect, dependencies.                         *)

\* run() has begun with the next commit of the series.
Begin(c) ==
  /\ at' = "begin"
  /\ current' = c
  /\ deps' = None
  /\ hunks' = <<>> /\ codes' = <<>> /\ attempt' = 1 /\ offer' = None
  /\ review' = None /\ tree' = None /\ repairs' = 0

At(a) == at = a
GoTo(a) == at' = a

UnlessHunks == UNCHANGED <<series, current, deps, auditVars, faulted>>
UnlessAudit == UNCHANGED <<series, current, deps, hunkVars, faulted>>
OnlyGoTo(a) == GoTo(a) /\ UNCHANGED <<series, current, deps, hunkVars, auditVars, faulted>>

\* ensure_clean_apply_worktree: ignored files and a cherry-pick that has
\* stopped at an empty commit go unnoticed.
Clean == unmerged = {} /\ dirty \subseteq {"ignored"}

EnsureClean ==
  /\ At("begin")
  /\ OnlyGoTo(IF Clean THEN "pick" ELSE "error")
  /\ UNCHANGED gitVars

\* The first attempt, or the second after the dependencies.
Pick ==
  /\ At("pick")
  /\ \/ PickLands(current) /\ OnlyGoTo("check")
     \/ PickFails(current) /\ OnlyGoTo("detect")

\* Mutation: the subjects of the commits that a run has made do not count.
AppliedBefore(c) == Subject[c] \in History

\* The subjects in the log, without what sanitize_subject strips from them: the
\* commits made by this command included.
LogSubjects == History \union {Subject[d] : d \in Ids(head) \ {Base}}

\* detect_already_applied looks for the commit's subject in the log of its files.
AlreadyApplied(c) == Subject[c] \in LogSubjects

\* missing_referenced_dependencies: the first mention of each commit but the
\* series and the commit itself.
MissingDeps(c) ==
  {k \in DOMAIN Refs[c] :
     /\ Refs[c][k] # c /\ Refs[c][k] \notin ToSet(series)
     /\ \A j \in 1..(k - 1) : Refs[c][j] # Refs[c][k]}

Detect ==
  /\ At("detect")
  /\ OnlyGoTo(CASE AlreadyApplied(current) -> "skip"
                [] ~AlreadyApplied(current) /\ deps = None /\ MissingDeps(current) # {} -> "abort"
                [] OTHER -> "read")
  /\ UNCHANGED gitVars

\* Mutation: the pick is left where it stopped.
SkipNothing ==
  /\ At("skip")
  /\ OnlyGoTo("finished")
  /\ UNCHANGED gitVars

\* Mutation: what is skipped is checked and repaired as if it had landed.
SkipThenAudit ==
  /\ At("skip")
  /\ \/ PickDropped /\ OnlyGoTo("check")
     \/ picking = None /\ OnlyGoTo("error") /\ UNCHANGED gitVars

Skip ==
  /\ At("skip")
  /\ \/ PickDropped /\ OnlyGoTo("finished")
     \/ picking = None /\ OnlyGoTo("error") /\ UNCHANGED gitVars

\* maybe_apply_dependencies_and_retry
AbortForDeps ==
  /\ At("abort")
  /\ \/ PickDropped /\ GoTo("deps") /\ deps' = MissingDeps(current)
     \/ picking = None /\ UNCHANGED <<gitVars, deps>> /\ GoTo("error")
  /\ UNCHANGED <<series, current, hunkVars, auditVars, faulted>>

NextDep ==
  /\ At("deps")
  /\ \/ deps = {} /\ OnlyGoTo("pick") /\ UNCHANGED gitVars
     \/ \E k \in deps :
          LET dep == Refs[current][k] IN
          /\ \A j \in deps : k <= j
          /\ \/ AlreadyApplied(dep) /\ GoTo("deps") /\ UNCHANGED gitVars
             \/ /\ ~AlreadyApplied(dep) /\ PickLands(dep)
                /\ GoTo("deps") \/ (GitMayFail /\ GoTo("error"))
             \/ ~AlreadyApplied(dep) /\ PickFails(dep) /\ GoTo("abortdep")
          /\ deps' = deps \ {k}
          /\ UNCHANGED <<series, current, hunkVars, auditVars, faulted>>

\* The log has not changed since the dependency was not found in it, so it is
\* aborted, and the target retried without it and those after it.
AbortDep ==
  /\ At("abortdep")
  /\ \/ PickDropped /\ GoTo("deps") /\ deps' = {}
     \/ picking = None /\ UNCHANGED <<gitVars, deps>> /\ GoTo("error")
  /\ UNCHANGED <<series, current, hunkVars, auditVars, faulted>>

-----------------------------------------------------------------------------
(* The conflict: suggest, validate, rewrite.                               *)

Parsed ==
  FlattenSeq([i \in DOMAIN files |->
    LET found == IF i \in unmerged THEN Conflicts(files[i]) ELSE <<>>
    IN [k \in DOMAIN found |-> [file |-> i, hunk |-> found[k]]]])

\* An error leaves the repository as it is, with the pick in progress.
ReadConflicts ==
  /\ At("read")
  /\ LET found == Parsed
         bad == found = <<>> \/ \E k \in DOMAIN found : found[k].hunk = Malformed
     IN /\ GoTo(IF bad THEN "error" ELSE "suggest")
        /\ hunks' = IF bad THEN <<>> ELSE found
  /\ UNCHANGED <<gitVars, codes, attempt, offer>> /\ UnlessHunks

Hunk == hunks[Len(codes) + 1].hunk

Suggest ==
  /\ At("suggest")
  /\ \/ \E code \in Codes : offer' = code /\ GoTo("validate")
     \/ offer' = None /\ GoTo("error")
  /\ UNCHANGED <<gitVars, hunks, codes, attempt>> /\ UnlessHunks

\* The hunk in hand is settled.
Settle(outcome) ==
  /\ codes' = Append(codes, outcome)
  /\ attempt' = 1
  /\ GoTo(IF Len(codes) + 1 = Len(hunks) THEN "rewrite" ELSE "suggest")

\* The validator accepts, and the blank lines are in order; else it is the
\* next attempt, or after the last one the hunk is rejected.
Validate ==
  /\ At("validate")
  /\ offer' = None
  /\ \/ ~WhitespaceRejected(Hunk, offer) /\ Settle(offer)
     \/ attempt = MaxResolutionAttempts /\ Settle(Rejected)
     \/ /\ attempt < MaxResolutionAttempts
        /\ attempt' = attempt + 1
        /\ GoTo("suggest") /\ UNCHANGED codes
     \/ GoTo("error") /\ UNCHANGED <<codes, attempt>>
  /\ UNCHANGED <<gitVars, hunks>> /\ UnlessHunks

\* The accepted resolutions of a file, in the order of its hunks.
AcceptedIn(i) ==
  LET among[n \in 0..Len(codes)] ==
        IF n = 0 THEN <<>>
        ELSE IF hunks[n].file # i THEN among[n - 1]
        ELSE Append(among[n - 1],
                    [code |-> codes[n],
                     from |-> hunks[n].hunk.from, to |-> hunks[n].hunk.to])
  IN among[Len(codes)]

Resolvable == {i \in DOMAIN files : \E n \in DOMAIN codes : hunks[n].file = i}

\* One file after another is rewritten, up to one whose hunks have moved.
Rewrite ==
  /\ At("rewrite")
  /\ IF Rejected \in ToSet(codes)
       THEN GoTo("rejected") /\ UNCHANGED gitVars
       ELSE LET new == [i \in Resolvable |-> ResolvedLines(files[i], AcceptedIn(i))]
                moved == {i \in Resolvable : new[i] = None}
            IN /\ files' = [i \in DOMAIN files |->
                             IF i \in Resolvable /\ \A j \in moved : i < j
                               THEN new[i] ELSE files[i]]
               /\ GoTo(IF moved = {} THEN "stage" ELSE "error")
               /\ UNCHANGED <<head, picking, text, unmerged, dirty>>
  /\ UNCHANGED hunkVars /\ UnlessHunks

\* stage_resolved_files: one git add, of all files or of none.
Stage ==
  /\ At("stage")
  /\ \/ unmerged' = unmerged \ Resolvable /\ OnlyGoTo("continue")
     \/ GitMayFail /\ OnlyGoTo("error") /\ UNCHANGED unmerged
  /\ UNCHANGED <<head, picking, text, files, dirty>>

\* git cherry-pick --continue, refused while a file is unmerged: one without
\* markers, as after a deletion, is never resolved here.  The resolution is no
\* longer needed once the commit is there.
Continue ==
  /\ At("continue")
  /\ \/ /\ unmerged = {} /\ picking # None
        /\ head' = Append(head, Commit(current, TRUE))
        /\ picking' = None
        /\ NoConflict
        /\ hunks' = <<>> /\ codes' = <<>>
        /\ GoTo("trailer")
        /\ UNCHANGED dirty
     \/ /\ GitMayFail \/ unmerged # {}
        /\ GoTo("error")
        /\ UNCHANGED <<gitVars, hunks, codes>>
  /\ UNCHANGED <<attempt, offer>> /\ UnlessHunks

\* rewrite_cherry_pick_trailer_as_backport amends the commit just made.
RewriteTrailer ==
  /\ At("trailer")
  /\ \/ /\ head' = [head EXCEPT ![Len(head)].trailer = "backported"]
        /\ OnlyGoTo("review")
        /\ UNCHANGED <<picking, text, files, unmerged, dirty>>
     \/ GitMayFail /\ OnlyGoTo("error") /\ UNCHANGED gitVars

-----------------------------------------------------------------------------
(* The audit: review, source check, repair.                                *)

\* The model works: edit_file changes files that exist, ignored ones too, and
\* a command-line agent may leave others.
Work ==
  /\ at \in {"review", "repair"}
  /\ \E path \in {"tracked", "untracked", "ignored"} \ dirty :
       dirty' = dirty \union {path}
  /\ UNCHANGED <<head, picking, text, files, unmerged, runVars>>

\* Mutation: the verdict of the later stage replaces that of the earlier ones.
LaterVerdict(a, b) == b

\* merge_post_apply_verdict
MergeVerdict(a, b) ==
  CASE "needs_human" \in {a, b} -> "needs_human"
    [] "amended" \in {a, b} /\ "needs_human" \notin {a, b} -> "amended"
    [] OTHER -> "clean"

Merged(verdict) == IF review = None THEN verdict ELSE MergeVerdict(review, verdict)

\* Mutation: repairs are not counted.
ConcludeUncounted(verdict, edited) ==
  /\ review' = Merged(verdict)
  /\ GoTo("check")
  /\ tree' = IF edited THEN None ELSE tree
  /\ UNCHANGED repairs /\ UnlessAudit

\* What follows a verdict of the review: the check; and of a repair: the check
\* again, but none after it if the model gave up without an edit.
Conclude(verdict, edited) ==
  /\ review' = Merged(verdict)
  /\ repairs' = IF at = "review" THEN repairs
                ELSE IF verdict = "needs_human" /\ ~edited THEN MaxStaticRepairAttempts
                ELSE repairs + 1
  /\ GoTo("check")
  /\ tree' = IF edited THEN None ELSE tree
  /\ UnlessAudit

\* post_apply_worktree_changes and amend_modified_files: tracked edits are
\* amended into HEAD, whatever the model answered.
AuditAmends ==
  /\ at \in {"review", "repair"}
  /\ "tracked" \in dirty /\ "untracked" \notin dirty
  /\ head' = [head EXCEPT ![Len(head)].amended = TRUE]
  /\ dirty' = dirty \ {"tracked"}
  /\ Conclude("amended", TRUE)
  /\ UNCHANGED <<picking, text, files, unmerged>>

\* Untracked files are refused, and a git command may fail.
AuditFails ==
  /\ at \in {"review", "repair"}
  /\ "untracked" \in dirty \/ GitMayFail
  /\ Conclude("needs_human", FALSE)
  /\ UNCHANGED gitVars

\* Without an edit it is the model's verdict, or needs_human if it has none.
EditsNothing ==
  /\ dirty \subseteq {"ignored"}
  /\ \E verdict \in {"clean", "needs_human"} : Conclude(verdict, FALSE)
  /\ UNCHANGED gitVars

\* A claim of amendments without an edit counts as clean.
ReviewEditsNothing == At("review") /\ EditsNothing

\* The same claim counts as needs_human.
RepairEditsNothing == At("repair") /\ EditsNothing

\* merge_static_check_into_review: a check that failed outvotes the review.
CheckFailed == GoTo("finished") /\ review' = "needs_human"

\* post_apply_static_check of what HEAD is now: it cannot run, it finds issues
\* or reports some of its own because a file cannot be read, or it passes.
StaticCheck ==
  /\ At("check")
  /\ tree' \in (IF tree = None THEN DOMAIN Trees ELSE {tree})
  /\ \/ GitMayFail /\ CheckFailed
     \/ /\ GitMayFail \/ tree' \in faulted
        /\ IF repairs < MaxStaticRepairAttempts
             THEN GoTo("repair") /\ UNCHANGED review
             ELSE CheckFailed
     \/ tree' \notin faulted /\ GoTo("finished") /\ UNCHANGED review
  /\ UNCHANGED <<gitVars, repairs>> /\ UnlessAudit

-----------------------------------------------------------------------------
\* While models are asked about a conflict, someone adds a line before or
\* after all others of the first file.
SomeoneEdits ==
  /\ MayEdit
  /\ at \in {"suggest", "validate"}
  /\ LET more == [hunk |-> FALSE, lines |-> <<Line("edit", Head(files[1]).eol)>>]
     IN /\ more \notin ToSet(text[1])
        /\ \E edited \in {<<more>> \o text[1], text[1] \o <<more>>} :
             /\ text' = [text EXCEPT ![1] = edited]
             /\ files' = [files EXCEPT ![1] = Render(edited)]
  /\ UNCHANGED <<head, picking, unmerged, dirty, runVars>>

\* The status of a commit that was applied, and the code it exits with.
ExitCode ==
  CASE at = "rejected" -> 2
    [] at = "finished" /\ review = "needs_human" -> 2
    [] OTHER -> 0

\* run() up to the conflict, through the conflict, and after the commit.
PickStep ==
  \/ EnsureClean \/ Pick \/ Detect \/ Skip
  \/ AbortForDeps \/ NextDep \/ AbortDep

ResolveStep ==
  \/ ReadConflicts \/ Suggest \/ Validate \/ Rewrite \/ Stage
  \/ Continue \/ RewriteTrailer

AuditStep ==
  \/ AuditAmends \/ AuditFails \/ ReviewEditsNothing \/ RepairEditsNothing
  \/ StaticCheck

Step == PickStep \/ ResolveStep \/ AuditStep
=============================================================================
