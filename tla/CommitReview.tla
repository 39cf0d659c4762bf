---------------------------- MODULE CommitReview ----------------------------
(***************************************************************************)
(* The stages of the review of one commit: execute_commit_task,            *)
(* commit_review_inner and run_two_pass (src/main.rs), one action for each *)
(* awaited model call with the code up to the next await.  The stages have *)
(* the numbers the program displays.  A dry run, which calls no model, is  *)
(* left out, and so is the text of the prompts.                            *)
(***************************************************************************)
EXTENDS Concerns, UpstreamFixes

CONSTANTS
  FastModes,         \* whether the run may be a boro review --fast
  NoTools,           \* boro review --no-tools
  MayPanic,
  FastLists,         \* what the fast review may return
  ConcernTexts,      \* what the model may say in a discovery stage
  MaxConcerns,       \* bound: concerns of all stages together
  ConsolidatedLists  \* what consolidation may return

ASSUME CommitReviewAssumption ==
  /\ FastModes \cup {NoTools, MayPanic} \subseteq BOOLEAN
  /\ MaxConcerns \in Nat
  /\ <<>> \in FastLists
  /\ \A list \in FastLists \cup ConsolidatedLists : IsList(list)

ASSUME ConcernTextsAssumption ==
  \A text \in ConcernTexts :
    /\ IsList(text) /\ text # <<>> /\ None \notin ToSet(text)
    /\ \A n \in DOMAIN text : \A list \in ConcernLists(text[n]) : IsList(list)

Blocks == UNION {ToSet(text) : text \in ConcernTexts}

\* An understood answer is never taken for none.
ASSUME AnswerAssumption ==
  None \notin [concerns : UNION {ConcernLists(block) : block \in Blocks},
               challenges : {<<>>} \union {block.challenges.list :
                              block \in {b \in Blocks : HasKey(b, "challenges")}}]

VARIABLES
  fast,        \* boro review --fast
  task,        \* queued, running, returned, panicked or aborted
  abort,       \* "no", "aborting", or "spent" once the last step was taken
  stage,       \* the stage whose model call is awaited
  fixes,       \* master_fixes: what the follow-up stage has found
  baseline,    \* baseline_findings, None before the fast review is done
  merged,      \* merged_concerns
  challenges,  \* baseline_challenges: indices that specialists dispute
  shown,       \* clustered_concerns: what consolidation is given
  snap,        \* the CommitSnapshot
  row          \* the value the task returns, None before

dataVars == <<fixes, baseline, merged, challenges, shown>>
vars == <<fast, task, abort, stage, dataVars, snap, row>>

SetUp == 11
Subsystem == 0
FollowUp == 1
FastReview == 2
Broad == 3
FirstSpecialist == 4
LinkageStage == 8
LastSpecialist == IF TouchesComments THEN 9 ELSE 8
Consolidation == 10

EmptySnap == [findings |-> <<>>, completed |-> FALSE, error |-> FALSE]

Init ==
  /\ fast \in FastModes
  /\ task = "queued"
  /\ abort = "no"
  /\ stage = SetUp
  /\ fixes = <<>>
  /\ baseline = None
  /\ merged = <<>>
  /\ challenges = {}
  /\ shown = None
  /\ snap = EmptySnap
  /\ row = None

\* The task is polled until its next await.
Step(s) ==
  /\ task = "running" /\ stage = s /\ abort # "spent"
  /\ abort' = IF abort = "no" THEN "no" ELSE "spent"
  /\ UNCHANGED fast

GoTo(s) == stage' = s /\ UNCHANGED <<task, row>>

Return(value) == task' = "returned" /\ row' = value /\ UNCHANGED stage

Row(findings, additions) ==
  [findings |-> findings, additions |-> additions, error |-> FALSE, partial |-> FALSE]

\* publisher.set_error, and the row of a commit that failed.
ReturnError ==
  /\ snap' = [snap EXCEPT !.error = TRUE]
  /\ Return([Row(<<>>, <<>>) EXCEPT !.error = TRUE])
  /\ UNCHANGED dataVars

\* Mutation: the anchors of the additions are not repaired.
ReturnUnrepaired(published, additions) ==
  /\ snap' = [snap EXCEPT !.findings = published, !.completed = TRUE]
  /\ Return(Row(Cleaned(baseline), additions))

\* publisher.mark_complete after the repair of anchors in both lists.
ReturnReview(published, additions) ==
  /\ snap' = [snap EXCEPT !.findings = published, !.completed = TRUE]
  /\ Return(Row(Cleaned(baseline), Cleaned(additions)))

Start ==
  /\ task = "queued" /\ abort # "spent"
  /\ task' = "running"
  /\ UNCHANGED <<fast, abort, stage, dataVars, snap, row>>

\* Worktree::create and the git queries, up to the first model call.
EnterReview ==
  /\ Step(SetUp)
  /\ GoTo(Subsystem)
  /\ UNCHANGED <<dataVars, snap>>

SetUpFails == Step(SetUp) /\ ReturnError

\* run_phase0_selection: what it picks is prompt text, and it may fail.
IdentifySubsystem ==
  /\ Step(Subsystem)
  /\ GoTo(FollowUp)
  /\ UNCHANGED <<dataVars, snap>>

\* run_upstream_followup_stage: what becomes of the query of the mailing list
\* and of the model call about it does not matter to what git has found.
FollowUpStage ==
  /\ Step(FollowUp)
  /\ fixes' \in {MasterFixes(log) : log \in UpstreamLogs}
  /\ GoTo(FastReview)
  /\ UNCHANGED <<baseline, merged, challenges, shown, snap>>

\* run_fast_review, of which a failure returns no findings, then the upstream
\* fixes and the first publication.
FastReviewStage ==
  /\ Step(FastReview) /\ ~fast
  /\ \E found \in FastLists : baseline' = WithUpstreamFixes(SanitizedAll(found), fixes)
  /\ snap' = [snap EXCEPT !.findings = baseline']
  /\ GoTo(Broad)
  /\ UNCHANGED <<fixes, merged, challenges, shown>>

\* With --fast the review is this one call, and its failure the commit's.
SinglePass ==
  /\ Step(FastReview) /\ fast
  /\ snap' = [snap EXCEPT !.findings = <<>>, !.completed = TRUE]
  /\ Return(Row(<<>>, <<>>))
  /\ UNCHANGED dataVars

SinglePassFails == Step(FastReview) /\ fast /\ ReturnError

-----------------------------------------------------------------------------
(* Additive discovery: the broad pass, then one specialist after another.   *)

\* Mutation: the snapshot keeps the concerns without the baseline.
PublishWithoutBaseline(found) ==
  snap' = [snap EXCEPT !.findings = FallbackFindings(merged \o found)]

\* Mutation: only the concerns of the stage itself are published.
PublishStageAlone(found) ==
  snap' = [snap EXCEPT !.findings =
             IF found = <<>> THEN @ ELSE MergeNovel(baseline, FallbackFindings(found))]

\* publish_fallback_findings, with the concerns of this stage merged in.
PublishFallback(found) ==
  snap' = [snap EXCEPT !.findings =
             IF merged \o found = <<>> THEN @
             ELSE MergeNovel(baseline, FallbackFindings(merged \o found))]

\* The parser of each stage; what it refuses is asked for again.
Understood(s, text) ==
  CASE s = Broad        -> Said(text)
    [] s = LinkageStage -> LinkageSaid(text)
    [] OTHER            -> StrictlySaid(text)

\* A stage that failed after its retries returns nothing.
Heard(s) ==
  ({Understood(s, text) : text \in ConcernTexts} \ {None})
    \union {[concerns |-> <<>>, challenges |-> <<>>]}

Discover(found) ==
  /\ Len(merged) + Len(found) <= MaxConcerns
  /\ merged' = merged \o found
  /\ UNCHANGED <<fixes, baseline>>

\* repair_misattributed_message_concerns, in this stage alone.
BroadConcerns ==
  /\ Step(Broad)
  /\ \E heard \in Heard(Broad) : \E found \in {Reattributed(heard.concerns)} :
       Discover(found) /\ PublishFallback(found)
  /\ GoTo(FirstSpecialist)
  /\ UNCHANGED <<challenges, shown>>

\* Stages 3 to 8 of the prompts.  After the last one consolidation is skipped
\* if no stage has found anything.  Challenges need the tools of the host.
Specialist ==
  /\ \E s \in FirstSpecialist..LastSpecialist : Step(s)
  /\ \E heard \in Heard(stage) :
       /\ challenges' = IF NoTools THEN challenges
                        ELSE challenges \union {c.id : c \in ToSet(heard.challenges)}
       /\ Discover(heard.concerns)
       /\ IF stage < LastSpecialist
            THEN GoTo(stage + 1) /\ PublishFallback(heard.concerns) /\ UNCHANGED shown
          ELSE IF merged' = <<>>
            THEN ReturnReview(snap.findings, <<>>) /\ UNCHANGED shown
          ELSE /\ GoTo(Consolidation) /\ PublishFallback(heard.concerns)
               /\ shown' = Clusters(merged')

-----------------------------------------------------------------------------
(* Consolidation.                                                          *)

\* A usable answer replaces the concerns, even if it has no findings.
Consolidate ==
  /\ Step(Consolidation)
  /\ \E additions \in {SanitizedAll(a) : a \in ConsolidatedLists} :
       ReturnReview(MergeNovel(baseline, additions), additions)
  /\ UNCHANGED dataVars

\* Mutation: an unusable answer fails the commit.
ConsolidationError == Step(Consolidation) /\ ReturnError

\* If no answer is usable the concerns themselves become findings, all of them
\* and not the clusters that the prompt has.
ConsolidationFails ==
  /\ Step(Consolidation)
  /\ LET additions == FallbackFindings(merged)
     IN ReturnReview(MergeNovel(baseline, additions), additions)
  /\ UNCHANGED dataVars

-----------------------------------------------------------------------------
(* What happens to the task.                                               *)

Panic ==
  /\ MayPanic
  /\ task = "running" /\ Step(stage)
  /\ task' = "panicked"
  /\ UNCHANGED <<stage, dataVars, snap, row>>

Live == task \in {"queued", "running"}

\* JoinSet::abort_all by the driver, and the drop of the task where it awaits.
Abort ==
  /\ Live /\ abort = "no"
  /\ abort' = "aborting"
  /\ UNCHANGED <<fast, task, stage, dataVars, snap, row>>

\* Mutation: only a task that waits for its permit is dropped.
CancelledInQueue ==
  /\ task = "queued" /\ abort # "no"
  /\ task' = "aborted"
  /\ UNCHANGED <<fast, abort, stage, dataVars, snap, row>>

Cancelled ==
  /\ Live /\ abort # "no"
  /\ task' = "aborted"
  /\ UNCHANGED <<fast, abort, stage, dataVars, snap, row>>

\* A model call that answers or fails, which its deadline makes it do.
Stage ==
  \/ EnterReview \/ SetUpFails \/ IdentifySubsystem \/ FollowUpStage
  \/ FastReviewStage \/ SinglePass \/ SinglePassFails
  \/ BroadConcerns \/ Specialist \/ Consolidate \/ ConsolidationFails

GoesOn == Panic \/ Stage

Next == Start \/ GoesOn \/ Abort \/ Cancelled

Spec == Init /\ [][Next]_vars

FairSpec == Spec /\ WF_vars(Start) /\ WF_vars(GoesOn) /\ WF_vars(Cancelled)

-----------------------------------------------------------------------------
(* What the task may find: baselines, and lists that are merged with them.  *)

PossibleBaselines ==
  {WithUpstreamFixes(SanitizedAll(f), MasterFixes(log)) : f \in FastLists, log \in UpstreamLogs}

ASSUME BaselineAssumption == None \notin PossibleBaselines

HeardConcerns ==
  UNION {ToSet(h.concerns) : h \in UNION {Heard(s) : s \in Broad..LastSpecialist}}

PossibleConcerns == HeardConcerns \union UNION {ToSet(Reattributed(<<c>>)) : c \in HeardConcerns}

\* The text of a finding that a concern becomes is never absent.
ASSUME ConcernAssumption == \A c \in PossibleConcerns : FallbackFinding(c).problem # None

PossibleAdditions ==
  {SanitizedAll(a) : a \in ConsolidatedLists}
    \union {FallbackFindings(m) : m \in BoundedSeq(PossibleConcerns, MaxConcerns)}

-----------------------------------------------------------------------------
(* Properties                                                              *)

\* Ctrl-C may abort the task at any await, and the driver then reports the
\* snapshot: whatever the stages have found so far is in it, after the
\* baseline, in the words of the concerns until they are consolidated.
FoundIsPublished ==
  task \in {"running", "aborted", "panicked"} /\ baseline # None =>
    /\ IsPrefix(baseline, snap.findings)
    /\ \A i \in DOMAIN merged :
         Known(snap.findings, FallbackFindings(merged)[i])

\* Until the task returns, no stage takes back what an earlier one published
\* (publish_fallback_findings merges all concerns anew at each stage).
SnapshotGrows ==
  [][task' # "returned" => IsPrefix(snap.findings, snap'.findings)]_vars

\* Failed stages lose nothing: what was published is in the row, but for the
\* repair of anchors, unless a usable consolidation stands for it.  An error
\* row in particular, which has no findings, never follows a publication.
PublishedIsReturned ==
  [][row' # row /\ ~Consolidate =>
       \A i \in DOMAIN snap.findings :
         ToSet(Cleaned(<<snap.findings[i]>>))
           \subseteq ToSet(row'.findings \o row'.additions)]_vars

\* "Local merging removes exact identities": after the baseline, nothing that
\* is published repeats what stands before it, though several stages may find
\* the same and identity is not transitive.
NothingRepeated ==
  baseline # None =>
    \A j \in (Len(baseline) + 1)..Len(snap.findings) :
      ~Known(SubSeq(snap.findings, 1, j - 1), snap.findings[j])

\* The lines of the commit, as git has numbered them.
Side(h, sign) == IF sign = "RIGHT" THEN h.new ELSE h.old

LineAt(h, n, side) ==
  [file |-> Side(h, side), side |-> side,
   line |-> IF side = "RIGHT" THEN h.newStart + Count(SubSeq(h.body, 1, n - 1), New)
                              ELSE h.oldStart + Count(SubSeq(h.body, 1, n - 1), Old)]

Stands(l, k, n) ==
  /\ Hunks[k].body[n].first \in IF l.side = "RIGHT" THEN New ELSE Old
  /\ [file |-> l.file, side |-> l.side, line |-> l.line] = LineAt(Hunks[k], n, l.side)

\* "Drop location (or just line_end) entries that don't land on a real hunk
\* line", and "a uniquely matching added line is deterministic evidence of the
\* real source": whatever payload reads like a header of the diff, each location
\* in the row is a line of the commit on its side, and so is its last line; a
\* finding that blamed the message for words of the patch stands on an added
\* line that has them, but where an added line "++..." precedes it in its hunk;
\* and none that blames it so is left.
AnchorsLand ==
  [][row' # row =>
       \A g \in ToSet(row'.findings \o row'.additions) :
         /\ ~Misattributed(g)
         /\ g.location # None =>
              \A line \in {g.location.line, Max({g.location.line, g.location.end})} :
                \E k \in DOMAIN Hunks : \E n \in DOMAIN Hunks[k].body :
                  Stands([g.location EXCEPT !.line = line], k, n)
         /\ LET sources == {f \in ToSet(baseline) : f.problem = g.problem}
                kept == \E f \in sources :
                          f.location # None /\ g.location # None /\ f.location.line = g.location.line
            IN g \in ToSet(row'.findings) /\ g.location # None /\ ~kept =>
                 \E k \in DOMAIN Hunks : \E n \in DOMAIN Hunks[k].body :
                   /\ Stands(g.location, k, n)
                   /\ \/ /\ Hunks[k].body[n].first = "+"
                         /\ Hunks[k].body[n].has \intersect UNION {f.quotes : f \in sources} # {}
                      \/ \E j \in 1..n : Hunks[k].body[j].first = "+" /\ Hunks[k].body[j].header]_vars

\* "Specialist evidence is not discarded before consolidation": whatever else
\* is said about a like problem, in whatever order, consolidation sees something
\* like each concern that a stage has reported, with a proof if there was one,
\* and the concern itself if it has no description; and a stage is understood
\* although it talks around its answer.
EvidenceHandedOn ==
  stage = Consolidation =>
    /\ \A c \in ToSet(merged) :
         /\ \E d \in ToSet(shown) :
              /\ HasProof(c) => HasProof(d)
              /\ \E founder \in ToSet(merged) : Alike(founder, c) /\ Alike(founder, d)
         /\ c.problem = None => c \in ToSet(shown)
    /\ \A text \in ConcernTexts : \A n \in DOMAIN text :
         /\ HasKey(text[n], "concerns") /\ ~text[n].concerns.single
         /\ \A k \in DOMAIN text : k # n => text[k].kind = "prose"
         /\ text[n].fenced \/ (\A k \in DOMAIN text : k > n => ~Names(text[k], "concerns"))
         /\ HasKey(text[n], "findings") => Len(text) > 1 \/ ~text[n].findings.single
         => Said(text) # None /\ Said(text).concerns = text[n].concerns.list

Task == INSTANCE CommitTask WITH
  Commits <- {"commit"},
  Workers <- 1,
  Baselines <- PossibleBaselines,
  AdditionLists <- PossibleAdditions,
  task <- [c \in {"commit"} |-> task],
  base <- [c \in {"commit"} |-> baseline],
  snap <- [c \in {"commit"} |-> snap],
  row <- [c \in {"commit"} |-> row],
  abort <- [c \in {"commit"} |-> abort]

\* The stages implement the task that the driver relies on: whatever they do is
\* one of the steps that it promises, and publishes or returns what it may.
ImplementsTask == Task!TaskSpec

\* They end, so that none of its actions stays enabled, which is the fairness
\* that it promises.
TaskEnds == <>~Live
=============================================================================
