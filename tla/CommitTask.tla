----------------------------- MODULE CommitTask -----------------------------
(***************************************************************************)
(* What the task that reviews a commit promises the driver of a run, its   *)
(* stages left out: execute_commit_task and the Tokio task around it       *)
(* (src/main.rs), with the CommitSnapshot it shares with the driver        *)
(* (src/snapshot.rs).                                                      *)
(*                                                                         *)
(* A task waits for one of Workers permits, establishes a baseline of fast *)
(* findings, publishes the baseline merged with what it has found so far,  *)
(* and returns the row of its commit.  An aborted task ends at its next    *)
(* await: it may still finish the step it is in.                           *)
(***************************************************************************)
EXTENDS Findings

CONSTANTS
  Commits,
  Workers,         \* permits of the semaphore
  FastModes,       \* whether the run may be a boro review --fast
  Baselines,       \* lists of findings that may become a baseline
  AdditionLists,   \* lists of findings that discovery may add to it
  MayPanic         \* whether a task may panic

ASSUME CommitTaskAssumption ==
  /\ IsFiniteSet(Commits)
  /\ Workers \in Nat \ {0}
  /\ FastModes \subseteq BOOLEAN /\ MayPanic \in BOOLEAN
  /\ <<>> \in AdditionLists /\ None \notin Baselines
  /\ \A list \in Baselines \cup AdditionLists : IsList(list)

VARIABLES
  fast,    \* boro review --fast: one pass, no structured findings
  task,    \* [Commits -> queued, running, or how it ended]
  base,    \* the fast baseline once it is fixed, None before
  snap,    \* the CommitSnapshot of each commit
  row,     \* what the task returned, None before
  abort    \* "no", "aborting", or "spent" once the last step was taken

taskVars == <<fast, task, base, snap, row, abort>>

EmptySnap == [findings |-> <<>>, completed |-> FALSE, error |-> FALSE]

TaskInit ==
  /\ fast \in FastModes
  /\ task = [c \in Commits |-> "queued"]
  /\ base = [c \in Commits |-> None]
  /\ snap = [c \in Commits |-> EmptySnap]
  /\ row = [c \in Commits |-> None]
  /\ abort = [c \in Commits |-> "no"]

Live == {c \in Commits : task[c] \in {"queued", "running"}}
Running == {c \in Commits : task[c] = "running"}

\* A poll of the task up to its next await, the last one if it is aborted.
Step(c) ==
  /\ task[c] = "running" /\ abort[c] # "spent"
  /\ abort' = [abort EXCEPT ![c] = IF @ = "no" THEN "no" ELSE "spent"]
  /\ UNCHANGED fast

Return(c, snapshot, value) ==
  /\ task' = [task EXCEPT ![c] = "returned"]
  /\ snap' = [snap EXCEPT ![c] = snapshot]
  /\ row' = [row EXCEPT ![c] = value]

Row(findings, additions) ==
  [findings |-> findings, additions |-> additions, error |-> FALSE, partial |-> FALSE]

ErrorRow == [Row(<<>>, <<>>) EXCEPT !.error = TRUE]

\* The task gets a permit and goes on with its first step at once.
Start(c) ==
  /\ task[c] = "queued" /\ abort[c] # "spent"
  /\ Cardinality(Running) < Workers
  /\ task' = [task EXCEPT ![c] = "running"]
  /\ UNCHANGED <<fast, base, snap, row, abort>>

\* A step that publishes nothing the driver reports.
Proceed(c) == Step(c) /\ UNCHANGED <<task, base, snap, row>>

\* The first publisher.set_findings, of the baseline alone.
Establish(c) ==
  /\ Step(c) /\ ~fast /\ base[c] = None
  /\ \E b \in Baselines :
       /\ base' = [base EXCEPT ![c] = b]
       /\ snap' = [snap EXCEPT ![c].findings = b]
  /\ UNCHANGED <<task, row>>

\* publish_combined_findings
Publish(c) ==
  /\ Step(c) /\ base[c] # None
  /\ UNCHANGED <<task, base, row>>
  /\ \E a \in AdditionLists :
       snap' = [snap EXCEPT ![c].findings = MergeNovel(base[c], a)]

\* A review returns: its row has the baseline and the additions apart, each
\* after the repair of its anchors; the snapshot has them merged, unrepaired.
Finish(c) ==
  /\ Step(c) /\ base[c] # None
  /\ \E a \in AdditionLists :
       Return(c, [EmptySnap EXCEPT !.findings = MergeNovel(base[c], a),
                                   !.completed = TRUE],
                 Row(Cleaned(base[c]), Cleaned(a)))
  /\ UNCHANGED base

\* With --fast the review is text; neither row nor snapshot has findings.
FinishFast(c) ==
  /\ Step(c) /\ fast
  /\ Return(c, [EmptySnap EXCEPT !.completed = TRUE], Row(<<>>, <<>>))
  /\ UNCHANGED base

\* An error is recorded in the snapshot and in the row, and the run goes on.
\* After the baseline only embedded prompts are read, which does not fail.
Fail(c) ==
  /\ Step(c) /\ base[c] = None
  /\ Return(c, [snap[c] EXCEPT !.error = TRUE], ErrorRow)
  /\ UNCHANGED base

Panic(c) ==
  /\ MayPanic
  /\ Step(c)
  /\ task' = [task EXCEPT ![c] = "panicked"]
  /\ UNCHANGED <<base, snap, row>>

\* The runtime drops an aborted task where it awaits.
Cancelled(c) ==
  /\ c \in Live /\ abort[c] # "no"
  /\ task' = [task EXCEPT ![c] = "aborted"]
  /\ UNCHANGED <<fast, base, snap, row, abort>>

Settle(c) == Establish(c) \/ FinishFast(c) \/ Fail(c)

TaskStep ==
  \E c \in Commits :
    \/ Start(c) \/ Proceed(c) \/ Settle(c) \/ Publish(c) \/ Finish(c)
    \/ Panic(c) \/ Cancelled(c)

\* JoinSet::abort_all, by the driver.
AbortAll ==
  /\ abort' = [c \in Commits |-> IF c \in Live /\ abort[c] = "no" THEN "aborting" ELSE abort[c]]
  /\ UNCHANGED <<fast, task, base, snap, row>>

\* Every stage of a task ends: each has a deadline.
TaskFairness ==
  \A c \in Commits :
    /\ WF_taskVars(Start(c))
    /\ WF_taskVars(Settle(c))
    /\ WF_taskVars(Finish(c))
    /\ WF_taskVars(Cancelled(c))

TaskSpec == TaskInit /\ [][TaskStep \/ AbortAll]_taskVars
=============================================================================
