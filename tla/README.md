# A TLA+ model of boro

boro is a command-line program that reviews, builds, tests and applies Linux
commits with the help of language models. These modules model the parts of it
in which tasks, threads, processes and failures interact, TLC checks them on
small instances, and TLAPS proves the central facts for all instances. Paths
below are relative to the repository; the crate's sources are in `src/`.

## Inventory

| component | source | state it keeps | hard behaviour | correct when |
|---|---|---|---|---|
| worktree leases and sweep | `worktree.rs` | a run directory with a lock file and one worktree per commit; a process-wide lease behind a mutex | several processes over one directory, flock against unlink, crash | no live worktree is removed, a dead run's are where the sweep finds its lock file, and an error of one task keeps nothing from the others |
| subprocess backends | `claude_cli.rs`, `opencode.rs`, `codex_cli.rs`, `model_timeout.rs` | a child process, three pipes, a drain thread, a watchdog thread | pipes that fill, deadline against exit | the call is bounded, and a kill is a timeout and nothing else is |
| model client | `api.rs`, `http.rs` | the conversation, tool rounds, retry counters, a process-wide cache switch | retries inside retries under one deadline, input trimming | a stage ends, requests fit the budget, tool results answer tool calls |
| findings | `main.rs`, `api.rs` | ordered lists of findings | an identity that is no equivalence, order of merging | no signal is lost and none repeated |
| review of a commit | `main.rs` `run_two_pass`, `snapshot.rs` | baseline, merged concerns, challenges, a shared snapshot | cancellation or failure at every stage | what was found is published and returned |
| review run | `main.rs` `run` | tasks, rows, the cancelled flag, the report | order of ending, Ctrl-C, panic | one row per commit that shows what its task found |
| findings validation | `main.rs` `run_findings_validation`, `api.rs` | batches, decisions by commit, refused commits | retries, refusal, salvage, budget | baseline findings fall only to a verified verdict |
| anchors, concerns, upstream fixes | `diff_index.rs`, `cluster.rs`, `lore.rs`, `api.rs` | none: read from a patch, an answer, two git logs | payload that looks like a header, JSON in prose, similarity that is not transitive, backports | anchors are lines of the commit, evidence reaches consolidation |
| mailing-list text, summary | `main.rs`, `output.rs` | text by commit | failure of one call among many | each finding is rendered or kept |
| apply a commit or series | `apply.rs`, `main.rs` | the branch, the index, conflict state, verdicts | git commands that fail, kill and re-run, models that edit | earlier commits stay, a resolution changes only its hunk, the verdict fits HEAD |
| imported series | `worktree.rs`, `process.rs` | a temporary worktree, a child in it | Ctrl-C against child and guard | the tree is removed after the child has been reaped and its pipes closed |
| build and boot tests | `test_build.rs`, `test_boot.rs`, `vng.rs`, `kconfig.rs` | a fragment file, a child, a machine, a row | a hanging machine, pipes that stay open | the row says what was run, and a machine that hangs ends the test |
| prefetch, tools, follow-up threads | `prefetch.rs`, `tools.rs`, `lore.rs` | none, or caches | parsing | (pure) |
| targets, prompts, config, output, progress | the files of those names | none | none | (pure) |

A run (`boro review`) sweeps stale worktrees, spawns one Tokio task per commit
behind a semaphore, and joins them in a `select!` with Ctrl-C. A task takes the
run's lease, adds a worktree, and goes through the stages of a review; each
stage calls the model client, which calls an HTTP endpoint or runs a subprocess
on a blocking thread. Stages publish their findings in a snapshot that the
driver reads if the task is cut off. The driver then validates the findings of
all commits with a stronger model, has prose written for each and a summary for
the run, and prints the report.

`boro apply` works in the repository itself: it cherry-picks one commit after
another, has a model resolve what conflicts and another validate that, and lets
a third audit the result, checking the source in between. `boro build` and
`boro test` use the same worktrees as a review, but call `vng` instead of a
reviewer.

## Modules

| module | models | checked by |
|---|---|---|
| `WorktreeLease` | `RunLease`, `Worktree` and their `Drop`s, `sweep_stale`, the tasks that use them | `MCWorktreeLease`, `lease_*` |
| `WorktreeLeaseProofs` | proofs about it | `tlapm` |
| `AgentCli` | `invoke_claude` with its threads, `ChildTimeoutGuard`, the agent | `MCAgentCli`, `agent_*` |
| `ChildProcessProofs` | proofs about it and about `KernelTest` | `tlapm` |
| `DiffAnchors` | the lines of a patch: what an anchor may refer to, which added line has a text | used by the next |
| `Findings` | identity, merge, clean-up, repair of anchors, fallback and verdicts as operators on sequences | used by all below |
| `FindingsTheorems` | lemmas about these operators, and the induction they need | `tlapm` |
| `Concerns` | the parsers of the stages' answers, `cluster_concerns` | used by `CommitReview` |
| `UpstreamFixes` | `find_master_fixes` and what surrounds it | used by `CommitReview` |
| `ReportTexts` | prose, summary, what the report prints | used by `ReviewRun` |
| `CommitTask` | what a task of a commit promises to the driver | abstract; a `PROPERTY` of `CommitReview` |
| `CommitReview` | the stages of `run_two_pass`, `run_fast_review`, the end of `commit_review_inner` | `MCCommitReview`, `review` |
| `CommitReviewProofs` | proofs about it, the refinement of `CommitTask` among them | `tlapm` |
| `ReviewRun` | several `CommitTask`s with the driver of `run` | `MCReviewRun`, `run*` |
| `ReviewRunProofs` | proofs about it | `tlapm` |
| `FindingsValidation` | `run_findings_validation` and the chat it holds | `MCFindingsValidation`, `validation` |
| `FindingsValidationProofs` | proofs about it | `tlapm` |
| `ModelChat` | `chat_completion_with_retry_inner` and `chat_completion_inner` over HTTP | `MCModelChat`, `chat` |
| `ModelChatProofs` | proofs about it | `tlapm` |
| `ConflictText` | parsing conflicts in a file and putting resolutions in their place | used by `ApplyCommit` |
| `FieldCheck` | `post_apply_static_check` on sources as tokens, with what C would say | used by `ApplyCommit` |
| `ApplyCommit` | `run` of `apply.rs`, one action per git command and model answer | used by the next |
| `ApplySeries` | `run_apply_command`, `ImportedSeries`, kill and re-run | `MCApplySeries`, `apply` |
| `ApplySeriesProofs` | proofs about it and about `ApplyCommit` | `tlapm` |
| `KconfigFragment` | the lines of a fragment, from four origins | used by the next |
| `KernelTest` | `commit_test_build`, `commit_test_boot`, the runs of `vng` | `MCKernelTest`, `boot` |

`ReviewRun` composes abstract tasks (`CommitTask`), and `CommitReview` is shown
to implement such a task (`ImplementsTask`), so the two together cover a run of
detailed reviews without their product: the constants of `CommitTask` are
instantiated by what the stages may establish and add, and what it assumes of
them is proved of those (`TaskAssumptionsMet`). In the same way `ReviewRun` takes the
validator's outcome from `Validations` (module `Findings`), and
`FindingsValidation` is shown to stay within it (`WithinContract`).

### State and code

* `WorktreeLease`: the disk is a set of inodes; `InodeOf` the one a path names,
  so that a lock on an unlinked file can be told from one on its successor.
  Each task has a program counter through `Worktree::create`, its use and the
  two `Drop`s; each run has a sweeper with its own. A step is one call on the
  file system, which is where other processes come in. `Crash` closes the files
  of a run at any point. Any call on a run's directory or its lock file may fail in
  the processes of `Failing`, and leaves on disk what had been made; the history
  variable `fsError` remembers of whose directory.
* `AgentCli`: pipes are counters with a capacity; the agent reads, writes,
  forks and exits when it likes. The watchdog's mutex is held over its steps
  `check`, `flag` and `kill`, as the guard in `ChildTimeoutGuard::spawn` is.
* `DiffAnchors`: `Hunks` is the commit; `Patch` is what git prints of it, a
  sequence of lines known by their first character, some of which read like
  headers. The index is computed from the patch, as the code does, and not from
  the hunks, which the properties use as the truth.
* `Findings`: a finding is a record of problem, location, upstream commit, the
  identifiers it names, the texts it quotes, and whether its claim needs
  verification: as much as identity, clean-up and verdicts tell apart.
  Normalisation of text is in the choice of equal problems.
* `Concerns`: an answer is a sequence of blocks, prose or JSON, fenced or not;
  an object has its keys. Each parser chooses a block as the code does.
* `UpstreamFixes`: `UpstreamLogs` is what FETCH_HEAD may lead to, `BranchLog` the
  tip of the range; a commit in them has an id, a subject, and a trailer.
* `CommitReview`: one action per stage with its awaits, its publication and its
  failure. `abort` tells a task whose abort is requested from one that is
  dropped: a task runs on until its next await.
* `ModelChat`: `call` holds what lives for a call and `chat` with `messages` what
  lives for one attempt. A message is a role, a size and, for tools, which call
  it answers. The three writable parts of a request are cut as the binary search
  of `shrink_message_to_fit` cuts them, given by its result. Each await is a
  program counter; the deadline is asked for when it is entered (`Await`) and
  may pass while it lasts (`TimeOut`), with an answer racing it.
* `ReviewRun`: `task`, `row`, `snap` as in `CommitTask`, and the locals
  `triples`, `cancelled` and `report` of `run`; `prose` and `summary` are the
  results of `render_commit_lkml_phase` and `run_quick_summary`.
* `FindingsValidation`: `batches` is computed once, as in the code. `decided` is `by_sha`, `unverified` is
  `verification_failed_shas`; `inspected` and `reminded` live for one attempt.
  `proven` is a history variable: the commits whose accepted entry followed a
  tool call that the host has run.
* `ApplyCommit`: `head` is the branch as a sequence of commits with how each came
  about; `text` the conflict as sections, `files` the same as lines, which is all
  the program sees; `dirty` what differs from HEAD. `at` is the step of `run`,
  whose locals are `deps`, `hunks`, `codes`, `attempt`, `review`, `repairs`.
  Git's commands are external and may fail where `GitMayFail` says so.
* `FieldCheck`: a source is lines of tokens. `Issues` is what the program reports,
  `RealIssues` what a reader of C would; `Trees` has sources where they differ.
* `ApplySeries`: a run ends with an exit status, is killed at any step, and is
  started again up to `MaxRuns` times, after a clean-up or none. The import's
  `child` runs, is gone while a descendant holds boro's pipes (`held`), is being killed,
  or has left descendants with pipes of their own (`stray`).
* `KernelTest`: `at` is the stage; `vng`, `guest` and `late` are the child, what it
  has started (`piped` with vng's ends of the pipes, `apart` with its own), and the
  clock; `readers` are the pipes that are still read, `early` those whose reader
  ended before their writers; `file` is the temporary fragment. The expiry of the
  timer and the kill are two steps.

## Runs

| run | instance | shows |
|---|---|---|
| `lease_pool` | 1 run, 3 commits, 3 workers, git and every call on the directory may fail | the lease is backed by a flock; a run that ends leaves no lock behind, and nothing on disk unless a call failed; every task ends |
| `lease_recovery` | 3 runs, two with a commit each and one whose calls may fail; crashes, sweeps | no live worktree is swept away, and those of a dead run whose lock file is there are, but for four cases that `OrphansSwept` names |
| `agent_call` | prompt 2, pipe 1, output 2, helper | a kill is a timeout, nothing outlives the call, and a watched call ends |
| `chat` | a stage, a validation, a call of `boro apply`, two small calls at once | requests are well formed and fit; stubs stand for exactly what the model has read; caching is probed once; calls end |
| `review` | 1 commit of 3 hunks, two-pass and `--fast`, answers in seven forms, panic, abort | what is found is published once, stays, is handed to consolidation with its proofs and is returned with anchors on lines of the commit; the stages implement `CommitTask` with its termination |
| `run` | 2 commits, 2 workers, `filter` and `off`, `--fast`, prose and summary | one row per commit in order; cancelled rows are snapshots; upstream fixes survive validation; every finding is printed or told in prose; the run ends |
| `validation` | 2 commits, every answer and failure | a baseline finding falls only to facts and a tool call; batches fit; validation ends and stays within what `run` assumes of it |
| `apply` | a posted series of 2 commits with dependencies, 3 conflicts, 3 sources, 2 runs of the program | the branch holds what is accounted for, and a commit twice only if git picks it again on a rerun; resolutions change nothing else; verdicts fit HEAD; the import's guard waits for its child; runs end |
| `boot` | build, test and plan of 1 commit, fragments of each origin, Ctrl-C | the row says what was run, and only of a machine that outlived its deadline that it hung; the worktree is quiet when the row is returned, unless both readers have left their pipes or a process has its own; tests end, unless `vng -b` or a process with vng's pipes does not |

These runs pass. The following ones show a disagreement between the code and
what it, or the documentation, says; each checks the one property that fails.

| run | what happens |
|---|---|
| `lease_sweep_race` | with two leases one after the other in a run, a sweep of another run locks the first, unlinked, lock file and removes the worktree of the second lease |
| `agent_stdin_hang` | the prompt is written before the watchdog exists; an agent that does not read it blocks the call for ever |
| `run_cancel_lost` | after Ctrl-C, findings mode drops the additional findings of tasks that had ended |

### Other observations

The models show the following too. No run is kept for them, because nothing in
the code promises otherwise or because a configuration is enough to see them.

* A directory without a lock file is never swept (`RunLock::Unknown`), against the
  "clean up orphans" of `worktree.rs` 17. It comes about in two ways. The sweep
  unlocks before it unlinks (`worktree.rs` 608), so it may remove the name of the
  lock file of a run that has just taken the lease; that run still holds its
  flock, but if it crashes its directory stays. And a run may crash, or fail,
  between `create_dir_all` and the open. `OrphansSwept` speaks of directories with a
  lock file and names the unlink (`Unlinking`) as an exception; without it the
  property fails in `lease_recovery`, with three runs and not with two.
* When a call of `RunLease::create` fails, for lack of space say, the error gives up
  mutex and flock but leaves the directory, and from the open on the lock file
  (`worktree.rs` 114 to 127). Unless another task of the run takes a lease they
  stay after the run; `CleanExit` excepts directories on which a call failed.
* A task that creates a lease while the `Drop` of another still has the flock
  fails with a lock error (`LeaseFails` is reachable in `lease_pool`).
* If the signal handler cannot be installed, the biased `select!` (`main.rs`
  2910) never reaches the join: `RunEnds` fails with `HandlerFails = TRUE`.
* Specialists challenge findings by position, and the clean-up of the baseline
  that follows (`main.rs` 735) may drop findings, so that a recorded position
  may name another finding or none.
* With validation off the clean-up still drops fast findings whose complaint
  about the message quotes nothing in it (`main.rs` 1165).
* With a subprocess backend, verdicts of the validator are applied although the
  host has seen no tool run (`api.rs` 1744): `VerdictIsVerified` fails in
  `validation` with `ToolModes = {"agent"}`.
* The demand for a tool call rests on a parse of its own, which gives up where
  "the outer schema retry owns malformed output" (`api.rs` 329); but the parsers
  of the stages are more lenient. A bare array, an object with the key `findings`,
  or an object in prose whose challenges follow its concerns is accepted
  without a tool call.
* A challenge to the baseline in an answer with one concern instead of a list, or
  with a bare list, is dropped (`api.rs` 3217). Of several drafts in fences
  the first that has the key is taken, where the comment speaks of the last. Of
  an answer that is an object with a list of concerns and a single finding, the
  finding is taken and the list dropped (`api.rs` 3232), where `findings` is meant
  for answers without `concerns` (3214); `EvidenceHandedOn` excepts that form.
* `added_line_matches` does not count an added line "++..." (`api.rs` 3080): a
  complaint that is relocated to a line after it in the hunk is anchored one line
  too low. `AnchorsLand` names that case and excepts it.
* A concern with a proof of any four non-empty fields keeps its place in its
  cluster against a like concern with a concrete one (`cluster.rs` 52).
* FETCH_HEAD is not the "one-run snapshot" of the comment at `main.rs` 2787: a
  `git fetch` in the repository, by a second run above all, replaces it between the
  queries of two commits. A fix whose backport on the branch was reverted is
  still taken for applied, by its subject (`lore.rs` 207).
* A model that ignores `tool_choice: none` keeps a call without a deadline
  going for ever: `ChatEnds` fails in `chat` for a call like `Apply` whose model
  is not obedient.
* After an API error that follows an unparsable answer the prompt keeps the
  schema reminder (`api.rs` 2581); the comment at 2354 says that the original
  prompt is used. The same comment says that the usage of all attempts is
  summed; that of an attempt which ends in an error is not.
* After Ctrl-C a `--fast` run keeps its finished reviews only in the internal field
  `_fast_review`, since the mailing-list phase is skipped: the human report says
  "none" of them. A failed row has the same effect on the good rows of such a
  run, against the comment at `output.rs` 113.
* Two commits of one subject: the second is taken for applied once it conflicts
  (`apply.rs` 1341). After a kill between `--continue` and the amend of its message
  a commit keeps the trailer of a plain pick, and the next run skips it.
* A cherry-pick that is refused outright, of a commit whose subject is found, makes
  `git cherry-pick --skip` fail and the run with it. A file that git leaves
  unmerged without markers is never staged, so that `--continue` fails.
* git picks before the program asks whether the commit is applied (`apply.rs` 628,
  669). What an earlier run has put there, and an audit has amended or a later
  commit undone, may land a second time on a rerun: `SeriesAccounted` allows that
  for a pick without conflict. That a commit which did land is found in the log
  of its files is taken for granted (`LogSubjects`): an amendment that leaves one
  of the files out of the commit is not modelled.
* `cancellable_output` awaits the import's child and the ends of its pipes. It kills
  the child alone (`process.rs` 36), so that what `b4` has started with pipes of its
  own, as git is, may still work in the tree that the guard removes.
* `ensure_clean_apply_worktree` does not see a pick that has stopped at an empty
  commit, nor ignored files; an edit of an ignored file by the audit goes unseen.
* The source check takes, of a line that declares several structures, the first whose
  declarators end with the variable, and lines inside a long comment for code
  (`apply.rs` 3041): it reports issues that are none. A field name that is in the
  body of the structure as something else hides one that is real.
* SIGKILL goes to `vng` alone and the readers are awaited without a bound (`vng.rs`
  130 to 137): a descendant that keeps the pipes open, as the machine itself may,
  keeps `boro test` waiting after the deadline. The comments at `vng.rs` 87 ("Bounded
  by `timeout`") and `test_boot.rs` 144 ("instead of blocking the worker forever") say
  otherwise. `vng -b` has no deadline (`vng.rs` 79). `TestEnds` names these two waits
  and holds of all others.
* `drain_pipe_lines` ends at a malformed line (`vng.rs` 171), which the comment at 162
  says it drops, and closes its end of the pipe. If both readers have ended, or if
  the machine has pipes of its own, the row of a killed `vng` is returned while the
  machine may be at work in the worktree. Ctrl-C kills `vng` and waits for nothing.
* A `vng` that ends by itself after the timer has expired and before the kill
  (`vng.rs` 125 to 133) is reported as hung: its status is not asked for.
* In a fragment the first of two equal lines stays (`kconfig.rs` 422), so that an
  option that the model sets, unsets, and kselftest sets again ends up unset, where
  the comment says that kselftest wins. No property depends on which lines a
  fragment has, only on whether it has any and what becomes of its file.
* Trimming takes from the tool results of a conversation, the newest too
  (`api.rs` 1492 to 1517), which the comment on eliding calls "left intact":
  `FreshResultsSent` says that no unread result is a stub, not that it is whole.

### Bounds

* Lease: the races need two leases of one run and one sweeper, and a third run
  adds a sweeper that races the first; three commits on three workers let one
  task drop while one creates and one uses. In `lease_recovery` only the runs of
  `Owners` get to their tasks, the third only sweeps, and its calls only may fail;
  `MaxCrashes` lets both owners crash.
* Agent: a prompt of one pipe or more makes the writer block; two units of
  output fill one pipe while the other is read.
* Chat: one tool round of at most two calls, then the cap; results larger and no
  larger than their stub; a budget that a whole conversation exceeds and a
  provider that lowers it twice; two attempts, two posts. `MaxMessages` stops
  the growth of a conversation, not the conversation: a disobedient model is
  asked again with the same messages.
* Review: three problems, of which two are alike to a third and not to each
  other; locations inside and beyond a hunk, on either side, and in a file that is
  removed; `MaxConcerns` bounds what the stages find together, three being what
  similarity that is not transitive needs.
* Run: two commits suffice for rows that end in either order, and for one row
  that has returned when the other is cut off; `MaxHighlights` is below what
  the summary may name.
* Validation: payloads are chosen so that two commits fit a batch or do not, and
  that one exceeds the budget alone, cut down or not at all. Two commits give a
  batch before and after; `MaxAttempts` is the code's own.
* Apply: the second commit refers to the first and to one outside the series; two
  conflicts in one file and two files in one conflict are the least that can
  shift; two repairs and two resolution attempts, of the code's three and ten, tell
  a retry from the last one. A second run is what a kill needs. The series comes
  from a message, whose import precedes the rest; a range on the command line
  takes the same steps from `loop` on, so that `Sources` need not have both (with both
  the properties hold too, at twice the states).
* Boot: one commit, since tests of several share nothing but the worktrees, which
  `WorktreeLease` models.

### Fairness

Tokio polls a task whose future is ready and the operating system runs a
thread, so the steps of tasks, driver, drain thread and watchdog are weakly
fair. A model call that answers or fails is a fair step of a review: each stage
has a deadline (`StageDeadline` in `api.rs`) that turns silence into an error.
`agent_stdin_hang` is the exception to that premise. In `ModelChat` the provider
and the tools are fair only for calls without a deadline, whose requests the
HTTP client itself ends after an hour (`http.rs`); with a deadline they may stay
silent, and the clock is fair. `CommitReview` is fair in the disjunction of its
stages and of a panic (`GoesOn`): one of them happens, whichever. `ImplementsTask`
states the safety of `CommitTask`; that a task ends, which makes its fairness hold
because no step is left then, is the property `TaskEnds`. In `ApplySeries`
the program's steps and the end of the import's child are fair; in `KernelTest` the
task's own steps, which include that its models answer or fail, and the clock.
`vng -b`, the machine and what a dead `vng` has left need not end. For
`OrphansSwept` only the sweepers are fair (`SweepFairSpec`), tasks are not. A user who
edits, kills or presses Ctrl-C is not fair.
No fairness is assumed of
the agent, of Ctrl-C, of crashes, or of which answer a model gives.

Deadlock is not checked, because all of these systems come to an end.

## Proofs

Each theorem below holds for every value of the constants that satisfies the
assumptions of the modules (`...Assumption`), which TLC evaluates for the
instances. `tlapm` checks them to the last leaf.

**Leases** (`WorktreeLeaseProofs`), for any sets of runs and commits and any
number of workers. `TypeCorrect`: the state has its types. `LeaseCorrect`: the
holder of a lease holds the flock of the inode it opened, whatever the sweeps do.
`CleanedUp`: when the tasks of a run have ended, its worktrees are gone and no sweep
is in its directory, then none of its locks is left, and neither directory nor
lock file unless a call on them has failed, as any call may. `OneCommitTreeKept`: with one commit
per run no sweep removes a worktree in use; `lease_sweep_race` shows that two
commits are enough to lose this. The invariant relates the place of each task
and sweeper to the owner of the flock: a sweeper past its `try_lock` owns the
inode it opened and a task past its own does too, so both cannot be there for one
inode. `CleanedUp` needs more: who is locked is locked by somebody on his way
(`HolderInv`), and what is on disk without worktrees is somebody's to remove
(`PartyInv`), since a task whose lock fails leaves it to whoever has the flock; the
latter is claimed only as long as no call has failed.

**Agent call** (`ChildProcessProofs`), for any prompt, pipe and output size.
`CallIsSettled`: a kill is reported as a timeout, no watchdog outlives the call, and
an answer or a timeout is only returned of an agent that has been reaped.
`FlagSettles`: once a status is collected no step raises the flag or signals the
process. The invariant says that a kill follows the flag, that the mutex is held
from the check to the kill, and that a cached status means that no watchdog is
between the two.

**Build and boot tests** (`ChildProcessProofs`), for
any commands, fragments and findings that a model may answer with. `RowToldTest`: the
row says what was run; a machine that was killed at its deadline is a Critical
finding whatever the model makes of its output, and of no machine that was within its
deadline is it said that it hung. `WorktreeIsQuiet`: the fragment is
there as long as the build may read it, and when the row is returned `vng` has ended,
and so has all that could write to its pipes unless both readers have left them before. The invariant says where the machine and what it has started can be
at each stage (`MachineInv`), what has become of the fragment (`BuildInv`), and what is
known of the row when it is made (`RowInv`).

**Model client** (`ModelChatProofs`), for any number of calls at a time, of any
kinds, and all sizes, limits and counts. `RequestsFit`: a structured call keeps its
second message from the first request to the last, which eliding, trimming,
appending and the fall-back for cache markers each preserve; that a request fits
is the guard of `SendRequest`, kept while it is posted again. It does not
say what trimming achieves. `ProbingStops`: a call that was refused has told the
process and sends no markers again, so that the first refusal, and only it, prints
the notice. `ToolCallsHaveResults`: every request answers the tool calls it carries,
in their order; and `FreshResultsAreSent`: exactly the results that the model has
seen are stubs (trimming may cut the others, which is not excluded). Their invariant `TalkInv` says of a conversation either that it is
whole (`Whole`: each call is followed by its result and each result answers a
call) or that its last answer, at some position, still waits for the last of its
results (`Waits`); and that nothing is elided that the model has not read, while
all that it has read is, in a request (`KeptFresh`, `AllElided`).

**Review of a commit** (`CommitReviewProofs`), for any answers of the model, any
commit, any number of concerns. The invariant `ReviewInv` says that until the task
returns its snapshot is the baseline merged with all concerns the stages have
reported, although each stage merges them anew. From it follow `FoundPublished`,
`NeverRepeated`, `SnapshotOnlyGrows`, `PublishedReturned`, and
`StagesImplementTask`: each step of the stages is a step of `CommitTask` or a
stutter, under the mapping of the single task to a function over one commit.
`TaskAssumptionsMet`: what `CommitTask` assumes of its constants is true of what the
stages may establish and add. `EvidenceReachesConsolidation`: of each concern that a
stage has reported, consolidation is shown one that is like the founder of its cluster,
and has a proof if the concern has one; and of an answer with one block of concerns
all are heard. Being alike is not transitive, so the founder is what relates the two.
The argument is an induction over the fold that makes the clusters: after k concerns
each is represented by a cluster (`Represents`), which one more concern never undoes
(`AddClusterRepresents`), although it may replace the concern that a cluster shows.

**Review run** (`ReviewRunProofs`), for any number of commits and workers, however
the tasks end. `RunInvariant`: tasks keep their promises, the driver has the rows of
those it has joined and that returned, none is lost before Ctrl-C, the report is
made of these rows and of the snapshots. `RowsAreTheRange`: one row per commit, in
order (`Collect` sorts what came in any order). `PartialRowsAreSnapshots`,
`UpstreamFixesShown`: the latter through clean-up, validation and merging.
`ReportTellsAll`: of a run that was not cancelled nothing is left unsaid. Text and
summary are made of the rows as they are printed (`TextInv`); the counts, which the code
adds up row by row, are those of all findings (`CountsAreTold`, by induction over the
rows); a highlight is of a finding of the report, and no two are of the same
(`HighlightsAreFindings`); and a fast row has no findings that leaving the list out
could hide (`FastRowIsEmpty`).
`TasksAsPromised`: a run takes of each task the steps of `CommitTask` only. With
`StagesImplementTask` this is the composition: what the driver is proved to do
with tasks it does with the detailed reviews.

**Findings validation** (`FindingsValidationProofs`), for any number of commits
and any payloads and answers. `BatchesAreFit`: the batches hold each commit that
needs validation once, in order, and each fits the budget or is of one commit; the
argument is an induction over the fold that makes them. `VerdictVerified`: the
baseline of a commit changes, and a sensitive claim appears, only upon an answer
for which the host ran a tool. Its hypothesis excludes subprocess backends, for
which this is false (see the observations). `AsTheRunExpects`: the result for each
commit is one of those that `ReviewRun` chooses from.

**Apply** (`ApplySeriesProofs`), for every series, messages, conflicts and sources,
any number of runs and a kill at any step. `Accounted`: what precedes the commit in
hand is on the branch or covered by its subject, what follows has not been put there
by this run, and a commit is there twice only if it is of the series, an earlier run
has put the first there, and git has picked it again without a conflict: a dependency
is never repeated, and a model never resolves what is there already. Git may pick
anything cleanly in the model; that a resolved commit and a dependency come once follows
from the subjects that the program looks up before. `BranchHistory` is its invariant; a
part is that this run has put nothing on the branch yet of the commit that it is about
to pick, or of those after it (`PendingInv`). `OwnAmended`: the branch only grows, or the commit just made is
amended. `CleanSuccess`: a run that reports success leaves no edit, no pick, and the
right trailers. `GuardedImport`: the worktree of an import is removed after its child has been
reaped and boro's pipes have been closed, which leaves out descendants with their own.
`VerdictTold`: what is reported as applied has a clean tree and a source without the
faults that the check is made for, and is not called clean if the audit amended
it. Its hypothesis is that the check finds such faults when the source is before
it (`Broken \subseteq Faulted`), which TLC finds true of the instance's sources;
what it says is that no path through review, repair and failure loses the verdict.
`SourceKept`: what is staged is the text that git has put in conflict, or that someone
has edited since, with each hunk replaced by what was accepted for it. The argument
relates three views of a file: sections, of which some are hunks (`text`); lines
(`files`); and line numbers (`hunks`). The offset of a section (`Off`) ties them
together: each hunk that `Conflicts` reads begins and ends where its section does
(`ConflictsFound`, `ParsedPlaces`), and replacing hunks from the last to the first
leaves the lines before them where they are (`FileResolved`, an induction from the end).
As long as models are asked, the hunks are in their places (`Placed`), or a line before
the first has moved those of that file, so that none begins with a marker (`Moved`) and
the rewrite refuses them (`MovedFails`).
The invariant says what is on the branch and what is to be cleaned up at each step
of `run` (`InHand`, `BranchInv`, `TreeInv`, `FilesInv`), which commit may lack its
trailer (`TrailerInv`), and what the verdict has been told (`VerdictInv`).

### Assumptions

Beyond types and ranges the proofs rest on the following, each named in the module
that declares the constants.

* Answers and baselines are lists (`IsList`), findings of the validator say whether
  they are sensitive, and a text that a stage understands has a block: the
  parsers make records of JSON values.
* What a concern becomes has a text (`ConcernAssumption`), so that it has an identity;
  and concerns are similar only if both have one (`SimilarAssumption`).
* The absent value is none of the records and words it is compared with
  (`BaselineAssumption`, `AnswerAssumption`, `KernelTestAssumption`,
  `ReportTextsAssumption`).
* The commits of a series differ, none of their messages refers to the commit at HEAD,
  and HEAD's subject is in its own history.
* git leaves conflicts in files of one style of line ends, with text between two
  hunks and without lines that look like their markers, and the resolutions are
  without markers too (`TextsAssumption`). A line of seven `=` in one of the sides, say,
  would be read as the separator; the theorem does not speak of it, nor of a file in
  which CRLF and LF are mixed.

### What helped

Induction over data is done without operator parameters: a set of naturals has a
least element (`LeastNat`, from `NatLessThanWellFounded` and `WFMin`), so a set that
has 0 and is closed under successor has all (`UpTo`). The value of a fold over the
first k elements is shown to exist, for every k, as a function on sets of
positions (`FoldExists`; `Merges`, `Flats`, `Joins`), and to be the library's `FoldLeft`,
which unfolds to a CHOOSE of such a function. Three choices in the models are made
for the prover, which cannot expand the library's: lists are sorted and filtered
by `Sorted` and `Subsequence` of `Findings` in place of `SortSeq` and `SelectSeq`, and
`deps` is a set of positions.

### Only model-checked

* Liveness (`TasksEnd`, `OrphansSwept`, `WatchedCallEnds`, `RunEnds`, `ValidationEnds`,
  `ChatEnds`, `SeriesEnds`, `TestEnds`, `TaskEnds`): the prover does not reason about
  ENABLED.
* `AnchorsLand`: what parsing a patch, line by line, makes of its hunks.

## Not modelled

Prompt text, the bytes of a stream, formatting, progress rows and static tables
are data for the properties here. `prefetch.rs` and the read-only part of
`tools.rs` collect source text for prompts: what they return changes what a
model says, which is nondeterministic already, and nothing else. The same holds of
the thread that `lei` finds for a commit. Similarity of two texts, whether a
finding is about linkage, and which lines quote which text are constants,
since they depend on the text alone. Git, b4, make, `vng` and the models are
external. The three subprocess backends share their structure and only
`invoke_claude` is mapped.

## Plan

1. Done: leases, agent call, model client, findings with anchors, concerns and
   upstream fixes, review, run with its texts, validation, apply, imported series,
   build and boot tests; proofs for all of them.
2. Proofs to come: what trimming achieves for a request; that anchors are lines of
   the commit.
3. Then the parts of components that are `partly` modelled: symlink checks of the
   worktrees, the parsing of stream events, and the other two subprocess backends.
