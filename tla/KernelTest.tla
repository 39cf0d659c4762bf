------------------------------ MODULE KernelTest ------------------------------
(***************************************************************************)
(* boro build and boro test on one commit: commit_test_build of            *)
(* src/test_build.rs, commit_test_boot of src/test_boot.rs, and the runs   *)
(* of virtme-ng in src/vng.rs, one action for each awaited step.           *)
(*                                                                         *)
(* The machine is external: vng is a child of boro, and what it starts may *)
(* live on when vng is killed, with vng's ends of the pipes or with pipes  *)
(* of its own.  Prompts, usage, logs and a dry run are left out.           *)
(***************************************************************************)
EXTENDS KconfigFragment

CONSTANTS
  None,
  Commands,       \* what is run: "build", "test" or "plan"
  Targets,        \* what is tested: "commit", "config" or "range"
  ConfigArgs,     \* arguments of boro test --config
  ModelLists,     \* configuration lines that the model may answer with
  ChangedDirs,    \* directories of the kselftests that the commit changes
  AreaSets,       \* areas that the model may name
  FindingLists,   \* findings that the model may report
  MayCancel       \* whether Ctrl-C may abort the task

ASSUME KernelTestAssumption ==
  /\ None \notin {"ok", "failed", "timed_out"}
  /\ \A list \in FindingLists : list \in Seq(ToSet(list))

VARIABLES
  command, target,
  at,         \* the stage, or how the task ended
  options,    \* the lines of the fragment
  file,       \* the fragment's temporary file: none, there, dropped
  fault,      \* whether the fragment's stage has an error
  build,      \* how vng -b ended: None, "ok" or "failed"
  chosen,     \* the command for the machine
  vng,        \* the child: none, running, ok, failed, or killed
  guest,      \* what it has started: none, "piped" with vng's ends of the pipes,
              \* or "apart" with pipes of its own
  late,       \* whether run_timeout has passed
  readers,    \* the pipes that drain_pipe_lines still reads
  early,      \* those that it has left while someone could still write to them
  hung,       \* VngOutput.timed_out
  shown,      \* findings in the snapshot
  row         \* what the task returns

procVars == <<vng, guest, late, readers, early>>
kernelVars == <<command, target, at, options, file, fault, build, chosen,
                procVars, hung, shown, row>>

VngPipes == {"stdout", "stderr"}

Fallback == "dmesg"
Synthetic(problem) == [problem |-> problem, severity |-> "Critical"]
BuildFailed == Synthetic("build failed")
SystemHung == Synthetic("system hung")
Unparsed == [problem |-> "not findings JSON", severity |-> "Info"]

KernelInit ==
  /\ command \in Commands
  /\ target \in (IF command = "build" THEN {"commit"} ELSE Targets)
  /\ at = IF command = "plan" THEN "plan" ELSE "kconfig"
  /\ options = <<>> /\ file = "none" /\ fault = FALSE
  /\ build = None
  /\ chosen = None
  /\ vng = "none" /\ guest = "none" /\ late = FALSE
  /\ readers = {} /\ early = {}
  /\ hung = FALSE
  /\ shown = <<>>
  /\ row = None

At(a) == at = a
GoTo(a) == at' = a

\* publisher.set_findings, and the row with the statuses.
Return(findings, bootStatus) ==
  /\ GoTo("returned")
  /\ shown' = findings
  /\ row' = [findings |-> findings, build |-> build, boot |-> bootStatus,
             options |-> options]

\* An error becomes the row of a failed task.
Fails == GoTo("failed") /\ UNCHANGED <<shown, row>>

\* boro test --plan asks for a plan and runs nothing; a plan may be without a
\* command, and without a plan it is to look at dmesg.
Plan ==
  /\ At("plan")
  /\ chosen' \in {"test", "see steps below", Fallback}
  /\ Return(<<>>, "planned")
  /\ UNCHANGED <<command, target, options, file, fault, build, procVars, hung>>

RangeRefused ==
  /\ At("kconfig") /\ target = "range"
  /\ Fails
  /\ UNCHANGED <<command, target, options, file, fault, build, chosen, procVars, hung>>

-----------------------------------------------------------------------------
(* The configuration and the build.                                        *)

\* write_fragment, if there is a line; it may fail, and the lines are kept.
WriteFragment(lines, error) ==
  /\ options' = lines
  /\ \/ file' = (IF lines = <<>> THEN "none" ELSE "there") /\ fault' = error
     \/ lines # <<>> /\ file' = "none" /\ fault' = TRUE
  /\ GoTo("build")
  /\ UNCHANGED <<command, target, build, chosen, procVars, hung, shown, row>>

\* build_kconfig_stage: without a diff there is no fragment; with one, a model
\* that fails, or whose answer does not parse, leaves the lines of the
\* kselftests that the patch changes.  If git cannot list what it changes,
\* these are left out, and that is no error.
CommitFragment ==
  /\ At("kconfig") /\ target = "commit"
  /\ \E changed \in {{}, ChangedDirs} :
       \/ \E lines \in {<<>>, Fragment(<<>>, changed, {})} : WriteFragment(lines, TRUE)
       \/ \E lines \in ModelLists, areas \in AreaSets :
            WriteFragment(Fragment(lines, changed, areas), FALSE)

\* boro test --config: an argument that is refused ends the program before.
ConfigFragment ==
  /\ At("kconfig") /\ target = "config"
  /\ \E arg \in {a \in ConfigArgs : ConfigTarget(a) # Refused} :
       LET lines == UserFragment(<<ConfigTarget(arg)>>)
       IN WriteFragment(lines, lines = <<>>)

\* run_build blocks its thread until vng -b has ended, without a timeout.
\* vng may not be there to be run.
Build ==
  /\ At("build")
  /\ \/ /\ build' \in {"ok", "failed"}
        /\ GoTo("built")
        /\ UNCHANGED <<shown, row>>
     \/ Fails /\ UNCHANGED build
  /\ UNCHANGED <<command, target, options, file, fault, chosen, procVars, hung>>

\* The fragment is dropped, and a boot test of a kernel that was not built
\* ends with this one finding.
Built ==
  /\ At("built")
  /\ file' = IF file = "there" THEN "dropped" ELSE file
  /\ \/ command = "build" /\ GoTo("triage") /\ UNCHANGED <<shown, row>>
     \/ command = "test" /\ build = "ok" /\ GoTo("pick") /\ UNCHANGED <<shown, row>>
     \/ command = "test" /\ build = "failed" /\ Return(<<BuildFailed>>, "skipped")
  /\ UNCHANGED <<command, target, options, fault, build, chosen, procVars, hung>>

\* parse_findings_or_fallback, or nothing if the model has not answered.
Reported == {<<>>, <<Unparsed>>} \union FindingLists

Triage ==
  /\ At("triage")
  /\ \E findings \in Reported : Return(findings, None)
  /\ UNCHANGED <<command, target, options, file, fault, build, chosen, procVars, hung>>

-----------------------------------------------------------------------------
(* The test in the machine.                                                *)

\* pick_test_command: dmesg if the model fails, has no command, or says null.
PickCommand ==
  /\ At("pick")
  /\ chosen' \in {"test", Fallback}
  /\ GoTo("boot")
  /\ UNCHANGED <<command, target, options, file, fault, build, procVars, hung, shown, row>>

\* run_in_vm: vng is started with its pipes, or cannot be.
StartVng ==
  /\ At("boot")
  /\ \/ /\ vng' = "running" /\ guest' \in {"piped", "apart"} /\ readers' = VngPipes
        /\ GoTo("vm") /\ UNCHANGED <<shown, row>>
     \/ Fails /\ UNCHANGED <<vng, guest, readers>>
  /\ UNCHANGED <<command, target, options, file, fault, build, chosen, late, early, hung>>

\* The machine ends, and vng with its status; vng dies by itself; and what a
\* dead vng has left may end.
GuestEnds ==
  /\ guest # "none"
  /\ guest' = "none"
  /\ vng' \in (IF vng = "running" THEN {"ok", "failed"} ELSE {vng})
  /\ UNCHANGED <<command, target, at, options, file, fault, build, chosen, late,
                 readers, early, hung, shown, row>>

VngDies ==
  /\ vng = "running"
  /\ vng' = "failed"
  /\ UNCHANGED <<command, target, at, options, file, fault, build, chosen, guest,
                 late, readers, early, hung, shown, row>>

Deadline ==
  /\ At("vm") /\ ~late
  /\ late' = TRUE
  /\ UNCHANGED <<command, target, at, options, file, fault, build, chosen, vng,
                 guest, readers, early, hung, shown, row>>

\* Someone could write to the pipes.
Held == vng = "running" \/ guest = "piped"

\* drain_pipe_lines runs until the end of its pipe.
PipeEnds ==
  /\ at \in {"vm", "kill", "drain"} /\ ~Held
  /\ \E pipe \in readers : readers' = readers \ {pipe}
  /\ UNCHANGED <<command, target, at, options, file, fault, build, chosen, vng,
                 guest, late, early, hung, shown, row>>

\* Or up to a line that is no UTF-8, or an error; and its end of the pipe is
\* closed.
LineRefused ==
  /\ at \in {"vm", "kill", "drain"} /\ Held
  /\ \E pipe \in readers : readers' = readers \ {pipe} /\ early' = early \union {pipe}
  /\ UNCHANGED <<command, target, at, options, file, fault, build, chosen, vng,
                 guest, late, hung, shown, row>>

\* The child is polled before the timer.
VngWaited ==
  /\ At("vm") /\ vng \in {"ok", "failed"}
  /\ GoTo("drain")
  /\ UNCHANGED <<command, target, options, file, fault, build, chosen, procVars,
                 hung, shown, row>>

\* It cannot be waited for, and the child is dropped with the task, which kills it.
WaitFails ==
  /\ At("vm")
  /\ vng' = IF vng = "running" THEN "killed" ELSE vng
  /\ Fails
  /\ UNCHANGED <<command, target, options, file, fault, build, chosen, guest, late,
                 readers, early, hung>>

\* The wait is over without a status.
VngTimesOut ==
  /\ At("vm") /\ late /\ vng = "running"
  /\ GoTo("kill")
  /\ UNCHANGED <<command, target, options, file, fault, build, chosen, procVars,
                 hung, shown, row>>

\* Mutation: the kill is mistaken for a status of the child's own.
KillVngUnmarked ==
  /\ At("kill")
  /\ vng' = IF vng = "running" THEN "killed" ELSE vng
  /\ GoTo("drain")
  /\ UNCHANGED <<command, target, options, file, fault, build, chosen, guest, late,
                 readers, early, hung, shown, row>>

\* Mutation: the wait is given up without the kill.
VngGivenUp ==
  /\ At("kill")
  /\ hung' = TRUE
  /\ GoTo("drain")
  /\ UNCHANGED <<command, target, options, file, fault, build, chosen, procVars,
                 shown, row>>

\* SIGKILL for the child alone, and at most five seconds for its end.  By now
\* it may have ended by itself; its status is not asked for.
KillVng ==
  /\ At("kill")
  /\ vng' = IF vng = "running" THEN "killed" ELSE vng
  /\ hung' = TRUE
  /\ GoTo("drain")
  /\ UNCHANGED <<command, target, options, file, fault, build, chosen, guest, late,
                 readers, early, shown, row>>

\* Mutation: the captured output is not awaited.
DrainedAtOnce ==
  /\ At("drain")
  /\ GoTo("review")
  /\ UNCHANGED <<command, target, options, file, fault, build, chosen, procVars,
                 hung, shown, row>>

\* Both readers have ended.
Drained ==
  /\ At("drain") /\ readers = {}
  /\ GoTo("review")
  /\ UNCHANGED <<command, target, options, file, fault, build, chosen, procVars,
                 hung, shown, row>>

BootStatus ==
  CASE hung -> "timed_out"
    [] ~hung /\ vng = "ok" -> "ok"
    [] OTHER -> "failed"

\* The model's findings come after the one for a system that hung.
ReviewRunOutput ==
  /\ At("review")
  /\ \E findings \in Reported :
       Return((IF hung THEN <<SystemHung>> ELSE <<>>) \o findings, BootStatus)
  /\ UNCHANGED <<command, target, options, file, fault, build, chosen, procVars, hung>>

-----------------------------------------------------------------------------
Ended == at \in {"returned", "failed", "aborted"}

\* Ctrl-C drops the task where it awaits, and with it the fragment, and the
\* child is killed but not waited for.
Cancel ==
  /\ MayCancel
  /\ at \in {"plan", "kconfig", "triage", "pick", "vm", "drain", "review"}
  /\ at = "kconfig" => target = "commit"
  /\ GoTo("aborted")
  /\ vng' = IF vng = "running" THEN "killed" ELSE vng
  /\ UNCHANGED <<command, target, options, file, fault, build, chosen, guest, late,
                 readers, early, hung, shown, row>>

Task ==
  \/ Plan \/ RangeRefused \/ CommitFragment \/ ConfigFragment \/ Built \/ Triage
  \/ PickCommand \/ StartVng \/ VngWaited \/ WaitFails \/ VngTimesOut \/ KillVng
  \/ PipeEnds \/ Drained \/ ReviewRunOutput

KernelNext ==
  Task \/ Build \/ GuestEnds \/ VngDies \/ LineRefused \/ Deadline \/ Cancel

KernelSpec == KernelInit /\ [][KernelNext]_kernelVars

\* The task goes on, and its models answer or fail; nothing makes vng -b end, or
\* the machine, or what a dead vng has left behind.
FairKernelSpec ==
  KernelSpec /\ WF_kernelVars(Task) /\ WF_kernelVars(Deadline)

-----------------------------------------------------------------------------
(* Properties                                                              *)

\* The row says what was run.  If vng has been killed, the status is that the
\* system hung, and there is a Critical finding of it, whatever the model says
\* of the output or fails to say; this is said of no machine but one that has
\* outlived its deadline (though it may end by itself before it is killed); a
\* test that is said to be ok has ended by itself, with success.  The options
\* are the lines that vng -b was given, unless their stage has an error; and
\* the snapshot has the same findings.
RowTellsTest ==
  row # None =>
    /\ row.findings = shown
    /\ vng = "killed" => row.boot = "timed_out"
    /\ row.boot = "timed_out" =>
         late /\ row.findings # <<>> /\ Head(row.findings) = SystemHung
    /\ row.boot = "ok" => vng = "ok"
    /\ row.boot \in {"ok", "failed", "timed_out"} => row.build = "ok" /\ vng # "running"
    /\ row.options # <<>> => file = "dropped" \/ fault

\* While vng -b may read the fragment the file is there.  And when the row is
\* returned, vng has ended and so has all that could write to its pipes, unless
\* both readers have left them before: what has pipes of its own, or writes to
\* pipes that no one reads any more, may still be at work in the worktree.
WorktreeQuiet ==
  /\ at \in {"build", "built"} /\ options # <<>> => file = "there" \/ fault
  /\ at = "returned" => vng # "running" /\ (guest = "piped" => early = VngPipes)

\* A test ends, though the machine hangs: its deadline sees to that.  What it
\* may wait for in vain is vng -b, and the end of a process that has outlived
\* vng with its pipes.
TestEnds ==
  <>Ended \/ <>[]At("build") \/ <>[](At("drain") /\ vng # "running" /\ guest = "piped")
=============================================================================
