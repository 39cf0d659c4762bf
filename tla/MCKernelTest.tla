----------------------------- MODULE MCKernelTest -----------------------------
(* Instance of KernelTest for TLC.                                            *)
EXTENDS KernelTest

Option(symbol, value) == [symbol |-> symbol, value |-> value]

\* The kselftests of "net", of "net/forwarding" and of "sched_ext".
MCConfigFiles ==
  <<[dir |-> <<"net">>, lines |-> <<Option("NET", "y"), Option("NET", "junk")>>],
    [dir |-> <<"net", "forwarding">>, lines |-> <<Option("BRIDGE", "m"), Option("NET", "y")>>],
    [dir |-> <<"sched_ext">>, lines |-> <<Option("BPF", "y")>>]>>

MCConfigArgs == {Option("NR_CPUS", "other"), Option("NET", "none"), Option("NET", "junk")}
MCModelLists == {<<>>, <<Option("NET", "y"), Option("NET", "unset"), Option("BPF", "junk")>>}
MCChangedDirs == {<<"net", "forwarding">>}
MCAreaSets == {{}, {<<"sched_ext">>, <<"none", "such">>}}
MCFindingLists == {<<>>, <<[problem |-> "splat", severity |-> "High"]>>}
===============================================================================
