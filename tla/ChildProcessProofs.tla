------------------------- MODULE ChildProcessProofs -------------------------
(***************************************************************************)
(* Theorems about the two kinds of child process that boro starts with a   *)
(* deadline: the agent of a subprocess backend, for every prompt, pipe and *)
(* output size, and the virtual machine of a boot test (KernelTest), for   *)
(* all that a model may answer.  The invariant of each says where the      *)
(* child can be at each point of its caller.                               *)
(***************************************************************************)
EXTENDS AgentCli, KernelTest, Sequences, SequencesExt, TLAPS

-----------------------------------------------------------------------------
(* The agent.                                                              *)

\* The mutex is the watchdog's from its lock to its kill, and the status is
\* what reaping has left.
LockInv ==
  /\ lock <=> watchdog \in {"check", "flag", "kill"}
  /\ status # "none" <=> agent = "reaped"
  /\ watchdog \in {"flag", "kill"} => status = "none"

\* The flag is raised before the kill and never without one under way.
FlagInv ==
  /\ watchdog \in {"off", "armed", "check", "flag"} => ~timedOut
  /\ watchdog = "kill" => timedOut
  /\ agent = "killed" => timedOut /\ watchdog = "done"
  /\ status = "killed" => timedOut

\* A killed agent is reported as a timeout.
KilledInv ==
  status = "killed" /\ caller \in {"drop", "join", "returned"} => result = "timeout"

\* Only the caller's own poll reaps a killed agent, and then it asks the flag.
CallInv ==
  /\ caller = "write" => watchdog = "off"
  /\ caller \in {"joinDrain", "flag"} => status # "none"
  /\ status = "killed" =>
       caller \in {"joinDrain", "flag", "drop", "join", "returned"}
  /\ KilledInv

\* The call has no result before the flag is asked, gives an answer or a
\* timeout only with a status in hand, and returns after the watchdog's end.
ReturnInv ==
  /\ caller \notin {"drop", "join", "returned"} => result = "none"
  /\ result \in {"answer", "timeout"} => status # "none"
  /\ caller = "returned" => watchdog \in {"off", "done"}

AgentInv == TypeOK /\ LockInv /\ FlagInv /\ CallInv /\ ReturnInv

\* Before the call nothing runs, so that the invariant holds.
LEMMA InitInv == Init => AgentInv
<1> SUFFICES ASSUME Init PROVE AgentInv
  OBVIOUS
<1> USE DEF Init
<1>1. TypeOK
  <2>1. pipe \in [Pipes -> 0..PipeSize]
    BY AgentAssumption
  <2>2. unsent \in 0..PromptSize /\ written \in 0..OutputMax
    BY AgentAssumption
  <2> QED
    BY <2>1, <2>2 DEF TypeOK
<1>2. LockInv /\ FlagInv
  BY DEF LockInv, FlagInv
<1>3. CallInv /\ ReturnInv
  BY DEF CallInv, KilledInv, ReturnInv
<1> QED
  BY <1>1, <1>2, <1>3 DEF AgentInv

\* Every step keeps the types.
LEMMA TypeStep == TypeOK /\ [Next]_vars => TypeOK'
<1> SUFFICES ASSUME TypeOK, [Next]_vars PROVE TypeOK'
  OBVIOUS
<1> USE AgentAssumption DEF TypeOK, Pipes
<1>1. CASE Caller
  <2>1. CASE WritePrompt
    BY <2>1 DEF WritePrompt, agentVars, dogVars
  <2>2. CASE WriteFails
    BY <2>2 DEF WriteFails, agentVars, dogVars
  <2>3. CASE StartThreads
    BY <2>3 DEF StartThreads, agentVars
  <2>4. CASE ReadOutput
    BY <2>4 DEF ReadOutput, callVars, agentVars, dogVars
  <2>5. CASE ReadFails
    BY <2>5 DEF ReadFails, agentVars, dogVars
  <2>6. CASE EndOfOutput
    BY <2>6 DEF EndOfOutput, agentVars, dogVars
  <2>7. CASE PollChild
    BY <2>7 DEF PollChild, TryWait, Zombie, dogVars
  <2>8. CASE JoinDrain
    BY <2>8 DEF JoinDrain, agentVars, dogVars
  <2>9. CASE CheckFlag
    BY <2>9 DEF CheckFlag, agentVars, dogVars
  <2>10. CASE DropGuard
    BY <2>10 DEF DropGuard, agentVars, dogVars
  <2>11. CASE JoinWatchdog
    BY <2>11 DEF JoinWatchdog, agentVars, dogVars
  <2> QED
    BY <1>1, <2>1, <2>2, <2>3, <2>4, <2>5, <2>6, <2>7, <2>8, <2>9, <2>10, <2>11 DEF Caller
<1>2. CASE DrainStderr
  BY <1>2 DEF DrainStderr, callVars, agentVars, dogVars
<1>3. CASE Watchdog
  <2>1. CASE WatchdogDone
    BY <2>1 DEF WatchdogDone, callVars, agentVars
  <2>2. CASE WatchdogLock
    BY <2>2 DEF WatchdogLock, callVars, agentVars
  <2>3. CASE WatchdogCheck
    <3>1. lock' \in BOOLEAN /\ timedOut' \in BOOLEAN
      BY <2>3 DEF WatchdogCheck
    <3>2. helper' \in BOOLEAN /\ doneSent' \in BOOLEAN
      BY <2>3 DEF WatchdogCheck, callVars
    <3> QED
      BY <2>3, <3>1, <3>2 DEF WatchdogCheck, TryWait, Zombie, callVars
  <2>4. CASE WatchdogFlag
    BY <2>4 DEF WatchdogFlag, callVars, agentVars
  <2>5. CASE WatchdogKill
    <3>1. lock' \in BOOLEAN /\ timedOut' \in BOOLEAN
      BY <2>5 DEF WatchdogKill
    <3>2. helper' \in BOOLEAN /\ doneSent' \in BOOLEAN
      BY <2>5 DEF WatchdogKill, callVars
    <3> QED
      BY <2>5, <3>1, <3>2 DEF WatchdogKill, callVars
  <2> QED
    BY <1>3, <2>1, <2>2, <2>3, <2>4, <2>5 DEF Watchdog
<1>4. CASE Agent
  <2>1. CASE AgentReads
    BY <2>1 DEF AgentReads, callVars, agentVars, dogVars
  <2>2. CASE AgentWrites
    BY <2>2 DEF AgentWrites, callVars, dogVars
  <2>3. CASE AgentStartsHelper
    BY <2>3 DEF AgentStartsHelper, callVars, dogVars
  <2>4. CASE HelperEnds
    <3>1. helper' \in BOOLEAN /\ lock' \in BOOLEAN
      BY <2>4 DEF HelperEnds, dogVars
    <3>2. timedOut' \in BOOLEAN /\ doneSent' \in BOOLEAN
      BY <2>4 DEF HelperEnds, callVars, dogVars
    <3> QED
      BY <2>4, <3>1, <3>2 DEF HelperEnds, callVars, dogVars
  <2>5. CASE AgentExits
    BY <2>5 DEF AgentExits, callVars, dogVars
  <2> QED
    BY <1>4, <2>1, <2>2, <2>3, <2>4, <2>5 DEF Agent
<1>5. CASE UNCHANGED vars
  BY <1>5 DEF vars, callVars, agentVars, dogVars
<1> QED
  BY <1>1, <1>2, <1>3, <1>4, <1>5 DEF Next

\* Every step keeps who holds the mutex and what has been reaped.
LEMMA LockStep == TypeOK /\ LockInv /\ FlagInv /\ CallInv /\ [Next]_vars => LockInv'
<1> SUFFICES ASSUME TypeOK, LockInv, FlagInv, CallInv, [Next]_vars PROVE LockInv'
  OBVIOUS
<1> USE DEF TypeOK, LockInv
<1>1. CASE Caller
  <2>1. CASE StartThreads
    BY <2>1 DEF StartThreads, agentVars, CallInv
  <2>2. CASE PollChild
    BY <2>2 DEF PollChild, TryWait, Zombie, dogVars
  <2>3. CASE \/ WritePrompt \/ WriteFails \/ ReadOutput \/ ReadFails \/ EndOfOutput
             \/ JoinDrain \/ CheckFlag \/ DropGuard \/ JoinWatchdog
    BY <2>3 DEF WritePrompt, WriteFails, ReadOutput, ReadFails, EndOfOutput,
                JoinDrain, CheckFlag, DropGuard, JoinWatchdog, agentVars, dogVars
  <2> QED
    BY <1>1, <2>1, <2>2, <2>3 DEF Caller
<1>2. CASE DrainStderr
  BY <1>2 DEF DrainStderr, agentVars, dogVars
<1>3. CASE Watchdog
  <2>1. CASE WatchdogCheck
    BY <2>1 DEF WatchdogCheck, TryWait, Zombie
  <2>2. CASE WatchdogDone \/ WatchdogLock \/ WatchdogFlag \/ WatchdogKill
    BY <2>2 DEF WatchdogDone, WatchdogLock, WatchdogFlag, WatchdogKill, agentVars
  <2> QED
    BY <1>3, <2>1, <2>2 DEF Watchdog
<1>4. CASE Agent
  BY <1>4 DEF Agent, AgentReads, AgentWrites, AgentStartsHelper, HelperEnds,
              AgentExits, agentVars, dogVars
<1>5. CASE UNCHANGED vars
  BY <1>5 DEF vars, agentVars, dogVars
<1> QED
  BY <1>1, <1>2, <1>3, <1>4, <1>5 DEF Next

\* Every step keeps the flag ahead of the kill.
LEMMA FlagStep == TypeOK /\ LockInv /\ FlagInv /\ CallInv /\ [Next]_vars => FlagInv'
<1> SUFFICES ASSUME TypeOK, LockInv, FlagInv, CallInv, [Next]_vars PROVE FlagInv'
  OBVIOUS
<1> USE DEF TypeOK, FlagInv
<1>1. CASE Caller
  <2>1. CASE StartThreads
    BY <2>1 DEF StartThreads, agentVars, CallInv
  <2>2. CASE PollChild
    BY <2>2 DEF PollChild, TryWait, Zombie, dogVars
  <2>3. CASE \/ WritePrompt \/ WriteFails \/ ReadOutput \/ ReadFails \/ EndOfOutput
             \/ JoinDrain \/ CheckFlag \/ DropGuard \/ JoinWatchdog
    BY <2>3 DEF WritePrompt, WriteFails, ReadOutput, ReadFails, EndOfOutput,
                JoinDrain, CheckFlag, DropGuard, JoinWatchdog, agentVars, dogVars
  <2> QED
    BY <1>1, <2>1, <2>2, <2>3 DEF Caller
<1>2. CASE DrainStderr
  BY <1>2 DEF DrainStderr, agentVars, dogVars
<1>3. CASE Watchdog
  <2>1. CASE WatchdogCheck
    BY <2>1 DEF WatchdogCheck, TryWait, Zombie
  <2>2. CASE WatchdogDone \/ WatchdogLock \/ WatchdogFlag
    BY <2>2 DEF WatchdogDone, WatchdogLock, WatchdogFlag, agentVars
  <2>3. CASE WatchdogKill
    BY <2>3 DEF WatchdogKill
  <2> QED
    BY <1>3, <2>1, <2>2, <2>3 DEF Watchdog
<1>4. CASE Agent
  BY <1>4 DEF Agent, AgentReads, AgentWrites, AgentStartsHelper, HelperEnds,
              AgentExits, agentVars, dogVars
<1>5. CASE UNCHANGED vars
  BY <1>5 DEF vars, agentVars, dogVars
<1> QED
  BY <1>1, <1>2, <1>3, <1>4, <1>5 DEF Next

\* Every step keeps the caller's view of a killed agent.
LEMMA CallStep == TypeOK /\ LockInv /\ FlagInv /\ CallInv /\ [Next]_vars => CallInv'
<1> SUFFICES ASSUME TypeOK, LockInv, FlagInv, CallInv, [Next]_vars PROVE CallInv'
  OBVIOUS
<1> USE DEF TypeOK, CallInv, KilledInv
<1>1. CASE Caller
  <2>1. CASE WritePrompt \/ WriteFails \/ StartThreads
    BY <2>1 DEF WritePrompt, WriteFails, StartThreads, agentVars, dogVars, LockInv
  <2>2. CASE ReadOutput \/ ReadFails \/ EndOfOutput
    BY <2>2 DEF ReadOutput, ReadFails, EndOfOutput, callVars, agentVars, dogVars
  <2>3. CASE PollChild
    BY <2>3 DEF PollChild, TryWait, Zombie, dogVars, LockInv
  <2>4. CASE CheckFlag
    BY <2>4 DEF CheckFlag, agentVars, dogVars, FlagInv
  <2>5. CASE JoinDrain \/ DropGuard \/ JoinWatchdog
    BY <2>5 DEF JoinDrain, DropGuard, JoinWatchdog, agentVars, dogVars
  <2> QED
    BY <1>1, <2>1, <2>2, <2>3, <2>4, <2>5 DEF Caller
<1>2. CASE DrainStderr
  BY <1>2 DEF DrainStderr, callVars, agentVars, dogVars
<1>3. CASE Watchdog
  <2>1. CASE WatchdogCheck
    BY <2>1 DEF WatchdogCheck, TryWait, Zombie, callVars, FlagInv
  <2>2. CASE WatchdogDone \/ WatchdogLock \/ WatchdogFlag \/ WatchdogKill
    BY <2>2 DEF WatchdogDone, WatchdogLock, WatchdogFlag, WatchdogKill, callVars, agentVars
  <2> QED
    BY <1>3, <2>1, <2>2 DEF Watchdog
<1>4. CASE Agent
  BY <1>4 DEF Agent, AgentReads, AgentWrites, AgentStartsHelper, HelperEnds,
              AgentExits, callVars, agentVars, dogVars
<1>5. CASE UNCHANGED vars
  BY <1>5 DEF vars, callVars, agentVars, dogVars
<1> QED
  BY <1>1, <1>2, <1>3, <1>4, <1>5 DEF Next

\* Every step keeps what a result and a return stand for.
LEMMA ReturnStep ==
  TypeOK /\ LockInv /\ CallInv /\ ReturnInv /\ [Next]_vars => ReturnInv'
<1> SUFFICES ASSUME TypeOK, LockInv, CallInv, ReturnInv, [Next]_vars
             PROVE ReturnInv'
  OBVIOUS
<1> USE DEF TypeOK, ReturnInv
<1>1. CASE Caller
  <2>1. CASE WritePrompt \/ WriteFails \/ StartThreads
    BY <2>1 DEF WritePrompt, WriteFails, StartThreads, agentVars, dogVars, CallInv
  <2>2. CASE ReadOutput \/ ReadFails \/ EndOfOutput
    BY <2>2 DEF ReadOutput, ReadFails, EndOfOutput, callVars, agentVars, dogVars
  <2>3. CASE PollChild
    BY <2>3 DEF PollChild, TryWait, Zombie, dogVars
  <2>4. CASE CheckFlag
    BY <2>4 DEF CheckFlag, agentVars, dogVars, CallInv
  <2>5. CASE JoinDrain \/ DropGuard \/ JoinWatchdog
    BY <2>5 DEF JoinDrain, DropGuard, JoinWatchdog, agentVars, dogVars
  <2> QED
    BY <1>1, <2>1, <2>2, <2>3, <2>4, <2>5 DEF Caller
<1>2. CASE DrainStderr
  BY <1>2 DEF DrainStderr, callVars, agentVars, dogVars
<1>3. CASE Watchdog
  <2>1. CASE WatchdogCheck
    BY <2>1 DEF WatchdogCheck, TryWait, Zombie, callVars
  <2>2. CASE WatchdogDone \/ WatchdogLock \/ WatchdogFlag \/ WatchdogKill
    BY <2>2 DEF WatchdogDone, WatchdogLock, WatchdogFlag, WatchdogKill, callVars, agentVars
  <2> QED
    BY <1>3, <2>1, <2>2 DEF Watchdog
<1>4. CASE Agent
  BY <1>4 DEF Agent, AgentReads, AgentWrites, AgentStartsHelper, HelperEnds,
              AgentExits, callVars, agentVars, dogVars
<1>5. CASE UNCHANGED vars
  BY <1>5 DEF vars, callVars, agentVars, dogVars
<1> QED
  BY <1>1, <1>2, <1>3, <1>4, <1>5 DEF Next

\* The parts of the invariant are kept together.
LEMMA InvStep == AgentInv /\ [Next]_vars => AgentInv'
  BY TypeStep, LockStep, FlagStep, CallStep, ReturnStep DEF AgentInv

\* The invariant holds of every behaviour.
THEOREM AgentInvariant == Spec => []AgentInv
  BY InitInv, InvStep, PTL DEF Spec

\* An agent killed by the watchdog is reported as a timeout, in every
\* interleaving of the caller, the watchdog and the agent's own exit; and when
\* the call returns its watchdog thread has ended, and an answer or a timeout
\* is only returned of an agent that has been reaped.
THEOREM CallIsSettled == Spec => []CallSettled
<1>1. AgentInv => CallSettled
  BY DEF AgentInv, CallInv, KilledInv, ReturnInv, LockInv, CallSettled
<1> QED
  BY AgentInvariant, <1>1, PTL

\* Once an exit status is collected no step raises the flag or signals the pid.
THEOREM FlagSettles == Spec => NoLateTimeout
<1>1. AgentInv /\ [Next]_vars =>
        [status # "none" => timedOut' = timedOut /\ agent' = agent]_vars
  <2> SUFFICES ASSUME AgentInv, Next, status # "none"
               PROVE timedOut' = timedOut /\ agent' = agent
    OBVIOUS
  <2>0. agent = "reaped" /\ watchdog \notin {"flag", "kill"}
    BY DEF AgentInv, LockInv
  <2>1. CASE Caller
    BY <2>0, <2>1 DEF Caller, WritePrompt, WriteFails, StartThreads, ReadOutput, ReadFails,
      EndOfOutput, PollChild, TryWait, Zombie, JoinDrain, CheckFlag, DropGuard,
      JoinWatchdog, agentVars, dogVars
  <2>2. CASE DrainStderr
    BY <2>2 DEF DrainStderr, agentVars, dogVars
  <2>3. CASE Watchdog
    BY <2>0, <2>3 DEF Watchdog, WatchdogDone, WatchdogLock, WatchdogCheck, TryWait, Zombie,
      WatchdogFlag, WatchdogKill, agentVars
  <2>4. CASE Agent
    BY <2>0, <2>4 DEF Agent, AgentReads, AgentWrites, AgentStartsHelper, HelperEnds,
      AgentExits, agentVars, dogVars
  <2> QED
    BY <2>1, <2>2, <2>3, <2>4 DEF Next
<1> QED
  BY AgentInvariant, <1>1, PTL DEF Spec, NoLateTimeout

-----------------------------------------------------------------------------
(* The machine of a boot test.                                             *)

BeforeBoot == {"plan", "kconfig", "build", "built", "triage", "pick", "boot"}

\* Until the machine is started there is none.  While it is waited for it has
\* not been killed; then it has ended by itself, or the wait was given up, which
\* is noted.  A pipe is read until nobody is left who could write to it, or has
\* been left early, so at the end both have been left or nobody has them.
MachineInv ==
  /\ at \in BeforeBoot \union {"vm", "kill", "drain", "review", "returned", "failed", "aborted"}
  /\ at \in BeforeBoot => vng = "none" /\ guest = "none" /\ ~hung /\ readers = {} /\ early = {}
  /\ at = "vm" => vng \in {"running", "ok", "failed"} /\ ~hung
  /\ at = "kill" => vng \in {"running", "ok", "failed"} /\ late
  /\ at \in {"drain", "review"} =>
       (vng \in {"ok", "failed"} /\ ~hung) \/ (vng \in {"ok", "failed", "killed"} /\ hung /\ late)
  /\ readers \subseteq VngPipes /\ early \subseteq VngPipes
  /\ at \in {"vm", "kill", "drain"} /\ Held => VngPipes \subseteq readers \union early
  /\ at \in {"review", "returned"} => vng # "running" /\ (guest = "piped" => early = VngPipes)

\* The fragment is there for the build, is dropped after it, and a machine is
\* only started with a kernel that was built.
BuildInv ==
  /\ at \in {"plan", "kconfig"} => options = <<>>
  /\ at \in {"build", "built"} /\ options # <<>> => file = "there" \/ fault
  /\ at \in {"triage", "pick", "boot", "vm", "kill", "drain", "review"} /\ options # <<>> =>
       file = "dropped" \/ fault
  /\ at \in {"pick", "boot", "vm", "kill", "drain", "review"} => build = "ok"

\* There is a row exactly where the task has returned one.
RowInv ==
  /\ row # None => at = "returned"
  /\ RowTellsTest

BootInv == MachineInv /\ BuildInv /\ RowInv

\* The machine is nowhere before the test, and there is no row.
LEMMA BootInit == KernelInit => BootInv
  BY DEF KernelInit, BootInv, MachineInv, BuildInv, RowInv, RowTellsTest, BeforeBoot

\* Every step keeps what is known of the machine.
LEMMA MachineStep == MachineInv /\ [KernelNext]_kernelVars => MachineInv'
<1> SUFFICES ASSUME MachineInv, [KernelNext]_kernelVars PROVE MachineInv'
  OBVIOUS
<1> USE DEF MachineInv, BeforeBoot, At, GoTo, Return, Fails, procVars, Held
<1>1. CASE Plan BY <1>1 DEF Plan
<1>2. CASE RangeRefused BY <1>2 DEF RangeRefused
<1>3. CASE CommitFragment BY <1>3 DEF CommitFragment, WriteFragment
<1>4. CASE ConfigFragment BY <1>4 DEF ConfigFragment, WriteFragment
<1>5. CASE Build BY <1>5 DEF Build
<1>6. CASE Built BY <1>6 DEF Built
<1>7. CASE Triage BY <1>7 DEF Triage
<1>8. CASE PickCommand BY <1>8 DEF PickCommand
<1>9. CASE StartVng BY <1>9 DEF StartVng
<1>10. CASE VngWaited BY <1>10 DEF VngWaited
<1>11. CASE VngTimesOut BY <1>11 DEF VngTimesOut
<1>12. CASE Drained BY <1>12 DEF Drained
<1>13. CASE ReviewRunOutput BY <1>13 DEF ReviewRunOutput
<1>14. CASE GuestEnds BY <1>14 DEF GuestEnds
<1>15. CASE VngDies BY <1>15 DEF VngDies
<1>16. CASE Deadline BY <1>16 DEF Deadline
<1>17. CASE Cancel BY <1>17 DEF Cancel
<1>18. CASE WaitFails BY <1>18 DEF WaitFails
<1>19. CASE KillVng BY <1>19 DEF KillVng
<1>20. CASE PipeEnds BY <1>20 DEF PipeEnds
<1>21. CASE LineRefused
  <2>1. PICK p \in readers : readers' = readers \ {p} /\ early' = early \union {p}
    BY <1>21 DEF LineRefused
  <2>2. /\ at \in {"vm", "kill", "drain"} /\ UNCHANGED <<at, vng, guest, late, hung>>
         /\ p \in VngPipes
    BY <1>21, <2>1 DEF LineRefused
  <2> QED
    BY <2>1, <2>2
<1>22. CASE UNCHANGED kernelVars BY <1>22 DEF kernelVars
<1> QED
  BY <1>1, <1>2, <1>3, <1>4, <1>5, <1>6, <1>7, <1>8, <1>9, <1>10, <1>11, <1>12,
     <1>13, <1>14, <1>15, <1>16, <1>17, <1>18, <1>19, <1>20, <1>21, <1>22
     DEF KernelNext, Task

\* Every step keeps what is known of the fragment and the build.
LEMMA BuildStep == BuildInv /\ [KernelNext]_kernelVars => BuildInv'
<1> SUFFICES ASSUME BuildInv, [KernelNext]_kernelVars PROVE BuildInv'
  OBVIOUS
<1> USE DEF BuildInv, At, GoTo, Return, Fails, procVars
<1>1. CASE Plan BY <1>1 DEF Plan
<1>2. CASE RangeRefused BY <1>2 DEF RangeRefused
<1>3. CASE CommitFragment BY <1>3 DEF CommitFragment, WriteFragment
<1>4. CASE ConfigFragment BY <1>4 DEF ConfigFragment, WriteFragment
<1>5. CASE Build BY <1>5 DEF Build
<1>6. CASE Built BY <1>6 DEF Built
<1>7. CASE Triage BY <1>7 DEF Triage
<1>8. CASE PickCommand BY <1>8 DEF PickCommand
<1>9. CASE StartVng BY <1>9 DEF StartVng
<1>10. CASE VngWaited BY <1>10 DEF VngWaited
<1>11. CASE VngTimesOut BY <1>11 DEF VngTimesOut
<1>12. CASE Drained BY <1>12 DEF Drained
<1>13. CASE ReviewRunOutput BY <1>13 DEF ReviewRunOutput
<1>14. CASE GuestEnds BY <1>14 DEF GuestEnds
<1>15. CASE VngDies BY <1>15 DEF VngDies
<1>16. CASE Deadline BY <1>16 DEF Deadline
<1>17. CASE Cancel BY <1>17 DEF Cancel
<1>18. CASE WaitFails BY <1>18 DEF WaitFails
<1>19. CASE KillVng BY <1>19 DEF KillVng
<1>20. CASE PipeEnds BY <1>20 DEF PipeEnds
<1>21. CASE LineRefused BY <1>21 DEF LineRefused
<1>22. CASE UNCHANGED kernelVars BY <1>22 DEF kernelVars
<1> QED
  BY <1>1, <1>2, <1>3, <1>4, <1>5, <1>6, <1>7, <1>8, <1>9, <1>10, <1>11, <1>12,
     <1>13, <1>14, <1>15, <1>16, <1>17, <1>18, <1>19, <1>20, <1>21, <1>22
     DEF KernelNext, Task

\* What the model reports is a list.
LEMMA ReportedList ==
  ASSUME NEW findings \in Reported
  PROVE  \E S : findings \in Seq(S)
<1>1. CASE findings \in FindingLists
  BY <1>1, KernelTestAssumption
<1>2. CASE findings = <<>>
  <2>1. findings \in Seq({})
    BY <1>2
  <2> QED
    BY <2>1
<1>3. CASE findings = <<Unparsed>>
  <2>1. findings \in Seq({Unparsed})
    BY <1>3
  <2> QED
    BY <2>1
<1> QED
  BY <1>1, <1>2, <1>3 DEF Reported

\* A machine that hung is the first of the row's findings.
LEMMA ReviewedRow ==
  ASSUME MachineInv, BuildInv, row = None, ReviewRunOutput
  PROVE  RowTellsTest'
<1>1. at = "review"
  BY DEF ReviewRunOutput, At
<1>2. /\ \/ vng \in {"ok", "failed"} /\ ~hung
         \/ vng \in {"ok", "failed", "killed"} /\ hung /\ late
      /\ build = "ok"
      /\ options # <<>> => file = "dropped" \/ fault
  BY <1>1 DEF MachineInv, BuildInv
<1>3. PICK findings \in Reported :
        Return((IF hung THEN <<SystemHung>> ELSE <<>>) \o findings, BootStatus)
  BY DEF ReviewRunOutput
<1>4. PICK S : findings \in Seq(S)
  BY ReportedList
<1>5. UNCHANGED <<command, target, options, file, fault, build, chosen, vng, late, hung>>
  BY DEF ReviewRunOutput, procVars
<1> DEFINE all == (IF hung THEN <<SystemHung>> ELSE <<>>) \o findings
<1>6. hung => all # <<>> /\ Head(all) = SystemHung
  <2> SUFFICES ASSUME hung PROVE all # <<>> /\ Head(all) = SystemHung
    OBVIOUS
  <2> DEFINE T == S \union {SystemHung}
  <2>1. findings \in Seq(T) /\ <<SystemHung>> \in Seq(T)
    BY <1>4
  <2>2. all = <<SystemHung>> \o findings
    OBVIOUS
  <2> HIDE DEF T, all
  <2> QED
    BY <2>1, <2>2
<1>7. BootStatus = IF hung THEN "timed_out" ELSE IF vng = "ok" THEN "ok" ELSE "failed"
  BY <1>2 DEF BootStatus
<1> HIDE DEF all
<1>8. /\ shown' = all
      /\ row' = [findings |-> all, build |-> build, boot |-> BootStatus,
                 options |-> options]
  BY <1>3 DEF Return, all
<1> QED
  BY <1>2, <1>5, <1>6, <1>7, <1>8 DEF RowTellsTest

\* Every step keeps what is known of the row.
LEMMA RowStep == BootInv /\ [KernelNext]_kernelVars => RowInv'
<1> SUFFICES ASSUME MachineInv, BuildInv, RowInv, [KernelNext]_kernelVars PROVE RowInv'
  BY DEF BootInv
<1>1. CASE UNCHANGED <<at, options, file, fault, build, vng, late, hung, shown, row>>
  BY <1>1 DEF RowInv, RowTellsTest
<1>2. CASE row' = None
  BY <1>2 DEF RowInv, RowTellsTest
<1>3. CASE at = "returned"
  <2>1. vng # "running"
    BY <1>3 DEF MachineInv
  <2>2. UNCHANGED <<at, options, file, fault, build, vng, late, hung, shown, row>>
    BY <1>3, <2>1 DEF KernelNext, Task, Plan, RangeRefused, CommitFragment,
      ConfigFragment, Build, Built, Triage, PickCommand,
      StartVng, VngWaited, WaitFails, VngTimesOut, KillVng, PipeEnds, LineRefused, Drained,
      ReviewRunOutput, GuestEnds, VngDies, Deadline, Cancel,
      At, kernelVars, procVars
  <2> QED
    BY <1>1, <2>2
<1>4. CASE at # "returned"
  <2>0. row = None
    BY <1>4 DEF RowInv
  <2>1. CASE Plan
    <3>1. /\ vng' = "none" /\ options' = <<>> /\ at' = "returned" /\ shown' = <<>>
          /\ row' = [findings |-> <<>>, build |-> build, boot |-> "planned", options |-> <<>>]
      BY <2>1 DEF Plan, At, Return, GoTo, procVars,
                  MachineInv, BuildInv, BeforeBoot
    <3> QED
      BY <3>1 DEF RowInv, RowTellsTest
  <2>2. CASE Built
    <3>1. CASE row' = row
      BY <1>2, <2>0, <3>1
    <3>2. CASE row' # row
      <4>1. /\ vng' = "none" /\ at' = "returned" /\ shown' = <<BuildFailed>>
            /\ options' # <<>> => file' = "dropped" \/ fault'
        BY <2>2, <3>2 DEF Built, At, Return, GoTo, procVars,
                    MachineInv, BuildInv, BeforeBoot
      <4>2. row' = [findings |-> <<BuildFailed>>, build |-> build, boot |-> "skipped",
                    options |-> options]
        BY <2>2, <3>2 DEF Built, Return
      <4>3. options' = options
        BY <2>2 DEF Built
      <4> QED
        BY <4>1, <4>2, <4>3 DEF RowInv, RowTellsTest
    <3> QED
      BY <3>1, <3>2
  <2>3. CASE Triage
    <3>1. PICK findings \in Reported : Return(findings, None)
      BY <2>3 DEF Triage
    <3>2. /\ vng' = "none" /\ options' = options /\ at' = "returned"
          /\ options' # <<>> => file' = "dropped" \/ fault'
      BY <2>3 DEF Triage, At, Return, GoTo, procVars,
                  MachineInv, BuildInv, BeforeBoot
    <3>3. /\ shown' = findings
          /\ row' = [findings |-> findings, build |-> build, boot |-> None,
                     options |-> options]
      BY <3>1 DEF Return
    <3> QED
      BY <3>2, <3>3, KernelTestAssumption DEF RowInv, RowTellsTest
  <2>4. CASE ReviewRunOutput
    <3>1. RowTellsTest'
      BY <2>0, <2>4, ReviewedRow
    <3>2. at' = "returned"
      BY <2>4 DEF ReviewRunOutput, Return, GoTo
    <3> QED
      BY <3>1, <3>2 DEF RowInv
  <2>5. CASE row' = row
    BY <1>2, <2>0, <2>5
  <2>6. \/ Plan \/ Built \/ Triage \/ ReviewRunOutput \/ row' = row
    BY DEF KernelNext, Task, RangeRefused, CommitFragment,
      ConfigFragment, WriteFragment, Build, PickCommand,
      StartVng, VngWaited, WaitFails, VngTimesOut, KillVng, PipeEnds, LineRefused, Drained,
      GuestEnds, VngDies, Deadline, Cancel, Fails, kernelVars
  <2> QED
    BY <2>1, <2>2, <2>3, <2>4, <2>5, <2>6
<1> QED
  BY <1>3, <1>4

\* The invariant holds throughout a test.
THEOREM BootInvariant == KernelSpec => []BootInv
<1>1. BootInv /\ [KernelNext]_kernelVars => BootInv'
  BY MachineStep, BuildStep, RowStep DEF BootInv
<1> QED
  BY BootInit, <1>1, PTL DEF KernelSpec

\* The row says what was run: of a machine whose vng was killed it has a
\* Critical finding that the system hung, whatever the model says of the output,
\* and it says so of none that was not past its deadline (run_in_vm,
\* commit_test_boot).
THEOREM RowToldTest == KernelSpec => []RowTellsTest
<1>1. BootInv => RowTellsTest
  BY DEF BootInv, RowInv
<1> QED
  BY BootInvariant, <1>1, PTL

\* The fragment outlives the build that reads it, and when the row is returned
\* no process has the pipes of vng, unless both readers have left them before
\* (drain_pipe_lines): the machine may then be at work in the worktree yet, and
\* so may what has pipes of its own.
THEOREM WorktreeIsQuiet == KernelSpec => []WorktreeQuiet
<1>1. BootInv => WorktreeQuiet
  BY DEF BootInv, MachineInv, BuildInv, WorktreeQuiet
<1> QED
  BY BootInvariant, <1>1, PTL
=============================================================================
