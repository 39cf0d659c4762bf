------------------------------ MODULE AgentCli ------------------------------
(***************************************************************************)
(* One call of a subprocess backend: invoke_claude, invoke_opencode and    *)
(* invoke_codex, with the watchdog of src/model_timeout.rs.                *)
(*                                                                         *)
(* The caller writes the prompt to the agent's stdin, then starts a thread *)
(* that drains stderr and a watchdog thread, reads stdout to its end, polls *)
(* for the exit status, joins the drain thread, asks the watchdog's flag,  *)
(* and drops the guard, which joins the watchdog.  Caller and watchdog     *)
(* share the Child behind a mutex; the agent itself runs when it likes.    *)
(***************************************************************************)
EXTENDS Naturals

CONSTANTS
  PromptSize,   \* the prompt, in units of which a pipe holds PipeSize
  PipeSize,
  OutputMax,    \* bound: units the agent writes on stdout and stderr together
  HasTimeout,   \* whether the call belongs to a stage with a deadline
  AgentForks    \* whether the agent may leave a process that keeps its pipes

ASSUME AgentAssumption ==
  /\ PromptSize \in Nat
  /\ PipeSize \in Nat \ {0}
  /\ OutputMax \in Nat
  /\ HasTimeout \in BOOLEAN
  /\ AgentForks \in BOOLEAN

VARIABLES
  caller,    \* where the blocking call is
  unsent,    \* units of the prompt not yet in the pipe
  pipe,      \* units in the pipes in, out and err
  written,   \* units the agent has written so far
  agent,     \* the process: running, exited, killed (both zombies) or reaped
  helper,    \* a process of the agent that inherited stdout and stderr is alive
  status,    \* what the Child caches once some try_wait has reaped the process
  drain,     \* the thread that reads stderr
  watchdog,  \* the thread of ChildTimeoutGuard
  lock,      \* whether the watchdog holds the Child's mutex across steps
  timedOut,  \* ChildTimeoutGuard.timed_out
  doneSent,  \* the guard was dropped: done_tx has the message
  result     \* what the call returns

callVars == <<caller, unsent, result, doneSent>>
agentVars == <<agent, helper, written>>
dogVars == <<watchdog, lock, timedOut>>
vars == <<callVars, agentVars, dogVars, pipe, status, drain>>

Pipes == {"in", "out", "err"}

Init ==
  /\ caller = "write"
  /\ unsent = PromptSize
  /\ pipe = [p \in Pipes |-> 0]
  /\ written = 0
  /\ agent = "running"
  /\ helper = FALSE
  /\ status = "none"
  /\ drain = "off"
  /\ watchdog = "off"
  /\ lock = FALSE
  /\ timedOut = FALSE
  /\ doneSent = FALSE
  /\ result = "none"

Zombie == agent \in {"exited", "killed"}
OutputClosed == agent # "running" /\ ~helper

\* Child::try_wait, under the mutex: reaps a zombie and caches its status.
TryWait ==
  IF Zombie THEN /\ status' = agent
                 /\ agent' = "reaped"
            ELSE UNCHANGED <<status, agent>>

-----------------------------------------------------------------------------
(* The caller, on a blocking thread.                                       *)

\* write_all blocks on a full pipe; no thread and no watchdog exists yet.
WritePrompt ==
  /\ caller = "write" /\ unsent > 0
  /\ agent = "running" /\ pipe.in < PipeSize
  /\ unsent' = unsent - 1
  /\ pipe' = [pipe EXCEPT !.in = @ + 1]
  /\ UNCHANGED <<caller, result, doneSent, agentVars, dogVars, status, drain>>

\* The agent is gone: write_all returns EPIPE and the call returns at once.
WriteFails ==
  /\ caller = "write" /\ unsent > 0
  /\ agent # "running"
  /\ caller' = "returned"
  /\ result' = "failed"
  /\ UNCHANGED <<unsent, doneSent, agentVars, dogVars, pipe, status, drain>>

\* Mutation: the watchdog is not spawned.
StartThreadsUnwatched ==
  /\ caller = "write" /\ unsent = 0
  /\ caller' = "read"
  /\ drain' = "on"
  /\ UNCHANGED <<unsent, result, doneSent, agentVars, dogVars, pipe, status>>

\* stdin is closed, the stderr thread and the watchdog are spawned.
StartThreads ==
  /\ caller = "write" /\ unsent = 0
  /\ caller' = "read"
  /\ drain' = "on"
  /\ watchdog' = IF HasTimeout THEN "armed" ELSE "off"
  /\ UNCHANGED <<unsent, result, doneSent, agentVars, lock, timedOut, pipe, status>>

ReadOutput ==
  /\ caller = "read" /\ pipe.out > 0
  /\ pipe' = [pipe EXCEPT !.out = @ - 1]
  /\ UNCHANGED <<callVars, agentVars, dogVars, status, drain>>

\* A line that is not UTF-8: the call returns without waiting for the agent.
ReadFails ==
  /\ caller = "read" /\ pipe.out > 0
  /\ caller' = "drop"
  /\ result' = "failed"
  /\ UNCHANGED <<unsent, doneSent, agentVars, dogVars, pipe, status, drain>>

EndOfOutput ==
  /\ caller = "read" /\ pipe.out = 0 /\ OutputClosed
  /\ caller' = "poll"
  /\ UNCHANGED <<unsent, result, doneSent, agentVars, dogVars, pipe, status, drain>>

\* wait_child_poll; a poll that finds the agent running sleeps and tries again.
PollChild ==
  /\ caller = "poll" /\ ~lock
  /\ agent # "running"
  /\ TryWait
  /\ caller' = "joinDrain"
  /\ UNCHANGED <<unsent, result, doneSent, helper, written, dogVars, pipe, drain>>

JoinDrain ==
  /\ caller = "joinDrain" /\ drain = "done"
  /\ caller' = "flag"
  /\ UNCHANGED <<unsent, result, doneSent, agentVars, dogVars, pipe, status, drain>>

\* The flag wins over whatever the agent has printed.
CheckFlag ==
  /\ caller = "flag"
  /\ IF timedOut THEN result' = "timeout" ELSE result' \in {"answer", "failed"}
  /\ caller' = "drop"
  /\ UNCHANGED <<unsent, doneSent, agentVars, dogVars, pipe, status, drain>>

\* Drop for ChildTimeoutGuard: send, then join.
DropGuard ==
  /\ caller = "drop"
  /\ doneSent' = TRUE
  /\ caller' = "join"
  /\ UNCHANGED <<unsent, result, agentVars, dogVars, pipe, status, drain>>

JoinWatchdog ==
  /\ caller = "join" /\ watchdog \in {"off", "done"}
  /\ caller' = "returned"
  /\ UNCHANGED <<unsent, result, doneSent, agentVars, dogVars, pipe, status, drain>>

Caller ==
  \/ WritePrompt \/ WriteFails \/ StartThreads
  \/ ReadOutput \/ ReadFails \/ EndOfOutput
  \/ PollChild \/ JoinDrain \/ CheckFlag \/ DropGuard \/ JoinWatchdog

-----------------------------------------------------------------------------
(* The drain thread and the watchdog thread.                               *)

DrainStderr ==
  /\ drain = "on"
  /\ \/ /\ pipe.err > 0
        /\ pipe' = [pipe EXCEPT !.err = @ - 1]
        /\ UNCHANGED drain
     \/ /\ pipe.err = 0 /\ OutputClosed
        /\ drain' = "done"
        /\ UNCHANGED pipe
  /\ UNCHANGED <<callVars, agentVars, dogVars, status>>

\* recv_timeout gets the message in time.
WatchdogDone ==
  /\ watchdog = "armed" /\ doneSent
  /\ watchdog' = "done"
  /\ UNCHANGED <<lock, timedOut, callVars, agentVars, pipe, status, drain>>

\* recv_timeout has run out, and the Child's mutex is taken.
WatchdogLock ==
  /\ watchdog = "armed" /\ ~lock
  /\ watchdog' = "check"
  /\ lock' = TRUE
  /\ UNCHANGED <<timedOut, callVars, agentVars, pipe, status, drain>>

\* Mutation: the flag is raised before the try_wait.
WatchdogFlagFirst ==
  /\ watchdog = "check"
  /\ TryWait
  /\ watchdog' = "flag"
  /\ UNCHANGED <<lock, timedOut, callVars, helper, written, pipe, drain>>

\* try_wait: an agent that has ended is left alone.
WatchdogCheck ==
  /\ watchdog = "check"
  /\ TryWait
  /\ IF agent = "running"
       THEN watchdog' = "flag" /\ UNCHANGED lock
       ELSE watchdog' = "done" /\ lock' = FALSE
  /\ UNCHANGED <<timedOut, callVars, helper, written, pipe, drain>>

\* Mutation: the flag is forgotten.
WatchdogFlagForgotten ==
  /\ watchdog = "flag"
  /\ watchdog' = "kill"
  /\ UNCHANGED <<timedOut, lock, callVars, agentVars, pipe, status, drain>>

WatchdogFlag ==
  /\ watchdog = "flag"
  /\ watchdog' = "kill"
  /\ timedOut' = TRUE
  /\ UNCHANGED <<lock, callVars, agentVars, pipe, status, drain>>

\* SIGKILL to the agent's process only; no effect on one that has just exited.
WatchdogKill ==
  /\ watchdog = "kill"
  /\ watchdog' = "done"
  /\ lock' = FALSE
  /\ agent' = IF agent = "running" THEN "killed" ELSE agent
  /\ UNCHANGED <<timedOut, callVars, helper, written, pipe, status, drain>>

Watchdog == WatchdogDone \/ WatchdogLock \/ WatchdogCheck \/ WatchdogFlag \/ WatchdogKill

-----------------------------------------------------------------------------
(* The agent: an arbitrary program between its three pipes.                *)

AgentReads ==
  /\ agent = "running" /\ pipe.in > 0
  /\ pipe' = [pipe EXCEPT !.in = @ - 1]
  /\ UNCHANGED <<callVars, agentVars, dogVars, status, drain>>

AgentWrites ==
  /\ agent = "running" /\ written < OutputMax
  /\ \E p \in {"out", "err"} :
       /\ pipe[p] < PipeSize
       /\ pipe' = [pipe EXCEPT ![p] = @ + 1]
  /\ written' = written + 1
  /\ UNCHANGED <<agent, helper, callVars, dogVars, status, drain>>

AgentStartsHelper ==
  /\ AgentForks /\ agent = "running"
  /\ helper' = TRUE
  /\ UNCHANGED <<agent, written, callVars, dogVars, pipe, status, drain>>

HelperEnds ==
  /\ helper
  /\ helper' = FALSE
  /\ UNCHANGED <<agent, written, callVars, dogVars, pipe, status, drain>>

AgentExits ==
  /\ agent = "running"
  /\ agent' = "exited"
  /\ UNCHANGED <<helper, written, callVars, dogVars, pipe, status, drain>>

Agent == AgentReads \/ AgentWrites \/ AgentStartsHelper \/ HelperEnds \/ AgentExits

Next == Caller \/ DrainStderr \/ Watchdog \/ Agent

Spec == Init /\ [][Next]_vars

\* The threads of boro are scheduled; the agent may hang for ever.
FairSpec == Spec /\ WF_vars(Caller) /\ WF_vars(DrainStderr) /\ WF_vars(Watchdog)

-----------------------------------------------------------------------------
\* Types of the call's state.
TypeOK ==
  /\ caller \in {"write", "read", "poll", "joinDrain", "flag", "drop", "join",
                 "returned"}
  /\ unsent \in 0..PromptSize
  /\ pipe \in [Pipes -> 0..PipeSize]
  /\ written \in 0..OutputMax
  /\ agent \in {"running", "exited", "killed", "reaped"}
  /\ helper \in BOOLEAN
  /\ status \in {"none", "exited", "killed"}
  /\ drain \in {"off", "on", "done"}
  /\ watchdog \in {"off", "armed", "check", "flag", "kill", "done"}
  /\ lock \in BOOLEAN
  /\ timedOut \in BOOLEAN
  /\ doneSent \in BOOLEAN
  /\ result \in {"none", "answer", "failed", "timeout"}

\* A call that has waited for an agent the watchdog killed reports a timeout,
\* never an ordinary answer or failure: the flag is up before the poll can see
\* the status (ChildTimeoutGuard::spawn stores it under the Child's mutex).
\* When it returns, its watchdog thread has ended, and an answer or a timeout
\* is of an agent that has been reaped.
CallSettled ==
  /\ status = "killed" /\ caller \in {"drop", "join", "returned"} => result = "timeout"
  /\ caller = "returned" =>
       /\ watchdog \in {"off", "done"}
       /\ result \in {"answer", "timeout"} => agent = "reaped"

\* Once a status has been collected the flag no longer changes: an agent that
\* was reaped in time is never reported as timed out (the comment in
\* ChildTimeoutGuard::spawn), nor is anything killed under its old pid.
NoLateTimeout == [][status # "none" => timedOut' = timedOut /\ agent' = agent]_vars

\* Once the watchdog runs, the call returns within its deadline whatever the
\* agent does, unless a process of the agent that is never killed keeps the
\* pipes: the threads never wait for each other.
WatchedCallEnds ==
  caller \notin {"write", "returned"} ~> caller = "returned" \/ helper

\* "--timeout SECONDS sets the timeout for each model stage, including ...
\* subprocess backends": a call with a deadline returns, whatever the agent does.
TimeoutBoundsCall == <>(caller = "returned")
=============================================================================
