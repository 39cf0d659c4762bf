--------------------------- MODULE WorktreeLease ---------------------------
(***************************************************************************)
(* Per-commit git worktrees of concurrent boro processes (src/worktree.rs). *)
(*                                                                         *)
(* Every process ("run") of one subcommand owns the directory              *)
(* .boro/worktrees/<command>/<run-id>, in which each commit task adds one  *)
(* worktree.  The tasks of a run share a RunLease: an flock on a lock file *)
(* in that directory, created by the first task that needs it and dropped  *)
(* with the last Arc.  A run that starts sweeps the directories of runs    *)
(* whose lock it can take.  What the processes share is the file system;   *)
(* every system call on it is a step of its own, so that the steps of two  *)
(* tasks and of a sweeper may fall in any order.                           *)
(***************************************************************************)
EXTENDS Naturals, FiniteSets

CONSTANTS
  Runs,         \* boro processes of the same subcommand in one repository
  Commits,      \* commits of a run's range; each is one task
  Workers,      \* permits of the run's commit-task semaphore
  GitMayFail,   \* whether git worktree add / remove may fail
  Failing,      \* processes whose calls on run directories and lock files may
                \* fail for a reason of their own (disk full, no descriptor left)
  Owners,       \* bound: the processes that get to their commit tasks
  MaxCrashes,   \* bound on the processes that crash
  None

Tasks == Runs \X Commits
RunOf(t) == t[1]

ASSUME LeaseAssumption ==
  /\ Workers \in Nat \ {0}
  /\ GitMayFail \in BOOLEAN
  /\ Failing \subseteq Runs
  /\ MaxCrashes \in Nat
  /\ None \notin Tasks \cup Runs
  /\ Runs \cap Tasks = {}

VARIABLES
  run,       \* run[r]: phase of process r
  pc,        \* pc[t]: where task t is in Worktree::create or in the drops
  mutex,     \* mutex[r]: task that holds the RUN_LEASES mutex of process r
  lease,     \* lease[t]: task whose RunLease t has an Arc of
  opened,    \* opened[t]: inode behind the File that t's RunLease::create opened
  dir,       \* dir[r]: whether the run directory of r exists
  lockFile,  \* lockFile[r]: inode the name .boro-run.lock leads to
  flock,     \* flock[i]: the open file (of a task or of a sweeper) locking inode i
  trees,     \* worktrees on disk, one per task that added one
  fsError,   \* fsError[r]: whether a call on r's directory failed so far (history)
  sweep      \* sweep[s]: progress of sweep_stale in process s

diskVars == <<dir, lockFile, trees, fsError>>
vars == <<run, pc, mutex, lease, opened, dir, lockFile, flock, trees, fsError, sweep>>

\* An inode is named after the task whose open(O_CREAT) made it.
InodeOf(r) == {t \in Tasks : RunOf(t) = r}
Trees(r) == {t \in trees : RunOf(t) = r}

Idle == {"waiting", "done", "leaseError"}
Holding == {"add", "using", "remove", "unref"}       \* has an Arc<RunLease>
Dropping == {"isEmpty", "unlock", "rmLock", "rmDir"} \* in Drop for RunLease
Creating == {"mkdir", "open", "tryLock", "write"}    \* in RunLease::create

SweepDone == [at |-> "idle", queue |-> {}, dir |-> None,
              inode |-> None, todo |-> {}]

Init ==
  /\ run = [r \in Runs |-> "new"]
  /\ pc = [t \in Tasks |-> "waiting"]
  /\ mutex = [r \in Runs |-> None]
  /\ lease = [t \in Tasks |-> None]
  /\ opened = [t \in Tasks |-> None]
  /\ dir = [r \in Runs |-> FALSE]
  /\ lockFile = [r \in Runs |-> None]
  /\ flock = [i \in Tasks |-> None]
  /\ trees = {}
  /\ fsError = [r \in Runs |-> FALSE]
  /\ sweep = [r \in Runs |-> SweepDone]

-----------------------------------------------------------------------------
(* A commit task: run_lease, Worktree::create, and the two drops.          *)

Goto(t, from, to) ==
  /\ run[RunOf(t)] = "up"
  /\ pc[t] = from
  /\ pc' = [pc EXCEPT ![t] = to]
  /\ UNCHANGED <<run, sweep>>

\* The task takes a permit of the pool's semaphore and enters Worktree::create.
Begin(t) ==
  /\ RunOf(t) \in Owners
  /\ Cardinality({u \in InodeOf(RunOf(t)) : pc[u] \notin Idle}) < Workers
  /\ Goto(t, "waiting", "lease")
  /\ UNCHANGED <<mutex, lease, opened, flock, diskVars>>

\* run_lease with an Arc still alive: Weak::upgrade under the mutex.
ShareLease(t) ==
  LET r == RunOf(t) IN
  /\ mutex[r] = None
  /\ Goto(t, "lease", "add")
  /\ \E u \in InodeOf(r) :
       /\ pc[u] \in Holding
       /\ lease' = [lease EXCEPT ![t] = lease[u]]
  /\ UNCHANGED <<mutex, opened, flock, diskVars>>

\* run_lease with none alive: RunLease::create, the mutex held throughout.
NewLease(t) ==
  LET r == RunOf(t) IN
  /\ mutex[r] = None
  /\ \A u \in InodeOf(r) : pc[u] \notin Holding
  /\ Goto(t, "lease", "mkdir")
  /\ mutex' = [mutex EXCEPT ![r] = t]
  /\ UNCHANGED <<lease, opened, flock, diskVars>>

MakeRunDir(t) ==
  /\ Goto(t, "mkdir", "open")
  /\ dir' = [dir EXCEPT ![RunOf(t)] = TRUE]
  /\ UNCHANGED <<mutex, lease, opened, flock, lockFile, trees, fsError>>

\* open(O_CREAT): the inode already there, or a new one.
OpenLock(t) ==
  LET r == RunOf(t)
      inode == IF lockFile[r] = None THEN t ELSE lockFile[r]
  IN
  /\ dir[r]
  /\ Goto(t, "open", "tryLock")
  /\ lockFile' = [lockFile EXCEPT ![r] = inode]
  /\ opened' = [opened EXCEPT ![t] = inode]
  /\ UNCHANGED <<mutex, lease, flock, dir, trees, fsError>>

TryLock(t) ==
  /\ Goto(t, "tryLock", "write")
  /\ flock[opened[t]] = None
  /\ flock' = [flock EXCEPT ![opened[t]] = t]
  /\ UNCHANGED <<mutex, lease, opened, diskVars>>

\* Mutation: the mutex guard lives on after RunLease::create.
WriteLockKeepingMutex(t) ==
  /\ Goto(t, "write", "add")
  /\ lease' = [lease EXCEPT ![t] = t]
  /\ UNCHANGED <<mutex, opened, flock, diskVars>>

\* set_len and the two writeln: the lease is complete, and its Arc is shared.
WriteLock(t) ==
  /\ Goto(t, "write", "add")
  /\ lease' = [lease EXCEPT ![t] = t]
  /\ mutex' = [mutex EXCEPT ![RunOf(t)] = None]
  /\ UNCHANGED <<opened, flock, diskVars>>

\* RunLease::create returns Err: the directory vanished before the open, or
\* another open file has the lock.  The commit task ends with an error row.
LeaseFails(t) ==
  /\ \/ /\ ~dir[RunOf(t)]
        /\ Goto(t, "open", "leaseError")
     \/ /\ Goto(t, "tryLock", "leaseError")
        /\ flock[opened[t]] # None
  /\ opened' = [opened EXCEPT ![t] = None]
  /\ mutex' = [mutex EXCEPT ![RunOf(t)] = None]
  /\ UNCHANGED <<lease, flock, diskVars>>

\* Any call of RunLease::create fails: the error drops the File, and with it
\* the flock, if it was taken; what was made on disk stays.
CreateFails(t) ==
  /\ RunOf(t) \in Failing
  /\ pc[t] \in Creating
  /\ Goto(t, pc[t], "leaseError")
  /\ flock' = [i \in Tasks |-> IF flock[i] = t THEN None ELSE flock[i]]
  /\ opened' = [opened EXCEPT ![t] = None]
  /\ mutex' = [mutex EXCEPT ![RunOf(t)] = None]
  /\ fsError' = [fsError EXCEPT ![RunOf(t)] = TRUE]
  /\ UNCHANGED <<lease, dir, lockFile, trees>>

\* create_dir_all(parent) and git worktree add, which makes missing
\* directories itself; a failure drops the lease on the way out.
AddWorktree(t) ==
  /\ dir' = [dir EXCEPT ![RunOf(t)] = TRUE]
  /\ \/ /\ Goto(t, "add", "using")
        /\ trees' = trees \cup {t}
     \/ /\ GitMayFail
        /\ Goto(t, "add", "unref")
        /\ UNCHANGED trees
  /\ UNCHANGED <<mutex, lease, opened, flock, lockFile, fsError>>

\* The review of the commit ends, fails, or is aborted at an await.
FinishUse(t) ==
  /\ Goto(t, "using", "remove")
  /\ UNCHANGED <<mutex, lease, opened, flock, diskVars>>

\* Drop for Worktree: git worktree remove --force, best effort.
RemoveWorktree(t) ==
  /\ Goto(t, "remove", "unref")
  /\ \/ trees' = trees \ {t}
     \/ GitMayFail /\ UNCHANGED trees
  /\ UNCHANGED <<mutex, lease, opened, flock, dir, lockFile, fsError>>

\* Mutation: every drop of an Arc runs Drop for RunLease.
DropArcAsLast(t) ==
  /\ Goto(t, "unref", "isEmpty")
  /\ UNCHANGED <<lease, mutex, opened, flock, diskVars>>

\* The Arc goes; the last one runs Drop for RunLease, not under the mutex.
DropArc(t) ==
  LET last == \A u \in InodeOf(RunOf(t)) \ {t} :
                 ~(pc[u] \in Holding /\ lease[u] = lease[t])
  IN
  /\ Goto(t, "unref", IF last THEN "isEmpty" ELSE "done")
  /\ lease' = IF last THEN lease ELSE [lease EXCEPT ![t] = None]
  /\ UNCHANGED <<mutex, opened, flock, diskVars>>

\* A leftover entry, or an unreadable directory: keep the lock file, close it.
KeepRunDir(t) ==
  LET r == RunOf(t) IN
  /\ ~dir[r] \/ Trees(r) # {}
  /\ Goto(t, "isEmpty", "done")
  /\ flock' = [flock EXCEPT ![opened[lease[t]]] = None]
  /\ lease' = [lease EXCEPT ![t] = None]
  /\ UNCHANGED <<mutex, opened, diskVars>>

SeeRunDirEmpty(t) ==
  /\ dir[RunOf(t)] /\ Trees(RunOf(t)) = {}
  /\ Goto(t, "isEmpty", "unlock")
  /\ UNCHANGED <<mutex, lease, opened, flock, diskVars>>

UnlockLease(t) ==
  /\ Goto(t, "unlock", "rmLock")
  /\ flock' = [flock EXCEPT ![opened[lease[t]]] = None]
  /\ lease' = [lease EXCEPT ![t] = None]
  /\ UNCHANGED <<mutex, opened, diskVars>>

\* Mutation: the lock file is left behind.
LeaveLockFile(t) ==
  /\ Goto(t, "rmLock", "rmDir")
  /\ UNCHANGED <<lockFile, mutex, lease, opened, flock, dir, trees, fsError>>

\* remove_file goes by name: whatever inode the name leads to by now.
RemoveLockFile(t) ==
  /\ Goto(t, "rmLock", "rmDir")
  /\ lockFile' = [lockFile EXCEPT ![RunOf(t)] = None]
  /\ UNCHANGED <<mutex, lease, opened, flock, dir, trees, fsError>>

DirIsEmpty(r) == lockFile[r] = None /\ Trees(r) = {}

RemoveRunDir(t) ==
  /\ Goto(t, "rmDir", "done")
  /\ dir' = [dir EXCEPT ![RunOf(t)] = @ /\ ~DirIsEmpty(RunOf(t))]
  /\ UNCHANGED <<mutex, lease, opened, flock, lockFile, trees, fsError>>

\* create_dir_all(parent), or a call of Drop for RunLease, fails: create
\* returns on it, an unreadable directory is kept, remove errors are ignored.
CallFails(t) ==
  /\ RunOf(t) \in Failing
  /\ fsError' = [fsError EXCEPT ![RunOf(t)] = TRUE]
  /\ \/ /\ \/ Goto(t, "add", "unref")
           \/ Goto(t, "rmLock", "rmDir")
           \/ Goto(t, "rmDir", "done")
        /\ UNCHANGED <<lease, flock>>
     \/ /\ Goto(t, "isEmpty", "done")
        /\ flock' = [flock EXCEPT ![opened[lease[t]]] = None]
        /\ lease' = [lease EXCEPT ![t] = None]
  /\ UNCHANGED <<mutex, opened, dir, lockFile, trees>>

Task(t) ==
  \/ Begin(t) \/ ShareLease(t) \/ NewLease(t)
  \/ MakeRunDir(t) \/ OpenLock(t) \/ TryLock(t) \/ WriteLock(t)
  \/ LeaseFails(t) \/ CreateFails(t)
  \/ AddWorktree(t) \/ FinishUse(t) \/ RemoveWorktree(t) \/ DropArc(t)
  \/ KeepRunDir(t) \/ SeeRunDirEmpty(t) \/ UnlockLease(t)
  \/ RemoveLockFile(t) \/ RemoveRunDir(t) \/ CallFails(t)

-----------------------------------------------------------------------------
(* A process: start, sweep of the other run directories, crash.            *)

taskVars == <<pc, mutex, lease, opened>>

\* sweep_stale lists the command directory once.
StartSweep(s) ==
  /\ run[s] = "new"
  /\ run' = [run EXCEPT ![s] = "sweeping"]
  /\ sweep' = [sweep EXCEPT ![s].queue = {r \in Runs : dir[r]}]
  /\ UNCHANGED <<taskVars, flock, diskVars>>

SweepStep(s, from, next) ==
  /\ run[s] = "sweeping"
  /\ sweep[s].at = from
  /\ sweep' = [sweep EXCEPT ![s] = next]
  /\ UNCHANGED <<run, taskVars>>

NextDir(s) == [SweepDone EXCEPT !.queue = sweep[s].queue]

\* validate_cleanup_dir and the open of try_lock_run: a directory that is
\* gone, or one with no lock file (RunLock::Unknown), is left alone.
SweepOpen(s) ==
  \E r \in sweep[s].queue :
    LET rest == [sweep[s] EXCEPT !.queue = @ \ {r}] IN
    /\ IF dir[r] /\ lockFile[r] # None
         THEN SweepStep(s, "idle", [rest EXCEPT !.at = "tryLock", !.dir = r,
                                                !.inode = lockFile[r]])
         ELSE SweepStep(s, "idle", rest)
    /\ UNCHANGED <<flock, diskVars>>

\* Mutation: the sweep goes on when the lock is held.
SweepIgnoringLock(s) ==
  /\ SweepStep(s, "tryLock", [sweep[s] EXCEPT !.at = "list"])
  /\ flock' = [flock EXCEPT ![sweep[s].inode] = s]
  /\ UNCHANGED diskVars

SweepTryLock(s) ==
  /\ sweep[s].at = "tryLock"
  /\ IF flock[sweep[s].inode] = None
       THEN /\ SweepStep(s, "tryLock", [sweep[s] EXCEPT !.at = "list"])
            /\ flock' = [flock EXCEPT ![sweep[s].inode] = s]
       ELSE /\ SweepStep(s, "tryLock", NextDir(s))      \* RunLock::Live
            /\ UNCHANGED flock
  /\ UNCHANGED diskVars

\* SweepOutcome::Kept: the file is closed, and with it goes the lock.
KeepSwept(s, from) ==
  /\ SweepStep(s, from, NextDir(s))
  /\ flock' = [flock EXCEPT ![sweep[s].inode] = None]

\* Mutation: the sweep looks for no worktrees.
SweepListNothing(s) ==
  /\ SweepStep(s, "list", [sweep[s] EXCEPT !.at = "remove", !.todo = {}])
  /\ UNCHANGED <<flock, diskVars>>

\* A directory that is gone by now is kept.
SweepList(s) ==
  /\ sweep[s].at = "list"
  /\ IF dir[sweep[s].dir]
       THEN /\ SweepStep(s, "list", [sweep[s] EXCEPT !.at = "remove",
                                                    !.todo = Trees(sweep[s].dir)])
            /\ UNCHANGED flock
       ELSE KeepSwept(s, "list")
  /\ UNCHANGED diskVars

\* remove_stale_dir: git worktree remove --force, else remove_dir_all.
SweepRemove(s) ==
  \E t \in sweep[s].todo :
    /\ SweepStep(s, "remove", [sweep[s] EXCEPT !.todo = @ \ {t}])
    /\ trees' = trees \ {t}
    /\ UNCHANGED <<flock, dir, lockFile, fsError>>

\* The final look at the directory: what remains keeps it, and an error too.
SweepCheck(s) ==
  /\ sweep[s].at = "remove" /\ sweep[s].todo = {}
  /\ IF dir[sweep[s].dir] /\ Trees(sweep[s].dir) = {}
       THEN /\ SweepStep(s, "remove", [sweep[s] EXCEPT !.at = "unlock"])
            /\ UNCHANGED flock
       ELSE KeepSwept(s, "remove")
  /\ UNCHANGED diskVars

SweepUnlock(s) ==
  /\ SweepStep(s, "unlock", [sweep[s] EXCEPT !.at = "rmLock"])
  /\ flock' = [flock EXCEPT ![sweep[s].inode] = None]
  /\ UNCHANGED diskVars

SweepRemoveLock(s) ==
  /\ SweepStep(s, "rmLock", [sweep[s] EXCEPT !.at = "rmDir"])
  /\ lockFile' = [lockFile EXCEPT ![sweep[s].dir] = None]
  /\ UNCHANGED <<flock, dir, trees, fsError>>

SweepRemoveDir(s) ==
  /\ SweepStep(s, "rmDir", NextDir(s))
  /\ dir' = [dir EXCEPT ![sweep[s].dir] = @ /\ ~DirIsEmpty(sweep[s].dir)]
  /\ UNCHANGED <<flock, lockFile, trees, fsError>>

\* A call of the sweep fails.  One that opens, locks or reads, and the last,
\* ends the visit; a worktree that will not go is passed over; the error of
\* remove_file on the lock file is ignored.
SweepCallFails(s) ==
  /\ s \in Failing
  /\ \/ \E r \in sweep[s].queue :
          /\ SweepStep(s, "idle", [sweep[s] EXCEPT !.queue = @ \ {r}])
          /\ fsError' = [fsError EXCEPT ![r] = TRUE]
          /\ UNCHANGED flock
     \/ /\ fsError' = [fsError EXCEPT ![sweep[s].dir] = TRUE]
        /\ \/ /\ \/ SweepStep(s, "tryLock", NextDir(s))
                 \/ \E t \in sweep[s].todo :
                      SweepStep(s, "remove", [sweep[s] EXCEPT !.todo = @ \ {t}])
                 \/ SweepStep(s, "rmLock", [sweep[s] EXCEPT !.at = "rmDir"])
                 \/ SweepStep(s, "rmDir", NextDir(s))
              /\ UNCHANGED flock
           \/ KeepSwept(s, "list")
           \/ sweep[s].todo = {} /\ KeepSwept(s, "remove")
  /\ UNCHANGED <<dir, lockFile, trees>>

\* The sweep is over; main goes on to spawn the commit tasks.
EndSweep(s) ==
  /\ run[s] = "sweeping"
  /\ sweep[s].at = "idle" /\ sweep[s].queue = {}
  /\ run' = [run EXCEPT ![s] = "up"]
  /\ UNCHANGED <<taskVars, flock, diskVars, sweep>>

Sweeper(s) ==
  \/ SweepOpen(s) \/ SweepTryLock(s) \/ SweepList(s) \/ SweepRemove(s)
  \/ SweepCheck(s) \/ SweepUnlock(s) \/ SweepRemoveLock(s)
  \/ SweepRemoveDir(s) \/ SweepCallFails(s) \/ EndSweep(s)

\* SIGKILL or a power cut: the kernel releases the flocks, the files stay.
Crash(r) ==
  /\ run[r] \in {"sweeping", "up"}
  /\ Cardinality({q \in Runs : run[q] = "crashed"}) < MaxCrashes
  /\ \E t \in InodeOf(r) : pc[t] \notin {"done", "leaseError"}
  /\ run' = [run EXCEPT ![r] = "crashed"]
  /\ flock' = [i \in Tasks |-> IF flock[i] = r \/ flock[i] \in InodeOf(r)
                               THEN None ELSE flock[i]]
  /\ UNCHANGED <<taskVars, sweep, diskVars>>

Next ==
  \/ \E t \in Tasks : Task(t)
  \/ \E s \in Runs : StartSweep(s) \/ Sweeper(s)
  \/ \E r \in Runs : Crash(r)

Spec == Init /\ [][Next]_vars
-----------------------------------------------------------------------------
\* A process that runs is scheduled; nothing obliges it to start or to crash.
Fairness ==
  /\ \A t \in Tasks : WF_vars(Task(t))
  /\ \A s \in Runs : WF_vars(Sweeper(s))

FairSpec == Spec /\ Fairness

\* The sweepers of processes that run are scheduled.
SweepFairSpec == Spec /\ \A s \in Runs : WF_vars(Sweeper(s))

-----------------------------------------------------------------------------
Phases == Idle \cup {"lease"} \cup Creating \cup Holding \cup Dropping
SweepPoints == {"idle", "tryLock", "list", "remove", "unlock", "rmLock", "rmDir"}

SweepState == [at : SweepPoints, queue : SUBSET Runs,
               dir : Runs \cup {None}, inode : Tasks \cup {None},
               todo : SUBSET Tasks]

\* Types of the processes' state and of the shared file system.
TypeOK ==
  /\ run \in [Runs -> {"new", "sweeping", "up", "crashed"}]
  /\ pc \in [Tasks -> Phases]
  /\ mutex \in [Runs -> Tasks \cup {None}]
  /\ lease \in [Tasks -> Tasks \cup {None}]
  /\ opened \in [Tasks -> Tasks \cup {None}]
  /\ dir \in [Runs -> BOOLEAN]
  /\ lockFile \in [Runs -> Tasks \cup {None}]
  /\ flock \in [Tasks -> Tasks \cup Runs \cup {None}]
  /\ trees \in SUBSET Tasks
  /\ fsError \in [Runs -> BOOLEAN]
  /\ sweep \in [Runs -> SweepState]

Up(t) == run[RunOf(t)] = "up"

\* All tasks of a live run that have an Arc share one RunLease, and from its
\* creation to its unlock that lease has the flock of the inode it opened
\* (run_lease's search under the mutex, RunLease::create, Drop for RunLease).
LeaseHoldsFlock ==
  \A t \in Tasks : Up(t) /\ pc[t] \in Holding \cup {"isEmpty", "unlock"} =>
    /\ lease[t] # None /\ opened[lease[t]] # None
    /\ flock[opened[lease[t]]] = lease[t]
    /\ pc[t] \in Holding =>
         \A u \in InodeOf(RunOf(t)) : pc[u] \in Holding => lease[u] = lease[t]

\* A worktree stays on disk while its task works in it: no sweep of another
\* process, and no drop of another task, takes it away (sweep_stale's promise
\* that a live run is left alone).
LiveTreeKept ==
  \A t \in Tasks : Up(t) /\ pc[t] = "using" => t \in trees

\* When every task of a run has ended, all worktrees are gone and no sweeper
\* is in its directory, no inode is locked by the run, and nothing of the run
\* is left on disk unless a call on its directory failed, in whatever order the
\* drops of its leases, the creations and the creations that fail for want of
\* the directory or the lock fell (RunLease::create, Drop for RunLease).
CleanExit ==
  \A r \in Runs :
    /\ run[r] = "up"
    /\ \A t \in InodeOf(r) : pc[t] \in {"done", "leaseError"}
    /\ Trees(r) = {}
    /\ \A s \in Runs : sweep[s].dir # r
    => /\ \A i \in Tasks : flock[i] \notin InodeOf(r)
       /\ fsError[r] \/ (~dir[r] /\ lockFile[r] = None)

\* Every task that gets a permit ends, unless its process crashes: the mutex
\* is released on every path of run_lease.
TasksEnd ==
  \A t \in Tasks :
    Up(t) ~> (pc[t] \in {"done", "leaseError"} \/ run[RunOf(t)] = "crashed")

\* A sweeper past its last look at r's directory, with the unlink to come.
Unlinking(r) ==
  \E q \in Runs : /\ run[q] = "sweeping" /\ sweep[q].dir = r
                  /\ sweep[q].at \in {"unlock", "rmLock"}

\* Crash recovery ("clean up orphans from prior crashes", as far as it goes):
\* if a run has crashed leaving its lock file, and a sweeper has its directory
\* still to visit, the worktrees of the crashed run go away.  Excepted are a
\* sweeper that crashes, that one or another on its visit to the directory, a
\* call on the directory that fails, and a sweeper that had seen the directory
\* empty and is about to unlink the lock file: between its unlock and its
\* unlink the run may have taken the lock, and no sweep finds it any more.
OrphansSwept ==
  \A r, s \in Runs :
    (/\ run[r] = "crashed" /\ lockFile[r] # None
     /\ run[s] = "sweeping" /\ r \in sweep[s].queue
     /\ ~Unlinking(r))
    ~> \/ Trees(r) = {}
       \/ fsError[r]
       \/ run[s] = "crashed"
       \/ \E q \in Runs : run[q] = "crashed" /\ sweep[q].dir = r
=============================================================================
