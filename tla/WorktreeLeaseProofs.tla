------------------------ MODULE WorktreeLeaseProofs ------------------------
(***************************************************************************)
(* Theorems about WorktreeLease, for any number of runs, commits and       *)
(* permits: its types, the flock that a live lease keeps, what a run that  *)
(* ends leaves behind, and, for runs of a single commit, that no sweep     *)
(* takes a worktree in use.                                                *)
(***************************************************************************)
EXTENDS WorktreeLease, TLAPS

USE DEF diskVars, taskVars

\* A task belongs to one of the runs.
LEMMA RunOfTask == \A t \in Tasks : RunOf(t) \in Runs
  BY DEF Tasks, RunOf

\* A sweep step that writes a progress record keeps the types of sweep.
LEMMA SweepStepType ==
  ASSUME NEW s \in Runs, NEW from, NEW next \in SweepState,
         TypeOK, SweepStep(s, from, next)
  PROVE  /\ sweep' \in [Runs -> SweepState]
         /\ run' = run /\ pc' = pc /\ mutex' = mutex
         /\ lease' = lease /\ opened' = opened
  BY DEF TypeOK, SweepStep

\* A sweeper that has done with a directory is idle, its queue as it was.
LEMMA NextDirType ==
  ASSUME NEW s \in Runs, TypeOK PROVE NextDir(s) \in SweepState
  BY DEF TypeOK, NextDir, SweepDone, SweepState, SweepPoints

\* A sweeper that goes on keeps its directory and its inode, one that leaves
\* is in none, and no step touches another sweeper.
SweeperAt(s, at) ==
  /\ sweep'[s].at = at
  /\ sweep'[s].dir = sweep[s].dir
  /\ sweep'[s].inode = sweep[s].inode

SweeperLeaves(s) == sweep'[s].at = "idle" /\ sweep'[s].dir = None

OthersStay(s) ==
  /\ run' = run /\ pc' = pc
  /\ mutex' = mutex /\ lease' = lease /\ opened' = opened
  /\ sweep' \in [Runs -> SweepState]
  /\ \A q \in Runs \ {s} : sweep'[q] = sweep[q]

\* A step that only moves a sweeper on.
LEMMA SweepGoesOn ==
  ASSUME TypeOK, NEW s \in Runs, NEW from, NEW to \in SweepPoints,
         SweepStep(s, from, [sweep[s] EXCEPT !.at = to])
  PROVE  OthersStay(s) /\ SweeperAt(s, to) /\ sweep[s].at = from
<1> DEFINE next == [sweep[s] EXCEPT !.at = to]
<1>1. sweep[s] \in SweepState
  BY DEF TypeOK
<1>2. /\ next \in SweepState /\ next.at = to
      /\ next.dir = sweep[s].dir /\ next.inode = sweep[s].inode
  BY <1>1 DEF SweepState
<1> HIDE DEF next
<1>3. SweepStep(s, from, next)
  BY DEF next
<1> QED
  BY <1>2, <1>3 DEF SweepStep, OthersStay, SweeperAt, TypeOK

\* A step with which a sweeper leaves its directory.
LEMMA SweepLeaves ==
  ASSUME TypeOK, NEW s \in Runs, NEW from, SweepStep(s, from, NextDir(s))
  PROVE  OthersStay(s) /\ SweeperLeaves(s) /\ sweep[s].at = from
<1>1. /\ NextDir(s) \in SweepState
      /\ NextDir(s).at = "idle" /\ NextDir(s).dir = None
  BY NextDirType DEF NextDir, SweepDone
<1> QED
  BY <1>1 DEF SweepStep, OthersStay, SweeperLeaves, TypeOK

\* A sweeper with one directory less to visit.
LEMMA QueueType ==
  ASSUME NEW z \in SweepState, NEW r
  PROVE  LET rest == [z EXCEPT !.queue = @ \ {r}]
         IN  rest \in SweepState /\ rest.at = z.at
  BY DEF SweepState

\* What a call of a sweeper that fails leads to.
SweepFailure(s) ==
  LET z == sweep[s] IN
  /\ UNCHANGED <<dir, lockFile, trees>>
  /\ \A r \in Runs : fsError[r] => fsError'[r]
  /\ \/ /\ z.at = "idle" /\ sweep'[s].at = "idle" /\ flock' = flock
        /\ sweep'[s].dir = z.dir
     \/ /\ z.dir \in Runs => fsError'[z.dir]
        /\ z.at \in {"tryLock", "rmDir"} /\ SweeperLeaves(s) /\ flock' = flock
     \/ /\ z.dir \in Runs => fsError'[z.dir]
        /\ z.at = "remove" /\ SweeperAt(s, "remove") /\ flock' = flock
        /\ sweep'[s].todo \subseteq z.todo
     \/ /\ z.dir \in Runs => fsError'[z.dir]
        /\ z.at = "rmLock" /\ SweeperAt(s, "rmDir") /\ flock' = flock
     \/ /\ z.dir \in Runs => fsError'[z.dir]
        /\ z.at \in {"list", "remove"} /\ SweeperLeaves(s)
        /\ flock' = [flock EXCEPT ![z.inode] = None]

\* A failing step of a sweeper leads to that and touches nothing else.
LEMMA SweepFails ==
  ASSUME TypeOK, NEW s \in Runs, SweepCallFails(s)
  PROVE  OthersStay(s) /\ SweepFailure(s)
<1>1. sweep[s] \in SweepState
  BY DEF TypeOK
<1>2. UNCHANGED <<dir, lockFile, trees>>
  BY DEF SweepCallFails
<1>3. \A r \in Runs : fsError[r] => fsError'[r]
  BY DEF SweepCallFails, TypeOK
<1>4. ASSUME NEW r \in sweep[s].queue,
             SweepStep(s, "idle", [sweep[s] EXCEPT !.queue = @ \ {r}]),
             flock' = flock
      PROVE  OthersStay(s) /\ SweepFailure(s)
  <2> DEFINE rest == [sweep[s] EXCEPT !.queue = @ \ {r}]
  <2>1. rest \in SweepState /\ rest.at = sweep[s].at /\ rest.dir = sweep[s].dir
    BY <1>1 DEF SweepState
  <2>2. SweepStep(s, "idle", rest)
    BY <1>4
  <2> HIDE DEF rest
  <2> QED BY <1>2, <1>3, <1>4, <2>1, <2>2
             DEF SweepStep, OthersStay, SweepFailure, TypeOK
<1>5. ASSUME fsError' = [fsError EXCEPT ![sweep[s].dir] = TRUE]
      PROVE  sweep[s].dir \in Runs => fsError'[sweep[s].dir]
  BY <1>5 DEF TypeOK
<1>6. ASSUME NEW t \in sweep[s].todo,
             fsError' = [fsError EXCEPT ![sweep[s].dir] = TRUE], flock' = flock,
             SweepStep(s, "remove", [sweep[s] EXCEPT !.todo = @ \ {t}])
      PROVE  OthersStay(s) /\ SweepFailure(s)
  <2> DEFINE less == [sweep[s] EXCEPT !.todo = @ \ {t}]
  <2>1. /\ less \in SweepState /\ less.at = sweep[s].at /\ less.dir = sweep[s].dir
        /\ less.inode = sweep[s].inode /\ less.todo \subseteq sweep[s].todo
    BY <1>1 DEF SweepState
  <2>2. SweepStep(s, "remove", less)
    BY <1>6
  <2> HIDE DEF less
  <2>3. /\ OthersStay(s) /\ sweep[s].at = "remove" /\ sweep'[s] = less
        /\ sweep' \in [Runs -> SweepState]
    BY <2>1, <2>2 DEF SweepStep, OthersStay, TypeOK
  <2>4. SweeperAt(s, "remove") /\ sweep'[s].todo \subseteq sweep[s].todo
    BY <2>1, <2>3 DEF SweeperAt
  <2>5. sweep[s].dir \in Runs => fsError'[sweep[s].dir]
    BY <1>5, <1>6
  <2> QED BY <1>2, <1>3, <1>6, <2>3, <2>4, <2>5 DEF SweepFailure
<1>7. CASE \/ /\ SweepStep(s, "tryLock", NextDir(s)) \/ SweepStep(s, "rmDir", NextDir(s))
              /\ flock' = flock
           \/ KeepSwept(s, "list") \/ KeepSwept(s, "remove")
  <2>1. /\ \A from : SweepStep(s, from, NextDir(s))
                      => OthersStay(s) /\ SweeperLeaves(s) /\ sweep[s].at = from
    BY SweepLeaves
  <2>2. fsError' = [fsError EXCEPT ![sweep[s].dir] = TRUE] \/ sweep[s].at = "idle"
    BY DEF SweepCallFails, SweepStep
  <2> QED BY <1>2, <1>3, <1>5, <1>7, <2>1, <2>2 DEF SweepFailure, KeepSwept
<1>8. CASE /\ SweepStep(s, "rmLock", [sweep[s] EXCEPT !.at = "rmDir"])
           /\ flock' = flock
  <2>1. OthersStay(s) /\ SweeperAt(s, "rmDir") /\ sweep[s].at = "rmLock"
    BY <1>8, SweepGoesOn DEF SweepPoints
  <2>2. fsError' = [fsError EXCEPT ![sweep[s].dir] = TRUE]
    BY <2>1 DEF SweepCallFails, SweepStep
  <2> QED BY <1>2, <1>3, <1>5, <1>8, <2>1, <2>2 DEF SweepFailure
<1> QED BY <1>4, <1>6, <1>7, <1>8 DEF SweepCallFails

-----------------------------------------------------------------------------
\* Every step keeps the types.
LEMMA TypeStep ==
  ASSUME TypeOK, [Next]_vars PROVE TypeOK'
<1> USE RunOfTask DEF TypeOK, Phases, Idle, Creating, Holding, Dropping,
                      SweepPoints
<1>1. ASSUME NEW t \in Tasks, Task(t) PROVE TypeOK'
  <2>1. CASE Begin(t) BY <2>1 DEF Begin, Goto
  <2>2. CASE ShareLease(t) BY <2>2 DEF ShareLease, Goto, InodeOf
  <2>3. CASE NewLease(t) BY <2>3 DEF NewLease, Goto
  <2>4. CASE MakeRunDir(t) BY <2>4 DEF MakeRunDir, Goto
  <2>5. CASE OpenLock(t) BY <2>5 DEF OpenLock, Goto
  <2>6. CASE TryLock(t) BY <2>6 DEF TryLock, Goto
  <2>7. CASE LeaseFails(t) BY <2>7 DEF LeaseFails, Goto
  <2>8. CASE AddWorktree(t) BY <2>8 DEF AddWorktree, Goto
  <2>9. CASE FinishUse(t) BY <2>9 DEF FinishUse, Goto
  <2>10. CASE RemoveWorktree(t) BY <2>10 DEF RemoveWorktree, Goto
  <2>11. CASE DropArc(t) BY <2>11 DEF DropArc, Goto
  <2>12. CASE KeepRunDir(t) BY <2>12 DEF KeepRunDir, Goto
  <2>13. CASE SeeRunDirEmpty(t) BY <2>13 DEF SeeRunDirEmpty, Goto
  <2>14. CASE UnlockLease(t) BY <2>14 DEF UnlockLease, Goto
  <2>15. CASE RemoveLockFile(t) BY <2>15 DEF RemoveLockFile, Goto
  <2>16. CASE RemoveRunDir(t) BY <2>16 DEF RemoveRunDir, Goto
  <2>17. CASE WriteLock(t) BY <2>17 DEF WriteLock, Goto
  <2>18. CASE CreateFails(t) BY <2>18 DEF CreateFails, Goto
  <2>19. CASE CallFails(t) BY <2>19 DEF CallFails, Goto
  <2> QED BY <1>1, <2>1, <2>2, <2>3, <2>4, <2>5, <2>6, <2>7, <2>8, <2>9,
             <2>10, <2>11, <2>12, <2>13, <2>14, <2>15, <2>16, <2>17, <2>18, <2>19 DEF Task
<1>2. ASSUME NEW s \in Runs, StartSweep(s) \/ Sweeper(s) PROVE TypeOK'
  <2> USE DEF SweepState
  <2>1. CASE StartSweep(s) BY SMTT(30), <2>1 DEF StartSweep
  <2>2. CASE SweepOpen(s)
    <3>1. PICK r \in sweep[s].queue :
            LET rest == [sweep[s] EXCEPT !.queue = @ \ {r}] IN
            /\ IF dir[r] /\ lockFile[r] # None
                 THEN SweepStep(s, "idle",
                        [rest EXCEPT !.at = "tryLock", !.dir = r,
                                     !.inode = lockFile[r]])
                 ELSE SweepStep(s, "idle", rest)
            /\ UNCHANGED <<flock, diskVars>>
      BY <2>2 DEF SweepOpen
    <3> DEFINE rest == [sweep[s] EXCEPT !.queue = @ \ {r}]
               found == [rest EXCEPT !.at = "tryLock", !.dir = r,
                                     !.inode = lockFile[r]]
    <3>2. sweep[s] \in SweepState /\ r \in Runs
      OBVIOUS
    <3>3. rest \in SweepState
      BY <3>2
    <3>4. found \in SweepState
      BY <3>2, <3>3
    <3> HIDE DEF rest, found
    <3>5. SweepStep(s, "idle", rest) \/ SweepStep(s, "idle", found)
      BY <3>1 DEF rest, found
    <3> QED BY <3>1, <3>3, <3>4, <3>5, SweepStepType
  <2> DEFINE z == sweep[s]
             At(p) == [z EXCEPT !.at = p]
  <2>a. z \in SweepState /\ NextDir(s) \in SweepState
    BY NextDirType
  <2>b. \A p \in SweepPoints : At(p) \in SweepState
    BY <2>a
  <2>3. CASE SweepTryLock(s)
    <3>1. At("list") \in SweepState
      BY <2>b
    <3>2. flock' \in [Tasks -> Tasks \cup Runs \cup {None}]
      BY <2>3, <2>a DEF SweepTryLock
    <3> QED BY <2>3, <2>a, <3>1, <3>2, SweepStepType DEF SweepTryLock
  <2>4. CASE SweepList(s)
    <3>1. [z EXCEPT !.at = "remove", !.todo = Trees(z.dir)] \in SweepState
      BY <2>a DEF Trees
    <3>2. flock' \in [Tasks -> Tasks \cup Runs \cup {None}]
      BY <2>4, <2>a DEF SweepList, KeepSwept
    <3> QED BY <2>4, <2>a, <3>1, <3>2, SweepStepType DEF SweepList, KeepSwept
  <2>5. CASE SweepRemove(s)
    <3>1. PICK t \in z.todo :
            SweepStep(s, "remove", [z EXCEPT !.todo = @ \ {t}])
      BY <2>5 DEF SweepRemove
    <3>2. [z EXCEPT !.todo = @ \ {t}] \in SweepState
      BY <2>a
    <3>3. trees' \in SUBSET Tasks
      BY <2>5 DEF SweepRemove
    <3> QED BY <2>5, <3>1, <3>2, <3>3, SweepStepType DEF SweepRemove
  <2>6. CASE SweepCheck(s)
    <3>1. At("unlock") \in SweepState
      BY <2>b
    <3>2. flock' \in [Tasks -> Tasks \cup Runs \cup {None}]
      BY <2>6, <2>a DEF SweepCheck, KeepSwept
    <3> QED BY <2>6, <2>a, <3>1, <3>2, SweepStepType DEF SweepCheck, KeepSwept
  <2>7. CASE SweepUnlock(s)
    <3>1. At("rmLock") \in SweepState
      BY <2>b
    <3>2. flock' \in [Tasks -> Tasks \cup Runs \cup {None}]
      BY <2>7, <2>a DEF SweepUnlock
    <3> QED BY <2>7, <3>1, <3>2, SweepStepType DEF SweepUnlock
  <2>8. CASE SweepRemoveLock(s)
    <3>1. At("rmDir") \in SweepState
      BY <2>b
    <3>2. lockFile' \in [Runs -> Tasks \cup {None}]
      BY <2>8, <2>a DEF SweepRemoveLock
    <3> QED BY <2>8, <3>1, <3>2, SweepStepType DEF SweepRemoveLock
  <2>9. CASE SweepRemoveDir(s)
    <3>1. dir' \in [Runs -> BOOLEAN]
      BY <2>9, <2>a DEF SweepRemoveDir, DirIsEmpty
    <3> QED BY <2>9, <2>a, <3>1, SweepStepType DEF SweepRemoveDir
  <2>11. CASE SweepCallFails(s)
    <3>1. OthersStay(s) /\ dir' = dir /\ lockFile' = lockFile /\ trees' = trees
      BY <2>11, SweepFails DEF SweepFailure
    <3>2. /\ flock' \in [Tasks -> Tasks \cup Runs \cup {None}]
          /\ fsError' \in [Runs -> BOOLEAN]
      BY <2>11, <2>a DEF SweepCallFails, KeepSwept
    <3> QED BY <3>1, <3>2 DEF OthersStay
  <2>10. CASE EndSweep(s) BY <2>10 DEF EndSweep
  <2> QED BY <1>2, <2>1, <2>2, <2>3, <2>4, <2>5, <2>6, <2>7, <2>8, <2>9,
             <2>10, <2>11 DEF Sweeper
<1>3. ASSUME NEW r \in Runs, Crash(r) PROVE TypeOK'
  BY <1>3 DEF Crash
<1>4. CASE UNCHANGED vars
  BY <1>4 DEF vars
<1> QED BY <1>1, <1>2, <1>3, <1>4 DEF Next

\* The variables of WorktreeLease keep their types.
THEOREM TypeCorrect == Spec => []TypeOK
<1>1. Init => TypeOK
  BY DEF Init, TypeOK, SweepDone, SweepState, SweepPoints, Phases, Idle
<1>2. TypeOK /\ [Next]_vars => TypeOK'
  BY TypeStep
<1> QED BY <1>1, <1>2, PTL DEF Spec

-----------------------------------------------------------------------------
(* LeaseHoldsFlock is not inductive: that a lease still has its flock when  *)
(* another is created rests on the mutex around run_lease, on who shares    *)
(* which Arc, and on every sweeper closing only the file it locked.         *)

Owning == Holding \cup {"isEmpty", "unlock"}  \* from WriteLock to UnlockLease

\* A run that has not finished its sweep has no task on its way.
StartInv ==
  \A t \in Tasks : run[RunOf(t)] \in {"new", "sweeping"} => pc[t] = "waiting"

\* run_lease creates under the mutex, and only while no Arc is alive.
MutexInv ==
  /\ \A t \in Tasks : pc[t] \in Creating => mutex[RunOf(t)] = t
  /\ \A t \in Tasks : pc[t] \in {"tryLock", "write"} => opened[t] \in Tasks
  /\ \A r \in Runs : mutex[r] # None =>
       /\ mutex[r] \in InodeOf(r)
       /\ pc[mutex[r]] \in Creating
       /\ \A u \in InodeOf(r) : pc[u] \notin Holding

\* One lease at a time has Arcs; the lease being dropped has none.
ArcInv ==
  \A t, u \in Tasks :
    /\ RunOf(t) = RunOf(u) /\ pc[t] \in Holding /\ pc[u] \in Holding
         => lease[t] = lease[u]
    /\ t # u /\ pc[t] \in {"isEmpty", "unlock"} /\ pc[u] \in Owning
         => lease[t] # lease[u]

\* A lease belongs to a task of its run, has its file open and the flock; one
\* that is being written has the flock too.
FlockInv ==
  /\ \A t \in Tasks : pc[t] = "write" /\ Up(t) => flock[opened[t]] = t
  /\ \A t \in Tasks : pc[t] \in Owning =>
       /\ lease[t] \in InodeOf(RunOf(t))
       /\ pc[lease[t]] \in Holding \cup Dropping \cup {"done"}
       /\ opened[lease[t]] \in Tasks
       /\ Up(t) => flock[opened[lease[t]]] = lease[t]

\* A sweeper in a directory has the flock of the inode it opened there.
SweepInv ==
  \A s \in Runs :
    /\ run[s] = "new" => sweep[s].at = "idle"
    /\ sweep[s].at # "idle" => sweep[s].inode \in Tasks /\ sweep[s].dir \in Runs
    /\ run[s] = "sweeping" /\ sweep[s].at \in {"list", "remove", "unlock"}
         => flock[sweep[s].inode] = s

LeaseInv == TypeOK /\ StartInv /\ MutexInv /\ ArcInv /\ FlockInv /\ SweepInv

\* What leaves the tasks and the inodes they have locked alone keeps FlockInv.
LEMMA FlockKept ==
  ASSUME TypeOK, MutexInv, FlockInv, pc' = pc, lease' = lease, opened' = opened,
         \A t \in Tasks : Up(t)' => Up(t),
         \A t, i \in Tasks : Up(t)' /\ flock[i] = t => flock'[i] = t
  PROVE  FlockInv'
<1>1. ASSUME NEW t \in Tasks, pc'[t] = "write", Up(t)' PROVE flock'[opened'[t]] = t
  BY <1>1 DEF FlockInv, MutexInv
<1>2. ASSUME NEW t \in Tasks, pc'[t] \in Owning
      PROVE  /\ lease'[t] \in InodeOf(RunOf(t))
             /\ pc'[lease'[t]] \in Holding \cup Dropping \cup {"done"}
             /\ opened'[lease'[t]] \in Tasks
             /\ Up(t)' => flock'[opened'[lease'[t]]] = lease'[t]
  <2>1. /\ lease[t] \in InodeOf(RunOf(t))
        /\ pc[lease[t]] \in Holding \cup Dropping \cup {"done"}
        /\ opened[lease[t]] \in Tasks
        /\ Up(t) => flock[opened[lease[t]]] = lease[t]
    BY <1>2 DEF FlockInv
  <2>2. lease[t] \in Tasks /\ RunOf(lease[t]) = RunOf(t)
    BY <2>1 DEF InodeOf
  <2> QED BY <2>1, <2>2 DEF Up
<1> QED BY <1>1, <1>2 DEF FlockInv

\* Every step keeps the lease invariant.
LEMMA LeaseStep ==
  ASSUME LeaseInv, [Next]_vars PROVE LeaseInv'
<1> USE RunOfTask, LeaseAssumption
    DEF LeaseInv, Creating, Holding, Dropping, Owning, InodeOf, Up
<1>0. TypeOK'
  BY TypeStep
<1>1. ASSUME NEW t \in Tasks, Task(t) PROVE LeaseInv'
  <2>1. CASE Begin(t)
    <3> USE <2>1, <1>0 DEF Begin, Goto, TypeOK
    <3>1. StartInv' BY DEF StartInv
    <3>2. MutexInv' BY DEF MutexInv
    <3>3. ArcInv' BY DEF ArcInv, MutexInv, FlockInv
    <3>4. FlockInv' BY DEF FlockInv, MutexInv, ArcInv
    <3>5. SweepInv' BY DEF SweepInv
    <3> QED BY <3>1, <3>2, <3>3, <3>4, <3>5
  <2>2. CASE ShareLease(t)
    <3> USE <2>2, <1>0 DEF ShareLease, Goto, TypeOK
    <3>1. StartInv' BY DEF StartInv
    <3>2. MutexInv' BY DEF MutexInv
    <3>3. ArcInv' BY DEF ArcInv, MutexInv, FlockInv
    <3>4. FlockInv' BY DEF FlockInv, MutexInv, ArcInv
    <3>5. SweepInv' BY DEF SweepInv
    <3> QED BY <3>1, <3>2, <3>3, <3>4, <3>5
  <2>3. CASE NewLease(t)
    <3> USE <2>3, <1>0 DEF NewLease, Goto, TypeOK
    <3>1. StartInv' BY DEF StartInv
    <3>2. MutexInv' BY DEF MutexInv
    <3>3. ArcInv' BY DEF ArcInv, MutexInv, FlockInv
    <3>4. FlockInv' BY DEF FlockInv, MutexInv, ArcInv
    <3>5. SweepInv' BY DEF SweepInv
    <3> QED BY <3>1, <3>2, <3>3, <3>4, <3>5
  <2>4. CASE MakeRunDir(t)
    <3> USE <2>4, <1>0 DEF MakeRunDir, Goto, TypeOK
    <3>1. StartInv' BY DEF StartInv
    <3>2. MutexInv' BY DEF MutexInv
    <3>3. ArcInv' BY DEF ArcInv, MutexInv, FlockInv
    <3>4. FlockInv' BY DEF FlockInv, MutexInv, ArcInv
    <3>5. SweepInv' BY DEF SweepInv
    <3> QED BY <3>1, <3>2, <3>3, <3>4, <3>5
  <2>5. CASE OpenLock(t)
    <3> USE <2>5, <1>0 DEF OpenLock, Goto, TypeOK
    <3>1. StartInv' BY DEF StartInv
    <3>2. MutexInv' BY DEF MutexInv
    <3>3. ArcInv' BY DEF ArcInv, MutexInv, FlockInv
    <3>4. FlockInv' BY DEF FlockInv, MutexInv, ArcInv
    <3>5. SweepInv' BY DEF SweepInv
    <3> QED BY <3>1, <3>2, <3>3, <3>4, <3>5
  <2>6. CASE TryLock(t)
    <3> USE <2>6, <1>0 DEF TryLock, Goto, TypeOK
    <3>1. StartInv' BY DEF StartInv
    <3>2. MutexInv' BY DEF MutexInv
    <3>3. ArcInv' BY DEF ArcInv, MutexInv, FlockInv
    <3>4. FlockInv' BY DEF FlockInv, MutexInv, ArcInv
    <3>5. SweepInv' BY DEF SweepInv
    <3> QED BY <3>1, <3>2, <3>3, <3>4, <3>5
  <2>7. CASE LeaseFails(t)
    <3> USE <2>7, <1>0 DEF LeaseFails, Goto, TypeOK
    <3>1. StartInv' BY DEF StartInv
    <3>2. MutexInv' BY DEF MutexInv
    <3>3. ArcInv' BY DEF ArcInv, MutexInv, FlockInv
    <3>4. FlockInv'
      <4>1. flock' = flock /\ lease' = lease /\ run' = run
        OBVIOUS
      <4>2. pc[t] \in {"open", "tryLock"} /\ pc' = [pc EXCEPT ![t] = "leaseError"]
        OBVIOUS
      <4>3. \A u \in Tasks \ {t} : pc'[u] = pc[u] /\ opened'[u] = opened[u]
        OBVIOUS
      <4>4. \A u \in Tasks : pc'[u] = "write" \/ pc'[u] \in Owning => u # t
        BY <4>2 DEF Owning, Holding
      <4>5. \A u \in Tasks : pc[u] \in Holding \union Dropping \union {"done"} => u # t
        BY <4>2 DEF Holding, Dropping
      <4>6. \A u \in Tasks : pc'[u] = "write" /\ Up(u) => flock[opened'[u]] = u
        BY <4>3, <4>4 DEF FlockInv
      <4>7. ASSUME NEW u \in Tasks, pc'[u] \in Owning
            PROVE  /\ lease[u] \in InodeOf(RunOf(u))
                   /\ pc'[lease[u]] \in Holding \union Dropping \union {"done"}
                   /\ opened'[lease[u]] \in Tasks
                   /\ Up(u) => flock[opened'[lease[u]]] = lease[u]
        <5>1. pc[u] \in Owning
          BY <4>3, <4>4, <4>7
        <5>2. /\ lease[u] \in InodeOf(RunOf(u))
              /\ pc[lease[u]] \in Holding \union Dropping \union {"done"}
              /\ opened[lease[u]] \in Tasks
              /\ Up(u) => flock[opened[lease[u]]] = lease[u]
          BY <5>1 DEF FlockInv
        <5>3. lease[u] \in Tasks \ {t}
          BY <4>5, <5>2 DEF InodeOf
        <5> QED BY <4>3, <5>2, <5>3
      <4> QED BY <4>1, <4>6, <4>7 DEF FlockInv, Up
    <3>5. SweepInv' BY DEF SweepInv
    <3> QED BY <3>1, <3>2, <3>3, <3>4, <3>5
  <2>8. CASE AddWorktree(t)
    <3> USE <2>8, <1>0 DEF AddWorktree, Goto, TypeOK
    <3>1. StartInv' BY DEF StartInv
    <3>2. MutexInv' BY DEF MutexInv
    <3>3. ArcInv' BY DEF ArcInv, MutexInv, FlockInv
    <3>4. FlockInv' BY DEF FlockInv, MutexInv, ArcInv
    <3>5. SweepInv' BY DEF SweepInv
    <3> QED BY <3>1, <3>2, <3>3, <3>4, <3>5
  <2>9. CASE FinishUse(t)
    <3> USE <2>9, <1>0 DEF FinishUse, Goto, TypeOK
    <3>1. StartInv' BY DEF StartInv
    <3>2. MutexInv' BY DEF MutexInv
    <3>3. ArcInv' BY DEF ArcInv, MutexInv, FlockInv
    <3>4. FlockInv' BY DEF FlockInv, MutexInv, ArcInv
    <3>5. SweepInv' BY DEF SweepInv
    <3> QED BY <3>1, <3>2, <3>3, <3>4, <3>5
  <2>10. CASE RemoveWorktree(t)
    <3> USE <2>10, <1>0 DEF RemoveWorktree, Goto, TypeOK
    <3>1. StartInv' BY DEF StartInv
    <3>2. MutexInv' BY DEF MutexInv
    <3>3. ArcInv' BY DEF ArcInv, MutexInv, FlockInv
    <3>4. FlockInv' BY DEF FlockInv, MutexInv, ArcInv
    <3>5. SweepInv' BY DEF SweepInv
    <3> QED BY <3>1, <3>2, <3>3, <3>4, <3>5
  <2>11. CASE DropArc(t)
    <3> USE <2>11, <1>0 DEF DropArc, Goto, TypeOK
    <3>1. StartInv' BY DEF StartInv
    <3>2. MutexInv' BY DEF MutexInv
    <3>3. ArcInv' BY DEF ArcInv, MutexInv, FlockInv
    <3>4. FlockInv' BY DEF FlockInv, MutexInv, ArcInv
    <3>5. SweepInv' BY DEF SweepInv
    <3> QED BY <3>1, <3>2, <3>3, <3>4, <3>5
  <2>12. CASE KeepRunDir(t)
    <3> USE <2>12, <1>0 DEF KeepRunDir, Goto, TypeOK
    <3>1. StartInv' BY DEF StartInv
    <3>2. MutexInv' BY DEF MutexInv
    <3>3. ArcInv' BY DEF ArcInv, MutexInv, FlockInv
    <3>4. FlockInv' BY DEF FlockInv, MutexInv, ArcInv
    <3>5. SweepInv' BY DEF SweepInv, FlockInv
    <3> QED BY <3>1, <3>2, <3>3, <3>4, <3>5
  <2>13. CASE SeeRunDirEmpty(t)
    <3> USE <2>13, <1>0 DEF SeeRunDirEmpty, Goto, TypeOK
    <3>1. StartInv' BY DEF StartInv
    <3>2. MutexInv' BY DEF MutexInv
    <3>3. ArcInv' BY DEF ArcInv, MutexInv, FlockInv
    <3>4. FlockInv' BY DEF FlockInv, MutexInv, ArcInv
    <3>5. SweepInv' BY DEF SweepInv
    <3> QED BY <3>1, <3>2, <3>3, <3>4, <3>5
  <2>14. CASE UnlockLease(t)
    <3> USE <2>14, <1>0 DEF UnlockLease, Goto, TypeOK
    <3>1. StartInv' BY DEF StartInv
    <3>2. MutexInv' BY DEF MutexInv
    <3>3. ArcInv' BY DEF ArcInv, MutexInv, FlockInv
    <3>4. FlockInv' BY DEF FlockInv, MutexInv, ArcInv
    <3>5. SweepInv' BY DEF SweepInv, FlockInv
    <3> QED BY <3>1, <3>2, <3>3, <3>4, <3>5
  <2>15. CASE RemoveLockFile(t)
    <3> USE <2>15, <1>0 DEF RemoveLockFile, Goto, TypeOK
    <3>1. StartInv' BY DEF StartInv
    <3>2. MutexInv' BY DEF MutexInv
    <3>3. ArcInv' BY DEF ArcInv, MutexInv, FlockInv
    <3>4. FlockInv' BY DEF FlockInv, MutexInv, ArcInv
    <3>5. SweepInv' BY DEF SweepInv
    <3> QED BY <3>1, <3>2, <3>3, <3>4, <3>5
  <2>16. CASE RemoveRunDir(t)
    <3> USE <2>16, <1>0 DEF RemoveRunDir, Goto, TypeOK
    <3>1. StartInv' BY DEF StartInv
    <3>2. MutexInv' BY DEF MutexInv
    <3>3. ArcInv' BY DEF ArcInv, MutexInv, FlockInv
    <3>4. FlockInv' BY DEF FlockInv, MutexInv, ArcInv
    <3>5. SweepInv' BY DEF SweepInv
    <3> QED BY <3>1, <3>2, <3>3, <3>4, <3>5
  <2>17. CASE WriteLock(t)
    <3> USE <2>17, <1>0 DEF WriteLock, Goto, TypeOK
    <3>1. StartInv' BY DEF StartInv
    <3>2. MutexInv' BY DEF MutexInv
    <3>3. ArcInv' BY DEF ArcInv, MutexInv, FlockInv
    <3>4. FlockInv' BY DEF FlockInv, MutexInv, ArcInv
    <3>5. SweepInv' BY DEF SweepInv, FlockInv
    <3> QED BY <3>1, <3>2, <3>3, <3>4, <3>5
  <2>18. CASE CreateFails(t)
    <3> USE <2>18, <1>0 DEF CreateFails, Goto, TypeOK
    <3>1. StartInv' BY DEF StartInv
    <3>2. MutexInv' BY DEF MutexInv
    <3>3. ArcInv' BY DEF ArcInv, MutexInv, FlockInv
    <3>4. FlockInv' BY DEF FlockInv, MutexInv, ArcInv
    <3>5. SweepInv' BY DEF SweepInv, FlockInv
    <3> QED BY <3>1, <3>2, <3>3, <3>4, <3>5
  <2>19. CASE CallFails(t)
    <3> USE <2>19, <1>0 DEF CallFails, Goto, TypeOK
    <3>1. StartInv' BY DEF StartInv
    <3>2. MutexInv' BY DEF MutexInv
    <3>3. ArcInv' BY DEF ArcInv, MutexInv, FlockInv
    <3>4. FlockInv' BY DEF FlockInv, MutexInv, ArcInv
    <3>5. SweepInv' BY DEF SweepInv, FlockInv
    <3> QED BY <3>1, <3>2, <3>3, <3>4, <3>5
  <2> QED BY <1>1, <2>1, <2>2, <2>3, <2>4, <2>5, <2>6, <2>7, <2>8, <2>9, <2>10, <2>11,
             <2>12, <2>13, <2>14, <2>15, <2>16, <2>17, <2>18, <2>19 DEF Task
<1>2. ASSUME NEW s \in Runs, StartSweep(s) \/ Sweeper(s) PROVE LeaseInv'
  <2>1. CASE StartSweep(s)
    <3> USE <2>1, <1>0 DEF StartSweep, SweepStep, TypeOK, SweepState
    <3>1. StartInv' BY DEF StartInv
    <3>2. MutexInv' BY DEF MutexInv
    <3>3. ArcInv' BY DEF ArcInv
    <3>4. FlockInv'
      <4>1. \A t, i \in Tasks : flock[i] = t => flock'[i] = t
        BY DEF SweepInv
      <4> QED BY <4>1, FlockKept
    <3>5. SweepInv' BY DEF SweepInv, NextDir, SweepDone
    <3> QED BY <3>1, <3>2, <3>3, <3>4, <3>5
  <2>2. CASE SweepOpen(s)
    <3> USE <2>2, <1>0 DEF SweepOpen, SweepStep, TypeOK, SweepState
    <3>1. StartInv' BY DEF StartInv
    <3>2. MutexInv' BY DEF MutexInv
    <3>3. ArcInv' BY DEF ArcInv
    <3>4. FlockInv'
      <4>1. \A t, i \in Tasks : flock[i] = t => flock'[i] = t
        BY DEF SweepInv
      <4> QED BY <4>1, FlockKept
    <3>5. SweepInv'
      <4>1. PICK r \in sweep[s].queue :
              \/ /\ lockFile[r] # None
                 /\ sweep' = [sweep EXCEPT ![s] =
                      [[sweep[s] EXCEPT !.queue = @ \ {r}]
                         EXCEPT !.at = "tryLock", !.dir = r,
                                !.inode = lockFile[r]]]
              \/ sweep' = [sweep EXCEPT ![s] =
                      [sweep[s] EXCEPT !.queue = @ \ {r}]]
        OBVIOUS
      <4>2. CASE sweep'[s].at = "idle"
        BY <4>1, <4>2 DEF SweepInv
      <4>3. CASE sweep'[s].at # "idle"
        <5> DEFINE rest == [sweep[s] EXCEPT !.queue = @ \ {r}]
                   found == [rest EXCEPT !.at = "tryLock", !.dir = r,
                                         !.inode = lockFile[r]]
        <5>1. r \in Runs /\ sweep[s].at = "idle"
          BY <4>1
        <5>2. rest.at = "idle" /\ rest \in SweepState
          <6>1. sweep[s] \in SweepState
            BY <1>0 DEF TypeOK
          <6>2. /\ [sweep[s] EXCEPT !.queue = @ \ {r}] \in SweepState
                /\ [sweep[s] EXCEPT !.queue = @ \ {r}].at = sweep[s].at
            BY ONLY <6>1, QueueType
          <6> QED BY <5>1, <6>2
        <5>3. sweep' # [sweep EXCEPT ![s] = rest]
          BY <4>3, <5>2
        <5>4. sweep'[s] = found
          BY <4>1, <5>3
        <5>5. sweep'[s].at = "tryLock" /\ sweep'[s].dir = r
              /\ sweep'[s].inode = lockFile[r]
          BY <5>2, <5>4
        <5>6. lockFile[r] # None
          BY <4>1, <5>3
        <5>7. lockFile[r] \in Tasks
          BY <5>1, <5>6
        <5> QED BY <5>5, <5>1, <5>7 DEF SweepInv
      <4> QED BY <4>2, <4>3
    <3> QED BY <3>1, <3>2, <3>3, <3>4, <3>5
  <2>3. CASE SweepTryLock(s)
    <3> USE <2>3, <1>0 DEF SweepTryLock, SweepStep, TypeOK, SweepState
    <3>1. StartInv' BY DEF StartInv
    <3>2. MutexInv' BY DEF MutexInv
    <3>3. ArcInv' BY DEF ArcInv
    <3>4. FlockInv'
      <4>1. \A t, i \in Tasks : flock[i] = t => flock'[i] = t
        BY DEF SweepInv
      <4> QED BY <4>1, FlockKept
    <3>5. SweepInv'
      <4>1. sweep[s].inode \in Tasks /\ sweep[s].dir \in Runs
        BY DEF SweepInv
      <4>2. CASE flock[sweep[s].inode] = None
        <5>1. sweep' = [sweep EXCEPT ![s] = [sweep[s] EXCEPT !.at = "list"]]
              /\ flock' = [flock EXCEPT ![sweep[s].inode] = s]
          BY <4>2
        <5> QED BY <4>1, <4>2, <5>1 DEF SweepInv
      <4>3. CASE flock[sweep[s].inode] # None
        BY <4>1, <4>3 DEF SweepInv, NextDir, SweepDone
      <4> QED BY <4>2, <4>3
    <3> QED BY <3>1, <3>2, <3>3, <3>4, <3>5
  <2>4. CASE SweepList(s)
    <3> USE <2>4, <1>0 DEF SweepList, KeepSwept, SweepStep, TypeOK, SweepState
    <3>1. StartInv' BY DEF StartInv
    <3>2. MutexInv' BY DEF MutexInv
    <3>3. ArcInv' BY DEF ArcInv
    <3>4. FlockInv'
      <4>1. \A t, i \in Tasks : flock[i] = t => flock'[i] = t
        BY DEF SweepInv
      <4> QED BY <4>1, FlockKept
    <3>5. SweepInv'
      <4>1. sweep[s].inode \in Tasks /\ sweep[s].dir \in Runs
        BY DEF SweepInv
      <4>2. CASE /\ sweep' = [sweep EXCEPT ![s] = [sweep[s] EXCEPT
                                !.at = "remove", !.todo = Trees(sweep[s].dir)]]
                 /\ flock' = flock
        BY <4>1, <4>2 DEF SweepInv
      <4>3. CASE /\ sweep' = [sweep EXCEPT ![s] = NextDir(s)]
                 /\ flock' = [flock EXCEPT ![sweep[s].inode] = None]
        BY <4>1, <4>3 DEF SweepInv, NextDir, SweepDone
      <4> QED BY <4>2, <4>3
    <3> QED BY <3>1, <3>2, <3>3, <3>4, <3>5
  <2>5. CASE SweepRemove(s)
    <3> USE <2>5, <1>0 DEF SweepRemove, SweepStep, TypeOK, SweepState
    <3>1. StartInv' BY DEF StartInv
    <3>2. MutexInv' BY DEF MutexInv
    <3>3. ArcInv' BY DEF ArcInv
    <3>4. FlockInv'
      <4>1. \A t, i \in Tasks : flock[i] = t => flock'[i] = t
        BY DEF SweepInv
      <4> QED BY <4>1, FlockKept
    <3>5. SweepInv' BY DEF SweepInv, NextDir, SweepDone
    <3> QED BY <3>1, <3>2, <3>3, <3>4, <3>5
  <2>6. CASE SweepCheck(s)
    <3> USE <2>6, <1>0 DEF SweepCheck, KeepSwept, SweepStep, TypeOK, SweepState
    <3>1. StartInv' BY DEF StartInv
    <3>2. MutexInv' BY DEF MutexInv
    <3>3. ArcInv' BY DEF ArcInv
    <3>4. FlockInv'
      <4>1. \A t, i \in Tasks : flock[i] = t => flock'[i] = t
        BY DEF SweepInv
      <4> QED BY <4>1, FlockKept
    <3>5. SweepInv'
      <4>1. sweep[s].inode \in Tasks /\ sweep[s].dir \in Runs
        BY DEF SweepInv
      <4>2. CASE /\ sweep' = [sweep EXCEPT ![s] = [sweep[s] EXCEPT !.at = "unlock"]]
                 /\ flock' = flock
        BY <4>1, <4>2 DEF SweepInv
      <4>3. CASE /\ sweep' = [sweep EXCEPT ![s] = NextDir(s)]
                 /\ flock' = [flock EXCEPT ![sweep[s].inode] = None]
        BY <4>1, <4>3 DEF SweepInv, NextDir, SweepDone
      <4> QED BY <4>2, <4>3
    <3> QED BY <3>1, <3>2, <3>3, <3>4, <3>5
  <2>7. CASE SweepUnlock(s)
    <3> USE <2>7, <1>0 DEF SweepUnlock, SweepStep, TypeOK, SweepState
    <3>1. StartInv' BY DEF StartInv
    <3>2. MutexInv' BY DEF MutexInv
    <3>3. ArcInv' BY DEF ArcInv
    <3>4. FlockInv'
      <4>1. \A t, i \in Tasks : flock[i] = t => flock'[i] = t
        BY DEF SweepInv
      <4> QED BY <4>1, FlockKept
    <3>5. SweepInv' BY DEF SweepInv, NextDir, SweepDone
    <3> QED BY <3>1, <3>2, <3>3, <3>4, <3>5
  <2>8. CASE SweepRemoveLock(s)
    <3> USE <2>8, <1>0 DEF SweepRemoveLock, SweepStep, TypeOK, SweepState
    <3>1. StartInv' BY DEF StartInv
    <3>2. MutexInv' BY DEF MutexInv
    <3>3. ArcInv' BY DEF ArcInv
    <3>4. FlockInv'
      <4>1. \A t, i \in Tasks : flock[i] = t => flock'[i] = t
        BY DEF SweepInv
      <4> QED BY <4>1, FlockKept
    <3>5. SweepInv' BY DEF SweepInv, NextDir, SweepDone
    <3> QED BY <3>1, <3>2, <3>3, <3>4, <3>5
  <2>9. CASE SweepRemoveDir(s)
    <3> USE <2>9, <1>0 DEF SweepRemoveDir, SweepStep, TypeOK, SweepState
    <3>1. StartInv' BY DEF StartInv
    <3>2. MutexInv' BY DEF MutexInv
    <3>3. ArcInv' BY DEF ArcInv
    <3>4. FlockInv'
      <4>1. \A t, i \in Tasks : flock[i] = t => flock'[i] = t
        BY DEF SweepInv
      <4> QED BY <4>1, FlockKept
    <3>5. SweepInv' BY DEF SweepInv, NextDir, SweepDone
    <3> QED BY <3>1, <3>2, <3>3, <3>4, <3>5
  <2>10. CASE EndSweep(s)
    <3> USE <2>10, <1>0 DEF EndSweep, SweepStep, TypeOK, SweepState
    <3>1. StartInv' BY DEF StartInv
    <3>2. MutexInv' BY DEF MutexInv
    <3>3. ArcInv' BY DEF ArcInv
    <3>4. FlockInv' BY DEF FlockInv, SweepInv, StartInv
    <3>5. SweepInv' BY DEF SweepInv, NextDir, SweepDone
    <3> QED BY <3>1, <3>2, <3>3, <3>4, <3>5
  <2>11. CASE SweepCallFails(s)
    <3> USE <2>11, <1>0 DEF SweepCallFails, KeepSwept, SweepStep, TypeOK, SweepState
    <3>1. StartInv' BY DEF StartInv
    <3>2. MutexInv' BY DEF MutexInv
    <3>3. ArcInv' BY DEF ArcInv
    <3>4. FlockInv'
      <4>1. \A t, i \in Tasks : flock[i] = t => flock'[i] = t
        BY DEF SweepInv
      <4> QED BY <4>1, FlockKept
    <3>5. SweepInv'
      <4>1. OthersStay(s) /\ SweepFailure(s)
        BY SweepFails
      <4>2. sweep[s].at # "idle" => sweep[s].inode \in Tasks /\ sweep[s].dir \in Runs
        BY DEF SweepInv
      <4>3. \A q \in Runs \ {s} : \A i \in Tasks : flock[i] = q => flock'[i] = q
        BY <4>1, <4>2 DEF SweepFailure, SweepInv
      <4>4. \A q \in Runs \ {s} : sweep'[q] = sweep[q]
        BY <4>1 DEF OthersStay
      <4>5. \/ sweep'[s].at = "idle"
            \/ /\ sweep[s].at # "idle" /\ sweep'[s].inode = sweep[s].inode
               /\ sweep'[s].dir = sweep[s].dir
               /\ \/ sweep'[s].at = "rmDir"
                  \/ sweep'[s].at = "remove" /\ sweep[s].at = "remove" /\ flock' = flock
        BY <4>1 DEF SweepFailure, SweeperAt, SweeperLeaves
      <4> HIDE DEF SweepCallFails, SweepStep, KeepSwept
      <4> QED BY <4>1, <4>2, <4>3, <4>4, <4>5 DEF SweepInv, OthersStay
    <3> QED BY <3>1, <3>2, <3>3, <3>4, <3>5
  <2> QED BY <1>2, <2>1, <2>2, <2>3, <2>4, <2>5, <2>6, <2>7, <2>8, <2>9,
             <2>10, <2>11 DEF Sweeper
<1>3. ASSUME NEW r \in Runs, Crash(r) PROVE LeaseInv'
  <2> USE <1>3, <1>0 DEF Crash, TypeOK
  <2>1. StartInv' BY DEF StartInv
  <2>2. MutexInv' BY DEF MutexInv
  <2>3. ArcInv' BY DEF ArcInv
  <2>4. FlockInv'
    <3>1. \A t, i \in Tasks : run'[RunOf(t)] = "up" /\ flock[i] = t => flock'[i] = t
      OBVIOUS
    <3> QED BY <3>1, FlockKept
  <2>5. SweepInv' BY DEF SweepInv
  <2> QED BY <2>1, <2>2, <2>3, <2>4, <2>5
<1>4. CASE UNCHANGED vars
  BY <1>0, <1>4 DEF vars, StartInv, MutexInv, ArcInv, FlockInv, SweepInv
<1> QED BY <1>1, <1>2, <1>3, <1>4 DEF Next

\* The lease invariant holds at first.
LEMMA InitLease ==
  ASSUME Init PROVE LeaseInv
<1>1. TypeOK
  BY DEF Init, TypeOK, SweepDone, SweepState, SweepPoints, Phases, Idle
<1> QED
  BY <1>1, RunOfTask DEF Init, LeaseInv, StartInv, MutexInv, ArcInv, FlockInv,
     SweepInv, SweepDone, Creating, Holding, Dropping, Owning

\* Every live lease keeps the flock of the inode it opened, and the tasks of a
\* run share it, for any number of runs, commits and permits.
THEOREM LeaseCorrect == Spec => []LeaseHoldsFlock
<1>1. Init => LeaseInv
  BY InitLease
<1>2. LeaseInv /\ [Next]_vars => LeaseInv'
  BY LeaseStep
<1>3. LeaseInv => LeaseHoldsFlock
  BY LeaseAssumption DEF LeaseInv, LeaseHoldsFlock, ArcInv, FlockInv, Owning,
     InodeOf, Holding
<1> QED BY <1>1, <1>2, <1>3, PTL DEF Spec

-----------------------------------------------------------------------------
(* What the lock file's name and the open files lead to.                   *)

\* The name, the open files and the sweepers lead to inodes of their own run.
InodeInv ==
  /\ \A r \in Runs : lockFile[r] # None => RunOf(lockFile[r]) = r
  /\ \A t \in Tasks : opened[t] # None => RunOf(opened[t]) = RunOf(t)
  /\ \A s \in Runs :
       /\ sweep[s].at # "idle" => RunOf(sweep[s].inode) = sweep[s].dir
       /\ sweep[s].at = "remove" =>
            \A t \in sweep[s].todo : RunOf(t) = sweep[s].dir

\* Every step keeps the names.
LEMMA InodeStep ==
  ASSUME LeaseInv, InodeInv, [Next]_vars PROVE InodeInv'
<1> USE RunOfTask, LeaseAssumption DEF InodeInv, Up
<1>0. TypeOK
  BY DEF LeaseInv
<1>1. ASSUME NEW t \in Tasks, Task(t) PROVE InodeInv'
  <2>1. CASE Begin(t)
    BY <2>1, <1>0 DEF Begin, Goto, TypeOK
  <2>2. CASE ShareLease(t)
    BY <2>2, <1>0 DEF ShareLease, Goto, TypeOK
  <2>3. CASE NewLease(t)
    BY <2>3, <1>0 DEF NewLease, Goto, TypeOK
  <2>4. CASE MakeRunDir(t)
    BY <2>4, <1>0 DEF MakeRunDir, Goto, TypeOK
  <2>5. CASE OpenLock(t)
    BY <2>5, <1>0 DEF OpenLock, Goto, TypeOK
  <2>6. CASE TryLock(t)
    BY <2>6, <1>0 DEF TryLock, Goto, TypeOK
  <2>7. CASE LeaseFails(t)
    BY <2>7, <1>0 DEF LeaseFails, Goto, TypeOK
  <2>8. CASE AddWorktree(t)
    BY <2>8, <1>0 DEF AddWorktree, Goto, TypeOK
  <2>9. CASE FinishUse(t)
    BY <2>9, <1>0 DEF FinishUse, Goto, TypeOK
  <2>10. CASE RemoveWorktree(t)
    BY <2>10, <1>0 DEF RemoveWorktree, Goto, TypeOK
  <2>11. CASE DropArc(t)
    BY <2>11, <1>0 DEF DropArc, Goto, TypeOK
  <2>12. CASE KeepRunDir(t)
    BY <2>12, <1>0 DEF KeepRunDir, Goto, TypeOK
  <2>13. CASE SeeRunDirEmpty(t)
    BY <2>13, <1>0 DEF SeeRunDirEmpty, Goto, TypeOK
  <2>14. CASE UnlockLease(t)
    BY <2>14, <1>0 DEF UnlockLease, Goto, TypeOK
  <2>15. CASE RemoveLockFile(t)
    BY <2>15, <1>0 DEF RemoveLockFile, Goto, TypeOK
  <2>16. CASE RemoveRunDir(t)
    BY <2>16, <1>0 DEF RemoveRunDir, Goto, TypeOK
  <2>17. CASE WriteLock(t)
    BY <2>17, <1>0 DEF WriteLock, Goto, TypeOK
  <2>18. CASE CreateFails(t)
    BY <2>18, <1>0 DEF CreateFails, Goto, TypeOK
  <2>19. CASE CallFails(t)
    BY <2>19, <1>0 DEF CallFails, Goto, TypeOK
  <2> QED BY <1>1, <2>1, <2>2, <2>3, <2>4, <2>5, <2>6, <2>7, <2>8, <2>9, <2>10, <2>11,
             <2>12, <2>13, <2>14, <2>15, <2>16, <2>17, <2>18, <2>19 DEF Task
<1>2. ASSUME NEW s \in Runs, StartSweep(s) \/ Sweeper(s) PROVE InodeInv'
  <2>1. CASE StartSweep(s)
    BY <2>1, <1>0 DEF StartSweep, SweepStep, TypeOK, SweepState, NextDir, SweepDone
  <2>2. CASE SweepOpen(s)
    <3> USE <2>2, <1>0 DEF SweepOpen, SweepStep, TypeOK, SweepState
    <3> QED
      <4>1. PICK r \in sweep[s].queue :
              \/ /\ lockFile[r] # None
                 /\ sweep' = [sweep EXCEPT ![s] =
                      [[sweep[s] EXCEPT !.queue = @ \ {r}]
                         EXCEPT !.at = "tryLock", !.dir = r,
                                !.inode = lockFile[r]]]
              \/ sweep' = [sweep EXCEPT ![s] =
                      [sweep[s] EXCEPT !.queue = @ \ {r}]]
        OBVIOUS
      <4> DEFINE rest == [sweep[s] EXCEPT !.queue = @ \ {r}]
                 found == [rest EXCEPT !.at = "tryLock", !.dir = r,
                                       !.inode = lockFile[r]]
      <4>2. r \in Runs /\ rest.at = "idle" /\ rest \in SweepState
        BY <4>1
      <4>3. CASE sweep' = [sweep EXCEPT ![s] = rest]
        BY <4>2, <4>3 DEF InodeInv
      <4>4. CASE lockFile[r] # None /\ sweep' = [sweep EXCEPT ![s] = found]
        <5>1. found.at = "tryLock" /\ found.dir = r /\ found.inode = lockFile[r]
          BY <4>2
        <5>2. RunOf(lockFile[r]) = r
          BY <4>2, <4>4 DEF InodeInv
        <5>3. sweep'[s] = found /\ \A q \in Runs \ {s} : sweep'[q] = sweep[q]
          BY <4>4
        <5>4. lockFile' = lockFile /\ opened' = opened
          OBVIOUS
        <5> HIDE DEF found, rest, SweepOpen, SweepStep
        <5> QED BY <5>1, <5>2, <5>3, <5>4
      <4> QED BY <4>1, <4>3, <4>4
  <2>3. CASE SweepTryLock(s)
    <3>1. lockFile' = lockFile /\ opened' = opened
      BY <2>3 DEF SweepTryLock, SweepStep
    <3>2. \/ SweepStep(s, "tryLock", [sweep[s] EXCEPT !.at = "list"])
          \/ SweepStep(s, "tryLock", NextDir(s))
      BY <2>3 DEF SweepTryLock
    <3>3. CASE SweepStep(s, "tryLock", [sweep[s] EXCEPT !.at = "list"])
      BY <3>1, <3>3, <1>0 DEF SweepStep, TypeOK, SweepState
    <3>4. CASE SweepStep(s, "tryLock", NextDir(s))
      BY <3>1, <3>4, <1>0 DEF SweepStep, TypeOK, SweepState, NextDir, SweepDone
    <3> QED BY <3>2, <3>3, <3>4
  <2>4. CASE SweepList(s)
    <3> USE <2>4, <1>0 DEF SweepList, KeepSwept, SweepStep, TypeOK, SweepState
    <3> QED
      <4>1. \A u \in Trees(sweep[s].dir) : RunOf(u) = sweep[s].dir
        BY DEF Trees
      <4>2. CASE sweep' = [sweep EXCEPT ![s] = [sweep[s] EXCEPT
                              !.at = "remove", !.todo = Trees(sweep[s].dir)]]
        <5>1. /\ sweep'[s].todo = Trees(sweep[s].dir) /\ sweep[s].at = "list"
              /\ sweep'[s].dir = sweep[s].dir /\ sweep'[s].inode = sweep[s].inode
          BY <4>2
        <5> QED BY <4>1, <4>2, <5>1 DEF InodeInv
      <4>3. CASE sweep' = [sweep EXCEPT ![s] = NextDir(s)]
        BY <4>3 DEF NextDir, SweepDone
      <4> QED BY <4>2, <4>3
  <2>5. CASE SweepRemove(s)
    BY <2>5, <1>0 DEF SweepRemove, SweepStep, TypeOK, SweepState, NextDir, SweepDone
  <2>6. CASE SweepCheck(s)
    <3> USE <2>6, <1>0 DEF SweepCheck, KeepSwept, SweepStep, TypeOK, SweepState
    <3> QED
      <4>1. CASE sweep' = [sweep EXCEPT ![s] = [sweep[s] EXCEPT !.at = "unlock"]]
        BY <4>1 DEF InodeInv
      <4>2. CASE sweep' = [sweep EXCEPT ![s] = NextDir(s)]
        BY <4>2 DEF NextDir, SweepDone
      <4> QED BY <4>1, <4>2
  <2>7. CASE SweepUnlock(s)
    BY <2>7, <1>0 DEF SweepUnlock, SweepStep, TypeOK, SweepState, NextDir, SweepDone
  <2>8. CASE SweepRemoveLock(s)
    BY <2>8, <1>0 DEF SweepRemoveLock, SweepStep, TypeOK, SweepState, NextDir, SweepDone
  <2>9. CASE SweepRemoveDir(s)
    BY <2>9, <1>0 DEF SweepRemoveDir, SweepStep, TypeOK, SweepState, NextDir, SweepDone
  <2>10. CASE EndSweep(s)
    BY <2>10, <1>0 DEF EndSweep, SweepStep, TypeOK, SweepState, NextDir, SweepDone
  <2>11. CASE SweepCallFails(s)
    <3>1. OthersStay(s) /\ SweepFailure(s)
      BY <1>0, <2>11, SweepFails
    <3>2. /\ lockFile' = lockFile /\ opened' = opened
          /\ \A q \in Runs \ {s} : sweep'[q] = sweep[q]
      BY <3>1 DEF OthersStay, SweepFailure
    <3>3. \/ sweep'[s].at = "idle"
          \/ /\ sweep[s].at # "idle" /\ sweep'[s].dir = sweep[s].dir
             /\ sweep'[s].inode = sweep[s].inode
             /\ sweep'[s].at = "remove" =>
                  sweep[s].at = "remove" /\ sweep'[s].todo \subseteq sweep[s].todo
      BY <3>1 DEF SweepFailure, SweeperAt, SweeperLeaves
    <3> QED BY <3>2, <3>3
  <2> QED BY <1>2, <2>1, <2>2, <2>3, <2>4, <2>5, <2>6, <2>7, <2>8, <2>9,
             <2>10, <2>11 DEF Sweeper
<1>3. ASSUME NEW r \in Runs, Crash(r) PROVE InodeInv'
  BY <1>0, <1>3 DEF Crash, TypeOK
<1>4. CASE UNCHANGED vars
  BY <1>0, <1>4 DEF vars
<1> QED BY <1>1, <1>2, <1>3, <1>4 DEF Next

-----------------------------------------------------------------------------
(* CleanExit says nothing of the states before the last task has ended: what *)
(* carries it through them is that whatever a live run has on disk, and no   *)
(* worktree keeps, is some task's or some sweeper's to remove; a task whose  *)
(* lock fails leaves it to the one who has the flock.                        *)

\* A directory that holds something exists; a run that has not finished its
\* sweep has none; a sweeper between two directories is in none.
DirInv ==
  /\ \A r \in Runs : lockFile[r] # None \/ Trees(r) # {} => dir[r]
  /\ \A r \in Runs : run[r] \in {"new", "sweeping"} => ~dir[r]
  /\ \A s \in Runs : sweep[s].at = "idle" => sweep[s].dir = None

\* A locked inode is locked by the lease that opened it, being written or with
\* an Arc or a drop of it alive, or by a sweeper at work on it.
HolderInv ==
  \A i \in Tasks :
    /\ flock[i] \in Tasks =>
         /\ opened[flock[i]] = i
         /\ \/ pc[flock[i]] = "write"
            \/ \E u \in Tasks : pc[u] \in Owning /\ lease[u] = flock[i]
    /\ flock[i] \in Runs =>
         /\ sweep[flock[i]].at \in {"list", "remove", "unlock"}
         /\ sweep[flock[i]].inode = i

\* Who is still to take away the name of a lock file, and who the directory.
LockParty(r) ==
  \/ \E u \in InodeOf(r) : pc[u] \in Owning \cup {"tryLock", "write", "rmLock"}
  \/ \E s \in Runs : sweep[s].dir = r /\ sweep[s].at # "rmDir"

DirParty(r) ==
  \/ \E u \in InodeOf(r) : pc[u] \in Owning \cup {"open", "tryLock", "write", "rmLock", "rmDir"}
  \/ \E s \in Runs : sweep[s].dir = r

\* What is on disk of a live run without worktrees is somebody's to remove, as
\* long as no call on its directory has failed.
PartyInv ==
  \A r \in Runs : run[r] = "up" /\ Trees(r) = {} /\ ~fsError[r] =>
    /\ lockFile[r] # None => LockParty(r)
    /\ dir[r] => DirParty(r)

\* A directory is entered by the inode that its lock file's name leads to.
LEMMA SweepOpens ==
  ASSUME TypeOK, NEW s \in Runs, SweepOpen(s)
  PROVE  /\ OthersStay(s) /\ sweep[s].at = "idle"
         /\ flock' = flock /\ dir' = dir /\ lockFile' = lockFile /\ trees' = trees
         /\ fsError' = fsError
         /\ \/ sweep'[s].at = "idle" /\ sweep'[s].dir = sweep[s].dir
            \/ /\ sweep'[s].at = "tryLock"
               /\ sweep'[s].dir \in Runs
<1> DEFINE rest(r) == [sweep[s] EXCEPT !.queue = @ \ {r}]
           found(r) == [rest(r) EXCEPT !.at = "tryLock", !.dir = r,
                                       !.inode = lockFile[r]]
<1>1. PICK r \in sweep[s].queue :
        SweepStep(s, "idle", rest(r)) \/ SweepStep(s, "idle", found(r))
  BY ZenonT(30) DEF SweepOpen
<1>2. sweep[s] \in SweepState /\ r \in Runs /\ lockFile[r] \in Tasks \cup {None}
  BY DEF SweepState, TypeOK
<1>3. /\ rest(r) \in SweepState
      /\ rest(r).at = sweep[s].at /\ rest(r).dir = sweep[s].dir
  BY <1>2 DEF SweepState
<1>4. found(r) \in SweepState /\ found(r).at = "tryLock" /\ found(r).dir = r
  BY <1>2, <1>3 DEF SweepState, SweepPoints
<1>5. UNCHANGED <<flock, diskVars>>
  BY DEF SweepOpen
<1> HIDE DEF rest, found
<1> QED
  BY <1>1, <1>2, <1>3, <1>4, <1>5 DEF SweepStep, OthersStay, TypeOK

\* What the steps of a sweeper that has opened a lock file see and do.
SweepEffect(s) ==
  LET z == sweep[s] IN
  \/ /\ z.at = "tryLock" /\ UNCHANGED diskVars
     /\ \/ /\ flock[z.inode] = None /\ SweeperAt(s, "list")
           /\ flock' = [flock EXCEPT ![z.inode] = s]
        \/ flock[z.inode] # None /\ SweeperLeaves(s) /\ flock' = flock
  \/ /\ z.at = "list" /\ UNCHANGED diskVars
     /\ \/ dir[z.dir] /\ SweeperAt(s, "remove") /\ flock' = flock
        \/ /\ ~dir[z.dir] /\ SweeperLeaves(s)
           /\ flock' = [flock EXCEPT ![z.inode] = None]
  \/ /\ z.at = "remove" /\ SweeperAt(s, "remove") /\ UNCHANGED <<flock, dir, lockFile>>
     /\ \E t \in z.todo : trees' = trees \ {t} \/ trees' = trees
  \/ /\ z.at = "remove" /\ UNCHANGED diskVars
     /\ \/ SweeperAt(s, "unlock") /\ flock' = flock
        \/ /\ ~dir[z.dir] \/ Trees(z.dir) # {}
           /\ SweeperLeaves(s)
           /\ flock' = [flock EXCEPT ![z.inode] = None]
  \/ /\ z.at = "unlock" /\ SweeperAt(s, "rmLock") /\ UNCHANGED diskVars
     /\ flock' = [flock EXCEPT ![z.inode] = None]
  \/ /\ z.at = "rmLock" /\ SweeperAt(s, "rmDir") /\ UNCHANGED <<flock, dir, trees>>
     /\ lockFile' = [lockFile EXCEPT ![z.dir] = None]
  \/ /\ z.at = "rmDir" /\ SweeperLeaves(s) /\ UNCHANGED <<flock, lockFile, trees>>
     /\ dir' = [dir EXCEPT ![z.dir] = @ /\ ~DirIsEmpty(z.dir)]

SweepWork(s) ==
  \/ SweepTryLock(s) \/ SweepList(s) \/ SweepRemove(s) \/ SweepCheck(s)
  \/ SweepUnlock(s) \/ SweepRemoveLock(s) \/ SweepRemoveDir(s)

\* A sweeper's step has that effect and touches nothing else.
LEMMA SweepWorks ==
  ASSUME TypeOK, NEW s \in Runs, SweepWork(s)
  PROVE  OthersStay(s) /\ SweepEffect(s) /\ fsError' = fsError
<1>1. \A from : \A to \in SweepPoints :
        SweepStep(s, from, [sweep[s] EXCEPT !.at = to])
          => OthersStay(s) /\ SweeperAt(s, to) /\ sweep[s].at = from
  BY SweepGoesOn
<1>2. \A from : SweepStep(s, from, NextDir(s))
                  => OthersStay(s) /\ SweeperLeaves(s) /\ sweep[s].at = from
  BY SweepLeaves
<1>3. sweep[s] \in SweepState
  BY DEF TypeOK
<1> USE DEF SweepPoints, SweepEffect
<1>4. CASE SweepTryLock(s)
  BY <1>1, <1>2, <1>4 DEF SweepTryLock
<1>5. CASE SweepList(s)
  <2> DEFINE next == [sweep[s] EXCEPT !.at = "remove", !.todo = Trees(sweep[s].dir)]
  <2>1. Trees(sweep[s].dir) \in SUBSET Tasks
    BY DEF Trees, TypeOK
  <2>2. /\ next \in SweepState /\ next.at = "remove"
        /\ next.dir = sweep[s].dir /\ next.inode = sweep[s].inode
    BY <1>3, <2>1 DEF SweepState
  <2> HIDE DEF next
  <2>3. CASE dir[sweep[s].dir] /\ SweepStep(s, "list", next) /\ flock' = flock
    BY <1>5, <2>2, <2>3 DEF SweepList, SweepStep, OthersStay, SweeperAt, TypeOK
  <2>4. CASE ~dir[sweep[s].dir] /\ KeepSwept(s, "list")
    BY <1>2, <1>5, <2>4 DEF SweepList, KeepSwept
  <2> QED
    BY <1>5, <2>3, <2>4 DEF SweepList, next
<1>6. CASE SweepRemove(s)
  <2>1. PICK t \in sweep[s].todo :
          /\ SweepStep(s, "remove", [sweep[s] EXCEPT !.todo = @ \ {t}])
          /\ trees' = trees \ {t} \/ trees' = trees
    BY <1>6 DEF SweepRemove
  <2> DEFINE next == [sweep[s] EXCEPT !.todo = @ \ {t}]
  <2>2. /\ next \in SweepState /\ next.at = sweep[s].at
        /\ next.dir = sweep[s].dir /\ next.inode = sweep[s].inode
    BY <1>3 DEF SweepState
  <2> HIDE DEF next
  <2>3. SweepStep(s, "remove", next)
    BY <2>1 DEF next
  <2> QED
    BY ZenonT(40), <1>6, <2>1, <2>2, <2>3 DEF SweepRemove, SweepStep, OthersStay, SweeperAt, TypeOK
<1>7. CASE SweepCheck(s)
  BY <1>1, <1>2, <1>7 DEF SweepCheck, KeepSwept
<1>8. CASE SweepUnlock(s)
  BY <1>1, <1>8 DEF SweepUnlock
<1>9. CASE SweepRemoveLock(s)
  BY <1>1, <1>9 DEF SweepRemoveLock
<1>10. CASE SweepRemoveDir(s)
  BY <1>2, <1>10 DEF SweepRemoveDir
<1>11. fsError' = fsError
  BY DEF SweepWork, SweepTryLock, SweepList, KeepSwept, SweepRemove, SweepCheck,
     SweepUnlock, SweepRemoveLock, SweepRemoveDir
<1> QED
  BY <1>4, <1>5, <1>6, <1>7, <1>8, <1>9, <1>10, <1>11 DEF SweepWork

\* Every step keeps the directories.
LEMMA DirStep ==
  ASSUME LeaseInv, InodeInv, DirInv, [Next]_vars PROVE DirInv'
<1> USE RunOfTask, LeaseAssumption DEF DirInv, Trees, Up
<1>0. TypeOK /\ TypeOK'
  BY TypeStep DEF LeaseInv
<1>1. ASSUME NEW t \in Tasks, Task(t) PROVE DirInv'
  <2>1. CASE Begin(t)
    BY <2>1, <1>0 DEF Begin, Goto, TypeOK
  <2>2. CASE ShareLease(t)
    BY <2>2, <1>0 DEF ShareLease, Goto, TypeOK
  <2>3. CASE NewLease(t)
    BY <2>3, <1>0 DEF NewLease, Goto, TypeOK
  <2>4. CASE MakeRunDir(t)
    BY <2>4, <1>0 DEF MakeRunDir, Goto, TypeOK
  <2>5. CASE OpenLock(t)
    BY <2>5, <1>0 DEF OpenLock, Goto, TypeOK
  <2>6. CASE TryLock(t)
    BY <2>6, <1>0 DEF TryLock, Goto, TypeOK
  <2>7. CASE LeaseFails(t)
    BY <2>7, <1>0 DEF LeaseFails, Goto, TypeOK
  <2>8. CASE AddWorktree(t)
    BY <2>8, <1>0 DEF AddWorktree, Goto, TypeOK
  <2>9. CASE FinishUse(t)
    BY <2>9, <1>0 DEF FinishUse, Goto, TypeOK
  <2>10. CASE RemoveWorktree(t)
    BY <2>10, <1>0 DEF RemoveWorktree, Goto, TypeOK
  <2>11. CASE DropArc(t)
    BY <2>11, <1>0 DEF DropArc, Goto, TypeOK
  <2>12. CASE KeepRunDir(t)
    BY <2>12, <1>0 DEF KeepRunDir, Goto, TypeOK
  <2>13. CASE SeeRunDirEmpty(t)
    BY <2>13, <1>0 DEF SeeRunDirEmpty, Goto, TypeOK
  <2>14. CASE UnlockLease(t)
    BY <2>14, <1>0 DEF UnlockLease, Goto, TypeOK
  <2>15. CASE RemoveLockFile(t)
    BY <2>15, <1>0 DEF RemoveLockFile, Goto, TypeOK
  <2>16. CASE RemoveRunDir(t)
    BY <2>16, <1>0 DEF RemoveRunDir, Goto, TypeOK, DirIsEmpty
  <2>17. CASE WriteLock(t)
    BY <2>17, <1>0 DEF WriteLock, Goto, TypeOK
  <2>18. CASE CreateFails(t)
    BY <2>18, <1>0 DEF CreateFails, Goto, TypeOK
  <2>19. CASE CallFails(t)
    BY <2>19, <1>0 DEF CallFails, Goto, TypeOK
  <2> QED BY <1>1, <2>1, <2>2, <2>3, <2>4, <2>5, <2>6, <2>7, <2>8, <2>9, <2>10, <2>11,
             <2>12, <2>13, <2>14, <2>15, <2>16, <2>17, <2>18, <2>19 DEF Task
<1>2. ASSUME NEW s \in Runs, StartSweep(s) \/ Sweeper(s) PROVE DirInv'
  <2>1. CASE StartSweep(s)
    BY <2>1, <1>0 DEF StartSweep, SweepStep, TypeOK, SweepState, NextDir, SweepDone
  <2>2. CASE SweepOpen(s)
    BY <2>2, <1>0, SweepOpens DEF OthersStay, TypeOK
  <2>3. CASE SweepWork(s)
    <3>1. OthersStay(s) /\ SweepEffect(s)
      BY <1>0, <2>3, SweepWorks
    <3>2. sweep[s].at # "idle" => sweep[s].dir \in Runs
      BY DEF LeaseInv, SweepInv
    <3>3. trees' \subseteq trees /\ run' = run
      BY <3>1 DEF SweepEffect, OthersStay
    <3>4. \A r \in Runs : dir'[r] = dir[r] \/ (~dir'[r] /\ DirIsEmpty(r))
      BY <1>0, <3>1, <3>2 DEF SweepEffect, TypeOK
    <3>5. \A r \in Runs : lockFile'[r] = lockFile[r] \/ lockFile'[r] = None
      BY <1>0, <3>1, <3>2 DEF SweepEffect, TypeOK
    <3>6. \A q \in Runs : sweep'[q].at = "idle" => sweep'[q].dir = None
      BY <3>1, <3>2 DEF SweepEffect, OthersStay, SweeperAt, SweeperLeaves
    <3>7. \A r \in Runs : ~dir'[r] /\ dir[r] => lockFile'[r] = lockFile[r]
      BY <1>0, <3>1, <3>2 DEF SweepEffect, TypeOK
    <3> QED BY <1>0, <3>3, <3>4, <3>5, <3>6, <3>7 DEF DirIsEmpty, TypeOK
  <2>4. CASE EndSweep(s)
    BY <2>4, <1>0 DEF EndSweep, SweepStep, TypeOK, SweepState, NextDir, SweepDone,
       StartInv
  <2>5. CASE SweepCallFails(s)
    <3>1. OthersStay(s) /\ SweepFailure(s)
      BY <1>0, <2>5, SweepFails
    <3>2. \A q \in Runs : sweep'[q].at = "idle" => sweep'[q].dir = None
      BY <3>1 DEF SweepFailure, OthersStay, SweeperAt, SweeperLeaves
    <3> QED BY <1>0, <3>1, <3>2 DEF SweepFailure, OthersStay, TypeOK
  <2> QED BY <1>2, <2>1, <2>2, <2>3, <2>4, <2>5 DEF Sweeper, SweepWork
<1>3. ASSUME NEW r \in Runs, Crash(r) PROVE DirInv'
  BY <1>0, <1>3 DEF Crash, TypeOK
<1>4. CASE UNCHANGED vars
  BY <1>0, <1>4 DEF vars
<1> QED BY <1>1, <1>2, <1>3, <1>4 DEF Next

\* Every step keeps who has the flock of an inode.
LEMMA HolderStep ==
  ASSUME LeaseInv, HolderInv, [Next]_vars PROVE HolderInv'
<1> USE RunOfTask, LeaseAssumption DEF HolderInv, Owning, Holding, InodeOf
<1>0. TypeOK /\ TypeOK'
  BY TypeStep DEF LeaseInv
<1>h. \A i \in Tasks : flock[i] \in Tasks =>
        pc[flock[i]] \in {"write", "done"} \cup Holding \cup Dropping
  BY DEF LeaseInv, FlockInv
<1>1. ASSUME NEW t \in Tasks, Task(t) PROVE HolderInv'
  <2>1. CASE Begin(t)
    BY <2>1, <1>0 DEF Begin, Goto, TypeOK
  <2>2. CASE ShareLease(t)
    BY <2>2, <1>0 DEF ShareLease, Goto, TypeOK, LeaseInv, FlockInv, MutexInv, ArcInv,
       Up, Dropping, Creating
  <2>3. CASE NewLease(t)
    BY <2>3, <1>0 DEF NewLease, Goto, TypeOK
  <2>4. CASE MakeRunDir(t)
    BY <2>4, <1>0 DEF MakeRunDir, Goto, TypeOK
  <2>5. CASE OpenLock(t)
    <3> USE <2>5, <1>0 DEF OpenLock, Goto, TypeOK
    <3>1. /\ pc[t] \in {"open", "tryLock"} /\ flock' = flock /\ lease' = lease
          /\ pc' = [pc EXCEPT ![t] = pc'[t]]
          /\ \A u \in Tasks : u # t => opened'[u] = opened[u]
          /\ sweep' = sweep
      OBVIOUS
    <3>2. \A i \in Tasks : flock[i] # t
      BY <1>h, <3>1 DEF Dropping
    <3> HIDE DEF OpenLock, Goto
    <3> QED BY <3>1, <3>2
  <2>6. CASE TryLock(t)
    BY <2>6, <1>0 DEF TryLock, Goto, TypeOK, LeaseInv, FlockInv, MutexInv, ArcInv, Up,
       Dropping, Creating
  <2>7. CASE LeaseFails(t)
    <3> USE <2>7, <1>0 DEF LeaseFails, Goto, TypeOK
    <3>1. /\ pc[t] \in {"open", "tryLock"} /\ flock' = flock /\ lease' = lease
          /\ pc' = [pc EXCEPT ![t] = pc'[t]]
          /\ \A u \in Tasks : u # t => opened'[u] = opened[u]
          /\ sweep' = sweep
      OBVIOUS
    <3>2. \A i \in Tasks : flock[i] # t
      BY <1>h, <3>1 DEF Dropping
    <3> HIDE DEF LeaseFails, Goto
    <3> QED BY <3>1, <3>2
  <2>8. CASE AddWorktree(t)
    BY <2>8, <1>0 DEF AddWorktree, Goto, TypeOK
  <2>9. CASE FinishUse(t)
    BY <2>9, <1>0 DEF FinishUse, Goto, TypeOK
  <2>10. CASE RemoveWorktree(t)
    BY <2>10, <1>0 DEF RemoveWorktree, Goto, TypeOK
  <2>11. CASE DropArc(t)
    BY <2>11, <1>0 DEF DropArc, Goto, TypeOK, LeaseInv, FlockInv, MutexInv, ArcInv,
       Up, Dropping, Creating
  <2>12. CASE KeepRunDir(t)
    BY <2>12, <1>0 DEF KeepRunDir, Goto, TypeOK, LeaseInv, FlockInv, MutexInv, ArcInv,
       Up, Dropping, Creating
  <2>13. CASE SeeRunDirEmpty(t)
    BY <2>13, <1>0 DEF SeeRunDirEmpty, Goto, TypeOK
  <2>14. CASE UnlockLease(t)
    BY <2>14, <1>0 DEF UnlockLease, Goto, TypeOK, LeaseInv, FlockInv, MutexInv,
       ArcInv, Up, Dropping, Creating
  <2>15. CASE RemoveLockFile(t)
    BY <2>15, <1>0 DEF RemoveLockFile, Goto, TypeOK
  <2>16. CASE RemoveRunDir(t)
    BY <2>16, <1>0 DEF RemoveRunDir, Goto, TypeOK
  <2>17. CASE WriteLock(t)
    BY <2>17, <1>0 DEF WriteLock, Goto, TypeOK, LeaseInv, FlockInv, MutexInv,
       ArcInv, Up, Dropping, Creating
  <2>18. CASE CreateFails(t)
    BY <2>18, <1>0 DEF CreateFails, Goto, TypeOK, LeaseInv, FlockInv, MutexInv,
       ArcInv, Up, Dropping, Creating
  <2>19. CASE CallFails(t)
    <3> USE <2>19, <1>0 DEF CallFails, Goto, TypeOK
    <3>1. CASE pc[t] \in {"rmLock", "rmDir"}
      BY <3>1
    <3>2. CASE pc[t] = "add"
      BY <3>2
    <3>3. CASE pc[t] = "isEmpty"
      <4>1. /\ opened' = opened /\ sweep' = sweep
            /\ pc' = [pc EXCEPT ![t] = "done"]
            /\ lease' = [lease EXCEPT ![t] = None]
            /\ flock' = [flock EXCEPT ![opened[lease[t]]] = None]
        BY <3>3
      <4>2. ASSUME NEW i \in Tasks, flock'[i] \in Tasks
            PROVE  /\ flock'[i] = flock[i] /\ opened[flock[i]] = i
                   /\ \/ pc'[flock[i]] = "write"
                      \/ \E u \in Tasks : pc'[u] \in Owning /\ lease'[u] = flock[i]
        <5>1. flock'[i] = flock[i] /\ i # opened[lease[t]]
          BY <4>1, <4>2
        <5>2. /\ opened[flock[i]] = i
              /\ \/ pc[flock[i]] = "write"
                 \/ \E u \in Tasks : pc[u] \in Owning /\ lease[u] = flock[i]
          BY <4>2, <5>1 DEF HolderInv
        <5> QED BY <3>3, <4>1, <4>2, <5>1, <5>2
      <4>3. ASSUME NEW i \in Tasks, flock'[i] \in Runs PROVE flock'[i] = flock[i]
        BY <4>1, <4>3
      <4> HIDE DEF CallFails
      <4> QED BY <4>1, <4>2, <4>3
    <3> QED BY <3>1, <3>2, <3>3
  <2> QED BY <1>1, <2>1, <2>2, <2>3, <2>4, <2>5, <2>6, <2>7, <2>8, <2>9, <2>10, <2>11,
             <2>12, <2>13, <2>14, <2>15, <2>16, <2>17, <2>18, <2>19 DEF Task
<1>2. ASSUME NEW s \in Runs, StartSweep(s) \/ Sweeper(s) PROVE HolderInv'
  <2>1. CASE StartSweep(s)
    BY <2>1, <1>0 DEF StartSweep, SweepStep, TypeOK, SweepState, NextDir, SweepDone
  <2>2. CASE SweepOpen(s)
    BY <2>2, <1>0, SweepOpens DEF OthersStay, TypeOK
  <2>3. CASE SweepWork(s)
    <3>1. OthersStay(s) /\ SweepEffect(s)
      BY <1>0, <2>3, SweepWorks
    <3>2. /\ sweep[s].at # "idle" => sweep[s].inode \in Tasks
          /\ sweep[s].at \in {"list", "remove", "unlock"} =>
               flock[sweep[s].inode] = s
      BY <2>3 DEF LeaseInv, SweepInv, SweepWork, SweepTryLock, SweepList, KeepSwept,
         SweepRemove, SweepCheck, SweepUnlock, SweepRemoveLock, SweepRemoveDir,
         SweepStep
    <3>3. ASSUME NEW i \in Tasks, flock'[i] = flock[i], flock[i] # s
          PROVE  /\ flock'[i] \in Tasks =>
                      /\ opened'[flock'[i]] = i
                      /\ \/ pc'[flock'[i]] = "write"
                         \/ \E u \in Tasks : pc'[u] \in Owning
                                              /\ lease'[u] = flock'[i]
                 /\ flock'[i] \in Runs =>
                      /\ sweep'[flock'[i]].at \in {"list", "remove", "unlock"}
                      /\ sweep'[flock'[i]].inode = i
      <4>1. /\ pc' = pc /\ lease' = lease /\ opened' = opened
            /\ \A q \in Runs \ {s} : sweep'[q] = sweep[q]
        BY <3>1 DEF OthersStay
      <4>2. CASE flock[i] \in Tasks
        <5>1. flock[i] \notin Runs
          BY <4>2
        <5>2. pc[flock[i]] = "write"
              \/ \E u \in Tasks : pc[u] \in Owning /\ lease[u] = flock[i]
          BY <4>2 DEF HolderInv
        <5>3. opened[flock[i]] = i
          BY <4>2 DEF HolderInv
        <5> HIDE DEF HolderInv, Owning, Holding
        <5> QED BY <3>3, <4>1, <4>2, <5>1, <5>2, <5>3
      <4>3. CASE flock[i] \in Runs
        BY <3>3, <4>1, <4>3 DEF HolderInv
      <4>4. CASE flock[i] \notin Tasks \cup Runs
        BY <3>3, <4>4
      <4> QED BY <4>2, <4>3, <4>4
    <3>4. ASSUME NEW i \in Tasks, flock'[i] = s
          PROVE  /\ sweep'[s].at \in {"list", "remove", "unlock"}
                 /\ sweep'[s].inode = i
      BY <1>0, <3>1, <3>2, <3>4 DEF SweepEffect, SweeperAt, SweeperLeaves, TypeOK
    <3>5. \A i \in Tasks : flock'[i] = flock[i] \/ flock'[i] \in {s, None}
      BY <1>0, <3>1, <3>2 DEF SweepEffect, TypeOK
    <3> QED BY <3>3, <3>4, <3>5
  <2>4. CASE EndSweep(s)
    BY <2>4, <1>0 DEF EndSweep, SweepStep, TypeOK, SweepState, NextDir, SweepDone
  <2>5. CASE SweepCallFails(s)
    <3>1. OthersStay(s) /\ SweepFailure(s)
      BY <1>0, <2>5, SweepFails
    <3>2. sweep[s].at # "idle" => sweep[s].inode \in Tasks
      BY DEF LeaseInv, SweepInv
    <3>3. \A i \in Tasks : flock'[i] = flock[i] \/ flock'[i] = None
      BY <1>0, <3>1, <3>2 DEF SweepFailure, TypeOK
    <3>4. ASSUME NEW i \in Tasks, flock'[i] = s
          PROVE  /\ sweep'[s].at \in {"list", "remove", "unlock"}
                 /\ sweep'[s].inode = i
      BY <1>0, <3>1, <3>2, <3>3, <3>4
         DEF SweepFailure, SweeperAt, SweeperLeaves, TypeOK
    <3> QED BY <1>0, <3>1, <3>3, <3>4 DEF OthersStay
  <2> QED BY <1>2, <2>1, <2>2, <2>3, <2>4, <2>5 DEF Sweeper, SweepWork
<1>3. ASSUME NEW r \in Runs, Crash(r) PROVE HolderInv'
  BY <1>0, <1>3 DEF Crash, TypeOK
<1>4. CASE UNCHANGED vars
  BY <1>0, <1>4 DEF vars
<1> QED BY <1>1, <1>2, <1>3, <1>4 DEF Next

\* Who has the flock of an inode of a run is at work in the run's directory.
LEMMA HolderIsParty ==
  ASSUME LeaseInv, InodeInv, HolderInv, NEW i \in Tasks, flock[i] # None
  PROVE  \/ \E u \in InodeOf(RunOf(i)) : pc[u] \in Owning \cup {"write"}
         \/ \E s \in Runs : sweep[s].dir = RunOf(i)
                            /\ sweep[s].at \in {"list", "remove", "unlock"}
<1>1. CASE flock[i] \in Tasks
  <2>1. CASE pc[flock[i]] = "write"
    <3>1. RunOf(i) = RunOf(flock[i])
      BY <1>1, LeaseAssumption DEF HolderInv, InodeInv
    <3> QED BY <1>1, <2>1, <3>1 DEF InodeOf
  <2>2. ASSUME NEW u \in Tasks, pc[u] \in Owning, lease[u] = flock[i]
        PROVE  RunOf(i) = RunOf(u)
    <3>1. opened[lease[u]] = i /\ RunOf(lease[u]) = RunOf(u) /\ lease[u] \in Tasks
      BY <1>1, <2>2 DEF HolderInv, LeaseInv, FlockInv, InodeOf
    <3> QED BY <3>1, LeaseAssumption DEF InodeInv
  <2> QED BY <1>1, <2>1, <2>2 DEF HolderInv, InodeOf
<1>2. CASE flock[i] \in Runs
  BY <1>2 DEF HolderInv, InodeInv
<1> QED BY <1>1, <1>2 DEF LeaseInv, TypeOK

\* Every step keeps somebody to clean up.
LEMMA PartyStep ==
  ASSUME LeaseInv, InodeInv, DirInv, HolderInv, PartyInv, [Next]_vars PROVE PartyInv'
<1> USE RunOfTask, LeaseAssumption DEF PartyInv, Owning, Holding
<1>0. TypeOK /\ TypeOK'
  BY TypeStep DEF LeaseInv
<1>1. ASSUME NEW t \in Tasks, Task(t) PROVE PartyInv'
  <2>1. CASE Begin(t)
    BY <2>1, <1>0 DEF Begin, Goto, TypeOK, LockParty, DirParty, InodeOf, Trees
  <2>2. CASE ShareLease(t)
    BY <2>2, <1>0 DEF ShareLease, Goto, TypeOK, LockParty, DirParty, InodeOf, Trees
  <2>3. CASE NewLease(t)
    BY <2>3, <1>0 DEF NewLease, Goto, TypeOK, LockParty, DirParty, InodeOf, Trees
  <2>4. CASE MakeRunDir(t)
    BY <2>4, <1>0 DEF MakeRunDir, Goto, TypeOK, LockParty, DirParty, InodeOf, Trees
  <2>5. CASE OpenLock(t)
    BY <2>5, <1>0 DEF OpenLock, Goto, TypeOK, LockParty, DirParty, InodeOf, Trees
  <2>6. CASE TryLock(t)
    BY <2>6, <1>0 DEF TryLock, Goto, TypeOK, LockParty, DirParty, InodeOf, Trees
  <2>7. CASE LeaseFails(t)
    <3> USE <2>7, <1>0 DEF LeaseFails, Goto, TypeOK
    <3>1. \A r \in Runs : \A u \in InodeOf(r) : r # RunOf(t) => pc'[u] = pc[u]
      BY DEF InodeOf
    <3>2. CASE pc[t] = "open"
      <4>1. ~dir[RunOf(t)] /\ lockFile[RunOf(t)] = None
        BY <3>2 DEF DirInv
      <4> QED BY <3>1, <3>2, <4>1 DEF LockParty, DirParty, InodeOf, Trees
    <3>3. CASE pc[t] = "tryLock"
      <4>1. /\ opened[t] \in Tasks /\ RunOf(opened[t]) = RunOf(t)
            /\ flock[opened[t]] # None
        BY <3>3, LeaseAssumption DEF LeaseInv, MutexInv, InodeInv
      <4>2. \/ \E u \in InodeOf(RunOf(t)) : pc[u] \in Owning \cup {"write"}
            \/ \E q \in Runs : sweep[q].dir = RunOf(t)
                                /\ sweep[q].at \in {"list", "remove", "unlock"}
        BY <4>1, HolderIsParty
      <4>3. \A u \in Tasks : pc[u] \in Owning \cup {"write"} => pc'[u] = pc[u]
        BY <3>3
      <4> QED BY <3>1, <3>3, <4>2, <4>3 DEF LockParty, DirParty, InodeOf, Trees
    <3> QED BY <3>2, <3>3
  <2>8. CASE AddWorktree(t)
    BY <2>8, <1>0 DEF AddWorktree, Goto, TypeOK, LockParty, DirParty, InodeOf, Trees
  <2>9. CASE FinishUse(t)
    BY <2>9, <1>0 DEF FinishUse, Goto, TypeOK, LockParty, DirParty, InodeOf, Trees
  <2>10. CASE RemoveWorktree(t)
    BY <2>10, <1>0 DEF RemoveWorktree, Goto, TypeOK, LockParty, DirParty, InodeOf, Trees
  <2>11. CASE DropArc(t)
    BY <2>11, <1>0 DEF DropArc, Goto, TypeOK, LockParty, DirParty, InodeOf, Trees
  <2>12. CASE KeepRunDir(t)
    BY <2>12, <1>0 DEF KeepRunDir, Goto, TypeOK, DirInv, LockParty, DirParty, InodeOf,
       Trees
  <2>13. CASE SeeRunDirEmpty(t)
    BY <2>13, <1>0 DEF SeeRunDirEmpty, Goto, TypeOK, LockParty, DirParty, InodeOf, Trees
  <2>14. CASE UnlockLease(t)
    BY <2>14, <1>0 DEF UnlockLease, Goto, TypeOK, LockParty, DirParty, InodeOf, Trees
  <2>15. CASE RemoveLockFile(t)
    BY <2>15, <1>0 DEF RemoveLockFile, Goto, TypeOK, LockParty, DirParty, InodeOf, Trees
  <2>16. CASE RemoveRunDir(t)
    <3> USE <2>16, <1>0 DEF RemoveRunDir, Goto, TypeOK
    <3>1. \A r \in Runs : LockParty(r) => LockParty(r)' /\ DirParty(r)'
      BY DEF LockParty, DirParty, InodeOf
    <3>2. \A r \in Runs : r # RunOf(t) /\ DirParty(r) => DirParty(r)'
      BY DEF DirParty, InodeOf
    <3>3. dir'[RunOf(t)] => lockFile[RunOf(t)] # None \/ Trees(RunOf(t)) # {}
      BY DEF DirIsEmpty
    <3>4. \A r \in Runs : Trees(r)' = Trees(r) /\ lockFile'[r] = lockFile[r]
      BY DEF Trees
    <3>5. \A r \in Runs : r # RunOf(t) => dir'[r] = dir[r]
      OBVIOUS
    <3> QED BY <3>1, <3>2, <3>3, <3>4, <3>5
  <2>17. CASE WriteLock(t)
    BY <2>17, <1>0 DEF WriteLock, Goto, TypeOK, LockParty, DirParty, InodeOf, Trees
  <2>18. CASE CreateFails(t)
    BY <2>18, <1>0 DEF CreateFails, Goto, TypeOK, LockParty, DirParty, InodeOf, Trees
  <2>19. CASE CallFails(t)
    BY <2>19, <1>0 DEF CallFails, Goto, TypeOK, LockParty, DirParty, InodeOf, Trees
  <2> QED BY <1>1, <2>1, <2>2, <2>3, <2>4, <2>5, <2>6, <2>7, <2>8, <2>9, <2>10, <2>11,
             <2>12, <2>13, <2>14, <2>15, <2>16, <2>17, <2>18, <2>19 DEF Task
<1>2. ASSUME NEW s \in Runs, StartSweep(s) \/ Sweeper(s) PROVE PartyInv'
  <2>1. CASE StartSweep(s)
    BY <2>1, <1>0 DEF StartSweep, SweepStep, TypeOK, SweepState, NextDir, SweepDone,
       LockParty, DirParty, InodeOf, Trees
  <2>2. CASE SweepOpen(s)
    <3>1. /\ run' = run /\ pc' = pc /\ dir' = dir /\ lockFile' = lockFile
          /\ trees' = trees /\ fsError' = fsError
          /\ \A q \in Runs \ {s} : sweep'[q] = sweep[q]
      BY <1>0, <2>2, SweepOpens DEF OthersStay
    <3>2. sweep[s].dir = None
      BY <1>0, <2>2, SweepOpens DEF DirInv
    <3>3. \A r \in Runs : LockParty(r) => LockParty(r)'
      BY <3>1, <3>2 DEF LockParty, InodeOf
    <3>4. \A r \in Runs : DirParty(r) => DirParty(r)'
      BY <3>1, <3>2 DEF DirParty, InodeOf
    <3> QED BY <3>1, <3>3, <3>4 DEF Trees
  <2>3. CASE SweepWork(s)
    <3>1. OthersStay(s) /\ SweepEffect(s) /\ fsError' = fsError
      BY <1>0, <2>3, SweepWorks
    <3>2. /\ sweep[s].at # "idle"
          /\ sweep[s].dir \in Runs
          /\ sweep[s].inode \in Tasks /\ RunOf(sweep[s].inode) = sweep[s].dir
      BY <3>1 DEF SweepEffect, LeaseInv, SweepInv, InodeInv
    <3>3. PICK d \in Runs : d = sweep[s].dir
      BY <3>2
    <3>4. d # None
      BY <3>3, LeaseAssumption
    <3>5. ASSUME NEW r \in Runs, r # d, run'[r] = "up", Trees(r)' = {},
                 ~fsError'[r]
          PROVE  (lockFile'[r] # None => LockParty(r)') /\ (dir'[r] => DirParty(r)')
      <4>1. lockFile'[r] = lockFile[r] /\ dir'[r] = dir[r] /\ run'[r] = run[r]
        BY <1>0, <3>1, <3>2, <3>3, <3>5 DEF SweepEffect, OthersStay, TypeOK
      <4>2. Trees(r) = {}
        BY <3>1, <3>3, <3>5 DEF SweepEffect, InodeInv, Trees
      <4>3. \A q \in Runs : sweep[q].dir = r => sweep'[q] = sweep[q]
        BY <3>1, <3>3, <3>5 DEF OthersStay
      <4> QED BY <3>1, <3>5, <4>1, <4>2, <4>3 DEF OthersStay, LockParty, DirParty,
                 InodeOf
    <3>6. ASSUME run'[d] = "up", Trees(d)' = {}, ~fsError'[d]
          PROVE  (lockFile'[d] # None => LockParty(d)') /\ (dir'[d] => DirParty(d)')
      <4>1. CASE sweep'[s].dir = d /\ sweep'[s].at # "rmDir"
        BY <4>1 DEF LockParty, DirParty
      <4>2. CASE sweep'[s].at = "rmDir"
        <5>1. sweep'[s].dir = d /\ lockFile'[d] = None
          BY <1>0, <3>1, <3>2, <3>3, <4>2 DEF SweepEffect, SweeperAt, SweeperLeaves,
             TypeOK
        <5> QED BY <5>1 DEF DirParty
      <4>3. CASE SweeperLeaves(s)
        <5>1. CASE sweep[s].at = "tryLock"
          <6>1. /\ flock[sweep[s].inode] # None /\ UNCHANGED diskVars
                /\ \A q \in Runs : sweep[q].at \in {"list", "remove", "unlock"}
                                    => sweep'[q] = sweep[q]
            BY <3>1, <4>3, <5>1 DEF SweepEffect, SweeperAt, SweeperLeaves, OthersStay
          <6>2. \/ \E u \in InodeOf(d) : pc[u] \in Owning \cup {"write"}
                \/ \E q \in Runs : sweep[q].dir = d
                                    /\ sweep[q].at \in {"list", "remove", "unlock"}
            BY <3>2, <3>3, <6>1, HolderIsParty
          <6> QED BY <3>1, <6>1, <6>2 DEF OthersStay, LockParty, DirParty, InodeOf
        <5>2. CASE sweep[s].at = "rmDir"
          <6>1. /\ lockFile' = lockFile /\ trees' = trees
                /\ dir'[d] = (dir[d] /\ ~DirIsEmpty(d))
            BY <1>0, <3>1, <3>2, <3>3, <4>3, <5>2 DEF SweepEffect, TypeOK
          <6>2. lockFile'[d] # None => LockParty(d)'
            BY <3>1, <3>2, <3>3, <3>6, <5>2, <6>1
               DEF OthersStay, LockParty, InodeOf, Trees
          <6>3. LockParty(d)' => DirParty(d)'
            BY DEF LockParty, DirParty
          <6> QED BY <3>1, <3>3, <3>6, <6>1, <6>2, <6>3 DEF DirIsEmpty, OthersStay,
                     Trees
        <5>3. CASE sweep[s].at \in {"list", "remove"}
          <6>1. ~dir[d] \/ Trees(d) # {}
            BY <3>1, <3>3, <3>4, <4>3, <5>3 DEF SweepEffect, SweeperAt, SweeperLeaves
          <6>2. UNCHANGED diskVars
            BY <3>1, <3>3, <3>4, <4>3, <5>3 DEF SweepEffect, SweeperAt, SweeperLeaves
          <6> QED BY <3>2, <3>3, <3>6, <6>1, <6>2 DEF DirInv, Trees
        <5> QED BY <3>1, <3>2, <3>4, <4>3, <5>1, <5>2, <5>3
              DEF SweepEffect, SweeperAt, SweeperLeaves
      <4> QED BY <3>1, <3>3, <3>4, <4>1, <4>2, <4>3 DEF SweepEffect, SweeperAt,
                 SweeperLeaves
    <3> QED BY <3>2, <3>3, <3>5, <3>6
  <2>4. CASE EndSweep(s)
    BY <2>4, <1>0 DEF EndSweep, SweepStep, TypeOK, SweepState, NextDir, SweepDone,
       DirInv, LockParty, DirParty, InodeOf, Trees
  <2>5. CASE SweepCallFails(s)
    <3>1. OthersStay(s) /\ SweepFailure(s)
      BY <1>0, <2>5, SweepFails
    <3>2. ASSUME NEW r \in Runs, run'[r] = "up", Trees(r)' = {}, ~fsError'[r]
          PROVE  (lockFile'[r] # None => LockParty(r)') /\ (dir'[r] => DirParty(r)')
      <4>1. /\ lockFile'[r] = lockFile[r] /\ dir'[r] = dir[r] /\ run'[r] = run[r]
            /\ Trees(r) = {} /\ ~fsError[r]
        BY <3>1, <3>2 DEF SweepFailure, OthersStay, Trees
      <4>2. sweep[s].dir # r \/ sweep[s].at = "idle"
        BY <3>1, <3>2 DEF SweepFailure
      <4>3. \A q \in Runs : sweep[q].dir = r => sweep'[q].dir = r
                             /\ (sweep[q].at # "rmDir" => sweep'[q].at # "rmDir")
        BY <3>1, <4>2 DEF SweepFailure, OthersStay
      <4>4. /\ lockFile[r] # None => LockParty(r)
            /\ dir[r] => DirParty(r)
        BY <3>1, <3>2, <4>1 DEF OthersStay, PartyInv
      <4>5. pc' = pc
        BY <3>1 DEF OthersStay
      <4> HIDE DEF PartyInv, Owning, Holding
      <4> QED BY <4>1, <4>3, <4>4, <4>5 DEF LockParty, DirParty, InodeOf
    <3> QED BY <3>2
  <2> QED BY <1>2, <2>1, <2>2, <2>3, <2>4, <2>5 DEF Sweeper, SweepWork
<1>3. ASSUME NEW r \in Runs, Crash(r) PROVE PartyInv'
  BY <1>0, <1>3 DEF Crash, TypeOK, LockParty, DirParty, InodeOf, Trees
<1>4. CASE UNCHANGED vars
  BY <1>0, <1>4 DEF vars, LockParty, DirParty, InodeOf, Trees
<1> QED BY <1>1, <1>2, <1>3, <1>4 DEF Next

CleanInv == LeaseInv /\ InodeInv /\ DirInv /\ HolderInv /\ PartyInv

\* A run whose tasks have all ended, and that no sweeper is visiting, has no
\* inode locked, and leaves neither a lock file nor a directory behind unless a
\* call on its directory failed, whatever the order of its drops, creations and
\* failed creations, for any number of runs, commits and permits.
THEOREM CleanedUp == Spec => []CleanExit
<1>1. Init => CleanInv
  BY InitLease, LeaseAssumption DEF Init, CleanInv, InodeInv, DirInv, HolderInv,
     PartyInv, Trees, SweepDone
<1>2. CleanInv /\ [Next]_vars => CleanInv'
  BY LeaseStep, InodeStep, DirStep, HolderStep, PartyStep DEF CleanInv
<1>3. ASSUME CleanInv, NEW r \in Runs, run[r] = "up", Trees(r) = {},
             \A t \in InodeOf(r) : pc[t] \in {"done", "leaseError"},
             \A s \in Runs : sweep[s].dir # r
      PROVE  /\ \A i \in Tasks : flock[i] \notin InodeOf(r)
             /\ fsError[r] \/ (~dir[r] /\ lockFile[r] = None)
  <2>1. ASSUME NEW i \in Tasks, flock[i] \in InodeOf(r) PROVE FALSE
    <3>1. flock[i] \in Tasks /\ RunOf(flock[i]) = r /\ pc[flock[i]] # "write"
      BY <1>3, <2>1 DEF InodeOf
    <3>2. PICK u \in Tasks : pc[u] \in Owning /\ lease[u] = flock[i]
      BY <1>3, <3>1 DEF CleanInv, HolderInv
    <3>3. RunOf(u) = r
      BY <1>3, <3>1, <3>2 DEF CleanInv, LeaseInv, FlockInv, InodeOf
    <3> QED BY <1>3, <3>2, <3>3 DEF InodeOf, Owning, Holding
  <2>2. CASE ~fsError[r]
    <3>1. ~LockParty(r) /\ ~DirParty(r)
      BY <1>3 DEF LockParty, DirParty, Owning, Holding
    <3>2. (lockFile[r] # None => LockParty(r)) /\ (dir[r] => DirParty(r))
      BY <1>3, <2>2 DEF CleanInv, PartyInv
    <3> QED BY <2>1, <3>1, <3>2
  <2> QED BY <2>1, <2>2
<1>4. CleanInv => CleanExit
  BY <1>3 DEF CleanExit
<1> QED BY <1>1, <1>2, <1>4, PTL DEF Spec

-----------------------------------------------------------------------------
(* With one commit per run the lock file's name never outlives its inode    *)
(* while the run lives: then the flock that a sweeper takes is the flock of *)
(* the lease, and the sweep removes no worktree in use.  The run            *)
(* lease_sweep_race shows that a second commit is enough to lose this.      *)

OneCommit == \A c, d \in Commits : c = d

TreeInv == LeaseInv /\ InodeInv /\ LiveTreeKept

\* With one commit a run has one task.
LEMMA OneTask ==
  ASSUME OneCommit, NEW t \in Tasks, NEW u \in Tasks, RunOf(t) = RunOf(u)
  PROVE t = u
  BY DEF OneCommit, Tasks, RunOf

\* Every step keeps the live worktrees.
LEMMA TreeStep ==
  ASSUME OneCommit, TreeInv, [Next]_vars PROVE TreeInv'
<1> USE RunOfTask, LeaseAssumption DEF TreeInv, Up
<1>0. LeaseInv' /\ InodeInv' /\ TypeOK /\ TypeOK'
  BY LeaseStep, InodeStep DEF LeaseInv
<1>1. ASSUME NEW t \in Tasks, Task(t) PROVE TreeInv'
  <2>1. CASE Begin(t)
    BY <2>1, <1>0 DEF Begin, Goto, TypeOK, LiveTreeKept
  <2>2. CASE ShareLease(t)
    BY <2>2, <1>0 DEF ShareLease, Goto, TypeOK, LiveTreeKept
  <2>3. CASE NewLease(t)
    BY <2>3, <1>0 DEF NewLease, Goto, TypeOK, LiveTreeKept
  <2>4. CASE MakeRunDir(t)
    BY <2>4, <1>0 DEF MakeRunDir, Goto, TypeOK, LiveTreeKept
  <2>5. CASE OpenLock(t)
    BY <2>5, <1>0 DEF OpenLock, Goto, TypeOK, LiveTreeKept
  <2>6. CASE TryLock(t)
    BY <2>6, <1>0 DEF TryLock, Goto, TypeOK, LiveTreeKept
  <2>7. CASE LeaseFails(t)
    BY <2>7, <1>0 DEF LeaseFails, Goto, TypeOK, LiveTreeKept
  <2>8. CASE AddWorktree(t)
    BY <2>8, <1>0 DEF AddWorktree, Goto, TypeOK, LiveTreeKept
  <2>9. CASE FinishUse(t)
    BY <2>9, <1>0 DEF FinishUse, Goto, TypeOK, LiveTreeKept
  <2>10. CASE RemoveWorktree(t)
    BY <2>10, <1>0 DEF RemoveWorktree, Goto, TypeOK, LiveTreeKept
  <2>11. CASE DropArc(t)
    BY <2>11, <1>0 DEF DropArc, Goto, TypeOK, LiveTreeKept
  <2>12. CASE KeepRunDir(t)
    BY <2>12, <1>0 DEF KeepRunDir, Goto, TypeOK, LiveTreeKept
  <2>13. CASE SeeRunDirEmpty(t)
    BY <2>13, <1>0 DEF SeeRunDirEmpty, Goto, TypeOK, LiveTreeKept
  <2>14. CASE UnlockLease(t)
    BY <2>14, <1>0 DEF UnlockLease, Goto, TypeOK, LiveTreeKept
  <2>15. CASE RemoveLockFile(t)
    BY <2>15, <1>0 DEF RemoveLockFile, Goto, TypeOK, LiveTreeKept
  <2>16. CASE RemoveRunDir(t)
    BY <2>16, <1>0 DEF RemoveRunDir, Goto, TypeOK, LiveTreeKept
  <2>17. CASE WriteLock(t)
    BY <2>17, <1>0 DEF WriteLock, Goto, TypeOK, LiveTreeKept
  <2>18. CASE CreateFails(t)
    BY <2>18, <1>0 DEF CreateFails, Goto, TypeOK, LiveTreeKept
  <2>19. CASE CallFails(t)
    BY <2>19, <1>0 DEF CallFails, Goto, TypeOK, LiveTreeKept
  <2> QED BY <1>1, <2>1, <2>2, <2>3, <2>4, <2>5, <2>6, <2>7, <2>8, <2>9, <2>10, <2>11,
             <2>12, <2>13, <2>14, <2>15, <2>16, <2>17, <2>18, <2>19 DEF Task
<1>2. ASSUME NEW s \in Runs, StartSweep(s) \/ Sweeper(s) PROVE TreeInv'
  <2>1. CASE StartSweep(s)
    BY <2>1, <1>0 DEF StartSweep, SweepStep, TypeOK, SweepState, LiveTreeKept
  <2>2. CASE SweepOpen(s)
    BY <2>2, <1>0 DEF SweepOpen, SweepStep, TypeOK, SweepState, LiveTreeKept
  <2>3. CASE SweepTryLock(s)
    BY <2>3, <1>0 DEF SweepTryLock, SweepStep, TypeOK, SweepState, LiveTreeKept
  <2>4. CASE SweepList(s)
    BY <2>4, <1>0 DEF SweepList, KeepSwept, SweepStep, TypeOK, SweepState, LiveTreeKept
  <2>5. CASE SweepRemove(s)
    <3> USE <2>5, <1>0 DEF SweepRemove, SweepStep, TypeOK, SweepState
    <3> QED
      <4>1. PICK u \in sweep[s].todo : trees \ {u} \subseteq trees'
        OBVIOUS
      <4>2. /\ RunOf(u) = RunOf(sweep[s].inode) /\ u \in Tasks
            /\ sweep[s].inode \in Tasks /\ flock[sweep[s].inode] = s
        BY DEF InodeInv, LeaseInv, SweepInv
      <4>3. flock[u] = s
        BY <4>2, OneTask
      <4>4. ASSUME Up(u), pc[u] = "using" PROVE FALSE
        <5>1. /\ lease[u] \in Tasks /\ RunOf(lease[u]) = RunOf(u)
              /\ opened[lease[u]] \in Tasks
              /\ flock[opened[lease[u]]] = lease[u]
          BY <4>2, <4>4 DEF LeaseInv, FlockInv, Owning, Holding, InodeOf
        <5>2. lease[u] = u
          BY <4>2, <5>1, OneTask
        <5>3. RunOf(opened[u]) = RunOf(u) /\ opened[u] \in Tasks
          BY <4>2, <5>1, <5>2 DEF InodeInv
        <5>4. opened[u] = u
          BY <4>2, <5>3, OneTask
        <5> QED BY <4>2, <4>3, <5>1, <5>2, <5>4
      <4> QED BY <4>1, <4>4 DEF LiveTreeKept
  <2>6. CASE SweepCheck(s)
    BY <2>6, <1>0 DEF SweepCheck, KeepSwept, SweepStep, TypeOK, SweepState, LiveTreeKept
  <2>7. CASE SweepUnlock(s)
    BY <2>7, <1>0 DEF SweepUnlock, SweepStep, TypeOK, SweepState, LiveTreeKept
  <2>8. CASE SweepRemoveLock(s)
    BY <2>8, <1>0 DEF SweepRemoveLock, SweepStep, TypeOK, SweepState, LiveTreeKept
  <2>9. CASE SweepRemoveDir(s)
    BY <2>9, <1>0 DEF SweepRemoveDir, SweepStep, TypeOK, SweepState, LiveTreeKept
  <2>10. CASE EndSweep(s)
    BY <2>10, <1>0 DEF EndSweep, SweepStep, TypeOK, SweepState, LiveTreeKept,
       LeaseInv, StartInv
  <2>11. CASE SweepCallFails(s)
    BY <2>11, <1>0, SweepFails DEF OthersStay, SweepFailure, LiveTreeKept
  <2> QED BY <1>2, <2>1, <2>2, <2>3, <2>4, <2>5, <2>6, <2>7, <2>8, <2>9,
             <2>10, <2>11 DEF Sweeper
<1>3. ASSUME NEW r \in Runs, Crash(r) PROVE TreeInv'
  BY <1>0, <1>3 DEF Crash, TypeOK, LiveTreeKept
<1>4. CASE UNCHANGED vars
  BY <1>0, <1>4 DEF vars, LiveTreeKept
<1> QED BY <1>1, <1>2, <1>3, <1>4 DEF Next

\* Runs of a single commit never lose a worktree in use to a sweep, for any
\* number of concurrent runs and any crashes.
THEOREM OneCommitTreeKept == ASSUME OneCommit PROVE Spec => []LiveTreeKept
<1>1. Init => TreeInv
  BY InitLease DEF Init, TreeInv, InodeInv, LiveTreeKept, SweepDone
<1>2. TreeInv /\ [Next]_vars => TreeInv'
  BY OneCommit, TreeStep
<1>3. TreeInv => LiveTreeKept
  BY DEF TreeInv
<1> QED BY <1>1, <1>2, <1>3, PTL DEF Spec
=============================================================================
