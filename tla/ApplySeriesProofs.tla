------------------------- MODULE ApplySeriesProofs -------------------------
(***************************************************************************)
(* Theorems about boro apply on a series, for every series, message,       *)
(* conflict and source, any number of runs, and a kill at any step: what   *)
(* the branch holds is accounted for, nothing but the run's own commit is  *)
(* amended, a run that reports success leaves nothing to clean up, the     *)
(* verdict tells of the source at HEAD, and a resolution changes no more   *)
(* of a file than its hunk.                                                *)
(***************************************************************************)
EXTENDS ApplySeries, FiniteSetTheorems, SequenceTheorems, WellFoundedInduction, TLAPS

USE DEF At, GoTo, OnlyGoTo, UnlessHunks, UnlessAudit, gitVars, hunkVars, auditVars,
        runVars, applyVars, seriesVars, vars, Running

\* The commits that may come to the branch, and what the branch records of each.
Known == {Base} \cup ToSet(Series) \cup UNION {ToSet(Refs[c]) : c \in ToSet(Series)}

Entry == [id : Known, resolved : BOOLEAN, trailer : {"picked", "backported"},
          amended : BOOLEAN]

Conflicted == {"read", "suggest", "validate", "rewrite", "stage", "continue"}
Landed == {"trailer", "check", "review", "repair"}
Outside == {"import", "shazam", "loop"}

\* The commit in hand has not come to the branch yet.
Before == {"begin", "pick", "detect", "skip", "abort", "deps", "abortdep"} \cup Conflicted

\* The commit in hand is the one the loop has come to.
InHand ==
  /\ series = Series
  /\ at \notin Outside => index <= Len(Series) /\ current = Series[index]
  /\ at \in {"deps", "abortdep"} => deps \subseteq MissingDeps(current)

HandInv ==
  /\ head \in Seq(Entry)
  /\ start \in 1..Len(head) /\ index \in 1..(Len(Series) + 1)
  /\ InHand

\* What the branch has when the commit in hand is at some step.
BranchInv ==
  /\ at \in Conflicted => ~AlreadyApplied(current)
  /\ at = "skip" => AlreadyApplied(current)
  /\ at \in Landed => Len(head) > start /\ head[Len(head)].id = current
  /\ at = "finished" => current \in Ids(head) \/ AlreadyApplied(current)

\* What there is to clean up at each step.
TreeInv ==
  /\ dirty \subseteq {"tracked", "untracked", "ignored"}
  /\ at \in {"pick", "deps"} => Clean
  /\ at \in {"detect", "abort", "skip", "abortdep", "read"} =>
       /\ dirty \subseteq {"tracked", "ignored"}
       /\ unmerged = {} \/ dirty \subseteq {"ignored"}
  /\ at \in {"suggest", "validate", "rewrite", "stage", "continue"} =>
       dirty \subseteq {"ignored"}
  /\ at \in Landed \cup {"finished"} => unmerged = {} /\ picking = None
  /\ at = "trailer" => Clean
  /\ at \in {"check", "finished"} => Clean \/ review = "needs_human"
  /\ at \in Outside /\ index > 1 => Clean /\ picking = None
  /\ exit = 0 => at = "loop" /\ index > Len(Series)

\* The files in conflict are a list.
FilesInv == Len(files) \in Nat /\ DOMAIN files = 1..Len(files)

\* Only the commit whose trailer is still to be written has the wrong one.
TrailerInv ==
  /\ at = "trailer" => head[Len(head)].resolved
  /\ \A i \in (start + 1)..Len(head) :
       \/ head[i].resolved <=> head[i].trailer = "backported"
       \/ i = Len(head) /\ at \in {"trailer", "error"}

\* The child of the import is collected before the series is applied.
ImportInv ==
  /\ Running => import # "removed"
  /\ Running /\ at \notin {"import", "shazam"} => child = "none"
  /\ ImportGuarded

-----------------------------------------------------------------------------
\* Every step keeps the import guarded.
LEMMA ImportStep ==
  ASSUME ImportInv, [Next]_vars PROVE ImportInv'
<1> USE DEF ImportInv, ImportGuarded, Interrupted
<1>1. CASE ApplyStep \/ Meanwhile
  <2>0. Running /\ UNCHANGED seriesVars
    BY <1>1 DEF ApplyStep, Meanwhile
  <2>1. CASE EnsureClean
    BY <2>1, <2>0, ApplySeriesAssumption DEF EnsureClean
  <2>2. CASE Pick
    BY <2>2, <2>0, ApplySeriesAssumption DEF Pick, PickLands, PickFails, PickStops,
       PickConflicts, PickRefused, NoConflict
  <2>3. CASE Detect
    BY <2>3, <2>0, ApplySeriesAssumption DEF Detect
  <2>4. CASE Skip
    BY <2>4, <2>0, ApplySeriesAssumption DEF Skip, PickDropped, NoConflict
  <2>5. CASE AbortForDeps
    BY <2>5, <2>0, ApplySeriesAssumption DEF AbortForDeps, PickDropped, NoConflict
  <2>6. CASE NextDep
    BY <2>6, <2>0, ApplySeriesAssumption DEF NextDep, PickLands, PickFails, PickStops,
       PickConflicts, PickRefused
  <2>7. CASE AbortDep
    BY <2>7, <2>0, ApplySeriesAssumption DEF AbortDep, PickDropped, NoConflict
  <2>8. CASE ReadConflicts
    BY <2>8, <2>0, ApplySeriesAssumption DEF ReadConflicts
  <2>9. CASE Suggest
    BY <2>9, <2>0, ApplySeriesAssumption DEF Suggest
  <2>10. CASE Validate
    BY <2>10, <2>0, ApplySeriesAssumption DEF Validate, Settle
  <2>11. CASE Rewrite
    BY <2>11, <2>0, ApplySeriesAssumption DEF Rewrite
  <2>12. CASE Stage
    BY <2>12, <2>0, ApplySeriesAssumption DEF Stage
  <2>13. CASE Continue
    BY <2>13, <2>0, ApplySeriesAssumption DEF Continue, NoConflict
  <2>14. CASE RewriteTrailer
    BY <2>14, <2>0, ApplySeriesAssumption DEF RewriteTrailer
  <2>15. CASE AuditAmends
    BY <2>15, <2>0, ApplySeriesAssumption DEF AuditAmends, Conclude
  <2>16. CASE AuditFails
    BY <2>16, <2>0, ApplySeriesAssumption DEF AuditFails, Conclude
  <2>17. CASE ReviewEditsNothing
    BY <2>17, <2>0, ApplySeriesAssumption DEF ReviewEditsNothing, EditsNothing, Conclude
  <2>18. CASE RepairEditsNothing
    BY <2>18, <2>0, ApplySeriesAssumption DEF RepairEditsNothing, EditsNothing, Conclude
  <2>19. CASE StaticCheck
    BY <2>19, <2>0, ApplySeriesAssumption DEF StaticCheck, CheckFailed
  <2>20. CASE Work
    BY <2>20, <2>0, ApplySeriesAssumption DEF Work
  <2>21. CASE SomeoneEdits
    BY <2>21, <2>0, ApplySeriesAssumption DEF SomeoneEdits
  <2> QED
    BY <1>1, <2>1, <2>2, <2>3, <2>4, <2>5, <2>6, <2>7, <2>8, <2>9, <2>10, <2>11, <2>12,
       <2>13, <2>14, <2>15, <2>16, <2>17, <2>18, <2>19, <2>20, <2>21 DEF ApplyStep, Meanwhile,
       Step, PickStep, ResolveStep, AuditStep
<1>2. CASE SpawnImport
  BY <1>2, ApplySeriesAssumption DEF SpawnImport
<1>3. CASE Collected
  BY <1>3, ApplySeriesAssumption DEF Collected
<1>4. CASE CancelCollected
  BY <1>4, ApplySeriesAssumption DEF CancelCollected
<1>5. CASE NextCommit
  BY <1>5, ApplySeriesAssumption DEF NextCommit, Leave, Begin
<1>6. CASE CommitEnds
  BY <1>6, ApplySeriesAssumption DEF CommitEnds, Leave, ExitCode
<1>7. CASE CommitFails
  BY <1>7, ApplySeriesAssumption DEF CommitFails, Leave
<1>8. CASE ChildEnds
  BY <1>8, ApplySeriesAssumption DEF ChildEnds
<1>9. CASE ImportCancelled
  BY <1>9, ApplySeriesAssumption DEF ImportCancelled
<1>10. CASE Interrupt
  BY <1>10, ApplySeriesAssumption DEF Interrupt, Leave
<1>11. CASE Kill
  BY <1>11, ApplySeriesAssumption DEF Kill
<1>12. CASE CleanUp
  BY <1>12, ApplySeriesAssumption DEF CleanUp, NoConflict
<1>13. CASE Rerun
  BY <1>13, ApplySeriesAssumption DEF Rerun, Fresh
<1>14. CASE UNCHANGED vars
  BY <1>14, ApplySeriesAssumption
<1> QED
  BY <1>1, <1>2, <1>3, <1>4, <1>5, <1>6, <1>7, <1>8, <1>9, <1>10, <1>11, <1>12, <1>13, <1>14
     DEF Next, Program

\* What a new commit is.
LEMMA NewCommit ==
  ASSUME NEW c \in Known, NEW r \in BOOLEAN
  PROVE  /\ Commit(c, r) \in Entry
         /\ Commit(c, r).id = c /\ Commit(c, r).resolved = r
         /\ Commit(c, r).trailer = "picked"
  BY DEF Commit, Entry

\* A branch that has grown by a commit.
LEMMA BranchGrows ==
  ASSUME head \in Seq(Entry), NEW c \in Known, NEW r \in BOOLEAN,
         head' = Append(head, Commit(c, r))
  PROVE  /\ head' \in Seq(Entry) /\ Len(head') = Len(head) + 1
         /\ \A i \in 1..Len(head) : head'[i] = head[i]
         /\ head'[Len(head')] = Commit(c, r)
         /\ Ids(head)' = Ids(head) \cup {c}
         /\ Front(head') = head /\ Last(head') = Commit(c, r)
<1>1. /\ head' \in Seq(Entry) /\ Len(head') = Len(head) + 1
      /\ \A i \in 1..Len(head) : head'[i] = head[i]
      /\ head'[Len(head')] = Commit(c, r)
      /\ DOMAIN head' = 1..Len(head') /\ DOMAIN head = 1..Len(head)
      /\ Len(head) \in Nat
  BY NewCommit
<1>2. Ids(head)' = Ids(head) \cup {c}
  BY <1>1, NewCommit DEF Ids
<1>3. Front(head') = head
  BY <1>1 DEF Front
<1> QED BY <1>1, <1>2, <1>3 DEF Last

\* The first commits of a branch.
LEMMA Beginning ==
  ASSUME NEW S, NEW s \in Seq(S), NEW n \in Nat, n <= Len(s)
  PROVE  /\ SubSeq(s, 1, n) \in Seq(S) /\ Len(SubSeq(s, 1, n)) = n
         /\ \A i \in 1..n : SubSeq(s, 1, n)[i] = s[i]
<1>1. 1 \in Int /\ n \in Int /\ n - 1 + 1 = n /\ 1 + n - 1 = n /\ n \in 0..n
  OBVIOUS
<1>2. \A i \in 1..n : s[i] \in S /\ 1 + i - 1 = i
  OBVIOUS
<1>3. \A i \in 1..n : s[i] \in S
  BY <1>2
<1>4. /\ SubSeq(s, 1, n) \in Seq(S)
      /\ Len(SubSeq(s, 1, n)) = IF 1 <= n THEN n - 1 + 1 ELSE 0
      /\ \A i \in 1..(n - 1 + 1) : SubSeq(s, 1, n)[i] = s[1 + i - 1]
  BY <1>1, <1>3, SubSeqProperties
<1> QED BY <1>1, <1>2, <1>4

\* A branch whose last commit has been rewritten.
LEMMA BranchAmended ==
  ASSUME head \in Seq(Entry), Len(head) > 0, NEW e \in Entry, e.id = head[Len(head)].id,
         head' = [head EXCEPT ![Len(head)] = e]
  PROVE  /\ head' \in Seq(Entry) /\ Len(head') = Len(head)
         /\ \A i \in 1..(Len(head) - 1) : head'[i] = head[i]
         /\ head'[Len(head')] = e
         /\ Ids(head)' = Ids(head)
         /\ Front(head') = Front(head) /\ Last(head') = e
<1>1. /\ head' \in Seq(Entry) /\ Len(head') = Len(head)
      /\ \A i \in 1..(Len(head) - 1) : head'[i] = head[i]
      /\ head'[Len(head')] = e
      /\ DOMAIN head' = 1..Len(head) /\ DOMAIN head = 1..Len(head)
      /\ Len(head) \in Nat
  OBVIOUS
<1>2. \A i \in 1..Len(head) : head'[i].id = head[i].id
  BY <1>1
<1>3. Ids(head)' = Ids(head)
  BY ZenonT(40), <1>1, <1>2 DEF Ids
<1>4. Front(head') = Front(head)
  <2> DEFINE n == Len(head) - 1
             f == SubSeq(head, 1, n)
             g == SubSeq(head', 1, n)
  <2>0. n \in Nat /\ n <= Len(head) /\ n <= Len(head')
    <3>1. Len(head) \in Nat /\ Len(head') = Len(head)
      BY <1>1
    <3> QED BY <3>1
  <2>1. \A i \in 1..n : head'[i] = head[i]
    BY <1>1
  <2> HIDE DEF n
  <2>2. /\ f \in Seq(Entry) /\ Len(f) = n
        /\ \A i \in 1..n : f[i] = head[i]
    BY <2>0, Beginning
  <2>3. /\ g \in Seq(Entry) /\ Len(g) = n
        /\ \A i \in 1..n : g[i] = head'[i]
    <3>1. head' \in Seq(Entry)
      BY <1>1
    <3>2. /\ SubSeq(head', 1, n) \in Seq(Entry) /\ Len(SubSeq(head', 1, n)) = n
          /\ \A i \in 1..n : SubSeq(head', 1, n)[i] = head'[i]
      BY <3>1, <2>0, Beginning
    <3> QED BY <3>2
  <2> HIDE DEF f, g
  <2>4. f = g
    BY <2>1, <2>2, <2>3, SeqEqual
  <2> USE DEF n
  <2> QED BY <1>1, <2>4 DEF Front, f, g
<1> QED BY <1>1, <1>3, <1>4 DEF Last

\* A commit that a step puts on the branch is the one in hand, before this run
\* has put it there, or one that its message refers to and that is not there
\* yet; and what is resolved is not there either.
Appends(c, r) ==
  /\ head' = Append(head, Commit(c, r))
  /\ c \in Known /\ at \notin Outside
  /\ \/ c = current /\ at \in Before
     \/ c \in ToSet(Refs[current]) /\ c \notin ToSet(series) /\ c \notin Ids(head)
  /\ r => c \notin Ids(head)
  /\ UNCHANGED <<series, current, start, index>>

\* A commit that a step rewrites is the last one, and of this run.
Rewrites(e) ==
  /\ head' = [head EXCEPT ![Len(head)] = e]
  /\ e \in Entry /\ e.id = head[Len(head)].id /\ e.resolved = head[Len(head)].resolved
  /\ at \in Landed
  /\ UNCHANGED <<series, current, start, index>>

\* How a step may change the branch, and how far the loop has come with it.
BranchMoves ==
  \/ UNCHANGED <<head, start, index>>
  \/ \E c \in Known, r \in BOOLEAN : Appends(c, r)
  \/ \E e \in Entry : Rewrites(e)
  \/ at = "finished" /\ index' = index + 1 /\ UNCHANGED <<head, start>>
  \/ index' = 1 /\ start' = Len(head) /\ UNCHANGED head

\* A commit that has not been found in the log is not on the branch.
LEMMA NotFoundNotThere ==
  ASSUME NEW c \in ToSet(Series), ~AlreadyApplied(c) PROVE c \notin Ids(head)
  BY ApplySeriesAssumption DEF AlreadyApplied, LogSubjects

\* Nor is a dependency that has not been found.
LEMMA DependencyNotThere ==
  ASSUME NEW c \in ToSet(Series), NEW d \in ToSet(Refs[c]), ~AlreadyApplied(d)
  PROVE  d \notin Ids(head)
  BY ApplySeriesAssumption DEF AlreadyApplied, LogSubjects

\* Every step changes the branch in one of those ways.
LEMMA BranchStep ==
  ASSUME HandInv, BranchInv, [Next]_vars PROVE BranchMoves
<1> USE DEF BranchMoves
<1>1. CASE ApplyStep \/ Meanwhile
  <2>0. Running /\ UNCHANGED seriesVars
    BY <1>1 DEF ApplyStep, Meanwhile
  <2>1. CASE EnsureClean
    BY <2>1, <2>0 DEF EnsureClean
  <2>2. CASE Pick
    <3>1. CASE PickLands(current)
      <4>1. current \in ToSet(Series) /\ current \in Known
        BY <2>2, ApplySeriesAssumption DEF HandInv, InHand, Pick, Outside, ToSet, Known
      <4> QED BY <2>2, <2>0, <3>1, <4>1 DEF Pick, PickLands, Appends, Outside, Before
    <3> QED BY <2>2, <2>0, <3>1 DEF Pick, PickFails, PickStops, PickConflicts, PickRefused
  <2>3. CASE Detect
    BY <2>3, <2>0 DEF Detect
  <2>4. CASE Skip
    BY <2>4, <2>0 DEF Skip, PickDropped, NoConflict
  <2>5. CASE AbortForDeps
    BY <2>5, <2>0 DEF AbortForDeps, PickDropped, NoConflict
  <2>6. CASE NextDep
    <3>1. current \in ToSet(Series)
      BY <2>6, ApplySeriesAssumption DEF HandInv, InHand, NextDep, Outside, ToSet
    <3>2. CASE head' = head
      BY <2>6, <2>0, <3>2
    <3>3. ASSUME NEW k \in deps, PickLands(Refs[current][k]), ~AlreadyApplied(Refs[current][k])
          PROVE BranchMoves
      <4> DEFINE d == Refs[current][k]
      <4>1. k \in MissingDeps(current)
        BY <2>6, <3>3 DEF HandInv, InHand, NextDep, Outside
      <4>2. d \in ToSet(Refs[current]) /\ d \notin ToSet(series)
        BY <4>1 DEF MissingDeps, ToSet
      <4>3. d \in Known
        BY <3>1, <4>2 DEF Known
      <4>6. d \notin Ids(head)
        BY <3>1, <3>3, <4>2, DependencyNotThere
      <4> QED BY <2>6, <2>0, <3>3, <4>2, <4>3, <4>6 DEF NextDep, PickLands, Appends, Outside
    <3> QED BY <2>6, <2>0, <3>2, <3>3 DEF NextDep, PickFails, PickStops, PickConflicts, PickRefused
  <2>7. CASE AbortDep
    BY <2>7, <2>0 DEF AbortDep, PickDropped, NoConflict
  <2>8. CASE ReadConflicts
    BY <2>8, <2>0 DEF ReadConflicts
  <2>9. CASE Suggest
    BY <2>9, <2>0 DEF Suggest
  <2>10. CASE Validate
    BY <2>10, <2>0 DEF Validate, Settle
  <2>11. CASE Rewrite
    BY <2>11, <2>0 DEF Rewrite
  <2>12. CASE Stage
    BY <2>12, <2>0 DEF Stage
  <2>13. CASE Continue
    <3>1. /\ current \in ToSet(Series) /\ current \in Known
          /\ ~AlreadyApplied(current)
      BY <2>13, ApplySeriesAssumption DEF HandInv, InHand, BranchInv, Conflicted, Continue,
         Outside, ToSet, Known
    <3>2. current \notin Ids(head)
      BY <3>1, NotFoundNotThere
    <3> QED BY <2>13, <2>0, <3>1, <3>2 DEF Continue, Appends, Outside, Before, Conflicted
  <2>14. CASE RewriteTrailer
    <3>1. Len(head) > 0 /\ head[Len(head)] \in Entry /\ at \in Landed
      BY <2>14 DEF HandInv, InHand, BranchInv, RewriteTrailer, Landed
    <3> DEFINE e == [head[Len(head)] EXCEPT !.trailer = "backported"]
    <3>2. e \in Entry /\ e.id = head[Len(head)].id /\ e.resolved = head[Len(head)].resolved
      BY <3>1 DEF Entry
    <3>3. CASE head' = [head EXCEPT ![Len(head)] = e]
      BY <2>14, <2>0, <3>1, <3>2, <3>3 DEF RewriteTrailer, Rewrites
    <3> QED BY <2>14, <2>0, <3>3 DEF RewriteTrailer
  <2>15. CASE AuditAmends
    <3>1. Len(head) > 0 /\ head[Len(head)] \in Entry /\ at \in Landed
      BY <2>15 DEF HandInv, InHand, BranchInv, AuditAmends, Landed
    <3> DEFINE e == [head[Len(head)] EXCEPT !.amended = TRUE]
    <3>2. e \in Entry /\ e.id = head[Len(head)].id /\ e.resolved = head[Len(head)].resolved
      BY <3>1 DEF Entry
    <3>3. head' = [head EXCEPT ![Len(head)] = e]
      BY <2>15 DEF AuditAmends
    <3> QED BY <2>15, <2>0, <3>1, <3>2, <3>3 DEF AuditAmends, Conclude, Rewrites
  <2>16. CASE AuditFails
    BY <2>16, <2>0 DEF AuditFails, Conclude
  <2>17. CASE ReviewEditsNothing
    BY <2>17, <2>0 DEF ReviewEditsNothing, EditsNothing, Conclude
  <2>18. CASE RepairEditsNothing
    BY <2>18, <2>0 DEF RepairEditsNothing, EditsNothing, Conclude
  <2>19. CASE StaticCheck
    BY <2>19, <2>0 DEF StaticCheck, CheckFailed
  <2>20. CASE Work
    BY <2>20, <2>0 DEF Work
  <2>21. CASE SomeoneEdits
    BY <2>21, <2>0 DEF SomeoneEdits
  <2> QED
    BY <1>1, <2>1, <2>2, <2>3, <2>4, <2>5, <2>6, <2>7, <2>8, <2>9, <2>10, <2>11, <2>12,
       <2>13, <2>14, <2>15, <2>16, <2>17, <2>18, <2>19, <2>20, <2>21 DEF ApplyStep, Meanwhile,
       Step, PickStep, ResolveStep, AuditStep
<1>2. CASE SpawnImport
  BY <1>2 DEF SpawnImport
<1>3. CASE Collected
  BY <1>3 DEF Collected
<1>4. CASE CancelCollected
  BY <1>4 DEF CancelCollected
<1>5. CASE NextCommit
  BY <1>5 DEF NextCommit, Leave, Begin
<1>6. CASE CommitEnds
  BY <1>6 DEF CommitEnds, Leave, ExitCode
<1>7. CASE CommitFails
  BY <1>7 DEF CommitFails, Leave
<1>8. CASE ChildEnds
  BY <1>8 DEF ChildEnds
<1>9. CASE ImportCancelled
  BY <1>9 DEF ImportCancelled
<1>10. CASE Interrupt
  BY <1>10 DEF Interrupt, Leave
<1>11. CASE Kill
  BY <1>11 DEF Kill
<1>12. CASE CleanUp
  BY <1>12 DEF CleanUp, NoConflict
<1>13. CASE Rerun
  BY <1>13 DEF Rerun, Fresh
<1>14. CASE UNCHANGED vars
  BY <1>14
<1> QED
  BY <1>1, <1>2, <1>3, <1>4, <1>5, <1>6, <1>7, <1>8, <1>9, <1>10, <1>11, <1>12, <1>13, <1>14
     DEF Next, Program

\* Where the branch and the loop are after a step.
LEMMA BoundsStep ==
  ASSUME HandInv, BranchInv, BranchMoves
  PROVE  /\ head' \in Seq(Entry)
         /\ start' \in 1..Len(head') /\ index' \in 1..(Len(Series) + 1)
<1>1. Len(head) \in Nat /\ Len(head) > 0 /\ Len(Series) \in Nat
  BY ApplySeriesAssumption DEF HandInv
<1>2. CASE UNCHANGED <<head, start, index>>
  BY <1>2 DEF HandInv
<1>3. ASSUME NEW c \in Known, NEW r \in BOOLEAN, Appends(c, r)
      PROVE  head' \in Seq(Entry) /\ Len(head') = Len(head) + 1 /\ UNCHANGED <<start, index>>
  BY <1>3, BranchGrows DEF Appends, HandInv
<1>4. ASSUME NEW e \in Entry, Rewrites(e)
      PROVE  head' \in Seq(Entry) /\ Len(head') = Len(head) /\ UNCHANGED <<start, index>>
  BY <1>1, <1>4, BranchAmended DEF Rewrites, HandInv
<1>5. CASE at = "finished" /\ index' = index + 1 /\ UNCHANGED <<head, start>>
  <2>1. index <= Len(Series)
    BY <1>5 DEF HandInv, InHand, Outside
  <2> QED BY <1>1, <1>5, <2>1 DEF HandInv
<1>6. CASE index' = 1 /\ start' = Len(head) /\ UNCHANGED head
  BY <1>1, <1>6 DEF HandInv
<1>7. CASE Len(head') \in {Len(head), Len(head) + 1} /\ head' \in Seq(Entry) /\ UNCHANGED <<start, index>>
  BY <1>1, <1>7 DEF HandInv
<1> QED BY <1>2, <1>3, <1>4, <1>5, <1>6, <1>7 DEF BranchMoves

\* A step of run() keeps the commit in hand if it keeps the rest of the
\* dependencies.
LEMMA KeepsHand ==
  ASSUME InHand, at \notin Outside, UNCHANGED <<series, current, index>>,
         at' \in {"deps", "abortdep"} => deps' \subseteq MissingDeps(current)
  PROVE  InHand'
<1>1. MissingDeps(current)' = MissingDeps(current)
  BY DEF MissingDeps
<1> QED BY <1>1 DEF InHand

\* The commit in hand stays the one the loop has come to.
LEMMA HandStep ==
  ASSUME InHand, index \in 1..(Len(Series) + 1), [Next]_vars PROVE InHand'
<1> USE DEF InHand, Outside, MissingDeps
<1>1. CASE ApplyStep \/ Meanwhile
  <2>0. Running /\ UNCHANGED seriesVars
    BY <1>1 DEF ApplyStep, Meanwhile
  <2>1. CASE EnsureClean
    BY <2>1, <2>0, KeepsHand DEF InHand, Outside, EnsureClean
  <2>2. CASE Pick
    BY <2>2, <2>0, KeepsHand DEF InHand, Outside, Pick, PickLands, PickFails, PickStops,
       PickConflicts, PickRefused, NoConflict
  <2>3. CASE Detect
    BY <2>3, <2>0, KeepsHand DEF InHand, Outside, Detect
  <2>4. CASE Skip
    BY <2>4, <2>0, KeepsHand DEF InHand, Outside, Skip, PickDropped, NoConflict
  <2>5. CASE AbortForDeps
    BY <2>5, <2>0, KeepsHand DEF InHand, Outside, AbortForDeps, PickDropped, NoConflict
  <2>6. CASE NextDep
    BY <2>6, <2>0, KeepsHand DEF InHand, Outside, NextDep, PickLands, PickFails, PickStops,
       PickConflicts, PickRefused
  <2>7. CASE AbortDep
    BY <2>7, <2>0, KeepsHand DEF InHand, Outside, AbortDep, PickDropped, NoConflict
  <2>8. CASE ReadConflicts
    BY <2>8, <2>0, KeepsHand DEF InHand, Outside, ReadConflicts
  <2>9. CASE Suggest
    BY <2>9, <2>0, KeepsHand DEF InHand, Outside, Suggest
  <2>10. CASE Validate
    BY <2>10, <2>0, KeepsHand DEF InHand, Outside, Validate, Settle
  <2>11. CASE Rewrite
    BY <2>11, <2>0, KeepsHand DEF InHand, Outside, Rewrite
  <2>12. CASE Stage
    BY <2>12, <2>0, KeepsHand DEF InHand, Outside, Stage
  <2>13. CASE Continue
    BY <2>13, <2>0, KeepsHand DEF InHand, Outside, Continue, NoConflict
  <2>14. CASE RewriteTrailer
    BY <2>14, <2>0, KeepsHand DEF InHand, Outside, RewriteTrailer
  <2>15. CASE AuditAmends
    BY <2>15, <2>0, KeepsHand DEF InHand, Outside, AuditAmends, Conclude
  <2>16. CASE AuditFails
    BY <2>16, <2>0, KeepsHand DEF InHand, Outside, AuditFails, Conclude
  <2>17. CASE ReviewEditsNothing
    BY <2>17, <2>0, KeepsHand DEF InHand, Outside, ReviewEditsNothing, EditsNothing, Conclude
  <2>18. CASE RepairEditsNothing
    BY <2>18, <2>0, KeepsHand DEF InHand, Outside, RepairEditsNothing, EditsNothing, Conclude
  <2>19. CASE StaticCheck
    BY <2>19, <2>0, KeepsHand DEF InHand, Outside, StaticCheck, CheckFailed
  <2>20. CASE Work
    BY <2>20, <2>0, KeepsHand DEF InHand, Outside, Work
  <2>21. CASE SomeoneEdits
    BY <2>21, <2>0, KeepsHand DEF InHand, Outside, SomeoneEdits
  <2> QED
    BY <1>1, <2>1, <2>2, <2>3, <2>4, <2>5, <2>6, <2>7, <2>8, <2>9, <2>10, <2>11, <2>12,
       <2>13, <2>14, <2>15, <2>16, <2>17, <2>18, <2>19, <2>20, <2>21 DEF ApplyStep, Meanwhile,
       Step, PickStep, ResolveStep, AuditStep
<1>2. CASE SpawnImport
  BY <1>2 DEF SpawnImport
<1>3. CASE Collected
  BY <1>3 DEF Collected
<1>4. CASE CancelCollected
  BY <1>4 DEF CancelCollected
<1>5. CASE NextCommit
  BY <1>5 DEF NextCommit, Leave, Begin
<1>6. CASE CommitEnds
  BY <1>6 DEF CommitEnds, Leave
<1>7. CASE CommitFails
  BY <1>7 DEF CommitFails, Leave
<1>8. CASE ChildEnds
  BY <1>8 DEF ChildEnds
<1>9. CASE ImportCancelled
  BY <1>9 DEF ImportCancelled
<1>10. CASE Interrupt
  BY <1>10 DEF Interrupt, Leave
<1>11. CASE Kill
  BY <1>11 DEF Kill
<1>12. CASE CleanUp
  BY <1>12 DEF CleanUp, NoConflict
<1>13. CASE Rerun
  BY <1>13 DEF Rerun, Fresh
<1>14. CASE UNCHANGED vars
  BY <1>14
<1> QED
  BY <1>1, <1>2, <1>3, <1>4, <1>5, <1>6, <1>7, <1>8, <1>9, <1>10, <1>11, <1>12, <1>13, <1>14
     DEF Next, Program

\* A step that leaves the branch alone keeps what is known of it.
LEMMA KeepsBranch ==
  ASSUME HandInv, BranchInv, UNCHANGED <<head, current, start>>,
         at' \in Conflicted => at \in Conflicted \/ ~AlreadyApplied(current),
         at' = "skip" => at = "skip" \/ AlreadyApplied(current),
         at' \in Landed => at \in Landed,
         at' = "finished" => at = "finished" \/ at \in Landed \/ AlreadyApplied(current)
  PROVE  BranchInv'
<1>1. AlreadyApplied(current)' = AlreadyApplied(current) /\ Ids(head)' = Ids(head)
  BY DEF AlreadyApplied, LogSubjects, Ids
<1>2. at \in Landed => current \in Ids(head)
  <2>1. Len(head) \in Nat /\ start \in Nat /\ DOMAIN head = 1..Len(head)
    BY DEF HandInv
  <2> QED BY <2>1 DEF BranchInv, Ids
<1> QED BY <1>1, <1>2 DEF BranchInv

\* What a step that lands the commit in hand makes of the branch.
LEMMA LandsOnBranch ==
  ASSUME HandInv, NEW r \in BOOLEAN, current \in Known,
         head' = Append(head, Commit(current, r)), UNCHANGED <<current, start>>,
         at' \in Landed
  PROVE  BranchInv'
<1>1. Len(head') > start /\ head'[Len(head')].id = current
  BY BranchGrows, NewCommit DEF HandInv
<1> QED BY <1>1 DEF BranchInv, Landed, Conflicted

\* What a step that rewrites the last commit leaves of it.
LEMMA RewritesOnBranch ==
  ASSUME HandInv, BranchInv, NEW e \in Entry, Rewrites(e), at' \in Landed
  PROVE  BranchInv'
<1>1. Len(head') > start /\ head'[Len(head')].id = current
  BY BranchAmended DEF HandInv, BranchInv, Rewrites
<1> QED BY <1>1 DEF BranchInv, Landed, Conflicted, Rewrites

\* Every step keeps what is known of the branch.
LEMMA BranchInvStep ==
  ASSUME HandInv, BranchInv, [Next]_vars PROVE BranchInv'
<1> USE DEF Conflicted, Landed
<1>1. CASE ApplyStep \/ Meanwhile
  <2>0. Running /\ UNCHANGED seriesVars
    BY <1>1 DEF ApplyStep, Meanwhile
  <2>1. CASE EnsureClean
    BY <2>1, <2>0, KeepsBranch DEF EnsureClean
  <2>2. CASE Pick
    <3>1. CASE head' = Append(head, Commit(current, FALSE)) /\ at' = "check" /\ UNCHANGED <<current, start>>
      <4>1. current \in Known
        BY <2>2, ApplySeriesAssumption DEF HandInv, InHand, Pick, Outside, ToSet, Known
      <4> QED BY <3>1, <4>1, LandsOnBranch
    <3> QED
      BY <2>2, <2>0, <3>1, KeepsBranch DEF Pick, PickLands, PickFails, PickStops,
         PickConflicts, PickRefused, NoConflict
  <2>3. CASE Detect
    BY <2>3, <2>0, KeepsBranch DEF Detect
  <2>4. CASE Skip
    BY <2>4, <2>0, KeepsBranch DEF BranchInv, Skip, PickDropped, NoConflict
  <2>5. CASE AbortForDeps
    BY <2>5, <2>0 DEF BranchInv, AbortForDeps, PickDropped, NoConflict
  <2>6. CASE NextDep
    BY <2>6, <2>0 DEF BranchInv, NextDep, PickLands, PickFails, PickStops, PickConflicts, PickRefused
  <2>7. CASE AbortDep
    BY <2>7, <2>0 DEF BranchInv, AbortDep, PickDropped, NoConflict
  <2>8. CASE ReadConflicts
    BY <2>8, <2>0, KeepsBranch DEF ReadConflicts
  <2>9. CASE Suggest
    BY <2>9, <2>0, KeepsBranch DEF Suggest
  <2>10. CASE Validate
    BY <2>10, <2>0, KeepsBranch DEF Validate, Settle
  <2>11. CASE Rewrite
    BY <2>11, <2>0, KeepsBranch DEF Rewrite
  <2>12. CASE Stage
    BY <2>12, <2>0, KeepsBranch DEF Stage
  <2>13. CASE Continue
    <3>1. CASE head' = Append(head, Commit(current, TRUE)) /\ at' = "trailer" /\ UNCHANGED <<current, start>>
      <4>1. current \in Known
        BY <2>13, ApplySeriesAssumption DEF HandInv, InHand, Continue, Outside, ToSet, Known
      <4> QED BY <3>1, <4>1, LandsOnBranch
    <3> QED BY <2>13, <2>0, <3>1, KeepsBranch DEF Continue, NoConflict
  <2>14. CASE RewriteTrailer
    <3>1. Len(head) > 0 /\ head[Len(head)] \in Entry /\ at \in Landed
      BY <2>14 DEF HandInv, BranchInv, RewriteTrailer
    <3> DEFINE e == [head[Len(head)] EXCEPT !.trailer = "backported"]
    <3>2. e \in Entry /\ e.id = head[Len(head)].id /\ e.resolved = head[Len(head)].resolved
      BY <3>1 DEF Entry
    <3>3. CASE head' = [head EXCEPT ![Len(head)] = e] /\ at' \in {"review", "check"}
      <4>1. Rewrites(e) /\ at' \in Landed
        BY <2>14, <2>0, <3>1, <3>2, <3>3 DEF RewriteTrailer, Rewrites
      <4> HIDE DEF e
      <4> QED BY <3>2, <4>1, RewritesOnBranch
    <3> QED BY <2>14, <2>0, <3>3, KeepsBranch DEF RewriteTrailer
  <2>15. CASE AuditAmends
    <3>1. Len(head) > 0 /\ head[Len(head)] \in Entry /\ at \in Landed
      BY <2>15 DEF HandInv, BranchInv, AuditAmends
    <3> DEFINE e == [head[Len(head)] EXCEPT !.amended = TRUE]
    <3>2. e \in Entry /\ e.id = head[Len(head)].id /\ e.resolved = head[Len(head)].resolved
      BY <3>1 DEF Entry
    <3>3. CASE head' = [head EXCEPT ![Len(head)] = e] /\ at' \in {"review", "check"}
      <4>1. Rewrites(e) /\ at' \in Landed
        BY <2>15, <2>0, <3>1, <3>2, <3>3 DEF AuditAmends, Conclude, Rewrites
      <4> HIDE DEF e
      <4> QED BY <3>2, <4>1, RewritesOnBranch
    <3> QED BY <2>15, <2>0, <3>3, KeepsBranch DEF AuditAmends, Conclude
  <2>16. CASE AuditFails
    BY <2>16, <2>0, KeepsBranch DEF AuditFails, Conclude
  <2>17. CASE ReviewEditsNothing
    BY <2>17, <2>0, KeepsBranch DEF ReviewEditsNothing, EditsNothing, Conclude
  <2>18. CASE RepairEditsNothing
    BY <2>18, <2>0, KeepsBranch DEF RepairEditsNothing, EditsNothing, Conclude
  <2>19. CASE StaticCheck
    BY <2>19, <2>0, KeepsBranch DEF StaticCheck, CheckFailed
  <2>20. CASE Work
    BY <2>20, <2>0, KeepsBranch DEF Work
  <2>21. CASE SomeoneEdits
    BY <2>21, <2>0, KeepsBranch DEF SomeoneEdits
  <2> QED
    BY <1>1, <2>1, <2>2, <2>3, <2>4, <2>5, <2>6, <2>7, <2>8, <2>9, <2>10, <2>11, <2>12,
       <2>13, <2>14, <2>15, <2>16, <2>17, <2>18, <2>19, <2>20, <2>21 DEF ApplyStep, Meanwhile,
       Step, PickStep, ResolveStep, AuditStep
<1>2. CASE SpawnImport
  BY <1>2, KeepsBranch DEF SpawnImport
<1>3. CASE Collected
  BY <1>3, KeepsBranch DEF Collected
<1>4. CASE CancelCollected
  BY <1>4, KeepsBranch DEF CancelCollected
<1>5. CASE NextCommit
  BY <1>5, KeepsBranch DEF BranchInv, NextCommit, Leave, Begin
<1>6. CASE CommitEnds
  BY <1>6, KeepsBranch DEF BranchInv, CommitEnds, Leave
<1>7. CASE CommitFails
    BY <1>7, KeepsBranch DEF CommitFails, Leave
<1>8. CASE ChildEnds
    BY <1>8, KeepsBranch DEF ChildEnds
<1>9. CASE ImportCancelled
    BY <1>9, KeepsBranch DEF ImportCancelled
<1>10. CASE Interrupt
    BY <1>10, KeepsBranch DEF Interrupt, Leave
<1>11. CASE Kill
    BY <1>11, KeepsBranch DEF Kill
<1>12. CASE CleanUp
    BY <1>12, KeepsBranch DEF CleanUp, NoConflict
<1>13. CASE Rerun
  BY <1>13 DEF BranchInv, Rerun, Fresh
<1>14. CASE UNCHANGED vars
  BY <1>14, KeepsBranch
<1> QED
  BY <1>1, <1>2, <1>3, <1>4, <1>5, <1>6, <1>7, <1>8, <1>9, <1>10, <1>11, <1>12, <1>13, <1>14
     DEF Next, Program

\* The commits in a suffix of the branch.
LEMMA IdsOfEnd ==
  ASSUME NEW s \in Seq(Entry), NEW m \in 1..Len(s)
  PROVE  Ids(SubSeq(s, m + 1, Len(s))) = {s[i].id : i \in (m + 1)..Len(s)}
<1> DEFINE n == Len(s)
           r == SubSeq(s, m + 1, n)
<1>1. n \in Nat /\ m \in Nat /\ m <= n /\ m + 1 \in Int /\ n \in Int
  OBVIOUS
<1>2. \A i \in (m + 1)..n : s[i] \in Entry
  OBVIOUS
<1>3. /\ r \in Seq(Entry)
      /\ Len(r) = IF m + 1 <= n THEN n - (m + 1) + 1 ELSE 0
      /\ \A i \in 1..(n - (m + 1) + 1) : r[i] = s[m + 1 + i - 1]
  BY <1>1, <1>2, SubSeqProperties
<1> HIDE DEF n, r
<1>4. DOMAIN r = 1..(n - m) /\ \A i \in 1..(n - m) : r[i] = s[m + i]
  <2>1. n - (m + 1) + 1 = n - m /\ (m + 1 <= n \/ n - m = 0) /\ n - m \in Nat
    BY <1>1
  <2>2. DOMAIN r = 1..Len(r) /\ Len(r) = n - m
    BY <1>1, <1>3, <2>1
  <2>3. ASSUME NEW i \in 1..(n - m) PROVE r[i] = s[m + i]
    <3>1. m + 1 + i - 1 = m + i
      BY <1>1, <2>1
    <3> QED BY <1>3, <2>1, <2>3, <3>1
  <2> QED BY <2>2, <2>3
<1>5. ASSUME NEW i \in 1..(n - m) PROVE m + i \in (m + 1)..n
  BY <1>1
<1>6. ASSUME NEW i \in (m + 1)..n PROVE i - m \in 1..(n - m) /\ m + (i - m) = i
  BY <1>1
<1>7. Ids(r) = {s[i].id : i \in (m + 1)..n}
  BY <1>4, <1>5, <1>6 DEF Ids
<1> QED BY <1>7 DEF n, r

\* What this run has not come to yet it has not put on the branch.
PendingInv ==
  at \in Before \cup Outside =>
    \A k \in index..Len(series) : series[k] \notin Ids(AppliedRange)

\* A step that leaves the branch alone and does not come back to a commit.
LEMMA KeepsPending ==
  ASSUME PendingInv, UNCHANGED <<head, start, index, series>>,
         at' \in Before \cup Outside => at \in Before \cup Outside
  PROVE  PendingInv'
<1>1. AppliedRange' = AppliedRange
  BY DEF AppliedRange
<1>2. Ids(AppliedRange)' = Ids(AppliedRange)
  BY <1>1 DEF Ids
<1> QED BY <1>2 DEF PendingInv

\* What is not put on the branch for the commit in hand is not in the series.
LEMMA PendingDep ==
  ASSUME HandInv, PendingInv, NEW c \in Known, NEW r \in BOOLEAN, Appends(c, r),
         c \notin ToSet(series), at \in Before
  PROVE  PendingInv'
<1> DEFINE Later == {head[i].id : i \in (start + 1)..Len(head)}
<1>1. /\ Len(head') = Len(head) + 1 /\ \A i \in 1..Len(head) : head'[i] = head[i]
      /\ head'[Len(head')].id = c /\ UNCHANGED <<index, start, series>>
      /\ head \in Seq(Entry) /\ head' \in Seq(Entry)
      /\ start \in 1..Len(head) /\ Len(head) \in Nat
  BY BranchGrows, NewCommit DEF HandInv, Appends
<1>2. Ids(AppliedRange) = Later
  BY <1>1, IdsOfEnd DEF AppliedRange
<1>3. Ids(AppliedRange)' = Later'
  <2>1. start' \in 1..Len(head')
    BY <1>1
  <2> QED BY <1>1, <2>1, IdsOfEnd DEF AppliedRange
<1>4. Later' \subseteq Later \cup {c}
  BY <1>1
<1>5. \A k \in index..Len(series) : series[k] # c
  <2>1. index \in Nat /\ index >= 1 /\ series = Series
    BY DEF HandInv, InHand
  <2> QED BY <2>1, ApplySeriesAssumption DEF ToSet
<1> QED BY <1>1, <1>2, <1>3, <1>4, <1>5 DEF PendingInv

\* No step runs ahead.
LEMMA PendingStep ==
  ASSUME ImportInv, HandInv, BranchInv, SeriesAccounted, PendingInv, [Next]_vars PROVE PendingInv'
<1> USE DEF Before, Outside, Landed, Conflicted
<1>1. CASE ApplyStep \/ Meanwhile
  <2>0. Running /\ UNCHANGED seriesVars
    BY <1>1 DEF ApplyStep, Meanwhile
  <2>1. CASE EnsureClean
    BY <2>1, <2>0, KeepsPending DEF EnsureClean
  <2>2. CASE Pick
    <3>1. CASE at' = "check"
      BY <3>1 DEF PendingInv
    <3> QED BY <2>2, <2>0, <3>1, KeepsPending DEF Pick, PickFails, PickStops, PickConflicts, PickRefused
  <2>3. CASE Detect
    BY <2>3, <2>0, KeepsPending DEF Detect
  <2>4. CASE Skip
    BY <2>4, <2>0, KeepsPending DEF Skip, PickDropped, NoConflict
  <2>5. CASE AbortForDeps
    BY <2>5, <2>0, KeepsPending DEF AbortForDeps, PickDropped, NoConflict
  <2>6. CASE NextDep
    <3>1. current \in ToSet(Series)
      BY <2>6, ApplySeriesAssumption DEF HandInv, InHand, NextDep, ToSet
    <3>2. CASE head' = head
      BY <2>6, <2>0, <3>2, KeepsPending DEF NextDep
    <3>3. ASSUME NEW k \in deps, PickLands(Refs[current][k]), ~AlreadyApplied(Refs[current][k])
          PROVE PendingInv'
      <4> DEFINE d == Refs[current][k]
      <4>1. k \in MissingDeps(current)
        BY <2>6, <3>3 DEF HandInv, InHand, NextDep
      <4>2. d \in ToSet(Refs[current]) /\ d \notin ToSet(series)
        BY <4>1 DEF MissingDeps, ToSet
      <4>3. d \in Known
        BY <3>1, <4>2 DEF Known
      <4>6. d \notin Ids(head)
        BY <3>1, <3>3, <4>2, DependencyNotThere
      <4>4. Appends(d, FALSE)
        BY <2>6, <2>0, <3>3, <4>2, <4>3, <4>6 DEF NextDep, PickLands, Appends
      <4> HIDE DEF d
      <4>5. at \in Before
        BY <2>6 DEF NextDep
      <4> QED BY <4>2, <4>3, <4>4, <4>5, PendingDep
    <3> QED BY <2>6, <2>0, <3>2, <3>3 DEF NextDep, PickFails, PickStops, PickConflicts, PickRefused
  <2>7. CASE AbortDep
    BY <2>7, <2>0, KeepsPending DEF AbortDep, PickDropped, NoConflict
  <2>8. CASE ReadConflicts
    BY <2>8, <2>0, KeepsPending DEF ReadConflicts
  <2>9. CASE Suggest
    BY <2>9, <2>0, KeepsPending DEF Suggest
  <2>10. CASE Validate
    BY <2>10, <2>0, KeepsPending DEF Validate, Settle
  <2>11. CASE Rewrite
    BY <2>11, <2>0, KeepsPending DEF Rewrite
  <2>12. CASE Stage
    BY <2>12, <2>0, KeepsPending DEF Stage
  <2>13. CASE Continue
    <3>1. CASE at' = "trailer"
      BY <3>1 DEF PendingInv
    <3> QED BY <2>13, <2>0, <3>1, KeepsPending DEF Continue
  <2>14. CASE RewriteTrailer
    <3>1. at' \notin Before \cup Outside
      BY <2>14 DEF RewriteTrailer
    <3> QED BY <3>1 DEF PendingInv
  <2>15. CASE AuditAmends
    <3>1. at' \notin Before \cup Outside
      BY <2>15 DEF AuditAmends, Conclude
    <3> QED BY <3>1 DEF PendingInv
  <2>16. CASE AuditFails
    BY <2>16, <2>0, KeepsPending DEF AuditFails, Conclude
  <2>17. CASE ReviewEditsNothing
    BY <2>17, <2>0, KeepsPending DEF ReviewEditsNothing, EditsNothing, Conclude
  <2>18. CASE RepairEditsNothing
    BY <2>18, <2>0, KeepsPending DEF RepairEditsNothing, EditsNothing, Conclude
  <2>19. CASE StaticCheck
    BY <2>19, <2>0, KeepsPending DEF StaticCheck, CheckFailed
  <2>20. CASE Work
    BY <2>20, <2>0, KeepsPending DEF Work
  <2>21. CASE SomeoneEdits
    BY <2>21, <2>0, KeepsPending DEF SomeoneEdits
  <2> QED
    BY <1>1, <2>1, <2>2, <2>3, <2>4, <2>5, <2>6, <2>7, <2>8, <2>9, <2>10, <2>11, <2>12,
       <2>13, <2>14, <2>15, <2>16, <2>17, <2>18, <2>19, <2>20, <2>21 DEF ApplyStep, Meanwhile,
       Step, PickStep, ResolveStep, AuditStep
<1>2. CASE SpawnImport
    BY <1>2, KeepsPending DEF SpawnImport
<1>3. CASE Collected
  BY <1>3, KeepsPending DEF Collected, ImportInv
<1>4. CASE CancelCollected
    BY <1>4, KeepsPending DEF CancelCollected
<1>5. CASE NextCommit
    BY <1>5, KeepsPending DEF NextCommit, Leave, Begin
<1>6. CASE CommitEnds
  <2>1. CASE UNCHANGED <<index, at>>
    BY <1>6, <2>1, KeepsPending DEF CommitEnds, Leave
  <2>2. CASE index' = index + 1
    <3>1. UNCHANGED <<head, start, series>>
      BY <1>6, <2>2 DEF CommitEnds, Leave
    <3>2. AppliedRange' = AppliedRange
      BY <3>1 DEF AppliedRange
    <3>3. Ids(AppliedRange)' = Ids(AppliedRange)
      BY <3>2 DEF Ids
    <3> QED BY <2>2, <3>1, <3>3 DEF SeriesAccounted, PendingInv
  <2> QED BY <1>6, <2>1, <2>2 DEF CommitEnds, Leave
<1>7. CASE CommitFails
    BY <1>7, KeepsPending DEF CommitFails, Leave
<1>8. CASE ChildEnds
    BY <1>8, KeepsPending DEF ChildEnds
<1>9. CASE ImportCancelled
    BY <1>9, KeepsPending DEF ImportCancelled
<1>10. CASE Interrupt
    BY <1>10, KeepsPending DEF Interrupt, Leave
<1>11. CASE Kill
    BY <1>11, KeepsPending DEF Kill
<1>12. CASE CleanUp
    BY <1>12, KeepsPending DEF CleanUp, NoConflict
<1>13. CASE Rerun
  <2>1. head' \in Seq(Entry) /\ Len(head') \in 1..Len(head') /\ start' = Len(head')
        /\ Len(head') \in Nat
    BY <1>13 DEF HandInv, Rerun
  <2>2. Ids(AppliedRange)' = {head'[i].id : i \in (Len(head') + 1)..Len(head')}
    BY <2>1, IdsOfEnd DEF AppliedRange
  <2>3. Ids(AppliedRange)' = {}
    BY <2>1, <2>2
  <2> QED BY <2>3 DEF PendingInv
<1>14. CASE UNCHANGED vars
  BY <1>14, KeepsPending
<1> QED
  BY <1>1, <1>2, <1>3, <1>4, <1>5, <1>6, <1>7, <1>8, <1>9, <1>10, <1>11, <1>12, <1>13, <1>14
     DEF Next, Program

\* No step leaves a commit of the series out, runs ahead, or repeats one but by
\* a pick of an earlier run's commit.
LEMMA AccountedStep ==
  ASSUME HandInv, BranchInv, PendingInv, BranchMoves, SeriesAccounted, UNCHANGED series
  PROVE  SeriesAccounted'
<1> DEFINE Later == {head[i].id : i \in (start + 1)..Len(head)}
<1>1. /\ head \in Seq(Entry) /\ start \in 1..Len(head) /\ index \in 1..(Len(Series) + 1)
      /\ Len(head) \in Nat /\ start \in Nat /\ index \in Nat /\ DOMAIN head = 1..Len(head)
      /\ series = Series /\ Len(Series) \in Nat /\ DOMAIN Series = 1..Len(Series)
  BY ApplySeriesAssumption DEF HandInv, InHand
<1>2. /\ head' \in Seq(Entry) /\ start' \in 1..Len(head')
      /\ DOMAIN head' = 1..Len(head') /\ Len(head') \in Nat
  BY BoundsStep
<1>3. Ids(AppliedRange) = Later
  BY <1>1, IdsOfEnd DEF AppliedRange
<1>4. Ids(AppliedRange)' = Later'
  BY <1>2, IdsOfEnd DEF AppliedRange
<1>5. ASSUME Ids(head) \subseteq Ids(head)', NEW c, c \in Ids(head) \/ AlreadyApplied(c)
      PROVE  c \in Ids(head)' \/ AlreadyApplied(c)'
  BY <1>5 DEF AlreadyApplied, LogSubjects
<1>6. CASE UNCHANGED <<head, start, index>>
  <2>1. AppliedRange' = AppliedRange /\ Ids(head)' = Ids(head)
    BY <1>6 DEF AppliedRange, Ids
  <2>2. Ids(AppliedRange)' = Ids(AppliedRange)
    BY <2>1 DEF Ids
  <2> QED BY <1>5, <1>6, <2>1, <2>2 DEF SeriesAccounted
<1>7. ASSUME NEW c \in Known, NEW r \in BOOLEAN, Appends(c, r) PROVE SeriesAccounted'
  <2>1. /\ Len(head') = Len(head) + 1 /\ \A i \in 1..Len(head) : head'[i] = head[i]
        /\ head'[Len(head')].id = c /\ Ids(head)' = Ids(head) \cup {c}
        /\ UNCHANGED <<index, start>>
    BY <1>1, <1>7, BranchGrows, NewCommit DEF Appends
  <2>2. Later' \subseteq Later \cup {c}
    BY <1>1, <2>1
  <2>3. \A k \in (index + 1)..Len(series) : series[k] # c
    <3>1. (c = Series[index] /\ index \in 1..Len(Series)) \/ c \notin ToSet(Series)
      BY <1>1, <1>7 DEF Appends, HandInv, InHand
    <3> QED BY <1>1, <3>1, ApplySeriesAssumption DEF ToSet
  <2>4. \A k \in (index + 1)..Len(series) : series[k] \notin Ids(AppliedRange)'
    BY <1>3, <1>4, <2>2, <2>3 DEF SeriesAccounted
  <2>5. c \in Ids(head) => c \in ToSet(series) /\ ~r /\ c \notin Later
    <3> SUFFICES ASSUME c \in Ids(head) PROVE c \in ToSet(series) /\ ~r /\ c \notin Later
      OBVIOUS
    <3>1. c = current /\ at \in Before /\ ~r /\ at \notin Outside
      BY <1>7 DEF Appends
    <3>2. c = series[index] /\ index \in index..Len(series) /\ index \in DOMAIN series
      BY <1>1, <3>1 DEF HandInv, InHand
    <3>3. c \notin Ids(AppliedRange)
      BY <3>1, <3>2 DEF PendingInv
    <3>4. c \in ToSet(series)
      BY <3>2 DEF ToSet
    <3> QED BY <1>3, <3>1, <3>3, <3>4
  <2>6. \A i, j \in DOMAIN head' :
          i < j /\ head'[i].id = head'[j].id =>
            head'[j].id \in ToSet(series) /\ i <= start /\ ~head'[j].resolved
    <3> SUFFICES ASSUME NEW i \in DOMAIN head', NEW j \in DOMAIN head',
                        i < j, head'[i].id = head'[j].id
                 PROVE  head'[j].id \in ToSet(series) /\ i <= start /\ ~head'[j].resolved
      OBVIOUS
    <3>1. i \in 1..Len(head) /\ (j \in 1..Len(head) \/ j = Len(head'))
      BY <1>1, <1>2, <2>1
    <3>2. CASE j \in 1..Len(head)
      BY <1>1, <2>1, <3>1, <3>2 DEF SeriesAccounted
    <3>3. CASE j = Len(head')
      <4>1. head[i].id = c /\ c \in Ids(head) /\ head'[j].id = c
        BY <1>1, <2>1, <3>1, <3>3 DEF Ids
      <4>2. head'[j].resolved = r
        BY <1>1, <1>7, <3>3, BranchGrows, NewCommit DEF Appends
      <4>3. i <= start
        BY <1>1, <2>5, <3>1, <4>1
      <4> QED BY <2>5, <4>1, <4>2, <4>3
    <3> QED BY <3>1, <3>2, <3>3
  <2>7. UNCHANGED series /\ UNCHANGED start /\ UNCHANGED index
    BY <2>1
  <2> QED BY <1>5, <2>1, <2>4, <2>6, <2>7 DEF SeriesAccounted
<1>8. ASSUME NEW e \in Entry, Rewrites(e) PROVE SeriesAccounted'
  <2>1. /\ Len(head') = Len(head) /\ \A i \in 1..(Len(head) - 1) : head'[i] = head[i]
        /\ head'[Len(head')] = e /\ e.id = head[Len(head)].id
        /\ e.resolved = head[Len(head)].resolved
        /\ Ids(head)' = Ids(head) /\ UNCHANGED <<index, start>>
    <3>1. Len(head) > 0
      BY <1>1
    <3> QED BY <1>1, <1>8, <3>1, BranchAmended DEF Rewrites
  <2>2. \A i \in 1..Len(head) : head'[i].id = head[i].id /\ head'[i].resolved = head[i].resolved
    BY <1>1, <2>1
  <2>3. Later' = Later
    <3>1. \A i \in (start + 1)..Len(head) : i \in 1..Len(head)
      BY <1>1
    <3> QED BY <2>1, <2>2, <3>1
  <2> QED BY <1>1, <1>2, <1>3, <1>4, <1>5, <2>1, <2>2, <2>3 DEF SeriesAccounted
<1>9. CASE at = "finished" /\ index' = index + 1 /\ UNCHANGED <<head, start>>
  <2>1. AppliedRange' = AppliedRange /\ Ids(head)' = Ids(head)
    BY <1>9 DEF AppliedRange, Ids
  <2>2. Ids(AppliedRange)' = Ids(AppliedRange)
    BY <2>1 DEF Ids
  <2>3. series[index] \in Ids(head) \/ AlreadyApplied(series[index])
    BY <1>9 DEF BranchInv, HandInv, InHand, Outside
  <2>4. \A k \in 1..(index' - 1) : k \in 1..(index - 1) \/ k = index
    BY <1>1, <1>9
  <2>5. \A k \in 1..(index' - 1) : series[k] \in Ids(head) \/ AlreadyApplied(series[k])
    BY <2>3, <2>4 DEF SeriesAccounted
  <2>6. \A k \in (index' + 1)..Len(series) : k \in (index + 1)..Len(series)
    BY <1>1, <1>9
  <2> QED BY <1>5, <1>9, <2>1, <2>2, <2>5, <2>6 DEF SeriesAccounted
<1>10. CASE index' = 1 /\ start' = Len(head) /\ UNCHANGED head
  <2>1. Later' = {}
    BY <1>1, <1>10
  <2> QED BY <1>4, <1>10, <2>1 DEF SeriesAccounted
<1> QED BY <1>6, <1>7, <1>8, <1>9, <1>10 DEF BranchMoves

\* What holds of the branch in every reachable state.
BranchHistory == ImportInv /\ HandInv /\ BranchInv /\ PendingInv /\ SeriesAccounted

\* Before the first run the branch is its base.
LEMMA HistoryInit == Init => BranchHistory
<1> SUFFICES ASSUME Init PROVE BranchHistory
  OBVIOUS
<1>1. /\ head = <<Commit(Base, FALSE)>> /\ start = 1 /\ index = 1 /\ series = Series
      /\ at \in Outside
  BY DEF Init, Outside
<1>2. Base \in Known /\ FALSE \in BOOLEAN
  BY DEF Known
<1>3. Commit(Base, FALSE) \in Entry
  BY <1>2, NewCommit
<1>4. head \in Seq(Entry) /\ Len(head) = 1 /\ DOMAIN head = 1..1 /\ 1..Len(head) = {1}
  <2> DEFINE x == Commit(Base, FALSE)
  <2>1. x \in Entry
    BY <1>3
  <2> HIDE DEF x
  <2>2. <<x>> \in Seq(Entry) /\ Len(<<x>>) = 1 /\ DOMAIN <<x>> = 1..1
    BY <2>1
  <2>3. head = <<x>> /\ 1..1 = {1}
    BY <1>1 DEF x
  <2>4. head \in Seq(Entry) /\ Len(head) = 1
    BY <2>2, <2>3
  <2>5. DOMAIN head = 1..Len(head)
    BY <2>4
  <2> QED BY <2>3, <2>4, <2>5
<1>5. HandInv
  <2>1. Len(Series) \in Nat
    BY ApplySeriesAssumption
  <2>2. start \in 1..Len(head) /\ index \in 1..(Len(Series) + 1)
    BY <1>1, <1>4, <2>1
  <2> QED BY <1>1, <1>4, <2>2 DEF HandInv, InHand, Outside
<1>6. BranchInv
  BY <1>1 DEF BranchInv, Outside, Conflicted, Landed
<1>7. Ids(AppliedRange) = {}
  <2>1. Ids(AppliedRange) = {head[i].id : i \in (start + 1)..Len(head)}
    <3>1. 1 \in 1..Len(head)
      BY <1>4
    <3> QED BY <1>1, <1>4, <3>1, IdsOfEnd DEF AppliedRange
  <2> QED BY <1>1, <1>4, <2>1
<1>8. SeriesAccounted
  BY <1>1, <1>4, <1>7 DEF SeriesAccounted
<1>9. PendingInv
  BY <1>7 DEF PendingInv
<1>10. ImportInv
  BY DEF Init, ImportInv, ImportGuarded
<1> QED BY <1>5, <1>6, <1>8, <1>9, <1>10 DEF BranchHistory

\* The inductive step, by the kinds of change to the branch.
LEMMA HistoryStep == ASSUME BranchHistory, [Next]_vars PROVE BranchHistory'
<1>1. BranchMoves /\ InHand' /\ BranchInv'
  BY BranchStep, HandStep, BranchInvStep DEF BranchHistory, HandInv
<1>2. HandInv'
  BY <1>1, BoundsStep, ApplySeriesAssumption DEF BranchHistory, HandInv
<1>3. UNCHANGED series
  BY <1>1 DEF BranchHistory, HandInv, InHand
<1>4. SeriesAccounted'
  BY <1>1, <1>3, AccountedStep DEF BranchHistory
<1>5. PendingInv' /\ ImportInv'
  BY PendingStep, ImportStep DEF BranchHistory
<1> QED BY <1>1, <1>2, <1>4, <1>5 DEF BranchHistory

\* In every reachable state.
LEMMA AlwaysHistory == Spec => []BranchHistory
<1>1. BranchHistory /\ [Next]_vars => BranchHistory'
  BY HistoryStep
<1> QED BY HistoryInit, <1>1, PTL DEF Spec

\* The branch accounts for the series: at every moment of every run the
\* commits before the one in hand are on the branch or covered by one of the
\* same subject, none of those after it has been put there by this run, and a
\* commit is there twice only if git has picked one of the series anew that an
\* earlier run had put there (run_apply_command and run()).
THEOREM Accounted == Spec => []SeriesAccounted
<1>1. BranchHistory => SeriesAccounted
  BY DEF BranchHistory
<1> QED BY <1>1, AlwaysHistory, PTL

\* Nothing is ever taken off the branch, and what is put on it or rewritten is
\* the commit in hand or one that its message refers to.
THEOREM OwnAmended == Spec => OnlyOwnAmended
<1> DEFINE A == \/ head' = head
                \/ /\ Front(head') = head
                   /\ Last(head').id \in {current} \union ToSet(Refs[current])
                \/ /\ Len(head) > start /\ Last(head).id = current
                   /\ Front(head') = Front(head) /\ Last(head').id = current
<1>1. BranchHistory /\ [Next]_vars => [A]_vars
  <2> SUFFICES ASSUME BranchHistory, Next PROVE A
    OBVIOUS
  <2>1. BranchMoves /\ head \in Seq(Entry)
    BY BranchStep DEF BranchHistory, HandInv
  <2>2. ASSUME NEW c \in Known, NEW r \in BOOLEAN, Appends(c, r) PROVE A
    <3>1. Front(head') = head /\ Last(head').id = c
      BY <2>1, <2>2, BranchGrows, NewCommit DEF Appends
    <3> QED BY <2>2, <3>1 DEF Appends
  <2>3. ASSUME NEW e \in Entry, Rewrites(e) PROVE A
    <3>1. Len(head) > start /\ head[Len(head)].id = current /\ start \in Nat
          /\ Len(head) \in Nat /\ Len(head) > 0
      BY <2>3 DEF Rewrites, BranchHistory, BranchInv, HandInv
    <3>2. Front(head') = Front(head) /\ Last(head') = e
      BY <2>1, <2>3, <3>1, BranchAmended DEF Rewrites
    <3> QED BY <2>3, <3>1, <3>2 DEF Rewrites, Last
  <2> QED BY <2>1, <2>2, <2>3 DEF BranchMoves
<1> QED BY <1>1, AlwaysHistory, PTL DEF Spec, OnlyOwnAmended

-----------------------------------------------------------------------------
(* A run that reports success leaves nothing to clean up.                  *)

\* A set of naturals has a least element.
LEMMA Least ==
  ASSUME NEW T, T \subseteq Nat, T # {}
  PROVE  \E n \in T : \A m \in T : n <= m
<1>1. IsWellFoundedOn(OpToRel(<, Nat), Nat)
  BY NatLessThanWellFounded
<1>2. PICK n \in T : \A m \in T : <<m, n>> \notin OpToRel(<, Nat)
  BY <1>1, WFMin
<1>3. \A m \in T : ~(m < n)
  BY <1>2 DEF OpToRel
<1> QED BY <1>3

\* Empty sequences flatten to an empty one.
LEMMA FlattenEmpties ==
  ASSUME NEW s, NEW n \in Nat, s = [i \in 1..n |-> <<>>]
  PROVE  FlattenSeq(s) = <<>>
<1> DEFINE F(g) == [i \in 1..Len(s) |-> IF i = 1 THEN s[i] ELSE g[i - 1] \o s[i]]
           f == CHOOSE g : g = F(g)
           D == {i \in 1..n : f[i] # <<>>}
<1>1. Len(s) = n /\ \A i \in 1..n : s[i] = <<>>
  OBVIOUS
<1>2. CASE n = 0
  <2>1. s = <<>>
    BY <1>1, <1>2
  <2> QED BY <1>1, <1>2, <2>1 DEF FlattenSeq
<1>3. CASE n # 0
  <2>1. F(s) = s
    <3>1. <<>> \o <<>> = <<>>
      OBVIOUS
    <3>2. \A i \in 1..n : i # 1 => i - 1 \in 1..n
      OBVIOUS
    <3> QED BY <1>1, <3>1, <3>2
  <2> HIDE DEF F
  <2>2. f = F(f)
    BY <2>1, Zenon
  <2> HIDE DEF f
  <2> USE DEF F
  <2>3. \A i \in 1..n : f[i] = IF i = 1 THEN <<>> ELSE f[i - 1] \o <<>>
    BY <1>1, <2>2
  <2>4. D = {}
    <3> SUFFICES ASSUME D # {} PROVE FALSE
      OBVIOUS
    <3>1. PICK k \in D : \A m \in D : k <= m
      <4>1. D \subseteq Nat
        OBVIOUS
      <4> HIDE DEF D
      <4> QED BY <4>1, Least
    <3>2. k \in 1..n /\ k # 1 /\ k - 1 \in 1..n /\ k - 1 \notin D
      BY <2>3, <3>1
    <3>3. f[k] = <<>> \o <<>>
      BY <2>3, <3>2
    <3> QED BY <3>1, <3>3
  <2>5. f[n] = <<>>
    BY <1>3, <2>4
  <2>6. FlattenSeq(s) = f[n]
    <3>1. Len(s) # 0
      BY <1>1, <1>3
    <3>2. FlattenSeq(s) = f[Len(s)]
      BY <3>1, Zenon DEF FlattenSeq, f
    <3> QED BY <1>1, <3>2
  <2> QED BY <2>5, <2>6
<1> QED BY <1>2, <1>3

\* With no file unmerged there is no conflict to be read.
LEMMA NothingParsed == ASSUME FilesInv, unmerged = {} PROVE Parsed = <<>>
<1> DEFINE s == [i \in 1..Len(files) |-> <<>>]
<1>1. Parsed = FlattenSeq(s)
  BY DEF Parsed, FilesInv
<1>2. FlattenSeq(s) = <<>>
  <2>1. Len(files) \in Nat
    BY DEF FilesInv
  <2> QED BY <2>1, FlattenEmpties
<1> QED BY <1>1, <1>2

\* A function whose domain is that of a list is a list.
LEMMA SameDomain ==
  ASSUME NEW n \in Nat, NEW f, DOMAIN f = 1..n PROVE Len(f) = n
  OBVIOUS

\* The files in conflict stay a list.
LEMMA FilesStep ==
  ASSUME FilesInv, [Next]_vars PROVE FilesInv'
<1> USE DEF FilesInv
<1>1. CASE ApplyStep \/ Meanwhile
  <2>0. Running /\ UNCHANGED seriesVars
    BY <1>1 DEF ApplyStep, Meanwhile
  <2>1. CASE EnsureClean
    BY <2>1, <2>0 DEF EnsureClean
  <2>2. CASE Pick
    <3>1. ASSUME NEW c, PickConflicts(c) PROVE FilesInv'
      <4>1. Len(text') \in Nat /\ DOMAIN text' = 1..Len(text') /\ DOMAIN files' = DOMAIN text'
        BY <3>1, ApplySeriesAssumption DEF PickConflicts
      <4> QED BY <4>1, SameDomain
    <3> QED BY <2>2, <2>0, <3>1 DEF Pick, PickLands, PickFails, PickStops, PickRefused
  <2>3. CASE Detect
    BY <2>3, <2>0 DEF Detect
  <2>4. CASE Skip
    BY <2>4, <2>0 DEF Skip, PickDropped, NoConflict
  <2>5. CASE AbortForDeps
    BY <2>5, <2>0 DEF AbortForDeps, PickDropped, NoConflict
  <2>6. CASE NextDep
    <3>1. ASSUME NEW c, PickConflicts(c) PROVE FilesInv'
      <4>1. Len(text') \in Nat /\ DOMAIN text' = 1..Len(text') /\ DOMAIN files' = DOMAIN text'
        BY <3>1, ApplySeriesAssumption DEF PickConflicts
      <4> QED BY <4>1, SameDomain
    <3> QED BY <2>6, <2>0, <3>1 DEF NextDep, PickLands, PickFails, PickStops, PickRefused
  <2>7. CASE AbortDep
    BY <2>7, <2>0 DEF AbortDep, PickDropped, NoConflict
  <2>8. CASE ReadConflicts
    BY <2>8, <2>0 DEF ReadConflicts
  <2>9. CASE Suggest
    BY <2>9, <2>0 DEF Suggest
  <2>10. CASE Validate
    BY <2>10, <2>0 DEF Validate, Settle
  <2>11. CASE Rewrite
    <3>1. DOMAIN files' = DOMAIN files
      BY <2>11 DEF Rewrite
    <3> QED BY <3>1, SameDomain
  <2>12. CASE Stage
    BY <2>12, <2>0 DEF Stage
  <2>13. CASE Continue
    BY <2>13, <2>0 DEF Continue, NoConflict
  <2>14. CASE RewriteTrailer
    BY <2>14, <2>0 DEF RewriteTrailer
  <2>15. CASE AuditAmends
    BY <2>15, <2>0 DEF AuditAmends, Conclude
  <2>16. CASE AuditFails
    BY <2>16, <2>0 DEF AuditFails, Conclude
  <2>17. CASE ReviewEditsNothing
    BY <2>17, <2>0 DEF ReviewEditsNothing, EditsNothing, Conclude
  <2>18. CASE RepairEditsNothing
    BY <2>18, <2>0 DEF RepairEditsNothing, EditsNothing, Conclude
  <2>19. CASE StaticCheck
    BY <2>19, <2>0 DEF StaticCheck, CheckFailed
  <2>20. CASE Work
    BY <2>20, <2>0 DEF Work
  <2>21. CASE SomeoneEdits
    <3>1. DOMAIN files' = DOMAIN files
      BY <2>21 DEF SomeoneEdits
    <3> QED BY <3>1, SameDomain
  <2> QED
    BY <1>1, <2>1, <2>2, <2>3, <2>4, <2>5, <2>6, <2>7, <2>8, <2>9, <2>10, <2>11, <2>12,
       <2>13, <2>14, <2>15, <2>16, <2>17, <2>18, <2>19, <2>20, <2>21 DEF ApplyStep, Meanwhile,
       Step, PickStep, ResolveStep, AuditStep
<1>2. CASE SpawnImport
  BY <1>2 DEF SpawnImport
<1>3. CASE Collected
  BY <1>3 DEF Collected
<1>4. CASE CancelCollected
  BY <1>4 DEF CancelCollected
<1>5. CASE NextCommit
  BY <1>5 DEF NextCommit, Leave, Begin
<1>6. CASE CommitEnds
  BY <1>6 DEF CommitEnds, Leave
<1>7. CASE CommitFails
  BY <1>7 DEF CommitFails, Leave
<1>8. CASE ChildEnds
  BY <1>8 DEF ChildEnds
<1>9. CASE ImportCancelled
  BY <1>9 DEF ImportCancelled
<1>10. CASE Interrupt
  BY <1>10 DEF Interrupt, Leave
<1>11. CASE Kill
  BY <1>11 DEF Kill
<1>12. CASE CleanUp
  BY <1>12 DEF CleanUp, NoConflict
<1>13. CASE Rerun
  BY <1>13 DEF Rerun, Fresh
<1>14. CASE UNCHANGED vars
  BY <1>14
<1> QED
  BY <1>1, <1>2, <1>3, <1>4, <1>5, <1>6, <1>7, <1>8, <1>9, <1>10, <1>11, <1>12, <1>13, <1>14
     DEF Next, Program

\* A program that runs has not succeeded yet.
LEMMA NoneIsNoCode == None # 0
  BY ApplySeriesAssumption

\* Every step leaves in the tree what there may be at the next one.
LEMMA TreeStep ==
  ASSUME ImportInv, HandInv, FilesInv, TreeInv, [Next]_vars PROVE TreeInv'
<1> USE DEF TreeInv, Clean, Outside, Landed
<1>1. CASE ApplyStep \/ Meanwhile
  <2>0. Running /\ UNCHANGED seriesVars
    BY <1>1 DEF ApplyStep, Meanwhile
  <2>1. CASE EnsureClean
    BY <2>1, <2>0 DEF EnsureClean
  <2>2. CASE Pick
    BY <2>2, <2>0 DEF Pick, PickLands, PickFails, PickStops, PickConflicts, PickRefused, NoConflict
  <2>3. CASE Detect
    BY <2>3, <2>0 DEF Detect
  <2>4. CASE Skip
    BY <2>4, <2>0 DEF Skip, PickDropped, NoConflict
  <2>5. CASE AbortForDeps
    BY <2>5, <2>0 DEF AbortForDeps, PickDropped, NoConflict
  <2>6. CASE NextDep
    BY <2>6, <2>0 DEF NextDep, PickLands, PickFails, PickStops, PickConflicts, PickRefused
  <2>7. CASE AbortDep
    BY <2>7, <2>0 DEF AbortDep, PickDropped, NoConflict
  <2>8. CASE ReadConflicts
    <3>1. CASE unmerged = {}
      <4>1. Parsed = <<>>
        BY <3>1, NothingParsed
      <4> QED BY <2>8, <2>0, <3>1, <4>1 DEF ReadConflicts
    <3>2. CASE dirty \subseteq {"ignored"}
      BY <2>8, <2>0, <3>2 DEF ReadConflicts
    <3> QED BY <2>8, <2>0, <3>1, <3>2 DEF ReadConflicts
  <2>9. CASE Suggest
    BY <2>9, <2>0 DEF Suggest
  <2>10. CASE Validate
    BY <2>10, <2>0 DEF Validate, Settle
  <2>11. CASE Rewrite
    BY <2>11, <2>0 DEF Rewrite
  <2>12. CASE Stage
    BY <2>12, <2>0 DEF Stage
  <2>13. CASE Continue
    BY <2>13, <2>0 DEF Continue, NoConflict
  <2>14. CASE RewriteTrailer
    BY <2>14, <2>0 DEF RewriteTrailer
  <2>15. CASE AuditAmends
    BY <2>15, <2>0 DEF AuditAmends, Conclude
  <2>16. CASE AuditFails
    BY <2>16, <2>0 DEF AuditFails, Conclude, Merged, MergeVerdict
  <2>17. CASE ReviewEditsNothing
    BY <2>17, <2>0 DEF ReviewEditsNothing, EditsNothing, Conclude
  <2>18. CASE RepairEditsNothing
    BY <2>18, <2>0 DEF RepairEditsNothing, EditsNothing, Conclude
  <2>19. CASE StaticCheck
    BY <2>19, <2>0 DEF StaticCheck, CheckFailed
  <2>20. CASE Work
    BY <2>20, <2>0 DEF Work
  <2>21. CASE SomeoneEdits
    BY <2>21, <2>0 DEF SomeoneEdits
  <2> QED
    BY <1>1, <2>1, <2>2, <2>3, <2>4, <2>5, <2>6, <2>7, <2>8, <2>9, <2>10, <2>11, <2>12,
       <2>13, <2>14, <2>15, <2>16, <2>17, <2>18, <2>19, <2>20, <2>21 DEF ApplyStep, Meanwhile,
       Step, PickStep, ResolveStep, AuditStep
<1>2. CASE SpawnImport
  BY <1>2 DEF SpawnImport
<1>3. CASE Collected
  <2>1. at \in Outside /\ exit = None
    BY <1>3 DEF Collected, ImportInv
  <2>2. CASE OnlyGoTo(IF at = "import" THEN "shazam" ELSE "loop") /\ UNCHANGED <<gitVars, index, exit>>
    <3>1. at' \in {"shazam", "loop"} /\ UNCHANGED <<picking, unmerged, dirty, index, exit>>
      BY <2>2
    <3> QED BY <2>1, <3>1, NoneIsNoCode
  <2>3. CASE exit' = 1 /\ UNCHANGED <<applyVars, index>>
    <3>1. UNCHANGED <<picking, unmerged, dirty, index, at, review>> /\ exit' # 0
      BY <2>3
    <3> QED BY <3>1
  <2> QED BY <1>3, <2>2, <2>3 DEF Collected
<1>4. CASE CancelCollected
  BY <1>4 DEF CancelCollected
<1>5. CASE NextCommit
  BY <1>5, NoneIsNoCode DEF NextCommit, Leave, Begin, HandInv, InHand
<1>6. CASE CommitEnds
  BY <1>6 DEF CommitEnds, Leave, ExitCode
<1>7. CASE CommitFails
  BY <1>7 DEF CommitFails, Leave
<1>8. CASE ChildEnds
  BY <1>8 DEF ChildEnds
<1>9. CASE ImportCancelled
  BY <1>9 DEF ImportCancelled
<1>10. CASE Interrupt
  BY <1>10 DEF Interrupt, Leave, Interrupted
<1>11. CASE Kill
  BY <1>11 DEF Kill, Killed
<1>12. CASE CleanUp
  BY <1>12 DEF CleanUp, NoConflict
<1>13. CASE Rerun
  BY <1>13, NoneIsNoCode DEF Rerun, Fresh
<1>14. CASE UNCHANGED vars
  BY <1>14
<1> QED
  BY <1>1, <1>2, <1>3, <1>4, <1>5, <1>6, <1>7, <1>8, <1>9, <1>10, <1>11, <1>12, <1>13, <1>14
     DEF Next, Program

\* What must be known of a step that leaves the branch alone.
LEMMA KeepsTrailers ==
  ASSUME TrailerInv, UNCHANGED <<head, start>>,
         at \in {"trailer", "error"} => at' \in {"trailer", "error"},
         at' = "trailer" => at = "trailer"
  PROVE  TrailerInv'
  BY DEF TrailerInv

\* A new commit is to be given the trailer if it has been resolved.
LEMMA TrailerOfNew ==
  ASSUME HandInv, TrailerInv, NEW c \in Known, NEW r \in BOOLEAN, Appends(c, r),
         at \notin {"trailer", "error"}, r <=> at' = "trailer"
  PROVE  TrailerInv'
<1>1. /\ Len(head') = Len(head) + 1 /\ \A i \in 1..Len(head) : head'[i] = head[i]
      /\ head'[Len(head')].resolved = r /\ head'[Len(head')].trailer = "picked"
      /\ start' = start /\ start \in 1..Len(head) /\ Len(head) \in Nat
  BY BranchGrows, NewCommit DEF HandInv, Appends
<1>2. ASSUME NEW i \in (start' + 1)..Len(head')
      PROVE  \/ head'[i].resolved <=> head'[i].trailer = "backported"
             \/ i = Len(head') /\ at' \in {"trailer", "error"}
  <2>1. CASE i \in (start + 1)..Len(head)
    <3>1. head'[i] = head[i]
      BY <1>1, <2>1
    <3> QED BY <2>1, <3>1 DEF TrailerInv
  <2>2. CASE i = Len(head')
    BY <1>1, <2>2
  <2> QED BY <1>1, <1>2, <2>1, <2>2
<1>3. at' = "trailer" => head'[Len(head')].resolved
  BY <1>1
<1> QED BY <1>2, <1>3 DEF TrailerInv

\* The last commit is rewritten to have the trailer that it should.
LEMMA TrailerOfLast ==
  ASSUME HandInv, BranchInv, TrailerInv, NEW e \in Entry, Rewrites(e), at' # "trailer",
         e.resolved <=> e.trailer = "backported"
  PROVE  TrailerInv'
<1>1. /\ Len(head') = Len(head) /\ \A i \in 1..(Len(head) - 1) : head'[i] = head[i]
      /\ head'[Len(head')] = e
      /\ start' = start /\ start \in 1..Len(head) /\ Len(head) \in Nat
  <2>1. head \in Seq(Entry) /\ Len(head) > 0
    BY DEF HandInv
  <2> QED BY <2>1, BranchAmended DEF HandInv, Rewrites
<1>2. ASSUME NEW i \in (start' + 1)..Len(head')
      PROVE  head'[i].resolved <=> head'[i].trailer = "backported"
  <2>1. CASE i = Len(head)
    BY <1>1, <2>1
  <2>2. CASE i # Len(head)
    <3>1. i \in (start + 1)..Len(head) /\ head'[i] = head[i]
      BY <1>1, <1>2, <2>2
    <3> QED BY <2>2, <3>1 DEF TrailerInv
  <2> QED BY <2>1, <2>2
<1> QED BY <1>2 DEF TrailerInv

\* Every step leaves each commit the trailer it should have.
LEMMA TrailerStep ==
  ASSUME ImportInv, HandInv, BranchInv, TrailerInv, [Next]_vars PROVE TrailerInv'
<1>1. CASE ApplyStep \/ Meanwhile
  <2>0. Running /\ UNCHANGED seriesVars
    BY <1>1 DEF ApplyStep, Meanwhile
  <2>1. CASE EnsureClean
    BY <2>1, <2>0, KeepsTrailers DEF EnsureClean
  <2>2. CASE Pick
    <3>1. CASE PickLands(current) /\ at' = "check"
      <4>1. current \in Known
        BY <2>2, ApplySeriesAssumption DEF HandInv, InHand, Pick, Outside, ToSet, Known
      <4>2. Appends(current, FALSE)
        BY <2>2, <2>0, <3>1, <4>1 DEF Pick, PickLands, Appends, Outside, Before
      <4> QED BY <2>2, <3>1, <4>1, <4>2, TrailerOfNew DEF Pick
    <3> QED
      BY <2>2, <2>0, <3>1, KeepsTrailers DEF Pick, PickFails, PickStops, PickConflicts,
         PickRefused
  <2>3. CASE Detect
    BY <2>3, <2>0, KeepsTrailers DEF Detect
  <2>4. CASE Skip
    BY <2>4, <2>0, KeepsTrailers DEF Skip, PickDropped, NoConflict
  <2>5. CASE AbortForDeps
    BY <2>5, <2>0, KeepsTrailers DEF AbortForDeps, PickDropped, NoConflict
  <2>6. CASE NextDep
    <3>1. current \in ToSet(Series)
      BY <2>6, ApplySeriesAssumption DEF HandInv, InHand, NextDep, Outside, ToSet
    <3>2. CASE head' = head
      BY <2>6, <2>0, <3>2, KeepsTrailers DEF NextDep
    <3>3. ASSUME NEW k \in deps, PickLands(Refs[current][k]), ~AlreadyApplied(Refs[current][k])
          PROVE TrailerInv'
      <4> DEFINE d == Refs[current][k]
      <4>1. k \in MissingDeps(current)
        BY <2>6, <3>3 DEF HandInv, InHand, NextDep, Outside
      <4>2. d \in ToSet(Refs[current]) /\ d \notin ToSet(series)
        BY <4>1 DEF MissingDeps, ToSet
      <4>3. d \in Known
        BY <3>1, <4>2 DEF Known
      <4>6. d \notin Ids(head)
        BY <3>1, <3>3, <4>2, DependencyNotThere
      <4>4. Appends(d, FALSE)
        BY <2>6, <2>0, <3>3, <4>2, <4>3, <4>6 DEF NextDep, PickLands, Appends, Outside
      <4> HIDE DEF d
      <4>5. at = "deps" /\ at' # "trailer"
        BY <2>6 DEF NextDep
      <4> QED BY <4>3, <4>4, <4>5, TrailerOfNew
    <3> QED BY <2>6, <2>0, <3>2, <3>3 DEF NextDep, PickFails, PickStops, PickConflicts, PickRefused
  <2>7. CASE AbortDep
    BY <2>7, <2>0, KeepsTrailers DEF AbortDep, PickDropped, NoConflict
  <2>8. CASE ReadConflicts
    BY <2>8, <2>0, KeepsTrailers DEF ReadConflicts
  <2>9. CASE Suggest
    BY <2>9, <2>0, KeepsTrailers DEF Suggest
  <2>10. CASE Validate
    BY <2>10, <2>0, KeepsTrailers DEF Validate, Settle
  <2>11. CASE Rewrite
    BY <2>11, <2>0, KeepsTrailers DEF Rewrite
  <2>12. CASE Stage
    BY <2>12, <2>0, KeepsTrailers DEF Stage
  <2>13. CASE Continue
    <3>1. CASE at' = "trailer"
      <4>1. /\ current \in ToSet(Series) /\ current \in Known
            /\ ~AlreadyApplied(current)
        BY <2>13, ApplySeriesAssumption DEF HandInv, InHand, BranchInv, Conflicted,
           Continue, Outside, ToSet, Known
      <4>2. current \notin Ids(head)
        BY <4>1, NotFoundNotThere
      <4>3. Appends(current, TRUE)
        BY <2>13, <2>0, <3>1, <4>1, <4>2 DEF Continue, Appends, Outside, Before, Conflicted
      <4> QED BY <2>13, <3>1, <4>1, <4>3, TrailerOfNew DEF Continue
    <3> QED BY <2>13, <2>0, <3>1, KeepsTrailers DEF Continue
  <2>14. CASE RewriteTrailer
    <3>1. Len(head) > 0 /\ head[Len(head)] \in Entry /\ at \in Landed
      BY <2>14 DEF HandInv, BranchInv, Landed, RewriteTrailer
    <3> DEFINE e == [head[Len(head)] EXCEPT !.trailer = "backported"]
    <3>2. e \in Entry /\ e.id = head[Len(head)].id /\ e.resolved = head[Len(head)].resolved
      BY <3>1 DEF Entry
    <3>3. CASE head' = [head EXCEPT ![Len(head)] = e] /\ at' \in {"review", "check"}
      <4>1. Rewrites(e) /\ at' # "trailer"
        BY <2>14, <2>0, <3>1, <3>2, <3>3 DEF RewriteTrailer, Rewrites
      <4>2. e.resolved <=> e.trailer = "backported"
        BY <2>14, <3>1 DEF TrailerInv, RewriteTrailer, Entry
      <4> HIDE DEF e
      <4> QED BY <3>2, <4>1, <4>2, TrailerOfLast
    <3> QED BY <2>14, <2>0, <3>3, KeepsTrailers DEF RewriteTrailer
  <2>15. CASE AuditAmends
    <3>1. Len(head) > 0 /\ head[Len(head)] \in Entry /\ at \in Landed
      BY <2>15 DEF HandInv, BranchInv, Landed, AuditAmends
    <3> DEFINE e == [head[Len(head)] EXCEPT !.amended = TRUE]
    <3>2. e \in Entry /\ e.id = head[Len(head)].id /\ e.resolved = head[Len(head)].resolved
      BY <3>1 DEF Entry
    <3>3. CASE head' = [head EXCEPT ![Len(head)] = e] /\ at' \in {"review", "check"}
      <4>1. Rewrites(e) /\ at' # "trailer"
        BY <2>15, <2>0, <3>1, <3>2, <3>3 DEF AuditAmends, Conclude, Rewrites
      <4>2. e.resolved <=> e.trailer = "backported"
        <5>1. Len(head) \in (start + 1)..Len(head)
          BY <2>15 DEF AuditAmends, HandInv, BranchInv, Landed
        <5>2. head[Len(head)].resolved <=> head[Len(head)].trailer = "backported"
          BY <2>15, <5>1 DEF TrailerInv, AuditAmends
        <5> QED BY <3>1, <5>2 DEF Entry
      <4> HIDE DEF e
      <4> QED BY <3>2, <4>1, <4>2, TrailerOfLast
    <3> QED BY <2>15, <2>0, <3>3, KeepsTrailers DEF AuditAmends, Conclude
  <2>16. CASE AuditFails
    BY <2>16, <2>0, KeepsTrailers DEF AuditFails, Conclude
  <2>17. CASE ReviewEditsNothing
    BY <2>17, <2>0, KeepsTrailers DEF ReviewEditsNothing, EditsNothing, Conclude
  <2>18. CASE RepairEditsNothing
    BY <2>18, <2>0, KeepsTrailers DEF RepairEditsNothing, EditsNothing, Conclude
  <2>19. CASE StaticCheck
    BY <2>19, <2>0, KeepsTrailers DEF StaticCheck, CheckFailed
  <2>20. CASE Work
    BY <2>20, <2>0, KeepsTrailers DEF Work
  <2>21. CASE SomeoneEdits
    BY <2>21, <2>0, KeepsTrailers DEF SomeoneEdits
  <2> QED
    BY <1>1, <2>1, <2>2, <2>3, <2>4, <2>5, <2>6, <2>7, <2>8, <2>9, <2>10, <2>11, <2>12,
       <2>13, <2>14, <2>15, <2>16, <2>17, <2>18, <2>19, <2>20, <2>21 DEF ApplyStep, Meanwhile,
       Step, PickStep, ResolveStep, AuditStep
<1>2. CASE SpawnImport
    BY <1>2, KeepsTrailers DEF SpawnImport
<1>3. CASE Collected
  BY <1>3, KeepsTrailers DEF Collected, ImportInv
<1>4. CASE CancelCollected
    BY <1>4, KeepsTrailers DEF CancelCollected
<1>5. CASE NextCommit
    BY <1>5, KeepsTrailers DEF NextCommit, Leave, Begin
<1>6. CASE CommitEnds
    BY <1>6, KeepsTrailers DEF CommitEnds, Leave
<1>7. CASE CommitFails
    BY <1>7, KeepsTrailers DEF CommitFails, Leave
<1>8. CASE ChildEnds
    BY <1>8, KeepsTrailers DEF ChildEnds
<1>9. CASE ImportCancelled
    BY <1>9, KeepsTrailers DEF ImportCancelled
<1>10. CASE Interrupt
    BY <1>10, KeepsTrailers DEF Interrupt, Leave
<1>11. CASE Kill
    BY <1>11, KeepsTrailers DEF Kill
<1>12. CASE CleanUp
    BY <1>12, KeepsTrailers DEF CleanUp, NoConflict
<1>13. CASE Rerun
  <2>1. Len(head') \in Nat /\ start' = Len(head') /\ at' # "trailer"
    BY <1>13 DEF HandInv, Rerun, Fresh
  <2> QED BY <2>1 DEF TrailerInv
<1>14. CASE UNCHANGED vars
  BY <1>14, KeepsTrailers
<1> QED
  BY <1>1, <1>2, <1>3, <1>4, <1>5, <1>6, <1>7, <1>8, <1>9, <1>10, <1>11, <1>12, <1>13, <1>14
     DEF Next, Program

\* What holds in every reachable state.
ApplyInv ==
  BranchHistory /\ FilesInv /\ TreeInv /\ TrailerInv

\* Before the first run nothing is to be cleaned up.
LEMMA ApplyInit == Init => ApplyInv
<1> SUFFICES ASSUME Init PROVE ApplyInv
  OBVIOUS
<1>1. BranchHistory
  BY HistoryInit
<1>3. FilesInv
  <2>1. files = <<>>
    BY DEF Init
  <2> QED BY <2>1 DEF FilesInv
<1>4. TreeInv
  BY NoneIsNoCode DEF Init, TreeInv, Landed, Clean
<1>5. TrailerInv
  <2>1. start = 1 /\ Len(head) = 1 /\ at # "trailer"
    <3>1. head = <<Commit(Base, FALSE)>>
      BY DEF Init
    <3> QED BY <3>1 DEF Init
  <2> QED BY <2>1 DEF TrailerInv
<1> QED BY <1>1, <1>3, <1>4, <1>5 DEF ApplyInv

\* The inductive step of all that CleanSuccess and ImportGuarded need.
LEMMA ApplyInvStep == ASSUME ApplyInv, [Next]_vars PROVE ApplyInv'
<1>1. BranchHistory /\ ImportInv /\ FilesInv /\ TreeInv /\ TrailerInv /\ HandInv /\ BranchInv
  BY DEF ApplyInv, BranchHistory
<1>2. BranchHistory'
  BY <1>1, HistoryStep
<1>4. FilesInv'
  BY <1>1, FilesStep
<1>5. TreeInv'
  BY <1>1, TreeStep
<1>6. TrailerInv'
  BY <1>1, TrailerStep
<1> QED BY <1>2, <1>4, <1>5, <1>6 DEF ApplyInv

\* The inductive invariant of the runs.
LEMMA AlwaysApply == Spec => []ApplyInv
<1>1. ApplyInv /\ [Next]_vars => ApplyInv'
  BY ApplyInvStep
<1> QED BY ApplyInit, <1>1, PTL DEF Spec

\* A run of boro apply that exits with success leaves no change in the tree, no
\* cherry-pick in progress, and the backport trailer on exactly the commits
\* that it has resolved, killed runs before it notwithstanding.
THEOREM CleanSuccess == Spec => []SuccessIsClean
<1>1. ApplyInv => SuccessIsClean
  <2> SUFFICES ASSUME ApplyInv, exit = 0 PROVE SuccessIsClean
    BY DEF SuccessIsClean
  <2>1. at = "loop" /\ index > Len(Series) /\ Len(Series) \in Nat /\ index \in Nat
    BY ApplySeriesAssumption DEF ApplyInv, TreeInv, BranchHistory, HandInv
  <2>2. Len(Series) > 0
    BY ApplySeriesAssumption
  <2>3. Clean /\ picking = None
    BY <2>1, <2>2 DEF ApplyInv, TreeInv, Outside
  <2>4. \A i \in (start + 1)..Len(head) :
          head[i].resolved <=> head[i].trailer = "backported"
    BY <2>1 DEF ApplyInv, TrailerInv
  <2> QED BY <2>3, <2>4 DEF SuccessIsClean
<1> QED BY <1>1, AlwaysApply, PTL

\* When the worktree of an import is removed, its child has been collected and
\* no process has its pipes; what has pipes of its own may go on, which is not
\* said here (ImportedSeries, cancellable_output).
THEOREM GuardedImport == Spec => []ImportGuarded
<1>1. ApplyInv => ImportGuarded
  BY DEF ApplyInv, BranchHistory, ImportInv
<1> QED BY <1>1, AlwaysApply, PTL

-----------------------------------------------------------------------------
(* What a run reports of a commit.                                         *)

\* The verdict tells of every amendment, and of what the check has found.
VerdictInv ==
  /\ faulted = Faulted
  /\ review \in {None, "clean", "amended", "needs_human"}
  /\ at \in Before => tree = None
  /\ at = "finished" => tree \in {None} \cup (DOMAIN Trees \ Faulted) \/ review = "needs_human"
  /\ tree \in {None} \cup DOMAIN Trees
  /\ at \in Landed \cup {"finished"} /\ Len(head) > start /\ head[Len(head)].id = current
       /\ head[Len(head)].amended => review \in {"amended", "needs_human"}

\* A step that leaves the branch and the verdict alone.
LEMMA KeepsVerdict ==
  ASSUME VerdictInv, UNCHANGED <<head, start, current, review, tree, faulted>>,
         at' \in Before => at \in Before,
         at' = "finished" => at = "finished" \/ tree = None,
         at' \in Landed \cup {"finished"} => \/ at \in Landed \cup {"finished"}
                                             \/ ~(Len(head) > start /\ head[Len(head)].id = current)
  PROVE  VerdictInv'
  BY DEF VerdictInv

\* A new commit has not been amended.
LEMMA VerdictOfNew ==
  ASSUME HandInv, VerdictInv, NEW r \in BOOLEAN, current \in Known,
         head' = Append(head, Commit(current, r)), at' \in Landed,
         UNCHANGED <<start, current, review, tree, faulted>>
  PROVE  VerdictInv'
<1>1. head'[Len(head')].amended = FALSE
  <2>1. head'[Len(head')] = Commit(current, r)
    BY BranchGrows DEF HandInv
  <2> QED BY <2>1 DEF Commit
<1> QED BY <1>1 DEF VerdictInv, Landed, Before, Conflicted

\* A verdict is only ever made worse.
LEMMA VerdictWorsens ==
  ASSUME VerdictInv, NEW v \in {"clean", "amended", "needs_human"}
  PROVE  /\ Merged(v) \in {"clean", "amended", "needs_human"}
         /\ v = "amended" \/ review \in {"amended", "needs_human"}
              => Merged(v) \in {"amended", "needs_human"}
  BY ApplySeriesAssumption DEF Merged, MergeVerdict, VerdictInv

\* Every step keeps the verdict true.
LEMMA VerdictStep ==
  ASSUME ImportInv, HandInv, BranchInv, PendingInv, VerdictInv, [Next]_vars PROVE VerdictInv'
<1> USE DEF Before, Outside, Landed, Conflicted
<1>1. CASE ApplyStep \/ Meanwhile
  <2>0. Running /\ UNCHANGED seriesVars
    BY <1>1 DEF ApplyStep, Meanwhile
  <2>1. CASE EnsureClean
    BY <2>1, <2>0, KeepsVerdict DEF EnsureClean
  <2>2. CASE Pick
    <3>1. CASE at' = "check" /\ head' = Append(head, Commit(current, FALSE))
      <4>1. current \in Known
        BY <2>2, ApplySeriesAssumption DEF HandInv, InHand, Pick, ToSet, Known
      <4> QED
        BY <2>2, <2>0, <3>1, <4>1, VerdictOfNew DEF Pick, PickLands, PickFails, PickStops,
           PickConflicts, PickRefused
    <3> QED
      BY <2>2, <2>0, <3>1, KeepsVerdict DEF Pick, PickLands, PickFails, PickStops,
         PickConflicts, PickRefused, NoConflict
  <2>3. CASE Detect
    BY <2>3, <2>0, KeepsVerdict DEF Detect
  <2>4. CASE Skip
    <3>1. ~(Len(head) > start /\ head[Len(head)].id = current)
      <4>1. /\ head \in Seq(Entry) /\ start \in 1..Len(head) /\ Len(head) \in Nat
            /\ current = series[index] /\ index \in index..Len(series)
        BY <2>4 DEF HandInv, InHand, Skip
      <4>2. Ids(AppliedRange) = {head[i].id : i \in (start + 1)..Len(head)}
        BY <4>1, IdsOfEnd DEF AppliedRange
      <4>3. current \notin Ids(AppliedRange)
        BY <2>4, <4>1 DEF PendingInv, Skip
      <4> QED BY <4>1, <4>2, <4>3
    <3> QED BY <2>4, <2>0, <3>1, KeepsVerdict DEF Skip, PickDropped, NoConflict, VerdictInv
  <2>5. CASE AbortForDeps
    BY <2>5, <2>0, KeepsVerdict DEF AbortForDeps, PickDropped, NoConflict
  <2>6. CASE NextDep
    <3>1. /\ UNCHANGED <<start, current, review, tree, faulted>>
          /\ at \in Before /\ at' \in {"pick", "deps", "abortdep", "error"}
      BY <2>6, <2>0 DEF NextDep
    <3> QED BY <3>1 DEF VerdictInv
  <2>7. CASE AbortDep
    BY <2>7, <2>0, KeepsVerdict DEF AbortDep, PickDropped, NoConflict
  <2>8. CASE ReadConflicts
    BY <2>8, <2>0, KeepsVerdict DEF ReadConflicts
  <2>9. CASE Suggest
    BY <2>9, <2>0, KeepsVerdict DEF Suggest
  <2>10. CASE Validate
    BY <2>10, <2>0, KeepsVerdict DEF Validate, Settle
  <2>11. CASE Rewrite
    BY <2>11, <2>0, KeepsVerdict DEF Rewrite
  <2>12. CASE Stage
    BY <2>12, <2>0, KeepsVerdict DEF Stage
  <2>13. CASE Continue
    <3>1. CASE at' = "trailer" /\ head' = Append(head, Commit(current, TRUE))
      <4>1. current \in Known
        BY <2>13, ApplySeriesAssumption DEF HandInv, InHand, Continue, ToSet, Known
      <4> QED BY <2>13, <2>0, <3>1, <4>1, VerdictOfNew DEF Continue
    <3> QED BY <2>13, <2>0, <3>1, KeepsVerdict DEF Continue, NoConflict
  <2>14. CASE RewriteTrailer
    <3>1. CASE head' = [head EXCEPT ![Len(head)].trailer = "backported"] /\ at' = "review"
      <4>1. Len(head) > 0 /\ head[Len(head)] \in Entry /\ head \in Seq(Entry)
            /\ Len(head) \in Nat
        BY <2>14 DEF HandInv, BranchInv, RewriteTrailer
      <4>2. Len(head') = Len(head) /\ head'[Len(head)].amended = head[Len(head)].amended
            /\ head'[Len(head)].id = head[Len(head)].id
        BY <3>1, <4>1 DEF Entry
      <4> QED BY <2>14, <2>0, <4>1, <4>2 DEF RewriteTrailer, VerdictInv
    <3> QED BY <2>14, <2>0, <3>1, KeepsVerdict DEF RewriteTrailer
  <2>15. CASE AuditAmends
    <3>1. review' \in {"amended", "needs_human"}
      BY <2>15, VerdictWorsens DEF AuditAmends, Conclude
    <3>2. tree' = None /\ at' = "check" /\ faulted' = faulted
      BY <2>15 DEF AuditAmends, Conclude
    <3> QED BY <3>1, <3>2 DEF VerdictInv
  <2>16. CASE AuditFails
    <3>1. PICK v \in {"clean", "needs_human"} : review' = Merged(v)
      BY <2>16 DEF AuditFails, Conclude
    <3>2. /\ at' = "check" /\ UNCHANGED <<head, start, current, tree, faulted>>
          /\ at \in Landed
      BY <2>16, <2>0 DEF AuditFails, Conclude
    <3>3. /\ review' \in {"clean", "amended", "needs_human"}
          /\ review \in {"amended", "needs_human"} => review' \in {"amended", "needs_human"}
      BY <3>1, VerdictWorsens
    <3> QED BY <3>2, <3>3 DEF VerdictInv
  <2>17. CASE ReviewEditsNothing
    <3>1. PICK v \in {"clean", "needs_human"} : review' = Merged(v)
      BY <2>17 DEF ReviewEditsNothing, EditsNothing, Conclude
    <3>2. /\ at' = "check" /\ UNCHANGED <<head, start, current, tree, faulted>>
          /\ at \in Landed
      BY <2>17, <2>0 DEF ReviewEditsNothing, EditsNothing, Conclude
    <3>3. /\ review' \in {"clean", "amended", "needs_human"}
          /\ review \in {"amended", "needs_human"} => review' \in {"amended", "needs_human"}
      BY <3>1, VerdictWorsens
    <3> QED BY <3>2, <3>3 DEF VerdictInv
  <2>18. CASE RepairEditsNothing
    <3>1. PICK v \in {"clean", "needs_human"} : review' = Merged(v)
      BY <2>18 DEF RepairEditsNothing, EditsNothing, Conclude
    <3>2. /\ at' = "check" /\ UNCHANGED <<head, start, current, tree, faulted>>
          /\ at \in Landed
      BY <2>18, <2>0 DEF RepairEditsNothing, EditsNothing, Conclude
    <3>3. /\ review' \in {"clean", "amended", "needs_human"}
          /\ review \in {"amended", "needs_human"} => review' \in {"amended", "needs_human"}
      BY <3>1, VerdictWorsens
    <3> QED BY <3>2, <3>3 DEF VerdictInv
  <2>19. CASE StaticCheck
    <3>1. /\ tree' \in DOMAIN Trees /\ UNCHANGED <<head, start, current, faulted>>
          /\ at \in Landed /\ at' \in {"finished", "repair"}
          /\ review' \in {review, "needs_human"}
      BY <2>19, <2>0 DEF StaticCheck, CheckFailed, VerdictInv
    <3>2. at' = "finished" => review' = "needs_human" \/ tree' \notin faulted
      BY <2>19 DEF StaticCheck, CheckFailed
    <3> QED BY <3>1, <3>2 DEF VerdictInv
  <2>20. CASE Work
    BY <2>20, <2>0, KeepsVerdict DEF Work
  <2>21. CASE SomeoneEdits
    BY <2>21, <2>0, KeepsVerdict DEF SomeoneEdits
  <2> QED
    BY <1>1, <2>1, <2>2, <2>3, <2>4, <2>5, <2>6, <2>7, <2>8, <2>9, <2>10, <2>11, <2>12,
       <2>13, <2>14, <2>15, <2>16, <2>17, <2>18, <2>19, <2>20, <2>21 DEF ApplyStep, Meanwhile,
       Step, PickStep, ResolveStep, AuditStep
<1>2. CASE SpawnImport
    BY <1>2, KeepsVerdict DEF SpawnImport
<1>3. CASE Collected
  BY <1>3, KeepsVerdict DEF Collected, ImportInv
<1>4. CASE CancelCollected
    BY <1>4, KeepsVerdict DEF CancelCollected
<1>5. CASE NextCommit
  <2>1. CASE at' = "begin"
    BY <1>5, <2>1 DEF NextCommit, Begin, VerdictInv
  <2> QED BY <1>5, <2>1, KeepsVerdict DEF NextCommit, Leave, Begin
<1>6. CASE CommitEnds
    BY <1>6, KeepsVerdict DEF CommitEnds, Leave
<1>7. CASE CommitFails
    BY <1>7, KeepsVerdict DEF CommitFails, Leave
<1>8. CASE ChildEnds
    BY <1>8, KeepsVerdict DEF ChildEnds
<1>9. CASE ImportCancelled
    BY <1>9, KeepsVerdict DEF ImportCancelled
<1>10. CASE Interrupt
    BY <1>10, KeepsVerdict DEF Interrupt, Leave
<1>11. CASE Kill
    BY <1>11, KeepsVerdict DEF Kill
<1>12. CASE CleanUp
    BY <1>12, KeepsVerdict DEF CleanUp, NoConflict
<1>13. CASE Rerun
  BY <1>13 DEF Rerun, Fresh, VerdictInv
<1>14. CASE UNCHANGED vars
  BY <1>14, KeepsVerdict
<1> QED
  BY <1>1, <1>2, <1>3, <1>4, <1>5, <1>6, <1>7, <1>8, <1>9, <1>10, <1>11, <1>12, <1>13, <1>14
     DEF Next, Program

\* What holds in every reachable state, with the verdict.
ReportInv == ApplyInv /\ VerdictInv

\* Before the first run nothing is reported.
LEMMA ReportInit == Init => ReportInv
<1> SUFFICES ASSUME Init PROVE ReportInv
  OBVIOUS
<1>1. ApplyInv
  BY ApplyInit
<1>3. VerdictInv
  BY DEF Init, VerdictInv, Landed, Before, Conflicted
<1> QED BY <1>1, <1>3 DEF ReportInv

\* The inductive invariant behind the verdicts.
LEMMA AlwaysReport == Spec => []ReportInv
<1>1. ASSUME ReportInv, [Next]_vars PROVE ReportInv'
  <2>1. /\ ApplyInv /\ PendingInv /\ VerdictInv /\ ImportInv /\ HandInv /\ BranchInv
        /\ SeriesAccounted
    BY <1>1 DEF ReportInv, ApplyInv, BranchHistory
  <2>2. ApplyInv'
    BY <1>1, <2>1, ApplyInvStep
  <2>4. VerdictInv'
    BY <1>1, <2>1, VerdictStep
  <2> QED BY <2>2, <2>4 DEF ReportInv
<1> QED BY ReportInit, <1>1, PTL DEF Spec

\* A commit is reported as applied only over a clean tree, over a source that
\* breaks nothing, and as clean only if nothing has amended it: as long as
\* post_apply_static_check finds something in each source that is broken,
\* whatever the models answer, git refuses and the repairs do.
THEOREM VerdictTold ==
  ASSUME Broken \subseteq Faulted PROVE Spec => []VerdictTellsTree
<1>1. ASSUME ReportInv PROVE VerdictTellsTree
  <2> SUFFICES ASSUME at = "finished", ExitCode = 0 PROVE
         /\ Clean
         /\ tree \notin Broken
         /\ review \in {None, "clean"} /\ Len(head) > start /\ Last(head).id = current
              => ~Last(head).amended
    BY DEF VerdictTellsTree
  <2>1. ApplyInv /\ VerdictInv /\ TreeInv
    BY <1>1 DEF ReportInv, ApplyInv
  <2>2. review # "needs_human"
    BY DEF ExitCode
  <2>3. Clean
    BY <2>1, <2>2 DEF TreeInv
  <2>4. tree \notin Broken
    <3>1. None \notin Broken
      BY ApplySeriesAssumption DEF Broken
    <3> QED BY <2>1, <2>2, <3>1 DEF VerdictInv
  <2>5. review \in {None, "clean"} /\ Len(head) > start /\ Last(head).id = current
          => ~Last(head).amended
    BY <2>1, ApplySeriesAssumption DEF VerdictInv, Last
  <2> QED BY <2>3, <2>4, <2>5
<1> QED BY <1>1, AlwaysReport, PTL

\* A set that has the first naturals and, with a number, the next one has all
\* up to its bound.
LEMMA UpTo ==
  ASSUME NEW n \in Nat, NEW T, 0 \in T,
         \A k \in 0..n : k \in T /\ k < n => k + 1 \in T
  PROVE  0..n \subseteq T
<1> DEFINE D == (0..n) \ T
<1> SUFFICES ASSUME D # {} PROVE FALSE
  OBVIOUS
<1>1. PICK k \in D : \A m \in D : k <= m
  <2>1. D \subseteq Nat
    OBVIOUS
  <2> HIDE DEF D
  <2> QED
    BY <2>1, Least
<1>2. k - 1 \in 0..n /\ k - 1 \in T /\ k - 1 < n
  BY <1>1
<1> QED
  BY <1>1, <1>2

\* f has, for each of the first n sequences of s, those up to it in one.
Flats(f, s, n) == f = [i \in 1..n |-> IF i = 1 THEN s[i] ELSE f[i - 1] \o s[i]]

\* The concatenation of the first n lists, for every n.
LEMMA FlatsExist ==
  ASSUME NEW s, NEW n \in Nat PROVE \E f : Flats(f, s, n)
<1> DEFINE T == {k \in 0..n : \E f : Flats(f, s, k)}
<1>1. 0 \in T
  <2>1. \E f : Flats(f, s, 0)
    <3> DEFINE f == [i \in 1..0 |-> s]
    <3>1. \A i \in 1..0 : FALSE
      OBVIOUS
    <3>2. Flats(f, s, 0)
      BY <3>1 DEF Flats
    <3> QED BY <3>2
  <2> QED BY <2>1
<1>2. ASSUME NEW k \in 0..n, k \in T, k < n PROVE k + 1 \in T
  <2>1. PICK f : Flats(f, s, k)
    BY <1>2
  <2> DEFINE h == [i \in 1..(k + 1) |->
                     IF i = k + 1 THEN IF i = 1 THEN s[i] ELSE f[k] \o s[i] ELSE f[i]]
  <2>2. ASSUME NEW i \in 1..(k + 1)
        PROVE  h[i] = IF i = 1 THEN s[i] ELSE h[i - 1] \o s[i]
    <3>1. CASE i = k + 1
      <4>1. i # 1 => i - 1 = k /\ k \in 1..(k + 1) /\ k # k + 1
        BY <3>1
      <4> QED BY <3>1, <4>1
    <3>2. CASE i # k + 1
      <4>1. i \in 1..k /\ (i # 1 => i - 1 \in 1..(k + 1) /\ i - 1 # k + 1)
        BY <3>2
      <4>2. f[i] = IF i = 1 THEN s[i] ELSE f[i - 1] \o s[i]
        BY <2>1, <4>1 DEF Flats
      <4> QED BY <3>2, <4>1, <4>2
    <3> QED BY <3>1, <3>2
  <2>3. h = [i \in 1..(k + 1) |-> h[i]]
    OBVIOUS
  <2> HIDE DEF h
  <2>4. Flats(h, s, k + 1)
    BY <2>2, <2>3 DEF Flats
  <2> QED BY <1>2, <2>4
<1> HIDE DEF T
<1>3. 0..n \subseteq T
  BY <1>1, <1>2, UpTo
<1> QED BY <1>3 DEF T

\* FlattenSeq is the last of these concatenations.
LEMMA FlattenIs ==
  ASSUME NEW S, NEW s \in Seq(S), Len(s) # 0
  PROVE  \E f : Flats(f, s, Len(s)) /\ FlattenSeq(s) = f[Len(s)]
<1> DEFINE f == CHOOSE f : Flats(f, s, Len(s))
<1>1. Flats(f, s, Len(s))
  <2>1. Len(s) \in Nat
    OBVIOUS
  <2> QED BY <2>1, FlatsExist
<1>2. FlattenSeq(s) = f[Len(s)]
  BY Zenon DEF FlattenSeq, Flats
<1> QED BY <1>1, <1>2

\* One sequence more comes after all others.
LEMMA FlattenAppend ==
  ASSUME NEW T, NEW s \in Seq(Seq(T)), NEW x \in Seq(T)
  PROVE  FlattenSeq(Append(s, x)) = FlattenSeq(s) \o x
<1> DEFINE r == Append(s, x)
           n == Len(s)
<1>1. /\ r \in Seq(Seq(T)) /\ Len(r) = n + 1 /\ r[n + 1] = x /\ n \in Nat
      /\ \A i \in 1..n : r[i] = s[i]
  OBVIOUS
<1> HIDE DEF r
<1>2. Len(r) # 0
  BY <1>1
<1>3. PICK h : Flats(h, r, n + 1) /\ FlattenSeq(r) = h[n + 1]
  BY <1>1, <1>2, FlattenIs
<1>4. h[n + 1] = IF n + 1 = 1 THEN x ELSE h[n] \o x
  <2>1. n + 1 \in 1..(n + 1) /\ n + 1 - 1 = n
    BY <1>1
  <2>2. h = [i \in 1..(n + 1) |-> IF i = 1 THEN r[i] ELSE h[i - 1] \o r[i]]
    BY <1>3 DEF Flats
  <2> DEFINE m == n + 1
  <2>3. m \in 1..(n + 1) /\ m - 1 = n
    BY <2>1
  <2> HIDE DEF m
  <2>4. h[m] = IF m = 1 THEN r[m] ELSE h[m - 1] \o r[m]
    BY <2>2, <2>3, Zenon
  <2> QED BY <1>1, <2>1, <2>3, <2>4 DEF m
<1>5. CASE n = 0
  <2>1. s = <<>>
    BY <1>5
  <2>2. FlattenSeq(s) = <<>>
    BY <2>1 DEF FlattenSeq
  <2>3. <<>> \o x = x
    OBVIOUS
  <2> QED BY <1>3, <1>4, <1>5, <2>2, <2>3 DEF r
<1>6. CASE n # 0
  <2>1. PICK f : Flats(f, s, n) /\ FlattenSeq(s) = f[n]
    BY <1>6, FlattenIs
  <2> DEFINE D == {i \in 1..n : f[i] # h[i]}
  <2>2. \A i \in 1..n : /\ f[i] = IF i = 1 THEN s[i] ELSE f[i - 1] \o s[i]
                        /\ h[i] = IF i = 1 THEN r[i] ELSE h[i - 1] \o r[i]
    <3>1. \A i \in 1..n : i \in 1..(n + 1)
      BY <1>1
    <3> QED BY <1>3, <2>1, <3>1 DEF Flats
  <2>3. D = {}
    <3> SUFFICES ASSUME D # {} PROVE FALSE
      OBVIOUS
    <3>1. PICK k \in D : \A m \in D : k <= m
      <4>1. D \subseteq Nat
        BY <1>1
      <4> HIDE DEF D
      <4> QED BY <4>1, Least
    <3>2. k # 1
      BY <1>1, <2>2, <3>1
    <3>3. k - 1 \in 1..n /\ k - 1 \notin D
      BY <1>1, <3>1, <3>2
    <3>4. f[k - 1] = h[k - 1]
      BY <3>3
    <3>5. f[k] = f[k - 1] \o s[k] /\ h[k] = h[k - 1] \o r[k]
      BY <2>2, <3>1, <3>2
    <3>6. r[k] = s[k]
      BY <1>1, <3>1
    <3> QED BY <3>1, <3>4, <3>5, <3>6
  <2>4. f[n] = h[n]
    <3>1. n \in 1..n
      BY <1>1, <1>6
    <3> QED BY <2>3, <3>1
  <2> QED BY <1>1, <1>3, <1>4, <1>6, <2>1, <2>4 DEF r
<1> QED BY <1>5, <1>6

\* What is made of sequences of something is a sequence of it.
LEMMA FlattenType ==
  ASSUME NEW T, NEW s \in Seq(Seq(T)) PROVE FlattenSeq(s) \in Seq(T)
<1> DEFINE n == Len(s)
<1>1. n \in Nat /\ \A i \in 1..n : s[i] \in Seq(T)
  OBVIOUS
<1>2. CASE n = 0
  <2>1. s = <<>>
    BY <1>2
  <2> QED BY <2>1 DEF FlattenSeq
<1>3. CASE n # 0
  <2>1. PICK f : Flats(f, s, n) /\ FlattenSeq(s) = f[n]
    BY <1>3, FlattenIs
  <2> DEFINE D == {i \in 1..n : f[i] \notin Seq(T)}
  <2>2. \A i \in 1..n : f[i] = IF i = 1 THEN s[i] ELSE f[i - 1] \o s[i]
    BY <2>1 DEF Flats
  <2> HIDE DEF n
  <2>3. D = {}
    <3> SUFFICES ASSUME D # {} PROVE FALSE
      OBVIOUS
    <3>1. PICK k \in D : \A m \in D : k <= m
      <4>1. D \subseteq Nat
        BY <1>1
      <4> HIDE DEF D
      <4> QED BY <4>1, Least
    <3>2. k # 1
      BY <1>1, <2>2, <3>1
    <3>3. k - 1 \in 1..n /\ k - 1 \notin D
      BY <1>1, <3>1, <3>2
    <3>4. f[k - 1] \in Seq(T) /\ s[k] \in Seq(T) /\ f[k] = f[k - 1] \o s[k]
      BY <1>1, <2>2, <3>1, <3>2, <3>3
    <3>5. f[k] \in Seq(T)
      BY <3>4
    <3> QED BY <3>1, <3>5
  <2>4. n \in 1..n
    BY <1>1, <1>3
  <2> QED BY <2>1, <2>3, <2>4
<1> QED BY <1>2, <1>3

\* An element after two sequences is one after the second.
LEMMA AppendAfter ==
  ASSUME NEW S, NEW a \in Seq(S), NEW b \in Seq(S), NEW x \in S
  PROVE  a \o b \in Seq(S) /\ a \o Append(b, x) = Append(a \o b, x)
<1> DEFINE c == <<x>>
           d == a \o b
<1>1. c \in Seq(S) /\ d \in Seq(S)
  OBVIOUS
<1>2. Append(b, x) = b \o c
  BY AppendIsConcat
<1>3. Append(d, x) = d \o c
  <2>1. d \in Seq(S) /\ c = <<x>>
    BY <1>1
  <2> HIDE DEF c, d
  <2> QED BY <2>1, AppendIsConcat
<1>4. (a \o b) \o c = a \o (b \o c)
  <2> HIDE DEF c
  <2> QED BY <1>1, ConcatAssociative
<1> HIDE DEF c
<1> QED BY <1>1, <1>2, <1>3, <1>4

\* Sequences after one another flatten to their flattenings after one another.
LEMMA FlattenConcat ==
  ASSUME NEW T, NEW s \in Seq(Seq(T)), NEW r \in Seq(Seq(T))
  PROVE  FlattenSeq(s \o r) = FlattenSeq(s) \o FlattenSeq(r)
<1> DEFINE C(n) == FlattenSeq(s \o SubSeq(r, 1, n)) = FlattenSeq(s) \o FlattenSeq(SubSeq(r, 1, n))
           D == {n \in 0..Len(r) : C(n)}
<1>1. /\ Len(r) \in Nat /\ SubSeq(r, 1, Len(r)) = r
      /\ FlattenSeq(s) \in Seq(T)
  BY FlattenType
<1>2. C(0)
  <2>1. SubSeq(r, 1, 0) = <<>> /\ s \o <<>> = s /\ FlattenSeq(s) \o <<>> = FlattenSeq(s)
    BY <1>1
  <2>2. FlattenSeq(<<>>) = <<>>
    BY DEF FlattenSeq
  <2> QED BY <2>1, <2>2
<1>3. ASSUME NEW n \in 0..Len(r), C(n), n < Len(r) PROVE C(n + 1)
  <2> DEFINE p == SubSeq(r, 1, n)
             x == r[n + 1]
  <2>1. /\ p \in Seq(Seq(T)) /\ x \in Seq(T) /\ s \o p \in Seq(Seq(T))
        /\ SubSeq(r, 1, n + 1) = Append(p, x)
        /\ s \o Append(p, x) = Append(s \o p, x)
    <3>1. n \in Nat /\ n + 1 \in 1..Len(r)
      BY <1>1, <1>3
    <3>2. p \in Seq(Seq(T)) /\ x \in Seq(T) /\ SubSeq(r, 1, n + 1) = Append(p, x)
      BY <3>1
    <3> HIDE DEF p, x
    <3>3. s \o p \in Seq(Seq(T)) /\ s \o Append(p, x) = Append(s \o p, x)
      <4>1. s \in Seq(Seq(T)) /\ p \in Seq(Seq(T)) /\ x \in Seq(T)
        BY <3>2
      <4> QED BY ONLY <4>1, AppendAfter
    <3> QED BY <3>2, <3>3
  <2> HIDE DEF p, x
  <2>2. /\ FlattenSeq(Append(s \o p, x)) = FlattenSeq(s \o p) \o x
        /\ FlattenSeq(Append(p, x)) = FlattenSeq(p) \o x
    BY <2>1, FlattenAppend
  <2>3. FlattenSeq(p) \in Seq(T)
    BY <2>1, FlattenType
  <2>4. FlattenSeq(s \o p) = FlattenSeq(s) \o FlattenSeq(p)
    BY <1>3 DEF p
  <2>5. (FlattenSeq(s) \o FlattenSeq(p)) \o x = FlattenSeq(s) \o (FlattenSeq(p) \o x)
    <3>1. FlattenSeq(s) \in Seq(T) /\ FlattenSeq(p) \in Seq(T) /\ x \in Seq(T)
      BY <1>1, <2>1, <2>3
    <3>2. \A a, b, c \in Seq(T) : (a \o b) \o c = a \o (b \o c)
      BY ConcatAssociative
    <3> QED BY ONLY <3>1, <3>2
  <2> QED BY <2>1, <2>2, <2>4, <2>5
<1> HIDE DEF C
<1>4. 0 \in D /\ \A k \in 0..Len(r) : k \in D /\ k < Len(r) => k + 1 \in D
  BY <1>1, <1>2, <1>3
<1> HIDE DEF D
<1>5. 0..Len(r) \subseteq D
  BY <1>1, <1>4, UpTo
<1>6. Len(r) \in D
  BY <1>1, <1>5
<1> QED BY <1>1, <1>6 DEF D, C

\* What one of the sequences contributes is where those before it end.
LEMMA FlattenSplit ==
  ASSUME NEW T, NEW s \in Seq(Seq(T)), NEW k \in 1..Len(s)
  PROVE  LET pre == FlattenSeq(SubSeq(s, 1, k - 1))
             post == FlattenSeq(SubSeq(s, k + 1, Len(s)))
         IN /\ pre \in Seq(T) /\ post \in Seq(T) /\ s[k] \in Seq(T)
            /\ FlattenSeq(SubSeq(s, 1, k)) = pre \o s[k]
            /\ FlattenSeq(s) = (pre \o s[k]) \o post
<1> DEFINE a == SubSeq(s, 1, k - 1)
           b == SubSeq(s, k + 1, Len(s))
<1>1. /\ a \in Seq(Seq(T)) /\ b \in Seq(Seq(T)) /\ s[k] \in Seq(T)
      /\ SubSeq(s, 1, k) = Append(a, s[k])
      /\ s = Append(a, s[k]) \o b
      /\ Append(a, s[k]) \in Seq(Seq(T))
  <2>1. Len(s) \in Nat /\ k \in Nat /\ k - 1 \in Nat /\ s[k] \in Seq(T)
    OBVIOUS
  <2>2. a \in Seq(Seq(T)) /\ b \in Seq(Seq(T)) /\ Len(a) = k - 1 /\ Len(b) = Len(s) - k
    BY <2>1
  <2>3. SubSeq(s, 1, k) = Append(a, s[k])
    BY <2>1
  <2>4. s = SubSeq(s, 1, k) \o b
    BY <2>1, <2>2
  <2>5. Append(a, s[k]) \in Seq(Seq(T))
    BY <2>1, <2>2
  <2>6. s = Append(a, s[k]) \o b
    BY <2>3, <2>4
  <2> QED BY <2>1, <2>2, <2>3, <2>5, <2>6
<1> HIDE DEF a, b
<1>2. FlattenSeq(a) \in Seq(T) /\ FlattenSeq(b) \in Seq(T)
  BY <1>1, FlattenType
<1>3. FlattenSeq(Append(a, s[k])) = FlattenSeq(a) \o s[k]
  BY <1>1, FlattenAppend
<1>4. FlattenSeq(s) = FlattenSeq(Append(a, s[k])) \o FlattenSeq(b)
  BY <1>1, FlattenConcat
<1> QED BY <1>1, <1>2, <1>3, <1>4 DEF a, b

-----------------------------------------------------------------------------
(* What git renders, section by section.                                   *)

Rendered(file) == [k \in DOMAIN file |-> RenderSection(file[k])]

\* The lines before a section.
Off(file, k) == Len(FlattenSeq(SubSeq(Rendered(file), 1, k - 1)))

\* A file in conflict with n sections, whose lines are in T and end in eol.
Form(file, n, eol, T) ==
  /\ n \in Nat \ {0} /\ Len(file) = n /\ DOMAIN file = 1..n
  /\ eol \in {"lf", "crlf"} /\ \A x \in T : x.eol \in {eol, "none"}
  /\ \A k \in 1..n :
       /\ RenderSection(file[k]) \in Seq(T) /\ RenderSection(file[k]) # <<>>
       /\ file[k].hunk =>
            /\ file[k].eol = eol
            /\ k < n => ~file[k + 1].hunk
            /\ \A m \in 1..3 :
                 /\ file[k].sides[m] \in Seq(T)
                 /\ \A q \in 1..Len(file[k].sides[m]) :
                      LET x == file[k].sides[m][q]
                      IN ~(x.mark = <<"|", "=", ">">>[m] /\ x.w = file[k].size)
       /\ ~file[k].hunk =>
            /\ RenderSection(file[k]) = file[k].lines
            /\ \A q \in 1..Len(file[k].lines) : file[k].lines[q].mark # "<"

\* A hunk's lines, one after another.
HunkText(size, eol, a, b, c) ==
  <<Marker("<", size, eol)>> \o a \o <<Marker("|", size, eol)>> \o b
    \o <<Marker("=", size, eol)>> \o c \o <<Marker(">", size, eol)>>

\* r is u, then v, then m.
Then(r, u, v, m) ==
  /\ Len(r) = Len(u) + Len(v) + 1
  /\ \A q \in 1..Len(u) : r[q] = u[q]
  /\ \A q \in 1..Len(v) : r[Len(u) + q] = v[q]
  /\ r[Len(u) + Len(v) + 1] = m

\* Lines, more lines and one line.
LEMMA ThenOne ==
  ASSUME NEW T, NEW u \in Seq(T), NEW v \in Seq(T), NEW m \in T, NEW r, r = u \o v \o <<m>>
  PROVE  r \in Seq(T) /\ Then(r, u, v, m)
<1> DEFINE g == u \o v
<1>1. /\ g \in Seq(T) /\ Len(g) = Len(u) + Len(v) /\ Len(u) \in Nat /\ Len(v) \in Nat
      /\ \A q \in 1..Len(u) : g[q] = u[q]
      /\ \A q \in 1..Len(v) : g[Len(u) + q] = v[q]
  OBVIOUS
<1>2. r = g \o <<m>>
  OBVIOUS
<1> HIDE DEF g
<1>3. /\ r \in Seq(T) /\ Len(r) = Len(g) + 1 /\ r[Len(g) + 1] = m
      /\ \A q \in 1..Len(g) : r[q] = g[q]
  BY <1>1, <1>2
<1>4. \A q \in 1..Len(u) : q \in 1..Len(g)
  BY <1>1
<1>6. \A q \in 1..Len(v) : Len(u) + q \in 1..Len(g)
  BY <1>1
<1> QED BY <1>1, <1>3, <1>4, <1>6 DEF Then

\* Where the markers and sides a, b and c are in r.
HunkShape(r, size, eol, a, b, c) ==
  LET p == Len(a) + 2
      s == p + Len(b) + 1
      e == s + Len(c) + 1
  IN /\ Len(r) = e
     /\ r[1] = Marker("<", size, eol) /\ r[p] = Marker("|", size, eol)
     /\ r[s] = Marker("=", size, eol) /\ r[e] = Marker(">", size, eol)
     /\ \A q \in 1..Len(a) : r[1 + q] = a[q]
     /\ \A q \in 1..Len(b) : r[p + q] = b[q]
     /\ \A q \in 1..Len(c) : r[s + q] = c[q]

\* A hunk has that shape.
LEMMA HunkPlaces ==
  ASSUME NEW T, NEW a \in Seq(T), NEW b \in Seq(T), NEW c \in Seq(T), NEW size, NEW eol,
         \A m \in {"<", "|", "=", ">"} : Marker(m, size, eol) \in T
  PROVE  LET r == HunkText(size, eol, a, b, c)
         IN r \in Seq(T) /\ HunkShape(r, size, eol, a, b, c)
<1> DEFINE w == Marker("<", size, eol)
           x == Marker("|", size, eol)
           y == Marker("=", size, eol)
           z == Marker(">", size, eol)
           r == HunkText(size, eol, a, b, c)
<1>1. w \in T /\ x \in T /\ y \in T /\ z \in T
  OBVIOUS
<1>2. r = <<w>> \o a \o <<x>> \o b \o <<y>> \o c \o <<z>>
  BY DEF HunkText
<1> HIDE DEF w, x, y, z, r
<1> DEFINE d == <<w>> \o a \o <<x>>
           f == d \o b \o <<y>>
<1>3. /\ d \in Seq(T) /\ Len(d) = Len(a) + 2
      /\ d[1] = w /\ d[Len(a) + 2] = x
      /\ \A q \in 1..Len(a) : d[1 + q] = a[q]
  BY <1>1
<1>4. r = (d \o b \o <<y>>) \o c \o <<z>>
  BY <1>2
<1> HIDE DEF d
<1>5. f = d \o b \o <<y>> /\ r = f \o c \o <<z>>
  BY <1>4
<1> HIDE DEF f
<1>6. /\ f \in Seq(T) /\ Len(f) = Len(a) + 2 + Len(b) + 1
      /\ \A q \in 1..(Len(a) + 2) : f[q] = d[q]
      /\ \A q \in 1..Len(b) : f[Len(a) + 2 + q] = b[q]
      /\ f[Len(a) + 2 + Len(b) + 1] = y
  <2>1. d \in Seq(T) /\ b \in Seq(T) /\ y \in T /\ Len(d) = Len(a) + 2
    BY <1>1, <1>3
  <2>2. f \in Seq(T) /\ Then(f, d, b, y)
    BY <1>5, <2>1, ThenOne
  <2> QED BY <2>1, <2>2 DEF Then
<1> DEFINE s == Len(a) + 2 + Len(b) + 1
           e == s + Len(c) + 1
<1>7. /\ r \in Seq(T) /\ Len(r) = e
      /\ \A q \in 1..s : r[q] = f[q]
      /\ \A q \in 1..Len(c) : r[s + q] = c[q]
      /\ r[e] = z
  <2>1. Len(f) = s
    BY <1>6
  <2> HIDE DEF s
  <2>2. r \in Seq(T) /\ Then(r, f, c, z)
    <3>1. f \in Seq(T) /\ z \in T
      BY <1>1, <1>6
    <3> QED BY <1>5, <3>1, ThenOne
  <2> QED BY <2>1, <2>2 DEF Then
<1>8. /\ Len(a) \in Nat /\ Len(b) \in Nat
      /\ \A q \in 1..(Len(a) + 2) : r[q] = d[q]
      /\ \A q \in 1..Len(b) : r[Len(a) + 2 + q] = b[q]
      /\ r[s] = y
  <2>1. Len(a) \in Nat /\ Len(b) \in Nat
    OBVIOUS
  <2>2. \A q \in 1..s : r[q] = f[q]
    BY <1>7
  <2>3. s \in 1..s /\ \A q \in 1..(Len(a) + 2) : q \in 1..s
    BY <2>1
  <2>4. \A q \in 1..Len(b) : Len(a) + 2 + q \in 1..s
    BY <2>1
  <2> HIDE DEF e
  <2> QED BY <1>6, <2>1, <2>2, <2>3, <2>4
<1>9. r[1] = w /\ r[Len(a) + 2] = x /\ \A q \in 1..Len(a) : r[1 + q] = d[1 + q]
  <2>1. 1 \in 1..(Len(a) + 2) /\ Len(a) + 2 \in 1..(Len(a) + 2)
    BY <1>8
  <2>2. \A q \in 1..Len(a) : 1 + q \in 1..(Len(a) + 2)
    BY <1>8
  <2> QED BY <1>3, <1>8, <2>1, <2>2
<1> QED BY <1>3, <1>7, <1>8, <1>9 DEF w, x, y, z, r, HunkShape

\* A hunk is its markers and sides.
LEMMA HunkRendered ==
  ASSUME NEW s, s.hunk
  PROVE  RenderSection(s) = HunkText(s.size, s.eol, s.sides[1], s.sides[2], s.sides[3])
BY DEF RenderSection, HunkText

\* A file of regular sections has that form.
LEMMA StyledForm ==
  ASSUME NEW file, file # <<>>, file \in Seq(ToSet(file)),
         NEW eol \in {"lf", "crlf"}, \A k \in DOMAIN file : Regular(file, k, eol)
  PROVE  \E n, T : Form(file, n, eol, T)
<1> DEFINE n == Len(file)
<1>1. n \in Nat \ {0} /\ DOMAIN file = 1..n
  OBVIOUS
<1>2. \A k \in 1..n : Regular(file, k, eol)
  BY <1>1
<1> DEFINE Markers == {Marker(m, file[k].size, eol) : m \in {"<", "|", "=", ">"}, k \in 1..n}
           Sides == UNION {ToSet(file[k].sides[m]) :
                             k \in {j \in 1..n : file[j].hunk}, m \in 1..3}
           Around == UNION {ToSet(file[k].lines) : k \in {j \in 1..n : ~file[j].hunk}}
           T == Markers \union Sides \union Around
<1>3. \A x \in T : x.eol \in {eol, "none"}
  <2>1. \A x \in Markers : x.eol = eol
    BY DEF Marker
  <2>2. \A x \in Sides : x.eol \in {eol, "none"}
    <3> SUFFICES ASSUME NEW k \in 1..n, file[k].hunk, NEW m \in 1..3,
                        NEW x \in ToSet(file[k].sides[m])
                 PROVE  x.eol \in {eol, "none"}
      OBVIOUS
    <3>1. Regular(file, k, eol)
      BY <1>2
    <3> QED BY <3>1 DEF Ordinary, Regular
  <2>3. \A x \in Around : x.eol \in {eol, "none"}
    <3> SUFFICES ASSUME NEW k \in 1..n, ~file[k].hunk, NEW x \in ToSet(file[k].lines)
                 PROVE  x.eol \in {eol, "none"}
      OBVIOUS
    <3>1. Regular(file, k, eol)
      BY <1>2
    <3> QED BY <3>1 DEF Ordinary, Regular
  <2> HIDE DEF Markers, Sides, Around
  <2> QED BY <2>1, <2>2, <2>3
<1>4. ASSUME NEW k \in 1..n, file[k].hunk
      PROVE  /\ RenderSection(file[k]) \in Seq(T) /\ RenderSection(file[k]) # <<>>
             /\ file[k].eol = eol
             /\ k < n => ~file[k + 1].hunk
             /\ \A m \in 1..3 :
                  /\ file[k].sides[m] \in Seq(T)
                  /\ \A q \in 1..Len(file[k].sides[m]) :
                       LET x == file[k].sides[m][q]
                       IN ~(x.mark = <<"|", "=", ">">>[m] /\ x.w = file[k].size)
  <2>1. Regular(file, k, eol)
    BY <1>2
  <2>2. file[k].eol = eol /\ (k < n => ~file[k + 1].hunk)
    BY <1>4, <2>1 DEF Regular
  <2>3. ASSUME NEW m \in 1..3
        PROVE  /\ file[k].sides[m] \in Seq(T)
               /\ \A q \in 1..Len(file[k].sides[m]) :
                    LET x == file[k].sides[m][q]
                    IN ~(x.mark = <<"|", "=", ">">>[m] /\ x.w = file[k].size)
    <3> DEFINE side == file[k].sides[m]
    <3>1. /\ side \in Seq(ToSet(side))
          /\ \A x \in ToSet(side) : ~(x.mark = <<"|", "=", ">">>[m] /\ x.w = file[k].size)
      BY <1>4, <2>1 DEF Ordinary, Regular
    <3>2. ToSet(side) \subseteq T
      BY <1>4
    <3> HIDE DEF side, T
    <3>3. side \in Seq(T)
      BY <3>1, <3>2, SeqMonotonic
    <3>4. \A q \in 1..Len(side) : side[q] \in ToSet(side)
      BY <3>1 DEF ToSet
    <3>5. \A q \in 1..Len(side) : ~(side[q].mark = <<"|", "=", ">">>[m] /\ side[q].w = file[k].size)
      BY <3>1, <3>4, Zenon
    <3> QED BY <3>3, <3>5 DEF side
  <2>4. \A m \in {"<", "|", "=", ">"} : Marker(m, file[k].size, eol) \in T
    OBVIOUS
  <2> HIDE DEF T
  <2> DEFINE a == file[k].sides[1]
             b == file[k].sides[2]
             c == file[k].sides[3]
  <2>5. a \in Seq(T) /\ b \in Seq(T) /\ c \in Seq(T)
    BY <2>3
  <2> HIDE DEF a, b, c
  <2>6. LET r == HunkText(file[k].size, eol, a, b, c)
        IN r \in Seq(T) /\ Len(r) = Len(a) + 2 + Len(b) + 1 + Len(c) + 1
    BY <2>4, <2>5, HunkPlaces DEF HunkShape
  <2>7. HunkText(file[k].size, eol, a, b, c) # <<>>
    BY <2>5, <2>6
  <2>8. RenderSection(file[k]) = HunkText(file[k].size, eol, a, b, c)
    BY <1>4, <2>2, HunkRendered DEF a, b, c
  <2> QED BY <2>2, <2>3, <2>6, <2>7, <2>8
<1>5. ASSUME NEW k \in 1..n, ~file[k].hunk
      PROVE  /\ RenderSection(file[k]) \in Seq(T) /\ RenderSection(file[k]) # <<>>
             /\ RenderSection(file[k]) = file[k].lines
             /\ \A q \in 1..Len(file[k].lines) : file[k].lines[q].mark # "<"
  <2> DEFINE lines == file[k].lines
  <2>1. Regular(file, k, eol)
    BY <1>2
  <2>2. /\ lines # <<>> /\ lines \in Seq(ToSet(lines))
        /\ \A x \in ToSet(lines) : x.mark # "<"
    BY <1>5, <2>1 DEF Ordinary, Regular
  <2>3. ToSet(lines) \subseteq T
    BY <1>5
  <2>4. RenderSection(file[k]) = lines
    BY <1>5 DEF RenderSection
  <2> HIDE DEF lines, T
  <2>5. lines \in Seq(T)
    BY <2>2, <2>3, SeqMonotonic
  <2>6. \A q \in 1..Len(lines) : lines[q] \in ToSet(lines)
    BY <2>2 DEF ToSet
  <2>7. \A q \in 1..Len(lines) : lines[q].mark # "<"
    BY <2>2, <2>6, Zenon
  <2> QED BY <2>2, <2>4, <2>5, <2>7 DEF lines
<1> HIDE DEF T
<1>6. Form(file, n, eol, T)
  BY <1>1, <1>3, <1>4, <1>5 DEF Form
<1> QED BY <1>6

\* What git puts in conflict has that form.
LEMMA FormOf ==
  ASSUME NEW file, InConflict(file)
  PROVE  \E n, eol, T : Form(file, n, eol, T)
<1>1. PICK eol \in {"lf", "crlf"} : \A k \in DOMAIN file : Regular(file, k, eol)
  BY DEF InConflict
<1>2. \E n, T : Form(file, n, eol, T)
  BY <1>1, StyledForm DEF InConflict
<1> QED BY <1>2

\* The middle one of three sequences, in what they make.
LEMMA MiddleOf ==
  ASSUME NEW T, NEW a \in Seq(T), NEW b \in Seq(T), NEW c \in Seq(T), NEW r, r = (a \o b) \o c
  PROVE  /\ r \in Seq(T)
         /\ Len(r) = Len(a) + Len(b) + Len(c)
         /\ \A q \in 1..Len(a) : r[q] = a[q]
         /\ \A q \in 1..Len(b) : r[Len(a) + q] = b[q]
         /\ \A q \in 1..Len(c) : r[Len(a) + Len(b) + q] = c[q]
<1> DEFINE d == a \o b
<1>1. /\ d \in Seq(T) /\ Len(d) = Len(a) + Len(b)
      /\ Len(a) \in Nat /\ Len(b) \in Nat /\ Len(c) \in Nat
  OBVIOUS
<1>2. \A q \in 1..Len(a) : d[q] = a[q]
  OBVIOUS
<1>3. \A q \in 1..Len(b) : d[Len(a) + q] = b[q]
  OBVIOUS
<1>4. r = d \o c
  OBVIOUS
<1> HIDE DEF d
<1>5. r \in Seq(T) /\ Len(r) = Len(d) + Len(c)
  BY <1>1, <1>4, ConcatProperties
<1>6. \A q \in 1..Len(d) : r[q] = d[q]
  BY <1>1, <1>4
<1>7. \A q \in 1..Len(c) : r[Len(d) + q] = c[q]
  BY <1>1, <1>4
<1>8. \A q \in 1..Len(a) : r[q] = a[q]
  <2>1. \A q \in 1..Len(a) : q \in 1..Len(d)
    BY <1>1
  <2> QED BY <1>2, <1>6, <2>1
<1>9. \A q \in 1..Len(b) : r[Len(a) + q] = b[q]
  <2>1. \A q \in 1..Len(b) : Len(a) + q \in 1..Len(d)
    BY <1>1
  <2> QED BY <1>3, <1>6, <2>1
<1> QED BY <1>1, <1>5, <1>7, <1>8, <1>9

\* Where each section is among the lines.
LEMMA Offsets ==
  ASSUME NEW file, NEW n, NEW eol, NEW T, Form(file, n, eol, T)
  PROVE  /\ Rendered(file) \in Seq(Seq(T)) /\ Len(Rendered(file)) = n
         /\ Render(file) \in Seq(T)
         /\ Off(file, 1) = 0 /\ Off(file, n + 1) = Len(Render(file))
         /\ \A k \in 1..n :
              /\ Off(file, k) \in Nat /\ Off(file, k + 1) \in Nat
              /\ Off(file, k + 1) = Off(file, k) + Len(RenderSection(file[k]))
              /\ Off(file, k + 1) <= Len(Render(file))
              /\ \A q \in 1..Len(RenderSection(file[k])) :
                   Render(file)[Off(file, k) + q] = RenderSection(file[k])[q]
<1> DEFINE s == Rendered(file)
<1>1. /\ s \in Seq(Seq(T)) /\ Len(s) = n /\ n \in Nat \ {0}
      /\ \A k \in 1..n : s[k] = RenderSection(file[k])
  <2>1. n \in Nat \ {0} /\ DOMAIN file = 1..n
        /\ \A k \in 1..n : RenderSection(file[k]) \in Seq(T)
    BY DEF Form
  <2>2. s = [k \in 1..n |-> RenderSection(file[k])]
    BY <2>1 DEF Rendered
  <2> HIDE DEF s
  <2> QED BY <2>1, <2>2
<1>2. Render(file) = FlattenSeq(s)
  BY DEF Render, Rendered
<1>3. \A k \in 1..(n + 1) : Off(file, k) = Len(FlattenSeq(SubSeq(s, 1, k - 1)))
  BY DEF Off
<1> HIDE DEF s
<1>4. FlattenSeq(s) \in Seq(T)
  BY <1>1, FlattenType
<1>5. Off(file, 1) = 0
  <2>1. SubSeq(s, 1, 0) = <<>> /\ 1 \in 1..(n + 1) /\ 1 - 1 = 0
    BY <1>1
  <2>2. FlattenSeq(<<>>) = <<>> /\ Len(<<>>) = 0
    BY DEF FlattenSeq
  <2>3. Off(file, 1) = Len(FlattenSeq(SubSeq(s, 1, 0)))
    BY <1>3, <2>1
  <2> QED BY <2>1, <2>2, <2>3
<1>6. Off(file, n + 1) = Len(Render(file))
  <2> DEFINE m == n + 1
  <2>1. SubSeq(s, 1, n) = s /\ m \in 1..(n + 1) /\ m - 1 = n
    BY <1>1
  <2> HIDE DEF m
  <2>2. Off(file, m) = Len(FlattenSeq(SubSeq(s, 1, n)))
    BY <1>3, <2>1
  <2> QED BY <1>2, <2>1, <2>2 DEF m
<1>7. ASSUME NEW k \in 1..n
      PROVE  /\ Off(file, k) \in Nat /\ Off(file, k + 1) \in Nat
             /\ Off(file, k + 1) = Off(file, k) + Len(RenderSection(file[k]))
             /\ Off(file, k + 1) <= Len(Render(file))
             /\ \A q \in 1..Len(RenderSection(file[k])) :
                  Render(file)[Off(file, k) + q] = RenderSection(file[k])[q]
  <2> DEFINE pre == FlattenSeq(SubSeq(s, 1, k - 1))
             post == FlattenSeq(SubSeq(s, k + 1, n))
             mid == RenderSection(file[k])
             r == Render(file)
  <2>1. /\ pre \in Seq(T) /\ post \in Seq(T) /\ mid \in Seq(T)
        /\ FlattenSeq(SubSeq(s, 1, k)) = pre \o mid
        /\ r = (pre \o mid) \o post
    <3>1. k \in 1..Len(s) /\ s[k] = mid
      BY <1>1
    <3>2. /\ pre \in Seq(T) /\ post \in Seq(T) /\ s[k] \in Seq(T)
          /\ FlattenSeq(SubSeq(s, 1, k)) = pre \o s[k]
          /\ FlattenSeq(s) = (pre \o s[k]) \o post
      BY <1>1, <3>1, FlattenSplit
    <3> QED BY <1>2, <3>1, <3>2
  <2>2. k \in 1..(n + 1) /\ k + 1 \in 1..(n + 1) /\ k + 1 - 1 = k
    BY <1>1
  <2>3. Off(file, k) = Len(pre) /\ Off(file, k + 1) = Len(FlattenSeq(SubSeq(s, 1, k)))
    BY <1>3, <2>2
  <2> HIDE DEF pre, post, mid, r
  <2>4. /\ Len(r) = Len(pre) + Len(mid) + Len(post)
        /\ \A q \in 1..Len(mid) : r[Len(pre) + q] = mid[q]
    BY <2>1, MiddleOf
  <2>5. /\ Len(pre \o mid) = Len(pre) + Len(mid)
        /\ Len(pre) \in Nat /\ Len(mid) \in Nat /\ Len(post) \in Nat
    BY <2>1
  <2>6. Off(file, k + 1) = Len(pre) + Len(mid)
    BY <2>1, <2>3, <2>5
  <2>7. /\ Off(file, k) \in Nat /\ Off(file, k + 1) \in Nat
        /\ Off(file, k + 1) = Off(file, k) + Len(mid)
        /\ Off(file, k + 1) <= Len(r)
    BY <2>3, <2>4, <2>5, <2>6
  <2>8. \A q \in 1..Len(mid) : r[Off(file, k) + q] = mid[q]
    BY <2>3, <2>4
  <2> QED BY <2>7, <2>8 DEF mid, r
<1> QED BY <1>1, <1>2, <1>4, <1>5, <1>6, <1>7 DEF s

-----------------------------------------------------------------------------
(* Conflicts finds the hunks.                                              *)

\* The marker that is found is the first one.
LEMMA MarkerIs ==
  ASSUME NEW T, NEW lines \in Seq(T), NEW mark, NEW size, NEW i \in Nat, NEW p \in i..Len(lines),
         lines[p].mark = mark, lines[p].w = size,
         \A j \in i..(p - 1) : ~(lines[j].mark = mark /\ lines[j].w = size)
  PROVE  MarkerFrom(lines, i, mark, size) = p
<1> DEFINE S == {j \in i..Len(lines) : lines[j].mark = mark /\ lines[j].w = size}
                  \union {Len(lines) + 1}
<1>1. Len(lines) \in Nat /\ p \in Nat
  OBVIOUS
<1>2. p \in S /\ \A j \in S : p <= j
  BY <1>1
<1>3. S \subseteq Nat
  BY <1>1
<1>4. MarkerFrom(lines, i, mark, size) = Min(S)
  BY DEF MarkerFrom
<1> HIDE DEF S
<1>5. \A x \in S : (\A y \in S : x <= y) => x = p
  BY <1>1, <1>2, <1>3
<1> QED BY <1>2, <1>4, <1>5 DEF Min

\* It is not before the place from which it is looked for.
LEMMA MarkerRange ==
  ASSUME NEW lines, Len(lines) \in Nat, NEW mark, NEW size, NEW i \in Nat
  PROVE  LET p == MarkerFrom(lines, i, mark, size)
         IN p \in Nat /\ (p <= Len(lines) => i <= p)
<1> DEFINE S == {j \in i..Len(lines) : lines[j].mark = mark /\ lines[j].w = size}
                  \union {Len(lines) + 1}
<1>1. S \subseteq Nat /\ S # {}
  OBVIOUS
<1>2. \A p \in S : p <= Len(lines) => i <= p
  OBVIOUS
<1>3. MarkerFrom(lines, i, mark, size) = Min(S)
  BY DEF MarkerFrom
<1> HIDE DEF S
<1>4. PICK x \in S : \A y \in S : x <= y
  BY <1>1, Least
<1>5. Min(S) \in S
  BY <1>4 DEF Min
<1> QED BY <1>1, <1>2, <1>3, <1>5

\* The ends of the sections of a hunk that starts at line i.
BaseOf(lines, i) == MarkerFrom(lines, i + 1, "|", lines[i].w)
SepOf(lines, i) == MarkerFrom(lines, BaseOf(lines, i) + 1, "=", lines[i].w)
EndOf(lines, i) == MarkerFrom(lines, SepOf(lines, i) + 1, ">", lines[i].w)

\* What is found from line i on, if g tells what is found after it.
ParsedFrom(g, lines, i) ==
  IF i > Len(lines) THEN <<>>
  ELSE IF lines[i].mark # "<" THEN g[i + 1]
  ELSE IF EndOf(lines, i) > Len(lines) THEN <<Malformed>>
  ELSE <<[from |-> i, to |-> EndOf(lines, i),
          sides |-> <<SubSeq(lines, i + 1, BaseOf(lines, i) - 1),
                      SubSeq(lines, BaseOf(lines, i) + 1, SepOf(lines, i) - 1),
                      SubSeq(lines, SepOf(lines, i) + 1, EndOf(lines, i) - 1)>>]>>
         \o g[EndOf(lines, i) + 1]

\* g tells it from line lo on.
Parses(g, lines, lo) ==
  g = [i \in lo..(Len(lines) + 1) |-> ParsedFrom(g, lines, i)]

\* A hunk ends after it starts.
LEMMA EndAfter ==
  ASSUME NEW lines, Len(lines) \in Nat, NEW i \in Nat, EndOf(lines, i) <= Len(lines)
  PROVE  EndOf(lines, i) \in (i + 1)..Len(lines)
<1> DEFINE b == BaseOf(lines, i)
           s == SepOf(lines, i)
           e == EndOf(lines, i)
<1>1. b \in Nat /\ (b <= Len(lines) => i + 1 <= b)
  BY MarkerRange DEF BaseOf
<1>2. s \in Nat /\ (s <= Len(lines) => b + 1 <= s)
  <2> HIDE DEF b
  <2>1. b + 1 \in Nat
    BY <1>1
  <2>2. s = MarkerFrom(lines, b + 1, "=", lines[i].w)
    BY DEF SepOf, b
  <2> HIDE DEF s
  <2> QED BY <2>1, <2>2, MarkerRange
<1>3. e \in Nat /\ (e <= Len(lines) => s + 1 <= e)
  <2> HIDE DEF s
  <2>1. s + 1 \in Nat
    BY <1>2
  <2>2. e = MarkerFrom(lines, s + 1, ">", lines[i].w)
    BY DEF EndOf, s
  <2> HIDE DEF e
  <2> QED BY <2>1, <2>2, MarkerRange
<1> HIDE DEF b, s
<1> QED BY <1>1, <1>2, <1>3

\* Conflicts is such a table's first entry.
LEMMA ConflictsTable ==
  ASSUME NEW lines, Len(lines) \in Nat
  PROVE  \E g : Parses(g, lines, 1) /\ Conflicts(lines) = g[1]
<1> DEFINE N == Len(lines)
           D == {k \in 0..N : \E g : Parses(g, lines, N + 1 - k)}
<1>1. 0 \in D
  <2> DEFINE g == [i \in (N + 1)..(N + 1) |-> <<>>]
  <2>1. \A i \in (N + 1)..(N + 1) : i > Len(lines)
    OBVIOUS
  <2>2. g = [i \in (N + 1)..(N + 1) |-> ParsedFrom(g, lines, i)]
    <3> HIDE DEF N
    <3>1. \A i \in (N + 1)..(N + 1) : ParsedFrom(g, lines, i) = <<>>
      BY <2>1 DEF ParsedFrom
    <3> QED BY <3>1
  <2>3. N + 1 - 0 = N + 1
    OBVIOUS
  <2>4. Parses(g, lines, N + 1 - 0)
    BY <2>2, <2>3 DEF Parses
  <2> QED BY <2>4
<1>2. ASSUME NEW k \in 0..N, k \in D, k < N PROVE k + 1 \in D
  <2>1. PICK g : Parses(g, lines, N + 1 - k)
    BY <1>2
  <2> DEFINE lo == N - k
             h == [i \in lo..(N + 1) |-> IF i = lo THEN ParsedFrom(g, lines, i) ELSE g[i]]
  <2>2. lo \in Nat /\ lo \in 1..N /\ N + 1 - k = lo + 1 /\ N + 1 - (k + 1) = lo
    BY <1>2
  <2>3. g = [i \in (lo + 1)..(N + 1) |-> ParsedFrom(g, lines, i)]
    BY <2>1, <2>2 DEF Parses
  <2> HIDE DEF lo
  <2>4. \A i \in (lo + 1)..(N + 1) : h[i] = g[i] /\ g[i] = ParsedFrom(g, lines, i)
    <3>1. \A i \in (lo + 1)..(N + 1) : i \in lo..(N + 1) /\ i # lo
      BY <2>2
    <3>2. \A i \in (lo + 1)..(N + 1) : g[i] = ParsedFrom(g, lines, i)
      BY <2>3
    <3> QED BY <3>1, <3>2
  <2> HIDE DEF h
  <2>5. ASSUME NEW i \in lo..(N + 1) PROVE ParsedFrom(h, lines, i) = ParsedFrom(g, lines, i)
    <3>1. CASE i > N
      BY <3>1 DEF ParsedFrom
    <3>2. CASE i <= N
      <4>1. i \in Nat /\ i + 1 \in (lo + 1)..(N + 1)
        BY <2>2, <3>2
      <4>2. h[i + 1] = g[i + 1]
        BY <2>4, <4>1
      <4>3. CASE EndOf(lines, i) > N
        BY <4>2, <4>3 DEF ParsedFrom
      <4>4. CASE ~(EndOf(lines, i) > N)
        <5>1. EndOf(lines, i) \in Nat
          <6>1. BaseOf(lines, i) \in Nat
            BY <4>1, MarkerRange DEF BaseOf
          <6>2. SepOf(lines, i) \in Nat
            BY <6>1, MarkerRange DEF SepOf
          <6> QED BY <6>2, MarkerRange DEF EndOf
        <5>2. EndOf(lines, i) \in (i + 1)..N
          BY <4>1, <4>4, <5>1, EndAfter
        <5>3. EndOf(lines, i) + 1 \in (lo + 1)..(N + 1)
          BY <2>2, <4>1, <5>2
        <5>4. h[EndOf(lines, i) + 1] = g[EndOf(lines, i) + 1]
          BY <2>4, <5>3
        <5> QED BY <4>2, <5>4 DEF ParsedFrom
      <4> QED BY <4>3, <4>4
    <3> QED BY <2>2, <3>1, <3>2
  <2>6. \A i \in lo..(N + 1) : h[i] = ParsedFrom(h, lines, i)
    <3>1. h[lo] = ParsedFrom(g, lines, lo) /\ lo \in lo..(N + 1)
      BY <2>2 DEF h
    <3>2. \A i \in lo..(N + 1) : i = lo \/ i \in (lo + 1)..(N + 1)
      BY <2>2
    <3> QED BY <2>4, <2>5, <3>1, <3>2
  <2>7. h = [i \in lo..(N + 1) |-> h[i]]
    BY DEF h
  <2>8. Parses(h, lines, N + 1 - (k + 1))
    BY <2>2, <2>6, <2>7 DEF Parses
  <2> QED BY <1>2, <2>8
<1> HIDE DEF D
<1>3. 0..N \subseteq D
  BY <1>1, <1>2, UpTo
<1>4. N \in D
  BY <1>3
<1>5. \E g : Parses(g, lines, 1)
  <2>1. N + 1 - N = 1
    OBVIOUS
  <2> QED BY <1>4, <2>1 DEF D
<1> DEFINE f == CHOOSE g : Parses(g, lines, 1)
<1>6. Parses(f, lines, 1)
  BY <1>5
<1>7. Conflicts(lines) = f[1]
  BY Zenon DEF Conflicts, Parses, ParsedFrom, BaseOf, SepOf, EndOf
<1> QED BY <1>6, <1>7

\* The sections of a hunk end where the next section of the file starts.
LEMMA HunkEnds ==
  ASSUME NEW file, NEW n, NEW eol, NEW T, Form(file, n, eol, T), NEW k \in 1..n, file[k].hunk
  PROVE  LET lines == Render(file)
             i == Off(file, k) + 1
         IN /\ i \in 1..Len(lines) /\ lines[i].mark = "<"
            /\ EndOf(lines, i) = Off(file, k + 1) /\ EndOf(lines, i) <= Len(lines)
            /\ lines[EndOf(lines, i)].mark = ">"
<1> DEFINE lines == Render(file)
           o == Off(file, k)
           size == file[k].size
           a == file[k].sides[1]
           b == file[k].sides[2]
           c == file[k].sides[3]
           r == RenderSection(file[k])
           p == Len(a) + 2
           s == p + Len(b) + 1
           e == s + Len(c) + 1
<1>1. /\ a \in Seq(T) /\ b \in Seq(T) /\ c \in Seq(T) /\ r \in Seq(T)
      /\ file[k].eol = eol
      /\ \A q \in 1..Len(a) : ~(a[q].mark = "|" /\ a[q].w = size)
      /\ \A q \in 1..Len(b) : ~(b[q].mark = "=" /\ b[q].w = size)
      /\ \A q \in 1..Len(c) : ~(c[q].mark = ">" /\ c[q].w = size)
  <2>1. /\ file[k].eol = eol /\ r \in Seq(T)
        /\ \A m \in 1..3 :
             /\ file[k].sides[m] \in Seq(T)
             /\ \A q \in 1..Len(file[k].sides[m]) :
                  LET x == file[k].sides[m][q]
                  IN ~(x.mark = <<"|", "=", ">">>[m] /\ x.w = file[k].size)
    BY DEF Form
  <2>2. 1 \in 1..3 /\ 2 \in 1..3 /\ 3 \in 1..3
        /\ <<"|", "=", ">">>[1] = "|" /\ <<"|", "=", ">">>[2] = "=" /\ <<"|", "=", ">">>[3] = ">"
    OBVIOUS
  <2> QED BY <2>1, <2>2
<1>2. r = HunkText(size, eol, a, b, c)
  BY <1>1, HunkRendered
<1>3. /\ lines \in Seq(T) /\ o \in Nat /\ Off(file, k + 1) = o + Len(r)
      /\ Off(file, k + 1) <= Len(lines)
      /\ \A q \in 1..Len(r) : lines[o + q] = r[q]
  <2>1. /\ Render(file) \in Seq(T)
        /\ Off(file, k) \in Nat /\ Off(file, k + 1) \in Nat
        /\ Off(file, k + 1) = Off(file, k) + Len(RenderSection(file[k]))
        /\ Off(file, k + 1) <= Len(Render(file))
        /\ \A q \in 1..Len(RenderSection(file[k])) :
             Render(file)[Off(file, k) + q] = RenderSection(file[k])[q]
    <3> HIDE DEF lines, o, r
    <3> QED BY Offsets
  <2> QED BY <2>1
<1> HIDE DEF lines, o, r, size, a, b, c
<1>4. /\ Len(r) = e
      /\ r[1] = Marker("<", size, eol) /\ r[p] = Marker("|", size, eol)
      /\ r[s] = Marker("=", size, eol) /\ r[e] = Marker(">", size, eol)
      /\ \A q \in 1..Len(a) : r[1 + q] = a[q]
      /\ \A q \in 1..Len(b) : r[p + q] = b[q]
      /\ \A q \in 1..Len(c) : r[s + q] = c[q]
  <2> DEFINE M == {Marker(m, size, eol) : m \in {"<", "|", "=", ">"}}
             U == T \union M
  <2>1. T \subseteq U /\ \A m \in {"<", "|", "=", ">"} : Marker(m, size, eol) \in U
    OBVIOUS
  <2> HIDE DEF U
  <2>2. a \in Seq(U) /\ b \in Seq(U) /\ c \in Seq(U)
    BY <1>1, <2>1, SeqMonotonic
  <2>3. HunkShape(r, size, eol, a, b, c)
    BY <1>2, <2>1, <2>2, HunkPlaces
  <2> QED BY <2>3 DEF HunkShape
<1>5. Len(a) \in Nat /\ Len(b) \in Nat /\ Len(c) \in Nat /\ Len(lines) \in Nat
  BY <1>1, <1>3
<1>6. /\ 1 \in 1..Len(r) /\ p \in 1..Len(r) /\ s \in 1..Len(r) /\ e \in 1..Len(r)
  BY <1>4, <1>5
<1>7. /\ lines[o + 1] = Marker("<", size, eol) /\ lines[o + p] = Marker("|", size, eol)
      /\ lines[o + s] = Marker("=", size, eol) /\ lines[o + e] = Marker(">", size, eol)
  BY <1>3, <1>4, <1>6, Zenon
<1>8. ASSUME NEW j \in (o + 2)..(o + p - 1) PROVE ~(lines[j].mark = "|" /\ lines[j].w = size)
  <2> DEFINE q == j - o - 1
  <2>0. o \in Nat /\ Len(r) = e
    BY <1>3, <1>4
  <2>1. q \in 1..Len(a) /\ 1 + q \in 1..Len(r) /\ j = o + (1 + q)
    BY <2>0, <1>5
  <2> HIDE DEF q
  <2>2. lines[j] = r[1 + q] /\ r[1 + q] = a[q]
    BY <1>3, <1>4, <2>1
  <2> QED BY <1>1, <2>1, <2>2
<1>9. ASSUME NEW j \in (o + p + 1)..(o + s - 1) PROVE ~(lines[j].mark = "=" /\ lines[j].w = size)
  <2> DEFINE q == j - o - p
  <2>0. o \in Nat /\ Len(r) = e
    BY <1>3, <1>4
  <2>1. q \in 1..Len(b) /\ p + q \in 1..Len(r) /\ j = o + (p + q)
    BY <2>0, <1>5
  <2> HIDE DEF q, p
  <2>2. lines[j] = r[p + q] /\ r[p + q] = b[q]
    BY <1>3, <1>4, <2>1
  <2> QED BY <1>1, <2>1, <2>2
<1>10. ASSUME NEW j \in (o + s + 1)..(o + e - 1) PROVE ~(lines[j].mark = ">" /\ lines[j].w = size)
  <2> DEFINE q == j - o - s
  <2>0. o \in Nat /\ Len(r) = e
    BY <1>3, <1>4
  <2>1. q \in 1..Len(c) /\ s + q \in 1..Len(r) /\ j = o + (s + q)
    BY <2>0, <1>5
  <2> HIDE DEF q, s
  <2>2. lines[j] = r[s + q] /\ r[s + q] = c[q]
    BY <1>3, <1>4, <2>1
  <2> QED BY <1>1, <2>1, <2>2
<1> DEFINE i == o + 1
           x == o + p
           y == o + s
           z == o + e
<1>11. /\ i \in Nat /\ i + 1 = o + 2 /\ i \in 1..Len(lines)
       /\ x \in (i + 1)..Len(lines) /\ y \in (x + 1)..Len(lines) /\ z \in (y + 1)..Len(lines)
       /\ x \in Nat /\ y \in Nat /\ z \in Nat /\ z = Off(file, k + 1)
  <2>1. o \in Nat /\ Off(file, k + 1) = o + e /\ o + e <= Len(lines)
    BY <1>3, <1>4
  <2> QED BY <2>1, <1>5
<1>12. /\ \A j \in (i + 1)..(x - 1) : ~(lines[j].mark = "|" /\ lines[j].w = size)
       /\ \A j \in (x + 1)..(y - 1) : ~(lines[j].mark = "=" /\ lines[j].w = size)
       /\ \A j \in (y + 1)..(z - 1) : ~(lines[j].mark = ">" /\ lines[j].w = size)
  <2>1. \A j \in (i + 1)..(x - 1) : j \in (o + 2)..(o + p - 1)
    BY <1>3
  <2>2. \A j \in (x + 1)..(y - 1) : j \in (o + p + 1)..(o + s - 1)
    BY <1>3
  <2>3. \A j \in (y + 1)..(z - 1) : j \in (o + s + 1)..(o + e - 1)
    BY <1>3
  <2> HIDE DEF i, x, y, z, p, s, e
  <2> QED BY <1>8, <1>9, <1>10, <2>1, <2>2, <2>3, Zenon
<1>13. /\ lines[i].mark = "<" /\ lines[i].w = size
       /\ lines[x].mark = "|" /\ lines[x].w = size
       /\ lines[y].mark = "=" /\ lines[y].w = size
       /\ lines[z].mark = ">" /\ lines[z].w = size
  BY <1>7 DEF Marker
<1> HIDE DEF i, x, y, z, p, s, e
<1>14. BaseOf(lines, i) = x
  <2>1. i + 1 \in Nat
    BY <1>11
  <2>2. /\ lines \in Seq(T) /\ x \in (i + 1)..Len(lines)
        /\ lines[x].mark = "|" /\ lines[x].w = size
        /\ \A j \in (i + 1)..(x - 1) : ~(lines[j].mark = "|" /\ lines[j].w = size)
    BY <1>3, <1>11, <1>12, <1>13
  <2>3. MarkerFrom(lines, i + 1, "|", size) = x
    BY <2>1, <2>2, MarkerIs
  <2> QED BY <1>13, <2>3 DEF BaseOf
<1>15. SepOf(lines, i) = y
  <2>1. x + 1 \in Nat
    BY <1>11
  <2>2. /\ lines \in Seq(T) /\ y \in (x + 1)..Len(lines)
        /\ lines[y].mark = "=" /\ lines[y].w = size
        /\ \A j \in (x + 1)..(y - 1) : ~(lines[j].mark = "=" /\ lines[j].w = size)
    BY <1>3, <1>11, <1>12, <1>13
  <2>3. MarkerFrom(lines, x + 1, "=", size) = y
    BY <2>1, <2>2, MarkerIs
  <2> QED BY <1>13, <1>14, <2>3 DEF SepOf
<1>16. EndOf(lines, i) = z
  <2>1. y + 1 \in Nat
    BY <1>11
  <2>2. /\ lines \in Seq(T) /\ z \in (y + 1)..Len(lines)
        /\ lines[z].mark = ">" /\ lines[z].w = size
        /\ \A j \in (y + 1)..(z - 1) : ~(lines[j].mark = ">" /\ lines[j].w = size)
    BY <1>3, <1>11, <1>12, <1>13
  <2>3. MarkerFrom(lines, y + 1, ">", size) = z
    BY <2>1, <2>2, MarkerIs
  <2> QED BY <1>13, <1>15, <2>3 DEF EndOf
<1> QED BY <1>3, <1>11, <1>13, <1>16 DEF i, o, lines

\* c has the hunks of a file from section k on, at those places.
Lists(c, file, n, k, place) ==
  /\ \E S : c \in Seq(S)
  /\ place \in [1..Len(c) -> k..n]
  /\ \A m \in 1..Len(c) : /\ file[place[m]].hunk
                          /\ c[m].from = Off(file, place[m]) + 1
                          /\ c[m].to = Off(file, place[m] + 1)
  /\ \A l, m \in 1..Len(c) : l < m => place[l] < place[m]
  /\ \A j \in k..n : file[j].hunk => \E m \in 1..Len(c) : place[m] = j

\* A section without a hunk adds nothing.
LEMMA ListsSkip ==
  ASSUME NEW c, NEW file, NEW n \in Nat, NEW k \in 1..n, NEW place,
         Lists(c, file, n, k + 1, place), ~file[k].hunk
  PROVE  Lists(c, file, n, k, place)
<1>1. \A j \in k..n : j = k \/ j \in (k + 1)..n
  OBVIOUS
<1>2. \A j \in (k + 1)..n : j \in k..n
  OBVIOUS
<1>3. place \in [1..Len(c) -> k..n]
  BY <1>2 DEF Lists
<1> QED BY <1>1, <1>3 DEF Lists

\* One with a hunk comes before the others.
LEMMA ListsCons ==
  ASSUME NEW c, NEW h, NEW file, NEW n \in Nat, NEW k \in 1..n, NEW place,
         Lists(c, file, n, k + 1, place), file[k].hunk,
         h.from = Off(file, k) + 1, h.to = Off(file, k + 1)
  PROVE  \E new : Lists(<<h>> \o c, file, n, k, new)
<1> DEFINE d == <<h>> \o c
           new == [m \in 1..(Len(c) + 1) |-> IF m = 1 THEN k ELSE place[m - 1]]
<1>1. PICK S : c \in Seq(S)
  BY DEF Lists
<1>2. /\ Len(c) \in Nat /\ d \in Seq(S \union {h}) /\ Len(d) = Len(c) + 1 /\ d[1] = h
      /\ \A m \in 1..Len(c) : d[m + 1] = c[m]
  <2>1. <<h>> \in Seq(S \union {h}) /\ c \in Seq(S \union {h}) /\ Len(<<h>>) = 1 /\ <<h>>[1] = h
    BY <1>1, SeqMonotonic
  <2>2. Len(c) \in Nat
    BY <1>1
  <2> QED BY <2>1, <2>2, ConcatProperties
<1> HIDE DEF d
<1>3. /\ \A m \in 1..Len(c) : place[m] \in (k + 1)..n
      /\ \A m \in 1..Len(c) : /\ file[place[m]].hunk
                              /\ c[m].from = Off(file, place[m]) + 1
                              /\ c[m].to = Off(file, place[m] + 1)
      /\ \A l, m \in 1..Len(c) : l < m => place[l] < place[m]
      /\ \A j \in (k + 1)..n : file[j].hunk => \E m \in 1..Len(c) : place[m] = j
  BY DEF Lists
<1>4. /\ new[1] = k
      /\ \A m \in 1..Len(c) : new[m + 1] = place[m]
      /\ \A m \in 1..Len(d) : m = 1 \/ \E l \in 1..Len(c) : m = l + 1
  <2>1. new[1] = k
    BY <1>2
  <2>2. ASSUME NEW m \in 1..Len(c) PROVE new[m + 1] = place[m]
    <3>1. m + 1 \in 1..(Len(c) + 1) /\ m + 1 # 1 /\ m + 1 - 1 = m
      BY <1>2
    <3> QED BY <3>1
  <2>3. ASSUME NEW m \in 1..Len(d), m # 1 PROVE \E l \in 1..Len(c) : m = l + 1
    <3>1. m - 1 \in 1..Len(c) /\ m = (m - 1) + 1
      BY <1>2, <2>3
    <3> QED BY <3>1
  <2> HIDE DEF new
  <2> QED BY <2>1, <2>2, <2>3
<1>5. new \in [1..Len(d) -> k..n]
  <2>1. \A m \in 1..Len(d) : new[m] \in k..n
    BY <1>3, <1>4
  <2>2. DOMAIN new = 1..Len(d) /\ new = [m \in 1..Len(d) |-> new[m]]
    BY <1>2
  <2> HIDE DEF new
  <2> QED BY <2>1, <2>2
<1> HIDE DEF new
<1>6. \A m \in 1..Len(d) : /\ file[new[m]].hunk
                           /\ d[m].from = Off(file, new[m]) + 1
                           /\ d[m].to = Off(file, new[m] + 1)
  <2> SUFFICES ASSUME NEW m \in 1..Len(d)
               PROVE  /\ file[new[m]].hunk
                      /\ d[m].from = Off(file, new[m]) + 1
                      /\ d[m].to = Off(file, new[m] + 1)
    OBVIOUS
  <2>1. CASE m = 1
    BY <1>2, <1>4, <2>1
  <2>2. CASE m # 1
    <3>1. PICK l \in 1..Len(c) : m = l + 1
      BY <1>4, <2>2
    <3>2. new[m] = place[l] /\ d[m] = c[l]
      BY <1>2, <1>4, <3>1
    <3> QED BY <1>3, <3>2
  <2> QED BY <2>1, <2>2
<1>7. \A l, m \in 1..Len(d) : l < m => new[l] < new[m]
  <2> SUFFICES ASSUME NEW l \in 1..Len(d), NEW m \in 1..Len(d), l < m PROVE new[l] < new[m]
    OBVIOUS
  <2>1. PICK y \in 1..Len(c) : m = y + 1
    BY <1>2, <1>4
  <2>2. CASE l = 1
    BY <1>3, <1>4, <2>1, <2>2
  <2>3. CASE l # 1
    <3>1. PICK x \in 1..Len(c) : l = x + 1
      BY <1>4, <2>3
    <3>2. x < y
      BY <1>2, <2>1, <3>1
    <3> QED BY <1>3, <1>4, <2>1, <3>1, <3>2
  <2> QED BY <2>2, <2>3
<1>8. \A j \in k..n : file[j].hunk => \E m \in 1..Len(d) : new[m] = j
  <2> SUFFICES ASSUME NEW j \in k..n, file[j].hunk PROVE \E m \in 1..Len(d) : new[m] = j
    OBVIOUS
  <2>1. CASE j = k
    <3>1. 1 \in 1..Len(d)
      BY <1>2
    <3> QED BY <1>4, <2>1, <3>1
  <2>2. CASE j # k
    <3>1. PICK m \in 1..Len(c) : place[m] = j
      BY <1>3, <2>2
    <3>2. m + 1 \in 1..Len(d)
      BY <1>2
    <3> QED BY <1>4, <3>1, <3>2
  <2> QED BY <2>1, <2>2
<1>9. Lists(d, file, n, k, new)
  BY <1>2, <1>5, <1>6, <1>7, <1>8 DEF Lists
<1> QED BY <1>9 DEF d

\* From a section without a hunk the table goes on to the next one.
LEMMA ContextPassed ==
  ASSUME NEW file, NEW n, NEW eol, NEW T, Form(file, n, eol, T), NEW k \in 1..n, ~file[k].hunk,
         NEW g, Parses(g, Render(file), 1)
  PROVE  g[Off(file, k) + 1] = g[Off(file, k + 1) + 1]
<1> DEFINE lines == Render(file)
           o == Off(file, k)
           r == RenderSection(file[k])
           D == {q \in 0..Len(r) : g[o + 1] = g[o + q + 1]}
<1>1. /\ lines \in Seq(T) /\ o \in Nat /\ Off(file, k + 1) = o + Len(r) /\ r \in Seq(T)
      /\ Off(file, k + 1) <= Len(lines)
      /\ \A q \in 1..Len(r) : lines[o + q] = r[q]
  <2> HIDE DEF lines, o, r
  <2>1. r \in Seq(T)
    BY DEF Form, r
  <2> QED BY <2>1, Offsets DEF lines, o, r
<1>2. \A q \in 1..Len(r) : r[q].mark # "<"
  <2>1. r = file[k].lines /\ \A q \in 1..Len(file[k].lines) : file[k].lines[q].mark # "<"
    BY DEF Form
  <2> QED BY <2>1
<1> HIDE DEF lines, r
<1>3. \A i \in 1..(Len(lines) + 1) : g[i] = ParsedFrom(g, lines, i)
  BY DEF Parses, lines
<1> HIDE DEF o
<1>4. Len(r) \in Nat /\ Len(lines) \in Nat
  BY <1>1
<1>5. 0 \in D
  <2>1. o + 0 + 1 = o + 1
    BY <1>1
  <2> QED BY <1>4, <2>1
<1>6. ASSUME NEW q \in 0..Len(r), q \in D, q < Len(r) PROVE q + 1 \in D
  <2> DEFINE i == o + q + 1
  <2>1. /\ i \in 1..(Len(lines) + 1) /\ ~(i > Len(lines))
        /\ q + 1 \in 1..Len(r) /\ i = o + (q + 1) /\ i + 1 = o + (q + 1) + 1
    BY <1>1, <1>4, <1>6
  <2>2. lines[o + (q + 1)] = r[q + 1] /\ r[q + 1].mark # "<"
    BY <1>1, <1>2, <2>1
  <2>3. g[o + 1] = g[i]
    BY <1>6
  <2> HIDE DEF i
  <2>4. lines[i].mark # "<"
    BY <2>1, <2>2
  <2>5. g[i] = g[i + 1]
    BY <1>3, <2>1, <2>4 DEF ParsedFrom
  <2>6. g[o + 1] = g[o + (q + 1) + 1]
    BY <2>1, <2>3, <2>5
  <2> QED BY <2>1, <2>6
<1> HIDE DEF D
<1>7. Len(r) \in D
  <2>1. 0..Len(r) \subseteq D
    BY <1>4, <1>5, <1>6, UpTo
  <2> QED BY <1>4, <2>1
<1> QED BY <1>1, <1>7 DEF D, o, lines, r

\* The hunks that are found in what git renders are those of the file.
LEMMA ConflictsFound ==
  ASSUME NEW file, NEW n, NEW eol, NEW T, Form(file, n, eol, T)
  PROVE  \E place : Lists(Conflicts(Render(file)), file, n, 1, place)
<1> DEFINE lines == Render(file)
<1>1. n \in Nat \ {0} /\ lines \in Seq(T) /\ Off(file, 1) = 0 /\ Off(file, n + 1) = Len(lines)
  BY Offsets DEF Form
<1>2. Len(lines) \in Nat
  BY <1>1
<1> HIDE DEF lines
<1>3. PICK g : Parses(g, lines, 1) /\ Conflicts(lines) = g[1]
  BY <1>2, ConflictsTable
<1>4. \A i \in 1..(Len(lines) + 1) : g[i] = ParsedFrom(g, lines, i)
  BY <1>3 DEF Parses
<1> DEFINE L(k) == \E place : Lists(g[Off(file, k) + 1], file, n, k, place)
           D == {x \in 0..n : L(n + 1 - x)}
<1>5. L(n + 1)
  <2>1. g[Len(lines) + 1] = <<>>
    <3>1. Len(lines) + 1 \in 1..(Len(lines) + 1) /\ Len(lines) + 1 > Len(lines)
      BY <1>2
    <3>2. ParsedFrom(g, lines, Len(lines) + 1) = <<>>
      BY <3>1 DEF ParsedFrom
    <3> QED BY <1>4, <3>1, <3>2
  <2> DEFINE place == [m \in 1..0 |-> 0]
  <2>2. Lists(<<>>, file, n, n + 1, place)
    <3>1. Len(<<>>) = 0 /\ \A m \in 1..0 : FALSE
      OBVIOUS
    <3>2. \A j \in (n + 1)..n : FALSE
      BY <1>1
    <3>3. <<>> \in Seq({})
      OBVIOUS
    <3>4. place \in [1..0 -> (n + 1)..n]
      BY <3>1
    <3> HIDE DEF place
    <3> QED BY <3>1, <3>2, <3>3, <3>4 DEF Lists
  <2> HIDE DEF place
  <2> QED BY <1>1, <2>1, <2>2
<1>6. ASSUME NEW k \in 1..n, L(k + 1) PROVE L(k)
  <2>1. PICK place : Lists(g[Off(file, k + 1) + 1], file, n, k + 1, place)
    BY <1>6
  <2>2. CASE ~file[k].hunk
    <3>1. g[Off(file, k) + 1] = g[Off(file, k + 1) + 1]
      BY <1>3, <2>2, ContextPassed DEF lines
    <3>2. Lists(g[Off(file, k + 1) + 1], file, n, k, place)
      BY <1>1, <2>1, <2>2, ListsSkip
    <3> QED BY <3>1, <3>2
  <2>3. CASE file[k].hunk
    <3> DEFINE i == Off(file, k) + 1
               e == Off(file, k + 1)
    <3>1. /\ i \in 1..Len(lines) /\ lines[i].mark = "<"
          /\ EndOf(lines, i) = e /\ e <= Len(lines)
      BY <2>3, HunkEnds DEF lines
    <3>2. i \in 1..(Len(lines) + 1) /\ ~(i > Len(lines)) /\ ~(EndOf(lines, i) > Len(lines))
      <4>1. e \in Nat
        BY Offsets
      <4> HIDE DEF i, e
      <4> QED BY <1>2, <3>1, <4>1
    <3> DEFINE h == [from |-> i, to |-> EndOf(lines, i),
                     sides |-> <<SubSeq(lines, i + 1, BaseOf(lines, i) - 1),
                                 SubSeq(lines, BaseOf(lines, i) + 1, SepOf(lines, i) - 1),
                                 SubSeq(lines, SepOf(lines, i) + 1, EndOf(lines, i) - 1)>>]
    <3> HIDE DEF i, e
    <3>3. g[i] = <<h>> \o g[EndOf(lines, i) + 1]
      <4>1. ParsedFrom(g, lines, i) = <<h>> \o g[EndOf(lines, i) + 1]
        BY <3>1, <3>2, Zenon DEF ParsedFrom
      <4> QED BY <1>4, <3>2, <4>1
    <3>4. h.from = i /\ h.to = e
      BY <3>1
    <3> HIDE DEF h
    <3>5. g[i] = <<h>> \o g[e + 1]
      BY <3>1, <3>3
    <3>6. \E new : Lists(<<h>> \o g[e + 1], file, n, k, new)
      <4>1. h.from = Off(file, k) + 1 /\ h.to = Off(file, k + 1)
        BY <3>4 DEF i, e
      <4>2. Lists(g[e + 1], file, n, k + 1, place)
        BY <2>1 DEF e
      <4> QED BY <1>1, <2>3, <4>1, <4>2, ListsCons
    <3> QED BY <3>5, <3>6 DEF i
  <2> QED BY <2>2, <2>3
<1>7. \A x \in 0..n : x \in D /\ x < n => x + 1 \in D
  <2> SUFFICES ASSUME NEW x \in 0..n, x \in D, x < n PROVE x + 1 \in D
    OBVIOUS
  <2> DEFINE k == n - x
  <2>1. k \in 1..n /\ n + 1 - x = k + 1 /\ n + 1 - (x + 1) = k /\ x + 1 \in 0..n
    BY <1>1
  <2> HIDE DEF L
  <2>2. L(k + 1)
    BY <2>1
  <2> HIDE DEF k
  <2>3. L(k)
    BY <1>6, <2>1, <2>2
  <2> QED BY <2>1, <2>3
<1> HIDE DEF L
<1>8. 0 \in D
  <2>1. n + 1 - 0 = n + 1 /\ 0 \in 0..n
    BY <1>1
  <2> QED BY <1>5, <2>1
<1> HIDE DEF D
<1>9. n \in D
  <2>1. 0..n \subseteq D
    BY <1>1, <1>7, <1>8, UpTo
  <2> QED BY <1>1, <2>1
<1>10. L(1)
  <2>1. n + 1 - n = 1
    BY <1>1
  <2> QED BY <1>9, <2>1 DEF D
<1> QED
  <2>1. PICK place : Lists(g[Off(file, 1) + 1], file, n, 1, place)
    BY <1>10 DEF L
  <2>2. Off(file, 1) + 1 = 1
    BY <1>1
  <2> QED BY <1>3, <2>1, <2>2 DEF lines

-----------------------------------------------------------------------------
(* ResolvedLines replaces the hunks.                                       *)

\* The file from hunk k on replaced, if g has it from the next one on.
ReplacedFrom(g, lines, acc, k) ==
  IF k > Len(acc) THEN lines
  ELSE IF g[k + 1] = None \/ ~InPlace(g[k + 1], acc[k]) THEN None
  ELSE ReplaceHunk(g[k + 1], acc[k])

\* g has it from hunk lo on.
Replaces(g, lines, acc, lo) ==
  g = [k \in lo..(Len(acc) + 1) |-> ReplacedFrom(g, lines, acc, k)]

\* ResolvedLines is such a table's first entry.
LEMMA ResolvedTable ==
  ASSUME NEW lines, NEW acc, Len(acc) \in Nat
  PROVE  \E g : Replaces(g, lines, acc, 1) /\ ResolvedLines(lines, acc) = g[1]
<1> DEFINE N == Len(acc)
           D == {k \in 0..N : \E g : Replaces(g, lines, acc, N + 1 - k)}
<1>1. 0 \in D
  <2> DEFINE g == [k \in (N + 1)..(N + 1) |-> lines]
  <2>1. \A k \in (N + 1)..(N + 1) : k > Len(acc)
    OBVIOUS
  <2>2. g = [k \in (N + 1)..(N + 1) |-> ReplacedFrom(g, lines, acc, k)]
    <3> HIDE DEF N
    <3>1. \A k \in (N + 1)..(N + 1) : ReplacedFrom(g, lines, acc, k) = lines
      BY <2>1 DEF ReplacedFrom
    <3> QED BY <3>1
  <2>3. N + 1 - 0 = N + 1
    OBVIOUS
  <2>4. Replaces(g, lines, acc, N + 1 - 0)
    BY <2>2, <2>3 DEF Replaces
  <2> QED BY <2>4
<1>2. ASSUME NEW x \in 0..N, x \in D, x < N PROVE x + 1 \in D
  <2>1. PICK g : Replaces(g, lines, acc, N + 1 - x)
    BY <1>2
  <2> DEFINE lo == N - x
             h == [k \in lo..(N + 1) |-> IF k = lo THEN ReplacedFrom(g, lines, acc, k) ELSE g[k]]
  <2>2. lo \in Nat /\ lo \in 1..N /\ N + 1 - x = lo + 1 /\ N + 1 - (x + 1) = lo
    BY <1>2
  <2>3. g = [k \in (lo + 1)..(N + 1) |-> ReplacedFrom(g, lines, acc, k)]
    BY <2>1, <2>2 DEF Replaces
  <2> HIDE DEF lo
  <2>4. \A k \in (lo + 1)..(N + 1) : h[k] = g[k] /\ g[k] = ReplacedFrom(g, lines, acc, k)
    <3>1. \A k \in (lo + 1)..(N + 1) : k \in lo..(N + 1) /\ k # lo
      BY <2>2
    <3>2. \A k \in (lo + 1)..(N + 1) : g[k] = ReplacedFrom(g, lines, acc, k)
      BY <2>3
    <3> QED BY <3>1, <3>2
  <2> HIDE DEF h
  <2>5. ASSUME NEW k \in lo..(N + 1) PROVE ReplacedFrom(h, lines, acc, k) = ReplacedFrom(g, lines, acc, k)
    <3>1. CASE k > N
      BY <3>1 DEF ReplacedFrom
    <3>2. CASE k <= N
      <4>1. k + 1 \in (lo + 1)..(N + 1)
        BY <2>2, <3>2
      <4>2. h[k + 1] = g[k + 1]
        BY <2>4, <4>1
      <4> QED BY <4>2 DEF ReplacedFrom
    <3> QED BY <2>2, <3>1, <3>2
  <2>6. \A k \in lo..(N + 1) : h[k] = ReplacedFrom(h, lines, acc, k)
    <3>1. h[lo] = ReplacedFrom(g, lines, acc, lo) /\ lo \in lo..(N + 1)
      BY <2>2 DEF h
    <3>2. \A k \in lo..(N + 1) : k = lo \/ k \in (lo + 1)..(N + 1)
      BY <2>2
    <3> QED BY <2>4, <2>5, <3>1, <3>2
  <2>7. h = [k \in lo..(N + 1) |-> h[k]]
    BY DEF h
  <2>8. Replaces(h, lines, acc, N + 1 - (x + 1))
    BY <2>2, <2>6, <2>7 DEF Replaces
  <2> QED BY <1>2, <2>8
<1> HIDE DEF D
<1>3. N \in D
  <2>1. 0..N \subseteq D
    BY <1>1, <1>2, UpTo
  <2> QED BY <2>1
<1>4. \E g : Replaces(g, lines, acc, 1)
  <2>1. N + 1 - N = 1
    OBVIOUS
  <2> QED BY <1>3, <2>1 DEF D
<1> DEFINE f == CHOOSE g : Replaces(g, lines, acc, 1)
<1>5. Replaces(f, lines, acc, 1)
  BY <1>4
<1>6. ResolvedLines(lines, acc) = f[1]
  BY Zenon DEF ResolvedLines, Replaces, ReplacedFrom
<1> QED BY <1>5, <1>6

\* The file with the resolutions of the sections from k on.
Settled(file, n, code, k) ==
  [j \in 1..n |-> IF j < k THEN RenderSection(file[j])
                  ELSE ResolvedSection(file[j], code[j], j = n)]

\* The greatest and the least number up to n of some.
LEMMA Extremes ==
  ASSUME NEW n \in Nat, NEW S \in SUBSET (1..n), S # {}
  PROVE  Max(S) \in S /\ Min(S) \in S
<1>1. PICK x \in S : \A y \in S : x <= y
  <2>1. S \subseteq Nat
    OBVIOUS
  <2> QED BY <2>1, Least
<1> DEFINE R == {n - y : y \in S}
<1>2. PICK r \in R : \A y \in R : r <= y
  <2>1. R \subseteq Nat /\ R # {}
    OBVIOUS
  <2> HIDE DEF R
  <2> QED BY <2>1, Least
<1>3. PICK z \in S : r = n - z
  OBVIOUS
<1>4. \A y \in S : z >= y
  <2> SUFFICES ASSUME NEW y \in S PROVE z >= y
    OBVIOUS
  <2>1. n - z <= n - y
    BY <1>2, <1>3
  <2> QED BY <2>1
<1>5. Max(S) \in S
  BY <1>4 DEF Max
<1>6. Min(S) \in S
  BY <1>1 DEF Min
<1> QED BY <1>5, <1>6

\* Lines that end alike, if at all, have one style.
LEMMA StyleIs ==
  ASSUME NEW T, NEW lines \in Seq(T), NEW eol, \A x \in T : x.eol \in {eol, "none"},
         NEW s, s.to \in 1..Len(lines), lines[s.to].eol = eol
  PROVE  EolStyle(lines, s) = eol
<1> DEFINE terminated == {i \in DOMAIN lines : lines[i].eol # "none"}
           before == {i \in terminated : i < s.from}
           after  == {i \in terminated : i > s.to}
           place == IF before # {} THEN Max(before) ELSE IF after # {} THEN Min(after) ELSE s.to
<1>1. EolStyle(lines, s) = lines[place].eol
  BY Zenon DEF EolStyle
<1>2. Len(lines) \in Nat /\ DOMAIN lines = 1..Len(lines) /\ \A i \in 1..Len(lines) : lines[i] \in T
  OBVIOUS
<1>3. \A i \in terminated : lines[i].eol = eol
  BY <1>2
<1>4. before \in SUBSET (1..Len(lines)) /\ after \in SUBSET (1..Len(lines))
      /\ before \subseteq terminated /\ after \subseteq terminated
  BY <1>2
<1> HIDE DEF terminated, before, after
<1>5. CASE before # {}
  BY <1>1, <1>2, <1>3, <1>4, <1>5, Extremes
<1>6. CASE before = {} /\ after # {}
  BY <1>1, <1>2, <1>3, <1>4, <1>6, Extremes
<1>7. CASE before = {} /\ after = {}
  BY <1>1, <1>7
<1> QED BY <1>5, <1>6, <1>7

\* A resolution is a list of lines without markers.
IsCode(code) == code \in Seq(ToSet(code)) /\ \A x \in ToSet(code) : x = Line(x.w, x.eol)

\* So are those of the hunks of a file, and the lines they become are in T.
CodesIn(file, n, code, eol, T) ==
  \A k \in 1..n : file[k].hunk =>
    /\ IsCode(code[k])
    /\ \A i \in 1..Len(code[k]) : Line(code[k][i].w, eol) \in T /\ Line(code[k][i].w, "none") \in T

\* What Terminated makes of a resolution is what the section is to become.
LEMMA TerminatedIs ==
  ASSUME NEW section, section.hunk, NEW eol, section.eol = eol, NEW code, IsCode(code), NEW last
  PROVE  Terminated(code, eol, last) = ResolvedSection(section, code, last)
<1>1. /\ Len(code) \in Nat /\ DOMAIN code = 1..Len(code)
      /\ \A i \in 1..Len(code) : code[i] = Line(code[i].w, code[i].eol)
  <2>1. code \in Seq(ToSet(code)) /\ \A x \in ToSet(code) : x = Line(x.w, x.eol)
    BY DEF IsCode
  <2>2. \A i \in 1..Len(code) : code[i] \in ToSet(code)
    BY <2>1
  <2> QED BY <2>1, <2>2
<1>2. ASSUME NEW i \in 1..Len(code), NEW e PROVE [code[i] EXCEPT !.eol = e] = Line(code[i].w, e)
  <2> DEFINE w == code[i].w
             f == code[i].eol
  <2>1. code[i] = [mark |-> "none", w |-> w, eol |-> f]
    BY <1>1 DEF Line
  <2> HIDE DEF w, f
  <2>2. [code[i] EXCEPT !.eol = e] = [mark |-> "none", w |-> w, eol |-> e]
    BY <2>1
  <2> QED BY <2>2 DEF Line, w
<1> DEFINE T(i) == [code[i] EXCEPT !.eol = IF code[i].eol = "none" /\ i = Len(code) /\ last THEN "none" ELSE eol]
           R(i) == Line(code[i].w, IF last /\ i = Len(code) /\ code[i].eol = "none" THEN "none" ELSE eol)
<1>3. \A i \in 1..Len(code) : T(i) = R(i)
  <2> SUFFICES ASSUME NEW i \in 1..Len(code) PROVE T(i) = R(i)
    OBVIOUS
  <2>1. CASE code[i].eol = "none" /\ i = Len(code) /\ last
    BY <1>2, <2>1
  <2>2. CASE ~(code[i].eol = "none" /\ i = Len(code) /\ last)
    BY <1>2, <2>2
  <2> QED BY <2>1, <2>2
<1>4. Terminated(code, eol, last) = [i \in 1..Len(code) |-> T(i)]
  BY <1>1 DEF Terminated
<1>5. ResolvedSection(section, code, last) = [i \in 1..Len(code) |-> R(i)]
  BY <1>1 DEF ResolvedSection
<1> HIDE DEF T, R
<1> QED BY <1>3, <1>4, <1>5

\* Resolved sections are lines too.
LEMMA SettledType ==
  ASSUME NEW file, NEW n, NEW eol, NEW T, Form(file, n, eol, T),
         NEW code, CodesIn(file, n, code, eol, T), NEW k
  PROVE  LET s == Settled(file, n, code, k)
         IN /\ s \in Seq(Seq(T)) /\ Len(s) = n
            /\ \A j \in 1..n : s[j] = IF j < k THEN RenderSection(file[j])
                                      ELSE ResolvedSection(file[j], code[j], j = n)
            /\ \A j \in 1..n : ~file[j].hunk => s[j] = RenderSection(file[j])
<1> DEFINE s == Settled(file, n, code, k)
<1>1. n \in Nat /\ \A j \in 1..n : RenderSection(file[j]) \in Seq(T)
  BY DEF Form
<1>2. \A j \in 1..n : ~file[j].hunk =>
        ResolvedSection(file[j], code[j], j = n) = RenderSection(file[j])
  BY DEF ResolvedSection, RenderSection
<1>3. ASSUME NEW j \in 1..n, file[j].hunk
      PROVE  ResolvedSection(file[j], code[j], j = n) \in Seq(T)
  <2> DEFINE c == code[j]
             last == (j = n)
             R(i) == Line(c[i].w, IF last /\ i = Len(c) /\ c[i].eol = "none" THEN "none" ELSE eol)
  <2>1. /\ c \in Seq(ToSet(c)) /\ file[j].eol = eol
        /\ \A i \in 1..Len(c) : Line(c[i].w, eol) \in T /\ Line(c[i].w, "none") \in T
    BY <1>3 DEF CodesIn, IsCode, Form
  <2>2. ResolvedSection(file[j], c, last) = [i \in DOMAIN c |-> R(i)]
    BY <1>3, <2>1, Zenon DEF ResolvedSection
  <2>3. Len(c) \in Nat /\ DOMAIN c = 1..Len(c)
    BY <2>1
  <2> HIDE DEF c, last
  <2>4. \A i \in 1..Len(c) : R(i) \in T
    BY <2>1
  <2> HIDE DEF R
  <2>5. [i \in 1..Len(c) |-> R(i)] \in Seq(T)
    BY <2>3, <2>4
  <2> QED BY <2>2, <2>3, <2>5 DEF c, last
<1>4. \A j \in 1..n : s[j] = IF j < k THEN RenderSection(file[j])
                             ELSE ResolvedSection(file[j], code[j], j = n)
  BY DEF Settled
<1>5. DOMAIN s = 1..n /\ s = [j \in 1..n |-> s[j]]
  BY DEF Settled
<1> HIDE DEF s
<1>6. \A j \in 1..n : s[j] \in Seq(T)
  BY <1>1, <1>2, <1>3, <1>4, Zenon
<1>7. s \in Seq(Seq(T)) /\ Len(s) = n
  BY <1>1, <1>5, <1>6
<1>8. \A j \in 1..n : ~file[j].hunk => s[j] = RenderSection(file[j])
  BY <1>2, <1>4
<1> QED BY <1>4, <1>7, <1>8 DEF s

\* The last marker of a hunk ends like the other lines.
LEMMA HunkLast ==
  ASSUME NEW file, NEW n, NEW eol, NEW T, Form(file, n, eol, T), NEW k \in 1..n, file[k].hunk
  PROVE  LET r == RenderSection(file[k]) IN Len(r) \in Nat \ {0} /\ r[Len(r)].eol = eol
<1> DEFINE r == RenderSection(file[k])
           size == file[k].size
           a == file[k].sides[1]
           b == file[k].sides[2]
           c == file[k].sides[3]
<1>1. a \in Seq(T) /\ b \in Seq(T) /\ c \in Seq(T) /\ file[k].eol = eol
  <2>1. 1 \in 1..3 /\ 2 \in 1..3 /\ 3 \in 1..3
    OBVIOUS
  <2> QED BY <2>1 DEF Form
<1>2. r = HunkText(size, eol, a, b, c)
  BY <1>1, HunkRendered
<1> HIDE DEF r, size, a, b, c
<1> DEFINE M == {Marker(m, size, eol) : m \in {"<", "|", "=", ">"}}
           U == T \union M
<1>3. T \subseteq U /\ \A m \in {"<", "|", "=", ">"} : Marker(m, size, eol) \in U
  OBVIOUS
<1> HIDE DEF U
<1>4. a \in Seq(U) /\ b \in Seq(U) /\ c \in Seq(U)
  BY <1>1, <1>3, SeqMonotonic
<1>5. HunkShape(r, size, eol, a, b, c)
  BY <1>2, <1>3, <1>4, HunkPlaces
<1>6. Len(a) \in Nat /\ Len(b) \in Nat /\ Len(c) \in Nat
  BY <1>1
<1>7. Len(r) \in Nat \ {0} /\ r[Len(r)] = Marker(">", size, eol)
  BY <1>5, <1>6 DEF HunkShape
<1> QED BY <1>7 DEF Marker, r

\* What is before and after the middle one of three sequences.
LEMMA CutAround ==
  ASSUME NEW T, NEW a \in Seq(T), NEW b \in Seq(T), NEW c \in Seq(T), NEW r, r = (a \o b) \o c
  PROVE  /\ SubSeq(r, 1, Len(a)) = a
         /\ SubSeq(r, Len(a) + Len(b) + 1, Len(r)) = c
<1>1. /\ r \in Seq(T) /\ Len(r) = Len(a) + Len(b) + Len(c)
      /\ \A q \in 1..Len(a) : r[q] = a[q]
      /\ \A q \in 1..Len(c) : r[Len(a) + Len(b) + q] = c[q]
  BY MiddleOf
<1>2. Len(a) \in Nat /\ Len(b) \in Nat /\ Len(c) \in Nat
  OBVIOUS
<1>3. SubSeq(r, 1, Len(a)) = a
  BY <1>1, <1>2
<1> DEFINE o == Len(a) + Len(b)
           d == SubSeq(r, o + 1, Len(r))
<1>4. /\ d \in Seq(T) /\ Len(d) = Len(c)
      /\ \A q \in 1..Len(c) : d[q] = r[o + q]
  <2>1. o \in Nat /\ Len(r) = o + Len(c)
    BY <1>1, <1>2
  <2> DEFINE n == Len(r)
             l == o + 1
  <2>2. l \in Int /\ n \in Int /\ l <= n + 1 /\ n - l + 1 = Len(c) /\ (l <= n <=> Len(c) # 0)
    BY <1>2, <2>1
  <2>3. \A i \in l..n : r[i] \in T
    BY <1>1, <1>2, <2>1
  <2>4. \A q \in 1..Len(c) : l + q - 1 = o + q
    BY <1>2, <2>1
  <2> HIDE DEF o, l, n
  <2>5. /\ SubSeq(r, l, n) \in Seq(T)
        /\ Len(SubSeq(r, l, n)) = IF l <= n THEN n - l + 1 ELSE 0
        /\ \A i \in 1..(n - l + 1) : SubSeq(r, l, n)[i] = r[l + i - 1]
    <3>1. l \in Int /\ n \in Int
      BY <2>2
    <3> QED BY ONLY <3>1, <2>3, SubSeqProperties
  <2> QED BY <1>2, <2>2, <2>4, <2>5 DEF l, n
<1> HIDE DEF d
<1>5. d = c
  <2>1. \A q \in 1..Len(c) : d[q] = c[q]
    BY <1>1, <1>4
  <2> QED BY <1>4, <2>1
<1> QED BY <1>3, <1>5 DEF d

\* Something follows a hunk that is not the last section.
LEMMA MoreFollows ==
  ASSUME NEW T, NEW s \in Seq(Seq(T)), NEW k \in 1..Len(s)
  PROVE  LET post == FlattenSeq(SubSeq(s, k + 1, Len(s)))
         IN /\ post \in Seq(T)
            /\ k = Len(s) => post = <<>>
            /\ k < Len(s) /\ s[k + 1] # <<>> => post # <<>>
<1> DEFINE p == SubSeq(s, k + 1, Len(s))
<1>1. p \in Seq(Seq(T))
  OBVIOUS
<1>2. k < Len(s) => 1 \in 1..Len(p) /\ p[1] = s[k + 1]
  OBVIOUS
<1>3. k = Len(s) => p = <<>>
  OBVIOUS
<1> HIDE DEF p
<1>4. FlattenSeq(p) \in Seq(T)
  BY <1>1, FlattenType
<1>5. k = Len(s) => FlattenSeq(p) = <<>>
  BY <1>3 DEF FlattenSeq
<1>6. ASSUME k < Len(s), s[k + 1] # <<>> PROVE FlattenSeq(p) # <<>>
  <2> DEFINE a == FlattenSeq(SubSeq(p, 1, 1 - 1))
             c == FlattenSeq(SubSeq(p, 1 + 1, Len(p)))
             b == p[1]
             r == FlattenSeq(p)
  <2>1. 1 \in 1..Len(p) /\ b = s[k + 1]
    BY <1>2, <1>6
  <2>2. a \in Seq(T) /\ c \in Seq(T) /\ b \in Seq(T) /\ r = (a \o b) \o c
    BY <1>1, <2>1, FlattenSplit
  <2> HIDE DEF a, b, c, r
  <2>3. Len(r) = Len(a) + Len(b) + Len(c)
    BY <2>2, MiddleOf
  <2>4. b # <<>> /\ Len(a) \in Nat /\ Len(b) \in Nat /\ Len(c) \in Nat
    BY <1>6, <2>1, <2>2
  <2>5. Len(b) # 0
    BY <2>2, <2>4
  <2>6. Len(r) # 0
    BY <2>3, <2>4, <2>5
  <2>7. Len(<<>>) = 0
    OBVIOUS
  <2> QED BY <2>6, <2>7 DEF r
<1> QED BY <1>4, <1>5, <1>6 DEF p

\* A hunk that is replaced leaves what is around it.
LEMMA HunkReplaced ==
  ASSUME NEW file, NEW n, NEW eol, NEW T, Form(file, n, eol, T),
         NEW code, CodesIn(file, n, code, eol, T), NEW k \in 1..n, file[k].hunk,
         NEW s, s.from = Off(file, k) + 1, s.to = Off(file, k + 1), s.code = code[k]
  PROVE  ReplaceHunk(FlattenSeq(Settled(file, n, code, k + 1)), s)
           = FlattenSeq(Settled(file, n, code, k))
<1> DEFINE a == Settled(file, n, code, k + 1)
           b == Settled(file, n, code, k)
           mid == RenderSection(file[k])
           new == ResolvedSection(file[k], code[k], k = n)
<1>1. n \in Nat \ {0} /\ k \in Nat
  BY DEF Form
<1>2. /\ a \in Seq(Seq(T)) /\ Len(a) = n /\ b \in Seq(Seq(T)) /\ Len(b) = n
      /\ \A j \in 1..n : a[j] = IF j < k + 1 THEN RenderSection(file[j])
                                ELSE ResolvedSection(file[j], code[j], j = n)
      /\ \A j \in 1..n : b[j] = IF j < k THEN RenderSection(file[j])
                                ELSE ResolvedSection(file[j], code[j], j = n)
      /\ \A j \in 1..n : ~file[j].hunk => a[j] = RenderSection(file[j])
  <2>1. /\ a \in Seq(Seq(T)) /\ Len(a) = n
        /\ \A j \in 1..n : a[j] = IF j < k + 1 THEN RenderSection(file[j])
                                  ELSE ResolvedSection(file[j], code[j], j = n)
        /\ \A j \in 1..n : ~file[j].hunk => a[j] = RenderSection(file[j])
    BY SettledType
  <2>2. /\ b \in Seq(Seq(T)) /\ Len(b) = n
        /\ \A j \in 1..n : b[j] = IF j < k THEN RenderSection(file[j])
                                  ELSE ResolvedSection(file[j], code[j], j = n)
    BY SettledType
  <2> QED BY <2>1, <2>2
<1>3. k < n => a[k + 1] # <<>>
  <2> SUFFICES ASSUME k < n PROVE a[k + 1] # <<>>
    OBVIOUS
  <2>1. k + 1 \in 1..n /\ ~file[k + 1].hunk /\ RenderSection(file[k + 1]) # <<>>
    BY <1>1 DEF Form
  <2> QED BY <1>2, <2>1
<1>4. Len(mid) \in Nat \ {0} /\ mid[Len(mid)].eol = eol
  BY HunkLast
<1>5. file[k].eol = eol /\ IsCode(code[k]) /\ \A x \in T : x.eol \in {eol, "none"}
  BY DEF Form, CodesIn
<1>6. Rendered(file) \in Seq(Seq(T)) /\ Len(Rendered(file)) = n
      /\ Off(file, k + 1) = Off(file, k) + Len(mid)
  BY Offsets
<1>7. \A j \in 1..n : Rendered(file)[j] = RenderSection(file[j])
  BY <1>1 DEF Rendered, Form
<1> HIDE DEF a, b, mid, new
<1>8. a[k] = mid /\ b[k] = new
  <2>1. k < k + 1 /\ ~(k < k)
    BY <1>1
  <2> QED BY <1>2, <2>1 DEF mid, new
<1>9. /\ SubSeq(a, 1, k - 1) = SubSeq(Rendered(file), 1, k - 1)
      /\ SubSeq(b, 1, k - 1) = SubSeq(a, 1, k - 1)
      /\ SubSeq(b, k + 1, n) = SubSeq(a, k + 1, n)
  <2>1. \A j \in 1..n : j < k => a[j] = Rendered(file)[j] /\ b[j] = a[j]
    BY <1>1, <1>2, <1>7
  <2>2. \A j \in 1..n : j > k => b[j] = a[j]
    BY <1>1, <1>2
  <2> QED BY <1>1, <1>2, <1>6, <2>1, <2>2
<1> DEFINE pre == FlattenSeq(SubSeq(a, 1, k - 1))
           post == FlattenSeq(SubSeq(a, k + 1, n))
           lines == FlattenSeq(a)
<1>10. /\ pre \in Seq(T) /\ post \in Seq(T) /\ mid \in Seq(T) /\ lines = (pre \o mid) \o post
  <2>1. /\ k \in 1..Len(a) /\ a[k] = mid /\ Len(a) = n
    BY <1>2, <1>8
  <2>2. LET x == FlattenSeq(SubSeq(a, 1, k - 1))
            y == FlattenSeq(SubSeq(a, k + 1, Len(a)))
        IN x \in Seq(T) /\ y \in Seq(T) /\ a[k] \in Seq(T) /\ FlattenSeq(a) = (x \o a[k]) \o y
    BY <1>2, <2>1, FlattenSplit
  <2> QED BY <2>1, <2>2
<1>11. new \in Seq(T) /\ FlattenSeq(b) = (pre \o new) \o post
  <2>1. /\ k \in 1..Len(b) /\ b[k] = new /\ Len(b) = n
    BY <1>2, <1>8
  <2>2. LET x == FlattenSeq(SubSeq(b, 1, k - 1))
            y == FlattenSeq(SubSeq(b, k + 1, Len(b)))
        IN b[k] \in Seq(T) /\ FlattenSeq(b) = (x \o b[k]) \o y
    BY <1>2, <2>1, FlattenSplit
  <2> QED BY <1>9, <2>1, <2>2
<1>12. (k = n => post = <<>>) /\ (k < n => post # <<>>)
  <2>1. k \in 1..Len(a) /\ Len(a) = n
    BY <1>2
  <2>2. LET y == FlattenSeq(SubSeq(a, k + 1, Len(a)))
        IN /\ k = Len(a) => y = <<>>
           /\ k < Len(a) /\ a[k + 1] # <<>> => y # <<>>
    BY <1>2, <2>1, MoreFollows
  <2> QED BY <1>3, <2>1, <2>2
<1>13. Off(file, k) = Len(pre)
  BY <1>9 DEF Off
<1> HIDE DEF pre, post, lines
<1>14. /\ lines \in Seq(T) /\ Len(lines) = Len(pre) + Len(mid) + Len(post)
       /\ \A q \in 1..Len(mid) : lines[Len(pre) + q] = mid[q]
       /\ SubSeq(lines, 1, Len(pre)) = pre
       /\ SubSeq(lines, Len(pre) + Len(mid) + 1, Len(lines)) = post
  BY <1>10, MiddleOf, CutAround
<1>15. /\ s.from - 1 = Len(pre) /\ s.to = Len(pre) + Len(mid)
       /\ Len(pre) \in Nat /\ Len(post) \in Nat
  BY <1>4, <1>6, <1>10, <1>13
<1>16. EolStyle(lines, s) = eol
  <2>1. s.to \in 1..Len(lines)
    BY <1>4, <1>14, <1>15
  <2>2. lines[s.to].eol = eol
    <3>1. Len(mid) \in 1..Len(mid)
      BY <1>4
    <3>2. lines[Len(pre) + Len(mid)] = mid[Len(mid)]
      BY <1>14, <3>1
    <3> QED BY <1>4, <1>15, <3>2
  <2>3. lines \in Seq(T) /\ \A x \in T : x.eol \in {eol, "none"}
    BY <1>5, <1>14
  <2> QED BY <2>1, <2>2, <2>3, StyleIs
<1>17. (s.to = Len(lines)) = (k = n)
  <2>1. Len(post) = 0 <=> post = <<>>
    BY <1>10
  <2>2. Len(lines) = s.to + Len(post) /\ s.to \in Nat /\ Len(post) \in Nat
    BY <1>4, <1>14, <1>15
  <2>3. (s.to = Len(lines)) = (Len(post) = 0)
    BY <2>2
  <2>4. (post = <<>>) = (k = n)
    BY <1>1, <1>12
  <2> QED BY <2>1, <2>3, <2>4
<1>18. Terminated(s.code, EolStyle(lines, s), s.to = Len(lines)) = new
  BY <1>5, <1>16, <1>17, TerminatedIs DEF new
<1>19. ReplaceHunk(lines, s) = (pre \o new) \o post
  BY <1>14, <1>15, <1>18 DEF ReplaceHunk
<1> QED BY <1>11, <1>19 DEF lines, a, b

\* If no hunk has moved, each is replaced by its resolution.
LEMMA ResolvedIs ==
  ASSUME NEW file, NEW n, NEW eol, NEW T, Form(file, n, eol, T),
         NEW code, CodesIn(file, n, code, eol, T),
         NEW acc, NEW place, Lists(acc, file, n, 1, place),
         \A m \in 1..Len(acc) : acc[m].code = code[place[m]],
         ResolvedLines(Render(file), acc) # None
  PROVE  ResolvedLines(Render(file), acc) = FlattenSeq(Settled(file, n, code, 1))
<1> DEFINE lines == Render(file)
           N == Len(acc)
<1>1. /\ n \in Nat \ {0} /\ N \in Nat
      /\ \A m \in 1..N : /\ place[m] \in 1..n /\ file[place[m]].hunk
                         /\ acc[m].from = Off(file, place[m]) + 1
                         /\ acc[m].to = Off(file, place[m] + 1)
      /\ \A l, m \in 1..N : l < m => place[l] < place[m]
      /\ \A j \in 1..n : file[j].hunk => \E m \in 1..N : place[m] = j
  <2>1. n \in Nat \ {0}
    BY DEF Form
  <2>2. N \in Nat /\ \A m \in 1..N : place[m] \in 1..n
    BY DEF Lists
  <2>3. /\ \A m \in 1..N : /\ file[place[m]].hunk
                           /\ acc[m].from = Off(file, place[m]) + 1
                           /\ acc[m].to = Off(file, place[m] + 1)
        /\ \A l, m \in 1..N : l < m => place[l] < place[m]
        /\ \A j \in 1..n : file[j].hunk => \E m \in 1..N : place[m] = j
    BY DEF Lists
  <2> QED BY <2>1, <2>2, <2>3
<1> HIDE DEF lines
<1>2. PICK g : Replaces(g, lines, acc, 1) /\ ResolvedLines(lines, acc) = g[1]
  BY <1>1, ResolvedTable
<1>3. \A m \in 1..(N + 1) : g[m] = ReplacedFrom(g, lines, acc, m)
  BY <1>2 DEF Replaces
\* Hunk m is the first one from section k on.
<1> DEFINE First(m, k) == /\ \A l \in 1..N : l < m => place[l] < k
                          /\ \A l \in 1..N : l >= m => place[l] >= k
           F(k) == FlattenSeq(Settled(file, n, code, k))
           C(k) == \A m \in 1..(N + 1) : First(m, k) /\ g[m] # None => g[m] = F(k)
           D == {x \in 0..n : C(n + 1 - x)}
<1>4. C(n + 1)
  <2> SUFFICES ASSUME NEW m \in 1..(N + 1), First(m, n + 1) PROVE g[m] = F(n + 1)
    OBVIOUS
  <2>1. m > N
    <3> SUFFICES ASSUME m \in 1..N PROVE FALSE
      BY <1>1
    <3>1. place[m] >= n + 1 /\ place[m] \in 1..n
      BY <1>1
    <3> QED BY <1>1, <3>1
  <2>2. g[m] = lines
    BY <1>3, <2>1 DEF ReplacedFrom
  <2>3. Settled(file, n, code, n + 1) = Rendered(file)
    <3>1. \A j \in 1..n : j < n + 1
      BY <1>1
    <3>2. DOMAIN file = 1..n
      BY DEF Form
    <3> QED BY <3>1, <3>2 DEF Settled, Rendered
  <2>4. lines = FlattenSeq(Rendered(file))
    BY DEF lines, Render, Rendered
  <2> QED BY <2>2, <2>3, <2>4
<1>5. ASSUME NEW k \in 1..n, C(k + 1) PROVE C(k)
  <2> SUFFICES ASSUME NEW m \in 1..(N + 1), First(m, k), g[m] # None PROVE g[m] = F(k)
    OBVIOUS
  <2>1. CASE ~file[k].hunk
    <3>1. First(m, k + 1)
      <4>1. \A l \in 1..N : place[l] # k
        BY <1>1, <2>1
      <4> QED BY <1>1, <4>1
    <3>2. Settled(file, n, code, k + 1) = Settled(file, n, code, k)
      <4>1. ResolvedSection(file[k], code[k], k = n) = RenderSection(file[k])
        BY <2>1 DEF ResolvedSection, RenderSection
      <4>2. \A j \in 1..n : (j < k + 1) <=> (j < k \/ j = k)
        BY <1>1
      <4>3. \A j \in 1..n : (IF j < k + 1 THEN RenderSection(file[j])
                               ELSE ResolvedSection(file[j], code[j], j = n))
                            = (IF j < k THEN RenderSection(file[j])
                               ELSE ResolvedSection(file[j], code[j], j = n))
        BY <4>1, <4>2, Zenon
      <4> QED BY <4>3, Zenon DEF Settled
    <3> QED BY <1>5, <3>1, <3>2
  <2>2. CASE file[k].hunk
    <3>1. PICK h \in 1..N : place[h] = k
      BY <1>1, <2>2
    <3>2. h = m
      <4>1. ~(h < m)
        BY <1>1, <3>1
      <4>2. ~(m < h)
        <5> SUFFICES ASSUME m < h PROVE FALSE
          OBVIOUS
        <5>1. m \in 1..N
          BY <1>1
        <5>2. place[m] < place[h] /\ place[m] >= k
          BY <1>1, <5>1
        <5> QED BY <1>1, <3>1, <5>1, <5>2
      <4> QED BY <1>1, <4>1, <4>2
    <3>3. m \in 1..N /\ m + 1 \in 1..(N + 1) /\ ~(m > N)
      BY <1>1, <3>2
    <3>4. First(m + 1, k + 1)
      <4>1. ASSUME NEW l \in 1..N, l < m + 1 PROVE place[l] < k + 1
        <5>1. CASE l = m
          BY <1>1, <3>1, <3>2, <5>1
        <5>2. CASE l < m
          <6>1. place[l] < k
            BY <5>2
          <6> QED BY <1>1, <6>1
        <5> QED BY <1>1, <3>3, <4>1, <5>1, <5>2
      <4>2. ASSUME NEW l \in 1..N, l >= m + 1 PROVE place[l] >= k + 1
        <5>1. m < l
          BY <1>1, <3>3, <4>2
        <5>2. place[m] < place[l] /\ place[m] = k
          BY <1>1, <3>1, <3>2, <3>3, <5>1
        <5> QED BY <1>1, <5>2
      <4> QED BY <4>1, <4>2
    <3>5. g[m + 1] # None /\ g[m] = ReplaceHunk(g[m + 1], acc[m])
      <4>1. g[m] = ReplacedFrom(g, lines, acc, m)
        BY <1>3
      <4>2. ReplacedFrom(g, lines, acc, m)
              = IF g[m + 1] = None \/ ~InPlace(g[m + 1], acc[m]) THEN None
                ELSE ReplaceHunk(g[m + 1], acc[m])
        BY <3>3 DEF ReplacedFrom
      <4> QED BY <4>1, <4>2
    <3>6. g[m + 1] = F(k + 1)
      BY <1>5, <3>3, <3>4, <3>5
    <3>7. /\ acc[m].from = Off(file, k) + 1 /\ acc[m].to = Off(file, k + 1)
          /\ acc[m].code = code[k]
      BY <1>1, <3>1, <3>2
    <3>8. ReplaceHunk(FlattenSeq(Settled(file, n, code, k + 1)), acc[m])
            = FlattenSeq(Settled(file, n, code, k))
      BY <2>2, <3>7, HunkReplaced
    <3> QED BY <3>5, <3>6, <3>8
  <2> QED BY <2>1, <2>2
<1> HIDE DEF C
<1>6. \A x \in 0..n : x \in D /\ x < n => x + 1 \in D
  <2> SUFFICES ASSUME NEW x \in 0..n, x \in D, x < n PROVE x + 1 \in D
    OBVIOUS
  <2> DEFINE k == n - x
  <2>1. k \in 1..n /\ n + 1 - x = k + 1 /\ n + 1 - (x + 1) = k /\ x + 1 \in 0..n
    BY <1>1
  <2>2. C(k + 1)
    BY <2>1
  <2> HIDE DEF k
  <2>3. C(k)
    BY <1>5, <2>1, <2>2
  <2> QED BY <2>1, <2>3
<1>7. 0 \in D
  <2>1. n + 1 - 0 = n + 1 /\ 0 \in 0..n
    BY <1>1
  <2> QED BY <1>4, <2>1
<1> HIDE DEF D
<1>8. C(1)
  <2>1. n \in D
    <3>1. 0..n \subseteq D
      BY <1>1, <1>6, <1>7, UpTo
    <3> QED BY <1>1, <3>1
  <2>2. n + 1 - n = 1
    BY <1>1
  <2> QED BY <2>1, <2>2 DEF D
<1>9. First(1, 1) /\ 1 \in 1..(N + 1)
  BY <1>1
<1> QED BY <1>2, <1>8, <1>9 DEF C, lines

-----------------------------------------------------------------------------
(* AcceptedIn lists what was accepted for a file.                          *)

AcceptedAt(m) == [code |-> codes[m], from |-> hunks[m].hunk.from, to |-> hunks[m].hunk.to]

\* What is accepted among the first m hunks, if g has it up to the one before.
AcceptedUpTo(g, i, m) ==
  IF m = 0 THEN <<>>
  ELSE IF hunks[m].file # i THEN g[m - 1]
  ELSE Append(g[m - 1], AcceptedAt(m))

\* g has it up to the first n hunks.
Accepts(g, i, n) == g = [m \in 0..n |-> AcceptedUpTo(g, i, m)]

\* AcceptedIn is such a table's last entry.
LEMMA AcceptedTable ==
  ASSUME NEW i, Len(codes) \in Nat
  PROVE  \E g : Accepts(g, i, Len(codes)) /\ AcceptedIn(i) = g[Len(codes)]
<1> DEFINE N == Len(codes)
           D == {n \in 0..N : \E g : Accepts(g, i, n)}
<1>1. 0 \in D
  <2> DEFINE g == [m \in 0..0 |-> <<>>]
  <2>1. \A m \in 0..0 : m = 0
    OBVIOUS
  <2>2. g = [m \in 0..0 |-> AcceptedUpTo(g, i, m)]
    <3>1. \A m \in 0..0 : AcceptedUpTo(g, i, m) = <<>>
      BY <2>1 DEF AcceptedUpTo
    <3> QED BY <3>1
  <2>3. Accepts(g, i, 0)
    BY <2>2 DEF Accepts
  <2> QED BY <2>3
<1>2. ASSUME NEW n \in 0..N, n \in D, n < N PROVE n + 1 \in D
  <2>1. PICK g : Accepts(g, i, n)
    BY <1>2
  <2> DEFINE hi == n + 1
             h == [m \in 0..hi |-> IF m = hi THEN AcceptedUpTo(g, i, m) ELSE g[m]]
  <2>2. n \in Nat /\ hi \in 1..N /\ hi \in 0..hi /\ hi - 1 = n
    BY <1>2
  <2>3. g = [m \in 0..n |-> AcceptedUpTo(g, i, m)]
    BY <2>1 DEF Accepts
  <2>4. \A m \in 0..n : h[m] = g[m] /\ g[m] = AcceptedUpTo(g, i, m)
    <3>1. \A m \in 0..n : m \in 0..hi /\ m # hi
      BY <2>2
    <3>2. \A m \in 0..n : g[m] = AcceptedUpTo(g, i, m)
      BY <2>3
    <3> QED BY <3>1, <3>2
  <2>5. h[hi] = AcceptedUpTo(g, i, hi) /\ h = [m \in 0..hi |-> h[m]]
    BY <2>2
  <2> HIDE DEF h
  <2>6. ASSUME NEW m \in 0..hi PROVE AcceptedUpTo(h, i, m) = AcceptedUpTo(g, i, m)
    <3>1. CASE m = 0
      BY <3>1 DEF AcceptedUpTo
    <3>2. CASE m # 0
      <4>1. m - 1 \in 0..n
        BY <2>2, <3>2
      <4>2. h[m - 1] = g[m - 1]
        BY <2>4, <4>1
      <4> QED BY <4>2 DEF AcceptedUpTo
    <3> QED BY <3>1, <3>2
  <2>7. \A m \in 0..hi : h[m] = AcceptedUpTo(h, i, m)
    <3>1. \A m \in 0..hi : m = hi \/ m \in 0..n
      BY <2>2
    <3> QED BY <2>4, <2>5, <2>6, <3>1
  <2> HIDE DEF hi
  <2>8. Accepts(h, i, hi)
    BY <2>5, <2>7 DEF Accepts
  <2>9. hi \in 0..N
    BY <2>2
  <2> QED BY <2>8, <2>9 DEF hi
<1> HIDE DEF D
<1>3. N \in D
  <2>1. 0..N \subseteq D
    BY <1>1, <1>2, UpTo
  <2> QED BY <2>1
<1> DEFINE f == CHOOSE g : Accepts(g, i, N)
<1>4. Accepts(f, i, N)
  BY <1>3 DEF D
<1>5. AcceptedIn(i) = f[N]
  BY Zenon DEF AcceptedIn, Accepts, AcceptedUpTo, AcceptedAt
<1> QED BY <1>4, <1>5

\* acc is what was accepted for the hunks of file i among the first n, which
\* are those at which.
Selects(acc, i, n, which) ==
  /\ \E S : acc \in Seq(S)
  /\ which \in [1..Len(acc) -> 1..n]
  /\ \A m \in 1..Len(acc) : hunks[which[m]].file = i /\ acc[m] = AcceptedAt(which[m])
  /\ \A l, m \in 1..Len(acc) : l < m => which[l] < which[m]
  /\ \A m \in 1..n : hunks[m].file = i => \E l \in 1..Len(acc) : which[l] = m

\* A hunk of another file changes nothing.
LEMMA SelectsSkip ==
  ASSUME NEW acc, NEW i, NEW n \in Nat, NEW which, Selects(acc, i, n, which),
         hunks[n + 1].file # i
  PROVE  Selects(acc, i, n + 1, which)
<1>1. \A m \in 1..(n + 1) : m = n + 1 \/ m \in 1..n
  OBVIOUS
<1>2. \A m \in 1..n : m \in 1..(n + 1)
  OBVIOUS
<1>3. which \in [1..Len(acc) -> 1..(n + 1)]
  BY <1>2 DEF Selects
<1> QED BY <1>1, <1>3 DEF Selects

\* One of this file is added at the end.
LEMMA SelectsNext ==
  ASSUME NEW acc, NEW i, NEW n \in Nat, NEW which, Selects(acc, i, n, which),
         hunks[n + 1].file = i
  PROVE  \E new : Selects(Append(acc, AcceptedAt(n + 1)), i, n + 1, new)
<1> DEFINE x == AcceptedAt(n + 1)
           d == Append(acc, x)
           z == Len(acc) + 1
           new == [m \in 1..z |-> IF m = z THEN n + 1 ELSE which[m]]
<1>1. PICK S : acc \in Seq(S)
  BY DEF Selects
<1>2. /\ Len(acc) \in Nat /\ d \in Seq(S \union {x}) /\ Len(d) = z /\ d[z] = x
      /\ \A m \in 1..Len(acc) : d[m] = acc[m]
  <2>1. acc \in Seq(S \union {x}) /\ x \in S \union {x}
    BY <1>1, SeqMonotonic
  <2> HIDE DEF x
  <2> QED BY <2>1
<1>3. /\ \A m \in 1..Len(acc) : /\ which[m] \in 1..n
                                /\ hunks[which[m]].file = i /\ acc[m] = AcceptedAt(which[m])
      /\ \A l, m \in 1..Len(acc) : l < m => which[l] < which[m]
      /\ \A m \in 1..n : hunks[m].file = i => \E l \in 1..Len(acc) : which[l] = m
  BY DEF Selects
<1>4. /\ \A m \in 1..z : m = z \/ m \in 1..Len(acc)
      /\ \A m \in 1..Len(acc) : m \in 1..z /\ m # z
      /\ z \in 1..z
  BY <1>2
<1>5. /\ new[z] = n + 1
      /\ \A m \in 1..Len(acc) : new[m] = which[m]
      /\ DOMAIN new = 1..z /\ new = [m \in 1..z |-> new[m]]
  BY <1>4
<1> HIDE DEF d, x, z, new
<1>6. \A m \in 1..z : new[m] \in 1..(n + 1)
  <2>1. \A m \in 1..n : m \in 1..(n + 1)
    OBVIOUS
  <2>2. n + 1 \in 1..(n + 1)
    OBVIOUS
  <2> QED BY <1>3, <1>4, <1>5, <2>1, <2>2
<1>7. \A m \in 1..z : hunks[new[m]].file = i /\ d[m] = AcceptedAt(new[m])
  <2> SUFFICES ASSUME NEW m \in 1..z PROVE hunks[new[m]].file = i /\ d[m] = AcceptedAt(new[m])
    OBVIOUS
  <2>1. CASE m = z
    <3>1. d[m] = AcceptedAt(n + 1) /\ new[m] = n + 1
      BY <1>2, <1>5, <2>1 DEF x
    <3> QED BY <3>1
  <2>2. CASE m \in 1..Len(acc)
    <3>1. d[m] = acc[m] /\ new[m] = which[m]
      BY <1>2, <1>5, <2>2
    <3> QED BY <1>3, <2>2, <3>1
  <2> QED BY <1>4, <2>1, <2>2
<1>8. \A l, m \in 1..z : l < m => new[l] < new[m]
  <2> SUFFICES ASSUME NEW l \in 1..z, NEW m \in 1..z, l < m PROVE new[l] < new[m]
    OBVIOUS
  <2>1. l \in 1..Len(acc) /\ new[l] \in 1..n /\ new[l] = which[l]
    <3>1. l # z
      BY <1>2 DEF z
    <3> QED BY <1>3, <1>4, <1>5, <3>1
  <2>2. CASE m = z
    BY <1>5, <2>1, <2>2
  <2>3. CASE m \in 1..Len(acc)
    BY <1>3, <1>5, <2>1, <2>3
  <2> QED BY <1>4, <2>2, <2>3
<1>9. \A m \in 1..(n + 1) : hunks[m].file = i => \E l \in 1..z : new[l] = m
  <2> SUFFICES ASSUME NEW m \in 1..(n + 1), hunks[m].file = i PROVE \E l \in 1..z : new[l] = m
    OBVIOUS
  <2>1. CASE m = n + 1
    BY <1>4, <1>5, <2>1
  <2>2. CASE m # n + 1
    <3>1. m \in 1..n
      BY <2>2
    <3>2. PICK l \in 1..Len(acc) : which[l] = m
      BY <1>3, <3>1
    <3> QED BY <1>4, <1>5, <3>2
  <2> QED BY <2>1, <2>2
<1>10. new \in [1..z -> 1..(n + 1)]
  BY <1>5, <1>6
<1>11. Selects(d, i, n + 1, new)
  BY <1>2, <1>6, <1>7, <1>8, <1>9, <1>10 DEF Selects
<1> QED BY <1>11 DEF d, x

\* AcceptedIn has what was accepted for the hunks of the file.
LEMMA AcceptedSelects ==
  ASSUME NEW i, Len(codes) \in Nat
  PROVE  \E which : Selects(AcceptedIn(i), i, Len(codes), which)
<1> DEFINE N == Len(codes)
<1>1. PICK g : Accepts(g, i, N) /\ AcceptedIn(i) = g[N]
  BY AcceptedTable
<1>2. \A m \in 0..N : g[m] = AcceptedUpTo(g, i, m)
  BY <1>1 DEF Accepts
<1> DEFINE A(m) == \E which : Selects(g[m], i, m, which)
           D == {m \in 0..N : A(m)}
<1>3. A(0)
  <2>1. g[0] = <<>>
    <3>1. 0 \in 0..N
      OBVIOUS
    <3> QED BY <1>2, <3>1 DEF AcceptedUpTo
  <2> DEFINE which == [m \in 1..0 |-> 0]
  <2>2. Selects(<<>>, i, 0, which)
    <3>1. Len(<<>>) = 0 /\ \A m \in 1..0 : FALSE
      OBVIOUS
    <3>2. <<>> \in Seq({})
      OBVIOUS
    <3>3. which \in [1..0 -> 1..0]
      BY <3>1
    <3> HIDE DEF which
    <3> QED BY <3>1, <3>2, <3>3 DEF Selects
  <2> HIDE DEF which
  <2> QED BY <2>1, <2>2
<1>4. ASSUME NEW n \in 0..N, n \in D, n < N PROVE n + 1 \in D
  <2> DEFINE hi == n + 1
  <2>1. n \in Nat /\ hi \in 0..N /\ hi # 0 /\ hi - 1 = n
    BY <1>4
  <2>2. PICK which : Selects(g[n], i, n, which)
    BY <1>4
  <2>3. g[hi] = IF hunks[hi].file # i THEN g[n] ELSE Append(g[n], AcceptedAt(hi))
    <3> HIDE DEF hi
    <3> QED BY <1>2, <2>1 DEF AcceptedUpTo
  <2>4. CASE hunks[n + 1].file # i
    BY <2>1, <2>2, <2>3, <2>4, SelectsSkip
  <2>5. CASE hunks[n + 1].file = i
    BY <2>1, <2>2, <2>3, <2>5, SelectsNext
  <2> QED BY <2>4, <2>5
<1> HIDE DEF A
<1>5. 0 \in D
  BY <1>3
<1> HIDE DEF D
<1>6. N \in D
  <2>1. 0..N \subseteq D
    BY <1>4, <1>5, UpTo
  <2> QED BY <2>1
<1> QED BY <1>1, <1>6 DEF D, A

-----------------------------------------------------------------------------
(* The hunks of all files.                                                 *)

\* A list of files in conflict.
Conflict(u) == Len(u) \in Nat /\ DOMAIN u = 1..Len(u) /\ \A i \in 1..Len(u) : InConflict(u[i])

\* hs are the hunks of the first p files of u, in their order, each in the
\* section of its file that where tells.
Places(hs, u, p, where) ==
  /\ Len(hs) \in Nat
  /\ \A m \in 1..Len(hs) :
       LET i == hs[m].file
           k == where[m]
       IN /\ i \in 1..p /\ k \in 1..Len(u[i]) /\ u[i][k].hunk
          /\ hs[m].hunk.from = Off(u[i], k) + 1 /\ hs[m].hunk.to = Off(u[i], k + 1)
  /\ \A l, m \in 1..Len(hs) : l < m =>
       hs[l].file < hs[m].file \/ (hs[l].file = hs[m].file /\ where[l] < where[m])
  /\ \A i \in 1..p : \A k \in 1..Len(u[i]) :
       u[i][k].hunk => \E m \in 1..Len(hs) : hs[m].file = i /\ where[m] = k

\* HunksBefore counts the hunks that are listed before one.
LEMMA BeforeIs ==
  ASSUME Conflict(text), NEW where, Places(hunks, text, Len(text), where), NEW m \in 1..Len(hunks)
  PROVE  HunksBefore(hunks[m].file, where[m]) = m - 1
<1> DEFINE i == hunks[m].file
           k == where[m]
           S == UNION {{<<f, j>> : j \in {j \in DOMAIN text[f] :
                                       text[f][j].hunk /\ (f < i \/ j < k)}} : f \in 1..i}
           place == [l \in 1..(m - 1) |-> <<hunks[l].file, where[l]>>]
<1>1. /\ Len(hunks) \in Nat
      /\ \A l \in 1..Len(hunks) :
           /\ hunks[l].file \in 1..Len(text) /\ where[l] \in 1..Len(text[hunks[l].file])
           /\ text[hunks[l].file][where[l]].hunk
      /\ \A l, h \in 1..Len(hunks) : l < h =>
           hunks[l].file < hunks[h].file \/ (hunks[l].file = hunks[h].file /\ where[l] < where[h])
      /\ \A f \in 1..Len(text) : \A j \in 1..Len(text[f]) :
           text[f][j].hunk => \E h \in 1..Len(hunks) : hunks[h].file = f /\ where[h] = j
  BY DEF Places
<1>2. /\ Len(text) \in Nat /\ i \in 1..Len(text)
      /\ \A f \in 1..Len(text) : Len(text[f]) \in Nat /\ DOMAIN text[f] = 1..Len(text[f])
  BY <1>1 DEF Conflict, InConflict
<1>3. k \in 1..Len(text[i])
  BY <1>1
<1>4. \A l \in 1..(m - 1) : l \in 1..Len(hunks) /\ l < m
  BY <1>1
<1>5. \A l \in 1..Len(hunks) : l < m => l \in 1..(m - 1)
  BY <1>1
<1> HIDE DEF i, k
<1>6. ASSUME NEW l \in 1..(m - 1) PROVE <<hunks[l].file, where[l]>> \in S
  <2> DEFINE f == hunks[l].file
             j == where[l]
  <2>1. f < i \/ (f = i /\ j < k)
    BY <1>1, <1>4 DEF i, k
  <2>2. f \in 1..Len(text) /\ j \in 1..Len(text[f]) /\ text[f][j].hunk
    BY <1>1, <1>4
  <2> HIDE DEF f, j
  <2>3. f \in 1..i /\ j \in DOMAIN text[f]
    BY <1>2, <2>1, <2>2
  <2>4. <<f, j>> \in S
    BY <2>1, <2>2, <2>3
  <2> QED BY <2>4 DEF f, j
<1>7. ASSUME NEW x \in S PROVE \E l \in 1..(m - 1) : <<hunks[l].file, where[l]>> = x
  <2>1. PICK f \in 1..i : \E j \in DOMAIN text[f] :
          x = <<f, j>> /\ text[f][j].hunk /\ (f < i \/ j < k)
    OBVIOUS
  <2>2. PICK j \in DOMAIN text[f] : x = <<f, j>> /\ text[f][j].hunk /\ (f < i \/ j < k)
    BY <2>1
  <2>3. f \in 1..Len(text) /\ f <= i
    BY <1>2
  <2>4. j \in 1..Len(text[f])
    BY <1>2, <2>3
  <2>5. PICK l \in 1..Len(hunks) : hunks[l].file = f /\ where[l] = j
    <3>1. \A k1 \in 1..Len(text[f]) :
            text[f][k1].hunk => \E h \in 1..Len(hunks) : hunks[h].file = f /\ where[h] = k1
      BY <1>1, <2>3
    <3> QED BY <2>2, <2>4, <3>1
  <2>6. ~(m < l)
    <3> SUFFICES ASSUME m < l PROVE FALSE
      OBVIOUS
    <3>1. i < f \/ (i = f /\ k < j)
      BY <1>1, <2>5 DEF i, k
    <3>2. i \in Nat /\ f \in Nat /\ k \in Nat /\ j \in Nat
      BY <1>2, <1>3, <2>3, <2>4
    <3> QED BY <2>2, <2>3, <3>1, <3>2
  <2>7. l # m
    <3> SUFFICES ASSUME l = m PROVE FALSE
      OBVIOUS
    <3>1. i = f /\ k = j
      BY <2>5 DEF i, k
    <3>2. f \in Nat /\ j \in Nat
      BY <1>2, <1>3, <2>3, <2>4
    <3> QED BY <2>2, <3>1, <3>2
  <2>8. l \in 1..(m - 1)
    BY <1>1, <1>5, <2>6, <2>7
  <2> QED BY <2>2, <2>5, <2>8
<1>8. ASSUME NEW a \in 1..(m - 1), NEW b \in 1..(m - 1), place[a] = place[b] PROVE a = b
  <2>1. hunks[a].file = hunks[b].file /\ where[a] = where[b]
    BY <1>8
  <2>2. /\ a \in 1..Len(hunks) /\ b \in 1..Len(hunks)
        /\ hunks[a].file \in Nat /\ where[a] \in Nat
    BY <1>1, <1>2, <1>4
  <2>3. ASSUME NEW x \in 1..Len(hunks), NEW y \in 1..Len(hunks), x < y,
               hunks[x].file = hunks[y].file, where[x] = where[y], hunks[x].file \in Nat, where[x] \in Nat
        PROVE  FALSE
    <3>1. hunks[x].file < hunks[y].file \/ (hunks[x].file = hunks[y].file /\ where[x] < where[y])
      BY <1>1, <2>3
    <3> QED BY <2>3, <3>1
  <2>4. ~(a < b) /\ ~(b < a)
    BY <2>1, <2>2, <2>3
  <2> QED BY <1>1, <2>4
<1>9. /\ place \in [1..(m - 1) -> S]
      /\ \A x \in S : \E l \in 1..(m - 1) : place[l] = x
  <2>1. \A l \in 1..(m - 1) : place[l] = <<hunks[l].file, where[l]>>
    OBVIOUS
  <2>2. \A l \in 1..(m - 1) : place[l] \in S
    BY <1>6, <2>1
  <2>3. place = [l \in 1..(m - 1) |-> place[l]]
    OBVIOUS
  <2> HIDE DEF place, S
  <2>4. place \in [1..(m - 1) -> S]
    BY <2>2, <2>3
  <2>5. \A x \in S : \E l \in 1..(m - 1) : place[l] = x
    BY <1>7, <2>1
  <2> QED BY <2>4, <2>5
<1>10. HunksBefore(i, k) = Cardinality(S)
  BY Zenon DEF HunksBefore
<1> HIDE DEF place, S
<1>11. m - 1 \in Nat /\ ExistsBijection(1..(m - 1), S)
  <2>1. place \in Bijection(1..(m - 1), S)
    BY <1>8, <1>9 DEF Bijection, Injection, Surjection, IsInjective
  <2>2. m - 1 \in Nat
    BY <1>1
  <2> QED BY <2>1, <2>2 DEF ExistsBijection
<1>12. Cardinality(S) = m - 1
  BY <1>11, FS_CountingElements
<1> QED BY <1>10, <1>12 DEF i, k

\* What is accepted for a file is listed with the place of each hunk.
LEMMA AcceptedLists ==
  ASSUME Conflict(text), NEW where, Places(hunks, text, Len(text), where), Len(codes) = Len(hunks),
         NEW i \in 1..Len(text)
  PROVE  \E place :
           /\ Lists(AcceptedIn(i), text[i], Len(text[i]), 1, place)
           /\ \A m \in 1..Len(AcceptedIn(i)) :
                AcceptedIn(i)[m].code = codes[HunksBefore(i, place[m]) + 1]
<1> DEFINE acc == AcceptedIn(i)
           n == Len(text[i])
<1>1. Len(codes) \in Nat /\ Len(hunks) \in Nat
  BY DEF Places
<1>2. PICK which : Selects(acc, i, Len(codes), which)
  BY <1>1, AcceptedSelects
<1> HIDE DEF acc
<1>3. PICK S : acc \in Seq(S)
  BY <1>2 DEF Selects
<1>4. /\ Len(acc) \in Nat
      /\ \A m \in 1..Len(acc) : /\ which[m] \in 1..Len(hunks)
                                /\ hunks[which[m]].file = i
                                /\ acc[m] = AcceptedAt(which[m])
      /\ \A l, m \in 1..Len(acc) : l < m => which[l] < which[m]
      /\ \A m \in 1..Len(hunks) : hunks[m].file = i => \E l \in 1..Len(acc) : which[l] = m
  BY <1>2, <1>3 DEF Selects
<1> DEFINE place == [m \in 1..Len(acc) |-> where[which[m]]]
<1>5. /\ \A m \in 1..Len(acc) : place[m] = where[which[m]]
      /\ DOMAIN place = 1..Len(acc) /\ place = [m \in 1..Len(acc) |-> place[m]]
  OBVIOUS
<1> HIDE DEF place
<1>6. ASSUME NEW m \in 1..Len(acc)
      PROVE  /\ place[m] \in 1..n /\ text[i][place[m]].hunk
             /\ acc[m].from = Off(text[i], place[m]) + 1
             /\ acc[m].to = Off(text[i], place[m] + 1)
             /\ acc[m].code = codes[HunksBefore(i, place[m]) + 1]
  <2> DEFINE h == which[m]
  <2>1. h \in 1..Len(hunks) /\ hunks[h].file = i /\ acc[m] = AcceptedAt(h) /\ place[m] = where[h]
    BY <1>4, <1>5
  <2> HIDE DEF h
  <2>2. /\ where[h] \in 1..n /\ text[i][where[h]].hunk
        /\ hunks[h].hunk.from = Off(text[i], where[h]) + 1
        /\ hunks[h].hunk.to = Off(text[i], where[h] + 1)
    BY <2>1 DEF Places
  <2>3. HunksBefore(i, where[h]) = h - 1
    BY <2>1, BeforeIs
  <2>4. HunksBefore(i, where[h]) + 1 = h
    BY <1>1, <2>1, <2>3
  <2>5. acc[m].code = codes[h] /\ acc[m].from = hunks[h].hunk.from /\ acc[m].to = hunks[h].hunk.to
    BY <2>1 DEF AcceptedAt
  <2> QED BY <2>1, <2>2, <2>4, <2>5
<1>7. ASSUME NEW l \in 1..Len(acc), NEW m \in 1..Len(acc), l < m PROVE place[l] < place[m]
  <2>1. /\ which[l] < which[m] /\ which[l] \in 1..Len(hunks) /\ which[m] \in 1..Len(hunks)
        /\ hunks[which[l]].file = i /\ hunks[which[m]].file = i
    BY <1>4, <1>7
  <2>2. i < i \/ where[which[l]] < where[which[m]]
    <3>1. \A a, b \in 1..Len(hunks) : a < b =>
            hunks[a].file < hunks[b].file \/ (hunks[a].file = hunks[b].file /\ where[a] < where[b])
      BY DEF Places
    <3> QED BY <2>1, <3>1
  <2>3. ~(i < i)
    BY DEF Conflict
  <2> QED BY <1>5, <2>2, <2>3
<1>8. ASSUME NEW j \in 1..n, text[i][j].hunk PROVE \E m \in 1..Len(acc) : place[m] = j
  <2>1. PICK h \in 1..Len(hunks) : hunks[h].file = i /\ where[h] = j
    <3>1. \A f \in 1..Len(text) : \A k \in 1..Len(text[f]) :
            text[f][k].hunk => \E m \in 1..Len(hunks) : hunks[m].file = f /\ where[m] = k
      BY DEF Places
    <3> QED BY <1>8, <3>1
  <2>2. PICK l \in 1..Len(acc) : which[l] = h
    BY <1>4, <2>1
  <2> QED BY <1>5, <2>1, <2>2
<1>9. place \in [1..Len(acc) -> 1..n]
  BY <1>5, <1>6
<1>10. Lists(acc, text[i], n, 1, place)
  BY <1>3, <1>6, <1>7, <1>8, <1>9 DEF Lists
<1> QED BY <1>6, <1>10 DEF acc

\* A file may be said to have more lines than it has.
LEMMA FormWiden ==
  ASSUME NEW file, NEW n, NEW eol, NEW T, Form(file, n, eol, T),
         NEW U, T \subseteq U, \A x \in U : x.eol \in {eol, "none"}
  PROVE  Form(file, n, eol, U)
<1>1. ASSUME NEW s \in Seq(T) PROVE s \in Seq(U)
  BY SeqMonotonic
<1>2. \A k \in 1..n : RenderSection(file[k]) \in Seq(U)
  BY <1>1 DEF Form
<1>3. ASSUME NEW k \in 1..n, file[k].hunk, NEW m \in 1..3 PROVE file[k].sides[m] \in Seq(U)
  <2>1. file[k].sides[m] \in Seq(T)
    BY <1>3 DEF Form
  <2> QED BY <1>1, <2>1
<1> QED BY <1>2, <1>3 DEF Form

\* A file whose hunks are replaced is what is to be staged of it.
LEMMA FileResolved ==
  ASSUME Conflict(text), NEW where, Places(hunks, text, Len(text), where), Len(codes) = Len(hunks),
         \A m \in 1..Len(codes) : IsCode(codes[m]),
         NEW i \in 1..Len(text),
         ResolvedLines(Render(text[i]), AcceptedIn(i)) # None
  PROVE  ResolvedLines(Render(text[i]), AcceptedIn(i))
           = FlattenSeq([k \in DOMAIN text[i] |->
               ResolvedSection(text[i][k],
                               IF text[i][k].hunk THEN codes[HunksBefore(i, k) + 1] ELSE <<>>,
                               k = Len(text[i]))])
<1> DEFINE file == text[i]
           code == [k \in DOMAIN file |-> IF file[k].hunk THEN codes[HunksBefore(i, k) + 1] ELSE <<>>]
<1>1. PICK n, eol, T : Form(file, n, eol, T)
  BY FormOf DEF Conflict
<1>2. n \in Nat /\ n = Len(file) /\ DOMAIN file = 1..n /\ \A x \in T : x.eol \in {eol, "none"}
  BY <1>1 DEF Form
<1>3. \A k \in 1..n : file[k].hunk => IsCode(code[k])
  <2> SUFFICES ASSUME NEW k \in 1..n, file[k].hunk PROVE IsCode(code[k])
    OBVIOUS
  <2>1. PICK m \in 1..Len(hunks) : hunks[m].file = i /\ where[m] = k
    BY <1>2 DEF Places
  <2>2. HunksBefore(i, k) = m - 1
    BY <2>1, BeforeIs
  <2>3. HunksBefore(i, k) + 1 = m
    BY <2>2 DEF Places
  <2>4. code[k] = codes[m]
    BY <1>2, <2>3
  <2> QED BY <2>4
<1> DEFINE W == UNION {{code[k][j].w : j \in 1..Len(code[k])} : k \in {k \in 1..n : file[k].hunk}}
           U == T \union {Line(w, e) : w \in W, e \in {eol, "none"}}
<1> HIDE DEF code
<1>4. \A x \in U : x.eol \in {eol, "none"}
  <2>1. \A w \in W, e \in {eol, "none"} : Line(w, e).eol = e
    BY DEF Line
  <2> HIDE DEF W
  <2> QED BY <1>2, <2>1
<1>5. CodesIn(file, n, code, eol, U)
  <2> SUFFICES ASSUME NEW k \in 1..n, file[k].hunk, NEW j \in 1..Len(code[k])
               PROVE  Line(code[k][j].w, eol) \in U /\ Line(code[k][j].w, "none") \in U
    BY <1>3 DEF CodesIn
  <2>1. code[k][j].w \in W
    OBVIOUS
  <2> HIDE DEF W
  <2> QED BY <2>1
<1>6. Form(file, n, eol, U)
  <2>1. T \subseteq U
    OBVIOUS
  <2> HIDE DEF U
  <2> QED BY <1>1, <1>4, <2>1, FormWiden
<1> HIDE DEF U
<1>7. PICK place : /\ Lists(AcceptedIn(i), file, n, 1, place)
                   /\ \A m \in 1..Len(AcceptedIn(i)) :
                        AcceptedIn(i)[m].code = codes[HunksBefore(i, place[m]) + 1]
  BY <1>2, AcceptedLists
<1>8. \A m \in 1..Len(AcceptedIn(i)) : AcceptedIn(i)[m].code = code[place[m]]
  <2>1. \A m \in 1..Len(AcceptedIn(i)) : place[m] \in 1..n /\ file[place[m]].hunk
    BY <1>7 DEF Lists
  <2>2. \A k \in 1..n : file[k].hunk => code[k] = codes[HunksBefore(i, k) + 1]
    BY <1>2 DEF code
  <2> QED BY <1>7, <2>1, <2>2
<1>9. ResolvedLines(Render(file), AcceptedIn(i)) = FlattenSeq(Settled(file, n, code, 1))
  <2> HIDE DEF file
  <2>1. ResolvedLines(Render(file), AcceptedIn(i)) # None
    BY DEF file
  <2> QED BY <1>5, <1>6, <1>7, <1>8, <2>1, ResolvedIs
<1> DEFINE R(k) == ResolvedSection(file[k],
                     IF file[k].hunk THEN codes[HunksBefore(i, k) + 1] ELSE <<>>, k = n)
<1>10. Settled(file, n, code, 1) = [k \in 1..n |-> R(k)]
  <2>1. \A k \in 1..n : ~(k < 1)
    OBVIOUS
  <2>2. \A k \in 1..n : code[k] = IF file[k].hunk THEN codes[HunksBefore(i, k) + 1] ELSE <<>>
    BY <1>2 DEF code
  <2>3. \A k \in 1..n : (IF k < 1 THEN RenderSection(file[k])
                         ELSE ResolvedSection(file[k], code[k], k = n)) = R(k)
    BY <2>1, <2>2
  <2> HIDE DEF R
  <2> QED BY <2>3, Zenon DEF Settled
<1> QED BY <1>2, <1>9, <1>10

\* The hunks of one more file come after those of the files before.
LEMMA PlacesNext ==
  ASSUME NEW R, NEW a \in Seq(R), NEW b \in Seq(R), NEW u, NEW p \in Nat, NEW where,
         Places(a, u, p, where),
         NEW c, NEW place, Lists(c, u[p + 1], Len(u[p + 1]), 1, place), Len(b) = Len(c),
         \A m \in 1..Len(c) : b[m].file = p + 1 /\ b[m].hunk = c[m],
         Len(u[p + 1]) \in Nat
  PROVE  \E new : Places(a \o b, u, p + 1, new)
<1> DEFINE x == Len(a)
           y == Len(b)
           d == a \o b
           new == [m \in 1..(x + y) |-> IF m <= x THEN where[m] ELSE place[m - x]]
<1>1. /\ x \in Nat /\ y \in Nat /\ Len(d) = x + y
      /\ \A m \in 1..x : d[m] = a[m]
      /\ \A m \in 1..y : d[x + m] = b[m]
  <2>0. /\ Len(a \o b) = Len(a) + Len(b)
        /\ \A m \in 1..(Len(a) + Len(b)) :
             (a \o b)[m] = IF m <= Len(a) THEN a[m] ELSE b[m - Len(a)]
    <3>1. a \in Seq(R) /\ b \in Seq(R)
      OBVIOUS
    <3> QED BY ONLY <3>1, ConcatProperties
  <2>1. /\ Len(a) \in Nat /\ Len(b) \in Nat /\ Len(a \o b) = Len(a) + Len(b)
        /\ \A m \in 1..Len(a) : (a \o b)[m] = a[m]
    <3>1. Len(a) \in Nat /\ Len(b) \in Nat
      OBVIOUS
    <3>2. \A m \in 1..Len(a) : m \in 1..(Len(a) + Len(b)) /\ m <= Len(a)
      BY <3>1
    <3> QED BY <2>0, <3>1, <3>2
  <2>2. \A m \in 1..Len(b) : (a \o b)[Len(a) + m] = b[m]
    <3>2. \A m \in 1..Len(b) : /\ Len(a) + m \in 1..(Len(a) + Len(b))
                              /\ ~(Len(a) + m <= Len(a)) /\ (Len(a) + m) - Len(a) = m
      BY <2>1
    <3> QED BY <2>0, <3>2
  <2> QED BY <2>1, <2>2
<1>2. /\ \A m \in 1..x : new[m] = where[m] /\ m \in 1..(x + y)
      /\ \A m \in 1..y : new[x + m] = place[m] /\ x + m \in 1..(x + y)
      /\ \A m \in 1..(x + y) : m \in 1..x \/ \E l \in 1..y : m = x + l
  <2>1. \A m \in 1..x : m \in 1..(x + y) /\ m <= x
    BY <1>1
  <2>2. \A m \in 1..y : x + m \in 1..(x + y) /\ ~(x + m <= x) /\ (x + m) - x = m
    BY <1>1
  <2>3. \A m \in 1..x : new[m] = where[m]
    BY <2>1
  <2>4. \A m \in 1..y : new[x + m] = place[m]
    BY <2>2
  <2>5. ASSUME NEW m \in 1..(x + y), m \notin 1..x PROVE \E l \in 1..y : m = x + l
    <3>1. m - x \in 1..y /\ m = x + (m - x)
      BY <1>1, <2>5
    <3> QED BY <3>1
  <2> HIDE DEF new
  <2> QED BY <2>1, <2>2, <2>3, <2>4, <2>5
<1> HIDE DEF d, new, x, y
<1>3. /\ \A m \in 1..x :
           /\ a[m].file \in 1..p /\ where[m] \in 1..Len(u[a[m].file]) /\ u[a[m].file][where[m]].hunk
           /\ a[m].hunk.from = Off(u[a[m].file], where[m]) + 1
           /\ a[m].hunk.to = Off(u[a[m].file], where[m] + 1)
      /\ \A l, m \in 1..x : l < m =>
           a[l].file < a[m].file \/ (a[l].file = a[m].file /\ where[l] < where[m])
      /\ \A i \in 1..p : \A k \in 1..Len(u[i]) :
           u[i][k].hunk => \E m \in 1..x : a[m].file = i /\ where[m] = k
  BY DEF Places, x
<1>4. /\ \A m \in 1..y :
           /\ b[m].file = p + 1 /\ place[m] \in 1..Len(u[p + 1]) /\ u[p + 1][place[m]].hunk
           /\ b[m].hunk.from = Off(u[p + 1], place[m]) + 1
           /\ b[m].hunk.to = Off(u[p + 1], place[m] + 1)
      /\ \A l, m \in 1..y : l < m => place[l] < place[m]
      /\ \A k \in 1..Len(u[p + 1]) :
           u[p + 1][k].hunk => \E m \in 1..y : place[m] = k
  BY DEF Lists, y
<1>5. ASSUME NEW m \in 1..(x + y)
      PROVE  LET i == d[m].file
                 k == new[m]
             IN /\ i \in 1..(p + 1) /\ k \in 1..Len(u[i]) /\ u[i][k].hunk
                /\ d[m].hunk.from = Off(u[i], k) + 1 /\ d[m].hunk.to = Off(u[i], k + 1)
  <2>1. CASE m \in 1..x
    <3>1. d[m] = a[m] /\ new[m] = where[m]
      BY <1>1, <1>2, <2>1
    <3>2. a[m].file \in 1..(p + 1)
      BY <1>3, <2>1
    <3> QED BY <1>3, <2>1, <3>1, <3>2
  <2>2. CASE m \notin 1..x
    <3>1. PICK l \in 1..y : m = x + l
      BY <1>2, <2>2
    <3>2. d[m] = b[l] /\ new[m] = place[l] /\ b[l].file = p + 1 /\ p + 1 \in 1..(p + 1)
      BY <1>1, <1>2, <1>4, <3>1
    <3> QED BY <1>4, <3>2
  <2> QED BY <2>1, <2>2
<1>6. ASSUME NEW l \in 1..(x + y), NEW m \in 1..(x + y), l < m
      PROVE  d[l].file < d[m].file \/ (d[l].file = d[m].file /\ new[l] < new[m])
  <2>1. CASE m \in 1..x
    <3>1. l \in 1..x
      BY <1>1, <1>6, <2>1
    <3>2. d[m] = a[m] /\ new[m] = where[m] /\ d[l] = a[l] /\ new[l] = where[l]
      BY <1>1, <1>2, <2>1, <3>1
    <3> QED BY <1>3, <1>6, <2>1, <3>1, <3>2
  <2>2. CASE m \notin 1..x /\ l \in 1..x
    <3>1. PICK h \in 1..y : m = x + h
      BY <1>2, <2>2
    <3>2. d[m].file = p + 1 /\ d[l].file \in 1..p
      <4>1. d[m] = b[h] /\ d[l] = a[l]
        BY <1>1, <2>2, <3>1
      <4> QED BY <1>3, <1>4, <2>2, <4>1
    <3> QED BY <3>2
  <2>3. CASE m \notin 1..x /\ l \notin 1..x
    <3>1. PICK h \in 1..y : m = x + h
      BY <1>2, <2>3
    <3>2. PICK g \in 1..y : l = x + g
      BY <1>2, <2>3
    <3>3. g < h
      BY <1>1, <1>6, <3>1, <3>2
    <3>4. d[m].file = p + 1 /\ d[l].file = p + 1 /\ new[m] = place[h] /\ new[l] = place[g]
      <4>1. d[m] = b[h] /\ d[l] = b[g] /\ new[m] = place[h] /\ new[l] = place[g]
        BY <1>1, <1>2, <3>1, <3>2
      <4> QED BY <1>4, <4>1
    <3> QED BY <1>4, <3>3, <3>4
  <2> QED BY <2>1, <2>2, <2>3
<1>7. ASSUME NEW i \in 1..(p + 1), NEW k \in 1..Len(u[i]), u[i][k].hunk
      PROVE  \E m \in 1..(x + y) : d[m].file = i /\ new[m] = k
  <2>1. CASE i = p + 1
    <3>1. PICK m \in 1..y : place[m] = k
      BY <1>4, <1>7, <2>1
    <3>2. x + m \in 1..(x + y) /\ d[x + m].file = i /\ new[x + m] = k
      BY <1>1, <1>2, <1>4, <2>1, <3>1
    <3> QED BY <3>2
  <2>2. CASE i # p + 1
    <3>1. i \in 1..p
      BY <2>2
    <3>2. PICK m \in 1..x : a[m].file = i /\ where[m] = k
      BY <1>3, <1>7, <3>1
    <3>3. m \in 1..(x + y) /\ d[m].file = i /\ new[m] = k
      BY <1>1, <1>2, <3>2
    <3> QED BY <3>3
  <2> QED BY <2>1, <2>2
<1>8. Len(d) \in Nat
  BY <1>1
<1>9. Places(d, u, p + 1, new)
  BY <1>1, <1>5, <1>6, <1>7, <1>8 DEF Places
<1> QED BY <1>9 DEF d

\* What is parsed from the files that git has left are their hunks.
LEMMA ParsedPlaces ==
  ASSUME Conflict(text), files = [i \in DOMAIN text |-> Render(text[i])], unmerged = DOMAIN text
  PROVE  /\ \E R : Parsed \in Seq(R)
         /\ \E where : Places(Parsed, text, Len(text), where)
<1> DEFINE n == Len(text)
           found == [i \in 1..n |-> Conflicts(Render(text[i]))]
           s == [i \in 1..n |-> [k \in DOMAIN found[i] |-> [file |-> i, hunk |-> found[i][k]]]]
           R == UNION {{[file |-> i, hunk |-> found[i][k]] : k \in DOMAIN found[i]} : i \in 1..n}
<1>1. n \in Nat /\ DOMAIN text = 1..n /\ DOMAIN files = 1..n
      /\ \A i \in 1..n : files[i] = Render(text[i]) /\ Len(text[i]) \in Nat
  <2>1. \A i \in 1..n : Len(text[i]) \in Nat
    BY DEF Conflict, InConflict
  <2> QED BY <2>1 DEF Conflict
<1>2. Parsed = FlattenSeq(s)
  <2> DEFINE F(i) == LET fd == IF i \in unmerged THEN Conflicts(files[i]) ELSE <<>>
                     IN [k \in DOMAIN fd |-> [file |-> i, hunk |-> fd[k]]]
             G(i) == [k \in DOMAIN found[i] |-> [file |-> i, hunk |-> found[i][k]]]
  <2>1. \A i \in 1..n : F(i) = G(i)
    <3> SUFFICES ASSUME NEW i \in 1..n PROVE F(i) = G(i)
      OBVIOUS
    <3>1. i \in unmerged /\ Conflicts(files[i]) = found[i]
      BY <1>1
    <3> HIDE DEF found
    <3> QED BY <3>1
  <2>2. Parsed = FlattenSeq([i \in 1..n |-> F(i)])
    BY <1>1, Zenon DEF Parsed
  <2>3. s = [i \in 1..n |-> G(i)]
    OBVIOUS
  <2> HIDE DEF F, G, s
  <2>4. [i \in 1..n |-> F(i)] = [i \in 1..n |-> G(i)]
    BY <2>1
  <2> QED BY <2>2, <2>3, <2>4
<1>3. ASSUME NEW i \in 1..n
      PROVE  \E place : Lists(found[i], text[i], Len(text[i]), 1, place)
  <2>1. PICK k, eol, T : Form(text[i], k, eol, T)
    BY FormOf DEF Conflict
  <2>2. k = Len(text[i])
    BY <2>1 DEF Form
  <2> QED BY <2>1, <2>2, ConflictsFound
<1>4. ASSUME NEW i \in 1..n
      PROVE  /\ s[i] \in Seq(R) /\ Len(s[i]) = Len(found[i])
             /\ \A m \in 1..Len(found[i]) : s[i][m].file = i /\ s[i][m].hunk = found[i][m]
  <2> DEFINE c == found[i]
             e(k) == [file |-> i, hunk |-> c[k]]
  <2>1. Len(c) \in Nat /\ DOMAIN c = 1..Len(c)
    <3>1. \E S : c \in Seq(S)
      BY <1>3 DEF Lists
    <3> HIDE DEF c
    <3> QED BY <3>1
  <2>2. s[i] = [k \in 1..Len(c) |-> e(k)]
    BY <2>1
  <2>3. \A k \in 1..Len(c) : e(k) \in R
    <3> SUFFICES ASSUME NEW k \in 1..Len(c) PROVE e(k) \in R
      OBVIOUS
    <3> DEFINE RI == {[file |-> i, hunk |-> found[i][j]] : j \in DOMAIN found[i]}
    <3>1. k \in DOMAIN found[i]
      BY <2>1
    <3> HIDE DEF found
    <3>2. e(k) \in RI
      BY <3>1
    <3>3. R = UNION {{[file |-> h, hunk |-> found[h][j]] : j \in DOMAIN found[h]} : h \in 1..n}
      OBVIOUS
    <3> QED BY <3>2, <3>3
  <2> HIDE DEF R, s, c
  <2>4. s[i] \in Seq(R) /\ Len(s[i]) = Len(c)
    BY <2>1, <2>2, <2>3
  <2>5. \A k \in 1..Len(c) : s[i][k].file = i /\ s[i][k].hunk = c[k]
    BY <2>2
  <2> QED BY <2>4, <2>5 DEF c
<1>5. DOMAIN s = 1..n /\ s = [i \in 1..n |-> s[i]]
  OBVIOUS
<1> HIDE DEF s, R, found, n
<1>6. s \in Seq(Seq(R)) /\ Len(s) = n
  BY <1>1, <1>4, <1>5
<1> DEFINE F(p) == FlattenSeq(SubSeq(s, 1, p))
           L(p) == \E where : Places(F(p), text, p, where)
           D == {p \in 0..n : L(p)}
<1>7. 0 \in D
  <2>1. SubSeq(s, 1, 0) = <<>>
    BY <1>6
  <2>2. F(0) = <<>>
    BY <2>1 DEF FlattenSeq
  <2>3. Places(<<>>, text, 0, <<>>)
    <3>1. Len(<<>>) = 0 /\ \A m \in 1..0 : FALSE
      OBVIOUS
    <3> QED BY <3>1 DEF Places
  <2> QED BY <1>1, <2>2, <2>3
<1>8. ASSUME NEW p \in 0..n, p \in D, p < n PROVE p + 1 \in D
  <2> DEFINE q == p + 1
  <2>1. q \in 1..n /\ q \in 0..n /\ q \in 1..Len(s) /\ q - 1 = p /\ p \in Nat
    BY <1>1, <1>6, <1>8
  <2>2. PICK where : Places(F(p), text, p, where)
    BY <1>8
  <2> HIDE DEF q
  <2>3. F(q - 1) \in Seq(R) /\ s[q] \in Seq(R) /\ F(q) = F(q - 1) \o s[q]
    BY <1>6, <2>1, FlattenSplit
  <2>4. PICK place : Lists(found[q], text[q], Len(text[q]), 1, place)
    BY <1>3, <2>1
  <2>5. /\ Len(s[q]) = Len(found[q])
        /\ \A m \in 1..Len(found[q]) : s[q][m].file = q /\ s[q][m].hunk = found[q][m]
    BY <1>4, <2>1
  <2> DEFINE a == F(p)
             b == s[q]
             c == found[q]
  <2>6. /\ a \in Seq(R) /\ b \in Seq(R) /\ F(q) = a \o b
    BY <2>1, <2>3
  <2>7. Places(a, text, p, where) /\ Len(b) = Len(c)
        /\ \A m \in 1..Len(c) : b[m].file = q /\ b[m].hunk = c[m]
    BY <2>2, <2>5
  <2> HIDE DEF a, b, F
  <2>8. Len(text[q]) \in Nat
    BY <1>1, <2>1
  <2>9. \E new : Places(a \o b, text, p + 1, new)
    <3>1. Lists(c, text[p + 1], Len(text[p + 1]), 1, place)
          /\ Len(text[p + 1]) \in Nat
          /\ \A m \in 1..Len(c) : b[m].file = p + 1 /\ b[m].hunk = c[m]
      BY <2>4, <2>7, <2>8 DEF q
    <3> HIDE DEF c
    <3> QED BY <2>1, <2>6, <2>7, <3>1, PlacesNext
  <2>10. L(q)
    BY <2>6, <2>9 DEF q
  <2> QED BY <2>1, <2>10 DEF q
<1> HIDE DEF L
<1> HIDE DEF D
<1>9. n \in D
  <2>1. 0..n \subseteq D
    BY <1>1, <1>7, <1>8, UpTo
  <2> QED BY <1>1, <2>1
<1>10. SubSeq(s, 1, n) = s
  BY <1>6
<1>11. Parsed \in Seq(R)
  BY <1>2, <1>6, FlattenType
<1> QED BY <1>2, <1>9, <1>10, <1>11 DEF D, L, n

-----------------------------------------------------------------------------
(* Someone adds a line before or after a file.                             *)

\* The line ends as the first one does.
More(file) == [hunk |-> FALSE, lines |-> <<Line("edit", Head(Render(file)).eol)>>]

\* What comes of it is a file in conflict.
LEMMA EditedRegular ==
  ASSUME NEW file, InConflict(file), NEW more, more = More(file),
         NEW new, new \in {<<more>> \o file, file \o <<more>>}
  PROVE  InConflict(new)
<1> DEFINE n == Len(file)
<1>1. PICK eol \in {"lf", "crlf"} : \A k \in DOMAIN file : Regular(file, k, eol)
  BY DEF InConflict
<1>2. PICK m, T : Form(file, m, eol, T)
  BY <1>1, StyledForm DEF InConflict
<1>3. n \in Nat \ {0} /\ DOMAIN file = 1..n /\ m = n /\ file \in Seq(ToSet(file))
      /\ \A k \in 1..n : file[k] \in ToSet(file)
  BY <1>2 DEF InConflict, Form
<1>4. Head(Render(file)).eol \in {eol, "none"}
  <2> DEFINE r == Render(file)
  <2>1. r \in Seq(T) /\ Len(r) >= Len(RenderSection(file[1]))
    <3>1. /\ 1 \in 1..m /\ Off(file, 1) = 0
          /\ Off(file, 1 + 1) = Off(file, 1) + Len(RenderSection(file[1]))
          /\ Off(file, 1 + 1) <= Len(r) /\ Off(file, 1 + 1) \in Nat /\ r \in Seq(T)
      <4>1. 1 \in 1..m
        BY <1>3
      <4>2. Form(file, m, eol, T)
        BY <1>2
      <4> QED BY <4>1, <4>2, Offsets
    <3> HIDE DEF r
    <3>2. RenderSection(file[1]) \in Seq(T)
      BY <1>2, <3>1 DEF Form
    <3> QED BY <3>1, <3>2
  <2>2. RenderSection(file[1]) \in Seq(T) /\ RenderSection(file[1]) # <<>>
    BY <1>2, <1>3 DEF Form
  <2> HIDE DEF r
  <2>3. Head(r) \in T
    BY <2>1, <2>2
  <2>4. Head(r).eol \in {eol, "none"}
    BY <1>2, <2>3 DEF Form
  <2> QED BY <2>4 DEF r
<1> DEFINE line == Line("edit", Head(Render(file)).eol)
<1>5. /\ ~more.hunk /\ more.lines = <<line>> /\ line.eol \in {eol, "none"} /\ line.mark # "<"
  BY <1>4 DEF More, Line
<1>6. ASSUME NEW f, NEW k, f[k] = more PROVE Regular(f, k, eol)
  <2> HIDE DEF line
  <2>1. /\ more.lines # <<>> /\ \A x \in ToSet(more.lines) : x = line
        /\ more.lines \in Seq(ToSet(more.lines))
    <3>1. ToSet(<<line>>) = {line}
      BY DEF ToSet
    <3>2. <<line>> # <<>> /\ <<line>> \in Seq({line})
      OBVIOUS
    <3> QED BY <1>5, <3>1, <3>2
  <2>2. Ordinary(more.lines, eol)
    BY <1>5, <2>1 DEF Ordinary
  <2> QED BY <1>5, <1>6, <2>1, <2>2 DEF Regular
<1>7. ASSUME NEW f, NEW k, NEW l \in 1..n, f[k] = file[l],
             k < Len(f) /\ file[l].hunk => ~f[k + 1].hunk
      PROVE  Regular(f, k, eol)
  <2>1. Regular(file, l, eol)
    BY <1>1, <1>3
  <2> QED BY <1>7, <2>1 DEF Regular
<1>8. \A l \in 1..n : l < n /\ file[l].hunk => ~file[l + 1].hunk
  BY <1>2, <1>3 DEF Form
<1>9. new \in Seq(ToSet(file) \union {more}) /\ Len(new) = n + 1
  <2> DEFINE U == ToSet(file) \union {more}
  <2>1. file \in Seq(U) /\ <<more>> \in Seq(U)
    BY <1>3, SeqMonotonic
  <2> HIDE DEF U
  <2>2. /\ file \o <<more>> \in Seq(U) /\ Len(file \o <<more>>) = n + 1
        /\ <<more>> \o file \in Seq(U) /\ Len(<<more>> \o file) = n + 1
    BY <1>3, <2>1
  <2> QED BY <2>2 DEF U
<1>10. new # <<>> /\ new \in Seq(ToSet(new)) /\ DOMAIN new = 1..(n + 1)
  <2>1. new # <<>> /\ DOMAIN new = 1..(n + 1)
    BY <1>3, <1>9
  <2>2. \A k \in 1..(n + 1) : new[k] \in ToSet(new)
    BY <2>1 DEF ToSet
  <2>3. new \in Seq(ToSet(new))
    BY <1>3, <1>9, <2>1, <2>2
  <2> QED BY <2>1, <2>3
<1>11. ASSUME NEW k \in 1..(n + 1) PROVE Regular(new, k, eol)
  <2>1. CASE new = <<more>> \o file
    <3>1. new[1] = more /\ \A l \in 1..n : new[l + 1] = file[l]
      BY <1>3, <2>1
    <3>2. CASE k = 1
      BY <1>6, <3>1, <3>2
    <3>3. CASE k # 1
      <4> DEFINE l == k - 1
      <4>1. l \in 1..n /\ k = l + 1 /\ (k < Len(new) => l < n)
        BY <1>3, <1>9, <3>3
      <4>2. k < Len(new) => new[k + 1] = file[l + 1]
        <5> SUFFICES ASSUME k < Len(new) PROVE new[k + 1] = file[l + 1]
          OBVIOUS
        <5>1. l + 1 \in 1..n
          BY <1>3, <4>1
        <5> QED BY <3>1, <4>1, <5>1
      <4> HIDE DEF l
      <4>3. new[k] = file[l]
        BY <3>1, <4>1
      <4>4. k < Len(new) /\ file[l].hunk => ~new[k + 1].hunk
        BY <1>8, <4>1, <4>2
      <4> QED BY <1>7, <4>1, <4>3, <4>4
    <3> QED BY <3>2, <3>3
  <2>2. CASE new = file \o <<more>>
    <3>1. new[n + 1] = more /\ \A l \in 1..n : new[l] = file[l]
      BY <1>3, <2>2
    <3>2. CASE k = n + 1
      BY <1>6, <3>1, <3>2
    <3>3. CASE k # n + 1
      <4>1. k \in 1..n
        BY <1>3, <3>3
      <4>2. k < Len(new) /\ file[k].hunk => ~new[k + 1].hunk
        <5>1. CASE k = n
          BY <1>5, <3>1, <5>1
        <5>2. CASE k # n
          <6>1. k < n /\ k + 1 \in 1..n
            <7>1. n \in Nat
              BY <1>3
            <7> HIDE DEF n
            <7> QED BY <4>1, <5>2, <7>1
          <6> QED BY <1>8, <3>1, <4>1, <6>1
        <5> QED BY <5>1, <5>2
      <4> QED BY <1>7, <3>1, <4>1, <4>2
    <3> QED BY <3>2, <3>3
  <2> QED BY <2>1, <2>2
<1> QED BY <1>10, <1>11 DEF InConflict

\* After a file it is the last section.
LEMMA EditAfter ==
  ASSUME NEW file, InConflict(file), NEW more, NEW new, new = file \o <<more>>, ~more.hunk
  PROVE  /\ Len(new) = Len(file) + 1 /\ Len(file) \in Nat
         /\ \A k \in 1..Len(file) : new[k] = file[k]
         /\ ~new[Len(file) + 1].hunk
<1> DEFINE n == Len(file)
           S == ToSet(file)
<1>1. file \in Seq(S) /\ n \in Nat
  BY DEF InConflict
<1>2. /\ new \in Seq(S \union {more}) /\ Len(new) = n + 1 /\ new[n + 1] = more
      /\ \A k \in 1..n : new[k] = file[k]
  <2>1. file \in Seq(S \union {more}) /\ <<more>> \in Seq(S \union {more})
    BY <1>1, SeqMonotonic
  <2> HIDE DEF S
  <2> QED BY <1>1, <2>1
<1> QED BY <1>1, <1>2

\* There it moves no hunk.
LEMMA EditMovesNothing ==
  ASSUME NEW file, InConflict(file), NEW more, NEW new, new = file \o <<more>>, ~more.hunk
  PROVE  \A k \in 1..(Len(file) + 1) : Off(new, k) = Off(file, k)
<1> DEFINE n == Len(file)
<1>1. n \in Nat /\ DOMAIN file = 1..n
  BY DEF InConflict
<1>2. Len(new) = n + 1 /\ DOMAIN new = 1..(n + 1) /\ \A k \in 1..n : new[k] = file[k]
  <2>1. file \in Seq(ToSet(file) \union {more}) /\ <<more>> \in Seq(ToSet(file) \union {more})
    <3>1. file \in Seq(ToSet(file))
      BY DEF InConflict
    <3> QED BY <3>1, SeqMonotonic
  <2> QED BY <2>1
<1>3. ASSUME NEW k \in 1..(n + 1) PROVE Off(new, k) = Off(file, k)
  <2> DEFINE a == Rendered(new)
             b == Rendered(file)
  <2>1. DOMAIN new = 1..(n + 1) /\ DOMAIN file = 1..n
    BY <1>1, <1>2
  <2>2. /\ \A j \in 1..n : a[j] = b[j]
        /\ DOMAIN a = 1..(n + 1) /\ DOMAIN b = 1..n
    BY <1>2, <2>1 DEF Rendered
  <2>3. Len(a) = n + 1 /\ Len(b) = n
    BY <1>1, <2>2
  <2> HIDE DEF a, b
  <2>4. SubSeq(a, 1, k - 1) = SubSeq(b, 1, k - 1)
    <3>1. \A j \in 1..(k - 1) : j \in 1..n
      BY <1>1
    <3>2. \A j \in 1..(k - 1) : a[j] = b[j]
      BY <2>2, <3>1
    <3>3. SubSeq(a, 1, k - 1) = [j \in 1..(k - 1) |-> a[j]]
          /\ SubSeq(b, 1, k - 1) = [j \in 1..(k - 1) |-> b[j]]
      <4> DEFINE U == {a[j] : j \in 1..(n + 1)} \union {b[j] : j \in 1..n}
      <4>1. a \in Seq(U) /\ b \in Seq(U)
        BY <1>1, <2>2 DEF Rendered, a, b
      <4> HIDE DEF U
      <4> QED BY <1>1, <2>3, <4>1
    <3> QED BY <3>2, <3>3
  <2> QED BY <2>4 DEF Off, a, b
<1> QED BY <1>1, <1>2, <1>3

\* The line before a hunk is no opening marker.
LEMMA BeforeHunk ==
  ASSUME NEW file, NEW n, NEW eol, NEW T, Form(file, n, eol, T), NEW k \in 1..n,
         file[k].hunk, Off(file, k) # 0
  PROVE  /\ Off(file, k) \in 1..Len(Render(file))
         /\ Render(file)[Off(file, k)].mark # "<"
<1>1. n \in Nat /\ Off(file, 1) = 0
  <2>1. n \in Nat
    BY DEF Form
  <2> QED BY <2>1, Offsets
<1> DEFINE j == k - 1
<1>2. k # 1 /\ j \in 1..n /\ j < n /\ k = j + 1
  BY <1>1
<1> HIDE DEF j
<1> DEFINE r == RenderSection(file[j])
           o == Off(file, j)
<1>3. /\ o \in Nat /\ Off(file, k) = o + Len(r)
      /\ Off(file, k) <= Len(Render(file)) /\ Render(file) \in Seq(T)
      /\ \A q \in 1..Len(r) : Render(file)[o + q] = r[q]
  <2>1. /\ Render(file) \in Seq(T)
        /\ Off(file, j) \in Nat
        /\ Off(file, j + 1) = Off(file, j) + Len(RenderSection(file[j]))
        /\ Off(file, j + 1) <= Len(Render(file))
        /\ \A q \in 1..Len(RenderSection(file[j])) :
             Render(file)[Off(file, j) + q] = RenderSection(file[j])[q]
    BY <1>2, Offsets
  <2> QED BY <1>2, <2>1
<1>4. ~file[j].hunk
  BY <1>2 DEF Form
<1>5. /\ r \in Seq(T) /\ r # <<>>
      /\ \A q \in 1..Len(r) : r[q].mark # "<"
  <2>1. /\ RenderSection(file[j]) \in Seq(T) /\ RenderSection(file[j]) # <<>>
        /\ RenderSection(file[j]) = file[j].lines
        /\ \A q \in 1..Len(file[j].lines) : file[j].lines[q].mark # "<"
    BY <1>2, <1>4 DEF Form
  <2> QED BY <2>1
<1> HIDE DEF r, o
<1>6. Len(r) \in Nat \ {0}
  BY <1>5
<1>7. Len(r) \in 1..Len(r)
  BY <1>6
<1>8. Render(file)[Off(file, k)] = r[Len(r)]
  BY <1>3, <1>7
<1>9. Off(file, k) \in 1..Len(Render(file))
  BY <1>3, <1>6
<1> QED BY <1>5, <1>7, <1>8, <1>9

\* A line before a file is its first line.
LEMMA EditBeforeText ==
  ASSUME NEW file, InConflict(file), NEW more, more = More(file)
  PROVE  /\ Render(<<more>> \o file) = <<Line("edit", Head(Render(file)).eol)>> \o Render(file)
         /\ \E U : Line("edit", Head(Render(file)).eol) \in U /\ Render(file) \in Seq(U)
<1> DEFINE line == Line("edit", Head(Render(file)).eol)
           s == Rendered(file)
           new == <<more>> \o file
           n == Len(file)
<1>1. RenderSection(more) = <<line>>
  BY DEF More, RenderSection
<1>2. PICK eol, T : Form(file, n, eol, T)
  <2>1. PICK m, eol, T : Form(file, m, eol, T)
    BY FormOf
  <2>2. m = n
    BY <2>1 DEF Form
  <2> QED BY <2>1, <2>2
<1>3. /\ s \in Seq(Seq(T)) /\ Len(s) = n /\ Render(file) \in Seq(T)
  BY <1>2, Offsets
<1>4. n \in Nat /\ file \in Seq(ToSet(file)) /\ DOMAIN file = 1..n
  BY DEF InConflict
<1>5. /\ DOMAIN new = 1..(n + 1) /\ new[1] = more
      /\ \A j \in 1..n : new[j + 1] = file[j]
  <2> DEFINE V == ToSet(file) \union {more}
  <2>1. file \in Seq(V) /\ <<more>> \in Seq(V)
    BY <1>4, SeqMonotonic
  <2> HIDE DEF V
  <2> QED BY <1>4, <2>1
<1> HIDE DEF line, s, new, n
<1> DEFINE U == T \union {line}
           h == << <<line>> >>
<1>6. s \in Seq(Seq(U)) /\ h \in Seq(Seq(U)) /\ <<line>> \in Seq(U) /\ Render(file) \in Seq(U)
  <2>1. Seq(T) \subseteq Seq(U)
    BY SeqMonotonic
  <2>2. <<line>> \in Seq(U)
    OBVIOUS
  <2> HIDE DEF U
  <2>3. s \in Seq(Seq(U))
    BY <1>3, <2>1, SeqMonotonic
  <2> QED BY <1>3, <2>1, <2>2, <2>3
<1> HIDE DEF U
<1>7. Rendered(new) = h \o s
  <2> DEFINE r == h \o s
  <2>1. /\ r \in Seq(Seq(U)) /\ Len(r) = n + 1 /\ r[1] = <<line>>
        /\ \A j \in 1..n : r[j + 1] = s[j]
    <3> DEFINE x == <<line>>
    <3>1. x \in Seq(U) /\ h = <<x>> /\ Len(s) = n
      BY <1>3, <1>6
    <3> HIDE DEF x, h
    <3>2. h \in Seq(Seq(U)) /\ Len(h) = 1 /\ h[1] = x
      BY <3>1
    <3>3. r \in Seq(Seq(U)) /\ Len(r) = Len(h) + Len(s)
      BY <1>6, ConcatProperties
    <3>4. r[1] = h[1] /\ \A j \in 1..Len(s) : r[Len(h) + j] = s[j]
      <4>1. \A j \in 1..(Len(h) + Len(s)) : r[j] = IF j <= Len(h) THEN h[j] ELSE s[j - Len(h)]
        BY <1>6, ConcatProperties
      <4> HIDE DEF r
      <4>2. r[1] = h[1]
        BY <1>3, <1>4, <3>2, <4>1
      <4>3. ASSUME NEW j \in 1..Len(s) PROVE r[Len(h) + j] = s[j]
        <5>1. /\ Len(h) + j \in 1..(Len(h) + Len(s)) /\ ~(Len(h) + j <= Len(h))
              /\ (Len(h) + j) - Len(h) = j
          BY <1>3, <1>4, <3>2
        <5> QED BY <4>1, <5>1
      <4> QED BY <4>2, <4>3
    <3>5. \A j \in 1..Len(s) : Len(h) + j = j + 1
      BY <3>2
    <3> QED BY <1>4, <3>1, <3>2, <3>3, <3>4, <3>5 DEF x
  <2> HIDE DEF r, h
  <2>2. \A j \in 1..n : s[j] = RenderSection(file[j])
    BY <1>4 DEF Rendered, s
  <2>3. Rendered(new) = [j \in 1..(n + 1) |-> RenderSection(new[j])]
    BY <1>5 DEF Rendered
  <2>4. \A j \in 1..(n + 1) : RenderSection(new[j]) = r[j]
    <3> SUFFICES ASSUME NEW j \in 1..(n + 1) PROVE RenderSection(new[j]) = r[j]
      OBVIOUS
    <3>1. CASE j = 1
      BY <1>1, <1>5, <2>1, <3>1
    <3>2. CASE j # 1
      <4> DEFINE l == j - 1
      <4>1. l \in 1..n /\ j = l + 1
        BY <1>4, <3>2
      <4> HIDE DEF l
      <4>2. new[j] = file[l] /\ r[j] = s[l] /\ s[l] = RenderSection(file[l])
        BY <1>5, <2>1, <2>2, <4>1
      <4> QED BY <4>2
    <3> QED BY <3>1, <3>2
  <2>5. r = [j \in 1..(n + 1) |-> r[j]]
    BY <1>4, <2>1
  <2> QED BY <2>3, <2>4, <2>5 DEF r
<1>8. Render(new) = <<line>> \o Render(file)
  <2>1. FlattenSeq(h) = <<line>>
    <3>1. <<>> \in Seq(Seq(U)) /\ h = Append(<<>>, <<line>>)
      OBVIOUS
    <3>2. FlattenSeq(h) = FlattenSeq(<<>>) \o <<line>>
      BY <1>6, <3>1, FlattenAppend
    <3>3. FlattenSeq(<<>>) = <<>>
      BY DEF FlattenSeq
    <3>4. <<>> \o <<line>> = <<line>>
      OBVIOUS
    <3> QED BY <3>2, <3>3, <3>4
  <2> HIDE DEF h
  <2>2. FlattenSeq(h \o s) = FlattenSeq(h) \o FlattenSeq(s)
    BY <1>6, FlattenConcat
  <2>3. Render(new) = FlattenSeq(h \o s)
    BY <1>7 DEF Render, Rendered
  <2>4. Render(file) = FlattenSeq(s)
    BY DEF Render, Rendered, s
  <2> QED BY <2>1, <2>2, <2>3, <2>4
<1>9. line \in U
  BY DEF U
<1> QED BY <1>6, <1>8, <1>9 DEF new, line

\* A line before a file moves all hunks.
LEMMA EditBefore ==
  ASSUME NEW file, InConflict(file), NEW more, more = More(file),
         NEW k \in 1..Len(file), file[k].hunk
  PROVE  Render(<<more>> \o file)[Off(file, k) + 1].mark # "<"
<1> DEFINE line == Line("edit", Head(Render(file)).eol)
           new == <<more>> \o file
           n == Len(file)
<1>1. line.mark # "<"
  BY DEF Line
<1>2. PICK eol, T : Form(file, n, eol, T)
  <2>1. PICK m, eol, T : Form(file, m, eol, T)
    BY FormOf
  <2>2. m = n
    BY <2>1 DEF Form
  <2> QED BY <2>1, <2>2
<1>3. PICK U : line \in U /\ Render(file) \in Seq(U)
  BY EditBeforeText
<1>4. Render(new) = <<line>> \o Render(file)
  BY EditBeforeText
<1> HIDE DEF line, new, n
<1>5. CASE Off(file, k) = 0
  <2>1. Render(new)[1] = line
    BY <1>3, <1>4
  <2>2. Off(file, k) + 1 = 1
    BY <1>5
  <2> QED BY <1>1, <2>1, <2>2 DEF new
<1>6. CASE Off(file, k) # 0
  <2>1. k \in 1..n
    BY DEF n
  <2>2. /\ Off(file, k) \in 1..Len(Render(file))
        /\ Render(file)[Off(file, k)].mark # "<"
    BY <1>2, <1>6, <2>1, BeforeHunk
  <2>3. \A q \in 1..Len(Render(file)) : Render(new)[q + 1] = Render(file)[q]
    BY <1>3, <1>4
  <2> QED BY <2>2, <2>3 DEF new
<1> QED BY <1>5, <1>6

-----------------------------------------------------------------------------
\* If the last hunk to be replaced has moved, none is.
LEMMA NotInPlace ==
  ASSUME NEW lines, NEW acc, NEW S, acc \in Seq(S), acc # <<>>,
         lines[acc[Len(acc)].from].mark # "<"
  PROVE  ResolvedLines(lines, acc) = None
<1> DEFINE N == Len(acc)
<1>1. N \in Nat \ {0}
  OBVIOUS
<1>2. PICK g : Replaces(g, lines, acc, 1) /\ ResolvedLines(lines, acc) = g[1]
  BY <1>1, ResolvedTable
<1>3. \A k \in 1..(N + 1) : g[k] = ReplacedFrom(g, lines, acc, k)
  BY <1>2 DEF Replaces
<1> DEFINE D == {x \in 0..(N - 1) : g[N - x] = None}
<1>4. g[N] = None
  <2>1. g[N + 1] = lines
    <3>1. N + 1 \in 1..(N + 1) /\ N + 1 > N
      BY <1>1
    <3>2. ReplacedFrom(g, lines, acc, N + 1) = lines
      BY <3>1 DEF ReplacedFrom
    <3> QED BY <1>3, <3>1, <3>2
  <2>2. ~InPlace(lines, acc[N])
    BY DEF InPlace
  <2>3. N \in 1..(N + 1) /\ ~(N > N)
    BY <1>1
  <2>4. ReplacedFrom(g, lines, acc, N) = None
    BY <2>1, <2>2, <2>3 DEF ReplacedFrom
  <2> QED BY <1>3, <2>3, <2>4
<1>5. \A x \in 0..(N - 1) : x \in D /\ x < N - 1 => x + 1 \in D
  <2> SUFFICES ASSUME NEW x \in 0..(N - 1), x \in D, x < N - 1 PROVE x + 1 \in D
    OBVIOUS
  <2> DEFINE k == N - (x + 1)
  <2>1. k \in 1..(N + 1) /\ k + 1 = N - x /\ ~(k > N) /\ x + 1 \in 0..(N - 1)
    BY <1>1
  <2>2. g[N - x] = None
    OBVIOUS
  <2> HIDE DEF k, N
  <2>3. g[k + 1] = None
    BY <2>1, <2>2
  <2>4. ReplacedFrom(g, lines, acc, k) = None
    BY <2>1, <2>3 DEF ReplacedFrom, N
  <2>5. g[k] = None
    BY <1>3, <2>1, <2>4
  <2> QED BY <2>1, <2>5 DEF k
<1>6. 0 \in D
  <2>1. N - 0 = N /\ 0 \in 0..(N - 1)
    BY <1>1
  <2> QED BY <1>4, <2>1
<1> HIDE DEF D
<1>7. N - 1 \in D
  <2>1. N - 1 \in Nat
    BY <1>1
  <2>2. 0..(N - 1) \subseteq D
    BY <1>5, <1>6, <2>1, UpTo
  <2> QED BY <2>1, <2>2
<1>8. N - (N - 1) = 1
  BY <1>1
<1> QED BY <1>2, <1>7, <1>8 DEF D

-----------------------------------------------------------------------------
(* The conflict in hand.                                                   *)

\* git has left no conflict, or one of Texts.
GitLeft ==
  \/ unmerged = {}
  \/ /\ text \in Texts
     /\ files = [i \in DOMAIN text |-> Render(text[i])]
     /\ unmerged = DOMAIN text

\* Each hunk of the files is listed with its place.
Placed == \E where : Places(hunks, text, Len(text), where)

\* The hunks of the first file are not where they were read.
Moved ==
  /\ \E m \in 1..Len(hunks) : hunks[m].file = 1
  /\ \A m \in 1..Len(hunks) : hunks[m].file = 1 => files[1][hunks[m].hunk.from].mark # "<"
  /\ More(text[1]) \in ToSet(text[1])

\* The files are what git has left and someone may have edited since.
Resolving ==
  /\ Conflict(text) /\ 1 \in 1..Len(text)
  /\ files = [i \in DOMAIN text |-> Render(text[i])]
  /\ Len(hunks) \in Nat
  /\ Placed \/ Moved

\* The body of ResolutionKeepsSource.
Kept ==
  \A i \in Resolvable :
    files[i] = FlattenSeq([k \in DOMAIN text[i] |->
      ResolvedSection(text[i][k],
                      IF text[i][k].hunk THEN codes[HunksBefore(i, k) + 1] ELSE <<>>,
                      k = Len(text[i]))])

\* What git leaves is a list of files in conflict.
LEMMA TextsInConflict == ASSUME NEW t \in Texts PROVE Conflict(t)
<1>1. Len(t) \in Nat /\ DOMAIN t = 1..Len(t)
  BY ApplySeriesAssumption
<1>2. \A i \in DOMAIN t : InConflict(t[i])
  BY TextsAssumption
<1> QED BY <1>1, <1>2 DEF Conflict

\* Resolutions are without markers.
LEMMA CodesAreCode == ASSUME NEW code \in Codes PROVE IsCode(code)
  BY TextsAssumption DEF IsCode

\* The conflict that has been read is the one that git has left.
LEMMA ReadPlaces ==
  ASSUME GitLeft, FilesInv, Parsed # <<>>, hunks' = Parsed, UNCHANGED <<text, files>>
  PROVE  Resolving' /\ Len(Parsed) \in Nat \ {0}
<1>1. unmerged # {}
  BY NothingParsed
<1>2. /\ text \in Texts /\ files = [i \in DOMAIN text |-> Render(text[i])]
      /\ unmerged = DOMAIN text /\ Conflict(text)
  BY <1>1, TextsInConflict DEF GitLeft
<1>3. PICK where : Places(Parsed, text, Len(text), where)
  BY <1>2, ParsedPlaces
<1>4. 1 \in 1..Len(text)
  <2>1. Len(text) \in Nat /\ DOMAIN text = 1..Len(text) /\ DOMAIN text # {}
    BY <1>1, <1>2 DEF Conflict
  <2> QED BY <2>1
<1>5. Len(Parsed) \in Nat \ {0}
  <2>1. Len(Parsed) \in Nat
    BY <1>3 DEF Places
  <2>2. \E R : Parsed \in Seq(R)
    BY <1>2, ParsedPlaces
  <2> QED BY <2>1, <2>2
<1>6. Placed'
  BY <1>3 DEF Placed
<1> QED BY <1>2, <1>4, <1>5, <1>6 DEF Resolving

\* Hunks that have moved are not replaced.
LEMMA MovedFails ==
  ASSUME Resolving, Moved, Len(codes) = Len(hunks), DOMAIN codes = 1..Len(codes)
  PROVE  1 \in Resolvable /\ ResolvedLines(files[1], AcceptedIn(1)) = None
<1> DEFINE acc == AcceptedIn(1)
<1>1. Len(codes) \in Nat /\ 1 \in DOMAIN files
  BY DEF Resolving, Conflict
<1>2. PICK m \in 1..Len(hunks) : hunks[m].file = 1
  BY DEF Moved
<1>3. 1 \in Resolvable
  BY <1>1, <1>2 DEF Resolvable
<1>4. PICK which : Selects(acc, 1, Len(codes), which)
  BY <1>1, AcceptedSelects
<1> HIDE DEF acc
<1>5. PICK S : acc \in Seq(S)
  BY <1>4 DEF Selects
<1>6. PICK l \in 1..Len(acc) : which[l] = m
  BY <1>2, <1>4 DEF Selects
<1>7. Len(acc) \in Nat \ {0} /\ acc # <<>> /\ Len(acc) \in 1..Len(acc)
  BY <1>5, <1>6
<1> DEFINE h == which[Len(acc)]
<1>8. h \in 1..Len(hunks) /\ hunks[h].file = 1 /\ acc[Len(acc)] = AcceptedAt(h)
  BY <1>4, <1>7 DEF Selects
<1>9. files[1][acc[Len(acc)].from].mark # "<"
  BY <1>8 DEF Moved, AcceptedAt
<1>10. ResolvedLines(files[1], acc) = None
  BY <1>5, <1>7, <1>9, NotInPlace
<1> QED BY <1>3, <1>10 DEF acc

\* Files that are rewritten are what is to be staged of them.
LEMMA RewriteKeeps ==
  ASSUME Resolving, codes \in Seq(Codes), Len(codes) = Len(hunks),
         \A i \in Resolvable : ResolvedLines(files[i], AcceptedIn(i)) # None,
         files' = [i \in DOMAIN files |->
                    IF i \in Resolvable THEN ResolvedLines(files[i], AcceptedIn(i)) ELSE files[i]],
         UNCHANGED <<text, hunks, codes>>
  PROVE  Kept'
<1>1. /\ DOMAIN codes = 1..Len(codes) /\ Len(codes) \in Nat
      /\ \A m \in 1..Len(codes) : codes[m] \in Codes
  OBVIOUS
<1>2. Placed
  BY <1>1, MovedFails DEF Resolving
<1>3. PICK where : Places(hunks, text, Len(text), where)
  BY <1>2 DEF Placed
<1>4. Resolvable' = Resolvable /\ Resolvable \subseteq DOMAIN files
  BY DEF Resolvable
<1>5. /\ Conflict(text) /\ DOMAIN files = 1..Len(text)
      /\ \A i \in 1..Len(text) : files[i] = Render(text[i])
  BY DEF Resolving, Conflict
<1>6. \A m \in 1..Len(codes) : IsCode(codes[m])
  BY <1>1, CodesAreCode
<1>7. ASSUME NEW i \in Resolvable
      PROVE  files'[i] = FlattenSeq([k \in DOMAIN text[i] |->
               ResolvedSection(text[i][k],
                               IF text[i][k].hunk THEN codes[HunksBefore(i, k) + 1] ELSE <<>>,
                               k = Len(text[i]))])
  <2>1. i \in 1..Len(text) /\ files[i] = Render(text[i])
    BY <1>4, <1>5
  <2>2. ResolvedLines(Render(text[i]), AcceptedIn(i)) # None
    BY <2>1
  <2>3. files'[i] = ResolvedLines(Render(text[i]), AcceptedIn(i))
    BY <1>4, <2>1
  <2> QED BY <1>3, <1>5, <1>6, <2>1, <2>2, <2>3, FileResolved
<1>8. \A i, k : HunksBefore(i, k)' = HunksBefore(i, k)
  BY DEF HunksBefore
<1>9. Kept' = \A i \in Resolvable :
        files'[i] = FlattenSeq([k \in DOMAIN text[i] |->
          ResolvedSection(text[i][k],
                          IF text[i][k].hunk THEN codes[HunksBefore(i, k) + 1] ELSE <<>>,
                          k = Len(text[i]))])
  BY <1>4, <1>8 DEF Kept
<1> QED BY <1>7, <1>9

\* The conflict in hand stays one that is resolved, or is seen to have moved.
LEMMA EditKeepsText == ASSUME Resolving, SomeoneEdits PROVE Resolving'
<1> DEFINE file == text[1]
           more == More(file)
           n == Len(text)
<1>1. /\ Conflict(text) /\ 1 \in 1..n /\ files = [i \in DOMAIN text |-> Render(text[i])]
      /\ DOMAIN text = 1..n /\ n \in Nat /\ files[1] = Render(file)
      /\ InConflict(file)
  BY DEF Resolving, Conflict
<1>2. PICK new \in {<<more>> \o file, file \o <<more>>} :
        /\ text' = [text EXCEPT ![1] = new]
        /\ files' = [files EXCEPT ![1] = Render(new)]
        /\ more \notin ToSet(file)
  BY <1>1 DEF SomeoneEdits, More
<1>3. hunks' = hunks /\ Len(hunks) \in Nat
  BY DEF SomeoneEdits, Resolving
<1> HIDE DEF n
<1>4. Placed
  BY <1>2 DEF Resolving, Moved
<1>5. PICK where : Places(hunks, text, n, where)
  BY <1>4 DEF Placed, n
<1>6. InConflict(new)
  BY <1>1, <1>2, EditedRegular
<1>7. DOMAIN text' = 1..n /\ text'[1] = new /\ \A i \in 1..n : i # 1 => text'[i] = text[i]
  BY <1>1, <1>2
<1>8. Len(text') = n
  BY <1>1, <1>7, SameDomain
<1>9. \A i \in 1..n : InConflict(text[i])
  BY <1>1 DEF Conflict, n
<1>10. Conflict(text')
  BY <1>1, <1>6, <1>7, <1>8, <1>9 DEF Conflict
<1>11. files' = [i \in DOMAIN text' |-> Render(text'[i])]
  <2>1. files' = [i \in 1..n |-> IF i = 1 THEN Render(new) ELSE Render(text[i])]
    BY <1>1, <1>2
  <2>2. \A i \in 1..n : Render(text'[i]) = IF i = 1 THEN Render(new) ELSE Render(text[i])
    BY <1>7
  <2> QED BY <1>7, <2>1, <2>2
<1>12. /\ \A m \in 1..Len(hunks) :
             LET i == hunks[m].file
                 k == where[m]
             IN /\ i \in 1..n /\ k \in 1..Len(text[i]) /\ text[i][k].hunk
                /\ hunks[m].hunk.from = Off(text[i], k) + 1
                /\ hunks[m].hunk.to = Off(text[i], k + 1)
       /\ \A l, m \in 1..Len(hunks) : l < m =>
             hunks[l].file < hunks[m].file
               \/ (hunks[l].file = hunks[m].file /\ where[l] < where[m])
       /\ \A i \in 1..n : \A k \in 1..Len(text[i]) :
             text[i][k].hunk => \E m \in 1..Len(hunks) : hunks[m].file = i /\ where[m] = k
  BY <1>5 DEF Places
<1>13. ASSUME \A k \in 1..Len(new) : new[k].hunk => k \in 1..Len(file) /\ file[k].hunk,
              \A k \in 1..Len(file) : file[k].hunk =>
                /\ k \in 1..Len(new) /\ new[k].hunk
                /\ Off(new, k) = Off(file, k) /\ Off(new, k + 1) = Off(file, k + 1)
       PROVE  Resolving'
  <2>1. Places(hunks, text', n, where)
    <3>1. ASSUME NEW m \in 1..Len(hunks)
          PROVE  LET i == hunks[m].file
                     k == where[m]
                 IN /\ i \in 1..n /\ k \in 1..Len(text'[i]) /\ text'[i][k].hunk
                    /\ hunks[m].hunk.from = Off(text'[i], k) + 1
                    /\ hunks[m].hunk.to = Off(text'[i], k + 1)
      <4> DEFINE i == hunks[m].file
                 k == where[m]
      <4>1. /\ i \in 1..n /\ k \in 1..Len(text[i]) /\ text[i][k].hunk
            /\ hunks[m].hunk.from = Off(text[i], k) + 1
            /\ hunks[m].hunk.to = Off(text[i], k + 1)
        BY <1>12
      <4> HIDE DEF i, k
      <4>2. CASE i = 1
        <5>1. k \in 1..Len(file) /\ file[k].hunk
          BY <4>1, <4>2
        <5>2. /\ k \in 1..Len(new) /\ new[k].hunk
              /\ Off(new, k) = Off(file, k) /\ Off(new, k + 1) = Off(file, k + 1)
          BY <1>13, <5>1
        <5>3. text'[i] = new /\ text[i] = file
          BY <1>7, <4>2
        <5> QED BY <4>1, <5>2, <5>3 DEF i, k
      <4>3. CASE i # 1
        <5>1. text'[i] = text[i]
          BY <1>7, <4>1, <4>3
        <5> QED BY <4>1, <5>1 DEF i, k
      <4> QED BY <4>2, <4>3
    <3>2. ASSUME NEW i \in 1..n, NEW k \in 1..Len(text'[i]), text'[i][k].hunk
          PROVE  \E m \in 1..Len(hunks) : hunks[m].file = i /\ where[m] = k
      <4>1. k \in 1..Len(text[i]) /\ text[i][k].hunk
        BY <1>7, <1>13, <3>2
      <4> QED BY <1>12, <4>1
    <3> QED BY <1>3, <1>12, <3>1, <3>2 DEF Places
  <2>2. Placed'
    BY <1>3, <1>8, <2>1 DEF Placed
  <2> QED BY <1>1, <1>3, <1>8, <1>10, <1>11, <2>2 DEF Resolving
<1>14. CASE new = file \o <<more>>
  <2> DEFINE f == file
             x == more
  <2>0. InConflict(f) /\ ~x.hunk /\ new = f \o <<x>>
    BY <1>1, <1>14 DEF More
  <2> HIDE DEF f, x
  <2>1. /\ Len(new) = Len(f) + 1 /\ Len(f) \in Nat
        /\ \A k \in 1..Len(f) : new[k] = f[k]
        /\ ~new[Len(f) + 1].hunk
    BY <2>0, EditAfter
  <2>4. \A k \in 1..(Len(f) + 1) : Off(new, k) = Off(f, k)
    BY <2>0, EditMovesNothing
  <2>2. \A k \in 1..Len(new) : new[k].hunk => k \in 1..Len(f) /\ f[k].hunk
    BY <2>1
  <2>3. \A k \in 1..Len(f) : f[k].hunk =>
          /\ k \in 1..Len(new) /\ new[k].hunk
          /\ Off(new, k) = Off(f, k) /\ Off(new, k + 1) = Off(f, k + 1)
    BY <2>1, <2>4
  <2> QED BY <1>13, <2>2, <2>3 DEF f
<1>15. CASE new = <<more>> \o file
  <2>1. CASE \E m \in 1..Len(hunks) : hunks[m].file = 1
    <3>1. ASSUME NEW m \in 1..Len(hunks), hunks[m].file = 1
          PROVE  files'[1][hunks[m].hunk.from].mark # "<"
      <4>1. where[m] \in 1..Len(file) /\ file[where[m]].hunk
            /\ hunks[m].hunk.from = Off(file, where[m]) + 1
        BY <1>12, <3>1
      <4>2. Render(new)[Off(file, where[m]) + 1].mark # "<"
        BY <1>1, <1>15, <4>1, EditBefore
      <4>3. files'[1] = Render(new)
        BY <1>1, <1>2
      <4> QED BY <4>1, <4>2, <4>3
    <3>2. More(new) \in ToSet(new)
      <4> DEFINE line == Line("edit", Head(Render(file)).eol)
      <4>1. Render(new) = <<line>> \o Render(file)
        BY <1>1, <1>15, EditBeforeText
      <4>2. PICK U : line \in U /\ Render(file) \in Seq(U)
        BY <1>1, EditBeforeText
      <4>3. line.eol = Head(Render(file)).eol
        BY DEF Line
      <4> HIDE DEF line
      <4>4. Head(Render(new)) = line
        BY <4>1, <4>2
      <4>5. More(new) = more
        BY <4>3, <4>4 DEF More
      <4>6. new[1] = more /\ 1 \in DOMAIN new
        <5> DEFINE f == file
                   x == more
        <5>1. f \in Seq(ToSet(f)) /\ new = <<x>> \o f
          BY <1>1, <1>15 DEF InConflict
        <5> HIDE DEF f, x
        <5>2. f \in Seq(ToSet(f) \union {x}) /\ <<x>> \in Seq(ToSet(f) \union {x})
          BY <5>1, SeqMonotonic
        <5>3. new[1] = x /\ 1 \in DOMAIN new
          BY <5>1, <5>2
        <5> QED BY <5>3 DEF x
      <4> QED BY <4>5, <4>6 DEF ToSet
    <3>3. Moved'
      BY <1>3, <1>7, <2>1, <3>1, <3>2 DEF Moved
    <3> QED BY <1>1, <1>3, <1>8, <1>10, <1>11, <3>3 DEF Resolving
  <2>2. CASE \A m \in 1..Len(hunks) : hunks[m].file # 1
    <3> DEFINE f == file
               x == more
    <3>1. \A k \in 1..Len(f) : ~f[k].hunk
      BY <1>1, <1>12, <2>2
    <3>2. f \in Seq(ToSet(f)) /\ new = <<x>> \o f /\ ~x.hunk
      BY <1>1, <1>15 DEF InConflict, More
    <3> HIDE DEF f, x
    <3>3. \A k \in 1..Len(new) : ~new[k].hunk
      <4>1. f \in Seq(ToSet(f) \union {x}) /\ <<x>> \in Seq(ToSet(f) \union {x})
        BY <3>2, SeqMonotonic
      <4>2. /\ Len(f) \in Nat /\ Len(new) = Len(f) + 1 /\ new[1] = x
            /\ \A k \in 1..Len(f) : new[k + 1] = f[k]
        BY <3>2, <4>1
      <4> SUFFICES ASSUME NEW k \in 1..Len(new) PROVE ~new[k].hunk
        OBVIOUS
      <4>3. k = 1 \/ (k - 1 \in 1..Len(f) /\ k = (k - 1) + 1)
        BY <4>2
      <4> QED BY <3>1, <3>2, <4>2, <4>3
    <3> QED BY <1>13, <3>1, <3>3 DEF f
  <2> QED BY <2>1, <2>2
<1> QED BY <1>2, <1>14, <1>15

-----------------------------------------------------------------------------
(* What is staged, in every reachable state.                               *)

Picking == {"begin", "pick", "detect", "abort", "skip", "deps", "abortdep", "read"}
Asking == {"suggest", "validate"}

\* What has come of the conflict at each step, as long as the run goes on: the
\* user may take it back after that.
KeptInv ==
  /\ codes \in Seq(Codes \union {Rejected})
  /\ at \in Picking => codes = <<>>
  /\ Running /\ at \in {"detect", "abort", "skip", "abortdep", "read"} => GitLeft
  /\ Running /\ at \in Asking => Resolving /\ Len(codes) < Len(hunks)
  /\ at = "validate" => offer \in Codes
  /\ Running /\ at = "rewrite" => Resolving /\ Len(codes) = Len(hunks)
  /\ at \in {"stage", "continue"} => Kept

\* A step that leaves the conflict as it was read.
LEMMA SameConflict ==
  ASSUME UNCHANGED <<text, files, hunks>> PROVE Resolving' <=> Resolving
  BY DEF Resolving, Placed, Moved, Places

\* A step that leaves its resolutions alone too.
LEMMA SameText ==
  ASSUME UNCHANGED <<text, files, hunks, codes>>
  PROVE  /\ Resolving' <=> Resolving
         /\ Kept' <=> Kept
         /\ UNCHANGED unmerged => (GitLeft' <=> GitLeft)
<1>1. Resolving' <=> Resolving
  BY SameConflict
<1>2. Kept' <=> Kept
  BY DEF Kept, Resolvable, HunksBefore
<1>3. UNCHANGED unmerged => (GitLeft' <=> GitLeft)
  BY DEF GitLeft
<1> QED BY <1>1, <1>2, <1>3

\* A pick that lands or fails leaves what git leaves.
LEMMA PickLeaves ==
  ASSUME NEW c, PickFails(c), unmerged = {} PROVE GitLeft'
  BY DEF PickFails, PickStops, PickConflicts, PickRefused, GitLeft

\* Every step keeps what will be staged.
LEMMA KeptStep ==
  ASSUME ImportInv, FilesInv, TreeInv, KeptInv, [Next]_vars PROVE KeptInv'
<1> USE DEF KeptInv, Picking, Asking
<1>1. CASE ApplyStep \/ Meanwhile
  <2>0. exit = None /\ UNCHANGED seriesVars
    BY <1>1 DEF ApplyStep, Meanwhile
  <2>1. CASE EnsureClean
    BY <2>1, <2>0 DEF EnsureClean
  <2>2. CASE Pick
    <3>1. CASE PickFails(current) /\ at' = "detect"
      <4>1. GitLeft'
        BY <2>2, <3>1, PickLeaves DEF Pick, TreeInv, Clean
      <4> QED BY <2>2, <2>0, <3>1, <4>1 DEF Pick
    <3>2. CASE at' = "check"
      BY <2>2, <2>0, <3>2 DEF Pick
    <3> QED BY <2>2, <3>1, <3>2 DEF Pick
  <2>3. CASE Detect
    BY <2>3, <2>0, SameText DEF Detect
  <2>4. CASE Skip
    BY <2>4, <2>0 DEF Skip
  <2>5. CASE AbortForDeps
    BY <2>5, <2>0 DEF AbortForDeps
  <2>6. CASE NextDep
    <3>1. CASE at' = "abortdep"
      <4>1. PICK c : PickFails(c)
        BY <2>6, <3>1 DEF NextDep
      <4>2. GitLeft'
        BY <2>6, <4>1, PickLeaves DEF NextDep, TreeInv, Clean
      <4> QED BY <2>6, <2>0, <3>1, <4>2 DEF NextDep
    <3>2. CASE at' # "abortdep"
      BY <2>6, <2>0, <3>2 DEF NextDep
    <3> QED BY <3>1, <3>2
  <2>7. CASE AbortDep
    BY <2>7, <2>0 DEF AbortDep
  <2>8. CASE ReadConflicts
    <3>1. UNCHANGED <<text, files, codes, exit>> /\ codes = <<>> /\ GitLeft
      BY <2>8, <2>0 DEF ReadConflicts
    <3>2. CASE at' = "suggest" /\ Parsed # <<>> /\ hunks' = Parsed
      <4>1. Resolving' /\ Len(Parsed) \in Nat \ {0}
        BY <3>1, <3>2, ReadPlaces
      <4>2. Len(codes') = 0
        BY <3>1
      <4>3. Len(codes') < Len(hunks')
        BY <3>2, <4>1, <4>2
      <4> QED BY <3>1, <3>2, <4>1, <4>3
    <3>3. CASE at' = "error"
      BY <3>1, <3>3
    <3> QED BY <2>8, <3>2, <3>3 DEF ReadConflicts
  <2>9. CASE Suggest
    <3>1. UNCHANGED <<text, files, hunks, codes, exit>> /\ Resolving /\ Len(codes) < Len(hunks)
      BY <2>9, <2>0 DEF Suggest
    <3>2. Resolving'
      BY <3>1, SameText
    <3> QED BY <2>9, <3>1, <3>2 DEF Suggest
  <2>10. CASE Validate
    <3>1. /\ UNCHANGED <<text, files, hunks, exit>>
          /\ Resolving /\ Len(codes) < Len(hunks) /\ offer \in Codes
      BY <2>10, <2>0 DEF Validate
    <3>2. Resolving'
        BY <3>1, SameConflict
    <3>3. Len(codes) \in Nat /\ Len(hunks) \in Nat
      BY <3>1 DEF Resolving
    <3>4. ASSUME NEW o \in Codes \union {Rejected}, Settle(o) PROVE KeptInv'
      <4>1. /\ codes' = Append(codes, o)
            /\ at' = IF Len(codes) + 1 = Len(hunks) THEN "rewrite" ELSE "suggest"
        BY <3>4 DEF Settle
      <4>2. codes' \in Seq(Codes \union {Rejected}) /\ Len(codes') = Len(codes) + 1
        BY <4>1
      <4> QED BY <3>1, <3>2, <3>3, <4>1, <4>2
    <3>5. CASE UNCHANGED codes /\ at' \in {"suggest", "error"}
      BY <3>1, <3>2, <3>5
    <3> QED BY <2>10, <3>1, <3>4, <3>5 DEF Validate
  <2>11. CASE Rewrite
    <3>1. /\ UNCHANGED <<text, hunks, codes, exit>>
          /\ Resolving /\ Len(codes) = Len(hunks)
      BY <2>11, <2>0 DEF Rewrite
    <3>2. CASE at' \in {"rejected", "error"}
      BY <3>1, <3>2
    <3>3. CASE at' = "stage"
      <4> DEFINE new == [i \in Resolvable |-> ResolvedLines(files[i], AcceptedIn(i))]
                 moved == {i \in Resolvable : new[i] = None}
      <4>1. /\ Rejected \notin ToSet(codes) /\ moved = {}
            /\ files' = [i \in DOMAIN files |->
                           IF i \in Resolvable /\ \A j \in moved : i < j
                             THEN new[i] ELSE files[i]]
        BY <2>11, <3>3 DEF Rewrite
      <4>2. codes \in Seq(Codes)
        <5>1. \A m \in 1..Len(codes) : codes[m] \in Codes
          BY <4>1 DEF ToSet
        <5> QED BY <5>1
      <4>3. \A i \in Resolvable : ResolvedLines(files[i], AcceptedIn(i)) # None
        BY <4>1
      <4>4. files' = [i \in DOMAIN files |->
                       IF i \in Resolvable THEN ResolvedLines(files[i], AcceptedIn(i)) ELSE files[i]]
        BY <4>1
      <4>5. Kept'
        BY <3>1, <4>2, <4>3, <4>4, RewriteKeeps
      <4> QED BY <3>1, <3>3, <4>5
    <3> QED BY <2>11, <3>2, <3>3 DEF Rewrite
  <2>12. CASE Stage
    <3>1. UNCHANGED <<text, files, hunks, codes>> /\ Kept /\ at' \in {"continue", "error"}
      BY <2>12 DEF Stage
    <3>2. Kept'
      BY <3>1, SameText
    <3> QED BY <3>1, <3>2
  <2>13. CASE Continue
    <3>1. at' \in {"trailer", "error"} /\ (codes' = <<>> \/ UNCHANGED codes)
      BY <2>13 DEF Continue
    <3>2. codes' \in Seq(Codes \union {Rejected})
      <4> DEFINE S == Codes \union {Rejected}
      <4>1. codes \in Seq(S) /\ <<>> \in Seq(S)
        OBVIOUS
      <4> HIDE DEF S
      <4>2. codes' \in Seq(S)
        BY <3>1, <4>1
      <4> QED BY <4>2 DEF S
    <3> QED BY <3>1, <3>2
  <2>14. CASE RewriteTrailer
    BY <2>14, <2>0 DEF RewriteTrailer
  <2>15. CASE AuditAmends
    BY <2>15, <2>0 DEF AuditAmends, Conclude
  <2>16. CASE AuditFails
    BY <2>16, <2>0 DEF AuditFails, Conclude
  <2>17. CASE ReviewEditsNothing
    BY <2>17, <2>0 DEF ReviewEditsNothing, EditsNothing, Conclude
  <2>18. CASE RepairEditsNothing
    BY <2>18, <2>0 DEF RepairEditsNothing, EditsNothing, Conclude
  <2>19. CASE StaticCheck
    BY <2>19, <2>0 DEF StaticCheck, CheckFailed
  <2>20. CASE Work
    BY <2>20, <2>0 DEF Work
  <2>21. CASE SomeoneEdits
    <3>1. UNCHANGED <<hunks, codes, offer, exit, at>> /\ at \in Asking /\ Resolving
      BY <2>21, <2>0 DEF SomeoneEdits
    <3>2. Resolving'
      BY <2>21, <3>1, EditKeepsText
    <3> QED BY <3>1, <3>2
  <2> QED
    BY <1>1, <2>1, <2>2, <2>3, <2>4, <2>5, <2>6, <2>7, <2>8, <2>9, <2>10, <2>11, <2>12,
       <2>13, <2>14, <2>15, <2>16, <2>17, <2>18, <2>19, <2>20, <2>21 DEF ApplyStep, Meanwhile,
       Step, PickStep, ResolveStep, AuditStep
<1>2. CASE SpawnImport
  BY <1>2 DEF SpawnImport
<1>3. CASE Collected
  <2>1. at \in {"import", "shazam"}
    BY <1>3 DEF Collected, ImportInv
  <2>2. CASE OnlyGoTo(IF at = "import" THEN "shazam" ELSE "loop")
    <3>1. at' \in {"shazam", "loop"} /\ UNCHANGED codes
      BY <2>2
    <3> QED BY <3>1
  <2>3. CASE UNCHANGED applyVars
    BY <2>1, <2>3
  <2> QED BY <1>3, <2>2, <2>3 DEF Collected
<1>4. CASE CancelCollected
  BY <1>4, SameText DEF CancelCollected
<1>5. CASE NextCommit
  <2>1. CASE at' = "begin" /\ codes' = <<>>
    BY <2>1
  <2>2. CASE UNCHANGED applyVars /\ at = "loop"
    BY <2>2
  <2> QED BY <1>5, <2>1, <2>2 DEF NextCommit, Begin
<1>6. CASE CommitEnds
  BY <1>6, SameText DEF CommitEnds, Leave
<1>7. CASE CommitFails
  BY <1>7, SameText DEF CommitFails, Leave
<1>8. CASE ChildEnds
  BY <1>8, SameText DEF ChildEnds
<1>9. CASE ImportCancelled
  BY <1>9, SameText DEF ImportCancelled
<1>10. CASE Interrupt
  BY <1>10, SameText DEF Interrupt, Leave
<1>11. CASE Kill
  BY <1>11, SameText DEF Kill
<1>12. CASE CleanUp
  <2>1. UNCHANGED <<codes, offer, at, exit>> /\ exit # None
    BY <1>12 DEF CleanUp
  <2>2. files' = <<>>
    BY <1>12 DEF CleanUp, NoConflict
  <2>3. Kept'
    BY <2>2 DEF Kept, Resolvable
  <2> QED BY <2>1, <2>3
<1>13. CASE Rerun
  BY <1>13 DEF Rerun, Fresh
<1>14. CASE UNCHANGED vars
  BY <1>14, SameText
<1> QED
  BY <1>1, <1>2, <1>3, <1>4, <1>5, <1>6, <1>7, <1>8, <1>9, <1>10, <1>11, <1>12, <1>13, <1>14
     DEF Next, Program

\* What is staged of a conflict is the text that git has put in conflict, or
\* that someone has edited since, with each hunk replaced by the resolution
\* that was accepted for it: apply_accepted_resolutions puts them in from the
\* last to the first by the positions at which the hunks were read, and refuses
\* them if the hunks have moved.
THEOREM SourceKept == Spec => []ResolutionKeepsSource
<1>1. Init => KeptInv
  BY DEF Init, KeptInv, Picking, Asking
<1>2. ApplyInv /\ KeptInv /\ [Next]_vars => KeptInv'
  BY KeptStep DEF ApplyInv, BranchHistory
<1>3. KeptInv => ResolutionKeepsSource
  BY DEF KeptInv, Kept, ResolutionKeepsSource
<1> QED BY <1>1, <1>2, <1>3, AlwaysApply, PTL DEF Spec
=============================================================================
