--------------------------- MODULE ReviewRunProofs ---------------------------
(***************************************************************************)
(* The report of a run, for any number of commits and workers and any      *)
(* findings: each commit has one row, in order; a partial row is what the  *)
(* task had published; and no upstream fix is lost.                        *)
(***************************************************************************)
EXTENDS ReviewRun, FindingsTheorems

Elements == UNION {ToSet(list) : list \in Baselines \cup AdditionLists}
Lists == Seq(Elements)

TaskTypes ==
  /\ fast \in BOOLEAN
  /\ task \in [Commits -> {"queued", "running", "returned", "panicked", "aborted"}]
  /\ base \in [Commits -> Baselines \cup {None}]
  /\ snap \in [Commits -> [findings : Lists, completed : BOOLEAN, error : BOOLEAN]]
  /\ row \in [Commits -> {row[c] : c \in Commits}]
  /\ abort \in [Commits -> {"no", "aborting", "spent"}]

\* What a task that has returned hands to the driver.
HandsOver(c) ==
  IF base[c] = None
    THEN row[c] \in {Row(<<>>, <<>>), ErrorRow}
    ELSE \E a \in AdditionLists : row[c] = Row(Cleaned(base[c]), Cleaned(a))

\* What its snapshot has at any time.
Shares(c) ==
  IF base[c] = None
    THEN snap[c].findings = <<>>
    ELSE \E a \in AdditionLists : snap[c].findings = MergeNovel(base[c], a)

Promised(c) ==
  /\ fast => base[c] = None
  /\ Shares(c)
  /\ IF task[c] = "returned" THEN HandsOver(c) ELSE ~snap[c].completed

TaskInv == TaskTypes /\ \A c \in Commits : Promised(c)

Ended(c) == task[c] \in {"returned", "panicked", "aborted"}

\* The commits whose rows the driver has.
Answered == {c \in joined : task[c] = "returned"}

ReturnedRow(c) == [commit |-> c, value |-> row[c]]

JoinInv ==
  /\ phase \in {"joining", "collected", "merged", "printed", "failed"}
  /\ cancelled \in BOOLEAN
  /\ joined \subseteq Commits
  /\ \A c \in joined : Ended(c)
  /\ triples \in Seq({ReturnedRow(c) : c \in Answered})
  /\ \A i, j \in DOMAIN triples : triples[i].commit = triples[j].commit => i = j
  /\ Have = Answered

\* Tasks are aborted by Ctrl-C only, until the run fails.
NoneLost ==
  ~cancelled /\ phase # "failed" =>
    \A c \in Commits : /\ abort[c] = "no" /\ task[c] # "aborted"
                       /\ c \in joined => task[c] = "returned"

\* What the row of a commit is made from.
Source(c) == IF task[c] = "returned" THEN row[c] ELSE SnapshotRow(snap[c])

Reporting == phase \in {"collected", "merged", "printed"}

Reports(i) ==
  LET value == report[i].value
      source == Source(report[i].commit)
  IN IF phase = "collected"
       THEN report[i] = [commit |-> report[i].commit, value |-> source]
       ELSE value.partial = source.partial /\ value.findings \in ShownOf(source)

ReportInv ==
  /\ OneRowPerCommit
  /\ Reporting => joined = Commits /\ \A i \in DOMAIN report : Reports(i)

RunInv == TaskInv /\ JoinInv /\ NoneLost /\ ReportInv

-----------------------------------------------------------------------------
(***************************************************************************)
(* The tasks.                                                              *)
(***************************************************************************)
\* The lists that the constants have are lists of findings.
LEMMA ListOfTask ==
  ASSUME NEW list \in Baselines \cup AdditionLists
  PROVE  list \in Lists
<1>1. list \in Seq(ToSet(list))
  BY CommitTaskAssumption DEF IsList
<1>2. \A i \in DOMAIN list : list[i] \in Elements
  BY DEF Elements, ToSet
<1> QED
  BY <1>1, <1>2, ListIn DEF Lists

\* What a task publishes is a list of findings.
LEMMA MergeOfTask ==
  ASSUME NEW b \in Baselines, NEW a \in AdditionLists
  PROVE  MergeNovel(b, a) \in Lists
BY ListOfTask, MergeIsMerge DEF Lists

\* Tasks that have not begun promise what tasks do.
LEMMA TaskInitInv == TaskInit => TaskInv
<1> SUFFICES ASSUME TaskInit PROVE TaskInv
  OBVIOUS
<1> USE DEF TaskInit
<1>1. TaskTypes
  <2>1. EmptySnap \in [findings : Lists, completed : BOOLEAN, error : BOOLEAN]
    BY DEF EmptySnap, Lists
  <2>2. fast \in BOOLEAN
    BY CommitTaskAssumption
  <2> QED
    BY <2>1, <2>2 DEF TaskTypes
<1>2. ASSUME NEW c \in Commits PROVE Promised(c)
  BY DEF Promised, Shares, EmptySnap
<1> QED
  BY <1>1, <1>2 DEF TaskInv

\* A step that leaves a commit as it was keeps what is promised of it.
LEMMA Untouched ==
  ASSUME NEW c \in Commits, Promised(c), fast' = fast, task'[c] = task[c],
         base'[c] = base[c], snap'[c] = snap[c], row'[c] = row[c]
  PROVE  Promised(c)'
BY DEF Promised, Shares, HandsOver

\* A step of a task touches its own commit.
Touches(c) ==
  /\ fast' = fast
  /\ \A d \in Commits \ {c} :
       /\ task'[d] = task[d] /\ base'[d] = base[d]
       /\ snap'[d] = snap[d] /\ row'[d] = row[d]

\* A task that starts, goes on, panics or is dropped keeps its promises.
LEMMA StartInv ==
  ASSUME TaskInv, NEW c \in Commits, Start(c) \/ Proceed(c) \/ Panic(c) \/ Cancelled(c)
  PROVE  TaskInv' /\ ~Ended(c) /\ Touches(c)
<1>1. /\ task[c] \in {"queued", "running"}
      /\ UNCHANGED <<fast, base, snap, row>>
      /\ \E t \in {"running", "panicked", "aborted"} : task' = [task EXCEPT ![c] = t] \/ task' = task
      /\ \E s \in {"no", "spent"} : abort' = [abort EXCEPT ![c] = s] \/ abort' = abort
  BY DEF Start, Proceed, Panic, Cancelled, Step, TaskInv, TaskTypes, Live
<1>2. TaskTypes'
  BY <1>1 DEF TaskInv, TaskTypes
<1>3. /\ task'[c] # "returned" /\ ~Ended(c)
      /\ \A d \in Commits \ {c} : task'[d] = task[d]
  BY <1>1 DEF TaskInv, TaskTypes, Ended
<1>4. Touches(c)
  BY <1>1, <1>3 DEF Touches
<1>5. ASSUME NEW d \in Commits PROVE Promised(d)'
  <2>1. CASE d = c
    BY <1>1, <1>3, <2>1 DEF TaskInv, Promised, Shares, Ended
  <2>2. CASE d # c
    BY <1>1, <1>3, <2>2, Untouched DEF TaskInv
  <2> QED
    BY <2>1, <2>2
<1> QED
  BY <1>2, <1>3, <1>4, <1>5 DEF TaskInv

\* A publication, of the baseline or of the baseline with additions.
LEMMA PublishInv ==
  ASSUME TaskInv, NEW c \in Commits, Establish(c) \/ Publish(c)
  PROVE  TaskInv' /\ ~Ended(c) /\ Touches(c)
<1>1. /\ task[c] = "running" /\ UNCHANGED <<fast, task, row>>
      /\ \E s \in {"no", "spent"} : abort' = [abort EXCEPT ![c] = s]
  BY DEF Establish, Publish, Step
<1>2. PICK b \in Baselines, a \in AdditionLists :
        /\ ~fast
        /\ base' = [base EXCEPT ![c] = b]
        /\ snap' = [snap EXCEPT ![c].findings = MergeNovel(b, a)]
  <2>1. CASE Establish(c)
    <3>1. PICK b \in Baselines : base' = [base EXCEPT ![c] = b] /\ snap' = [snap EXCEPT ![c].findings = b]
      BY <2>1 DEF Establish
    <3>2. MergeNovel(b, <<>>) = b
      BY MergeEmpty
    <3> QED
      BY <2>1, <3>1, <3>2, CommitTaskAssumption DEF Establish
  <2>2. CASE Publish(c)
    <3>1. PICK a \in AdditionLists : snap' = [snap EXCEPT ![c].findings = MergeNovel(base[c], a)]
      BY <2>2 DEF Publish
    <3>2. base[c] # None /\ base' = base
      BY <2>2 DEF Publish
    <3>3. base[c] \in Baselines /\ ~fast /\ base' = [base EXCEPT ![c] = base[c]]
      BY <3>2 DEF TaskInv, TaskTypes, Promised
    <3> QED
      BY <3>1, <3>3
  <2> QED
    BY <2>1, <2>2
<1>3. b # None /\ MergeNovel(b, a) \in Lists
  BY MergeOfTask, CommitTaskAssumption
<1>4. /\ base'[c] = b /\ snap'[c].findings = MergeNovel(b, a)
      /\ snap'[c].completed = snap[c].completed
      /\ \A d \in Commits \ {c} : base'[d] = base[d] /\ snap'[d] = snap[d]
  BY <1>2 DEF TaskInv, TaskTypes
<1>5. Touches(c) /\ ~Ended(c)
  BY <1>1, <1>4 DEF Touches, Ended
<1>6. TaskTypes'
  <2>1. abort' \in [Commits -> {"no", "aborting", "spent"}]
    BY <1>1 DEF TaskInv, TaskTypes
  <2>2. base' \in [Commits -> Baselines \cup {None}]
    BY <1>2 DEF TaskInv, TaskTypes
  <2>3. snap' \in [Commits -> [findings : Lists, completed : BOOLEAN, error : BOOLEAN]]
    BY <1>2, <1>3 DEF TaskInv, TaskTypes
  <2> QED
    BY <1>1, <2>1, <2>2, <2>3 DEF TaskInv, TaskTypes
<1>7. ASSUME NEW d \in Commits PROVE Promised(d)'
  <2>1. CASE d = c
    <3>1. Shares(c)'
      BY <1>3, <1>4 DEF Shares
    <3> QED
      BY <1>1, <1>2, <1>4, <2>1, <3>1 DEF TaskInv, Promised
  <2>2. CASE d # c
    BY <1>1, <1>4, <2>2, Untouched DEF TaskInv
  <2> QED
    BY <2>1, <2>2
<1> QED
  BY <1>5, <1>6, <1>7 DEF TaskInv

\* A return.
LEMMA ReturnInv ==
  ASSUME TaskInv, NEW c \in Commits, Finish(c) \/ FinishFast(c) \/ Fail(c)
  PROVE  TaskInv' /\ ~Ended(c) /\ Touches(c)
<1>1. /\ task[c] = "running" /\ UNCHANGED <<fast, base>>
      /\ \E s \in {"no", "spent"} : abort' = [abort EXCEPT ![c] = s]
  BY DEF Finish, FinishFast, Fail, Step
<1>2. PICK s, r :
        /\ s \in [findings : Lists, completed : BOOLEAN, error : BOOLEAN]
        /\ Return(c, s, r)
        /\ IF base[c] = None
             THEN s.findings = <<>> /\ r \in {Row(<<>>, <<>>), ErrorRow}
             ELSE \E a \in AdditionLists : /\ s.findings = MergeNovel(base[c], a)
                                           /\ r = Row(Cleaned(base[c]), Cleaned(a))
  <2>1. CASE Finish(c)
    <3>1. PICK a \in AdditionLists :
            Return(c, [EmptySnap EXCEPT !.findings = MergeNovel(base[c], a), !.completed = TRUE],
                   Row(Cleaned(base[c]), Cleaned(a)))
      BY <2>1 DEF Finish
    <3> DEFINE m == MergeNovel(base[c], a)
               s == [EmptySnap EXCEPT !.findings = m, !.completed = TRUE]
    <3>2. base[c] # None /\ base[c] \in Baselines
      BY <2>1 DEF Finish, TaskInv, TaskTypes
    <3>3. m \in Lists
      BY <3>2, MergeOfTask
    <3>4. s \in [findings : Lists, completed : BOOLEAN, error : BOOLEAN] /\ s.findings = m
      <4> HIDE DEF m
      <4>1. EmptySnap \in [findings : Lists, completed : BOOLEAN, error : BOOLEAN]
        BY DEF EmptySnap, Lists
      <4> QED
        BY <3>3, <4>1
    <3> QED
      BY <3>1, <3>2, <3>3, <3>4
  <2>2. CASE FinishFast(c)
    <3> DEFINE s == [EmptySnap EXCEPT !.completed = TRUE]
    <3>1. Return(c, s, Row(<<>>, <<>>)) /\ base[c] = None
      BY <2>2 DEF FinishFast, TaskInv, Promised
    <3>2. EmptySnap \in [findings : Lists, completed : BOOLEAN, error : BOOLEAN]
      BY DEF EmptySnap, Lists
    <3>3. s \in [findings : Lists, completed : BOOLEAN, error : BOOLEAN] /\ s.findings = EmptySnap.findings
      BY <3>2
    <3>4. EmptySnap.findings = <<>>
      BY DEF EmptySnap
    <3> QED
      BY <3>1, <3>3, <3>4
  <2>3. CASE Fail(c)
    <3> DEFINE s == [snap[c] EXCEPT !.error = TRUE]
    <3>1. Return(c, s, ErrorRow) /\ base[c] = None
      BY <2>3 DEF Fail
    <3>2. s \in [findings : Lists, completed : BOOLEAN, error : BOOLEAN] /\ s.findings = <<>>
      BY <3>1 DEF TaskInv, TaskTypes, Promised, Shares
    <3> QED
      BY <3>1, <3>2
  <2> QED
    BY <2>1, <2>2, <2>3
<1>3. /\ task'[c] = "returned" /\ snap'[c] = s /\ row'[c] = r /\ base'[c] = base[c]
      /\ \A d \in Commits \ {c} : task'[d] = task[d] /\ snap'[d] = snap[d] /\ row'[d] = row[d]
  BY <1>1, <1>2 DEF Return, TaskInv, TaskTypes
<1>4. Touches(c) /\ ~Ended(c)
  BY <1>1, <1>3 DEF Touches, Ended
<1>5. TaskTypes'
  <2>1. abort' \in [Commits -> {"no", "aborting", "spent"}]
    BY <1>1 DEF TaskInv, TaskTypes
  <2>2. /\ task' \in [Commits -> {"queued", "running", "returned", "panicked", "aborted"}]
        /\ snap' \in [Commits -> [findings : Lists, completed : BOOLEAN, error : BOOLEAN]]
    BY <1>2 DEF Return, TaskInv, TaskTypes
  <2>3. row' \in [Commits -> {row'[d] : d \in Commits}]
    BY <1>2 DEF Return, TaskInv, TaskTypes
  <2> QED
    BY <1>1, <2>1, <2>2, <2>3 DEF TaskInv, TaskTypes
<1>6. ASSUME NEW d \in Commits PROVE Promised(d)'
  <2>1. CASE d = c
    <3>1. Shares(c)' /\ HandsOver(c)'
      BY <1>2, <1>3 DEF Shares, HandsOver
    <3> QED
      BY <1>1, <1>3, <2>1, <3>1 DEF TaskInv, Promised
  <2>2. CASE d # c
    BY <1>1, <1>3, <2>2, Untouched DEF TaskInv
  <2> QED
    BY <2>1, <2>2
<1> QED
  BY <1>4, <1>5, <1>6 DEF TaskInv

\* Tasks keep what they promise; one that has ended stays as it is.
LEMMA TaskStepInv ==
  ASSUME TaskInv, TaskStep \/ AbortAll
  PROVE  /\ TaskInv' /\ fast' = fast
         /\ \A c \in Commits : Ended(c) => /\ task'[c] = task[c] /\ row'[c] = row[c]
                                           /\ base'[c] = base[c] /\ snap'[c] = snap[c]
<1>1. CASE AbortAll
  <2>1. UNCHANGED <<fast, task, base, snap, row>>
    BY <1>1 DEF AbortAll
  <2>2. abort' \in [Commits -> {"no", "aborting", "spent"}]
    BY <1>1 DEF AbortAll, TaskInv, TaskTypes
  <2>3. TaskTypes'
    BY <2>1, <2>2 DEF TaskInv, TaskTypes
  <2>4. \A c \in Commits : Promised(c)'
    BY <2>1, Untouched DEF TaskInv
  <2> QED
    BY <2>1, <2>3, <2>4 DEF TaskInv
<1>2. CASE TaskStep
  <2>1. PICK c \in Commits :
          \/ Start(c) \/ Proceed(c) \/ Settle(c) \/ Publish(c) \/ Finish(c)
          \/ Panic(c) \/ Cancelled(c)
    BY <1>2 DEF TaskStep
  <2>2. TaskInv' /\ ~Ended(c) /\ Touches(c)
    BY <2>1, StartInv, PublishInv, ReturnInv DEF Settle
  <2> QED
    BY <2>2 DEF Touches
<1> QED
  BY <1>1, <1>2

-----------------------------------------------------------------------------
(***************************************************************************)
(* The rows.                                                               *)
(***************************************************************************)
\* Sorted has the rows it is given, by their commits.
LEMMA SortedRows ==
  ASSUME NEW S, NEW rows \in Seq(S), \A r \in S : r.commit \in Nat,
         \A i, j \in DOMAIN rows : rows[i].commit = rows[j].commit => i = j
  PROVE  /\ ToSet(Sorted(rows)) = ToSet(rows)
         /\ \A i, j \in DOMAIN Sorted(rows) : i < j => Sorted(rows)[i].commit < Sorted(rows)[j].commit
<1> DEFINE I == DOMAIN rows
           key(i) == rows[i].commit
           before(k, i) == rows[k].commit < rows[i].commit \/ (rows[k].commit = rows[i].commit /\ k <= i)
           place(i) == Cardinality({k \in I : before(k, i)})
           upTo == [i \in I |-> {k \in I : before(k, i)}]
           p == [i \in I |-> place(i)]
           at(j) == CHOOSE i \in I : place(i) = j
           sorted == [j \in I |-> rows[at(j)]]
<1>1. /\ I = 1..Len(rows) /\ Len(rows) \in Nat
      /\ \A i \in I : i \in Nat /\ key(i) \in Nat
  OBVIOUS
<1>2. IsFiniteSet(I) /\ Cardinality(I) = Len(rows)
  <2> HIDE DEF I
  <2> QED
    BY <1>1, FS_Interval
<1>3. \A i, k \in I : before(k, i) <=> key(k) <= key(i)
  BY <1>1
<1>4. /\ upTo \in [I -> SUBSET I] /\ p \in [I -> Nat]
      /\ \A i \in I : upTo[i] = {k \in I : key(k) <= key(i)} /\ p[i] = Cardinality(upTo[i]) /\ p[i] = place(i)
  <2>1. \A i \in I : upTo[i] = {k \in I : before(k, i)} /\ p[i] = Cardinality(upTo[i]) /\ p[i] = place(i)
    OBVIOUS
  <2>2. \A i \in I : IsFiniteSet(upTo[i]) /\ upTo[i] \in SUBSET I
    <3> HIDE DEF I, before
    <3> QED
      BY <1>2, <2>1, FS_Subset
  <2>3. \A i \in I : p[i] \in Nat
    <3> HIDE DEF I, before, place, p, upTo
    <3> QED
      BY <2>1, <2>2, FS_CardinalityType
  <2>4. upTo = [i \in I |-> upTo[i]] /\ p = [i \in I |-> p[i]]
    OBVIOUS
  <2> HIDE DEF I, before, place, upTo, p, key
  <2>5. upTo \in [I -> SUBSET I] /\ p \in [I -> Nat]
    BY <2>2, <2>3, <2>4
  <2>6. \A i \in I : upTo[i] = {k \in I : key(k) <= key(i)}
    BY <1>3, <2>1
  <2> QED
    BY <2>1, <2>5, <2>6
<1>5. \A i, j \in I : key(i) = key(j) => i = j
  OBVIOUS
<1>6. Sorted(rows) = sorted
  BY DEF Sorted
<1> HIDE DEF I, key, before, place, upTo, p
<1>7. Ranking(I, upTo, p)
  <2>1. \A i \in I : i \in upTo[i]
    BY <1>1, <1>4
  <2>2. ASSUME NEW i \in I, NEW j \in I, key(i) < key(j)
        PROVE  upTo[i] \subseteq upTo[j] /\ j \notin upTo[i]
    BY <1>1, <1>4, <2>2
  <2>3. \A i, j \in I : i # j => key(i) < key(j) \/ key(j) < key(i)
    BY <1>1, <1>5
  <2> QED
    BY <1>2, <1>4, <2>1, <2>2, <2>3 DEF Ranking
<1>8. \A i \in I : p[i] \in I
  BY <1>1, <1>2, <1>7, Ranks
<1>9. \A i, j \in I : p[i] = p[j] => i = j
  BY <1>7, Ranks
<1>10. \A j \in I : \E i \in I : p[i] = j
  <2>1. p \in Surjection(I, 1..Cardinality(I))
    BY <1>7, Ranks
  <2> QED
    BY <1>1, <1>2, <2>1 DEF Surjection
<1>11. \A i, j \in I : p[i] < p[j] => upTo[i] \subseteq upTo[j]
  BY <1>7, Ranks
<1>12. \A j \in I : at(j) \in I /\ p[at(j)] = j
  BY <1>4, <1>10
<1>13. \A i \in I : at(p[i]) = i
  BY <1>8, <1>9, <1>12
<1> HIDE DEF at
<1>14. ASSUME NEW i \in I, NEW j \in I, i < j
       PROVE  key(at(i)) < key(at(j))
  <2>1. at(i) \in I /\ at(j) \in I /\ p[at(i)] = i /\ p[at(j)] = j /\ at(i) # at(j)
    BY <1>1, <1>12, <1>14
  <2>2. upTo[at(i)] \subseteq upTo[at(j)]
    BY <1>11, <1>14, <2>1
  <2>3. at(i) \in upTo[at(i)]
    BY <1>1, <1>4, <2>1
  <2>4. key(at(i)) <= key(at(j))
    BY <1>4, <2>1, <2>2, <2>3
  <2> QED
    BY <1>1, <1>5, <2>1, <2>4
<1>15. \A j \in I : sorted[j] = rows[at(j)]
  OBVIOUS
<1>16. DOMAIN sorted = I
  OBVIOUS
<1> HIDE DEF sorted
<1>17. ToSet(sorted) = ToSet(rows)
  BY <1>8, <1>12, <1>13, <1>15, <1>16 DEF ToSet, I
<1>18. \A i, j \in I : i < j => sorted[i].commit < sorted[j].commit
  BY <1>14, <1>15 DEF key
<1> QED
  BY <1>6, <1>16, <1>17, <1>18

\* What is known of what a row is made from.
LEMMA SourceIs ==
  ASSUME TaskInv, NEW c \in Commits
  PROVE  /\ DOMAIN Source(c) = {"findings", "additions", "error", "partial"}
         /\ Source(c).partial <=> task[c] # "returned"
         /\ task[c] # "returned" => /\ Source(c).findings = snap[c].findings
                                    /\ Source(c).additions = <<>>
         /\ task[c] = "returned" /\ base[c] # None => Source(c).findings = Cleaned(base[c])
         /\ task[c] = "returned" /\ base[c] = None => /\ Source(c).findings = <<>>
                                                     /\ Source(c).additions = <<>>
         /\ \E T : Source(c).findings \in Seq(T)
         /\ \E T : Source(c).additions \in Seq(T)
<1>1. Promised(c) /\ snap[c] \in [findings : Lists, completed : BOOLEAN, error : BOOLEAN]
  BY DEF TaskInv, TaskTypes
<1>2. CASE task[c] # "returned"
  <2>1. Source(c) = [findings |-> snap[c].findings, additions |-> <<>>,
                     error |-> snap[c].error, partial |-> ~snap[c].completed]
    BY <1>2 DEF Source, SnapshotRow, Row
  <2>2. <<>> \in Seq({}) /\ snap[c].findings \in Seq(Elements) /\ ~snap[c].completed
    BY <1>1, <1>2 DEF Promised, Lists
  <2> DEFINE r == Source(c)
  <2>3. /\ DOMAIN r = {"findings", "additions", "error", "partial"}
        /\ r.findings = snap[c].findings /\ r.additions = <<>> /\ r.partial = ~snap[c].completed
    BY <2>1
  <2> HIDE DEF r
  <2>4. r.partial /\ (\E T : r.findings \in Seq(T)) /\ \E T : r.additions \in Seq(T)
    BY <2>2, <2>3
  <2> QED
    BY <1>2, <2>3, <2>4 DEF r
<1>3. CASE task[c] = "returned" /\ base[c] = None
  <2>1. Source(c) \in {Row(<<>>, <<>>), ErrorRow}
    BY <1>1, <1>3 DEF Source, Promised, HandsOver
  <2>2. <<>> \in Seq({})
    OBVIOUS
  <2>3. /\ DOMAIN Source(c) = {"findings", "additions", "error", "partial"}
        /\ Source(c).findings = <<>> /\ Source(c).additions = <<>> /\ Source(c).partial = FALSE
    BY <2>1 DEF Row, ErrorRow
  <2> QED
    BY <1>3, <2>2, <2>3
<1>4. CASE task[c] = "returned" /\ base[c] # None
  <2>1. PICK a \in AdditionLists : Source(c) = Row(Cleaned(base[c]), Cleaned(a))
    BY <1>1, <1>4 DEF Source, Promised, HandsOver
  <2>2. base[c] \in Lists /\ a \in Lists
    BY <1>4, ListOfTask DEF TaskInv, TaskTypes
  <2>3. (\E T : Cleaned(base[c]) \in Seq(T)) /\ \E T : Cleaned(a) \in Seq(T)
    BY <2>2, CleanedIsList DEF Lists
  <2> QED
    BY <1>4, <2>1, <2>3 DEF Row
<1> QED
  BY <1>2, <1>3, <1>4

\* An upstream fix has nothing that the repair of anchors changes.
LEMMA FixCleaned ==
  ASSUME NEW b \in Baselines, NEW f \in ToSet(b), FromGit(f)
  PROVE  f \in ToSet(Cleaned(b))
<1>1. b \in Lists
  BY ListOfTask
<1>2. f.location = None /\ f.quotes = {}
  BY DEF FromGit
<1>3. Checked(f) = f
  BY <1>2 DEF Checked, WithChangedFile, Anchored
<1>4. ~Misattributed(f)
  BY <1>2 DEF Misattributed, Misquoted
<1>5. Left(f) = {f}
  BY <1>2, <1>3, <1>4 DEF Left, Attributable, Moved, Anchored
<1>6. ToSet(Cleaned(b)) = UNION {Left(b[i]) : i \in DOMAIN b}
  BY <1>1, CleanedElements DEF Lists
<1>7. PICK i \in DOMAIN b : b[i] = f
  BY DEF ToSet
<1> QED
  BY <1>5, <1>6, <1>7

\* What is shown of a row: its findings, or some of them with all its upstream
\* fixes, merged with a list.
LEMMA ShownMade ==
  ASSUME NEW value, NEW S, value.findings \in Seq(S), NEW T, value.additions \in Seq(T),
         NEW shown \in ShownOf(value)
  PROVE  \E U : \E kept \in Seq(S), l \in Seq(U) :
           /\ shown = MergeNovel(kept, l)
           /\ \A f \in ToSet(value.findings) : IsUpstreamFix(f) => f \in ToSet(kept)
<1> DEFINE b == value.findings
           a == value.additions
<1>1. \A U : <<>> \in Seq(U)
  OBVIOUS
<1> HIDE DEF a, b
<1>2. CASE shown \in Validations(b, a, ValidatorLists)
  <2> DEFINE fixes == {i \in DOMAIN b : IsUpstreamFix(b[i])}
  <2> DEFINE made(keep, l) == MergeNovel(Subsequence(b, keep \union fixes), l)
             all == {made(keep, l) : keep \in SUBSET DOMAIN b, l \in ValidatedAdditions(a, ValidatorLists)}
  <2>a. Validations(b, a, ValidatorLists) = all
    BY DEF Validations
  <2> HIDE DEF fixes, made
  <2>1. PICK keep \in SUBSET DOMAIN b, l \in ValidatedAdditions(a, ValidatorLists) : shown = made(keep, l)
    <3>1. shown \in all
      <4> HIDE DEF all
      <4> QED
        BY <1>2, <2>a
    <3> QED
      BY <3>1
  <2> DEFINE I == keep \union fixes
             kept == Subsequence(b, I)
  <2>2. kept \in Seq({b[i] : i \in I}) /\ ToSet(kept) = {b[i] : i \in I} /\ I \in SUBSET DOMAIN b
    <3>1. I \in SUBSET DOMAIN b /\ b \in Seq(S)
      BY DEF b, fixes
    <3> HIDE DEF I
    <3>2. I \in SUBSET Nat /\ IsFiniteSet(I)
      BY <3>1, Indices
    <3>3. kept \in Seq({b[i] : i \in I}) /\ ToSet(kept) = {b[i] : i \in I}
      BY <3>2, SubsequenceElements
    <3> QED
      BY <3>1, <3>3
  <2>3. ASSUME NEW f \in ToSet(b), IsUpstreamFix(f) PROVE f \in ToSet(kept)
    <3>1. PICK i \in DOMAIN b : b[i] = f
      BY DEF ToSet
    <3>2. i \in I
      BY <2>3, <3>1 DEF fixes
    <3> HIDE DEF I, kept
    <3> QED
      BY <2>2, <3>1, <3>2
  <2>4. PICK U : l \in Seq(U)
    <3>1. CASE \E list \in ValidatorLists : l = WithAnchors(list)
      <4>1. PICK list \in ValidatorLists : l = WithAnchors(list)
        BY <3>1
      <4>2. list \in Seq(ToSet(list))
        BY ReviewRunAssumption DEF IsList
      <4> QED
        BY <4>1, <4>2, WithAnchorsList
    <3>2. CASE l \in {<<>>, a}
      BY <1>1, <3>2 DEF a
    <3>3. CASE l = WithoutSensitive(a)
      <4> DEFINE J == {i \in DOMAIN a : ~a[i].sensitive}
      <4>1. J \in SUBSET DOMAIN a /\ a \in Seq(T) /\ l = Subsequence(a, J)
        BY <3>3 DEF WithoutSensitive, a
      <4> HIDE DEF J
      <4> QED
        BY <4>1, Indices, SubsequenceElements
    <3> QED
      BY <2>1, <3>1, <3>2, <3>3 DEF ValidatedAdditions
  <2>5. kept \in Seq(S)
    <3>1. b \in Seq(S)
      BY DEF b
    <3>2. \A i \in I : b[i] \in S
      <4> HIDE DEF I
      <4> QED
        BY <2>2, <3>1
    <3>3. {b[i] : i \in I} \subseteq S
      BY <3>2
    <3> HIDE DEF kept, I
    <3>4. \A i \in DOMAIN kept : kept[i] \in S
      BY <2>2, <3>3
    <3> QED
      BY <2>2, <3>4, ListIn
  <2>6. shown = MergeNovel(kept, l)
    BY <2>1 DEF made
  <2> HIDE DEF kept
  <2> QED
    BY <2>3, <2>4, <2>5, <2>6 DEF b
<1>3. CASE shown = MergeNovel(b, IF mode = "off" THEN a ELSE <<>>)
  <2> DEFINE l == IF mode = "off" THEN a ELSE <<>>
  <2>1. l \in Seq(T) /\ b \in Seq(S)
    BY <1>1 DEF a, b
  <2>2. shown = MergeNovel(b, l)
    BY <1>3
  <2> HIDE DEF l
  <2> QED
    BY <2>1, <2>2 DEF b
<1> QED
  BY <1>2, <1>3 DEF ShownOf, a, b

\* So it has the upstream fixes that the row has,
LEMMA FixShown ==
  ASSUME NEW value, NEW S, value.findings \in Seq(S), NEW T, value.additions \in Seq(T),
         NEW f \in ToSet(value.findings), IsUpstreamFix(f), NEW shown \in ShownOf(value)
  PROVE  f \in ToSet(shown)
<1>1. PICK U : \E kept \in Seq(S), l \in Seq(U) :
        /\ shown = MergeNovel(kept, l)
        /\ \A g \in ToSet(value.findings) : IsUpstreamFix(g) => g \in ToSet(kept)
  BY ShownMade
<1>2. PICK kept \in Seq(S), l \in Seq(U) : shown = MergeNovel(kept, l) /\ f \in ToSet(kept)
  BY <1>1
<1> QED
  BY <1>2, MergeKeepsBase

\* and is a list.
LEMMA ShownIsList ==
  ASSUME NEW value, NEW S, value.findings \in Seq(S), NEW T, value.additions \in Seq(T),
         NEW shown \in ShownOf(value)
  PROVE  \E V : shown \in Seq(V)
<1>1. PICK U : \E kept \in Seq(S), l \in Seq(U) : shown = MergeNovel(kept, l)
  BY ShownMade
<1>2. PICK kept \in Seq(S), l \in Seq(U) : shown = MergeNovel(kept, l)
  BY <1>1
<1>3. kept \in Seq(S \cup U) /\ l \in Seq(S \cup U)
  BY ListIn
<1>4. MergeNovel(kept, l) \in Seq(S \cup U)
  BY <1>3, MergeIsMerge
<1> QED
  BY <1>2, <1>4

-----------------------------------------------------------------------------
(***************************************************************************)
(* The driver.                                                             *)
(***************************************************************************)
LEMMA RunInit == Init => RunInv
<1> SUFFICES ASSUME Init PROVE RunInv
  OBVIOUS
<1>1. TaskInv
  BY TaskInitInv DEF Init
<1>2. JoinInv
  <2>1. joined = {} /\ triples = <<>> /\ phase = "joining" /\ cancelled = FALSE
    BY DEF Init
  <2>2. Answered = {} /\ Have = {} /\ DOMAIN triples = {} /\ triples \in Seq({})
    BY <2>1 DEF Answered, Have
  <2>3. {ReturnedRow(c) : c \in Answered} = {}
    BY <2>2
  <2> QED
    BY <2>1, <2>2, <2>3 DEF JoinInv
<1>3. NoneLost /\ ReportInv
  BY DEF Init, TaskInit, NoneLost, ReportInv, OneRowPerCommit, Reporting
<1> QED
  BY <1>1, <1>2, <1>3 DEF RunInv

\* Nothing ends a task early before it is aborted.
LEMMA NoneLostByTasks ==
  ASSUME TaskInv, JoinInv, NoneLost, Tasks
  PROVE  NoneLost'
<1> SUFFICES ASSUME ~cancelled, phase # "failed", NEW d \in Commits
             PROVE  abort'[d] = "no" /\ task'[d] # "aborted" /\ (d \in joined => task'[d] = "returned")
  BY DEF Tasks, NoneLost, runVars
<1>1. \A c \in Commits : abort[c] = "no" /\ task[c] # "aborted" /\ (c \in joined => task[c] = "returned")
  BY DEF NoneLost
<1>2. PICK c \in Commits :
        \/ Start(c) \/ Proceed(c) \/ Settle(c) \/ Publish(c) \/ Finish(c)
        \/ Panic(c) \/ Cancelled(c)
  BY DEF Tasks, TaskStep
<1>3. ~Cancelled(c)
  BY <1>1 DEF Cancelled
<1>4. /\ abort' = abort \/ abort' = [abort EXCEPT ![c] = "no"]
      /\ task' = task \/ \E t \in {"running", "returned", "panicked"} : task' = [task EXCEPT ![c] = t]
  BY <1>1, <1>2, <1>3
  DEF Start, Proceed, Settle, Establish, FinishFast, Fail, Publish, Finish, Panic, Step, Return
<1>5. d \in joined => task'[d] = task[d]
  BY TaskStepInv DEF Tasks, JoinInv
<1> QED
  BY <1>1, <1>4, <1>5 DEF TaskInv, TaskTypes

\* What is kept while the driver joins nothing and the report stays.
LEMMA DriverWaits ==
  ASSUME RunInv, TaskInv', fast' = fast,
         \A c \in Commits : Ended(c) => /\ task'[c] = task[c] /\ row'[c] = row[c]
                                       /\ base'[c] = base[c] /\ snap'[c] = snap[c],
         UNCHANGED <<mode, joined, triples, report>>, cancelled' \in BOOLEAN,
         phase' = phase, Reporting => cancelled' = cancelled
  PROVE  JoinInv' /\ ReportInv'
<1> USE DEF RunInv
<1>1. \A c \in joined : c \in Commits /\ Ended(c)
  BY DEF JoinInv
<1>2. Answered' = Answered
  BY <1>1 DEF Answered
<1>3. \A c \in Answered : ReturnedRow(c)' = ReturnedRow(c)
  BY <1>1 DEF Answered, ReturnedRow
<1>4. {ReturnedRow(c)' : c \in Answered'} = {ReturnedRow(c) : c \in Answered}
  BY <1>2, <1>3
<1>5. JoinInv'
  <2>1. \A c \in joined' : Ended(c)'
    BY <1>1 DEF Ended
  <2>2. triples' \in Seq({ReturnedRow(c)' : c \in Answered'})
    BY <1>4 DEF JoinInv
  <2>3. Have' = Have
    BY DEF Have
  <2> QED
    BY <1>2, <2>1, <2>2, <2>3 DEF JoinInv
<1>6. ASSUME Reporting, NEW i \in DOMAIN report PROVE Reports(i)'
  <2> DEFINE c == report[i].commit
  <2>1. c \in Commits /\ c \in joined /\ Reports(i)
    BY <1>6 DEF ReportInv, OneRowPerCommit, Reporting
  <2>2. Source(c)' = Source(c)
    BY <1>1, <2>1 DEF Source, SnapshotRow
  <2>3. Validated' = Validated /\ mode' = mode
    BY <1>6 DEF Validated
  <2>4. ShownOf(Source(c))' = ShownOf(Source(c))
    BY <2>2, <2>3 DEF ShownOf
  <2> QED
    BY <2>1, <2>2, <2>4 DEF Reports
<1>7. ReportInv'
  BY <1>6 DEF ReportInv, OneRowPerCommit, Reporting
<1> QED
  BY <1>5, <1>7

\* Steps of the tasks keep what the driver has gathered.
LEMMA TasksInv ==
  ASSUME RunInv, Tasks
  PROVE  RunInv'
<1>1. /\ TaskInv' /\ fast' = fast
      /\ \A c \in Commits : Ended(c) => /\ task'[c] = task[c] /\ row'[c] = row[c]
                                        /\ base'[c] = base[c] /\ snap'[c] = snap[c]
  BY TaskStepInv DEF Tasks, RunInv
<1>2. UNCHANGED <<mode, phase, joined, triples, report, cancelled>> /\ cancelled' \in BOOLEAN
  BY DEF Tasks, runVars, RunInv, JoinInv
<1>3. JoinInv' /\ ReportInv'
  BY <1>1, <1>2, DriverWaits
<1>4. NoneLost'
  BY NoneLostByTasks DEF RunInv
<1> QED
  BY <1>1, <1>3, <1>4 DEF RunInv

\* Ctrl-C cancels the run and asks the tasks to end.
LEMMA CtrlCInv ==
  ASSUME RunInv, CtrlC
  PROVE  RunInv'
<1>1. /\ TaskInv' /\ fast' = fast
      /\ \A c \in Commits : Ended(c) => /\ task'[c] = task[c] /\ row'[c] = row[c]
                                        /\ base'[c] = base[c] /\ snap'[c] = snap[c]
  BY TaskStepInv DEF CtrlC, RunInv
<1>2. /\ UNCHANGED <<mode, phase, joined, triples, report>> /\ cancelled' = TRUE
      /\ ~Reporting
  BY DEF CtrlC, Reporting
<1>3. JoinInv' /\ ReportInv'
  BY <1>1, <1>2, DriverWaits
<1>4. NoneLost'
  BY <1>2 DEF NoneLost
<1> QED
  BY <1>1, <1>3, <1>4 DEF RunInv

\* The task variables stay, or change only in who is to be aborted.
LEMMA Stays ==
  ASSUME TaskInv, UNCHANGED taskVars \/ AbortAll
  PROVE  TaskInv' /\ UNCHANGED <<fast, task, base, snap, row>>
<1>1. CASE AbortAll
  BY <1>1, TaskStepInv DEF AbortAll
<1>2. CASE UNCHANGED taskVars
  <2>1. UNCHANGED <<fast, task, base, snap, row, abort>>
    BY <1>2 DEF taskVars
  <2>2. \A c \in Commits : Promised(c)'
    BY <2>1, Untouched DEF TaskInv
  <2> QED
    BY <2>1, <2>2 DEF TaskInv, TaskTypes
<1> QED
  BY <1>1, <1>2

\* A task that is joined in time hands its row to the driver.
LEMMA JoinReturnedInv ==
  ASSUME RunInv, NEW c \in Commits, JoinReturned(c)
  PROVE  RunInv'
<1> USE DEF RunInv
<1>1. /\ task[c] = "returned" /\ phase = "joining" /\ c \notin joined
      /\ joined' = joined \cup {c} /\ triples' = Append(triples, ReturnedRow(c))
      /\ UNCHANGED <<taskVars, mode, phase, cancelled, report>>
  BY DEF JoinReturned, Take, JoinNextPolled, ReturnedRow
<1>2. TaskInv' /\ UNCHANGED <<fast, task, base, snap, row>>
  BY <1>1, Stays
<1>3. Answered' = Answered \cup {c} /\ c \notin Answered
  BY <1>1, <1>2 DEF Answered
<1> DEFINE T == {ReturnedRow(d) : d \in Answered}
           T2 == {ReturnedRow(d) : d \in Answered'}
<1>4. triples \in Seq(T) /\ Have = Answered
  BY DEF JoinInv
<1>5. T \subseteq T2 /\ ReturnedRow(c) \in T2
  BY <1>3
<1>6. T2 = {ReturnedRow(d)' : d \in Answered'}
  BY <1>2 DEF ReturnedRow
<1>7. ReturnedRow(c).commit = c
  BY DEF ReturnedRow
<1> HIDE DEF T, T2
<1>8. triples \in Seq(T2)
  <2>1. \A i \in DOMAIN triples : triples[i] \in T2
    BY <1>4, <1>5
  <2> QED
    BY <1>4, <2>1, ListIn
<1>9. /\ triples' \in Seq(T2) /\ DOMAIN triples' = 1..(Len(triples) + 1)
      /\ DOMAIN triples = 1..Len(triples) /\ Len(triples) \in Nat
      /\ triples'[Len(triples) + 1] = ReturnedRow(c)
      /\ \A i \in DOMAIN triples : triples'[i] = triples[i]
  BY <1>1, <1>5, <1>8
<1>10. \A i \in DOMAIN triples : triples[i].commit # c
  BY <1>3, <1>4 DEF Have
<1>11. ASSUME NEW i \in DOMAIN triples', NEW j \in DOMAIN triples', triples'[i].commit = triples'[j].commit
       PROVE  i = j
  <2>1. \A k \in DOMAIN triples' : k \in DOMAIN triples \/ k = Len(triples) + 1
    BY <1>9
  <2>2. \A k, l \in DOMAIN triples : triples[k].commit = triples[l].commit => k = l
    BY DEF JoinInv
  <2> QED
    BY <1>7, <1>9, <1>10, <1>11, <2>1, <2>2
<1>12. Have' = Have \cup {c}
  <2>1. DOMAIN triples' = DOMAIN triples \cup {Len(triples) + 1}
    BY <1>9
  <2>2. ASSUME NEW i \in DOMAIN triples PROVE triples'[i].commit = triples[i].commit
    BY <1>9
  <2> QED
    BY <1>7, <1>9, <2>1, <2>2 DEF Have
<1>13. JoinInv'
  <2>1. \A d \in joined' : Ended(d)'
    BY <1>1, <1>2 DEF JoinInv, Ended
  <2> QED
    BY <1>1, <1>3, <1>4, <1>6, <1>9, <1>11, <1>12, <2>1 DEF JoinInv
<1>14. NoneLost'
  BY <1>1, <1>2 DEF NoneLost, taskVars
<1>15. ReportInv'
  BY <1>1 DEF ReportInv, OneRowPerCommit, Reporting
<1> QED
  BY <1>2, <1>13, <1>14, <1>15

\* A task without a row is joined.
LEMMA JoinRowless ==
  ASSUME RunInv, NEW c \in Commits, JoinLost(c) \/ JoinPanicked(c)
  PROVE  RunInv'
<1> USE DEF RunInv
<1>1. /\ task[c] \in {"aborted", "panicked"} /\ phase = "joining"
      /\ joined' = joined \cup {c} /\ UNCHANGED <<mode, triples, cancelled, report>>
      /\ phase' \in {"joining", "failed"}
      /\ UNCHANGED taskVars \/ AbortAll
  BY DEF JoinLost, JoinPanicked, Take, JoinNextPolled
<1>2. TaskInv' /\ UNCHANGED <<fast, task, base, snap, row>>
  BY <1>1, Stays
<1>3. Answered' = Answered
  BY <1>1, <1>2 DEF Answered
<1>4. {ReturnedRow(d)' : d \in Answered'} = {ReturnedRow(d) : d \in Answered}
  BY <1>2, <1>3 DEF ReturnedRow
<1>5. JoinInv'
  <2>1. \A d \in joined' : Ended(d)'
    BY <1>1, <1>2 DEF JoinInv, Ended
  <2>2. triples' \in Seq({ReturnedRow(d)' : d \in Answered'})
    BY <1>1, <1>4 DEF JoinInv
  <2>3. Have' = Have
    BY <1>1 DEF Have
  <2> QED
    BY <1>1, <1>3, <2>1, <2>2, <2>3 DEF JoinInv
<1>6. NoneLost'
  <2>1. CASE JoinPanicked(c)
    BY <2>1 DEF JoinPanicked, NoneLost
  <2>2. CASE JoinLost(c)
    BY <1>1, <1>2, <2>2 DEF JoinLost, NoneLost, taskVars
  <2> QED
    BY <2>1, <2>2
<1>7. ReportInv'
  BY <1>1 DEF ReportInv, OneRowPerCommit, Reporting
<1> QED
  BY <1>2, <1>5, <1>6, <1>7

\* The rows that Ctrl-C leaves out are filled in, and all are sorted.
LEMMA CollectInv ==
  ASSUME RunInv, Collect
  PROVE  RunInv'
<1> USE DEF RunInv
<1> DEFINE made(c) == [commit |-> c, value |-> Source(c)]
           S == {made(c) : c \in Commits}
           I == IF cancelled THEN Commits \ Have ELSE {}
           f == [c \in Commits |-> [commit |-> c, value |-> SnapshotRow(snap[c])]]
           rows == triples \o Filled
<1>1. /\ phase = "joining" /\ joined = Commits /\ report' = Sorted(rows) /\ phase' = "collected"
      /\ UNCHANGED <<taskVars, mode, joined, triples, cancelled>>
  BY DEF Collect, JoinNextPolled
<1>2. Have = {c \in Commits : task[c] = "returned"} /\ Have \cup I = Commits /\ Have \cap I = {}
  <2>1. Have = {c \in Commits : task[c] = "returned"}
    BY <1>1 DEF JoinInv, Answered
  <2>2. ~cancelled => Have = Commits
    BY <1>1, <2>1 DEF NoneLost
  <2> QED
    BY <2>1, <2>2
<1>3. triples \in Seq(S)
  <2>1. triples \in Seq({ReturnedRow(c) : c \in Answered})
    BY DEF JoinInv
  <2>2. \A c \in Answered : c \in Commits /\ ReturnedRow(c) = made(c)
    BY <1>1 DEF Answered, ReturnedRow, Source
  <2>3. {ReturnedRow(c) : c \in Answered} \subseteq S
    BY <2>2
  <2> HIDE DEF S
  <2>4. \A i \in DOMAIN triples : triples[i] \in S
    BY <2>1, <2>3
  <2> QED
    BY <2>1, <2>4, ListIn
<1>4. /\ Filled \in Seq({f[c] : c \in I}) /\ ToSet(Filled) = {f[c] : c \in I}
      /\ \A i, j \in DOMAIN Filled : Filled[i] = Filled[j] => i = j
  <2>1. I \in SUBSET Nat /\ IsFiniteSet(I)
    BY CommitTaskAssumption, ReviewRunAssumption, FS_Subset, FS_EmptySet
  <2>2. \A i, j \in I : f[i] = f[j] => i = j
    <3>1. \A i \in I : f[i].commit = i
      OBVIOUS
    <3> HIDE DEF f
    <3> QED
      BY <3>1
  <2>3. Filled = Subsequence(f, I)
    BY DEF Filled
  <2> HIDE DEF f, I
  <2> QED
    BY <2>1, <2>2, <2>3, SubsequenceElements
<1>5. \A c \in I : f[c] = made(c)
  BY <1>2 DEF Source
<1>6. \A c \in Commits : made(c).commit = c
  OBVIOUS
<1>7. I \subseteq Commits /\ \A c \in I : f[c].commit = c
  BY <1>5, <1>6
<1> HIDE DEF I, f
<1>8. Filled \in Seq(S)
  <2>1. \A i \in DOMAIN Filled : \E c \in I : Filled[i] = f[c]
    BY <1>4
  <2>2. \A i \in DOMAIN Filled : Filled[i] \in S
    BY <1>5, <1>7, <2>1
  <2> HIDE DEF S
  <2> QED
    BY <1>4, <2>2, ListIn
<1>9. {Filled[i].commit : i \in DOMAIN Filled} = I
  <2>1. \A i \in DOMAIN Filled : \E c \in I : Filled[i] = f[c]
    BY <1>4
  <2>2. \A c \in I : \E i \in DOMAIN Filled : Filled[i] = f[c]
    BY <1>4 DEF ToSet
  <2> QED
    BY <1>7, <2>1, <2>2
<1>10. \A i, j \in DOMAIN Filled : Filled[i].commit = Filled[j].commit => i = j
  <2>1. \A i \in DOMAIN Filled : \E c \in I : Filled[i] = f[c]
    BY <1>4
  <2> QED
    BY <1>4, <1>7, <2>1
<1>11. /\ rows \in Seq(S) /\ DOMAIN triples = 1..Len(triples) /\ DOMAIN Filled = 1..Len(Filled)
       /\ Len(triples) \in Nat /\ Len(Filled) \in Nat
       /\ DOMAIN rows = 1..(Len(triples) + Len(Filled))
       /\ \A i \in DOMAIN triples : rows[i] = triples[i]
       /\ \A i \in DOMAIN Filled : rows[Len(triples) + i] = Filled[i]
  <2> HIDE DEF S
  <2> QED
    BY <1>3, <1>8
<1>12. \A i \in DOMAIN rows :
         \/ i \in DOMAIN triples /\ rows[i] = triples[i]
         \/ i - Len(triples) \in DOMAIN Filled /\ rows[i] = Filled[i - Len(triples)]
  <2> HIDE DEF rows, S
  <2>1. ASSUME NEW i \in DOMAIN rows, i \notin DOMAIN triples
        PROVE  i - Len(triples) \in DOMAIN Filled /\ rows[i] = Filled[i - Len(triples)]
    <3>1. i - Len(triples) \in 1..Len(Filled) /\ i = Len(triples) + (i - Len(triples))
      BY <1>11, <2>1
    <3> QED
      BY <1>11, <3>1
  <2> QED
    BY <1>11, <2>1
<1>13. ASSUME NEW i \in DOMAIN rows, NEW j \in DOMAIN rows, rows[i].commit = rows[j].commit
       PROVE  i = j
  <2> HIDE DEF rows, S
  <2>1. \A k \in DOMAIN triples : triples[k].commit \in Have
    BY DEF Have
  <2>2. \A k \in DOMAIN Filled : Filled[k].commit \in I
    BY <1>9
  <2>3. \A k, l \in DOMAIN triples : triples[k].commit = triples[l].commit => k = l
    BY DEF JoinInv
  <2>4. i \in DOMAIN triples <=> j \in DOMAIN triples
    <3>1. ASSUME NEW k \in DOMAIN rows, k \in DOMAIN triples PROVE rows[k].commit \in Have
      BY <1>11, <2>1, <3>1
    <3>2. ASSUME NEW k \in DOMAIN rows, k \notin DOMAIN triples PROVE rows[k].commit \in I
      BY <1>12, <2>2, <3>2
    <3> QED
      BY <1>2, <1>13, <3>1, <3>2
  <2>5. i \in Int /\ j \in Int /\ Len(triples) \in Int
    BY <1>11
  <2>6. CASE i \in DOMAIN triples
    BY <1>12, <1>11, <1>13, <2>3, <2>4, <2>6
  <2>7. CASE i \notin DOMAIN triples
    <3>1. i - Len(triples) = j - Len(triples)
      BY <1>10, <1>12, <1>13, <2>4, <2>7
    <3> QED
      BY <2>5, <3>1
  <2> QED
    BY <2>6, <2>7
<1>14. {rows[i].commit : i \in DOMAIN rows} = Commits
  <2> HIDE DEF rows, S
  <2>1. \A i \in DOMAIN rows : rows[i].commit \in Have \cup I
    BY <1>9, <1>12 DEF Have
  <2>2. ASSUME NEW c \in Have PROVE \E i \in DOMAIN rows : rows[i].commit = c
    <3>1. PICK i \in DOMAIN triples : triples[i].commit = c
      BY DEF Have
    <3>2. i \in DOMAIN rows
      BY <1>11, <3>1
    <3> QED
      BY <1>11, <3>1, <3>2
  <2>3. ASSUME NEW c \in I PROVE \E i \in DOMAIN rows : rows[i].commit = c
    <3>1. PICK i \in DOMAIN Filled : Filled[i].commit = c
      BY <1>9
    <3>2. Len(triples) + i \in DOMAIN rows
      BY <1>11, <3>1
    <3> QED
      BY <1>11, <3>1, <3>2
  <2> QED
    BY <1>2, <2>1, <2>2, <2>3
<1>15. \A r \in S : r.commit \in Nat /\ r = made(r.commit)
  BY <1>6, ReviewRunAssumption
<1> DEFINE sorted == Sorted(rows)
<1>16. /\ ToSet(sorted) = ToSet(rows)
       /\ \A i, j \in DOMAIN sorted : i < j => sorted[i].commit < sorted[j].commit
  <2> HIDE DEF rows, S
  <2> QED
    BY <1>11, <1>13, <1>15, SortedRows
<1>17. \A i \in DOMAIN rows : rows[i] \in S
  <2> HIDE DEF rows, S
  <2> QED
    BY <1>11
<1> HIDE DEF sorted, rows, S
<1>18. {sorted[i].commit : i \in DOMAIN sorted} = Commits
  BY SMTT(30), <1>14, <1>16 DEF ToSet
<1>19. \A i \in DOMAIN sorted : sorted[i] = made(sorted[i].commit)
  BY <1>15, <1>16, <1>17 DEF ToSet
<1>20. TaskInv' /\ UNCHANGED <<fast, task, base, snap, row>>
  BY <1>1, Stays
<1>21. \A c : Source(c)' = Source(c)
  BY <1>20 DEF Source, SnapshotRow
<1>22. report' = sorted
  BY <1>1 DEF sorted, rows
<1>23. ReportInv'
  <2>1. OneRowPerCommit'
    BY <1>16, <1>18, <1>22 DEF OneRowPerCommit
  <2>2. \A i \in DOMAIN report' : Reports(i)'
    BY <1>1, <1>19, <1>21, <1>22 DEF Reports
  <2> QED
    BY <1>1, <2>1, <2>2 DEF ReportInv
<1>24. JoinInv'
  <2>1. {ReturnedRow(d)' : d \in Answered'} = {ReturnedRow(d) : d \in Answered}
    BY <1>1, <1>20 DEF ReturnedRow, Answered
  <2>2. Have' = Have /\ Answered' = Answered /\ \A c : Ended(c)' <=> Ended(c)
    BY <1>1, <1>20 DEF Have, Answered, Ended
  <2> QED
    BY <1>1, <2>1, <2>2 DEF JoinInv
<1>25. NoneLost'
  BY <1>1, <1>20 DEF NoneLost, taskVars
<1> QED
  BY <1>20, <1>23, <1>24, <1>25

\* Validation, or the merge that replaces it.
LEMMA MergeReportInv ==
  ASSUME RunInv, MergeReport
  PROVE  RunInv'
<1> USE DEF RunInv
<1>1. /\ phase = "collected" /\ phase' = "merged"
      /\ UNCHANGED <<taskVars, mode, joined, triples, cancelled>>
  BY DEF MergeReport
<1>2. TaskInv' /\ UNCHANGED <<fast, task, base, snap, row>>
  BY <1>1, Stays
<1>3. PICK shown :
        /\ \A i \in DOMAIN report : shown[i] \in ShownOf(report[i].value)
        /\ report' = [i \in DOMAIN report |->
                       [report[i] EXCEPT !.value.findings = shown[i], !.value.additions = <<>>]]
  BY DEF MergeReport
<1>4. /\ joined = Commits /\ OneRowPerCommit
      /\ \A i \in DOMAIN report : report[i].commit \in Commits /\ Reports(i)
  BY <1>1 DEF ReportInv, Reporting, OneRowPerCommit
<1>5. ASSUME NEW i \in DOMAIN report
      PROVE  /\ report'[i].commit = report[i].commit
             /\ report'[i].value.findings = shown[i]
             /\ report'[i].value.partial = Source(report[i].commit).partial
  <2> DEFINE c == report[i].commit
             v == Source(c)
  <2>1. report[i] = [commit |-> c, value |-> v]
    BY <1>1, <1>4 DEF Reports
  <2>2. DOMAIN v = {"findings", "additions", "error", "partial"}
    BY <1>4, SourceIs
  <2>3. report'[i] = [report[i] EXCEPT !.value.findings = shown[i], !.value.additions = <<>>]
    BY <1>3
  <2> HIDE DEF v
  <2>4. PICK d : report[i] = [commit |-> d, value |-> v] /\ d = c
    BY <2>1
  <2>5. report'[i].commit = d /\ report'[i].value = [[v EXCEPT !.findings = shown[i]] EXCEPT !.additions = <<>>]
    BY <2>3, <2>4
  <2> QED
    BY <2>2, <2>4, <2>5 DEF v
<1>7. \A v : ShownOf(v)' = ShownOf(v)
  <2>1. Validated' = Validated /\ mode' = mode
    BY <1>1, <1>2 DEF Validated
  <2> QED
    BY <2>1 DEF ShownOf
<1>8. \A c : Source(c)' = Source(c)
  BY <1>2 DEF Source, SnapshotRow
<1>9. DOMAIN report' = DOMAIN report
  BY <1>3
<1>10. ASSUME NEW i \in DOMAIN report' PROVE Reports(i)'
  <2>1. shown[i] \in ShownOf(Source(report[i].commit))
    <3>1. report[i] = [commit |-> report[i].commit, value |-> Source(report[i].commit)]
      BY <1>1, <1>4, <1>9 DEF Reports
    <3>2. PICK c, v : report[i] = [commit |-> c, value |-> v] /\ v = Source(report[i].commit)
      BY <3>1
    <3>3. report[i].value = v
      BY ONLY <3>2
    <3> QED
      BY <1>3, <1>9, <3>2, <3>3
  <2> QED
    BY <1>1, <1>5, <1>7, <1>8, <1>9, <2>1 DEF Reports
<1>11. OneRowPerCommit'
  BY <1>1, <1>4, <1>5, <1>9 DEF OneRowPerCommit
<1>12. ReportInv'
  BY <1>1, <1>4, <1>10, <1>11 DEF ReportInv
<1>13. JoinInv'
  <2>1. {ReturnedRow(d)' : d \in Answered'} = {ReturnedRow(d) : d \in Answered}
    BY <1>1, <1>2 DEF ReturnedRow, Answered
  <2>2. Have' = Have /\ Answered' = Answered /\ \A c : Ended(c)' <=> Ended(c)
    BY <1>1, <1>2 DEF Have, Answered, Ended
  <2> QED
    BY <1>1, <2>1, <2>2 DEF JoinInv
<1>14. NoneLost'
  BY <1>1, <1>2 DEF NoneLost, taskVars
<1> QED
  BY <1>2, <1>12, <1>13, <1>14

\* Prose, the summary and stuttering change nothing of all this.
LEMMA RestInv ==
  ASSUME RunInv,
         \/ \E i \in DOMAIN report : RenderCommit(i)
         \/ PrintReport
         \/ UNCHANGED vars
  PROVE  RunInv'
<1> USE DEF RunInv
<1>1. UNCHANGED <<taskVars, mode, joined, triples, cancelled, report>>
  BY DEF RenderCommit, PrintReport, vars, runVars
<1>2. phase' = phase \/ (phase = "merged" /\ phase' = "printed")
  BY DEF RenderCommit, PrintReport, vars, runVars
<1>3. TaskInv' /\ UNCHANGED <<fast, task, base, snap, row>>
  BY <1>1, Stays
<1>4. JoinInv'
  <2>1. {ReturnedRow(d)' : d \in Answered'} = {ReturnedRow(d) : d \in Answered}
    BY <1>1, <1>3 DEF ReturnedRow, Answered
  <2>2. Have' = Have /\ Answered' = Answered /\ \A c : Ended(c)' <=> Ended(c)
    BY <1>1, <1>3 DEF Have, Answered, Ended
  <2> QED
    BY <1>1, <1>2, <2>1, <2>2 DEF JoinInv
<1>5. NoneLost'
  BY <1>1, <1>2, <1>3 DEF NoneLost, taskVars
<1>6. ReportInv'
  <2>1. /\ \A c : Source(c)' = Source(c)
        /\ Validated' = Validated /\ mode' = mode
    BY <1>1, <1>3 DEF Source, SnapshotRow, Validated
  <2>2. \A v : ShownOf(v)' = ShownOf(v)
    BY <2>1 DEF ShownOf
  <2>3. OneRowPerCommit'
    BY <1>1, <1>2 DEF ReportInv, OneRowPerCommit
  <2>4. ASSUME Reporting', NEW i \in DOMAIN report' PROVE Reports(i)'
    <3>1. Reports(i)
      BY <1>1, <1>2, <2>4 DEF ReportInv, Reporting
    <3> QED
      BY <1>1, <1>2, <2>1, <2>2, <3>1 DEF Reports
  <2> QED
    BY <1>1, <1>2, <2>3, <2>4 DEF ReportInv, Reporting
<1> QED
  BY <1>3, <1>4, <1>5, <1>6

\* The invariant of a run: tasks keep their promises, the driver has the rows
\* of those that it has joined and that returned, no task is lost before
\* Ctrl-C, and the report is made of these rows and of the snapshots.
THEOREM RunInvariant == Spec => []RunInv
<1>1. ASSUME RunInv, [Next]_vars PROVE RunInv'
  <2>1. CASE Tasks
    BY <1>1, <2>1, TasksInv
  <2>2. CASE CtrlC
    BY <1>1, <2>2, CtrlCInv
  <2>3. CASE \E c \in Commits : JoinReturned(c) \/ JoinLost(c) \/ JoinPanicked(c)
    BY <1>1, <2>3, JoinReturnedInv, JoinRowless
  <2>4. CASE Collect
    BY <1>1, <2>4, CollectInv
  <2>5. CASE MergeReport
    BY <1>1, <2>5, MergeReportInv
  <2>6. CASE PrintReport \/ (\E i \in DOMAIN report : RenderCommit(i)) \/ UNCHANGED vars
    BY <1>1, <2>6, RestInv
  <2> QED
    BY <1>1, <2>1, <2>2, <2>3, <2>4, <2>5, <2>6 DEF Next, Driver
<1> QED
  BY <1>1, RunInit, PTL DEF Spec

\* The tasks of a run take the steps that CommitTask lets them take, and no
\* others: what the stages of a review implement is what the driver runs.
THEOREM TasksAsPromised == Spec => TaskSpec
<1>1. Init => TaskInit
  BY DEF Init
<1>2. ASSUME [Next]_vars PROVE [TaskStep \/ AbortAll]_taskVars
  <2>1. CASE Tasks
    BY <2>1 DEF Tasks
  <2>2. CASE CtrlC
    BY <2>2 DEF CtrlC
  <2>3. CASE Driver
    <3>1. \/ UNCHANGED taskVars
          \/ \E c \in Commits : JoinPanicked(c)
      BY <2>3 DEF Driver, JoinReturned, JoinLost, Collect, MergeReport, PrintReport, RenderCommit
    <3> QED
      BY <3>1 DEF JoinPanicked
  <2>4. CASE UNCHANGED vars
    BY <2>4 DEF vars
  <2> QED
    BY <1>2, <2>1, <2>2, <2>3, <2>4 DEF Next
<1> QED
  BY <1>1, <1>2, PTL DEF Spec, TaskSpec

\* Each commit of the range has one row in the report, in the order of the
\* range, whatever order the tasks end in and however they end.
THEOREM RowsAreTheRange == Spec => []OneRowPerCommit
<1>1. RunInv => OneRowPerCommit
  BY DEF RunInv, ReportInv
<1> QED
  BY <1>1, RunInvariant, PTL

\* A row that is marked partial is that of a task that did not return, and
\* shows exactly what the task had published.
THEOREM PartialRowsAreSnapshots == Spec => []PartialIsSnapshot
<1>1. ASSUME RunInv, phase = "printed", NEW i \in DOMAIN report
      PROVE  LET c == report[i].commit
             IN /\ report[i].value.partial <=> task[c] # "returned"
                /\ report[i].value.partial => report[i].value.findings = snap[c].findings
  <2> DEFINE c == report[i].commit
             v == Source(c)
             shown == report[i].value.findings
  <2>1. c \in Commits /\ joined = Commits /\ Reports(i)
    BY <1>1 DEF RunInv, ReportInv, Reporting, OneRowPerCommit
  <2>2. report[i].value.partial = v.partial /\ shown \in ShownOf(v)
    BY <1>1, <2>1 DEF Reports
  <2>3. /\ v.partial <=> task[c] # "returned"
        /\ task[c] # "returned" => v.findings = snap[c].findings /\ v.additions = <<>>
    BY <1>1, <2>1, SourceIs DEF RunInv
  <2>4. ASSUME task[c] # "returned" PROVE shown = snap[c].findings
    <3>1. cancelled
      BY <1>1, <2>1, <2>4 DEF RunInv, NoneLost
    <3>2. shown = MergeNovel(v.findings, <<>>)
      <4> HIDE DEF v, shown
      <4>1. v.additions = <<>> /\ ~Validated
        BY <2>3, <2>4, <3>1 DEF Validated
      <4> QED
        BY <2>2, <4>1 DEF ShownOf
    <3> QED
      BY <2>3, <2>4, <3>2, MergeEmpty
  <2> QED
    BY <2>2, <2>3, <2>4
<1>2. RunInv => PartialIsSnapshot
  BY <1>1 DEF PartialIsSnapshot
<1> QED
  BY <1>2, RunInvariant, PTL

\* The upstream fixes that a task has found are in its row of the report,
\* whether the task returned or was aborted, validated or not.
THEOREM UpstreamFixesShown == Spec => []UpstreamFixShown
<1>1. ASSUME RunInv, phase = "printed", NEW i \in DOMAIN report,
             NEW f \in ToSet(base[report[i].commit]), FromGit(f),
             base[report[i].commit] # None
      PROVE  f \in ToSet(report[i].value.findings)
  <2> DEFINE c == report[i].commit
             v == Source(c)
             shown == report[i].value.findings
  <2>1. c \in Commits /\ joined = Commits /\ Reports(i)
    BY <1>1 DEF RunInv, ReportInv, Reporting, OneRowPerCommit
  <2>2. shown \in ShownOf(v)
    BY <1>1, <2>1 DEF Reports
  <2>3. base[c] \in Baselines /\ Promised(c)
    BY <1>1, <2>1 DEF RunInv, TaskInv, TaskTypes
  <2>4. f \in ToSet(v.findings)
    <3>1. CASE task[c] = "returned"
      <4>1. v.findings = Cleaned(base[c])
        BY <1>1, <2>1, <3>1, SourceIs DEF RunInv
      <4>2. f \in ToSet(Cleaned(base[c]))
        BY <1>1, <2>3, FixCleaned
      <4> QED
        BY <4>1, <4>2
    <3>2. CASE task[c] # "returned"
      <4>1. v.findings = snap[c].findings
        BY <1>1, <2>1, <3>2, SourceIs DEF RunInv
      <4>2. PICK a \in AdditionLists : snap[c].findings = MergeNovel(base[c], a)
        BY <1>1, <2>3 DEF Promised, Shares
      <4>3. base[c] \in Seq(Elements) /\ a \in Seq(Elements)
        BY <2>3, ListOfTask DEF Lists
      <4>4. ToSet(base[c]) \subseteq ToSet(MergeNovel(base[c], a))
        BY <4>3, MergeKeepsBase
      <4> QED
        BY <1>1, <4>1, <4>2, <4>4
    <3> QED
      BY <3>1, <3>2
  <2>5. PICK S, T : v.findings \in Seq(S) /\ v.additions \in Seq(T)
    BY <1>1, <2>1, SourceIs DEF RunInv
  <2> HIDE DEF v, shown
  <2>6. f \in ToSet(shown)
    BY <1>1, <2>2, <2>4, <2>5, FixShown DEF FromGit
  <2> QED
    BY <2>6 DEF shown
<1>2. RunInv => UpstreamFixShown
  BY <1>1 DEF UpstreamFixShown
<1> QED
  BY <1>2, RunInvariant, PTL
-----------------------------------------------------------------------------
(***************************************************************************)
(* The texts of the report.                                                *)
(***************************************************************************)
\* FirstOf has elements of the list, at their places.
LEMMA FirstOfList ==
  ASSUME NEW S, NEW s \in Seq(S), NEW n \in Nat
  PROVE  /\ FirstOf(s, n) \in Seq(S)
         /\ \A k \in DOMAIN FirstOf(s, n) : k \in DOMAIN s /\ FirstOf(s, n)[k] = s[k]
<1> DEFINE m == IF Len(s) < n THEN Len(s) ELSE n
<1>1. m \in Nat /\ m <= Len(s) /\ DOMAIN s = 1..Len(s)
  OBVIOUS
<1> HIDE DEF m
<1>2. /\ SubSeq(s, 1, m) \in Seq(S) /\ DOMAIN SubSeq(s, 1, m) = 1..m
      /\ \A k \in 1..m : SubSeq(s, 1, m)[k] = s[k]
  BY <1>1
<1> QED
  BY <1>1, <1>2 DEF FirstOf, m

\* A highlight that is resolved is of a finding that the report has, and has
\* its severity; two of them are not of the same.
LEMMA HighlightsAreFindings ==
  ASSUME NEW S, NEW highlights \in Seq(S), NEW rows
  PROVE  LET r == Resolved(highlights, rows)
         IN \A j, k \in DOMAIN r :
              /\ r[k].ref \in Refs(rows)
              /\ r[k].severity = SeverityOf(rows[r[k].ref[1]][r[k].ref[2]])
              /\ r[k].ref = r[j].ref => j = k
<1> DEFINE ref(k) == highlights[k].ref
           severity(v) == SeverityOf(rows[v[1]][v[2]])
           known == {k \in DOMAIN highlights : ref(k) \in Refs(rows) /\ severity(ref(k)) \in Canonical}
           fresh == {k \in known : \A j \in 1..(k - 1) : ref(j) # ref(k)}
           s == Subsequence(highlights, fresh)
           of(h) == [ref |-> h.ref, severity |-> severity(h.ref)]
           e == [i \in DOMAIN s |-> of(s[i])]
           r == Resolved(highlights, rows)
<1>1. r = FirstOf(<<>> \o e, MaxHighlights)
  BY Zenon DEF Resolved, Each
<1>2. fresh \in SUBSET Nat /\ IsFiniteSet(fresh)
  <2>1. fresh \in SUBSET DOMAIN highlights
    OBVIOUS
  <2> HIDE DEF fresh
  <2> QED
    BY <2>1, Indices
<1>3. \A i, j \in fresh : ref(i) = ref(j) => i = j
  <2>1. ASSUME NEW i \in fresh, NEW j \in fresh, i < j PROVE ref(i) # ref(j)
    <3>1. i \in 1..(j - 1)
      BY <1>2, <2>1
    <3> QED
      BY <3>1
  <2> HIDE DEF fresh, ref
  <2>2. \A i, j \in fresh : i < j \/ j < i \/ i = j
    BY <1>2
  <2> QED
    BY <2>1, <2>2
<1>4. \A i \in fresh : ref(i) \in Refs(rows)
  OBVIOUS
<1>5. /\ s \in Seq({highlights[i] : i \in fresh})
      /\ \A i, j \in DOMAIN s : s[i] = s[j] => i = j
  <2>1. \A i, j \in fresh : highlights[i] = highlights[j] => i = j
    BY <1>3
  <2> HIDE DEF fresh
  <2> QED
    BY <1>2, <2>1, SubsequenceElements
<1> HIDE DEF fresh
<1>6. \A i \in DOMAIN s : \E k \in fresh : s[i] = highlights[k]
  <2> HIDE DEF s
  <2> QED
    BY <1>5
<1> HIDE DEF s
<1>7. \A i \in DOMAIN s : s[i].ref \in Refs(rows)
  BY <1>4, <1>6
<1>8. \A i, j \in DOMAIN s : s[i].ref = s[j].ref => i = j
  BY <1>3, <1>5, <1>6
<1>9. /\ <<>> \o e = e /\ e \in Seq({e[i] : i \in DOMAIN s}) /\ DOMAIN e = DOMAIN s
      /\ \A i \in DOMAIN s : e[i] = of(s[i])
  <2>1. Len(s) \in Nat /\ DOMAIN s = 1..Len(s)
    BY <1>5
  <2>2. /\ e = [i \in 1..Len(s) |-> e[i]]
        /\ \A i \in 1..Len(s) : e[i] \in {e[k] : k \in DOMAIN s}
    BY <2>1
  <2>3. \A i \in DOMAIN s : e[i] = of(s[i])
    OBVIOUS
  <2> HIDE DEF e
  <2>4. <<>> \o e = e /\ e \in Seq({e[i] : i \in DOMAIN s}) /\ DOMAIN e = 1..Len(s)
    BY <2>1, <2>2, Listed
  <2> QED
    BY <2>1, <2>3, <2>4
<1> HIDE DEF e
<1>10. \A k \in DOMAIN r : k \in DOMAIN s /\ r[k] = of(s[k])
  <2>1. r = FirstOf(e, MaxHighlights) /\ MaxHighlights \in Nat
    BY <1>1, <1>9, ReportTextsAssumption
  <2> HIDE DEF r
  <2>2. \A k \in DOMAIN r : k \in DOMAIN e /\ r[k] = e[k]
    BY <1>9, <2>1, FirstOfList
  <2> QED
    BY <1>9, <2>2
<1> HIDE DEF r
<1>11. \A k \in DOMAIN r : r[k].ref = s[k].ref /\ r[k].severity = severity(s[k].ref)
  BY <1>10
<1> QED
  BY <1>7, <1>8, <1>10, <1>11 DEF r

\* The findings of the first k rows that have severity s.
RefsUpTo(rows, s, k) ==
  {ref \in UNION {{i} \X DOMAIN rows[i] : i \in 1..k} : SeverityOf(rows[ref[1]][ref[2]]) = s}

\* Row by row, the counts of the summary count them all.
LEMMA CountsAreTold ==
  ASSUME NEW n \in Nat, NEW rows, DOMAIN rows = 1..n,
         \A i \in 1..n : IsFiniteSet(DOMAIN rows[i]),
         NEW s \in Canonical
  PROVE  Counts(rows)[s] = Cardinality({ref \in Refs(rows) : SeverityOf(rows[ref[1]][ref[2]]) = s})
<1> DEFINE K(i) == {k \in DOMAIN rows[i] : SeverityOf(rows[i][k]) = s}
           R(k) == RefsUpTo(rows, s, k)
           Made(g) == g = [t \in SUBSET (1..n) |->
                            IF t = {} THEN 0 ELSE g[t \ {Max(t)}] + Cardinality(K(Max(t)))]
           all == CHOOSE g : Made(g)
<1>1. \A i \in 1..n : IsFiniteSet(K(i)) /\ Cardinality(K(i)) \in Nat
  <2>1. \A i \in 1..n : K(i) \in SUBSET DOMAIN rows[i]
    OBVIOUS
  <2> HIDE DEF K
  <2> QED
    BY <2>1, FS_Subset, FS_CardinalityType
<1>2. Made(all)
  <2> DEFINE F == [q \in Nat \X (1..n) |-> q[1] + Cardinality(K(q[2]))]
  <2>1. F \in [Nat \X (1..n) -> Nat]
    <3> HIDE DEF K
    <3> QED
      BY <1>1
  <2>2. PICK g : Folds(g, Nat, 0, F, n)
    <3> HIDE DEF F
    <3> QED
      BY <2>1, FoldExists
  <2>3. ASSUME NEW t \in SUBSET (1..n), t # {}
        PROVE  g[t] = g[t \ {Max(t)}] + Cardinality(K(Max(t)))
    <3> DEFINE m == Max(t)
    <3>1. m \in 1..n
      BY <2>3, MaxOf
    <3> HIDE DEF m, K, F
    <3>2. g[t \ {m}] \in Nat /\ g[t] = F[<<g[t \ {m}], m>>]
      BY <2>2, <2>3 DEF Folds, m
    <3>3. PICK q : q = <<g[t \ {m}], m>> /\ q \in Nat \X (1..n) /\ q[1] = g[t \ {m}] /\ q[2] = m
      <4> DEFINE w == <<g[t \ {m}], m>>
      <4>1. g[t \ {m}] \in Nat
        BY <3>2
      <4>2. w \in Nat \X (1..n) /\ w[1] = g[t \ {m}] /\ w[2] = m
        BY <3>1, <4>1
      <4>3. w = <<g[t \ {m}], m>>
        OBVIOUS
      <4> HIDE DEF w
      <4> QED
        BY <4>2, <4>3
    <3>4. F[q] = q[1] + Cardinality(K(q[2]))
      BY <3>3 DEF F
    <3> QED
      BY <3>2, <3>3, <3>4 DEF m
  <2>4. g = [t \in SUBSET (1..n) |-> g[t]] /\ g[{}] = 0
    BY <2>2 DEF Folds
  <2>5. Made(g)
    <3> HIDE DEF K
    <3> QED
      BY <2>3, <2>4
  <2> HIDE DEF Made
  <2> QED
    BY <2>5
<1>3. Counts(rows)[s] = all[1..n]
  <2> DEFINE raw == CHOOSE g : g = [t \in SUBSET (DOMAIN rows) |->
                      IF t = {} THEN 0 ELSE g[t \ {Max(t)}] + Cardinality(K(Max(t)))]
  <2>1. Counts(rows)[s] = raw[DOMAIN rows]
    BY Zenon DEF Counts, FoldLeft, MapThenFoldSet
  <2>2. raw = all
    OBVIOUS
  <2> HIDE DEF raw, all
  <2> QED
    BY <2>1, <2>2
<1>4. \A t \in SUBSET (1..n) :
        all[t] = IF t = {} THEN 0 ELSE all[t \ {Max(t)}] + Cardinality(K(Max(t)))
  <2> HIDE DEF all, K
  <2> QED
    BY <1>2
<1> HIDE DEF all, Made
<1>5. ASSUME NEW k \in 0..n, k < n, IsFiniteSet(R(k)), all[1..k] = Cardinality(R(k))
      PROVE  IsFiniteSet(R(k + 1)) /\ all[1..(k + 1)] = Cardinality(R(k + 1))
  <2> DEFINE new == {k + 1} \X K(k + 1)
  <2>1. R(k + 1) = R(k) \cup new
    <3>1. \A i : i \in 1..(k + 1) <=> i \in 1..k \/ i = k + 1
      OBVIOUS
    <3>2. ASSUME NEW ref
          PROVE  ref \in R(k + 1) <=> ref \in R(k) \/ ref \in new
      <4>1. \A j : ref \in R(j) <=> /\ \E i \in 1..j : ref \in {i} \X DOMAIN rows[i]
                                    /\ SeverityOf(rows[ref[1]][ref[2]]) = s
        BY DEF RefsUpTo
      <4>2. ref \in new <=> /\ ref \in {k + 1} \X DOMAIN rows[k + 1]
                            /\ SeverityOf(rows[ref[1]][ref[2]]) = s
        OBVIOUS
      <4> HIDE DEF R, new
      <4> QED
        BY <3>1, <4>1, <4>2
    <3> HIDE DEF R, new
    <3> QED
      BY <3>2
  <2>2. R(k) \cap new = {}
    <3>1. \A ref \in R(k) : ref[1] \in 1..k
      BY DEF RefsUpTo
    <3>2. \A ref \in new : ref[1] = k + 1
      OBVIOUS
    <3>3. k + 1 \notin 1..k
      OBVIOUS
    <3> HIDE DEF R, new
    <3> QED
      BY <3>1, <3>2, <3>3
  <2>3. IsFiniteSet(new) /\ Cardinality(new) = Cardinality(K(k + 1)) /\ Cardinality(K(k + 1)) \in Nat
    <3>1. k + 1 \in 1..n
      BY <1>5
    <3>2. IsFiniteSet(K(k + 1)) /\ Cardinality(K(k + 1)) \in Nat
      BY <1>1, <3>1
    <3> HIDE DEF K
    <3>3. IsFiniteSet({k + 1}) /\ Cardinality({k + 1}) = 1
      BY FS_Singleton
    <3>4. IsFiniteSet(new) /\ Cardinality(new) = 1 * Cardinality(K(k + 1))
      BY <3>2, <3>3, FS_Product
    <3> QED
      BY <3>2, <3>4
  <2>4. all[1..(k + 1)] = all[1..k] + Cardinality(K(k + 1))
    <3> DEFINE t == 1..(k + 1)
    <3>1. t \in SUBSET (1..n) /\ t # {} /\ t \ {Max(t)} = 1..k /\ Max(t) = k + 1
      BY <1>5, LastIndex
    <3> HIDE DEF t, K
    <3> QED
      BY <1>4, <3>1 DEF t
  <2> HIDE DEF R, new, K
  <2>5. IsFiniteSet(R(k) \cup new) /\ Cardinality(R(k) \cup new) = Cardinality(R(k)) + Cardinality(new)
    <3>1. Cardinality(R(k) \cap new) = 0
      BY <2>2, FS_EmptySet
    <3>2. Cardinality(R(k)) \in Nat /\ Cardinality(new) \in Nat
      BY <1>5, <2>3, FS_CardinalityType
    <3>3. /\ IsFiniteSet(R(k) \cup new)
          /\ Cardinality(R(k) \cup new)
               = Cardinality(R(k)) + Cardinality(new) - Cardinality(R(k) \cap new)
      BY <1>5, <2>3, FS_Union
    <3> QED
      BY <3>1, <3>2, <3>3
  <2> QED
    BY <1>5, <2>1, <2>3, <2>4, <2>5
<1>6. IsFiniteSet(R(0)) /\ all[1..0] = Cardinality(R(0))
  <2>1. R(0) = {} /\ 1..0 = {} /\ {} \in SUBSET (1..n)
    BY DEF RefsUpTo
  <2> HIDE DEF R, K
  <2> QED
    BY <1>4, <2>1, FS_EmptySet
<1>7. all[1..n] = Cardinality(R(n))
  <2> DEFINE T == {k \in 0..n : IsFiniteSet(R(k)) /\ all[1..k] = Cardinality(R(k))}
  <2> HIDE DEF R
  <2>1. 0 \in T /\ \A k \in 0..n : k \in T /\ k < n => k + 1 \in T
    BY <1>5, <1>6
  <2> HIDE DEF T
  <2>2. 0..n \subseteq T
    BY <2>1, UpTo
  <2> QED
    BY <2>2 DEF T
<1>8. R(n) = {ref \in Refs(rows) : SeverityOf(rows[ref[1]][ref[2]]) = s}
  BY DEF RefsUpTo, Refs
<1> HIDE DEF R
<1> QED
  BY <1>3, <1>7, <1>8

Rows == [i \in DOMAIN report |-> report[i].value.findings]

\* The prose of a row is what was made of the answer of a model, unless the
\* task that asked has panicked.
Told(i) ==
  \/ prose[i] = Waiting
  \/ prose[i].answer = "panic"
  \/ /\ prose[i].answer \in {"mail", "sentinel", "failed"}
     /\ prose[i].body = Prose(report[i].value.findings, prose[i].said, prose[i].answer)

\* The texts are made of the rows of the report.
TextInv ==
  /\ fast => mode = "off"
  /\ \E n \in Nat : DOMAIN report = 1..n
  /\ phase \in {"merged", "printed"} =>
       DOMAIN prose = DOMAIN report /\ \A i \in DOMAIN report : Told(i)
  /\ phase = "printed" =>
       /\ Prosaic => \A i \in DOMAIN report : prose[i] # Waiting
       /\ summary \in {None} \cup Summaries(Rows, SummaryAnswers)

LEMMA TextStep == RunInv /\ TextInv /\ [Next]_vars => TextInv'
<1> SUFFICES ASSUME RunInv, TextInv, [Next]_vars PROVE TextInv'
  OBVIOUS
<1>1. PICK n \in Nat : DOMAIN report = 1..n
  BY DEF TextInv
<1>2. CASE Collect
  <2> DEFINE rows == triples \o Filled
             f == [c \in Commits |-> [commit |-> c, value |-> SnapshotRow(snap[c])]]
             I == IF cancelled THEN Commits \ Have ELSE {}
  <2>1. /\ DOMAIN report' = DOMAIN rows /\ phase' = "collected"
        /\ UNCHANGED <<taskVars, mode>>
    BY <1>2 DEF Collect, Sorted
  <2>2. PICK S : triples \in Seq(S)
    BY DEF RunInv, JoinInv
  <2>3. PICK T : Filled \in Seq(T)
    <3>1. I \in SUBSET Nat /\ IsFiniteSet(I) /\ Filled = Subsequence(f, I)
      BY CommitTaskAssumption, ReviewRunAssumption, FS_Subset, FS_EmptySet DEF Filled
    <3> HIDE DEF I, f
    <3> QED
      BY <3>1, SubsequenceElements
  <2>4. /\ Len(triples) + Len(Filled) \in Nat
        /\ DOMAIN rows = 1..(Len(triples) + Len(Filled))
    BY <2>2, <2>3
  <2> QED
    BY <2>1, <2>4 DEF TextInv, taskVars
<1>3. CASE MergeReport
  <2>1. /\ phase' = "merged" /\ DOMAIN report' = DOMAIN report /\ DOMAIN prose' = DOMAIN report
        /\ \A i \in DOMAIN report : prose'[i] = Waiting
        /\ UNCHANGED <<taskVars, mode>>
    BY <1>3 DEF MergeReport
  <2> QED
    BY <1>1, <2>1 DEF TextInv, taskVars, Told, Waiting
<1>4. ASSUME NEW j \in DOMAIN report, RenderCommit(j) PROVE TextInv'
  <2>1. /\ phase = "merged" /\ UNCHANGED <<taskVars, mode, phase, report>>
        /\ DOMAIN prose = DOMAIN report /\ \A i \in DOMAIN report : Told(i)
    BY <1>4 DEF RenderCommit, TextInv
  <2>2. PICK said, answer, body :
          /\ prose' = [prose EXCEPT ![j] = [said |-> said, answer |-> answer, body |-> body]]
          /\ \/ answer = "panic"
             \/ /\ answer \in {"mail", "sentinel", "failed"}
                /\ body = Prose(report[j].value.findings, said, answer)
    BY <1>4 DEF RenderCommit
  <2>3. DOMAIN prose' = DOMAIN report /\ \A i \in DOMAIN report : i # j => prose'[i] = prose[i]
    BY <2>1, <2>2
  <2>4. prose'[j] = [said |-> said, answer |-> answer, body |-> body]
    BY <2>1, <2>2
  <2>5. \A i \in DOMAIN report : i # j => Told(i)'
    BY <2>1, <2>3 DEF Told, Waiting
  <2>6. Told(j)'
    <3>1. prose'[j].said = said /\ prose'[j].answer = answer /\ prose'[j].body = body
      BY <2>4
    <3> QED
      BY <2>1, <2>2, <3>1 DEF Told
  <2> QED
    BY <1>1, <2>1, <2>3, <2>5, <2>6 DEF TextInv, taskVars
<1>5. CASE PrintReport
  <2>1. /\ phase = "merged" /\ phase' = "printed"
        /\ UNCHANGED <<taskVars, mode, cancelled, report, prose>>
        /\ Prosaic => \A i \in DOMAIN prose : prose[i] # Waiting
        /\ summary' \in {None} \cup Summaries(Rows, SummaryAnswers)
    BY <1>5 DEF PrintReport, Rows
  <2>2. \A i : Told(i)' <=> Told(i)
    BY <2>1 DEF Told, Waiting
  <2>3. Rows' = Rows /\ Prosaic' = Prosaic
    BY <2>1 DEF Rows, Prosaic
  <2>4. /\ fast' = fast /\ Waiting' = Waiting
        /\ Summaries(Rows, SummaryAnswers)' = Summaries(Rows, SummaryAnswers)
    BY <2>1, <2>3 DEF taskVars, Waiting
  <2> QED
    BY <1>1, <2>1, <2>2, <2>3, <2>4 DEF TextInv
<1>6. CASE \/ Tasks \/ CtrlC \/ UNCHANGED vars
           \/ \E c \in Commits : JoinReturned(c) \/ JoinLost(c) \/ JoinPanicked(c)
  <2>1. /\ UNCHANGED <<mode, report, prose, summary>> /\ fast' = fast
        /\ \/ UNCHANGED <<phase, cancelled>>
           \/ phase' \in {"joining", "failed"}
    <3>1. CASE Tasks
      BY <3>1 DEF Tasks, runVars, textVars, TaskStep, Start, Proceed, Settle, Establish,
         FinishFast, Fail, Publish, Finish, Panic, Cancelled, Step
    <3>2. CASE CtrlC
      BY <3>2 DEF CtrlC, textVars, AbortAll
    <3>3. CASE \E c \in Commits : JoinReturned(c) \/ JoinLost(c) \/ JoinPanicked(c)
      BY <3>3 DEF JoinReturned, JoinLost, JoinPanicked, Take, JoinNextPolled, textVars, taskVars, AbortAll
    <3>4. CASE UNCHANGED vars
      BY <3>4 DEF vars, runVars, textVars, taskVars
    <3> QED
      BY <1>6, <3>1, <3>2, <3>3, <3>4
  <2>2. \A i : Told(i)' <=> Told(i)
    BY <2>1 DEF Told, Waiting
  <2>3. Rows' = Rows /\ (cancelled' = cancelled => Prosaic' = Prosaic)
    BY <2>1 DEF Rows, Prosaic
  <2>4. /\ Waiting' = Waiting
        /\ Summaries(Rows, SummaryAnswers)' = Summaries(Rows, SummaryAnswers)
    BY <2>3 DEF Waiting
  <2> QED
    BY <1>1, <2>1, <2>2, <2>3, <2>4 DEF TextInv
<1> QED
  BY <1>2, <1>3, <1>4, <1>5, <1>6 DEF Next, Driver

\* A fast row has no findings, as only the text of the review is reported.
LEMMA FastRowIsEmpty ==
  ASSUME RunInv, TextInv, phase \in {"merged", "printed"}, NEW i \in DOMAIN report, FastRow(i)
  PROVE  report[i].value.findings = <<>>
<1> DEFINE c == report[i].commit
           v == Source(c)
<1>1. c \in Commits /\ Reports(i) /\ fast /\ task[c] = "returned" /\ mode = "off"
  BY DEF RunInv, ReportInv, Reporting, OneRowPerCommit, FastRow, TextInv
<1>2. base[c] = None
  BY <1>1 DEF RunInv, TaskInv, Promised
<1>3. v.findings = <<>> /\ v.additions = <<>>
  BY <1>1, <1>2, SourceIs DEF RunInv
<1>4. report[i].value.findings \in ShownOf(v)
  BY <1>1 DEF Reports
<1> HIDE DEF v
<1>5. ShownOf(v) = {MergeNovel(<<>>, <<>>)}
  BY <1>1, <1>3 DEF ShownOf, Validated
<1> QED
  BY <1>4, <1>5, MergeEmpty

\* What a row of the report shows is a list.
LEMMA RowsAreLists ==
  ASSUME RunInv, phase \in {"merged", "printed"}, NEW i \in DOMAIN report
  PROVE  IsFiniteSet(DOMAIN report[i].value.findings)
<1> DEFINE v == Source(report[i].commit)
           shown == report[i].value.findings
<1>1. shown \in ShownOf(v)
  BY DEF RunInv, ReportInv, Reporting, Reports
<1>2. PICK S, T : v.findings \in Seq(S) /\ v.additions \in Seq(T)
  BY SourceIs DEF RunInv, ReportInv, OneRowPerCommit
<1> HIDE DEF v, shown
<1>3. PICK V : shown \in Seq(V)
  BY <1>1, <1>2, ShownIsList
<1>4. IsFiniteSet(DOMAIN shown)
  BY <1>3, Indices
<1> QED
  BY <1>4 DEF shown

\* Of a run that was not cancelled, each finding is printed, each fast review
\* that has one is, and the summary counts and refers to what the rows have.
THEOREM ReportTellsAll == Spec => []NothingUnsaid
<1>1. Init => TextInv
  <2>1. Init => DOMAIN report = 1..0 /\ 0 \in Nat /\ (fast => mode = "off")
    BY DEF Init
  <2> QED
    BY <2>1 DEF Init, TextInv
<1>2. ASSUME RunInv, TextInv, phase = "printed", ~cancelled
      PROVE  NothingUnsaid
  <2> DEFINE rows == Rows
             fastRows == {i \in DOMAIN report : FastRow(i)}
             bodies == [i \in DOMAIN prose |-> IF Prosaic THEN prose[i].body ELSE None]
  <2>1. ASSUME NEW i \in DOMAIN report
        PROVE  /\ rows[i] # <<>> => FindingsPrinted(fastRows, rows)
               /\ FastRow(i) /\ prose[i].said = "issues"
                    => i \in ProsePrinted(mode, bodies) \/ prose[i].answer \in {"sentinel", "panic"}
    <3>1. ASSUME rows[i] # <<>> PROVE FindingsPrinted(fastRows, rows)
      <4>1. ~FastRow(i)
        BY <1>2, <3>1, FastRowIsEmpty DEF Rows
      <4>2. fastRows # DOMAIN rows
        BY <4>1 DEF Rows
      <4> QED
        BY <4>2 DEF FindingsPrinted
    <3>2. ASSUME FastRow(i), prose[i].said = "issues", prose[i].answer \notin {"sentinel", "panic"}
          PROVE  i \in ProsePrinted(mode, bodies)
      <4>1. mode = "off" /\ Prosaic /\ i \in DOMAIN prose
        BY <1>2, <3>2 DEF FastRow, TextInv, Prosaic
      <4>2. prose[i] # Waiting /\ Told(i)
        BY <1>2, <4>1 DEF TextInv
      <4>3. prose[i].answer \in {"mail", "failed"}
        BY <3>2, <4>2 DEF Told
      <4>4. prose[i].body = Prose(report[i].value.findings, "issues", prose[i].answer)
        BY <3>2, <4>2 DEF Told
      <4>5. prose[i].body \in {"mail", "issues"}
        <5>1. ~NothingToTell(report[i].value.findings, "issues")
          BY ReportTextsAssumption DEF NothingToTell
        <5> QED
          BY <4>3, <4>4, <5>1 DEF Prose, Normalized
      <4> QED
        BY <4>1, <4>5, ReportTextsAssumption DEF ProsePrinted
    <3> QED
      BY <3>1, <3>2
  <2>2. ASSUME summary # None
        PROVE  /\ \A s \in Canonical :
                    summary.counts[s] =
                      Cardinality({ref \in Refs(rows) : SeverityOf(rows[ref[1]][ref[2]]) = s})
               /\ \A j, k \in DOMAIN summary.highlights :
                    LET h == summary.highlights[k]
                    IN /\ h.ref \in Refs(rows)
                       /\ h.severity = SeverityOf(rows[h.ref[1]][h.ref[2]])
                       /\ h.ref = summary.highlights[j].ref => j = k
    <3>1. summary \in Summaries(rows, SummaryAnswers)
      BY <1>2, <2>2 DEF TextInv
    <3>2. PICK n \in Nat : DOMAIN report = 1..n
      BY <1>2 DEF TextInv
    <3>3. /\ DOMAIN rows = 1..n
          /\ \A i \in 1..n : IsFiniteSet(DOMAIN rows[i])
      BY <1>2, <3>2, RowsAreLists DEF Rows
    <3> HIDE DEF rows
    <3>4. PICK text, highlights :
            /\ summary = [text |-> text, counts |-> Counts(rows), highlights |-> highlights]
            /\ \/ highlights = <<>>
               \/ \E answer \in SummaryAnswers :
                    /\ ParsedSummary(answer) # None
                    /\ highlights = Resolved(ParsedSummary(answer), rows)
      BY <3>1 DEF Summaries
    <3>5. summary.counts = Counts(rows) /\ summary.highlights = highlights
      BY <3>4
    <3>6. ASSUME NEW j \in DOMAIN highlights, NEW k \in DOMAIN highlights
          PROVE  LET h == highlights[k]
                 IN /\ h.ref \in Refs(rows)
                    /\ h.severity = SeverityOf(rows[h.ref[1]][h.ref[2]])
                    /\ h.ref = highlights[j].ref => j = k
      <4>1. highlights # <<>>
        BY <3>6
      <4>2. PICK answer \in SummaryAnswers :
              ParsedSummary(answer) # None /\ highlights = Resolved(ParsedSummary(answer), rows)
        BY <3>4, <4>1
      <4> DEFINE l == answer.highlights
                 valid == {i \in DOMAIN l : l[i].valid}
                 s == Subsequence(l, valid)
      <4>3. ParsedSummary(answer) = FirstOf(s, MaxHighlights)
        BY <4>2 DEF ParsedSummary
      <4>4. l \in Seq(ToSet(l)) /\ valid \in SUBSET DOMAIN l
        BY ReviewRunAssumption DEF IsList
      <4> HIDE DEF valid, l
      <4>5. s \in Seq({l[i] : i \in valid})
        BY <4>4, Indices, SubsequenceElements
      <4> HIDE DEF s
      <4>6. FirstOf(s, MaxHighlights) \in Seq({l[i] : i \in valid})
        BY <4>5, FirstOfList, ReportTextsAssumption
      <4> QED
        BY <3>6, <4>2, <4>3, <4>6, HighlightsAreFindings
    <3> QED
      BY <3>3, <3>5, <3>6, CountsAreTold
  <2> QED
    BY <2>1, <2>2 DEF NothingUnsaid, Rows
<1>3. RunInv /\ TextInv => NothingUnsaid
  BY <1>2 DEF NothingUnsaid
<1> QED
  BY <1>1, <1>3, TextStep, RunInvariant, PTL DEF Spec
=============================================================================
