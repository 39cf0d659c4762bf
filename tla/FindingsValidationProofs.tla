---------------------- MODULE FindingsValidationProofs ----------------------
(***************************************************************************)
(* Theorems about the findings validation of a run, for any commits,       *)
(* payloads and answers: batches hold each commit once and fit, what may   *)
(* come of a baseline finding, which sensitive claims may be shown, and    *)
(* that the run gets what it relies on.                                    *)
(***************************************************************************)
EXTENDS FindingsValidation, FindingsTheorems

USE DEF inputVars, chatVars, resultVars, vars

\* An entry that has been made of what the validator has answered.
Parsed(entry) ==
  /\ \E a \in ValidatorLists \cup {<<>>} : entry.findings = SanitizedAll(a)
  /\ \A i \in DOMAIN entry.adjudications : ExactAdjudication(entry.adjudications[i])

\* An entry that has needed no tool.
Plain(entry) ==
  /\ \A i \in DOMAIN entry.findings : ~entry.findings[i].sensitive
  /\ entry.adjudications = <<>>

\* Where the host runs the tools, only entries that it has run one for may
\* drop a finding or make a sensitive claim.
DecidedInv ==
  /\ rows \in [Commits -> Payloads] /\ tools \in ToolModes
  /\ DOMAIN decided = Commits
  /\ proven \subseteq Commits
  /\ \A c \in Commits :
       decided[c] # None =>
         /\ Parsed(decided[c])
         /\ tools = "host" /\ c \notin proven => Plain(decided[c])

\* What is shown is what the decisions make of the commits.
MergedInv ==
  phase = "done" =>
    validated = [c \in Commits |->
      MergeNovel(WithoutDisproved(rows[c].findings, Adjudications(c)), Additions(c))]

\* The batches are those of the commits, and one that is asked about is one of them.
BatchInv ==
  /\ batches \in Seq(Seq(Commits)) /\ BatchesFit
  /\ batch \in Nat \ {0}
  /\ phase = "ask" => batch <= Len(batches)

ValidationInv == DecidedInv /\ MergedInv /\ BatchInv

-----------------------------------------------------------------------------
(* Entries.                                                                *)

\* What is cleaned of a finding is not whether it is sensitive.
LEMMA SanitizedSensitive ==
  ASSUME NEW f, "sensitive" \in DOMAIN f
  PROVE  Sanitized(f).sensitive = f.sensitive /\ "sensitive" \in DOMAIN Sanitized(f)
  BY DEF Sanitized

\* Anchors do not change whether a finding is sensitive.
LEMMA AnchoredSensitive ==
  ASSUME NEW f, NEW anchors, "sensitive" \in DOMAIN f
  PROVE  Anchored(f, anchors).sensitive = f.sensitive
  BY DEF Anchored

\* Nothing comes of nothing.
LEMMA EmptyCleaned == SanitizedAll(<<>>) = <<>> /\ WithAnchors(<<>>) = <<>>
<1>1. SanitizedAll(<<>>) = <<>>
  <2> DEFINE none == <<>>
             r == SanitizedAll(none)
  <2>1. none \in Seq({}) /\ DOMAIN none = {}
    OBVIOUS
  <2> HIDE DEF none
  <2>2. \E T : r \in Seq(T)
    BY <2>1, SanitizedAllList
  <2>3. DOMAIN r = {}
    BY <2>1, SanitizedAllList
  <2> HIDE DEF r
  <2>4. r = <<>>
    BY <2>2, <2>3
  <2> QED BY <2>4 DEF r, none
<1>2. WithAnchors(<<>>) = <<>>
  <2> DEFINE none == <<>>
             r == WithAnchors(none)
  <2>1. none \in Seq({}) /\ DOMAIN none = {}
    OBVIOUS
  <2> HIDE DEF none
  <2>2. \E T : r \in Seq(T)
    BY <2>1, WithAnchorsList
  <2>3. DOMAIN r = {}
    <3>1. ToSet(r) = {}
      BY <2>1, WithAnchorsList
    <3> QED BY <3>1 DEF ToSet
  <2> HIDE DEF r
  <2>4. r = <<>>
    BY <2>2, <2>3
  <2> QED BY <2>4 DEF r, none
<1> QED BY <1>1, <1>2

\* An entry that the host has made of an empty answer.
LEMMA NoEntryPlain ==
  LET e == [NoEntry EXCEPT !.findings = SanitizedAll(@)] IN Parsed(e) /\ Plain(e)
<1> DEFINE e == [NoEntry EXCEPT !.findings = SanitizedAll(@)]
<1>1. SanitizedAll(<<>>) = <<>>
  BY EmptyCleaned
<1>2. e.findings = SanitizedAll(<<>>) /\ e.adjudications = <<>>
  BY DEF NoEntry
<1> HIDE DEF e
<1> QED BY <1>1, <1>2 DEF Parsed, Plain, e

\* An entry that the validator has answered and the host has parsed.
LEMMA EntryParsed ==
  ASSUME NEW x \in Entries,
         \A i \in DOMAIN x.adjudications : ExactAdjudication(x.adjudications[i])
  PROVE  LET e == [x EXCEPT !.findings = SanitizedAll(@)]
         IN /\ Parsed(e)
            /\ (/\ x.adjudications = <<>>
                /\ \A i \in DOMAIN x.findings : ~x.findings[i].sensitive) => Plain(e)
<1> DEFINE e == [x EXCEPT !.findings = SanitizedAll(@)]
<1>1. x.findings \in ValidatorLists /\ e.findings = SanitizedAll(x.findings)
      /\ e.adjudications = x.adjudications
  BY DEF Entries
<1> HIDE DEF e
<1>2. Parsed(e)
  BY <1>1 DEF Parsed
<1>3. ASSUME x.adjudications = <<>>, \A i \in DOMAIN x.findings : ~x.findings[i].sensitive
      PROVE  Plain(e)
  <2>1. /\ x.findings \in Seq(ToSet(x.findings))
        /\ \A i \in DOMAIN x.findings : "sensitive" \in DOMAIN x.findings[i]
    BY <1>1, FindingsValidationAssumption DEF IsList
  <2>2. /\ DOMAIN e.findings = DOMAIN x.findings
        /\ \A i \in DOMAIN x.findings : e.findings[i] = Sanitized(x.findings[i])
    BY <1>1, <2>1, SanitizedAllList
  <2>3. \A i \in DOMAIN e.findings : ~e.findings[i].sensitive
    BY <1>3, <2>1, <2>2, SanitizedSensitive
  <2> QED BY <1>1, <1>3, <2>3 DEF Plain
<1> QED BY <1>2, <1>3 DEF e

-----------------------------------------------------------------------------
(* The batches.                                                            *)

\* f has, for each of the first n sequences of s, those up to it in one.
Flats(f, s, n) == f = [i \in 1..n |-> IF i = 1 THEN s[i] ELSE f[i - 1] \o s[i]]

\* The concatenation of the first n lists, for every n.
LEMMA FlatsExist ==
  ASSUME NEW s, NEW n \in Nat PROVE \E f : Flats(f, s, n)
<1> DEFINE T == {k \in 0..n : \E f : Flats(f, s, k)}
<1>1. 0 \in T
  <2>1. \E f : Flats(f, s, 0)
    <3> DEFINE f == [i \in 1..0 |-> s]
    <3>1. \A i \in 1..0 : FALSE
      OBVIOUS
    <3>2. Flats(f, s, 0)
      BY <3>1 DEF Flats
    <3> QED BY <3>2
  <2> QED BY <2>1
<1>2. ASSUME NEW k \in 0..n, k \in T, k < n PROVE k + 1 \in T
  <2>1. PICK f : Flats(f, s, k)
    BY <1>2
  <2> DEFINE h == [i \in 1..(k + 1) |->
                     IF i = k + 1 THEN IF i = 1 THEN s[i] ELSE f[k] \o s[i] ELSE f[i]]
  <2>2. ASSUME NEW i \in 1..(k + 1)
        PROVE  h[i] = IF i = 1 THEN s[i] ELSE h[i - 1] \o s[i]
    <3>1. CASE i = k + 1
      <4>1. i # 1 => i - 1 = k /\ k \in 1..(k + 1) /\ k # k + 1
        BY <3>1
      <4> QED BY <3>1, <4>1
    <3>2. CASE i # k + 1
      <4>1. i \in 1..k /\ (i # 1 => i - 1 \in 1..(k + 1) /\ i - 1 # k + 1)
        BY <3>2
      <4>2. f[i] = IF i = 1 THEN s[i] ELSE f[i - 1] \o s[i]
        BY <2>1, <4>1 DEF Flats
      <4> QED BY <3>2, <4>1, <4>2
    <3> QED BY <3>1, <3>2
  <2>3. h = [i \in 1..(k + 1) |-> h[i]]
    OBVIOUS
  <2> HIDE DEF h
  <2>4. Flats(h, s, k + 1)
    BY <2>2, <2>3 DEF Flats
  <2> QED BY <1>2, <2>4
<1> HIDE DEF T
<1>3. 0..n \subseteq T
  BY <1>1, <1>2, UpTo
<1> QED BY <1>3 DEF T

\* FlattenSeq is the last of these concatenations.
LEMMA FlattenIs ==
  ASSUME NEW S, NEW s \in Seq(S), Len(s) # 0
  PROVE  \E f : Flats(f, s, Len(s)) /\ FlattenSeq(s) = f[Len(s)]
<1> DEFINE f == CHOOSE f : Flats(f, s, Len(s))
<1>1. Flats(f, s, Len(s))
  <2>1. Len(s) \in Nat
    OBVIOUS
  <2> QED BY <2>1, FlatsExist
<1>2. FlattenSeq(s) = f[Len(s)]
  BY Zenon DEF FlattenSeq, Flats
<1> QED BY <1>1, <1>2

\* One sequence more comes after all others.
LEMMA FlattenAppend ==
  ASSUME NEW T, NEW s \in Seq(Seq(T)), NEW x \in Seq(T)
  PROVE  FlattenSeq(Append(s, x)) = FlattenSeq(s) \o x
<1> DEFINE r == Append(s, x)
           n == Len(s)
<1>1. /\ r \in Seq(Seq(T)) /\ Len(r) = n + 1 /\ r[n + 1] = x /\ n \in Nat
      /\ \A i \in 1..n : r[i] = s[i]
  OBVIOUS
<1> HIDE DEF r
<1>2. Len(r) # 0
  BY <1>1
<1>3. PICK h : Flats(h, r, n + 1) /\ FlattenSeq(r) = h[n + 1]
  BY <1>1, <1>2, FlattenIs
<1>4. h[n + 1] = IF n + 1 = 1 THEN x ELSE h[n] \o x
  <2>1. n + 1 \in 1..(n + 1) /\ n + 1 - 1 = n
    BY <1>1
  <2>2. h = [i \in 1..(n + 1) |-> IF i = 1 THEN r[i] ELSE h[i - 1] \o r[i]]
    BY <1>3 DEF Flats
  <2> DEFINE m == n + 1
  <2>3. m \in 1..(n + 1) /\ m - 1 = n
    BY <2>1
  <2> HIDE DEF m
  <2>4. h[m] = IF m = 1 THEN r[m] ELSE h[m - 1] \o r[m]
    BY <2>2, <2>3, Zenon
  <2> QED BY <1>1, <2>1, <2>3, <2>4 DEF m
<1>5. CASE n = 0
  <2>1. s = <<>>
    BY <1>5
  <2>2. FlattenSeq(s) = <<>>
    BY <2>1 DEF FlattenSeq
  <2>3. <<>> \o x = x
    OBVIOUS
  <2> QED BY <1>3, <1>4, <1>5, <2>2, <2>3 DEF r
<1>6. CASE n # 0
  <2>1. PICK f : Flats(f, s, n) /\ FlattenSeq(s) = f[n]
    BY <1>6, FlattenIs
  <2> DEFINE D == {i \in 1..n : f[i] # h[i]}
  <2>2. \A i \in 1..n : /\ f[i] = IF i = 1 THEN s[i] ELSE f[i - 1] \o s[i]
                        /\ h[i] = IF i = 1 THEN r[i] ELSE h[i - 1] \o r[i]
    <3>1. \A i \in 1..n : i \in 1..(n + 1)
      BY <1>1
    <3> QED BY <1>3, <2>1, <3>1 DEF Flats
  <2>3. D = {}
    <3> SUFFICES ASSUME D # {} PROVE FALSE
      OBVIOUS
    <3>1. PICK k \in D : \A m \in D : k <= m
      <4>1. D \subseteq Nat
        BY <1>1
      <4> HIDE DEF D
      <4> QED BY <4>1, LeastNat
    <3>2. k # 1
      BY <1>1, <2>2, <3>1
    <3>3. k - 1 \in 1..n /\ k - 1 \notin D
      BY <1>1, <3>1, <3>2
    <3> QED BY <1>1, <2>2, <3>1, <3>2, <3>3
  <2>4. f[n] = h[n]
    <3>1. n \in 1..n
      BY <1>1, <1>6
    <3> QED BY <2>3, <3>1
  <2> QED BY <1>1, <1>3, <1>4, <1>6, <2>1, <2>4 DEF r
<1> QED BY <1>5, <1>6

\* What is made of sequences of something is a sequence of it.
LEMMA FlattenType ==
  ASSUME NEW T, NEW s \in Seq(Seq(T)) PROVE FlattenSeq(s) \in Seq(T)
<1> DEFINE n == Len(s)
<1>1. n \in Nat /\ \A i \in 1..n : s[i] \in Seq(T)
  OBVIOUS
<1>2. CASE n = 0
  <2>1. s = <<>>
    BY <1>2
  <2> QED BY <2>1 DEF FlattenSeq
<1>3. CASE n # 0
  <2>1. PICK f : Flats(f, s, n) /\ FlattenSeq(s) = f[n]
    BY <1>3, FlattenIs
  <2> DEFINE D == {i \in 1..n : f[i] \notin Seq(T)}
  <2>2. \A i \in 1..n : f[i] = IF i = 1 THEN s[i] ELSE f[i - 1] \o s[i]
    BY <2>1 DEF Flats
  <2> HIDE DEF n
  <2>3. D = {}
    <3> SUFFICES ASSUME D # {} PROVE FALSE
      OBVIOUS
    <3>1. PICK k \in D : \A m \in D : k <= m
      <4>1. D \subseteq Nat
        BY <1>1
      <4> HIDE DEF D
      <4> QED BY <4>1, LeastNat
    <3>2. k # 1
      BY <1>1, <2>2, <3>1
    <3>3. k - 1 \in 1..n /\ k - 1 \notin D
      BY <1>1, <3>1, <3>2
    <3>4. f[k - 1] \in Seq(T) /\ s[k] \in Seq(T) /\ f[k] = f[k - 1] \o s[k]
      BY <1>1, <2>2, <3>1, <3>2, <3>3
    <3>5. f[k] \in Seq(T)
      BY <3>4
    <3> QED BY <3>1, <3>5
  <2>4. n \in 1..n
    BY <1>1, <1>3
  <2> QED BY <2>1, <2>3, <2>4
<1> QED BY <1>2, <1>3

\* g has, for each set of the first k commits, the batches that they make.
Joins(g, a, k) ==
  g = [s \in SUBSET (1..k) |->
        IF s = {} THEN NoBatch ELSE Join(g[s \ {Max(s)}], a[Max(s)])]

\* The batches of the first n commits, for every n.
LEMMA JoinsExist ==
  ASSUME NEW a, NEW n \in Nat
  PROVE  \E g : Joins(g, a, n)
<1> DEFINE T == {k \in 0..n : \E g : Joins(g, a, k)}
<1>1. 0 \in T
  <2> DEFINE g == [s \in SUBSET (1..0) |-> NoBatch]
  <2>1. \A s \in SUBSET (1..0) : s = {}
    OBVIOUS
  <2>2. Joins(g, a, 0)
    BY <2>1 DEF Joins
  <2> QED
    BY <2>2
<1>2. ASSUME NEW k \in 0..n, k \in T, k < n
      PROVE  k + 1 \in T
  <2>1. PICK g : Joins(g, a, k)
    BY <1>2
  <2> DEFINE h == [s \in SUBSET (1..(k + 1)) |->
                    IF k + 1 \in s THEN Join(g[s \ {k + 1}], a[k + 1]) ELSE g[s]]
  <2>2. ASSUME NEW s \in SUBSET (1..(k + 1))
        PROVE  h[s] = IF s = {} THEN NoBatch ELSE Join(h[s \ {Max(s)}], a[Max(s)])
    <3>1. CASE k + 1 \in s
      <4>1. Max(s) = k + 1
        <5>1. k + 1 \in Nat /\ s # {}
          BY <3>1
        <5>2. Max(s) \in s /\ \A i \in s : i <= Max(s)
          BY <5>1, MaxOf
        <5>3. Max(s) \in 1..(k + 1)
          BY <5>2
        <5> QED
          BY <5>2, <5>3, <3>1
      <4>2. s \ {k + 1} \in SUBSET (1..(k + 1)) /\ k + 1 \notin s \ {k + 1}
        OBVIOUS
      <4>3. h[s \ {k + 1}] = g[s \ {k + 1}]
        BY <4>2
      <4> QED
        BY <3>1, <4>1, <4>3
    <3>2. CASE k + 1 \notin s
      <4>1. s \in SUBSET (1..k)
        BY <3>2
      <4>2. g[s] = IF s = {} THEN NoBatch ELSE Join(g[s \ {Max(s)}], a[Max(s)])
        BY <2>1, <4>1 DEF Joins
      <4>3. s \ {Max(s)} \in SUBSET (1..(k + 1)) /\ k + 1 \notin s \ {Max(s)}
        BY <3>2
      <4>4. h[s \ {Max(s)}] = g[s \ {Max(s)}] /\ h[s] = g[s]
        BY <3>2, <4>3
      <4> QED
        BY <4>2, <4>4
    <3> QED
      BY <3>1, <3>2
  <2>3. Joins(h, a, k + 1)
    <3> HIDE DEF h
    <3>1. h = [s \in SUBSET (1..(k + 1)) |-> h[s]]
      BY DEF h
    <3> QED
      BY <2>2, <3>1 DEF Joins
  <2> QED
    BY <1>2, <2>3
<1> HIDE DEF T
<1>3. 0..n \subseteq T
  BY <1>1, <1>2, UpTo
<1> QED
  BY <1>3 DEF T

\* The batches are those that all commits make.
LEMMA BatchesJoin ==
  ASSUME NEW S, Needing \in Seq(S)
  PROVE  \E g : /\ Joins(g, Needing, Len(Needing))
                /\ FoldLeft(Join, NoBatch, Needing) = g[1..Len(Needing)]
<1> DEFINE g == CHOOSE g : Joins(g, Needing, Len(Needing))
<1>1. Joins(g, Needing, Len(Needing))
  <2>1. Len(Needing) \in Nat
    OBVIOUS
  <2> QED BY <2>1, JoinsExist
<1>2. DOMAIN Needing = 1..Len(Needing)
  OBVIOUS
<1>3. FoldLeft(Join, NoBatch, Needing) = g[DOMAIN Needing]
  BY <1>2, Zenon DEF FoldLeft, MapThenFoldSet, Joins
<1> QED BY <1>1, <1>2, <1>3

\* A batch that the validator can be asked about, or else skipped.
Fits(b) == FullSize(b) <= Budget \/ Len(b) = 1

\* What the first k of the commits make: they are all there, in order.
Part(acc, k) ==
  /\ acc.closed \in Seq(Seq(Commits)) /\ acc.current \in Seq(Commits)
  /\ \A b \in DOMAIN acc.closed : Fits(acc.closed[b])
  /\ acc.current # <<>> => Fits(acc.current)
  /\ LET all == FlattenSeq(acc.closed) \o acc.current
     IN Len(all) = k /\ \A i \in 1..k : all[i] = Needing[i]

\* What needs validation is a list of commits.
LEMMA NeedingCommits == Needing \in Seq(Commits)
<1> DEFINE s == [c \in Commits |-> c]
           I == {c \in Commits : rows[c].findings \o rows[c].additions # <<>>}
<1>1. NumCommits \in Nat /\ s \in Seq(Commits) /\ DOMAIN s = Commits
  BY FindingsValidationAssumption DEF Commits
<1>2. I \in SUBSET DOMAIN s /\ I \subseteq Commits
  BY <1>1
<1>3. \A i \in I : s[i] \in Commits
  OBVIOUS
<1>4. Needing = Subsequence(s, I)
  BY DEF Needing
<1> HIDE DEF s, I
<1>5. I \in SUBSET Nat /\ IsFiniteSet(I)
  BY <1>1, <1>2, Indices
<1>6. Subsequence(s, I) \in Seq({s[i] : i \in I})
  BY <1>5, SubsequenceElements
<1>7. {s[i] : i \in I} \subseteq Commits
  BY <1>3
<1> QED BY <1>4, <1>6, <1>7

\* Of no lists the concatenation is empty.
LEMMA FlattenNothing == FlattenSeq(<<>>) = <<>>
  BY DEF FlattenSeq

\* Before the first commit there is no batch.
LEMMA PartBegins == Part(NoBatch, 0)
<1> DEFINE none == <<>>
<1>1. NoBatch.closed = none /\ NoBatch.current = none
  BY DEF NoBatch
<1>2. none \in Seq(Seq(Commits)) /\ none \in Seq(Commits) /\ DOMAIN none = {}
      /\ none \o none = none /\ Len(none) = 0 /\ FlattenSeq(none) = none
  BY FlattenNothing
<1>3. none = <<>>
  OBVIOUS
<1> HIDE DEF none
<1> QED BY <1>1, <1>2, <1>3 DEF Part

\* A commit more comes at the end, and each batch still fits.
LEMMA PartGrows ==
  ASSUME NEW k \in Nat, k < Len(Needing), NEW acc, Part(acc, k)
  PROVE  Part(Join(acc, Needing[k + 1]), k + 1)
<1> DEFINE c == Needing[k + 1]
           d == acc.closed
           b == acc.current
           F == FlattenSeq(d) \o b
           r == Join(acc, c)
<1>1. c \in Commits
  <2>1. k + 1 \in DOMAIN Needing
    BY NeedingCommits
  <2> QED BY <2>1, NeedingCommits
<1>2. /\ d \in Seq(Seq(Commits)) /\ b \in Seq(Commits)
      /\ \A i \in DOMAIN d : Fits(d[i])
      /\ b # <<>> => Fits(b)
      /\ Len(F) = k /\ \A i \in 1..k : F[i] = Needing[i]
  BY DEF Part
<1>3. \/ /\ b = <<>> \/ FullSize(Append(b, c)) <= Budget
         /\ r = [closed |-> d, current |-> Append(b, c)]
      \/ /\ b # <<>> /\ r = [closed |-> Append(d, b), current |-> <<c>>]
  BY DEF Join
<1>4. c = Needing[k + 1]
  OBVIOUS
<1> HIDE DEF c, r, d, b
<1>5. FlattenSeq(d) \in Seq(Commits)
  BY <1>2, FlattenType
<1>6. F \in Seq(Commits)
  BY <1>2, <1>5
<1>7. ASSUME FlattenSeq(r.closed) \o r.current = Append(F, c)
      PROVE  LET all == FlattenSeq(r.closed) \o r.current
             IN Len(all) = k + 1 /\ \A i \in 1..(k + 1) : all[i] = Needing[i]
  <2> DEFINE all == FlattenSeq(r.closed) \o r.current
  <2> HIDE DEF F
  <2>1. all = Append(F, c)
    BY <1>7
  <2> HIDE DEF all
  <2>2. Len(all) = k + 1 /\ all[k + 1] = c /\ \A i \in 1..k : all[i] = F[i]
    BY <1>1, <1>2, <1>6, <2>1
  <2>3. \A i \in 1..(k + 1) : all[i] = Needing[i]
    BY <1>2, <1>4, <2>2
  <2> QED BY <2>2, <2>3 DEF all
<1>8. CASE (b = <<>> \/ FullSize(Append(b, c)) <= Budget)
           /\ r = [closed |-> d, current |-> Append(b, c)]
  <2>1. r.closed = d /\ r.current = Append(b, c)
    BY <1>8
  <2>2. Append(b, c) \in Seq(Commits)
    BY <1>1, <1>2
  <2>3. Fits(Append(b, c))
    <3>1. b = <<>> => Len(Append(b, c)) = 1
      BY <1>1, <1>2
    <3> QED BY <1>8, <3>1 DEF Fits
  <2>4. FlattenSeq(d) \o Append(b, c) = Append(F, c)
    BY <1>1, <1>2, <1>5
  <2> QED BY <1>2, <1>7, <2>1, <2>2, <2>3, <2>4 DEF Part, r, c
<1>9. CASE b # <<>> /\ r = [closed |-> Append(d, b), current |-> <<c>>]
  <2>1. r.closed = Append(d, b) /\ r.current = <<c>>
    BY <1>9
  <2>2. r.closed \in Seq(Seq(Commits)) /\ r.current \in Seq(Commits) /\ Len(r.current) = 1
    BY <1>1, <1>2, <2>1
  <2>3. \A i \in DOMAIN r.closed : Fits(r.closed[i])
    <3>1. PICK e : e = Append(d, b) /\ e = r.closed
      BY <2>1
    <3>4. d \in Seq(Seq(Commits)) /\ b \in Seq(Commits)
      BY <1>2
    <3> DEFINE l == Append(d, b)
    <3>2. \A i \in DOMAIN l : i \in DOMAIN d \/ i = Len(d) + 1
      BY <3>4
    <3>5. /\ \A i \in DOMAIN d : l[i] = d[i]
          /\ l[Len(d) + 1] = b
      BY <3>4
    <3>3. \A i \in DOMAIN e : Fits(e[i])
      BY <1>2, <1>9, <3>1, <3>2, <3>5
    <3> QED BY <3>1, <3>3
  <2>4. FlattenSeq(r.closed) = F
    BY <1>2, <2>1, FlattenAppend
  <2>5. FlattenSeq(r.closed) \o r.current = Append(F, c)
    <3> HIDE DEF F
    <3>1. F \o <<c>> = Append(F, c)
      BY <1>1, <1>6
    <3> QED BY <2>1, <2>4, <3>1
  <2>6. Fits(r.current)
    BY <2>2 DEF Fits
  <2> QED BY <1>7, <2>2, <2>3, <2>5, <2>6 DEF Part, r, c
<1> QED BY <1>3, <1>8, <1>9

\* The batches cover each commit once, in order, and each fits.
LEMMA BatchesCover ==
  /\ Batches \in Seq(Seq(Commits))
  /\ FlattenSeq(Batches) = Needing
  /\ \A b \in DOMAIN Batches : Fits(Batches[b])
<1> DEFINE n == Len(Needing)
           all == FoldLeft(Join, NoBatch, Needing)
<1>1. n \in Nat
  BY NeedingCommits
<1>2. PICK g : Joins(g, Needing, n) /\ all = g[1..n]
  BY NeedingCommits, BatchesJoin
<1>3. Part(all, n)
  <2> DEFINE T == {k \in 0..n : Part(g[1..k], k)}
  <2>1. \A s \in SUBSET (1..n) :
          g[s] = IF s = {} THEN NoBatch ELSE Join(g[s \ {Max(s)}], Needing[Max(s)])
    BY <1>2 DEF Joins
  <2>2. 0 \in T
    <3>1. 1..0 \in SUBSET (1..n) /\ 1..0 = {}
      OBVIOUS
    <3> QED BY SMTT(30), <1>1, <2>1, <3>1, PartBegins
  <2>3. ASSUME NEW k \in 0..n, k \in T, k < n PROVE k + 1 \in T
    <3> DEFINE s == 1..(k + 1)
    <3>0. k \in Nat /\ k + 1 <= n
      BY <1>1, <2>3
    <3>1. s \in SUBSET (1..n) /\ s # {} /\ k + 1 \in s /\ \A i \in s : i <= k + 1
      <4> HIDE DEF n
      <4>1. \A i \in s : i \in 1..n
        BY <1>1, <3>0
      <4>2. k + 1 \in s
        BY <3>0
      <4> QED BY <4>1, <4>2
    <3>2. Max(s) = k + 1
      <4>1. Max(s) \in s /\ \A i \in s : i <= Max(s)
        BY <1>1, <3>1, MaxOf
      <4>2. Max(s) \in Nat
        BY <3>1, <4>1
      <4> HIDE DEF s
      <4> QED BY <3>1, <4>1, <4>2
    <3>3. s \ {k + 1} = 1..k
      OBVIOUS
    <3>4. g[s] = Join(g[1..k], Needing[k + 1])
      <4> HIDE DEF s
      <4> QED BY <2>1, <3>1, <3>2, <3>3
    <3>5. Part(g[1..k], k)
      BY <2>3
    <3>6. Part(g[s], k + 1)
      BY <2>3, <3>4, <3>5, PartGrows
    <3> QED BY <1>1, <2>3, <3>6
  <2> HIDE DEF T
  <2>4. 0..n \subseteq T
    BY <1>1, <2>2, <2>3, UpTo
  <2>5. n \in T
    BY <1>1, <2>4
  <2> QED BY <1>2, <2>5 DEF T
<1> DEFINE d == all.closed
           b == all.current
           F == FlattenSeq(d) \o b
<1>4. Batches = IF b = <<>> THEN d ELSE Append(d, b)
  BY DEF Batches
<1> HIDE DEF all
<1>5. /\ d \in Seq(Seq(Commits)) /\ b \in Seq(Commits)
      /\ \A i \in DOMAIN d : Fits(d[i])
      /\ b # <<>> => Fits(b)
      /\ Len(F) = n /\ \A i \in 1..n : F[i] = Needing[i]
  BY <1>3 DEF Part
<1> HIDE DEF d, b
<1>6. FlattenSeq(d) \in Seq(Commits)
  BY <1>5, FlattenType
<1>7. F = Needing
  <2>1. F \in Seq(Commits)
    BY <1>5, <1>6
  <2> HIDE DEF F, n
  <2> QED BY <1>5, <2>1, NeedingCommits, SeqEqual DEF n
<1>8. CASE b = <<>>
  <2>1. FlattenSeq(d) = F
    BY <1>6, <1>8
  <2> QED BY <1>4, <1>5, <1>7, <1>8, <2>1
<1>9. CASE b # <<>>
  <2> DEFINE r == Append(d, b)
  <2>1. r \in Seq(Seq(Commits))
    BY <1>5
  <2>2. FlattenSeq(r) = F
    BY <1>5, FlattenAppend
  <2>3. \A i \in DOMAIN r : Fits(r[i])
    <3>1. \A i \in DOMAIN r : i \in DOMAIN d \/ i = Len(d) + 1
      BY <1>5
    <3>2. /\ \A i \in DOMAIN d : r[i] = d[i]
          /\ r[Len(d) + 1] = b
      BY <1>5
    <3> QED BY <1>5, <1>9, <3>1, <3>2
  <2> QED BY <1>4, <1>7, <1>9, <2>1, <2>2, <2>3
<1> QED BY <1>8, <1>9

-----------------------------------------------------------------------------
(* Steps.                                                                  *)

\* What a step may make of the decisions.
LEMMA Decisions ==
  ASSUME DecidedInv, UNCHANGED inputVars, proven \subseteq proven', proven' \subseteq Commits, NEW answer,
         Decide(answer),
         \A k \in DOMAIN Current :
           LET e == [answer[k] EXCEPT !.findings = SanitizedAll(@)]
           IN /\ Parsed(e)
              /\ tools = "host" /\ Current[k] \notin proven' => Plain(e)
  PROVE  DecidedInv'
<1>1. \A c \in Commits : c \notin ToSet(Current) => decided'[c] = decided[c]
  BY DEF Decide
<1>2. ASSUME NEW c \in Commits, c \in ToSet(Current)
      PROVE  \E k \in DOMAIN Current :
               Current[k] = c /\ decided'[c] = [answer[k] EXCEPT !.findings = SanitizedAll(@)]
  <2>1. \E k \in DOMAIN Current : Current[k] = c
    BY <1>2 DEF ToSet
  <2> DEFINE k == CHOOSE k \in DOMAIN Current : Current[k] = c
  <2>2. k \in DOMAIN Current /\ Current[k] = c
    BY <2>1
  <2>3. decided'[c] = [answer[k] EXCEPT !.findings = SanitizedAll(@)]
    BY <1>2 DEF Decide, EntryOf
  <2> QED BY <2>2, <2>3
<1>3. DOMAIN decided' = Commits
  BY DEF Decide
<1>4. ASSUME NEW c \in Commits, decided'[c] # None
      PROVE  Parsed(decided'[c]) /\ (tools' = "host" /\ c \notin proven' => Plain(decided'[c]))
  <2>1. CASE c \in ToSet(Current)
    BY ZenonT(40), <1>2, <2>1
  <2>2. CASE c \notin ToSet(Current)
    BY <1>1, <1>4, <2>2 DEF DecidedInv
  <2> QED BY <2>1, <2>2
<1> QED BY <1>3, <1>4 DEF DecidedInv

\* A step that decides nothing.
LEMMA NoDecision ==
  ASSUME DecidedInv, UNCHANGED <<rows, tools, decided, proven>>
  PROVE  DecidedInv'
  BY DEF DecidedInv

\* A batch that is given up decides by the empty entry, which drops nothing.
LEMMA GiveUpStep ==
  ASSUME DecidedInv, NEW empty, GiveUp(empty) PROVE DecidedInv'
<1>1. UNCHANGED inputVars /\ proven' = proven /\ proven' \subseteq Commits
  BY DEF GiveUp, EndBatch, DecidedInv
<1>2. CASE UNCHANGED decided
  BY <1>1, <1>2, NoDecision
<1>3. CASE Decide([k \in DOMAIN Current |-> NoEntry])
  BY <1>1, <1>3, NoEntryPlain, Decisions
<1> QED BY <1>2, <1>3 DEF GiveUp

\* An attempt that is made again decides nothing, or gives up.
LEMMA RetryStep ==
  ASSUME DecidedInv, NEW empty, Retry(empty) PROVE DecidedInv'
<1>1. CASE GiveUp(empty)
  BY <1>1, GiveUpStep
<1>2. CASE UNCHANGED <<rows, tools, decided, proven>>
  BY <1>2, NoDecision
<1> QED BY <1>1, <1>2 DEF Retry

\* The commits of a batch.
LEMMA CurrentCommits == ASSUME BatchInv, phase = "ask" PROVE ToSet(Current) \subseteq Commits
<1>1. batches \in Seq(Seq(Commits))
  BY DEF BatchInv
<1>2. batch \in DOMAIN batches
  BY <1>1 DEF BatchInv
<1>3. Current \in Seq(Commits)
  BY <1>1, <1>2 DEF Current
<1> QED BY <1>3 DEF ToSet

\* An accepted answer decides for the commits of its batch, by what it says.
LEMMA AcceptStep ==
  ASSUME DecidedInv, BatchInv, NEW answer \in Answers, Accept(answer) PROVE DecidedInv'
<1>1. UNCHANGED inputVars /\ proven \subseteq proven' /\ Decide(answer)
  BY DEF Accept, EndBatch
<1>3. proven' \subseteq Commits
  BY CurrentCommits DEF Accept, DecidedInv
<1>2. ASSUME NEW k \in DOMAIN Current
      PROVE  LET e == [answer[k] EXCEPT !.findings = SanitizedAll(@)]
             IN /\ Parsed(e)
                /\ tools = "host" /\ Current[k] \notin proven' => Plain(e)
  <2>1. answer[k] \in Entries /\ DOMAIN answer = DOMAIN Current
    BY DEF Answers
  <2>2. \A i \in DOMAIN answer[k].adjudications : ExactAdjudication(answer[k].adjudications[i])
    BY <2>1 DEF Accept, Parses
  <2>3. ASSUME tools = "host", Current[k] \notin proven'
        PROVE  /\ answer[k].adjudications = <<>>
               /\ \A i \in DOMAIN answer[k].findings : ~answer[k].findings[i].sensitive
    <3>1. ~inspected
      BY <2>3 DEF Accept, ToSet
    <3>2. ~NeedsVerification(answer)
      BY <2>3, <3>1 DEF Accept, Unverified
    <3> QED BY <2>1, <3>2 DEF NeedsVerification
  <2> QED BY <2>1, <2>2, <2>3, EntryParsed
<1> QED BY <1>1, <1>2, <1>3, Decisions

\* Every step keeps the decisions in order.
LEMMA DecidedStep ==
  ASSUME DecidedInv, BatchInv, [Next]_vars PROVE DecidedInv'
<1>1. CASE UseTool
  BY <1>1, NoDecision DEF UseTool
<1>2. CASE SkipBatch
  BY <1>2, NoDecision DEF SkipBatch
<1>3. CASE SendBatch
  BY <1>3, NoDecision DEF SendBatch
<1>4. CASE ApiError
  BY <1>4, RetryStep DEF ApiError
<1>5. CASE TimeOut
  BY <1>5, GiveUpStep DEF TimeOut
<1>6. CASE Merge
  BY <1>6, NoDecision DEF Merge
<1>7. ASSUME NEW answer \in Answers, Remind(answer) PROVE DecidedInv'
  BY <1>7, NoDecision DEF Remind
<1>8. ASSUME NEW answer \in Answers, Withhold(answer) PROVE DecidedInv'
  BY <1>8, NoDecision DEF Withhold, EndBatch
<1>9. ASSUME NEW answer \in Answers, Reject(answer) PROVE DecidedInv'
  BY <1>9, RetryStep DEF Reject
<1>10. CASE UNCHANGED vars
  BY <1>10, NoDecision
<1> QED BY <1>1, <1>2, <1>3, <1>4, <1>5, <1>6, <1>7, <1>8, <1>9, <1>10, AcceptStep
       DEF Next, Proceed, Answer

\* The bytes that a batch would have if the commits had the payloads r.
SizeOf(r, indices) == FoldLeft(LAMBDA sum, c : sum + r[c].full, 0, indices)

\* A batch grows with nothing but the payloads.
LEMMA SameSize ==
  ASSUME UNCHANGED rows, NEW b PROVE FullSize(b)' = FullSize(b)
<1>1. FullSize(b) = SizeOf(rows, b)
  BY Zenon DEF FullSize, SizeOf, FoldLeft, MapThenFoldSet
<1>2. FullSize(b)' = SizeOf(rows', b)
  BY Zenon DEF FullSize, SizeOf, FoldLeft, MapThenFoldSet
<1> QED BY <1>1, <1>2

\* Every step keeps the batches as they are, and starts one of them.
LEMMA BatchStep ==
  ASSUME BatchInv, [Next]_vars PROVE BatchInv'
<1>1. UNCHANGED <<rows, batches>>
  BY DEF Next, Proceed, UseTool, SkipBatch, SendBatch, ApiError, TimeOut, Answer, Merge,
     Remind, Withhold, Accept, Reject, Retry, GiveUp, EndBatch
<1>2. BatchesFit'
  <2>1. Needing' = Needing
    BY <1>1 DEF Needing
  <2>2. ASSUME NEW b \in DOMAIN batches
        PROVE  FullSize(batches[b])' = FullSize(batches[b])
    <3>1. PICK l : l = batches[b]
      OBVIOUS
    <3>2. FullSize(l)' = FullSize(l)
      BY <1>1, SameSize
    <3> QED BY <1>1, <3>1, <3>2
  <2> QED BY <1>1, <2>1, <2>2 DEF BatchInv, BatchesFit
<1>3. batch' \in {batch, batch + 1} /\ (phase' = "ask" => batch' = batch)
  BY DEF Next, Proceed, UseTool, SkipBatch, SendBatch, ApiError, TimeOut, Answer, Merge,
     Remind, Withhold, Accept, Reject, Retry, GiveUp, EndBatch
<1>4. phase' = "ask" => batch <= Len(batches)
  BY DEF BatchInv, Next, Proceed, UseTool, SkipBatch, SendBatch, ApiError, TimeOut, Answer, Merge,
     Remind, Withhold, Accept, Reject, Retry, GiveUp, EndBatch
<1> QED BY <1>1, <1>2, <1>3, <1>4 DEF BatchInv

\* Before the first batch nothing is decided.
LEMMA ValidationInit == ASSUME Init PROVE ValidationInv
<1>1. DecidedInv /\ MergedInv
  BY DEF Init, DecidedInv, MergedInv
<1>2. BatchInv
  BY BatchesCover DEF Init, BatchInv, BatchesFit, Fits
<1> QED BY <1>1, <1>2 DEF ValidationInv

\* The inductive step.
LEMMA ValidationStep == ASSUME ValidationInv, [Next]_vars PROVE ValidationInv'
<1>1. DecidedInv' /\ BatchInv'
  BY DecidedStep, BatchStep DEF ValidationInv
<1>2. MergedInv'
  <2> USE DEF ValidationInv, MergedInv
  <2>1. CASE Merge
    <3>1. /\ UNCHANGED <<rows, tools, decided, unverified>>
          /\ validated' = [c \in Commits |->
               MergeNovel(WithoutDisproved(rows[c].findings, Adjudications(c)), Additions(c))]
      BY <2>1 DEF Merge
    <3>2. ASSUME NEW c
          PROVE  Adjudications(c)' = Adjudications(c) /\ Additions(c)' = Additions(c)
      BY <3>1 DEF Adjudications, Additions
    <3> QED BY <3>1, <3>2
  <2>2. CASE phase' # "done"
    BY <2>2
  <2>3. CASE UNCHANGED vars
    <3>1. ASSUME NEW c
          PROVE  Adjudications(c)' = Adjudications(c) /\ Additions(c)' = Additions(c)
      BY <2>3 DEF Adjudications, Additions
    <3> QED BY <2>3, <3>1
  <2>4. CASE ~Merge /\ Next
    <3>1. phase' # "done" \/ phase = "done"
      BY <2>4 DEF Next, Proceed, UseTool, SkipBatch, SendBatch, ApiError, TimeOut, Answer,
         Remind, Withhold, Accept, Reject, Retry, GiveUp, EndBatch
    <3>2. phase \in {"next", "ask"}
      BY <2>4 DEF Next, Proceed, UseTool, SkipBatch, SendBatch, ApiError, TimeOut, Answer,
         Remind, Withhold, Accept, Reject
    <3> QED BY <3>1, <3>2
  <2> QED BY <2>1, <2>2, <2>3, <2>4
<1> QED BY <1>1, <1>2 DEF ValidationInv

\* The inductive invariant of the validation.
LEMMA AlwaysValidation == Spec => []ValidationInv
<1>1. ValidationInv /\ [Next]_vars => ValidationInv'
  BY ValidationStep
<1> QED BY ValidationInit, <1>1, PTL DEF Spec

-----------------------------------------------------------------------------
(* What is shown.                                                          *)

\* A list is the subsequence of all its elements.
LEMMA AllOfIt ==
  ASSUME NEW S, NEW s \in Seq(S) PROVE Subsequence(s, DOMAIN s) = s
<1> DEFINE n == Len(s)
           place(i) == Cardinality({k \in 1..n : k <= i})
           r == [j \in 1..n |-> s[CHOOSE i \in 1..n : place(i) = j]]
<1>1. n \in Nat /\ DOMAIN s = 1..n /\ s = [j \in 1..n |-> s[j]]
  OBVIOUS
<1> HIDE DEF n
<1>2. Cardinality(1..n) = n
  <2>1. Cardinality(1..n) = IF 1 > n THEN 0 ELSE n - 1 + 1
    <3>1. 1 \in Int /\ n \in Int
      BY <1>1
    <3> HIDE DEF n
    <3> QED BY <3>1, FS_Interval
  <2> QED BY <1>1, <2>1
<1>3. ASSUME NEW i \in 1..n PROVE place(i) = i
  <2>1. {k \in 1..n : k <= i} = 1..i /\ i \in Nat
    BY <1>1
  <2>2. Cardinality(1..i) = i
    BY <2>1, FS_Interval
  <2> QED BY <2>1, <2>2
<1>4. ASSUME NEW j \in 1..n PROVE (CHOOSE i \in 1..n : place(i) = j) = j
  <2>1. \A i \in 1..n : place(i) = j <=> i = j
    BY <1>3
  <2> HIDE DEF place
  <2> QED BY <2>1
<1>5. r = s
  BY <1>1, <1>4
<1>6. Subsequence(s, DOMAIN s) = r
  BY <1>1, <1>2 DEF Subsequence
<1> QED BY <1>5, <1>6

\* Without adjudications the baseline stays as it is.
LEMMA NothingDisproved ==
  ASSUME NEW S, NEW s \in Seq(S) PROVE WithoutDisproved(s, <<>>) = s
<1>1. WithoutDisproved(s, <<>>) = Subsequence(s, {i \in DOMAIN s : TRUE})
  BY DEF WithoutDisproved
<1>2. {i \in DOMAIN s : TRUE} = DOMAIN s
  OBVIOUS
<1> QED BY <1>1, <1>2, AllOfIt

\* The indices of the baseline that are kept.
Kept(baseline, adjudications) ==
  {i \in DOMAIN baseline :
     ~ /\ ~IsUpstreamFix(baseline[i])
       /\ \E k \in DOMAIN adjudications :
            /\ adjudications[k].verdict = "DROP"
            /\ adjudications[k].conclusion = "false_positive"
            /\ adjudications[k].id = i}

\* What is kept of the baseline is a list of its elements.
LEMMA KeptElements ==
  ASSUME NEW S, NEW s \in Seq(S), NEW a
  PROVE  /\ WithoutDisproved(s, a) = Subsequence(s, Kept(s, a))
         /\ WithoutDisproved(s, a) \in Seq(S)
         /\ ToSet(WithoutDisproved(s, a)) = {s[i] : i \in Kept(s, a)}
<1> DEFINE I == Kept(s, a)
<1>1. I \in SUBSET DOMAIN s
  BY DEF Kept
<1>2. WithoutDisproved(s, a) = Subsequence(s, I)
  BY DEF WithoutDisproved, Kept
<1> HIDE DEF I
<1>3. I \in SUBSET Nat /\ IsFiniteSet(I)
  BY <1>1, Indices
<1>4. /\ Subsequence(s, I) \in Seq({s[i] : i \in I})
      /\ ToSet(Subsequence(s, I)) = {s[i] : i \in I}
  BY <1>3, SubsequenceElements
<1>5. {s[i] : i \in I} \subseteq S
  BY <1>1
<1>6. Subsequence(s, I) \in Seq(S)
  BY <1>4, <1>5
<1> QED BY <1>2, <1>4, <1>6 DEF I

\* Without the sensitive claims there are none.
LEMMA CalmElements ==
  ASSUME NEW S, NEW s \in Seq(S)
  PROVE  /\ \E T : WithoutSensitive(s) \in Seq(T)
         /\ \A f \in ToSet(WithoutSensitive(s)) : ~f.sensitive
<1> DEFINE I == {i \in DOMAIN s : ~s[i].sensitive}
<1>1. I \in SUBSET DOMAIN s
  OBVIOUS
<1>2. WithoutSensitive(s) = Subsequence(s, I)
  BY DEF WithoutSensitive
<1>3. \A i \in I : ~s[i].sensitive
  OBVIOUS
<1> HIDE DEF I
<1>4. I \in SUBSET Nat /\ IsFiniteSet(I)
  BY <1>1, Indices
<1>5. /\ Subsequence(s, I) \in Seq({s[i] : i \in I})
      /\ ToSet(Subsequence(s, I)) = {s[i] : i \in I}
  BY <1>4, SubsequenceElements
<1>6. \A f \in ToSet(Subsequence(s, I)) : ~f.sensitive
  BY <1>3, <1>5
<1> QED BY <1>2, <1>5, <1>6

\* The additions of a commit are a list, and if the host runs the tools, none
\* is sensitive that it has not run one for, unless nothing was answered.
LEMMA AdditionsList ==
  ASSUME DecidedInv, NEW c \in Commits
  PROVE  /\ \E T : Additions(c) \in Seq(T)
         /\ tools = "host" /\ c \notin proven /\ ~(c \notin unverified /\ decided[c] = None)
              => \A f \in ToSet(Additions(c)) : ~f.sensitive
<1>1. rows[c].additions \in Seq(ToSet(rows[c].additions))
  BY FindingsValidationAssumption DEF DecidedInv, IsList
<1>2. CASE decided[c] # None
  <2> DEFINE l == decided[c].findings
  <2>1. PICK a \in ValidatorLists \cup {<<>>} : l = SanitizedAll(a)
    BY <1>2 DEF DecidedInv, Parsed
  <2>2. /\ a \in Seq(ToSet(a))
        /\ \A i \in DOMAIN a : "sensitive" \in DOMAIN a[i]
    <3>1. CASE a \in ValidatorLists
      BY <3>1, FindingsValidationAssumption DEF IsList
    <3>2. CASE a = <<>>
      BY <3>2
    <3> QED BY <2>1, <3>1, <3>2
  <2> HIDE DEF l
  <2>3. PICK T : l \in Seq(T)
    BY <2>1, <2>2, SanitizedAllList
  <2>4. /\ DOMAIN l = DOMAIN a
        /\ \A i \in DOMAIN a : l[i] = Sanitized(a[i])
    BY <2>1, <2>2, SanitizedAllList
  <2>5. \A i \in DOMAIN l : "sensitive" \in DOMAIN l[i]
    BY <2>2, <2>4, SanitizedSensitive
  <2>6. /\ \E U : WithAnchors(l) \in Seq(U)
        /\ ToSet(WithAnchors(l)) = {Anchored(l[i], Anchors) : i \in DOMAIN l}
    BY <2>3, WithAnchorsList
  <2>7. Additions(c) = WithAnchors(l)
    BY <1>2 DEF Additions, l
  <2>8. ASSUME tools = "host", c \notin proven PROVE \A i \in DOMAIN l : ~l[i].sensitive
    BY <1>2, <2>8 DEF DecidedInv, Plain, l
  <2>9. ASSUME tools = "host", c \notin proven, NEW f \in ToSet(WithAnchors(l))
        PROVE  ~f.sensitive
    <3>1. PICK i \in DOMAIN l : f = Anchored(l[i], Anchors)
      BY <2>6, <2>9
    <3> QED BY <2>5, <2>8, <2>9, <3>1, AnchoredSensitive
  <2> QED BY <2>6, <2>7, <2>9
<1>3. CASE decided[c] = None /\ c \in unverified
  <2>1. Additions(c) = WithoutSensitive(rows[c].additions)
    BY <1>3 DEF Additions
  <2> QED BY <1>1, <2>1, CalmElements
<1>4. CASE decided[c] = None /\ c \notin unverified
  BY <1>1, <1>4 DEF Additions
<1> QED BY <1>2, <1>3, <1>4

\* What is shown of a commit in the end.
LEMMA Shown ==
  ASSUME ValidationInv, phase = "done", NEW c \in Commits
  PROVE  \E T :
           /\ rows[c].findings \in Seq(T) /\ Additions(c) \in Seq(T)
           /\ WithoutDisproved(rows[c].findings, Adjudications(c)) \in Seq(T)
           /\ validated[c] = MergeNovel(WithoutDisproved(rows[c].findings, Adjudications(c)),
                                        Additions(c))
<1> DEFINE b == rows[c].findings
           S == ToSet(b)
<1>1. b \in Seq(S)
  BY FindingsValidationAssumption DEF ValidationInv, DecidedInv, IsList
<1>2. PICK U : Additions(c) \in Seq(U)
  BY AdditionsList DEF ValidationInv
<1>3. validated[c] = MergeNovel(WithoutDisproved(b, Adjudications(c)), Additions(c))
  BY DEF ValidationInv, MergedInv
<1> HIDE DEF b, S
<1>4. WithoutDisproved(b, Adjudications(c)) \in Seq(S)
  BY <1>1, KeptElements
<1>5. /\ b \in Seq(S \cup U) /\ Additions(c) \in Seq(S \cup U)
      /\ WithoutDisproved(b, Adjudications(c)) \in Seq(S \cup U)
  BY <1>1, <1>2, <1>4
<1> QED BY <1>3, <1>5 DEF b

\* Where no subprocess runs tools of its own: without an answer for which the
\* host has run a tool, the baseline stays as it was at the head of the list;
\* with one, a finding goes only upon facts that are not hedged; and a sensitive
\* claim beyond the baseline is shown only if the host has run a tool for it,
\* could not, or was never answered (output_requires_tool_verification,
\* parse_baseline_adjudications_strict, apply_adjudicated_fast_false_positives).
THEOREM VerdictVerified ==
  ASSUME "agent" \notin ToolModes PROVE Spec => []VerdictIsVerified
<1>1. ASSUME ValidationInv PROVE VerdictIsVerified
  <2> SUFFICES ASSUME phase = "done" PROVE VerdictIsVerified
    BY DEF VerdictIsVerified
  <2>0. DecidedInv /\ tools \in {"host", "none"}
    BY <1>1, FindingsValidationAssumption DEF ValidationInv, DecidedInv
  <2>1. ASSUME NEW c \in Commits, c \notin proven
        PROVE  IsPrefix(rows[c].findings, validated[c])
    <3> DEFINE b == rows[c].findings
    <3>1. Adjudications(c) = <<>>
      BY <2>0, <2>1 DEF Adjudications, DecidedInv, Plain
    <3>2. PICK T : b \in Seq(T) /\ Additions(c) \in Seq(T)
                   /\ validated[c] = MergeNovel(WithoutDisproved(b, <<>>), Additions(c))
      BY <1>1, <3>1, Shown
    <3> HIDE DEF b
    <3>3. validated[c] = MergeNovel(b, Additions(c))
      BY <3>2, NothingDisproved
    <3>4. IsPrefix(b, validated[c])
      BY <3>2, <3>3, MergePrefix
    <3> QED BY <3>4 DEF b
  <2>2. ASSUME NEW c \in proven \cap Commits, NEW i \in DOMAIN rows[c].findings
        PROVE  \/ rows[c].findings[i] \in ToSet(validated[c])
               \/ \E a \in ToSet(decided[c].adjudications) :
                    a.id = i /\ a.verdict = "DROP" /\ a.facts /\ ~a.hedged
    <3> DEFINE b == rows[c].findings
               w == WithoutDisproved(b, Adjudications(c))
    <3>1. PICK T : b \in Seq(T) /\ Additions(c) \in Seq(T) /\ w \in Seq(T)
                   /\ validated[c] = MergeNovel(w, Additions(c))
      BY <1>1, Shown
    <3>2. ToSet(w) = {b[j] : j \in Kept(b, Adjudications(c))}
      BY <3>1, KeptElements
    <3>3. CASE i \in Kept(b, Adjudications(c))
      <4>1. b[i] \in ToSet(w)
        BY <3>2, <3>3
      <4> HIDE DEF b, w
      <4>2. ToSet(w) \subseteq ToSet(validated[c])
        BY <3>1, MergeKeepsBase
      <4> QED BY <4>1, <4>2 DEF b
    <3>4. CASE i \notin Kept(b, Adjudications(c))
      <4>1. PICK k \in DOMAIN Adjudications(c) :
              Adjudications(c)[k].verdict = "DROP" /\ Adjudications(c)[k].id = i
        BY <2>2, <3>4 DEF Kept
      <4>2. decided[c] # None /\ Adjudications(c) = decided[c].adjudications
        BY <4>1 DEF Adjudications
      <4>3. ExactAdjudication(Adjudications(c)[k])
        BY <2>0, <4>1, <4>2 DEF DecidedInv, Parsed
      <4>4. Adjudications(c)[k].facts /\ ~Adjudications(c)[k].hedged
        BY <4>1, <4>3 DEF ExactAdjudication
      <4>5. Adjudications(c)[k] \in ToSet(decided[c].adjudications)
        BY <4>1, <4>2 DEF ToSet
      <4> QED BY <4>1, <4>4, <4>5
    <3> QED BY <3>3, <3>4
  <2>3. ASSUME tools = "host", NEW c \in Commits,
               NEW f \in ToSet(validated[c]) \ ToSet(rows[c].findings), f.sensitive
        PROVE  c \in proven \/ (c \notin unverified /\ decided[c] = None)
    <3> DEFINE b == rows[c].findings
               w == WithoutDisproved(b, Adjudications(c))
    <3>1. PICK T : b \in Seq(T) /\ Additions(c) \in Seq(T) /\ w \in Seq(T)
                   /\ validated[c] = MergeNovel(w, Additions(c))
      BY <1>1, Shown
    <3>2. ToSet(w) \subseteq ToSet(b)
      <4>1. ToSet(w) = {b[j] : j \in Kept(b, Adjudications(c))}
        BY <3>1, KeptElements
      <4>2. Kept(b, Adjudications(c)) \subseteq DOMAIN b
        BY DEF Kept
      <4> HIDE DEF b, w
      <4> QED BY <4>1, <4>2 DEF ToSet
    <3>3. PICK j \in DOMAIN validated[c] : f = validated[c][j]
      BY DEF ToSet
    <3> DEFINE a == Additions(c)
    <3> HIDE DEF b, w, a
    <3>4. (\E i \in DOMAIN w : f = w[i]) \/ \E i \in DOMAIN a : f = a[i]
      BY <3>1, <3>3, MergeElements DEF a
    <3>5. f \notin ToSet(w)
      BY <3>2 DEF b
    <3>6. f \in ToSet(a)
      BY <3>4, <3>5 DEF ToSet
    <3> QED BY <2>0, <2>3, <3>6, AdditionsList DEF a
  <2>4. proven \subseteq Commits
    BY <2>0 DEF DecidedInv
  <2> QED BY <2>1, <2>2, <2>3, <2>4 DEF VerdictIsVerified
<1> QED BY <1>1, AlwaysValidation, PTL

\* However many commits there are and whatever their size, the batches hold
\* each commit that needs validation once, in order, and each batch fits the
\* validator's input or is of one commit (validation_findings_batches).
THEOREM BatchesAreFit == Spec => []BatchesFit
<1>1. ValidationInv => BatchesFit
  BY DEF ValidationInv, BatchInv
<1> QED BY <1>1, AlwaysValidation, PTL

\* What a choice of kept findings and additions makes.
LEMMA OneOfValidations ==
  ASSUME NEW b, NEW adds, NEW answers, NEW k \in SUBSET DOMAIN b,
         NEW a \in ValidatedAdditions(adds, answers)
  PROVE  MergeNovel(Subsequence(b, k \cup {i \in DOMAIN b : IsUpstreamFix(b[i])}), a)
           \in Validations(b, adds, answers)
<1>1. \A y : y \in Validations(b, adds, answers) <=>
        \E keep \in SUBSET DOMAIN b : \E x \in ValidatedAdditions(adds, answers) :
          y = MergeNovel(Subsequence(b, keep \cup {i \in DOMAIN b : IsUpstreamFix(b[i])}), x)
  BY SMT DEF Validations
<1> QED BY <1>1, Zenon

\* Whatever the validator answers, what becomes of a commit is one of the
\* results that the run is modelled with (Validations of Findings).
THEOREM AsTheRunExpects == Spec => []WithinContract
<1>1. ASSUME ValidationInv PROVE WithinContract
  <2> SUFFICES ASSUME phase = "done", NEW c \in Commits
               PROVE  validated[c] \in Validations(rows[c].findings, rows[c].additions,
                                          {SanitizedAll(a) : a \in ValidatorLists})
    BY DEF WithinContract
  <2> DEFINE b == rows[c].findings
             answers == {SanitizedAll(a) : a \in ValidatorLists}
             keep == Kept(b, Adjudications(c))
             fixes == {i \in DOMAIN b : IsUpstreamFix(b[i])}
  <2>1. PICK T : b \in Seq(T)
                 /\ validated[c] = MergeNovel(WithoutDisproved(b, Adjudications(c)), Additions(c))
    BY <1>1, Shown
  <2>2. keep \in SUBSET DOMAIN b /\ keep \cup fixes = keep
    BY DEF Kept
  <2>3. WithoutDisproved(b, Adjudications(c)) = Subsequence(b, keep \cup fixes)
    <3>1. WithoutDisproved(b, Adjudications(c)) = Subsequence(b, keep)
      BY <2>1, KeptElements
    <3> QED BY <2>2, <3>1
  <2>4. Additions(c) \in ValidatedAdditions(rows[c].additions, answers)
    <3>1. CASE decided[c] # None
      <4>1. PICK a \in ValidatorLists \cup {<<>>} : decided[c].findings = SanitizedAll(a)
        BY <1>1, <3>1 DEF ValidationInv, DecidedInv, Parsed
      <4>2. CASE a \in ValidatorLists
        BY <3>1, <4>1, <4>2 DEF Additions, ValidatedAdditions
      <4>3. CASE a = <<>>
        <5>1. Additions(c) = WithAnchors(SanitizedAll(<<>>))
          BY <3>1, <4>1, <4>3 DEF Additions
        <5>2. SanitizedAll(<<>>) = <<>> /\ WithAnchors(<<>>) = <<>>
          BY EmptyCleaned
        <5> QED BY <5>1, <5>2 DEF ValidatedAdditions
      <4> QED BY <4>2, <4>3
    <3>2. CASE decided[c] = None
      BY <3>2 DEF Additions, ValidatedAdditions
    <3> QED BY <3>1, <3>2
  <2> HIDE DEF answers
  <2>5. \E k \in SUBSET DOMAIN b, a \in ValidatedAdditions(rows[c].additions, answers) :
          validated[c] = MergeNovel(Subsequence(b, k \cup fixes), a)
    <3> HIDE DEF b, keep, fixes
    <3> QED BY <2>1, <2>2, <2>3, <2>4
  <2>6. validated[c] \in Validations(b, rows[c].additions, answers)
    <3> HIDE DEF b
    <3>1. PICK k \in SUBSET DOMAIN b, a \in ValidatedAdditions(rows[c].additions, answers) :
            validated[c] = MergeNovel(Subsequence(b, k \cup fixes), a)
      BY <2>5
    <3>2. MergeNovel(Subsequence(b, k \cup fixes), a)
            \in Validations(b, rows[c].additions, answers)
      BY <3>1, OneOfValidations
    <3> QED BY <3>1, <3>2
  <2> QED BY <2>6 DEF answers
<1> QED BY <1>1, AlwaysValidation, PTL
=============================================================================
