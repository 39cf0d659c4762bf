-------------------------- MODULE CommitReviewProofs --------------------------
(* What holds of the review of one commit, whatever its model answers.       *)
EXTENDS CommitReview, FindingsTheorems

\* What a task has before its fast baseline, and what it has published after.
\* PossibleAdditions stands for the concerns until they are consolidated.
ReviewInv ==
  /\ task \in {"queued", "running", "returned", "panicked", "aborted"}
  /\ stage \in {SetUp} \cup (Subsystem..Consolidation)
  /\ stage = FastReview => fixes \in {MasterFixes(log) : log \in UpstreamLogs}
  /\ merged \in Seq(PossibleConcerns) /\ Len(merged) <= MaxConcerns
  /\ baseline \in PossibleBaselines \cup {None}
  /\ baseline # None <=> stage \in Broad..Consolidation
  /\ baseline = None => merged = <<>> /\ snap.findings = <<>>
  /\ baseline = None /\ task # "returned" => snap = EmptySnap
  /\ baseline # None /\ task # "returned" =>
       snap = [EmptySnap EXCEPT !.findings = MergeNovel(baseline, FallbackFindings(merged))]
  /\ baseline # None =>
       \E a \in PossibleAdditions : snap.findings = MergeNovel(baseline, a)

-----------------------------------------------------------------------------
(* The lists that the stages deal with.                                      *)

\* The object that a parser takes is a block of the answer that has the key.
LEMMA ObjectIsBlock ==
  ASSUME NEW S, NEW text \in Seq(S), NEW key, ObjectWith(text, key) # None
  PROVE  \E n \in DOMAIN text : ObjectWith(text, key) = text[n] /\ HasKey(text[n], key)
<1> DEFINE fenced == {n \in DOMAIN text : text[n].fenced /\ HasKey(text[n], key)}
           mentions == {n \in DOMAIN text : Names(text[n], key)}
<1>1. DOMAIN text = 1..Len(text) /\ Len(text) \in Nat
  OBVIOUS
<1>2. fenced # {} => Min(fenced) \in fenced
  <2>1. fenced \in SUBSET Nat
    BY <1>1
  <2> HIDE DEF fenced
  <2> QED
    BY <2>1, MinOf
<1>3. mentions # {} => Max(mentions) \in mentions
  <2>1. mentions \in SUBSET (1..Len(text))
    BY <1>1
  <2> HIDE DEF mentions
  <2> QED
    BY <1>1, <2>1, MaxOf
<1>4. CASE Len(text) = 1 /\ HasKey(text[1], key)
  BY <1>1, <1>4 DEF ObjectWith
<1>5. CASE ~(Len(text) = 1 /\ HasKey(text[1], key)) /\ fenced # {}
  <2>1. ObjectWith(text, key) = text[Min(fenced)]
    BY <1>5 DEF ObjectWith
  <2> QED
    BY <1>2, <1>5, <2>1
<1>6. CASE ~(Len(text) = 1 /\ HasKey(text[1], key)) /\ fenced = {}
  <2>1. mentions # {} /\ Encloses(text[Max(mentions)], key) /\ ObjectWith(text, key) = text[Max(mentions)]
    BY <1>6 DEF ObjectWith
  <2> QED
    BY <1>3, <2>1 DEF Encloses
<1> QED
  BY <1>4, <1>5, <1>6

\* What is understood is a list that a block of the text has.
LEMMA SaidIsInBlock ==
  ASSUME NEW S, NEW text \in Seq(S), text # <<>>, Said(text) # None
  PROVE  \E n \in DOMAIN text : Said(text).concerns \in ConcernLists(text[n])
<1> DEFINE single == {key \in {"concerns", "findings"} :
                       Len(text) = 1 /\ HasKey(text[1], key) /\ text[1][key].single}
           in(key) == ObjectWith(text, key)
<1>1. 1 \in DOMAIN text
  OBVIOUS
<1>2. CASE Len(text) = 1 /\ text[1].kind = "list"
  <2>1. \A n \in DOMAIN text : n = 1
    BY <1>2
  <2>2. \A key : ~HasKey(text[1], key) /\ in(key) = None
    BY <1>2, <2>1, ObjectIsBlock DEF HasKey
  <2>3. single = {}
    BY <2>2
  <2>4. Said(text).concerns = text[1].list
    <3> HIDE DEF single
    <3> QED
      BY <1>2, <2>2, <2>3 DEF Said, single
  <2> QED
    BY <1>1, <1>2, <2>4 DEF ConcernLists
<1>3. CASE ~(Len(text) = 1 /\ text[1].kind = "list")
  <2>1. CASE "concerns" \in single
    <3>1. Said(text).concerns = text[1].concerns.list
      BY <1>3, <2>1 DEF Said
    <3> QED
      BY <1>1, <2>1, <3>1 DEF ConcernLists
  <2>2. CASE "concerns" \notin single /\ "findings" \in single
    <3>1. single = {"findings"}
      BY <2>2
    <3>2. Said(text).concerns = text[1].findings.list
      BY <1>3, <2>2, <3>1 DEF Said
    <3> QED
      BY <1>1, <2>2, <3>2 DEF ConcernLists
  <2>3. CASE "concerns" \notin single /\ "findings" \notin single
    <3>1. single = {}
      BY <2>3
    <3> HIDE DEF single
    <3>2. CASE in("concerns") # None /\ ~in("concerns").concerns.single
      <4>1. Said(text).concerns = in("concerns").concerns.list
        BY <1>3, <2>3, <3>1, <3>2 DEF Said, single
      <4>2. PICK n \in DOMAIN text : in("concerns") = text[n] /\ HasKey(text[n], "concerns")
        BY <3>2, ObjectIsBlock
      <4> QED
        BY <4>1, <4>2 DEF ConcernLists
    <3>3. CASE ~(in("concerns") # None /\ ~in("concerns").concerns.single)
      <4>1. /\ in("concerns") = None /\ in("findings") # None
            /\ Said(text).concerns = in("findings").findings.list
        BY <1>3, <2>3, <3>1, <3>3 DEF Said, single
      <4>2. PICK n \in DOMAIN text : in("findings") = text[n] /\ HasKey(text[n], "findings")
        BY <4>1, ObjectIsBlock
      <4> QED
        BY <4>1, <4>2 DEF ConcernLists
    <3> QED
      BY <3>2, <3>3
  <2> QED
    BY <2>1, <2>2, <2>3
<1> QED
  BY <1>2, <1>3

\* What a stage hears is a list of concerns that are possible, also
\* reattributed.
LEMMA HeardLists ==
  ASSUME NEW s \in Broad..LastSpecialist, NEW h \in Heard(s)
  PROVE  /\ h.concerns \in Seq(PossibleConcerns)
         /\ Reattributed(h.concerns) \in Seq(PossibleConcerns)
<1>1. h.concerns \in Seq(ToSet(h.concerns))
  <2>1. CASE h = [concerns |-> <<>>, challenges |-> <<>>]
    BY <2>1
  <2>2. CASE h # [concerns |-> <<>>, challenges |-> <<>>]
    <3>1. PICK text \in ConcernTexts : h = Understood(s, text) /\ h # None
      BY <2>2 DEF Heard
    <3>2. h = Said(text)
      BY <3>1 DEF Understood, LinkageSaid, StrictlySaid
    <3>3. text \in Seq(ToSet(text)) /\ text # <<>>
      BY ConcernTextsAssumption DEF IsList
    <3>4. PICK n \in DOMAIN text : h.concerns \in ConcernLists(text[n])
      BY <3>1, <3>2, <3>3, SaidIsInBlock
    <3> QED
      BY <3>4, ConcernTextsAssumption DEF IsList
  <2> QED
    BY <2>1, <2>2
<1>2. ToSet(h.concerns) \subseteq HeardConcerns
  BY DEF HeardConcerns
<1> DEFINE l == h.concerns
           P == PossibleConcerns
           T == {Moved(l[i]) : i \in {k \in DOMAIN l : Attributable(l[k])}}
<1>3. \A i \in DOMAIN l : l[i] \in HeardConcerns
  BY <1>2 DEF ToSet
<1>4. \A i \in DOMAIN l : l[i] \in P
  BY <1>3 DEF PossibleConcerns
<1>5. Reattributed(l) \in Seq(T)
  <2> HIDE DEF l
  <2> QED
    BY <1>1, ReattributedList DEF l
<1>6. T \subseteq P
  <2> SUFFICES ASSUME NEW i \in DOMAIN l, Attributable(l[i]) PROVE Moved(l[i]) \in P
    OBVIOUS
  <2> DEFINE c == l[i]
             one == <<c>>
  <2>1. one \in Seq({c}) /\ DOMAIN one = {1} /\ one[1] = c
    OBVIOUS
  <2>2. c \in HeardConcerns
    BY <1>3
  <2> HIDE DEF one
  <2>3. ToSet(Reattributed(one)) = {Moved(one[k]) : k \in {j \in DOMAIN one : Attributable(one[j])}}
    BY <2>1, ReattributedList
  <2>4. Moved(c) \in ToSet(Reattributed(one))
    BY <2>1, <2>3
  <2> QED
    BY <2>2, <2>4 DEF PossibleConcerns, one
<1> HIDE DEF P, T
<1>7. l \in Seq(P)
  <2> HIDE DEF l
  <2> QED
    BY <1>1, <1>4, ListIn DEF l
<1>8. Reattributed(l) \in Seq(P)
  <2>1. \A i \in DOMAIN Reattributed(l) : Reattributed(l)[i] \in P
    BY <1>5, <1>6
  <2> HIDE DEF l
  <2> QED
    BY <1>5, <2>1, ListIn
<1> QED
  BY <1>7, <1>8 DEF P

\* The upstream fixes of a log are a list.
LEMMA MasterFixesList ==
  ASSUME NEW log \in UpstreamLogs
  PROVE  \E T : MasterFixes(log) \in Seq(T)
<1>1. CASE MasterFixes(log) = <<>>
  BY <1>1
<1>2. CASE MasterFixes(log) # <<>>
  <2> DEFINE found == FindMasterFixes(log)
  <2>1. log # None /\ found # None /\ MasterFixes(log) = Each(found, LAMBDA c : c.sha)
    BY <1>2 DEF MasterFixes, Fetched
  <2>2. log \in Seq(ToSet(log))
    BY <2>1, UpstreamAssumption DEF IsList
  <2>3. \E T : found \in Seq(T)
    <3> DEFINE I == {i \in DOMAIN log : log[i].names = "canonical"}
               r == Referring(log)
    <3>1. r \in Seq({log[i] : i \in I})
      <4>1. I \in SUBSET (DOMAIN log)
        OBVIOUS
      <4>2. r = Subsequence(log, I)
        BY DEF Referring
      <4> HIDE DEF I
      <4> QED
        BY <2>2, <4>1, <4>2, Indices, SubsequenceElements
    <3>2. CASE found = <<>>
      BY <3>2
    <3>3. CASE found # <<>>
      <4>1. found = Unapplied(r, Referring(BranchLog))
        BY <2>1, <3>3 DEF FindMasterFixes
      <4>2. \E J \in SUBSET (DOMAIN r) : found = Subsequence(r, J)
        BY <4>1 DEF Unapplied
      <4> HIDE DEF r, found
      <4>3. PICK J \in SUBSET (DOMAIN r) : found = Subsequence(r, J)
        BY <4>2
      <4>4. Subsequence(r, J) \in Seq({r[i] : i \in J})
        BY <3>1, Indices, SubsequenceElements
      <4> QED
        BY <4>3, <4>4
    <3> QED
      BY <3>2, <3>3
  <2> HIDE DEF found
  <2>4. PICK T : found \in Seq(T)
    BY <2>3
  <2> DEFINE r == [i \in DOMAIN found |-> found[i].sha]
             U == {found[i].sha : i \in DOMAIN found}
  <2>5. Len(found) \in Nat /\ DOMAIN found = 1..Len(found)
    BY <2>4
  <2>6. r = [i \in 1..Len(found) |-> r[i]] /\ \A i \in 1..Len(found) : r[i] \in U
    BY <2>5
  <2>7. MasterFixes(log) = <<>> \o r
    BY <2>1 DEF Each
  <2> HIDE DEF r, U
  <2>8. <<>> \o r = r /\ r \in Seq(U)
    BY <2>5, <2>6, Listed
  <2> QED
    BY <2>7, <2>8
<1> QED
  BY <1>1, <1>2

\* All findings that the task may have.
Items == UNION {ToSet(list) : list \in PossibleBaselines \cup PossibleAdditions}

\* What the stages merge is lists of findings.
LEMMA ListOfItems ==
  ASSUME NEW list \in PossibleBaselines \cup PossibleAdditions
  PROVE  list \in Seq(Items)
<1>1. \E T : list \in Seq(T)
  <2>1. CASE list \in PossibleBaselines
    <3>1. PICK f \in FastLists, log \in UpstreamLogs :
            list = WithUpstreamFixes(SanitizedAll(f), MasterFixes(log))
      BY <2>1 DEF PossibleBaselines
    <3> DEFINE s == SanitizedAll(f)
               shas == MasterFixes(log)
    <3>2. f \in Seq(ToSet(f))
      BY CommitReviewAssumption DEF IsList
    <3>3. \E T : s \in Seq(T)
      BY <3>2, SanitizedAllList
    <3>4. \E T : shas \in Seq(T)
      BY MasterFixesList
    <3> HIDE DEF s, shas
    <3>5. PICK T : s \in Seq(T)
      BY <3>3
    <3>6. PICK U : shas \in Seq(U)
      BY <3>4
    <3>7. WithUpstreamFixes(s, shas) \in Seq(T \cup {UpstreamFixFinding(shas[i]) : i \in DOMAIN shas})
      BY <3>5, <3>6, UpstreamFixesList
    <3> QED
      BY <3>1, <3>7 DEF s, shas
  <2>2. CASE \E a \in ConsolidatedLists : list = SanitizedAll(a)
    <3>1. PICK a \in ConsolidatedLists : list = SanitizedAll(a)
      BY <2>2
    <3>2. a \in Seq(ToSet(a))
      BY CommitReviewAssumption DEF IsList
    <3> QED
      BY <3>1, <3>2, SanitizedAllList
  <2>3. CASE \E m \in BoundedSeq(PossibleConcerns, MaxConcerns) : list = FallbackFindings(m)
    <3>1. PICK m \in BoundedSeq(PossibleConcerns, MaxConcerns) : list = FallbackFindings(m)
      BY <2>3
    <3>2. PICK n \in 0..MaxConcerns : m \in [1..n -> PossibleConcerns]
      BY DEF BoundedSeq, SeqOf
    <3>3. m \in Seq(PossibleConcerns)
      BY <3>2
    <3> QED
      BY <3>1, <3>3, FallbackFindingsList
  <2> QED
    BY <2>1, <2>2, <2>3 DEF PossibleAdditions
<1>2. \A i \in DOMAIN list : list[i] \in Items
  BY DEF Items, ToSet
<1> QED
  BY <1>1, <1>2, ListIn

\* Concerns within the bound become additions that the task may find.
LEMMA FallbackIsPossible ==
  ASSUME NEW m \in Seq(PossibleConcerns), Len(m) <= MaxConcerns
  PROVE  FallbackFindings(m) \in PossibleAdditions
<1>1. m \in [1..Len(m) -> PossibleConcerns] /\ Len(m) \in 0..MaxConcerns
  BY CommitReviewAssumption
<1>2. m \in BoundedSeq(PossibleConcerns, MaxConcerns)
  BY <1>1 DEF BoundedSeq, SeqOf
<1> QED
  BY <1>2 DEF PossibleAdditions

-----------------------------------------------------------------------------
(* The invariant.                                                            *)

\* The concerns of a stage are published after those before them.
LEMMA DiscoverSteps ==
  ASSUME ReviewInv, task = "running", baseline # None,
         NEW found \in Seq(PossibleConcerns), Discover(found)
  PROVE  /\ merged' \in Seq(PossibleConcerns) /\ Len(merged') <= MaxConcerns
         /\ baseline' = baseline
         /\ FallbackFindings(merged) \in PossibleAdditions
         /\ FallbackFindings(merged') \in PossibleAdditions
         /\ PublishFallback(found) =>
              snap' = [EmptySnap EXCEPT !.findings = MergeNovel(baseline, FallbackFindings(merged'))]
         /\ merged' = <<>> =>
              merged = <<>> /\ FallbackFindings(merged) = <<>> /\ snap.findings = baseline
<1>1. merged \in Seq(PossibleConcerns) /\ merged' = merged \o found
  BY DEF ReviewInv, Discover
<1>2. merged' \in Seq(PossibleConcerns) /\ Len(merged') <= MaxConcerns /\ baseline' = baseline
  BY <1>1 DEF Discover
<1>3. /\ FallbackFindings(merged) \in PossibleAdditions
      /\ FallbackFindings(merged') \in PossibleAdditions
  <2>1. Len(merged) <= MaxConcerns
    BY DEF ReviewInv
  <2> QED
    BY <1>1, <1>2, <2>1, FallbackIsPossible
<1>4. snap = [EmptySnap EXCEPT !.findings = MergeNovel(baseline, FallbackFindings(merged))]
  BY DEF ReviewInv
<1>5. merged' = <<>> => merged = <<>>
  <2>1. Len(merged \o found) = Len(merged) + Len(found) /\ Len(merged) \in Nat /\ Len(found) \in Nat
    BY <1>1
  <2>2. merged' = <<>> => Len(merged) = 0
    BY <1>1, <2>1
  <2> QED
    BY <1>1, <2>2
<1>6. FallbackFindings(<<>>) = <<>>
  <2>1. <<>> \in Seq(PossibleConcerns) /\ DOMAIN <<>> = {}
    OBVIOUS
  <2>2. DOMAIN FallbackFindings(<<>>) = {} /\ \E T : FallbackFindings(<<>>) \in Seq(T)
    BY <2>1, FallbackFindingsList
  <2> QED
    BY <2>2
<1>7. merged = <<>> => FallbackFindings(merged) = <<>> /\ snap.findings = baseline
  BY <1>4, <1>6, MergeEmpty DEF EmptySnap
<1>8. PublishFallback(found) =>
        snap' = [EmptySnap EXCEPT !.findings = MergeNovel(baseline, FallbackFindings(merged'))]
  <2>1. CASE merged' = <<>>
    <3>1. merged = <<>>
      BY <1>5, <2>1
    <3>2. PublishFallback(found) => snap' = [snap EXCEPT !.findings = @]
      BY <1>1, <2>1 DEF PublishFallback
    <3> QED
      BY <1>4, <2>1, <3>1, <3>2 DEF EmptySnap
  <2>2. CASE merged' # <<>>
    <3>1. PublishFallback(found) =>
            snap' = [snap EXCEPT !.findings = MergeNovel(baseline, FallbackFindings(merged'))]
      BY <1>1, <2>2 DEF PublishFallback
    <3> QED
      BY <1>4, <3>1 DEF EmptySnap
  <2> QED
    BY <2>1, <2>2
<1> QED
  BY <1>2, <1>3, <1>5, <1>7, <1>8

\* What a specialist does, with what it has found.
LEMMA SpecialistSteps ==
  ASSUME ReviewInv, Specialist
  PROVE  /\ task = "running" /\ abort # "spent" /\ stage \in FirstSpecialist..LastSpecialist
         /\ baseline # None /\ fixes' = fixes /\ Step(stage)
         /\ \E found \in Seq(PossibleConcerns) :
              /\ Discover(found)
              /\ \/ /\ stage < LastSpecialist /\ GoTo(stage + 1) /\ PublishFallback(found)
                 \/ /\ stage = LastSpecialist /\ merged' = <<>>
                    /\ ReturnReview(snap.findings, <<>>)
                 \/ stage = LastSpecialist /\ GoTo(Consolidation) /\ PublishFallback(found)
<1>1. PICK s \in FirstSpecialist..LastSpecialist : Step(s)
  BY DEF Specialist
<1>2. s = stage /\ task = "running" /\ abort # "spent"
  BY <1>1 DEF Step
<1>3. stage \in Broad..LastSpecialist /\ stage \in Broad..Consolidation
  BY <1>1, <1>2 DEF FirstSpecialist, LastSpecialist, Broad, Consolidation
<1>4. PICK h \in Heard(stage) :
        /\ Discover(h.concerns)
        /\ IF stage < LastSpecialist
             THEN GoTo(stage + 1) /\ PublishFallback(h.concerns) /\ UNCHANGED shown
           ELSE IF merged' = <<>>
             THEN ReturnReview(snap.findings, <<>>) /\ UNCHANGED shown
           ELSE /\ GoTo(Consolidation) /\ PublishFallback(h.concerns)
                /\ shown' = Clusters(merged')
  BY DEF Specialist
<1>5. h.concerns \in Seq(PossibleConcerns)
  BY <1>3, HeardLists
<1>6. LastSpecialist \in Nat /\ stage \in Nat /\ stage <= LastSpecialist
  BY <1>1, <1>2 DEF FirstSpecialist, LastSpecialist
<1>7. ~(stage < LastSpecialist) => stage = LastSpecialist
  BY <1>6
<1>8. baseline # None /\ fixes' = fixes
  BY <1>3, <1>4 DEF ReviewInv, Discover
<1> HIDE DEF Discover, GoTo, PublishFallback, ReturnReview, Clusters, Heard
<1>9. \/ stage < LastSpecialist /\ GoTo(stage + 1) /\ PublishFallback(h.concerns)
      \/ stage = LastSpecialist /\ merged' = <<>> /\ ReturnReview(snap.findings, <<>>)
      \/ stage = LastSpecialist /\ GoTo(Consolidation) /\ PublishFallback(h.concerns)
  BY <1>4, <1>7
<1> QED
  BY <1>1, <1>2, <1>4, <1>5, <1>8, <1>9

\* A task that waits for its permit has published nothing.
LEMMA InitInv == Init => ReviewInv
<1> SUFFICES ASSUME Init PROVE ReviewInv
  OBVIOUS
<1>1. <<>> \in Seq(PossibleConcerns) /\ Len(<<>>) = 0
  OBVIOUS
<1> QED
  BY <1>1, CommitReviewAssumption DEF Init, ReviewInv, SetUp, Subsystem, Consolidation,
     Broad, FastReview, EmptySnap

\* The steps before the baseline, and those that fail.
LEMMA EarlyInv ==
  ASSUME ReviewInv,
         EnterReview \/ SetUpFails \/ IdentifySubsystem \/ FollowUpStage \/ SinglePass \/ SinglePassFails
  PROVE  ReviewInv'
<1>1. /\ stage \in {SetUp, Subsystem, FollowUp, FastReview} /\ task = "running"
      /\ stage \notin Broad..Consolidation
  BY DEF EnterReview, SetUpFails, IdentifySubsystem, FollowUpStage, SinglePass, SinglePassFails, Step,
     SetUp, Subsystem, FollowUp, FastReview, Broad, Consolidation
<1>2. baseline = None /\ merged = <<>> /\ snap = EmptySnap
  BY <1>1 DEF ReviewInv
<1>3. /\ baseline' = None /\ merged' = <<>> /\ snap'.findings = <<>>
      /\ task' # "returned" => snap' = EmptySnap
      /\ task' \in {"running", "returned"}
      /\ stage' \in {SetUp, Subsystem, FollowUp, FastReview}
  <2>1. CASE EnterReview \/ IdentifySubsystem \/ FollowUpStage
    <3>1. snap' = snap /\ task' = task /\ baseline' = baseline /\ merged' = merged
      BY <2>1 DEF EnterReview, IdentifySubsystem, FollowUpStage, GoTo, dataVars
    <3>2. stage' \in {Subsystem, FollowUp, FastReview}
      BY <2>1 DEF EnterReview, IdentifySubsystem, FollowUpStage, GoTo
    <3> QED
      BY <1>1, <1>2, <3>1, <3>2 DEF EmptySnap
  <2>2. CASE SetUpFails \/ SinglePass \/ SinglePassFails
    <3>1. task' = "returned" /\ baseline' = baseline /\ merged' = merged /\ stage' = stage
      BY <2>2 DEF SetUpFails, SinglePass, SinglePassFails, ReturnError, Return, dataVars
    <3>2. \/ snap' = [snap EXCEPT !.error = TRUE]
          \/ snap' = [snap EXCEPT !.findings = <<>>, !.completed = TRUE]
      BY <2>2 DEF SetUpFails, SinglePass, SinglePassFails, ReturnError
    <3>3. snap'.findings = <<>>
      BY <1>2, <3>2 DEF EmptySnap
    <3> QED
      BY <1>1, <1>2, <3>1, <3>3
  <2> QED
    BY <2>1, <2>2
<1>4. stage' = FastReview => fixes' \in {MasterFixes(log) : log \in UpstreamLogs}
  <2>1. CASE FollowUpStage
    BY <2>1 DEF FollowUpStage
  <2>2. CASE SinglePass \/ SinglePassFails
    BY <2>2 DEF SinglePass, SinglePassFails, ReturnError, Return, dataVars, ReviewInv, Step
  <2>3. CASE EnterReview \/ SetUpFails \/ IdentifySubsystem
    BY <2>3 DEF EnterReview, SetUpFails, IdentifySubsystem, GoTo, ReturnError, Return, Step,
       SetUp, Subsystem, FollowUp, FastReview
  <2> QED
    BY <2>1, <2>2, <2>3
<1>5. stage' \notin Broad..Consolidation /\ stage' \in {SetUp} \cup (Subsystem..Consolidation)
  BY <1>3 DEF SetUp, Subsystem, FollowUp, FastReview, Broad, Consolidation
<1>6. merged' \in Seq(PossibleConcerns) /\ Len(merged') <= MaxConcerns
  BY <1>3, CommitReviewAssumption
<1> QED
  BY <1>3, <1>4, <1>5, <1>6 DEF ReviewInv

\* The first publication is the baseline itself.
LEMMA FastReviewInv ==
  ASSUME ReviewInv, FastReviewStage
  PROVE  ReviewInv' /\ baseline' \in PossibleBaselines /\ snap'.findings = baseline'
<1>1. /\ stage = FastReview /\ task = "running" /\ stage' = Broad /\ task' = "running"
      /\ merged' = merged
  BY DEF FastReviewStage, Step, GoTo
<1>2. FastReview \notin Broad..Consolidation /\ Broad \in Broad..Consolidation /\ Broad # FastReview
      /\ Broad \in Subsystem..Consolidation
  BY DEF FastReview, Broad, Consolidation, Subsystem
<1>3. baseline = None /\ merged = <<>> /\ snap = EmptySnap
  BY <1>1, <1>2 DEF ReviewInv
<1>4. baseline' \in PossibleBaselines /\ baseline' # None
  <2>1. fixes \in {MasterFixes(log) : log \in UpstreamLogs}
    BY <1>1 DEF ReviewInv
  <2>2. \E found \in FastLists : baseline' = WithUpstreamFixes(SanitizedAll(found), fixes)
    BY DEF FastReviewStage
  <2>3. baseline' \in PossibleBaselines
    BY <2>1, <2>2 DEF PossibleBaselines
  <2> QED
    BY <2>3, BaselineAssumption
<1>5. merged' \in Seq(PossibleConcerns) /\ Len(merged') <= MaxConcerns /\ merged' = <<>>
  BY <1>1, <1>3, CommitReviewAssumption
<1>6. FallbackFindings(<<>>) = <<>> /\ FallbackFindings(<<>>) \in PossibleAdditions
  <2>1. <<>> \in Seq(PossibleConcerns) /\ DOMAIN <<>> = {} /\ Len(<<>>) <= MaxConcerns
    BY <1>5
  <2>2. DOMAIN FallbackFindings(<<>>) = {} /\ \E T : FallbackFindings(<<>>) \in Seq(T)
    BY <2>1, FallbackFindingsList
  <2> QED
    BY <2>1, <2>2, FallbackIsPossible
<1>7. snap' = [EmptySnap EXCEPT !.findings = baseline'] /\ snap'.findings = baseline'
  BY <1>3 DEF FastReviewStage, EmptySnap
<1>8. MergeNovel(baseline', FallbackFindings(merged')) = baseline'
  BY <1>5, <1>6, MergeEmpty
<1>9. \E a \in PossibleAdditions : snap'.findings = MergeNovel(baseline', a)
  BY <1>5, <1>6, <1>7, <1>8
<1> QED
  BY <1>1, <1>2, <1>4, <1>5, <1>7, <1>8, <1>9 DEF ReviewInv

\* A list that was published is possible.
LEMMA PublishedInv ==
  ASSUME ReviewInv, task = "running", baseline # None, baseline' = baseline,
         merged' \in Seq(PossibleConcerns), Len(merged') <= MaxConcerns,
         stage' \in Broad..Consolidation, task' \in {"running", "returned"},
         NEW a \in PossibleAdditions, snap'.findings = MergeNovel(baseline, a),
         task' = "running" => snap' = [EmptySnap EXCEPT !.findings = MergeNovel(baseline, FallbackFindings(merged'))]
  PROVE  ReviewInv'
<1>1. stage' # FastReview /\ stage' \in Subsystem..Consolidation
  BY DEF FastReview, Broad, Consolidation, Subsystem
<1>2. baseline' \in PossibleBaselines /\ baseline' # None
  BY DEF ReviewInv
<1>3. \E d \in PossibleAdditions : snap'.findings = MergeNovel(baseline', d)
  OBVIOUS
<1> QED
  BY <1>1, <1>2, <1>3 DEF ReviewInv

\* The broad pass publishes what it merges.
LEMMA BroadInv ==
  ASSUME ReviewInv, BroadConcerns
  PROVE  ReviewInv'
<1>1. /\ stage = Broad /\ task = "running" /\ stage' = FirstSpecialist /\ task' = "running"
  BY DEF BroadConcerns, Step, GoTo
<1>2. Broad \in Broad..LastSpecialist /\ Broad \in Broad..Consolidation
      /\ FirstSpecialist \in Broad..Consolidation
  BY DEF Broad, LastSpecialist, Consolidation, FirstSpecialist
<1>3. baseline # None
  BY <1>1, <1>2 DEF ReviewInv
<1>4. PICK h \in Heard(Broad) :
        Discover(Reattributed(h.concerns)) /\ PublishFallback(Reattributed(h.concerns))
  BY DEF BroadConcerns
<1>5. Reattributed(h.concerns) \in Seq(PossibleConcerns)
  BY <1>2, HeardLists
<1>6. /\ merged' \in Seq(PossibleConcerns) /\ Len(merged') <= MaxConcerns
      /\ baseline' = baseline
      /\ FallbackFindings(merged') \in PossibleAdditions
      /\ snap' = [EmptySnap EXCEPT !.findings = MergeNovel(baseline, FallbackFindings(merged'))]
  BY <1>1, <1>3, <1>4, <1>5, DiscoverSteps
<1>7. snap'.findings = MergeNovel(baseline, FallbackFindings(merged'))
  BY <1>6 DEF EmptySnap
<1> QED
  BY <1>1, <1>2, <1>3, <1>6, <1>7, PublishedInv

\* So does each specialist, and the last one if it has nothing to consolidate
\* returns it.
LEMMA SpecialistInv ==
  ASSUME ReviewInv, Specialist
  PROVE  ReviewInv'
<1>1. /\ task = "running" /\ stage \in FirstSpecialist..LastSpecialist
      /\ baseline # None
  BY SpecialistSteps
<1>2. PICK found \in Seq(PossibleConcerns) :
        /\ Discover(found)
        /\ \/ /\ stage < LastSpecialist /\ GoTo(stage + 1) /\ PublishFallback(found)
           \/ /\ stage = LastSpecialist /\ merged' = <<>>
              /\ ReturnReview(snap.findings, <<>>)
           \/ stage = LastSpecialist /\ GoTo(Consolidation) /\ PublishFallback(found)
  BY SpecialistSteps
<1>3. /\ merged' \in Seq(PossibleConcerns) /\ Len(merged') <= MaxConcerns
      /\ baseline' = baseline
      /\ FallbackFindings(merged) \in PossibleAdditions
      /\ FallbackFindings(merged') \in PossibleAdditions
      /\ PublishFallback(found) =>
           snap' = [EmptySnap EXCEPT !.findings = MergeNovel(baseline, FallbackFindings(merged'))]
  BY <1>1, <1>2, DiscoverSteps
<1>4. CASE PublishFallback(found) /\ ((stage' = stage + 1 /\ stage < LastSpecialist) \/ stage' = Consolidation) /\ task' = task
  <2>1. stage' \in Broad..Consolidation
    BY <1>1, <1>4 DEF FirstSpecialist, LastSpecialist, Broad, Consolidation
  <2>2. snap' = [EmptySnap EXCEPT !.findings = MergeNovel(baseline, FallbackFindings(merged'))]
    BY <1>3, <1>4
  <2>3. snap'.findings = MergeNovel(baseline, FallbackFindings(merged'))
    BY <2>2 DEF EmptySnap
  <2> QED
    BY <1>1, <1>3, <1>4, <2>1, <2>2, <2>3, PublishedInv
<1>5. CASE stage = LastSpecialist /\ ReturnReview(snap.findings, <<>>)
  <2>1. stage' = stage /\ task' = "returned" /\ snap'.findings = snap.findings
    BY <1>1, <1>5 DEF ReturnReview, Return, ReviewInv, EmptySnap
  <2>2. stage' \in Broad..Consolidation
    BY <1>1, <2>1 DEF FirstSpecialist, LastSpecialist, Broad, Consolidation
  <2>3. PICK a \in PossibleAdditions : snap.findings = MergeNovel(baseline, a)
    BY <1>1 DEF ReviewInv
  <2> QED
    BY <1>1, <1>3, <2>1, <2>2, <2>3, PublishedInv
<1> QED
  BY <1>2, <1>4, <1>5 DEF GoTo

\* A review that returns has published what it returns.
LEMMA ConsolidatedInv ==
  ASSUME ReviewInv, Consolidate \/ ConsolidationFails
  PROVE  ReviewInv'
<1>1. /\ stage = Consolidation /\ task = "running" /\ stage' = stage /\ task' = "returned"
      /\ baseline' = baseline /\ merged' = merged
  BY DEF Consolidate, ConsolidationFails, Step, ReturnReview, Return, dataVars
<1>2. Consolidation \in Broad..Consolidation
  BY DEF Broad, Consolidation
<1>3. baseline # None /\ merged \in Seq(PossibleConcerns) /\ Len(merged) <= MaxConcerns
  BY <1>1, <1>2 DEF ReviewInv
<1>4. snap = [EmptySnap EXCEPT !.findings = MergeNovel(baseline, FallbackFindings(merged))]
  BY <1>1, <1>3 DEF ReviewInv
<1>5. PICK a \in PossibleAdditions : ReturnReview(MergeNovel(baseline, a), a)
  <2>1. CASE Consolidate
    BY <2>1 DEF Consolidate, PossibleAdditions
  <2>2. CASE ConsolidationFails
    <3>1. FallbackFindings(merged) \in PossibleAdditions
      BY <1>3, FallbackIsPossible
    <3>2. ReturnReview(MergeNovel(baseline, FallbackFindings(merged)), FallbackFindings(merged))
      BY <2>2 DEF ConsolidationFails
    <3> QED
      BY <3>1, <3>2
  <2> QED
    BY <2>1, <2>2
<1>6. snap'.findings = MergeNovel(baseline, a)
  BY <1>4, <1>5 DEF ReturnReview, EmptySnap
<1> QED
  BY <1>1, <1>2, <1>3, <1>6, PublishedInv

\* What happens to the task leaves its findings alone.
LEMMA OtherInv ==
  ASSUME ReviewInv, Start \/ Panic \/ Abort \/ Cancelled \/ UNCHANGED vars
  PROVE  ReviewInv'
<1>1. /\ UNCHANGED <<stage, dataVars, snap>>
      /\ task' \in {"queued", "running", "returned", "panicked", "aborted"}
      /\ task' # "returned" => task # "returned"
  BY DEF ReviewInv, Start, Panic, Abort, Cancelled, Live, vars
<1> QED
  BY <1>1 DEF ReviewInv, dataVars

\* The inductive step.
LEMMA NextInv ==
  ASSUME ReviewInv, [Next]_vars
  PROVE  ReviewInv'
BY EarlyInv, FastReviewInv, BroadInv, SpecialistInv, ConsolidatedInv, OtherInv DEF Next, GoesOn, Stage

\* Until a review has returned, its snapshot is its baseline with all concerns
\* that its stages have found, and nothing else; whatever it returns with, its
\* snapshot is the baseline merged with what it may have found.
THEOREM ReviewInvariant == Spec => []ReviewInv
<1>1. ReviewInv /\ [Next]_vars => ReviewInv'
  BY NextInv
<1> QED
  BY InitInv, <1>1, PTL DEF Spec

-----------------------------------------------------------------------------
(* What was found is published, once, and stays published.                   *)

\* The finding that a concern becomes has an identity.
LEMMA FallbackIsKnown ==
  ASSUME NEW m \in Seq(PossibleConcerns), NEW i \in DOMAIN m
  PROVE  SameIdentity(FallbackFindings(m)[i], FallbackFindings(m)[i])
<1> DEFINE c == m[i]
           f == FallbackFinding(c)
<1>1. FallbackFindings(m)[i] = Sanitized(f)
  BY FallbackFindingsList
<1>2. c \in PossibleConcerns
  OBVIOUS
<1> HIDE DEF c
<1>3. f.problem # None /\ f.fix = None
  BY <1>2, ConcernAssumption DEF FallbackFinding
<1>4. Sanitized(f).problem = f.problem /\ Sanitized(f).fix = f.fix
  BY DEF Sanitized, FallbackFinding
<1> HIDE DEF f
<1> QED
  BY <1>1, <1>3, <1>4 DEF SameIdentity

\* Concerns become findings one by one.
LEMMA FallbackOfBoth ==
  ASSUME NEW S, NEW a \in Seq(S), NEW b \in Seq(S)
  PROVE  FallbackFindings(a \o b) = FallbackFindings(a) \o FallbackFindings(b)
<1> DEFINE F(s) == FallbackFindings(s)
           d == a \o b
<1>1. /\ d \in Seq(S) /\ Len(a) \in Nat /\ Len(b) \in Nat /\ Len(d) = Len(a) + Len(b)
      /\ DOMAIN a = 1..Len(a) /\ DOMAIN b = 1..Len(b) /\ DOMAIN d = 1..Len(d)
      /\ \A i \in 1..Len(a) : d[i] = a[i]
      /\ \A i \in 1..Len(b) : d[Len(a) + i] = b[i]
  OBVIOUS
<1> HIDE DEF d
<1>2. /\ \A s \in Seq(S) : (\E T : F(s) \in Seq(T)) /\ DOMAIN F(s) = DOMAIN s
      /\ \A s \in Seq(S) : \A i \in DOMAIN s : F(s)[i] = Sanitized(FallbackFinding(s[i]))
  BY FallbackFindingsList
<1> HIDE DEF F
<1>3. Len(F(a)) = Len(a) /\ Len(F(b)) = Len(b) /\ Len(F(d)) = Len(d)
  BY <1>1, <1>2
<1> DEFINE c == F(a) \o F(b)
           n == Len(a) + Len(b)
<1>4. PICK T : F(a) \in Seq(T)
  BY <1>2
<1>5. PICK U : F(b) \in Seq(U)
  BY <1>2
<1>6. PICK V : F(d) \in Seq(V)
  BY <1>1, <1>2
<1>7. F(a) \in Seq(T \cup U) /\ F(b) \in Seq(T \cup U)
  <2>1. \A i \in DOMAIN F(a) : F(a)[i] \in T \cup U
    BY <1>4
  <2>2. \A i \in DOMAIN F(b) : F(b)[i] \in T \cup U
    BY <1>5
  <2> QED
    BY <1>4, <1>5, <2>1, <2>2, ListIn
<1>8. /\ c \in Seq(T \cup U) /\ Len(c) = n
      /\ \A i \in 1..Len(a) : c[i] = F(a)[i]
      /\ \A i \in 1..Len(b) : c[Len(a) + i] = F(b)[i]
  BY <1>1, <1>3, <1>7
<1>9. \A i \in 1..n : F(d)[i] = c[i]
  <2>1. \A i \in 1..Len(a) : F(d)[i] = c[i]
    BY <1>1, <1>2, <1>8
  <2>2. \A i \in 1..Len(b) : F(d)[Len(a) + i] = c[Len(a) + i]
    BY <1>1, <1>2, <1>8
  <2>3. \A i \in 1..n : i \in 1..Len(a) \/ (i - Len(a) \in 1..Len(b) /\ i = Len(a) + (i - Len(a)))
    BY <1>1
  <2> QED
    BY <2>1, <2>2, <2>3
<1> HIDE DEF c
<1>10. F(d) = [i \in 1..n |-> F(d)[i]] /\ c = [i \in 1..n |-> c[i]]
  BY <1>1, <1>3, <1>6, <1>8
<1>11. F(d) = c
  BY <1>9, <1>10
<1> QED
  BY <1>11 DEF F, c, d

\* What has been published is one merge into the baseline.
LEMMA PublishedLists ==
  ASSUME ReviewInv, baseline # None
  PROVE  /\ baseline \in Seq(Items)
         /\ \E a \in Seq(Items) : snap.findings = MergeNovel(baseline, a)
         /\ FallbackFindings(merged) \in Seq(Items)
<1>1. baseline \in PossibleBaselines
  BY DEF ReviewInv
<1>2. PICK a \in PossibleAdditions : snap.findings = MergeNovel(baseline, a)
  BY DEF ReviewInv
<1>3. FallbackFindings(merged) \in PossibleAdditions
  BY FallbackIsPossible DEF ReviewInv
<1> QED
  BY <1>1, <1>2, <1>3, ListOfItems

\* Whenever Ctrl-C ends the task, the snapshot begins with the baseline and has
\* something like each concern that any stage has found.
THEOREM FoundPublished == Spec => []FoundIsPublished
<1>1. ReviewInv => FoundIsPublished
  <2> SUFFICES ASSUME ReviewInv, task \in {"running", "aborted", "panicked"}, baseline # None
               PROVE  /\ IsPrefix(baseline, snap.findings)
                      /\ \A i \in DOMAIN merged :
                           Known(snap.findings, FallbackFindings(merged)[i])
    BY DEF FoundIsPublished
  <2> DEFINE a == FallbackFindings(merged)
  <2>1. merged \in Seq(PossibleConcerns) /\ snap.findings = MergeNovel(baseline, a)
    BY DEF ReviewInv, EmptySnap
  <2>2. baseline \in Seq(Items) /\ a \in Seq(Items)
    BY PublishedLists
  <2>3. DOMAIN a = DOMAIN merged /\ \A i \in DOMAIN merged : SameIdentity(a[i], a[i])
    BY <2>1, FallbackFindingsList, FallbackIsKnown
  <2> HIDE DEF a
  <2>4. IsMerge(MergeNovel(baseline, a), baseline, a)
    BY <2>2, MergeIsMerge
  <2>5. IsPrefix(baseline, MergeNovel(baseline, a))
    BY <2>2, MergePrefix
  <2>6. \A i \in DOMAIN merged : Known(MergeNovel(baseline, a), a[i])
    BY <2>3, <2>4 DEF IsMerge
  <2> QED
    BY <2>1, <2>5, <2>6 DEF a
<1> QED
  BY <1>1, ReviewInvariant, PTL

\* After the baseline nothing is published that repeats what stands before it.
THEOREM NeverRepeated == Spec => []NothingRepeated
<1>1. ReviewInv => NothingRepeated
  <2> SUFFICES ASSUME ReviewInv, baseline # None
               PROVE  \A j \in (Len(baseline) + 1)..Len(snap.findings) :
                        ~Known(SubSeq(snap.findings, 1, j - 1), snap.findings[j])
    BY DEF NothingRepeated
  <2>1. baseline \in Seq(Items) /\ \E a \in Seq(Items) : snap.findings = MergeNovel(baseline, a)
    BY PublishedLists
  <2> QED
    BY <2>1, MergeRepeatsNothing
<1> QED
  BY <1>1, ReviewInvariant, PTL

\* As long as the task does not return, a step only adds to what is published.
THEOREM SnapshotOnlyGrows == Spec => SnapshotGrows
<1>1. ASSUME ReviewInv, [Next]_vars, task' # "returned"
      PROVE  IsPrefix(snap.findings, snap'.findings)
  <2>1. \E T : snap.findings \in Seq(T)
    <3>1. CASE baseline = None
      <4>1. snap.findings = <<>> /\ <<>> \in Seq({})
        BY <1>1, <3>1 DEF ReviewInv
      <4> QED
        BY <4>1
    <3>2. CASE baseline # None
      <4>1. PICK a \in Seq(Items) : snap.findings = MergeNovel(baseline, a)
        BY <1>1, <3>2, PublishedLists
      <4>2. baseline \in Seq(Items)
        BY <1>1, <3>2, PublishedLists
      <4> QED
        BY <4>1, <4>2, MergeIsMerge
    <3> QED
      BY <3>1, <3>2
  <2>2. CASE snap'.findings = snap.findings
    BY <2>1, <2>2, PrefixItself
  <2>3. CASE FastReviewStage
    <3>1. stage = FastReview
      BY <2>3 DEF FastReviewStage, Step
    <3>2. snap.findings = <<>>
      BY <1>1, <3>1 DEF ReviewInv, FastReview, Broad, Consolidation
    <3>3. snap'.findings = baseline' /\ baseline' \in PossibleBaselines
      BY <1>1, <2>3, FastReviewInv
    <3>4. snap'.findings \in Seq(Items)
      BY <3>3, ListOfItems
    <3> QED
      BY <3>2, <3>4 DEF IsPrefix
  <2>4. ASSUME NEW found \in Seq(PossibleConcerns), task = "running", baseline # None,
               Discover(found), PublishFallback(found)
        PROVE  IsPrefix(snap.findings, snap'.findings)
    <3> DEFINE a == FallbackFindings(merged)
               b == FallbackFindings(found)
    <3>1. /\ merged \in Seq(PossibleConcerns) /\ merged' = merged \o found
          /\ snap.findings = MergeNovel(baseline, a)
      BY <1>1, <2>4 DEF ReviewInv, Discover, EmptySnap
    <3>2. snap' = [EmptySnap EXCEPT !.findings = MergeNovel(baseline, FallbackFindings(merged'))]
      BY <1>1, <2>4, DiscoverSteps
    <3>3. snap'.findings = MergeNovel(baseline, FallbackFindings(merged'))
      BY <3>2 DEF EmptySnap
    <3>4. baseline \in Seq(Items) /\ a \in Seq(Items)
      BY <1>1, <2>4, PublishedLists
    <3>5. FallbackFindings(merged') = a \o b /\ \E T : b \in Seq(T)
      BY <3>1, FallbackOfBoth, FallbackFindingsList
    <3> HIDE DEF a, b
    <3>6. PICK T : b \in Seq(T)
      BY <3>5
    <3> DEFINE U == Items \cup T
    <3>7. baseline \in Seq(U) /\ a \in Seq(U) /\ b \in Seq(U)
      <4>1. \A i \in DOMAIN baseline : baseline[i] \in U
        BY <3>4
      <4>2. \A i \in DOMAIN a : a[i] \in U
        BY <3>4
      <4>3. \A i \in DOMAIN b : b[i] \in U
        BY <3>6
      <4> HIDE DEF U
      <4> QED
        BY <3>4, <3>6, <4>1, <4>2, <4>3, ListIn
    <3> HIDE DEF U
    <3>8. IsPrefix(MergeNovel(baseline, a), MergeNovel(baseline, a \o b))
      BY <3>7, MergeGrows
    <3> QED
      BY <3>1, <3>3, <3>5, <3>8
  <2>5. CASE BroadConcerns
    <3>1. stage = Broad /\ task = "running"
      BY <2>5 DEF BroadConcerns, Step
    <3>2. Broad \in Broad..LastSpecialist /\ baseline # None
      BY <1>1, <3>1 DEF ReviewInv, Broad, LastSpecialist, Consolidation
    <3>3. PICK h \in Heard(Broad) :
            Discover(Reattributed(h.concerns)) /\ PublishFallback(Reattributed(h.concerns))
      BY <2>5 DEF BroadConcerns
    <3>4. Reattributed(h.concerns) \in Seq(PossibleConcerns)
      BY <3>2, HeardLists
    <3> QED
      BY <2>4, <3>1, <3>2, <3>3, <3>4
  <2>6. CASE Specialist
    <3>1. task = "running" /\ baseline # None
      BY <1>1, <2>6, SpecialistSteps
    <3>2. PICK found \in Seq(PossibleConcerns) :
            /\ Discover(found)
            /\ \/ PublishFallback(found)
               \/ ReturnReview(snap.findings, <<>>)
      BY <1>1, <2>6, SpecialistSteps
    <3>3. ~ReturnReview(snap.findings, <<>>)
      BY <1>1 DEF ReturnReview, Return
    <3> QED
      BY <2>4, <3>1, <3>2, <3>3
  <2>7. CASE SetUpFails \/ SinglePass \/ SinglePassFails \/ Consolidate \/ ConsolidationFails
    BY <1>1, <2>7 DEF SetUpFails, SinglePass, SinglePassFails, Consolidate, ConsolidationFails,
       ReturnError, ReturnReview, Return
  <2>8. CASE \/ Start \/ EnterReview \/ IdentifySubsystem \/ FollowUpStage
             \/ Panic \/ Abort \/ Cancelled \/ UNCHANGED vars
    BY <2>2, <2>8 DEF Start, EnterReview, IdentifySubsystem, FollowUpStage, Panic, Abort,
       Cancelled, vars
  <2> QED
    BY <1>1, <2>3, <2>5, <2>6, <2>7, <2>8 DEF Next, GoesOn, Stage
<1>2. ReviewInv /\ [Next]_vars => [task' # "returned" => IsPrefix(snap.findings, snap'.findings)]_vars
  BY <1>1
<1> QED
  BY <1>2, ReviewInvariant, PTL DEF Spec, SnapshotGrows

-----------------------------------------------------------------------------
(* What was published is returned.                                           *)

\* A review that returns two lists returns what the repair of anchors leaves
\* of each finding that is merged of them.
LEMMA RepairedIsReturned ==
  ASSUME NEW a \in Seq(Items), NEW b \in Seq(Items)
  PROVE  LET m == MergeNovel(a, b)
         IN \A j \in DOMAIN m :
              ToSet(Cleaned(<<m[j]>>)) \subseteq ToSet(Cleaned(a) \o Cleaned(b))
<1> DEFINE m == MergeNovel(a, b)
           s == Cleaned(a)
           t == Cleaned(b)
<1>1. PICK T : s \in Seq(T)
  BY CleanedIsList
<1>2. PICK U : t \in Seq(U)
  BY CleanedIsList
<1>3. ToSet(s) \subseteq ToSet(s \o t) /\ ToSet(t) \subseteq ToSet(s \o t)
  <2> HIDE DEF s, t
  <2> DEFINE V == T \cup U
  <2>1. (\A i \in DOMAIN s : s[i] \in V) /\ (\A i \in DOMAIN t : t[i] \in V)
    BY <1>1, <1>2
  <2> HIDE DEF V
  <2>2. s \in Seq(V) /\ t \in Seq(V)
    BY <1>1, <1>2, <2>1, ListIn
  <2>3. \A i \in DOMAIN s : i \in DOMAIN (s \o t) /\ (s \o t)[i] = s[i]
    BY <2>2
  <2>4. \A i \in DOMAIN t : Len(s) + i \in DOMAIN (s \o t) /\ (s \o t)[Len(s) + i] = t[i]
    BY <2>2
  <2> QED
    BY <2>3, <2>4 DEF ToSet
<1>4. ASSUME NEW j \in DOMAIN m
      PROVE  ToSet(Cleaned(<<m[j]>>)) \subseteq ToSet(s \o t)
  <2>1. (\E i \in DOMAIN a : m[j] = a[i]) \/ \E i \in DOMAIN b : m[j] = b[i]
    BY MergeElements
  <2>2. \A i \in DOMAIN a : ToSet(Cleaned(<<a[i]>>)) \subseteq ToSet(s)
    BY CleanedEach
  <2>3. \A i \in DOMAIN b : ToSet(Cleaned(<<b[i]>>)) \subseteq ToSet(t)
    BY CleanedEach
  <2> HIDE DEF m, s, t
  <2> QED
    BY <1>3, <2>1, <2>2, <2>3
<1> QED
  BY <1>4

\* Without a usable consolidation, the row of a task has all that was published,
\* but for the repair of anchors; and an error row follows no publication.
THEOREM PublishedReturned == Spec => PublishedIsReturned
<1> DEFINE Kept == \A i \in DOMAIN snap.findings :
                     ToSet(Cleaned(<<snap.findings[i]>>))
                       \subseteq ToSet(row'.findings \o row'.additions)
<1>1. ASSUME ReviewInv, [Next]_vars, row' # row, ~Consolidate
      PROVE  Kept
  <2>1. CASE SetUpFails \/ SinglePass \/ SinglePassFails
    <3>1. stage \in {SetUp, FastReview}
      BY <2>1 DEF SetUpFails, SinglePass, SinglePassFails, Step
    <3>2. snap.findings = <<>>
      BY <1>1, <3>1 DEF ReviewInv, SetUp, FastReview, Broad, Consolidation
    <3>3. DOMAIN snap.findings = {}
      BY <3>2
    <3> QED
      BY <3>3
  <2>2. ASSUME baseline # None,
               NEW a, a = FallbackFindings(merged),
               row' = Row(Cleaned(baseline), Cleaned(a)),
               snap.findings = MergeNovel(baseline, a)
        PROVE  Kept
    <3>1. baseline \in Seq(Items) /\ a \in Seq(Items)
      BY <1>1, <2>2, PublishedLists
    <3>2. row'.findings = Cleaned(baseline) /\ row'.additions = Cleaned(a)
      BY <2>2 DEF Row
    <3>3. \A j \in DOMAIN MergeNovel(baseline, a) :
            ToSet(Cleaned(<<MergeNovel(baseline, a)[j]>>))
              \subseteq ToSet(Cleaned(baseline) \o Cleaned(a))
      BY <3>1, RepairedIsReturned
    <3> QED
      BY <2>2, <3>2, <3>3
  <2>3. CASE Specialist
    <3>1. task = "running" /\ baseline # None
      BY <1>1, <2>3, SpecialistSteps
    <3>2. PICK found \in Seq(PossibleConcerns) :
            /\ Discover(found)
            /\ \/ UNCHANGED row
               \/ merged' = <<>> /\ ReturnReview(snap.findings, <<>>)
      BY <1>1, <2>3, SpecialistSteps DEF GoTo
    <3>3. merged' = <<>> /\ row' = Row(Cleaned(baseline), Cleaned(<<>>))
      BY <1>1, <3>2 DEF ReturnReview, Return
    <3>4. FallbackFindings(merged) = <<>>
      BY <1>1, <3>1, <3>2, <3>3, DiscoverSteps
    <3>5. snap.findings = MergeNovel(baseline, FallbackFindings(merged))
      BY <1>1, <3>1 DEF ReviewInv, EmptySnap
    <3> QED
      BY <2>2, <3>1, <3>3, <3>4, <3>5
  <2>4. CASE ConsolidationFails
    <3>1. stage = Consolidation /\ task = "running"
      BY <2>4 DEF ConsolidationFails, Step
    <3>2. baseline # None
      BY <1>1, <3>1 DEF ReviewInv, Broad, Consolidation
    <3>3. snap.findings = MergeNovel(baseline, FallbackFindings(merged))
      BY <1>1, <3>1, <3>2 DEF ReviewInv, EmptySnap
    <3>4. row' = Row(Cleaned(baseline), Cleaned(FallbackFindings(merged)))
      BY <2>4 DEF ConsolidationFails, ReturnReview, Return
    <3> QED
      BY <2>2, <3>2, <3>3, <3>4
  <2>5. CASE \/ Start \/ EnterReview \/ IdentifySubsystem \/ FollowUpStage
             \/ FastReviewStage \/ BroadConcerns
             \/ Panic \/ Abort \/ Cancelled \/ UNCHANGED vars
    BY <1>1, <2>5 DEF Start, EnterReview, IdentifySubsystem, FollowUpStage, FastReviewStage,
       BroadConcerns, Panic, Abort, Cancelled, GoTo, vars
  <2> QED
    BY <1>1, <2>1, <2>3, <2>4, <2>5 DEF Next, GoesOn, Stage
<1>2. ReviewInv /\ [Next]_vars => [row' # row /\ ~Consolidate => Kept]_vars
  BY <1>1
<1> QED
  BY <1>2, ReviewInvariant, PTL DEF Spec, PublishedIsReturned

-----------------------------------------------------------------------------
(* What the specialists have found out reaches consolidation.                *)

AddCluster(kept, c) ==
  LET like == {n \in DOMAIN kept : c.problem # None /\ Alike(kept[n].founder, c)}
  IN IF like = {} THEN Append(kept, [founder |-> c, concern |-> c])
     ELSE IF HasProof(c) /\ ~HasProof(kept[Min(like)].concern)
       THEN [kept EXCEPT ![Min(like)].concern = c]
     ELSE kept

\* What the clusters of the first k concerns are: each is founded by one of
\* them and stands for one like it; each of them is like the founder of a
\* cluster that has a proof if it has one itself; and one without a
\* description is in a cluster of its own.
Represents(kept, m, k) ==
  /\ \A n \in DOMAIN kept :
       /\ \E i \in 1..k : kept[n].founder = m[i]
       /\ Alike(kept[n].founder, kept[n].concern)
  /\ \A j \in 1..k :
       /\ \E n \in DOMAIN kept : /\ HasProof(m[j]) => HasProof(kept[n].concern)
                                 /\ Alike(kept[n].founder, m[j])
       /\ m[j].problem = None => \E n \in DOMAIN kept : kept[n].concern = m[j]

\* One more concern keeps it so.
LEMMA AddClusterRepresents ==
  ASSUME NEW S, NEW m \in Seq(S), NEW k \in Nat, k + 1 <= Len(m),
         NEW kept \in Seq([founder : S, concern : S]), Represents(kept, m, k)
  PROVE  /\ AddCluster(kept, m[k + 1]) \in Seq([founder : S, concern : S])
         /\ Represents(AddCluster(kept, m[k + 1]), m, k + 1)
<1> DEFINE C == [founder : S, concern : S]
           c == m[k + 1]
           like == {n \in DOMAIN kept : c.problem # None /\ Alike(kept[n].founder, c)}
           new == AddCluster(kept, c)
<1>1. c \in S /\ DOMAIN kept = 1..Len(kept) /\ Len(kept) \in Nat
  OBVIOUS
<1>2. Alike(c, c)
  BY DEF Alike
<1>3. \A j \in 1..(k + 1) : j \in 1..k \/ j = k + 1
  OBVIOUS
<1>4. \A j \in 1..k : j \in 1..(k + 1)
  OBVIOUS
<1>5. k + 1 \in 1..(k + 1)
  OBVIOUS
<1>6. CASE like = {}
  <2> DEFINE e == [founder |-> c, concern |-> c]
             l == Len(kept) + 1
  <2>1. new = Append(kept, e)
    BY <1>6 DEF AddCluster
  <2>2. e \in C /\ e.founder = c /\ e.concern = c
    BY <1>1
  <2> HIDE DEF e
  <2>3. /\ new \in Seq(C) /\ DOMAIN new = 1..l /\ l \in DOMAIN new /\ new[l] = e
        /\ \A n \in DOMAIN kept : n \in DOMAIN new /\ new[n] = kept[n]
        /\ \A n \in DOMAIN new : n \in DOMAIN kept \/ n = l
    BY <1>1, <2>1, <2>2
  <2> HIDE DEF new, l, C
  <2>4. ASSUME NEW n \in DOMAIN new
        PROVE  /\ \E i \in 1..(k + 1) : new[n].founder = m[i]
               /\ Alike(new[n].founder, new[n].concern)
    <3>1. CASE n \in DOMAIN kept
      BY <1>4, <2>3, <3>1 DEF Represents
    <3>2. CASE n = l
      BY <1>2, <1>5, <2>2, <2>3, <3>2
    <3> QED
      BY <2>3, <3>1, <3>2
  <2>5. ASSUME NEW j \in 1..(k + 1)
        PROVE  /\ \E n \in DOMAIN new : /\ HasProof(m[j]) => HasProof(new[n].concern)
                                        /\ Alike(new[n].founder, m[j])
               /\ m[j].problem = None => \E n \in DOMAIN new : new[n].concern = m[j]
    <3>1. CASE j \in 1..k
      <4>1. PICK n \in DOMAIN kept : /\ HasProof(m[j]) => HasProof(kept[n].concern)
                                     /\ Alike(kept[n].founder, m[j])
        BY <3>1 DEF Represents
      <4>2. m[j].problem = None => \E i \in DOMAIN kept : kept[i].concern = m[j]
        BY <3>1 DEF Represents
      <4> QED
        BY <2>3, <4>1, <4>2
    <3>2. CASE j = k + 1
      BY <1>2, <2>2, <2>3, <3>2
    <3> QED
      BY <1>3, <3>1, <3>2
  <2> QED
    BY <2>3, <2>4, <2>5 DEF Represents, C, new
<1>7. CASE like # {}
  <2> DEFINE p == Min(like)
  <2>1. p \in like
    <3>1. like \in SUBSET Nat
      BY <1>1
    <3> HIDE DEF like
    <3> QED
      BY <1>7, <3>1, MinOf
  <2>2. p \in DOMAIN kept /\ c.problem # None /\ Alike(kept[p].founder, c)
    BY <2>1
  <2>3. CASE HasProof(c) /\ ~HasProof(kept[p].concern)
    <3>1. new = [kept EXCEPT ![p].concern = c]
      BY <1>7, <2>3 DEF AddCluster
    <3> HIDE DEF p
    <3>2. kept[p] \in C
      <4>1. p \in 1..Len(kept)
        BY <1>1, <2>2
      <4> QED
        BY <4>1, ElementOfSeq
    <3>3. /\ new \in Seq(C) /\ DOMAIN new = DOMAIN kept
          /\ new[p].founder = kept[p].founder /\ new[p].concern = c
          /\ \A n \in DOMAIN kept : n # p => new[n] = kept[n]
      BY <1>1, <2>2, <3>1, <3>2
    <3> HIDE DEF new, C
    <3>4. ASSUME NEW n \in DOMAIN new
          PROVE  /\ \E i \in 1..(k + 1) : new[n].founder = m[i]
                 /\ Alike(new[n].founder, new[n].concern)
      <4>1. new[n].founder = kept[n].founder
        BY <3>3
      <4>2. \E i \in 1..k : kept[n].founder = m[i]
        BY <3>3 DEF Represents
      <4>3. Alike(new[n].founder, new[n].concern)
        BY <2>2, <3>3 DEF Represents
      <4> QED
        BY <1>4, <4>1, <4>2, <4>3
    <3>5. ASSUME NEW j \in 1..(k + 1)
          PROVE  /\ \E n \in DOMAIN new : /\ HasProof(m[j]) => HasProof(new[n].concern)
                                          /\ Alike(new[n].founder, m[j])
                 /\ m[j].problem = None => \E n \in DOMAIN new : new[n].concern = m[j]
      <4>1. CASE j \in 1..k
        <5>1. PICK n \in DOMAIN kept : /\ HasProof(m[j]) => HasProof(kept[n].concern)
                                       /\ Alike(kept[n].founder, m[j])
          BY <4>1 DEF Represents
        <5>2. /\ HasProof(m[j]) => HasProof(new[n].concern)
              /\ Alike(new[n].founder, m[j])
          BY <2>3, <3>3, <5>1
        <5>3. ASSUME m[j].problem = None PROVE \E i \in DOMAIN new : new[i].concern = m[j]
          <6>1. PICK i \in DOMAIN kept : kept[i].concern = m[j]
            BY <4>1, <5>3 DEF Represents
          <6>2. i # p
            <7> SUFFICES ASSUME i = p PROVE FALSE
              OBVIOUS
            <7>1. Alike(kept[p].founder, m[j])
              BY <2>2, <6>1 DEF Represents
            <7>2. kept[p].founder.problem # None
              BY <2>2, SimilarAssumption DEF Alike
            <7>3. <<kept[p].founder.problem, m[j].problem>> \in Similar
              BY <5>3, <7>1, <7>2 DEF Alike
            <7>4. <<kept[p].founder.problem, m[j].problem>>[2] # None
              BY <7>3, SimilarAssumption
            <7> QED
              BY <5>3, <7>4
          <6> QED
            BY <3>3, <6>1, <6>2
        <5> QED
          BY <3>3, <5>1, <5>2, <5>3
      <4>2. CASE j = k + 1
        BY <2>2, <3>3, <4>2
      <4> QED
        BY <1>3, <4>1, <4>2
    <3> QED
      BY <3>3, <3>4, <3>5 DEF Represents, C, new
  <2>4. CASE ~(HasProof(c) /\ ~HasProof(kept[p].concern))
    <3>1. new = kept
      BY <1>7, <2>4 DEF AddCluster
    <3> HIDE DEF p, like
    <3>2. ASSUME NEW n \in DOMAIN kept
          PROVE  /\ \E i \in 1..(k + 1) : kept[n].founder = m[i]
                 /\ Alike(kept[n].founder, kept[n].concern)
      BY <1>4 DEF Represents
    <3>3. ASSUME NEW j \in 1..(k + 1)
          PROVE  /\ \E n \in DOMAIN kept : /\ HasProof(m[j]) => HasProof(kept[n].concern)
                                           /\ Alike(kept[n].founder, m[j])
                 /\ m[j].problem = None => \E n \in DOMAIN kept : kept[n].concern = m[j]
      <4>1. CASE j \in 1..k
        BY <4>1 DEF Represents
      <4>2. CASE j = k + 1
        BY <2>2, <2>4, <4>2
      <4> QED
        BY <1>3, <4>1, <4>2
    <3>4. Represents(kept, m, k + 1)
      BY <3>2, <3>3 DEF Represents
    <3> QED
      BY <3>1, <3>4
  <2> QED
    BY <2>3, <2>4
<1> QED
  BY <1>6, <1>7

\* The clusters are those that all concerns, added one by one, have made.
LEMMA ClustersRepresent ==
  ASSUME NEW S, NEW m \in Seq(S)
  PROVE  \E kept \in Seq([founder : S, concern : S]) :
           /\ Represents(kept, m, Len(m))
           /\ DOMAIN Clusters(m) = DOMAIN kept
           /\ \A n \in DOMAIN kept : Clusters(m)[n] = kept[n].concern
<1> DEFINE A == Seq([founder : S, concern : S])
           l == Len(m)
           F == [q \in A \X (1..l) |-> AddCluster(q[1], m[q[2]])]
           Made(g) == g = [s \in SUBSET (1..l) |->
                            IF s = {} THEN <<>> ELSE AddCluster(g[s \ {Max(s)}], m[Max(s)])]
           all == CHOOSE g : Made(g)
<1>1. l \in Nat /\ DOMAIN m = 1..l
  OBVIOUS
<1>2. F \in [A \X (1..l) -> A]
  <2> SUFFICES ASSUME NEW q \in A \X (1..l) PROVE AddCluster(q[1], m[q[2]]) \in A
    OBVIOUS
  <2>1. q[1] \in A /\ m[q[2]] \in S
    BY <1>1
  <2> DEFINE kept == q[1]
             c == m[q[2]]
             like == {n \in DOMAIN kept : c.problem # None /\ Alike(kept[n].founder, c)}
             e == [founder |-> c, concern |-> c]
  <2>2. Append(kept, e) \in A
    BY <2>1
  <2>3. like # {} => [kept EXCEPT ![Min(like)].concern = c] \in A
    <3> SUFFICES ASSUME like # {} PROVE [kept EXCEPT ![Min(like)].concern = c] \in A
      OBVIOUS
    <3>1. like \in SUBSET Nat /\ like \in SUBSET (DOMAIN kept)
      BY <2>1
    <3>2. Min(like) \in DOMAIN kept
      <4> HIDE DEF like
      <4> QED
        BY <3>1, MinOf
    <3> DEFINE p == Min(like)
               new == [kept EXCEPT ![p].concern = c]
    <3>3. kept \in Seq([founder : S, concern : S]) /\ c \in S /\ p \in DOMAIN kept
      BY <2>1, <3>2
    <3> HIDE DEF like, p, kept, c
    <3>4. kept[p] \in [founder : S, concern : S]
      <4>1. p \in 1..Len(kept)
        BY <3>3
      <4> QED
        BY <3>3, <4>1, ElementOfSeq
    <3>5. new \in Seq([founder : S, concern : S])
      <4> DEFINE pair == [kept[p] EXCEPT !.concern = c]
      <4>1. pair \in [founder : S, concern : S]
        BY <3>3, <3>4
      <4>2. new = [kept EXCEPT ![p] = pair]
        OBVIOUS
      <4> HIDE DEF new, pair
      <4> QED
        BY <3>3, <4>1, <4>2
    <3> QED
      BY <3>5 DEF p
  <2> QED
    BY <2>1, <2>2, <2>3 DEF AddCluster
<1>3. PICK g : Folds(g, A, <<>>, F, l)
  <2>1. <<>> \in A
    OBVIOUS
  <2> HIDE DEF A, F, l
  <2> QED
    BY <1>1, <1>2, <2>1, FoldExists
<1>4. Made(g)
  <2>1. ASSUME NEW s \in SUBSET (1..l), s # {}
        PROVE  g[s] = AddCluster(g[s \ {Max(s)}], m[Max(s)])
    <3>1. Max(s) \in 1..l
      <4> HIDE DEF l
      <4> QED
        BY <1>1, <2>1, MaxOf
    <3>2. g[s \ {Max(s)}] \in A
      BY <1>3 DEF Folds
    <3>3. g[s] = F[<<g[s \ {Max(s)}], Max(s)>>]
      BY <1>3, <2>1 DEF Folds
    <3> DEFINE q == <<g[s \ {Max(s)}], Max(s)>>
    <3>4. q \in A \X (1..l) /\ q[1] = g[s \ {Max(s)}] /\ q[2] = Max(s)
      BY <3>1, <3>2
    <3>5. F[q] = AddCluster(q[1], m[q[2]])
      BY <3>4
    <3> QED
      BY <3>3, <3>4, <3>5
  <2>2. g = [s \in SUBSET (1..l) |-> g[s]] /\ g[{}] = <<>>
    BY <1>3 DEF Folds
  <2> QED
    BY <2>1, <2>2
<1>5. Made(all)
  <2> HIDE DEF Made
  <2> QED
    BY <1>4
<1>6. ASSUME NEW k \in 0..l
      PROVE  all[1..k] \in A /\ Represents(all[1..k], m, k)
  <2> DEFINE T == {j \in 0..l : all[1..j] \in A /\ Represents(all[1..j], m, j)}
  <2>0. \A s \in SUBSET (1..l) :
          all[s] = IF s = {} THEN <<>> ELSE AddCluster(all[s \ {Max(s)}], m[Max(s)])
    BY <1>5
  <2>1. 0 \in T
    <3>1. 1..0 = {} /\ {} \in SUBSET (1..l)
      OBVIOUS
    <3>2. all[1..0] = <<>>
      BY <2>0, <3>1
    <3>3. <<>> \in A /\ Represents(<<>>, m, 0)
      BY DEF Represents
    <3>4. 0 \in 0..l
      BY <1>1
    <3> HIDE DEF all, A, l
    <3> QED
      BY <3>2, <3>3, <3>4
  <2>2. ASSUME NEW j \in 0..l, j \in T, j < l PROVE j + 1 \in T
    <3> DEFINE s == 1..(j + 1)
    <3>1. j \in Nat /\ l \in Nat /\ j + 1 <= l /\ j + 1 \in 0..l
      BY <1>1, <2>2
    <3>2. j + 1 <= Len(m)
      BY <3>1
    <3>3. s \in SUBSET (1..l) /\ s # {} /\ s \ {Max(s)} = 1..j /\ Max(s) = j + 1
      <4> HIDE DEF l
      <4> QED
        BY <1>1, <2>2, LastIndex
    <3>4. all[s] = AddCluster(all[1..j], m[j + 1])
      <4> HIDE DEF all, s
      <4> QED
        BY <2>0, <3>3
    <3>5. all[1..j] \in Seq([founder : S, concern : S]) /\ Represents(all[1..j], m, j)
      BY <2>2
    <3> HIDE DEF all, l
    <3>6. all[s] \in A /\ Represents(all[s], m, j + 1)
      BY <3>1, <3>2, <3>4, <3>5, AddClusterRepresents
    <3> QED
      BY <3>1, <3>6
  <2> HIDE DEF T
  <2>3. 0..l \subseteq T
    BY <1>1, <2>1, <2>2, UpTo
  <2> QED
    BY <2>3 DEF T
<1>7. Clusters(m) = [n \in DOMAIN all[DOMAIN m] |-> all[DOMAIN m][n].concern]
  <2> DEFINE raw == CHOOSE h : h = [s \in SUBSET (DOMAIN m) |->
                      IF s = {} THEN <<>> ELSE AddCluster(h[s \ {Max(s)}], m[Max(s)])]
  <2>1. Clusters(m) = [n \in DOMAIN raw[DOMAIN m] |-> raw[DOMAIN m][n].concern]
    BY Zenon DEF Clusters, FoldLeft, MapThenFoldSet, AddCluster
  <2>2. raw = all
    BY <1>1
  <2> QED
    BY <2>1, <2>2
<1>8. all[1..l] \in A /\ Represents(all[1..l], m, l)
  <2>1. l \in 0..l
    BY <1>1
  <2> HIDE DEF l, all, A
  <2> QED
    BY <1>6, <2>1
<1> HIDE DEF all
<1> QED
  BY <1>1, <1>7, <1>8

\* So each concern is like one that consolidation is shown.
LEMMA ClustersKeepEvidence ==
  ASSUME NEW S, NEW m \in Seq(S), NEW c \in ToSet(m)
  PROVE  /\ \E d \in ToSet(Clusters(m)) :
              /\ HasProof(c) => HasProof(d)
              /\ \E founder \in ToSet(m) : Alike(founder, c) /\ Alike(founder, d)
         /\ c.problem = None => c \in ToSet(Clusters(m))
<1>1. PICK kept \in Seq([founder : S, concern : S]) :
        /\ Represents(kept, m, Len(m))
        /\ DOMAIN Clusters(m) = DOMAIN kept
        /\ \A n \in DOMAIN kept : Clusters(m)[n] = kept[n].concern
  BY ClustersRepresent
<1>2. \A n \in DOMAIN kept : kept[n].concern \in ToSet(Clusters(m))
  BY <1>1 DEF ToSet
<1>3. DOMAIN m = 1..Len(m)
  OBVIOUS
<1>4. PICK j \in 1..Len(m) : m[j] = c
  BY <1>3 DEF ToSet
<1>5. PICK n \in DOMAIN kept : /\ HasProof(c) => HasProof(kept[n].concern)
                               /\ Alike(kept[n].founder, c)
  BY <1>1, <1>4 DEF Represents
<1>6. Alike(kept[n].founder, kept[n].concern) /\ kept[n].founder \in ToSet(m)
  BY <1>1, <1>3 DEF Represents, ToSet
<1>7. c.problem = None => \E i \in DOMAIN kept : kept[i].concern = c
  BY <1>1, <1>4 DEF Represents
<1> QED
  BY <1>2, <1>5, <1>6, <1>7

\* An answer with one block of concerns is understood, though there is prose
\* around it, as long as the prose does not name the key after it.
LEMMA ConcernsUnderstood ==
  ASSUME NEW text \in ConcernTexts, NEW n \in DOMAIN text,
         HasKey(text[n], "concerns"), ~text[n].concerns.single,
         \A k \in DOMAIN text : k # n => text[k].kind = "prose",
         text[n].fenced \/ (\A k \in DOMAIN text : k > n => ~Names(text[k], "concerns")),
         HasKey(text[n], "findings") => Len(text) > 1 \/ ~text[n].findings.single
  PROVE  Said(text) # None /\ Said(text).concerns = text[n].concerns.list
<1> DEFINE fenced == {k \in DOMAIN text : text[k].fenced /\ HasKey(text[k], "concerns")}
           mentions == {k \in DOMAIN text : Names(text[k], "concerns")}
<1>1. DOMAIN text = 1..Len(text) /\ Len(text) \in Nat /\ n \in 1..Len(text)
  BY ConcernTextsAssumption DEF IsList
<1>2. text[n] # None
  BY ConcernTextsAssumption DEF ToSet
<1>3. ObjectWith(text, "concerns") = text[n]
  <2>1. CASE Len(text) = 1
    <3>1. n = 1
      BY <1>1, <2>1
    <3> QED
      BY <2>1, <3>1 DEF ObjectWith
  <2>2. CASE Len(text) # 1 /\ text[n].fenced
    <3>1. fenced = {n}
      BY <2>2 DEF HasKey
    <3>2. Min(fenced) = n
      <4> HIDE DEF fenced
      <4>1. fenced \in SUBSET Nat /\ fenced # {}
        BY <1>1, <3>1
      <4> QED
        BY <3>1, <4>1, MinOf
    <3> QED
      BY <2>2, <3>1, <3>2 DEF ObjectWith
  <2>3. CASE Len(text) # 1 /\ ~text[n].fenced
    <3>1. fenced = {}
      BY <2>3 DEF HasKey
    <3>2. n \in mentions /\ \A k \in mentions : k <= n
      <4>1. n \in mentions
        BY DEF Names
      <4>2. ASSUME NEW k \in mentions PROVE k <= n
        <5>1. ~(k > n)
          BY <2>3
        <5> QED
          BY <1>1, <5>1
      <4> QED
        BY <4>1, <4>2
    <3>3. Max(mentions) = n
      <4>1. mentions \in SUBSET (1..Len(text))
        BY <1>1
      <4> HIDE DEF mentions
      <4>2. Max(mentions) \in mentions /\ n <= Max(mentions)
        BY <1>1, <3>2, <4>1, MaxOf
      <4>3. Max(mentions) \in 1..Len(text) /\ Max(mentions) <= n
        BY <3>2, <4>1, <4>2
      <4> QED
        BY <1>1, <4>2, <4>3
    <3>4. Encloses(text[n], "concerns")
      <4>1. ASSUME NEW k \in 1..Len(Keys), Keys[k] = "concerns" PROVE k = 1
        BY <4>1 DEF Keys
      <4>2. 1..(1 - 1) = {}
        OBVIOUS
      <4> QED
        BY <4>1, <4>2 DEF Encloses
    <3> QED
      BY <2>3, <3>1, <3>2, <3>3, <3>4 DEF ObjectWith
  <2> QED
    BY <2>1, <2>2, <2>3
<1>4. ~(Len(text) = 1 /\ text[1].kind = "list")
  BY <1>1 DEF HasKey
<1>5. {key \in {"concerns", "findings"} :
         Len(text) = 1 /\ HasKey(text[1], key) /\ text[1][key].single} = {}
  <2>1. CASE Len(text) = 1
    <3>1. n = 1
      BY <1>1, <2>1
    <3>2. ~text[1].concerns.single /\ (HasKey(text[1], "findings") => ~text[1].findings.single)
      BY <2>1, <3>1
    <3> QED
      BY <3>2
  <2>2. CASE Len(text) # 1
    BY <2>2
  <2> QED
    BY <2>1, <2>2
<1> DEFINE in == ObjectWith(text, "concerns")
           single == {key \in {"concerns", "findings"} :
                       Len(text) = 1 /\ HasKey(text[1], key) /\ text[1][key].single}
           disputed == IF HasKey(in, "challenges") THEN in.challenges.list ELSE <<>>
<1>6. in # None /\ ~in.concerns.single /\ single = {}
  BY <1>2, <1>3, <1>5
<1>7. Said(text) = [concerns |-> in.concerns.list, challenges |-> disputed]
  BY <1>4, <1>6 DEF Said
<1>8. Said(text) # None
  <2>1. in \in Blocks
    BY <1>3 DEF Blocks, ToSet
  <2>2. HasKey(in, "concerns")
    BY <1>3
  <2>3. in.concerns.list \in ConcernLists(in)
    BY <2>2 DEF ConcernLists
  <2> HIDE DEF in
  <2> QED
    BY <1>7, <2>1, <2>3, AnswerAssumption
<1> QED
  BY <1>3, <1>7, <1>8

\* Consolidation is shown the clusters of all concerns.
ShownInv == stage = Consolidation => shown = Clusters(merged)

\* Only the last specialist goes to consolidation, and then nothing is added.
LEMMA ShownStep == ShownInv /\ [Next]_vars => ShownInv'
<1> SUFFICES ASSUME ShownInv, [Next]_vars, stage' = Consolidation PROVE shown' = Clusters(merged')
  BY DEF ShownInv
<1>1. LastSpecialist \in {8, 9} /\ Consolidation = 10
  BY DEF LastSpecialist, Consolidation
<1>2. CASE UNCHANGED <<stage, merged, shown>>
  BY <1>2 DEF ShownInv
<1>3. CASE Specialist
  <2>1. stage \in FirstSpecialist..LastSpecialist
    BY <1>3 DEF Specialist, Step
  <2>2. stage # Consolidation /\ stage + 1 # stage
    BY <1>1, <2>1 DEF FirstSpecialist
  <2>3. CASE stage < LastSpecialist
    <3>1. stage' = stage + 1
      BY <1>3, <2>3 DEF Specialist, GoTo
    <3> QED
      BY <1>1, <2>1, <2>3, <3>1 DEF FirstSpecialist
  <2>4. CASE ~(stage < LastSpecialist)
    <3>1. stage' = stage \/ shown' = Clusters(merged')
      BY <1>3, <2>4 DEF Specialist, ReturnReview, Return
    <3> QED
      BY <2>2, <3>1
  <2> QED
    BY <2>3, <2>4
<1>4. CASE EnterReview \/ IdentifySubsystem \/ FollowUpStage \/ FastReviewStage \/ BroadConcerns
  BY <1>1, <1>4 DEF EnterReview, IdentifySubsystem, FollowUpStage, FastReviewStage,
     BroadConcerns, GoTo, Subsystem, FollowUp, FastReview, Broad, FirstSpecialist
<1> QED
  BY <1>2, <1>3, <1>4 DEF Next, GoesOn, Stage, Start, Panic, SetUpFails, SinglePass,
     SinglePassFails, Consolidate, ConsolidationFails, Abort, Cancelled, ReturnError,
     ReturnReview, Return, dataVars, vars

\* Whatever a stage has reported is represented in what consolidation is shown,
\* and what one block of an answer has is understood.
THEOREM EvidenceReachesConsolidation == Spec => []EvidenceHandedOn
<1>1. Init => ShownInv
  BY DEF Init, ShownInv, SetUp, Consolidation
<1>2. ReviewInv /\ ShownInv => EvidenceHandedOn
  <2> SUFFICES ASSUME ReviewInv, shown = Clusters(merged), stage = Consolidation
               PROVE  EvidenceHandedOn
    BY DEF ShownInv, EvidenceHandedOn
  <2>1. merged \in Seq(PossibleConcerns)
    BY DEF ReviewInv
  <2>2. ASSUME NEW c \in ToSet(merged)
        PROVE  /\ \E d \in ToSet(shown) :
                    /\ HasProof(c) => HasProof(d)
                    /\ \E founder \in ToSet(merged) : Alike(founder, c) /\ Alike(founder, d)
               /\ c.problem = None => c \in ToSet(shown)
    BY <2>1, ClustersKeepEvidence
  <2> QED
    BY <2>2, ConcernsUnderstood DEF EvidenceHandedOn
<1> QED
  BY <1>1, <1>2, ShownStep, ReviewInvariant, PTL DEF Spec

-----------------------------------------------------------------------------
(* The stages implement the task that the driver of a run relies on.         *)

\* The state of the abstract task is that of its only commit.
LEMMA TaskState ==
  /\ Task!Live = {c \in {"commit"} : task \in {"queued", "running"}}
  /\ Task!Running = {c \in {"commit"} : task = "running"}
BY DEF Task!Live, Task!Running

\* The module of the abstract task brings its own copies of the operators on
\* findings: they are the same.
LEMMA SameCardinality == ASSUME NEW S PROVE Task!Cardinality(S) = Cardinality(S)
BY DEF Task!Cardinality, Cardinality

\* The instance of CommitTask has operators of its own, which are those of the
\* review: merging,
LEMMA SameMerge ==
  ASSUME NEW base, NEW a
  PROVE  Task!MergeNovel(base, a) = MergeNovel(base, a)
BY Zenon DEF Task!MergeNovel, MergeNovel, Task!FoldLeft, FoldLeft, Task!MapThenFoldSet, MapThenFoldSet,
   Task!Max, Max, Task!Known, Known, Task!SameIdentity, SameIdentity

\* the patch,
LEMMA SamePatch == Task!Patch = Patch
BY DEF Task!Patch, Patch, Task!FlattenSeq, FlattenSeq, Task!PathLine, PathLine, Task!Count, Count,
   Task!Old, Old, Task!New, New

\* anchors,
LEMMA SameAnchored ==
  ASSUME NEW s
  PROVE  Task!WithAnchors(s) = WithAnchors(s)
<1>1. ASSUME NEW l PROVE Task!AnchorsIn(l) = AnchorsIn(l)
  BY DEF Task!AnchorsIn, AnchorsIn, Task!AnchorsOf, AnchorsOf, Task!Body, Body, Task!Count, Count,
     Task!HunkHeaders, HunkHeaders, Task!PathAt, PathAt, Task!Old, Old, Task!New, New, Task!Max, Max
<1>2. Task!Anchors = Anchors
  BY <1>1, SamePatch DEF Task!Anchors, Anchors
<1>3. ASSUME NEW f, NEW a PROVE Task!Anchored(f, a) = Anchored(f, a)
  BY DEF Task!Anchored, Anchored, Task!OnLine, OnLine, Task!Max, Max
<1> QED
  BY <1>2, <1>3 DEF Task!WithAnchors, WithAnchors, Task!Each, Each

\* reattribution,
LEMMA SameReattributed ==
  ASSUME NEW s
  PROVE  Task!Reattributed(s) = Reattributed(s)
<1>1. ASSUME NEW l, NEW text PROVE Task!MatchesIn(l, text) = MatchesIn(l, text)
  BY DEF Task!MatchesIn, MatchesIn, Task!Body, Body, Task!HunkHeaders, HunkHeaders,
     Task!PathAt, PathAt, Task!Count, Count,
     Task!Old, Old, Task!New, New, Task!Max, Max, Task!Cardinality, Cardinality
<1>2. ASSUME NEW text PROVE Task!AddedMatches(text) = AddedMatches(text)
  BY <1>1, SamePatch DEF Task!AddedMatches, AddedMatches
<1>3. ASSUME NEW f
      PROVE  Task!SourcesOf(f) = SourcesOf(f) /\ Task!Misattributed(f) = Misattributed(f)
  <2>1. Task!Misquoted(f) = Misquoted(f)
    BY DEF Task!Misquoted, Misquoted
  <2> QED
    BY <1>2, <2>1 DEF Task!SourcesOf, SourcesOf, Task!Misattributed, Misattributed
<1>4. ASSUME NEW f PROVE Task!Attributable(f) = Attributable(f)
  <2>1. Task!Cardinality(Task!SourcesOf(f)) = Cardinality(SourcesOf(f))
    BY <1>3, SameCardinality
  <2> QED
    BY <1>3, <2>1 DEF Task!Attributable, Attributable
<1>5. ASSUME NEW f PROVE Task!Moved(f) = Moved(f)
  <2> DEFINE to(l) == [f EXCEPT !.location = l, !.quotes = {}]
             a(A) == CHOOSE l \in A : TRUE
  <2>1. Task!Moved(f) = IF Task!Misattributed(f) THEN to(a(Task!SourcesOf(f))) ELSE f
    BY DEF Task!Moved
  <2>2. Moved(f) = IF Misattributed(f) THEN to(a(SourcesOf(f))) ELSE f
    BY DEF Moved
  <2> HIDE DEF to, a
  <2> QED
    BY <1>3, <2>1, <2>2
<1>6. ASSUME NEW I PROVE Task!Subsequence(s, I) = Subsequence(s, I)
  BY DEF Task!Subsequence, Subsequence, Task!Cardinality, Cardinality
<1> QED
  BY <1>4, <1>5, <1>6 DEF Task!Reattributed, Reattributed, Task!Each, Each

\* and the clean-up made of these.
LEMMA SameCleaned ==
  ASSUME NEW s
  PROVE  Task!Cleaned(s) = Cleaned(s)
<1>1. Task!Each(s, Task!WithChangedFile) = Each(s, WithChangedFile)
  BY DEF Task!Each, Each, Task!WithChangedFile, WithChangedFile, Task!ChangedPaths, ChangedPaths
<1> QED
  BY <1>1, SameAnchored, SameReattributed DEF Task!Cleaned, Cleaned

\* A review begins as its task does.
LEMMA TaskInits == Init => Task!TaskInit
BY DEF Init, Task!TaskInit, EmptySnap, Task!EmptySnap

\* Each step of a review is a step of its task, or an abort, or a stutter.
LEMMA TaskSteps ==
  ASSUME ReviewInv, [Next]_vars
  PROVE  Task!TaskStep \/ Task!AbortAll \/ UNCHANGED Task!taskVars
<1> DEFINE c == "commit"
<1>1. CASE Start
  <2>1. Task!Running = {} /\ Cardinality({}) = 0
    BY <1>1, TaskState, FS_EmptySet DEF Start
  <2>2. Task!Cardinality(Task!Running) < 1
    BY <2>1, SameCardinality
  <2>3. /\ task = "queued" /\ abort # "spent" /\ task' = "running"
        /\ UNCHANGED <<fast, baseline, snap, row, abort>>
    BY <1>1 DEF Start, dataVars
  <2>4. Task!Start(c)
    BY <2>2, <2>3 DEF Task!Start
  <2> QED
    BY <2>4 DEF Task!TaskStep
<1>2. CASE EnterReview \/ IdentifySubsystem \/ FollowUpStage
  <2>1. Task!Step(c)
    BY <1>2 DEF EnterReview, IdentifySubsystem, FollowUpStage, Step, Task!Step
  <2>2. UNCHANGED <<task, baseline, snap, row>>
    BY <1>2 DEF EnterReview, IdentifySubsystem, FollowUpStage, GoTo, dataVars
  <2>3. Task!Proceed(c)
    BY <2>1, <2>2 DEF Task!Proceed
  <2> QED
    BY <2>3 DEF Task!TaskStep
<1>3. CASE SetUpFails \/ SinglePassFails
  <2>1. Task!Step(c)
    BY <1>3 DEF SetUpFails, SinglePassFails, Step, Task!Step
  <2>2. ReturnError /\ stage \in {SetUp, FastReview}
    BY <1>3 DEF SetUpFails, SinglePassFails, Step
  <2>3. baseline = None
    BY <2>2 DEF ReviewInv, SetUp, FastReview, Broad, Consolidation
  <2>4. Task!Fail(c)
    BY <2>1, <2>2, <2>3 DEF Task!Fail, Task!Return, Task!ErrorRow, Task!Row, ReturnError,
       Return, Row, dataVars
  <2> QED
    BY <2>4 DEF Task!TaskStep, Task!Settle
<1>4. CASE SinglePass
  <2>1. Task!Step(c)
    BY <1>4 DEF SinglePass, Step, Task!Step
  <2>2. snap = EmptySnap
    BY <1>4 DEF SinglePass, Step, ReviewInv, FastReview, Broad, Consolidation
  <2>3. snap' = [EmptySnap EXCEPT !.completed = TRUE]
    <3>1. snap' = [snap EXCEPT !.findings = <<>>, !.completed = TRUE]
      BY <1>4 DEF SinglePass
    <3>2. [snap EXCEPT !.findings = <<>>] = snap
      BY <2>2 DEF EmptySnap
    <3> DEFINE other == [snap EXCEPT !.findings = <<>>]
    <3>3. snap' = [other EXCEPT !.completed = TRUE]
      BY <3>1
    <3> HIDE DEF other
    <3> QED
      BY <2>2, <3>2, <3>3 DEF other
  <2>4. fast /\ task' = "returned" /\ row' = Row(<<>>, <<>>) /\ baseline' = baseline
    BY <1>4 DEF SinglePass, Return, dataVars
  <2>5. Task!FinishFast(c)
    BY <2>1, <2>3, <2>4 DEF Task!FinishFast, Task!Return, Task!Row, Row, EmptySnap, Task!EmptySnap
  <2> QED
    BY <2>5 DEF Task!TaskStep, Task!Settle
<1>5. CASE FastReviewStage
  <2>1. Task!Step(c)
    BY <1>5 DEF FastReviewStage, Step, Task!Step
  <2>2. baseline = None
    BY <1>5 DEF FastReviewStage, Step, ReviewInv, FastReview, Broad, Consolidation
  <2>3. baseline' \in PossibleBaselines
    BY <1>5, FastReviewInv
  <2>4. Task!Establish(c)
    BY <1>5, <2>1, <2>2, <2>3 DEF FastReviewStage, Task!Establish, GoTo
  <2> QED
    BY <2>4 DEF Task!TaskStep, Task!Settle
<1>6. ASSUME Step(stage), baseline # None, UNCHANGED <<task, row, baseline>>,
             NEW a \in PossibleAdditions,
             snap' = [EmptySnap EXCEPT !.findings = MergeNovel(baseline, a)]
      PROVE  Task!TaskStep
  <2>1. Task!Step(c) /\ task # "returned"
    BY <1>6 DEF Step, Task!Step
  <2>2. snap = [EmptySnap EXCEPT !.findings = MergeNovel(baseline, FallbackFindings(merged))]
    BY <1>6, <2>1 DEF ReviewInv
  <2>3. snap' = [snap EXCEPT !.findings = MergeNovel(baseline, a)]
    BY <1>6, <2>2 DEF EmptySnap
  <2>4. [d \in {c} |-> snap'] = [[d \in {c} |-> snap] EXCEPT ![c].findings = MergeNovel(baseline, a)]
    BY <2>3
  <2>5. Task!Publish(c)
    BY <1>6, <2>1, <2>4, SameMerge DEF Task!Publish
  <2> QED
    BY <2>5 DEF Task!TaskStep
<1>7. ASSUME Step(stage), baseline # None, baseline' = baseline,
             NEW a \in PossibleAdditions, ReturnReview(MergeNovel(baseline, a), a)
      PROVE  Task!TaskStep
  <2>1. Task!Step(c) /\ task # "returned"
    BY <1>7 DEF Step, Task!Step
  <2>2. snap = [EmptySnap EXCEPT !.findings = MergeNovel(baseline, FallbackFindings(merged))]
    BY <1>7, <2>1 DEF ReviewInv
  <2>3. snap' = [EmptySnap EXCEPT !.findings = MergeNovel(baseline, a), !.completed = TRUE]
    BY <1>7, <2>2 DEF ReturnReview, EmptySnap
  <2>4. task' = "returned" /\ row' = Row(Cleaned(baseline), Cleaned(a))
    BY <1>7 DEF ReturnReview, Return
  <2>5. /\ [d \in {c} |-> task'] = [[d \in {c} |-> task] EXCEPT ![c] = "returned"]
        /\ [d \in {c} |-> snap'] = [[d \in {c} |-> snap] EXCEPT ![c] =
             [EmptySnap EXCEPT !.findings = MergeNovel(baseline, a), !.completed = TRUE]]
        /\ [d \in {c} |-> row'] = [[d \in {c} |-> row] EXCEPT ![c] = Row(Cleaned(baseline), Cleaned(a))]
    BY <2>3, <2>4
  <2>6. Task!Finish(c)
    BY <1>7, <2>1, <2>5, SameMerge, SameCleaned DEF Task!Finish, Task!Return, Task!Row, Row,
       EmptySnap, Task!EmptySnap
  <2> QED
    BY <2>6 DEF Task!TaskStep
<1>8. CASE BroadConcerns
  <2>1. Step(stage) /\ stage = Broad /\ task = "running" /\ UNCHANGED <<task, row>>
    BY <1>8 DEF BroadConcerns, Step, GoTo
  <2>2. Broad \in Broad..LastSpecialist /\ baseline # None
    BY <2>1 DEF ReviewInv, Broad, LastSpecialist, Consolidation
  <2>3. PICK h \in Heard(Broad) :
          Discover(Reattributed(h.concerns)) /\ PublishFallback(Reattributed(h.concerns))
    BY <1>8 DEF BroadConcerns
  <2>4. Reattributed(h.concerns) \in Seq(PossibleConcerns)
    BY <2>2, HeardLists
  <2> QED
    BY <1>6, <2>1, <2>2, <2>3, <2>4, DiscoverSteps
<1>9. CASE Specialist
  <2>1. Step(stage) /\ task = "running" /\ baseline # None
    BY <1>9, SpecialistSteps
  <2>2. PICK found \in Seq(PossibleConcerns) :
          /\ Discover(found)
          /\ \/ UNCHANGED <<task, row>> /\ PublishFallback(found)
             \/ merged' = <<>> /\ ReturnReview(snap.findings, <<>>)
    BY <1>9, SpecialistSteps DEF GoTo
  <2>3. CASE UNCHANGED <<task, row>> /\ PublishFallback(found)
    BY <1>6, <2>1, <2>2, <2>3, DiscoverSteps
  <2>4. CASE merged' = <<>> /\ ReturnReview(snap.findings, <<>>)
    <3>1. /\ <<>> \in PossibleAdditions /\ snap.findings = baseline /\ baseline' = baseline
      BY <2>1, <2>2, <2>4, DiscoverSteps
    <3>2. ReturnReview(MergeNovel(baseline, <<>>), <<>>)
      BY <2>4, <3>1, MergeEmpty
    <3> QED
      BY <1>7, <2>1, <3>1, <3>2
  <2> QED
    BY <2>2, <2>3, <2>4
<1>10. CASE Consolidate \/ ConsolidationFails
  <2>1. Step(stage) /\ stage = Consolidation /\ task = "running" /\ baseline' = baseline
    BY <1>10 DEF Consolidate, ConsolidationFails, Step, dataVars
  <2>2. baseline # None
    BY <2>1 DEF ReviewInv, Broad, Consolidation
  <2>3. PICK a \in PossibleAdditions : ReturnReview(MergeNovel(baseline, a), a)
    <3>1. CASE Consolidate
      BY <3>1 DEF Consolidate, PossibleAdditions
    <3>2. CASE ConsolidationFails
      <4>1. FallbackFindings(merged) \in PossibleAdditions
        BY FallbackIsPossible DEF ReviewInv
      <4>2. ReturnReview(MergeNovel(baseline, FallbackFindings(merged)), FallbackFindings(merged))
        BY <3>2 DEF ConsolidationFails
      <4> QED
        BY <4>1, <4>2
    <3> QED
      BY <1>10, <3>1, <3>2
  <2> QED
    BY <1>7, <2>1, <2>2, <2>3
<1>11. CASE Panic
  <2>1. Task!Step(c) /\ MayPanic
    BY <1>11 DEF Panic, Step, Task!Step
  <2>2. Task!Panic(c)
    BY <1>11, <2>1 DEF Panic, Task!Panic, dataVars
  <2> QED
    BY <2>2 DEF Task!TaskStep
<1>12. CASE Abort
  <2>1. Task!AbortAll
    BY <1>12, TaskState DEF Abort, Live, Task!AbortAll, dataVars
  <2> QED
    BY <2>1
<1>13. CASE Cancelled
  <2>1. Task!Cancelled(c)
    BY <1>13, TaskState DEF Cancelled, Live, Task!Cancelled, dataVars
  <2> QED
    BY <2>1 DEF Task!TaskStep
<1>14. CASE UNCHANGED vars
  BY <1>14 DEF vars, dataVars, Task!taskVars
<1> QED
  BY <1>1, <1>2, <1>3, <1>4, <1>5, <1>8, <1>9, <1>10, <1>11, <1>12, <1>13, <1>14
     DEF Next, GoesOn, Stage

\* The stages of a review do only what the task that the driver of a run knows
\* may do: establish a baseline, publish it merged with a list of findings,
\* return what was published, fail before it, panic, or be dropped.
THEOREM StagesImplementTask == Spec => ImplementsTask
<1>1. Init => Task!TaskInit
  BY TaskInits
<1>2. ReviewInv /\ [Next]_vars => [Task!TaskStep \/ Task!AbortAll]_Task!taskVars
  BY TaskSteps
<1> QED
  BY <1>1, <1>2, ReviewInvariant, PTL DEF Spec, ImplementsTask, Task!TaskSpec

\* What is assumed of a task of CommitTask is true of the one that the stages
\* implement, whatever the model answers.
THEOREM TaskAssumptionsMet == Task!CommitTaskAssumption
<1>1. Task!IsFiniteSet({"commit"})
  <2> DEFINE all == <<"commit">>
  <2>1. all \in Seq({"commit"}) /\ 1 \in 1..Len(all) /\ all[1] = "commit"
    OBVIOUS
  <2> QED
    BY <2>1 DEF Task!IsFiniteSet
<1>2. FastModes \subseteq BOOLEAN /\ MayPanic \in BOOLEAN /\ 1 \in Nat \ {0}
  BY CommitReviewAssumption
<1>3. <<>> \in PossibleAdditions
  <2>1. <<>> \in BoundedSeq(PossibleConcerns, MaxConcerns)
    <3>1. <<>> \in [1..0 -> PossibleConcerns] /\ 0 \in 0..MaxConcerns
      BY CommitReviewAssumption
    <3> QED
      BY <3>1 DEF BoundedSeq, SeqOf
  <2>2. FallbackFindings(<<>>) = <<>>
    <3>1. DOMAIN FallbackFindings(<<>>) = {} /\ \E T : FallbackFindings(<<>>) \in Seq(T)
      <4>1. <<>> \in Seq({}) /\ DOMAIN <<>> = {}
        OBVIOUS
      <4> QED
        BY <4>1, FallbackFindingsList
    <3> QED
      BY <3>1
  <2> QED
    BY <2>1, <2>2 DEF PossibleAdditions
<1>4. ASSUME NEW list \in PossibleBaselines \cup PossibleAdditions PROVE Task!IsList(list)
  <2>1. list \in Seq(ToSet(list))
    BY ListOfItems, ListIn DEF ToSet
  <2> QED
    BY <2>1 DEF Task!IsList, Task!ToSet, ToSet
<1> QED
  BY <1>1, <1>2, <1>3, <1>4, BaselineAssumption DEF Task!CommitTaskAssumption
=============================================================================
