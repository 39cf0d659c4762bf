------------------------------ MODULE Findings ------------------------------
(***************************************************************************)
(* Findings and the lists of them that the review pipeline merges          *)
(* (src/main.rs, src/api.rs).                                              *)
(*                                                                         *)
(* A finding is a record: its problem text after normalisation, its source *)
(* anchor, the upstream commit it reports, whether its text makes a claim  *)
(* about declarations, linkage or callers, the identifiers it names, and,  *)
(* if it blames the language of the commit message, the texts it quotes.   *)
(* None stands for an absent problem, location or upstream commit.  A      *)
(* location is a file, a line, a last line (0 without one) and a side.     *)
(***************************************************************************)
EXTENDS DiffAnchors

CONSTANT
  MessageTexts   \* what the commit message has of the texts that are quoted

\* What is assumed of the lists that the constants have.
IsList(s) == s \in Seq(ToSet(s))

\* The elements of a list at some of its indices, in their order.
Subsequence(s, indices) ==
  LET place(i) == Cardinality({k \in indices : k <= i})
  IN [j \in 1..Cardinality(indices) |-> s[CHOOSE i \in indices : place(i) = j]]

\* A list with each finding replaced.  (TLC computes a concatenation once, and
\* an element of a function each time it is used.)
Each(findings, replaced(_)) == <<>> \o [i \in DOMAIN findings |-> replaced(findings[i])]

\* findings_have_same_identity.  Two upstream commits decide alone; a finding
\* without a problem is the same as none, itself included.
SameIdentity(a, b) ==
  IF a.fix # None /\ b.fix # None
    THEN a.fix = b.fix
    ELSE /\ a.problem # None
         /\ a.problem = b.problem
         /\ a.location = b.location

Known(findings, f) == \E i \in DOMAIN findings : SameIdentity(findings[i], f)

\* Mutation: a candidate is compared with the base only.
MergeAgainstBase(base, additions) ==
  base \o SelectSeq(additions, LAMBDA f : ~Known(base, f))

\* merge_novel_findings: a candidate is added unless the list so far, earlier
\* candidates included, has a finding of its identity.
MergeNovel(base, additions) ==
  LET merge(merged, f) == IF Known(merged, f) THEN merged ELSE Append(merged, f)
  IN FoldLeft(merge, base, additions)

\* append_upstream_fix_findings; the text names the upstream commit.
UpstreamFixFinding(sha) ==
  [problem |-> sha, location |-> None, fix |-> sha, sensitive |-> FALSE,
   names |-> {}, quotes |-> {}]

WithUpstreamFixes(findings, shas) ==
  findings \o Each(shas, UpstreamFixFinding)

\* "source": "upstream-fixes"
IsUpstreamFix(f) == f.fix # None

\* sanitize_finding_location
Sanitized(f) ==
  LET l == f.location
  IN IF l = None THEN f
     ELSE IF l.file = None \/ l.line = 0 THEN [f EXCEPT !.location = None]
     ELSE [f EXCEPT !.location.end = IF l.end < l.line THEN 0 ELSE l.end,
                    !.location.side = IF l.side = "LEFT" THEN "LEFT" ELSE "RIGHT"]

SanitizedAll(findings) == Each(findings, Sanitized)

\* findings_from_merged_concerns: one finding per concern, with the concern's
\* location, whose text is the concern's under a prefix and so never empty.
FallbackFinding(c) ==
  [problem |-> <<"merged concern", c.problem>>, location |-> c.location, fix |-> None,
   sensitive |-> c.sensitive, names |-> c.names, quotes |-> c.quotes]

FallbackFindings(concerns) == SanitizedAll(Each(concerns, FallbackFinding))

\* The anchors at a line of the file and side of a location.
OnLine(anchors, l, line) ==
  {a \in anchors : a.file = l.file /\ a.line = line /\ a.side = l.side}

\* drop_unanchored_locations: a last line that is no line of the diff goes, and
\* so does a location without any of the identifiers that the text names.
Anchored(f, anchors) ==
  LET l == f.location
      end == IF l.end > l.line /\ OnLine(anchors, l, l.end) = {} THEN 0 ELSE l.end
      shown == UNION {a.has : a \in UNION {OnLine(anchors, l, n) : n \in l.line..Max({l.line, end})}}
  IN IF l = None THEN f
     ELSE IF OnLine(anchors, l, l.line) = {} \/ (f.names # {} /\ f.names \intersect shown = {})
       THEN [f EXCEPT !.location = None]
     ELSE [f EXCEPT !.location.end = end]

\* drop_hallucinated_locations goes before.
WithChangedFile(f) ==
  IF f.location # None /\ f.location.file \notin ChangedPaths
    THEN [f EXCEPT !.location = None] ELSE f

WithAnchors(findings) == Each(findings, LAMBDA f : Anchored(f, Anchors))

\* offending_fragments that the commit message does not contain.
Misquoted(f) == f.quotes \ MessageTexts

\* repair_misattributed_message_findings and the same for concerns: if it is
\* without a location, and exactly one added line has what it quotes, that is
\* its location, and the text no longer blames the message; otherwise it goes.
Misattributed(f) == f.location = None /\ Misquoted(f) # {}

SourcesOf(f) == UNION {AddedMatches(t) : t \in Misquoted(f)}

Attributable(f) == Misattributed(f) => Cardinality(SourcesOf(f)) = 1

Moved(f) ==
  IF Misattributed(f)
    THEN [f EXCEPT !.location = CHOOSE l \in SourcesOf(f) : TRUE, !.quotes = {}]
    ELSE f

Reattributed(findings) ==
  Each(Subsequence(findings, {i \in DOMAIN findings : Attributable(findings[i])}), Moved)

\* Mutation: the anchors are validated only after the repair.
CleanedAfterwards(findings) ==
  WithAnchors(Reattributed(Each(findings, WithChangedFile)))

\* cleanup_repair_and_validate_findings
Cleaned(findings) ==
  WithAnchors(Reattributed(WithAnchors(Each(findings, WithChangedFile))))

\* without_unverified_sensitive_findings
WithoutSensitive(findings) ==
  Subsequence(findings, {i \in DOMAIN findings : ~findings[i].sensitive})

\* apply_adjudicated_fast_false_positives.  An id is the index it names, None
\* if it is no exact "fast-N".
WithoutDisproved(baseline, adjudications) ==
  LET disproved(i) == /\ ~IsUpstreamFix(baseline[i])
                      /\ \E k \in DOMAIN adjudications :
                           /\ adjudications[k].verdict = "DROP"
                           /\ adjudications[k].conclusion = "false_positive"
                           /\ adjudications[k].id = i
  IN Subsequence(baseline, {i \in DOMAIN baseline : ~disproved(i)})

\* What is shown of the additions of a commit that was validated: an answer of
\* the validator, nothing, all of them, or those that make no sensitive claim.
ValidatedAdditions(additions, answers) ==
  {WithAnchors(a) : a \in answers} \union {<<>>, additions, WithoutSensitive(additions)}

\* Mutation: the validator may have any baseline finding dropped.
ValidationsOfAll(baseline, additions, answers) ==
  {MergeNovel(Subsequence(baseline, keep), a) :
     keep \in SUBSET DOMAIN baseline, a \in ValidatedAdditions(additions, answers)}

\* What run_findings_validation may make of a commit: any finding of the
\* baseline may go, but for the upstream fixes, and the additions come after.
Validations(baseline, additions, answers) ==
  LET fixes == {i \in DOMAIN baseline : IsUpstreamFix(baseline[i])}
  IN {MergeNovel(Subsequence(baseline, keep \union fixes), a) :
        keep \in SUBSET DOMAIN baseline, a \in ValidatedAdditions(additions, answers)}
=============================================================================
