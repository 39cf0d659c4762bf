---------------------------- MODULE MCCommitReview ----------------------------
(* Instance of CommitReview for TLC.                                         *)
EXTENDS CommitReview

CONSTANTS p1, p2, p3, drv, gone, id, typo, slip, s1, s2, s3

DiffLine(first, header, has) ==
  [first |-> first, header |-> header, path |-> IF header THEN gone ELSE None, has |-> has]

Hunk(old, new, start, body) ==
  [old |-> old, new |-> new, oldStart |-> start, newStart |-> start, body |-> body]

\* A removed "-- ..." and an added "++ ..." line read like headers; a file that
\* is removed has old lines only.
MCHunks ==
  <<Hunk(drv, drv, 5,
      <<DiffLine(" ", FALSE, {}), DiffLine("-", TRUE, {}), DiffLine("+", FALSE, {typo, id})>>),
    Hunk(drv, drv, 20, <<DiffLine("+", TRUE, {}), DiffLine("+", FALSE, {slip})>>),
    Hunk(gone, None, 1, <<DiffLine("-", FALSE, {"comment"})>>)>>

MCMessageTexts == {}

At(path, line, end, side) == [file |-> path, line |-> line, end |-> end, side |-> side]

Finding(problem, location, quotes) ==
  [problem |-> problem, location |-> location, fix |-> None,
   sensitive |-> FALSE, names |-> {id}, quotes |-> quotes]

\* Anchored with a last line beyond the hunk; at a line no hunk has; and blaming
\* the message, which the line after "++ ..." explains.
Placed == Finding(p1, At(drv, 6, 9, "RIGHT"), {})
Misplaced == Finding(p2, At(drv, 6, 5, "LEFT"), {typo})
Unplaced == [Finding(p3, None, {slip}) EXCEPT !.names = {}]

MCFastLists == {<<>>, <<Placed, Misplaced>>, <<Misplaced, Unplaced, Misplaced>>}

Logged(sha, subject, names) == [sha |-> sha, subject |-> subject, names |-> names]

\* A fix that the branch has as a backport, one that it lacks, and one whose
\* trailer is too short to be found.
MCUpstreamLogs ==
  {None, <<Logged(s3, p3, "canonical")>>,
   <<Logged(s1, p1, "canonical"), Logged(s2, p2, "abbreviated"), Logged(s3, p3, "canonical")>>}
MCBranchLog == <<Logged(s2, p3, "canonical"), Logged(s2, p1, "other")>>
MCConsolidatedLists == {<<>>, <<Placed>>, <<Unplaced, Misplaced>>}

-----------------------------------------------------------------------------
Concern(problem, category, proof) ==
  [problem |-> problem, location |-> None, fix |-> None, sensitive |-> FALSE,
   names |-> {}, quotes |-> {}, category |-> category, proof |-> proof]

Linkage == Concern(p1, "linkage", "concrete")
Vague == Concern(p2, "linkage", "generic")
Bare == [Concern(p2, "other", "none") EXCEPT !.quotes = {slip}]
Unnamed == Concern(None, "other", "none")

\* Similarity is not transitive.
MCSimilar == {<<p1, p2>>, <<p2, p1>>}

Block(fenced, kind) ==
  [fenced |-> fenced, kind |-> kind, mentions |-> {}, list |-> <<>>,
   concerns |-> None, findings |-> None, challenges |-> None]
List(items) == [single |-> FALSE, list |-> items]
Prose(mentions) == [Block(FALSE, "prose") EXCEPT !.mentions = mentions]
Object(fenced, items) == [Block(fenced, "object") EXCEPT !.concerns = List(items)]
Challenge(hedged) == [id |-> 1, facts |-> TRUE, hedged |-> hedged, conclusion |-> "false_positive"]
Against(block, hedged) == [block EXCEPT !.challenges = List(<<Challenge(hedged)>>)]

\* In prose that names the key, before and after; two drafts; a list; a single
\* concern; the findings of another stage; and a hedged challenge.
MCConcernTexts ==
  {<<Prose({"concerns"}), Against(Object(FALSE, <<Linkage>>), FALSE)>>,
   <<Object(FALSE, <<Linkage>>), Prose({"concerns"})>>,
   <<Object(TRUE, <<>>), Object(TRUE, <<Vague>>), Prose({})>>,
   <<[Block(FALSE, "list") EXCEPT !.list = <<Bare>>]>>,
   <<[Object(FALSE, <<Unnamed>>) EXCEPT !.concerns.single = TRUE]>>,
   <<[Block(FALSE, "object") EXCEPT !.findings = List(<<Vague>>)]>>,
   <<Against(Object(FALSE, <<Bare, Linkage>>), TRUE)>>}
===============================================================================
