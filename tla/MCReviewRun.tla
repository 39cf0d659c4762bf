----------------------------- MODULE MCReviewRun -----------------------------
(* Instance of ReviewRun for TLC.                                             *)
EXTENDS ReviewRun

CONSTANTS p1, p2, drv, typo, s1

\* One added line, which does not have the text that a finding quotes.
MCHunks ==
  <<[old |-> drv, new |-> drv, oldStart |-> 5, newStart |-> 5,
     body |-> <<[first |-> "+", header |-> FALSE, path |-> None, has |-> {}]>>]>>
MCMessageTexts == {}

Finding(problem, location, quotes, sensitive) ==
  [problem |-> problem, location |-> location, fix |-> None,
   sensitive |-> sensitive, names |-> {}, quotes |-> quotes]

AtLine(n) == [file |-> drv, line |-> n, end |-> 0, side |-> "RIGHT"]
Bug == Finding(p1, AtLine(5), {}, FALSE)
Linkage == Finding(p2, AtLine(5), {}, TRUE)
Typo == Finding(p2, None, {typo}, FALSE)

MCBaselines == {<<>>, <<UpstreamFixFinding(s1)>>, <<Typo, Bug>>}
MCAdditionLists == {<<>>, <<Bug, Linkage>>}
MCValidatorLists == {<<>>}
MCCommits == 1..2

\* Two of three problems have a severity, one of them a known one.
MCSeverities == [p \in {p1, p2} |-> IF p = p1 THEN "Medium" ELSE "medium"]

Highlight(n, index, valid) == [ref |-> <<n, index>>, valid |-> valid]

\* An answer without a text; one with highlights twice, not there, and unusable.
MCSummaryAnswers ==
  {[text |-> FALSE, highlights |-> <<>>],
   [text |-> TRUE, highlights |-> <<Highlight(1, 1, TRUE), Highlight(2, 1, FALSE),
                                    Highlight(1, 1, TRUE), Highlight(3, 1, TRUE),
                                    Highlight(2, 1, TRUE)>>],
   [text |-> TRUE, highlights |-> <<Highlight(1, 2, TRUE), Highlight(2, 1, TRUE)>>]}
===============================================================================
