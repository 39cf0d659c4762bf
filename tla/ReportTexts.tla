------------------------------ MODULE ReportTexts ------------------------------
(***************************************************************************)
(* The texts of a report of boro review: the mailing-list prose of each    *)
(* commit and the quick summary of the run (src/main.rs, src/api.rs), and  *)
(* what src/output.rs prints of them.                                      *)
(*                                                                         *)
(* Prose is "mail" if a model wrote it, or what the fast review has said,  *)
(* "issues", or None.  A highlight refers to a finding as <<row, index>>.  *)
(***************************************************************************)
EXTENDS Findings

CONSTANTS
  Severities,      \* severity of the findings with each problem, if they have one
  MaxHighlights    \* QUICK_SUMMARY_MAX_HIGHLIGHTS

ASSUME ReportTextsAssumption ==
  /\ MaxHighlights \in Nat
  /\ None \notin {"mail", "issues"}

Canonical == {"Critical", "High", "Medium", "Low"}

SeverityOf(f) ==
  CASE IsUpstreamFix(f) -> "High"
    [] ~IsUpstreamFix(f) /\ f.problem \in DOMAIN Severities -> Severities[f.problem]
    [] OTHER -> None

-----------------------------------------------------------------------------
(* Mailing-list prose.                                                     *)

\* lkml_input_has_no_findings: a fast review is "issues", or "none found" if it
\* is a parsable list without findings, or None where there was no fast review.
NothingToTell(findings, review) ==
  findings = <<>> /\ review \in {None, "none found"}

\* normalize_lkml_report_response: the sentinel and an empty answer are no prose.
Normalized(answer) == IF answer = "mail" THEN "mail" ELSE None

\* Mutation: when the model fails there is no prose.
ProseIfAnswered(findings, review, answer) ==
  IF NothingToTell(findings, review) THEN None ELSE Normalized(answer)

\* A task of render_commit_lkml_phase.  If the model fails, what a fast review
\* has said stands for the prose.
Prose(findings, review, answer) ==
  CASE NothingToTell(findings, review) -> None
    [] ~NothingToTell(findings, review) /\ answer = "failed" -> review
    [] OTHER -> Normalized(answer)

-----------------------------------------------------------------------------
(* Quick summary.                                                          *)

FirstOf(s, n) == SubSeq(s, 1, IF Len(s) < n THEN Len(s) ELSE n)

\* parse_quick_summary_response: a text that is missing, too long or has
\* control characters spoils the answer, a highlight only itself.
ParsedSummary(answer) ==
  IF ~answer.text THEN None
  ELSE LET highlights == answer.highlights
           valid == {k \in DOMAIN highlights : highlights[k].valid}
       IN FirstOf(Subsequence(highlights, valid), MaxHighlights)

\* quick_summary_user_payload names the findings.
Refs(rows) == UNION {{i} \X DOMAIN rows[i] : i \in DOMAIN rows}

\* resolve_quick_summary_highlights: those of findings that the report has, with
\* a severity that it counts, each finding once; severity and place are the
\* finding's own.
Resolved(highlights, rows) ==
  LET ref(k) == highlights[k].ref
      severity(r) == SeverityOf(rows[r[1]][r[2]])
      known == {k \in DOMAIN highlights : ref(k) \in Refs(rows) /\ severity(ref(k)) \in Canonical}
      fresh == {k \in known : \A j \in 1..(k - 1) : ref(j) # ref(k)}
  IN FirstOf(Each(Subsequence(highlights, fresh),
                  LAMBDA h : [ref |-> h.ref, severity |-> severity(h.ref)]),
             MaxHighlights)

Counts(rows) ==
  LET of(s, findings) == Cardinality({k \in DOMAIN findings : SeverityOf(findings[k]) = s})
  IN [s \in Canonical |-> FoldLeft(LAMBDA n, findings : n + of(s, findings), 0, rows)]

\* run_quick_summary: without findings the model is not asked, and if it fails
\* the text is made of the counts.
Summaries(rows, answers) ==
  LET about(text, highlights) ==
        [text |-> text, counts |-> Counts(rows), highlights |-> highlights]
      parsed == {ParsedSummary(answer) : answer \in answers} \ {None}
  IN IF rows = <<>> \/ \A i \in DOMAIN rows : rows[i] = <<>>
       THEN {about("no issues", <<>>)}
       ELSE {about("counted", <<>>)}
              \union {about("model", Resolved(highlights, rows)) : highlights \in parsed}

-----------------------------------------------------------------------------
(* print_report_human                                                      *)

\* The findings are left out if all rows are of fast reviews that have ended.
FindingsPrinted(fastRows, rows) == rows = <<>> \/ fastRows # DOMAIN rows

\* print_lkml_block
ProsePrinted(mode, prose) == {i \in DOMAIN prose : mode # "findings" /\ prose[i] # None}
=============================================================================
