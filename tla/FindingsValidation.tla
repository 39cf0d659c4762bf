-------------------------- MODULE FindingsValidation --------------------------
(***************************************************************************)
(* The findings validation of a run: run_findings_validation (src/main.rs) *)
(* with the retries, the tool loop and the parsers it calls (src/api.rs).  *)
(*                                                                         *)
(* Commits are sent to the validator in batches that fit its input.  An    *)
(* answer may return additions and adjudicate each baseline finding; the   *)
(* host parses it, demands that the model has used a repository tool, asks *)
(* again up to three times, and otherwise falls back.                      *)
(***************************************************************************)
EXTENDS Findings

CONSTANTS
  NumCommits,
  Payloads,            \* rows to validate, with the bytes of their payload
  Budget,              \* validation_findings_user_budget
  ToolModes,           \* who runs tools: "host", "none" or the "agent" itself
  ValidatorLists,      \* additions an answer may return for a commit
  AdjudicationLists    \* adjudications an answer may return for a commit

ASSUME FindingsValidationAssumption ==
  /\ NumCommits \in Nat /\ Budget \in Nat
  /\ ToolModes \subseteq {"host", "none", "agent"}
  /\ \A p \in Payloads : p.least <= p.full /\ IsList(p.findings) /\ IsList(p.additions)
  /\ \A list \in ValidatorLists :
       IsList(list) /\ \A i \in DOMAIN list : "sensitive" \in DOMAIN list[i]

MaxAttempts == 3   \* STAGE_RETRY_MAX_ATTEMPTS
Commits == 1..NumCommits

VARIABLES
  rows,         \* [Commits -> Payloads]
  tools,
  batches,
  phase,        \* next (batch), ask, or done
  batch,        \* number of the batch
  attempt,
  inspected,    \* successful_tool_calls > 0 in this attempt
  reminded,     \* verification_reminded in this attempt
  salvageable,  \* last_raw has empty additions for exactly the batch
  decided,      \* by_sha: the entry accepted for a commit, None if there is none
  unverified,   \* verification_failed_shas
  proven,       \* commits with an entry accepted after the host ran a tool
  validated     \* validated_findings of each commit

inputVars == <<rows, tools, batches>>
chatVars == <<attempt, inspected, reminded, salvageable>>
resultVars == <<decided, unverified, proven>>
vars == <<inputVars, phase, batch, chatVars, resultVars, validated>>

NoEntry == [findings |-> <<>>, adjudications |-> <<>>]

\* commit_needs_findings_validation
Needing ==
  Subsequence([c \in Commits |-> c],
              {c \in Commits : rows[c].findings \o rows[c].additions # <<>>})

FullSize(indices) == FoldLeft(LAMBDA sum, c : sum + rows[c].full, 0, indices)
LeastSize(indices) == FoldLeft(LAMBDA sum, c : sum + rows[c].least, 0, indices)

NoBatch == [closed |-> <<>>, current |-> <<>>]

\* Mutation: a batch is closed after it has grown too large.
JoinTooLarge(acc, c) ==
  IF acc.current = <<>> \/ FullSize(acc.current) <= Budget
    THEN [closed |-> acc.closed, current |-> Append(acc.current, c)]
    ELSE [closed |-> Append(acc.closed, acc.current), current |-> <<c>>]

\* A commit joins the batch before it if both fit.
Join(acc, c) ==
  IF acc.current = <<>> \/ FullSize(Append(acc.current, c)) <= Budget
    THEN [closed |-> acc.closed, current |-> Append(acc.current, c)]
    ELSE [closed |-> Append(acc.closed, acc.current), current |-> <<c>>]

\* validation_findings_batches
Batches ==
  LET all == FoldLeft(Join, NoBatch, Needing)
  IN IF all.current = <<>> THEN all.closed ELSE Append(all.closed, all.current)

Current == batches[batch]

Init ==
  /\ rows \in [Commits -> Payloads]
  /\ tools \in ToolModes
  /\ batches = Batches
  /\ phase = "next"
  /\ batch = 1
  /\ attempt = 1
  /\ inspected = FALSE /\ reminded = FALSE /\ salvageable = FALSE
  /\ decided = [c \in Commits |-> None]
  /\ unverified = {} /\ proven = {}
  /\ validated = [c \in Commits |-> None]

NewChat(n) == attempt' = n /\ inspected' = FALSE /\ reminded' = FALSE

EndBatch ==
  /\ phase' = "next" /\ batch' = batch + 1
  /\ NewChat(1) /\ salvageable' = FALSE
  /\ UNCHANGED <<inputVars, validated>>

\* validation_findings_user_payload_bounded: the sources of a commit are cut to
\* what fits; a batch whose findings alone do not fit is skipped.
SkipBatch ==
  /\ phase = "next" /\ batch <= Len(batches)
  /\ LeastSize(Current) > Budget
  /\ batch' = batch + 1
  /\ UNCHANGED <<inputVars, phase, chatVars, resultVars, validated>>

SendBatch ==
  /\ phase = "next" /\ batch <= Len(batches)
  /\ LeastSize(Current) <= Budget
  /\ phase' = "ask"
  /\ UNCHANGED <<inputVars, batch, chatVars, resultVars, validated>>

\* A round of the tool loop with a call that succeeds.
UseTool ==
  /\ phase = "ask" /\ tools = "host" /\ ~inspected
  /\ inspected' = TRUE
  /\ UNCHANGED <<inputVars, phase, batch, attempt, reminded, salvageable, resultVars, validated>>

Entries == [findings : ValidatorLists, adjudications : AdjudicationLists]
Answers == [DOMAIN Current -> Entries]

\* output_requires_tool_verification
NeedsVerification(answer) ==
  \E k \in DOMAIN answer :
    \/ answer[k].adjudications # <<>>
    \/ \E i \in DOMAIN answer[k].findings : answer[k].findings[i].sensitive

\* The check after the tool loop; there is no loop without the host's tools.
Unverified(answer) == tools = "host" /\ ~inspected /\ NeedsVerification(answer)

\* Mutation: a hedged proof is as good as another.
ExactlyConcluded(a) ==
  a.facts /\ a.conclusion = IF a.verdict = "KEEP" THEN "supported" ELSE "false_positive"

\* parse_baseline_adjudications_strict
ExactAdjudication(a) ==
  /\ a.facts
  /\ a.conclusion = IF a.verdict = "KEEP" THEN "supported" ELSE "false_positive"
  /\ a.verdict = "DROP" => ~a.hedged

\* validate_baseline_adjudication_coverage: one record for each baseline
\* finding, in order, and KEEP for upstream fixes.
Covers(entry, baseline) ==
  /\ Len(entry.adjudications) = Len(baseline)
  /\ \A i \in DOMAIN baseline :
       /\ entry.adjudications[i].id = i
       /\ IsUpstreamFix(baseline[i]) => entry.adjudications[i].verdict = "KEEP"

\* parse_validation_findings with the coverage: one bad record spoils all.
Parses(answer) ==
  \A k \in DOMAIN answer :
    /\ \A i \in DOMAIN answer[k].adjudications : ExactAdjudication(answer[k].adjudications[i])
    /\ Covers(answer[k], rows[Current[k]].findings)

\* The entry of a commit of the batch.
EntryOf(answer, c) == answer[CHOOSE k \in DOMAIN Current : Current[k] = c]

Decide(answer) ==
  decided' = [c \in Commits |->
    IF c \in ToSet(Current)
      THEN [EntryOf(answer, c) EXCEPT !.findings = SanitizedAll(@)] ELSE decided[c]]

\* The first such answer of a chat is met with a reminder to use the tools.
Remind(answer) ==
  /\ phase = "ask" /\ Unverified(answer) /\ ~reminded
  /\ reminded' = TRUE
  /\ UNCHANGED <<inputVars, phase, batch, attempt, inspected, salvageable, resultVars, validated>>

\* The second is a RequiredToolVerificationError, which is not retried.
Withhold(answer) ==
  /\ phase = "ask" /\ Unverified(answer) /\ reminded
  /\ unverified' = unverified \union ToSet(Current)
  /\ UNCHANGED <<decided, proven>>
  /\ EndBatch

Accept(answer) ==
  /\ phase = "ask" /\ ~Unverified(answer) /\ Parses(answer)
  /\ Decide(answer)
  /\ proven' = IF inspected THEN proven \union ToSet(Current) ELSE proven
  /\ UNCHANGED unverified
  /\ EndBatch

\* The last attempt has failed, or the stage has timed out: if the last answer
\* was empty for each commit of the batch, its additions stay dropped
\* (parse_empty_validation_candidate_decisions); its proofs do not count.
GiveUp(empty) ==
  /\ IF empty THEN Decide([k \in DOMAIN Current |-> NoEntry]) ELSE UNCHANGED decided
  /\ UNCHANGED <<unverified, proven>>
  /\ EndBatch

\* Mutation: attempts are not counted.
RetryUncounted(empty) ==
  /\ NewChat(attempt)
  /\ salvageable' = empty
  /\ UNCHANGED <<inputVars, phase, batch, resultVars, validated>>

Retry(empty) ==
  IF attempt = MaxAttempts
    THEN GiveUp(empty)
    ELSE /\ NewChat(attempt + 1)
         /\ salvageable' = empty
         /\ UNCHANGED <<inputVars, phase, batch, resultVars, validated>>

\* An answer that does not parse, or is about other commits.
Reject(answer) ==
  /\ phase = "ask" /\ ~Unverified(answer)
  /\ \/ ~Parses(answer) /\ Retry(\A k \in DOMAIN answer : answer[k].findings = <<>>)
     \/ Retry(FALSE)

\* The request failed after its own retries; last_raw stays as it is.
ApiError == phase = "ask" /\ Retry(salvageable)

TimeOut == phase = "ask" /\ GiveUp(salvageable)

\* An accepted entry stands for the additions of its commit; after a failure
\* they are kept, without sensitive claims if verification was refused.
Additions(c) ==
  IF decided[c] # None THEN WithAnchors(decided[c].findings)
  ELSE IF c \in unverified THEN WithoutSensitive(rows[c].additions)
  ELSE rows[c].additions

Adjudications(c) ==
  IF tools = "none" \/ decided[c] = None THEN <<>> ELSE decided[c].adjudications

\* Mutation: additions win over the baseline findings they repeat.
MergeAdditionsFirst ==
  /\ phase = "next" /\ batch > Len(batches)
  /\ phase' = "done"
  /\ validated' = [c \in Commits |->
       MergeNovel(Additions(c), WithoutDisproved(rows[c].findings, Adjudications(c)))]
  /\ UNCHANGED <<inputVars, batch, chatVars, resultVars>>

\* Every commit, whether or not it was in a batch.
Merge ==
  /\ phase = "next" /\ batch > Len(batches)
  /\ phase' = "done"
  /\ validated' = [c \in Commits |->
       MergeNovel(WithoutDisproved(rows[c].findings, Adjudications(c)), Additions(c))]
  /\ UNCHANGED <<inputVars, batch, chatVars, resultVars>>

Answer ==
  phase = "ask" /\ \E answer \in Answers :
    Remind(answer) \/ Withhold(answer) \/ Accept(answer) \/ Reject(answer)

\* The validator answers, the request fails, or the deadline passes.
Proceed == SkipBatch \/ SendBatch \/ ApiError \/ TimeOut \/ Answer \/ Merge

Next == UseTool \/ Proceed

Spec == Init /\ [][Next]_vars

FairSpec == Spec /\ WF_vars(Proceed)

-----------------------------------------------------------------------------
(* Properties                                                              *)

\* The batches cover each commit once, in order, and fit the budget unless
\* they are of one commit.
BatchesFit ==
  /\ FlattenSeq(batches) = Needing
  /\ \A b \in DOMAIN batches : FullSize(batches[b]) <= Budget \/ Len(batches[b]) = 1

\* "The host applies only exact, tool-verified DROP decisions": without an
\* accepted answer for which the host has run a tool, every failure of the
\* validator leaves the baseline as it was, at the head of the list, and a
\* finding of the baseline goes only upon facts that are not hedged; a sensitive
\* claim beyond the baseline is shown only if the host has run a tool for it, or
\* could not, or if the validator never answered at all.
VerdictIsVerified ==
  phase = "done" =>
    /\ \A c \in Commits \ proven : IsPrefix(rows[c].findings, validated[c])
    /\ \A c \in proven : \A i \in DOMAIN rows[c].findings :
         \/ rows[c].findings[i] \in ToSet(validated[c])
         \/ \E a \in ToSet(decided[c].adjudications) :
              a.id = i /\ a.verdict = "DROP" /\ a.facts /\ ~a.hedged
    /\ tools = "host" =>
         \A c \in Commits : \A f \in ToSet(validated[c]) \ ToSet(rows[c].findings) :
           f.sensitive => c \in proven \/ (c \notin unverified /\ decided[c] = None)

\* What the driver relies on: whatever the validator answers, the result is
\* one of those that ReviewRun chooses from.
WithinContract ==
  phase = "done" =>
    \A c \in Commits :
      validated[c] \in Validations(rows[c].findings, rows[c].additions,
                                   {SanitizedAll(a) : a \in ValidatorLists})

\* However the model and the endpoint behave, validation comes to an end.
ValidationEnds == <>(phase = "done")
=============================================================================
