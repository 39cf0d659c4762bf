---------------------------- MODULE UpstreamFixes ----------------------------
(***************************************************************************)
(* The follow-up fixes of the reviewed commit: prepare_master_fetch,       *)
(* find_master_fixes and filter_unapplied_master_fixes (src/lore.rs).      *)
(*                                                                         *)
(* A commit in a log is its id, its subject (None if it is empty) and how  *)
(* its message refers to the reviewed commit: "canonical" after "Fixes: "  *)
(* with twelve digits or more, or in another way.                          *)
(***************************************************************************)
EXTENDS Findings

CONSTANTS
  UpstreamLogs,  \* what FETCH_HEAD may lead to, None if it cannot be fetched
  BranchLog      \* what the tip of the range leads to, None if git log fails

ASSUME UpstreamAssumption ==
  /\ None \in UpstreamLogs
  /\ \A log \in UpstreamLogs \ {None} : IsList(log)

\* git log --fixed-strings --grep "Fixes: <twelve digits>" (external)
Referring(log) == Subsequence(log, {i \in DOMAIN log : log[i].names = "canonical"})

\* filter_unapplied_master_fixes: a backport has another id than the fix, and
\* is known by its subject, provided that it names the reviewed commit as well.
Unapplied(found, applied) ==
  LET ids == {applied[i].sha : i \in DOMAIN applied}
      subjects == {applied[i].subject : i \in DOMAIN applied} \ {None}
      new(c) == c.sha \notin ids /\ c.subject \notin subjects
  IN Subsequence(found, {i \in DOMAIN found : new(found[i])})

\* find_master_fixes: the branch is asked only if there is something to find.
FindMasterFixes(log) ==
  LET found == Referring(log)
  IN IF found = <<>> THEN <<>>
     ELSE IF BranchLog = None THEN None
     ELSE Unapplied(found, Referring(BranchLog))

\* prepare_master_fetch in the driver, which goes on without a branch.
Fetched(log) == log # None

\* The first half of run_upstream_followup_stage: no error of git counts.
MasterFixes(log) ==
  IF ~Fetched(log) \/ FindMasterFixes(log) = None THEN <<>>
  ELSE Each(FindMasterFixes(log), LAMBDA c : c.sha)
=============================================================================
