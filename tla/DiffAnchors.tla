------------------------------ MODULE DiffAnchors ------------------------------
(***************************************************************************)
(* What boro reads in the patch of a commit: the lines that an anchor may  *)
(* refer to (src/diff_index.rs), the added lines that have a quoted text,  *)
(* and whether it touches comments (src/api.rs).                           *)
(*                                                                         *)
(* A line of a diff is known by its first character.  "header" says that   *)
(* it reads like a "--- " or "+++ " line, which the payload of a hunk may  *)
(* do as well, and "path" which path it then names; "has" are the texts in *)
(* it that a finding quotes or names.                                      *)
(***************************************************************************)
EXTENDS Naturals, Sequences, FiniteSets, SequencesExt, FiniteSetsExt

CONSTANTS
  None,
  Hunks    \* hunks of the commit, with their paths, first lines and body

-----------------------------------------------------------------------------
(* The patch as git prints it (external).                                  *)

\* How many of some lines are on the side that the signs belong to.
Count(lines, signs) == Len(SelectSeq(lines, LAMBDA l : l.first \in signs))

Old == {"-", " "}
New == {"+", " "}

PathLine(first, path) == [first |-> first, header |-> TRUE, path |-> path, has |-> {}]

\* Files come one after another, each with its hunks.
Patch ==
  FlattenSeq([k \in DOMAIN Hunks |->
    LET h == Hunks[k]
        same == k > 1 /\ Hunks[k - 1].old = h.old /\ Hunks[k - 1].new = h.new
    IN (IF same THEN <<>> ELSE <<[first |-> "diff"], PathLine("-", h.old), PathLine("+", h.new)>>)
       \o <<[first |-> "@@", oldStart |-> h.oldStart, oldLen |-> Count(h.body, Old),
             newStart |-> h.newStart, newLen |-> Count(h.body, New)]>>
       \o h.body])

\* git diff-tree --name-only
ChangedPaths == UNION {{Hunks[k].old, Hunks[k].new} : k \in DOMAIN Hunks} \ {None}

-----------------------------------------------------------------------------
(* Reading it.  The lines of the patch are the first parameter.            *)

\* classify_hunk_body_line: the lines of the hunk whose header is line m, as
\* long as its ranges last.
Body(lines, m) ==
  LET used(n, signs) == Count(SubSeq(lines, m + 1, n - 1), signs)
      left(n, side) == IF side = Old THEN lines[m].oldLen - used(n, Old)
                                     ELSE lines[m].newLen - used(n, New)
      fits(n) ==
        \/ lines[n].first = "\\"
        \/ /\ lines[n].first \in Old \union New
           /\ \A side \in {Old, New} : lines[n].first \in side => left(n, side) > 0
  IN {n \in (m + 1)..Len(lines) : \A k \in (m + 1)..n : fits(k)}

HunkHeaders(lines) == {m \in DOMAIN lines : lines[m].first = "@@"}

\* parse_diff_path: the path that stands before line m, None for /dev/null.
PathAt(lines, m, sign) ==
  LET file == Max({n \in 1..m : lines[n].first = "diff"})
      inHunk == UNION {Body(lines, k) : k \in {j \in HunkHeaders(lines) : j \in file..m}}
      heads == {n \in file..m : lines[n].first = sign /\ lines[n].header /\ n \notin inHunk}
  IN lines[Max(heads)].path

\* from_unified_diff: context is on both sides.
AnchorsOf(lines, m, side) ==
  LET signs == IF side = "RIGHT" THEN New ELSE Old
      start == IF side = "RIGHT" THEN lines[m].newStart ELSE lines[m].oldStart
  IN {[file |-> path, side |-> side, has |-> lines[n].has,
       line |-> start + Count(SubSeq(lines, m + 1, n - 1), signs)] :
        n \in {k \in Body(lines, m) : lines[k].first \in signs},
        path \in {PathAt(lines, m, IF side = "RIGHT" THEN "+" ELSE "-")} \ {None}}

AnchorsIn(lines) ==
  UNION {AnchorsOf(lines, m, side) : m \in HunkHeaders(lines), side \in {"LEFT", "RIGHT"}}

Anchors == AnchorsIn(Patch)

\* added_line_matches: within a hunk, a line that reads like a header is passed
\* over, and an added one is not counted.
MatchesIn(lines, text) ==
  LET counted(n) == lines[n].first \in New /\ ~lines[n].header
      number(m, n) == lines[m].newStart + Cardinality({k \in (m + 1)..(n - 1) : counted(k)})
      paths(m) == <<PathAt(lines, m, "+"), PathAt(lines, m, "-")>>
      file(m) == SelectSeq(paths(m), LAMBDA path : path # None)[1]
  IN UNION {{[file |-> file(m), line |-> number(m, n), end |-> 0, side |-> "RIGHT"] :
               n \in {k \in Body(lines, m) :
                        counted(k) /\ lines[k].first = "+" /\ text \in lines[k].has}} :
              m \in HunkHeaders(lines)}

AddedMatches(text) == MatchesIn(Patch, text)

\* diff_touches_comments
TouchesComments ==
  \E l \in ToSet(Patch) :
    /\ l.first \in {"+", "-"}
    /\ ~l.header
    /\ "comment" \in l.has
=============================================================================
