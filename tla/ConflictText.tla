----------------------------- MODULE ConflictText -----------------------------
(***************************************************************************)
(* What boro apply does with the text of a conflicted file (src/apply.rs): *)
(* it finds the diff3 hunks, refuses a resolution with gratuitous blank    *)
(* lines, and replaces the hunks by the resolutions.                       *)
(*                                                                         *)
(* A line is a record: "mark" is the character of a conflict marker, or    *)
(* "none"; "w" is the length of the marker, or else the word that stands   *)
(* for the line's body; "eol" is its terminator, lf, crlf or none.         *)
(***************************************************************************)
EXTENDS Integers, Sequences, SequencesExt, FiniteSetsExt

CONSTANTS
  None,
  Blank     \* the body of a line of white space

Line(w, eol) == [mark |-> "none", w |-> w, eol |-> eol]
Marker(mark, size, eol) == [mark |-> mark, w |-> size, eol |-> eol]

-----------------------------------------------------------------------------
(* parse_conflicts_in_file                                                 *)

\* Stands for the error of an unfinished hunk.
Malformed == [from |-> 0, to |-> 0, sides |-> <<>>]

\* The first line from i on that is this marker, or the end.
MarkerFrom(lines, i, mark, size) ==
  Min({j \in i..Len(lines) : lines[j].mark = mark /\ lines[j].w = size}
        \union {Len(lines) + 1})

\* Only markers of the length of the opening one end a section, and the base
\* must be there; a section may hold markers of another length.
Conflicts(lines) ==
  LET from[i \in 1..(Len(lines) + 1)] ==
        IF i > Len(lines) THEN <<>>
        ELSE IF lines[i].mark # "<" THEN from[i + 1]
        ELSE LET size == lines[i].w
                 base == MarkerFrom(lines, i + 1, "|", size)
                 sep  == MarkerFrom(lines, base + 1, "=", size)
                 end  == MarkerFrom(lines, sep + 1, ">", size)
             IN IF end > Len(lines) THEN <<Malformed>>
                ELSE <<[from |-> i, to |-> end,
                        sides |-> <<SubSeq(lines, i + 1, base - 1),
                                    SubSeq(lines, base + 1, sep - 1),
                                    SubSeq(lines, sep + 1, end - 1)>>]>> \o from[end + 1]
  IN from[1]

-----------------------------------------------------------------------------
(* local_resolution_whitespace_rejection                                   *)

IsBlank(line) == line.mark = "none" /\ line.w = Blank

LeadingBlanks(code) ==
  Min({i \in DOMAIN code : ~IsBlank(code[i])} \union {Len(code) + 1}) - 1

TrailingBlanks(code) == LeadingBlanks(Reverse(code))

LongestBlankRun(code) ==
  Max({n \in 0..Len(code) :
         \E i \in 0..(Len(code) - n) : \A k \in (i + 1)..(i + n) : IsBlank(code[k])})

WhitespaceRejected(hunk, code) ==
  LET allowed(Count(_)) == Max({Count(hunk.sides[i]) : i \in 1..3})
  IN \/ LeadingBlanks(code) > allowed(LeadingBlanks)
     \/ TrailingBlanks(code) > 0
     \/ LongestBlankRun(code) > Max({1, allowed(LongestBlankRun)})

-----------------------------------------------------------------------------
(* apply_accepted_resolutions                                              *)

\* The file's style: that of the nearest terminated line before the hunk,
\* else of the first one after it, else of the hunk's last marker.
EolStyle(lines, s) ==
  LET terminated == {i \in DOMAIN lines : lines[i].eol # "none"}
      before == {i \in terminated : i < s.from}
      after  == {i \in terminated : i > s.to}
  IN lines[IF before # {} THEN Max(before)
           ELSE IF after # {} THEN Min(after) ELSE s.to].eol

\* Mutation: the last line of a resolution is never terminated.
TerminatedButLast(code, eol, atEof) ==
  [i \in DOMAIN code |->
    [code[i] EXCEPT !.eol = IF @ = "none" /\ i = Len(code) THEN "none" ELSE eol]]

\* Lines of a resolution get the file's terminator; a last line that has none
\* keeps it that way if it ends the file.
Terminated(code, eol, atEof) ==
  [i \in DOMAIN code |->
    [code[i] EXCEPT !.eol =
       IF @ = "none" /\ i = Len(code) /\ atEof THEN "none" ELSE eol]]

InPlace(lines, s) ==
  /\ s.to \in DOMAIN lines
  /\ lines[s.from].mark = "<"
  /\ lines[s.to].mark = ">"

ReplaceHunk(lines, s) ==
  SubSeq(lines, 1, s.from - 1)
    \o Terminated(s.code, EolStyle(lines, s), s.to = Len(lines))
    \o SubSeq(lines, s.to + 1, Len(lines))

\* A file with the accepted resolutions, which are sorted by position and put
\* in from the last to the first; None if a hunk is no longer in its place.
ResolvedLines(lines, accepted) ==
  LET from[k \in 1..(Len(accepted) + 1)] ==
        IF k > Len(accepted) THEN lines
        ELSE IF from[k + 1] = None \/ ~InPlace(from[k + 1], accepted[k]) THEN None
        ELSE ReplaceHunk(from[k + 1], accepted[k])
  IN from[1]
=============================================================================
