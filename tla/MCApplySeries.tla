---------------------------- MODULE MCApplySeries -----------------------------
(* Instance of ApplySeries for TLC.                                           *)
EXTENDS ApplySeries

CONSTANTS b0, c1, c2, d1, d2, s1, s2, sd

MCSeries == <<c1, c2>>
MCSubject == [c \in {b0, c1, c2, d1, d2} |->
               CASE c = c1 -> s1 [] c = c2 -> s2 [] c = d1 -> sd [] OTHER -> s1]
MCRefs == [c \in {c1, c2, d1, d2} |-> IF c = c2 THEN <<c1, d1>> ELSE <<>>]

Words(ws, eol) == [i \in DOMAIN ws |-> Line(ws[i], eol)]
Context(ws, eol) == [hunk |-> FALSE, lines |-> Words(ws, eol)]
HunkOf(size, local, remote, eol) ==
  [hunk |-> TRUE, size |-> size, eol |-> eol,
   sides |-> <<Words(local, eol), Words(<<"b">>, eol), Words(remote, eol)>>]

\* A file that is one hunk, in CRLF; two hunks in one file, which ends with
\* the second; two files, of which one has nothing but a deletion to resolve.
MCTexts ==
  {<< <<HunkOf(7, <<"l">>, <<"r">>, "crlf")>> >>,
   << <<Context(<<"x">>, "lf"), HunkOf(7, <<"l">>, <<"r", "r">>, "lf"),
        Context(<<"y">>, "lf"), HunkOf(8, <<>>, <<Blank, "r">>, "lf")>> >>,
   << <<HunkOf(7, <<"l">>, <<"r">>, "lf"), Context(<<"y">>, "lf")>>,
      <<Context(<<"z">>, "lf")>> >>}

MCCodes == {<<>>, <<Line("r", "lf"), Line("k", "none")>>, <<Line("k", "lf"), Line(Blank, "lf")>>}

\* No issue: a declaration of several variables, comments, a structure that is
\* nowhere defined, a use outside of C.  An issue: the nearest declaration is
\* of another structure.  Taken for one: the second of two structures in a line,
\* and a comment of several lines.
Struct(name, fields) ==
  [path |-> "h", isC |-> TRUE, added |-> {1},
   lines |-> << <<"struct", name, "{">> \o fields \o <<"}", ";">> >>]

InFile(path, file) == [file EXCEPT !.path = path]
Code(lines, added) == [path |-> "c", isC |-> TRUE, lines |-> lines, added |-> added]
Use(field) == <<"v", "->", field, ";">>

MCTrees ==
  << <<Struct("S", <<"f", ";", "struct", "T", "{", "g", ";", "}", "t", ";">>),
     Code(<< <<"struct", "S", "*", "u", "=", "f", ",", "*", "v", ";">>, <<"u", ";">>,
             <<"v", "->", "t", "=", "u", "->", "f", ";", "/*", "v", "->", "none", "*/">>,
             <<"struct", "U", "*", "v", ";">>, Use("none")>>, {3, 5}),
     [Code(<< <<"struct", "S", "*", "v", ";">>, Use("none") >>, {2})
        EXCEPT !.path = "d", !.isC = FALSE]>>,
   <<Struct("S", <<"f", ";">>), InFile("t", Struct("T", <<"g", ";">>)),
     Code(<< <<"struct", "S", "*", "v", ";">>, Use("f"), <<"struct", "T", "*", "v", ";">>,
             Use("f") >>, {2, 4})>>,
   <<Struct("S", <<"f", ";">>), InFile("t", Struct("T", <<"g", ";">>)),
     Code(<< <<"struct", "S", "*", "u", ",", "struct", "T", "*", "v", ")", "{">>, Use("g"),
             <<"/*">>, Use("none"), <<"*/">> >>, {2, 4})>> >>
===============================================================================
