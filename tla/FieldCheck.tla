------------------------------ MODULE FieldCheck -------------------------------
(***************************************************************************)
(* post_apply_static_check of src/apply.rs: which structure fields do the  *)
(* lines that HEAD has added refer to, and does their structure have them? *)
(*                                                                         *)
(* A source line is a sequence of tokens, of which those that are not in   *)
(* Punctuation are identifiers.  A tree is a sequence of files, each with  *)
(* its lines and the numbers of those that HEAD has added; the diff that   *)
(* git shows of it is external.                                            *)
(***************************************************************************)
EXTENDS ConflictText

CONSTANT
  Lookback      \* how many lines a declaration is looked for: 800

Punctuation == {"->", "*", ",", ";", "=", "(", ")", "{", "}", "//", "/*", "*/",
                "quote", "newline"}
Ident(token) == token \notin Punctuation

-----------------------------------------------------------------------------
(* The added lines.                                                        *)

\* git show --unified=0: a hunk for each run of added lines, behind a line
\* that each run has removed.
FileDiff(file) ==
  <<[kind |-> "diff"], [kind |-> "path", path |-> file.path]>>
    \o FlattenSeq([n \in DOMAIN file.lines |->
         (IF n \in file.added /\ n - 1 \notin file.added
            THEN <<[kind |-> "@@", start |-> n], [kind |-> "-"]>> ELSE <<>>)
         \o (IF n \in file.added
               THEN <<[kind |-> "+", tokens |-> file.lines[n]]>> ELSE <<>>)])

HeadDiff(tree) == FlattenSeq([k \in DOMAIN tree |-> FileDiff(tree[k])])

\* parse_added_lines_from_diff: removed lines do not advance the number.
AddedLines(diff) ==
  LET latest(n, kind) == Max({m \in 1..(n - 1) : diff[m].kind = kind})
      number(n) == diff[latest(n, "@@")].start
                     + Cardinality({m \in latest(n, "@@")..(n - 1) : diff[m].kind = "+"})
  IN {[path |-> diff[latest(n, "path")].path, line |-> number(n),
       tokens |-> diff[n].tokens] : n \in {m \in DOMAIN diff : diff[m].kind = "+"}}

-----------------------------------------------------------------------------
(* Accesses and declarations, line by line.                                *)

\* strip_c_comments_and_strings
CodeOf(tokens) ==
  LET mode[n \in 1..(Len(tokens) + 1)] ==
        IF n = 1 THEN "code"
        ELSE LET token == tokens[n - 1]
             IN [before \in {"code", "//", "/*", "quote"} |->
                   CASE before = "code" /\ token \in {"//", "/*", "quote"} -> token
                     [] before = "//" /\ token = "newline" -> "code"
                     [] before = "/*" /\ token = "*/" -> "code"
                     [] before = "quote" /\ token = "quote" -> "code"
                     [] OTHER -> before][mode[n - 1]]
      isCode == [n \in DOMAIN tokens |->
                   mode[n] = "code" /\ tokens[n] \notin {"//", "/*", "quote", "newline"}]
      marked == [n \in DOMAIN tokens |-> <<tokens[n], isCode[n]>>]
      code == SelectSeq(marked, LAMBDA p : p[2])
  IN [n \in DOMAIN code |-> code[n][1]]

\* extract_field_accesses
FieldAccesses(tokens) ==
  LET code == CodeOf(tokens)
  IN {[base |-> code[n - 1], field |-> code[n + 1]] :
        n \in {m \in 2..(Len(code) - 1) :
                 code[m] = "->" /\ Ident(code[m - 1]) /\ Ident(code[m + 1])}}

\* declarator_list_mentions_var, last_identifier: the name is the last one of
\* a declarator, before its initializer, and before the statement ends.
MentionsVar(rest, var) ==
  LET end == Min({n \in DOMAIN rest : rest[n] \in {";", "{"}} \union {Len(rest) + 1})
      from(n) == Max({m \in 1..(n - 1) : rest[m] = ","} \union {0}) + 1
      to(n) == Min({m \in n..(end - 1) : rest[m] \in {",", "="}} \union {end}) - 1
  IN \E n \in 1..(end - 1) :
       /\ rest[n] = var
       /\ \A m \in (n + 1)..to(n) : ~Ident(rest[m])
       /\ \A m \in from(n)..n : rest[m] # "="

\* parse_struct_decl_for_var: the structures of the line that declare the
\* variable, by position.
StructsFor(code, var) ==
  {n \in 1..(Len(code) - 2) :
     /\ code[n] = "struct" /\ Ident(code[n + 1])
     /\ code[n + 2] # "{"
     /\ MentionsVar(SubSeq(code, n + 2, Len(code)), var)}

\* find_struct_type_for_var: the first one of the nearest line that has one.
StructOfVar(lines, number, var) ==
  LET declares == {n \in Max({1, number - Lookback + 1})..number :
                     StructsFor(CodeOf(lines[n]), var) # {}}
  IN IF declares = {} THEN None
     ELSE LET code == CodeOf(lines[Max(declares)])
          IN code[Min(StructsFor(code, var)) + 1]

-----------------------------------------------------------------------------
(* Definitions, and the check.                                             *)

Content(file) ==
  FlattenSeq([n \in DOMAIN file.lines |-> Append(file.lines[n], "newline")])

\* matching_brace_end
Depth(code, m, n) ==
  Cardinality({k \in m..n : code[k] = "{"}) - Cardinality({k \in m..n : code[k] = "}"})

\* extract_struct_bodies
StructBodies(code, struct) ==
  {SubSeq(code, p[1] + 1, p[2] - 1) :
     p \in {q \in (3..Len(code)) \X (3..Len(code)) :
              /\ q[1] < q[2]
              /\ code[q[1] - 2] = "struct" /\ code[q[1] - 1] = struct /\ code[q[1]] = "{"
              /\ Depth(code, q[1], q[2]) = 0
              /\ \A k \in q[1]..(q[2] - 1) : Depth(code, q[1], k) > 0}}

\* struct_definition_files, struct_field_presence: a structure without a
\* definition in the tree is not known to lack the field.
Missing(tree, struct, field) ==
  LET codes == {CodeOf(Content(tree[k])) : k \in DOMAIN tree}
      bodies == UNION {StructBodies(code, struct) : code \in codes}
  IN bodies # {} /\ \A body \in bodies : field \notin ToSet(body)

\* post_apply_static_check
Issues(tree) ==
  LET lines == [path \in {tree[k].path : k \in DOMAIN tree} |->
                  (CHOOSE file \in ToSet(tree) : file.path = path)]
      structOf(a, access) == StructOfVar(lines[a.path].lines, a.line, access.base)
  IN UNION {{[path |-> a.path, line |-> a.line, access |-> access] :
               access \in {x \in FieldAccesses(a.tokens) :
                             /\ structOf(a, x) # None
                             /\ Missing(tree, structOf(a, x), x.field)}} :
              a \in {b \in AddedLines(HeadDiff(tree)) : lines[b.path].isC}}

-----------------------------------------------------------------------------
(* What the check is to find.                                              *)

\* Trees that it is made for: comments and strings end on their line, and a
\* line declares variables of one structure at most.
Plain(tree) ==
  LET count(line, token) == Cardinality({n \in DOMAIN line : line[n] = token})
  IN \A k \in DOMAIN tree : \A n \in DOMAIN tree[k].lines :
       LET line == tree[k].lines[n]
       IN /\ count(line, "/*") = count(line, "*/")
          /\ count(line, "quote") \in {0, 2}
          /\ count(CodeOf(line), "struct") <= 1

\* The declarators of a C declaration: a name after the type, a comma or a star.
Declares(code, var) ==
  \E p, n \in DOMAIN code :
    /\ code[p] = "struct" /\ p + 2 <= n
    /\ code[n] = var
    /\ n = p + 2 \/ code[n - 1] \in {"*", ","}
    /\ n < Len(code) => code[n + 1] \in {",", ";", "=", ")"}

\* The added lines of C files that use a field which the structure of the
\* variable, as its nearest declaration has it, lacks.
RealIssues(tree) ==
  {at \in (DOMAIN tree) \X (1..Max({Len(tree[i].lines) : i \in DOMAIN tree})) :
     LET k == at[1]
         n == at[2]
         code(m) == CodeOf(tree[k].lines[m])
     IN /\ tree[k].isC /\ n \in tree[k].added
        /\ \E i \in 2..(Len(code(n)) - 1), m \in 1..n :
             /\ code(n)[i] = "->"
             /\ Declares(code(m), code(n)[i - 1])
             /\ \A later \in (m + 1)..n : ~Declares(code(later), code(n)[i - 1])
             /\ \E p \in DOMAIN code(m) :
                  code(m)[p] = "struct" /\ Missing(tree, code(m)[p + 1], code(n)[i + 1])}
=============================================================================
