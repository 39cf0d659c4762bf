------------------------------- MODULE Concerns --------------------------------
(***************************************************************************)
(* What a discovery stage says: how the concerns and the challenges to the *)
(* fast findings are read from the text of a model (src/api.rs), and how   *)
(* like concerns are put together for consolidation (src/cluster.rs).      *)
(*                                                                         *)
(* A text is a sequence of blocks: JSON or prose, in a Markdown fence or   *)
(* not.  A block of prose may mention a key in quotes.  The "concerns" and *)
(* the "findings" of an object are None, or a list of concerns, or a       *)
(* single one that is not in a list.  A concern is a finding with a        *)
(* category and a proof: "none", "generic" or "concrete".                  *)
(***************************************************************************)
EXTENDS Findings

CONSTANT
  Similar   \* pairs of problems: the same ten words, or six of ten trigrams

\* What has no description is like nothing.
ASSUME SimilarAssumption == \A pair \in Similar : \A k \in 1..2 : pair[k] # None

\* The keys of an object, in the order in which it has them.
Keys == <<"concerns", "findings", "challenges">>

HasKey(block, key) == block.kind = "object" /\ block[key] # None

\* The lists of concerns that are in a block.
ConcernLists(block) ==
  (IF block.kind = "list" THEN {block.list} ELSE {})
    \union {block[key].list : key \in {k \in {"concerns", "findings"} : HasKey(block, k)}}

Names(block, key) == HasKey(block, key) \/ (block.kind = "prose" /\ key \in block.mentions)

\* extract_object_with_top_level_key: the last brace before the key opens the
\* object unless it opens a concern in the list of an earlier key.
Encloses(block, key) ==
  /\ HasKey(block, key)
  /\ \A k \in 1..Len(Keys) :
       Keys[k] = key =>
         \A j \in 1..(k - 1) : block[Keys[j]] # None => block[Keys[j]].list = <<>>

\* parse_model_json_with_key: the whole text, or the first fenced object with
\* the key, or else the object around the last mention of the key.
ObjectWith(text, key) ==
  LET fenced == {n \in DOMAIN text : text[n].fenced /\ HasKey(text[n], key)}
      mentions == {n \in DOMAIN text : Names(text[n], key)}
  IN IF Len(text) = 1 /\ HasKey(text[1], key) THEN text[1]
     ELSE IF fenced # {} THEN text[Min(fenced)]
     ELSE IF mentions # {} /\ Encloses(text[Max(mentions)], key) THEN text[Max(mentions)]
     ELSE None

\* parse_concerns_json_flexible and parse_concerns_strict: a text that is a
\* list or has a single concern is understood, but challenges only if they are
\* next to a list of "concerns".
Said(text) ==
  LET whole == text[1]
      in(key) == ObjectWith(text, key)
      single == {key \in {"concerns", "findings"} :
                   Len(text) = 1 /\ HasKey(whole, key) /\ whole[key].single}
      said(list, challenges) == [concerns |-> list, challenges |-> challenges]
  IN CASE Len(text) = 1 /\ whole.kind = "list" -> said(whole.list, <<>>)
       [] "concerns" \in single -> said(whole.concerns.list, <<>>)
       [] single = {"findings"} -> said(whole.findings.list, <<>>)
       [] single = {} /\ in("concerns") # None /\ ~in("concerns").concerns.single ->
            said(in("concerns").concerns.list,
                 IF HasKey(in("concerns"), "challenges")
                   THEN in("concerns").challenges.list ELSE <<>>)
       [] single = {} /\ in("concerns") = None /\ in("findings") # None
            /\ ~in("findings").findings.single -> said(in("findings").findings.list, <<>>)
       [] OTHER -> None

\* parse_specialist_concerns_strict: one bad challenge spoils the text.
Exact(challenge) ==
  /\ challenge.facts /\ ~challenge.hedged
  /\ challenge.conclusion = "false_positive"

StrictlySaid(text) ==
  LET said == Said(text)
  IN IF said # None /\ \E k \in DOMAIN said.challenges : ~Exact(said.challenges[k])
       THEN None ELSE said

\* parse_stage7_concerns_strict: a claim about linkage needs a concrete proof,
\* one about hardware must not have any, and there is no other.
Proven(concern) ==
  \/ concern.category = "linkage" /\ concern.proof = "concrete"
  \/ concern.category = "hardware" /\ concern.proof = "none"

LinkageSaid(text) ==
  LET said == StrictlySaid(text)
  IN IF said # None /\ \E k \in DOMAIN said.concerns : ~Proven(said.concerns[k])
       THEN None ELSE said

-----------------------------------------------------------------------------
(* cluster_concerns                                                        *)

Alike(a, b) == a.problem = b.problem \/ <<a.problem, b.problem>> \in Similar

\* has_complete_linkage_proof
HasProof(concern) == concern.proof # "none"

\* Mutation: the first concern of each kind is kept.
FirstOfKind(concerns) ==
  LET add(kept, c) ==
        IF \E n \in DOMAIN kept : c.problem # None /\ Alike(kept[n], c) THEN kept
        ELSE Append(kept, c)
  IN FoldLeft(add, <<>>, concerns)

\* Each concern joins the first cluster whose founder it is like; one with a
\* proof takes the place of one without.  What has no description stays.
Clusters(concerns) ==
  LET add(kept, c) ==
        LET like == {n \in DOMAIN kept : c.problem # None /\ Alike(kept[n].founder, c)}
        IN IF like = {} THEN Append(kept, [founder |-> c, concern |-> c])
           ELSE IF HasProof(c) /\ ~HasProof(kept[Min(like)].concern)
             THEN [kept EXCEPT ![Min(like)].concern = c]
           ELSE kept
      all == FoldLeft(add, <<>>, concerns)
  IN [n \in DOMAIN all |-> all[n].concern]
=============================================================================
