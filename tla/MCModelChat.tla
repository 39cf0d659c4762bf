---------------------------- MODULE MCModelChat ----------------------------
(* Instance of ModelChat for TLC.                                           *)
EXTENDS ModelChat

CONSTANTS c1, c2

\* A discovery stage, whose model ignores tool_choice; the validation of
\* findings; a call of boro apply; one of several small calls at a time.
Stage == [tools |-> TRUE, verified |-> TRUE, deadline |-> TRUE, structured |-> FALSE,
          caching |-> TRUE, obedient |-> FALSE, budget |-> 9]
Validation == [Stage EXCEPT !.structured = TRUE, !.obedient = TRUE]
Apply == [Stage EXCEPT !.verified = FALSE, !.deadline = FALSE, !.obedient = TRUE,
                       !.budget = Unlimited]
Small == [Apply EXCEPT !.tools = FALSE]

MCChats == {c1, c2}
MCCalls == {c1 :> Stage, c1 :> Validation, c1 :> Apply, c1 :> Small @@ c2 :> Small}
=============================================================================
