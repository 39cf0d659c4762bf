------------------------- MODULE MCFindingsValidation -------------------------
(* Instance of FindingsValidation for TLC.                                     *)
EXTENDS FindingsValidation

CONSTANTS p1, p2, drv, s1

\* The commit removes one line.
MCHunks ==
  <<[old |-> drv, new |-> drv, oldStart |-> 5, newStart |-> 5,
     body |-> <<[first |-> "-", header |-> FALSE, path |-> None, has |-> {}]>>]>>
MCMessageTexts == {}

At(line, end, side) == [file |-> drv, line |-> line, end |-> end, side |-> side]
Bug == [problem |-> p1, location |-> At(5, 0, "LEFT"), fix |-> None, sensitive |-> FALSE,
        names |-> {}, quotes |-> {}]
Linkage == [Bug EXCEPT !.problem = p2, !.sensitive = TRUE]

\* An addition whose location the host must repair.
Shifted == [Linkage EXCEPT !.location = At(5, 4, None)]
Fix == UpstreamFixFinding(s1)

\* Payloads that fit together, alone once cut, or not at all.
MCPayloads ==
  {[findings |-> f, additions |-> a, full |-> z[1], least |-> z[2]] :
     f \in {<<>>, <<Bug>>, <<Bug, Fix>>}, a \in {<<>>, <<Linkage>>, <<Bug, Linkage>>},
     z \in {<<1, 1>>, <<3, 2>>, <<3, 3>>}}

MCValidatorLists == {<<>>, <<Shifted>>}

Adj(verdict, id, hedged) ==
  [verdict |-> verdict, id |-> id, facts |-> TRUE, hedged |-> hedged,
   conclusion |-> IF verdict = "KEEP" THEN "supported" ELSE "false_positive"]
Drop(id) == Adj("DROP", id, FALSE)

\* Also for no finding, hedged, in contradiction, and of an upstream fix.
MCAdjudicationLists ==
  {<<>>, <<Adj("DROP", None, FALSE)>>, <<Adj("DROP", 1, TRUE)>>,
   <<[Drop(1) EXCEPT !.conclusion = "supported"]>>, <<Drop(1)>>,
   <<Drop(1), Adj("KEEP", 2, TRUE)>>, <<Drop(1), Drop(2)>>}
===============================================================================
