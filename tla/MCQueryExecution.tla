--------------------------- MODULE MCQueryExecution ---------------------------
(* Model checking QueryExecution: a snapshot with four units, of which the     *)
(* second may only go redacted and shares its artifact with the first and its  *)
(* text with the fourth, and the third must stay; and a later snapshot with    *)
(* one unit, which the policy redacts. An exact term has the first unit, with  *)
(* no score, the second and the fourth, whose scores the exact signal turns    *)
(* round, and the fifth, whose score is a fraction; relations lead from the    *)
(* first to the fourth, twice, and to the third.                               *)
EXTENDS QueryExecution

MCSnapshotOf == [e \in Evidence |-> IF e = 5 THEN "s2" ELSE "s1"]
MCDecision == [e \in Evidence |-> CASE e = 2 -> "redact" [] e = 3 -> "deny" [] OTHER -> "allow"]
MCPolicyDecision == [e \in Evidence |-> IF e = 5 THEN "redact" ELSE "allow"]
MCTextOf == [e \in Evidence |-> IF e = 4 THEN 2 ELSE e]
MCArtifactOf == [e \in Evidence |-> IF e = 2 THEN 1 ELSE e]
MCTextScore == [e \in Evidence |-> CASE e = 1 -> 0 [] e = 2 -> 16 [] e = 3 -> 8 [] e = 4 -> 24 [] e = 5 -> 4]
MCExactTerms == {1, 2, 4, 5}
MCParticipants == [e \in Evidence |-> CASE e = 1 -> {11, 12} [] e = 5 -> {13} [] OTHER -> {}]
MCRelations == <<[from |-> 11, to |-> 12, supports |-> {4}], [from |-> 14, to |-> 11, supports |-> {3}]>>
MCWeight == [s \in Signals |-> 1]
===============================================================================
