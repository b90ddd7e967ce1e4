--------------------------- MODULE MCContextPackages ---------------------------
(* Three pieces of evidence; two facts stored, a third derived from both that  *)
(* relates what neither does; a question that matches all of the evidence,     *)
(* more than a retrieval keeps, and one that does not; a retrieval that loses  *)
(* a search, and with it evidence or the order of what it finds, and one whose *)
(* searches stop at their limit and say nothing.                               *)
EXTENDS ContextPackages

MCRests == 4 :> {1} @@ 5 :> {2} @@ 6 :> {1, 2}
MCSubject == 4 :> 7 @@ 5 :> 8 @@ 6 :> 7
MCObject == 4 :> 8 @@ 5 :> 8 @@ 6 :> 9
MCInputs == 4 :> {} @@ 5 :> {} @@ 6 :> {4, 5}
MCScore ==
    "all" :> ("full" :> <<3, 5, 2>> @@ "degraded" :> <<3, 0, 2>> @@ "limited" :> <<0, 5, 0>>)
    @@ "some" :> ("full" :> <<2, 0, 4>> @@ "degraded" :> <<5, 0, 4>> @@ "limited" :> <<0, 0, 4>>)
MCReasons == "full" :> {} @@ "degraded" :> {"vector_unavailable"} @@ "limited" :> {}
MCAspects == [i \in 1 .. 9 |-> IF i \in {1, 4, 7} THEN {"a"} ELSE {"b"}]
MCArtifactOf == <<1, 2, 2>>
MCRetains == "open" :> <<TRUE, TRUE, TRUE>> @@ "strict" :> <<TRUE, FALSE, TRUE>> @@ "closed" :> <<TRUE, TRUE, TRUE>>
MCStructured == "open" :> TRUE @@ "strict" :> TRUE @@ "closed" :> FALSE
MCResources == {"tokens", "bytes"}
MCCost == [i \in 1 .. 9 |-> [r \in MCResources |-> CASE i = 3 -> 5 [] i < 3 -> 3 [] OTHER -> IF r = "tokens" THEN 1 ELSE 2]]
MCRelationCost == [r \in MCResources |-> 2]
Limit(items, budget) == [items |-> items, budget |-> [r \in MCResources |-> budget]]
MCLimits == {Limit(1, 24), Limit(8, 24), Limit(9, 20)}
================================================================================
