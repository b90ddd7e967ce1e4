--------------------------- MODULE MCAnalysisRunner ---------------------------
(* Model checking AnalysisRunner: two files of which the first may import the *)
(* second; two analyzers understand the first and none the second.            *)
EXTENDS AnalysisRunner, TLC

CONSTANT Importing    \* the content that imports the second path
MCImports == [c \in Contents |-> IF c = Importing THEN {2} ELSE {}]
MCSelected == [p \in Paths |-> IF p = 1 THEN Analyzers ELSE {}]
MCInitialTrees == {[p \in Paths |-> IF p = 1 THEN Importing ELSE "plain"]}
MCSymmetry == Permutations(Workers)
===============================================================================
