------------------------- MODULE MCIngestionPipeline -------------------------
(* Model checking IngestionPipeline: every job carries a snapshot of the   *)
(* same source, the case in which activations compete.  One of them meets   *)
(* faults and is resumed, or the other comes beside it.                    *)
EXTENDS IngestionPipeline

CONSTANT TheSource
MCSources  == {TheSource}
MCSourceOf == [id \in Jobs |-> TheSource]
=============================================================================
