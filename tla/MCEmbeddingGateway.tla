-------------------------- MODULE MCEmbeddingGateway --------------------------
(* Model checking EmbeddingGateway: one call with several batches beside a *)
(* call with one, which is also the shape of a generation call.            *)
EXTENDS EmbeddingGateway, TLC

CONSTANTS c1, c2, Many
MCBatches == [c \in Calls |-> IF c = c1 THEN Many ELSE 1]
=============================================================================
