----------------------------- MODULE MCStartup -----------------------------
(***************************************************************************)
(* Startup for TLC.  p1 and p2 belong to one deployment, p3 to a later one *)
(* with another embedding model; p4's EMBEDDING_DIM was not adapted to its *)
(* model.  Sizes 1 and 2 stand for, say, 384 and 768.                      *)
(***************************************************************************)
EXTENDS Startup, TLC

CONSTANTS p1, p2, p3, p4

MCEmbeddingDim == [p \in Process |-> IF p = p3 THEN 2 ELSE 1]

MCOutputDim == [p \in Process |-> IF p \in {p3, p4} THEN 2 ELSE 1]
=============================================================================
