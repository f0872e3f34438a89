-------------------------- MODULE MCEmbeddingIndex --------------------------
(***************************************************************************)
(* A small instance of EmbeddingIndex with a semantic search beside it.    *)
(***************************************************************************)
EXTENDS InventoryRetrieval, TLC

CONSTANTS w1, w2, g1, g2, t1, t2

MCSymmetry == Permutations({w1, w2}) \cup Permutations({g1, g2}) \cup Permutations({t1, t2})

=============================================================================
