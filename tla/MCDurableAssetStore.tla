------------------------- MODULE MCDurableAssetStore -------------------------
(* Instances of DurableAssetStore for TLC. *)
EXTENDS DurableAssetStore, TLC

CONSTANTS config, legacy, short, long

\* A one-chunk and a two-chunk text.
MCChunkCount == [v \in Value |-> IF v = long THEN 2 ELSE 1]

GenerationSymmetry == Permutations(Generation)
=============================================================================
