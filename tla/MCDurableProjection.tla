-------------------------- MODULE MCDurableProjection --------------------------
\* Two revisions of one key and another key of the same name.
EXTENDS DurableProjection, TLC

CONSTANTS a1, a2, b1, A, B

MCIdOf == (a1 :> A) @@ (a2 :> A) @@ (b1 :> B)

PaneSymmetry == Permutations(Pane)
=============================================================================
