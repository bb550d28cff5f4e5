--------------------------- MODULE MCMediaResults ---------------------------
(* Small instances of MediaResults.                                        *)
EXTENDS MediaResults, TLC

CONSTANTS p1, p2, t1, h1, h2

Symmetry == Permutations({h1, h2}) \cup Permutations({p1, p2})
=============================================================================
