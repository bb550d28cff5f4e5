--------------------------- MODULE MCCategoryTree ---------------------------
(* Small instances of CategoryTree.                                        *)
EXTENDS CategoryTree, TLC

CONSTANTS h1, h2

Symmetry == Permutations({h1, h2})
=============================================================================
