------------------------------ MODULE MCDrmKeys ------------------------------
(* Small instances of DrmKeys.                                             *)
EXTENDS DrmKeys, TLC

CONSTANTS a, b, k1, k2, t1, t2, h1, h2

Symmetry == Permutations({k1, k2}) \cup Permutations({t1, t2}) \cup Permutations({h1, h2})
=============================================================================
