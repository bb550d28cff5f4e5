----------------------------- MODULE MCSessions -----------------------------
(* Small instances of Sessions.                                            *)
EXTENDS Sessions, TLC

CONSTANTS b1, b2, c1, c2

OneEach == (c1 :> b1) @@ (c2 :> b2)
=============================================================================
