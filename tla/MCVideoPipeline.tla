-------------------------- MODULE MCVideoPipeline --------------------------
(* Small instances of VideoPipeline.                                       *)
EXTENDS VideoPipeline, TLC

CONSTANTS t1, t2, t3, t4, a, b, h1, h2

Again    == t1 :> a @@ t2 :> b @@ t3 :> a
OneEach  == t1 :> a @@ t2 :> "probe" @@ t3 :> "thumbnail"
AndProbe == t1 :> a @@ t2 :> b @@ t3 :> a @@ t4 :> "probe"
=============================================================================
