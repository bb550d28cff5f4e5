--------------------------- MODULE MCTaskPipeline ---------------------------
(* Small instances of TaskPipeline.                                        *)
EXTENDS TaskPipeline, TLC

CONSTANTS t1, t2, w1, w2, r1, r2, v1

OneTranscode  == t1 :> "transcode"
TwoThumbnails == t1 :> "thumbnail" @@ t2 :> "thumbnail"
ThumbProbe    == t1 :> "thumbnail" @@ t2 :> "probe"
OneVideo      == t1 :> v1 @@ t2 :> v1
VideoOfOne    == t1 :> v1

Symmetry == Permutations({w1, w2}) \cup Permutations({r1, r2})
=============================================================================
