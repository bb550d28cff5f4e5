\* One handler, two workers, every client operation; S3 and the work fail.
SPECIFICATION Spec
CONSTANTS
  t1 = t1  t2 = t2  t3 = t3  t4 = t4  a = a  b = b  h1 = h1  h2 = h2
  Res = {a, b}
  NoRes = NoRes
  NoTask = NoTask
  Tasks = {t1, t2, t3, t4}
  JobOf <- AndProbe
  Handlers = {h1}
  MaxWorkers = 2
  Operations = {"cancel", "delete_variant", "delete_variants", "upload", "toggle_drm", "delete_video", "edit", "protect"}
  QuietDeletes = TRUE
  TasksCascade = TRUE
  Faults = {"work", "master", "delete"}
  MaxFailures = 2
  MaxEdits = 3
INVARIANTS ReadyIsPlayable MasterIsComplete
CHECK_DEADLOCK FALSE
