\* Two handlers, whatever they are doing, while the video is deleted.
SPECIFICATION Spec
CONSTANTS
  t1 = t1  t2 = t2  t3 = t3  t4 = t4  a = a  b = b  h1 = h1  h2 = h2
  Res = {a}
  NoRes = NoRes
  NoTask = NoTask
  Tasks = {t1, t2, t3}
  JobOf <- OneEach
  Handlers = {h1, h2}
  MaxWorkers = 1
  Operations = {"cancel", "retry", "delete_variant", "delete_variants", "upload", "toggle_drm", "delete_video", "edit", "protect"}
  QuietDeletes = FALSE
  TasksCascade = TRUE
  Faults = {"work", "master", "delete", "rebuild", "keys"}
  MaxFailures = 2
  MaxEdits = 2
PROPERTIES DeletedIsGone
CHECK_DEADLOCK FALSE
