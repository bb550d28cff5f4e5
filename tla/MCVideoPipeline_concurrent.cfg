\* Two handlers and two fair workers at once; a resolution is transcoded again.
SPECIFICATION FairSpec
CONSTANTS
  t1 = t1  t2 = t2  t3 = t3  t4 = t4  a = a  b = b  h1 = h1  h2 = h2
  Res = {a, b}
  NoRes = NoRes
  NoTask = NoTask
  Tasks = {t1, t2, t3}
  JobOf <- Again
  Handlers = {h1, h2}
  MaxWorkers = 2
  Operations = {"protect"}
  QuietDeletes = TRUE
  TasksCascade = TRUE
  Faults = {}
  MaxFailures = 0
  MaxEdits = 2
INVARIANTS TypeOK ReadyIsPlayable CompletedIsReady
PROPERTIES ProcessingEnds
CHECK_DEADLOCK FALSE
