\* Two tasks on one stream, a SIGTERM but no fault, fair workers and requests.
SPECIFICATION FairSpec
CONSTANTS
  t1 = t1  t2 = t2  w1 = w1  w2 = w2  r1 = r1  r2 = r2  v1 = v1
  Tasks = {t1, t2}
  Videos = {v1}
  Workers = {w1, w2}
  Requests = {r1}
  NoTask = NoTask
  TypeOf <- TwoThumbnails
  VideoOf <- OneVideo
  MaxMsgs = 4
  MaxRetries = 1
  MaxFaults = 0
  MaxStops = 1
  SerialRetries = TRUE
INVARIANTS QueuedIsCarried CompletedAt100
PROPERTIES ProgressGrows QueuedIsDecided
