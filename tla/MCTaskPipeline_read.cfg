\* ReadTask with two streams that have messages.
SPECIFICATION Spec
CONSTANTS
  t1 = t1  t2 = t2  w1 = w1  w2 = w2  r1 = r1  r2 = r2  v1 = v1
  Tasks = {t1, t2}
  Videos = {v1}
  Workers = {w1, w2}
  Requests = {r1, r2}
  NoTask = NoTask
  TypeOf <- ThumbProbe
  VideoOf <- OneVideo
  MaxMsgs = 4
  MaxRetries = 1
  MaxFaults = 0
  MaxStops = 0
  SerialRetries = TRUE
SYMMETRY Symmetry
INVARIANTS DeliveredIsProcessed
