\* One task, two faults, a SIGTERM and two retries.
SPECIFICATION Spec
CONSTANTS
  t1 = t1  t2 = t2  w1 = w1  w2 = w2  r1 = r1  r2 = r2  v1 = v1
  Tasks = {t1}
  Videos = {v1}
  Workers = {w1, w2}
  Requests = {r1, r2}
  NoTask = NoTask
  TypeOf <- OneTranscode
  VideoOf <- VideoOfOne
  MaxMsgs = 3
  MaxRetries = 2
  MaxFaults = 2
  MaxStops = 1
  SerialRetries = TRUE
SYMMETRY Symmetry
INVARIANTS TypeOK HeldByOne OneAttempt Settled
PROPERTIES RefinesLifecycle
