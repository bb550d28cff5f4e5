\* A worker that restarts; registrations, heartbeats and reports are lost.
SPECIFICATION Spec
CONSTANTS
  w1 = w1
  Workers = {w1}
  Interval = 2
  Latency = 1
  Timeout = 6
  Expiry = 11
  Faults = {"register", "heartbeat", "report"}
  MaxSilence = 4
INVARIANTS TypeOK AliveIsOnline LiveIsKept ListedIsHeard
