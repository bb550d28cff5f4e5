\* An outage of the network, after which heartbeats arrive again.
SPECIFICATION Spec
CONSTANTS
  w1 = w1
  Workers = {w1}
  Interval = 2
  Latency = 1
  Timeout = 6
  Expiry = 11
  Faults = {"heartbeat"}
  MaxSilence = 4
INVARIANTS OfflineIsSilent
