--------------------------- MODULE WorkerRegistry ---------------------------
(***************************************************************************)
(* The table of workers.  A worker registers once, then sends a heartbeat  *)
(* at every tick of its clock; reports about its tasks set it online.      *)
(* Workers that have not been heard of are found out when somebody asks    *)
(* for the list.  Time passes in ticks; the API handles a request between  *)
(* two of them, unless the network keeps it.                               *)
(***************************************************************************)
EXTENDS Naturals

CONSTANTS
  Workers,      \* worker ids
  Interval,     \* ticks between two heartbeats (heartbeat_interval, 10 s)
  Latency,      \* ticks a heartbeat may take
  Timeout,      \* ticks after which a silent worker is offline (30 s)
  Expiry,       \* ticks after which an offline worker is forgotten (24 h)
  Faults,       \* what may go wrong
  MaxSilence    \* bound: heartbeats lost in a row

AllFaults == {"register", "heartbeat", "report"}

ASSUME TimeAssumption ==
  /\ {Interval, Latency, Timeout, Expiry, MaxSilence} \subseteq Nat
  /\ Interval > 0 /\ Interval + Latency <= Timeout /\ Timeout <= Expiry
\* No outage of the network lasts for a day.
ASSUME SilenceAssumption == (MaxSilence + 1) * Interval + Latency <= Expiry
ASSUME FaultAssumption   == Faults \subseteq AllFaults

\* So many heartbeats in a row may be lost without harm.
Tolerated == ((Timeout - Latency) \div Interval) - 1

VARIABLES
  row,      \* workers rows: their status
  age,      \* ticks since last_heartbeat
  proc,     \* whether the worker's process is up, and at work on a task
  clock,    \* ticks since the last tick of its heartbeat clock
  lost,     \* heartbeats lost in a row
  fresh,    \* (history) whether its registration made the row, and no more
            \* heartbeats in a row than tolerated were lost since
  heard,    \* (history) ticks since the API last handled a request of it
  reports,  \* workers whose task report is on its way
  lister    \* local state of a request for the list

vars == <<row, age, proc, clock, lost, fresh, heard, reports, lister>>

Init ==
  /\ row = [w \in Workers |-> "none"]
  /\ age = [w \in Workers |-> 0] /\ heard = [w \in Workers |-> 0]
  /\ proc = [w \in Workers |-> "down"]
  /\ clock = [w \in Workers |-> 0] /\ lost = [w \in Workers |-> 0]
  /\ fresh = [w \in Workers |-> "no"]
  /\ reports = {}
  /\ lister = "idle"

Up(w) == proc[w] # "down"
Stale(w, limit) == age[w] > limit

\* Ages beyond the largest limit are all alike.
Older(a) == IF a > Expiry THEN a ELSE a + 1

-----------------------------------------------------------------------------
(* The workers.                                                            *)

\* registerWithAPI, tried once.  FirstOrCreate leaves a row that is there (of
\* a worker with a configured id, restarted) as it is.
Register(w) ==
  /\ proc[w] = "down"
  /\ proc' = [proc EXCEPT ![w] = "up"]
  /\ clock' = [clock EXCEPT ![w] = 0] /\ lost' = [lost EXCEPT ![w] = 0]
  /\ \/ /\ row[w] = "none"
        /\ row' = [row EXCEPT ![w] = "online"]
        /\ age' = [age EXCEPT ![w] = 0] /\ heard' = [heard EXCEPT ![w] = 0]
        /\ fresh' = [fresh EXCEPT ![w] = "online"]
     \/ /\ row[w] # "none"
        /\ heard' = [heard EXCEPT ![w] = 0]
        /\ UNCHANGED <<row, age, fresh>>
     \/ "register" \in Faults /\ UNCHANGED <<row, age, heard, fresh>>
  /\ UNCHANGED <<reports, lister>>

\* The process stops or dies.
Stop(w) ==
  /\ Up(w)
  /\ proc' = [proc EXCEPT ![w] = "down"] /\ fresh' = [fresh EXCEPT ![w] = "no"]
  /\ UNCHANGED <<row, age, clock, lost, heard, reports, lister>>

\* UpdateHeartbeat: last_heartbeat only, and only of a row that is there.
Heartbeat(w) ==
  /\ Up(w) /\ clock[w] >= Interval
  /\ clock' = [clock EXCEPT ![w] = @ - Interval] /\ lost' = [lost EXCEPT ![w] = 0]
  /\ age' = [age EXCEPT ![w] = 0] /\ heard' = [heard EXCEPT ![w] = 0]
  /\ UNCHANGED <<row, proc, fresh, reports, lister>>

\* An error is logged; the next one is sent an interval later.
LoseHeartbeat(w) ==
  /\ Up(w) /\ clock[w] >= Interval
  /\ "heartbeat" \in Faults /\ lost[w] < MaxSilence
  /\ clock' = [clock EXCEPT ![w] = @ - Interval] /\ lost' = [lost EXCEPT ![w] = @ + 1]
  /\ fresh' = [fresh EXCEPT ![w] = IF @ = "online" /\ lost[w] >= Tolerated THEN "known" ELSE @]
  /\ UNCHANGED <<row, age, proc, heard, reports, lister>>

TakeTask(w) ==
  /\ proc[w] = "up"
  /\ proc' = [proc EXCEPT ![w] = "busy"]
  /\ UNCHANGED <<row, age, clock, lost, fresh, heard, reports, lister>>

ReportTask(w) ==
  /\ proc[w] = "busy"
  /\ proc' = [proc EXCEPT ![w] = "up"]
  /\ \/ reports' = reports \cup {w}
     \/ "report" \in Faults /\ UNCHANGED reports
  /\ UNCHANGED <<row, age, clock, lost, fresh, heard, lister>>

-----------------------------------------------------------------------------
(* The API server.                                                         *)

\* Defect: the callbacks write a status that nothing else knows.
SetIdle(w) ==
  /\ w \in reports
  /\ reports' = reports \ {w}
  /\ row' = [row EXCEPT ![w] = IF @ = "none" THEN @ ELSE "idle"]
  /\ heard' = [heard EXCEPT ![w] = 0]
  /\ UNCHANGED <<age, proc, clock, lost, fresh, lister>>

\* The callbacks of a task, whenever they get through, end with SetOnline.
SetOnline(w) ==
  /\ w \in reports
  /\ reports' = reports \ {w}
  /\ row' = [row EXCEPT ![w] = IF @ = "none" THEN @ ELSE "online"]
  /\ heard' = [heard EXCEPT ![w] = 0]
  /\ UNCHANGED <<age, proc, clock, lost, fresh, lister>>

RequestList ==
  /\ lister = "idle" /\ lister' = "mark"
  /\ UNCHANGED <<row, age, proc, clock, lost, fresh, heard, reports>>

\* Defect: one cutoff serves for both statements.
MarkExpired ==
  /\ lister = "mark" /\ lister' = "delete"
  /\ row' = [w \in Workers |-> IF row[w] = "online" /\ Stale(w, Expiry) THEN "offline" ELSE row[w]]
  /\ UNCHANGED <<age, proc, clock, lost, fresh, heard, reports>>

\* Defect: the timeout is the heartbeat interval.
MarkAfterInterval ==
  /\ lister = "mark" /\ lister' = "delete"
  /\ row' = [w \in Workers |-> IF row[w] = "online" /\ Stale(w, Interval) THEN "offline" ELSE row[w]]
  /\ UNCHANGED <<age, proc, clock, lost, fresh, heard, reports>>

\* CleanupStale, its UPDATE ...
MarkStale ==
  /\ lister = "mark" /\ lister' = "delete"
  /\ row' = [w \in Workers |-> IF row[w] = "online" /\ Stale(w, Timeout) THEN "offline" ELSE row[w]]
  /\ UNCHANGED <<age, proc, clock, lost, fresh, heard, reports>>

\* Defect: every worker that is offline is forgotten.
DeleteOffline ==
  /\ lister = "delete" /\ lister' = "read"
  /\ row' = [w \in Workers |-> IF row[w] = "offline" THEN "none" ELSE row[w]]
  /\ UNCHANGED <<age, proc, clock, lost, fresh, heard, reports>>

\* ... and its DELETE.
DeleteExpired ==
  /\ lister = "delete" /\ lister' = "read"
  /\ row' = [w \in Workers |-> IF row[w] = "offline" /\ Stale(w, Expiry) THEN "none" ELSE row[w]]
  /\ UNCHANGED <<age, proc, clock, lost, fresh, heard, reports>>

ReadWorkers ==
  /\ lister = "read" /\ lister' = "idle"
  /\ UNCHANGED <<row, age, proc, clock, lost, fresh, heard, reports>>

-----------------------------------------------------------------------------
\* A heartbeat is sent and handled, or lost, before it is Latency late.
Tick ==
  /\ lister = "idle"
  /\ \A w \in Workers : Up(w) => clock[w] < Interval + Latency
  /\ clock' = [w \in Workers |-> IF Up(w) THEN clock[w] + 1 ELSE clock[w]]
  /\ age' = [w \in Workers |-> Older(age[w])]
  /\ heard' = [w \in Workers |-> Older(heard[w])]
  /\ UNCHANGED <<row, proc, lost, fresh, reports, lister>>

Next == \/ \E w \in Workers : \/ Register(w) \/ Stop(w) \/ TakeTask(w) \/ ReportTask(w)
                              \/ Heartbeat(w) \/ LoseHeartbeat(w) \/ SetOnline(w)
        \/ RequestList \/ MarkStale \/ DeleteExpired \/ ReadWorkers \/ Tick

Spec == Init /\ [][Next]_vars

-----------------------------------------------------------------------------
(* Properties.                                                             *)

TypeOK ==
  /\ row \in [Workers -> {"none", "online", "offline"}]
  /\ age \in [Workers -> 0 .. Expiry + 1] /\ heard \in [Workers -> 0 .. Expiry + 1]
  /\ proc \in [Workers -> {"down", "up", "busy"}]
  /\ clock \in [Workers -> 0 .. Interval + Latency]
  /\ lost \in [Workers -> 0 .. MaxSilence]
  /\ fresh \in [Workers -> {"no", "known", "online"}]
  /\ reports \in SUBSET Workers
  /\ lister \in {"idle", "mark", "delete", "read"}

\* A live worker whose heartbeats get through, but for the few that may be
\* lost, is online, however its heartbeats and the cleaning up interleave.
AliveIsOnline == \A w \in Workers : fresh[w] = "online" => row[w] = "online"

\* The row of a worker is kept for as long as its process lives, even if it
\* has been marked offline.
LiveIsKept == \A w \in Workers : fresh[w] # "no" => row[w] # "none"

\* A worker that the list shows as online has been heard of within Timeout.
ListedIsHeard ==
  lister = "read" => \A w \in Workers : row[w] = "online" => heard[w] <= Timeout

\* "CleanupStale marks workers as offline if no heartbeat for given duration":
\* a worker that is offline when the list is asked for, and will be shown so,
\* has sent none for that long.
OfflineIsSilent ==
  lister = "mark" => \A w \in Workers : row[w] = "offline" => age[w] > Timeout
=============================================================================
