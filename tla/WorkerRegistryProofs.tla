------------------------ MODULE WorkerRegistryProofs ------------------------
(***************************************************************************)
(* Proofs about WorkerRegistry, for any workers and any times that meet    *)
(* its assumptions.                                                        *)
(***************************************************************************)
EXTENDS WorkerRegistry, TLAPS

\* A heartbeat clock accounts for a row's age: it grows with the heartbeats
\* lost and the ticks since the last one was due, and no faster.
Accounted(w) ==
  /\ Up(w) /\ row[w] # "none"
  /\ age[w] <= lost[w] * Interval + clock[w]
  /\ fresh[w] = "online" => row[w] = "online" /\ lost[w] <= Tolerated

LiveInv == \A w \in Workers : fresh[w] # "no" => Accounted(w)

\* A request is at least as recent as the heartbeat in the row; once the
\* stale rows are marked, the others are of workers heard of in time.
HeardInv ==
  \A w \in Workers :
    /\ heard[w] <= age[w]
    /\ lister \in {"delete", "read"} /\ row[w] = "online" => heard[w] <= Timeout

RegistryInv == TypeOK /\ LiveInv /\ HeardInv

-----------------------------------------------------------------------------
(* Arithmetic.                                                             *)

\* A product grows with its first factor.
LEMMA Product ==
  ASSUME NEW m \in Nat, NEW n \in Nat, NEW k \in Nat, m <= n
  PROVE  m * k \in Nat /\ m * k <= n * k
<1>1. PICK d \in Nat : n = m + d
  <2>1. n - m \in Nat /\ n = m + (n - m)
    OBVIOUS
  <2> QED
    BY <2>1
<1>2. n * k = m * k + d * k /\ d * k >= 0 /\ m * k >= 0
  BY <1>1
<1> QED
  BY <1>2

\* One more heartbeat lost is one more interval.
LEMMA Successor ==
  ASSUME NEW n \in Nat, NEW k \in Nat
  PROVE  (n + 1) * k = n * k + k
  OBVIOUS

\* As many whole intervals fit into a time as the quotient says.
LEMMA Division ==
  ASSUME NEW n \in Nat, NEW k \in Nat, k > 0, k <= n
  PROVE  n \div k \in Nat /\ n \div k >= 1 /\ (n \div k) * k <= n
  OBVIOUS

\* The heartbeats that may be lost take no longer than the timeout.
LEMMA ToleratedFits ==
  Tolerated \in Nat /\ Tolerated * Interval + Interval + Latency <= Timeout
<1> DEFINE n == Timeout - Latency
<1>1. n \in Nat /\ Interval \in Nat /\ Interval > 0 /\ Interval <= n
  BY TimeAssumption
<1>2. n \div Interval \in Nat /\ n \div Interval >= 1 /\ (n \div Interval) * Interval <= n
  BY <1>1, Division
<1>3. Tolerated = n \div Interval - 1 /\ Tolerated \in Nat /\ n \div Interval = Tolerated + 1
  BY <1>2 DEF Tolerated
<1>4. (Tolerated + 1) * Interval = Tolerated * Interval + Interval
  BY <1>1, <1>3, Successor
<1> QED
  BY <1>1, <1>2, <1>3, <1>4, TimeAssumption

\* A live worker's row is never old enough to be deleted, and not old enough
\* to be marked while no more heartbeats were lost than are tolerated.
LEMMA LiveIsRecent ==
  ASSUME TypeOK, LiveInv, NEW w \in Workers, fresh[w] # "no"
  PROVE  /\ ~Stale(w, Expiry)
         /\ fresh[w] = "online" => ~Stale(w, Timeout)
<1>1. /\ lost[w] \in Nat /\ lost[w] <= MaxSilence /\ MaxSilence \in Nat
      /\ clock[w] \in Nat /\ clock[w] <= Interval + Latency
      /\ age[w] \in Nat /\ age[w] <= lost[w] * Interval + clock[w]
      /\ Interval \in Nat /\ Latency \in Nat /\ Timeout \in Nat /\ Expiry \in Nat
  BY TimeAssumption DEF TypeOK, LiveInv, Accounted
<1>2. ~Stale(w, Expiry)
  <2>1. lost[w] * Interval \in Nat /\ lost[w] * Interval <= MaxSilence * Interval
    BY <1>1, Product
  <2>2. (MaxSilence + 1) * Interval = MaxSilence * Interval + Interval
    BY <1>1, Successor
  <2>3. MaxSilence * Interval \in Nat
    BY <1>1, Product
  <2> QED
    BY <1>1, <2>1, <2>2, <2>3, SilenceAssumption DEF Stale
<1>3. ASSUME fresh[w] = "online" PROVE ~Stale(w, Timeout)
  <2>1. Tolerated \in Nat /\ lost[w] <= Tolerated
    BY <1>3, ToleratedFits DEF LiveInv, Accounted
  <2>2. lost[w] * Interval \in Nat /\ lost[w] * Interval <= Tolerated * Interval
    BY <1>1, <2>1, Product
  <2>3. Tolerated * Interval \in Nat
    BY <1>1, <2>1, Product
  <2> QED
    BY <1>1, <2>2, <2>3, ToleratedFits DEF Stale
<1> QED
  BY <1>2, <1>3

-----------------------------------------------------------------------------
(* The initial states and the steps.                                       *)

\* No worker is registered yet.
LEMMA InitRegistry == Init => RegistryInv
<1> SUFFICES ASSUME Init PROVE RegistryInv
  OBVIOUS
<1>1. TypeOK
  BY TimeAssumption DEF Init, TypeOK
<1>2. LiveInv /\ HeardInv
  BY DEF Init, LiveInv, HeardInv
<1> QED
  BY <1>1, <1>2 DEF RegistryInv

\* What the worker does.
LEMMA WorkerSteps ==
  ASSUME RegistryInv, NEW w \in Workers,
         Register(w) \/ Stop(w) \/ TakeTask(w) \/ ReportTask(w) \/ Heartbeat(w) \/ LoseHeartbeat(w)
  PROVE  RegistryInv'
<1> USE TimeAssumption DEF RegistryInv
<1>1. CASE Register(w)
  <2>1. TypeOK'
    BY <1>1 DEF Register, TypeOK
  <2>2. LiveInv'
    <3>1. ASSUME NEW v \in Workers, fresh'[v] # "no", v # w PROVE Accounted(v)'
      BY <1>1, <3>1 DEF Register, TypeOK, LiveInv, Accounted, Up
    <3>2. fresh[w] = "no"
      BY <1>1 DEF Register, LiveInv, Accounted, Up
    <3>3. ASSUME fresh'[w] # "no" PROVE Accounted(w)'
      <4>1. /\ row'[w] = "online" /\ age'[w] = 0 /\ lost'[w] = 0 /\ clock'[w] = 0 /\ proc'[w] = "up"
        BY <1>1, <3>2, <3>3 DEF Register, TypeOK
      <4> QED
        BY <4>1, ToleratedFits DEF Accounted, Up
    <3> QED
      BY <3>1, <3>3 DEF LiveInv
  <2>3. HeardInv'
    BY <1>1 DEF Register, TypeOK, HeardInv
  <2> QED
    BY <2>1, <2>2, <2>3
<1>2. CASE Stop(w)
  <2>1. TypeOK'
    BY <1>2 DEF Stop, TypeOK
  <2>2. LiveInv'
    BY <1>2 DEF Stop, TypeOK, LiveInv, Accounted, Up
  <2>3. HeardInv'
    BY <1>2 DEF Stop, HeardInv
  <2> QED
    BY <2>1, <2>2, <2>3
<1>3. CASE TakeTask(w) \/ ReportTask(w)
  <2>1. TypeOK'
    BY <1>3 DEF TakeTask, ReportTask, TypeOK
  <2>2. LiveInv'
    BY <1>3 DEF TakeTask, ReportTask, TypeOK, LiveInv, Accounted, Up
  <2>3. HeardInv'
    BY <1>3 DEF TakeTask, ReportTask, HeardInv
  <2> QED
    BY <2>1, <2>2, <2>3
<1>4. CASE Heartbeat(w)
  <2>1. TypeOK'
    BY <1>4 DEF Heartbeat, TypeOK
  <2>2. LiveInv'
    <3>1. ASSUME NEW v \in Workers, fresh'[v] # "no", v # w PROVE Accounted(v)'
      BY <1>4, <3>1 DEF Heartbeat, TypeOK, LiveInv, Accounted, Up
    <3>2. ASSUME fresh'[w] # "no" PROVE Accounted(w)'
      <4>1. /\ age'[w] = 0 /\ lost'[w] = 0 /\ clock'[w] \in Nat
            /\ UNCHANGED <<row, proc, fresh>>
        BY <1>4, <2>1 DEF Heartbeat, TypeOK
      <4> QED
        BY <3>2, <4>1, ToleratedFits DEF LiveInv, Accounted, Up
    <3> QED
      BY <3>1, <3>2 DEF LiveInv
  <2>3. HeardInv'
    BY <1>4 DEF Heartbeat, TypeOK, HeardInv
  <2> QED
    BY <2>1, <2>2, <2>3
<1>5. CASE LoseHeartbeat(w)
  <2>1. TypeOK'
    BY <1>5 DEF LoseHeartbeat, TypeOK
  <2>2. LiveInv'
    <3>1. ASSUME NEW v \in Workers, fresh'[v] # "no", v # w PROVE Accounted(v)'
      BY <1>5, <3>1 DEF LoseHeartbeat, TypeOK, LiveInv, Accounted, Up
    <3>2. ASSUME fresh'[w] # "no" PROVE Accounted(w)'
      <4>1. /\ lost'[w] = lost[w] + 1 /\ clock'[w] = clock[w] - Interval
            /\ lost[w] \in Nat /\ clock[w] \in Nat /\ age[w] \in Nat
            /\ UNCHANGED <<row, age, proc>>
        BY <1>5 DEF LoseHeartbeat, TypeOK
      <4>2. fresh[w] # "no" /\ (fresh'[w] = "online" => fresh[w] = "online" /\ ~(lost[w] >= Tolerated))
        BY <1>5, <3>2 DEF LoseHeartbeat, TypeOK
      <4>3. (lost[w] + 1) * Interval = lost[w] * Interval + Interval
        <5>1. lost[w] \in Nat /\ Interval \in Nat
          BY <4>1
        <5> QED
          BY ONLY <5>1, Successor
      <4>4. lost[w] * Interval \in Nat
        BY <4>1, Product
      <4> QED
        BY <4>1, <4>2, <4>3, <4>4, ToleratedFits DEF LiveInv, Accounted, Up
    <3> QED
      BY <3>1, <3>2 DEF LiveInv
  <2>3. HeardInv'
    BY <1>5 DEF LoseHeartbeat, HeardInv
  <2> QED
    BY <2>1, <2>2, <2>3
<1> QED
  BY <1>1, <1>2, <1>3, <1>4, <1>5

\* What the API server does, and time.
LEMMA ServerSteps ==
  ASSUME RegistryInv,
         \/ \E w \in Workers : SetOnline(w)
         \/ RequestList \/ MarkStale \/ DeleteExpired \/ ReadWorkers \/ Tick
  PROVE  RegistryInv'
<1> USE TimeAssumption DEF RegistryInv
<1>1. ASSUME NEW w \in Workers, SetOnline(w) PROVE RegistryInv'
  <2>1. TypeOK'
    BY <1>1 DEF SetOnline, TypeOK
  <2>2. LiveInv'
    BY <1>1 DEF SetOnline, TypeOK, LiveInv, Accounted, Up
  <2>3. HeardInv'
    BY <1>1 DEF SetOnline, TypeOK, HeardInv
  <2> QED
    BY <2>1, <2>2, <2>3
<1>2. CASE RequestList \/ ReadWorkers
  <2>1. TypeOK' /\ LiveInv'
    BY <1>2 DEF RequestList, ReadWorkers, TypeOK, LiveInv, Accounted, Up
  <2>2. HeardInv'
    BY <1>2 DEF RequestList, ReadWorkers, TypeOK, HeardInv
  <2> QED
    BY <2>1, <2>2
<1>3. CASE MarkStale
  <2>1. TypeOK'
    BY <1>3 DEF MarkStale, TypeOK
  <2>2. LiveInv'
    <3> SUFFICES ASSUME NEW w \in Workers, fresh'[w] # "no" PROVE Accounted(w)'
      BY DEF LiveInv
    <3>1. fresh[w] # "no" /\ (fresh[w] = "online" => ~Stale(w, Timeout))
      BY <1>3, LiveIsRecent DEF MarkStale
    <3> QED
      BY <1>3, <3>1 DEF MarkStale, TypeOK, LiveInv, Accounted, Up
  <2>3. HeardInv'
    BY <1>3 DEF MarkStale, Stale, TypeOK, HeardInv
  <2> QED
    BY <2>1, <2>2, <2>3
<1>4. CASE DeleteExpired
  <2>1. TypeOK'
    BY <1>4 DEF DeleteExpired, TypeOK
  <2>2. LiveInv'
    <3> SUFFICES ASSUME NEW w \in Workers, fresh'[w] # "no" PROVE Accounted(w)'
      BY DEF LiveInv
    <3>1. fresh[w] # "no" /\ ~Stale(w, Expiry)
      BY <1>4, LiveIsRecent DEF DeleteExpired
    <3> QED
      BY <1>4, <3>1 DEF DeleteExpired, TypeOK, LiveInv, Accounted, Up
  <2>3. HeardInv'
    BY <1>4 DEF DeleteExpired, TypeOK, HeardInv
  <2> QED
    BY <2>1, <2>2, <2>3
<1>5. CASE Tick
  <2>1. ASSUME NEW w \in Workers
        PROVE  /\ age'[w] \in 0 .. Expiry + 1 /\ age'[w] <= age[w] + 1
               /\ heard'[w] \in 0 .. Expiry + 1 /\ heard'[w] <= age'[w]
               /\ clock'[w] \in 0 .. Interval + Latency
               /\ Up(w) => clock'[w] = clock[w] + 1
    BY <1>5 DEF Tick, Older, TypeOK, HeardInv
  <2>2. TypeOK'
    <3>1. /\ age' = [w \in Workers |-> age'[w]] /\ heard' = [w \in Workers |-> heard'[w]]
          /\ clock' = [w \in Workers |-> clock'[w]]
      BY <1>5 DEF Tick
    <3>2. /\ age' \in [Workers -> 0 .. Expiry + 1] /\ heard' \in [Workers -> 0 .. Expiry + 1]
          /\ clock' \in [Workers -> 0 .. Interval + Latency]
      BY <2>1, <3>1
    <3> QED
      BY <1>5, <3>2 DEF Tick, TypeOK
  <2>3. LiveInv'
    <3> SUFFICES ASSUME NEW w \in Workers, fresh'[w] # "no" PROVE Accounted(w)'
      BY DEF LiveInv
    <3>1. Accounted(w) /\ UNCHANGED <<row, proc, lost, fresh>>
      BY <1>5 DEF Tick, LiveInv
    <3>2. lost[w] * Interval \in Nat /\ age[w] \in Nat /\ clock[w] \in Nat
      BY Product DEF TypeOK
    <3> QED
      BY <2>1, <3>1, <3>2 DEF Accounted, Up
  <2>4. HeardInv'
    BY <1>5, <2>1 DEF Tick, HeardInv
  <2> QED
    BY <2>2, <2>3, <2>4
<1> QED
  BY <1>1, <1>2, <1>3, <1>4, <1>5

\* No step of a worker, of the API server or of time breaks the invariant.
LEMMA RegistryStep == RegistryInv /\ [Next]_vars => RegistryInv'
<1> SUFFICES ASSUME RegistryInv, [Next]_vars PROVE RegistryInv'
  OBVIOUS
<1>1. CASE UNCHANGED vars
  BY <1>1 DEF vars, RegistryInv, TypeOK, LiveInv, HeardInv, Accounted, Up
<1>2. CASE Next
  BY <1>2, WorkerSteps, ServerSteps DEF Next
<1> QED
  BY <1>1, <1>2

\* Types, the age of live workers' rows and the recency of what is listed, as
\* registrations, heartbeats, reports and CleanupStale leave them, are invariant.
THEOREM Registry == Spec => []RegistryInv
  BY InitRegistry, RegistryStep, PTL DEF Spec

-----------------------------------------------------------------------------
(* The properties.                                                         *)

\* Every variable of the registry keeps its type.
THEOREM RegistryTyping == Spec => []TypeOK
<1>1. RegistryInv => TypeOK
  BY DEF RegistryInv
<1> QED
  BY <1>1, Registry, PTL

\* A live worker whose registration made its row, and of which no more
\* heartbeats in a row are lost than Timeout allows, is online whenever
\* anybody looks, for any delays up to Latency: CleanupStale never marks it.
THEOREM AliveStaysOnline == Spec => []AliveIsOnline
<1>1. RegistryInv => AliveIsOnline
  BY DEF RegistryInv, LiveInv, Accounted, AliveIsOnline
<1> QED
  BY <1>1, Registry, PTL

\* CleanupStale never deletes the row of such a worker while it lives, however
\* many heartbeats are lost, if no outage lasts as long as Expiry.
THEOREM LiveStays == Spec => []LiveIsKept
<1>1. RegistryInv => LiveIsKept
  BY DEF RegistryInv, LiveInv, Accounted, LiveIsKept
<1> QED
  BY <1>1, Registry, PTL

\* The list shows no worker as online that the API has not heard of within
\* Timeout, although reports set workers online between its statements.
THEOREM ListIsRecent == Spec => []ListedIsHeard
<1>1. RegistryInv => ListedIsHeard
  BY DEF RegistryInv, HeardInv, ListedIsHeard
<1> QED
  BY <1>1, Registry, PTL
=============================================================================
