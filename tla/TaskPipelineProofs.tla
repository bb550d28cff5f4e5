------------------------- MODULE TaskPipelineProofs -------------------------
(***************************************************************************)
(* Proofs about TaskPipeline, for every value of its constants.            *)
(***************************************************************************)
EXTENDS TaskPipeline, TLAPS

\* The tables of the task types, as the steps below use them.
LEMMA Tables ==
  ASSUME NEW ty \in Types
  PROVE  /\ Len(Points[ty]) \in 0 .. 4
         /\ \A k \in 1 .. 5 : k <= Len(Points[ty]) => Points[ty][k] \in Percentages
<1>1. CASE ty = "transcode"
  <2>1. Points[ty] = <<10, 60, 70, 95>>
    BY <1>1 DEF Points
  <2> QED
    BY <2>1 DEF Percentages
<1>2. CASE ty = "thumbnail"
  <2>1. Points[ty] = <<20, 70>>
    BY <1>2 DEF Points
  <2> QED
    BY <2>1 DEF Percentages
<1>3. CASE ty = "probe"
  <2>1. Points[ty] = <<>>
    BY <1>3 DEF Points
  <2> QED
    BY <2>1
<1> QED
  BY <1>1, <1>2, <1>3 DEF Types

\* The queue invariant makes a worker's message and task well defined.
LEMMA HeldTask ==
  ASSUME TypeOK, HeldByOne, NEW w \in Workers, pc[w] \in {"working", "failing", "acking"}
  PROVE  /\ held[w] \in Msgs /\ held[w] # 0
         /\ msgState[held[w]] = "pending"
         /\ TaskOf(w) \in Tasks
         /\ WorkOf(w) \in Types
<1>1. held[w] \in Msgs /\ held[w] # 0 /\ msgState[held[w]] = "pending"
  BY DEF TypeOK, HeldByOne
<1>2. held[w] <= sent
  BY <1>1, BoundAssumption DEF TypeOK, HeldByOne, Msgs
<1>3. msgTask[held[w]] \in Tasks
  BY <1>1, <1>2 DEF HeldByOne
<1> QED
  BY <1>1, <1>3, TypeAssumption DEF TaskOf, WorkOf

\* A callback that is still under way belongs to a task.
LEMMA LateTask ==
  ASSUME TypeOK, HeldByOne, NEW c \in late
  PROVE  c.msg \in Msgs /\ msgTask[c.msg] \in Tasks /\ msgState[c.msg] \in {"pending", "acked"}
<1>1. c.msg \in Msgs /\ msgState[c.msg] \in {"pending", "acked"}
  BY DEF TypeOK, HeldByOne, LateType
<1>2. c.msg <= sent
  BY <1>1, BoundAssumption DEF TypeOK, HeldByOne, Msgs
<1> QED
  BY <1>1, <1>2 DEF HeldByOne

\* The UPDATE of a status keeps the column's type.
LEMMA SetStatusType ==
  ASSUME NEW t \in Tasks, NEW s \in Statuses, status \in [Tasks -> Statuses], SetStatus(t, s)
  PROVE  status' \in [Tasks -> Statuses]
  BY DEF SetStatus

\* The UPDATE of a percentage keeps the column's type.
LEMMA SetProgressType ==
  ASSUME NEW t \in Tasks, NEW p \in Percentages, progress \in [Tasks -> Percentages],
         SetProgress(t, p)
  PROVE  progress' \in [Tasks -> Percentages]
  BY DEF SetProgress

\* The invariant that is inductive by itself: types and message ownership.
QueueInv == TypeOK /\ HeldByOne

\* No message and no busy worker: the queue invariant holds at the start.
LEMMA QueueInit == Init => QueueInv
<1> SUFFICES ASSUME Init PROVE QueueInv
  OBVIOUS
<1> USE BoundAssumption DEF Init
<1>1. TypeOK
  BY DEF TypeOK, Statuses, Percentages, RequestType, LateType, Msgs
<1>2. HeldByOne
  BY DEF HeldByOne, Msgs
<1> QED
  BY <1>1, <1>2 DEF QueueInv

\* The part of HeldByOne about each worker and each late callback depends only
\* on these variables.
LEMMA HeldByOneStable ==
  ASSUME HeldByOne, UNCHANGED <<queueVars, pc, held, late>>
  PROVE  HeldByOne'
  BY DEF HeldByOne, Active, queueVars

\* Delivering the heads leaves every other message as it is.
LEMMA Delivered ==
  ASSUME TypeOK, DeliverHeads
  PROVE  /\ msgState' \in [Msgs -> {"unused", "new", "pending", "acked"}]
         /\ \A m \in Msgs : msgState[m] # "new" => msgState'[m] = msgState[m]
         /\ \A m \in Msgs : msgState[m] = "new" => msgState'[m] \in {"new", "pending"}
         /\ \A m \in Heads : m \in Msgs /\ msgState[m] = "new" /\ msgState'[m] = "pending"
         /\ sent' = sent /\ msgTask' = msgTask
  BY DEF DeliverHeads, TypeOK, Heads, New

\* HeldByOne survives when workers leave the message they hold, or go on with it.
LEMMA HeldByOneLess ==
  ASSUME TypeOK, HeldByOne, NEW w \in Workers, UNCHANGED <<queueVars, late>>,
         NEW p \in {"idle", "working", "failing", "acking", "down"},
         pc' = [pc EXCEPT ![w] = p],
         \/ p \in {"idle", "down"} /\ held' = [held EXCEPT ![w] = 0]
         \/ /\ held' = held
            /\ \/ p \in {"idle", "down"} /\ held[w] = 0
               \/ p = "acking" /\ held[w] # 0
               \/ p \in {"working", "failing"} /\ Active(w)
  PROVE  HeldByOne'
<1>1. held \in [Workers -> Msgs \cup {0}] /\ pc \in [Workers -> {"idle", "working", "failing", "acking", "down"}]
  BY DEF TypeOK
<1>2. \A v \in Workers : Active(v)' => Active(v) /\ held'[v] = held[v]
  BY <1>1 DEF Active, HeldByOne
<1>3. \A v \in Workers : held'[v] # 0 => held'[v] = held[v]
  BY <1>1
<1>4. \A v \in Workers : held'[v] # 0 <=> pc'[v] \in {"working", "failing", "acking"}
  BY <1>1 DEF Active, HeldByOne
<1> QED
  BY <1>2, <1>3, <1>4 DEF HeldByOne, queueVars

\* Every step keeps the types and each message with at most one worker.
LEMMA QueueStep ==
  ASSUME QueueInv, [Next]_vars
  PROVE  QueueInv'
<1> USE DEF QueueInv
<1>1. ASSUME NEW r \in Requests, NEW t \in Tasks, StartTask(r, t) PROVE QueueInv'
  <2>1. TypeOK'
    BY <1>1 DEF StartTask, TypeOK, Statuses, RequestType, queueVars, workerVars, boundVars
  <2>2. HeldByOne'
    BY <1>1, HeldByOneStable DEF StartTask, workerVars
  <2> QED BY <2>1, <2>2
<1>2. ASSUME NEW r \in Requests, NEW t \in Tasks, ReadForRetry(r, t) PROVE QueueInv'
  <2>1. TypeOK'
    BY <1>2 DEF ReadForRetry, TypeOK, RequestType, rowVars, queueVars, workerVars, boundVars
  <2>2. HeldByOne'
    BY <1>2, HeldByOneStable DEF ReadForRetry, workerVars
  <2> QED BY <2>1, <2>2
<1>3. ASSUME NEW t \in Tasks, CancelTask(t) PROVE QueueInv'
  <2>1. status' \in [Tasks -> Statuses]
    BY <1>3, SetStatusType DEF CancelTask, TypeOK, Statuses
  <2>2. TypeOK'
    BY <1>3, <2>1 DEF CancelTask, TypeOK, queueVars, workerVars, boundVars
  <2>3. HeldByOne'
    BY <1>3, HeldByOneStable DEF CancelTask, workerVars
  <2> QED BY <2>2, <2>3
<1>4. ASSUME NEW v \in Videos, DeleteVideo(v) PROVE QueueInv'
  <2>1. TypeOK'
    BY <1>4 DEF DeleteVideo, TypeOK, Statuses, queueVars, workerVars, boundVars
  <2>2. HeldByOne'
    BY <1>4, HeldByOneStable DEF DeleteVideo, workerVars
  <2> QED BY <2>1, <2>2
<1>5. ASSUME NEW r \in Requests, Publish(r) PROVE QueueInv'
  <2>1. req[r].task \in Tasks /\ sent + 1 \in Msgs /\ sent \in 0 .. MaxMsgs
    BY <1>5, BoundAssumption DEF Publish, TypeOK, Msgs
  <2>2. TypeOK'
    BY <1>5, <2>1, BoundAssumption
    DEF Publish, TypeOK, RequestType, Idle, rowVars, workerVars, boundVars
  <2>3. \A m \in Msgs : m # sent + 1 => msgState'[m] = msgState[m] /\ msgTask'[m] = msgTask[m]
    BY <1>5, <2>1 DEF Publish, TypeOK
  <2>4. msgState'[sent + 1] = "new" /\ msgTask'[sent + 1] = req[r].task /\ msgState[sent + 1] = "unused"
    BY <1>5, <2>1 DEF Publish, TypeOK, HeldByOne, Msgs
  <2>5. \A m \in Msgs : msgState'[m] = "unused" <=> m > sent'
    BY <1>5, <2>1, <2>3, <2>4 DEF Publish, HeldByOne, Msgs
  <2>6. \A m \in Msgs : m <= sent' => msgTask'[m] \in Tasks
    BY <1>5, <2>1, <2>3, <2>4 DEF Publish, HeldByOne, Msgs
  <2>7. \A m \in Msgs : msgState[m] \in {"pending", "acked"} => msgState'[m] = msgState[m]
    BY <2>3, <2>4
  <2>8. pc' = pc /\ held' = held /\ late' = late
    BY <1>5 DEF Publish, workerVars
  <2>9. (\A w \in Workers : pc[w] \in {"working", "failing", "acking"} => held[w] \in Msgs)
        /\ (\A c \in late : c.msg \in Msgs)
    BY HeldTask, LateTask
  <2>10. HeldByOne'
    BY <2>5, <2>6, <2>7, <2>8, <2>9 DEF HeldByOne, Active
  <2> QED BY <2>2, <2>10
<1>6. ASSUME NEW r \in Requests, Requeue(r) PROVE QueueInv'
  <2>1. req[r].task \in Tasks
    BY <1>6 DEF Requeue, TypeOK
  <2>2. status' \in [Tasks -> Statuses]
    BY <1>6, <2>1, SetStatusType DEF Requeue, TypeOK, Statuses
  <2>3. attempts' \in [Tasks -> Nat]
    BY <1>6, <2>1 DEF Requeue, TypeOK
  <2>4. req' \in [Requests -> RequestType] /\ \A s \in Requests : req'[s].task = req[s].task
    BY <1>6 DEF Requeue, TypeOK, RequestType
  <2>5. \A s \in Requests : req'[s].op # "idle" => req[s].op # "idle"
    BY <1>6 DEF Requeue, TypeOK, RequestType
  <2>6. TypeOK'
    BY <1>6, <2>2, <2>3, <2>4, <2>5 DEF Requeue, TypeOK, queueVars, workerVars, boundVars
  <2>7. HeldByOne'
    BY <1>6, HeldByOneStable DEF Requeue, workerVars
  <2> QED BY <2>6, <2>7
<1>7. ASSUME NEW r \in Requests, AbortRequest(r) PROVE QueueInv'
  <2>1. TypeOK'
    BY <1>7 DEF AbortRequest, Fault, TypeOK, RequestType, Idle, rowVars, queueVars, workerVars
  <2>2. HeldByOne'
    BY <1>7, HeldByOneStable DEF AbortRequest, workerVars
  <2> QED BY <2>1, <2>2
<1>8. ASSUME NEW w \in Workers, ReadTask(w) PROVE QueueInv'
  <2>1. PICK m \in Heads : held' = [held EXCEPT ![w] = m]
    BY <1>8 DEF ReadTask
  <2>2. DeliverHeads
    BY <1>8 DEF ReadTask
  <2>3. m \in Msgs /\ msgState[m] = "new" /\ msgState'[m] = "pending" /\ m # 0
    BY <2>2, Delivered, BoundAssumption DEF Msgs
  <2>4. TypeOK'
    BY <1>8, <2>1, <2>2, <2>3, Delivered DEF ReadTask, TypeOK, rowVars, boundVars
  <2>5. \A v \in Workers : pc[v] \in {"working", "failing", "acking"} => held[v] # m /\ held[v] \in Msgs
    BY <2>3, HeldTask
  <2>6. \A v \in Workers : held[v] # 0 => held[v] # m
    BY <2>5, <2>3 DEF HeldByOne
  <2>7. \A c \in late : c.msg \in Msgs /\ msgState[c.msg] \in {"pending", "acked"} /\ c.msg # m
    BY <2>3, LateTask
  <2>8. HeldByOne'
    <3>1. late' = late /\ pc' = [pc EXCEPT ![w] = "working"] /\ pc \in [Workers -> {"idle", "working", "failing", "acking", "down"}]
          /\ held \in [Workers -> Msgs \cup {0}]
      BY <1>8 DEF ReadTask, TypeOK
    <3>2. (\A n \in Msgs : msgState'[n] = "unused" <=> n > sent') /\ (\A n \in Msgs : n <= sent' => msgTask'[n] \in Tasks)
      BY <2>2, Delivered DEF HeldByOne
    <3>3. /\ \A v \in Workers : held'[v] # 0 <=> pc'[v] \in {"working", "failing", "acking"}
          /\ \A v \in Workers : held'[v] # 0 => msgState'[held'[v]] = "pending"
      BY <2>1, <2>2, <2>3, <2>5, <3>1, Delivered DEF HeldByOne
    <3>4. \A u, v \in Workers : held'[u] = held'[v] /\ held'[u] # 0 => u = v
      BY <2>1, <2>6, <3>1 DEF HeldByOne
    <3>5. \A c \in late' : msgState'[c.msg] \in {"pending", "acked"}
      BY <2>2, <2>7, <3>1, Delivered
    <3>6. \A c \in late' : c.kind # "progress" => \A v \in Workers : ~(Active(v)' /\ held'[v] = c.msg)
      BY <2>1, <2>7, <3>1 DEF HeldByOne, Active
    <3>7. \A b, c \in late' : b.kind # "progress" /\ c.kind # "progress" /\ b.msg = c.msg => b = c
      BY <3>1 DEF HeldByOne
    <3> QED BY <3>2, <3>3, <3>4, <3>5, <3>6, <3>7 DEF HeldByOne
  <2> QED BY <2>4, <2>8
<1>9. ASSUME NEW w \in Workers, LoseDelivery(w) PROVE QueueInv'
  <2>1. DeliverHeads
    BY <1>9 DEF LoseDelivery
  <2>2. TypeOK'
    BY <1>9, <2>1, Delivered DEF LoseDelivery, Fault, TypeOK, rowVars, workerVars
  <2>3. (\A v \in Workers : held[v] # 0 => held[v] \in Msgs /\ msgState[held[v]] = "pending")
        /\ (\A c \in late : c.msg \in Msgs /\ msgState[c.msg] \in {"pending", "acked"})
    BY LateTask DEF TypeOK, HeldByOne
  <2>4. pc' = pc /\ held' = held /\ late' = late
    BY <1>9 DEF LoseDelivery, workerVars
  <2>5. HeldByOne'
    BY <2>1, <2>3, <2>4, Delivered DEF HeldByOne, Active
  <2> QED BY <2>2, <2>5
<1>10. ASSUME NEW w \in Workers, ReportProgress(w) PROVE QueueInv'
  <2>1. pc[w] = "working" /\ TaskOf(w) \in Tasks /\ WorkOf(w) \in Types /\ stage[w] \in 1 .. 4
        /\ Points[WorkOf(w)][stage[w]] \in Percentages
    <3>1. pc[w] = "working" /\ TaskOf(w) \in Tasks /\ WorkOf(w) \in Types
      BY <1>10, HeldTask DEF ReportProgress, CanWork
    <3>2. stage[w] \in 1 .. 5 /\ ~(stage[w] > Len(Points[WorkOf(w)]))
      BY <1>10, <3>1 DEF ReportProgress, LastStage, TypeOK
    <3> QED BY <3>1, <3>2, Tables
  <2>2. progress' \in [Tasks -> Percentages]
    BY <1>10, <2>1, SetProgressType DEF ReportProgress, TypeOK
  <2>3. PICK p \in {"working", "failing"} : pc' = [pc EXCEPT ![w] = p]
    BY <1>10, <2>1 DEF ReportProgress, TypeOK
  <2>4. stage' \in [Workers -> 0 .. 5] /\ \A v \in Workers : pc'[v] = "working" => stage'[v] # 0
    BY <1>10, <2>1, <2>3 DEF ReportProgress, TypeOK
  <2>5. TypeOK'
    BY <1>10, <2>2, <2>3, <2>4 DEF ReportProgress, TypeOK, queueVars, boundVars
  <2>6. HeldByOne'
    BY <1>10, <2>1, <2>3, HeldByOneLess DEF ReportProgress, Active
  <2> QED BY <2>5, <2>6
<1>11. ASSUME NEW w \in Workers, ReportComplete(w) PROVE QueueInv'
  <2>1. pc[w] = "working" /\ TaskOf(w) \in Tasks /\ held[w] # 0
    BY <1>11, HeldTask DEF ReportComplete, CanWork
  <2>2. status' \in [Tasks -> Statuses] /\ progress' \in [Tasks -> Percentages]
    BY <1>11, <2>1, SetStatusType, SetProgressType
    DEF ReportComplete, Complete, TypeOK, Statuses, Percentages
  <2>3. TypeOK'
    BY <1>11, <2>2 DEF ReportComplete, TypeOK, queueVars, boundVars
  <2>4. HeldByOne'
    BY <1>11, <2>1, HeldByOneLess DEF ReportComplete
  <2> QED BY <2>3, <2>4
<1>12. ASSUME NEW w \in Workers, FailWork(w) PROVE QueueInv'
  <2>1. TypeOK'
    BY <1>12 DEF FailWork, TypeOK, rowVars, queueVars, boundVars
  <2>2. HeldByOne'
    BY <1>12, HeldByOneLess DEF FailWork, Active
  <2> QED BY <2>1, <2>2
<1>13. ASSUME NEW w \in Workers, ReportFail(w) PROVE QueueInv'
  <2>1. pc[w] = "failing" /\ TaskOf(w) \in Tasks /\ held[w] # 0
    BY <1>13, HeldTask DEF ReportFail
  <2>2. status' \in [Tasks -> Statuses] /\ progress' = progress
    BY <1>13, <2>1, SetStatusType DEF ReportFail, Fail, TypeOK, Statuses
  <2>3. TypeOK'
    BY <1>13, <2>2 DEF ReportFail, TypeOK, queueVars, boundVars
  <2>4. HeldByOne'
    BY <1>13, <2>1, HeldByOneLess DEF ReportFail
  <2> QED BY <2>3, <2>4
<1>14. ASSUME NEW w \in Workers, Ack(w) PROVE QueueInv'
  <2>1. pc[w] = "acking" /\ held[w] \in Msgs /\ held[w] # 0 /\ msgState[held[w]] = "pending"
    BY <1>14, HeldTask DEF Ack
  <2>2. TypeOK'
    BY <1>14, <2>1 DEF Ack, TypeOK, rowVars, boundVars
  <2>3. \A m \in Msgs : m # held[w] => msgState'[m] = msgState[m]
    BY <1>14 DEF Ack, TypeOK
  <2>4. msgState'[held[w]] = "acked"
    BY <1>14, <2>1 DEF Ack, TypeOK
  <2>5. \A v \in Workers : held'[v] # 0 => held'[v] = held[v] /\ held[v] # held[w] /\ held[v] \in Msgs
    BY <1>14, <2>1 DEF Ack, TypeOK, HeldByOne
  <2>6. \A v \in Workers : Active(v)' => Active(v) /\ held'[v] = held[v]
    BY <1>14, <2>1 DEF Ack, TypeOK, Active
  <2>7. \A c \in late : c.msg \in Msgs
    BY LateTask
  <2>8. late' = late /\ sent' = sent /\ msgTask' = msgTask
    BY <1>14 DEF Ack
  <2>9. \A v \in Workers : held'[v] # 0 <=> pc'[v] \in {"working", "failing", "acking"}
    BY <1>14, <2>1 DEF Ack, TypeOK, HeldByOne
  <2>10. HeldByOne'
    BY <2>1, <2>3, <2>4, <2>5, <2>6, <2>7, <2>8, <2>9 DEF HeldByOne
  <2> QED BY <2>2, <2>10
<1>15. ASSUME NEW w \in Workers, Stop(w) \/ Exit(w) \/ Crash(w) \/ Restart(w) \/ AckError(w)
       PROVE  QueueInv'
  <2>1. TypeOK'
    <3>1. CASE Stop(w) BY <3>1 DEF Stop, TypeOK, rowVars, queueVars
    <3>2. CASE Exit(w) BY <3>2 DEF Exit, TypeOK, rowVars, queueVars, boundVars
    <3>3. CASE Crash(w) BY <3>3 DEF Crash, Fault, TypeOK, rowVars, queueVars
    <3>4. CASE Restart(w) BY <3>4 DEF Restart, TypeOK, rowVars, queueVars, boundVars
    <3>5. CASE AckError(w) BY <3>5 DEF AckError, Fault, TypeOK, rowVars, queueVars
    <3> QED BY <1>15, <3>1, <3>2, <3>3, <3>4, <3>5
  <2>2. HeldByOne'
    <3>1. CASE Stop(w) BY <3>1, HeldByOneStable DEF Stop
    <3>2. CASE Exit(w) BY <3>2, HeldByOneLess DEF Exit
    <3>3. CASE Crash(w) BY <3>3, HeldByOneLess DEF Crash
    <3>4. CASE Restart(w)
      <4>1. held[w] = 0
        BY <3>4 DEF Restart, HeldByOne
      <4> QED BY <3>4, <4>1, HeldByOneLess DEF Restart
    <3>5. CASE AckError(w) BY <3>5, HeldByOneLess DEF AckError
    <3> QED BY <1>15, <3>1, <3>2, <3>3, <3>4, <3>5
  <2> QED BY <2>1, <2>2
<1>16. ASSUME NEW w \in Workers, BreakProgress(w) \/ BreakComplete(w) \/ BreakFail(w)
       PROVE  QueueInv'
  <2>1. Active(w) /\ held[w] \in Msgs /\ held[w] # 0 /\ msgState[held[w]] = "pending"
        /\ WorkOf(w) \in Types
    BY <1>16, HeldTask DEF BreakProgress, BreakComplete, BreakFail, CanWork, Active
  <2>2. PICK c \in LateType : late' = late \cup {c} /\ c.msg = held[w]
                              /\ \/ c.kind = "progress" /\ pc' = pc
                                 \/ c.kind # "progress" /\ pc' = [pc EXCEPT ![w] = "acking"]
    <3>1. CASE BreakProgress(w)
      <4>1. pc[w] = "working" /\ stage[w] \in 1 .. 5 /\ stage[w] <= Len(Points[WorkOf(w)])
        BY <3>1, <2>1, Tables DEF BreakProgress, CanWork, LastStage, TypeOK
      <4>2. Points[WorkOf(w)][stage[w]] \in Percentages
        BY <4>1, <2>1, Tables
      <4> DEFINE c == [msg |-> held[w], kind |-> "progress", point |-> Points[WorkOf(w)][stage[w]]]
      <4>3. c \in LateType /\ c.msg = held[w] /\ c.kind = "progress"
        BY <2>1, <4>2 DEF LateType
      <4>4. late' = late \cup {c} /\ pc' = pc
        BY <3>1 DEF BreakProgress, Break
      <4> QED BY <4>3, <4>4
    <3>2. CASE BreakComplete(w)
      <4> DEFINE c == [msg |-> held[w], kind |-> "complete", point |-> 100]
      <4>1. c \in LateType /\ c.msg = held[w] /\ c.kind # "progress"
        BY <2>1 DEF LateType, Percentages
      <4>2. late' = late \cup {c} /\ pc' = [pc EXCEPT ![w] = "acking"]
        BY <3>2 DEF BreakComplete, Break
      <4> QED BY <4>1, <4>2
    <3>3. CASE BreakFail(w)
      <4> DEFINE c == [msg |-> held[w], kind |-> "fail", point |-> 0]
      <4>1. c \in LateType /\ c.msg = held[w] /\ c.kind # "progress"
        BY <2>1 DEF LateType, Percentages
      <4>2. late' = late \cup {c} /\ pc' = [pc EXCEPT ![w] = "acking"]
        BY <3>3 DEF BreakFail, Break
      <4> QED BY <4>1, <4>2
    <3> QED BY <1>16, <3>1, <3>2, <3>3
  <2>3. stage' \in [Workers -> 0 .. 5] /\ \A v \in Workers : pc'[v] = "working" => stage'[v] # 0
    <3>1. CASE BreakProgress(w)
      <4>1. Len(Points[WorkOf(w)]) \in 0 .. 4
        BY <2>1, Tables
      <4>2. pc[w] = "working" /\ stage[w] \in 0 .. 4
        BY <3>1, <4>1 DEF BreakProgress, CanWork, LastStage, TypeOK
      <4> QED BY <3>1, <4>2 DEF BreakProgress, TypeOK
    <3>2. CASE BreakComplete(w)
      BY <3>2 DEF BreakComplete, TypeOK
    <3>3. CASE BreakFail(w)
      BY <3>3 DEF BreakFail, TypeOK
    <3> QED BY <1>16, <3>1, <3>2, <3>3
  <2>4. UNCHANGED <<rowVars, req, queueVars, held, stopping, stops>> /\ faults' = faults + 1
    BY <1>16 DEF BreakProgress, BreakComplete, BreakFail, Break, Fault
  <2>5. pc' \in [Workers -> {"idle", "working", "failing", "acking", "down"}]
    BY <2>2 DEF TypeOK
  <2>6. TypeOK'
    BY <2>2, <2>3, <2>4, <2>5 DEF TypeOK, rowVars, queueVars
  <2>7. \A v \in Workers : (held[v] # 0 <=> pc'[v] \in {"working", "failing", "acking"})
                           /\ (Active(v)' => Active(v))
    BY <2>1, <2>2 DEF HeldByOne, Active, TypeOK
  <2>8. c.kind # "progress" => \A v \in Workers : ~(Active(v)' /\ held[v] = c.msg)
    BY <2>1, <2>2 DEF HeldByOne, Active, TypeOK
  <2>9. \A b \in late : b.kind # "progress" => b.msg # c.msg
    BY <2>1, <2>2 DEF HeldByOne
  <2>10. HeldByOne'
    <3>1. UNCHANGED <<sent, msgTask, msgState, held>>
      BY <2>4 DEF queueVars
    <3>2. \A b \in late' : b = c \/ b \in late
      BY <2>2
    <3>3. \A b \in late' : msgState'[b.msg] \in {"pending", "acked"}
      BY <2>1, <2>2, <3>1, <3>2 DEF HeldByOne
    <3>4. \A b \in late' : b.kind # "progress" => \A v \in Workers : ~(Active(v)' /\ held'[v] = b.msg)
      BY <2>7, <2>8, <3>1, <3>2 DEF HeldByOne
    <3>5. \A a, b \in late' : a.kind # "progress" /\ b.kind # "progress" /\ a.msg = b.msg => a = b
      BY <2>9, <3>2 DEF HeldByOne
    <3> QED BY <2>7, <3>1, <3>3, <3>4, <3>5 DEF HeldByOne
  <2> QED BY <2>6, <2>10
<1>17. ASSUME NEW c \in late, HandleLate(c) PROVE QueueInv'
  <2>1. msgTask[c.msg] \in Tasks /\ c.point \in Percentages
    BY LateTask DEF TypeOK, LateType
  <2>2. status' \in [Tasks -> Statuses] /\ progress' \in [Tasks -> Percentages]
    BY <1>17, <2>1, SetStatusType, SetProgressType
    DEF HandleLate, Complete, Fail, TypeOK, Statuses, Percentages
  <2>3. late' \in SUBSET late
    BY <1>17 DEF HandleLate
  <2>4. TypeOK'
    BY <1>17, <2>2, <2>3 DEF HandleLate, TypeOK, queueVars, workerVars, boundVars
  <2>5. HeldByOne'
    BY <1>17, <2>3 DEF HandleLate, HeldByOne, Active, queueVars, workerVars
  <2> QED BY <2>4, <2>5
<1>18. CASE UNCHANGED vars
  <2>1. TypeOK'
    BY <1>18 DEF vars, TypeOK, rowVars, queueVars, workerVars, boundVars
  <2>2. HeldByOne'
    BY <1>18, HeldByOneStable DEF vars, workerVars
  <2> QED BY <2>1, <2>2
<1> QED
  BY <1>1, <1>2, <1>3, <1>4, <1>5, <1>6, <1>7, <1>8, <1>9, <1>10, <1>11, <1>12, <1>13,
     <1>14, <1>15, <1>16, <1>17, <1>18
  DEF Next, ClientStep, RequestStep, WorkerStep, FaultStep

\* Every variable keeps its type, whatever fails and however often.
THEOREM Typing == Spec => []TypeOK
<1>1. Spec => []QueueInv
  BY QueueInit, QueueStep, PTL DEF Spec
<1> QED
  BY <1>1, PTL DEF QueueInv

\* A message is with at most one worker, and brings at most one decision.
THEOREM OneHolder == Spec => []HeldByOne
<1>1. Spec => []QueueInv
  BY QueueInit, QueueStep, PTL DEF Spec
<1> QED
  BY <1>1, PTL DEF QueueInv

-----------------------------------------------------------------------------
(* One attempt at a time.  Settled is what makes OneAttempt inductive: a   *)
(* retry is accepted for a failed task, and a failed task has no attempt   *)
(* left because the callback that failed it was the only one to come.      *)

\* The invariant behind one attempt at a time; its two parts need each other.
AttemptInv == QueueInv /\ OneAttempt /\ Settled

\* Steps that start nothing and decide nothing.
LEMMA NothingNew ==
  ASSUME OneAttempt, Settled,
         \A m \in Msgs, t \in Tasks : LiveFor(m, t)' => LiveFor(m, t),
         \A r \in Requests : req'[r] = req[r] \/ req'[r].task \notin Tasks,
         \A t \in Tasks : status'[t] = status[t] \/ status'[t] \in {"queued", "cancelled", "deleted"}
  PROVE  OneAttempt' /\ Settled'
<1>1. \A r \in Requests, t \in Tasks : req'[r].task = t => req'[r] = req[r] /\ req[r].task = t
  OBVIOUS
<1>2. OneAttempt'
  BY <1>1 DEF OneAttempt
<1>3. Settled'
  BY <1>1 DEF Settled
<1> QED BY <1>2, <1>3

\* A decision: the message m, live for t, is no longer live, and t is completed
\* or failed (or has been deleted).
LEMMA Decision ==
  ASSUME OneAttempt, Settled, NEW t \in Tasks, NEW m \in Msgs, LiveFor(m, t),
         \A n \in Msgs, u \in Tasks : LiveFor(n, u)' => LiveFor(n, u) /\ n # m,
         req' = req,
         \A u \in Tasks \ {t} : status'[u] = status[u]
  PROVE  OneAttempt' /\ Settled'
<1>1. OneAttempt'
  BY DEF OneAttempt
<1>2. \A n \in Msgs : ~LiveFor(n, t)'
  BY DEF OneAttempt
<1>3. \A r \in Requests : req'[r].task # t
  BY DEF OneAttempt
<1>4. Settled'
  BY <1>2, <1>3 DEF Settled
<1> QED BY <1>1, <1>4

\* What is live depends only on these variables.
LEMMA LiveStable ==
  ASSUME UNCHANGED <<queueVars, pc, held, late>>
  PROVE  \A m \in Msgs, t \in Tasks : LiveFor(m, t)' => LiveFor(m, t)
  BY DEF LiveFor, Live, Active, queueVars

\* A worker that leaves its message, or goes on with it, makes nothing live.
LEMMA LiveLess ==
  ASSUME UNCHANGED <<msgTask, late>>,
         \A m \in Msgs : msgState'[m] = "new" => msgState[m] = "new",
         \A v \in Workers : Active(v)' => Active(v) /\ held'[v] = held[v]
  PROVE  \A m \in Msgs, t \in Tasks : LiveFor(m, t)' => LiveFor(m, t)
  BY DEF LiveFor, Live

\* No task has an attempt at the start.
LEMMA AttemptInit == Init => AttemptInv
<1> SUFFICES ASSUME Init PROVE AttemptInv
  OBVIOUS
<1>1. QueueInv
  BY QueueInit
<1>2. \A m \in Msgs, t \in Tasks : ~LiveFor(m, t)
  BY TaskAssumption DEF Init, LiveFor
<1>3. \A r \in Requests, t \in Tasks : req[r].task # t
  BY TaskAssumption DEF Init
<1> QED
  BY <1>1, <1>2, <1>3 DEF AttemptInv, OneAttempt, Settled

\* Publishing hands the request's task over to one message.
LEMMA Published ==
  ASSUME QueueInv, NEW r \in Requests, Publish(r)
  PROVE  \E t \in Tasks, n \in Msgs :
           /\ t = req[r].task /\ req[r].op = "publish" /\ status' = status
           /\ req' = [req EXCEPT ![r] = Idle]
           /\ \A m \in Msgs, u \in Tasks : LiveFor(m, u)' => LiveFor(m, u) \/ (m = n /\ u = t)
<1> USE DEF QueueInv
<1>1. req[r].task \in Tasks /\ sent + 1 \in Msgs /\ req[r].op = "publish"
  BY BoundAssumption DEF Publish, TypeOK, Msgs
<1>2. PICK t \in Tasks, n \in Msgs : t = req[r].task /\ n = sent + 1 /\ req[r].op = "publish"
  BY <1>1
<1>3. msgState' = [msgState EXCEPT ![n] = "new"] /\ msgTask' = [msgTask EXCEPT ![n] = t]
      /\ UNCHANGED <<pc, held, late>>
  BY <1>2 DEF Publish, workerVars
<1>4. (\A w \in Workers : held[w] # n \/ ~Active(w)) /\ (\A c \in late : c.msg # n)
  <2>1. msgState[n] = "unused"
    BY <1>2 DEF HeldByOne, TypeOK, Msgs
  <2> QED BY <2>1 DEF HeldByOne, Active
<1>5. \A m \in Msgs : m # n => msgState'[m] = msgState[m] /\ msgTask'[m] = msgTask[m]
  BY <1>3 DEF TypeOK
<1>6. msgTask'[n] = t
  BY <1>3, <1>2 DEF TypeOK
<1>7. \A u \in Tasks : LiveFor(n, u)' => u = t
  BY <1>6 DEF LiveFor
<1>8. \A m \in Msgs, u \in Tasks : m # n /\ LiveFor(m, u)' => LiveFor(m, u)
  BY <1>3, <1>4, <1>5 DEF LiveFor, Live, Active
<1>9. status' = status /\ req' = [req EXCEPT ![r] = Idle]
  BY DEF Publish, rowVars
<1> QED BY <1>2, <1>7, <1>8, <1>9

\* The steps of start, retry and failing requests keep one attempt at a time:
\* a request hands its task over to the message it publishes.
LEMMA RequestSteps ==
  ASSUME SerialRetries, AttemptInv, NEW r \in Requests,
         \/ \E t \in Tasks : StartTask(r, t) \/ ReadForRetry(r, t)
         \/ Publish(r) \/ Requeue(r) \/ AbortRequest(r)
  PROVE  OneAttempt' /\ Settled'
<1> USE DEF AttemptInv, QueueInv
<1>1. ASSUME NEW t \in Tasks, StartTask(r, t) PROVE OneAttempt' /\ Settled'
  <2>1. \A m \in Msgs, u \in Tasks : LiveFor(m, u)' => LiveFor(m, u)
    BY <1>1, LiveStable DEF StartTask, workerVars
  <2>2. (\A m \in Msgs : ~LiveFor(m, t)) /\ (\A s \in Requests : req[s].task # t)
    BY <1>1 DEF StartTask, Settled
  <2>3. /\ req'[r] = [op |-> "publish", task |-> t]
        /\ \A s \in Requests \ {r} : req'[s] = req[s]
        /\ status'[t] = "queued" /\ \A u \in Tasks \ {t} : status'[u] = status[u]
    BY <1>1 DEF StartTask, TypeOK
  <2>4. \A u \in Tasks \ {t}, s \in Requests : req'[s].task = u => s # r /\ req'[s] = req[s]
    BY <2>3
  <2>5. OneAttempt'
    BY <2>1, <2>2, <2>3, <2>4 DEF OneAttempt
  <2>6. Settled'
    BY <2>1, <2>3, <2>4 DEF Settled
  <2> QED BY <2>5, <2>6
<1>2. ASSUME NEW t \in Tasks, ReadForRetry(r, t) PROVE OneAttempt' /\ Settled'
  <2>1. \A m \in Msgs, u \in Tasks : LiveFor(m, u)' => LiveFor(m, u)
    BY <1>2, LiveStable DEF ReadForRetry, workerVars
  <2>2. (\A m \in Msgs : ~LiveFor(m, t)) /\ (\A s \in Requests : req[s].task # t)
    BY <1>2 DEF ReadForRetry, Settled
  <2>3. /\ req'[r] = [op |-> "retry", task |-> t]
        /\ \A s \in Requests \ {r} : req'[s] = req[s]
        /\ status' = status /\ status[t] = "failed"
    BY <1>2 DEF ReadForRetry, TypeOK, rowVars
  <2>4. \A u \in Tasks \ {t}, s \in Requests : req'[s].task = u => s # r /\ req'[s] = req[s]
    BY <2>3
  <2>5. OneAttempt'
    BY <2>1, <2>2, <2>3, <2>4 DEF OneAttempt
  <2>6. Settled'
    BY <2>1, <2>2, <2>3, <2>4 DEF Settled
  <2> QED BY <2>5, <2>6
<1>3. CASE Publish(r)
  <2>1. PICK t \in Tasks, n \in Msgs :
           /\ t = req[r].task /\ req[r].op = "publish" /\ status' = status
           /\ req' = [req EXCEPT ![r] = Idle]
           /\ \A m \in Msgs, u \in Tasks : LiveFor(m, u)' => LiveFor(m, u) \/ (m = n /\ u = t)
    BY <1>3, Published
  <2>2. \A m \in Msgs, u \in Tasks : LiveFor(m, u)' => LiveFor(m, u) \/ (m = n /\ u = t)
    BY <2>1
  <2>3. \A m \in Msgs : ~LiveFor(m, t)
    BY <2>1 DEF OneAttempt
  <2>4. \A s \in Requests : req[s].task = t => s = r
    BY <2>1 DEF OneAttempt
  <2>5. \A s \in Requests, u \in Tasks : req'[s].task = u => s # r /\ req'[s] = req[s] /\ u # t
    BY <2>1, <2>4, TaskAssumption DEF Idle, TypeOK
  <2>6. status' = status /\ status[t] \notin {"none", "completed", "failed"}
    BY <2>1 DEF Settled
  <2>7. OneAttempt'
    BY <2>2, <2>3, <2>5 DEF OneAttempt
  <2>8. Settled'
    BY <2>2, <2>5, <2>6 DEF Settled
  <2> QED BY <2>7, <2>8
<1>4. CASE Requeue(r)
  <2>1. req[r].op = "retry" /\ req[r].task \in Tasks
    BY <1>4 DEF Requeue, TypeOK
  <2>2. \A m \in Msgs, u \in Tasks : LiveFor(m, u)' => LiveFor(m, u)
    BY <1>4, LiveStable DEF Requeue, workerVars
  <2>3. /\ \A s \in Requests : req'[s].task = req[s].task
        /\ \A s \in Requests \ {r} : req'[s] = req[s]
    BY <1>4 DEF Requeue, TypeOK, RequestType
  <2>4. \A s \in Requests : req[s].task = req[r].task => s = r
    BY <2>1 DEF OneAttempt
  <2>5. /\ status'[req[r].task] \in {"queued", "none", "deleted"}
        /\ status[req[r].task] # "none"
        /\ \A u \in Tasks : status'[u] = status[u] \/ status'[u] = "queued"
    BY <1>4, <2>1 DEF Requeue, SetStatus, Exists, TypeOK, Settled
  <2>6. status'[req[r].task] \in {"queued", "deleted"}
    BY <1>4, <2>1, <2>5 DEF Requeue, SetStatus, Exists, TypeOK
  <2>7. OneAttempt'
    BY <2>2, <2>3 DEF OneAttempt
  <2>8. Settled'
    BY <2>2, <2>3, <2>5, <2>6 DEF Settled
  <2> QED BY <2>7, <2>8
<1>5. CASE AbortRequest(r)
  <2>1. \A s \in Requests : req'[s] = req[s] \/ req'[s].task \notin Tasks
    BY <1>5, TaskAssumption DEF AbortRequest, Idle, TypeOK
  <2>2. status' = status
    BY <1>5 DEF AbortRequest, rowVars
  <2>3. \A m \in Msgs, u \in Tasks : LiveFor(m, u)' => LiveFor(m, u)
    BY <1>5, LiveStable DEF AbortRequest, workerVars
  <2> QED BY <2>1, <2>2, <2>3, NothingNew
<1> QED BY <1>1, <1>2, <1>3, <1>4, <1>5

\* A callback that completes or fails a task, in time or late, uses up the one
\* message that is live for it, and decides the task unless its row is gone.
LEMMA Callback ==
  ASSUME QueueInv,
         \/ \E w \in Workers : ReportComplete(w) \/ ReportFail(w)
         \/ \E c \in late : c.kind # "progress" /\ HandleLate(c)
  PROVE  \E t \in Tasks, m \in Msgs :
           /\ LiveFor(m, t) /\ req' = req
           /\ \A n \in Msgs, u \in Tasks : LiveFor(n, u)' <=> LiveFor(n, u) /\ n # m
           /\ \/ ~Exists(t) /\ status' = status
              \/ /\ Exists(t)
                 /\ \E s \in {"completed", "failed"} : status' = [status EXCEPT ![t] = s]
<1> USE DEF QueueInv
<1>1. ASSUME NEW w \in Workers, ReportComplete(w) \/ ReportFail(w)
      PROVE  \E t \in Tasks, m \in Msgs :
               /\ LiveFor(m, t) /\ req' = req
               /\ \A n \in Msgs, u \in Tasks : LiveFor(n, u)' <=> LiveFor(n, u) /\ n # m
               /\ \/ ~Exists(t) /\ status' = status
                  \/ /\ Exists(t)
                     /\ \E s \in {"completed", "failed"} : status' = [status EXCEPT ![t] = s]
  <2>0. Active(w) /\ held[w] \in Msgs /\ TaskOf(w) \in Tasks /\ held[w] # 0
        /\ msgState[held[w]] = "pending"
    BY <1>1, HeldTask DEF ReportComplete, ReportFail, CanWork, Active
  <2>1. PICK m \in Msgs, t \in Tasks : /\ m = held[w] /\ t = TaskOf(w)
                                       /\ Active(w) /\ m # 0 /\ msgState[m] = "pending"
    BY <2>0
  <2>2. LiveFor(m, t)
    BY <2>1 DEF LiveFor, Live, TaskOf
  <2>3. UNCHANGED <<req, queueVars, held, late>> /\ pc' = [pc EXCEPT ![w] = "acking"]
    BY <1>1 DEF ReportComplete, ReportFail
  <2>4. \A v \in Workers : Active(v)' <=> v # w /\ Active(v)
    BY <2>3 DEF Active, TypeOK
  <2>5. ~Live(m)'
    BY <2>1, <2>3, <2>4 DEF Live, HeldByOne, queueVars
  <2>6. \A n \in Msgs : n # m => (Live(n)' <=> Live(n))
    BY <2>1, <2>3, <2>4 DEF Live, queueVars
  <2>7. \A n \in Msgs, u \in Tasks : LiveFor(n, u)' <=> LiveFor(n, u) /\ n # m
    BY <2>3, <2>5, <2>6 DEF LiveFor, queueVars
  <2>8. \/ ~Exists(t) /\ status' = status
        \/ /\ Exists(t)
           /\ \E s \in {"completed", "failed"} : status' = [status EXCEPT ![t] = s]
    BY <1>1, <2>1 DEF ReportComplete, ReportFail, Complete, Fail, SetStatus
  <2> QED BY <2>2, <2>3, <2>7, <2>8
<1>2. ASSUME NEW c \in late, c.kind # "progress", HandleLate(c)
      PROVE  \E t \in Tasks, m \in Msgs :
               /\ LiveFor(m, t) /\ req' = req
               /\ \A n \in Msgs, u \in Tasks : LiveFor(n, u)' <=> LiveFor(n, u) /\ n # m
               /\ \/ ~Exists(t) /\ status' = status
                  \/ /\ Exists(t)
                     /\ \E s \in {"completed", "failed"} : status' = [status EXCEPT ![t] = s]
  <2>1. c.msg \in Msgs /\ msgTask[c.msg] \in Tasks /\ msgState[c.msg] \in {"pending", "acked"}
    BY LateTask
  <2>2. PICK m \in Msgs, t \in Tasks : /\ m = c.msg /\ t = msgTask[m]
                                       /\ msgState[m] \in {"pending", "acked"}
    BY <2>1
  <2>3. UNCHANGED <<req, queueVars, pc, held>> /\ late' = late \ {c}
    BY <1>2 DEF HandleLate, workerVars
  <2>4. LiveFor(m, t)
    BY <1>2, <2>2 DEF LiveFor, Live
  <2>5. ~Live(m)'
    BY <1>2, <2>2, <2>3 DEF Live, Active, HeldByOne, queueVars
  <2>6. \A n \in Msgs : n # m => (Live(n)' <=> Live(n))
    BY <2>2, <2>3 DEF Live, Active, queueVars
  <2>7. \A n \in Msgs, u \in Tasks : LiveFor(n, u)' <=> LiveFor(n, u) /\ n # m
    BY <2>3, <2>5, <2>6 DEF LiveFor, queueVars
  <2>8. \/ ~Exists(t) /\ status' = status
        \/ /\ Exists(t)
           /\ \E s \in {"completed", "failed"} : status' = [status EXCEPT ![t] = s]
    BY <1>2, <2>2 DEF HandleLate, Complete, Fail, SetStatus
  <2> QED BY <2>3, <2>4, <2>7, <2>8
<1> QED BY <1>1, <1>2

\* Such a callback keeps one attempt at a time, and settles its task.
LEMMA DecisionSteps ==
  ASSUME AttemptInv,
         \/ \E w \in Workers : ReportComplete(w) \/ ReportFail(w)
         \/ \E c \in late : c.kind # "progress" /\ HandleLate(c)
  PROVE  OneAttempt' /\ Settled'
<1>1. PICK t \in Tasks, m \in Msgs :
        /\ LiveFor(m, t) /\ req' = req
        /\ \A n \in Msgs, u \in Tasks : LiveFor(n, u)' <=> LiveFor(n, u) /\ n # m
        /\ \/ ~Exists(t) /\ status' = status
           \/ /\ Exists(t)
              /\ \E s \in {"completed", "failed"} : status' = [status EXCEPT ![t] = s]
  BY Callback DEF AttemptInv
<1>2. \A u \in Tasks \ {t} : status'[u] = status[u]
  BY <1>1 DEF AttemptInv, QueueInv, TypeOK
<1> QED BY <1>1, <1>2, Decision DEF AttemptInv

\* The steps that leave status and requests alone: what was not live stays so.
LEMMA StillSteps ==
  ASSUME QueueInv,
         \/ \E w \in Workers : \/ ReadTask(w) \/ LoseDelivery(w) \/ ReportProgress(w) \/ FailWork(w)
                               \/ Ack(w) \/ Stop(w) \/ Exit(w) \/ Crash(w) \/ Restart(w)
                               \/ AckError(w)
                               \/ BreakProgress(w) \/ BreakComplete(w) \/ BreakFail(w)
         \/ \E c \in late : c.kind = "progress" /\ HandleLate(c)
         \/ UNCHANGED vars
  PROVE  /\ status' = status /\ req' = req
         /\ \A m \in Msgs, t \in Tasks : LiveFor(m, t)' => LiveFor(m, t)
<1> DEFINE Still == /\ status' = status /\ req' = req
                    /\ \A m \in Msgs, t \in Tasks : LiveFor(m, t)' => LiveFor(m, t)
<1> USE DEF QueueInv
<1>1. CASE UNCHANGED vars
  <2>1. \A m \in Msgs, u \in Tasks : LiveFor(m, u)' => LiveFor(m, u)
    BY <1>1, LiveStable DEF vars, workerVars
  <2> QED BY <1>1, <2>1 DEF vars, rowVars
<1>2. ASSUME NEW c \in late, c.kind = "progress", HandleLate(c) PROVE Still
  <2>1. UNCHANGED <<req, queueVars, pc, held>> /\ late' = late \ {c} /\ status' = status
    BY <1>2 DEF HandleLate, workerVars
  <2>2. \A n \in Msgs, u \in Tasks : LiveFor(n, u)' => LiveFor(n, u)
    BY <2>1 DEF LiveFor, Live, Active, queueVars
  <2> QED BY <2>1, <2>2
<1>3. ASSUME NEW w \in Workers, ReadTask(w) \/ LoseDelivery(w) PROVE Still
  <2>1. DeliverHeads /\ status' = status /\ req' = req /\ late' = late
    BY <1>3 DEF ReadTask, LoseDelivery, rowVars
  <2>2. \A v \in Workers : Active(v)' => \/ Active(v) /\ held'[v] = held[v]
                                         \/ held'[v] \in Heads
    BY <1>3 DEF ReadTask, LoseDelivery, Active, TypeOK, workerVars
  <2>3. (\A m \in Msgs : msgState'[m] = "new" => msgState[m] = "new")
        /\ (\A m \in Heads : m \in Msgs /\ msgState[m] = "new") /\ msgTask' = msgTask
    BY <2>1, Delivered
  <2>4. \A m \in Msgs, u \in Tasks : LiveFor(m, u)' => LiveFor(m, u)
    BY <2>1, <2>2, <2>3 DEF LiveFor, Live
  <2> QED BY <2>1, <2>4
<1>4. ASSUME NEW w \in Workers,
             \/ ReportProgress(w) \/ FailWork(w) \/ Ack(w) \/ Stop(w) \/ Exit(w)
             \/ Crash(w) \/ Restart(w) \/ AckError(w)
      PROVE  Still
  <2>1. status' = status /\ req' = req /\ late' = late /\ msgTask' = msgTask
    BY <1>4
    DEF ReportProgress, FailWork, Ack, Stop, Exit, Crash, Restart, AckError, rowVars, queueVars
  <2>2. \A m \in Msgs : msgState'[m] = "new" => msgState[m] = "new"
    BY <1>4
    DEF ReportProgress, FailWork, Ack, Stop, Exit, Crash, Restart, AckError, queueVars, TypeOK
  <2>3. \A v \in Workers : Active(v)' => Active(v) /\ held'[v] = held[v]
    BY <1>4
    DEF ReportProgress, FailWork, Ack, Stop, Exit, Crash, Restart, AckError, CanWork, Active,
        TypeOK
  <2> QED BY <2>1, <2>2, <2>3, LiveLess
<1>5. ASSUME NEW w \in Workers, BreakProgress(w) \/ BreakComplete(w) \/ BreakFail(w)
      PROVE  Still
  <2>1. UNCHANGED <<status, req, queueVars, held>> /\ Active(w)
    BY <1>5 DEF BreakProgress, BreakComplete, BreakFail, Break, CanWork, Active, rowVars
  <2>2. \A c \in late' : c \in late \/ c.kind = "progress" \/ c.msg = held[w]
    BY <1>5 DEF BreakProgress, BreakComplete, BreakFail, Break
  <2>3. \A v \in Workers : Active(v)' => Active(v)
    BY <1>5 DEF BreakProgress, BreakComplete, BreakFail, Active, TypeOK
  <2>4. \A m \in Msgs, u \in Tasks : LiveFor(m, u)' => LiveFor(m, u)
    BY <2>1, <2>2, <2>3 DEF LiveFor, Live, queueVars
  <2> QED BY <2>1, <2>4
<1> QED BY <1>1, <1>2, <1>3, <1>4, <1>5

\* The remaining steps of workers, clients and faults.
LEMMA OtherSteps ==
  ASSUME AttemptInv,
         \/ \E t \in Tasks : CancelTask(t)
         \/ \E v \in Videos : DeleteVideo(v)
         \/ /\ status' = status /\ req' = req
            /\ \A m \in Msgs, t \in Tasks : LiveFor(m, t)' => LiveFor(m, t)
  PROVE  OneAttempt' /\ Settled'
<1> USE DEF AttemptInv, QueueInv
<1>1. ASSUME NEW t \in Tasks, CancelTask(t) PROVE OneAttempt' /\ Settled'
  <2>1. req' = req /\ \A u \in Tasks : status'[u] = status[u] \/ status'[u] = "cancelled"
    BY <1>1 DEF CancelTask, SetStatus, TypeOK
  <2>2. \A m \in Msgs, u \in Tasks : LiveFor(m, u)' => LiveFor(m, u)
    BY <1>1, LiveStable DEF CancelTask, workerVars
  <2> QED BY <2>1, <2>2, NothingNew
<1>2. ASSUME NEW v \in Videos, DeleteVideo(v) PROVE OneAttempt' /\ Settled'
  <2>1. req' = req /\ \A u \in Tasks : status'[u] = status[u] \/ status'[u] = "deleted"
    BY <1>2 DEF DeleteVideo, TypeOK
  <2>2. \A m \in Msgs, u \in Tasks : LiveFor(m, u)' => LiveFor(m, u)
    BY <1>2, LiveStable DEF DeleteVideo, workerVars
  <2> QED BY <2>1, <2>2, NothingNew
<1>3. CASE /\ status' = status /\ req' = req
           /\ \A m \in Msgs, t \in Tasks : LiveFor(m, t)' => LiveFor(m, t)
  BY <1>3, NothingNew
<1> QED BY <1>1, <1>2, <1>3

\* Every step keeps one attempt at a time and leaves decided tasks alone.
LEMMA AttemptStep ==
  ASSUME SerialRetries, AttemptInv, [Next]_vars
  PROVE  AttemptInv'
<1>1. QueueInv'
  BY QueueStep DEF AttemptInv
<1>2. OneAttempt' /\ Settled'
  BY RequestSteps, DecisionSteps, StillSteps, OtherSteps
  DEF AttemptInv, Next, ClientStep, RequestStep, WorkerStep, FaultStep
<1> QED BY <1>1, <1>2 DEF AttemptInv

\* If clients repeat a retry only after the previous one has been answered, no
\* two attempts at a task are ever under way together.
THEOREM OneAttemptAtATime == ASSUME SerialRetries PROVE Spec => []OneAttempt
<1>1. Spec => []AttemptInv
  BY AttemptInit, AttemptStep, PTL DEF Spec
<1> QED
  BY <1>1, PTL DEF AttemptInv

\* Under the same assumption nothing is under way that could decide a completed
\* or failed task again.
THEOREM DecidedStaysDecided == ASSUME SerialRetries PROVE Spec => []Settled
<1>1. Spec => []AttemptInv
  BY AttemptInit, AttemptStep, PTL DEF Spec
<1> QED
  BY <1>1, PTL DEF AttemptInv

-----------------------------------------------------------------------------
(* Without faults.  A connection that breaks, a crash or a lost reply may  *)
(* leave a queued task that nothing carries, or a percentage that arrives  *)
(* after completion; what follows is what holds when none of them happens, *)
(* in spite of SIGTERMs, cancellations, deletions and failures.            *)

NoFaults == MaxFaults = 0

\* All tasks are on one stream: of several, ReadTask forgets the messages it
\* has delivered but the first.
OneStream == \A t, u \in Tasks : TypeOf[t] = TypeOf[u]

\* No connection has been broken.
NoneLate == late = {}

\* The steps that are no faults.
CalmNext == \/ ClientStep
            \/ \E r \in Requests : RequestStep(r)
            \/ \E w \in Workers : WorkerStep(w) \/ Stop(w) \/ Exit(w) \/ Restart(w)
            \/ UNCHANGED vars

\* Only faults break connections, and there are none.
LEMMA Calm ==
  ASSUME NoFaults, TypeOK, NoneLate, [Next]_vars
  PROVE  CalmNext /\ NoneLate'
<1>1. ~Fault
  BY DEF NoFaults, TypeOK, Fault
<1>2. CalmNext
  BY <1>1
  DEF Next, CalmNext, FaultStep, AbortRequest, LoseDelivery, Crash, AckError, BreakProgress,
      BreakComplete, BreakFail, Break, NoneLate
<1>3. late' = late
  BY <1>2
  DEF CalmNext, ClientStep, StartTask, ReadForRetry, CancelTask, DeleteVideo, RequestStep,
      Publish, Requeue,
      WorkerStep, ReadTask, ReportProgress, ReportComplete, FailWork, ReportFail, Ack, Stop, Exit, Restart,
      vars
<1> QED
  BY <1>2, <1>3 DEF NoneLate

\* What is live stays live when its worker goes on with it.
LEMMA LiveKept ==
  ASSUME UNCHANGED <<msgTask, late>>,
         \A m \in Msgs : msgState[m] = "new" => msgState'[m] = "new",
         \A v \in Workers : Active(v) => Active(v)' /\ held'[v] = held[v]
  PROVE  \A m \in Msgs, t \in Tasks : LiveFor(m, t) => LiveFor(m, t)'
  BY DEF LiveFor, Live

\* On one stream one message is delivered, to the worker that asked for it.
LEMMA ReadOne ==
  ASSUME OneStream, QueueInv, NEW w \in Workers, ReadTask(w)
  PROVE  \A n \in Msgs, t \in Tasks : LiveFor(n, t) => LiveFor(n, t)'
<1> USE DEF QueueInv
<1>1. PICK m \in Heads : held' = [held EXCEPT ![w] = m]
  BY DEF ReadTask
<1>2. \A n \in New : n \in Msgs /\ msgTask[n] \in Tasks
  BY BoundAssumption DEF New, TypeOK, HeldByOne, Msgs
<1>3. m \in Msgs /\ \A n \in Heads : n = m
  <2>1. \A n \in Heads : m <= n /\ n <= m
    BY <1>2 DEF Heads, TypeOfMsg, OneStream
  <2> QED
    BY <1>2, <2>1, BoundAssumption DEF Heads, Msgs
<1>4. /\ UNCHANGED <<msgTask, late>> /\ pc' = [pc EXCEPT ![w] = "working"] /\ pc[w] = "idle"
      /\ \A n \in Msgs : msgState[n] = "new" /\ n # m => msgState'[n] = "new"
  <2>1. UNCHANGED <<msgTask, late>> /\ pc' = [pc EXCEPT ![w] = "working"] /\ pc[w] = "idle"
    BY DEF ReadTask, DeliverHeads
  <2>2. msgState' = [n \in Msgs |-> IF n \in Heads THEN "pending" ELSE msgState[n]]
    BY DEF ReadTask, DeliverHeads
  <2>3. \A n \in Msgs : msgState[n] = "new" /\ n # m => msgState'[n] = "new"
    BY <1>3, <2>2
  <2> QED
    BY <2>1, <2>3
<1>5. Active(w)' /\ held'[w] = m
  BY <1>1, <1>4 DEF Active, TypeOK
<1>6. \A v \in Workers : Active(v) => Active(v)' /\ held'[v] = held[v]
  BY <1>1, <1>4 DEF Active, TypeOK
<1> QED
  BY <1>4, <1>5, <1>6 DEF LiveFor, Live

\* What a queued task is carried by.
Carried(t) == \/ \E m \in Msgs : LiveFor(m, t)
              \/ \E r \in Requests : req[r].op = "publish" /\ req[r].task = t

\* The steps of requests carry the task on.
LEMMA RequestsCarry ==
  ASSUME QueueInv, QueuedIsCarried, NEW r \in Requests,
         (\E t \in Tasks : StartTask(r, t) \/ ReadForRetry(r, t)) \/ Publish(r) \/ Requeue(r)
  PROVE  QueuedIsCarried'
<1> USE DEF QueueInv
<1>0. \A t \in Tasks : status[t] = "queued" => Carried(t)
  BY DEF QueuedIsCarried, Carried
<1>1. ASSUME UNCHANGED <<msgTask, msgState, pc, held, late>>,
             req[r].op # "publish", \A s \in Requests \ {r} : req'[s] = req[s],
             \A t \in Tasks : status'[t] = "queued" =>
               status[t] = "queued" \/ (req'[r].op = "publish" /\ req'[r].task = t)
      PROVE  QueuedIsCarried'
  <2>1. \A m \in Msgs, t \in Tasks : LiveFor(m, t) => LiveFor(m, t)'
    BY <1>1, LiveKept DEF Active
  <2> QED
    BY <1>0, <1>1, <2>1 DEF QueuedIsCarried, Carried
<1>2. ASSUME NEW t \in Tasks, StartTask(r, t) \/ ReadForRetry(r, t) PROVE QueuedIsCarried'
  <2>1. UNCHANGED <<msgTask, msgState, pc, held, late>> /\ req[r].op # "publish"
    BY <1>2 DEF StartTask, ReadForRetry, queueVars, workerVars, Idle
  <2>2. \A s \in Requests \ {r} : req'[s] = req[s]
    <3>1. CASE StartTask(r, t)
      BY <3>1 DEF StartTask
    <3>2. CASE ReadForRetry(r, t)
      BY <3>2 DEF ReadForRetry
    <3> QED
      BY <1>2, <3>1, <3>2
  <2>3. \A u \in Tasks : status'[u] = "queued" =>
          status[u] = "queued" \/ (req'[r].op = "publish" /\ req'[r].task = u)
    <3>1. CASE StartTask(r, t)
      <4>1. req'[r].op = "publish" /\ req'[r].task = t /\ \A u \in Tasks \ {t} : status'[u] = status[u]
        BY <3>1 DEF StartTask, TypeOK
      <4> QED
        BY <4>1
    <3>2. CASE ReadForRetry(r, t)
      BY <3>2 DEF ReadForRetry, rowVars
    <3> QED
      BY <1>2, <3>1, <3>2
  <2> QED
    BY <1>1, <2>1, <2>2, <2>3
<1>3. CASE Requeue(r)
  <2>1. UNCHANGED <<msgTask, msgState, pc, held, late>> /\ req[r].op # "publish"
    BY <1>3 DEF Requeue, queueVars, workerVars
  <2>2. /\ \A s \in Requests \ {r} : req'[s] = req[s]
        /\ req'[r].op = "publish" /\ req'[r].task = req[r].task
    BY <1>3 DEF Requeue, TypeOK, RequestType
  <2>3. \A u \in Tasks : u # req[r].task => status'[u] = status[u]
    BY <1>3 DEF Requeue, SetStatus, TypeOK
  <2> QED
    BY <1>1, <2>1, <2>2, <2>3
<1>4. CASE Publish(r)
  <2>1. req[r].task \in Tasks /\ sent + 1 \in Msgs /\ status' = status
    BY <1>4, BoundAssumption DEF Publish, TypeOK, Msgs, rowVars
  <2>2. msgState[sent + 1] = "unused"
    BY <2>1 DEF HeldByOne, TypeOK, Msgs
  <2>3. /\ msgState' = [msgState EXCEPT ![sent + 1] = "new"]
        /\ msgTask' = [msgTask EXCEPT ![sent + 1] = req[r].task]
        /\ UNCHANGED <<pc, held, late>> /\ \A s \in Requests \ {r} : req'[s] = req[s]
    BY <1>4 DEF Publish, workerVars
  <2>4. \E n \in Msgs : msgTask'[n] = req[r].task /\ Live(n)'
    <3>1. PICK n \in Msgs : n = sent + 1
      BY <2>1
    <3>2. msgState'[n] = "new" /\ msgTask'[n] = req[r].task
      BY <2>3, <3>1 DEF TypeOK
    <3> QED
      BY <3>2 DEF Live
  <2>5. ASSUME NEW m \in Msgs, NEW t \in Tasks, LiveFor(m, t) PROVE LiveFor(m, t)'
    <3>1. m # sent + 1
      <4> SUFFICES ASSUME m = sent + 1 PROVE FALSE
        OBVIOUS
      <4>1. \A v \in Workers : Active(v) => held[v] # m
        BY <2>2 DEF HeldByOne, Active
      <4>2. \A c \in late : c.msg # m
        BY <2>2 DEF HeldByOne
      <4> QED
        BY <2>2, <2>5, <4>1, <4>2 DEF LiveFor, Live
    <3>2. msgState'[m] = msgState[m] /\ msgTask'[m] = msgTask[m]
      BY <2>3, <3>1 DEF TypeOK
    <3> QED
      BY <2>3, <2>5, <3>2 DEF LiveFor, Live, Active
  <2>6. ASSUME NEW t \in Tasks, Carried(t) PROVE Carried(t)'
    <3>1. CASE \E m \in Msgs : LiveFor(m, t)
      BY <2>5, <3>1 DEF Carried
    <3>2. CASE \E s \in Requests : req[s].op = "publish" /\ req[s].task = t
      <4>1. PICK s \in Requests : req[s].op = "publish" /\ req[s].task = t
        BY <3>2
      <4>2. CASE s = r
        <5>1. \E n \in Msgs : LiveFor(n, t)'
          BY <2>4, <4>1, <4>2 DEF LiveFor
        <5> QED
          BY <5>1 DEF Carried
      <4>3. CASE s # r
        BY <2>3, <4>1, <4>3 DEF Carried
      <4> QED
        BY <4>2, <4>3
    <3> QED
      BY <2>6, <3>1, <3>2 DEF Carried
  <2> QED
    BY <1>0, <2>1, <2>6 DEF QueuedIsCarried, Carried
<1> QED
  BY <1>2, <1>3, <1>4

\* The steps of workers and of other clients keep queued tasks carried.
LEMMA WorkersCarry ==
  ASSUME OneStream, QueueInv, NoneLate, QueuedIsCarried,
         \/ \E t \in Tasks : CancelTask(t)
         \/ \E v \in Videos : DeleteVideo(v)
         \/ \E w \in Workers : WorkerStep(w) \/ Stop(w) \/ Exit(w) \/ Restart(w)
         \/ UNCHANGED vars
  PROVE  QueuedIsCarried'
<1> USE DEF QueueInv
\* What is live stays so, and nothing is queued that was not.
<1>1. ASSUME \A m \in Msgs, t \in Tasks : LiveFor(m, t) => LiveFor(m, t)', req' = req,
             \A t \in Tasks : status'[t] = "queued" => status[t] = "queued"
      PROVE  QueuedIsCarried'
  BY <1>1 DEF QueuedIsCarried
<1>2. ASSUME NEW t \in Tasks, CancelTask(t) PROVE QueuedIsCarried'
  <2>1. req' = req /\ \A u \in Tasks : status'[u] = "queued" => status[u] = "queued"
    BY <1>2 DEF CancelTask, SetStatus, TypeOK
  <2>2. \A m \in Msgs, u \in Tasks : LiveFor(m, u) => LiveFor(m, u)'
    BY <1>2, LiveKept DEF CancelTask, queueVars, workerVars, Active
  <2> QED
    BY <1>1, <2>1, <2>2
<1>3. ASSUME NEW v \in Videos, DeleteVideo(v) PROVE QueuedIsCarried'
  <2>1. req' = req /\ \A u \in Tasks : status'[u] = "queued" => status[u] = "queued"
    BY <1>3 DEF DeleteVideo, TypeOK
  <2>2. \A m \in Msgs, u \in Tasks : LiveFor(m, u) => LiveFor(m, u)'
    BY <1>3, LiveKept DEF DeleteVideo, queueVars, workerVars, Active
  <2> QED
    BY <1>1, <2>1, <2>2
<1>4. ASSUME NEW w \in Workers, ReadTask(w) PROVE QueuedIsCarried'
  <2>1. status' = status /\ req' = req
    BY <1>4 DEF ReadTask, rowVars
  <2> QED
    BY <1>1, <1>4, <2>1, ReadOne
<1>5. ASSUME NEW w \in Workers,
             ReportProgress(w) \/ FailWork(w) \/ Ack(w) \/ Stop(w) \/ Exit(w) \/ Restart(w)
      PROVE  QueuedIsCarried'
  <2>1. status' = status /\ req' = req /\ UNCHANGED <<msgTask, late>>
    BY <1>5 DEF ReportProgress, FailWork, Ack, Stop, Exit, Restart, rowVars, queueVars
  <2>2. \A m \in Msgs : msgState[m] = "new" => msgState'[m] = "new"
    <3>1. CASE Ack(w)
      <4>1. held[w] \in Msgs /\ msgState[held[w]] = "pending"
        BY <3>1, HeldTask DEF Ack
      <4> QED
        BY <3>1, <4>1 DEF Ack, TypeOK
    <3> QED
      BY <1>5, <3>1 DEF ReportProgress, FailWork, Stop, Exit, Restart, queueVars
  <2>3. \A v \in Workers : Active(v) => Active(v)' /\ held'[v] = held[v]
    BY <1>5 DEF ReportProgress, FailWork, Ack, Stop, Exit, Restart, CanWork, Active, TypeOK
  <2> QED
    BY <1>1, <2>1, <2>2, <2>3, LiveKept
<1>6. ASSUME NEW w \in Workers, ReportComplete(w) \/ ReportFail(w) PROVE QueuedIsCarried'
  <2>1. PICK t \in Tasks, m \in Msgs :
          /\ LiveFor(m, t) /\ req' = req
          /\ \A n \in Msgs, u \in Tasks : LiveFor(n, u)' <=> LiveFor(n, u) /\ n # m
          /\ \/ ~Exists(t) /\ status' = status
             \/ /\ Exists(t)
                /\ \E s \in {"completed", "failed"} : status' = [status EXCEPT ![t] = s]
    BY <1>6, Callback
  <2>2. \A u \in Tasks : status'[u] = "queued" => status[u] = "queued" /\ u # t
    BY <2>1 DEF Exists, TypeOK
  <2>3. \A n \in Msgs, u \in Tasks : u # t /\ LiveFor(n, u) => LiveFor(n, u)'
    <3>1. \A u \in Tasks : u # t => ~LiveFor(m, u)
      BY <2>1 DEF LiveFor
    <3> QED
      BY <2>1, <3>1
  <2> QED
    BY <2>1, <2>2, <2>3 DEF QueuedIsCarried
<1>7. CASE UNCHANGED vars
  <2>1. \A m \in Msgs, u \in Tasks : LiveFor(m, u) => LiveFor(m, u)'
    BY <1>7, LiveKept DEF vars, queueVars, workerVars, Active
  <2> QED
    BY <1>1, <1>7, <2>1 DEF vars, rowVars
<1> QED
  BY <1>2, <1>3, <1>4, <1>5, <1>6, <1>7 DEF WorkerStep

\* Without faults, and on one stream, no queued task is forgotten, however
\* clients retry, cancel and delete and workers stop.
THEOREM NothingForgotten == ASSUME NoFaults, OneStream PROVE Spec => []QueuedIsCarried
<1> DEFINE Inv == QueueInv /\ NoneLate /\ QueuedIsCarried
<1>1. Init => Inv
  BY QueueInit DEF Init, NoneLate, QueuedIsCarried
<1>2. Inv /\ [Next]_vars => Inv'
  <2> SUFFICES ASSUME Inv, [Next]_vars PROVE Inv'
    OBVIOUS
  <2>1. QueueInv'
    BY QueueStep
  <2>2. CalmNext /\ NoneLate'
    BY Calm DEF QueueInv
  <2>3. QueuedIsCarried'
    BY <2>2, RequestsCarry, WorkersCarry DEF CalmNext, ClientStep, RequestStep
  <2> QED
    BY <2>1, <2>2, <2>3
<1>3. Inv => QueuedIsCarried
  OBVIOUS
<1> QED
  BY <1>1, <1>2, <1>3, PTL DEF Spec

-----------------------------------------------------------------------------
(* Percentages, without faults.                                            *)

\* The percentages of a type grow from one report to the next, and end below 100.
LEMMA PointsGrow ==
  ASSUME NEW ty \in Types, NEW k \in 2 .. 5, k <= Len(Points[ty])
  PROVE  Points[ty][k - 1] <= Points[ty][k]
<1>1. CASE ty = "transcode"
  <2>1. Points[ty] = <<10, 60, 70, 95>>
    BY <1>1 DEF Points
  <2>2. k \in {2, 3, 4}
    BY <2>1
  <2> QED
    BY <2>1, <2>2
<1>2. CASE ty = "thumbnail"
  <2>1. Points[ty] = <<20, 70>>
    BY <1>2 DEF Points
  <2>2. k = 2
    BY <2>1
  <2> QED
    BY <2>1, <2>2
<1>3. CASE ty = "probe"
  <2>1. Points[ty] = <<>>
    BY <1>3 DEF Points
  <2> QED
    BY <2>1
<1> QED
  BY <1>1, <1>2, <1>3 DEF Types

\* The row of a worker's task, if it is still there, has the percentage that
\* the worker has reported last.
Reported(w) ==
  pc[w] = "working" /\ stage[w] > 1 /\ Exists(TaskOf(w)) =>
    stage[w] - 1 <= Len(Points[WorkOf(w)]) /\ progress[TaskOf(w)] = Points[WorkOf(w)][stage[w] - 1]

ShownInv == /\ AttemptInv /\ NoneLate
            /\ CompletedAt100
            /\ \A w \in Workers : Reported(w)

\* A working worker is the only one at its task, and the task is not completed.
LEMMA OnlyWorker ==
  ASSUME AttemptInv, NEW w \in Workers, pc[w] = "working"
  PROVE  /\ held[w] \in Msgs /\ TaskOf(w) \in Tasks /\ WorkOf(w) \in Types /\ stage[w] \in 1 .. 5
         /\ status[TaskOf(w)] \notin {"none", "completed", "failed"}
         /\ \A v \in Workers : pc[v] = "working" /\ TaskOf(v) = TaskOf(w) => v = w
<1>1. held[w] \in Msgs /\ TaskOf(w) \in Tasks /\ WorkOf(w) \in Types /\ stage[w] \in 1 .. 5
  BY HeldTask DEF AttemptInv, QueueInv, TypeOK
<1>2. PICK t \in Tasks : t = TaskOf(w)
  BY <1>1
<1>3. LiveFor(held[w], t)
  BY <1>2 DEF LiveFor, Live, Active, TaskOf
<1>4. status[t] \notin {"none", "completed", "failed"}
  BY <1>1, <1>3 DEF AttemptInv, Settled
<1>5. ASSUME NEW v \in Workers, pc[v] = "working", TaskOf(v) = t PROVE v = w
  <2>1. held[v] \in Msgs /\ held[v] # 0
    BY <1>5, HeldTask DEF AttemptInv, QueueInv
  <2>2. LiveFor(held[v], t)
    BY <1>5, <2>1 DEF LiveFor, Live, Active, TaskOf
  <2>3. held[v] = held[w]
    BY <1>1, <1>3, <2>1, <2>2 DEF AttemptInv, OneAttempt
  <2> QED
    BY <2>1, <2>3 DEF AttemptInv, QueueInv, HeldByOne
<1> QED
  BY <1>1, <1>2, <1>4, <1>5

\* Steps that leave the percentages alone.
LEMMA ShownStays ==
  ASSUME ShownInv, AttemptInv', NoneLate', UNCHANGED <<progress, msgTask>>,
         \A t \in Tasks : status'[t] = "completed" => status[t] = "completed",
         \A t \in Tasks : status[t] \in {"none", "deleted"} =>
           status'[t] \in {"none", "deleted"} \/ status[t] = "none",
         \A w \in Workers : pc'[w] = "working" /\ stage'[w] > 1 =>
           pc[w] = "working" /\ held'[w] = held[w] /\ stage'[w] = stage[w]
  PROVE  ShownInv'
<1>1. CompletedAt100'
  BY DEF ShownInv, CompletedAt100
<1>2. ASSUME NEW w \in Workers PROVE Reported(w)'
  <2> SUFFICES ASSUME pc'[w] = "working", stage'[w] > 1, Exists(TaskOf(w))'
               PROVE  /\ stage'[w] - 1 <= Len(Points[WorkOf(w)'])
                      /\ progress'[TaskOf(w)'] = Points[WorkOf(w)'][stage'[w] - 1]
    BY DEF Reported
  <2>1. pc[w] = "working" /\ held'[w] = held[w] /\ stage'[w] = stage[w]
    OBVIOUS
  <2>2. TaskOf(w)' = TaskOf(w) /\ WorkOf(w)' = WorkOf(w)
    BY <2>1 DEF TaskOf, WorkOf
  <2>3. TaskOf(w) \in Tasks /\ status[TaskOf(w)] # "none"
    BY <2>1, OnlyWorker DEF ShownInv
  <2>4. Exists(TaskOf(w))
    BY <2>2, <2>3 DEF Exists
  <2> QED
    BY <2>1, <2>2, <2>4 DEF ShownInv, Reported
<1> QED
  BY <1>1, <1>2 DEF ShownInv

\* Every step keeps what is shown, and a percentage goes back only in the first
\* report of an attempt.
LEMMA ShownStep ==
  ASSUME NoFaults, SerialRetries, ShownInv, [Next]_vars
  PROVE  /\ ShownInv'
         /\ [\A t \in Tasks : progress'[t] < progress[t] =>
               \E w \in Workers : pc[w] = "working" /\ TaskOf(w) = t /\ stage[w] = 1]_progress
<1> DEFINE Grows == \A t \in Tasks : progress'[t] < progress[t] =>
                      \E w \in Workers : pc[w] = "working" /\ TaskOf(w) = t /\ stage[w] = 1
<1>0. AttemptInv' /\ NoneLate' /\ CalmNext /\ TypeOK /\ TypeOK' /\ AttemptInv
  BY AttemptStep, Calm DEF ShownInv, AttemptInv, QueueInv
<1>1. ASSUME UNCHANGED <<progress, msgTask>>,
             \A t \in Tasks : status'[t] = "completed" => status[t] = "completed",
             \A t \in Tasks : status[t] = "deleted" => status'[t] = "deleted",
             \A w \in Workers : pc'[w] = "working" /\ stage'[w] > 1 =>
               pc[w] = "working" /\ held'[w] = held[w] /\ stage'[w] = stage[w]
      PROVE  ShownInv' /\ [Grows]_progress
  BY <1>0, <1>1, ShownStays
<1>2. ASSUME NEW r \in Requests, NEW t \in Tasks, StartTask(r, t) \/ ReadForRetry(r, t)
      PROVE  ShownInv' /\ [Grows]_progress
  <2>1. UNCHANGED <<progress, msgTask, pc, held, stage>>
    BY <1>2 DEF StartTask, ReadForRetry, rowVars, queueVars, workerVars
  <2>2. \A u \in Tasks : status'[u] = status[u] \/ (status[u] = "none" /\ status'[u] = "queued")
    BY <1>0, <1>2 DEF StartTask, ReadForRetry, rowVars, TypeOK
  <2> QED
    BY <1>1, <2>1, <2>2
<1>3. ASSUME NEW t \in Tasks, CancelTask(t) PROVE ShownInv' /\ [Grows]_progress
  <2>1. UNCHANGED <<progress, msgTask, pc, held, stage>>
    BY <1>3 DEF CancelTask, queueVars, workerVars
  <2>2. \A u \in Tasks : \/ status'[u] = status[u]
                         \/ status[u] # "deleted" /\ status'[u] = "cancelled"
    BY <1>0, <1>3 DEF CancelTask, SetStatus, Exists, TypeOK
  <2> QED
    BY <1>1, <2>1, <2>2
<1>4. ASSUME NEW v \in Videos, DeleteVideo(v) PROVE ShownInv' /\ [Grows]_progress
  <2>1. UNCHANGED <<progress, msgTask, pc, held, stage>>
    BY <1>4 DEF DeleteVideo, queueVars, workerVars
  <2>2. \A u \in Tasks : status'[u] = status[u] \/ status'[u] = "deleted"
    BY <1>4 DEF DeleteVideo
  <2> QED
    BY <1>1, <2>1, <2>2
<1>5. ASSUME NEW r \in Requests, Requeue(r) PROVE ShownInv' /\ [Grows]_progress
  <2>1. UNCHANGED <<progress, msgTask, pc, held, stage>>
    BY <1>5 DEF Requeue, queueVars, workerVars
  <2>2. \A u \in Tasks : \/ status'[u] = status[u]
                         \/ status[u] # "deleted" /\ status'[u] = "queued"
    BY <1>0, <1>5 DEF Requeue, SetStatus, Exists, TypeOK
  <2> QED
    BY <1>1, <2>1, <2>2
<1>6. ASSUME NEW r \in Requests, Publish(r) PROVE ShownInv' /\ [Grows]_progress
  <2>1. UNCHANGED <<status, progress, pc, held, stage>>
    BY <1>6 DEF Publish, rowVars, workerVars
  <2>2. CompletedAt100'
    BY <2>1 DEF ShownInv, CompletedAt100
  <2>3. ASSUME NEW w \in Workers PROVE Reported(w)'
    <3>1. CASE pc[w] = "working"
      <4>1. held[w] \in Msgs /\ held[w] <= sent /\ sent \in 0 .. MaxMsgs
        BY <1>0, <3>1, OnlyWorker, BoundAssumption
        DEF AttemptInv, QueueInv, HeldByOne, TypeOK, Msgs
      <4>2. msgTask'[held[w]] = msgTask[held[w]]
        BY <1>0, <1>6, <4>1, BoundAssumption DEF Publish, TypeOK, Msgs
      <4>3. TaskOf(w)' = TaskOf(w) /\ WorkOf(w)' = WorkOf(w)
        BY <2>1, <4>2 DEF TaskOf, WorkOf
      <4> QED
        BY <2>1, <4>3 DEF ShownInv, Reported, Exists
    <3>2. CASE pc[w] # "working"
      BY <2>1, <3>2 DEF Reported
    <3> QED
      BY <3>1, <3>2
  <2> QED
    BY <1>0, <2>1, <2>2, <2>3 DEF ShownInv
<1>7. ASSUME NEW w \in Workers,
             ReadTask(w) \/ FailWork(w) \/ Ack(w) \/ Stop(w) \/ Exit(w) \/ Restart(w)
      PROVE  ShownInv' /\ [Grows]_progress
  <2>1. UNCHANGED <<status, progress, msgTask>>
    BY <1>7 DEF ReadTask, DeliverHeads, FailWork, Ack, Stop, Exit, Restart, rowVars, queueVars
  <2>2. \A v \in Workers : pc'[v] = "working" /\ stage'[v] > 1 =>
          pc[v] = "working" /\ held'[v] = held[v] /\ stage'[v] = stage[v]
    BY <1>0, <1>7 DEF ReadTask, FailWork, Ack, Stop, Exit, Restart, TypeOK
  <2> QED
    BY <1>1, <2>1, <2>2
<1>8. ASSUME NEW w \in Workers, ReportProgress(w) PROVE ShownInv' /\ [Grows]_progress
  <2>1. PICK t \in Tasks, k \in 1 .. 5, ty \in Types :
          t = TaskOf(w) /\ k = stage[w] /\ ty = WorkOf(w)
    BY <1>0, <1>8, OnlyWorker DEF ReportProgress, CanWork
  <2>2. pc[w] = "working" /\ k <= Len(Points[ty])
    BY <1>8, <2>1, Tables DEF ReportProgress, CanWork, LastStage
  <2>3. /\ status[t] # "completed" /\ UNCHANGED <<status, held, msgTask>>
        /\ \A v \in Workers \ {w} : pc[v] = "working" => TaskOf(v) # t
    BY <1>0, <1>8, <2>1, <2>2, OnlyWorker DEF ReportProgress, queueVars
  <2>4. /\ \A u \in Tasks \ {t} : progress'[u] = progress[u]
        /\ Exists(t) => progress'[t] = Points[ty][k]
        /\ ~Exists(t) => progress'[t] = progress[t]
    BY <1>0, <1>8, <2>1 DEF ReportProgress, SetProgress, TypeOK
  <2>5. /\ \A v \in Workers \ {w} : pc'[v] = pc[v] /\ stage'[v] = stage[v]
        /\ pc'[w] = "working" => stage'[w] = k + 1
    BY <1>0, <1>8, <2>1 DEF ReportProgress, TypeOK
  <2>6. CompletedAt100'
    BY <2>3, <2>4 DEF ShownInv, CompletedAt100
  <2>7. \A v \in Workers : TaskOf(v)' = TaskOf(v) /\ WorkOf(v)' = WorkOf(v)
    BY <2>3 DEF TaskOf, WorkOf
  <2>8. ASSUME NEW v \in Workers \ {w} PROVE Reported(v)'
    <3>1. CASE pc[v] = "working"
      <4>1. TaskOf(v) \in Tasks \ {t}
        BY <1>0, <2>3, <3>1, OnlyWorker
      <4>2. progress'[TaskOf(v)] = progress[TaskOf(v)]
        BY <2>4, <4>1
      <4> QED
        BY <2>3, <2>5, <2>7, <4>2 DEF ShownInv, Reported, Exists
    <3>2. CASE pc[v] # "working"
      BY <2>5, <3>2 DEF Reported
    <3> QED
      BY <3>1, <3>2
  <2>9. Reported(w)'
    BY <2>1, <2>2, <2>3, <2>4, <2>5, <2>7 DEF Reported, Exists
  <2>10. Grows
    <3>1. CASE k = 1
      <4>1. \A u \in Tasks \ {t} : ~(progress'[u] < progress[u])
        BY <1>0, <2>4 DEF TypeOK, Percentages
      <4> QED
        BY <2>1, <2>2, <3>1, <4>1
    <3>2. CASE k > 1 /\ Exists(t)
      <4>1. progress[t] = Points[ty][k - 1]
        BY <2>1, <2>2, <3>2 DEF ShownInv, Reported
      <4>2. Points[ty][k - 1] <= Points[ty][k]
        BY <2>2, <3>2, PointsGrow
      <4>3. progress[t] \in Nat /\ progress'[t] \in Nat /\ \A u \in Tasks : progress[u] \in Nat
        BY <1>0 DEF TypeOK, Percentages
      <4>4. progress[t] <= progress'[t]
        BY <2>4, <3>2, <4>1, <4>2
      <4>5. ASSUME NEW u \in Tasks, progress'[u] < progress[u] PROVE FALSE
        <5>1. progress[u] \in Nat /\ progress[t] \in Nat /\ progress'[t] \in Nat
          BY <4>3
        <5>2. CASE u = t
          BY <4>4, <4>5, <5>1, <5>2
        <5>3. CASE u # t
          BY <2>4, <4>5, <5>1, <5>3
        <5> QED
          BY <5>2, <5>3
      <4> QED
        BY <4>5
    <3>3. CASE ~Exists(t)
      BY <1>0, <2>4, <3>3 DEF TypeOK, Percentages
    <3> QED
      BY <3>1, <3>2, <3>3
  <2> QED
    BY <1>0, <2>6, <2>8, <2>9, <2>10 DEF ShownInv
<1>9. ASSUME NEW w \in Workers, ReportComplete(w) PROVE ShownInv' /\ [Grows]_progress
  <2>1. PICK t \in Tasks : t = TaskOf(w)
    BY <1>0, <1>9, OnlyWorker DEF ReportComplete, CanWork
  <2>2. /\ pc[w] = "working" /\ UNCHANGED <<held, msgTask>>
        /\ \A v \in Workers \ {w} : pc[v] = "working" => TaskOf(v) # t
    BY <1>0, <1>9, <2>1, OnlyWorker DEF ReportComplete, CanWork, queueVars
  <2>3. /\ \A u \in Tasks \ {t} : progress'[u] = progress[u] /\ status'[u] = status[u]
        /\ Exists(t) => progress'[t] = 100
        /\ ~Exists(t) => progress'[t] = progress[t] /\ status'[t] = status[t]
    BY <1>0, <1>9, <2>1 DEF ReportComplete, Complete, SetStatus, SetProgress, TypeOK
  <2>4. /\ \A v \in Workers \ {w} : pc'[v] = pc[v] /\ stage'[v] = stage[v]
        /\ pc'[w] = "acking"
    BY <1>0, <1>9 DEF ReportComplete, TypeOK
  <2>5. CompletedAt100'
    BY <2>3 DEF ShownInv, CompletedAt100
  <2>6. ASSUME NEW v \in Workers PROVE Reported(v)'
    <3>1. CASE pc[v] = "working" /\ v # w
      <4>1. TaskOf(v) \in Tasks \ {t}
        BY <1>0, <2>2, <3>1, OnlyWorker
      <4>2. progress'[TaskOf(v)] = progress[TaskOf(v)] /\ status'[TaskOf(v)] = status[TaskOf(v)]
        BY <2>3, <4>1
      <4>3. TaskOf(v)' = TaskOf(v) /\ WorkOf(v)' = WorkOf(v)
        BY <2>2 DEF TaskOf, WorkOf
      <4> QED
        BY <2>4, <3>1, <4>2, <4>3 DEF ShownInv, Reported, Exists
    <3>2. CASE pc[v] # "working" \/ v = w
      BY <2>4, <3>2 DEF Reported
    <3> QED
      BY <3>1, <3>2
  <2>7. Grows
    <3>1. \A u \in Tasks : progress[u] \in Nat /\ progress[u] <= 100
      BY <1>0 DEF TypeOK, Percentages
    <3> QED
      BY <2>3, <3>1
  <2> QED
    BY <1>0, <2>5, <2>6, <2>7 DEF ShownInv
<1>10. ASSUME NEW w \in Workers, ReportFail(w) PROVE ShownInv' /\ [Grows]_progress
  <2>1. TaskOf(w) \in Tasks
    BY <1>0, <1>10, HeldTask DEF ReportFail, AttemptInv, QueueInv
  <2>2. UNCHANGED <<progress, msgTask, held, stage>> /\ pc' = [pc EXCEPT ![w] = "acking"]
    BY <1>10 DEF ReportFail, Fail, queueVars
  <2>3. \A u \in Tasks : \/ status'[u] = status[u]
                         \/ status[u] # "deleted" /\ status'[u] = "failed"
    BY <1>0, <1>10, <2>1 DEF ReportFail, Fail, SetStatus, Exists, TypeOK
  <2> QED
    BY <1>0, <1>1, <2>2, <2>3 DEF TypeOK
<1>11. CASE UNCHANGED vars
  BY <1>1, <1>11 DEF vars, rowVars, queueVars, workerVars
<1> QED
  BY <1>0, <1>2, <1>3, <1>4, <1>5, <1>6, <1>7, <1>8, <1>9, <1>10, <1>11
  DEF CalmNext, ClientStep, RequestStep, WorkerStep

\* No task is completed and no worker at work at first.
LEMMA ShownInit == Init => ShownInv
BY AttemptInit DEF Init, ShownInv, NoneLate, CompletedAt100, Reported

\* Without faults, and if clients await a retry before repeating it, a completed
\* task shows 100 per cent, although percentage and completion are reported apart.
THEOREM FinishedShown == ASSUME NoFaults, SerialRetries PROVE Spec => []CompletedAt100
<1>1. ShownInv /\ [Next]_vars => ShownInv'
  BY ShownStep
<1>2. ShownInv => CompletedAt100
  BY DEF ShownInv
<1> QED
  BY <1>1, <1>2, ShownInit, PTL DEF Spec

\* Under the same assumptions no report overtakes another, of the same attempt
\* or of an earlier one.
THEOREM ReportsInOrder == ASSUME NoFaults, SerialRetries PROVE Spec => ProgressGrows
<1>1. ShownInv /\ [Next]_vars =>
        ShownInv' /\ [\A t \in Tasks : progress'[t] < progress[t] =>
                        \E w \in Workers : pc[w] = "working" /\ TaskOf(w) = t /\ stage[w] = 1]_progress
  BY ShownStep
<1> QED
  BY <1>1, ShownInit, PTL DEF Spec, ProgressGrows

=============================================================================
