---------------------------- MODULE TaskPipeline ----------------------------
(***************************************************************************)
(* How a task travels through the program: the API server inserts a row in *)
(* MySQL and publishes a message to a Redis stream, one of the worker      *)
(* processes reads the message through the consumer group, works on it in  *)
(* stages, calls the API back over HTTP and acknowledges the message;      *)
(* meanwhile clients cancel, retry and delete.  Every step below is one    *)
(* statement on MySQL or Redis, or one HTTP callback; whatever happens     *)
(* between two of them may be interleaved with any other process.          *)
(***************************************************************************)
EXTENDS Naturals, Sequences

CONSTANTS
  Tasks, Videos, Workers,
  Requests,       \* API handler goroutines that can be under way at once
  TypeOf,         \* the type of each task
  VideoOf,        \* the video each task belongs to
  NoTask,         \* what an idle request works for
  MaxMsgs,        \* bound: messages ever published
  MaxRetries,     \* bound: retries of one task (the code has none)
  MaxFaults,      \* bound: crashes, broken connections, Redis errors
  MaxStops,       \* bound: SIGTERMs sent to workers
  SerialRetries   \* whether clients await a retry before repeating it

Types == {"transcode", "thumbnail", "probe"}
Msgs == 1 .. MaxMsgs

ASSUME TaskAssumption  == NoTask \notin Tasks
ASSUME TypeAssumption  == TypeOf \in [Tasks -> Types]
ASSUME VideoAssumption == VideoOf \in [Tasks -> Videos]
ASSUME BoundAssumption == MaxMsgs \in Nat
ASSUME RetryAssumption == SerialRetries \in BOOLEAN

VARIABLES
  status,     \* transcode_tasks.status; "none" before the insert
  progress,   \* transcode_tasks.progress
  attempts,   \* transcode_tasks.attempts
  req,        \* each API request: what it has still to do, and for which task
  sent,       \* number of messages published so far
  msgTask,    \* the task each message carries
  msgState,   \* consumer-group state of each message
  pc,         \* where each worker's loop is
  held,       \* the message each worker is processing (0: none)
  stage,      \* which of its reports the worker is working towards
  stopping,   \* workers whose context has been cancelled
  late,       \* callbacks whose connection broke while they were under way
  faults, stops

rowVars    == <<status, progress, attempts>>
queueVars  == <<sent, msgTask, msgState>>
workerVars == <<pc, held, stage, stopping>>
boundVars  == <<faults, stops>>
vars == <<rowVars, req, queueVars, workerVars, late, boundVars>>

\* Defect: two of the percentages swapped.
SwappedPoints == [transcode |-> <<10, 60, 70, 95>>, thumbnail |-> <<70, 20>>, probe |-> <<>>]

\* The percentages each handler reports before it reports completion.
Points == [transcode |-> <<10, 60, 70, 95>>, thumbnail |-> <<20, 70>>, probe |-> <<>>]

\* The stages whose work runs under the worker's context (downloads, ffmpeg,
\* uploads that are not skipped on error): they fail once it is cancelled.
ContextBound == [transcode |-> {1, 2, 4}, thumbnail |-> {1, 2}, probe |-> {1}]

\* The stages whose work may fail at all: nothing can fail between
\* the last percentage and the completion report.
Fallible == [transcode |-> 1 .. 4, thumbnail |-> 1 .. 2, probe |-> {1}]

\* The streams in the order in which ReadTask scans their replies.
StreamRank == [transcode |-> 1, thumbnail |-> 2, probe |-> 4]

Init ==
  /\ status = [t \in Tasks |-> "none"]
  /\ progress = [t \in Tasks |-> 0]
  /\ attempts = [t \in Tasks |-> 0]
  /\ req = [r \in Requests |-> [op |-> "idle", task |-> NoTask]]
  /\ sent = 0
  /\ msgTask = [m \in Msgs |-> NoTask]
  /\ msgState = [m \in Msgs |-> "unused"]
  /\ pc = [w \in Workers |-> "idle"]
  /\ held = [w \in Workers |-> 0]
  /\ stage = [w \in Workers |-> 0]
  /\ stopping = {}
  /\ late = {}
  /\ faults = 0 /\ stops = 0

Exists(t) == status[t] \notin {"none", "deleted"}
Fault     == faults < MaxFaults /\ faults' = faults + 1

-----------------------------------------------------------------------------
(* The API server's statements on transcode_tasks: an UPDATE of a row that *)
(* has been deleted changes nothing.                                       *)

\* Defect: the row is saved as a whole, which inserts it again if it is gone.
SaveStatus(t, s) == status' = [status EXCEPT ![t] = s]

SetStatus(t, s) ==
  status' = IF Exists(t) THEN [status EXCEPT ![t] = s] ELSE status

\* Defect: the reported percentage is added to the stored one.
AddProgress(t, p) == progress' = [progress EXCEPT ![t] = @ + p]

SetProgress(t, p) ==
  progress' = IF Exists(t) THEN [progress EXCEPT ![t] = p] ELSE progress

\* Defects: the percentage is left to the callbacks; the row is looked up by
\* its video.
CompleteStatusOnly(t) == SetStatus(t, "completed") /\ UNCHANGED progress
CompleteByVideo(t) ==
  /\ status' = [u \in Tasks |-> IF VideoOf[u] = VideoOf[t] /\ Exists(u) THEN "completed"
                                ELSE status[u]]
  /\ SetProgress(t, 100)

\* TaskRepo.Complete: status, percentage and result in one UPDATE, whatever
\* the status was.
Complete(t) == SetStatus(t, "completed") /\ SetProgress(t, 100)

\* TaskRepo.Fail: whatever the status was.
Fail(t) == SetStatus(t, "failed") /\ UNCHANGED progress

-----------------------------------------------------------------------------
(* API requests of clients.                                                *)

Idle == [op |-> "idle", task |-> NoTask]

\* StartTranscode (once per resolution), StartProbe, StartThumbnailGeneration:
\* the row is inserted as "queued" before anything is published.
StartTask(r, t) ==
  /\ req[r] = Idle /\ status[t] = "none"
  /\ status' = [status EXCEPT ![t] = "queued"]
  /\ req' = [req EXCEPT ![r] = [op |-> "publish", task |-> t]]
  /\ UNCHANGED <<progress, attempts, queueVars, workerVars, late, boundVars>>

\* Producer.Publish: XADD to the stream of the task's type.
Publish(r) ==
  /\ req[r].op = "publish" /\ sent < MaxMsgs
  /\ sent' = sent + 1
  /\ msgTask' = [msgTask EXCEPT ![sent + 1] = req[r].task]
  /\ msgState' = [msgState EXCEPT ![sent + 1] = "new"]
  /\ req' = [req EXCEPT ![r] = Idle]
  /\ UNCHANGED <<rowVars, workerVars, late, boundVars>>

\* Defect: cancelled tasks may be retried as well.
ReadForAnyRetry(r, t) ==
  /\ req[r] = Idle /\ status[t] \in {"failed", "cancelled"} /\ attempts[t] < MaxRetries
  /\ SerialRetries => \A s \in Requests : req[s].task # t
  /\ req' = [req EXCEPT ![r] = [op |-> "retry", task |-> t]]
  /\ UNCHANGED <<rowVars, queueVars, workerVars, late, boundVars>>

\* RetryTask reads the row and goes on only if it is "failed".
ReadForRetry(r, t) ==
  /\ req[r] = Idle /\ status[t] = "failed" /\ attempts[t] < MaxRetries
  /\ SerialRetries => \A s \in Requests : req[s].task # t
  /\ req' = [req EXCEPT ![r] = [op |-> "retry", task |-> t]]
  /\ UNCHANGED <<rowVars, queueVars, workerVars, late, boundVars>>

\* RetryTask writes "queued" and counts the attempt; it neither looks at the
\* status again nor resets the percentage.  (It ignores the errors of both
\* statements; here, as everywhere, MySQL does what it is asked.)
Requeue(r) ==
  /\ req[r].op = "retry"
  /\ SetStatus(req[r].task, "queued")
  /\ attempts' = IF Exists(req[r].task)
                   THEN [attempts EXCEPT ![req[r].task] = @ + 1] ELSE attempts
  /\ req' = [req EXCEPT ![r].op = "publish"]
  /\ UNCHANGED <<progress, queueVars, workerVars, late, boundVars>>

\* A request dies half-way: the API server stops, or Redis refuses the XADD.
AbortRequest(r) ==
  /\ req[r] # Idle /\ Fault
  /\ req' = [req EXCEPT ![r] = Idle]
  /\ UNCHANGED <<rowVars, queueVars, workerVars, late, stops>>

\* CancelTask: one UPDATE, whatever the status was.
CancelTask(t) ==
  /\ Exists(t)
  /\ SetStatus(t, "cancelled")
  /\ UNCHANGED <<progress, attempts, req, queueVars, workerVars, late, boundVars>>

\* DeleteVideo removes the rows of all the video's tasks (and the video, so
\* that no more are started); messages and workers are left alone.
DeleteVideo(v) ==
  /\ status' = [t \in Tasks |-> IF VideoOf[t] = v THEN "deleted" ELSE status[t]]
  /\ UNCHANGED <<progress, attempts, req, queueVars, workerVars, late, boundVars>>

RequestStep(r) == Publish(r) \/ Requeue(r)

-----------------------------------------------------------------------------
(* The consumer group.  A message is "new" until XREADGROUP delivers it,   *)
(* then "pending" until it is acknowledged.  Pending messages are never    *)
(* claimed again: nothing calls ClaimPending, and a restarted worker has a *)
(* new consumer name and reads with ">".                                   *)

\* Defect: unacknowledged messages are read again.
Unacked == {m \in Msgs : msgState[m] \in {"new", "pending"}}

New == {m \in Msgs : msgState[m] = "new"}

TypeOfMsg(m) == TypeOf[msgTask[m]]

\* XREADGROUP COUNT 1 over several streams: the oldest new message of each.
Heads == {m \in New : \A n \in New : TypeOfMsg(n) = TypeOfMsg(m) => m <= n}

\* ReadTask has the group deliver the head of every stream, and returns the
\* one of the first stream that has any.
DeliverHeads ==
  /\ msgState' = [m \in Msgs |-> IF m \in Heads THEN "pending" ELSE msgState[m]]
  /\ UNCHANGED <<sent, msgTask>>

ReadTask(w) ==
  /\ pc[w] = "idle"
  /\ \E m \in Heads :
       /\ \A n \in Heads : StreamRank[TypeOfMsg(m)] <= StreamRank[TypeOfMsg(n)]
       /\ held' = [held EXCEPT ![w] = m]
  /\ DeliverHeads
  /\ pc' = [pc EXCEPT ![w] = "working"]
  /\ stage' = [stage EXCEPT ![w] = 1]
  /\ UNCHANGED <<rowVars, req, stopping, late, boundVars>>

\* The reply of the XREADGROUP is lost: Run logs the error and loops.
LoseDelivery(w) ==
  /\ pc[w] = "idle" /\ New # {} /\ Fault
  /\ DeliverHeads
  /\ UNCHANGED <<rowVars, req, workerVars, late, stops>>

-----------------------------------------------------------------------------
(* A worker processes one message at a time.  Between two callbacks it     *)
(* works only on its own files and on S3, so a step below is the work of a *)
(* stage together with the callback that ends it.                          *)

TaskOf(w)  == msgTask[held[w]]
WorkOf(w)  == TypeOf[TaskOf(w)]
LastStage(w) == stage[w] > Len(Points[WorkOf(w)])

\* Whether the worker's stage can succeed: not when its context is cancelled.
CanWork(w) ==
  /\ pc[w] = "working"
  /\ ~(w \in stopping /\ stage[w] \in ContextBound[WorkOf(w)])

\* reportProgress, answered with the row's status: "cancelled" makes the
\* handler give up, anything else (an error too) lets it go on.
ReportProgress(w) ==
  /\ CanWork(w) /\ ~LastStage(w)
  /\ SetProgress(TaskOf(w), Points[WorkOf(w)][stage[w]])
  /\ \/ /\ status[TaskOf(w)] = "cancelled"
        /\ pc' = [pc EXCEPT ![w] = "failing"]
        /\ stage' = [stage EXCEPT ![w] = 0]
     \/ /\ status[TaskOf(w)] # "cancelled"
        /\ stage' = [stage EXCEPT ![w] = @ + 1]
        /\ UNCHANGED pc
  /\ UNCHANGED <<status, attempts, req, queueVars, held, stopping, late, boundVars>>

\* Defect: the handler returns an error after it has reported completion.
ReportCompleteThenFail(w) ==
  /\ CanWork(w) /\ LastStage(w)
  /\ Complete(TaskOf(w))
  /\ pc' = [pc EXCEPT ![w] = "failing"]
  /\ stage' = [stage EXCEPT ![w] = 0]
  /\ UNCHANGED <<attempts, req, queueVars, held, stopping, late, boundVars>>

\* reportComplete: CompleteTask writes the row; its reply is not looked at.
ReportComplete(w) ==
  /\ CanWork(w) /\ LastStage(w)
  /\ Complete(TaskOf(w))
  /\ pc' = [pc EXCEPT ![w] = "acking"]
  /\ stage' = [stage EXCEPT ![w] = 0]
  /\ UNCHANGED <<attempts, req, queueVars, held, stopping, late, boundVars>>

\* The work of the stage fails: processTask returns an error.
FailWork(w) ==
  /\ pc[w] = "working" /\ stage[w] \in Fallible[WorkOf(w)]
  /\ pc' = [pc EXCEPT ![w] = "failing"]
  /\ stage' = [stage EXCEPT ![w] = 0]
  /\ UNCHANGED <<rowVars, req, queueVars, held, stopping, late, boundVars>>

\* reportFail, after an error or because the task was found cancelled.
ReportFail(w) ==
  /\ pc[w] = "failing"
  /\ Fail(TaskOf(w))
  /\ pc' = [pc EXCEPT ![w] = "acking"]
  /\ UNCHANGED <<attempts, req, queueVars, held, stage, stopping, late, boundVars>>

\* Defect: the loop returns after one message.
AckAndReturn(w) ==
  /\ pc[w] = "acking" /\ w \notin stopping
  /\ msgState' = [msgState EXCEPT ![held[w]] = "acked"]
  /\ pc' = [pc EXCEPT ![w] = "down"]
  /\ held' = [held EXCEPT ![w] = 0]
  /\ UNCHANGED <<rowVars, req, sent, msgTask, stage, stopping, late, boundVars>>

\* The message is acknowledged, whether or not a callback got through.
Ack(w) ==
  /\ pc[w] = "acking" /\ w \notin stopping
  /\ msgState' = [msgState EXCEPT ![held[w]] = "acked"]
  /\ pc' = [pc EXCEPT ![w] = "idle"]
  /\ held' = [held EXCEPT ![w] = 0]
  /\ UNCHANGED <<rowVars, req, sent, msgTask, stage, stopping, late, boundVars>>

WorkerStep(w) == \/ ReadTask(w) \/ ReportProgress(w) \/ ReportComplete(w)
                 \/ FailWork(w) \/ ReportFail(w) \/ Ack(w)

-----------------------------------------------------------------------------
(* Workers are told to stop, die, and are started again.                   *)

\* SIGTERM cancels the worker's context.
Stop(w) ==
  /\ pc[w] # "down" /\ w \notin stopping /\ stops < MaxStops
  /\ stopping' = stopping \cup {w} /\ stops' = stops + 1
  /\ UNCHANGED <<rowVars, req, queueVars, pc, held, stage, late, faults>>

\* Defect: the failure is reported under the cancelled context, and so not sent.
ExitUnreported(w) ==
  /\ w \in stopping /\ pc[w] \in {"idle", "failing", "acking"}
  /\ pc' = [pc EXCEPT ![w] = "down"]
  /\ held' = [held EXCEPT ![w] = 0]
  /\ stopping' = stopping \ {w}
  /\ UNCHANGED <<rowVars, req, queueVars, stage, late, boundVars>>

\* The loop ends: when it is idle, or after an XACK that could not be sent
\* because the context is cancelled.
Exit(w) ==
  /\ w \in stopping /\ pc[w] \in {"idle", "acking"}
  /\ pc' = [pc EXCEPT ![w] = "down"]
  /\ held' = [held EXCEPT ![w] = 0]
  /\ stopping' = stopping \ {w}
  /\ UNCHANGED <<rowVars, req, queueVars, stage, late, boundVars>>

\* The process dies wherever it is.
Crash(w) ==
  /\ pc[w] # "down" /\ Fault
  /\ pc' = [pc EXCEPT ![w] = "down"]
  /\ held' = [held EXCEPT ![w] = 0]
  /\ stopping' = stopping \ {w}
  /\ stage' = [stage EXCEPT ![w] = 0]
  /\ UNCHANGED <<rowVars, req, queueVars, late, stops>>

\* The process is started again, under a new consumer name.
Restart(w) ==
  /\ pc[w] = "down"
  /\ pc' = [pc EXCEPT ![w] = "idle"]
  /\ UNCHANGED <<rowVars, req, queueVars, held, stage, stopping, late, boundVars>>

\* XACK fails although the worker is not stopping: the error is logged.
AckError(w) ==
  /\ pc[w] = "acking" /\ w \notin stopping /\ Fault
  /\ pc' = [pc EXCEPT ![w] = "idle"]
  /\ held' = [held EXCEPT ![w] = 0]
  /\ UNCHANGED <<rowVars, req, queueVars, stage, stopping, late, stops>>

-----------------------------------------------------------------------------
(* The connection of a callback breaks.  The worker logs it and goes on as *)
(* if the callback had been made; the API server may have received it, and *)
(* handles it then at any later time, or never.                            *)

Break(w, kind, point) ==
  /\ Fault
  /\ late' = late \cup {[msg |-> held[w], kind |-> kind, point |-> point]}
  /\ UNCHANGED <<rowVars, req, queueVars, held, stopping, stops>>

BreakProgress(w) ==
  /\ CanWork(w) /\ ~LastStage(w)
  /\ Break(w, "progress", Points[WorkOf(w)][stage[w]])
  /\ stage' = [stage EXCEPT ![w] = @ + 1]
  /\ UNCHANGED pc

BreakComplete(w) ==
  /\ CanWork(w) /\ LastStage(w)
  /\ Break(w, "complete", 100)
  /\ pc' = [pc EXCEPT ![w] = "acking"]
  /\ stage' = [stage EXCEPT ![w] = 0]

BreakFail(w) ==
  /\ pc[w] = "failing"
  /\ Break(w, "fail", 0)
  /\ pc' = [pc EXCEPT ![w] = "acking"]
  /\ UNCHANGED stage

HandleLate(c) ==
  /\ late' = late \ {c}
  /\ \/ /\ c.kind = "progress"
        /\ SetProgress(msgTask[c.msg], c.point)
        /\ UNCHANGED status
     \/ c.kind = "complete" /\ Complete(msgTask[c.msg])
     \/ c.kind = "fail" /\ Fail(msgTask[c.msg])
  /\ UNCHANGED <<attempts, req, queueVars, workerVars, boundVars>>

-----------------------------------------------------------------------------
ClientStep == \/ \E r \in Requests, t \in Tasks : StartTask(r, t) \/ ReadForRetry(r, t)
              \/ \E t \in Tasks : CancelTask(t)
              \/ \E v \in Videos : DeleteVideo(v)

FaultStep == \/ \E r \in Requests : AbortRequest(r)
             \/ \E w \in Workers : \/ LoseDelivery(w) \/ Crash(w) \/ AckError(w)
                                   \/ BreakProgress(w) \/ BreakComplete(w) \/ BreakFail(w)
             \/ \E c \in late : HandleLate(c)

Next == \/ ClientStep
        \/ \E r \in Requests : RequestStep(r)
        \/ \E w \in Workers : WorkerStep(w) \/ Stop(w) \/ Exit(w) \/ Restart(w)
        \/ FaultStep

Spec == Init /\ [][Next]_vars

\* A request that is being handled goes on, and so does a running worker's loop.
Fairness == /\ \A r \in Requests : WF_vars(RequestStep(r))
            /\ \A w \in Workers : WF_vars(WorkerStep(w))

FairSpec == Spec /\ Fairness

-----------------------------------------------------------------------------
(* Properties.                                                             *)

Statuses    == {"none", "queued", "completed", "failed", "cancelled", "deleted"}
Percentages == {0, 10, 20, 60, 70, 95, 100}
RequestType == [op : {"idle", "retry", "publish"}, task : Tasks \cup {NoTask}]
LateType    == [msg : Msgs, kind : {"progress", "complete", "fail"}, point : Percentages]

\* Every variable holds a value the program could hold.
TypeOK ==
  /\ status \in [Tasks -> Statuses]
  /\ progress \in [Tasks -> Percentages]
  /\ attempts \in [Tasks -> Nat]
  /\ req \in [Requests -> RequestType]
  /\ \A r \in Requests : req[r].op # "idle" => req[r].task \in Tasks
  /\ sent \in 0 .. MaxMsgs
  /\ msgTask \in [Msgs -> Tasks \cup {NoTask}]
  /\ msgState \in [Msgs -> {"unused", "new", "pending", "acked"}]
  /\ pc \in [Workers -> {"idle", "working", "failing", "acking", "down"}]
  /\ held \in [Workers -> Msgs \cup {0}]
  /\ stage \in [Workers -> 0 .. 5]
  /\ \A w \in Workers : pc[w] = "working" => stage[w] # 0
  /\ stopping \in SUBSET Workers
  /\ late \in SUBSET LateType
  /\ faults \in Nat /\ stops \in Nat

\* The workers on whose message a decision is still to come.
Active(w) == pc[w] \in {"working", "failing"}

\* The message can still bring a decision about its task: it waits in its
\* stream, a worker is at it, or its decision is under way to the API server.
Live(m) == \/ msgState[m] = "new"
           \/ \E w \in Workers : Active(w) /\ held[w] = m
           \/ \E c \in late : c.msg = m /\ c.kind # "progress"

LiveFor(m, t) == msgTask[m] = t /\ Live(m)

\* What Redis promises and the workers rely on: a message is with at most one
\* worker, which holds it pending until it has acknowledged it, and no more
\* than one decision comes of it.
HeldByOne ==
  /\ \A m \in Msgs : msgState[m] = "unused" <=> m > sent
  /\ \A m \in Msgs : m <= sent => msgTask[m] \in Tasks
  /\ \A w \in Workers : held[w] # 0 <=> pc[w] \in {"working", "failing", "acking"}
  /\ \A w \in Workers : held[w] # 0 => msgState[held[w]] = "pending"
  /\ \A v, w \in Workers : held[v] = held[w] /\ held[v] # 0 => v = w
  /\ \A c \in late : msgState[c.msg] \in {"pending", "acked"}
  /\ \A c \in late : c.kind # "progress" => \A w \in Workers : ~(Active(w) /\ held[w] = c.msg)
  /\ \A b, c \in late : b.kind # "progress" /\ c.kind # "progress" /\ b.msg = c.msg => b = c

\* One attempt at a task at a time: however requests, workers, crashes and
\* broken connections interleave, two messages, or two requests, or a message
\* and a request, are never under way for the same task.
OneAttempt ==
  \A t \in Tasks :
    /\ \A m, n \in Msgs : LiveFor(m, t) /\ LiveFor(n, t) => m = n
    /\ \A r, s \in Requests : req[r].task = t /\ req[s].task = t => r = s
    /\ \A m \in Msgs, r \in Requests : ~(LiveFor(m, t) /\ req[r].task = t)

\* What has been decided stays decided: nothing is under way for a completed
\* task, and nothing but an accepted retry for a failed one, so that no worker
\* can later overwrite what clients have been shown.
Settled ==
  \A t \in Tasks :
    /\ status[t] \in {"none", "completed", "failed"} => \A m \in Msgs : ~LiveFor(m, t)
    /\ status[t] \in {"none", "completed"} => \A r \in Requests : req[r].task # t
    /\ status[t] = "failed" => \A r \in Requests : req[r].task = t => req[r].op = "retry"

\* No queued task is forgotten: a message, a worker or a request still carries
\* it.  The API server never looks for queued rows, so one that nothing carries
\* stays queued for ever.
QueuedIsCarried ==
  \A t \in Tasks : status[t] = "queued" =>
    \/ \E m \in Msgs : LiveFor(m, t)
    \/ \E r \in Requests : req[r].op = "publish" /\ req[r].task = t

\* A finished task is shown as finished: once completed its percentage is 100
\* (percentages and completion are written by separate callbacks).
CompletedAt100 == \A t \in Tasks : status[t] = "completed" => progress[t] = 100

\* A task's percentage goes back only when a new attempt makes its first
\* report (a retry does not reset it): reports of one attempt never overtake
\* each other, and none arrives after completion.
ProgressGrows ==
  [][\A t \in Tasks : progress'[t] < progress[t] =>
       \E w \in Workers : pc[w] = "working" /\ TaskOf(w) = t /\ stage[w] = 1]_progress

\* Every queued task is decided, cancelled or deleted in the end.
QueuedIsDecided == \A t \in Tasks : status[t] = "queued" ~> status[t] # "queued"

\* ReadTask "blocks until a task is available, then returns it": a message
\* that has been delivered is being processed by the worker that asked for it.
DeliveredIsProcessed ==
  \A m \in Msgs : msgState[m] = "pending" => \E w \in Workers : held[w] = m

\* The tasks an attempt is under way for.
Attempt == {t \in Tasks : \/ \E m \in Msgs : LiveFor(m, t)
                          \/ \E r \in Requests : req[r].task = t}

Lifecycle == INSTANCE TaskLifecycle WITH attempt <- Attempt

\* The pipeline keeps the promises of TaskLifecycle.
RefinesLifecycle == Lifecycle!Spec
=============================================================================
