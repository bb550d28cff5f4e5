------------------------ MODULE TaskRefinementProofs ------------------------
(***************************************************************************)
(* TaskPipeline implements TaskLifecycle: forgetting messages, workers and *)
(* requests, and keeping only which tasks an attempt is under way for,     *)
(* every step of the pipeline is a step of the lifecycle or a stutter.     *)
(***************************************************************************)
EXTENDS TaskPipelineProofs

\* A retry that has been accepted is for a row that failed, and that clients
\* may since have cancelled or deleted, but that nothing has decided again.
RetryInv ==
  \A r \in Requests : req[r].op = "retry" =>
    status[req[r].task] \in {"failed", "cancelled", "deleted"}

RefinementInv == AttemptInv /\ RetryInv

\* The lifecycle ends attempts undecided whenever the pipeline loses them.
LEMMA Lost ==
  ASSUME status' = status, Attempt' \subseteq Attempt
  PROVE  Lifecycle!Next
<1> DEFINE S == Attempt \ Attempt'
<1>1. S \in SUBSET Tasks
  BY DEF Attempt
<1>2. Attempt' = Attempt \ S
  OBVIOUS
<1>3. Lifecycle!Abandon(S)
  BY <1>2 DEF Lifecycle!Abandon
<1> QED BY <1>1, <1>3 DEF Lifecycle!Next

\* Neither queue nor workers move, and requests keep their tasks: the attempts
\* are the same.
LEMMA SameAttempts ==
  ASSUME UNCHANGED <<queueVars, pc, held, late>>,
         \A r \in Requests : req'[r].task = req[r].task
  PROVE  Attempt' = Attempt
<1>1. \A m \in Msgs, t \in Tasks : LiveFor(m, t)' <=> LiveFor(m, t)
  BY DEF LiveFor, Live, Active, queueVars
<1> QED BY <1>1 DEF Attempt

\* A request that takes up a task begins an attempt at it.
LEMMA OneMoreAttempt ==
  ASSUME UNCHANGED <<queueVars, pc, held, late>>, NEW r \in Requests, NEW t \in Tasks,
         req[r] = Idle, req'[r].task = t,
         \A s \in Requests \ {r} : req'[s] = req[s]
  PROVE  Attempt' = Attempt \cup {t}
<1>1. \A m \in Msgs, u \in Tasks : LiveFor(m, u)' <=> LiveFor(m, u)
  BY DEF LiveFor, Live, Active, queueVars
<1>2. \A u \in Tasks : (\E s \in Requests : req'[s].task = u)
                        <=> (u = t \/ \E s \in Requests : req[s].task = u)
  <2>1. \A u \in Tasks : req[r].task # u
    BY TaskAssumption DEF Idle
  <2> QED BY <2>1
<1>3. \A u \in Tasks : u \in Attempt' <=> u = t \/ u \in Attempt
  BY <1>1, <1>2 DEF Attempt
<1> QED BY <1>3 DEF Attempt

\* A new request, or an accepted retry, is a Start, Retry or Requeue of the
\* lifecycle; a request that publishes or dies begins nothing.
LEMMA RequestsRefine ==
  ASSUME SerialRetries, RefinementInv, NEW r \in Requests,
         \/ \E t \in Tasks : StartTask(r, t) \/ ReadForRetry(r, t)
         \/ Publish(r) \/ Requeue(r) \/ AbortRequest(r)
  PROVE  [Lifecycle!Next]_(Lifecycle!lifecycleVars)
<1> USE DEF RefinementInv, AttemptInv, QueueInv
<1>1. ASSUME NEW t \in Tasks, StartTask(r, t) PROVE Lifecycle!Next
  <2>1. req'[r].task = t /\ \A s \in Requests \ {r} : req'[s] = req[s]
    BY <1>1 DEF StartTask, TypeOK
  <2>2. Attempt' = Attempt \cup {t}
    BY <1>1, <2>1, OneMoreAttempt DEF StartTask, workerVars
  <2>3. Lifecycle!Start(t)
    BY <1>1, <2>2 DEF StartTask, Lifecycle!Start
  <2> QED BY <2>3 DEF Lifecycle!Next
<1>2. ASSUME NEW t \in Tasks, ReadForRetry(r, t) PROVE Lifecycle!Next
  <2>1. req'[r].task = t /\ \A s \in Requests \ {r} : req'[s] = req[s]
    BY <1>2 DEF ReadForRetry, TypeOK
  <2>2. Attempt' = Attempt \cup {t}
    BY <1>2, <2>1, OneMoreAttempt DEF ReadForRetry, workerVars
  <2>3. status' = status /\ status[t] = "failed"
    BY <1>2 DEF ReadForRetry, rowVars
  <2>4. t \notin Attempt
    BY <1>2, <2>3 DEF ReadForRetry, Attempt, Settled
  <2>5. Lifecycle!Retry(t)
    BY <2>2, <2>3, <2>4 DEF Lifecycle!Retry
  <2> QED BY <2>5 DEF Lifecycle!Next
<1>3. CASE Publish(r)
  <2>1. PICK t \in Tasks, n \in Msgs :
           /\ t = req[r].task /\ status' = status
           /\ req' = [req EXCEPT ![r] = Idle]
           /\ \A m \in Msgs, u \in Tasks : LiveFor(m, u)' => LiveFor(m, u) \/ (m = n /\ u = t)
    BY <1>3, Published
  <2>2. t \in Attempt
    BY <2>1 DEF Attempt
  <2>3. \A s \in Requests, u \in Tasks : req'[s].task = u => req[s].task = u
    BY <2>1, TaskAssumption DEF Idle, TypeOK
  <2>4. \A m \in Msgs, u \in Tasks : LiveFor(m, u)' => LiveFor(m, u) \/ u = t
    BY <2>1
  <2>5. Attempt' \subseteq Attempt
    BY <2>2, <2>3, <2>4 DEF Attempt
  <2> QED BY <2>1, <2>5, Lost
<1>4. CASE Requeue(r)
  <2>1. PICK t \in Tasks : t = req[r].task /\ req[r].op = "retry"
    BY <1>4 DEF Requeue, TypeOK
  <2>2. UNCHANGED <<queueVars, pc, held, late>> /\ req' = [req EXCEPT ![r].op = "publish"]
    BY <1>4 DEF Requeue, workerVars
  <2>3. \A s \in Requests : req'[s].task = req[s].task
    BY <2>2 DEF TypeOK, RequestType
  <2>4. Attempt' = Attempt
    BY <2>2, <2>3, SameAttempts
  <2>5. CASE Exists(t)
    <3>1. status' = [status EXCEPT ![t] = "queued"]
      BY <1>4, <2>1, <2>5 DEF Requeue, SetStatus
    <3>2. status[t] \in {"failed", "cancelled"}
      BY <2>1, <2>5 DEF RetryInv, Exists
    <3>3. t \in Attempt
      <4>1. \E s \in Requests : req[s].task = t
        BY <2>1
      <4> QED BY <4>1 DEF Attempt
    <3>4. Lifecycle!Requeue(t)
      BY <2>4, <3>1, <3>2, <3>3 DEF Lifecycle!Requeue
    <3> QED BY <3>4 DEF Lifecycle!Next
  <2>6. CASE ~Exists(t)
    <3>1. status' = status
      BY <1>4, <2>1, <2>6 DEF Requeue, SetStatus
    <3> QED BY <2>4, <3>1, Lost
  <2> QED BY <2>5, <2>6
<1>5. CASE AbortRequest(r)
  <2>1. \A s \in Requests, u \in Tasks : req'[s].task = u => req[s].task = u
    BY <1>5, TaskAssumption DEF AbortRequest, Idle, TypeOK
  <2>2. \A m \in Msgs, u \in Tasks : LiveFor(m, u)' => LiveFor(m, u)
    BY <1>5, LiveStable DEF AbortRequest, workerVars
  <2>3. Attempt' \subseteq Attempt
    BY <2>1, <2>2 DEF Attempt
  <2>4. status' = status
    BY <1>5 DEF AbortRequest, rowVars
  <2> QED BY <2>3, <2>4, Lost
<1> QED BY <1>1, <1>2, <1>3, <1>4, <1>5

\* A deciding callback is the lifecycle's Decide, unless the row is gone.
LEMMA DecisionsRefine ==
  ASSUME RefinementInv,
         \/ \E w \in Workers : ReportComplete(w) \/ ReportFail(w)
         \/ \E c \in late : c.kind # "progress" /\ HandleLate(c)
  PROVE  Lifecycle!Next
<1> USE DEF RefinementInv, AttemptInv, QueueInv
<1>1. PICK t \in Tasks, m \in Msgs :
        /\ LiveFor(m, t) /\ req' = req
        /\ \A n \in Msgs, u \in Tasks : LiveFor(n, u)' <=> LiveFor(n, u) /\ n # m
        /\ \/ ~Exists(t) /\ status' = status
           \/ /\ Exists(t)
              /\ \E s \in {"completed", "failed"} : status' = [status EXCEPT ![t] = s]
  BY Callback
<1>2. t \in Attempt
  BY <1>1 DEF Attempt
<1>3. \A n \in Msgs : ~LiveFor(n, t)'
  BY <1>1 DEF OneAttempt
<1>4. \A s \in Requests : req'[s].task # t
  BY <1>1 DEF OneAttempt
<1>5. \A n \in Msgs, u \in Tasks \ {t} : LiveFor(n, u)' <=> LiveFor(n, u)
  BY <1>1 DEF LiveFor
<1>6. \A u \in Tasks \ {t} : (\E s \in Requests : req'[s].task = u)
                              <=> (\E s \in Requests : req[s].task = u)
  BY <1>1
<1>7. Attempt' = Attempt \ {t}
  BY <1>3, <1>4, <1>5, <1>6 DEF Attempt
<1>8. CASE ~Exists(t) /\ status' = status
  BY <1>7, <1>8, Lost
<1>9. CASE Exists(t) /\ \E s \in {"completed", "failed"} : status' = [status EXCEPT ![t] = s]
  <2>1. status[t] \in {"queued", "cancelled"}
    BY <1>1, <1>9 DEF Settled, Exists, TypeOK, Statuses
  <2>2. Lifecycle!Decide(t)
    BY <1>2, <1>7, <1>9, <2>1 DEF Lifecycle!Decide
  <2> QED BY <2>2 DEF Lifecycle!Next
<1> QED BY <1>1, <1>8, <1>9

\* Cancelling and deleting are the lifecycle's own steps.
LEMMA ClientsRefine ==
  ASSUME \/ \E t \in Tasks : CancelTask(t)
         \/ \E v \in Videos : DeleteVideo(v)
  PROVE  Lifecycle!Next
<1>1. ASSUME NEW t \in Tasks, CancelTask(t) PROVE Lifecycle!Next
  <2>1. Attempt' = Attempt
    BY <1>1, SameAttempts DEF CancelTask, workerVars
  <2>2. Lifecycle!Cancel(t)
    BY <1>1, <2>1 DEF CancelTask, SetStatus, Exists, Lifecycle!Cancel
  <2> QED BY <2>2 DEF Lifecycle!Next
<1>2. ASSUME NEW v \in Videos, DeleteVideo(v) PROVE Lifecycle!Next
  <2>1. Attempt' = Attempt
    BY <1>2, SameAttempts DEF DeleteVideo, workerVars
  <2>2. Lifecycle!DeleteVideo(v)
    BY <1>2, <2>1 DEF DeleteVideo, Lifecycle!DeleteVideo
  <2> QED BY <2>2 DEF Lifecycle!Next
<1> QED BY <1>1, <1>2

\* A step that leaves rows and requests alone can only lose attempts.
LEMMA StillRefines ==
  ASSUME status' = status, req' = req,
         \A m \in Msgs, t \in Tasks : LiveFor(m, t)' => LiveFor(m, t)
  PROVE  Lifecycle!Next
<1>1. Attempt' \subseteq Attempt
  BY DEF Attempt
<1> QED BY <1>1, Lost

\* Every step of the pipeline is one of the lifecycle.
LEMMA StepRefines ==
  ASSUME SerialRetries, RefinementInv, [Next]_vars
  PROVE  [Lifecycle!Next]_(Lifecycle!lifecycleVars)
<1>1. ASSUME \/ \E r \in Requests, t \in Tasks : StartTask(r, t) \/ ReadForRetry(r, t)
             \/ \E r \in Requests : Publish(r) \/ Requeue(r) \/ AbortRequest(r)
      PROVE  [Lifecycle!Next]_(Lifecycle!lifecycleVars)
  BY <1>1, RequestsRefine
<1> QED
  BY <1>1, DecisionsRefine, ClientsRefine, StillSteps, StillRefines
  DEF RefinementInv, AttemptInv, Next, ClientStep, RequestStep, WorkerStep, FaultStep

\* Nothing decides a task while a retry of it is about to queue it again.
LEMMA RetryStep ==
  ASSUME SerialRetries, RefinementInv, [Next]_vars
  PROVE  RetryInv'
<1> USE DEF RefinementInv, AttemptInv, QueueInv
<1>1. ASSUME NEW s \in Requests, NEW t \in Tasks, StartTask(s, t) PROVE RetryInv'
  <2>1. req'[s].op = "publish" /\ \A r \in Requests \ {s} : req'[r] = req[r]
    BY <1>1 DEF StartTask, TypeOK
  <2>2. \A r \in Requests : req[r].task # t
    BY <1>1 DEF StartTask, Settled
  <2>3. \A u \in Tasks \ {t} : status'[u] = status[u]
    BY <1>1 DEF StartTask, TypeOK
  <2> QED BY <2>1, <2>2, <2>3 DEF RetryInv, TypeOK
<1>2. ASSUME NEW s \in Requests, NEW t \in Tasks, ReadForRetry(s, t) PROVE RetryInv'
  BY <1>2 DEF ReadForRetry, RetryInv, TypeOK, rowVars
<1>3. ASSUME NEW s \in Requests, Publish(s) \/ AbortRequest(s) PROVE RetryInv'
  <2>1. status' = status /\ req' = [req EXCEPT ![s] = Idle]
    BY <1>3 DEF Publish, AbortRequest, rowVars
  <2> QED BY <2>1 DEF RetryInv, Idle, TypeOK
<1>4. ASSUME NEW s \in Requests, Requeue(s) PROVE RetryInv'
  <2>1. req[s].op = "retry" /\ req[s].task \in Tasks
    BY <1>4 DEF Requeue, TypeOK
  <2>2. req'[s].op = "publish" /\ \A r \in Requests \ {s} : req'[r] = req[r]
    BY <1>4 DEF Requeue, TypeOK, RequestType
  <2>3. \A u \in Tasks : u # req[s].task => status'[u] = status[u]
    BY <1>4, <2>1 DEF Requeue, SetStatus, TypeOK
  <2>4. \A r \in Requests \ {s} : req[r].task # req[s].task
    BY <2>1 DEF OneAttempt
  <2> QED BY <2>2, <2>3, <2>4 DEF RetryInv, TypeOK
<1>5. ASSUME \/ \E w \in Workers : ReportComplete(w) \/ ReportFail(w)
             \/ \E c \in late : c.kind # "progress" /\ HandleLate(c)
      PROVE  RetryInv'
  <2>1. PICK t \in Tasks, m \in Msgs :
          /\ LiveFor(m, t) /\ req' = req
          /\ \/ status' = status
             \/ \E s \in {"completed", "failed"} : status' = [status EXCEPT ![t] = s]
    BY <1>5, Callback
  <2>2. \A r \in Requests : req[r].task # t
    BY <2>1 DEF OneAttempt
  <2>3. \A u \in Tasks \ {t} : status'[u] = status[u]
    BY <2>1 DEF TypeOK
  <2> QED BY <2>1, <2>2, <2>3 DEF RetryInv, TypeOK
<1>6. ASSUME \/ \E t \in Tasks : CancelTask(t)
             \/ \E v \in Videos : DeleteVideo(v)
      PROVE  RetryInv'
  <2>1. req' = req /\ \A u \in Tasks : status'[u] \in {status[u], "cancelled", "deleted"}
    BY <1>6 DEF CancelTask, DeleteVideo, SetStatus, TypeOK
  <2> QED BY <2>1 DEF RetryInv, TypeOK
<1>7. ASSUME status' = status, req' = req PROVE RetryInv'
  BY <1>7 DEF RetryInv
<1> QED
  BY <1>1, <1>2, <1>3, <1>4, <1>5, <1>6, <1>7, StillSteps
  DEF Next, ClientStep, RequestStep, WorkerStep, FaultStep

\* At the start no task has a row, and no attempt is under way.
LEMMA InitRefines == Init => Lifecycle!Init
<1> SUFFICES ASSUME Init PROVE Lifecycle!Init
  OBVIOUS
<1>1. Attempt = {}
  BY TaskAssumption DEF Init, Attempt, LiveFor
<1> QED BY <1>1 DEF Init, Lifecycle!Init

\* If clients repeat a retry only after the previous one has been answered, the
\* pipeline, with its crashes and broken connections, does what the lifecycle
\* promises: an attempt begins only when none is under way, one callback ends
\* it, and a decided task changes only by a client's wish.
THEOREM Refinement == ASSUME SerialRetries PROVE Spec => RefinesLifecycle
<1>1. Init => RefinementInv
  BY AttemptInit DEF RefinementInv, RetryInv, Init
<1>2. RefinementInv /\ [Next]_vars => RefinementInv'
  BY AttemptStep, RetryStep DEF RefinementInv
<1>3. RefinementInv /\ [Next]_vars => [Lifecycle!Next]_(Lifecycle!lifecycleVars)
  BY StepRefines
<1> QED
  BY <1>1, <1>2, <1>3, InitRefines, PTL DEF Spec, RefinesLifecycle, Lifecycle!Spec
=============================================================================
