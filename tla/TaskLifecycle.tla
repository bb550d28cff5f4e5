--------------------------- MODULE TaskLifecycle ---------------------------
(***************************************************************************)
(* What the task subsystem promises, without queue, workers or requests.   *)
(* Every task has a row with a status, and at most one attempt at it is    *)
(* under way: from the request that starts (or retries) it until the one   *)
(* callback that decides it, or until the attempt is lost.  A decided task *)
(* changes only because a client retries, cancels or deletes it.           *)
(***************************************************************************)
CONSTANTS Tasks,     \* transcode_tasks rows that may be created
          Videos,    \* videos they belong to
          VideoOf    \* the video of each task

VARIABLES status,    \* the status column of each row ("none": not created)
          attempt    \* the tasks an attempt is under way for

lifecycleVars == <<status, attempt>>

Init == /\ status = [t \in Tasks |-> "none"]
        /\ attempt = {}

\* A start request inserts the row.
Start(t) ==
  /\ status[t] = "none"
  /\ status' = [status EXCEPT ![t] = "queued"]
  /\ attempt' = attempt \cup {t}

\* A retry request is accepted: only for a failed task with no attempt left.
Retry(t) ==
  /\ status[t] = "failed" /\ t \notin attempt
  /\ attempt' = attempt \cup {t}
  /\ UNCHANGED status

\* The accepted retry puts the row back in the queue (a cancel may have
\* slipped in since).
Requeue(t) ==
  /\ t \in attempt /\ status[t] \in {"failed", "cancelled"}
  /\ status' = [status EXCEPT ![t] = "queued"]
  /\ UNCHANGED attempt

\* The attempt's callback decides the task and ends the attempt.
Decide(t) ==
  /\ t \in attempt /\ status[t] \in {"queued", "cancelled"}
  /\ \E s \in {"completed", "failed"} : status' = [status EXCEPT ![t] = s]
  /\ attempt' = attempt \ {t}

\* Attempts end undecided: their messages or requests are lost, or their
\* rows have been deleted.
Abandon(S) ==
  /\ attempt' = attempt \ S
  /\ UNCHANGED status

Cancel(t) ==
  /\ status[t] \notin {"none", "deleted"}
  /\ status' = [status EXCEPT ![t] = "cancelled"]
  /\ UNCHANGED attempt

DeleteVideo(v) ==
  /\ status' = [t \in Tasks |-> IF VideoOf[t] = v THEN "deleted" ELSE status[t]]
  /\ UNCHANGED attempt

Next == \/ \E t \in Tasks : \/ Start(t) \/ Retry(t) \/ Requeue(t)
                            \/ Decide(t) \/ Cancel(t)
        \/ \E S \in SUBSET Tasks : Abandon(S)
        \/ \E v \in Videos : DeleteVideo(v)

Spec == Init /\ [][Next]_lifecycleVars
=============================================================================
