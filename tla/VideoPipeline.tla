--------------------------- MODULE VideoPipeline ---------------------------
(***************************************************************************)
(* One video: its row, its variants, its transcoding tasks and its objects *)
(* on S3.  Every API request and every worker callback is handled by a     *)
(* goroutine of its own, as a series of statements on MySQL and calls to   *)
(* S3 with no transaction around them; each statement or call is a step    *)
(* here.  Queueing and retrying in detail are TaskPipeline's.              *)
(***************************************************************************)
EXTENDS Naturals, FiniteSets

CONSTANTS
  Res,            \* resolutions a video is transcoded to
  Tasks,          \* transcode_tasks rows that may be created
  JobOf,          \* what a task makes: a resolution, "probe" or "thumbnail"
  NoRes, NoTask,
  Handlers,       \* handler goroutines of the API server at work at once
  MaxWorkers,     \* worker processes
  Operations,     \* what clients do besides starting tasks
  QuietDeletes,   \* whether clients delete and re-upload only between transcodings
  TasksCascade,   \* whether the schema ties a task to its video (see HardDelete)
  Faults,         \* what may go wrong
  MaxFailures,    \* bound: how often something does
  MaxEdits        \* bound: client operations of the kinds in Operations

AllOperations == {"cancel", "retry", "delete_variant", "delete_variants", "upload",
                  "toggle_drm", "delete_video", "edit", "protect"}

\* A task's work fails; S3 refuses the master playlist of a finished
\* transcoding, a deletion, or the master playlist rebuilt by a deletion; the
\* DRM key of the video cannot be created.
AllFaults == {"work", "master", "delete", "rebuild", "keys"}

Others == {"probe", "thumbnail"}

ASSUME ResAssumption == NoRes \notin Res /\ Res \cap Others = {}
ASSUME JobAssumption == JobOf \in [Tasks -> Res \cup Others]
ASSUME OpAssumption  == Operations \subseteq AllOperations /\ Faults \subseteq AllFaults
ASSUME FlagAssumption == {QuietDeletes, TasksCascade} \subseteq BOOLEAN
ASSUME BoundAssumption == {MaxWorkers, MaxFailures, MaxEdits} \subseteq Nat

VARIABLES
  video,     \* videos row: its status and whether master_playlist_key is set
  variants,  \* video_variants rows: the status for each resolution
  files,     \* resolutions whose playlist and segments are on S3
  master,    \* resolutions that master.m3u8 on S3 lists ({}: no such object)
  tstat,     \* transcode_tasks.status
  run,       \* where each task is between its message and its callback
  handler,   \* local state of each handler goroutine
  failures, edits

taskVars  == <<tstat, run>>
s3Vars    == <<files, master>>
boundVars == <<failures, edits>>
vars == <<video, variants, s3Vars, taskVars, handler, boundVars>>

VideoStatuses == {"draft", "uploaded", "processing", "ready", "error"}
Row == [status : VideoStatuses, key : BOOLEAN]

\* No row: the video has been deleted for good.
Gone == [status |-> "gone", key |-> FALSE]

\* A handler: what it does next, the task and resolution it is about, the tasks
\* it has still to create, whether it switches DRM on, the videos row it has
\* read, the copy of it that GenerateKeys has, and the ready variants read.
Draft == [status |-> "draft", key |-> FALSE]
Idle == [pc |-> "idle", task |-> NoTask, res |-> NoRes, todo |-> {}, drm |-> FALSE,
         row |-> Draft, copy |-> Draft, ready |-> {}]

Init ==
  /\ video = Draft
  /\ variants = [r \in Res |-> "none"]
  /\ files = {} /\ master = {}
  /\ tstat = [t \in Tasks |-> "none"]
  /\ run = [t \in Tasks |-> "none"]
  /\ handler = [h \in Handlers |-> Idle]
  /\ failures = 0 /\ edits = 0

At(h, pc)     == handler[h].pc = pc
Goto(h, pc)   == handler' = [handler EXCEPT ![h].pc = pc]
Return(h)     == handler' = [handler EXCEPT ![h] = Idle]
Ready         == {r \in Res : variants[r] = "ready"}
Transcodes    == {t \in Tasks : JobOf[t] \in Res}
Pending       == {t \in Tasks :
                    tstat[t] \notin {"none", "deleted", "completed", "failed", "cancelled"}}
InFlight      == {t \in Tasks : run[t] # "none"}

\* Something of the given kind goes wrong.
Failure(kind) ==
  /\ kind \in Faults /\ failures < MaxFailures /\ failures' = failures + 1

\* A client operation of the given kind.
Client(kind) ==
  /\ kind \in Operations /\ edits < MaxEdits /\ edits' = edits + 1
  /\ UNCHANGED failures

\* No row for this task yet, and no request that is about to write it.
Unused(t) == tstat[t] = "none" /\ \A h \in Handlers : t \notin handler[h].todo

\* Nothing is being transcoded, and no request is being handled.
Quiet == InFlight = {} /\ Pending = {} /\ \A h \in Handlers : At(h, "idle")

DeletePcs == {"v_files", "v_row", "v_list", "v_master", "v_save",
              "d_files", "u_files", "d_master", "d_rows", "d_keys", "d_mark", "d_save",
              "x_files", "x_tasks", "x_row"}
Deleting  == \E h \in Handlers : handler[h].pc \in DeletePcs

\* Whether clients may start (or delete) now.
MayStart  == QuietDeletes => ~Deleting
MayDelete == QuietDeletes => Quiet

-----------------------------------------------------------------------------
(* StartTranscode: the video becomes "processing"; then, one resolution    *)
(* after the other, a task row, a variant row and a message are written.   *)

\* The row is read.  With DRM ("protect") there must be a key first.
StartTranscode(h, S) ==
  /\ At(h, "idle") /\ MayStart /\ video # Gone
  /\ S # {} /\ \A t \in S : Unused(t)
  /\ \A t, u \in S : JobOf[t] = JobOf[u] => t = u
  /\ \/ /\ handler' = [handler EXCEPT ![h] = [Idle EXCEPT !.pc = "process", !.todo = S]]
        /\ UNCHANGED boundVars
     \/ /\ handler' = [handler EXCEPT ![h] =
             [Idle EXCEPT !.pc = "s_keys", !.todo = S, !.row = video]]
        /\ Client("protect")
  /\ UNCHANGED <<video, variants, s3Vars, taskVars>>

\* GenerateKeys: a key there is will do; else one is created and the row read
\* again, to be marked.  When the key is refused the request ends here.
GenerateKeys(h) ==
  /\ handler[h].pc \in {"s_keys", "d_keys"}
  /\ \/ /\ Goto(h, IF At(h, "s_keys") THEN "s_save" ELSE "d_save")
        /\ UNCHANGED failures
     \/ /\ video # Gone
        /\ handler' = [handler EXCEPT ![h].pc = IF @ = "s_keys" THEN "s_mark" ELSE "d_mark",
                                      ![h].copy = video]
        /\ UNCHANGED failures
     \/ /\ (video = Gone /\ UNCHANGED failures) \/ Failure("keys")
        /\ Return(h)
  /\ UNCHANGED <<video, variants, s3Vars, taskVars, edits>>

MarkVideo(h) ==
  /\ handler[h].pc \in {"s_mark", "d_mark"}
  /\ video' = handler[h].copy
  /\ Goto(h, IF At(h, "s_mark") THEN "s_save" ELSE "d_save")
  /\ UNCHANGED <<variants, s3Vars, taskVars, boundVars>>

\* Unless it had has_drm set, the row read at the start is saved too.
SaveProtected(h) ==
  /\ At(h, "s_save")
  /\ video' \in {video, handler[h].row}
  /\ Goto(h, "process")
  /\ UNCHANGED <<variants, s3Vars, taskVars, boundVars>>

SetProcessing(h) ==
  /\ At(h, "process")
  /\ video' = IF video = Gone THEN video ELSE [video EXCEPT !.status = "processing"]
  /\ Goto(h, "create")
  /\ UNCHANGED <<variants, s3Vars, taskVars, boundVars>>

\* Where the schema says so, a video that is gone can have no task.
CreateTask(h) ==
  /\ At(h, "create")
  /\ \/ /\ video # Gone \/ ~TasksCascade
        /\ \E t \in handler[h].todo :
             /\ tstat' = [tstat EXCEPT ![t] = "queued"]
             /\ handler' = [handler EXCEPT
                  ![h].pc = IF t \in Transcodes THEN "variant" ELSE "publish",
                  ![h].task = t,
                  ![h].todo = @ \ {t}]
     \/ video = Gone /\ TasksCascade /\ Return(h) /\ UNCHANGED tstat
  /\ UNCHANGED <<video, variants, s3Vars, run, boundVars>>

\* CreateOrUpdateVariant.  FirstOrCreate reads an existing row into the very
\* struct it then assigns from, so that a row there is stays as it is; a video
\* that is gone gets none, for its foreign key, and the error is ignored.
WriteVariant(h) ==
  /\ At(h, "variant")
  /\ variants' = [variants EXCEPT ![JobOf[handler[h].task]] =
                    IF @ = "none" /\ video # Gone THEN "processing" ELSE @]
  /\ Goto(h, "publish")
  /\ UNCHANGED <<video, s3Vars, taskVars, boundVars>>

PublishTask(h) ==
  /\ At(h, "publish")
  /\ run' = [run EXCEPT ![handler[h].task] = "waiting"]
  /\ IF handler[h].todo = {} THEN Return(h) ELSE Goto(h, "create")
  /\ UNCHANGED <<video, variants, s3Vars, tstat, boundVars>>

\* StartThumbnailGeneration: a row and a message, the video is left alone.
StartThumbnails(h, t) ==
  /\ At(h, "idle") /\ MayStart /\ video # Gone /\ JobOf[t] = "thumbnail" /\ Unused(t)
  /\ handler' = [handler EXCEPT ![h] = [Idle EXCEPT !.pc = "create", !.todo = {t}]]
  /\ UNCHANGED <<video, variants, s3Vars, taskVars, boundVars>>

\* CancelTask: one UPDATE, whatever the status was.
CancelTask(t) ==
  /\ tstat[t] \notin {"none", "deleted"} /\ Client("cancel")
  /\ tstat' = [tstat EXCEPT ![t] = "cancelled"]
  /\ UNCHANGED <<video, variants, s3Vars, run, handler>>

\* RetryTask, in one step: the row goes back to "queued" and a message is sent;
\* neither the video nor the variant is touched.
RetryTask(t) ==
  /\ tstat[t] = "failed" /\ run[t] = "none" /\ MayStart /\ Client("retry")
  /\ tstat' = [tstat EXCEPT ![t] = "queued"]
  /\ run' = [run EXCEPT ![t] = "waiting"]
  /\ UNCHANGED <<video, variants, s3Vars, handler>>

-----------------------------------------------------------------------------
(* The workers.                                                            *)

Busy == {t \in Tasks : run[t] \notin {"none", "waiting"}}

TakeTask(t) ==
  /\ run[t] = "waiting" /\ Cardinality(Busy) < MaxWorkers
  /\ run' = [run EXCEPT ![t] = "running"]
  /\ UNCHANGED <<video, variants, s3Vars, tstat, handler, boundVars>>

\* uploadDirectory puts the playlist and the segments under a prefix named
\* after the resolution, whoever else writes or deletes there.
UploadVariant(t) ==
  /\ run[t] = "running"
  /\ run' = [run EXCEPT ![t] = "uploaded"]
  /\ files' = files \cup ({JobOf[t]} \cap Res)
  /\ UNCHANGED <<video, variants, master, tstat, handler, boundVars>>

\* The work fails, or the worker learns from a progress report that the task
\* has been cancelled: FailTask marks the row, and does nothing else.
FailTask(t) ==
  /\ \/ run[t] = "running" /\ Failure("work")
     \/ run[t] \in {"running", "uploaded"} /\ tstat[t] = "cancelled" /\ UNCHANGED failures
  /\ tstat' = [tstat EXCEPT ![t] = IF @ = "deleted" THEN @ ELSE "failed"]
  /\ run' = [run EXCEPT ![t] = "none"]
  /\ UNCHANGED <<video, variants, s3Vars, handler, edits>>

-----------------------------------------------------------------------------
(* CompleteTask, called back by the worker, which waits for the answer.    *)

\* The row must be found first; a thumbnail's result does not concern us here.
CompleteTask(h, t) ==
  /\ At(h, "idle") /\ run[t] = "uploaded"
  /\ tstat' = [tstat EXCEPT ![t] = IF @ = "deleted" THEN @ ELSE "completed"]
  /\ \/ /\ JobOf[t] = "thumbnail" \/ tstat[t] = "deleted"
        /\ run' = [run EXCEPT ![t] = "none"]
        /\ UNCHANGED handler
     \/ /\ JobOf[t] # "thumbnail" /\ tstat[t] # "deleted"
        /\ run' = [run EXCEPT ![t] = "reporting"]
        /\ handler' = [handler EXCEPT ![h] = [Idle EXCEPT
             !.pc = IF JobOf[t] = "probe" THEN "p_read" ELSE "mark", !.task = t]]
  /\ UNCHANGED <<video, variants, s3Vars, boundVars>>

\* The callback has been handled; the worker acknowledges the message.
Answer(h) ==
  /\ run' = [run EXCEPT ![handler[h].task] = "none"]
  /\ Return(h)

\* handleProbeResult: the row is read; a draft becomes "uploaded", and the
\* whole row is saved.
ReadForProbe(h) ==
  /\ At(h, "p_read")
  /\ \/ video = Gone /\ Answer(h)
     \/ /\ video # Gone
        /\ handler' = [handler EXCEPT ![h].pc = "p_save",
             ![h].row = [video EXCEPT !.status = IF @ = "draft" THEN "uploaded" ELSE @]]
        /\ UNCHANGED run
  /\ UNCHANGED <<video, variants, s3Vars, tstat, boundVars>>

SaveProbe(h) ==
  /\ At(h, "p_save")
  /\ video' = handler[h].row
  /\ Answer(h)
  /\ UNCHANGED <<variants, s3Vars, tstat, boundVars>>

\* handleTranscodeResult lists the variants, looking for one to mark.
FindVariant(h) ==
  /\ At(h, "mark")
  /\ IF variants[JobOf[handler[h].task]] = "processing"
       THEN Goto(h, "save_variant") ELSE Goto(h, "count")
  /\ UNCHANGED <<video, variants, s3Vars, taskVars, boundVars>>

\* Defect: the variant is given the status of the task.
SaveTaskStatus(h) ==
  /\ At(h, "save_variant")
  /\ variants' = [variants EXCEPT ![JobOf[handler[h].task]] = "completed"]
  /\ Goto(h, "count")
  /\ UNCHANGED <<video, s3Vars, taskVars, boundVars>>

\* Defect: the callback ends when the variant has been marked.
SaveVariantAndAnswer(h) ==
  /\ At(h, "save_variant")
  /\ variants' = [variants EXCEPT ![JobOf[handler[h].task]] = "ready"]
  /\ Answer(h)
  /\ UNCHANGED <<video, s3Vars, tstat, boundVars>>

\* UpdateVariant saves the row it has read, even if it has been deleted since,
\* unless the video has too.
SaveVariant(h) ==
  /\ At(h, "save_variant")
  /\ variants' = [variants EXCEPT ![JobOf[handler[h].task]] = IF video = Gone THEN @ ELSE "ready"]
  /\ Goto(h, "count")
  /\ UNCHANGED <<video, s3Vars, taskVars, boundVars>>

\* Defect: tasks count as pending until their messages are acknowledged.
CountUnacknowledged(h) ==
  /\ At(h, "count")
  /\ IF InFlight = {} THEN Goto(h, "list") /\ UNCHANGED run ELSE Answer(h)
  /\ UNCHANGED <<video, variants, s3Vars, tstat, boundVars>>

\* checkAndBuildMasterPlaylist: only when no task of any type is pending.
CountPending(h) ==
  /\ At(h, "count")
  /\ IF Pending = {} THEN Goto(h, "list") /\ UNCHANGED run ELSE Answer(h)
  /\ UNCHANGED <<video, variants, s3Vars, tstat, boundVars>>

\* Defect: every variant is listed, whatever its status.
ListAllVariants(h) ==
  /\ At(h, "list")
  /\ handler' = [handler EXCEPT ![h].ready = {r \in Res : variants[r] # "none"},
                                ![h].pc = "upload_master"]
  /\ UNCHANGED <<video, variants, s3Vars, taskVars, boundVars>>

ListVariants(h) ==
  /\ At(h, "list")
  /\ handler' = [handler EXCEPT ![h].ready = Ready,
                                ![h].pc = IF Ready = {} THEN "set_error" ELSE "upload_master"]
  /\ UNCHANGED <<video, variants, s3Vars, taskVars, boundVars>>

SetError(h) ==
  /\ At(h, "set_error")
  /\ video' = IF video = Gone THEN video ELSE [video EXCEPT !.status = "error"]
  /\ Answer(h)
  /\ UNCHANGED <<variants, s3Vars, tstat, boundVars>>

\* Defect: the error of the upload is ignored.
UploadMasterUnchecked(h) ==
  /\ At(h, "upload_master")
  /\ \/ master' = handler[h].ready /\ UNCHANGED failures
     \/ Failure("master") /\ UNCHANGED master
  /\ Goto(h, "set_ready")
  /\ UNCHANGED <<video, variants, files, taskVars, edits>>

UploadMaster(h) ==
  /\ At(h, "upload_master")
  /\ \/ /\ master' = handler[h].ready
        /\ Goto(h, "set_ready")
        /\ UNCHANGED failures
     \/ /\ Failure("master")
        /\ Goto(h, "set_error")
        /\ UNCHANGED master
  /\ UNCHANGED <<video, variants, files, taskVars, edits>>

\* Defect: the error of FindByID is ignored.
FindReadyUnchecked(h) ==
  /\ At(h, "set_ready")
  /\ Goto(h, "r_save")
  /\ UNCHANGED <<video, variants, s3Vars, taskVars, boundVars>>

\* FindByID must find the row; of the columns modelled here Save then
\* overwrites both, whatever has become of the row in between.
FindReady(h) ==
  /\ At(h, "set_ready")
  /\ IF video = Gone THEN Answer(h) ELSE Goto(h, "r_save") /\ UNCHANGED run
  /\ UNCHANGED <<video, variants, s3Vars, tstat, boundVars>>

SetReady(h) ==
  /\ At(h, "r_save")
  /\ video' = [status |-> "ready", key |-> TRUE]
  /\ Answer(h)
  /\ UNCHANGED <<variants, s3Vars, tstat, boundVars>>

CallbackStep(h) == \/ ReadForProbe(h) \/ SaveProbe(h)
                   \/ FindVariant(h) \/ SaveVariant(h) \/ CountPending(h) \/ ListVariants(h)
                   \/ SetError(h) \/ UploadMaster(h) \/ FindReady(h) \/ SetReady(h)

-----------------------------------------------------------------------------
(* DeleteVariant: the objects, the row, then the master playlist anew from *)
(* what is left, and the videos row as it was read at the start.           *)

DeleteVariant(h, r) ==
  /\ At(h, "idle") /\ MayDelete /\ variants[r] # "none" /\ Client("delete_variant")
  /\ handler' = [handler EXCEPT ![h] = [Idle EXCEPT !.pc = "v_files", !.res = r, !.row = video]]
  /\ UNCHANGED <<video, variants, s3Vars, taskVars>>

DeleteVariantFiles(h) ==
  /\ At(h, "v_files")
  /\ \/ files' = files \ {handler[h].res} /\ UNCHANGED failures
     \/ Failure("delete") /\ UNCHANGED files
  /\ Goto(h, "v_row")
  /\ UNCHANGED <<video, variants, master, taskVars, edits>>

DeleteVariantRow(h) ==
  /\ At(h, "v_row")
  /\ variants' = [variants EXCEPT ![handler[h].res] = "none"]
  /\ Goto(h, "v_list")
  /\ UNCHANGED <<video, s3Vars, taskVars, boundVars>>

ListRemaining(h) ==
  /\ At(h, "v_list")
  /\ handler' = [handler EXCEPT ![h].ready = Ready, ![h].pc = "v_master"]
  /\ UNCHANGED <<video, variants, s3Vars, taskVars, boundVars>>

\* Defect: the row is left as it is when no ready variant remains.
RebuildKeepingRow(h) ==
  /\ At(h, "v_master")
  /\ master' = handler[h].ready
  /\ Goto(h, "v_save")
  /\ UNCHANGED <<video, variants, files, taskVars, boundVars>>

\* Without a ready variant left the object is deleted (if the row read names
\* one), the key is cleared and a ready video becomes "uploaded".  Whether S3
\* does what it is asked is not looked at.
RebuildMaster(h) ==
  /\ At(h, "v_master")
  /\ LET none == handler[h].ready = {}
         row  == handler[h].row
     IN /\ \/ /\ master' = IF none /\ ~row.key THEN master ELSE handler[h].ready
              /\ UNCHANGED failures
           \/ Failure("rebuild") /\ UNCHANGED master
        /\ handler' = [handler EXCEPT ![h].pc = "v_save",
             ![h].row = IF none
                          THEN [status |-> IF row.status = "ready" THEN "uploaded" ELSE row.status,
                                key |-> FALSE]
                          ELSE row]
  /\ UNCHANGED <<video, variants, files, taskVars, edits>>

\* Save writes every column of the row read at the start; a row that has been
\* deleted in between is inserted again.
SaveRow(h) ==
  /\ handler[h].pc \in {"v_save", "e_save"}
  /\ video' = handler[h].row
  /\ Return(h)
  /\ UNCHANGED <<variants, s3Vars, taskVars, boundVars>>

-----------------------------------------------------------------------------
(* DeleteVariants, and CompleteUpload of a new original: everything that   *)
(* has been generated goes, the tasks under way are not cancelled.         *)

Reset == {"ready", "processing", "error"}

DeleteVariants(h) ==
  /\ At(h, "idle") /\ MayDelete /\ video # Gone /\ Client("delete_variants")
  /\ handler' = [handler EXCEPT ![h] = [Idle EXCEPT !.pc = "d_files",
       !.row = [video EXCEPT !.status = IF @ \in Reset THEN "uploaded" ELSE @]]]
  /\ UNCHANGED <<video, variants, s3Vars, taskVars>>

\* ToggleDRM goes the same way, but for the errors of S3, which it ignores, and
\* for the key, which is to be there when DRM is switched on.
ToggleDRM(h) ==
  /\ At(h, "idle") /\ MayDelete /\ video # Gone /\ Client("toggle_drm")
  /\ \E on \in BOOLEAN :
       handler' = [handler EXCEPT ![h] = [Idle EXCEPT !.pc = "u_files", !.drm = on,
         !.row = [video EXCEPT !.status = IF @ \in Reset THEN "uploaded" ELSE @]]]
  /\ UNCHANGED <<video, variants, s3Vars, taskVars>>

\* Once the row is saved, a probe task is created for the new original.
CompleteUpload(h, probe) ==
  /\ At(h, "idle") /\ MayDelete /\ video # Gone /\ Client("upload")
  /\ JobOf[probe] = "probe" /\ Unused(probe)
  /\ handler' = [handler EXCEPT ![h] = [Idle EXCEPT
       !.pc = IF video.status \in Reset THEN "u_files" ELSE "d_save",
       !.row = [video EXCEPT !.status = "uploaded"],
       !.todo = {probe}]]
  /\ UNCHANGED <<video, variants, s3Vars, taskVars>>

\* DeleteVariants gives up when S3 fails here, the others go on.
DeleteAllFiles(h) ==
  /\ \/ /\ handler[h].pc \in {"d_files", "u_files"}
        /\ files' = {}
        /\ Goto(h, "d_master")
        /\ UNCHANGED failures
     \/ At(h, "d_files") /\ Failure("delete") /\ Return(h) /\ UNCHANGED files
     \/ At(h, "u_files") /\ Failure("delete") /\ Goto(h, "d_master") /\ UNCHANGED files
  /\ UNCHANGED <<video, variants, master, taskVars, edits>>

\* If the row read names a master playlist; an error of S3 is ignored.
DeleteMaster(h) ==
  /\ At(h, "d_master")
  /\ \/ master' = (IF handler[h].row.key THEN {} ELSE master) /\ UNCHANGED failures
     \/ handler[h].row.key /\ Failure("delete") /\ UNCHANGED master
  /\ handler' = [handler EXCEPT ![h].pc = "d_rows", ![h].row.key = FALSE]
  /\ UNCHANGED <<video, variants, files, taskVars, edits>>

DeleteRows(h) ==
  /\ At(h, "d_rows")
  /\ variants' = [r \in Res |-> "none"]
  /\ Goto(h, IF handler[h].drm THEN "d_keys" ELSE "d_save")
  /\ UNCHANGED <<video, s3Vars, taskVars, boundVars>>

SaveReset(h) ==
  /\ At(h, "d_save")
  /\ video' = handler[h].row
  /\ IF handler[h].todo = {} THEN Return(h) ELSE Goto(h, "create")
  /\ UNCHANGED <<variants, s3Vars, taskVars, boundVars>>

\* VideoService.Update and InitiateUpload: the row is read, columns that are
\* not modelled here are set, and the whole row is saved.
EditVideo(h) ==
  /\ At(h, "idle") /\ video # Gone /\ Client("edit")
  /\ handler' = [handler EXCEPT ![h] = [Idle EXCEPT !.pc = "e_save", !.row = video]]
  /\ UNCHANGED <<video, variants, s3Vars, taskVars>>

-----------------------------------------------------------------------------
(* DeleteVideo: every object under the video's prefix, the tasks' rows, and*)
(* in a transaction the video's row with all that belongs to it.           *)

DeleteVideo(h) ==
  /\ At(h, "idle") /\ MayDelete /\ video # Gone /\ Client("delete_video")
  /\ handler' = [handler EXCEPT ![h] = [Idle EXCEPT !.pc = "x_files"]]
  /\ UNCHANGED <<video, variants, s3Vars, taskVars>>

DeleteObjects(h) ==
  /\ At(h, "x_files")
  /\ \/ files' = {} /\ master' = {} /\ UNCHANGED failures
     \/ Failure("delete") /\ UNCHANGED s3Vars
  /\ Goto(h, "x_tasks")
  /\ UNCHANGED <<video, variants, taskVars, edits>>

\* Messages under way are left alone: their callbacks find no row.
DeleteTasks(h) ==
  /\ At(h, "x_tasks")
  /\ tstat' = [t \in Tasks |-> IF tstat[t] = "none" THEN "none" ELSE "deleted"]
  /\ Goto(h, "x_row")
  /\ UNCHANGED <<video, variants, s3Vars, run, boundVars>>

\* The migrations make the tasks of a video go with it, and refuse any for a
\* video that is gone; on a schema made by AutoMigrate such tasks stay.
HardDelete(h) ==
  /\ At(h, "x_row")
  /\ video' = Gone
  /\ variants' = [r \in Res |-> "none"]
  /\ tstat' = [t \in Tasks |->
       IF TasksCascade /\ tstat[t] # "none" THEN "deleted" ELSE tstat[t]]
  /\ Return(h)
  /\ UNCHANGED <<s3Vars, run, boundVars>>

-----------------------------------------------------------------------------
HandlerStep(h) == \/ GenerateKeys(h) \/ MarkVideo(h) \/ SaveProtected(h) \/ SetProcessing(h)
                  \/ CreateTask(h) \/ WriteVariant(h) \/ PublishTask(h)
                  \/ CallbackStep(h)
                  \/ DeleteVariantFiles(h) \/ DeleteVariantRow(h) \/ ListRemaining(h)
                  \/ RebuildMaster(h) \/ SaveRow(h)
                  \/ DeleteAllFiles(h) \/ DeleteMaster(h) \/ DeleteRows(h) \/ SaveReset(h)
                  \/ DeleteObjects(h) \/ DeleteTasks(h) \/ HardDelete(h)

ClientStep(h) == \/ \E S \in SUBSET Transcodes : StartTranscode(h, S)
                 \/ \E t \in Tasks : StartThumbnails(h, t)
                 \/ \E r \in Res : DeleteVariant(h, r)
                 \/ \E t \in Tasks : CompleteUpload(h, t)
                 \/ DeleteVariants(h) \/ ToggleDRM(h) \/ DeleteVideo(h) \/ EditVideo(h)

WorkerStep(t) == TakeTask(t) \/ UploadVariant(t) \/ \E h \in Handlers : CompleteTask(h, t)

Next == \/ \E h \in Handlers : HandlerStep(h) \/ ClientStep(h)
        \/ \E t \in Tasks : WorkerStep(t) \/ FailTask(t) \/ CancelTask(t) \/ RetryTask(t)

Spec == Init /\ [][Next]_vars

\* Handlers run on, and workers take and finish their tasks.
Fairness == /\ \A h \in Handlers : WF_vars(HandlerStep(h))
            /\ \A t \in Tasks : SF_vars(WorkerStep(t))

FairSpec == Spec /\ Fairness

-----------------------------------------------------------------------------
(* Properties.                                                             *)

TypeOK ==
  /\ video \in Row \cup {Gone}
  /\ variants \in [Res -> {"none", "processing", "ready"}]
  /\ files \in SUBSET Res /\ master \in SUBSET Res
  /\ tstat \in [Tasks -> {"none", "queued", "completed", "failed", "cancelled", "deleted"}]
  /\ run \in [Tasks -> {"none", "waiting", "running", "uploaded", "reporting"}]
  /\ \A h \in Handlers :
       /\ handler[h].task \in Tasks \cup {NoTask} /\ handler[h].res \in Res \cup {NoRes}
       /\ handler[h].todo \in SUBSET Tasks /\ handler[h].ready \in SUBSET Res
       /\ {handler[h].row, handler[h].copy} \subseteq Row
  /\ failures \in 0 .. MaxFailures /\ edits \in 0 .. MaxEdits

\* A ready video can be played: its master playlist is there, and everything
\* it lists is a ready variant whose objects are there too.
ReadyIsPlayable ==
  video.status = "ready" /\ ~Deleting =>
    /\ video.key /\ master # {}
    /\ \A r \in master : variants[r] = "ready" /\ r \in files

\* A ready video's master playlist lists every ready variant, once the
\* callbacks that have been received are handled.
MasterIsComplete ==
  video.status = "ready" /\ Quiet => Ready \subseteq master

\* "all variants completed -> master.m3u8 is generated -> the status becomes
\* ready": when the tasks have all been completed, nothing else is needed.
CompletedIsReady ==
  Quiet /\ (\E t \in Transcodes : tstat[t] = "completed")
        /\ (\A t \in Tasks : tstat[t] \in {"none", "completed"})
    => video.status = "ready"

\* A video that is being transcoded ends as ready or in error.
ProcessingEnds == video.status = "processing" ~> video.status # "processing"

\* Requests that have read the videos row and have not saved it yet.
RowPcs == {"p_save", "r_save", "e_save", "s_keys", "s_mark", "s_save"}
            \cup (DeletePcs \ {"x_files", "x_tasks", "x_row"})
HoldsRow(h) == handler[h].pc \in RowPcs

\* A deleted video comes back by a request that read its row before, and in no
\* other way: once none is left, no callback, retry, start, edit or deletion,
\* under way or to come, inserts its row or one of a variant again.
DeletedIsGone ==
  [](video = Gone /\ ~(\E h \in Handlers : HoldsRow(h))
       => [](video = Gone /\ \A r \in Res : variants[r] = "none"))
=============================================================================
