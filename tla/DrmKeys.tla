------------------------------ MODULE DrmKeys ------------------------------
(***************************************************************************)
(* The AES-128 key of one video.  The row of drm_keys is copied into the   *)
(* parameters of each task and from there into the playlist the worker     *)
(* writes, while the player asks the API for the key with that id.         *)
(* Nothing ties the copies to the row: it may be deleted, drawn again or   *)
(* written back while tasks and segments live on.  A step: one statement,  *)
(* or a handler that gives up before its next one.                         *)
(***************************************************************************)
EXTENDS Naturals, FiniteSets

CONSTANTS
  Res,           \* resolutions
  Keys,          \* key ids that may be drawn
  Tasks,         \* transcode_tasks rows that may be created
  Handlers,      \* handler goroutines at work at once
  Legacy,        \* the id of a key row older than the AES-128 end point
  NoRow,         \* no drm_keys row; no key in a task's parameters
  NoFiles,       \* no objects on S3
  Operations,    \* what clients do besides starting transcodings
  QuietToggles,  \* whether clients change keys only while nothing else is going on
  MaxOps         \* bound: client operations of the kinds in Operations

AllOperations == {"generate", "regenerate", "toggle", "retry", "edit", "mark"}

ASSUME KeyAssumption   == Legacy \notin Keys /\ NoRow # NoFiles
ASSUME OpAssumption    == Operations \subseteq AllOperations /\ QuietToggles \in BOOLEAN
ASSUME BoundAssumption == MaxOps \in Nat

VARIABLES
  hasDrm,    \* videos.has_drm
  keyRow,    \* the video's row of drm_keys
  drawn,     \* keys drawn so far
  variants,  \* video_variants rows
  files,     \* for each resolution the key named by its playlist on S3
  tasks,     \* transcode_tasks rows with the key among their parameters
  handler,   \* local state of each handler goroutine
  torn,      \* history: an operation gave up with the key deleted, and none was drawn since
  ops

vars == <<hasDrm, keyRow, drawn, variants, files, tasks, handler, torn, ops>>

Ids == Keys \cup {Legacy}

\* key_url leads to the end point there is, or to the one of former versions.
KeyRow == [id : Ids, url : {"ok", "legacy"}]

ASSUME RowAssumption == NoRow \notin KeyRow /\ NoFiles \notin KeyRow /\ Res # {}

NoTask == [state |-> "none", res |-> CHOOSE r \in Res : TRUE, key |-> NoRow, old |-> FALSE]
Task == [state : {"none", "queued", "running", "uploaded", "completed", "failed"},
         res : Res, key : KeyRow \cup {NoRow},
         old : BOOLEAN]   \* created before DRM was toggled or the key regenerated

\* A handler: what it does next, for which operation, on which resolution,
\* with which has_drm read or wanted, and which key row it has read or drawn.
Idle == [pc |-> "idle", op |-> "none", res |-> CHOOSE r \in Res : TRUE, drm |-> FALSE,
         key |-> NoRow]

\* migrateDRMColumns has left rows with the old URL.
Init ==
  /\ \/ hasDrm = FALSE /\ keyRow = NoRow
     \/ hasDrm = TRUE /\ keyRow = [id |-> Legacy, url |-> "legacy"]
  /\ drawn = {}
  /\ variants = [r \in Res |-> "none"]
  /\ files = [r \in Res |-> NoFiles]
  /\ tasks = [t \in Tasks |-> NoTask]
  /\ handler = [h \in Handlers |-> Idle]
  /\ torn = FALSE
  /\ ops = 0

At(h, pc)   == handler[h].pc = pc
Goto(h, pc) == handler' = [handler EXCEPT ![h].pc = pc]
Return(h)   == handler' = [handler EXCEPT ![h] = Idle]

Client(kind) == kind \in Operations /\ ops < MaxOps /\ ops' = ops + 1

AllIdle    == \A h \in Handlers : At(h, "idle")
UnderWay   == {t \in Tasks : tasks[t].state \in {"queued", "running", "uploaded"}}
Toggling   == \E h \in Handlers : handler[h].op = "toggle"
MayRequest == QuietToggles => ~Toggling

\* DRM is toggled between transcodings, a key regenerated before the first one.
MayToggle     == QuietToggles => AllIdle /\ UnderWay = {}
MayRegenerate == MayToggle /\ (QuietToggles => \A r \in Res : variants[r] # "ready")
Aged          == [t \in Tasks |-> [tasks[t] EXCEPT !.old = tasks[t].state # "none"]]

-----------------------------------------------------------------------------
(* DRMService.GenerateKeys, called by the handlers of three operations.    *)

\* What the caller does when it has a key.
Afterwards(op) == CASE op = "start"    -> "s_mark"
                    [] op = "toggle"   -> "t_save"
                    [] op \in {"generate", "regenerate"} -> "answer"

\* A row there is, is returned as it is but for an outdated URL.
FindKey(h) ==
  /\ At(h, "g_find")
  /\ \/ /\ keyRow # NoRow
        /\ handler' = [handler EXCEPT ![h].key = keyRow,
             ![h].pc = IF keyRow.url = "legacy" THEN "g_fill" ELSE Afterwards(handler[h].op)]
        /\ UNCHANGED drawn
     \/ /\ keyRow = NoRow
        /\ \E k \in Keys \ drawn :
             /\ drawn' = drawn \cup {k}
             /\ handler' = [handler EXCEPT ![h].key = [id |-> k, url |-> "ok"], ![h].pc = "g_create"]
  /\ UNCHANGED <<hasDrm, keyRow, variants, files, tasks, ops>>

\* Save: the row is written as it was read but for its URL, whether it is
\* still there or not.
Backfill(h) ==
  /\ At(h, "g_fill")
  /\ LET row == [handler[h].key EXCEPT !.url = "ok"]
     IN /\ keyRow' = row
        /\ handler' = [handler EXCEPT ![h].key = row, ![h].pc = Afterwards(handler[h].op)]
  /\ UNCHANGED <<hasDrm, drawn, variants, files, tasks, ops>>

\* Defect: the insertion overwrites a row that has been created in between.
CreateOrReplaceKey(h) ==
  /\ At(h, "g_create")
  /\ keyRow' = handler[h].key
  /\ Goto(h, "g_mark")
  /\ UNCHANGED <<hasDrm, drawn, variants, files, tasks, ops>>

\* video_id is unique: with a row created in between the insertion fails, and
\* so does the whole operation.
CreateKey(h) ==
  /\ At(h, "g_create")
  /\ \/ keyRow = NoRow /\ keyRow' = handler[h].key /\ Goto(h, "g_mark")
     \/ keyRow # NoRow /\ UNCHANGED keyRow /\ Return(h)
  /\ UNCHANGED <<hasDrm, drawn, variants, files, tasks, ops>>

MarkVideo(h) ==
  /\ At(h, "g_mark")
  /\ hasDrm' = TRUE
  /\ Goto(h, Afterwards(handler[h].op))
  /\ UNCHANGED <<keyRow, drawn, variants, files, tasks, ops>>

Answer(h) ==
  /\ At(h, "answer")
  /\ Return(h)
  /\ UNCHANGED <<hasDrm, keyRow, drawn, variants, files, tasks, ops>>

GenerateKeys(h) ==
  /\ At(h, "idle") /\ MayRequest /\ Client("generate")
  /\ handler' = [handler EXCEPT ![h].pc = "g_find", ![h].op = "generate"]
  /\ UNCHANGED <<hasDrm, keyRow, drawn, variants, files, tasks>>

\* The key is deleted, whatever is encrypted with it, and another one drawn.
RegenerateKeys(h) ==
  /\ At(h, "idle") /\ MayRegenerate /\ Client("regenerate")
  /\ keyRow' = NoRow
  /\ handler' = [handler EXCEPT ![h].pc = "g_find", ![h].op = "regenerate"]
  /\ tasks' = Aged
  /\ UNCHANGED <<hasDrm, drawn, variants, files>>

GenerateStep(h) == FindKey(h) \/ Backfill(h) \/ CreateKey(h) \/ MarkVideo(h) \/ Answer(h)

-----------------------------------------------------------------------------
(* Transcoding one resolution.  The setting drm_enabled counts for videos  *)
(* without a mark of their own.                                            *)

StartTranscode(h, r) ==
  /\ At(h, "idle") /\ MayRequest
  /\ \E setting \in BOOLEAN :
       handler' = [handler EXCEPT ![h] = [Idle EXCEPT !.op = "start", !.res = r, !.drm = hasDrm,
         !.pc = IF hasDrm \/ setting THEN "g_find" ELSE "s_task"]]
  /\ UNCHANGED <<hasDrm, keyRow, drawn, variants, files, tasks, ops>>

\* A video that was not marked when it was read is saved with the mark.
EnsureMarked(h) ==
  /\ At(h, "s_mark")
  /\ hasDrm' = (hasDrm \/ ~handler[h].drm)
  /\ Goto(h, "s_task")
  /\ UNCHANGED <<keyRow, drawn, variants, files, tasks, ops>>

\* The task's row with its copy of the key, the variant's row and the message.
CreateTask(h, t) ==
  /\ At(h, "s_task") /\ tasks[t].state = "none"
  /\ tasks' = [tasks EXCEPT ![t] = [state |-> "queued", res |-> handler[h].res,
                                    key |-> handler[h].key, old |-> FALSE]]
  /\ variants' = [variants EXCEPT ![handler[h].res] = IF @ = "none" THEN "processing" ELSE @]
  /\ Return(h)
  /\ UNCHANGED <<hasDrm, keyRow, drawn, files, ops>>

\* A retry sends the parameters of the first attempt again.
RetryTask(t) ==
  /\ tasks[t].state = "failed" /\ MayRequest /\ Client("retry")
  /\ QuietToggles => ~tasks[t].old
  /\ tasks' = [tasks EXCEPT ![t].state = "queued"]
  /\ UNCHANGED <<hasDrm, keyRow, drawn, variants, files, handler>>

TakeTask(t) ==
  /\ tasks[t].state = "queued"
  /\ tasks' = [tasks EXCEPT ![t].state = "running"]
  /\ UNCHANGED <<hasDrm, keyRow, drawn, variants, files, handler, ops>>

FailTask(t) ==
  /\ tasks[t].state = "running"
  /\ tasks' = [tasks EXCEPT ![t].state = "failed"]
  /\ UNCHANGED <<hasDrm, keyRow, drawn, variants, files, handler, ops>>

\* Segments are encrypted with the task's copy of the key, and the playlist
\* names its URL.
UploadVariant(t) ==
  /\ tasks[t].state = "running"
  /\ tasks' = [tasks EXCEPT ![t].state = "uploaded"]
  /\ files' = [files EXCEPT ![tasks[t].res] = tasks[t].key]
  /\ UNCHANGED <<hasDrm, keyRow, drawn, variants, handler, ops>>

\* Defect: the variant is given the status of the task.
CompleteWithStatus(t) ==
  /\ tasks[t].state = "uploaded"
  /\ tasks' = [tasks EXCEPT ![t].state = "completed"]
  /\ variants' = [variants EXCEPT ![tasks[t].res] = "completed"]
  /\ UNCHANGED <<hasDrm, keyRow, drawn, files, handler, ops>>

CompleteTask(t) ==
  /\ tasks[t].state = "uploaded"
  /\ tasks' = [tasks EXCEPT ![t].state = "completed"]
  /\ variants' = [variants EXCEPT ![tasks[t].res] = IF @ = "processing" THEN "ready" ELSE @]
  /\ UNCHANGED <<hasDrm, keyRow, drawn, files, handler, ops>>

TaskStep(t) == TakeTask(t) \/ FailTask(t) \/ UploadVariant(t) \/ CompleteTask(t)

-----------------------------------------------------------------------------
(* ToggleDRM: the segments, the variants, then the key and the mark.       *)

ToggleDRM(h) ==
  /\ At(h, "idle") /\ MayToggle /\ Client("toggle")
  /\ handler' = [handler EXCEPT ![h].pc = "t_files", ![h].op = "toggle", ![h].drm = ~hasDrm]
  /\ tasks' = Aged
  /\ UNCHANGED <<hasDrm, keyRow, drawn, variants, files>>

\* An error of S3 is ignored.
DeleteFiles(h) ==
  /\ At(h, "t_files")
  /\ files' \in {files, [r \in Res |-> NoFiles]}
  /\ Goto(h, "t_rows")
  /\ UNCHANGED <<hasDrm, keyRow, drawn, variants, tasks, ops>>

DeleteVariants(h) ==
  /\ At(h, "t_rows")
  /\ variants' = [r \in Res |-> "none"]
  /\ Goto(h, IF handler[h].drm THEN "g_find" ELSE "t_key")
  /\ UNCHANGED <<hasDrm, keyRow, drawn, files, tasks, ops>>

DeleteKey(h) ==
  /\ At(h, "t_key")
  /\ keyRow' = NoRow
  /\ Goto(h, "t_save")
  /\ UNCHANGED <<hasDrm, drawn, variants, files, tasks, ops>>

\* Defect: the mark is only ever set.
SaveEnabled(h) ==
  /\ At(h, "t_save")
  /\ hasDrm' = (hasDrm \/ handler[h].drm)
  /\ Return(h)
  /\ UNCHANGED <<keyRow, drawn, variants, files, tasks, ops>>

SaveToggled(h) ==
  /\ At(h, "t_save")
  /\ hasDrm' = handler[h].drm
  /\ Return(h)
  /\ UNCHANGED <<keyRow, drawn, variants, files, tasks, ops>>

ToggleStep(h) == DeleteFiles(h) \/ DeleteVariants(h) \/ DeleteKey(h) \/ SaveToggled(h)

-----------------------------------------------------------------------------
(* VideoService.Update: the mark is written back as it was read, or as the *)
(* client says.                                                            *)

EditVideo(h) ==
  /\ At(h, "idle") /\ MayRequest /\ Client("edit")
  /\ \E drm \in IF "mark" \in Operations THEN BOOLEAN ELSE {hasDrm} :
       handler' = [handler EXCEPT ![h].pc = "e_save", ![h].op = "edit", ![h].drm = drm]
  /\ UNCHANGED <<hasDrm, keyRow, drawn, variants, files, tasks>>

SaveEdited(h) ==
  /\ At(h, "e_save")
  /\ hasDrm' = handler[h].drm
  /\ Return(h)
  /\ UNCHANGED <<keyRow, drawn, variants, files, tasks, ops>>

-----------------------------------------------------------------------------
(* Handlers that do not get through.                                       *)

\* An operation has deleted the key, and has neither drawn another one nor
\* taken the mark off.
Keyless(h) == \/ At(h, "t_save") /\ ~handler[h].drm
              \/ handler[h].op = "regenerate" /\ handler[h].pc \in {"g_find", "g_create"}

\* Before any of its statements a handler may give up: an error is returned
\* (of GenerateKeys, say), or the server stops.  What it has done, stays.
GiveUp(h) ==
  /\ ~At(h, "idle")
  /\ torn' = (torn \/ (Keyless(h) /\ keyRow = NoRow))
  /\ Return(h)
  /\ UNCHANGED <<hasDrm, keyRow, drawn, variants, files, tasks, ops>>

-----------------------------------------------------------------------------
HandlerStep(h) == \/ GenerateStep(h) \/ ToggleStep(h) \/ SaveEdited(h)
                  \/ EnsureMarked(h) \/ \E t \in Tasks : CreateTask(h, t)

ClientStep(h) == \/ \E r \in Res : StartTranscode(h, r)
                 \/ GenerateKeys(h) \/ RegenerateKeys(h) \/ ToggleDRM(h) \/ EditVideo(h)

Proceed == \/ \E h \in Handlers : HandlerStep(h) \/ ClientStep(h)
           \/ \E t \in Tasks : TaskStep(t) \/ RetryTask(t)

\* A key that is inserted mends what was torn.
Next == \/ Proceed /\ torn' = (torn /\ keyRow' = NoRow)
        \/ \E h \in Handlers : GiveUp(h)

Spec == Init /\ [][Next]_vars

-----------------------------------------------------------------------------
(* Properties.                                                             *)

Pcs == {"idle", "g_find", "g_fill", "g_create", "g_mark", "answer", "s_mark", "s_task",
        "t_files", "t_rows", "t_key", "t_save", "e_save"}

TypeOK ==
  /\ hasDrm \in BOOLEAN
  /\ keyRow \in KeyRow \cup {NoRow}
  /\ drawn \in SUBSET Keys
  /\ variants \in [Res -> {"none", "processing", "ready"}]
  /\ files \in [Res -> KeyRow \cup {NoRow, NoFiles}]
  /\ tasks \in [Tasks -> Task]
  /\ handler \in [Handlers -> [pc : Pcs, op : {"none", "edit", "start", "generate",
                                                         "regenerate", "toggle"},
                               res : Res, drm : BOOLEAN, key : KeyRow \cup {NoRow}]]
  /\ torn \in BOOLEAN
  /\ ops \in 0 .. MaxOps

\* Every key that the playlists of ready variants name is the one that the
\* end point serves under the URL in them.
KeyServed ==
  \A r \in Res :
    variants[r] = "ready" /\ files[r] \in KeyRow =>
      /\ keyRow # NoRow /\ keyRow.id = files[r].id
      /\ files[r].url = "ok"

\* A video marked as protected is without a key only while a toggle or a
\* regeneration is between the deletion and what follows it, or when one has
\* given up just there: no other handler that gives up half way, and no other
\* order of the statements, takes a key away; the next one to be drawn heals it.
MarkedHasKey ==
  hasDrm /\ keyRow = NoRow => torn \/ \E h \in Handlers : Keyless(h)
=============================================================================
