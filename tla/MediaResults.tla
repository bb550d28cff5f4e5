---------------------------- MODULE MediaResults ----------------------------
(***************************************************************************)
(* What comes of originals: their upload, the metadata a probe finds and   *)
(* the thumbnails extracted.  A task's row is completed in one statement   *)
(* and its result applied in later ones, so that the API server may stop   *)
(* in between; when it starts again it looks for results not applied.      *)
(* Originals are numbered in the order of their uploads.                   *)
(***************************************************************************)
EXTENDS Naturals, FiniteSets

CONSTANTS
  Tasks,          \* transcode_tasks rows that may be created
  Probes,         \* those that are probes; the others extract thumbnails
  Count,          \* thumbnails asked for
  Handlers, NoTask,
  MaxUploads,     \* bound: originals
  MaxRows,        \* bound: thumbnail ids
  MaxCrashes,     \* bound: crashes of the API server
  MaxEdits        \* bound: edits of the video and its thumbnails

ASSUME TaskAssumption  == Probes \subseteq Tasks /\ NoTask \notin Tasks
ASSUME BoundAssumption == {Count, MaxUploads, MaxRows, MaxCrashes, MaxEdits} \subseteq Nat

VARIABLES
  row,        \* videos row: status, the original's key, the original its metadata are of
  originals,  \* originals on S3
  thumbs,     \* thumbnails rows
  objects,    \* thumbnail objects on S3: the original each was made of
  tasks,      \* transcode_tasks: state, original, and thumbnails uploaded
  server,     \* whether the API server is up, down, or starting
  boot,       \* tasks whose results it has still to look at before it serves
  handler,    \* local state of each handler goroutine
  interrupted,  \* (history) whether the server has stopped in an upload, between the
                \* deletions and the save of the row
  overwritten,  \* (history) whether other metadata than the row's were written back to it,
                \* and no probe's result has been saved since, nor the server restarted
  uploads, rows, crashes, edits

mediaVars == <<row, originals, thumbs, objects>>
bounds    == <<uploads, rows, crashes, edits>>
vars == <<mediaVars, tasks, server, boot, handler, interrupted, overwritten, bounds>>

Indexes == 1 .. Count
Statuses == {"draft", "uploaded", "ready"}   \* "ready" for processing and error, too
Row   == [status : Statuses, orig : 0 .. MaxUploads, meta : 0 .. MaxUploads]
Thumb == [id : 1 .. MaxRows, index : Indexes, of : 1 .. MaxUploads, default : BOOLEAN]
Task  == [state : {"none", "queued", "worked", "completed", "failed", "lost"},
          of : 0 .. MaxUploads, result : SUBSET Indexes]

Idle == [pc |-> "idle", task |-> NoTask, row |-> [status |-> "draft", orig |-> 0, meta |-> 0],
         todo |-> {}]

Init ==
  /\ row = Idle.row
  /\ originals = {} /\ thumbs = {}
  /\ objects = [i \in Indexes |-> 0]
  /\ tasks = [t \in Tasks |-> [state |-> "none", of |-> 0, result |-> {}]]
  /\ server = "up" /\ boot = {}
  /\ handler = [h \in Handlers |-> Idle]
  /\ interrupted = FALSE /\ overwritten = FALSE
  /\ uploads = 0 /\ rows = 0 /\ crashes = 0 /\ edits = 0

At(h, pc)   == handler[h].pc = pc
Goto(h, pc) == handler' = [handler EXCEPT ![h].pc = pc]
Return(h)   == handler' = [handler EXCEPT ![h] = Idle]
AllIdle     == \A h \in Handlers : At(h, "idle")
Deleting    == \E h \in Handlers : handler[h].pc \in {"u_objects", "u_rows", "u_save"}
UploadPcs   == {"u_old", "u_objects", "u_rows", "u_save", "u_probe"}
Uploading   == \E h \in Handlers : handler[h].pc \in UploadPcs
UnderWay    == {t \in Tasks : tasks[t].state \in {"queued", "worked"}}

\* Clients upload a new original when nothing is being done with the old one,
\* and wait for the answer.
MayUpload  == AllIdle /\ UnderWay = {}
MayRequest == server = "up" /\ ~Uploading

-----------------------------------------------------------------------------
(* CompleteUpload, then StartProbe.                                        *)

\* The parts are put together, and the row is read.
CompleteUpload(h) ==
  /\ At(h, "idle") /\ server = "up" /\ MayUpload
  /\ uploads < MaxUploads /\ uploads' = uploads + 1
  /\ originals' = originals \cup {uploads + 1}
  /\ handler' = [handler EXCEPT ![h].pc = "u_old", ![h].row = row]
  /\ UNCHANGED <<row, thumbs, objects, tasks, server, boot, interrupted, overwritten, rows, crashes, edits>>

\* Defect: the original just uploaded is deleted.
DeleteUploaded(h) ==
  /\ At(h, "u_old")
  /\ originals' = originals \ {uploads}
  /\ Goto(h, IF handler[h].row.status = "ready" THEN "u_objects" ELSE "u_save")
  /\ UNCHANGED <<row, thumbs, objects, tasks, server, boot, interrupted, overwritten, bounds>>

\* The old original goes, unless S3 fails, which is ignored.
DeleteOriginal(h) ==
  /\ At(h, "u_old")
  /\ originals' \in {originals, originals \ {handler[h].row.orig}}
  /\ Goto(h, IF handler[h].row.status = "ready" THEN "u_objects" ELSE "u_save")
  /\ UNCHANGED <<row, thumbs, objects, tasks, server, boot, interrupted, overwritten, bounds>>

DeleteThumbnailObjects(h) ==
  /\ At(h, "u_objects")
  /\ objects' \in {objects, [i \in Indexes |-> 0]}
  /\ Goto(h, "u_rows")
  /\ UNCHANGED <<row, originals, thumbs, tasks, server, boot, interrupted, overwritten, bounds>>

DeleteThumbnailRows(h) ==
  /\ At(h, "u_rows")
  /\ thumbs' = {}
  /\ Goto(h, "u_save")
  /\ UNCHANGED <<row, originals, objects, tasks, server, boot, interrupted, overwritten, bounds>>

SaveUpload(h) ==
  /\ At(h, "u_save")
  /\ row' = [handler[h].row EXCEPT !.status = "uploaded", !.orig = uploads]
  /\ Goto(h, "u_probe")
  /\ UNCHANGED <<originals, thumbs, objects, tasks, server, boot, interrupted, overwritten, bounds>>

\* The row's key of the original goes into the task's parameters.
Queue(t) == tasks' = [tasks EXCEPT ![t].state = "queued", ![t].of = row.orig]

StartProbe(h, t) ==
  /\ At(h, "u_probe") /\ t \in Probes /\ tasks[t].state = "none"
  /\ Queue(t)
  /\ Return(h)
  /\ UNCHANGED <<mediaVars, server, boot, interrupted, overwritten, bounds>>

StartThumbnails(t) ==
  /\ MayRequest /\ row.orig # 0
  /\ t \notin Probes /\ tasks[t].state = "none"
  /\ Queue(t)
  /\ UNCHANGED <<mediaVars, server, boot, handler, interrupted, overwritten, bounds>>

UploadStep(h) == \/ DeleteOriginal(h) \/ DeleteThumbnailObjects(h) \/ DeleteThumbnailRows(h)
                 \/ SaveUpload(h) \/ \E t \in Probes : StartProbe(h, t)

-----------------------------------------------------------------------------
(* The workers.                                                            *)

\* Defect: the result names a thumbnail whether it could be uploaded or not.
ExtractAll(t) ==
  /\ tasks[t].state = "queued" /\ t \notin Probes /\ tasks[t].of \in originals
  /\ \E S \in SUBSET Indexes :
       objects' = [i \in Indexes |-> IF i \in S THEN tasks[t].of ELSE objects[i]]
  /\ tasks' = [tasks EXCEPT ![t].state = "worked", ![t].result = Indexes]
  /\ UNCHANGED <<row, originals, thumbs, server, boot, handler, interrupted, overwritten, bounds>>

\* handleThumbnail: objects have the same names whatever task they are of; one
\* that cannot be uploaded is left out of the result.
ExtractThumbnails(t) ==
  /\ tasks[t].state = "queued" /\ t \notin Probes /\ tasks[t].of \in originals
  /\ \E S \in SUBSET Indexes :
       /\ objects' = [i \in Indexes |-> IF i \in S THEN tasks[t].of ELSE objects[i]]
       /\ tasks' = [tasks EXCEPT ![t].state = "worked", ![t].result = S]
  /\ UNCHANGED <<row, originals, thumbs, server, boot, handler, interrupted, overwritten, bounds>>

Probe(t) ==
  /\ tasks[t].state = "queued" /\ t \in Probes /\ tasks[t].of \in originals
  /\ tasks' = [tasks EXCEPT ![t].state = "worked"]
  /\ UNCHANGED <<mediaVars, server, boot, handler, interrupted, overwritten, bounds>>

\* The worker's report is refused while the server is not up, and not repeated.
LoseReport(t) ==
  /\ tasks[t].state = "worked" /\ server # "up"
  /\ tasks' = [tasks EXCEPT ![t].state = "lost"]
  /\ UNCHANGED <<mediaVars, server, boot, handler, interrupted, overwritten, bounds>>

-----------------------------------------------------------------------------
(* CompleteTask and the application of results.                            *)

Apply(h, t) ==
  handler' = [handler EXCEPT ![h] = IF t \in Probes
    THEN [Idle EXCEPT !.pc = "p_read", !.task = t]
    ELSE [Idle EXCEPT !.pc = "rows", !.task = t, !.todo = tasks[t].result]]

CompleteTask(h, t) ==
  /\ At(h, "idle") /\ server = "up" /\ tasks[t].state = "worked"
  /\ tasks' = [tasks EXCEPT ![t].state = "completed"]
  /\ Apply(h, t)
  /\ UNCHANGED <<mediaVars, server, boot, interrupted, overwritten, bounds>>

\* Defect: the video is given a status that nothing else knows.
ReadAsProbed(h) ==
  /\ At(h, "p_read")
  /\ handler' = [handler EXCEPT ![h].pc = "p_save",
       ![h].row = [row EXCEPT !.meta = tasks[handler[h].task].of, !.status = "probed"]]
  /\ UNCHANGED <<mediaVars, tasks, server, boot, interrupted, overwritten, bounds>>

\* handleProbeResult reads the row, sets the metadata and saves the row.
ReadRow(h) ==
  /\ At(h, "p_read")
  /\ handler' = [handler EXCEPT ![h].pc = "p_save",
       ![h].row = [row EXCEPT !.meta = tasks[handler[h].task].of,
                              !.status = IF @ = "draft" THEN "uploaded" ELSE @]]
  /\ UNCHANGED <<mediaVars, tasks, server, boot, interrupted, overwritten, bounds>>

SaveRow(h) ==
  /\ At(h, "p_save")
  /\ row' = handler[h].row
  /\ overwritten' = FALSE
  /\ Return(h)
  /\ UNCHANGED <<originals, thumbs, objects, tasks, server, boot, interrupted, bounds>>

\* handleThumbnailResult makes the rows in order, the first one the default.
CreateThumbnail(h) ==
  /\ At(h, "rows")
  /\ LET t    == handler[h].task
         todo == handler[h].todo
     IN \/ todo = {} /\ Return(h) /\ UNCHANGED <<thumbs, rows>>
        \/ \E i \in todo :
             /\ \A j \in todo : i <= j
             /\ rows < MaxRows /\ rows' = rows + 1
             /\ thumbs' = thumbs \cup {[id |-> rows + 1, index |-> i, of |-> tasks[t].of,
                                        default |-> todo = tasks[t].result]}
             /\ handler' = [handler EXCEPT ![h].todo = @ \ {i}]
  /\ UNCHANGED <<row, originals, objects, tasks, server, boot, interrupted, overwritten, uploads, crashes, edits>>

ApplyStep(h) == ReadRow(h) \/ SaveRow(h) \/ CreateThumbnail(h)

-----------------------------------------------------------------------------
(* Requests about thumbnails and the video, and as much of transcoding as  *)
(* writes the video's row: most of it read first and saved as a whole.     *)

Edit == MayRequest /\ edits < MaxEdits /\ edits' = edits + 1

\* In a transaction, no row is the default, then the row with this id.
SetDefaultThumbnail(id) ==
  /\ Edit
  /\ thumbs' = {[th EXCEPT !.default = th.id = id] : th \in thumbs}
  /\ UNCHANGED <<row, originals, objects, tasks, server, boot, handler, interrupted, overwritten,
                 uploads, rows, crashes>>

\* The row only: the object stays.
DeleteThumbnail(id) ==
  /\ Edit
  /\ thumbs' = {th \in thumbs : th.id # id}
  /\ UNCHANGED <<row, originals, objects, tasks, server, boot, handler, interrupted, overwritten,
                 uploads, rows, crashes>>

\* StartTranscode writes one column.
StartTranscode ==
  /\ MayRequest /\ row.orig # 0
  /\ row' = [row EXCEPT !.status = "ready"]
  /\ UNCHANGED <<originals, thumbs, objects, tasks, server, boot, handler, interrupted,
                 overwritten, bounds>>

\* The row is read to be saved in a later statement.
ReadToSave(h, read) ==
  /\ At(h, "idle")
  /\ handler' = [handler EXCEPT ![h].pc = "e_save", ![h].row = read]
  /\ UNCHANGED <<mediaVars, tasks, server, boot, interrupted, overwritten, uploads, rows, crashes>>

\* An edit; InitiateUpload, which notes the file's name; StartTranscode, which
\* marks the video as protected.
EditVideo(h) == Edit /\ ReadToSave(h, row)

\* The end of a callback that has put the master playlist together.
SetReady(h) == /\ MayRequest /\ row.orig # 0 /\ UNCHANGED edits
               /\ ReadToSave(h, [row EXCEPT !.status = "ready"])

SaveRead(h) ==
  /\ At(h, "e_save")
  /\ row' = handler[h].row
  /\ overwritten' = (overwritten \/ handler[h].row.meta # row.meta)
  /\ Return(h)
  /\ UNCHANGED <<originals, thumbs, objects, tasks, server, boot, interrupted, bounds>>

-----------------------------------------------------------------------------
(* The API server stops at any point, and starts again.                    *)

Crash ==
  /\ server # "down" /\ crashes < MaxCrashes /\ crashes' = crashes + 1
  /\ server' = "down" /\ boot' = {}
  /\ handler' = [h \in Handlers |-> Idle]
  /\ interrupted' = (interrupted \/ Deleting)
  /\ UNCHANGED <<mediaVars, tasks, overwritten, uploads, rows, edits>>

\* ReprocessPendingResults, before any request is served: the completed tasks
\* are looked at one after the other, probes first.
Restart ==
  /\ server = "down" /\ server' = "starting"
  /\ boot' = {t \in Tasks : tasks[t].state = "completed"}
  /\ UNCHANGED <<mediaVars, tasks, handler, interrupted, overwritten, bounds>>

NextResult(t) ==
  /\ server = "starting" /\ AllIdle /\ t \in boot
  /\ t \in Probes \/ boot \cap Probes = {}
  /\ boot' = boot \ {t}

\* Defect: only a draft's probe is applied.
ReprocessDraft(h, t) ==
  /\ NextResult(t) /\ t \in Probes
  /\ IF row.status = "draft" THEN Apply(h, t) ELSE UNCHANGED handler
  /\ UNCHANGED <<mediaVars, tasks, server, interrupted, overwritten, bounds>>

\* A probe's result is applied if the row has no metadata ...
ReprocessProbe(h, t) ==
  /\ NextResult(t) /\ t \in Probes
  /\ IF row.meta = 0 THEN Apply(h, t) ELSE UNCHANGED handler
  /\ UNCHANGED <<mediaVars, tasks, server, interrupted, overwritten, bounds>>

\* Defect: whatever rows there are.
ReprocessAnyway(h, t) ==
  /\ NextResult(t) /\ t \notin Probes
  /\ Apply(h, t)
  /\ UNCHANGED <<mediaVars, tasks, server, interrupted, overwritten, bounds>>

\* ... a thumbnail task's if the video has no thumbnail.
ReprocessThumbnails(h, t) ==
  /\ NextResult(t) /\ t \notin Probes
  /\ IF thumbs = {} THEN Apply(h, t) ELSE UNCHANGED handler
  /\ UNCHANGED <<mediaVars, tasks, server, interrupted, overwritten, bounds>>

Serve ==
  /\ server = "starting" /\ boot = {} /\ AllIdle
  /\ server' = "up"
  /\ overwritten' = FALSE
  /\ UNCHANGED <<mediaVars, tasks, boot, handler, interrupted, bounds>>

-----------------------------------------------------------------------------
HandlerStep(h) == UploadStep(h) \/ ApplyStep(h) \/ SaveRead(h) \/ SetReady(h)
WorkerStep(t)  == ExtractThumbnails(t) \/ Probe(t) \/ LoseReport(t)
ServerStep     == \/ Crash \/ Restart \/ Serve
                  \/ \E h \in Handlers, t \in Tasks :
                       ReprocessProbe(h, t) \/ ReprocessThumbnails(h, t)
ClientStep     == \/ StartTranscode \/ \E h \in Handlers : CompleteUpload(h) \/ EditVideo(h)
                  \/ \E t \in Tasks : StartThumbnails(t)
                  \/ \E id \in 1 .. rows : SetDefaultThumbnail(id) \/ DeleteThumbnail(id)

Next == \/ \E h \in Handlers : HandlerStep(h) \/ \E t \in Tasks : CompleteTask(h, t)
        \/ \E t \in Tasks : WorkerStep(t)
        \/ ServerStep \/ ClientStep

Spec == Init /\ [][Next]_vars

-----------------------------------------------------------------------------
(* Properties.                                                             *)

TypeOK ==
  /\ row \in Row
  /\ originals \in SUBSET (1 .. MaxUploads)
  /\ thumbs \in SUBSET Thumb
  /\ objects \in [Indexes -> 0 .. MaxUploads]
  /\ tasks \in [Tasks -> Task]
  /\ server \in {"up", "down", "starting"} /\ boot \in SUBSET Tasks
  /\ handler \in [Handlers -> [pc : {"idle", "p_read", "p_save", "rows", "e_save"} \cup UploadPcs,
                               task : Tasks \cup {NoTask}, row : Row, todo : SUBSET Indexes]]
  /\ interrupted \in BOOLEAN /\ overwritten \in BOOLEAN

\* The results of completed probes are applied, wherever the server stopped: no
\* such video is without metadata, and while it never stops they are those of
\* the original.  One thing takes them away, a row read before a probe's save
\* and written back after it; the next restart makes good for that, too.
MetadataApplied ==
  server = "up" /\ AllIdle /\ ~overwritten =>
    \A t \in Probes : tasks[t].state = "completed" =>
      /\ row.meta # 0 /\ row.status # "draft"
      /\ crashes = 0 /\ tasks[t].of = row.orig => row.meta = row.orig

\* The original that the row names is on S3, unless an upload has been cut off
\* between the deletion of the old original and the save of the row.
OriginalIsThere ==
  ~Deleting /\ ~interrupted => row.orig = 0 \/ row.orig \in originals

\* A thumbnail made of the present original can be shown, although the objects
\* of every thumbnail task have the same names.
ThumbnailHasObject ==
  ~Deleting /\ ~interrupted => \A th \in thumbs : th.of = row.orig => objects[th.index] # 0

\* One thumbnail task gives no thumbnail twice, and no second default, however
\* often its result is looked at again.
ListedOnce ==
  \A th, other \in thumbs :
    th.index = other.index \/ (th.default /\ other.default) => th = other
=============================================================================
