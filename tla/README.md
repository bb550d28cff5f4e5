# hls-streamer: TLA+ specifications and proofs

`hls-streamer` is a video-on-demand back end: an API server (Go, gin, gorm on
MySQL), any number of worker processes that run FFmpeg, Redis streams between
them, and S3 for originals, segments and playlists. This directory specifies
its concurrent core in TLA+, model-checks it with TLC and proves with TLAPS
all safety properties that the passing runs check, and a refinement.
`PROJECT.json` maps each definition to the lines it stands for.

    tlc -workers 2 -config MCTaskPipeline_one.cfg MCTaskPipeline.tla   # a run
    tlapm TaskPipelineProofs.tla                                       # proofs
    tlapm TaskRefinementProofs.tla
    tlapm WorkerRegistryProofs.tla
    tlapm VideoPipelineProofs.tla
    tlapm DrmKeysProofs.tla
    tlapm MediaResultsProofs.tla
    tlapm SessionsProofs.tla
    tlapm CategoryTreeProofs.tla

## Inventory

| component | state | operations | what makes it correct |
|---|---|---|---|
| Task queue, `internal/queue` | four Redis streams, one consumer group, pending entries | `Publish` (XADD), `ReadTask` (XREADGROUP COUNT 1 over all streams), `Ack`; `ClaimPending` has no caller | a message is worked on by at most one worker; none is forgotten |
| Worker loop, `internal/worker`, `cmd/worker` | the message at hand, temporary files, the context | read, stages with progress reports, complete or fail report, ack; SIGTERM, crash, restart | one decision per message; the loop always reads again |
| Tasks, `transcode_service.go`, `task_repo.go` | `transcode_tasks` rows | start, progress, complete, fail, cancel, retry, delete | one attempt at a time; decided tasks change only by a client's wish |
| Video pipeline, `transcode_service.go`, `video_repo.go` | `videos` and `video_variants` rows, segments and `master.m3u8` on S3 | start a transcoding, completion callback, delete one or all variants, toggle DRM, delete the video | a ready video is playable and complete; processing ends |
| Upload, `upload_service.go`, `upload_handler.go` | multipart upload, original's key | initiate, complete (resets the video, starts a probe) | a new original leaves nothing of the old one |
| Probe and thumbnail results | video metadata, thumbnail rows | result handlers, reprocessing at start-up | results are applied once; one default thumbnail |
| DRM keys, `drm_service.go` | `drm_keys` row, `has_drm` | generate, fetch, toggle, delete | the key served is the key the segments use |
| Worker registry, `worker_service.go`, `heartbeat.go` | `workers` rows | register, heartbeat, sweep, set online | a live worker is online, a dead one is not |
| Catalogue: videos, categories, tags, people | rows and translations | CRUD, publication, soft delete, category moves | unique slugs, none blocked by a leftover (the tree may get cycles, nothing prevents it) |
| Sessions, `auth_service.go`, `client.ts`, `auth.ts` | users and refresh tokens, the pair in the browser | login, refresh (rotation), logout, new password, edits of users | a client is not logged out by a race; every call ends |
| Rate limiter, `ratelimit.go` | counters and windows | admit, on no route | - |
| Playlists, `pkg/hls` | none | generate master playlist | every variant listed once |
| Settings, configuration, routing, storage and FFmpeg wrappers, web pages | - | - | plumbing |

How they interact: the API server writes a task row, then publishes a message;
a worker reads it, reports back over HTTP (progress, complete, fail) and
acknowledges; the completion callback updates variants and, if no task is
pending, builds the master playlist and sets the video ready. Every HTTP
request and callback runs in a goroutine of its own, and nothing but the unique
keys of the tables guards the rows: no transaction, no row lock and no
conditional update is used on tasks, variants or videos. That, and the worker's
habit of ignoring the outcome of its callbacks, is where the difficulties lie;
they are listed line by line under `hazards` in `PROJECT.json`.

## Modules

- **TaskLifecycle** - the abstract specification: a status per task and the set
  of tasks an attempt is under way for.
- **TaskPipeline** - the detailed one: rows, API requests, streams, workers,
  callbacks, faults. It refines TaskLifecycle.
- **TaskPipelineProofs** - its invariants and how progress is reported, proved.
- **TaskRefinementProofs** - the proof that it implements TaskLifecycle.
- **VideoPipeline** - one video with its variants, tasks and S3 objects, each
  handler cut into its statements.
- **VideoPipelineProofs** - its properties, proved, each under the condition it needs.
- **DrmKeys** - the key of one video, its copies in tasks and playlists, and
  the statements that draw, save and delete it.
- **DrmKeysProofs** - which key is served, and that a marked video has one.
- **WorkerRegistry** - the table of workers over time, counted in ticks.
- **WorkerRegistryProofs** - its invariants, proved.
- **MediaResults** - originals, metadata and thumbnails, with an API server
  that stops and looks for unapplied results when it starts.
- **MediaResultsProofs** - its invariants, proved.
- **Sessions** - one user, the refresh tokens, and browsers with their calls.
- **SessionsProofs** - rotation, proved.
- **CategoryTree** - categories and tags under creation, moves and deletion.
- **CategoryTreeProofs** - that temporary slugs pass, proved.
- **MC...** - the instances for TLC, one module for each
  specification but TaskLifecycle.

The modules meet at tasks and at the videos row: VideoPipeline, DrmKeys and
MediaResults each reduce a task to the states that matter to them, and
TaskPipeline justifies the reduction (a message is worked on by one worker, a
task is completed or failed by one callback). What they share of the videos
row are columns of their own, and each has the full-row saves that may write them
back: in VideoPipeline those of the probe, the completing callback, the three
kinds of reset, edits and the DRM path of `StartTranscode`; in DrmKeys those of
`GenerateKeys`, `StartTranscode`, toggles and edits; in MediaResults those of the
upload, the probe, edits and the completing callback (the resets of a variant's
deletion or a toggle, which do the same, are not repeated there).

Definitions whose comment begins with *Defect* are deliberately wrong variants
of the definition below them. They are not part of `Next`; they are there to
show that each property fails when the code has that defect.

### TaskPipeline and the code

| state | in the code |
|---|---|
| `status`, `progress`, `attempts` | columns of `transcode_tasks`; `"none"` and `"deleted"`: no row |
| `req` | an API request between its statements: about to publish, or accepted for retry |
| `sent`, `msgTask`, `msgState` | stream entries; `pending` is Redis' pending entries list |
| `pc`, `held`, `stage` | the worker's loop, its message, the report it is working towards |
| `stopping` | workers with a cancelled context |
| `late` | callbacks whose connection broke, which the server may yet handle |

A step is one statement on MySQL or Redis, or one callback. A stage's work (download,
FFmpeg, upload) touches nothing that another process reads in this module, so it
is joined with the callback that ends it. `UpdateProgress` is an UPDATE and a
SELECT of one row in one step: cancels between the two are the cancels after it
or before it. Three traits of the code
shape the module: an UPDATE of a deleted row changes nothing (`SetStatus`),
`Complete` and `Fail` write whatever the status was, and one XREADGROUP with
COUNT 1 over four streams delivers up to four messages of which `ReadTask`
returns one. `"processing"` never occurs as a task status, since `SetWorker` has
no caller, and `drm_package` tasks are never created. A video that has been
deleted gets no new task.

### VideoPipeline and the code

`video` holds the two columns of the row that matter (`status`, and whether
`master_playlist_key` is set), `variants` the status for each resolution (one
codec), `files` the resolutions with objects on S3, `master` what `master.m3u8`
lists. `handler` is the local state of each goroutine: the row and the ready
variants it has read are stale as soon as another one writes. A full-row `Save`
(`VideoRepo.Update`) is therefore a read and a later write of both columns; the
callback that completes a video reads the row in `FindReady` and writes it in
`SetReady`. With DRM (`"protect"`) `StartTranscode` goes through `GenerateKeys`,
whose save of the row it has read comes first and its own second; that a key
cannot be created is the fault `"keys"`.
The objects of one variant are one element of `files`
(partial uploads and deletions are not distinguished). The queue is reduced to
`run`; a retry is one step. `ToggleDRM` is here what it does to the variants and to the row, the key itself is
DrmKeys'; `DeleteVideo` is cut into the deletion of the objects, of the tasks and the
transaction of `HardDelete`. `TasksCascade` tells the two schemas apart that the
repository makes: by the migrations tasks refer to a video that exists, by
AutoMigrate they need not. Statements on MySQL and XADDs do not fail here
(TaskPipeline has those faults); S3 calls and work do, as `Faults` allows.

### What gorm does

Three traits of gorm are part of the modules. `Save` writes every column as it
was read, and inserts the row again if it has gone; with it goes what was
preloaded unless it is omitted, which moves a category's children back and
writes a preloaded role over a new `role_id`. `Assign(v).FirstOrCreate(v)` with
the same pointer reads an existing row into `v` first, so that the row stays as
it is: a worker's second registration, a variant that exists and a second
translation in a language change nothing. `Updates` of a row that has gone
changes nothing and is no error.

### DrmKeys and the code

`hasDrm` is the column of the videos row, `keyRow` the row of `drm_keys`
(its id stands for the content key, too), `files` the key that the playlist of
each resolution names, `tasks` the state of each task and the key among its
parameters. `GenerateKeys` is FindKey, then Backfill, or CreateKey and
MarkVideo, for each of its three callers; `ToggleDRM` and `RegenerateKeys` call
it after what they delete. A handler may give up before any of its statements
(`GiveUp`: an error is returned, or the server stops), so nothing is undone; the
history `torn` notes when that leaves the key deleted and none drawn. A row may be older than the AES-128
end point, as the migration at start-up leaves it.

### WorkerRegistry and the code

`row` is the status column, `age` the ticks since `last_heartbeat`, `proc` the
worker's process, `clock` its heartbeat ticker, `lister` a request for the list,
which cleans up first. A tick is the unit of the time-outs; the API handles a
heartbeat within `Latency` or it is lost, and takes no tick to answer a request
for the list. `fresh` and `heard` are histories that the properties need.

### MediaResults and the code

`row` holds the status, the original's key and which original the metadata are
of; `thumbs` the thumbnail rows, `objects` which original each object was made
of (the names are the same for each task); `tasks` the state and result of each
task; `server` and `boot` whether the API server is up and what
`ReprocessPendingResults` has still to look at. `handler` is a goroutine between
two statements: a crash forgets it. Clients upload again when nothing is being
done with the old original; `thumbs` of earlier originals are the exception the
properties are about. Edits and the callback that completes a video read the row
(`ReadToSave`) and save it whole later; the history `overwritten` notes when
that takes a probe's metadata away.

### Sessions and the code

`user` is the users row, `rows` the refresh tokens, `store` what each browser's
`localStorage` keeps, `call` one call on its way from the interceptor through
the middleware, the refresh and back. Access tokens are checked without the
database; either token may have expired whenever it is looked at. A logout
deletes the row or its request is lost. Identities of pairs are taken again when
nobody holds them.

### CategoryTree and the code

`rows` has slug and parent of each category and tag, `named` the categories with a
translation, `handler` the row that a creation or update is about to save with the
children and translations read with it. `Save` writes the row, then what was
preloaded, as gorm does (`Written`, `Adopted`), if the unique and foreign keys let
it (`Consistent`). By the migrations a deletion makes the children top
categories and takes the translations with it; on a schema of AutoMigrate either
refuses it: `Cascades`. Any move is allowed, as in the code, below a
descendant too. `stranded` has the rows whose creation failed or was cut off between
its two statements, and those to which an update has written "tmp" back.

## Runs

All passing runs are exhaustive. Bounds are constants of the modules and appear
in the guards only.

| run | bounds | shows |
|---|---|---|
| `task_one` | 1 transcode task, 2 workers, 2 requests, 3 messages, 2 retries, 2 faults, 1 SIGTERM | `TypeOK`, `HeldByOne`, `OneAttempt`, `Settled`, refinement |
| `task_calm` | 2 thumbnail tasks, 1 request at a time, 4 messages, 1 retry each, 1 SIGTERM, no fault, fair | `QueuedIsCarried`, `CompletedAt100`, `ProgressGrows`, `QueuedIsDecided` |
| `video_concurrent` | 3 tasks on 2 resolutions, 2 of them with DRM, 2 handlers, 2 workers, fair, nothing fails | `TypeOK`, `ReadyIsPlayable`, `CompletedIsReady`, `ProcessingEnds` |
| `video_delete` | 3 tasks (a transcoding, a probe, thumbnails), 2 handlers, every operation (2) at any time, 2 failures of any kind | `DeletedIsGone` |
| `video_faulty` | 3 transcodings on 2 resolutions, a probe, 2 failures, 3 operations of every kind but retries, 1 handler, 2 workers | `ReadyIsPlayable`, `MasterIsComplete` |
| `drm` | 2 resolutions, 2 tasks, 2 keys and a legacy one, 3 operations, 2 handlers that may give up anywhere | `TypeOK`, `KeyServed`, `MarkedHasKey` |
| `registry` | 1 worker, interval 2, latency 1, timeout 6, expiry 11 ticks, 4 heartbeats lost in a row | `TypeOK`, `AliveIsOnline`, `LiveIsKept`, `ListedIsHeard` |
| `results` | 2 uploads and probes, 1 thumbnail task of 2 thumbnails, 2 handlers, 2 stops, 2 edits | `TypeOK`, `MetadataApplied`, `OriginalIsThere`, `ThumbnailHasObject`, `ListedOnce` |
| `sessions` | 2 browsers, 1 call at a time each, 4 pairs, 1 new password, 1 edit, fair | `TypeOK`, `StoredIsHonoured`, `CallsEnd` |
| `category_creations` | 2 categories, 1 tag, 2 handlers, 1 slug, 2 updates, both schemas | `TypeOK`, `TmpIsPassing` |

Why the bounds are enough: two workers and two requests already give every pair
of processes that can meet on a task; a third message needs a second retry,
which `task_one` allows; two faults allow a broken callback followed by a crash
or a second broken callback for the next attempt. Two resolutions, one of them
transcoded twice, give two callbacks at once and a variant that is ready before
its task is. In `task_*` the bound MaxMsgs is never what stops a task: it is one
per start and retry. In `drm` the second key is drawn after the first has been
deleted, the legacy row can be saved back, and a task can be retried with a key
that has gone. Workers do not interact in the registry, so that one will do; its
times keep the order and slack of 10 s, 30 s and 24 h, two heartbeats fit into
the timeout and an outage is longer than it. Two stops of the server let it stop
again while it reprocesses. Four pairs are one in each browser and one being
issued to each. In `video_delete` the one handler deletes while the other stands at
any statement of any operation. Two categories are a parent and a child that it has
read, and two updates meet each other, a creation and a deletion at each of their
statements; a third category adds no interaction, as only one row can be "tmp". Deadlock is checked for the task and registry runs. The others end
when the tasks or operations of the instance are used up, so it is not checked there.

### Conditions

The code does not enforce some of what these properties need. The modules state
each such need as a constant or condition, and without it TLC finds:

| condition | what happens without it |
|---|---|
| `SerialRetries`: a retry is awaited | two retries both read "failed" and two attempts are under way (`OneAttempt`) |
| `QuietDeletes`: deletions and uploads between transcodings | the master playlist lists what has been deleted (`ReadyIsPlayable`) |
| one handler in `video_faulty` | an edit saves "ready" back (`ReadyIsPlayable`); two callbacks overwrite each other's master playlist (`MasterIsComplete`) |
| no failing last task in `video_concurrent` | nothing looks at the video, which stays processing (`ProcessingEnds`) |
| no thumbnail task in `video_concurrent` | it counts as pending, no master playlist is built (`CompletedIsReady`) |
| no edit in `video_concurrent` | a stale row is saved over "ready" (`CompletedIsReady`) |
| no S3 error while the master playlist is rebuilt | the error is dropped, the deleted variant stays listed (`ReadyIsPlayable`) |
| no failing key in `ReadyIsPlayable` | `ToggleDRM` returns when the variants have gone, and the row stays "ready" |
| `QuietToggles`: keys change while nothing else goes on | segments are encrypted with a key that has gone (`KeyServed`) |
| `MayUpload`: one upload at a time, no task under way | an old probe's result is saved over a new original |
| one call at a time in a browser | the second refresh logs the browser out (`StoredIsHonoured`) |

These conditions are hypotheses of the theorems below. Where the code does
nothing at all about a hazard - a login saves a users row over a new password, a
category is moved below its own descendant, an update inserts deleted children
again - no property is stated: it could only repeat its condition. The behaviours are in
the modules, and `hazards` in `PROJECT.json` says so. Four properties name the bad case
instead of excluding it, and say that nothing else leads there: a deleted video comes back
by a request that holds its row (`DeletedIsGone`), a marked video lacks a key where a
deletion of the key was torn from what follows it (`MarkedHasKey`), metadata go by an older row
saved over them (`MetadataApplied`), a temporary slug lasts after a failed creation
or an update that had read it (`TmpIsPassing`).

Two runs show a violation of
what a comment of the repository says; `findings` in `PROJECT.json` quotes it:

| run | property | what happens |
|---|---|---|
| `task_read` | `DeliveredIsProcessed` | a second stream's message is delivered and forgotten |
| `registry_idle` | `OfflineIsSilent` | a worker that sends heartbeats again stays offline until its next report |

### Fairness

`TaskPipeline!Fairness` is weak fairness of each request that has been accepted
(a goroutine runs on) and of each worker's loop, which never leaves its `for`
without a cancelled context. Nothing is assumed of clients, faults, SIGTERMs or
restarts. `VideoPipeline!Fairness` has weak fairness of the handlers and strong
fairness of each task's way through the workers: several tasks compete for
workers and handlers, a stream is served in order and the server starts a
goroutine for each callback, so none is passed over for ever.
`Sessions!FairSpec` has weak fairness of each call: the browser's promise chain
and the handler's goroutine run on, and a lost connection ends in an error.
Nobody is obliged to make a call, nor an administrator to edit.

## Proofs

Each theorem holds for any values of the module's constants - sets of tasks,
workers, handlers, resolutions and so on, and all bounds - that satisfy its named
assumptions, and under the hypotheses of the last column. Those of the first two modules are
about `TaskPipeline`; every other proof module is about the module of its name.

| module | theorem | states | assumes besides |
|---|---|---|---|
| TaskPipelineProofs | `Typing` | `[]TypeOK` | - |
| | `OneHolder` | `[]HeldByOne` | - |
| | `OneAttemptAtATime` | `[]OneAttempt` | `SerialRetries` |
| | `DecidedStaysDecided` | `[]Settled` | `SerialRetries` |
| | `NothingForgotten` | `[]QueuedIsCarried` | `NoFaults`, `OneStream` |
| | `FinishedShown` | `[]CompletedAt100` | `NoFaults`, `SerialRetries` |
| | `ReportsInOrder` | `ProgressGrows` | `NoFaults`, `SerialRetries` |
| TaskRefinementProofs | `Refinement` | `RefinesLifecycle` | `SerialRetries` |
| WorkerRegistryProofs | `RegistryTyping` | `[]TypeOK` | - |
| | `AliveStaysOnline` | `[]AliveIsOnline` | - |
| | `LiveStays` | `[]LiveIsKept` | - |
| | `ListIsRecent` | `[]ListedIsHeard` | - |
| VideoPipelineProofs | `Typing` | `[]TypeOK` | - |
| | `Deletion` | `DeletedIsGone` | - |
| | `Playable` | `[]ReadyIsPlayable` | `Quietly` |
| | `Completeness` | `[]MasterIsComplete` | `OneByOne` |
| | `LastCallback` | `[]CompletedIsReady` | `Calm` |
| DrmKeysProofs | `KeyTyping` | `[]TypeOK` | - |
| | `ServedKey` | `[]KeyServed` | `QuietToggles` |
| | `MarkedKey` | `[]MarkedHasKey` | `QuietToggles`, no `"mark"` in `Operations` |
| MediaResultsProofs | `MediaTyping` | `[]TypeOK` | - |
| | `OriginalStays` | `[]OriginalIsThere` | - |
| | `ThumbnailShows` | `[]ThumbnailHasObject` | - |
| | `ProbesApplied` | `[]MetadataApplied` | - |
| | `ListedThumbnails` | `[]ListedOnce` | `OneTask` |
| SessionsProofs | `SessionTyping` | `[]TypeOK` | - |
| | `Rotation` | `[]StoredIsHonoured` | `OneByOne` |
| CategoryTreeProofs | `CategoryTyping` | `[]TypeOK` | - |
| | `TmpPasses` | `[]TmpIsPassing` | - |

Every hypothesis is a thing the code does not enforce and without which the
property fails; the table under *Conditions* says what happens then. The theorems
say that nothing else - no interleaving, crash, lost message or failed call that the
module allows - breaks it. What is not in that table:

- `SerialRetries`: `RetryTask` reads the status and writes it in two statements, so
  two overlapping retries may both go on.
- `NoFaults` is `MaxFaults = 0`: a crash between the row and the message leaves a
  queued task without either, and a report whose connection broke may be handled
  after the completion. SIGTERMs, failures of a stage, cancels and deletions remain.
- `OneStream`: of the messages that one XREADGROUP delivers from several streams,
  `ReadTask` forgets all but the first (the run `task_read`).
- `Quietly` is `QuietDeletes`, no `"rebuild"` and no `"keys"` in `Faults`, and a single
  handler if there are edits: an edit that has read the row before a deletion saves
  it afterwards.
- `OneByOne` in VideoPipelineProofs is one handler, no retry and no thumbnail task:
  each of these lets a callback find other tasks pending, and leave the playlist as
  it is, while the status is ready already.
- `OneByOne` in SessionsProofs is one call at a time for each browser.
- `Calm` is transcodings and no other operations or faults.
- `OneTask` is one task that extracts thumbnails; two make the same rows twice.
- Without `"mark"` an edit saves the `has_drm` that it has read; with it,
  an edit may mark a video that has no key.

The registry's `TimeAssumption` and `SilenceAssumption` say that an interval and the
latency fit into the timeout, and the timeout and any outage into the expiry.
`RowAssumption` of DrmKeys says that there is a resolution and that `NoRow` and
`NoFiles` are no keys.

*Queue.* `QueueInv == TypeOK /\ HeldByOne` is inductive: each action of `Next` is
one step of `QueueStep`. `HeldByOne` says more than that no two workers hold a
message: that the message held is pending, that messages not yet published are
held by nobody, and that a decision under way over a broken connection excludes
a worker still at it. Without these parts the induction fails at `ReadTask`,
`Publish` and `BreakComplete`.

*Attempts.* `OneAttempt` alone is not inductive: a retry accepted for a failed task
that still had a live message would start a second attempt. `Settled` excludes it -
the callback that failed the task was the only one to come - and in turn needs
`OneAttempt`, so `AttemptInv == QueueInv /\ OneAttempt /\ Settled` is proved
as one. The steps fall into four kinds, a lemma each: a request hands its task over to a
message (`Published`, `RequestSteps`), a callback uses up the one live message
(`Callback`, `DecisionSteps`), other steps of workers make nothing live
(`StillSteps`), clients' cancels and deletions only write the status (`OtherSteps`).

*Refinement.* The attempts of TaskLifecycle are the tasks for which a message is live or a
request under way. `Requeue` needs one more fact, `RetryInv`: the row of an
accepted retry is failed, or cancelled or deleted since. `StepRefines` then maps
starts, accepted retries, requeues, deciding callbacks, cancels and deletions to the
actions of their name, and everything else to `Abandon` of the attempts the step
loses, often none.

*Registry.* `RegistryInv == TypeOK /\ LiveInv /\ HeardInv` is inductive. That a live row is
not marked or deleted says nothing of its age; `LiveInv` adds that the age of the row
is at most `lost * Interval + clock`, which a tick, a heartbeat and a lost heartbeat
all preserve. The lemma `LiveIsRecent` draws the two conclusions from it: below
`Expiry` for the outages assumed, below `Timeout` for `Tolerated` lost heartbeats.
`HeardInv` carries what the marking statement has found out past the reports that come
between the statements.

*Without faults.* `QueueInv`, `late = {}` and `QueuedIsCarried` are inductive
together. For the percentages, `ShownInv` adds to `AttemptInv` that the row of the task a
worker is at shows what that worker has reported last (`Reported`): with one
attempt at a time nobody else can have written it, so each report is at least the one
before, and the completion comes after 100.

*Video.* A handler's copies of the row, of the ready variants and of its counts go stale
as soon as another handler moves, so each invariant says which of them still hold at
which statement. `PlayInv`: the master playlist of a row with a key lists ready variants
(`KeyIsGood`), a ready variant has its objects (`ReadyIsStored`), what a worker has
uploaded is there (`WorkIsStored`), and a handler about to write has read what is so
(`Holds`); a deletion excepts itself from the statement that breaks one of these
until the statement that mends it, which `DeletesAlone` makes sound. `Lost`, that the
video is gone and nobody `HoldsRow`, needs no condition and is preserved by every
step: a request that begins does not find the video, and a statement of one
under way needs the row or writes a copy that it does not hold; `TypeInv` adds that a video
that is gone has no variants. `CompleteInv`: nothing is
pending while the video is ready, and its playlist is complete or the one handler is on its
way to make it so; what that handler has counted is still so (`Fresh`). `CalmInv`: tasks go
from row to variant to message (`TasksInOrder`), each handler is at a statement that
the state of its tasks allows (`InOrder`), and one handler creates them (`OneCreator`). If all are
completed, the callback whose `count` came last counted none pending and writes "ready".

*Keys.* `MarkInv` carries the row through the statements that found or inserted it
(`RowStays`), next to which only one toggle or regeneration is at work (`Alone`); a
mark without a key is `Lacking`, that is, a handler is between the deletion and the
insertion of the key, or one has given up there.
`KeyInv` says that every copy that may yet be uploaded - in a handler, a task's
parameters, the files of an uploaded task - names the row there is (`Copies`), and that a
toggle is alone and finds only tasks that no retry may repeat.

*Results.* `UploadInv`: an upload is alone and the row is as it read it, tasks
and thumbnails are of the present original or an earlier one, which is why the others need
no conditions. `ObjectInv` is about thumbnails and results alike, until a deletion
begins or after a crash has cut one off. `MetaInv`: the result of each completed probe
is in the row, in a handler, in the list of the starting server, or the server is down, or
a save of a row read earlier has written over it; while the server has
never stopped, metadata are those of the present original. `ThumbInv`: row numbers
are unique, and the one handler that makes rows makes those of the indexes that have none.

*Sessions.* `PairInv`: pairs in different hands differ (`Apart`), and the pair in store
has its row, or the browser's one call has spent it and will bring another, or the password
has changed since.

*Categories.* `TmpInv` adds to the property that a handler about to rename has a slug
that is not "tmp". Two steps write "tmp": the insertion of a creation, which is
then about to rename its row, and the save of an update that read it meanwhile, which
notes its row in `stranded` (`SaveTmp`). Other steps leave the slugs, or rename the
row of their own creation (`TmpStays`), and a handler that gives up leaves
its row in `stranded`.

## What is only model-checked

Liveness, which rests on fairness and ENABLED: `QueuedIsDecided`, `ProcessingEnds`
and `CallsEnd`. The two violations are TLC's counterexamples. No
theorem is by induction over data.

## Plan

What is left, in this order:

1. A refinement from VideoPipeline to a video whose playlist and status change at once,
   and its proof under `Quietly`.
2. Weaker hypotheses: `Completeness` for several handlers of which one makes a playlist,
   `ListedThumbnails` for several tasks of which one completes.
3. `NothingForgotten` on several streams, for tasks whose message was the first one read.

## Not modelled

The components with status `not_modelled` in `PROJECT.json`, each with its
reason: they format, wire, render or only read, or no execution reaches them
(`RateLimit` is applied to no route, `SoftDelete`, `SetCategories`, `SetTags` and the cast
of a video are called by none, `heartbeat.go` writes a Redis key that nobody
reads, `CheckVideoComplete`, `ClaimPending`, `SetWorker` and `SetBusy` have no caller).
Of the modelled ones: task logs (never written), the contents of
results and params, the codec as part of a variant's key, several videos at
once in VideoPipeline (they share nothing but workers), and the expiry of
Redis streams (there is none).
