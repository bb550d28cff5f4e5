------------------------ MODULE VideoPipelineProofs ------------------------
(***************************************************************************)
(* Proofs about VideoPipeline, for every value of its constants.           *)
(***************************************************************************)
EXTENDS VideoPipeline, TLAPS

\* Where a handler may be: at the start of a transcoding, in the creation of
\* tasks, in a callback, in a deletion or in an edit.
StartPcs    == {"s_keys", "s_mark", "s_save", "process"}
CreatePcs   == {"create", "variant", "publish"}
CallbackPcs == {"p_read", "p_save", "mark", "save_variant", "count", "list",
                "set_error", "upload_master", "set_ready", "r_save"}
Pcs == {"idle", "e_save"} \cup StartPcs \cup CreatePcs \cup CallbackPcs \cup DeletePcs

\* Where it is about a task, and about the task of a resolution.
TaskPcs    == CallbackPcs \cup {"variant", "publish"}
VariantPcs == {"variant", "mark", "save_variant"}

HandlerRec == [pc : Pcs, task : Tasks \cup {NoTask}, res : Res \cup {NoRes},
               todo : SUBSET Tasks, drm : BOOLEAN, row : Row, copy : Row, ready : SUBSET Res]

\* A handler knows the task whose variant it writes or whose callback it
\* handles, and the resolution whose variant it deletes.
HandlerType == {x \in HandlerRec : /\ x.pc \in TaskPcs => x.task \in Tasks
                                   /\ x.pc \in VariantPcs => JobOf[x.task] \in Res
                                   /\ x.pc \in {"v_files", "v_row"} => x.res \in Res}

TaskStatuses == {"none", "queued", "completed", "failed", "cancelled", "deleted"}
RunStates    == {"none", "waiting", "running", "uploaded", "reporting"}
VariantStatuses == {"none", "processing", "ready"}

\* The typing invariant: a video that is gone has no variants, which keeps the
\* rows that handlers read apart from Gone.
TypeInv ==
  /\ video \in Row \cup {Gone}
  /\ variants \in [Res -> VariantStatuses]
  /\ files \in SUBSET Res /\ master \in SUBSET Res
  /\ tstat \in [Tasks -> TaskStatuses]
  /\ run \in [Tasks -> RunStates]
  /\ handler \in [Handlers -> HandlerType]
  /\ failures \in 0 .. MaxFailures /\ edits \in 0 .. MaxEdits
  /\ video = Gone => \A r \in Res : variants[r] = "none"

\* What every handler is.
LEMMA TypeInvType == TypeInv => TypeOK
<1> SUFFICES ASSUME TypeInv PROVE TypeOK
  OBVIOUS
<1>1. ASSUME NEW h \in Handlers PROVE handler[h] \in HandlerRec
  BY DEF TypeInv, HandlerType
<1> QED
  BY <1>1 DEF TypeInv, TypeOK, HandlerRec, TaskStatuses, RunStates, VariantStatuses

\* A handler that does nothing is well typed.
LEMMA IdleType == Idle \in HandlerType /\ Idle.pc = "idle"
  BY DEF Idle, Draft, HandlerType, HandlerRec, Pcs, TaskPcs, VariantPcs, CallbackPcs, Row,
         VideoStatuses

\* A video is gone when its row is not one of videos.
LEMMA GoneRow == Gone \notin Row /\ Gone.status = "gone" /\ ~Gone.key
  BY DEF Gone, Row, VideoStatuses

\* A task is for a resolution, or for something else than a transcoding.
LEMMA JobType ==
  ASSUME NEW t \in Tasks
  PROVE  /\ JobOf[t] \in Res \cup Others
         /\ t \in Transcodes <=> JobOf[t] \in Res
         /\ JobOf[t] \in Others <=> t \notin Transcodes
  BY JobAssumption, ResAssumption DEF Transcodes

\* The initial state is well typed.
LEMMA InitType == Init => TypeInv
<1> SUFFICES ASSUME Init PROVE TypeInv
  OBVIOUS
<1>1. handler \in [Handlers -> HandlerType]
  BY IdleType DEF Init
<1> QED
  BY <1>1, GoneRow, BoundAssumption
  DEF Init, Draft, TypeInv, Row, VideoStatuses, TaskStatuses, RunStates, VariantStatuses

\* One handler moves on, the others stay where they are.
LEMMA HandlerMoves ==
  ASSUME handler \in [Handlers -> HandlerType], NEW h \in Handlers,
         NEW x \in HandlerType, handler' = [handler EXCEPT ![h] = x]
  PROVE  /\ handler' \in [Handlers -> HandlerType]
         /\ handler'[h] = x
         /\ \A g \in Handlers \ {h} : handler'[g] = handler[g]
  OBVIOUS

\* A handler that goes on to another statement stays well typed.
LEMMA HandlerGoes ==
  ASSUME handler \in [Handlers -> HandlerType], NEW h \in Handlers, NEW pc \in Pcs,
         pc \in TaskPcs => handler[h].task \in Tasks,
         pc \in VariantPcs => JobOf[handler[h].task] \in Res,
         pc \in {"v_files", "v_row"} => handler[h].res \in Res,
         Goto(h, pc)
  PROVE  handler' \in [Handlers -> HandlerType]
<1>1. [handler[h] EXCEPT !.pc = pc] \in HandlerType
  BY DEF HandlerType, HandlerRec
<1> QED
  BY <1>1 DEF Goto

\* So does one that returns.
LEMMA HandlerReturns ==
  ASSUME handler \in [Handlers -> HandlerType], NEW h \in Handlers, Return(h)
  PROVE  handler' \in [Handlers -> HandlerType]
  BY IdleType DEF Return

\* The steps that create tasks.
LEMMA CreateType ==
  ASSUME TypeInv, NEW h \in Handlers,
         CreateTask(h) \/ WriteVariant(h) \/ PublishTask(h)
  PROVE  TypeInv'
<1>0. handler \in [Handlers -> HandlerType] /\ handler[h] \in HandlerType
  BY DEF TypeInv
<1>1. CASE /\ CreateTask(h)
           /\ \E t \in handler[h].todo :
                /\ tstat' = [tstat EXCEPT ![t] = "queued"]
                /\ handler' = [handler EXCEPT
                     ![h].pc = IF t \in Transcodes THEN "variant" ELSE "publish",
                     ![h].task = t, ![h].todo = @ \ {t}]
  <2> PICK t \in handler[h].todo :
         /\ tstat' = [tstat EXCEPT ![t] = "queued"]
         /\ handler' = [handler EXCEPT ![h].pc = IF t \in Transcodes THEN "variant" ELSE "publish",
                                       ![h].task = t, ![h].todo = @ \ {t}]
    BY <1>1
  <2>1. t \in Tasks
    BY <1>0 DEF HandlerType, HandlerRec
  <2> DEFINE x == [handler[h] EXCEPT !.pc = IF t \in Transcodes THEN "variant" ELSE "publish",
                                     !.task = t, !.todo = @ \ {t}]
  <2>2. x \in HandlerType
    BY <1>0, <2>1, JobType
    DEF HandlerType, HandlerRec, Pcs, TaskPcs, VariantPcs, CreatePcs, CallbackPcs, DeletePcs
  <2>3. handler' = [handler EXCEPT ![h] = x]
    OBVIOUS
  <2>4. handler' \in [Handlers -> HandlerType]
    BY <1>0, <2>2, <2>3
  <2> QED
    BY <1>1, <2>1, <2>4 DEF CreateTask, TypeInv, TaskStatuses, s3Vars, boundVars
<1>2. CASE WriteVariant(h)
  <2>1. handler[h].task \in Tasks /\ JobOf[handler[h].task] \in Res
    BY <1>0, <1>2
    DEF WriteVariant, At, HandlerType, HandlerRec, Pcs, TaskPcs, VariantPcs, CreatePcs,
        CallbackPcs, DeletePcs
  <2>2. handler' \in [Handlers -> HandlerType]
    BY <1>0, <1>2, <2>1, HandlerGoes
    DEF WriteVariant, HandlerType, HandlerRec, Pcs, TaskPcs, VariantPcs, CreatePcs,
        CallbackPcs, DeletePcs
  <2>3. /\ variants' \in [Res -> VariantStatuses]
        /\ video = Gone => variants' = variants
    BY <1>2, <2>1 DEF WriteVariant, TypeInv, VariantStatuses
  <2> QED
    BY <1>2, <2>2, <2>3 DEF WriteVariant, TypeInv, s3Vars, boundVars, taskVars
<1>3. CASE PublishTask(h)
  <2>1. handler[h].task \in Tasks
    BY <1>0, <1>3
    DEF PublishTask, At, HandlerType, HandlerRec, Pcs, TaskPcs, VariantPcs, CreatePcs,
        CallbackPcs, DeletePcs
  <2>2. handler' \in [Handlers -> HandlerType]
    BY <1>0, <1>3, HandlerGoes, HandlerReturns
    DEF PublishTask, HandlerType, HandlerRec, Pcs, TaskPcs, VariantPcs, CreatePcs,
        CallbackPcs, DeletePcs
  <2> QED
    BY <1>3, <2>1, <2>2 DEF PublishTask, TypeInv, RunStates, s3Vars, boundVars
<1>4. CASE CreateTask(h) /\ Return(h) /\ UNCHANGED tstat
  BY <1>0, <1>4, HandlerReturns DEF CreateTask, TypeInv, s3Vars, boundVars
<1> QED
  BY <1>1, <1>2, <1>3, <1>4 DEF CreateTask

\* Rows that handlers read and change are rows.
LEMMA RowType ==
  ASSUME NEW row \in Row, NEW status \in VideoStatuses, NEW key \in BOOLEAN
  PROVE  /\ [row EXCEPT !.status = status] \in Row
         /\ [row EXCEPT !.key = key] \in Row
         /\ [status |-> status, key |-> key] \in Row
  BY DEF Row

\* A handler that goes on with a row, or with the ready variants, that it has read.
LEMMA HandlerReads ==
  ASSUME NEW x \in HandlerType, NEW row \in Row, NEW ready \in SUBSET Res,
         NEW pc \in Pcs \ (VariantPcs \cup {"v_files", "v_row"}),
         pc \in TaskPcs => x.task \in Tasks
  PROVE  /\ [x EXCEPT !.pc = pc, !.row = row] \in HandlerType
         /\ [x EXCEPT !.ready = ready, !.pc = pc] \in HandlerType
  BY DEF HandlerType, HandlerRec

\* The steps that lead to the creation of tasks, and the key of a video.
LEMMA StartType ==
  ASSUME TypeInv, NEW h \in Handlers,
         GenerateKeys(h) \/ MarkVideo(h) \/ SaveProtected(h) \/ SetProcessing(h)
  PROVE  TypeInv'
<1>0. /\ handler \in [Handlers -> HandlerType] /\ handler[h] \in HandlerType
      /\ handler[h] \in HandlerRec /\ handler[h].row \in Row /\ handler[h].copy \in Row
  BY DEF TypeInv, HandlerType, HandlerRec
<1>a. ASSUME NEW pc \in StartPcs \cup {"create", "d_mark", "d_save"}, Goto(h, pc)
      PROVE  handler' \in [Handlers -> HandlerType]
  BY <1>0, <1>a, HandlerGoes
  DEF Pcs, StartPcs, CreatePcs, DeletePcs, TaskPcs, VariantPcs, CallbackPcs
<1>1. CASE GenerateKeys(h)
  <2> DEFINE x == [handler[h] EXCEPT !.pc = IF @ = "s_keys" THEN "s_mark" ELSE "d_mark",
                                     !.copy = video]
  <2>1. video # Gone => x \in HandlerType
    <3>1. ASSUME NEW pc \in {"s_mark", "d_mark"}, NEW row \in Row
          PROVE  [handler[h] EXCEPT !.pc = pc, !.copy = row] \in HandlerType
      BY <1>0 DEF HandlerType, HandlerRec, Pcs, StartPcs, DeletePcs, TaskPcs, VariantPcs,
         CallbackPcs
    <3> QED
      BY <3>1 DEF TypeInv
  <2>2. ASSUME video # Gone,
               handler' = [handler EXCEPT ![h].pc = IF @ = "s_keys" THEN "s_mark" ELSE "d_mark",
                                          ![h].copy = video]
        PROVE  handler' \in [Handlers -> HandlerType]
    <3>1. handler' = [handler EXCEPT ![h] = x]
      BY <2>2
    <3> QED
      BY <1>0, <2>1, <2>2, <3>1
  <2>3. handler' \in [Handlers -> HandlerType]
    BY <1>0, <1>1, <1>a, <2>2, HandlerReturns DEF GenerateKeys, StartPcs
  <2> QED
    BY <1>1, <2>3, BoundAssumption DEF GenerateKeys, Failure, TypeInv, s3Vars, taskVars
<1>2. CASE MarkVideo(h)
  <2>1. handler' \in [Handlers -> HandlerType]
    BY <1>2, <1>a DEF MarkVideo, StartPcs
  <2> QED
    BY <1>0, <1>2, <2>1, GoneRow DEF MarkVideo, TypeInv, s3Vars, taskVars, boundVars
<1>3. CASE SaveProtected(h)
  <2>1. handler' \in [Handlers -> HandlerType]
    BY <1>3, <1>a DEF SaveProtected, StartPcs
  <2> QED
    BY <1>0, <1>3, <2>1, GoneRow DEF SaveProtected, TypeInv, s3Vars, taskVars, boundVars
<1>4. CASE SetProcessing(h)
  <2>1. handler' \in [Handlers -> HandlerType]
    BY <1>4, <1>a DEF SetProcessing
  <2>2. video' \in Row \cup {Gone} /\ (video' = Gone => video = Gone)
    BY <1>4, GoneRow, RowType DEF SetProcessing, TypeInv, VideoStatuses
  <2> QED
    BY <1>4, <2>1, <2>2 DEF SetProcessing, TypeInv, s3Vars, taskVars, boundVars
<1> QED
  BY <1>1, <1>2, <1>3, <1>4

\* The callback has been handled.
LEMMA AnswerType ==
  ASSUME TypeInv, NEW h \in Handlers, handler[h].task \in Tasks, Answer(h)
  PROVE  /\ handler' \in [Handlers -> HandlerType]
         /\ run' \in [Tasks -> RunStates]
  BY HandlerReturns DEF TypeInv, Answer, RunStates

\* The steps of a callback.
LEMMA CallbackType ==
  ASSUME TypeInv, NEW h \in Handlers, CallbackStep(h)
  PROVE  TypeInv'
<1>0. handler \in [Handlers -> HandlerType] /\ handler[h] \in HandlerType /\ handler[h] \in HandlerRec
  BY DEF TypeInv, HandlerType
<1>a. handler[h].row \in Row /\ handler[h].task \in Tasks
  BY <1>0 DEF HandlerRec, HandlerType, CallbackStep, ReadForProbe, SaveProbe, FindVariant,
     SaveVariant, CountPending, ListVariants, SetError, UploadMaster, FindReady, SetReady, At, TaskPcs,
     CallbackPcs
<1>1. CASE ReadForProbe(h)
  <2>1. CASE Answer(h)
    BY <1>a, <1>1, <2>1, AnswerType DEF ReadForProbe, TypeInv, s3Vars, boundVars
  <2>2. CASE /\ video # Gone
             /\ handler' = [handler EXCEPT ![h].pc = "p_save",
                  ![h].row = [video EXCEPT !.status = IF @ = "draft" THEN "uploaded" ELSE @]]
             /\ UNCHANGED run
    <3> DEFINE row == [video EXCEPT !.status = IF @ = "draft" THEN "uploaded" ELSE @]
               x   == [handler[h] EXCEPT !.pc = "p_save", !.row = row]
    <3>1. row \in Row
      BY <2>2 DEF TypeInv, Row, VideoStatuses
    <3>2. x \in HandlerType
      BY <1>0, <1>a, <3>1, HandlerReads DEF Pcs, TaskPcs, VariantPcs, CallbackPcs
    <3>3. handler' = [handler EXCEPT ![h] = x]
      BY <2>2
    <3>4. handler' \in [Handlers -> HandlerType]
      BY <1>0, <3>2, <3>3
    <3> QED
      BY <1>1, <2>2, <3>4 DEF ReadForProbe, TypeInv, s3Vars, boundVars
  <2> QED
    BY <1>1, <2>1, <2>2 DEF ReadForProbe
<1>2. CASE SaveProbe(h)
  BY <1>a, <1>2, AnswerType, GoneRow DEF SaveProbe, TypeInv, s3Vars, boundVars
<1>3. CASE FindVariant(h)
  <2>1. JobOf[handler[h].task] \in Res
    BY <1>0, <1>3
    DEF FindVariant, At, HandlerType, HandlerRec, Pcs, TaskPcs, VariantPcs, CreatePcs,
        CallbackPcs, DeletePcs
  <2>2. handler' \in [Handlers -> HandlerType]
    BY <1>0, <1>a, <1>3, <2>1, HandlerGoes
    DEF FindVariant, HandlerType, HandlerRec, Pcs, TaskPcs, VariantPcs, CreatePcs,
        CallbackPcs, DeletePcs
  <2> QED
    BY <1>3, <2>2 DEF FindVariant, TypeInv, s3Vars, taskVars, boundVars
<1>4. CASE SaveVariant(h)
  <2>1. JobOf[handler[h].task] \in Res
    BY <1>0, <1>4
    DEF SaveVariant, At, HandlerType, HandlerRec, Pcs, TaskPcs, VariantPcs, CreatePcs,
        CallbackPcs, DeletePcs
  <2>2. handler' \in [Handlers -> HandlerType]
    BY <1>0, <1>a, <1>4, HandlerGoes
    DEF SaveVariant, HandlerType, HandlerRec, Pcs, TaskPcs, VariantPcs, CreatePcs,
        CallbackPcs, DeletePcs
  <2>3. /\ variants' \in [Res -> VariantStatuses]
        /\ video = Gone => variants' = variants
    BY <1>4, <2>1 DEF SaveVariant, TypeInv, VariantStatuses
  <2> QED
    BY <1>4, <2>2, <2>3 DEF SaveVariant, TypeInv, s3Vars, boundVars, taskVars
<1>5. CASE CountPending(h)
  <2>1. CASE Answer(h)
    BY <1>a, <1>5, <2>1, AnswerType DEF CountPending, TypeInv, s3Vars, boundVars
  <2>2. CASE Goto(h, "list") /\ UNCHANGED run
    <3>1. handler' \in [Handlers -> HandlerType]
      BY <1>0, <1>a, <2>2, HandlerGoes
      DEF HandlerType, HandlerRec, Pcs, TaskPcs, VariantPcs, CreatePcs, CallbackPcs, DeletePcs
    <3> QED
      BY <1>5, <2>2, <3>1 DEF CountPending, TypeInv, s3Vars, boundVars
  <2> QED
    BY <1>5, <2>1, <2>2 DEF CountPending
<1>6. CASE ListVariants(h)
  <2> DEFINE x == [handler[h] EXCEPT !.ready = Ready,
                                     !.pc = IF Ready = {} THEN "set_error" ELSE "upload_master"]
  <2>1. x \in HandlerType
    <3>1. Ready \in SUBSET Res
      BY DEF Ready
    <3> QED
      BY <1>0, <1>a, <3>1, HandlerReads DEF Pcs, TaskPcs, VariantPcs, CallbackPcs
  <2>2. handler' = [handler EXCEPT ![h] = x]
    BY <1>6 DEF ListVariants
  <2>3. handler' \in [Handlers -> HandlerType]
    BY <1>0, <2>1, <2>2
  <2> QED
    BY <1>6, <2>3 DEF ListVariants, TypeInv, s3Vars, taskVars, boundVars
<1>7. CASE SetError(h)
  BY <1>a, <1>7, AnswerType, GoneRow, RowType
  DEF SetError, TypeInv, VideoStatuses, s3Vars, boundVars
<1>8. CASE UploadMaster(h)
  <2>1. handler' \in [Handlers -> HandlerType]
    BY <1>0, <1>a, <1>8, HandlerGoes
    DEF UploadMaster, HandlerType, HandlerRec, Pcs, TaskPcs, VariantPcs, CreatePcs,
        CallbackPcs, DeletePcs
  <2>2. master' \in SUBSET Res
    BY <1>0, <1>8 DEF UploadMaster, HandlerRec, TypeInv
  <2> QED
    BY <1>8, <2>1, <2>2, BoundAssumption DEF UploadMaster, Failure, TypeInv, taskVars
<1>9. CASE FindReady(h)
  <2>1. CASE Answer(h)
    BY <1>a, <1>9, <2>1, AnswerType DEF FindReady, TypeInv, s3Vars, boundVars
  <2>2. CASE Goto(h, "r_save") /\ UNCHANGED run
    <3>1. handler' \in [Handlers -> HandlerType]
      BY <1>0, <1>a, <2>2, HandlerGoes
      DEF HandlerType, HandlerRec, Pcs, TaskPcs, VariantPcs, CreatePcs, CallbackPcs, DeletePcs
    <3> QED
      BY <1>9, <2>2, <3>1 DEF FindReady, TypeInv, s3Vars, boundVars
  <2> QED
    BY <1>9, <2>1, <2>2 DEF FindReady
<1>10. CASE SetReady(h)
  BY <1>a, <1>10, AnswerType, GoneRow DEF SetReady, TypeInv, Row, VideoStatuses, s3Vars, boundVars
<1> QED
  BY <1>1, <1>2, <1>3, <1>4, <1>5, <1>6, <1>7, <1>8, <1>9, <1>10 DEF CallbackStep

\* The steps of the deletion of a variant, and the saves of rows read earlier.
LEMMA DeleteVariantType ==
  ASSUME TypeInv, NEW h \in Handlers,
         \/ DeleteVariantFiles(h) \/ DeleteVariantRow(h) \/ ListRemaining(h)
         \/ RebuildMaster(h) \/ SaveRow(h)
  PROVE  TypeInv'
<1>0. /\ handler \in [Handlers -> HandlerType] /\ handler[h] \in HandlerType
      /\ handler[h] \in HandlerRec /\ handler[h].row \in Row
  BY DEF TypeInv, HandlerType, HandlerRec
<1>1. CASE DeleteVariantFiles(h)
  <2>1. handler' \in [Handlers -> HandlerType]
    BY <1>0, <1>1, HandlerGoes
    DEF DeleteVariantFiles, At, HandlerType, HandlerRec, Pcs, TaskPcs, VariantPcs, CreatePcs,
        CallbackPcs, DeletePcs
  <2> QED
    BY <1>1, <2>1, BoundAssumption DEF DeleteVariantFiles, Failure, TypeInv, taskVars
<1>2. CASE DeleteVariantRow(h)
  <2>1. handler' \in [Handlers -> HandlerType]
    BY <1>0, <1>2, HandlerGoes
    DEF DeleteVariantRow, At, HandlerType, HandlerRec, Pcs, TaskPcs, VariantPcs, CreatePcs,
        CallbackPcs, DeletePcs
  <2>2. /\ variants' \in [Res -> VariantStatuses]
        /\ video = Gone => \A r \in Res : variants'[r] = "none"
    BY <1>2 DEF DeleteVariantRow, TypeInv, VariantStatuses
  <2> QED
    BY <1>2, <2>1, <2>2 DEF DeleteVariantRow, TypeInv, s3Vars, boundVars, taskVars
<1>3. CASE ListRemaining(h)
  <2> DEFINE x == [handler[h] EXCEPT !.ready = Ready, !.pc = "v_master"]
  <2>1. x \in HandlerType
    <3>1. Ready \in SUBSET Res
      BY DEF Ready
    <3> QED
      BY <1>0, <3>1, HandlerReads DEF Pcs, TaskPcs, VariantPcs, CallbackPcs, DeletePcs
  <2>2. handler' = [handler EXCEPT ![h] = x]
    BY <1>3 DEF ListRemaining
  <2>3. handler' \in [Handlers -> HandlerType]
    BY <1>0, <2>1, <2>2
  <2> QED
    BY <1>3, <2>3 DEF ListRemaining, TypeInv, s3Vars, taskVars, boundVars
<1>4. CASE RebuildMaster(h)
  <2> DEFINE old == handler[h].row
             row == IF handler[h].ready = {}
                      THEN [status |-> IF old.status = "ready" THEN "uploaded" ELSE old.status,
                            key |-> FALSE]
                      ELSE old
             x   == [handler[h] EXCEPT !.pc = "v_save", !.row = row]
  <2>1. row \in Row
    BY <1>0 DEF Row, VideoStatuses
  <2>2. x \in HandlerType
    BY <1>0, <2>1, HandlerReads DEF Pcs, TaskPcs, VariantPcs, CallbackPcs, DeletePcs
  <2>3. handler' = [handler EXCEPT ![h] = x]
    BY <1>4 DEF RebuildMaster
  <2>4. handler' \in [Handlers -> HandlerType]
    BY <1>0, <2>2, <2>3
  <2>5. master' \in SUBSET Res
    BY <1>0, <1>4 DEF RebuildMaster, HandlerRec, TypeInv
  <2> QED
    BY <1>4, <2>4, <2>5, BoundAssumption DEF RebuildMaster, Failure, TypeInv, taskVars
<1>5. CASE SaveRow(h)
  BY <1>0, <1>5, HandlerReturns, GoneRow DEF SaveRow, TypeInv, s3Vars, taskVars, boundVars
<1> QED
  BY <1>1, <1>2, <1>3, <1>4, <1>5

\* The steps of the deletion of everything that has been generated, and of the
\* deletion of the video.
LEMMA DeleteAllType ==
  ASSUME TypeInv, NEW h \in Handlers,
         \/ DeleteAllFiles(h) \/ DeleteMaster(h) \/ DeleteRows(h) \/ SaveReset(h)
         \/ DeleteObjects(h) \/ DeleteTasks(h) \/ HardDelete(h)
  PROVE  TypeInv'
<1>0. /\ handler \in [Handlers -> HandlerType] /\ handler[h] \in HandlerType
      /\ handler[h] \in HandlerRec /\ handler[h].row \in Row
  BY DEF TypeInv, HandlerType, HandlerRec
<1>1. CASE DeleteAllFiles(h)
  <2>1. handler' \in [Handlers -> HandlerType]
    BY <1>0, <1>1, HandlerGoes, HandlerReturns
    DEF DeleteAllFiles, HandlerType, HandlerRec, Pcs, TaskPcs, VariantPcs, CreatePcs,
        CallbackPcs, DeletePcs
  <2> QED
    BY <1>1, <2>1, BoundAssumption DEF DeleteAllFiles, Failure, TypeInv, taskVars
<1>2. CASE DeleteMaster(h)
  <2> DEFINE row == [handler[h].row EXCEPT !.key = FALSE]
             x   == [handler[h] EXCEPT !.pc = "d_rows", !.row = row]
  <2>1. row \in Row
    BY <1>0 DEF Row
  <2>2. x \in HandlerType
    BY <1>0, <2>1, HandlerReads DEF Pcs, TaskPcs, VariantPcs, CallbackPcs, DeletePcs
  <2>3. handler' = [handler EXCEPT ![h] = x]
    BY <1>0, <1>2 DEF DeleteMaster, HandlerRec, Row
  <2>4. handler' \in [Handlers -> HandlerType]
    BY <1>0, <2>2, <2>3
  <2> QED
    BY <1>2, <2>4, BoundAssumption DEF DeleteMaster, Failure, TypeInv, taskVars
<1>3. CASE DeleteRows(h)
  <2>1. handler' \in [Handlers -> HandlerType]
    BY <1>0, <1>3, HandlerGoes
    DEF DeleteRows, HandlerType, HandlerRec, Pcs, TaskPcs, VariantPcs, CreatePcs, CallbackPcs,
        DeletePcs
  <2> QED
    BY <1>3, <2>1 DEF DeleteRows, TypeInv, VariantStatuses, s3Vars, taskVars, boundVars
<1>4. CASE SaveReset(h)
  <2>1. handler' \in [Handlers -> HandlerType]
    BY <1>0, <1>4, HandlerGoes, HandlerReturns
    DEF SaveReset, HandlerType, HandlerRec, Pcs, TaskPcs, VariantPcs, CreatePcs, CallbackPcs,
        DeletePcs
  <2> QED
    BY <1>0, <1>4, <2>1, GoneRow DEF SaveReset, TypeInv, s3Vars, taskVars, boundVars
<1>5. CASE DeleteObjects(h)
  <2>1. handler' \in [Handlers -> HandlerType]
    BY <1>0, <1>5, HandlerGoes
    DEF DeleteObjects, HandlerType, HandlerRec, Pcs, TaskPcs, VariantPcs, CreatePcs,
        CallbackPcs, DeletePcs
  <2> QED
    BY <1>5, <2>1, BoundAssumption DEF DeleteObjects, Failure, TypeInv, s3Vars, taskVars
<1>6. CASE DeleteTasks(h)
  <2>1. handler' \in [Handlers -> HandlerType]
    BY <1>0, <1>6, HandlerGoes
    DEF DeleteTasks, HandlerType, HandlerRec, Pcs, TaskPcs, VariantPcs, CreatePcs,
        CallbackPcs, DeletePcs
  <2> QED
    BY <1>6, <2>1 DEF DeleteTasks, TypeInv, TaskStatuses, s3Vars, boundVars
<1>7. CASE HardDelete(h)
  BY <1>0, <1>7, HandlerReturns
  DEF HardDelete, TypeInv, VariantStatuses, TaskStatuses, s3Vars, boundVars
<1> QED
  BY <1>1, <1>2, <1>3, <1>4, <1>5, <1>6, <1>7

\* What clients start.
LEMMA ClientType ==
  ASSUME TypeInv, NEW h \in Handlers, ClientStep(h)
  PROVE  TypeInv'
<1>0. handler \in [Handlers -> HandlerType] /\ (video # Gone => video \in Row)
  BY DEF TypeInv
<1>a. Draft \in Row
  BY DEF Draft, Row, VideoStatuses
<1>b. ASSUME NEW r \in Res, variants[r] # "none" PROVE video # Gone
  BY <1>b DEF TypeInv
<1>c. video # Gone =>
        /\ [video EXCEPT !.status = "uploaded"] \in Row
        /\ [video EXCEPT !.status = "processing"] \in Row
        /\ [video EXCEPT !.status = IF @ \in Reset THEN "uploaded" ELSE @] \in Row
  BY <1>0 DEF Row, VideoStatuses
<1>1. ASSUME NEW S \in SUBSET Transcodes, StartTranscode(h, S) PROVE TypeInv'
  <2> DEFINE x == [Idle EXCEPT !.pc = "process", !.todo = S]
             y == [Idle EXCEPT !.pc = "s_keys", !.todo = S, !.row = video]
  <2>1. x \in HandlerType /\ y \in HandlerType
    BY <1>0, <1>1, <1>a
    DEF StartTranscode, Idle, HandlerType, HandlerRec, Pcs, TaskPcs, VariantPcs, StartPcs,
        CreatePcs, CallbackPcs, DeletePcs, Transcodes
  <2>2. handler' = [handler EXCEPT ![h] = x] \/ handler' = [handler EXCEPT ![h] = y]
    BY <1>1 DEF StartTranscode
  <2>3. handler' \in [Handlers -> HandlerType]
    BY <1>0, <2>1, <2>2
  <2> QED
    BY <1>1, <2>3, BoundAssumption
    DEF StartTranscode, Client, TypeInv, s3Vars, taskVars, boundVars
<1>2. ASSUME NEW t \in Tasks, StartThumbnails(h, t) PROVE TypeInv'
  <2> DEFINE x == [Idle EXCEPT !.pc = "create", !.todo = {t}]
  <2>1. x \in HandlerType
    BY <1>0, <1>2, <1>a
    DEF StartThumbnails, Idle, HandlerType, HandlerRec, Pcs, TaskPcs, VariantPcs, CreatePcs,
        CallbackPcs, DeletePcs
  <2>2. handler' = [handler EXCEPT ![h] = x]
    BY <1>2 DEF StartThumbnails
  <2>3. handler' \in [Handlers -> HandlerType]
    BY <1>0, <2>1, <2>2
  <2> QED
    BY <1>2, <2>3 DEF StartThumbnails, TypeInv, s3Vars, taskVars, boundVars
<1>3. ASSUME NEW r \in Res, DeleteVariant(h, r) PROVE TypeInv'
  <2> DEFINE x == [Idle EXCEPT !.pc = "v_files", !.res = r, !.row = video]
  <2>1. x \in HandlerType
    BY <1>0, <1>3, <1>a, <1>b
    DEF DeleteVariant, Idle, HandlerType, HandlerRec, Pcs, TaskPcs, VariantPcs, CreatePcs,
        CallbackPcs, DeletePcs
  <2>2. handler' = [handler EXCEPT ![h] = x]
    BY <1>3 DEF DeleteVariant
  <2>3. handler' \in [Handlers -> HandlerType]
    BY <1>0, <2>1, <2>2
  <2> QED
    BY <1>3, <2>3, <1>c, GoneRow, BoundAssumption
    DEF DeleteVariant, Client, TypeInv, TaskStatuses, s3Vars, taskVars, boundVars
<1>4. ASSUME NEW t \in Tasks, CompleteUpload(h, t) PROVE TypeInv'
  <2> DEFINE x == [Idle EXCEPT
       !.pc = IF video.status \in Reset THEN "u_files" ELSE "d_save",
       !.row = [video EXCEPT !.status = "uploaded"],
       !.todo = {t}]
  <2>1. x \in HandlerType
    BY <1>0, <1>4, <1>a, <1>c
    DEF CompleteUpload, Idle, HandlerType, HandlerRec, Pcs, TaskPcs, VariantPcs, CreatePcs,
        CallbackPcs, DeletePcs
  <2>2. handler' = [handler EXCEPT ![h] = x]
    BY <1>4 DEF CompleteUpload
  <2>3. handler' \in [Handlers -> HandlerType]
    BY <1>0, <2>1, <2>2
  <2> QED
    BY <1>4, <2>3, <1>c, GoneRow, BoundAssumption
    DEF CompleteUpload, Client, TypeInv, TaskStatuses, s3Vars, taskVars, boundVars
<1>5. ASSUME DeleteVariants(h) PROVE TypeInv'
  <2> DEFINE x == [Idle EXCEPT !.pc = "d_files",
       !.row = [video EXCEPT !.status = IF @ \in Reset THEN "uploaded" ELSE @]]
  <2>1. x \in HandlerType
    BY <1>0, <1>5, <1>a, <1>c
    DEF DeleteVariants, Idle, HandlerType, HandlerRec, Pcs, TaskPcs, VariantPcs, CreatePcs,
        CallbackPcs, DeletePcs
  <2>2. handler' = [handler EXCEPT ![h] = x]
    BY <1>5 DEF DeleteVariants
  <2>3. handler' \in [Handlers -> HandlerType]
    BY <1>0, <2>1, <2>2
  <2> QED
    BY <1>5, <2>3, <1>c, GoneRow, BoundAssumption
    DEF DeleteVariants, Client, TypeInv, TaskStatuses, s3Vars, taskVars, boundVars
<1>6. ASSUME ToggleDRM(h) PROVE TypeInv'
  <2>0. PICK on \in BOOLEAN : handler' = [handler EXCEPT ![h] = [Idle EXCEPT !.pc = "u_files", !.drm = on,
          !.row = [video EXCEPT !.status = IF @ \in Reset THEN "uploaded" ELSE @]]]
    BY <1>6 DEF ToggleDRM
  <2> DEFINE x == [Idle EXCEPT !.pc = "u_files", !.drm = on,
       !.row = [video EXCEPT !.status = IF @ \in Reset THEN "uploaded" ELSE @]]
  <2>1. x \in HandlerType
    BY <1>0, <1>6, <1>a, <1>c
    DEF ToggleDRM, Idle, HandlerType, HandlerRec, Pcs, TaskPcs, VariantPcs, CreatePcs,
        CallbackPcs, DeletePcs
  <2>2. handler' = [handler EXCEPT ![h] = x]
    BY <2>0
  <2>3. handler' \in [Handlers -> HandlerType]
    BY <1>0, <2>1, <2>2
  <2> QED
    BY <1>6, <2>3, BoundAssumption DEF ToggleDRM, Client, TypeInv, s3Vars, taskVars
<1>7. ASSUME DeleteVideo(h) PROVE TypeInv'
  <2> DEFINE x == [Idle EXCEPT !.pc = "x_files"]
  <2>1. x \in HandlerType
    BY <1>0, <1>7, <1>a
    DEF DeleteVideo, Idle, HandlerType, HandlerRec, Pcs, TaskPcs, VariantPcs, CreatePcs,
        CallbackPcs, DeletePcs
  <2>2. handler' = [handler EXCEPT ![h] = x]
    BY <1>7 DEF DeleteVideo
  <2>3. handler' \in [Handlers -> HandlerType]
    BY <1>0, <2>1, <2>2
  <2> QED
    BY <1>7, <2>3, <1>c, GoneRow, BoundAssumption
    DEF DeleteVideo, Client, TypeInv, TaskStatuses, s3Vars, taskVars, boundVars
<1>8. ASSUME EditVideo(h) PROVE TypeInv'
  <2> DEFINE x == [Idle EXCEPT !.pc = "e_save", !.row = video]
  <2>1. x \in HandlerType
    BY <1>0, <1>8, <1>a
    DEF EditVideo, Idle, HandlerType, HandlerRec, Pcs, TaskPcs, VariantPcs, CreatePcs,
        CallbackPcs, DeletePcs
  <2>2. handler' = [handler EXCEPT ![h] = x]
    BY <1>8 DEF EditVideo
  <2>3. handler' \in [Handlers -> HandlerType]
    BY <1>0, <2>1, <2>2
  <2> QED
    BY <1>8, <2>3, <1>c, GoneRow, BoundAssumption
    DEF EditVideo, Client, TypeInv, TaskStatuses, s3Vars, taskVars, boundVars
<1> QED
  BY <1>1, <1>2, <1>3, <1>4, <1>5, <1>6, <1>7, <1>8 DEF ClientStep

\* What the workers do, and what clients do to a task.
LEMMA TaskType ==
  ASSUME TypeInv, NEW t \in Tasks,
         WorkerStep(t) \/ FailTask(t) \/ CancelTask(t) \/ RetryTask(t)
  PROVE  TypeInv'
<1>0. handler \in [Handlers -> HandlerType]
  BY DEF TypeInv
<1>1. CASE TakeTask(t)
  BY <1>1 DEF TakeTask, TypeInv, RunStates, s3Vars, boundVars
<1>2. CASE UploadVariant(t)
  BY <1>2 DEF UploadVariant, TypeInv, RunStates, boundVars
<1>3. ASSUME NEW h \in Handlers, CompleteTask(h, t) PROVE TypeInv'
  <2> DEFINE x == [Idle EXCEPT !.pc = IF JobOf[t] = "probe" THEN "p_read" ELSE "mark", !.task = t]
  <2>1. JobOf[t] # "thumbnail" => x \in HandlerType
    BY JobAssumption
    DEF Others, Row, VideoStatuses, Idle, Draft, HandlerType, HandlerRec, Pcs, TaskPcs, VariantPcs,
        CreatePcs, CallbackPcs, DeletePcs
  <2>2. handler' \in [Handlers -> HandlerType]
    BY <1>0, <1>3, <2>1 DEF CompleteTask
  <2> QED
    BY <1>3, <2>2 DEF CompleteTask, TypeInv, TaskStatuses, RunStates, s3Vars, boundVars
<1>4. CASE FailTask(t)
  BY <1>4, BoundAssumption DEF FailTask, Failure, TypeInv, TaskStatuses, RunStates, s3Vars
<1>5. CASE CancelTask(t)
  BY <1>5, BoundAssumption DEF CancelTask, Client, TypeInv, TaskStatuses, s3Vars
<1>6. CASE RetryTask(t)
  BY <1>6, BoundAssumption DEF RetryTask, Client, TypeInv, TaskStatuses, RunStates, s3Vars
<1> QED
  BY <1>1, <1>2, <1>3, <1>4, <1>5, <1>6 DEF WorkerStep

\* Every step keeps the types, and what handlers know at each statement.
LEMMA NextType == TypeInv /\ [Next]_vars => TypeInv'
<1> SUFFICES ASSUME TypeInv, [Next]_vars PROVE TypeInv'
  OBVIOUS
<1>1. ASSUME NEW h \in Handlers, HandlerStep(h) PROVE TypeInv'
  BY <1>1, StartType, CreateType, CallbackType, DeleteVariantType, DeleteAllType DEF HandlerStep
<1>2. CASE UNCHANGED vars
  BY <1>2 DEF vars, s3Vars, taskVars, boundVars, TypeInv
<1> QED
  BY <1>1, <1>2, ClientType, TaskType DEF Next

\* What the handlers read and know, and every row, is what the code says it is.
THEOREM Typing == Spec => []TypeOK
<1>1. Spec => []TypeInv
  BY InitType, NextType, PTL DEF Spec
<1> QED
  BY <1>1, TypeInvType, PTL

-----------------------------------------------------------------------------
(* A ready video can be played, if clients delete between transcodings     *)
(* only, and edit the row in no other goroutine than the one at work, and  *)
(* a deletion is never left half done.                                     *)

Quietly == /\ QuietDeletes /\ {"rebuild", "keys"} \cap Faults = {}
           /\ "edit" \in Operations => \A g, h \in Handlers : g = h

\* A deletion has the video for itself.
DeletesAlone ==
  \A d \in Handlers : handler[d].pc \in DeletePcs =>
    InFlight = {} /\ \A g \in Handlers \ {d} : At(g, "idle")

\* What a video's key promises.
GoodMaster == master # {} /\ \A r \in master : variants[r] = "ready"

\* A deletion has removed the rows or the objects that the videos row, which it
\* has still to save or to delete, refers to.
BrokenPcs   == {"v_list", "v_master", "v_save", "d_rows", "d_keys", "d_mark", "d_save",
                "x_tasks", "x_row"}
UnstoredPcs == {"d_master", "d_rows", "x_tasks", "x_row"}

KeyIsGood == video.key => GoodMaster \/ \E d \in Handlers : handler[d].pc \in BrokenPcs

ReadyIsStored ==
  \A r \in Res : variants[r] = "ready" =>
    \/ r \in files
    \/ \E d \in Handlers : \/ handler[d].pc \in UnstoredPcs
                           \/ At(d, "v_row") /\ handler[d].res = r

WorkIsStored == \A t \in Transcodes : run[t] = "uploaded" => JobOf[t] \in files

\* What a handler has read is still so when it is used.
Holds(x) ==
  /\ x.pc \in {"mark", "save_variant"} => JobOf[x.task] \in files
  /\ x.pc = "upload_master" => x.ready # {} /\ \A r \in x.ready : variants[r] = "ready"
  /\ x.pc \in {"set_ready", "r_save"} => GoodMaster
  /\ x.pc = "v_master" => x.ready = Ready
  /\ x.pc \in {"p_save", "e_save", "s_keys", "s_mark", "s_save",
               "v_files", "v_row", "v_list", "v_master", "v_save"} =>
       (x.row.status = "ready" => x.row.key)
  /\ x.pc \in {"p_save", "e_save", "s_keys", "s_mark", "s_save", "v_save", "d_save"} =>
       (x.row.key => GoodMaster)
  /\ x.pc \in {"s_mark", "d_mark"} => (x.copy.status = "ready" => x.copy.key)
  /\ x.pc = "s_mark" => (x.copy.key => GoodMaster)
  /\ x.pc \in {"d_files", "u_files", "d_master", "d_rows", "d_keys", "d_mark", "d_save"} =>
       x.row.status # "ready"
  /\ x.pc \in {"d_rows", "d_keys", "d_mark"} => ~x.row.key

PlayInv ==
  /\ TypeInv /\ DeletesAlone
  /\ KeyIsGood
  /\ video.status = "ready" => video.key
  /\ ReadyIsStored /\ WorkIsStored
  /\ \A h \in Handlers : Holds(handler[h])

\* Without variants and handlers at work the invariants hold.
LEMMA InitPlay == Init => PlayInv
<1> SUFFICES ASSUME Init PROVE PlayInv
  OBVIOUS
<1>1. \A h \in Handlers : handler[h] = Idle
  BY DEF Init
<1>2. TypeInv
  BY InitType
<1>3. \A h \in Handlers : handler[h].pc = "idle"
  BY <1>1, IdleType
<1>4. DeletesAlone /\ \A h \in Handlers : Holds(handler[h])
  BY <1>3 DEF DeletesAlone, DeletePcs, Holds
<1>5. video.status = "draft" /\ ~video.key /\ video # Gone
  BY GoneRow DEF Init, Draft
<1>6. KeyIsGood /\ ReadyIsStored /\ WorkIsStored
  BY <1>5 DEF Init, KeyIsGood, ReadyIsStored, WorkIsStored, Transcodes
<1> QED
  BY <1>2, <1>4, <1>5, <1>6 DEF PlayInv

\* While a handler is at work on something else, nothing is being deleted.
LEMMA NoDeletes ==
  ASSUME DeletesAlone, NEW h \in Handlers, handler[h].pc \notin DeletePcs, ~At(h, "idle")
  PROVE  ~Deleting
  BY DEF DeletesAlone, Deleting, At

\* So it is while a task is between its message and its callback.
LEMMA NoDeletesInFlight ==
  ASSUME DeletesAlone, NEW t \in Tasks, run[t] # "none"
  PROVE  ~Deleting
  BY DEF DeletesAlone, Deleting, InFlight

\* What the steps of a deletion have in common: where they are before and after,
\* that the other handlers stay where they are, and that no task is run.
DeleteStep(h) ==
  \/ DeleteVariantFiles(h) \/ DeleteVariantRow(h) \/ ListRemaining(h) \/ RebuildMaster(h)
  \/ At(h, "v_save") /\ SaveRow(h)
  \/ DeleteAllFiles(h) \/ DeleteMaster(h) \/ DeleteRows(h) \/ SaveReset(h)
  \/ At(h, "d_keys") /\ GenerateKeys(h)
  \/ At(h, "d_mark") /\ MarkVideo(h)
  \/ DeleteObjects(h) \/ DeleteTasks(h) \/ HardDelete(h)

OtherStep(h) == \/ At(h, "s_keys") /\ GenerateKeys(h)
                \/ At(h, "s_mark") /\ MarkVideo(h)
                \/ SaveProtected(h) \/ SetProcessing(h)
                \/ CreateTask(h) \/ WriteVariant(h) \/ PublishTask(h) \/ CallbackStep(h)
                \/ At(h, "e_save") /\ SaveRow(h)

\* A handler's step is one of a deletion or another one.
LEMMA StepKinds ==
  ASSUME NEW h \in Handlers PROVE HandlerStep(h) <=> DeleteStep(h) \/ OtherStep(h)
  BY DEF HandlerStep, DeleteStep, OtherStep, SaveRow, GenerateKeys, MarkVideo, At

\* The other handlers stay where they are.
LEMMA OneMoves ==
  ASSUME TypeInv, NEW h \in Handlers, HandlerStep(h) \/ ClientStep(h)
  PROVE  \A g \in Handlers \ {h} : handler'[g] = handler[g]
<1>1. \A x : handler' = [handler EXCEPT ![h] = x] => \A g \in Handlers \ {h} : handler'[g] = handler[g]
  BY DEF TypeInv
<1>2. \A x : Goto(h, x) => \A g \in Handlers \ {h} : handler'[g] = handler[g]
  BY DEF TypeInv, Goto
<1>3. Return(h) => \A g \in Handlers \ {h} : handler'[g] = handler[g]
  BY DEF TypeInv, Return
<1>4. CASE CallbackStep(h)
  BY <1>1, <1>2, <1>3, <1>4
  DEF TypeInv, CallbackStep, ReadForProbe, SaveProbe, FindVariant, SaveVariant, CountPending,
      ListVariants, SetError, UploadMaster, FindReady, SetReady, Answer
<1>5. CASE \/ GenerateKeys(h) \/ MarkVideo(h) \/ SaveProtected(h) \/ SetProcessing(h)
           \/ CreateTask(h) \/ WriteVariant(h) \/ PublishTask(h)
  BY <1>2, <1>3, <1>5 DEF TypeInv, GenerateKeys, MarkVideo, SaveProtected, SetProcessing,
     CreateTask, WriteVariant, PublishTask
<1>6. CASE DeleteStep(h)
  BY <1>2, <1>3, <1>5, <1>6
  DEF TypeInv, DeleteStep, DeleteVariantFiles, DeleteVariantRow, ListRemaining,
     RebuildMaster, SaveRow, DeleteAllFiles, DeleteMaster, DeleteRows, SaveReset, DeleteObjects,
     DeleteTasks, HardDelete
<1>7. CASE ClientStep(h)
  BY <1>7 DEF TypeInv, ClientStep, StartTranscode, StartThumbnails, DeleteVariant, CompleteUpload,
     DeleteVariants, ToggleDRM, DeleteVideo, EditVideo
<1> QED
  BY <1>3, <1>4, <1>5, <1>6, <1>7, StepKinds DEF OtherStep, SaveRow

\* A deletion runs no task.
LEMMA DeleteFrame ==
  ASSUME NEW h \in Handlers, DeleteStep(h)
  PROVE  handler[h].pc \in DeletePcs /\ UNCHANGED run
  BY DEF DeleteStep, DeleteVariantFiles, DeleteVariantRow, ListRemaining, RebuildMaster, SaveRow,
     DeleteAllFiles, DeleteMaster, DeleteRows, SaveReset, GenerateKeys, MarkVideo, DeleteObjects,
     DeleteTasks, HardDelete, At, DeletePcs, taskVars

\* A request that creates a task goes on with it, or gives up.
LEMMA CreateGoes ==
  ASSUME TypeInv, NEW h \in Handlers, CreateTask(h)
  PROVE  \/ handler'[h].pc = "idle"
         \/ /\ handler'[h].pc \in {"variant", "publish"}
            /\ handler'[h].row = handler[h].row
<1>0. handler \in [Handlers -> HandlerType] /\ handler[h] \in HandlerRec
  BY DEF TypeInv, HandlerType
<1>1. CASE Return(h)
  BY <1>0, <1>1, IdleType DEF Return
<1>2. ASSUME NEW t \in handler[h].todo,
             handler' = [handler EXCEPT
               ![h].pc = IF t \in Transcodes THEN "variant" ELSE "publish",
               ![h].task = t,
               ![h].todo = @ \ {t}]
      PROVE  /\ handler'[h].pc \in {"variant", "publish"}
             /\ handler'[h].row = handler[h].row
  <2> DEFINE pc == IF t \in Transcodes THEN "variant" ELSE "publish"
  <2>1. handler'[h] = [handler[h] EXCEPT !.pc = pc, !.task = t, !.todo = @ \ {t}]
    BY <1>0, <1>2
  <2>2. pc \in {"variant", "publish"}
    OBVIOUS
  <2> HIDE DEF pc
  <2> QED
    BY <1>0, <2>1, <2>2 DEF HandlerRec
<1> QED
  BY <1>1, <1>2 DEF CreateTask

\* The other steps of a handler are made, and end, outside deletions.
LEMMA OtherFrame ==
  ASSUME TypeInv, NEW h \in Handlers, OtherStep(h)
  PROVE  /\ handler[h].pc \notin DeletePcs \cup {"idle"}
         /\ handler'[h].pc \notin DeletePcs
<1>0. handler \in [Handlers -> HandlerType]
  BY DEF TypeInv
<1>a. \A pc : Goto(h, pc) => handler'[h].pc = pc
  BY <1>0 DEF Goto, HandlerType, HandlerRec
<1>b. Return(h) => handler'[h].pc = "idle"
  BY <1>0, IdleType DEF Return
<1>1. CASE CallbackStep(h)
  <2>1. handler[h].pc \in CallbackPcs
    BY <1>1
    DEF CallbackStep, ReadForProbe, SaveProbe, FindVariant, SaveVariant, CountPending,
        ListVariants, SetError, UploadMaster, FindReady, SetReady, At, CallbackPcs
  <2>2. handler'[h].pc \in CallbackPcs \cup {"idle"}
    <3>1. CASE ReadForProbe(h)
      BY <1>0, <1>b, <3>1 DEF ReadForProbe, Answer, CallbackPcs, HandlerType, HandlerRec
    <3>2. CASE ListVariants(h)
      BY <1>0, <3>2 DEF ListVariants, CallbackPcs, HandlerType, HandlerRec
    <3>3. CASE SaveProbe(h) \/ SetError(h) \/ SetReady(h)
      BY <1>b, <3>3 DEF SaveProbe, SetError, SetReady, Answer
    <3>4. CASE FindVariant(h) \/ SaveVariant(h) \/ CountPending(h) \/ UploadMaster(h) \/ FindReady(h)
      BY <1>a, <1>b, <3>4
      DEF FindVariant, SaveVariant, CountPending, UploadMaster, FindReady, Answer, CallbackPcs
    <3> QED
      BY <1>1, <3>1, <3>2, <3>3, <3>4 DEF CallbackStep
  <2> QED
    BY <2>1, <2>2 DEF CallbackPcs, DeletePcs
<1>2. CASE CreateTask(h)
  BY <1>2, CreateGoes DEF CreateTask, At, DeletePcs
<1>5. CASE (At(h, "s_keys") /\ GenerateKeys(h)) \/ (At(h, "s_mark") /\ MarkVideo(h))
  BY <1>0, <1>a, <1>b, <1>5 DEF GenerateKeys, MarkVideo, At, DeletePcs, HandlerType, HandlerRec
<1>6. CASE SaveProtected(h) \/ SetProcessing(h)
  BY <1>a, <1>6 DEF SaveProtected, SetProcessing, At, DeletePcs
<1>3. CASE WriteVariant(h) \/ PublishTask(h)
  BY <1>a, <1>b, <1>3 DEF WriteVariant, PublishTask, At, DeletePcs
<1>4. CASE At(h, "e_save") /\ SaveRow(h)
  BY <1>b, <1>4 DEF SaveRow, At, DeletePcs
<1> QED
  BY <1>1, <1>2, <1>3, <1>4, <1>5, <1>6 DEF OtherStep

\* A deletion keeps the video for itself.
LEMMA NextAlone ==
  ASSUME Quietly, TypeInv, DeletesAlone, Next
  PROVE  DeletesAlone'
<1>0. handler \in [Handlers -> HandlerType]
  BY DEF TypeInv
<1>1. ASSUME NEW h \in Handlers, DeleteStep(h) PROVE DeletesAlone'
  <2>1. InFlight = {} /\ \A g \in Handlers \ {h} : At(g, "idle")
    BY <1>1, DeleteFrame DEF DeletesAlone
  <2>2. \A g \in Handlers \ {h} : handler'[g].pc = "idle"
    BY <1>1, <2>1, OneMoves, StepKinds DEF At
  <2>3. InFlight' = {}
    BY <1>1, <2>1, DeleteFrame DEF InFlight
  <2> QED
    BY <2>2, <2>3 DEF DeletesAlone, At, DeletePcs
<1>2. ASSUME NEW h \in Handlers, OtherStep(h) PROVE DeletesAlone'
  <2>1. ~Deleting
    BY <1>2, OtherFrame, NoDeletes DEF At
  <2> QED
    BY <1>2, <2>1, OneMoves, StepKinds, OtherFrame DEF Deleting, DeletesAlone
<1>3. ASSUME NEW h \in Handlers, ClientStep(h) PROVE DeletesAlone'
  <2>1. CASE Quiet
    <3>1. UNCHANGED run
      BY <1>3 DEF ClientStep, StartTranscode, StartThumbnails, DeleteVariant, CompleteUpload,
        DeleteVariants, ToggleDRM, DeleteVideo, EditVideo, taskVars
    <3> QED
      BY <1>3, <2>1, <3>1, OneMoves DEF Quiet, InFlight, At, DeletesAlone, DeletePcs
  <2>2. CASE \/ \E S \in SUBSET Transcodes : StartTranscode(h, S)
             \/ \E t \in Tasks : StartThumbnails(h, t)
    <3>1. ~Deleting
      BY <2>2 DEF StartTranscode, StartThumbnails, MayStart, Quietly
    <3>2. handler'[h].pc \notin DeletePcs
      <4>1. ASSUME NEW S \in SUBSET Transcodes, StartTranscode(h, S)
            PROVE  handler'[h].pc \in {"process", "s_keys"}
        BY <1>0, <4>1 DEF StartTranscode, Idle
      <4>2. ASSUME NEW t \in Tasks, StartThumbnails(h, t)
            PROVE  handler'[h].pc = "create"
        BY <1>0, <4>2 DEF StartThumbnails, Idle
      <4> QED
        BY <2>2, <4>1, <4>2 DEF DeletePcs
    <3> QED
      BY <1>3, <3>1, <3>2, OneMoves DEF Deleting, DeletesAlone
  <2>3. CASE EditVideo(h)
    <3>1. \A g \in Handlers : g = h
      BY <2>3 DEF EditVideo, Client, Quietly
    <3>2. handler'[h].pc \notin DeletePcs
      BY <1>0, <2>3 DEF EditVideo, Idle, DeletePcs
    <3> QED
      BY <3>1, <3>2 DEF DeletesAlone
  <2> QED
    BY <1>3, <2>1, <2>2, <2>3
    DEF ClientStep, DeleteVariant, CompleteUpload, DeleteVariants, ToggleDRM,
       DeleteVideo, MayDelete, Quietly
<1>4. ASSUME NEW t \in Tasks, WorkerStep(t) \/ FailTask(t) PROVE DeletesAlone'
  <2>1. ~Deleting
    <3>1. run[t] # "none"
      BY <1>4 DEF WorkerStep, TakeTask, UploadVariant, CompleteTask, FailTask
    <3> QED
      BY <3>1, NoDeletesInFlight
  <2>2. CASE TakeTask(t) \/ UploadVariant(t) \/ FailTask(t)
    BY <2>1, <2>2 DEF TakeTask, UploadVariant, FailTask, Deleting, DeletesAlone
  <2>3. ASSUME NEW h \in Handlers, CompleteTask(h, t) PROVE DeletesAlone'
    <3>1. \A g \in Handlers : handler'[g].pc \in {handler[g].pc, "p_read", "mark"}
      BY <1>0, <2>3 DEF CompleteTask, Idle
    <3> QED
      BY <2>1, <3>1 DEF Deleting, DeletesAlone, DeletePcs
  <2> QED
    BY <1>4, <2>2, <2>3 DEF WorkerStep
<1>5. ASSUME NEW t \in Tasks, CancelTask(t) PROVE DeletesAlone'
  BY <1>5 DEF CancelTask, DeletesAlone, InFlight, At
<1>6. ASSUME NEW t \in Tasks, RetryTask(t) PROVE DeletesAlone'
  BY <1>6 DEF RetryTask, MayStart, Quietly, Deleting, DeletesAlone
<1> QED
  BY <1>1, <1>2, <1>3, <1>4, <1>5, <1>6, StepKinds DEF Next

\* What holds while nothing is being deleted.
Good ==
  /\ video.key => GoodMaster
  /\ video.status = "ready" => video.key
  /\ \A r \in Res : variants[r] = "ready" => r \in files
  /\ WorkIsStored
  /\ \A h \in Handlers : Holds(handler[h])

\* While nothing is being deleted, the master playlist of a ready video is good.
LEMMA PlayIsGood == PlayInv /\ ~Deleting => Good
  BY DEF PlayInv, KeyIsGood, ReadyIsStored, Deleting, DeletePcs, BrokenPcs, UnstoredPcs, At, Good

\* Ready variants and their objects stay while nothing is being deleted, and with
\* them what the other handlers have read.
LEMMA HoldsOn ==
  ASSUME TypeInv, NEW g \in Handlers, handler'[g] = handler[g],
         handler[g].pc \notin DeletePcs, Holds(handler[g]),
         files \subseteq files', GoodMaster => GoodMaster',
         \A r \in Res : variants[r] = "ready" => variants'[r] = "ready"
  PROVE  Holds(handler[g])'
<1>1. handler[g].ready \in SUBSET Res
  BY DEF TypeInv, HandlerType, HandlerRec
<1> QED
  BY <1>1 DEF Holds, DeletePcs

\* The objects and the rows of a video change as a callback has them change.
LEMMA OtherGood ==
  ASSUME TypeInv, Good, ~Deleting, NEW h \in Handlers, OtherStep(h)
  PROVE  Good'
<1>0. /\ handler \in [Handlers -> HandlerType] /\ handler[h] \in HandlerType /\ handler[h] \in HandlerRec
      /\ handler[h].ready \in SUBSET Res /\ handler[h].row \in Row
      /\ variants \in [Res -> VariantStatuses] /\ master \in SUBSET Res
      /\ run \in [Tasks -> RunStates]
  BY DEF TypeInv, HandlerType, HandlerRec
<1>g. \A pc : Goto(h, pc) => /\ handler'[h].pc = pc /\ handler'[h].task = handler[h].task
                             /\ handler'[h].row = handler[h].row
  BY <1>0 DEF Goto, HandlerRec
<1>b. Return(h) \/ Answer(h) => handler'[h].pc = "idle"
  BY <1>0, IdleType DEF Return, Answer
<1>c. ASSUME UNCHANGED run \/ (\E t \in Tasks : run' = [run EXCEPT ![t] = "waiting"]) \/ Answer(h),
             UNCHANGED files
      PROVE  WorkIsStored'
  BY <1>0, <1>c DEF Answer, Good, WorkIsStored, Transcodes
<1>d. ASSUME files \subseteq files', GoodMaster => GoodMaster',
             \A r \in Res : variants[r] = "ready" => variants'[r] = "ready",
             Holds(handler[h])'
      PROVE  \A g \in Handlers : Holds(handler[g])'
  BY <1>d, OneMoves, StepKinds, HoldsOn DEF Good, Deleting
<1>e. handler'[h].pc = "idle" => Holds(handler[h])'
  BY DEF Holds
<1>f. ASSUME UNCHANGED <<variants, master>> PROVE GoodMaster => GoodMaster'
  BY <1>f DEF GoodMaster
<1>1. CASE CreateTask(h) \/ PublishTask(h)
  <2>1. handler'[h].pc \in {"variant", "publish", "create", "idle"}
    <3>1. CreateTask(h) => handler'[h].pc \in {"variant", "publish", "idle"}
      BY CreateGoes
    <3>2. PublishTask(h) => handler'[h].pc \in {"create", "idle"}
      BY <1>g, <1>b DEF PublishTask
    <3> QED
      BY <1>1, <3>1, <3>2
  <2>2. Holds(handler[h])'
    BY <2>1 DEF Holds
  <2>3. WorkIsStored'
    <3>1. PublishTask(h) => handler[h].task \in Tasks
      BY <1>0 DEF PublishTask, At, HandlerType, TaskPcs
    <3> QED
      BY <1>1, <1>c, <3>1 DEF CreateTask, PublishTask, s3Vars
  <2> QED
    BY <1>1, <1>d, <1>f, <2>2, <2>3 DEF CreateTask, PublishTask, s3Vars, Good
<1>2. CASE WriteVariant(h)
  <2>1. handler'[h].pc = "publish"
    BY <1>g, <1>2 DEF WriteVariant
  <2>2. \A r \in Res : variants[r] = "ready" <=> variants'[r] = "ready"
    BY <1>0, <1>2 DEF WriteVariant
  <2>3. GoodMaster <=> GoodMaster'
    BY <1>0, <1>2, <2>2 DEF WriteVariant, s3Vars, GoodMaster
  <2>4. Holds(handler[h])'
    BY <2>1 DEF Holds
  <2> QED
    BY <1>2, <1>c, <1>d, <2>2, <2>3, <2>4 DEF WriteVariant, s3Vars, taskVars, Good
<1>3. CASE ReadForProbe(h)
  <2>1. Holds(handler[h])'
    <3>1. CASE Answer(h)
      BY <1>b, <1>e, <3>1
    <3>2. CASE /\ video # Gone
               /\ handler' = [handler EXCEPT ![h].pc = "p_save",
                    ![h].row = [video EXCEPT !.status = IF @ = "draft" THEN "uploaded" ELSE @]]
      <4>1. video \in Row
        BY <3>2 DEF TypeInv
      <4>2. /\ handler'[h].pc = "p_save"
            /\ handler'[h].row.key = video.key
            /\ handler'[h].row.status = "ready" => video.status = "ready"
        BY <1>0, <3>2, <4>1 DEF HandlerRec, Row
      <4>3. GoodMaster => GoodMaster'
        BY <1>3, <1>f DEF ReadForProbe, s3Vars
      <4> QED
        BY <4>2, <4>3 DEF Holds, Good
    <3> QED
      BY <1>3, <3>1, <3>2 DEF ReadForProbe
  <2> QED
    BY <1>3, <1>c, <1>d, <1>f, <2>1 DEF ReadForProbe, s3Vars, Good
<1>4. CASE SaveProbe(h) \/ (At(h, "e_save") /\ SaveRow(h))
  <2>1. handler'[h].pc = "idle" /\ UNCHANGED <<variants, s3Vars>>
    BY <1>b, <1>4 DEF SaveProbe, SaveRow
  <2>2. /\ handler[h].row.key => GoodMaster
        /\ handler[h].row.status = "ready" => handler[h].row.key
    BY <1>4 DEF SaveProbe, SaveRow, Good, Holds, At
  <2>3. /\ video'.key => GoodMaster'
        /\ video'.status = "ready" => video'.key
    BY <1>4, <1>f, <2>1, <2>2 DEF SaveProbe, SaveRow, s3Vars
  <2>4. WorkIsStored'
    BY <1>4, <1>c, <2>1 DEF SaveProbe, SaveRow, s3Vars, taskVars
  <2> QED
    BY <1>d, <1>e, <1>f, <2>1, <2>3, <2>4 DEF s3Vars, Good
<1>5. CASE FindVariant(h)
  <2>1. handler'[h].pc \in {"save_variant", "count"} /\ handler'[h].task = handler[h].task
    BY <1>g, <1>5 DEF FindVariant
  <2>2. JobOf[handler[h].task] \in files
    BY <1>5 DEF FindVariant, Good, Holds, At
  <2>3. Holds(handler[h])'
    BY <1>5, <2>1, <2>2 DEF FindVariant, s3Vars, Holds
  <2> QED
    BY <1>5, <1>c, <1>d, <1>f, <2>3 DEF FindVariant, s3Vars, taskVars, Good
<1>6. CASE SaveVariant(h)
  <2>1. handler'[h].pc = "count"
    BY <1>g, <1>6 DEF SaveVariant
  <2>2. JobOf[handler[h].task] \in files
    BY <1>6 DEF SaveVariant, Good, Holds, At
  <2>3. /\ \A r \in Res : variants[r] = "ready" => variants'[r] = "ready"
        /\ \A r \in Res : variants'[r] = "ready" => variants[r] = "ready" \/ r = JobOf[handler[h].task]
    BY <1>0, <1>6 DEF SaveVariant
  <2>4. GoodMaster => GoodMaster'
    BY <1>0, <1>6, <2>3 DEF SaveVariant, s3Vars, GoodMaster
  <2>5. Holds(handler[h])'
    BY <2>1 DEF Holds
  <2> QED
    BY <1>6, <1>c, <1>d, <2>2, <2>3, <2>4, <2>5 DEF SaveVariant, s3Vars, taskVars, Good
<1>7. CASE CountPending(h)
  <2>1. handler'[h].pc \in {"list", "idle"}
    BY <1>g, <1>b, <1>7 DEF CountPending
  <2>2. Holds(handler[h])'
    BY <2>1 DEF Holds
  <2> QED
    BY <1>7, <1>c, <1>d, <1>f, <2>2 DEF CountPending, s3Vars, Good
<1>8. CASE ListVariants(h)
  <2>1. \/ handler'[h].pc = "set_error"
        \/ handler'[h].pc = "upload_master" /\ handler'[h].ready = Ready /\ Ready # {}
    BY <1>0, <1>8 DEF ListVariants, HandlerRec
  <2>2. Holds(handler[h])'
    BY <1>8, <2>1 DEF ListVariants, Ready, Holds
  <2> QED
    BY <1>8, <1>c, <1>d, <1>f, <2>2 DEF ListVariants, s3Vars, taskVars, Good
<1>9. CASE SetError(h)
  <2>1. video'.key = video.key /\ (video'.status = "ready" => video.status = "ready")
    BY <1>9 DEF SetError, TypeInv, Row
  <2> QED
    BY <1>9, <1>b, <1>c, <1>d, <1>e, <1>f, <2>1 DEF SetError, s3Vars, Good
<1>10. CASE UploadMaster(h)
  <2>1. CASE master' = handler[h].ready /\ Goto(h, "set_ready")
    <3>1. GoodMaster'
      BY <1>10, <2>1 DEF UploadMaster, GoodMaster, Good, Holds, At
    <3>2. handler'[h].pc = "set_ready"
      BY <1>g, <2>1
    <3>3. Holds(handler[h])'
      BY <3>1, <3>2 DEF Holds
    <3> QED
      BY <1>10, <1>c, <1>d, <3>1, <3>3 DEF UploadMaster, taskVars, Good
  <2>2. CASE UNCHANGED master /\ Goto(h, "set_error")
    <3>1. handler'[h].pc = "set_error"
      BY <1>g, <2>2
    <3>2. Holds(handler[h])'
      BY <3>1 DEF Holds
    <3> QED
      BY <1>10, <1>c, <1>d, <1>f, <2>2, <3>2 DEF UploadMaster, taskVars, Good
  <2> QED
    BY <1>10, <2>1, <2>2 DEF UploadMaster
<1>11. CASE SetReady(h)
  <2>1. GoodMaster'
    BY <1>11, <1>f DEF SetReady, s3Vars, Good, Holds, At
  <2>2. video'.status = "ready" => video'.key
    BY <1>11, GoneRow DEF SetReady
  <2> QED
    BY <1>11, <1>b, <1>c, <1>d, <1>e, <2>1, <2>2 DEF SetReady, s3Vars, Good
<1>12. CASE FindReady(h)
  <2>1. handler'[h].pc \in {"r_save", "idle"}
    BY <1>g, <1>b, <1>12 DEF FindReady
  <2>2. GoodMaster'
    BY <1>12, <1>f DEF FindReady, s3Vars, Good, Holds, At
  <2>3. Holds(handler[h])'
    BY <2>1, <2>2 DEF Holds
  <2> QED
    BY <1>12, <1>c, <1>d, <1>f, <2>3 DEF FindReady, s3Vars, Good
<1>13. CASE At(h, "s_keys") /\ GenerateKeys(h)
  <2>1. /\ handler[h].row.status = "ready" => handler[h].row.key
        /\ handler[h].row.key => GoodMaster
    BY <1>13 DEF Good, Holds, At
  <2>2. GoodMaster => GoodMaster'
    BY <1>13, <1>f DEF GenerateKeys, s3Vars
  <2>3. \/ handler'[h].pc = "idle"
        \/ handler'[h].pc = "s_save" /\ handler'[h].row = handler[h].row
        \/ /\ handler'[h].pc = "s_mark" /\ handler'[h].row = handler[h].row
           /\ handler'[h].copy = video
    BY <1>0, <1>b, <1>g, <1>13 DEF GenerateKeys, At, HandlerRec
  <2>4. Holds(handler[h])'
    BY <2>1, <2>2, <2>3 DEF Holds, Good
  <2> QED
    BY <1>13, <1>c, <1>d, <2>2, <2>4 DEF GenerateKeys, s3Vars, taskVars, Good
<1>14. CASE At(h, "s_mark") /\ MarkVideo(h)
  <2>1. /\ handler[h].row.status = "ready" => handler[h].row.key
        /\ handler[h].row.key => GoodMaster
        /\ handler[h].copy.status = "ready" => handler[h].copy.key
        /\ handler[h].copy.key => GoodMaster
    BY <1>14 DEF Good, Holds, At
  <2>2. GoodMaster => GoodMaster'
    BY <1>14, <1>f DEF MarkVideo, s3Vars
  <2>3. handler'[h].pc = "s_save" /\ handler'[h].row = handler[h].row
    BY <1>g, <1>14 DEF MarkVideo, At
  <2>4. Holds(handler[h])'
    BY <2>1, <2>2, <2>3 DEF Holds
  <2>5. /\ video'.key => GoodMaster'
        /\ video'.status = "ready" => video'.key
    BY <1>14, <2>1, <2>2 DEF MarkVideo
  <2> QED
    BY <1>14, <1>c, <1>d, <2>2, <2>4, <2>5 DEF MarkVideo, s3Vars, taskVars, Good
<1>15. CASE SaveProtected(h) \/ SetProcessing(h)
  <2>1. GoodMaster => GoodMaster'
    BY <1>15, <1>f DEF SaveProtected, SetProcessing, s3Vars
  <2>2. handler'[h].pc \in {"process", "create"}
    BY <1>g, <1>15 DEF SaveProtected, SetProcessing
  <2>3. Holds(handler[h])'
    BY <2>2 DEF Holds
  <2>4. /\ video'.key => GoodMaster'
        /\ video'.status = "ready" => video'.key
    <3>1. CASE SaveProtected(h)
      BY <2>1, <3>1 DEF SaveProtected, Good, Holds, At
    <3>2. CASE SetProcessing(h)
      <4>1. video'.key = video.key /\ (video'.status = "ready" => video.status = "ready")
        BY <3>2 DEF SetProcessing, TypeInv, Row
      <4> QED
        BY <2>1, <4>1 DEF Good
    <3> QED
      BY <1>15, <3>1, <3>2
  <2> QED
    BY <1>15, <1>c, <1>d, <2>1, <2>3, <2>4 DEF SaveProtected, SetProcessing, s3Vars, taskVars, Good
<1> QED
  BY <1>1, <1>2, <1>3, <1>4, <1>5, <1>6, <1>7, <1>8, <1>9, <1>10, <1>11, <1>12, <1>13, <1>14, <1>15
  DEF OtherStep, CallbackStep

\* Clients change nothing of it: a deletion or an edit starts from a good row.
LEMMA ClientGood ==
  ASSUME TypeInv, Good, ~Deleting, NEW h \in Handlers, ClientStep(h)
  PROVE  Good'
<1>0. handler \in [Handlers -> HandlerType] /\ video \in Row \cup {Gone}
  BY DEF TypeInv
<1>1. UNCHANGED <<variants, s3Vars, run>>
  BY DEF ClientStep, StartTranscode, StartThumbnails, DeleteVariant, CompleteUpload,
     DeleteVariants, ToggleDRM, DeleteVideo, EditVideo, taskVars
<1>2. GoodMaster <=> GoodMaster'
  BY <1>1 DEF s3Vars, GoodMaster
<1>3. video'.key = video.key /\ (video'.status = "ready" => video.status = "ready")
  BY <1>0 DEF ClientStep, StartTranscode, StartThumbnails, DeleteVariant, CompleteUpload,
     DeleteVariants, ToggleDRM, DeleteVideo, EditVideo, Row
<1>4. Holds(handler[h])'
  <2>1. \A S \in SUBSET Transcodes : StartTranscode(h, S) =>
          \/ handler'[h].pc = "process"
          \/ handler'[h].pc = "s_keys" /\ handler'[h].row = video
    <3>1. \A S : handler' = [handler EXCEPT ![h] = [Idle EXCEPT !.pc = "process", !.todo = S]]
                   => handler'[h].pc = "process"
      BY <1>0 DEF Idle
    <3>2. \A S : handler' = [handler EXCEPT ![h] =
                    [Idle EXCEPT !.pc = "s_keys", !.todo = S, !.row = video]]
                   => handler'[h].pc = "s_keys" /\ handler'[h].row = video
      BY <1>0 DEF Idle
    <3> QED
      BY <3>1, <3>2 DEF StartTranscode
  <2>2. \A t \in Tasks : StartThumbnails(h, t) => handler'[h].pc = "create"
    BY <1>0 DEF StartThumbnails, Idle
  <2>3. \A r \in Res : DeleteVariant(h, r) => handler'[h].pc = "v_files" /\ handler'[h].row = video
    BY <1>0 DEF DeleteVariant, Idle
  <2>4. \A t \in Tasks : CompleteUpload(h, t) =>
          /\ handler'[h].pc \in {"u_files", "d_save"}
          /\ handler'[h].row = [video EXCEPT !.status = "uploaded"]
    BY <1>0 DEF CompleteUpload, Idle
  <2>5. DeleteVariants(h) \/ ToggleDRM(h) =>
          /\ handler'[h].pc \in {"d_files", "u_files"}
          /\ handler'[h].row = [video EXCEPT !.status = IF @ \in Reset THEN "uploaded" ELSE @]
    BY <1>0 DEF DeleteVariants, ToggleDRM, Idle
  <2>6. DeleteVideo(h) => handler'[h].pc = "x_files"
    BY <1>0 DEF DeleteVideo, Idle
  <2>7. EditVideo(h) => handler'[h].pc = "e_save" /\ handler'[h].row = video
    BY <1>0 DEF EditVideo, Idle
  <2>8. /\ [video EXCEPT !.status = "uploaded"].status # "ready"
        /\ [video EXCEPT !.status = "uploaded"].key = video.key
        /\ [video EXCEPT !.status = IF @ \in Reset THEN "uploaded" ELSE @].status # "ready"
    BY <1>0 DEF Row, Gone, Reset
  <2>9. CASE \/ handler'[h].pc \in {"create", "process", "x_files"}
             \/ handler'[h].pc = "v_files" /\ handler'[h].row = video
    BY <2>9 DEF Holds, Good
  <2>10. CASE \/ /\ handler'[h].pc \in {"u_files", "d_save"}
                 /\ handler'[h].row = [video EXCEPT !.status = "uploaded"]
              \/ /\ handler'[h].pc \in {"d_files", "u_files"}
                 /\ handler'[h].row = [video EXCEPT !.status = IF @ \in Reset THEN "uploaded" ELSE @]
    BY <1>2, <2>8, <2>10 DEF Holds, Good
  <2>11. CASE handler'[h].pc \in {"e_save", "s_keys"} /\ handler'[h].row = video
    BY <1>2, <2>11 DEF Holds, Good
  <2> QED
    BY <2>1, <2>2, <2>3, <2>4, <2>5, <2>6, <2>7, <2>9, <2>10, <2>11 DEF ClientStep
<1>5. \A g \in Handlers : Holds(handler[g])'
  BY <1>1, <1>2, <1>4, OneMoves, HoldsOn DEF s3Vars, Good, Deleting
<1> QED
  BY <1>1, <1>2, <1>3, <1>5 DEF Good, WorkIsStored, s3Vars

\* Workers store what they report, and a callback begins with that.
LEMMA WorkGood ==
  ASSUME TypeInv, Good, ~Deleting, NEW t \in Tasks, WorkerStep(t) \/ FailTask(t)
  PROVE  Good'
<1>0. /\ handler \in [Handlers -> HandlerType]
      /\ run \in [Tasks -> RunStates] /\ files \in SUBSET Res
      /\ UNCHANGED <<video, variants, master>> /\ files \subseteq files'
  BY DEF TypeInv, WorkerStep, TakeTask, UploadVariant, CompleteTask, FailTask, s3Vars
<1>1. GoodMaster <=> GoodMaster'
  BY <1>0 DEF GoodMaster
<1>2. WorkIsStored'
  <2>1. CASE UploadVariant(t)
    BY <1>0, <2>1 DEF UploadVariant, Good, WorkIsStored, Transcodes
  <2>2. CASE TakeTask(t) \/ FailTask(t)
    BY <1>0, <2>2 DEF TakeTask, FailTask, Good, WorkIsStored, Transcodes
  <2>3. ASSUME NEW h \in Handlers, CompleteTask(h, t) PROVE WorkIsStored'
    BY <1>0, <2>3 DEF CompleteTask, Good, WorkIsStored, Transcodes, s3Vars
  <2> QED
    BY <2>1, <2>2, <2>3 DEF WorkerStep
<1>3. \A g \in Handlers : Holds(handler[g])'
  <2>1. ASSUME NEW g \in Handlers, handler'[g] = handler[g] PROVE Holds(handler[g])'
    BY <1>0, <1>1, <2>1, HoldsOn DEF Good, Deleting
  <2>2. CASE TakeTask(t) \/ UploadVariant(t) \/ FailTask(t)
    BY <2>1, <2>2 DEF TakeTask, UploadVariant, FailTask
  <2>3. ASSUME NEW h \in Handlers, CompleteTask(h, t),
               NEW g \in Handlers, handler'[g] # handler[g]
        PROVE  Holds(handler[g])'
    <3>1. g = h /\ JobOf[t] # "thumbnail"
      BY <1>0, <2>3 DEF CompleteTask
    <3>2. /\ handler'[g].pc = IF JobOf[t] = "probe" THEN "p_read" ELSE "mark"
          /\ handler'[g].task = t
      BY <1>0, <2>3, <3>1 DEF CompleteTask, Idle
    <3>3. handler'[g].pc = "mark" => JobOf[t] \in files /\ UNCHANGED files
      BY <2>3, <3>1, <3>2, JobType DEF CompleteTask, Good, WorkIsStored, Others, s3Vars
    <3> QED
      BY <3>2, <3>3 DEF Holds
  <2> QED
    BY <2>1, <2>2, <2>3 DEF WorkerStep
<1> QED
  BY <1>0, <1>1, <1>2, <1>3 DEF Good

\* A deletion leaves the row that it saves, or deletes, as good as it can be; but
\* for the master playlist rebuilt, S3 may fail.
LEMMA DeletePlay ==
  ASSUME Quietly, PlayInv, NEW h \in Handlers, DeleteStep(h),
         TypeInv', DeletesAlone'
  PROVE  PlayInv'
<1>0. /\ handler \in [Handlers -> HandlerType] /\ handler[h] \in HandlerType /\ handler[h] \in HandlerRec
      /\ handler[h].ready \in SUBSET Res /\ handler[h].row \in Row
      /\ variants \in [Res -> VariantStatuses]
  BY DEF PlayInv, TypeInv, HandlerType, HandlerRec
<1>a. InFlight = {} /\ \A g \in Handlers \ {h} : handler[g].pc = "idle"
  BY DeleteFrame DEF PlayInv, DeletesAlone, At
<1>b. \A g \in Handlers \ {h} : handler'[g].pc = "idle"
  BY <1>a, OneMoves, StepKinds DEF PlayInv
<1>c. WorkIsStored'
  BY <1>a, DeleteFrame DEF InFlight, WorkIsStored, Transcodes
<1>d. \A pc : Goto(h, pc) => /\ handler'[h].pc = pc
                             /\ handler'[h].row = handler[h].row /\ handler'[h].res = handler[h].res
                             /\ handler'[h].ready = handler[h].ready
  BY <1>0 DEF Goto, HandlerRec
<1>e. Return(h) => handler'[h].pc = "idle"
  BY <1>0, IdleType DEF Return
<1>f. /\ video.key => GoodMaster \/ handler[h].pc \in BrokenPcs
      /\ video.status = "ready" => video.key
      /\ \A r \in Res : variants[r] = "ready" =>
           \/ r \in files
           \/ handler[h].pc \in UnstoredPcs
           \/ At(h, "v_row") /\ handler[h].res = r
      /\ Holds(handler[h])
  BY <1>a DEF PlayInv, KeyIsGood, ReadyIsStored, BrokenPcs, UnstoredPcs, At
<1> DEFINE Goal == /\ video.key => GoodMaster \/ handler[h].pc \in BrokenPcs
                   /\ video.status = "ready" => video.key
                   /\ \A r \in Res : variants[r] = "ready" =>
                        \/ r \in files
                        \/ handler[h].pc \in UnstoredPcs
                        \/ At(h, "v_row") /\ handler[h].res = r
                   /\ Holds(handler[h])
<1>g. SUFFICES Goal'
  BY <1>b, <1>c DEF PlayInv, KeyIsGood, ReadyIsStored, Holds
<1>h. ASSUME UNCHANGED <<variants, master>> PROVE GoodMaster <=> GoodMaster'
  BY <1>h DEF GoodMaster
<1>1. CASE DeleteVariantFiles(h)
  <2>1. /\ handler'[h].pc = "v_row" /\ UNCHANGED <<video, variants, master>>
        /\ handler'[h].row = handler[h].row /\ handler'[h].res = handler[h].res
        /\ \A r \in files : r \in files' \/ r = handler[h].res
    BY <1>d, <1>1 DEF DeleteVariantFiles
  <2> QED
    BY <1>f, <1>h, <1>1, <2>1 DEF DeleteVariantFiles, Holds, BrokenPcs, UnstoredPcs, At
<1>2. CASE DeleteVariantRow(h)
  <2>1. /\ handler'[h].pc = "v_list" /\ UNCHANGED <<video, files>>
        /\ handler'[h].row = handler[h].row
        /\ \A r \in Res : variants'[r] = "ready" => variants[r] = "ready" /\ r # handler[h].res
    BY <1>0, <1>d, <1>2 DEF DeleteVariantRow, s3Vars
  <2> QED
    BY <1>f, <1>2, <2>1 DEF DeleteVariantRow, Holds, BrokenPcs, UnstoredPcs, At
<1>3. CASE ListRemaining(h)
  <2>1. /\ handler'[h].pc = "v_master" /\ handler'[h].row = handler[h].row
        /\ handler'[h].ready = Ready
    BY <1>0, <1>3 DEF ListRemaining, HandlerRec
  <2>2. Ready' = Ready
    BY <1>3 DEF ListRemaining, Ready
  <2> QED
    BY <1>f, <1>3, <2>1, <2>2 DEF ListRemaining, Holds, BrokenPcs, UnstoredPcs, At, s3Vars
<1>4. CASE RebuildMaster(h)
  <2>1. /\ handler'[h].pc = "v_save"
        /\ handler[h].ready = {} => /\ ~handler'[h].row.key
                                    /\ handler'[h].row.status # "ready"
        /\ handler[h].ready # {} => handler'[h].row = handler[h].row
    BY <1>0, <1>4 DEF RebuildMaster, HandlerRec
  <2>2. handler[h].ready = Ready
    BY <1>f, <1>4 DEF RebuildMaster, Holds, At
  <2>3. handler[h].ready # {} => GoodMaster'
    BY <1>4, <2>2 DEF RebuildMaster, Failure, GoodMaster, Ready, Quietly
  <2> QED
    BY <1>f, <1>4, <2>1, <2>3 DEF RebuildMaster, Holds, BrokenPcs, UnstoredPcs, At
<1>5. CASE At(h, "v_save") /\ SaveRow(h)
  <2>1. /\ handler[h].row.key => GoodMaster
        /\ handler[h].row.status = "ready" => handler[h].row.key
    BY <1>f, <1>5 DEF Holds, At
  <2>2. /\ handler'[h].pc = "idle" /\ video' = handler[h].row
        /\ UNCHANGED <<variants, files, master>>
    BY <1>e, <1>5 DEF SaveRow, s3Vars
  <2> QED
    BY <1>f, <1>h, <1>5, <2>1, <2>2 DEF Holds, BrokenPcs, UnstoredPcs, At
<1>6. CASE DeleteAllFiles(h)
  <2>1. /\ UNCHANGED <<video, variants, master>>
        /\ \/ handler'[h].pc = "d_master"
           \/ handler'[h].pc = "idle" /\ UNCHANGED files
        /\ handler[h].pc \in {"d_files", "u_files"}
        /\ handler'[h].pc = "d_master" => handler'[h].row = handler[h].row
    BY <1>d, <1>e, <1>6 DEF DeleteAllFiles, At
  <2> QED
    BY <1>f, <1>h, <2>1 DEF Holds, BrokenPcs, UnstoredPcs, At
<1>7. CASE DeleteMaster(h)
  <2>1. /\ handler'[h].pc = "d_rows" /\ ~handler'[h].row.key
        /\ handler'[h].row.status = handler[h].row.status
    BY <1>0, <1>7 DEF DeleteMaster, HandlerRec, Row
  <2> QED
    BY <1>f, <1>7, <2>1 DEF DeleteMaster, Holds, BrokenPcs, UnstoredPcs, At
<1>8. CASE DeleteRows(h)
  <2>1. /\ handler'[h].pc \in {"d_keys", "d_save"} /\ handler'[h].row = handler[h].row
        /\ \A r \in Res : variants'[r] = "none"
    BY <1>d, <1>8 DEF DeleteRows
  <2> QED
    BY <1>f, <1>8, <2>1 DEF DeleteRows, Holds, BrokenPcs, UnstoredPcs, At
<1>9. CASE SaveReset(h)
  <2>1. /\ handler[h].row.key => GoodMaster
        /\ handler[h].row.status # "ready"
    BY <1>f, <1>9 DEF SaveReset, Holds, At
  <2>2. /\ handler'[h].pc \in {"idle", "create"} /\ video' = handler[h].row
        /\ UNCHANGED <<variants, files, master>>
    BY <1>d, <1>e, <1>9 DEF SaveReset, s3Vars
  <2> QED
    BY <1>f, <1>h, <1>9, <2>1, <2>2 DEF SaveReset, Holds, BrokenPcs, UnstoredPcs, At
<1>10. CASE DeleteObjects(h)
  <2>1. handler'[h].pc = "x_tasks"
    BY <1>d, <1>10 DEF DeleteObjects
  <2> QED
    BY <1>f, <1>10, <2>1 DEF DeleteObjects, Holds, BrokenPcs, UnstoredPcs, At
<1>11. CASE DeleteTasks(h)
  <2>1. handler'[h].pc = "x_row"
    BY <1>d, <1>11 DEF DeleteTasks
  <2> QED
    BY <1>f, <1>11, <2>1 DEF DeleteTasks, Holds, BrokenPcs, UnstoredPcs, At, s3Vars
<1>12. CASE HardDelete(h)
  <2>1. handler'[h].pc = "idle" /\ \A r \in Res : variants'[r] = "none"
    BY <1>e, <1>12 DEF HardDelete
  <2> QED
    BY <1>12, <2>1, GoneRow DEF HardDelete, Holds
<1>13. CASE At(h, "d_keys") /\ GenerateKeys(h)
  <2>1. /\ handler[h].row.status # "ready" /\ ~handler[h].row.key
        /\ UNCHANGED <<video, variants, files, master>>
    BY <1>f, <1>13 DEF GenerateKeys, Holds, At, s3Vars
  <2>2. CASE handler'[h].pc = "idle" /\ video = Gone
    BY <2>1, <2>2, GoneRow DEF PlayInv, TypeInv, Holds
  <2>3. CASE \/ handler'[h].pc = "d_save" /\ handler'[h].row = handler[h].row
             \/ /\ handler'[h].pc = "d_mark" /\ handler'[h].row = handler[h].row
                /\ handler'[h].copy = video
    BY <1>f, <1>h, <1>13, <2>1, <2>3 DEF Holds, BrokenPcs, UnstoredPcs, At
  <2> QED
    BY <1>0, <1>d, <1>e, <1>13, <2>2, <2>3 DEF GenerateKeys, Failure, Quietly, At, HandlerRec
<1>14. CASE At(h, "d_mark") /\ MarkVideo(h)
  <2>1. /\ handler[h].row.status # "ready" /\ ~handler[h].row.key
        /\ handler[h].copy.status = "ready" => handler[h].copy.key
    BY <1>f, <1>14 DEF Holds, At
  <2>2. /\ handler'[h].pc = "d_save" /\ handler'[h].row = handler[h].row
        /\ video' = handler[h].copy /\ UNCHANGED <<variants, files, master>>
    BY <1>d, <1>14 DEF MarkVideo, At, s3Vars
  <2> QED
    BY <1>f, <1>h, <1>14, <2>1, <2>2 DEF Holds, BrokenPcs, UnstoredPcs, At
<1> QED
  BY <1>1, <1>2, <1>3, <1>4, <1>5, <1>6, <1>7, <1>8, <1>9, <1>10, <1>11, <1>12,
     <1>13, <1>14
  DEF DeleteStep

\* Clients start, and retry, nothing while something is being deleted.
LEMMA NextPlay ==
  ASSUME Quietly, PlayInv, [Next]_vars
  PROVE  PlayInv'
<1>1. TypeInv /\ DeletesAlone /\ TypeInv'
  BY NextType DEF PlayInv
<1>2. CASE UNCHANGED vars
  BY <1>1, <1>2 DEF vars, s3Vars, taskVars, boundVars, PlayInv, DeletesAlone, InFlight, KeyIsGood,
     GoodMaster, ReadyIsStored, WorkIsStored, Holds, Ready, At
<1>3. CASE Next
  <2>1. DeletesAlone'
    BY <1>1, <1>3, NextAlone
  <2>8. Good' => PlayInv'
    BY <1>1, <2>1 DEF PlayInv, KeyIsGood, ReadyIsStored, Good
  <2>2. ASSUME NEW h \in Handlers, DeleteStep(h) PROVE PlayInv'
    BY <1>1, <2>1, <2>2, DeletePlay
  <2>3. ASSUME NEW h \in Handlers, OtherStep(h) PROVE PlayInv'
    <3>1. ~Deleting
      BY <1>1, <2>3, OtherFrame, NoDeletes DEF At
    <3> QED
      BY <1>1, <2>1, <2>3, <3>1, <2>8, PlayIsGood, OtherGood
  <2>4. ASSUME NEW h \in Handlers, ClientStep(h) PROVE PlayInv'
    <3>1. ~Deleting
      <4>1. CASE Quiet
        BY <4>1 DEF Quiet, Deleting, At, DeletePcs
      <4>2. CASE EditVideo(h)
        BY <4>2 DEF EditVideo, Client, Quietly, Deleting, At, DeletePcs
      <4>3. CASE MayStart
        BY <4>3 DEF MayStart, Quietly
      <4> QED
        BY <2>4, <4>1, <4>2, <4>3 DEF ClientStep, StartTranscode, StartThumbnails, DeleteVariant,
           CompleteUpload, DeleteVariants, ToggleDRM, DeleteVideo, MayDelete, Quietly
    <3> QED
      BY <1>1, <2>1, <2>4, <3>1, <2>8, PlayIsGood, ClientGood
  <2>5. ASSUME NEW t \in Tasks, WorkerStep(t) \/ FailTask(t) PROVE PlayInv'
    <3>1. run[t] # "none"
      BY <2>5 DEF WorkerStep, TakeTask, UploadVariant, CompleteTask, FailTask
    <3>2. ~Deleting
      BY <1>1, <3>1, NoDeletesInFlight
    <3> QED
      BY <1>1, <2>1, <2>5, <3>2, <2>8, PlayIsGood, WorkGood
  <2>6. ASSUME NEW t \in Tasks, CancelTask(t) PROVE PlayInv'
    BY <1>1, <2>1, <2>6 DEF CancelTask, s3Vars, PlayInv, KeyIsGood,
       GoodMaster, ReadyIsStored, WorkIsStored, Holds, Ready, At
  <2>7. ASSUME NEW t \in Tasks, RetryTask(t) PROVE PlayInv'
    <3>1. WorkIsStored'
      BY <1>1, <2>7 DEF RetryTask, s3Vars, PlayInv, WorkIsStored, TypeInv, Transcodes
    <3> QED
      BY <1>1, <2>1, <2>7, <3>1 DEF RetryTask, s3Vars, PlayInv, KeyIsGood,
         GoodMaster, ReadyIsStored, Holds, Ready, At
  <2> QED
    BY <1>3, <2>2, <2>3, <2>4, <2>5, <2>6, <2>7, StepKinds DEF Next
<1> QED
  BY <1>2, <1>3

\* If clients delete between transcodings, and neither the master playlist that a
\* deletion rebuilds nor the key that is to follow one fails, a ready video has a
\* playlist that lists only what is stored.
THEOREM Playable == ASSUME Quietly PROVE Spec => []ReadyIsPlayable
<1>1. Init => PlayInv
  BY InitPlay
<1>2. PlayInv /\ [Next]_vars => PlayInv'
  BY NextPlay
<1>3. PlayInv => ReadyIsPlayable
  BY PlayIsGood DEF PlayInv, TypeInv, Good, GoodMaster, ReadyIsPlayable
<1> QED
  BY <1>1, <1>2, <1>3, PTL DEF Spec

-----------------------------------------------------------------------------
(* A deleted video comes back by a request that holds its row only.        *)

Lost == video = Gone /\ ~(\E h \in Handlers : HoldsRow(h))

\* A handler that holds no row of a video that is gone inserts none, nor comes to
\* hold one, whatever statement it is at.
LEMMA StepLost ==
  ASSUME TypeInv, NEW h \in Handlers, HandlerStep(h), Lost
  PROVE  video' = Gone /\ handler'[h].pc \notin RowPcs
<1>0. /\ handler \in [Handlers -> HandlerType] /\ handler[h] \in HandlerRec
      /\ video = Gone /\ handler[h].pc \notin RowPcs
  BY DEF TypeInv, HandlerType, Lost, HoldsRow
<1>a. \A pc : Goto(h, pc) => handler'[h].pc = pc
  BY <1>0 DEF Goto, HandlerRec
<1>b. Return(h) \/ Answer(h) => handler'[h].pc = "idle"
  BY <1>0, IdleType DEF Return, Answer
<1>c. \A r \in Res : variants[r] = "none"
  BY <1>0 DEF TypeInv
<1>1. CASE SetProcessing(h)
  BY <1>0, <1>a, <1>1 DEF SetProcessing, RowPcs, DeletePcs
<1>2. CASE CreateTask(h)
  BY <1>0, <1>2, CreateGoes DEF CreateTask, RowPcs, DeletePcs
<1>3. CASE WriteVariant(h) \/ PublishTask(h)
  BY <1>0, <1>a, <1>b, <1>3 DEF WriteVariant, PublishTask, RowPcs, DeletePcs
<1>4. CASE ReadForProbe(h) \/ FindReady(h) \/ SetError(h)
  BY <1>0, <1>b, <1>4 DEF ReadForProbe, FindReady, SetError, RowPcs, DeletePcs
<1>5. CASE FindVariant(h) \/ SaveVariant(h) \/ CountPending(h) \/ UploadMaster(h)
  BY <1>0, <1>a, <1>b, <1>5
  DEF FindVariant, SaveVariant, CountPending, UploadMaster, RowPcs, DeletePcs
<1>6. CASE ListVariants(h)
  BY <1>0, <1>6 DEF ListVariants, HandlerRec, RowPcs, DeletePcs
<1>7. CASE DeleteObjects(h) \/ DeleteTasks(h) \/ HardDelete(h)
  BY <1>0, <1>a, <1>b, <1>7 DEF DeleteObjects, DeleteTasks, HardDelete, RowPcs, DeletePcs
<1>8. CASE \/ GenerateKeys(h) \/ MarkVideo(h) \/ SaveProtected(h) \/ SaveProbe(h) \/ SetReady(h)
           \/ SaveRow(h)
  BY <1>0, <1>8 DEF GenerateKeys, MarkVideo, SaveProtected, SaveProbe, SetReady, SaveRow, At,
     RowPcs, DeletePcs
<1>9. CASE \/ DeleteVariantFiles(h) \/ DeleteVariantRow(h) \/ ListRemaining(h) \/ RebuildMaster(h)
           \/ DeleteAllFiles(h) \/ DeleteMaster(h) \/ DeleteRows(h) \/ SaveReset(h)
  BY <1>0, <1>9 DEF DeleteVariantFiles, DeleteVariantRow, ListRemaining, RebuildMaster,
     DeleteAllFiles, DeleteMaster, DeleteRows, SaveReset, At, RowPcs, DeletePcs
<1> QED
  BY <1>1, <1>2, <1>3, <1>4, <1>5, <1>6, <1>7, <1>8, <1>9 DEF HandlerStep, CallbackStep

\* No request that begins finds the video, and what is done to a task, by clients
\* and workers, does not concern its row.
LEMMA NextLost == ASSUME TypeInv, Lost, [Next]_vars PROVE Lost'
<1>0. handler \in [Handlers -> HandlerType] /\ \A r \in Res : variants[r] = "none"
  BY DEF TypeInv, Lost
<1>1. CASE UNCHANGED vars
  BY <1>1 DEF vars, Lost, HoldsRow
<1>2. ASSUME NEW h \in Handlers, HandlerStep(h) PROVE Lost'
  BY <1>2, StepLost, OneMoves DEF Lost, HoldsRow
<1>3. ASSUME NEW h \in Handlers, ClientStep(h) PROVE FALSE
  BY <1>0, <1>3 DEF Lost, ClientStep, StartTranscode, StartThumbnails, DeleteVariant,
     CompleteUpload, DeleteVariants, ToggleDRM, DeleteVideo, EditVideo
<1>4. ASSUME NEW t \in Tasks, NEW h \in Handlers, CompleteTask(h, t) PROVE Lost'
  <2>1. \A g \in Handlers : handler'[g].pc \in {handler[g].pc, "p_read", "mark"}
    BY <1>0, <1>4 DEF CompleteTask, Idle
  <2> QED
    BY <1>4, <2>1 DEF CompleteTask, Lost, HoldsRow, RowPcs, DeletePcs
<1>5. ASSUME NEW t \in Tasks,
             TakeTask(t) \/ UploadVariant(t) \/ FailTask(t) \/ CancelTask(t) \/ RetryTask(t)
      PROVE  Lost'
  BY <1>5 DEF TakeTask, UploadVariant, FailTask, CancelTask, RetryTask, Lost, HoldsRow
<1> QED
  BY <1>1, <1>2, <1>3, <1>4, <1>5 DEF Next, WorkerStep

\* Whatever requests, callbacks and workers are at work: once a video is deleted,
\* and no request under way holds its row, it and its variants are gone for good.
THEOREM Deletion == Spec => DeletedIsGone
<1> DEFINE Bare == video = Gone /\ \A r \in Res : variants[r] = "none"
<1>1. Init => TypeInv
  BY InitType
<1>2. TypeInv /\ [Next]_vars => TypeInv'
  BY NextType
<1>3. TypeInv /\ Lost /\ [Next]_vars => Lost'
  BY NextLost
<1>4. TypeInv /\ Lost => Bare
  BY DEF TypeInv, Lost
<1>5. Spec => [](Lost => []Bare)
  <2> HIDE DEF Bare
  <2> QED
    BY <1>1, <1>2, <1>3, <1>4, PTL DEF Spec
<1> QED
  BY <1>5 DEF DeletedIsGone, Lost

-----------------------------------------------------------------------------
(* The master playlist of a ready video is complete, if requests are       *)
(* handled one at a time, and no task but a transcoding or a probe, and no *)
(* task for the second time, is run.                                       *)

OneByOne == /\ \A g, h \in Handlers : g = h
            /\ "retry" \notin Operations /\ \A t \in Tasks : JobOf[t] # "thumbnail"

\* The callback that is being handled will have the playlist made anew, or give
\* up the video as ready; or a deletion will.
LatePcs == {"count", "list", "upload_master", "set_error", "d_rows", "d_save", "x_tasks", "x_row"}

\* What the handler has read or counted is still so.
Fresh(x) ==
  /\ x.pc \in {"p_save", "e_save", "s_keys", "s_mark", "s_save",
               "v_files", "v_row", "v_list", "v_master", "v_save"} =>
       (x.row.status = "ready" => video.status = "ready")
  /\ x.pc \in {"s_mark", "d_mark"} => (x.copy.status = "ready" => video.status = "ready")
  /\ x.pc = "s_mark" => (x.row.status = "ready" => x.copy.status = "ready")
  /\ x.pc \in {"d_files", "u_files", "d_master", "d_rows", "d_keys", "d_mark", "d_save"} =>
       x.row.status # "ready"
  /\ x.pc \in {"upload_master", "v_master"} => x.ready = Ready
  /\ x.pc \in {"list", "upload_master", "set_ready", "r_save"} => Pending = {}
  /\ x.pc \in {"set_ready", "r_save"} => Ready \subseteq master

CompleteInv ==
  /\ TypeInv
  /\ video.status = "ready" =>
       /\ Pending = {}
       /\ \A h \in Handlers : handler[h].pc \notin CreatePcs
       /\ Ready \subseteq master \/ \E h \in Handlers : handler[h].pc \in LatePcs
  /\ \A h \in Handlers : Fresh(handler[h])

\* The invariant holds while there is no video to be ready.
LEMMA InitComplete == Init => CompleteInv
<1> SUFFICES ASSUME Init PROVE CompleteInv
  OBVIOUS
<1>1. \A h \in Handlers : handler[h].pc = "idle"
  BY IdleType DEF Init
<1>2. video.status = "draft"
  BY DEF Init, Draft
<1> QED
  BY <1>1, <1>2, InitType DEF CompleteInv, Fresh

\* What the invariant says when there is one handler.
Complete(h) ==
  /\ video.status = "ready" => /\ Pending = {} /\ handler[h].pc \notin CreatePcs
                               /\ Ready \subseteq master \/ handler[h].pc \in LatePcs
  /\ Fresh(handler[h])

\* Callbacks, tasks created, and edits.
LEMMA OtherComplete ==
  ASSUME TypeInv, NEW h \in Handlers, Complete(h), OtherStep(h),
         \A t \in Tasks : JobOf[t] # "thumbnail"
  PROVE  Complete(h)'
<1>0. /\ handler \in [Handlers -> HandlerType] /\ handler[h] \in HandlerType /\ handler[h] \in HandlerRec
      /\ handler[h].row \in Row /\ video \in Row \cup {Gone} /\ variants \in [Res -> VariantStatuses]
  BY DEF TypeInv, HandlerType, HandlerRec
<1>a. \A pc : Goto(h, pc) => handler'[h].pc = pc /\ handler'[h].row = handler[h].row
  BY <1>0 DEF Goto, HandlerRec
<1>b. Return(h) \/ Answer(h) => handler'[h].pc = "idle"
  BY <1>0, IdleType DEF Return, Answer
<1>c. UNCHANGED tstat => Pending' = Pending
  BY DEF Pending
<1>d. UNCHANGED variants => Ready' = Ready
  BY DEF Ready
<1>1. CASE CreateTask(h)
  <2>1. handler[h].pc \in CreatePcs /\ handler'[h].pc \in CreatePcs \cup {"idle"} /\ UNCHANGED video
    BY <1>1, CreateGoes DEF CreateTask, CreatePcs, At
  <2> QED
    BY <2>1 DEF Complete, Fresh, CreatePcs
<1>2. CASE WriteVariant(h) \/ PublishTask(h)
  <2>1. handler[h].pc \in CreatePcs /\ handler'[h].pc \in CreatePcs \cup {"idle"} /\ UNCHANGED video
    BY <1>a, <1>b, <1>2 DEF WriteVariant, PublishTask, CreatePcs, At
  <2> QED
    BY <2>1 DEF Complete, Fresh, CreatePcs
<1>3. CASE ReadForProbe(h)
  <2>1. UNCHANGED <<video, variants, master, tstat>> /\ handler[h].pc = "p_read"
    BY <1>3 DEF ReadForProbe, s3Vars, At
  <2>2. \/ handler'[h].pc = "idle"
        \/ handler'[h].pc = "p_save" /\ (handler'[h].row.status = "ready" => video.status = "ready")
    <3>1. CASE Answer(h)
      BY <1>b, <3>1
    <3>2. CASE /\ video # Gone
               /\ handler' = [handler EXCEPT ![h].pc = "p_save",
                    ![h].row = [video EXCEPT !.status = IF @ = "draft" THEN "uploaded" ELSE @]]
      BY <1>0, <3>2 DEF HandlerRec, Row
    <3> QED
      BY <1>3, <3>1, <3>2 DEF ReadForProbe
  <2> QED
    BY <1>c, <1>d, <2>1, <2>2 DEF Complete, Fresh, CreatePcs, LatePcs
<1>4. CASE SaveProbe(h) \/ (At(h, "e_save") /\ SaveRow(h))
  <2>1. /\ UNCHANGED <<variants, master, tstat>> /\ video' = handler[h].row
        /\ handler'[h].pc = "idle" /\ handler[h].pc \in {"p_save", "e_save"}
    BY <1>b, <1>4 DEF SaveProbe, SaveRow, s3Vars, taskVars, At
  <2> QED
    BY <1>c, <1>d, <2>1 DEF Complete, Fresh, CreatePcs, LatePcs
<1>5. CASE FindVariant(h)
  <2>1. /\ UNCHANGED <<video, variants, master, tstat>> /\ handler[h].pc = "mark"
        /\ handler'[h].pc \in {"save_variant", "count"}
    BY <1>a, <1>5 DEF FindVariant, s3Vars, taskVars, At
  <2> QED
    BY <1>c, <1>d, <2>1 DEF Complete, Fresh, CreatePcs, LatePcs
<1>6. CASE SaveVariant(h)
  <2>1. UNCHANGED <<video, master, tstat>> /\ handler'[h].pc = "count"
    BY <1>a, <1>6 DEF SaveVariant, s3Vars, taskVars
  <2> QED
    BY <1>c, <2>1 DEF Complete, Fresh, CreatePcs, LatePcs
<1>7. CASE CountPending(h)
  <2>1. /\ UNCHANGED <<video, variants, master, tstat>>
        /\ \/ Pending = {} /\ handler'[h].pc = "list"
           \/ Pending # {} /\ handler'[h].pc = "idle"
    BY <1>a, <1>b, <1>7 DEF CountPending, s3Vars
  <2> QED
    BY <1>c, <1>d, <2>1 DEF Complete, Fresh, CreatePcs, LatePcs
<1>8. CASE ListVariants(h)
  <2>1. /\ UNCHANGED <<video, variants, master, tstat>> /\ handler[h].pc = "list"
        /\ handler'[h].ready = Ready /\ handler'[h].pc \in {"set_error", "upload_master"}
    BY <1>0, <1>8 DEF ListVariants, HandlerRec, s3Vars, taskVars, At
  <2> QED
    BY <1>c, <1>d, <2>1 DEF Complete, Fresh, CreatePcs, LatePcs
<1>9. CASE SetError(h)
  <2>1. video'.status # "ready" /\ handler'[h].pc = "idle"
    BY <1>0, <1>b, <1>9, GoneRow DEF SetError, Row
  <2> QED
    BY <2>1 DEF Complete, Fresh
<1>10. CASE UploadMaster(h)
  <2>1. /\ UNCHANGED <<video, variants, tstat>> /\ handler[h].pc = "upload_master"
        /\ \/ handler'[h].pc = "set_error"
           \/ handler'[h].pc = "set_ready" /\ master' = handler[h].ready
    BY <1>a, <1>10 DEF UploadMaster, taskVars, At
  <2> QED
    BY <1>c, <1>d, <2>1 DEF Complete, Fresh, CreatePcs, LatePcs
<1>11. CASE SetReady(h)
  <2>1. /\ UNCHANGED <<variants, master, tstat>>
        /\ handler[h].pc = "r_save" /\ handler'[h].pc = "idle"
    BY <1>b, <1>11 DEF SetReady, s3Vars, At
  <2> QED
    BY <1>c, <1>d, <2>1 DEF Complete, Fresh, CreatePcs, LatePcs
<1>12. CASE FindReady(h)
  <2>1. /\ UNCHANGED <<video, variants, master, tstat>>
        /\ handler[h].pc = "set_ready" /\ handler'[h].pc \in {"r_save", "idle"}
    BY <1>a, <1>b, <1>12 DEF FindReady, s3Vars, At
  <2> QED
    BY <1>c, <1>d, <2>1 DEF Complete, Fresh, CreatePcs, LatePcs
<1>13. CASE At(h, "s_keys") /\ GenerateKeys(h)
  <2>1. /\ UNCHANGED <<video, variants, master, tstat>> /\ handler[h].pc = "s_keys"
        /\ \/ handler'[h].pc = "idle"
           \/ handler'[h].pc = "s_save" /\ handler'[h].row = handler[h].row
           \/ /\ handler'[h].pc = "s_mark" /\ handler'[h].row = handler[h].row
              /\ handler'[h].copy = video
    BY <1>0, <1>a, <1>b, <1>13 DEF GenerateKeys, At, HandlerRec, s3Vars, taskVars
  <2> QED
    BY <1>c, <1>d, <2>1 DEF Complete, Fresh, CreatePcs, LatePcs
<1>14. CASE At(h, "s_mark") /\ MarkVideo(h)
  <2>1. /\ UNCHANGED <<variants, master, tstat>> /\ handler[h].pc = "s_mark"
        /\ video' = handler[h].copy
        /\ handler'[h].pc = "s_save" /\ handler'[h].row = handler[h].row
    BY <1>a, <1>14 DEF MarkVideo, At, s3Vars, taskVars
  <2>2. /\ video'.status = "ready" => video.status = "ready"
        /\ handler'[h].row.status = "ready" => video'.status = "ready"
    BY <2>1 DEF Complete, Fresh
  <2> QED
    BY <1>c, <1>d, <2>1, <2>2 DEF Complete, Fresh, CreatePcs, LatePcs
<1>15. CASE SaveProtected(h)
  <2>1. /\ UNCHANGED <<variants, master, tstat>> /\ handler[h].pc = "s_save"
        /\ video' \in {video, handler[h].row} /\ handler'[h].pc = "process"
    BY <1>a, <1>15 DEF SaveProtected, At, s3Vars, taskVars
  <2> QED
    BY <1>c, <1>d, <2>1 DEF Complete, Fresh, CreatePcs, LatePcs
<1>16. CASE SetProcessing(h)
  <2>1. video'.status # "ready" /\ handler'[h].pc = "create"
    BY <1>0, <1>a, <1>16, GoneRow DEF SetProcessing, Row
  <2> QED
    BY <2>1 DEF Complete, Fresh
<1> QED
  BY <1>1, <1>2, <1>3, <1>4, <1>5, <1>6, <1>7, <1>8, <1>9, <1>10, <1>11, <1>12, <1>13, <1>14, <1>15,
     <1>16
  DEF OtherStep, CallbackStep

\* Deletions.
LEMMA DeleteComplete ==
  ASSUME TypeInv, NEW h \in Handlers, Complete(h), DeleteStep(h)
  PROVE  Complete(h)'
<1>0. /\ handler \in [Handlers -> HandlerType] /\ handler[h] \in HandlerRec
      /\ handler[h].row \in Row /\ variants \in [Res -> VariantStatuses]
  BY DEF TypeInv, HandlerType, HandlerRec
<1>a. \A pc : Goto(h, pc) => handler'[h].pc = pc /\ handler'[h].row = handler[h].row
  BY <1>0 DEF Goto, HandlerRec
<1>b. Return(h) => handler'[h].pc = "idle"
  BY <1>0, IdleType DEF Return
<1>c. UNCHANGED tstat => Pending' = Pending
  BY DEF Pending
<1>d. UNCHANGED variants => Ready' = Ready
  BY DEF Ready
<1>1. CASE DeleteVariantFiles(h)
  <2>1. /\ UNCHANGED <<video, variants, master, tstat>> /\ handler[h].pc = "v_files"
        /\ handler'[h].pc = "v_row" /\ handler'[h].row = handler[h].row
    BY <1>a, <1>1 DEF DeleteVariantFiles, taskVars, At
  <2> QED
    BY <1>c, <1>d, <2>1 DEF Complete, Fresh, CreatePcs, LatePcs
<1>2. CASE DeleteVariantRow(h)
  <2>1. /\ UNCHANGED <<video, master, tstat>> /\ handler[h].pc = "v_row"
        /\ handler'[h].pc = "v_list" /\ handler'[h].row = handler[h].row
    BY <1>a, <1>2 DEF DeleteVariantRow, taskVars, s3Vars, At
  <2>2. Ready' \subseteq Ready
    BY <1>0, <1>2 DEF DeleteVariantRow, Ready
  <2> QED
    BY <1>c, <2>1, <2>2 DEF Complete, Fresh, CreatePcs, LatePcs
<1>3. CASE ListRemaining(h)
  <2>1. /\ UNCHANGED <<video, variants, master, tstat>> /\ handler[h].pc = "v_list"
        /\ handler'[h].pc = "v_master" /\ handler'[h].row = handler[h].row
        /\ handler'[h].ready = Ready
    BY <1>0, <1>3 DEF ListRemaining, HandlerRec, s3Vars, taskVars, At
  <2> QED
    BY <1>c, <1>d, <2>1 DEF Complete, Fresh, CreatePcs, LatePcs
<1>4. CASE RebuildMaster(h)
  <2>1. /\ UNCHANGED <<video, variants, tstat>> /\ handler[h].pc = "v_master"
        /\ handler'[h].pc = "v_save"
        /\ handler'[h].row.status = "ready" => handler[h].row.status = "ready"
    BY <1>0, <1>4 DEF RebuildMaster, HandlerRec, Row, taskVars, At
  <2>2. handler[h].ready = Ready
    BY <2>1 DEF Complete, Fresh
  <2>3. Ready \subseteq master' \/ UNCHANGED master
    BY <1>4, <2>2 DEF RebuildMaster
  <2> QED
    BY <1>c, <1>d, <2>1, <2>3 DEF Complete, Fresh, CreatePcs, LatePcs
<1>5. CASE At(h, "v_save") /\ SaveRow(h)
  <2>1. /\ UNCHANGED <<variants, master, tstat>> /\ video' = handler[h].row
        /\ handler'[h].pc = "idle" /\ handler[h].pc = "v_save"
    BY <1>b, <1>5 DEF SaveRow, s3Vars, taskVars, At
  <2> QED
    BY <1>c, <1>d, <2>1 DEF Complete, Fresh, CreatePcs, LatePcs
<1>6. CASE DeleteAllFiles(h)
  <2>1. /\ UNCHANGED <<video, variants, master, tstat>> /\ handler[h].pc \in {"d_files", "u_files"}
        /\ \/ handler'[h].pc = "d_master" /\ handler'[h].row = handler[h].row
           \/ handler'[h].pc = "idle"
    BY <1>a, <1>b, <1>6 DEF DeleteAllFiles, taskVars, At
  <2> QED
    BY <1>c, <1>d, <2>1 DEF Complete, Fresh, CreatePcs, LatePcs
<1>7. CASE DeleteMaster(h)
  <2>1. /\ UNCHANGED <<video, variants, tstat>> /\ handler[h].pc = "d_master"
        /\ handler'[h].pc = "d_rows" /\ handler'[h].row.status = handler[h].row.status
    BY <1>0, <1>7 DEF DeleteMaster, HandlerRec, Row, taskVars, At
  <2> QED
    BY <1>c, <1>d, <2>1 DEF Complete, Fresh, CreatePcs, LatePcs
<1>8. CASE DeleteRows(h)
  <2>1. /\ UNCHANGED <<video, tstat>> /\ handler[h].pc = "d_rows"
        /\ handler'[h].pc \in {"d_keys", "d_save"} /\ handler'[h].row = handler[h].row
    BY <1>a, <1>8 DEF DeleteRows, taskVars, At
  <2>2. Ready' = {}
    BY <1>8 DEF DeleteRows, Ready
  <2> QED
    BY <1>c, <2>1, <2>2 DEF Complete, Fresh, CreatePcs, LatePcs
<1>9. CASE SaveReset(h)
  <2>1. /\ video'.status # "ready"
        /\ handler'[h].pc \in {"idle", "create"}
    BY <1>a, <1>b, <1>9 DEF SaveReset, At, Complete, Fresh
  <2> QED
    BY <2>1 DEF Complete, Fresh
<1>10. CASE DeleteObjects(h)
  <2>1. UNCHANGED <<video, variants, tstat>> /\ handler[h].pc = "x_files" /\ handler'[h].pc = "x_tasks"
    BY <1>a, <1>10 DEF DeleteObjects, taskVars, At
  <2> QED
    BY <1>c, <1>d, <2>1 DEF Complete, Fresh, CreatePcs, LatePcs
<1>11. CASE DeleteTasks(h)
  <2>1. /\ UNCHANGED <<video, variants>> /\ handler'[h].pc = "x_row"
        /\ Pending' = {}
    BY <1>a, <1>11 DEF DeleteTasks, Pending
  <2> QED
    BY <2>1 DEF Complete, Fresh, CreatePcs, LatePcs
<1>12. CASE HardDelete(h)
  <2>1. video'.status # "ready" /\ handler'[h].pc = "idle"
    BY <1>b, <1>12, GoneRow DEF HardDelete
  <2> QED
    BY <2>1 DEF Complete, Fresh
<1>13. CASE At(h, "d_keys") /\ GenerateKeys(h)
  <2>1. /\ UNCHANGED <<video, variants, master, tstat>> /\ handler[h].pc = "d_keys"
        /\ \/ handler'[h].pc = "idle"
           \/ handler'[h].pc = "d_save" /\ handler'[h].row = handler[h].row
           \/ /\ handler'[h].pc = "d_mark" /\ handler'[h].row = handler[h].row
              /\ handler'[h].copy = video
    BY <1>0, <1>a, <1>b, <1>13 DEF GenerateKeys, At, HandlerRec, s3Vars, taskVars
  <2> QED
    BY <1>c, <1>d, <2>1 DEF Complete, Fresh, CreatePcs, LatePcs
<1>14. CASE At(h, "d_mark") /\ MarkVideo(h)
  <2>1. /\ UNCHANGED <<variants, master, tstat>> /\ handler[h].pc = "d_mark"
        /\ video' = handler[h].copy
        /\ handler'[h].pc = "d_save" /\ handler'[h].row = handler[h].row
    BY <1>a, <1>14 DEF MarkVideo, At, s3Vars, taskVars
  <2> QED
    BY <1>c, <1>d, <2>1 DEF Complete, Fresh, CreatePcs, LatePcs
<1> QED
  BY <1>1, <1>2, <1>3, <1>4, <1>5, <1>6, <1>7, <1>8, <1>9, <1>10, <1>11, <1>12, <1>13, <1>14
  DEF DeleteStep

\* What clients start.
LEMMA ClientComplete ==
  ASSUME TypeInv, NEW h \in Handlers, Complete(h), ClientStep(h),
         \A t \in Tasks : JobOf[t] # "thumbnail"
  PROVE  Complete(h)'
<1>0. handler \in [Handlers -> HandlerType] /\ video \in Row \cup {Gone}
  BY DEF TypeInv
<1>a. Pending' = Pending /\ Ready' = Ready /\ UNCHANGED master /\ handler[h].pc = "idle"
  BY DEF ClientStep, StartTranscode, StartThumbnails, DeleteVariant, CompleteUpload,
     DeleteVariants, ToggleDRM, DeleteVideo, EditVideo, taskVars, s3Vars, Pending, Ready, At
<1>1. ASSUME NEW S \in SUBSET Transcodes, StartTranscode(h, S) PROVE Complete(h)'
  <2>1. /\ UNCHANGED video
        /\ \/ handler'[h].pc = "process"
           \/ handler'[h].pc = "s_keys" /\ handler'[h].row = video
    <3>1. handler' = [handler EXCEPT ![h] = [Idle EXCEPT !.pc = "process", !.todo = S]]
            => handler'[h].pc = "process"
      BY <1>0 DEF Idle
    <3>2. handler' = [handler EXCEPT ![h] = [Idle EXCEPT !.pc = "s_keys", !.todo = S, !.row = video]]
            => handler'[h].pc = "s_keys" /\ handler'[h].row = video
      BY <1>0 DEF Idle
    <3> QED
      BY <1>1, <3>1, <3>2 DEF StartTranscode
  <2> QED
    BY <1>a, <2>1 DEF Complete, Fresh, CreatePcs, LatePcs
<1>2. ASSUME NEW r \in Res, DeleteVariant(h, r) PROVE Complete(h)'
  <2>1. UNCHANGED video /\ handler'[h].pc = "v_files" /\ handler'[h].row = video
    BY <1>0, <1>2 DEF DeleteVariant, Idle
  <2> QED
    BY <1>a, <2>1 DEF Complete, Fresh, CreatePcs, LatePcs
<1>3. ASSUME NEW t \in Tasks, CompleteUpload(h, t) PROVE Complete(h)'
  <2>1. /\ UNCHANGED video /\ handler'[h].row.status = "uploaded"
        /\ \/ handler'[h].pc = "u_files"
           \/ handler'[h].pc = "d_save"
    BY <1>0, <1>3 DEF CompleteUpload, Idle, Row
  <2> QED
    BY <1>a, <2>1 DEF Complete, Fresh, CreatePcs, LatePcs
<1>4. CASE DeleteVariants(h) \/ ToggleDRM(h)
  <2>1. /\ UNCHANGED video /\ handler'[h].row.status # "ready"
        /\ handler'[h].pc \in {"d_files", "u_files"}
    <3> DEFINE row == [video EXCEPT !.status = IF @ \in Reset THEN "uploaded" ELSE @]
    <3>1. row.status # "ready"
      BY <1>0 DEF Row, Gone, Reset
    <3> HIDE DEF row
    <3>2. CASE DeleteVariants(h)
      <4>1. handler' = [handler EXCEPT ![h] = [Idle EXCEPT !.pc = "d_files", !.row = row]]
        BY <3>2 DEF DeleteVariants, row
      <4> QED
        BY <1>0, <3>1, <3>2, <4>1 DEF DeleteVariants, Idle
    <3>3. CASE ToggleDRM(h)
      <4>1. PICK on \in BOOLEAN : handler' = [handler EXCEPT ![h] =
              [Idle EXCEPT !.pc = "u_files", !.drm = on, !.row = row]]
        BY <3>3 DEF ToggleDRM, row
      <4> QED
        BY <1>0, <3>1, <3>3, <4>1 DEF ToggleDRM, Idle
    <3> QED
      BY <1>4, <3>2, <3>3
  <2> QED
    BY <1>a, <2>1 DEF Complete, Fresh, CreatePcs, LatePcs
<1>5. CASE DeleteVideo(h) \/ EditVideo(h)
  <2>1. /\ UNCHANGED video
        /\ \/ handler'[h].pc = "x_files"
           \/ handler'[h].pc = "e_save" /\ handler'[h].row = video
    BY <1>0, <1>5 DEF DeleteVideo, EditVideo, Idle
  <2> QED
    BY <1>a, <2>1 DEF Complete, Fresh, CreatePcs, LatePcs
<1> QED
  BY <1>1, <1>2, <1>3, <1>4, <1>5 DEF ClientStep, StartThumbnails

\* Tasks that are worked on, reported or cancelled become no more.
LEMMA TaskComplete ==
  ASSUME TypeInv, NEW h \in Handlers, Complete(h), \A g \in Handlers : g = h,
         NEW t \in Tasks, WorkerStep(t) \/ FailTask(t) \/ CancelTask(t)
  PROVE  Complete(h)'
<1>0. handler \in [Handlers -> HandlerType] /\ tstat \in [Tasks -> TaskStatuses]
  BY DEF TypeInv
<1>1. UNCHANGED <<video, variants, master>> /\ Ready' = Ready
  BY DEF WorkerStep, TakeTask, UploadVariant, CompleteTask, FailTask, CancelTask, s3Vars, Ready
<1>2. Pending' \subseteq Pending
  BY <1>0 DEF WorkerStep, TakeTask, UploadVariant, CompleteTask, FailTask, CancelTask, Pending
<1>3. CASE UNCHANGED handler
  BY <1>1, <1>2, <1>3 DEF Complete, Fresh
<1>4. CASE handler' # handler
  <2>1. CompleteTask(h, t)
    BY <1>4 DEF WorkerStep, TakeTask, UploadVariant, FailTask, CancelTask
  <2>2. handler[h].pc = "idle" /\ handler'[h].pc \in {"p_read", "mark"}
    BY <1>0, <1>4, <2>1 DEF CompleteTask, Idle, At
  <2> QED
    BY <1>1, <1>2, <2>2 DEF Complete, Fresh, CreatePcs, LatePcs
<1> QED
  BY <1>3, <1>4

\* One handler at a time lists each variant that is ready when it looks.
LEMMA NextComplete ==
  ASSUME OneByOne, CompleteInv, [Next]_vars
  PROVE  CompleteInv'
<1>0. TypeInv /\ TypeInv' /\ (\A t \in Tasks : JobOf[t] # "thumbnail")
  BY NextType DEF CompleteInv, OneByOne
<1>1. CASE UNCHANGED vars
  BY <1>0, <1>1 DEF vars, s3Vars, taskVars, boundVars, CompleteInv, Fresh, Ready, Pending
<1>2. CASE Next
  <2>1. CASE Handlers = {}
    <3>1. PICK t \in Tasks : CancelTask(t) \/ RetryTask(t) \/ WorkerStep(t) \/ FailTask(t)
      BY <1>2, <2>1 DEF Next
    <3>2. UNCHANGED <<video, variants, master>>
      BY <3>1, <2>1 DEF WorkerStep, TakeTask, UploadVariant, CompleteTask, FailTask, CancelTask,
         RetryTask, s3Vars
    <3>3. Pending' \subseteq Pending
      BY <1>0, <2>1, <3>1
      DEF WorkerStep, TakeTask, UploadVariant, FailTask, CancelTask, RetryTask,
         Client, OneByOne, Pending, TypeInv
    <3> QED
      BY <1>0, <2>1, <3>2, <3>3 DEF CompleteInv, Ready
  <2>2. ASSUME NEW h \in Handlers PROVE CompleteInv'
    <3>0. \A g \in Handlers : g = h
      BY DEF OneByOne
    <3>1. Complete(h)
      BY <3>0 DEF CompleteInv, Complete
    <3>2. Complete(h)'
      <4>1. CASE HandlerStep(h)
        BY <1>0, <3>1, <4>1, StepKinds, OtherComplete, DeleteComplete
      <4>2. CASE ClientStep(h)
        BY <1>0, <3>1, <4>2, ClientComplete
      <4>3. ASSUME NEW t \in Tasks, WorkerStep(t) \/ FailTask(t) \/ CancelTask(t) PROVE Complete(h)'
        BY <1>0, <3>0, <3>1, <4>3, TaskComplete
      <4>4. \A t \in Tasks : ~RetryTask(t)
        BY DEF RetryTask, Client, OneByOne
      <4> QED
        BY <1>2, <3>0, <4>1, <4>2, <4>3, <4>4 DEF Next
    <3> QED
      BY <1>0, <3>0, <3>2 DEF CompleteInv, Complete
  <2> QED
    BY <2>1, <2>2
<1> QED
  BY <1>1, <1>2

\* If one request is handled at a time, every variant that is ready is in the
\* playlist of a ready video, although an S3 error leaves the former playlist.
THEOREM Completeness == ASSUME OneByOne PROVE Spec => []MasterIsComplete
<1>1. Init => CompleteInv
  BY InitComplete
<1>2. CompleteInv /\ [Next]_vars => CompleteInv'
  BY NextComplete
<1>3. CompleteInv => MasterIsComplete
  BY DEF CompleteInv, MasterIsComplete, Quiet, At, LatePcs
<1> QED
  BY <1>1, <1>2, <1>3, PTL DEF Spec

-----------------------------------------------------------------------------
(* Tasks that have all been completed make the video ready, however many   *)
(* are reported at once, if nothing fails and clients start transcodings   *)
(* only.                                                                   *)

Calm == Operations = {} /\ Faults = {} /\ \A t \in Tasks : JobOf[t] \in Res

CalmPcs == {"idle", "process", "create", "variant", "publish",
            "mark", "save_variant", "count", "list", "upload_master", "set_ready", "r_save"}

\* A task has a row, then a variant, then a message, whoever creates or reports it.
TasksInOrder ==
  \A t \in Tasks : /\ tstat[t] \in {"none", "queued", "completed"}
                   /\ tstat[t] = "none" => run[t] = "none"
                   /\ run[t] # "none" => variants[JobOf[t]] # "none"

InOrder(h) ==
  /\ handler[h].pc \in CalmPcs
  /\ handler[h].pc \in {"process", "create"} => handler[h].todo # {}
  /\ \A t \in handler[h].todo : tstat[t] = "none"
  /\ handler[h].pc \in {"variant", "publish"} =>
       tstat[handler[h].task] = "queued" /\ run[handler[h].task] = "none"
  /\ handler[h].pc \in {"publish", "mark"} => variants[JobOf[handler[h].task]] # "none"
  /\ handler[h].pc \in {"count", "list"} => variants[JobOf[handler[h].task]] = "ready"

\* No task is created by two handlers.
OneCreator ==
  \A g, h \in Handlers : g # h =>
    /\ handler[g].todo \cap handler[h].todo = {}
    /\ handler[g].pc \in {"variant", "publish"} /\ handler[h].pc \in {"variant", "publish"} =>
         handler[g].task # handler[h].task

Finished == /\ \E t \in Tasks : tstat[t] = "completed"
            /\ \A t \in Tasks : tstat[t] \in {"none", "completed"}

CalmInv ==
  /\ TypeInv /\ video # Gone
  /\ TasksInOrder /\ \A h \in Handlers : InOrder(h)
  /\ OneCreator
  /\ Finished => video.status = "ready" \/ \E h \in Handlers : ~At(h, "idle")

\* Before the first transcoding nothing is queued.
LEMMA InitCalm == Init => CalmInv
<1> SUFFICES ASSUME Init PROVE CalmInv
  OBVIOUS
<1>1. \A h \in Handlers : handler[h].pc = "idle" /\ handler[h].todo = {}
  BY IdleType DEF Init, Idle
<1>2. TypeInv /\ video # Gone
  BY InitType, GoneRow DEF Init, Draft, Gone
<1>3. TasksInOrder /\ ~Finished
  BY DEF Init, TasksInOrder, Finished
<1>4. OneCreator /\ \A h \in Handlers : InOrder(h)
  BY <1>1 DEF OneCreator, InOrder, CalmPcs, At
<1> QED
  BY <1>2, <1>3, <1>4 DEF CalmInv

\* What may happen then.
CalmHandlerStep(h) ==
  \/ \E S \in SUBSET Transcodes : StartTranscode(h, S)
  \/ SetProcessing(h) \/ CreateTask(h) \/ WriteVariant(h) \/ PublishTask(h)
  \/ FindVariant(h) \/ SaveVariant(h) \/ CountPending(h) \/ ListVariants(h)
  \/ UploadMaster(h) \/ FindReady(h) \/ SetReady(h)

\* Without faults and edits only transcodings and their callbacks are left.
LEMMA CalmSteps ==
  ASSUME Calm, CalmInv, Next
  PROVE  (\E h \in Handlers : CalmHandlerStep(h)) \/ (\E t \in Tasks : WorkerStep(t))
<1>1. \A h \in Handlers : handler[h].pc \in CalmPcs
  BY DEF CalmInv, InOrder
<1>2. ASSUME NEW h \in Handlers, HandlerStep(h) PROVE CalmHandlerStep(h)
  BY <1>1, <1>2, StepKinds, DeleteFrame DEF OtherStep, CallbackStep, CalmHandlerStep, CalmPcs,
     DeletePcs, ReadForProbe, SaveProbe, SetError, SaveRow, SaveProtected, At
<1>3. ASSUME NEW h \in Handlers, ClientStep(h) PROVE CalmHandlerStep(h)
  BY <1>3, ResAssumption DEF ClientStep, CalmHandlerStep, StartThumbnails, DeleteVariant,
     CompleteUpload, DeleteVariants, ToggleDRM, DeleteVideo, EditVideo, Client, Calm, Others
<1>4. \A t \in Tasks : ~(FailTask(t) \/ CancelTask(t) \/ RetryTask(t))
  BY DEF FailTask, CancelTask, RetryTask, Client, Failure, Calm, CalmInv, TasksInOrder
<1> QED
  BY <1>2, <1>3, <1>4 DEF Next

\* What happens to the tasks of others, and to their variants, changes nothing for
\* a handler.
LEMMA OthersInOrder ==
  ASSUME Calm, CalmInv, NEW g \in Handlers, handler'[g] = handler[g],
         \A t \in handler[g].todo : tstat'[t] = tstat[t],
         handler[g].pc \in {"variant", "publish"} =>
           /\ tstat'[handler[g].task] = tstat[handler[g].task]
           /\ run'[handler[g].task] = run[handler[g].task],
         \A r \in Res : /\ variants[r] # "none" => variants'[r] # "none"
                        /\ variants[r] = "ready" => variants'[r] = "ready"
  PROVE  InOrder(g)'
<1>1. handler[g] \in HandlerType /\ InOrder(g)
  BY DEF CalmInv, TypeInv
<1>2. handler[g].pc \in {"publish", "mark", "count", "list"} => JobOf[handler[g].task] \in Res
  BY <1>1 DEF HandlerType, TaskPcs, CallbackPcs, Calm
<1> QED
  BY <1>1, <1>2 DEF InOrder, At

\* A handler creates tasks of its own.
LEMMA CreateCalm ==
  ASSUME Calm, CalmInv, NEW h \in Handlers,
         \/ \E S \in SUBSET Transcodes : StartTranscode(h, S)
         \/ SetProcessing(h) \/ CreateTask(h) \/ WriteVariant(h) \/ PublishTask(h),
         TypeInv'
  PROVE  CalmInv'
<1>0. /\ handler \in [Handlers -> HandlerType] /\ handler[h] \in HandlerType /\ handler[h] \in HandlerRec
      /\ video \in Row /\ video # Gone /\ variants \in [Res -> VariantStatuses]
      /\ run \in [Tasks -> RunStates] /\ tstat \in [Tasks -> TaskStatuses]
      /\ TasksInOrder /\ InOrder(h) /\ OneCreator
  BY DEF CalmInv, TypeInv, HandlerType, HandlerRec
<1>a. \A g \in Handlers \ {h} : handler'[g] = handler[g]
  BY OneMoves DEF HandlerStep, ClientStep, CalmInv
<1>b. \A pc : Goto(h, pc) => /\ handler'[h].pc = pc /\ handler'[h].task = handler[h].task
                             /\ handler'[h].todo = handler[h].todo
  BY <1>0 DEF Goto, HandlerRec
<1>c. \A g \in Handlers : handler[g] \in HandlerRec /\ InOrder(g)
  BY DEF CalmInv, TypeInv, HandlerType
<1>1. ASSUME NEW S \in SUBSET Transcodes, StartTranscode(h, S) PROVE CalmInv'
  <2>1. handler' = [handler EXCEPT ![h] = [Idle EXCEPT !.pc = "process", !.todo = S]]
    BY <1>1 DEF StartTranscode, Client, Calm
  <2>2. /\ handler'[h].pc = "process" /\ handler'[h].todo = S
        /\ UNCHANGED <<video, variants, tstat, run>>
        /\ S # {} /\ \A t \in S : t \in Tasks /\ tstat[t] = "none"
        /\ \A t \in S : \A g \in Handlers : t \notin handler[g].todo
    BY <1>0, <1>1, <2>1 DEF StartTranscode, Idle, taskVars, Unused, Transcodes
  <2>3. InOrder(h)'
    BY <2>2 DEF InOrder, CalmPcs, At
  <2>4. \A g \in Handlers \ {h} : InOrder(g)'
    BY <1>a, <2>2, OthersInOrder
  <2>5. OneCreator'
    BY <1>0, <1>a, <2>2 DEF OneCreator
  <2> QED
    BY <1>0, <2>2, <2>3, <2>4, <2>5 DEF CalmInv, TasksInOrder, At
<1>2. CASE CreateTask(h)
  <2>1. PICK t \in handler[h].todo :
          /\ tstat' = [tstat EXCEPT ![t] = "queued"]
          /\ handler' = [handler EXCEPT ![h].pc = IF t \in Transcodes THEN "variant" ELSE "publish",
                                        ![h].task = t, ![h].todo = @ \ {t}]
    BY <1>0, <1>2 DEF CreateTask
  <2>2. t \in Tasks /\ t \in Transcodes /\ tstat[t] = "none" /\ run[t] = "none"
    BY <1>0 DEF HandlerRec, InOrder, TasksInOrder, Calm, Transcodes
  <2>3. /\ handler'[h].pc = "variant" /\ handler'[h].task = t
        /\ handler'[h].todo = handler[h].todo \ {t}
        /\ UNCHANGED <<video, variants, run>>
    BY <1>0, <1>2, <2>1, <2>2 DEF CreateTask, HandlerRec
  <2>4. \A u \in Tasks : u # t => tstat'[u] = tstat[u]
    BY <1>0, <2>1, <2>2
  <2>5. tstat'[t] = "queued"
    BY <1>0, <2>1, <2>2
  <2>6. InOrder(h)'
    <3>1. \A u \in handler'[h].todo : u # t /\ u \in Tasks /\ tstat[u] = "none"
      BY <1>0, <2>3 DEF InOrder, HandlerRec
    <3> QED
      BY <2>2, <2>3, <2>4, <2>5, <3>1 DEF InOrder, CalmPcs, At
  <2>7. ASSUME NEW g \in Handlers \ {h} PROVE InOrder(g)'
    <3>1. t \notin handler[g].todo /\ handler[g].todo \subseteq Tasks
      BY <1>0, <1>c DEF OneCreator, HandlerRec
    <3>2. handler[g].pc \in {"variant", "publish"} => handler[g].task \in Tasks \ {t}
      BY <1>c, <2>2 DEF InOrder, CalmInv, TypeInv, HandlerType, TaskPcs
    <3> QED
      BY <1>a, <2>3, <2>4, <3>1, <3>2, OthersInOrder
  <2>8. OneCreator'
    <3>1. \A g \in Handlers \ {h} : handler[g].pc \in {"variant", "publish"} => handler[g].task # t
      BY <1>c, <2>2 DEF InOrder
    <3> QED
      BY <1>0, <1>a, <2>3, <3>1 DEF OneCreator
  <2>9. TasksInOrder'
    BY <1>0, <2>2, <2>3, <2>4, <2>5 DEF TasksInOrder
  <2>10. ~Finished'
    BY <2>2, <2>5 DEF Finished
  <2> QED
    BY <1>0, <2>3, <2>6, <2>7, <2>8, <2>9, <2>10 DEF CalmInv
<1>3. CASE WriteVariant(h)
  <2>1. /\ handler[h].pc = "variant" /\ handler'[h].pc = "publish" /\ handler'[h].task = handler[h].task
        /\ handler'[h].todo = handler[h].todo /\ UNCHANGED <<video, tstat, run>>
    BY <1>b, <1>3 DEF WriteVariant, At, taskVars
  <2>2. handler[h].task \in Tasks /\ JobOf[handler[h].task] \in Res
    BY <1>0, <2>1 DEF HandlerType, TaskPcs, Calm
  <2>3. /\ variants'[JobOf[handler[h].task]] # "none"
        /\ \A r \in Res : variants[r] # "none" => variants'[r] = variants[r]
    BY <1>0, <1>3, <2>2 DEF WriteVariant
  <2>4. InOrder(h)'
    BY <1>0, <2>1, <2>3 DEF InOrder, CalmPcs, At
  <2>5. \A g \in Handlers \ {h} : InOrder(g)'
    BY <1>a, <2>1, <2>3, OthersInOrder
  <2>6. OneCreator'
    BY <1>0, <1>a, <2>1 DEF OneCreator
  <2>7. TasksInOrder'
    BY <1>0, <2>1, <2>3 DEF TasksInOrder, Calm
  <2> QED
    BY <1>0, <2>1, <2>4, <2>5, <2>6, <2>7 DEF CalmInv, At
<1>4. CASE PublishTask(h)
  <2>1. handler[h].pc = "publish" /\ UNCHANGED <<video, variants, tstat>>
    BY <1>4 DEF PublishTask, At
  <2>2. handler[h].task \in Tasks /\ tstat[handler[h].task] = "queued"
    BY <1>0, <2>1 DEF HandlerType, TaskPcs, InOrder
  <2>3. /\ run'[handler[h].task] = "waiting"
        /\ \A t \in Tasks : t # handler[h].task => run'[t] = run[t]
    BY <1>0, <1>4, <2>2 DEF PublishTask
  <2>4. \/ handler'[h].pc = "create" /\ handler'[h].todo = handler[h].todo /\ handler[h].todo # {}
        \/ handler'[h].pc = "idle" /\ handler'[h].todo = {}
    <3>1. Return(h) => handler'[h].pc = "idle" /\ handler'[h].todo = {}
      BY <1>0, IdleType DEF Return, Idle
    <3> QED
      BY <1>b, <1>4, <3>1 DEF PublishTask
  <2>5. InOrder(h)'
    BY <1>0, <2>1, <2>4 DEF InOrder, CalmPcs, At
  <2>6. ASSUME NEW g \in Handlers \ {h} PROVE InOrder(g)'
    <3>1. handler[g].pc \in {"variant", "publish"} => handler[g].task \in Tasks \ {handler[h].task}
      BY <1>0, <2>1 DEF OneCreator, CalmInv, TypeInv, HandlerType, TaskPcs
    <3> QED
      BY <1>a, <2>1, <2>3, <3>1, OthersInOrder
  <2>7. OneCreator'
    BY <1>0, <1>a, <2>4 DEF OneCreator
  <2>8. TasksInOrder'
    BY <1>0, <2>1, <2>2, <2>3 DEF TasksInOrder, InOrder
  <2>9. ~Finished'
    BY <2>1, <2>2 DEF Finished
  <2> QED
    BY <1>0, <2>1, <2>5, <2>6, <2>7, <2>8, <2>9 DEF CalmInv
<1>5. CASE SetProcessing(h)
  <2>1. /\ handler[h].pc = "process" /\ handler'[h].pc = "create"
        /\ handler'[h].todo = handler[h].todo /\ UNCHANGED <<variants, tstat, run>>
        /\ video' = [video EXCEPT !.status = "processing"]
    BY <1>0, <1>b, <1>5 DEF SetProcessing, At, taskVars
  <2>2. InOrder(h)'
    BY <1>0, <2>1 DEF InOrder, CalmPcs, At
  <2>3. \A g \in Handlers \ {h} : InOrder(g)'
    BY <1>a, <2>1, OthersInOrder
  <2>4. OneCreator'
    BY <1>0, <1>a, <2>1 DEF OneCreator
  <2>5. video' # Gone
    BY <1>0, <2>1, GoneRow, RowType DEF VideoStatuses
  <2> QED
    BY <1>0, <2>1, <2>2, <2>3, <2>4, <2>5 DEF CalmInv, TasksInOrder, At
<1> QED
  BY <1>1, <1>2, <1>3, <1>4, <1>5

\* A callback is answered when another is to come, or when the video is ready.
LEMMA CallbackCalm ==
  ASSUME Calm, CalmInv, NEW h \in Handlers,
         \/ FindVariant(h) \/ SaveVariant(h) \/ CountPending(h) \/ ListVariants(h)
         \/ UploadMaster(h) \/ FindReady(h) \/ SetReady(h),
         TypeInv'
  PROVE  CalmInv'
<1>0. /\ handler \in [Handlers -> HandlerType] /\ handler[h] \in HandlerType /\ handler[h] \in HandlerRec
      /\ video # Gone /\ variants \in [Res -> VariantStatuses]
      /\ run \in [Tasks -> RunStates]
      /\ TasksInOrder /\ InOrder(h) /\ OneCreator
  BY DEF CalmInv, TypeInv, HandlerType, HandlerRec
<1>a. \A g \in Handlers \ {h} : handler'[g] = handler[g]
  BY OneMoves DEF HandlerStep, CallbackStep, CalmInv
<1>b. \A pc : Goto(h, pc) => /\ handler'[h].pc = pc /\ handler'[h].task = handler[h].task
                             /\ handler'[h].todo = handler[h].todo
  BY <1>0 DEF Goto, HandlerRec
<1>c. Answer(h) => handler'[h].pc = "idle" /\ handler'[h].todo = {}
  BY <1>0, IdleType DEF Answer, Return, Idle
<1>d. UNCHANGED tstat
  BY DEF FindVariant, SaveVariant, CountPending, ListVariants, UploadMaster, FindReady, SetReady, taskVars
<1>e. handler[h].task \in Tasks /\ JobOf[handler[h].task] \in Res
  <2>1. handler[h].pc \in CallbackPcs
    BY
    DEF FindVariant, SaveVariant, CountPending, ListVariants, UploadMaster, FindReady, SetReady, At,
        CallbackPcs
  <2> QED
    BY <1>0, <2>1 DEF HandlerType, TaskPcs, Calm
<1>f. \A t \in Tasks : run'[t] \in {run[t], "none"}
  BY <1>0, <1>e
  DEF FindVariant, SaveVariant, CountPending, ListVariants, UploadMaster, FindReady, SetReady, taskVars,
     Answer
<1>g. /\ \A r \in Res : /\ variants[r] # "none" => variants'[r] # "none"
                        /\ variants[r] = "ready" => variants'[r] = "ready"
      /\ SaveVariant(h) => variants'[JobOf[handler[h].task]] = "ready"
  BY <1>0, <1>e DEF FindVariant, SaveVariant, CountPending, ListVariants, UploadMaster, FindReady, SetReady
<1>h. TasksInOrder'
  BY <1>0, <1>d, <1>f, <1>g DEF TasksInOrder, Calm
<1>i. ASSUME NEW g \in Handlers \ {h} PROVE InOrder(g)'
  <2>1. handler[g].pc \in {"variant", "publish"} =>
          handler[g].task \in Tasks /\ run[handler[g].task] = "none"
    BY DEF CalmInv, InOrder, TypeInv, HandlerType, TaskPcs
  <2> QED
    BY <1>a, <1>d, <1>f, <1>g, <2>1, OthersInOrder
<1>j. SUFFICES /\ handler'[h].pc \in CalmPcs \ {"process", "create", "variant", "publish", "mark"}
               /\ handler'[h].todo \subseteq handler[h].todo
               /\ handler'[h].pc \in {"count", "list"} => /\ handler'[h].task = handler[h].task
                                                         /\ variants'[JobOf[handler[h].task]] = "ready"
               /\ video' # Gone
               /\ handler'[h].pc = "idle" => ~Finished \/ video'.status = "ready"
  <2>1. InOrder(h)'
    BY <1>0, <1>d, <1>j DEF InOrder, At
  <2>2. OneCreator'
    BY <1>0, <1>a, <1>j DEF OneCreator
  <2>3. Finished' = Finished
    BY <1>d DEF Finished
  <2> QED
    BY <1>h, <1>i, <1>j, <2>1, <2>2, <2>3 DEF CalmInv, At
<1>1. CASE FindVariant(h)
  <2>1. variants[JobOf[handler[h].task]] \in {"processing", "ready"}
    BY <1>0, <1>1, <1>e DEF FindVariant, InOrder, At, VariantStatuses
  <2> QED
    BY <1>0, <1>1, <1>b, <2>1 DEF FindVariant, CalmPcs
<1>2. CASE SaveVariant(h)
  BY <1>0, <1>2, <1>b, <1>g DEF SaveVariant, CalmPcs
<1>3. CASE CountPending(h)
  <2>1. variants[JobOf[handler[h].task]] = "ready" /\ UNCHANGED <<video, variants>>
    BY <1>0, <1>3 DEF CountPending, InOrder, At
  <2>2. Pending # {} => ~Finished
    BY DEF Pending, Finished
  <2>3. CASE Pending = {}
    BY <1>0, <1>3, <1>b, <2>1, <2>3 DEF CountPending, CalmPcs
  <2>4. CASE Pending # {}
    BY <1>0, <1>3, <1>c, <2>1, <2>2, <2>4 DEF CountPending, CalmPcs
  <2> QED
    BY <2>3, <2>4
<1>4. CASE ListVariants(h)
  <2>1. Ready # {}
    BY <1>0, <1>4, <1>e DEF ListVariants, InOrder, At, Ready
  <2>2. handler'[h].pc = "upload_master" /\ handler'[h].todo = handler[h].todo
    BY <1>0, <1>4, <2>1 DEF ListVariants, HandlerRec
  <2> QED
    BY <1>0, <1>4, <2>2 DEF ListVariants, CalmPcs
<1>5. CASE UploadMaster(h)
  <2>1. Goto(h, "set_ready") /\ UNCHANGED video
    BY <1>5 DEF UploadMaster, Failure, Calm
  <2> QED
    BY <1>0, <1>b, <2>1 DEF CalmPcs
<1>6. CASE SetReady(h)
  <2>1. video'.status = "ready"
    BY <1>0, <1>6 DEF SetReady
  <2> QED
    BY <1>6, <1>c, <2>1, GoneRow DEF SetReady, CalmPcs
<1>7. CASE FindReady(h)
  BY <1>0, <1>7, <1>b DEF FindReady, CalmPcs
<1> QED
  BY <1>1, <1>2, <1>3, <1>4, <1>5, <1>6, <1>7

\* Workers take tasks that have a message, and report each to a handler.
LEMMA WorkCalm ==
  ASSUME Calm, CalmInv, NEW t \in Tasks, WorkerStep(t), TypeInv'
  PROVE  CalmInv'
<1>0. /\ handler \in [Handlers -> HandlerType] /\ video # Gone /\ UNCHANGED <<video, variants>>
      /\ run \in [Tasks -> RunStates] /\ tstat \in [Tasks -> TaskStatuses]
      /\ TasksInOrder /\ OneCreator
      /\ run[t] # "none" /\ tstat[t] \in {"queued", "completed"}
  BY DEF CalmInv, TypeInv, WorkerStep, TakeTask, UploadVariant, CompleteTask, TasksInOrder
<1>a. /\ \A u \in Tasks \ {t} : run'[u] = run[u] /\ tstat'[u] = tstat[u]
      /\ tstat'[t] \in {"queued", "completed"}
  BY <1>0 DEF WorkerStep, TakeTask, UploadVariant, CompleteTask
<1>1. TasksInOrder'
  BY <1>0, <1>a DEF TasksInOrder
<1>2. ASSUME NEW g \in Handlers, handler'[g] = handler[g] PROVE InOrder(g)'
  <2>1. \A u \in handler[g].todo : u \in Tasks \ {t}
    BY <1>0 DEF CalmInv, InOrder, TypeInv, HandlerType, HandlerRec
  <2>2. handler[g].pc \in {"variant", "publish"} => handler[g].task \in Tasks \ {t}
    BY <1>0 DEF CalmInv, InOrder, TypeInv, HandlerType, TaskPcs
  <2> QED
    BY <1>0, <1>2, <1>a, <2>1, <2>2, OthersInOrder
<1>3. CASE TakeTask(t) \/ UploadVariant(t)
  <2>1. UNCHANGED <<handler, tstat>>
    BY <1>3 DEF TakeTask, UploadVariant
  <2>2. OneCreator' /\ Finished' = Finished
    BY <1>0, <2>1 DEF OneCreator, Finished
  <2> QED
    BY <1>0, <1>1, <1>2, <2>1, <2>2 DEF CalmInv, At
<1>4. ASSUME NEW h \in Handlers, CompleteTask(h, t) PROVE CalmInv'
  <2>1. JobOf[t] \in Res /\ JobOf[t] \notin Others /\ tstat[t] # "deleted"
    BY <1>0, ResAssumption DEF Calm
  <2>2. /\ handler'[h].pc = "mark" /\ handler'[h].task = t /\ handler'[h].todo = {}
        /\ \A g \in Handlers \ {h} : handler'[g] = handler[g]
    BY <1>0, <1>4, <2>1 DEF CompleteTask, Idle, Others
  <2>3. InOrder(h)'
    BY <1>0, <2>2 DEF InOrder, CalmPcs, At, TasksInOrder
  <2>4. OneCreator'
    BY <1>0, <2>2 DEF OneCreator
  <2> QED
    BY <1>0, <1>1, <1>2, <2>2, <2>3, <2>4 DEF CalmInv, At
<1> QED
  BY <1>3, <1>4 DEF WorkerStep

\* Tasks are created in order, and the last of them to complete makes the video ready.
LEMMA NextCalm ==
  ASSUME Calm, CalmInv, [Next]_vars
  PROVE  CalmInv'
<1>1. TypeInv'
  BY NextType DEF CalmInv
<1>2. CASE UNCHANGED vars
  BY <1>1, <1>2 DEF vars, s3Vars, taskVars, boundVars, CalmInv, TasksInOrder, InOrder, OneCreator,
     Finished, At
<1>3. CASE Next
  BY <1>1, <1>3, CalmSteps, CreateCalm, CallbackCalm, WorkCalm DEF CalmHandlerStep
<1> QED
  BY <1>2, <1>3

\* Without edits and failures, and if all tasks are transcodings, the video is ready
\* when the last callback is done: whichever it is, it finds no task pending.
THEOREM LastCallback == ASSUME Calm PROVE Spec => []CompletedIsReady
<1>1. Init => CalmInv
  BY InitCalm
<1>2. CalmInv /\ [Next]_vars => CalmInv'
  BY NextCalm
<1>3. CalmInv => CompletedIsReady
  BY DEF CalmInv, CompletedIsReady, Quiet, Finished, Transcodes
<1> QED
  BY <1>1, <1>2, <1>3, PTL DEF Spec
=============================================================================
