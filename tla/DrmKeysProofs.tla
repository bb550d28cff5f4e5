----------------------------- MODULE DrmKeysProofs -----------------------------
(***************************************************************************)
(* Proofs about DrmKeys, for every value of its constants.                 *)
(***************************************************************************)
EXTENDS DrmKeys, TLAPS

HandlerType == [pc : Pcs, op : {"none", "edit", "start", "generate", "regenerate", "toggle"},
                res : Res, drm : BOOLEAN, key : KeyRow \cup {NoRow}]

GeneratePcs == {"g_find", "g_fill", "g_create", "g_mark"}
TogglePcs   == {"t_files", "t_rows", "t_key", "t_save"}
StartPcs    == {"s_mark", "s_task"}
Generating  == {"start", "toggle", "generate", "regenerate"}

\* What is done at each point, and for whom.
TypeInv ==
  /\ TypeOK
  /\ \A h \in Handlers :
       /\ At(h, "idle") => handler[h].op = "none"
       /\ handler[h].pc \in GeneratePcs => handler[h].op \in Generating
       /\ handler[h].pc \in {"g_fill", "g_create"} => handler[h].key \in KeyRow
       /\ handler[h].pc \in TogglePcs => handler[h].op = "toggle"
       /\ handler[h].pc \in StartPcs => handler[h].op = "start"
       /\ At(h, "e_save") => handler[h].op = "edit"

Working(h, op) == handler[h].op = op

\* Nobody does anything while DRM is toggled, and keys are regenerated by one.
Alone ==
  \A h, g \in Handlers : h # g =>
    /\ Working(h, "toggle") => At(g, "idle")
    /\ Working(h, "regenerate") => ~Working(g, "regenerate") /\ ~Working(g, "toggle")

\* A handler is about to replace the key it deleted, or has given up there.
Lacking == torn \/ \E h \in Handlers : Keyless(h)

\* A row that somebody has found or inserted is there until it is all done.
RowStays ==
  /\ \A h \in Handlers :
       /\ handler[h].pc \in {"g_fill", "g_mark", "answer", "s_mark"} => keyRow # NoRow
       /\ At(h, "t_save") /\ handler[h].drm => keyRow # NoRow
       /\ At(h, "t_key") => ~handler[h].drm
       /\ At(h, "e_save") /\ handler[h].drm => keyRow # NoRow \/ Lacking
  /\ hasDrm => keyRow # NoRow \/ Lacking

MarkInv == TypeInv /\ Alone /\ RowStays

\* A copy of the key that leads to the row there is.
Good(f) == f \in KeyRow => keyRow # NoRow /\ keyRow.id = f.id /\ f.url = "ok"

\* The copies of handlers and of tasks that may yet be worked on are good, and
\* there are none of those while DRM is toggled.
Copies ==
  /\ \A h \in Handlers :
       /\ handler[h].pc \in {"g_mark", "s_mark", "s_task"} => Good(handler[h].key)
       /\ At(h, "g_fill") => keyRow # NoRow /\ keyRow.id = handler[h].key.id
       /\ At(h, "g_create") => handler[h].key.url = "ok"
       /\ Working(h, "toggle") => \A t \in Tasks : tasks[t].state = "none" \/ tasks[t].old
       /\ At(h, "t_key") => \A r \in Res : variants[r] = "none"
  /\ \A t \in Tasks :
       /\ t \in UnderWay => ~tasks[t].old
       /\ tasks[t].state # "none" /\ ~tasks[t].old => Good(tasks[t].key)
       /\ tasks[t].state = "uploaded" => Good(files[tasks[t].res])
  /\ \A r \in Res : variants[r] = "ready" => Good(files[r])

KeyInv == TypeInv /\ Alone /\ Copies

\* A handler that does nothing, and a task that is not there, are well typed.
LEMMA IdleType == Idle \in HandlerType /\ Idle.pc = "idle" /\ Idle.op = "none" /\ NoTask \in Task
<1>1. (CHOOSE r \in Res : TRUE) \in Res
  BY RowAssumption
<1> QED
  BY <1>1 DEF Idle, HandlerType, Pcs, NoTask, Task

\* What a handler is, as far as its operation is concerned.
Proper(x) ==
  /\ x.pc = "idle" => x.op = "none"
  /\ x.pc \in GeneratePcs => x.op \in Generating
  /\ x.pc \in {"g_fill", "g_create"} => x.key \in KeyRow
  /\ x.pc \in TogglePcs => x.op = "toggle"
  /\ x.pc \in StartPcs => x.op = "start"
  /\ x.pc = "e_save" => x.op = "edit"

\* What TypeInv adds to TypeOK is a condition on each handler.
LEMMA ProperType == TypeInv <=> TypeOK /\ \A h \in Handlers : Proper(handler[h])
  BY DEF TypeInv, Proper, At

\* The initial state is well typed, whether the row is a legacy one or missing.
LEMMA InitType == Init => TypeInv
<1> SUFFICES ASSUME Init PROVE TypeInv
  OBVIOUS
<1>1. /\ handler \in [Handlers -> HandlerType] /\ tasks \in [Tasks -> Task]
      /\ \A h \in Handlers : At(h, "idle") /\ handler[h].op = "none"
  BY IdleType DEF Init, At
<1>2. TypeOK
  <2>1. hasDrm \in BOOLEAN /\ keyRow \in KeyRow \cup {NoRow}
    <3>1. [id |-> Legacy, url |-> "legacy"] \in KeyRow
      BY DEF KeyRow, Ids
    <3>2. CASE hasDrm = FALSE /\ keyRow = NoRow
      BY <3>2
    <3>3. CASE hasDrm = TRUE /\ keyRow = [id |-> Legacy, url |-> "legacy"]
      BY <3>1, <3>3
    <3> QED
      BY <3>2, <3>3 DEF Init
  <2>2. drawn \subseteq Keys /\ ops \in 0 .. MaxOps
    BY BoundAssumption DEF Init
  <2>4. torn \in BOOLEAN
    BY DEF Init
  <2>3. /\ variants \in [Res -> {"none", "processing", "ready"}]
        /\ files \in [Res -> KeyRow \cup {NoRow, NoFiles}]
    BY DEF Init
  <2> QED
    BY <1>1, <2>1, <2>2, <2>3, <2>4 DEF TypeOK, HandlerType
<1> QED
  BY <1>1, <1>2 DEF TypeInv, At, GeneratePcs, TogglePcs, StartPcs

\* What a step of a handler may do, as far as types go.
Moved(h) ==
  /\ handler' \in [Handlers -> HandlerType] /\ Proper(handler'[h])
  /\ \A g \in Handlers \ {h} : handler'[g] = handler[g]

\* A handler that goes on or returns keeps what it knows; the others do not move.
LEMMA MoveType ==
  ASSUME TypeInv, NEW h \in Handlers
  PROVE  /\ \A pc \in Pcs : Goto(h, pc) =>
              /\ handler' \in [Handlers -> HandlerType] /\ handler'[h].pc = pc
              /\ handler'[h].op = handler[h].op /\ handler'[h].key = handler[h].key
              /\ handler'[h].drm = handler[h].drm
              /\ \A g \in Handlers \ {h} : handler'[g] = handler[g]
         /\ Return(h) => /\ Moved(h) /\ handler'[h].pc = "idle" /\ handler'[h].op = "none"
<1>1. handler \in [Handlers -> HandlerType]
  BY DEF TypeInv, TypeOK, HandlerType
<1>2. ASSUME NEW pc \in Pcs, Goto(h, pc)
      PROVE  /\ handler' \in [Handlers -> HandlerType] /\ handler'[h].pc = pc
             /\ handler'[h].op = handler[h].op /\ handler'[h].key = handler[h].key
             /\ handler'[h].drm = handler[h].drm
             /\ \A g \in Handlers \ {h} : handler'[g] = handler[g]
  BY <1>1, <1>2 DEF Goto, HandlerType
<1>3. Return(h) => /\ Moved(h) /\ handler'[h].pc = "idle" /\ handler'[h].op = "none"
  BY <1>1, IdleType DEF Return, Moved, Proper, GeneratePcs, TogglePcs, StartPcs
<1> QED
  BY <1>2, <1>3

\* An operation begins.
LEMMA BeginType ==
  ASSUME TypeInv, NEW h \in Handlers, NEW pc \in Pcs, NEW drm \in BOOLEAN,
         NEW op \in {"none", "edit", "start", "generate", "regenerate", "toggle"},
         \/ handler' = [handler EXCEPT ![h].pc = pc, ![h].op = op]
         \/ handler' = [handler EXCEPT ![h].pc = pc, ![h].op = op, ![h].drm = drm]
  PROVE  /\ handler' \in [Handlers -> HandlerType]
         /\ \A g \in Handlers \ {h} : handler'[g] = handler[g]
         /\ handler'[h].pc = pc /\ handler'[h].op = op /\ handler'[h].key = handler[h].key
         /\ handler'[h].drm \in {handler[h].drm, drm}
<1>0. handler \in [Handlers -> HandlerType]
  BY DEF TypeInv, TypeOK, HandlerType
<1>a. PICK u : u = handler[h]
  OBVIOUS
<1>b. u \in HandlerType
  BY <1>0, <1>a
<1>1. PICK x \in HandlerType : x = [u EXCEPT !.pc = pc, !.op = op]
  <2>1. [u EXCEPT !.pc = pc, !.op = op] \in HandlerType
    BY <1>b DEF HandlerType
  <2> QED
    BY <2>1
<1>2. PICK y \in HandlerType : y = [x EXCEPT !.drm = drm]
  <2>1. [x EXCEPT !.drm = drm] \in HandlerType
    BY <1>1 DEF HandlerType
  <2> QED
    BY <2>1
<1>3. handler' = [handler EXCEPT ![h] = x] \/ handler' = [handler EXCEPT ![h] = y]
  BY <1>0, <1>a, <1>1, <1>2
<1>4. /\ handler' \in [Handlers -> HandlerType] /\ handler'[h] \in {x, y}
      /\ \A g \in Handlers \ {h} : handler'[g] = handler[g]
  BY <1>0, <1>3
<1>5. /\ x.pc = pc /\ x.op = op /\ x.key = handler[h].key /\ x.drm = handler[h].drm
      /\ y.pc = pc /\ y.op = op /\ y.key = handler[h].key /\ y.drm = drm
  BY <1>a, <1>b, <1>1, <1>2 DEF HandlerType
<1> QED
  BY <1>4, <1>5

\* Where each caller of GenerateKeys goes on.
LEMMA AfterwardsType ==
  \A op \in Generating : Afterwards(op) \in {"s_mark", "t_save", "answer"}
                         /\ (Afterwards(op) = "t_save" <=> op = "toggle")
                         /\ (Afterwards(op) = "s_mark" <=> op = "start")
  BY DEF Generating, Afterwards

\* Steps of the generation of a key.
LEMMA GenerateType ==
  ASSUME TypeInv, NEW h \in Handlers, GenerateStep(h)
  PROVE  /\ Moved(h) /\ hasDrm' \in BOOLEAN /\ keyRow' \in KeyRow \cup {NoRow} /\ drawn' \subseteq Keys
         /\ UNCHANGED <<variants, files, tasks, ops>>
<1>0. /\ handler \in [Handlers -> HandlerType] /\ hasDrm \in BOOLEAN
      /\ keyRow \in KeyRow \cup {NoRow} /\ drawn \subseteq Keys
      /\ handler[h] \in HandlerType /\ Proper(handler[h])
  BY ProperType DEF TypeInv, TypeOK, HandlerType
<1>1. CASE FindKey(h)
  <2>0. handler[h].op \in Generating
    BY <1>0, <1>1 DEF FindKey, Proper, At, GeneratePcs
  <2>1. CASE keyRow # NoRow
    <3>1. PICK pc \in {"g_fill", "s_mark", "t_save", "answer"} :
            /\ handler' = [handler EXCEPT ![h].key = keyRow, ![h].pc = pc]
            /\ pc = "t_save" => handler[h].op = "toggle"
            /\ pc = "s_mark" => handler[h].op = "start"
      BY <1>1, <2>0, <2>1, AfterwardsType DEF FindKey
    <3> QED
      BY <1>0, <1>1, <2>0, <2>1, <3>1
      DEF FindKey, Moved, Proper, HandlerType, Pcs, GeneratePcs, TogglePcs, StartPcs
  <2>2. CASE keyRow = NoRow
    <3>1. PICK k \in Keys \ drawn :
            /\ drawn' = drawn \cup {k}
            /\ handler' = [handler EXCEPT ![h].key = [id |-> k, url |-> "ok"], ![h].pc = "g_create"]
      BY <1>1, <2>2 DEF FindKey
    <3>2. [id |-> k, url |-> "ok"] \in KeyRow
      BY DEF KeyRow, Ids
    <3> QED
      BY <1>0, <1>1, <2>0, <3>1, <3>2
      DEF FindKey, Moved, Proper, HandlerType, Pcs, GeneratePcs, TogglePcs, StartPcs
  <2> QED
    BY <2>1, <2>2
<1>2. CASE Backfill(h)
  <2>0. handler[h].op \in Generating /\ handler[h].key \in KeyRow
    BY <1>0, <1>2 DEF Backfill, Proper, At, GeneratePcs
  <2>1. PICK row : row = [handler[h].key EXCEPT !.url = "ok"]
    OBVIOUS
  <2>2. row \in KeyRow
    BY <2>0, <2>1 DEF KeyRow
  <2>3. PICK pc \in {"s_mark", "t_save", "answer"} :
          /\ handler' = [handler EXCEPT ![h].key = row, ![h].pc = pc]
          /\ pc = "t_save" => handler[h].op = "toggle"
          /\ pc = "s_mark" => handler[h].op = "start"
    BY <1>2, <2>0, <2>1, AfterwardsType DEF Backfill
  <2> QED
    <3>1. /\ handler' \in [Handlers -> HandlerType]
          /\ \A g \in Handlers \ {h} : handler'[g] = handler[g]
      BY <1>0, <2>2, <2>3 DEF HandlerType, Pcs
    <3>2. handler'[h].pc = pc /\ handler'[h].op = handler[h].op /\ handler'[h].key = row
      BY <1>0, <2>3 DEF HandlerType
    <3>3. Moved(h)
      BY <2>0, <2>2, <2>3, <3>1, <3>2 DEF Moved, Proper, GeneratePcs, TogglePcs, StartPcs
    <3> QED
      BY <1>0, <1>2, <2>1, <2>2, <3>3 DEF Backfill
<1>3. CASE CreateKey(h)
  <2>0. handler[h].op \in Generating /\ handler[h].key \in KeyRow
    BY <1>0, <1>3 DEF CreateKey, Proper, At, GeneratePcs
  <2> QED
    <3>1. CASE Goto(h, "g_mark")
      BY <1>0, <1>3, <2>0, <3>1, MoveType
      DEF CreateKey, Moved, Proper, Pcs, GeneratePcs, TogglePcs, StartPcs
    <3>2. CASE Return(h)
      BY <1>0, <1>3, <2>0, <3>2, MoveType DEF CreateKey
    <3> QED
      BY <1>3, <3>1, <3>2 DEF CreateKey
<1>4. CASE MarkVideo(h)
  <2>0. handler[h].op \in Generating
    BY <1>0, <1>4 DEF MarkVideo, Proper, At, GeneratePcs
  <2> QED
    BY <1>0, <1>4, <2>0, MoveType, AfterwardsType
    DEF MarkVideo, Moved, Proper, Pcs, GeneratePcs, TogglePcs, StartPcs
<1>5. CASE Answer(h)
  BY <1>0, <1>5, MoveType DEF Answer
<1> QED
  BY <1>1, <1>2, <1>3, <1>4, <1>5 DEF GenerateStep

\* Every step keeps the types, and what handlers carry from statement to statement.
LEMMA NextType == TypeInv /\ [Next]_vars => TypeInv'
<1> SUFFICES ASSUME TypeInv, [Next]_vars PROVE TypeInv'
  OBVIOUS
<1>0. /\ handler \in [Handlers -> HandlerType] /\ hasDrm \in BOOLEAN
      /\ keyRow \in KeyRow \cup {NoRow} /\ drawn \subseteq Keys
      /\ variants \in [Res -> {"none", "processing", "ready"}]
      /\ files \in [Res -> KeyRow \cup {NoRow, NoFiles}]
      /\ tasks \in [Tasks -> Task] /\ ops \in 0 .. MaxOps /\ MaxOps \in Nat
      /\ \A h \in Handlers : handler[h] \in HandlerType /\ Proper(handler[h])
  BY ProperType, BoundAssumption DEF TypeInv, TypeOK, HandlerType
<1>a. \A kind : Client(kind) => ops' \in 0 .. MaxOps
  BY <1>0 DEF Client
<1>b. Aged \in [Tasks -> Task]
  BY <1>0 DEF Aged, Task
<1>c. \A h \in Handlers : Moved(h) => \A g \in Handlers : Proper(handler'[g])
  BY <1>0 DEF Moved
<1>e. torn' \in BOOLEAN
  BY DEF Next, GiveUp, vars, TypeInv, TypeOK
<1> DEFINE Typed == /\ handler' \in [Handlers -> HandlerType] /\ hasDrm' \in BOOLEAN
                    /\ keyRow' \in KeyRow \cup {NoRow} /\ drawn' \subseteq Keys
                    /\ variants' \in [Res -> {"none", "processing", "ready"}]
                    /\ files' \in [Res -> KeyRow \cup {NoRow, NoFiles}]
                    /\ tasks' \in [Tasks -> Task] /\ ops' \in 0 .. MaxOps
<1>d. ASSUME Typed, \A h \in Handlers : Proper(handler'[h]) PROVE TypeInv'
  BY <1>d, <1>e DEF TypeInv, TypeOK, HandlerType, Proper, At
<1>1. ASSUME NEW h \in Handlers, GenerateStep(h) PROVE TypeInv'
  BY <1>0, <1>1, <1>c, <1>d, GenerateType DEF Moved
<1>2. ASSUME NEW h \in Handlers, ToggleStep(h) PROVE TypeInv'
  <2>1. CASE DeleteFiles(h)
    BY <1>0, <1>c, <1>d, <2>1, MoveType
    DEF DeleteFiles, Moved, Proper, Pcs, GeneratePcs, TogglePcs, StartPcs, At
  <2>2. CASE DeleteVariants(h)
    BY <1>0, <1>c, <1>d, <2>2, MoveType
    DEF DeleteVariants, Moved, Proper, Pcs, GeneratePcs, TogglePcs, StartPcs, At, Generating
  <2>3. CASE DeleteKey(h)
    BY <1>0, <1>c, <1>d, <2>3, MoveType
    DEF DeleteKey, Moved, Proper, Pcs, GeneratePcs, TogglePcs, StartPcs, At
  <2>4. CASE SaveToggled(h)
    BY <1>0, <1>c, <1>d, <2>4, MoveType DEF SaveToggled, Moved, HandlerType
  <2> QED
    BY <1>2, <2>1, <2>2, <2>3, <2>4 DEF ToggleStep
<1>3. ASSUME NEW h \in Handlers, SaveEdited(h) PROVE TypeInv'
  BY <1>0, <1>3, <1>c, <1>d, MoveType DEF SaveEdited, Moved, HandlerType
<1>4. ASSUME NEW h \in Handlers, EnsureMarked(h) PROVE TypeInv'
  BY <1>0, <1>4, <1>c, <1>d, MoveType
  DEF EnsureMarked, Moved, HandlerType, Proper, Pcs, GeneratePcs, TogglePcs, StartPcs, At
<1>5. ASSUME NEW h \in Handlers, NEW t \in Tasks, CreateTask(h, t) PROVE TypeInv'
  <2>1. tasks' \in [Tasks -> Task]
    BY <1>0, <1>5 DEF CreateTask, Task, HandlerType
  <2>2. variants' \in [Res -> {"none", "processing", "ready"}]
    BY <1>0, <1>5 DEF CreateTask
  <2> QED
    BY <1>0, <1>5, <1>c, <1>d, <2>1, <2>2, MoveType DEF CreateTask, Moved
<1>6. ASSUME NEW h \in Handlers, NEW r \in Res, StartTranscode(h, r) PROVE TypeInv'
  <2>1. PICK pc \in {"g_find", "s_task"} :
          handler' = [handler EXCEPT ![h] = [Idle EXCEPT !.op = "start", !.res = r, !.drm = hasDrm,
                                                         !.pc = pc]]
    BY <1>6 DEF StartTranscode
  <2>2. Moved(h)
    BY <1>0, <2>1, IdleType
    DEF Moved, HandlerType, Proper, Pcs, GeneratePcs, TogglePcs, StartPcs, Generating
  <2> QED
    BY <1>0, <1>6, <1>c, <1>d, <2>2 DEF StartTranscode, Moved
<1>7. ASSUME NEW h \in Handlers, GenerateKeys(h) \/ RegenerateKeys(h) \/ ToggleDRM(h) PROVE TypeInv'
  <2>1. Moved(h)
    <3>1. CASE GenerateKeys(h)
      <4>1. /\ handler' \in [Handlers -> HandlerType]
            /\ \A g \in Handlers \ {h} : handler'[g] = handler[g]
            /\ handler'[h].pc = "g_find" /\ handler'[h].op = "generate"
        BY <1>0, <3>1, BeginType DEF GenerateKeys, Pcs
      <4> QED
        BY <4>1 DEF Moved, Proper, GeneratePcs, TogglePcs, StartPcs, Generating
    <3>2. CASE RegenerateKeys(h)
      <4>1. /\ handler' \in [Handlers -> HandlerType]
            /\ \A g \in Handlers \ {h} : handler'[g] = handler[g]
            /\ handler'[h].pc = "g_find" /\ handler'[h].op = "regenerate"
        BY <1>0, <3>2, BeginType DEF RegenerateKeys, Pcs
      <4> QED
        BY <4>1 DEF Moved, Proper, GeneratePcs, TogglePcs, StartPcs, Generating
    <3>3. CASE ToggleDRM(h)
      <4>1. /\ handler' \in [Handlers -> HandlerType]
            /\ \A g \in Handlers \ {h} : handler'[g] = handler[g]
            /\ handler'[h].pc = "t_files" /\ handler'[h].op = "toggle"
        BY <1>0, <3>3, BeginType DEF ToggleDRM, Pcs
      <4> QED
        BY <4>1 DEF Moved, Proper, GeneratePcs, TogglePcs, StartPcs, Generating
    <3> QED
      BY <1>7, <3>1, <3>2, <3>3
  <2> QED
    BY <1>0, <1>7, <1>a, <1>b, <1>c, <1>d, <2>1 DEF GenerateKeys, RegenerateKeys, ToggleDRM, Moved
<1>8. ASSUME NEW h \in Handlers, EditVideo(h) PROVE TypeInv'
  <2>1. PICK drm \in BOOLEAN :
          handler' = [handler EXCEPT ![h].pc = "e_save", ![h].op = "edit", ![h].drm = drm]
    BY <1>0, <1>8 DEF EditVideo
  <2>2. Moved(h)
    <3>1. /\ handler' \in [Handlers -> HandlerType]
          /\ \A g \in Handlers \ {h} : handler'[g] = handler[g]
          /\ handler'[h].pc = "e_save" /\ handler'[h].op = "edit"
      BY <1>0, <2>1, BeginType DEF Pcs
    <3> QED
      BY <3>1 DEF Moved, Proper, GeneratePcs, TogglePcs, StartPcs
  <2> QED
    BY <1>0, <1>8, <1>a, <1>c, <1>d, <2>2 DEF EditVideo, Moved
<1>9. ASSUME NEW t \in Tasks, TaskStep(t) \/ RetryTask(t) PROVE TypeInv'
  <2>1. tasks' \in [Tasks -> Task]
    BY <1>0, <1>9 DEF TaskStep, TakeTask, FailTask, UploadVariant, CompleteTask, RetryTask, Task
  <2>2. variants' \in [Res -> {"none", "processing", "ready"}]
    BY <1>0, <1>9 DEF TaskStep, TakeTask, FailTask, UploadVariant, CompleteTask, RetryTask
  <2>3. files' \in [Res -> KeyRow \cup {NoRow, NoFiles}]
    BY <1>0, <1>9 DEF TaskStep, TakeTask, FailTask, UploadVariant, CompleteTask, RetryTask, Task
  <2>4. /\ UNCHANGED <<hasDrm, keyRow, drawn, handler>> /\ ops' \in 0 .. MaxOps
    BY <1>0, <1>9, <1>a DEF TaskStep, TakeTask, FailTask, UploadVariant, CompleteTask, RetryTask
  <2> QED
    BY <1>0, <1>d, <2>1, <2>2, <2>3, <2>4
<1>10. ASSUME NEW h \in Handlers, GiveUp(h) PROVE TypeInv'
  BY <1>0, <1>10, <1>c, <1>d, MoveType DEF GiveUp, Moved
<1>11. CASE UNCHANGED vars
  BY <1>0, <1>11, <1>d DEF vars
<1> QED
  BY <1>1, <1>2, <1>3, <1>4, <1>5, <1>6, <1>7, <1>8, <1>9, <1>10, <1>11
  DEF Next, Proceed, HandlerStep, ClientStep

\* Rows, tasks and playlists name keys, whatever clients do at once.
THEOREM KeyTyping == Spec => []TypeOK
<1>1. Spec => []TypeInv
  BY InitType, NextType, PTL DEF Spec
<1>2. TypeInv => TypeOK
  BY DEF TypeInv
<1> QED
  BY <1>1, <1>2, PTL

-----------------------------------------------------------------------------
(* What the steps do to the handler, for both invariants below.            *)

\* A row is returned, or a key drawn.
LEMMA FindEffect ==
  ASSUME TypeInv, NEW h \in Handlers, FindKey(h)
  PROVE  /\ At(h, "g_find") /\ handler[h].op \in Generating
         /\ handler'[h].op = handler[h].op /\ handler'[h].drm = handler[h].drm
         /\ \/ /\ keyRow # NoRow /\ handler'[h].key = keyRow
               /\ \/ handler'[h].pc = "g_fill"
                  \/ keyRow.url = "ok" /\ handler'[h].pc = Afterwards(handler[h].op)
            \/ /\ keyRow = NoRow /\ handler'[h].pc = "g_create" /\ handler'[h].key.url = "ok"
         /\ \A g \in Handlers \ {h} : handler'[g] = handler[g]
         /\ UNCHANGED <<hasDrm, keyRow, variants, files, tasks>>
<1>0. /\ handler \in [Handlers -> HandlerType] /\ keyRow \in KeyRow \cup {NoRow}
      /\ At(h, "g_find") /\ handler[h].op \in Generating
  BY DEF TypeInv, TypeOK, HandlerType, FindKey, GeneratePcs, At
<1>1. CASE keyRow # NoRow
  <2>1. PICK pc : /\ handler' = [handler EXCEPT ![h].key = keyRow, ![h].pc = pc]
                  /\ pc = IF keyRow.url = "legacy" THEN "g_fill" ELSE Afterwards(handler[h].op)
    BY <1>1 DEF FindKey
  <2>2. keyRow.url \in {"ok", "legacy"}
    BY <1>0, <1>1 DEF KeyRow
  <2> QED
    <3>1. /\ handler'[h].op = handler[h].op /\ handler'[h].drm = handler[h].drm
          /\ handler'[h].key = keyRow /\ handler'[h].pc = pc
          /\ \A g \in Handlers \ {h} : handler'[g] = handler[g]
      BY <1>0, <2>1 DEF HandlerType
    <3> QED
      BY <1>0, <1>1, <2>1, <2>2, <3>1 DEF FindKey
<1>2. CASE keyRow = NoRow
  <2>1. PICK k \in Keys :
          handler' = [handler EXCEPT ![h].key = [id |-> k, url |-> "ok"], ![h].pc = "g_create"]
    BY <1>2 DEF FindKey
  <2>2. /\ handler'[h].op = handler[h].op /\ handler'[h].drm = handler[h].drm
        /\ handler'[h].pc = "g_create" /\ \A g \in Handlers \ {h} : handler'[g] = handler[g]
    BY <1>0, <2>1 DEF HandlerType
  <2>3. handler'[h].key = [id |-> k, url |-> "ok"]
    BY <1>0, <2>1 DEF HandlerType
  <2>4. handler'[h].key.url = "ok"
    BY <2>3
  <2> QED
    BY <1>0, <1>2, <2>2, <2>4 DEF FindKey
<1> QED
  BY <1>1, <1>2

\* The row that was found is there with the new URL.
LEMMA FillEffect ==
  ASSUME TypeInv, NEW h \in Handlers, Backfill(h)
  PROVE  /\ At(h, "g_fill") /\ handler[h].op \in Generating
         /\ handler'[h].op = handler[h].op /\ handler'[h].drm = handler[h].drm
         /\ handler'[h].pc = Afterwards(handler[h].op) /\ handler'[h].key = keyRow'
         /\ keyRow' \in KeyRow /\ keyRow'.id = handler[h].key.id /\ keyRow'.url = "ok"
         /\ \A g \in Handlers \ {h} : handler'[g] = handler[g]
         /\ UNCHANGED <<hasDrm, variants, files, tasks>>
<1>0. /\ handler \in [Handlers -> HandlerType] /\ handler[h].key \in KeyRow
      /\ At(h, "g_fill") /\ handler[h].op \in Generating
  BY DEF TypeInv, TypeOK, HandlerType, Backfill, GeneratePcs, At
<1>1. PICK row, pc : /\ row = [handler[h].key EXCEPT !.url = "ok"] /\ pc = Afterwards(handler[h].op)
                     /\ handler' = [handler EXCEPT ![h].key = row, ![h].pc = pc] /\ keyRow' = row
  BY DEF Backfill
<1>2. row \in KeyRow /\ row.id = handler[h].key.id /\ row.url = "ok"
  BY <1>0, <1>1 DEF KeyRow
<1> QED
  BY <1>0, <1>1, <1>2 DEF Backfill, HandlerType

\* An operation that changes no key by itself begins.
LEMMA BeginEffect ==
  ASSUME TypeInv, NEW h \in Handlers,
         (\E r \in Res : StartTranscode(h, r)) \/ GenerateKeys(h) \/ EditVideo(h)
  PROVE  /\ At(h, "idle") /\ MayRequest /\ handler'[h].op \in {"start", "generate", "edit"}
         /\ \/ handler'[h].pc = "g_find"
            \/ handler'[h].pc = "s_task" /\ handler'[h].key = NoRow
            \/ /\ handler'[h].pc = "e_save"
               /\ handler'[h].drm => hasDrm \/ "mark" \in Operations
         /\ \A g \in Handlers \ {h} : handler'[g] = handler[g]
         /\ UNCHANGED <<hasDrm, keyRow, variants, files, tasks>>
<1>0. handler \in [Handlers -> HandlerType] /\ hasDrm \in BOOLEAN
  BY DEF TypeInv, TypeOK, HandlerType
<1>1. ASSUME NEW r \in Res, StartTranscode(h, r)
      PROVE  /\ handler'[h].op = "start" /\ handler'[h].key = NoRow /\ handler'[h].pc \in {"g_find", "s_task"}
             /\ \A g \in Handlers \ {h} : handler'[g] = handler[g]
  BY <1>0, <1>1 DEF StartTranscode, Idle
<1>2. CASE GenerateKeys(h)
  BY <1>2, BeginType DEF GenerateKeys, Pcs
<1>3. CASE EditVideo(h)
  <2>1. PICK drm \in BOOLEAN :
          /\ handler' = [handler EXCEPT ![h].pc = "e_save", ![h].op = "edit", ![h].drm = drm]
          /\ drm => hasDrm \/ "mark" \in Operations
    BY <1>0, <1>3 DEF EditVideo
  <2>2. handler'[h].drm = drm
    BY <1>0, <2>1 DEF HandlerType
  <2> QED
    BY <1>3, <2>1, <2>2, BeginType DEF EditVideo, Pcs
<1> QED
  BY <1>1, <1>2, <1>3 DEF StartTranscode

\* DRM is being toggled, or a key regenerated, by a handler that is alone.
LEMMA ChangeEffect ==
  ASSUME TypeInv, QuietToggles, NEW h \in Handlers, RegenerateKeys(h) \/ ToggleDRM(h)
  PROVE  /\ UnderWay = {} /\ \A g \in Handlers : At(g, "idle") /\ handler[g].op = "none"
         /\ \A g \in Handlers \ {h} : handler'[g] = handler[g]
         /\ \/ handler'[h].pc = "g_find" /\ handler'[h].op = "regenerate"
            \/ handler'[h].pc = "t_files" /\ handler'[h].op = "toggle"
         /\ tasks' = Aged /\ UNCHANGED <<hasDrm, variants, files>>
         /\ keyRow' = keyRow \/ \A r \in Res : variants[r] # "ready"
<1>1. UnderWay = {} /\ \A g \in Handlers : At(g, "idle") /\ handler[g].op = "none"
  BY DEF RegenerateKeys, ToggleDRM, MayRegenerate, MayToggle, AllIdle, TypeInv
<1>2. CASE RegenerateKeys(h)
  BY <1>1, <1>2, BeginType DEF RegenerateKeys, MayRegenerate, Pcs
<1>3. CASE ToggleDRM(h)
  <2>1. PICK drm \in BOOLEAN : drm = ~hasDrm
    BY DEF TypeInv, TypeOK
  <2> QED
    BY <1>1, <1>3, <2>1, BeginType DEF ToggleDRM, Pcs
<1> QED
  BY <1>2, <1>3

-----------------------------------------------------------------------------
(* Toggling alone, and the row that is there: MarkInv is inductive if      *)
(* clients change keys only while nothing else is going on, and do not set *)
(* the mark themselves.                                                    *)

Stays(h) == handler'[h].op \in {handler[h].op, "none"} /\ ~At(h, "idle")

\* A handler that goes on within its operation disturbs no one's solitude.
LEMMA AloneMove ==
  ASSUME Alone, TypeInv, TypeInv', NEW h \in Handlers, Stays(h),
         \A g \in Handlers \ {h} : handler'[g] = handler[g]
  PROVE  Alone'
<1>1. ASSUME NEW f \in Handlers, NEW g \in Handlers, f # g, Working(f, "toggle")' PROVE At(g, "idle")'
  BY <1>1 DEF Alone, Stays, Working, At
<1>2. ASSUME NEW f \in Handlers, NEW g \in Handlers, f # g, Working(f, "regenerate")'
      PROVE  ~Working(g, "regenerate")' /\ ~Working(g, "toggle")'
  BY <1>2 DEF Alone, Stays, Working
<1> QED
  BY <1>1, <1>2 DEF Alone

\* Toggles and new keys begin only when nothing else is going on.
LEMMA NextAlone == QuietToggles /\ TypeInv /\ TypeInv' /\ Alone /\ [Next]_vars => Alone'
<1> SUFFICES ASSUME QuietToggles, TypeInv, TypeInv', Alone, [Next]_vars PROVE Alone'
  OBVIOUS
<1>1. ASSUME NEW h \in Handlers, HandlerStep(h) PROVE Alone'
  <2>1. CASE FindKey(h)
    BY <2>1, FindEffect, AloneMove DEF Stays, At
  <2>2. CASE Backfill(h)
    BY <2>2, FillEffect, AloneMove DEF Stays, At
  <2>3. CASE CreateKey(h)
    BY <2>3, MoveType, AloneMove DEF CreateKey, Stays, At, Pcs, Moved
  <2>4. CASE MarkVideo(h)
    <3>1. Afterwards(handler[h].op) \in Pcs
      BY <2>4, AfterwardsType DEF MarkVideo, TypeInv, At, GeneratePcs, Pcs
    <3> QED
      BY <2>4, <3>1, MoveType, AloneMove DEF MarkVideo, Stays, At
  <2>5. CASE Answer(h) \/ SaveToggled(h) \/ SaveEdited(h) \/ \E t \in Tasks : CreateTask(h, t)
    BY <2>5, MoveType, AloneMove DEF Answer, SaveToggled, SaveEdited, CreateTask, Stays, At, Moved
  <2>6. CASE DeleteFiles(h) \/ DeleteVariants(h) \/ DeleteKey(h) \/ EnsureMarked(h)
    BY <2>6, MoveType, AloneMove
    DEF DeleteFiles, DeleteVariants, DeleteKey, EnsureMarked, Stays, At, Pcs
  <2> QED
    BY <1>1, <2>1, <2>2, <2>3, <2>4, <2>5, <2>6 DEF HandlerStep, GenerateStep, ToggleStep
<1>2. ASSUME NEW h \in Handlers,
             (\E r \in Res : StartTranscode(h, r)) \/ GenerateKeys(h) \/ EditVideo(h)
      PROVE  Alone'
  <2>1. \A g \in Handlers : ~Working(g, "toggle")
    BY <1>2, BeginEffect DEF MayRequest, Toggling, Working
  <2> QED
    BY <1>2, <2>1, BeginEffect DEF Alone, Working
<1>3. ASSUME NEW h \in Handlers, RegenerateKeys(h) \/ ToggleDRM(h) PROVE Alone'
  BY <1>3, ChangeEffect DEF Alone, Working, At
<1>4. ASSUME NEW h \in Handlers, GiveUp(h) PROVE Alone'
  BY <1>4, MoveType, AloneMove DEF GiveUp, Stays, At, Moved
<1>5. CASE UNCHANGED handler
  BY <1>5 DEF Alone, Working, At
<1> QED
  BY <1>1, <1>2, <1>3, <1>4, <1>5 DEF Next, Proceed, ClientStep, TaskStep, TakeTask, FailTask, UploadVariant,
     CompleteTask, RetryTask, vars

FoundPcs == {"g_fill", "g_mark", "answer", "s_mark"}

\* A step of a handler that removes no row.
LEMMA RowMove ==
  ASSUME RowStays, NEW h \in Handlers, \A g \in Handlers \ {h} : handler'[g] = handler[g],
         keyRow # NoRow => keyRow' # NoRow,
         torn => torn' \/ keyRow' # NoRow,
         Keyless(h) => Keyless(h)' \/ torn' \/ keyRow' # NoRow,
         hasDrm' => hasDrm \/ keyRow' # NoRow \/ Lacking,
         handler'[h].pc \in FoundPcs => keyRow' # NoRow,
         handler'[h].pc = "t_save" /\ handler'[h].drm => keyRow' # NoRow,
         handler'[h].pc = "t_key" => ~handler'[h].drm,
         handler'[h].pc = "e_save" /\ handler'[h].drm => hasDrm
  PROVE  RowStays'
<1>1. keyRow' # NoRow \/ (Lacking => Lacking')
  <2>1. ASSUME NEW g \in Handlers, Keyless(g), keyRow' = NoRow PROVE torn' \/ Keyless(g)'
    BY <2>1 DEF Keyless, At
  <2> QED
    BY <2>1 DEF Lacking
<1>2. hasDrm' => keyRow' # NoRow \/ Lacking'
  BY <1>1 DEF RowStays
<1>3. ASSUME NEW g \in Handlers
      PROVE  /\ handler'[g].pc \in FoundPcs => keyRow' # NoRow
             /\ handler'[g].pc = "t_save" /\ handler'[g].drm => keyRow' # NoRow
             /\ handler'[g].pc = "t_key" => ~handler'[g].drm
             /\ handler'[g].pc = "e_save" /\ handler'[g].drm => keyRow' # NoRow \/ Lacking'
  <2>1. CASE g = h
    BY <1>1, <2>1 DEF RowStays
  <2>2. CASE g # h
    BY <1>1, <2>2 DEF RowStays, FoundPcs, At
  <2> QED
    BY <2>1, <2>2
<1> QED
  BY <1>2, <1>3 DEF RowStays, FoundPcs, At

\* The row of a protected video stays, but for the handlers that are to change it.
LEMMA RowProceed ==
  ASSUME QuietToggles, "mark" \notin Operations, TypeInv, TypeInv', Alone, RowStays,
         Proceed, torn' = (torn /\ keyRow' = NoRow)
  PROVE  RowStays'
<1>a. \A h \in Handlers :
        /\ handler[h].pc \in FoundPcs => keyRow # NoRow
        /\ handler[h].pc = "t_save" /\ handler[h].drm => keyRow # NoRow
        /\ handler[h].pc = "t_key" => ~handler[h].drm
        /\ handler[h].pc = "e_save" /\ handler[h].drm => keyRow # NoRow \/ Lacking
  BY DEF RowStays, FoundPcs, At
<1>b. NoRow \notin KeyRow /\ hasDrm \in BOOLEAN
  BY RowAssumption DEF TypeInv, TypeOK
<1>c. torn => torn' \/ keyRow' # NoRow
  OBVIOUS
<1>1. ASSUME NEW h \in Handlers, FindKey(h) PROVE RowStays'
  BY <1>c, <1>1, FindEffect, RowMove, AfterwardsType DEF FoundPcs, Keyless, At
<1>2. ASSUME NEW h \in Handlers, Backfill(h) PROVE RowStays'
  BY <1>b, <1>c, <1>2, FillEffect, RowMove, AfterwardsType DEF FoundPcs
<1>3. ASSUME NEW h \in Handlers, CreateKey(h) PROVE RowStays'
  <2>1. At(h, "g_create") /\ handler[h].key # NoRow /\ UNCHANGED hasDrm
    BY <1>b, <1>3 DEF CreateKey, TypeInv, At
  <2>2. keyRow' # NoRow
    BY <1>3, <2>1 DEF CreateKey
  <2>3. /\ handler'[h].pc \in {"g_mark", "idle"} /\ \A g \in Handlers \ {h} : handler'[g] = handler[g]
    BY <1>3, MoveType DEF CreateKey, Pcs, Moved
  <2> QED
    BY <2>1, <2>2, <2>3, RowMove DEF FoundPcs
<1>4. ASSUME NEW h \in Handlers, MarkVideo(h) PROVE RowStays'
  <2>1. /\ handler[h].op \in Generating /\ keyRow # NoRow /\ UNCHANGED keyRow
        /\ Afterwards(handler[h].op) \in Pcs
    BY <1>a, <1>4, AfterwardsType DEF MarkVideo, TypeInv, At, GeneratePcs, FoundPcs, Pcs
  <2>2. /\ handler'[h].pc \in {"s_mark", "t_save", "answer"} /\ handler'[h].op = handler[h].op
        /\ \A g \in Handlers \ {h} : handler'[g] = handler[g]
    BY <1>4, <2>1, MoveType, AfterwardsType DEF MarkVideo
  <2> QED
    BY <1>c, <2>1, <2>2, RowMove DEF FoundPcs
<1>5. ASSUME NEW h \in Handlers, Answer(h) PROVE RowStays'
  BY <1>a, <1>c, <1>5, MoveType, RowMove DEF Answer, At, FoundPcs, Moved
<1>6. ASSUME NEW h \in Handlers, EnsureMarked(h) PROVE RowStays'
  BY <1>a, <1>c, <1>6, MoveType, RowMove DEF EnsureMarked, At, FoundPcs, Pcs, Keyless
<1>7. ASSUME NEW h \in Handlers, SaveEdited(h) \/ \E t \in Tasks : CreateTask(h, t) PROVE RowStays'
  <2>1. handler[h].pc \in {"s_task", "e_save"} /\ handler'[h].pc = "idle" /\ UNCHANGED keyRow
        /\ \A g \in Handlers \ {h} : handler'[g] = handler[g]
    BY <1>7, MoveType DEF CreateTask, SaveEdited, At, Moved
  <2>2. ~Keyless(h)
    BY <2>1 DEF Keyless, At
  <2>3. hasDrm' => hasDrm \/ keyRow' # NoRow \/ Lacking
    BY <1>a, <1>7, <2>1 DEF CreateTask, SaveEdited, At
  <2> QED
    BY <1>c, <2>1, <2>2, <2>3, RowMove DEF FoundPcs
<1>8. ASSUME NEW h \in Handlers, DeleteFiles(h) \/ DeleteVariants(h) PROVE RowStays'
  <2>1. /\ handler'[h].pc \in {"t_rows", "g_find", "t_key"} /\ handler'[h].op = handler[h].op
        /\ handler'[h].pc = "t_key" => ~handler'[h].drm
        /\ \A g \in Handlers \ {h} : handler'[g] = handler[g]
        /\ UNCHANGED <<hasDrm, keyRow>> /\ ~Keyless(h)
    BY <1>8, MoveType DEF DeleteFiles, DeleteVariants, Pcs, Keyless, At, TypeInv, TogglePcs
  <2> QED
    BY <1>c, <2>1, RowMove DEF FoundPcs
<1>9. ASSUME NEW h \in Handlers, DeleteKey(h) PROVE RowStays'
  <2>1. /\ handler'[h].pc = "t_save" /\ handler'[h].op = handler[h].op /\ ~handler'[h].drm
        /\ \A g \in Handlers \ {h} : handler'[g] = handler[g]
    BY <1>9, <1>a, MoveType DEF DeleteKey, Pcs, At
  <2>2. Working(h, "toggle") /\ Working(h, "toggle")'
    BY <1>9, <2>1 DEF DeleteKey, TypeInv, At, TogglePcs, Working
  <2>3. \A g \in Handlers \ {h} : handler'[g].pc = "idle"
    BY <2>1, <2>2 DEF Alone, At
  <2> QED
    BY <2>1, <2>2, <2>3 DEF RowStays, Lacking, Keyless, At
<1>10. ASSUME NEW h \in Handlers, SaveToggled(h) PROVE RowStays'
  <2>1. /\ handler'[h].pc = "idle" /\ \A g \in Handlers \ {h} : handler'[g] = handler[g]
        /\ UNCHANGED keyRow /\ hasDrm' = handler[h].drm /\ At(h, "t_save")
    BY <1>10, MoveType DEF SaveToggled, Moved
  <2>2. Working(h, "toggle")
    BY <2>1 DEF TypeInv, At, TogglePcs, Working
  <2>3. \A g \in Handlers \ {h} : handler'[g].pc = "idle"
    BY <2>1, <2>2 DEF Alone, At
  <2>4. hasDrm' => keyRow' # NoRow
    BY <1>a, <2>1 DEF At
  <2>5. \A g \in Handlers : handler'[g].pc = "idle"
    BY <2>1, <2>3
  <2> QED
    BY <2>4, <2>5 DEF RowStays, At
<1>11. ASSUME NEW h \in Handlers,
              (\E r \in Res : StartTranscode(h, r)) \/ GenerateKeys(h) \/ EditVideo(h)
       PROVE  RowStays'
  <2>1. ~Keyless(h)
    BY <1>11, BeginEffect DEF TypeInv, Keyless, At
  <2> QED
    BY <1>c, <1>11, <2>1, BeginEffect, RowMove DEF FoundPcs
<1>12. ASSUME NEW h \in Handlers, RegenerateKeys(h) PROVE RowStays'
  <2>1. /\ handler'[h].pc = "g_find" /\ handler'[h].op = "regenerate"
        /\ \A g \in Handlers \ {h} : handler'[g].pc = "idle"
    <3>1. \A g \in Handlers \ {h} : handler'[g].pc = "idle"
      BY <1>12, ChangeEffect DEF At
    <3>2. handler'[h].pc = "g_find" /\ handler'[h].op = "regenerate"
      BY <1>12, BeginType DEF RegenerateKeys, Pcs
    <3> QED
      BY <3>1, <3>2
  <2>2. Lacking'
    BY <2>1 DEF Lacking, Keyless
  <2> QED
    BY <2>1, <2>2 DEF RowStays, At
<1>13. ASSUME NEW h \in Handlers, ToggleDRM(h) PROVE RowStays'
  <2>1. handler'[h].pc = "t_files" /\ UNCHANGED <<keyRow, hasDrm>> /\ ~Keyless(h)
        /\ \A g \in Handlers \ {h} : handler'[g] = handler[g]
    <3>1. PICK drm \in BOOLEAN : drm = ~hasDrm
      BY <1>b
    <3> QED
      BY <1>13, <3>1, ChangeEffect, BeginType DEF ToggleDRM, At, Pcs, Keyless
  <2> QED
    BY <1>c, <2>1, RowMove DEF FoundPcs
<1>14. CASE UNCHANGED <<handler, keyRow, hasDrm>>
  BY <1>c, <1>14 DEF RowStays, Lacking, Keyless, At
<1> QED
  BY <1>1, <1>2, <1>3, <1>4, <1>5, <1>6, <1>7, <1>8, <1>9, <1>10, <1>11, <1>12, <1>13, <1>14
  DEF Proceed, HandlerStep, GenerateStep, ToggleStep, ClientStep, TaskStep, TakeTask, FailTask,
      UploadVariant, CompleteTask, RetryTask

\* A handler that gives up leaves the row, and tells that it has removed it.
LEMMA NextRow ==
  QuietToggles /\ "mark" \notin Operations /\ TypeInv /\ TypeInv' /\ Alone /\ RowStays /\ [Next]_vars
    => RowStays'
<1> SUFFICES ASSUME QuietToggles, "mark" \notin Operations, TypeInv, TypeInv', Alone, RowStays,
                    [Next]_vars
             PROVE  RowStays'
  OBVIOUS
<1>1. CASE Proceed /\ torn' = (torn /\ keyRow' = NoRow)
  BY <1>1, RowProceed
<1>2. ASSUME NEW h \in Handlers, GiveUp(h) PROVE RowStays'
  <2>1. /\ handler'[h].pc = "idle" /\ \A g \in Handlers \ {h} : handler'[g] = handler[g]
        /\ UNCHANGED <<keyRow, hasDrm>> /\ torn' = (torn \/ (Keyless(h) /\ keyRow = NoRow))
    BY <1>2, MoveType DEF GiveUp, Moved
  <2> QED
    BY <2>1, RowMove DEF FoundPcs
<1>3. CASE UNCHANGED vars
  BY <1>3 DEF RowStays, Lacking, Keyless, At, vars
<1> QED
  BY <1>1, <1>2, <1>3 DEF Next

\* If keys change only while nothing else is going on, a video marked as
\* protected lacks its key only between the two statements of a toggle or a
\* regeneration, and after one that gave up there, until a key is drawn again:
\* although every handler may give up anywhere, the mark is saved apart from the
\* key, and edits write it back as read.
THEOREM MarkedKey ==
  ASSUME QuietToggles, "mark" \notin Operations PROVE Spec => []MarkedHasKey
<1>1. Init => MarkInv
  <2> SUFFICES ASSUME Init PROVE MarkInv
    OBVIOUS
  <2>1. TypeInv /\ \A h \in Handlers : At(h, "idle") /\ handler[h].op = "none"
    BY InitType, IdleType DEF Init, At
  <2>2. hasDrm => keyRow # NoRow
    <3>1. [id |-> Legacy, url |-> "legacy"] \in KeyRow
      BY DEF KeyRow, Ids
    <3> QED
      BY <3>1, RowAssumption DEF Init
  <2> QED
    BY <2>1, <2>2 DEF MarkInv, Alone, RowStays, Working, At
<1>2. MarkInv /\ [Next]_vars => MarkInv'
  <2> SUFFICES ASSUME MarkInv, [Next]_vars PROVE MarkInv'
    OBVIOUS
  <2>1. TypeInv'
    BY NextType DEF MarkInv
  <2> QED
    BY <2>1, NextAlone, NextRow DEF MarkInv
<1>3. MarkInv => MarkedHasKey
  BY DEF MarkInv, RowStays, MarkedHasKey, Lacking
<1> QED
  BY <1>1, <1>2, <1>3, PTL DEF Spec

-----------------------------------------------------------------------------
(* The copies of the key: KeyInv is inductive if clients change keys only  *)
(* while nothing else is going on, whoever sets the mark.                  *)

\* A copy stays good as long as the row is the same key's.
LEMMA GoodStays ==
  ASSUME keyRow = NoRow \/ (keyRow' # NoRow /\ keyRow'.id = keyRow.id)
  PROVE  \A f : Good(f) => Good(f)'
  BY DEF Good

\* An absent row and absent files need no key.
LEMMA GoodNone == \A f \in {NoRow, NoFiles} : Good(f) /\ Good(f)'
  BY RowAssumption DEF Good

\* A step of a handler that leaves tasks, and makes no variant ready.
LEMMA CopyMove ==
  ASSUME TypeInv, Copies, NEW h \in Handlers, \A g \in Handlers \ {h} : handler'[g] = handler[g],
         UNCHANGED tasks,
         \A r \in Res : files'[r] \in {files[r], NoFiles} /\ variants'[r] \in {variants[r], "none"},
         keyRow = NoRow \/ (keyRow' # NoRow /\ keyRow'.id = keyRow.id),
         handler'[h].pc \in {"g_mark", "s_mark", "s_task"} => Good(handler[h].key)',
         handler'[h].pc = "g_fill" => keyRow' # NoRow /\ keyRow'.id = handler'[h].key.id,
         handler'[h].pc = "g_create" => handler'[h].key.url = "ok",
         handler'[h].op = "toggle" => Working(h, "toggle"),
         handler'[h].pc = "t_key" => \A r \in Res : variants'[r] = "none"
  PROVE  Copies'
<1>0. \A t \in Tasks : tasks[t].res \in Res
  BY DEF TypeInv, TypeOK, Task
<1>1. ASSUME NEW r \in Res, Good(files[r]) PROVE Good(files[r])'
  BY <1>1, GoodStays, GoodNone
<1>2. ASSUME NEW g \in Handlers
      PROVE  /\ handler'[g].pc \in {"g_mark", "s_mark", "s_task"} => Good(handler[g].key)'
             /\ handler'[g].pc = "g_fill" => keyRow' # NoRow /\ keyRow'.id = handler'[g].key.id
             /\ handler'[g].pc = "g_create" => handler'[g].key.url = "ok"
             /\ handler'[g].op = "toggle" => \A t \in Tasks : tasks'[t].state = "none" \/ tasks'[t].old
             /\ handler'[g].pc = "t_key" => \A r \in Res : variants'[r] = "none"
  <2>1. CASE g = h
    BY <2>1 DEF Copies, Working
  <2>2. CASE g # h
    <3>1. PICK x : x = handler[g] /\ x = handler'[g]
      BY <2>2
    <3>2. Good(x.key) => Good(x.key)'
      BY GoodStays
    <3> QED
      BY <3>1, <3>2 DEF Copies, Working, At
  <2> QED
    BY <2>1, <2>2
<1>3. ASSUME NEW t \in Tasks
      PROVE  /\ (t \in UnderWay)' => ~tasks'[t].old
             /\ tasks'[t].state # "none" /\ ~tasks'[t].old => Good(tasks[t].key)'
             /\ tasks'[t].state = "uploaded" => Good(files[tasks[t].res])'
  <2>1. PICK x : x = tasks[t] /\ x = tasks'[t]
    OBVIOUS
  <2>2. Good(x.key) => Good(x.key)'
    BY GoodStays
  <2>3. Good(files[x.res]) => Good(files[x.res])'
    BY <1>0, <1>1, <2>1
  <2> QED
    BY <2>1, <2>2, <2>3 DEF Copies, UnderWay
<1>4. ASSUME NEW r \in Res, variants'[r] = "ready" PROVE Good(files[r])'
  BY <1>1, <1>4 DEF Copies
<1> QED
  BY <1>2, <1>3, <1>4 DEF Copies, At, Working

\* The steps of tasks.
LEMMA CopyTask ==
  ASSUME QuietToggles, TypeInv, Copies, NEW t \in Tasks, TaskStep(t) \/ RetryTask(t)
  PROVE  Copies'
<1>0. /\ tasks \in [Tasks -> Task] /\ files \in [Res -> KeyRow \cup {NoRow, NoFiles}]
      /\ variants \in [Res -> {"none", "processing", "ready"}]
      /\ UNCHANGED <<keyRow, handler>>
  BY DEF TypeInv, TypeOK, TaskStep, TakeTask, FailTask, UploadVariant, CompleteTask, RetryTask
<1>a. \A f : Good(f) <=> Good(f)'
  BY <1>0 DEF Good
<1>1. /\ ~tasks[t].old /\ tasks[t].state # "none" /\ Good(tasks[t].key)
  BY DEF TaskStep, TakeTask, FailTask, UploadVariant, CompleteTask, RetryTask, Copies, UnderWay
<1>2. /\ tasks'[t].state # "none" /\ tasks'[t].old = tasks[t].old /\ tasks'[t].key = tasks[t].key
      /\ tasks'[t].res = tasks[t].res /\ tasks[t].res \in Res
      /\ \A u \in Tasks \ {t} : tasks'[u] = tasks[u]
  BY <1>0 DEF TaskStep, TakeTask, FailTask, UploadVariant, CompleteTask, RetryTask, Task
<1>3. \A r \in Res : files'[r] = files[r] \/ files'[r] = tasks[t].key
  BY <1>0 DEF TaskStep, TakeTask, FailTask, UploadVariant, CompleteTask, RetryTask
<1>4. ASSUME NEW r \in Res, Good(files[r]) PROVE Good(files[r])'
  BY <1>1, <1>3, <1>4, <1>a
<1>5. tasks'[t].state = "uploaded" => Good(files[tasks[t].res])'
  <2>1. tasks'[t].state = "uploaded" => files'[tasks[t].res] = tasks[t].key
    BY <1>0, <1>2 DEF TaskStep, TakeTask, FailTask, UploadVariant, CompleteTask, RetryTask, Task
  <2> QED
    BY <1>1, <1>2, <1>a, <2>1
<1>6. ASSUME NEW u \in Tasks
      PROVE  /\ (u \in UnderWay)' => ~tasks'[u].old
             /\ tasks'[u].state # "none" /\ ~tasks'[u].old => Good(tasks[u].key)'
             /\ tasks'[u].state = "uploaded" => Good(files[tasks[u].res])'
  <2>1. CASE u = t
    BY <1>1, <1>2, <1>5, <1>a, <2>1 DEF UnderWay
  <2>2. CASE u # t
    <3>1. PICK x : x = tasks[u] /\ x = tasks'[u]
      BY <1>2, <2>2
    <3>2. x.res \in Res
      BY <1>0, <3>1 DEF Task
    <3>3. Good(files[x.res]) => Good(files[x.res])'
      BY <1>4, <3>2
    <3> QED
      BY <1>a, <3>1, <3>3 DEF Copies, UnderWay
  <2> QED
    BY <2>1, <2>2
<1>7. ASSUME NEW r \in Res
      PROVE  /\ variants'[r] = "ready" => Good(files[r])'
             /\ variants[r] = "none" => variants'[r] = "none"
  <2>1. CASE CompleteTask(t)
    <3>1. /\ tasks[t].state = "uploaded" /\ Good(files[tasks[t].res])
          /\ variants'[r] = "ready" => variants[r] = "ready" \/ r = tasks[t].res
          /\ variants[r] = "none" => variants'[r] = "none"
      BY <1>0, <2>1 DEF CompleteTask, Copies
    <3> QED
      BY <1>4, <3>1 DEF Copies
  <2>2. CASE UNCHANGED variants
    BY <1>4, <2>2 DEF Copies
  <2> QED
    BY <2>1, <2>2 DEF TaskStep, TakeTask, FailTask, UploadVariant, RetryTask
<1>8. ASSUME NEW g \in Handlers
      PROVE  /\ handler'[g].pc \in {"g_mark", "s_mark", "s_task"} => Good(handler[g].key)'
             /\ handler'[g].pc = "g_fill" => keyRow' # NoRow /\ keyRow'.id = handler'[g].key.id
             /\ handler'[g].pc = "g_create" => handler'[g].key.url = "ok"
             /\ handler'[g].op = "toggle" => \A u \in Tasks : tasks'[u].state = "none" \/ tasks'[u].old
             /\ handler'[g].pc = "t_key" => \A r \in Res : variants'[r] = "none"
  <2>1. PICK x : x = handler[g] /\ x = handler'[g]
    BY <1>0
  <2>2. x.op = "toggle" => \A u \in Tasks : tasks'[u].state = "none" \/ tasks'[u].old
    <3>1. x.op # "toggle"
      BY <1>1, <2>1 DEF Copies, Working
    <3> QED
      BY <3>1
  <2> QED
    BY <1>0, <1>7, <1>a, <2>1, <2>2 DEF Copies, At
<1> QED
  BY <1>6, <1>7, <1>8 DEF Copies, At, Working

\* What tasks, handlers and playlists have copied is the key of the row.
LEMMA NextCopies ==
  QuietToggles /\ TypeInv /\ TypeInv' /\ Alone /\ Copies /\ [Next]_vars => Copies'
<1> SUFFICES ASSUME QuietToggles, TypeInv, TypeInv', Alone, Copies, [Next]_vars PROVE Copies'
  OBVIOUS
<1>0. /\ handler \in [Handlers -> HandlerType] /\ keyRow \in KeyRow \cup {NoRow} /\ NoRow \notin KeyRow
      /\ variants \in [Res -> {"none", "processing", "ready"}]
      /\ tasks \in [Tasks -> Task] /\ files \in [Res -> KeyRow \cup {NoRow, NoFiles}]
  BY RowAssumption DEF TypeInv, TypeOK, HandlerType
<1>a. \A h \in Handlers :
        /\ handler[h].pc \in {"g_mark", "s_mark", "s_task"} => Good(handler[h].key)
        /\ At(h, "g_fill") => keyRow # NoRow /\ keyRow.id = handler[h].key.id
        /\ At(h, "g_create") => handler[h].key.url = "ok"
  BY DEF Copies
<1>1. ASSUME NEW h \in Handlers, FindKey(h) PROVE Copies'
  <2>1. PICK x : x = handler'[h]
    OBVIOUS
  <2>2. x.pc \in {"g_mark", "s_mark", "s_task"} => Good(x.key)'
    BY <1>0, <1>1, <2>1, FindEffect, AfterwardsType DEF Good
  <2>3. x.pc \in {"g_fill", "g_create"} \/ x.pc = Afterwards(handler[h].op)
    BY <1>1, <2>1, FindEffect
  <2>4. x.pc # "t_key"
    BY <1>1, <2>3, FindEffect, AfterwardsType
  <2>5. x.pc = "g_fill" => keyRow # NoRow /\ keyRow.id = x.key.id
    BY <1>1, <2>1, FindEffect, AfterwardsType
  <2>6. x.pc = "g_create" => x.key.url = "ok"
    BY <1>1, <2>1, FindEffect, AfterwardsType
  <2> QED
    BY <1>1, <2>1, <2>2, <2>4, <2>5, <2>6, FindEffect, CopyMove DEF Working
<1>2. ASSUME NEW h \in Handlers, Backfill(h) PROVE Copies'
  <2>1. PICK x : x = handler'[h]
    OBVIOUS
  <2>2. Good(x.key)'
    BY <1>0, <1>2, <2>1, FillEffect DEF Good
  <2>3. x.pc \in {"s_mark", "t_save", "answer"}
    BY <1>2, <2>1, FillEffect, AfterwardsType
  <2>4. keyRow' # NoRow /\ keyRow'.id = keyRow.id
    BY <1>0, <1>2, <1>a, FillEffect
  <2> QED
    BY <1>2, <2>1, <2>2, <2>3, <2>4, FillEffect, CopyMove DEF Working
<1>3. ASSUME NEW h \in Handlers, CreateKey(h) PROVE Copies'
  <2>0. /\ handler[h].key \in KeyRow /\ handler[h].key.url = "ok" /\ UNCHANGED <<tasks, files, variants>>
        /\ \A g \in Handlers \ {h} : handler'[g] = handler[g]
    BY <1>3, <1>a, MoveType DEF CreateKey, TypeInv, At, Pcs, Moved
  <2>1. CASE keyRow = NoRow /\ keyRow' = handler[h].key /\ Goto(h, "g_mark")
    <3>1. PICK x : x = handler'[h]
      OBVIOUS
    <3>2. x.pc = "g_mark" /\ x.op = handler[h].op /\ x.key = handler[h].key
      BY <2>1, <3>1, MoveType DEF Pcs
    <3>3. Good(x.key)'
      BY <1>0, <2>0, <2>1, <3>2 DEF Good
    <3> QED
      BY <2>0, <2>1, <3>1, <3>2, <3>3, CopyMove DEF Working
  <2>2. CASE UNCHANGED keyRow /\ Return(h)
    BY <2>0, <2>2, MoveType, CopyMove
  <2> QED
    BY <1>3, <2>1, <2>2 DEF CreateKey
<1>4. ASSUME NEW h \in Handlers, MarkVideo(h) \/ EnsureMarked(h) PROVE Copies'
  <2>0. /\ UNCHANGED <<keyRow, tasks, files, variants>> /\ Good(handler[h].key)
        /\ \E pc \in {"s_mark", "s_task", "t_save", "answer"} : Goto(h, pc)
    <3>1. CASE MarkVideo(h)
      BY <1>a, <3>1, AfterwardsType DEF MarkVideo, TypeInv, At, GeneratePcs
    <3>2. CASE EnsureMarked(h)
      BY <1>a, <3>2 DEF EnsureMarked, At
    <3> QED
      BY <1>4, <3>1, <3>2
  <2>1. PICK x : x = handler'[h]
    OBVIOUS
  <2>2. /\ x.pc \in {"s_mark", "s_task", "t_save", "answer"} /\ x.op = handler[h].op /\ x.key = handler[h].key
        /\ \A g \in Handlers \ {h} : handler'[g] = handler[g]
    BY <2>0, <2>1, MoveType DEF Pcs
  <2>3. Good(x.key)'
    BY <2>0, <2>2 DEF Good
  <2> QED
    BY <2>0, <2>1, <2>2, <2>3, CopyMove DEF Working
<1>5. ASSUME NEW h \in Handlers, Answer(h) \/ SaveToggled(h) \/ SaveEdited(h) PROVE Copies'
  <2>1. /\ handler'[h].pc = "idle" /\ handler'[h].op = "none" /\ UNCHANGED <<keyRow, tasks, files, variants>>
        /\ \A g \in Handlers \ {h} : handler'[g] = handler[g]
    BY <1>5, MoveType DEF Answer, SaveToggled, SaveEdited, Moved
  <2> QED
    BY <2>1, CopyMove
<1>6. ASSUME NEW h \in Handlers, DeleteFiles(h) \/ DeleteVariants(h) PROVE Copies'
  <2>1. /\ handler'[h].pc \in {"t_rows", "g_find", "t_key"} /\ handler'[h].op = handler[h].op
        /\ handler'[h].pc = "t_key" => variants' = [r \in Res |-> "none"]
        /\ \A g \in Handlers \ {h} : handler'[g] = handler[g]
        /\ UNCHANGED <<tasks, keyRow>>
    BY <1>6, MoveType DEF DeleteFiles, DeleteVariants, Pcs
  <2>2. \A r \in Res : files'[r] \in {files[r], NoFiles} /\ variants'[r] \in {variants[r], "none"}
    BY <1>6 DEF DeleteFiles, DeleteVariants
  <2> QED
    BY <2>1, <2>2, CopyMove DEF Working
<1>7. ASSUME NEW h \in Handlers, NEW t \in Tasks, CreateTask(h, t) PROVE Copies'
  <2>1. /\ handler'[h].pc = "idle" /\ handler'[h].op = "none" /\ UNCHANGED <<keyRow, files>>
        /\ \A g \in Handlers \ {h} : handler'[g] = handler[g]
        /\ At(h, "s_task") /\ Good(handler[h].key)
    BY <1>7, <1>a, MoveType DEF CreateTask, Moved, At
  <2>2. /\ tasks'[t].state = "queued" /\ ~tasks'[t].old /\ tasks'[t].key = handler[h].key
        /\ \A u \in Tasks \ {t} : tasks'[u] = tasks[u]
    BY <1>0, <1>7 DEF CreateTask
  <2>3. \A f : Good(f) <=> Good(f)'
    BY <2>1 DEF Good
  <2>4. \A g \in Handlers : ~Working(g, "toggle")
    BY <2>1 DEF Alone, At, Working, TypeInv, StartPcs
  <2>5. ASSUME NEW u \in Tasks
        PROVE  /\ (u \in UnderWay)' => ~tasks'[u].old
               /\ tasks'[u].state # "none" /\ ~tasks'[u].old => Good(tasks[u].key)'
               /\ tasks'[u].state = "uploaded" => Good(files[tasks[u].res])'
    <3>1. CASE u = t
      BY <2>1, <2>2, <2>3, <3>1 DEF UnderWay
    <3>2. CASE u # t
      <4>1. PICK x : x = tasks[u] /\ x = tasks'[u]
        BY <2>2, <3>2
      <4>2. PICK f : f = files[x.res] /\ f = files'[x.res]
        BY <2>1
      <4> QED
        BY <2>3, <4>1, <4>2 DEF Copies, UnderWay
    <3> QED
      BY <3>1, <3>2
  <2>6. ASSUME NEW r \in Res, variants'[r] = "ready" PROVE Good(files[r])'
    <3>1. variants[r] = "ready"
      BY <1>0, <1>7, <2>6 DEF CreateTask, HandlerType
    <3>2. PICK f : f = files[r] /\ f = files'[r]
      BY <2>1
    <3> QED
      BY <2>3, <3>1, <3>2 DEF Copies
  <2>7. ASSUME NEW g \in Handlers
        PROVE  /\ handler'[g].pc \in {"g_mark", "s_mark", "s_task"} => Good(handler[g].key)'
               /\ handler'[g].pc = "g_fill" => keyRow' # NoRow /\ keyRow'.id = handler'[g].key.id
               /\ handler'[g].pc = "g_create" => handler'[g].key.url = "ok"
               /\ handler'[g].op # "toggle" /\ handler'[g].pc # "t_key"
    <3>1. CASE g = h
      BY <2>1, <3>1
    <3>2. CASE g # h
      <4>1. PICK x : x = handler[g] /\ x = handler'[g]
        BY <2>1, <3>2
      <4>2. x.op # "toggle" /\ x.pc # "t_key"
        BY <2>4, <4>1 DEF Working, TypeInv, TogglePcs
      <4> QED
        BY <1>a, <2>1, <2>3, <4>1, <4>2 DEF At
    <3> QED
      BY <3>1, <3>2
  <2> QED
    BY <2>5, <2>6, <2>7 DEF Copies, At, Working
<1>8. ASSUME NEW h \in Handlers, DeleteKey(h) PROVE Copies'
  <2>1. /\ handler'[h].pc = "t_save" /\ handler'[h].op = handler[h].op
        /\ \A g \in Handlers \ {h} : handler'[g] = handler[g]
        /\ UNCHANGED <<tasks, files, variants>> /\ At(h, "t_key")
    BY <1>8, MoveType DEF DeleteKey, Pcs
  <2>2. Working(h, "toggle")
    BY <2>1 DEF TypeInv, At, TogglePcs, Working
  <2>3. \A g \in Handlers \ {h} : handler'[g].pc = "idle" /\ handler'[g].op = "none"
    BY <2>1, <2>2 DEF Alone, At, TypeInv
  <2>4. /\ \A t \in Tasks : tasks[t].state = "none" \/ tasks[t].old
        /\ \A r \in Res : variants[r] = "none"
    BY <2>1, <2>2 DEF Copies
  <2>5. \A t \in Tasks : t \notin UnderWay
    BY <2>4 DEF Copies, UnderWay
  <2> QED
    BY <2>1, <2>3, <2>4, <2>5 DEF Copies, At, Working, UnderWay
<1>9. ASSUME NEW h \in Handlers,
             (\E r \in Res : StartTranscode(h, r)) \/ GenerateKeys(h) \/ EditVideo(h)
      PROVE  Copies'
  <2>1. PICK x : x = handler'[h]
    OBVIOUS
  <2>2. x.pc \in {"g_find", "s_task", "e_save"} /\ (x.pc = "s_task" => Good(x.key)') /\ x.op # "toggle"
    BY <1>9, <2>1, BeginEffect, GoodNone
  <2> QED
    BY <1>9, <2>1, <2>2, BeginEffect, CopyMove
<1>10. ASSUME NEW h \in Handlers, RegenerateKeys(h) \/ ToggleDRM(h) PROVE Copies'
  <2>1. /\ UnderWay = {} /\ tasks' = Aged /\ UNCHANGED <<files, variants>>
        /\ \A g \in Handlers : handler'[g].pc \in {"idle", "g_find", "t_files"}
        /\ keyRow' = keyRow \/ \A r \in Res : variants[r] # "ready"
    BY <1>10, ChangeEffect DEF At
  <2>2. \A t \in Tasks : /\ tasks'[t].state = tasks[t].state
                         /\ tasks'[t].state = "none" \/ tasks'[t].old
                         /\ tasks[t].state \notin {"queued", "running", "uploaded"}
    BY <1>0, <2>1 DEF Aged, UnderWay, Task
  <2>3. ASSUME NEW r \in Res, variants'[r] = "ready" PROVE Good(files[r])'
    BY <2>1, <2>3 DEF Copies, Good
  <2> QED
    BY <2>1, <2>2, <2>3 DEF Copies, At, UnderWay
<1>11. ASSUME NEW t \in Tasks, TaskStep(t) \/ RetryTask(t) PROVE Copies'
  BY <1>11, CopyTask
<1>12. ASSUME NEW h \in Handlers, GiveUp(h) PROVE Copies'
  <2>1. /\ handler'[h].pc = "idle" /\ handler'[h].op = "none" /\ UNCHANGED <<keyRow, tasks, files, variants>>
        /\ \A g \in Handlers \ {h} : handler'[g] = handler[g]
    BY <1>12, MoveType DEF GiveUp, Moved
  <2> QED
    BY <2>1, CopyMove
<1>13. CASE UNCHANGED vars
  <2>1. UNCHANGED <<keyRow, variants, files, tasks, handler>>
    BY <1>13 DEF vars
  <2> QED
    BY <2>1 DEF Copies, Good, At, Working, UnderWay
<1> QED
  BY <1>1, <1>2, <1>3, <1>4, <1>5, <1>6, <1>7, <1>8, <1>9, <1>10, <1>11, <1>12, <1>13
  DEF Next, Proceed, HandlerStep, GenerateStep, ToggleStep, ClientStep

\* If keys change only while nothing else is going on, the end point serves the
\* key that the playlists of ready variants name, although tasks carry copies of
\* it, and may fail and be tried again, and the deletion of files may fail.
THEOREM ServedKey == ASSUME QuietToggles PROVE Spec => []KeyServed
<1>1. Init => KeyInv
  <2> SUFFICES ASSUME Init PROVE KeyInv
    OBVIOUS
  <2>1. TypeInv /\ \A h \in Handlers : handler[h].pc = "idle" /\ handler[h].op = "none"
    BY InitType, IdleType DEF Init
  <2>2. \A t \in Tasks : tasks[t].state = "none"
    BY DEF Init, NoTask
  <2>3. \A r \in Res : variants[r] = "none"
    BY DEF Init
  <2> QED
    BY <2>1, <2>2, <2>3 DEF KeyInv, Alone, Copies, Working, At, UnderWay
<1>2. KeyInv /\ [Next]_vars => KeyInv'
  <2> SUFFICES ASSUME KeyInv, [Next]_vars PROVE KeyInv'
    OBVIOUS
  <2>1. TypeInv'
    BY NextType DEF KeyInv
  <2> QED
    BY <2>1, NextAlone, NextCopies DEF KeyInv
<1>3. KeyInv => KeyServed
  BY DEF KeyInv, Copies, KeyServed, Good
<1> QED
  BY <1>1, <1>2, <1>3, PTL DEF Spec
=============================================================================
