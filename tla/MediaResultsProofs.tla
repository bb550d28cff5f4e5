-------------------------- MODULE MediaResultsProofs --------------------------
(***************************************************************************)
(* Proofs about MediaResults, for every value of its constants.            *)
(***************************************************************************)
EXTENDS MediaResults, TLAPS

Pcs == {"idle", "p_read", "p_save", "rows", "e_save"} \cup UploadPcs

HandlerType == [pc : Pcs, task : Tasks \cup {NoTask}, row : Row, todo : SUBSET Indexes]

\* The task a handler is about is completed, and of the kind its step is for.
About(h) ==
  /\ handler[h].pc \in {"p_read", "p_save"} =>
       handler[h].task \in Probes /\ tasks[handler[h].task].state = "completed"
  /\ handler[h].pc = "rows" =>
       /\ handler[h].task \in Tasks \ Probes /\ tasks[handler[h].task].state = "completed"
       /\ handler[h].todo \subseteq tasks[handler[h].task].result

\* What handlers are about, and what the server looks at, are completed tasks;
\* thumbnails are made of an original.
TypeInv ==
  /\ TypeOK
  /\ uploads \in 0 .. MaxUploads /\ rows \in 0 .. MaxRows /\ crashes \in 0 .. MaxCrashes
  /\ \A t \in Tasks : /\ t \in boot => tasks[t].state = "completed"
                      /\ t \notin Probes /\ tasks[t].state # "none" => tasks[t].of # 0
  /\ \A h \in Handlers : About(h)

SavePcs == {"u_old", "u_objects", "u_rows", "u_save"}

\* An upload is alone,
Alone(h) ==
  handler[h].pc \in UploadPcs =>
    server = "up" /\ UnderWay = {} /\ \A g \in Handlers \ {h} : handler[g].pc = "idle"

\* and the row stays as it has read it.
Kept(h) ==
  /\ handler[h].pc \in SavePcs =>
       handler[h].row = row /\ row.orig < uploads /\ uploads \in originals
  /\ handler[h].pc = "u_probe" => row.orig # 0
  /\ handler[h].pc \in {"p_save", "e_save"} => handler[h].row.orig = row.orig

\* Tasks are about the present original, or one before it if they are over.
Made(t) ==
  /\ tasks[t].of <= row.orig
  /\ tasks[t].state \in {"queued", "worked"} => tasks[t].of = row.orig
  /\ tasks[t].state # "none" => tasks[t].of # 0

UploadInv ==
  /\ \A h \in Handlers : Alone(h) /\ Kept(h)
  /\ row.orig <= uploads
  /\ \A t \in Tasks : Made(t)
  /\ \A th \in thumbs : th.of <= row.orig
  /\ OriginalIsThere

\* Thumbnails of the present original, and results that name them, have their
\* objects.
HasObjects ==
  /\ \A th \in thumbs : th.of = row.orig => objects[th.index] # 0
  /\ \A t \in Tasks \ Probes : tasks[t].state \in {"worked", "completed"} /\ tasks[t].of = row.orig =>
       \A i \in tasks[t].result : objects[i] # 0

ObjectInv == ~Deleting /\ ~interrupted => HasObjects

\* Somebody is about to give the row metadata.
Probed == \E h \in Handlers : handler[h].pc \in {"p_read", "p_save"}

\* What a handler is to save are metadata; without crashes, those of the present
\* original.  Rows are read to be saved while the server is up.
Saves(h) ==
  /\ handler[h].pc = "p_save" => handler[h].row.meta # 0 /\ handler[h].row.status # "draft"
  /\ crashes = 0 /\ handler[h].pc \in {"p_read", "p_save"} => tasks[handler[h].task].of = row.orig
  /\ crashes = 0 /\ handler[h].pc = "p_save" => handler[h].row.meta = row.orig
  /\ handler[h].pc = "e_save" =>
       server = "up" /\ (handler[h].row.meta # 0 => handler[h].row.status # "draft")

\* The result of a completed probe has been applied or waits for somebody, or
\* was written over; a server that starts looks at it in any case.
Applied(t) ==
  tasks[t].state = "completed" =>
    /\ \/ row.meta # 0 \/ Probed \/ server = "down"
       \/ server = "starting" /\ t \in boot
       \/ server = "up" /\ overwritten
    /\ crashes = 0 /\ tasks[t].of = row.orig => row.meta = row.orig \/ Probed \/ overwritten

MetaInv ==
  /\ row.meta # 0 => row.status # "draft"
  /\ \A h \in Handlers : Saves(h)
  /\ crashes = 0 => server = "up"
  /\ \A t \in Probes : Applied(t)

\* There is one task that extracts thumbnails.
OneTask == \A t, u \in Tasks \ Probes : t = u

\* Rows are numbered, and none is there twice.
Listed ==
  /\ \A th, other \in thumbs : th.id = other.id => th = other
  /\ \A th \in thumbs : th.id <= rows
  /\ ListedOnce

\* One handler makes rows, of indexes that have none, and a default if there
\* are no rows.
Making(h) ==
  handler[h].pc = "rows" =>
    /\ \A g \in Handlers \ {h} : handler[g].pc # "rows"
    /\ handler[h].todo = tasks[handler[h].task].result => thumbs = {}
    /\ \A th \in thumbs : th.index \notin handler[h].todo

ThumbInv ==
  /\ Listed
  /\ thumbs # {} => \A t \in Tasks \ Probes : tasks[t].state = "completed"
  /\ \A h \in Handlers : Making(h)

-----------------------------------------------------------------------------
(* What the steps do to the handler.                                       *)

\* A handler that does nothing is well typed.
LEMMA IdleType == Idle \in HandlerType /\ Idle.pc = "idle" /\ Idle.row \in Row
<1>1. Idle.row \in Row
  BY BoundAssumption DEF Idle, Row, Statuses
<1> QED
  BY <1>1 DEF Idle, HandlerType, Pcs

\* A handler that goes on or returns keeps what it knows; the others do not move.
LEMMA MoveType ==
  ASSUME handler \in [Handlers -> HandlerType], NEW h \in Handlers
  PROVE  /\ \A pc \in Pcs : Goto(h, pc) =>
              /\ handler' \in [Handlers -> HandlerType] /\ handler'[h].pc = pc
              /\ handler'[h].task = handler[h].task /\ handler'[h].row = handler[h].row
              /\ handler'[h].todo = handler[h].todo
              /\ \A g \in Handlers \ {h} : handler'[g] = handler[g]
         /\ Return(h) => /\ handler' \in [Handlers -> HandlerType] /\ handler'[h].pc = "idle"
                         /\ \A g \in Handlers \ {h} : handler'[g] = handler[g]
<1>1. ASSUME NEW pc \in Pcs, Goto(h, pc)
      PROVE  /\ handler' \in [Handlers -> HandlerType] /\ handler'[h].pc = pc
             /\ handler'[h].task = handler[h].task /\ handler'[h].row = handler[h].row
             /\ handler'[h].todo = handler[h].todo
             /\ \A g \in Handlers \ {h} : handler'[g] = handler[g]
  BY <1>1 DEF Goto, HandlerType
<1>2. ASSUME Return(h)
      PROVE  /\ handler' \in [Handlers -> HandlerType] /\ handler'[h].pc = "idle"
             /\ \A g \in Handlers \ {h} : handler'[g] = handler[g]
  BY <1>2, IdleType DEF Return
<1> QED
  BY <1>1, <1>2

\* The row is read.
LEMMA ReadType ==
  ASSUME handler \in [Handlers -> HandlerType], NEW h \in Handlers, NEW pc \in Pcs, NEW r \in Row,
         handler' = [handler EXCEPT ![h].pc = pc, ![h].row = r]
  PROVE  /\ handler' \in [Handlers -> HandlerType] /\ handler'[h].pc = pc /\ handler'[h].row = r
         /\ handler'[h].task = handler[h].task /\ handler'[h].todo = handler[h].todo
         /\ \A g \in Handlers \ {h} : handler'[g] = handler[g]
<1>1. PICK u \in HandlerType : u = handler[h]
  OBVIOUS
<1>2. PICK x : x = [u EXCEPT !.pc = pc, !.row = r]
  OBVIOUS
<1>3. /\ x \in HandlerType /\ x.pc = pc /\ x.row = r /\ x.task = u.task /\ x.todo = u.todo
  BY <1>1, <1>2 DEF HandlerType
<1>4. handler' = [handler EXCEPT ![h] = x]
  BY <1>1, <1>2
<1> QED
  BY <1>1, <1>3, <1>4

\* A result is about to be applied.
LEMMA ApplyType ==
  ASSUME handler \in [Handlers -> HandlerType], tasks \in [Tasks -> Task],
         NEW h \in Handlers, NEW t \in Tasks, Apply(h, t)
  PROVE  /\ handler' \in [Handlers -> HandlerType] /\ handler'[h].task = t
         /\ \/ t \in Probes /\ handler'[h].pc = "p_read"
            \/ t \notin Probes /\ handler'[h].pc = "rows" /\ handler'[h].todo = tasks[t].result
         /\ \A g \in Handlers \ {h} : handler'[g] = handler[g]
<1>1. PICK x : /\ handler' = [handler EXCEPT ![h] = x]
               /\ x = IF t \in Probes THEN [Idle EXCEPT !.pc = "p_read", !.task = t]
                      ELSE [Idle EXCEPT !.pc = "rows", !.task = t, !.todo = tasks[t].result]
  BY DEF Apply
<1>2. PICK S \in SUBSET Indexes : S = tasks[t].result
  BY DEF Task
<1>3. /\ x \in HandlerType /\ x.task = t
      /\ \/ t \in Probes /\ x.pc = "p_read"
         \/ t \notin Probes /\ x.pc = "rows" /\ x.todo = S
  <2>1. CASE t \in Probes
    BY <1>1, <2>1, IdleType DEF HandlerType, Pcs
  <2>2. CASE t \notin Probes
    BY <1>1, <1>2, <2>2, IdleType DEF HandlerType, Pcs
  <2> QED
    BY <2>1, <2>2
<1> QED
  BY <1>1, <1>2, <1>3

\* A row is made of the first index that is left.
LEMMA ThumbType ==
  ASSUME TypeInv, NEW h \in Handlers, CreateThumbnail(h)
  PROVE  /\ At(h, "rows") /\ handler' \in [Handlers -> HandlerType]
         /\ \A g \in Handlers \ {h} : handler'[g] = handler[g]
         /\ \/ handler'[h].pc = "idle" /\ UNCHANGED <<thumbs, rows>>
            \/ \E i \in handler[h].todo, th \in Thumb :
                 /\ handler'[h].pc = "rows" /\ handler'[h].task = handler[h].task
                 /\ handler'[h].todo = handler[h].todo \ {i}
                 /\ rows < MaxRows /\ rows' = rows + 1 /\ thumbs' = thumbs \cup {th}
                 /\ th.id = rows + 1 /\ th.index = i /\ th.of = tasks[handler[h].task].of
                 /\ th.default <=> handler[h].todo = tasks[handler[h].task].result
<1>0. /\ handler \in [Handlers -> HandlerType] /\ tasks \in [Tasks -> Task] /\ rows \in 0 .. MaxRows
      /\ At(h, "rows") /\ handler[h].task \in Tasks \ Probes /\ tasks[handler[h].task].of # 0
      /\ handler[h].todo \subseteq Indexes
  BY DEF TypeInv, TypeOK, About, At, HandlerType, Pcs, CreateThumbnail
<1>1. CASE handler[h].todo = {} /\ Return(h) /\ UNCHANGED <<thumbs, rows>>
  BY <1>0, <1>1, MoveType
<1>2. ASSUME NEW i \in handler[h].todo, rows < MaxRows, rows' = rows + 1,
             thumbs' = thumbs \cup {[id |-> rows + 1, index |-> i, of |-> tasks[handler[h].task].of,
                                     default |-> handler[h].todo = tasks[handler[h].task].result]},
             handler' = [handler EXCEPT ![h].todo = @ \ {i}]
      PROVE  /\ handler' \in [Handlers -> HandlerType]
             /\ \A g \in Handlers \ {h} : handler'[g] = handler[g]
             /\ \E th \in Thumb :
                  /\ handler'[h].pc = "rows" /\ handler'[h].task = handler[h].task
                  /\ handler'[h].todo = handler[h].todo \ {i}
                  /\ thumbs' = thumbs \cup {th}
                  /\ th.id = rows + 1 /\ th.index = i /\ th.of = tasks[handler[h].task].of
                  /\ th.default <=> handler[h].todo = tasks[handler[h].task].result
  <2>1. /\ handler' \in [Handlers -> HandlerType]
        /\ \A g \in Handlers \ {h} : handler'[g] = handler[g]
        /\ handler'[h].pc = "rows" /\ handler'[h].task = handler[h].task
        /\ handler'[h].todo = handler[h].todo \ {i}
    BY <1>0, <1>2 DEF HandlerType, At
  <2>2. PICK d \in BOOLEAN : d = (handler[h].todo = tasks[handler[h].task].result)
    OBVIOUS
  <2>3. PICK th : th = [id |-> rows + 1, index |-> i, of |-> tasks[handler[h].task].of, default |-> d]
    OBVIOUS
  <2>4. rows + 1 \in 1 .. MaxRows /\ tasks[handler[h].task].of \in 1 .. MaxUploads /\ i \in Indexes
    BY <1>0, <1>2, BoundAssumption DEF Task
  <2>5. th \in Thumb
    BY <2>3, <2>4 DEF Thumb
  <2>6. thumbs' = thumbs \cup {th}
    BY <1>2, <2>2, <2>3
  <2> QED
    BY <2>1, <2>2, <2>3, <2>5, <2>6
<1> QED
  BY <1>0, <1>1, <1>2 DEF CreateThumbnail

-----------------------------------------------------------------------------
(* Types.                                                                  *)

\* The initial state is well typed.
LEMMA InitType == Init => TypeInv
<1> SUFFICES ASSUME Init PROVE TypeInv
  OBVIOUS
<1>1. /\ row \in Row /\ thumbs \in SUBSET Thumb /\ originals \in SUBSET (1 .. MaxUploads)
      /\ handler \in [Handlers -> HandlerType] /\ \A h \in Handlers : handler[h].pc = "idle"
  BY IdleType DEF Init
<1>2. /\ objects \in [Indexes -> 0 .. MaxUploads] /\ tasks \in [Tasks -> Task]
      /\ \A t \in Tasks : tasks[t].state = "none"
  BY BoundAssumption DEF Init, Task
<1>3. /\ server \in {"up", "down", "starting"} /\ boot = {}
      /\ interrupted \in BOOLEAN /\ overwritten \in BOOLEAN
      /\ uploads = 0 /\ rows = 0 /\ crashes = 0
  <2>1. server = "up" /\ boot = {} /\ uploads = 0 /\ rows = 0 /\ crashes = 0
    BY DEF Init
  <2>2. interrupted \in BOOLEAN /\ overwritten \in BOOLEAN
    BY Zenon DEF Init
  <2> QED
    BY <2>1, <2>2
<1>4. uploads \in 0 .. MaxUploads /\ rows \in 0 .. MaxRows /\ crashes \in 0 .. MaxCrashes
  BY <1>3, BoundAssumption
<1>5. \A h \in Handlers : About(h)
  BY <1>1 DEF About
<1> QED
  BY <1>1, <1>2, <1>3, <1>4, <1>5 DEF TypeInv, TypeOK, HandlerType, Pcs

States == {"none", "queued", "worked", "completed", "failed", "lost"}

\* What the steps do to a task.
LEMMA MoveTask ==
  ASSUME tasks \in [Tasks -> Task], NEW t \in Tasks
  PROVE  /\ \A s \in States : tasks' = [tasks EXCEPT ![t].state = s] =>
              /\ tasks' \in [Tasks -> Task] /\ tasks'[t].state = s
              /\ tasks'[t].of = tasks[t].of /\ tasks'[t].result = tasks[t].result
              /\ \A u \in Tasks \ {t} : tasks'[u] = tasks[u]
         /\ row \in Row /\ Queue(t) =>
              /\ tasks' \in [Tasks -> Task] /\ tasks'[t].state = "queued"
              /\ tasks'[t].of = row.orig /\ tasks'[t].result = tasks[t].result
              /\ \A u \in Tasks \ {t} : tasks'[u] = tasks[u]
         /\ ExtractThumbnails(t) => \E S \in SUBSET Indexes :
              /\ objects' = [i \in Indexes |-> IF i \in S THEN tasks[t].of ELSE objects[i]]
              /\ tasks' \in [Tasks -> Task] /\ tasks'[t].state = "worked"
              /\ tasks'[t].of = tasks[t].of /\ tasks'[t].result = S
              /\ \A u \in Tasks \ {t} : tasks'[u] = tasks[u]
<1>0. PICK x \in Task : x = tasks[t]
  OBVIOUS
<1>1. ASSUME NEW s \in States, tasks' = [tasks EXCEPT ![t].state = s]
      PROVE  /\ tasks' \in [Tasks -> Task] /\ tasks'[t].state = s
             /\ tasks'[t].of = tasks[t].of /\ tasks'[t].result = tasks[t].result
             /\ \A u \in Tasks \ {t} : tasks'[u] = tasks[u]
  <2>1. PICK y : y = [x EXCEPT !.state = s]
    OBVIOUS
  <2>2. y \in Task /\ y.state = s /\ y.of = x.of /\ y.result = x.result
    BY <1>0, <2>1 DEF Task, States
  <2>3. tasks' = [tasks EXCEPT ![t] = y]
    BY <1>0, <1>1, <2>1
  <2> QED
    BY <1>0, <2>2, <2>3
<1>2. ASSUME row \in Row, Queue(t)
      PROVE  /\ tasks' \in [Tasks -> Task] /\ tasks'[t].state = "queued"
             /\ tasks'[t].of = row.orig /\ tasks'[t].result = tasks[t].result
             /\ \A u \in Tasks \ {t} : tasks'[u] = tasks[u]
  <2>1. PICK y : y = [x EXCEPT !.state = "queued", !.of = row.orig]
    OBVIOUS
  <2>2. y \in Task /\ y.state = "queued" /\ y.of = row.orig /\ y.result = x.result
    BY <1>0, <1>2, <2>1 DEF Task, Row
  <2>3. tasks' = [tasks EXCEPT ![t] = y]
    BY <1>0, <1>2, <2>1 DEF Queue
  <2> QED
    BY <1>0, <2>2, <2>3
<1>3. ASSUME NEW S \in SUBSET Indexes, tasks' = [tasks EXCEPT ![t].state = "worked", ![t].result = S]
      PROVE  /\ tasks' \in [Tasks -> Task] /\ tasks'[t].state = "worked"
             /\ tasks'[t].of = tasks[t].of /\ tasks'[t].result = S
             /\ \A u \in Tasks \ {t} : tasks'[u] = tasks[u]
  <2>1. PICK y : y = [x EXCEPT !.state = "worked", !.result = S]
    OBVIOUS
  <2>2. y \in Task /\ y.state = "worked" /\ y.of = x.of /\ y.result = S
    BY <1>0, <2>1 DEF Task
  <2>3. tasks' = [tasks EXCEPT ![t] = y]
    BY <1>0, <1>3, <2>1
  <2> QED
    BY <1>0, <2>2, <2>3
<1> QED
  BY <1>1, <1>2, <1>3 DEF ExtractThumbnails

\* A handler that a step leaves alone stays as it should be, and so do the tasks
\* if completed ones are left alone.
LEMMA Others ==
  ASSUME TypeInv, \A t \in Tasks : tasks[t].state = "completed" =>
                    tasks'[t].state = "completed" /\ tasks'[t].result = tasks[t].result
  PROVE  \A h \in Handlers : handler'[h] = handler[h] \/ handler'[h].pc \in UploadPcs \cup {"idle"}
           => About(h)'
<1> SUFFICES ASSUME NEW h \in Handlers,
                    handler'[h] = handler[h] \/ handler'[h].pc \in UploadPcs \cup {"idle"}
             PROVE  About(h)'
  OBVIOUS
<1>1. CASE handler'[h] = handler[h]
  <2>1. PICK x : x = handler[h] /\ x = handler'[h]
    BY <1>1
  <2>2. /\ x.pc \in {"p_read", "p_save"} => x.task \in Probes /\ tasks[x.task].state = "completed"
        /\ x.pc = "rows" => /\ x.task \in Tasks \ Probes /\ tasks[x.task].state = "completed"
                            /\ x.todo \subseteq tasks[x.task].result
    BY <2>1 DEF TypeInv, About
  <2>3. /\ x.pc \in {"p_read", "p_save"} => x.task \in Probes /\ tasks'[x.task].state = "completed"
        /\ x.pc = "rows" => /\ x.task \in Tasks \ Probes /\ tasks'[x.task].state = "completed"
                            /\ x.todo \subseteq tasks'[x.task].result
    BY <2>2, TaskAssumption
  <2> QED
    BY <2>1, <2>3 DEF About
<1>2. CASE handler'[h].pc \in UploadPcs \cup {"idle"}
  BY <1>2 DEF About, UploadPcs
<1> QED
  BY <1>1, <1>2

\* Types are kept, one step after another; the handlers that a step moves are
\* about what they should be.
LEMMA TypeParts ==
  ASSUME row' \in Row, originals' \in SUBSET (1 .. MaxUploads), thumbs' \in SUBSET Thumb,
         objects' \in [Indexes -> 0 .. MaxUploads], tasks' \in [Tasks -> Task],
         server' \in {"up", "down", "starting"}, boot' \in SUBSET Tasks,
         handler' \in [Handlers -> HandlerType], interrupted' \in BOOLEAN, overwritten' \in BOOLEAN,
         uploads' \in 0 .. MaxUploads, rows' \in 0 .. MaxRows, crashes' \in 0 .. MaxCrashes,
         \A t \in Tasks : /\ t \in boot' => tasks'[t].state = "completed"
                          /\ t \notin Probes /\ tasks'[t].state # "none" => tasks'[t].of # 0,
         \A h \in Handlers : About(h)'
  PROVE  TypeInv'
BY DEF TypeInv, TypeOK, HandlerType, Pcs

\* What TypeInv says.
LEMMA Types ==
  TypeInv =>
    /\ row \in Row /\ originals \in SUBSET (1 .. MaxUploads) /\ thumbs \in SUBSET Thumb
    /\ objects \in [Indexes -> 0 .. MaxUploads] /\ tasks \in [Tasks -> Task]
    /\ server \in {"up", "down", "starting"} /\ boot \in SUBSET Tasks
    /\ handler \in [Handlers -> HandlerType]
    /\ interrupted \in BOOLEAN /\ overwritten \in BOOLEAN
    /\ uploads \in 0 .. MaxUploads /\ rows \in 0 .. MaxRows /\ crashes \in 0 .. MaxCrashes
    /\ \A t \in Tasks : /\ t \in boot => tasks[t].state = "completed"
                        /\ t \notin Probes /\ tasks[t].state # "none" => tasks[t].of # 0
    /\ \A h \in Handlers : About(h)
    /\ {Count, MaxUploads, MaxRows, MaxCrashes, MaxEdits} \subseteq Nat
    /\ Probes \subseteq Tasks
BY BoundAssumption, TaskAssumption DEF TypeInv, TypeOK, HandlerType, Pcs

\* The row is read and its metadata set, to be saved.
LEMMA ReadEffect ==
  ASSUME TypeInv, NEW h \in Handlers, ReadRow(h)
  PROVE  /\ handler' \in [Handlers -> HandlerType] /\ handler'[h].pc = "p_save"
         /\ handler'[h].task = handler[h].task
         /\ \A g \in Handlers \ {h} : handler'[g] = handler[g]
         /\ handler'[h].row.orig = row.orig /\ handler'[h].row.meta = tasks[handler[h].task].of
         /\ handler'[h].row.status # "draft"
<1>1. PICK of \in 0 .. MaxUploads : of = tasks[handler[h].task].of
  BY Types DEF ReadRow, About, At, Task
<1>2. PICK r : r = [row EXCEPT !.meta = of, !.status = IF @ = "draft" THEN "uploaded" ELSE @]
  OBVIOUS
<1>3. r \in Row /\ r.orig = row.orig /\ r.meta = of /\ r.status # "draft"
  BY <1>2, Types DEF Row, Statuses
<1>4. handler' = [handler EXCEPT ![h].pc = "p_save", ![h].row = r]
  BY <1>1, <1>2 DEF ReadRow
<1>5. "p_save" \in Pcs /\ handler \in [Handlers -> HandlerType]
  BY Types DEF Pcs
<1>6. /\ handler' \in [Handlers -> HandlerType] /\ handler'[h].pc = "p_save"
      /\ handler'[h].task = handler[h].task /\ \A g \in Handlers \ {h} : handler'[g] = handler[g]
  BY <1>3, <1>4, <1>5, ReadType
<1>7. handler'[h].row = r
  <2>1. PICK u \in HandlerType : u = handler[h]
    BY <1>5
  <2>2. PICK x : x = [u EXCEPT !.pc = "p_save", !.row = r]
    OBVIOUS
  <2>3. x.row = r
    BY <2>1, <2>2 DEF HandlerType
  <2>4. handler' = [handler EXCEPT ![h] = x]
    BY <1>4, <2>1, <2>2
  <2> QED
    BY <1>5, <2>3, <2>4
<1> QED
  BY <1>1, <1>3, <1>6, <1>7

\* The row is read to be saved, its status set or not.
LEMMA EditEffect ==
  ASSUME TypeInv, NEW h \in Handlers, EditVideo(h) \/ SetReady(h)
  PROVE  /\ At(h, "idle") /\ MayRequest
         /\ handler' \in [Handlers -> HandlerType] /\ handler'[h].pc = "e_save"
         /\ handler'[h].task = handler[h].task
         /\ \A g \in Handlers \ {h} : handler'[g] = handler[g]
         /\ handler'[h].row.orig = row.orig /\ handler'[h].row.meta = row.meta
         /\ handler'[h].row.status \in {row.status, "ready"}
         /\ UNCHANGED <<mediaVars, tasks, server, boot, interrupted, overwritten, uploads, rows, crashes>>
<1>1. PICK r : /\ r \in {row, [row EXCEPT !.status = "ready"]} /\ ReadToSave(h, r) /\ MayRequest
  BY DEF EditVideo, SetReady, Edit
<1>2. r \in Row /\ r.orig = row.orig /\ r.meta = row.meta /\ r.status \in {row.status, "ready"}
  BY <1>1, Types DEF Row, Statuses
<1>3. handler' = [handler EXCEPT ![h].pc = "e_save", ![h].row = r]
  BY <1>1 DEF ReadToSave
<1>4. "e_save" \in Pcs /\ handler \in [Handlers -> HandlerType]
  BY Types DEF Pcs
<1>5. /\ handler' \in [Handlers -> HandlerType] /\ handler'[h].pc = "e_save" /\ handler'[h].row = r
      /\ handler'[h].task = handler[h].task /\ \A g \in Handlers \ {h} : handler'[g] = handler[g]
  <2>1. PICK u \in HandlerType : u = handler[h]
    BY <1>4
  <2>2. PICK x : x = [u EXCEPT !.pc = "e_save", !.row = r]
    OBVIOUS
  <2>3. x \in HandlerType /\ x.pc = "e_save" /\ x.row = r /\ x.task = u.task
    BY <1>2, <1>4, <2>1, <2>2 DEF HandlerType
  <2>4. handler' = [handler EXCEPT ![h] = x]
    BY <1>3, <2>1, <2>2
  <2> QED
    BY <1>4, <2>1, <2>3, <2>4
<1> QED
  BY <1>1, <1>2, <1>5 DEF ReadToSave

\* The row is saved as it was read.
LEMMA WriteEffect ==
  ASSUME TypeInv, NEW h \in Handlers, SaveRead(h)
  PROVE  /\ handler' \in [Handlers -> HandlerType] /\ handler[h].pc = "e_save" /\ handler'[h].pc = "idle"
         /\ \A g \in Handlers \ {h} : handler'[g] = handler[g]
         /\ row' = handler[h].row /\ row' \in Row
         /\ overwritten' = (overwritten \/ row'.meta # row.meta)
         /\ UNCHANGED <<originals, thumbs, objects, tasks, server, boot, interrupted, bounds>>
<1>1. handler \in [Handlers -> HandlerType]
  BY Types
<1> QED
  BY <1>1, MoveType DEF SaveRead, At, HandlerType

\* Every step keeps the types.
LEMMA NextType == TypeInv /\ [Next]_vars => TypeInv'
<1> SUFFICES ASSUME TypeInv, [Next]_vars PROVE TypeInv'
  OBVIOUS
<1>0. /\ row \in Row /\ originals \in SUBSET (1 .. MaxUploads) /\ thumbs \in SUBSET Thumb
      /\ objects \in [Indexes -> 0 .. MaxUploads] /\ tasks \in [Tasks -> Task]
      /\ server \in {"up", "down", "starting"} /\ boot \in SUBSET Tasks
      /\ handler \in [Handlers -> HandlerType]
      /\ interrupted \in BOOLEAN /\ overwritten \in BOOLEAN
      /\ uploads \in 0 .. MaxUploads /\ rows \in 0 .. MaxRows /\ crashes \in 0 .. MaxCrashes
      /\ \A t \in Tasks : /\ t \in boot => tasks[t].state = "completed"
                          /\ t \notin Probes /\ tasks[t].state # "none" => tasks[t].of # 0
      /\ \A h \in Handlers : About(h)
      /\ {Count, MaxUploads, MaxRows, MaxCrashes, MaxEdits} \subseteq Nat
      /\ Probes \subseteq Tasks
  BY Types
<1>1. ASSUME NEW h \in Handlers, CompleteUpload(h) PROVE TypeInv'
  <2>1. /\ handler' \in [Handlers -> HandlerType] /\ handler'[h].pc = "u_old"
        /\ \A g \in Handlers \ {h} : handler'[g] = handler[g]
    <3>1. handler' = [handler EXCEPT ![h].pc = "u_old", ![h].row = row] /\ "u_old" \in Pcs
      BY <1>1 DEF CompleteUpload, Pcs, UploadPcs
    <3> QED
      BY <1>0, <3>1, ReadType
  <2>2. \A g \in Handlers : About(g)'
    BY <1>1, <2>1, Others DEF CompleteUpload, UploadPcs
  <2>3. uploads' \in 1 .. MaxUploads /\ originals' = originals \cup {uploads'}
    BY <1>0, <1>1 DEF CompleteUpload
  <2> QED
    BY <1>0, <1>1, <2>1, <2>2, <2>3, TypeParts DEF CompleteUpload
<1>2. ASSUME NEW h \in Handlers, NEW pc \in {"u_objects", "u_rows", "u_save", "u_probe"},
             Goto(h, pc), row' \in Row, originals' \in SUBSET (1 .. MaxUploads),
             thumbs' \in SUBSET Thumb, objects' \in [Indexes -> 0 .. MaxUploads],
             UNCHANGED <<tasks, server, boot, interrupted, overwritten, bounds>>
      PROVE  TypeInv'
  <2>1. /\ handler' \in [Handlers -> HandlerType] /\ handler'[h].pc = pc
        /\ \A g \in Handlers \ {h} : handler'[g] = handler[g]
    BY <1>0, <1>2, MoveType DEF Pcs, UploadPcs
  <2>2. \A g \in Handlers : About(g)'
    BY <1>2, <2>1, Others DEF UploadPcs
  <2> QED
    BY <1>0, <1>2, <2>1, <2>2, TypeParts DEF bounds
<1>3. ASSUME NEW h \in Handlers, DeleteOriginal(h) \/ DeleteThumbnailObjects(h)
                                   \/ DeleteThumbnailRows(h) \/ SaveUpload(h)
      PROVE  TypeInv'
  <2>1. CASE DeleteOriginal(h)
    <3>1. originals' \in SUBSET (1 .. MaxUploads)
      BY <1>0, <2>1 DEF DeleteOriginal
    <3> QED
      BY <1>0, <1>2, <2>1, <3>1 DEF DeleteOriginal
  <2>2. CASE DeleteThumbnailObjects(h)
    <3>1. objects' \in [Indexes -> 0 .. MaxUploads]
      BY <1>0, <2>2 DEF DeleteThumbnailObjects
    <3> QED
      BY <1>0, <1>2, <2>2, <3>1 DEF DeleteThumbnailObjects
  <2>3. CASE DeleteThumbnailRows(h)
    BY <1>0, <1>2, <2>3 DEF DeleteThumbnailRows
  <2>4. CASE SaveUpload(h)
    <3>1. PICK x \in Row : x = handler[h].row
      BY <1>0 DEF HandlerType
    <3>2. row' \in Row
      BY <1>0, <2>4, <3>1 DEF SaveUpload, Row, Statuses
    <3> QED
      BY <1>0, <1>2, <2>4, <3>2 DEF SaveUpload
  <2> QED
    BY <1>3, <2>1, <2>2, <2>3, <2>4
<1>4. ASSUME NEW h \in Handlers, NEW t \in Tasks, StartProbe(h, t) PROVE TypeInv'
  <2>1. /\ handler' \in [Handlers -> HandlerType] /\ handler'[h].pc = "idle"
        /\ \A g \in Handlers \ {h} : handler'[g] = handler[g]
    BY <1>0, <1>4, MoveType DEF StartProbe
  <2>2. /\ tasks' \in [Tasks -> Task] /\ tasks[t].state = "none" /\ t \in Probes
        /\ \A u \in Tasks \ {t} : tasks'[u] = tasks[u]
    BY <1>0, <1>4, MoveTask DEF StartProbe
  <2>3. \A g \in Handlers : About(g)'
    BY <2>1, <2>2, Others
  <2> QED
    BY <1>0, <1>4, <2>1, <2>2, <2>3, TypeParts DEF StartProbe, mediaVars, bounds
<1>5. ASSUME NEW t \in Tasks, StartThumbnails(t) PROVE TypeInv'
  <2>1. /\ tasks' \in [Tasks -> Task] /\ tasks[t].state = "none" /\ tasks'[t].of # 0
        /\ \A u \in Tasks \ {t} : tasks'[u] = tasks[u]
    BY <1>0, <1>5, MoveTask DEF StartThumbnails
  <2>2. \A g \in Handlers : About(g)'
    BY <1>5, <2>1, Others DEF StartThumbnails
  <2> QED
    BY <1>0, <1>5, <2>1, <2>2, TypeParts DEF StartThumbnails, mediaVars, bounds
<1>6. ASSUME NEW t \in Tasks, WorkerStep(t) PROVE TypeInv'
  <2>1. /\ tasks' \in [Tasks -> Task] /\ tasks[t].state \in {"queued", "worked"}
        /\ tasks'[t].of = tasks[t].of /\ \A u \in Tasks \ {t} : tasks'[u] = tasks[u]
    <3>1. CASE ExtractThumbnails(t)
      <4>1. tasks[t].state = "queued"
        BY <3>1 DEF ExtractThumbnails
      <4> QED
        BY <1>0, <3>1, <4>1, MoveTask
    <3>2. CASE Probe(t)
      BY <1>0, <3>2, MoveTask DEF Probe, States
    <3>3. CASE LoseReport(t)
      BY <1>0, <3>3, MoveTask DEF LoseReport, States
    <3> QED
      BY <1>6, <3>1, <3>2, <3>3 DEF WorkerStep
  <2>2. objects' \in [Indexes -> 0 .. MaxUploads]
    <3>1. CASE ExtractThumbnails(t)
      <4>1. PICK S \in SUBSET Indexes, of \in 0 .. MaxUploads :
              objects' = [i \in Indexes |-> IF i \in S THEN of ELSE objects[i]]
        BY <1>0, <3>1 DEF ExtractThumbnails, Task
      <4> QED
        BY <1>0, <4>1
    <3> QED
      BY <1>0, <1>6, <3>1 DEF WorkerStep, Probe, LoseReport, mediaVars
  <2>3. UNCHANGED <<row, originals, thumbs, server, boot, handler, interrupted, overwritten, bounds>>
    BY <1>6 DEF WorkerStep, ExtractThumbnails, Probe, LoseReport, mediaVars
  <2>4. \A g \in Handlers : About(g)'
    BY <2>1, <2>3, Others
  <2> QED
    BY <1>0, <2>1, <2>2, <2>3, <2>4, TypeParts DEF bounds
\* A handler sets out to apply a result.
<1>7. ASSUME NEW h \in Handlers, NEW t \in Tasks, Apply(h, t), tasks' \in [Tasks -> Task],
             tasks'[t].state = "completed", tasks'[t].result = tasks[t].result,
             tasks'[t].of = tasks[t].of, tasks[t].state # "none",
             \A u \in Tasks \ {t} : tasks'[u] = tasks[u], boot' \subseteq boot,
             server' \in {"up", "down", "starting"},
             UNCHANGED <<mediaVars, interrupted, overwritten, bounds>>
      PROVE  TypeInv'
  <2>1. /\ handler' \in [Handlers -> HandlerType] /\ handler'[h].task = t
        /\ \/ t \in Probes /\ handler'[h].pc = "p_read"
           \/ t \notin Probes /\ handler'[h].pc = "rows" /\ handler'[h].todo = tasks[t].result
        /\ \A g \in Handlers \ {h} : handler'[g] = handler[g]
    BY <1>0, <1>7, ApplyType
  <2>2. \A g \in Handlers \ {h} : About(g)'
    BY <1>7, <2>1, Others
  <2>3. About(h)'
    BY <1>7, <2>1 DEF About
  <2> QED
    BY <1>0, <1>7, <2>1, <2>2, <2>3, TypeParts DEF mediaVars, bounds
<1>8. ASSUME NEW h \in Handlers, NEW t \in Tasks, CompleteTask(h, t) PROVE TypeInv'
  <2>1. /\ tasks' \in [Tasks -> Task] /\ tasks'[t].state = "completed"
        /\ tasks'[t].of = tasks[t].of /\ tasks'[t].result = tasks[t].result
        /\ \A u \in Tasks \ {t} : tasks'[u] = tasks[u]
    BY <1>0, <1>8, MoveTask DEF CompleteTask, States
  <2> QED
    BY <1>0, <1>7, <1>8, <2>1 DEF CompleteTask
<1>9. ASSUME NEW h \in Handlers, ReadRow(h) PROVE TypeInv'
  <2>5. /\ handler' \in [Handlers -> HandlerType] /\ handler'[h].pc = "p_save"
        /\ handler'[h].task = handler[h].task
        /\ \A g \in Handlers \ {h} : handler'[g] = handler[g]
    BY <1>9, ReadEffect
  <2>6. \A g \in Handlers \ {h} : About(g)'
    BY <1>9, <2>5, Others DEF ReadRow
  <2>7. About(h)'
    BY <1>0, <1>9, <2>5 DEF ReadRow, At, About
  <2> QED
    BY <1>0, <1>9, <2>5, <2>6, <2>7, TypeParts DEF ReadRow, mediaVars, bounds
<1>10. ASSUME NEW h \in Handlers, SaveRow(h) PROVE TypeInv'
  <2>1. /\ handler' \in [Handlers -> HandlerType] /\ handler'[h].pc = "idle"
        /\ \A g \in Handlers \ {h} : handler'[g] = handler[g]
    BY <1>0, <1>10, MoveType DEF SaveRow
  <2>2. row' \in Row
    BY <1>0, <1>10 DEF SaveRow, HandlerType
  <2>3. \A g \in Handlers : About(g)'
    BY <1>10, <2>1, Others DEF SaveRow
  <2> QED
    BY <1>0, <1>10, <2>1, <2>2, <2>3, TypeParts DEF SaveRow, bounds
<1>11. ASSUME NEW h \in Handlers, CreateThumbnail(h) PROVE TypeInv'
  <2>1. /\ At(h, "rows") /\ handler' \in [Handlers -> HandlerType]
        /\ \A g \in Handlers \ {h} : handler'[g] = handler[g]
    BY <1>11, ThumbType
  <2>2. UNCHANGED <<row, originals, objects, tasks, server, boot, interrupted, overwritten, uploads, crashes>>
    BY <1>11 DEF CreateThumbnail
  <2>3. \A g \in Handlers \ {h} : About(g)'
    BY <2>1, <2>2, Others
  <2>4. CASE handler'[h].pc = "idle" /\ UNCHANGED <<thumbs, rows>>
    <3>1. About(h)'
      BY <2>2, <2>4, Others
    <3> QED
      BY <1>0, <2>1, <2>2, <2>3, <2>4, <3>1, TypeParts
  <2>5. ASSUME NEW i \in handler[h].todo, NEW th \in Thumb,
               handler'[h].pc = "rows", handler'[h].task = handler[h].task,
               handler'[h].todo = handler[h].todo \ {i},
               rows < MaxRows, rows' = rows + 1, thumbs' = thumbs \cup {th}
        PROVE  TypeInv'
    <3>1. About(h)'
      BY <1>0, <2>1, <2>2, <2>5 DEF About, At
    <3> QED
      BY <1>0, <2>1, <2>2, <2>3, <2>5, <3>1, TypeParts
  <2> QED
    BY <1>11, <2>4, <2>5, ThumbType
<1>12. ASSUME NEW id \in 1 .. rows, SetDefaultThumbnail(id) \/ DeleteThumbnail(id) PROVE TypeInv'
  <2>1. thumbs' \in SUBSET Thumb
    <3>1. CASE SetDefaultThumbnail(id)
      <4>1. ASSUME NEW th \in thumbs PROVE [th EXCEPT !.default = th.id = id] \in Thumb
        <5>1. PICK d \in BOOLEAN : d = (th.id = id)
          OBVIOUS
        <5>2. [th EXCEPT !.default = d] \in Thumb
          BY <1>0 DEF Thumb
        <5> QED
          BY <5>1, <5>2
      <4> QED
        BY <3>1, <4>1 DEF SetDefaultThumbnail
    <3>2. CASE DeleteThumbnail(id)
      BY <1>0, <3>2 DEF DeleteThumbnail
    <3> QED
      BY <1>12, <3>1, <3>2
  <2>2. UNCHANGED <<row, originals, objects, tasks, server, boot, handler, interrupted,
                    overwritten, uploads, rows, crashes>>
    BY <1>12 DEF SetDefaultThumbnail, DeleteThumbnail
  <2>3. \A g \in Handlers : About(g)'
    BY <2>2, Others
  <2> QED
    BY <1>0, <2>1, <2>2, <2>3, TypeParts
<1>13. CASE StartTranscode
  <2>1. row' \in Row
    BY <1>0, <1>13 DEF StartTranscode, Row, Statuses
  <2>2. \A g \in Handlers : About(g)'
    BY <1>13, Others DEF StartTranscode
  <2> QED
    BY <1>0, <1>13, <2>1, <2>2, TypeParts DEF StartTranscode, bounds
<1>14. CASE Crash
  <2>1. handler' \in [Handlers -> HandlerType] /\ \A g \in Handlers : handler'[g].pc = "idle"
    BY <1>14, IdleType DEF Crash
  <2>2. \A g \in Handlers : About(g)'
    BY <2>1 DEF About
  <2>4. interrupted' \in BOOLEAN /\ UNCHANGED overwritten
    BY <1>14 DEF Crash
  <2>3. crashes' \in 0 .. MaxCrashes /\ boot' = {} /\ server' = "down"
    BY <1>0, <1>14 DEF Crash
  <2> QED
    BY <1>0, <1>14, <2>1, <2>2, <2>3, <2>4, TypeParts DEF Crash, mediaVars
<1>15. CASE Restart
  <2>1. \A g \in Handlers : About(g)'
    BY <1>15, Others DEF Restart
  <2> QED
    BY <1>0, <1>15, <2>1, TypeParts DEF Restart, mediaVars, bounds
<1>16. ASSUME NEW h \in Handlers, NEW t \in Tasks, ReprocessProbe(h, t) \/ ReprocessThumbnails(h, t)
       PROVE  TypeInv'
  <2>1. /\ UNCHANGED <<mediaVars, tasks, server, interrupted, overwritten, bounds>>
        /\ t \in boot /\ boot' \subseteq boot /\ (Apply(h, t) \/ UNCHANGED handler)
    BY <1>16 DEF ReprocessProbe, ReprocessThumbnails, NextResult
  <2>2. CASE Apply(h, t)
    BY <1>0, <1>7, <2>1, <2>2
  <2>3. CASE UNCHANGED handler
    <3>1. \A g \in Handlers : About(g)'
      BY <2>1, <2>3, Others
    <3> QED
      BY <1>0, <2>1, <2>3, <3>1, TypeParts DEF mediaVars, bounds
  <2> QED
    BY <2>1, <2>2, <2>3
<1>17. CASE Serve
  <2>1. \A g \in Handlers : About(g)'
    BY <1>17, Others DEF Serve
  <2> QED
    BY <1>0, <1>17, <2>1, TypeParts DEF Serve, mediaVars, bounds
<1>19. ASSUME NEW h \in Handlers, EditVideo(h) \/ SetReady(h) PROVE TypeInv'
  <2>1. \A g \in Handlers \ {h} : About(g)'
    BY <1>19, EditEffect, Others
  <2>2. About(h)'
    BY <1>19, EditEffect DEF About, UploadPcs
  <2> QED
    BY <1>0, <1>19, <2>1, <2>2, EditEffect, TypeParts DEF mediaVars
<1>20. ASSUME NEW h \in Handlers, SaveRead(h) PROVE TypeInv'
  <2>1. \A g \in Handlers : About(g)'
    BY <1>20, WriteEffect, Others
  <2>2. overwritten' \in BOOLEAN
    BY <1>20, WriteEffect
  <2> QED
    BY <1>0, <1>20, <2>1, <2>2, WriteEffect, TypeParts DEF bounds
<1>18. CASE UNCHANGED vars
  <2>1. \A g \in Handlers : About(g)'
    BY <1>18, Others DEF vars
  <2> QED
    BY <1>0, <1>18, <2>1, TypeParts DEF vars, mediaVars, bounds
<1> QED
  BY <1>0, <1>1, <1>3, <1>4, <1>5, <1>6, <1>8, <1>9, <1>10, <1>11, <1>12, <1>13, <1>14, <1>15,
     <1>16, <1>17, <1>18, <1>19, <1>20
  DEF Next, HandlerStep, UploadStep, ApplyStep, ServerStep, ClientStep

\* Rows, objects and results keep their types, however requests interleave and
\* wherever the server stops.
THEOREM MediaTyping == Spec => []TypeOK
<1>1. TypeInv => TypeOK
  BY DEF TypeInv
<1> QED
  BY <1>1, InitType, NextType, PTL DEF Spec

-----------------------------------------------------------------------------
(* Uploads.                                                                *)

\* The steps that are not of an upload.
OtherStep ==
  \/ \E h \in Handlers : ApplyStep(h) \/ \E t \in Tasks : CompleteTask(h, t)
  \/ \E t \in Tasks : WorkerStep(t) \/ StartThumbnails(t)
  \/ \E id \in 1 .. rows : SetDefaultThumbnail(id) \/ DeleteThumbnail(id)
  \/ \E h \in Handlers, t \in Tasks : ReprocessProbe(h, t) \/ ReprocessThumbnails(h, t)
  \/ \E h \in Handlers : EditVideo(h) \/ SetReady(h) \/ SaveRead(h)
  \/ Restart \/ Serve \/ StartTranscode

Steps ==
  \/ \E h \in Handlers : CompleteUpload(h) \/ UploadStep(h)
  \/ OtherStep \/ Crash \/ UNCHANGED vars

\* The steps in three groups.
LEMMA Grouped == [Next]_vars => Steps
BY DEF Next, Steps, OtherStep, HandlerStep, ServerStep, ClientStep

\* What the other steps do to handlers.
LEMMA OtherHandlers ==
  ASSUME TypeInv, OtherStep
  PROVE  \A g \in Handlers : \/ handler'[g] = handler[g]
                             \/ handler'[g].pc \in {"idle", "p_read", "rows"}
                             \/ handler'[g].pc \in {"p_save", "e_save"} /\ handler'[g].row.orig = row.orig
<1>1. ASSUME NEW h \in Handlers, ApplyStep(h)
      PROVE  \A g \in Handlers : \/ handler'[g] = handler[g]
                                 \/ handler'[g].pc \in {"idle", "p_read", "rows"}
                                 \/ handler'[g].pc \in {"p_save", "e_save"} /\ handler'[g].row.orig = row.orig
  <2>1. CASE ReadRow(h)
    BY <2>1, ReadEffect
  <2>2. CASE SaveRow(h)
    BY <2>2, Types, MoveType DEF SaveRow
  <2>3. CASE CreateThumbnail(h)
    BY <2>3, ThumbType
  <2> QED
    BY <1>1, <2>1, <2>2, <2>3 DEF ApplyStep
<1>2. ASSUME NEW h \in Handlers, NEW t \in Tasks, Apply(h, t)
      PROVE  \A g \in Handlers : handler'[g] = handler[g] \/ handler'[g].pc \in {"p_read", "rows"}
  BY <1>2, Types, ApplyType
<1>3. ASSUME NEW h \in Handlers, EditVideo(h) \/ SetReady(h) \/ SaveRead(h)
      PROVE  \A g \in Handlers : \/ handler'[g] = handler[g] \/ handler'[g].pc = "idle"
                                 \/ handler'[g].pc = "e_save" /\ handler'[g].row.orig = row.orig
  BY <1>3, EditEffect, WriteEffect
<1> QED
  BY <1>1, <1>2, <1>3
  DEF OtherStep, CompleteTask, WorkerStep, ExtractThumbnails, Probe, LoseReport, StartThumbnails,
      SetDefaultThumbnail, DeleteThumbnail, ReprocessProbe, ReprocessThumbnails, Restart, Serve, StartTranscode

\* They do not happen during an upload.
LEMMA Outside ==
  ASSUME TypeInv, UploadInv, OtherStep
  PROVE  /\ ~Uploading /\ ~Uploading' /\ UNCHANGED <<originals, uploads, interrupted, crashes>>
         /\ row' \in Row /\ row'.orig = row.orig
<1>1. ~Uploading
  <2> SUFFICES ASSUME NEW h \in Handlers, handler[h].pc \in UploadPcs PROVE FALSE
    BY DEF Uploading
  <2>1. /\ server = "up" /\ ~AllIdle /\ Uploading
        /\ \A t \in Tasks : tasks[t].state \notin {"queued", "worked"}
        /\ \A g \in Handlers : handler[g].pc \notin {"p_read", "p_save", "rows", "e_save"}
    BY DEF UploadInv, Alone, UnderWay, Uploading, UploadPcs, AllIdle, At
  <2> QED
    BY <2>1
    DEF OtherStep, ApplyStep, ReadRow, SaveRow, CreateThumbnail, CompleteTask, WorkerStep,
        ExtractThumbnails, Probe, LoseReport, StartThumbnails, MayRequest, SetDefaultThumbnail,
        DeleteThumbnail, Edit, ReprocessProbe, ReprocessThumbnails, NextResult, Restart, Serve,
        StartTranscode, EditVideo, SetReady, SaveRead, At
<1>2. ~Uploading'
  BY <1>1, OtherHandlers DEF Uploading, UploadPcs
<1>3. UNCHANGED <<originals, uploads, interrupted, crashes>>
  BY DEF OtherStep, ApplyStep, ReadRow, SaveRow, CreateThumbnail, CompleteTask, WorkerStep,
         ExtractThumbnails, Probe, LoseReport, StartThumbnails, SetDefaultThumbnail, DeleteThumbnail,
         ReprocessProbe, ReprocessThumbnails, Restart, Serve, StartTranscode, EditVideo,
         SetReady, ReadToSave, SaveRead, mediaVars, bounds
<1>4. row' \in Row /\ row'.orig = row.orig
  <2>1. ASSUME NEW h \in Handlers, SaveRow(h) PROVE row' \in Row /\ row'.orig = row.orig
    BY <2>1, Types DEF UploadInv, Kept, SaveRow, At, HandlerType
  <2>4. ASSUME NEW h \in Handlers, SaveRead(h) PROVE row' \in Row /\ row'.orig = row.orig
    BY <2>4, WriteEffect DEF UploadInv, Kept
  <2>2. CASE StartTranscode
    BY <2>2, Types DEF StartTranscode, Row, Statuses
  <2>3. CASE UNCHANGED row
    BY <2>3, Types
  <2> QED
    BY <2>1, <2>2, <2>3, <2>4
    DEF OtherStep, ApplyStep, EditVideo, SetReady, ReadToSave, ReadRow, CreateThumbnail, CompleteTask, WorkerStep,
        ExtractThumbnails, Probe, LoseReport, StartThumbnails, SetDefaultThumbnail, DeleteThumbnail,
        ReprocessProbe, ReprocessThumbnails, Restart, Serve, mediaVars
<1> QED
  BY <1>1, <1>2, <1>3, <1>4

\* Tasks and thumbnails they make are of the present original.
LEMMA OtherMade ==
  ASSUME TypeInv, UploadInv, OtherStep
  PROVE  /\ \A t \in Tasks : Made(t)'
         /\ \A th \in thumbs' : th.of <= row.orig
<1>0. row'.orig = row.orig /\ row \in Row /\ ~Uploading
  BY Types, Outside
<1>1. \A t \in Tasks : Made(t)'
  <2>1. ASSUME NEW t \in Tasks, NEW u \in Tasks, StartThumbnails(t) PROVE Made(u)'
    <3>1. /\ tasks'[t].of = row.orig /\ row.orig # 0
          /\ u # t => tasks'[u] = tasks[u]
      BY <2>1, Types, MoveTask DEF StartThumbnails
    <3> QED
      BY <1>0, <3>1 DEF UploadInv, Made, Row
  <2>2. ASSUME NEW t \in Tasks, NEW u \in Tasks, tasks'[t].of = tasks[t].of,
               tasks[t].state \in {"queued", "worked"}, \A v \in Tasks \ {t} : tasks'[v] = tasks[v]
        PROVE  Made(u)'
    BY <1>0, <2>2 DEF UploadInv, Made, Row
  <2>3. ASSUME NEW t \in Tasks, NEW u \in Tasks, WorkerStep(t) PROVE Made(u)'
    <3>1. CASE ExtractThumbnails(t)
      <4>1. tasks[t].state = "queued"
        BY <3>1 DEF ExtractThumbnails
      <4>2. tasks'[t].of = tasks[t].of /\ \A v \in Tasks \ {t} : tasks'[v] = tasks[v]
        BY <3>1, Types, MoveTask
      <4> QED
        BY <2>2, <4>1, <4>2
    <3>2. CASE Probe(t)
      <4>1. tasks[t].state = "queued"
        BY <3>2 DEF Probe
      <4>2. tasks'[t].of = tasks[t].of /\ \A v \in Tasks \ {t} : tasks'[v] = tasks[v]
        BY <3>2, Types, MoveTask DEF Probe, States
      <4> QED
        BY <2>2, <4>1, <4>2
    <3>3. CASE LoseReport(t)
      <4>1. tasks[t].state = "worked"
        BY <3>3 DEF LoseReport
      <4>2. tasks'[t].of = tasks[t].of /\ \A v \in Tasks \ {t} : tasks'[v] = tasks[v]
        BY <3>3, Types, MoveTask DEF LoseReport, States
      <4> QED
        BY <2>2, <4>1, <4>2
    <3> QED
      BY <2>3, <3>1, <3>2, <3>3 DEF WorkerStep
  <2>4. ASSUME NEW h \in Handlers, NEW t \in Tasks, NEW u \in Tasks, CompleteTask(h, t) PROVE Made(u)'
    <3>1. tasks[t].state = "worked"
      BY <2>4 DEF CompleteTask
    <3>2. tasks'[t].of = tasks[t].of /\ \A v \in Tasks \ {t} : tasks'[v] = tasks[v]
      BY <2>4, Types, MoveTask DEF CompleteTask, States
    <3> QED
      BY <2>2, <3>1, <3>2
  <2>5. ASSUME NEW u \in Tasks, UNCHANGED tasks PROVE Made(u)'
    BY <1>0, <2>5 DEF UploadInv, Made
  <2> QED
    BY <2>1, <2>3, <2>4, <2>5
    DEF OtherStep, ApplyStep, ReadRow, SaveRow, CreateThumbnail, SetDefaultThumbnail,
        DeleteThumbnail,
        ReprocessProbe, ReprocessThumbnails, Restart, Serve, StartTranscode, EditVideo, SetReady,
        ReadToSave, SaveRead, mediaVars
<1>2. \A th \in thumbs' : th.of <= row.orig
  <2>1. ASSUME NEW h \in Handlers, CreateThumbnail(h) PROVE \A th \in thumbs' : th.of <= row.orig
    <3>1. handler[h].task \in Tasks
      BY <2>1, Types DEF CreateThumbnail, About, At
    <3>2. \A th \in thumbs' : th \in thumbs \/ th.of = tasks[handler[h].task].of
      BY <2>1, ThumbType
    <3> QED
      BY <3>1, <3>2 DEF UploadInv, Made
  <2>2. ASSUME NEW id \in 1 .. rows, SetDefaultThumbnail(id) PROVE \A th \in thumbs' : th.of <= row.orig
    <3>1. \A th \in thumbs : [th EXCEPT !.default = th.id = id].of = th.of
      BY Types DEF Thumb
    <3> QED
      BY <2>2, <3>1 DEF SetDefaultThumbnail, UploadInv
  <2>3. CASE thumbs' \subseteq thumbs
    BY <2>3 DEF UploadInv
  <2> QED
    BY <2>1, <2>2, <2>3
    DEF OtherStep, ApplyStep, ReadRow, SaveRow, CompleteTask, WorkerStep, ExtractThumbnails,
        Probe,
        LoseReport, StartThumbnails, DeleteThumbnail, ReprocessProbe, ReprocessThumbnails, Restart,
        Serve, StartTranscode, EditVideo, SetReady, ReadToSave, SaveRead, mediaVars
<1> QED
  BY <1>1, <1>2

\* What the steps of an upload do.
LEMMA UploadSteps ==
  ASSUME TypeInv, UploadInv, NEW h \in Handlers, UploadStep(h)
  PROVE  /\ handler' \in [Handlers -> HandlerType] /\ \A g \in Handlers \ {h} : handler'[g] = handler[g]
         /\ \A g \in Handlers \ {h} : handler[g].pc = "idle"
         /\ server = "up" /\ UNCHANGED <<server, boot, uploads, rows, crashes, interrupted, overwritten>>
         /\ \A t \in Tasks : tasks[t].state \notin {"queued", "worked"}
         /\ \/ /\ handler[h].pc \in SavePcs /\ handler[h].row = row /\ row.orig < uploads
               /\ handler'[h].pc \in {"u_objects", "u_rows", "u_save"} /\ UNCHANGED <<row, tasks>>
               /\ handler'[h].row = handler[h].row
               /\ originals' \in {originals, originals \ {row.orig}} /\ uploads \in originals
               /\ thumbs' \subseteq thumbs
            \/ /\ handler[h].pc = "u_save" /\ handler'[h].pc = "u_probe" /\ row.orig < uploads
               /\ row'.orig = uploads /\ row'.meta = row.meta /\ row'.status = "uploaded"
               /\ uploads \in originals /\ UNCHANGED <<originals, thumbs, objects, tasks>>
            \/ /\ handler[h].pc = "u_probe" /\ handler'[h].pc = "idle" /\ row.orig # 0
               /\ UNCHANGED mediaVars
               /\ \E t \in Probes :
                    /\ tasks[t].state = "none" /\ tasks'[t].state = "queued" /\ tasks'[t].of = row.orig
                    /\ \A u \in Tasks \ {t} : tasks'[u] = tasks[u]
<1>1. handler[h].pc \in UploadPcs
  BY
  DEF UploadStep, DeleteOriginal, DeleteThumbnailObjects, DeleteThumbnailRows, SaveUpload,
      StartProbe,
         At, UploadPcs
<1>2. /\ \A g \in Handlers \ {h} : handler[g].pc = "idle"
      /\ server = "up" /\ \A t \in Tasks : tasks[t].state \notin {"queued", "worked"}
      /\ handler[h].pc \in SavePcs =>
           handler[h].row = row /\ row.orig < uploads /\ uploads \in originals
      /\ handler[h].pc = "u_probe" => row.orig # 0
  BY <1>1 DEF UploadInv, Alone, Kept, UnderWay
<1>3. UNCHANGED <<server, boot, uploads, rows, crashes, interrupted, overwritten>>
  BY
  DEF UploadStep, DeleteOriginal, DeleteThumbnailObjects, DeleteThumbnailRows, SaveUpload,
      StartProbe,
         bounds
<1>4. ASSUME NEW pc \in {"u_objects", "u_rows", "u_save", "u_probe"}, Goto(h, pc)
      PROVE  /\ handler' \in [Handlers -> HandlerType] /\ \A g \in Handlers \ {h} : handler'[g] = handler[g]
             /\ handler'[h].pc = pc /\ handler'[h].row = handler[h].row
  BY <1>4, Types, MoveType DEF Pcs, UploadPcs
<1>5. CASE DeleteOriginal(h)
  BY <1>2, <1>3, <1>4, <1>5 DEF DeleteOriginal, At, SavePcs
<1>6. CASE DeleteThumbnailObjects(h)
  BY <1>2, <1>3, <1>4, <1>6 DEF DeleteThumbnailObjects, At, SavePcs
<1>7. CASE DeleteThumbnailRows(h)
  BY <1>2, <1>3, <1>4, <1>7 DEF DeleteThumbnailRows, At, SavePcs
<1>8. CASE SaveUpload(h)
  <2>1. /\ handler[h].pc = "u_save" /\ handler[h].row = row /\ row.orig < uploads /\ uploads \in originals
        /\ row \in Row
    BY <1>2, <1>8, Types DEF SaveUpload, At, SavePcs
  <2>2. row' = [row EXCEPT !.status = "uploaded", !.orig = uploads]
    BY <1>8, <2>1 DEF SaveUpload
  <2>3. row'.orig = uploads /\ row'.meta = row.meta /\ row'.status = "uploaded"
    BY <2>1, <2>2 DEF Row
  <2> QED
    BY <1>2, <1>3, <1>4, <1>8, <2>1, <2>3 DEF SaveUpload
<1>9. ASSUME NEW t \in Probes, StartProbe(h, t)
      PROVE  /\ handler' \in [Handlers -> HandlerType] /\ \A g \in Handlers \ {h} : handler'[g] = handler[g]
             /\ handler[h].pc = "u_probe" /\ handler'[h].pc = "idle" /\ UNCHANGED mediaVars
             /\ tasks[t].state = "none" /\ tasks'[t].state = "queued" /\ tasks'[t].of = row.orig
             /\ \A u \in Tasks \ {t} : tasks'[u] = tasks[u]
  <2>1. t \in Tasks
    BY TaskAssumption
  <2> QED
    BY <1>9, <2>1, Types, MoveType, MoveTask DEF StartProbe, At
<1> QED
  BY <1>2, <1>3, <1>5, <1>6, <1>7, <1>8, <1>9 DEF UploadStep

\* Every step keeps what holds of uploads.
LEMMA NextUpload == TypeInv /\ TypeInv' /\ UploadInv /\ [Next]_vars => UploadInv'
<1> SUFFICES ASSUME TypeInv, TypeInv', UploadInv, [Next]_vars PROVE UploadInv'
  OBVIOUS
<1>0. /\ row \in Row /\ row' \in Row /\ uploads \in Nat /\ uploads' \in Nat
      /\ tasks' \in [Tasks -> Task] /\ thumbs' \in SUBSET Thumb
      /\ handler \in [Handlers -> HandlerType]
  BY DEF TypeInv, TypeOK, HandlerType, Pcs
<1>1. ASSUME NEW h \in Handlers, CompleteUpload(h) PROVE UploadInv'
  <2>1. /\ handler'[h].pc = "u_old" /\ handler'[h].row = row
        /\ \A g \in Handlers \ {h} : handler'[g] = handler[g]
    <3>1. handler' = [handler EXCEPT ![h].pc = "u_old", ![h].row = row] /\ "u_old" \in Pcs
      BY <1>1 DEF CompleteUpload, Pcs, UploadPcs
    <3> QED
      <4>1. PICK u \in HandlerType : u = handler[h]
        BY <1>0
      <4>2. PICK x : x = [u EXCEPT !.pc = "u_old", !.row = row]
        OBVIOUS
      <4>3. x.row = row /\ x.pc = "u_old"
        BY <4>1, <4>2 DEF HandlerType
      <4>4. handler' = [handler EXCEPT ![h] = x]
        BY <3>1, <4>1, <4>2
      <4> QED
        BY <1>0, <4>3, <4>4
  <2>2. /\ \A g \in Handlers : handler[g].pc = "idle"
        /\ \A t \in Tasks : tasks[t].state \notin {"queued", "worked"}
        /\ server = "up" /\ uploads' = uploads + 1 /\ originals' = originals \cup {uploads'}
        /\ UNCHANGED <<row, thumbs, tasks, server, interrupted>>
    BY <1>1 DEF CompleteUpload, MayUpload, AllIdle, At, UnderWay
  <2>3. \A g \in Handlers : Alone(g)'
    BY <2>1, <2>2 DEF Alone, UploadPcs, UnderWay
  <2>4. row.orig <= uploads /\ row.orig < uploads'
    BY <1>0, <2>2 DEF UploadInv, Row
  <2>5. \A g \in Handlers : Kept(g)'
    BY <2>1, <2>2, <2>4 DEF Kept, SavePcs
  <2>6. OriginalIsThere'
    BY <2>2 DEF UploadInv, OriginalIsThere, Deleting
  <2>7. \A t \in Tasks : Made(t)'
    BY <2>2 DEF UploadInv, Made
  <2> QED
    BY <1>0, <2>2, <2>3, <2>4, <2>5, <2>6, <2>7 DEF UploadInv, Row
<1>2. ASSUME NEW h \in Handlers, UploadStep(h) PROVE UploadInv'
  <2>0. /\ \A g \in Handlers \ {h} : handler'[g] = handler[g] /\ handler'[g].pc = "idle"
        /\ server' = "up" /\ UNCHANGED <<uploads, interrupted>>
        /\ \A t \in Tasks : tasks[t].state \notin {"queued", "worked"}
    BY <1>2, UploadSteps
  <2>1. ASSUME handler[h].pc \in SavePcs, handler[h].row = row, row.orig < uploads,
               handler'[h].pc \in {"u_objects", "u_rows", "u_save"}, UNCHANGED <<row, tasks>>,
               handler'[h].row = handler[h].row,
               originals' \in {originals, originals \ {row.orig}}, uploads \in originals,
               thumbs' \subseteq thumbs
        PROVE  UploadInv'
    <3>1. \A g \in Handlers : Alone(g)'
      BY <2>0, <2>1 DEF Alone, UploadPcs, UnderWay
    <3>2. \A g \in Handlers : Kept(g)'
      BY <1>0, <2>0, <2>1 DEF Kept, SavePcs, Row
    <3>3. OriginalIsThere'
      BY <2>1 DEF OriginalIsThere, Deleting
    <3> QED
      BY <2>0, <2>1, <3>1, <3>2, <3>3 DEF UploadInv, Made
  <2>2. ASSUME handler'[h].pc = "u_probe", row.orig < uploads, row'.orig = uploads,
               uploads \in originals, UNCHANGED <<originals, thumbs, tasks>>
        PROVE  UploadInv'
    <3>1. \A g \in Handlers : Alone(g)'
      BY <2>0, <2>2 DEF Alone, UploadPcs, UnderWay
    <3>2. \A g \in Handlers : Kept(g)'
      BY <1>0, <2>0, <2>2 DEF Kept, SavePcs, Row
    <3>3. \A t \in Tasks : Made(t)'
      BY <1>0, <2>0, <2>2 DEF UploadInv, Made, Row, Task
    <3>4. OriginalIsThere'
      BY <2>2 DEF OriginalIsThere
    <3>5. \A th \in thumbs' : th.of <= row'.orig
      BY <1>0, <2>2 DEF UploadInv, Row, Thumb
    <3> QED
      BY <1>0, <2>0, <2>2, <3>1, <3>2, <3>3, <3>4, <3>5 DEF UploadInv
  <2>3. ASSUME handler[h].pc = "u_probe", handler'[h].pc = "idle", row.orig # 0, UNCHANGED mediaVars,
               NEW t \in Probes, tasks'[t].of = row.orig, \A u \in Tasks \ {t} : tasks'[u] = tasks[u]
        PROVE  UploadInv'
    <3>1. \A g \in Handlers : Alone(g)' /\ Kept(g)'
      BY <2>0, <2>3 DEF Alone, Kept, SavePcs, UploadPcs
    <3>2. \A u \in Tasks : Made(u)'
      BY <1>0, <2>3 DEF UploadInv, Made, Row, mediaVars
    <3>3. OriginalIsThere'
      <4>1. ~Deleting
        BY <1>2, <2>3, UploadSteps DEF Deleting
      <4> QED
        BY <2>0, <2>3, <4>1 DEF UploadInv, OriginalIsThere, mediaVars
    <3> QED
      BY <2>0, <2>3, <3>1, <3>2, <3>3 DEF UploadInv, mediaVars
  <2> QED
    BY <1>2, <2>1, <2>2, <2>3, UploadSteps
<1>3. CASE OtherStep
  <2>1. /\ ~Uploading' /\ ~Uploading /\ UNCHANGED <<originals, uploads, interrupted>>
        /\ row'.orig = row.orig /\ (\A t \in Tasks : Made(t)')
        /\ \A th \in thumbs' : th.of <= row.orig
    BY <1>3, Outside, OtherMade
  <2>2. \A g \in Handlers : Alone(g)'
    BY <2>1 DEF Alone, Uploading
  <2>3. ASSUME NEW g \in Handlers PROVE Kept(g)'
    <3>1. handler'[g].pc \notin UploadPcs
      BY <2>1 DEF Uploading
    <3>2. handler'[g].pc \in {"p_save", "e_save"} => handler'[g].row.orig = row.orig
      BY <1>3, OtherHandlers DEF UploadInv, Kept
    <3> QED
      BY <2>1, <3>1, <3>2 DEF Kept, SavePcs, UploadPcs
  <2>4. OriginalIsThere'
    <3>1. ~Deleting
      BY <2>1 DEF Deleting, Uploading, UploadPcs
    <3> QED
      BY <2>1, <3>1 DEF UploadInv, OriginalIsThere
  <2>5. row.orig <= uploads
    BY DEF UploadInv
  <2>6. row'.orig <= uploads' /\ \A th \in thumbs' : th.of <= row'.orig
    BY <2>1, <2>5
  <2> QED
    BY <2>1, <2>2, <2>3, <2>4, <2>6 DEF UploadInv
<1>4. CASE Crash
  <2>1. /\ \A g \in Handlers : handler'[g].pc = "idle"
        /\ UNCHANGED <<mediaVars, tasks, uploads>> /\ interrupted' = (interrupted \/ Deleting)
    BY <1>4, IdleType DEF Crash
  <2>2. \A g \in Handlers : Alone(g)' /\ Kept(g)'
    BY <2>1 DEF Alone, Kept, UploadPcs, SavePcs
  <2>3. OriginalIsThere'
    BY <2>1 DEF UploadInv, OriginalIsThere, mediaVars
  <2>4. \A u \in Tasks : Made(u)'
    BY <2>1 DEF UploadInv, Made, mediaVars
  <2> QED
    BY <2>1, <2>2, <2>3, <2>4 DEF UploadInv, mediaVars
<1>5. CASE UNCHANGED vars
  BY <1>5
  DEF vars, mediaVars, bounds, UploadInv, Alone, Kept, Made, OriginalIsThere, Deleting, UnderWay
<1> QED
  BY <1>1, <1>2, <1>3, <1>4, <1>5, Grouped DEF Steps

\* No upload is under way at first.
LEMMA InitUpload == Init => UploadInv
<1> SUFFICES ASSUME Init PROVE UploadInv
  OBVIOUS
<1>1. /\ \A h \in Handlers : handler[h].pc = "idle"
      /\ \A t \in Tasks : tasks[t].state = "none" /\ tasks[t].of = 0
      /\ row.orig = 0 /\ thumbs = {} /\ uploads = 0
  BY IdleType DEF Init, Idle
<1> QED
  BY <1>1 DEF UploadInv, Alone, Kept, Made, OriginalIsThere, UploadPcs, SavePcs

\* Unless a crash cuts an upload off between the deletion of the old original
\* and the save of the row, the original that the row names is stored.
THEOREM OriginalStays == Spec => []OriginalIsThere
<1>1. Init => TypeInv /\ UploadInv
  BY InitType, InitUpload
<1>2. TypeInv /\ UploadInv /\ [Next]_vars => (TypeInv /\ UploadInv)'
  BY NextType, NextUpload
<1>3. UploadInv => OriginalIsThere
  BY DEF UploadInv
<1> QED
  BY <1>1, <1>2, <1>3, PTL DEF Spec

-----------------------------------------------------------------------------
(* Thumbnail objects.                                                      *)

\* A worker that extracts thumbnails replaces objects by those of its original.
LEMMA Extracted ==
  ASSUME TypeInv, UploadInv, HasObjects, NEW t \in Tasks, ExtractThumbnails(t)
  PROVE  HasObjects'
<1>1. PICK S \in SUBSET Indexes :
        /\ objects' = [i \in Indexes |-> IF i \in S THEN tasks[t].of ELSE objects[i]]
        /\ tasks' \in [Tasks -> Task] /\ tasks'[t].of = tasks[t].of /\ tasks'[t].result = S
        /\ \A u \in Tasks \ {t} : tasks'[u] = tasks[u]
  BY Types, MoveTask
<1>2. tasks[t].of # 0 /\ UNCHANGED <<thumbs, row>>
  BY DEF ExtractThumbnails, UploadInv, Made
<1>3. \A i \in Indexes : /\ i \in S => objects'[i] # 0
                         /\ objects[i] # 0 => objects'[i] # 0
  BY <1>1, <1>2
<1>4. \A th \in thumbs : th.index \in Indexes
  BY Types DEF Thumb
<1>5. \A u \in Tasks : tasks[u].result \subseteq Indexes
  BY Types DEF Task
<1> QED
  BY <1>1, <1>2, <1>3, <1>4, <1>5 DEF HasObjects

\* The other steps keep objects.
LEMMA ObjectsStay ==
  ASSUME TypeInv, UploadInv, HasObjects, OtherStep
  PROVE  HasObjects'
<1>0. row'.orig = row.orig
  BY Outside
<1>1. ASSUME UNCHANGED <<objects, thumbs>>, NEW t \in Tasks, tasks'[t].of = tasks[t].of,
             tasks'[t].result = tasks[t].result,
             tasks'[t].state \in {"worked", "completed"} => tasks[t].state = "worked" \/ t \in Probes,
             \A u \in Tasks \ {t} : tasks'[u] = tasks[u]
      PROVE  HasObjects'
  BY <1>0, <1>1 DEF HasObjects
<1>2. ASSUME UNCHANGED <<objects, tasks>>,
             \A th \in thumbs' : th.of = row.orig => objects[th.index] # 0
      PROVE  HasObjects'
  BY <1>0, <1>2 DEF HasObjects
<1>3. ASSUME NEW t \in Tasks, StartThumbnails(t) PROVE HasObjects'
  <2>1. /\ UNCHANGED <<objects, thumbs>> /\ tasks'[t].state = "queued"
        /\ \A u \in Tasks \ {t} : tasks'[u] = tasks[u]
    BY <1>3, Types, MoveTask DEF StartThumbnails, mediaVars
  <2> QED
    BY <1>0, <2>1 DEF HasObjects
<1>4. ASSUME NEW t \in Tasks, WorkerStep(t) PROVE HasObjects'
  <2>1. CASE Probe(t)
    <3>1. /\ t \in Probes /\ tasks'[t].of = tasks[t].of /\ tasks'[t].result = tasks[t].result
          /\ \A u \in Tasks \ {t} : tasks'[u] = tasks[u]
      BY <2>1, Types, MoveTask DEF Probe, States
    <3> QED
      BY <1>1, <2>1, <3>1 DEF Probe, mediaVars
  <2>2. CASE LoseReport(t)
    <3>1. /\ tasks[t].state = "worked" /\ tasks'[t].of = tasks[t].of /\ tasks'[t].result = tasks[t].result
          /\ \A u \in Tasks \ {t} : tasks'[u] = tasks[u]
      BY <2>2, Types, MoveTask DEF LoseReport, States
    <3> QED
      BY <1>1, <2>2, <3>1 DEF LoseReport, mediaVars
  <2> QED
    BY <1>4, <2>1, <2>2, Extracted DEF WorkerStep
<1>5. ASSUME NEW h \in Handlers, NEW t \in Tasks, CompleteTask(h, t) PROVE HasObjects'
  <2>1. /\ tasks[t].state = "worked" /\ tasks'[t].of = tasks[t].of /\ tasks'[t].result = tasks[t].result
        /\ \A u \in Tasks \ {t} : tasks'[u] = tasks[u]
    BY <1>5, Types, MoveTask DEF CompleteTask, States
  <2> QED
    BY <1>1, <1>5, <2>1 DEF CompleteTask, mediaVars
<1>6. ASSUME NEW h \in Handlers, CreateThumbnail(h) PROVE HasObjects'
  <2>1. /\ handler[h].task \in Tasks \ Probes /\ tasks[handler[h].task].state = "completed"
        /\ handler[h].todo \subseteq tasks[handler[h].task].result
    BY <1>6, Types DEF CreateThumbnail, About, At
  <2>2. \A th \in thumbs' : \/ th \in thumbs
                            \/ th.of = tasks[handler[h].task].of /\ th.index \in handler[h].todo
    BY <1>6, ThumbType
  <2>3. \A th \in thumbs' : th.of = row.orig => objects[th.index] # 0
    <3>1. PICK t \in Tasks \ Probes : t = handler[h].task
      BY <2>1
    <3>2. tasks[t].of = row.orig => \A i \in handler[h].todo : objects[i] # 0
      BY <2>1, <3>1 DEF HasObjects
    <3>3. ASSUME NEW th \in thumbs', th.of = row.orig PROVE objects[th.index] # 0
      <4>1. CASE th \in thumbs
        BY <3>3, <4>1 DEF HasObjects
      <4>2. CASE th.of = tasks[t].of /\ th.index \in handler[h].todo
        BY <3>2, <3>3, <4>2
      <4> QED
        BY <2>2, <3>1, <4>1, <4>2
    <3> QED
      BY <3>3
  <2> QED
    BY <1>2, <1>6, <2>3 DEF CreateThumbnail
<1>7. ASSUME NEW id \in 1 .. rows, SetDefaultThumbnail(id) PROVE HasObjects'
  <2>1. \A th \in thumbs : /\ [th EXCEPT !.default = th.id = id].of = th.of
                           /\ [th EXCEPT !.default = th.id = id].index = th.index
    BY Types DEF Thumb
  <2>2. \A th \in thumbs' : th.of = row.orig => objects[th.index] # 0
    <3>1. \A th \in thumbs' : \E old \in thumbs : th.of = old.of /\ th.index = old.index
      BY <1>7, <2>1 DEF SetDefaultThumbnail
    <3> QED
      BY <3>1 DEF HasObjects
  <2> QED
    BY <1>2, <1>7, <2>2 DEF SetDefaultThumbnail
<1>8. ASSUME NEW id \in 1 .. rows, DeleteThumbnail(id) PROVE HasObjects'
  BY <1>2, <1>8 DEF DeleteThumbnail, HasObjects
<1>9. CASE UNCHANGED <<objects, tasks, thumbs>>
  BY <1>2, <1>9 DEF HasObjects
<1> QED
  BY <1>3, <1>4, <1>5, <1>6, <1>7, <1>8, <1>9
  DEF OtherStep, ApplyStep, ReadRow, SaveRow, ReprocessProbe, ReprocessThumbnails, Restart, Serve,
      StartTranscode, EditVideo, SetReady, ReadToSave, SaveRead, mediaVars

\* An upload deletes objects before it gives the row an original that nothing
\* has been made of yet.
LEMMA NextObjects == TypeInv /\ UploadInv /\ ObjectInv /\ [Next]_vars => ObjectInv'
<1> SUFFICES ASSUME TypeInv, UploadInv, ObjectInv, [Next]_vars PROVE ObjectInv'
  OBVIOUS
<1>1. ASSUME NEW h \in Handlers, CompleteUpload(h) PROVE ObjectInv'
  <2>1. UNCHANGED <<row, thumbs, objects, tasks, interrupted>> /\ ~Deleting
    BY <1>1 DEF CompleteUpload, MayUpload, AllIdle, At, Deleting
  <2> QED
    BY <2>1 DEF ObjectInv, HasObjects
<1>2. ASSUME NEW h \in Handlers, UploadStep(h) PROVE ObjectInv'
  <2>1. CASE handler'[h].pc \in {"u_objects", "u_rows", "u_save"}
    BY <2>1 DEF ObjectInv, Deleting
  <2>2. CASE row'.orig = uploads /\ row.orig < uploads /\ UNCHANGED <<thumbs, tasks>>
    <3>1. /\ \A th \in thumbs' : th.of # row'.orig
          /\ \A t \in Tasks : tasks'[t].of # row'.orig
      <4>1. \A th \in thumbs : th.of <= row.orig /\ th.of \in Nat
        BY Types DEF UploadInv, Thumb
      <4>2. \A t \in Tasks : tasks[t].of <= row.orig /\ tasks[t].of \in Nat
        BY Types DEF UploadInv, Made, Task
      <4>3. row.orig \in Nat /\ uploads \in Nat
        BY Types DEF Row
      <4> QED
        BY <2>2, <4>1, <4>2, <4>3
    <3> QED
      BY <3>1 DEF ObjectInv, HasObjects
  <2>3. ASSUME handler[h].pc = "u_probe", UNCHANGED mediaVars,
               NEW t \in Probes, \A u \in Tasks \ {t} : tasks'[u] = tasks[u]
        PROVE  ObjectInv'
    <3>1. ~Deleting /\ UNCHANGED interrupted
      BY <1>2, <2>3, UploadSteps DEF Deleting
    <3> QED
      BY <2>3, <3>1 DEF ObjectInv, HasObjects, mediaVars
  <2> QED
    BY <1>2, <2>1, <2>2, <2>3, UploadSteps
<1>3. CASE OtherStep
  <2>1. UNCHANGED interrupted /\ ~Deleting
    BY <1>3, Outside DEF Uploading, Deleting, UploadPcs
  <2> QED
    BY <1>3, <2>1, ObjectsStay DEF ObjectInv
<1>4. CASE Crash
  BY <1>4 DEF Crash, ObjectInv, HasObjects, mediaVars
<1>5. CASE UNCHANGED vars
  BY <1>5 DEF vars, mediaVars, ObjectInv, HasObjects, Deleting
<1> QED
  BY <1>1, <1>2, <1>3, <1>4, <1>5, Grouped DEF Steps

\* A thumbnail of the present original has its object, although the objects of
\* all thumbnail tasks have the same names.
THEOREM ThumbnailShows == Spec => []ThumbnailHasObject
<1>1. Init => TypeInv /\ UploadInv /\ ObjectInv
  <2>1. Init => HasObjects
    BY DEF Init, HasObjects
  <2> QED
    BY <2>1, InitType, InitUpload DEF ObjectInv
<1>2. TypeInv /\ UploadInv /\ ObjectInv /\ [Next]_vars => (TypeInv /\ UploadInv /\ ObjectInv)'
  BY NextType, NextUpload, NextObjects
<1>3. ObjectInv => ThumbnailHasObject
  BY DEF ObjectInv, HasObjects, ThumbnailHasObject
<1> QED
  BY <1>1, <1>2, <1>3, PTL DEF Spec

-----------------------------------------------------------------------------
(* Metadata.                                                               *)

\* Nothing changes for metadata when handlers about probes, the row's metadata
\* and completed probes stay.
LEMMA MetaStays ==
  ASSUME MetaInv, row'.meta = row.meta, row'.orig = row.orig, row.meta # 0 => row'.status # "draft",
         UNCHANGED <<crashes, server, overwritten>>,
         \A g \in Handlers : \/ handler'[g] = handler[g]
                             \/ handler'[g].pc \notin {"p_read", "p_save", "e_save"}
                                /\ handler[g].pc \notin {"p_read", "p_save"},
         \A g \in Handlers : handler[g].pc \in {"p_read", "p_save"} =>
           tasks'[handler[g].task].of = tasks[handler[g].task].of,
         \A t \in Probes : tasks'[t].state = "completed" =>
           /\ tasks[t].state = "completed" /\ tasks'[t].of = tasks[t].of
           /\ server = "starting" /\ t \in boot => t \in boot'
  PROVE  MetaInv'
<1>1. ASSUME NEW g \in Handlers PROVE Saves(g)'
  <2>1. CASE handler'[g] = handler[g]
    <3>1. PICK x : x = handler[g] /\ x = handler'[g]
      BY <2>1
    <3>2. x.pc \in {"p_read", "p_save"} => tasks'[x.task].of = tasks[x.task].of
      BY <3>1
    <3> QED
      BY <3>1, <3>2 DEF MetaInv, Saves
  <2>2. CASE handler'[g].pc \notin {"p_read", "p_save", "e_save"}
    BY <2>2 DEF Saves
  <2> QED
    BY <2>1, <2>2
<1>2. Probed => Probed'
  BY DEF Probed
<1>3. \A t \in Probes : Applied(t)'
  BY <1>2 DEF MetaInv, Applied
<1> QED
  BY <1>1, <1>3 DEF MetaInv

\* A task that is not a completed one may move.
LEMMA MetaMoves ==
  ASSUME TypeInv, MetaInv, NEW t \in Tasks, UNCHANGED <<row, crashes, server, boot, overwritten>>,
         tasks[t].state # "completed", \A u \in Tasks \ {t} : tasks'[u] = tasks[u],
         t \in Probes => tasks'[t].state # "completed",
         \A g \in Handlers : \/ handler'[g] = handler[g]
                             \/ handler'[g].pc \notin {"p_read", "p_save", "e_save"}
                                /\ handler[g].pc \notin {"p_read", "p_save"}
  PROVE  MetaInv'
<1>1. \A g \in Handlers : handler[g].pc \in {"p_read", "p_save"} =>
        handler[g].task \in Tasks \ {t}
  BY Types DEF About
<1>2. \A g \in Handlers : handler[g].pc \in {"p_read", "p_save"} =>
        tasks'[handler[g].task].of = tasks[handler[g].task].of
  BY <1>1
<1>3. \A u \in Probes : tasks'[u].state = "completed" =>
        tasks[u].state = "completed" /\ tasks'[u].of = tasks[u].of
  BY TaskAssumption
<1>4. row.meta # 0 => row.status # "draft"
  BY DEF MetaInv
<1> QED
  BY <1>2, <1>3, <1>4, MetaStays

\* A handler sets out to apply a result.
LEMMA MetaApplies ==
  ASSUME TypeInv, MetaInv, NEW h \in Handlers, NEW t \in Tasks, Apply(h, t), handler[h].pc = "idle",
         UNCHANGED <<row, crashes, server, overwritten>>, \A u \in Tasks : tasks'[u].of = tasks[u].of,
         \A u \in Tasks \ {t} : tasks'[u] = tasks[u],
         \A u \in Probes \ {t} : u \in boot => u \in boot',
         crashes = 0 /\ t \in Probes => tasks[t].of = row.orig
  PROVE  MetaInv'
<1>1. /\ \/ t \in Probes /\ handler'[h].pc = "p_read" /\ handler'[h].task = t
         \/ t \notin Probes /\ handler'[h].pc = "rows"
      /\ \A g \in Handlers \ {h} : handler'[g] = handler[g]
  BY Types, ApplyType
<1>2. \A g \in Handlers : handler[g].pc \in {"p_read", "p_save"} => handler[g].task \in Tasks
  BY Types DEF About
<1>3. \A g \in Handlers \ {h} : Saves(g)'
  <2> SUFFICES ASSUME NEW g \in Handlers \ {h} PROVE Saves(g)'
    OBVIOUS
  <2>1. PICK x : x = handler[g] /\ x = handler'[g]
    BY <1>1
  <2>2. x.pc \in {"p_read", "p_save"} => tasks'[x.task].of = tasks[x.task].of
    BY <1>2, <2>1
  <2> QED
    BY <2>1, <2>2 DEF MetaInv, Saves
<1>4. Saves(h)'
  BY <1>1 DEF Saves
<1>5. Probed => Probed'
  BY <1>1 DEF Probed
<1>6. t \in Probes => Probed'
  BY <1>1 DEF Probed
<1>7. \A u \in Probes : Applied(u)'
  <2>1. ASSUME NEW u \in Probes \ {t} PROVE Applied(u)'
    <3>1. tasks'[u] = tasks[u]
      BY TaskAssumption
    <3> QED
      BY <1>5, <2>1, <3>1 DEF MetaInv, Applied
  <2>2. t \in Probes => Applied(t)'
    BY <1>6 DEF Applied
  <2> QED
    BY <2>1, <2>2
<1> QED
  BY <1>3, <1>4, <1>7 DEF MetaInv

\* The handler that has read the row saves it.
LEMMA MetaSaved ==
  ASSUME TypeInv, UploadInv, MetaInv, NEW h \in Handlers, SaveRow(h)
  PROVE  MetaInv'
<1>1. /\ handler[h].pc = "p_save" /\ row' = handler[h].row /\ UNCHANGED <<tasks, server, crashes>>
      /\ handler'[h].pc = "idle" /\ \A g \in Handlers \ {h} : handler'[g] = handler[g]
  BY Types, MoveType DEF SaveRow, At, bounds
<1>2. row'.orig = row.orig /\ row'.meta # 0 /\ row'.status # "draft" /\ (crashes = 0 => row'.meta = row.orig)
  BY <1>1 DEF UploadInv, Kept, MetaInv, Saves
<1>3. \A g \in Handlers : Saves(g)'
  BY <1>1, <1>2 DEF MetaInv, Saves
<1>4. \A t \in Probes : Applied(t)'
  BY <1>1, <1>2 DEF Applied
<1> QED
  BY <1>1, <1>2, <1>3, <1>4 DEF MetaInv

\* A handler reads the row.
LEMMA MetaRead ==
  ASSUME TypeInv, UploadInv, MetaInv, NEW h \in Handlers, ReadRow(h)
  PROVE  MetaInv'
<1>1. /\ handler[h].pc = "p_read" /\ UNCHANGED <<row, tasks, server, boot, crashes>>
      /\ handler[h].task \in Tasks /\ tasks[handler[h].task].state = "completed"
  BY Types DEF ReadRow, At, mediaVars, bounds, About
<1>2. /\ handler'[h].pc = "p_save" /\ handler'[h].task = handler[h].task
      /\ handler'[h].row.meta = tasks[handler[h].task].of /\ handler'[h].row.status # "draft"
      /\ \A g \in Handlers \ {h} : handler'[g] = handler[g]
  BY ReadEffect
<1>3. tasks[handler[h].task].of # 0
  BY <1>1 DEF UploadInv, Made
<1>4. crashes = 0 => tasks[handler[h].task].of = row.orig
  BY <1>1 DEF MetaInv, Saves
<1>5. Saves(h)'
  BY <1>1, <1>2, <1>3, <1>4 DEF Saves
<1>6. \A g \in Handlers \ {h} : Saves(g)'
  BY <1>1, <1>2 DEF MetaInv, Saves
<1>7. Probed' /\ Probed
  BY <1>1, <1>2 DEF Probed
<1>8. \A t \in Probes : Applied(t)'
  BY <1>7 DEF Applied
<1> QED
  BY <1>1, <1>5, <1>6, <1>8 DEF MetaInv

\* A handler reads the row to save it later.
LEMMA MetaTaken ==
  ASSUME TypeInv, MetaInv, NEW h \in Handlers, EditVideo(h) \/ SetReady(h)
  PROVE  MetaInv'
<1>1. /\ handler[h].pc = "idle" /\ server = "up" /\ UNCHANGED <<row, tasks, server, crashes, overwritten>>
      /\ handler'[h].pc = "e_save" /\ \A g \in Handlers \ {h} : handler'[g] = handler[g]
      /\ handler'[h].row.meta = row.meta /\ handler'[h].row.status \in {row.status, "ready"}
  BY EditEffect DEF At, MayRequest, mediaVars
<1>2. Saves(h)'
  BY <1>1 DEF MetaInv, Saves
<1>3. \A g \in Handlers \ {h} : Saves(g)'
  BY <1>1 DEF MetaInv, Saves
<1>4. Probed => Probed'
  BY <1>1 DEF Probed
<1>5. \A t \in Probes : Applied(t)'
  BY <1>1, <1>4 DEF MetaInv, Applied
<1> QED
  BY <1>1, <1>2, <1>3, <1>5 DEF MetaInv

\* It is saved; other metadata than the row's are noted.
LEMMA MetaWritten ==
  ASSUME TypeInv, UploadInv, MetaInv, NEW h \in Handlers, SaveRead(h)
  PROVE  MetaInv'
<1>1. /\ handler[h].pc = "e_save" /\ row' = handler[h].row /\ UNCHANGED <<tasks, server, crashes>>
      /\ handler'[h].pc = "idle" /\ \A g \in Handlers \ {h} : handler'[g] = handler[g]
      /\ overwritten' = (overwritten \/ row'.meta # row.meta)
  BY WriteEffect DEF bounds
<1>2. row'.orig = row.orig /\ server = "up" /\ (row'.meta # 0 => row'.status # "draft")
  BY <1>1 DEF UploadInv, Kept, MetaInv, Saves
<1>3. \A g \in Handlers : Saves(g)'
  BY <1>1, <1>2 DEF MetaInv, Saves
<1>4. Probed => Probed'
  BY <1>1 DEF Probed
<1>5. row'.meta = row.meta \/ overwritten'
  BY <1>1
<1>6. overwritten => overwritten'
  BY <1>1
<1>7. \A t \in Probes : Applied(t)'
  BY <1>1, <1>2, <1>4, <1>5, <1>6 DEF MetaInv, Applied
<1> QED
  BY <1>1, <1>2, <1>3, <1>7 DEF MetaInv

\* Every step keeps what holds of metadata.
LEMMA NextMeta == TypeInv /\ UploadInv /\ MetaInv /\ [Next]_vars => MetaInv'
<1> SUFFICES ASSUME TypeInv, UploadInv, MetaInv, [Next]_vars PROVE MetaInv'
  OBVIOUS
<1>0. row \in Row /\ crashes \in Nat /\ uploads \in Nat /\ Probes \subseteq Tasks
  BY Types
<1>1. row.meta # 0 => row.status # "draft"
  BY DEF MetaInv
\* Steps that leave tasks, the server and handlers about probes alone.
<1>2. ASSUME UNCHANGED <<tasks, server, boot, crashes, overwritten>>, row'.meta = row.meta, row'.orig = row.orig,
             row.meta # 0 => row'.status # "draft",
             \A g \in Handlers : \/ handler'[g] = handler[g]
                                 \/ handler'[g].pc \notin {"p_read", "p_save", "e_save"}
                                    /\ handler[g].pc \notin {"p_read", "p_save"}
      PROVE  MetaInv'
  BY <1>2, MetaStays
<1>3. ASSUME NEW h \in Handlers, CompleteUpload(h) PROVE MetaInv'
  <2>1. /\ handler' \in [Handlers -> HandlerType] /\ handler'[h].pc = "u_old"
        /\ \A g \in Handlers \ {h} : handler'[g] = handler[g]
    <3>1. handler' = [handler EXCEPT ![h].pc = "u_old", ![h].row = row] /\ "u_old" \in Pcs
      BY <1>3 DEF CompleteUpload, Pcs, UploadPcs
    <3> QED
      BY <3>1, Types, ReadType
  <2>2. handler[h].pc = "idle" /\ UNCHANGED <<row, tasks, server, boot, crashes, overwritten>>
    BY <1>3 DEF CompleteUpload, At
  <2> QED
    BY <1>1, <1>2, <2>1, <2>2
<1>4. ASSUME NEW h \in Handlers, UploadStep(h) PROVE MetaInv'
  <2>1. /\ \A g \in Handlers \ {h} : handler'[g] = handler[g] /\ handler[g].pc = "idle"
        /\ server = "up" /\ UNCHANGED <<server, boot, crashes, overwritten>>
    BY <1>4, UploadSteps
  <2>2. CASE /\ handler[h].pc \in SavePcs /\ UNCHANGED <<row, tasks>>
             /\ handler'[h].pc \in {"u_objects", "u_rows", "u_save"}
    BY <1>1, <1>2, <2>1, <2>2 DEF SavePcs
  <2>3. CASE /\ handler[h].pc = "u_save" /\ handler'[h].pc = "u_probe" /\ row.orig < uploads
             /\ row'.orig = uploads /\ row'.meta = row.meta /\ row'.status = "uploaded" /\ UNCHANGED tasks
    <3>1. \A g \in Handlers : handler'[g].pc \notin {"p_read", "p_save", "e_save"}
      BY <2>1, <2>3
    <3>2. \A g \in Handlers : Saves(g)'
      BY <3>1 DEF Saves
    <3>3. ~Probed
      BY <2>1, <2>3 DEF Probed
    <3>4. \A t \in Tasks : tasks[t].of # row'.orig
      <4>1. \A t \in Tasks : tasks[t].of <= row.orig /\ tasks[t].of \in Nat
        BY Types DEF UploadInv, Made, Task
      <4>2. row.orig \in Nat
        BY <1>0 DEF Row
      <4> QED
        BY <1>0, <2>3, <4>1, <4>2
    <3>5. \A t \in Probes : Applied(t)'
      BY <1>0, <2>1, <2>3, <3>3, <3>4 DEF MetaInv, Applied
    <3> QED
      BY <2>1, <2>3, <3>2, <3>5 DEF MetaInv
  <2>4. ASSUME handler[h].pc = "u_probe", handler'[h].pc = "idle", UNCHANGED mediaVars,
               NEW t \in Probes, tasks[t].state = "none", tasks'[t].state = "queued",
               \A u \in Tasks \ {t} : tasks'[u] = tasks[u]
        PROVE  MetaInv'
    <3>1. t \in Tasks /\ UNCHANGED row
      BY <1>0, <2>4 DEF mediaVars
    <3> QED
      BY <2>1, <2>4, <3>1, MetaMoves
  <2> QED
    BY <1>4, <2>2, <2>3, <2>4, UploadSteps
<1>5. ASSUME NEW t \in Tasks, StartThumbnails(t) PROVE MetaInv'
  <2>1. /\ tasks[t].state = "none" /\ tasks'[t].state = "queued"
        /\ \A u \in Tasks \ {t} : tasks'[u] = tasks[u]
        /\ UNCHANGED <<row, crashes, server, boot, handler, overwritten>>
    BY <1>5, Types, MoveTask DEF StartThumbnails, mediaVars, bounds
  <2> QED
    BY <2>1, MetaMoves
<1>6. ASSUME NEW t \in Tasks, WorkerStep(t) PROVE MetaInv'
  <2>1. UNCHANGED <<row, crashes, server, boot, handler, overwritten>>
    BY <1>6 DEF WorkerStep, ExtractThumbnails, Probe, LoseReport, mediaVars, bounds
  <2>2. /\ tasks[t].state # "completed" /\ tasks'[t].state # "completed"
        /\ \A u \in Tasks \ {t} : tasks'[u] = tasks[u]
    <3>1. CASE ExtractThumbnails(t)
      <4>1. tasks[t].state = "queued"
        BY <3>1 DEF ExtractThumbnails
      <4>2. tasks'[t].state = "worked" /\ \A v \in Tasks \ {t} : tasks'[v] = tasks[v]
        BY <3>1, Types, MoveTask
      <4> QED
        BY <4>1, <4>2
    <3>2. CASE Probe(t)
      BY <3>2, Types, MoveTask DEF Probe, States
    <3>3. CASE LoseReport(t)
      BY <3>3, Types, MoveTask DEF LoseReport, States
    <3> QED
      BY <1>6, <3>1, <3>2, <3>3 DEF WorkerStep
  <2> QED
    BY <2>1, <2>2, MetaMoves
<1>7. ASSUME NEW h \in Handlers, NEW t \in Tasks, CompleteTask(h, t) PROVE MetaInv'
  <2>1. /\ tasks[t].state = "worked" /\ handler[h].pc = "idle" /\ Apply(h, t)
        /\ UNCHANGED <<row, crashes, server, boot, overwritten>>
    BY <1>7 DEF CompleteTask, At, mediaVars, bounds
  <2>2. tasks'[t].of = tasks[t].of /\ \A u \in Tasks \ {t} : tasks'[u] = tasks[u]
    BY <1>7, Types, MoveTask DEF CompleteTask, States
  <2>3. tasks[t].of = row.orig
    BY <2>1 DEF UploadInv, Made
  <2> QED
    BY <2>1, <2>2, <2>3, MetaApplies
<1>8. ASSUME NEW h \in Handlers, CreateThumbnail(h) PROVE MetaInv'
  <2>1. /\ UNCHANGED <<row, tasks, server, boot, crashes, overwritten>> /\ handler[h].pc = "rows"
    BY <1>8 DEF CreateThumbnail, At
  <2>2. /\ handler'[h].pc \in {"idle", "rows"} /\ \A g \in Handlers \ {h} : handler'[g] = handler[g]
    BY <1>8, ThumbType
  <2> QED
    BY <1>1, <1>2, <2>1, <2>2
<1>9. ASSUME NEW id \in 1 .. rows, SetDefaultThumbnail(id) \/ DeleteThumbnail(id) PROVE MetaInv'
  <2>1. UNCHANGED <<row, tasks, server, boot, handler, crashes, overwritten>>
    BY <1>9 DEF SetDefaultThumbnail, DeleteThumbnail
  <2> QED
    BY <1>1, <1>2, <2>1
<1>10. CASE StartTranscode
  <2>1. row'.meta = row.meta /\ row'.orig = row.orig /\ row'.status # "draft"
    BY <1>0, <1>10 DEF StartTranscode, Row
  <2> QED
    BY <1>2, <1>10, <2>1 DEF StartTranscode, bounds
<1>11. CASE Crash
  <2>1. /\ \A g \in Handlers : handler'[g].pc = "idle"
        /\ UNCHANGED <<row, tasks>> /\ server' = "down" /\ crashes' # 0
    BY <1>0, <1>11, IdleType DEF Crash, mediaVars
  <2>2. \A g \in Handlers : Saves(g)'
    BY <2>1 DEF Saves
  <2>3. \A t \in Probes : Applied(t)'
    BY <2>1 DEF Applied
  <2> QED
    BY <1>1, <2>1, <2>2, <2>3 DEF MetaInv
<1>12. CASE Restart \/ Serve
  <2>1. UNCHANGED <<row, tasks, handler, crashes>> /\ crashes # 0 /\ server # "up"
    BY <1>12 DEF Restart, Serve, mediaVars, bounds, MetaInv
  <2>4. \A g \in Handlers : handler[g].pc # "e_save"
    BY <2>1 DEF MetaInv, Saves
  <2>2. \A g \in Handlers : Saves(g)'
    BY <2>1, <2>4 DEF MetaInv, Saves
  <2>3. \A t \in Probes : Applied(t)'
    <3>1. CASE Restart
      BY <1>0, <2>1, <3>1 DEF Restart, Applied
    <3>2. CASE Serve
      <4>1. server = "starting" /\ boot = {} /\ ~Probed
        BY <3>2 DEF Serve, AllIdle, At, Probed
      <4> QED
        BY <2>1, <4>1 DEF MetaInv, Applied
    <3> QED
      BY <1>12, <3>1, <3>2
  <2> QED
    BY <1>1, <2>1, <2>2, <2>3 DEF MetaInv
<1>13. ASSUME NEW h \in Handlers, NEW t \in Tasks, ReprocessProbe(h, t) \/ ReprocessThumbnails(h, t)
       PROVE  MetaInv'
  <2>1. /\ UNCHANGED <<row, tasks, server, crashes, overwritten>> /\ server = "starting" /\ crashes # 0
        /\ \A g \in Handlers : handler[g].pc = "idle"
        /\ boot' = boot \ {t}
        /\ Apply(h, t) \/ (UNCHANGED handler /\ (t \in Probes => row.meta # 0))
    BY <1>13
    DEF ReprocessProbe, ReprocessThumbnails, NextResult, AllIdle, At, mediaVars, bounds, MetaInv
  <2>2. CASE Apply(h, t)
    BY <1>0, <2>1, <2>2, MetaApplies
  <2>3. CASE UNCHANGED handler /\ (t \in Probes => row.meta # 0)
    <3>1. \A g \in Handlers : Saves(g)'
      BY <2>1, <2>3 DEF Saves
    <3>2. ~Probed
      BY <2>1 DEF Probed
    <3>3. \A u \in Probes : Applied(u)'
      BY <2>1, <2>3, <3>2 DEF MetaInv, Applied
    <3> QED
      BY <1>1, <2>1, <3>1, <3>3 DEF MetaInv
  <2> QED
    BY <2>1, <2>2, <2>3
<1>14. CASE UNCHANGED vars
  BY <1>1, <1>2, <1>14 DEF vars, mediaVars, bounds
<1> QED
  BY <1>3, <1>4, <1>5, <1>6, <1>7, <1>8, <1>9, <1>10, <1>11, <1>12, <1>13, <1>14, MetaRead,
     MetaSaved, MetaTaken, MetaWritten
  DEF Next, HandlerStep, ApplyStep, ServerStep, ClientStep

\* The results of completed probes are applied wherever the server stops; while
\* it never stops, the row's metadata are those of its original: unless a row
\* read before them is written back, and then until the server's next start.
THEOREM ProbesApplied == Spec => []MetadataApplied
<1>1. Init => TypeInv /\ UploadInv /\ MetaInv
  <2> SUFFICES ASSUME Init PROVE MetaInv
    BY InitType, InitUpload
  <2>1. /\ server = "up" /\ row.meta = 0
        /\ \A h \in Handlers : handler[h].pc = "idle"
    BY IdleType DEF Init, Idle
  <2>2. \A t \in Tasks : tasks[t].state = "none"
    BY DEF Init
  <2> QED
    BY <2>1, <2>2, TaskAssumption DEF MetaInv, Saves, Applied
<1>2. TypeInv /\ UploadInv /\ MetaInv /\ [Next]_vars => (TypeInv /\ UploadInv /\ MetaInv)'
  BY NextType, NextUpload, NextMeta
<1>3. MetaInv => MetadataApplied
  BY DEF MetaInv, Applied, Probed, AllIdle, At, MetadataApplied
<1> QED
  BY <1>1, <1>2, <1>3, PTL DEF Spec

-----------------------------------------------------------------------------
(* Thumbnails.                                                             *)

\* No row is made.
LEMMA ThumbStays ==
  ASSUME TypeInv, ThumbInv, thumbs' \subseteq thumbs, rows' = rows,
         \A t \in Tasks \ Probes : tasks[t].state = "completed" =>
           tasks'[t].state = "completed" /\ tasks'[t].result = tasks[t].result,
         \A g \in Handlers : handler'[g] = handler[g] \/ handler'[g].pc # "rows"
  PROVE  ThumbInv'
<1>1. Listed'
  BY DEF ThumbInv, Listed, ListedOnce
<1>2. ASSUME NEW g \in Handlers PROVE Making(g)'
  <2>1. CASE handler'[g] = handler[g]
    <3>1. PICK x : x = handler[g] /\ x = handler'[g]
      BY <2>1
    <3>2. x.pc = "rows" => x.task \in Tasks \ Probes /\ tasks'[x.task].result = tasks[x.task].result
      BY <3>1, Types DEF About
    <3>3. x.pc = "rows" => /\ \A f \in Handlers \ {g} : handler[f].pc # "rows"
                           /\ x.todo = tasks[x.task].result => thumbs = {}
                           /\ \A th \in thumbs : th.index \notin x.todo
      BY <3>1 DEF ThumbInv, Making
    <3> QED
      BY <3>1, <3>2, <3>3 DEF Making
  <2>2. CASE handler'[g].pc # "rows"
    BY <2>2 DEF Making
  <2> QED
    BY <2>1, <2>2
<1> QED
  BY <1>1, <1>2 DEF ThumbInv

\* A handler sets out to apply a result that no row has been made of.
LEMMA ThumbApplies ==
  ASSUME TypeInv, ThumbInv, NEW h \in Handlers, NEW t \in Tasks, Apply(h, t), UNCHANGED <<thumbs, rows>>,
         t \notin Probes => /\ thumbs = {} /\ tasks'[t].result = tasks[t].result
                            /\ \A g \in Handlers \ {h} : handler[g].pc # "rows",
         \A u \in Tasks \ Probes : tasks[u].state = "completed" =>
           tasks'[u].state = "completed" /\ tasks'[u].result = tasks[u].result
  PROVE  ThumbInv'
<1>1. /\ handler'[h].task = t
      /\ \/ t \in Probes /\ handler'[h].pc = "p_read"
         \/ t \notin Probes /\ handler'[h].pc = "rows" /\ handler'[h].todo = tasks[t].result
      /\ \A g \in Handlers \ {h} : handler'[g] = handler[g]
  BY Types, ApplyType
<1>2. CASE t \in Probes
  BY <1>1, <1>2, ThumbStays
<1>3. CASE t \notin Probes
  <2>1. Listed'
    BY DEF ThumbInv, Listed, ListedOnce
  <2>2. \A g \in Handlers : Making(g)'
    BY <1>1, <1>3 DEF Making
  <2> QED
    BY <1>3, <2>1, <2>2 DEF ThumbInv
<1> QED
  BY <1>2, <1>3

\* A row is made of an index that has none; it is the default if it is the first.
LEMMA ThumbMade ==
  ASSUME TypeInv, ThumbInv, OneTask, NEW h \in Handlers, CreateThumbnail(h)
  PROVE  ThumbInv'
<1>0. /\ handler[h].pc = "rows" /\ UNCHANGED tasks /\ rows \in Nat
      /\ handler[h].task \in Tasks \ Probes /\ tasks[handler[h].task].state = "completed"
      /\ handler[h].todo \subseteq tasks[handler[h].task].result
      /\ \A g \in Handlers \ {h} : handler'[g] = handler[g] /\ handler[g].pc # "rows"
  <2>1. handler[h].pc = "rows" /\ UNCHANGED tasks
    BY DEF CreateThumbnail, At
  <2>2. \A g \in Handlers \ {h} : handler'[g] = handler[g]
    BY ThumbType
  <2> QED
    BY <2>1, <2>2, Types DEF About, ThumbInv, Making
<1>1. CASE handler'[h].pc = "idle" /\ UNCHANGED <<thumbs, rows>>
  BY <1>0, <1>1, ThumbStays
<1>2. ASSUME NEW i \in handler[h].todo, NEW th \in Thumb,
             handler'[h].pc = "rows", handler'[h].task = handler[h].task,
             handler'[h].todo = handler[h].todo \ {i},
             rows' = rows + 1, thumbs' = thumbs \cup {th}, th.id = rows + 1, th.index = i,
             th.default <=> handler[h].todo = tasks[handler[h].task].result
      PROVE  ThumbInv'
  <2>1. /\ handler[h].todo = tasks[handler[h].task].result => thumbs = {}
        /\ \A old \in thumbs : old.index \notin handler[h].todo
    BY <1>0 DEF ThumbInv, Making
  <2>2. \A old \in thumbs : old.id <= rows /\ old.id \in Nat
    BY Types DEF ThumbInv, Listed, Thumb
  <2>3. \A old \in thumbs : old.index # th.index /\ old.id # th.id /\ ~(old.default /\ th.default)
    BY <1>0, <1>2, <2>1, <2>2
  <2>4. Listed'
    BY <1>0, <1>2, <2>2, <2>3 DEF ThumbInv, Listed, ListedOnce
  <2>5. \A t \in Tasks \ Probes : tasks'[t].state = "completed"
    BY <1>0 DEF OneTask
  <2>6. \A g \in Handlers \ {h} : Making(g)'
    BY <1>0 DEF Making
  <2>7. Making(h)'
    <3>1. \A other \in thumbs' : other.index \notin handler'[h].todo
      BY <1>2, <2>1
    <3>2. handler'[h].todo # tasks'[handler'[h].task].result
      BY <1>0, <1>2
    <3> QED
      BY <1>0, <3>1, <3>2 DEF Making
  <2> QED
    BY <2>4, <2>5, <2>6, <2>7 DEF ThumbInv
<1> QED
  BY <1>1, <1>2, ThumbType

\* The default is the row with the id, and ids are unique.
LEMMA ThumbDefault ==
  ASSUME TypeInv, ThumbInv, NEW id \in 1 .. rows, SetDefaultThumbnail(id)
  PROVE  ThumbInv'
<1>1. UNCHANGED <<tasks, handler, rows>>
  BY DEF SetDefaultThumbnail
<1>2. ASSUME NEW th \in thumbs'
      PROVE  \E old \in thumbs : /\ th = [old EXCEPT !.default = old.id = id]
                                 /\ th.id = old.id /\ th.index = old.index
                                 /\ th.default <=> old.id = id
  <2>1. PICK old \in thumbs : th = [old EXCEPT !.default = old.id = id]
    BY DEF SetDefaultThumbnail
  <2>2. PICK d \in BOOLEAN : d = (old.id = id)
    OBVIOUS
  <2>3. old \in Thumb /\ th = [old EXCEPT !.default = d]
    BY <2>1, <2>2, Types
  <2>4. th.id = old.id /\ th.index = old.index /\ th.default = d
    BY <2>3 DEF Thumb
  <2> QED
    BY <2>1, <2>2, <2>4
<1>3. ASSUME NEW th \in thumbs', NEW other \in thumbs',
             th.id = other.id \/ th.index = other.index \/ (th.default /\ other.default)
      PROVE  th = other
  <2>1. PICK a \in thumbs : /\ th = [a EXCEPT !.default = a.id = id]
                            /\ th.id = a.id /\ th.index = a.index /\ (th.default <=> a.id = id)
    BY <1>2
  <2>2. PICK b \in thumbs : /\ other = [b EXCEPT !.default = b.id = id]
                            /\ other.id = b.id /\ other.index = b.index /\ (other.default <=> b.id = id)
    BY <1>2
  <2>3. a = b
    BY <1>3, <2>1, <2>2 DEF ThumbInv, Listed, ListedOnce
  <2> QED
    BY <2>1, <2>2, <2>3
<1>4. Listed'
  <2>1. \A th \in thumbs' : th.id <= rows
    BY <1>2 DEF ThumbInv, Listed
  <2> QED
    BY <1>1, <1>3, <2>1 DEF Listed, ListedOnce
<1>5. thumbs' = {} <=> thumbs = {}
  BY DEF SetDefaultThumbnail
<1>6. ASSUME NEW g \in Handlers PROVE Making(g)'
  <2>1. ASSUME handler[g].pc = "rows", NEW th \in thumbs' PROVE th.index \notin handler[g].todo
    <3>1. PICK old \in thumbs : th.index = old.index
      BY <1>2
    <3> QED
      BY <2>1, <3>1 DEF ThumbInv, Making
  <2> QED
    BY <1>1, <1>5, <2>1 DEF ThumbInv, Making
<1> QED
  BY <1>1, <1>4, <1>5, <1>6 DEF ThumbInv

\* Every step keeps what holds of thumbnails.
LEMMA NextThumb == OneTask /\ TypeInv /\ UploadInv /\ ThumbInv /\ [Next]_vars => ThumbInv'
<1> SUFFICES ASSUME OneTask, TypeInv, UploadInv, ThumbInv, [Next]_vars PROVE ThumbInv'
  OBVIOUS
<1>0. Probes \subseteq Tasks
  BY Types
\* A task that is not completed may move.
<1>1. ASSUME NEW t \in Tasks, tasks[t].state # "completed", \A u \in Tasks \ {t} : tasks'[u] = tasks[u],
             UNCHANGED <<thumbs, rows>>, \A g \in Handlers : handler'[g] = handler[g] \/ handler'[g].pc # "rows"
      PROVE  ThumbInv'
  BY <1>1, ThumbStays
<1>2. ASSUME NEW h \in Handlers, CompleteUpload(h) PROVE ThumbInv'
  <2>1. /\ handler'[h].pc = "u_old" /\ \A g \in Handlers \ {h} : handler'[g] = handler[g]
    <3>1. handler' = [handler EXCEPT ![h].pc = "u_old", ![h].row = row] /\ "u_old" \in Pcs
      BY <1>2 DEF CompleteUpload, Pcs, UploadPcs
    <3> QED
      BY <3>1, Types, ReadType
  <2>2. UNCHANGED <<thumbs, rows, tasks>>
    BY <1>2 DEF CompleteUpload
  <2> QED
    BY <2>1, <2>2, ThumbStays
<1>3. ASSUME NEW h \in Handlers, UploadStep(h) PROVE ThumbInv'
  <2>1. /\ \A g \in Handlers \ {h} : handler'[g] = handler[g]
        /\ handler'[h].pc # "rows" /\ UNCHANGED rows /\ thumbs' \subseteq thumbs
    BY <1>3, UploadSteps DEF mediaVars
  <2>2. \A u \in Tasks \ Probes : tasks'[u] = tasks[u]
    BY <1>0, <1>3, UploadSteps
  <2> QED
    BY <2>1, <2>2, ThumbStays
<1>4. ASSUME NEW t \in Tasks, StartThumbnails(t) PROVE ThumbInv'
  <2>1. /\ tasks[t].state = "none" /\ \A u \in Tasks \ {t} : tasks'[u] = tasks[u]
        /\ UNCHANGED <<thumbs, rows, handler>>
    BY <1>4, Types, MoveTask DEF StartThumbnails, mediaVars, bounds
  <2> QED
    BY <1>1, <2>1
<1>5. ASSUME NEW t \in Tasks, WorkerStep(t) PROVE ThumbInv'
  <2>1. UNCHANGED <<thumbs, rows, handler>>
    BY <1>5 DEF WorkerStep, ExtractThumbnails, Probe, LoseReport, mediaVars, bounds
  <2>2. tasks[t].state # "completed" /\ \A u \in Tasks \ {t} : tasks'[u] = tasks[u]
    <3>1. CASE ExtractThumbnails(t)
      <4>1. tasks[t].state = "queued"
        BY <3>1 DEF ExtractThumbnails
      <4>2. \A v \in Tasks \ {t} : tasks'[v] = tasks[v]
        BY <3>1, Types, MoveTask
      <4> QED
        BY <4>1, <4>2
    <3>2. CASE Probe(t)
      BY <3>2, Types, MoveTask DEF Probe, States
    <3>3. CASE LoseReport(t)
      BY <3>3, Types, MoveTask DEF LoseReport, States
    <3> QED
      BY <1>5, <3>1, <3>2, <3>3 DEF WorkerStep
  <2> QED
    BY <1>1, <2>1, <2>2
<1>6. ASSUME NEW h \in Handlers, NEW t \in Tasks, CompleteTask(h, t) PROVE ThumbInv'
  <2>1. /\ tasks[t].state = "worked" /\ Apply(h, t) /\ UNCHANGED <<thumbs, rows>>
    BY <1>6 DEF CompleteTask, mediaVars, bounds
  <2>2. tasks'[t].result = tasks[t].result /\ \A u \in Tasks \ {t} : tasks'[u] = tasks[u]
    BY <1>6, Types, MoveTask DEF CompleteTask, States
  <2>3. ASSUME t \notin Probes
        PROVE  thumbs = {} /\ \A g \in Handlers : handler[g].pc # "rows"
    <3>1. thumbs = {}
      BY <2>1, <2>3 DEF ThumbInv
    <3>2. ASSUME NEW g \in Handlers, handler[g].pc = "rows" PROVE FALSE
      <4>1. handler[g].task \in Tasks \ Probes /\ tasks[handler[g].task].state = "completed"
        BY <3>2, Types DEF About
      <4> QED
        BY <2>1, <2>3, <4>1 DEF OneTask
    <3> QED
      BY <3>1, <3>2
  <2> QED
    BY <2>1, <2>2, <2>3, ThumbApplies
<1>7. ASSUME NEW h \in Handlers, ReadRow(h) \/ SaveRow(h) PROVE ThumbInv'
  <2>1. UNCHANGED <<thumbs, rows, tasks>>
    BY <1>7 DEF ReadRow, SaveRow, mediaVars, bounds
  <2>2. \A g \in Handlers : handler'[g] = handler[g] \/ handler'[g].pc # "rows"
    <3>1. CASE ReadRow(h)
      BY <3>1, ReadEffect
    <3>2. CASE SaveRow(h)
      BY <3>2, Types, MoveType DEF SaveRow
    <3> QED
      BY <1>7, <3>1, <3>2
  <2> QED
    BY <2>1, <2>2, ThumbStays
<1>8. ASSUME NEW id \in 1 .. rows, DeleteThumbnail(id) PROVE ThumbInv'
  BY <1>8, ThumbStays DEF DeleteThumbnail
<1>9. CASE Restart \/ Serve \/ StartTranscode \/ UNCHANGED vars
  BY <1>9, ThumbStays DEF Restart, Serve, StartTranscode, vars, mediaVars, bounds
<1>13. ASSUME NEW h \in Handlers, EditVideo(h) \/ SetReady(h) \/ SaveRead(h) PROVE ThumbInv'
  <2>1. /\ UNCHANGED <<thumbs, rows, tasks>>
        /\ \A g \in Handlers : handler'[g] = handler[g] \/ handler'[g].pc # "rows"
    BY <1>13, EditEffect, WriteEffect DEF mediaVars, bounds
  <2> QED
    BY <2>1, ThumbStays
<1>10. CASE Crash
  <2>1. \A g \in Handlers : handler'[g].pc = "idle"
    BY <1>10, IdleType DEF Crash
  <2> QED
    BY <1>10, <2>1, ThumbStays DEF Crash, mediaVars
<1>11. ASSUME NEW h \in Handlers, NEW t \in Tasks, ReprocessProbe(h, t) PROVE ThumbInv'
  <2>1. /\ t \in Probes /\ (Apply(h, t) \/ UNCHANGED handler) /\ UNCHANGED <<thumbs, rows, tasks>>
    BY <1>11 DEF ReprocessProbe, mediaVars, bounds
  <2> QED
    BY <2>1, ThumbApplies, ThumbStays
<1>12. ASSUME NEW h \in Handlers, NEW t \in Tasks, ReprocessThumbnails(h, t) PROVE ThumbInv'
  <2>1. /\ (thumbs = {} /\ Apply(h, t)) \/ UNCHANGED handler
        /\ UNCHANGED <<thumbs, rows, tasks>> /\ \A g \in Handlers : handler[g].pc = "idle"
    BY <1>12 DEF ReprocessThumbnails, NextResult, AllIdle, At, mediaVars, bounds
  <2> QED
    BY <2>1, ThumbApplies, ThumbStays
<1> QED
  BY <1>2, <1>3, <1>4, <1>5, <1>6, <1>7, <1>8, <1>9, <1>10, <1>11, <1>12, <1>13, ThumbMade, ThumbDefault
  DEF Next, HandlerStep, ApplyStep, ServerStep, ClientStep

\* If there is one thumbnail task, it gives no thumbnail twice and no second
\* default, wherever the server stops and however requests interleave.
THEOREM ListedThumbnails == ASSUME OneTask PROVE Spec => []ListedOnce
<1>1. Init => TypeInv /\ UploadInv /\ ThumbInv
  <2> SUFFICES ASSUME Init PROVE ThumbInv
    BY InitType, InitUpload
  <2>1. thumbs = {} /\ \A h \in Handlers : handler[h].pc = "idle"
    BY IdleType DEF Init
  <2> QED
    BY <2>1 DEF ThumbInv, Listed, ListedOnce, Making
<1>2. TypeInv /\ UploadInv /\ ThumbInv /\ [Next]_vars => (TypeInv /\ UploadInv /\ ThumbInv)'
  BY NextType, NextUpload, NextThumb
<1>3. ThumbInv => ListedOnce
  BY DEF ThumbInv, Listed
<1> QED
  BY <1>1, <1>2, <1>3, PTL DEF Spec

=============================================================================
