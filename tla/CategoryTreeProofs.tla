------------------------- MODULE CategoryTreeProofs -------------------------
(***************************************************************************)
(* Proofs about CategoryTree, for every value of its constants.            *)
(***************************************************************************)
EXTENDS CategoryTree, TLAPS

SlugsOrNone == Slugs \cup {None, Tmp, Own}
HandlerType == [pc : {"idle", "rename", "save"}, kind : Kinds, id : 0 .. MaxId, row : Row,
                children : [Ids -> SlugsOrNone], names : SUBSET Ids]

\* A handler at work is about a row with a number.
TypeInv == TypeOK /\ \A h \in Handlers : ~At(h, "idle") => handler[h].id \in Ids

\* A creation ends with a slug of its own.
TmpInv ==
  /\ TypeInv /\ TmpIsPassing
  /\ \A h \in Handlers : At(h, "rename") => handler[h].row.slug \notin {None, Tmp}

\* What TypeInv says.
LEMMA Types ==
  TypeInv =>
    /\ rows \in [Kinds -> [Ids -> Row]] /\ next \in [Kinds -> 0 .. MaxId] /\ named \subseteq Ids
    /\ handler \in [Handlers -> HandlerType] /\ stranded \subseteq Kinds \X Ids
    /\ Limit \in [Kinds -> 0 .. MaxId]
    /\ \A h \in Handlers : handler[h].pc # "idle" => handler[h].id \in Ids
BY BoundAssumption DEF TypeInv, TypeOK, HandlerType, SlugsOrNone, Limit, Kinds, At

\* A handler that does nothing is well typed.
LEMMA IdleType == Idle \in HandlerType /\ Idle.pc = "idle"
<1>1. NoRow \in Row /\ Alone \in [Ids -> SlugsOrNone]
  BY BoundAssumption DEF NoRow, Row, Alone, SlugsOrNone
<1> QED
  BY <1>1, BoundAssumption DEF Idle, HandlerType, Kinds

\* The initial state is well typed.
LEMMA InitType == Init => TypeInv
<1> SUFFICES ASSUME Init PROVE TypeInv
  OBVIOUS
<1>1. NoRow \in Row
  BY BoundAssumption DEF NoRow, Row
<1>2. handler \in [Handlers -> HandlerType] /\ \A h \in Handlers : At(h, "idle")
  BY IdleType DEF Init, At
<1> QED
  BY <1>1, <1>2, BoundAssumption DEF Init, TypeInv, TypeOK, HandlerType, SlugsOrNone

\* The first statement of a creation.
LEMMA CreateEffect ==
  ASSUME TypeInv, NEW h \in Handlers, NEW k \in Kinds, NEW s \in Slugs \cup {Own},
         NEW p \in 0 .. MaxId, Create(h, k, s, p)
  PROVE  /\ next[k] + 1 \in Ids /\ handler[h].pc = "idle"
         /\ rows' \in [Kinds -> [Ids -> Row]] /\ next' \in [Kinds -> 0 .. MaxId]
         /\ \A l \in Kinds, j \in Ids : l # k \/ j # next[k] + 1 => rows'[l][j] = rows[l][j]
         /\ handler' \in [Handlers -> HandlerType]
         /\ handler'[h].pc = "rename" /\ handler'[h].kind = k /\ handler'[h].id = next[k] + 1
         /\ handler'[h].row.slug = s /\ \A g \in Handlers \ {h} : handler'[g] = handler[g]
         /\ UNCHANGED <<named, stranded>>
<1>1. next[k] + 1 \in Ids
  BY Types, BoundAssumption DEF Create, Ids, Limit, Kinds
<1>2. PICK i \in Ids : i = next[k] + 1
  BY <1>1
<1>3. PICK new \in Row : new = [slug |-> Tmp, parent |-> p]
  BY DEF Row
<1>4. PICK row \in Row : row = [slug |-> s, parent |-> p]
  BY DEF Row
<1>5. row.slug = s
  BY <1>4
<1>6. PICK x : x = [Idle EXCEPT !.pc = "rename", !.kind = k, !.id = i, !.row = row]
  OBVIOUS
<1>7. i \in 0 .. MaxId
  BY BoundAssumption DEF Ids
<1>8. x \in HandlerType /\ x.pc = "rename" /\ x.kind = k /\ x.id = i /\ x.row = row
  BY <1>6, <1>7, IdleType DEF HandlerType
<1>9. handler' = [handler EXCEPT ![h] = x] /\ handler[h].pc = "idle"
  BY <1>2, <1>4, <1>6 DEF Create, At
<1>10. rows' = [rows EXCEPT ![k][i] = new] /\ next' = [next EXCEPT ![k] = i]
  BY <1>2, <1>3 DEF Create
<1>11. rows' \in [Kinds -> [Ids -> Row]] /\ next' \in [Kinds -> 0 .. MaxId]
       /\ \A l \in Kinds, j \in Ids : l # k \/ j # i => rows'[l][j] = rows[l][j]
  BY <1>7, <1>10, Types
<1>12. UNCHANGED <<named, stranded>>
  BY DEF Create
<1> QED
  BY <1>1, <1>2, <1>5, <1>8, <1>9, <1>11, <1>12, Types

\* What a save would leave in the table.
LEMMA AdoptedType ==
  ASSUME TypeInv, NEW h \in Handlers, handler[h].pc # "idle"
  PROVE  /\ handler[h].kind \in Kinds /\ handler[h].id \in Ids
         /\ Adopted(h) \in [Ids -> Row] /\ Written(h) \in [Ids -> Row]
<1>1. PICK x \in HandlerType : x = handler[h]
  BY Types
<1>2. /\ x.kind \in Kinds /\ x.id \in Ids /\ x.row \in Row /\ x.id \in 0 .. MaxId
      /\ x.children \in [Ids -> SlugsOrNone]
  BY <1>1, Types DEF HandlerType
<1>3. rows[x.kind] \in [Ids -> Row]
  BY <1>2, Types
<1>4. Written(h) \in [Ids -> Row]
  BY <1>1, <1>2, <1>3 DEF Written
<1>5. PICK t \in [Ids -> Row] : t = Written(h)
  BY <1>4
<1>6. ASSUME NEW m \in Ids
      PROVE  [slug |-> IF t[m].slug = None THEN x.children[m] ELSE t[m].slug, parent |-> x.id] \in Row
  <2>1. t[m].slug \in SlugsOrNone /\ x.children[m] \in SlugsOrNone
    BY <1>2 DEF Row, SlugsOrNone
  <2> QED
    BY <1>2, <2>1 DEF Row, SlugsOrNone
<1>7. Adopted(h) = [m \in Ids |->
        IF \E j \in Ids : x.children[j] # None /\ Met(t, j, x.children[j], m)
        THEN [slug |-> IF t[m].slug = None THEN x.children[m] ELSE t[m].slug, parent |-> x.id]
        ELSE t[m]]
  BY <1>1, <1>5 DEF Adopted
<1>8. Adopted(h) \in [Ids -> Row]
  BY <1>6, <1>7
<1> QED
  BY <1>1, <1>2, <1>4, <1>8

\* A save is refused, or leaves the table so.
LEMMA SaveEffect ==
  ASSUME TypeInv, NEW h \in Handlers, Save(h)
  PROVE  /\ handler[h].pc \in {"rename", "save"} /\ handler' \in [Handlers -> HandlerType]
         /\ handler'[h].pc = "idle" /\ \A g \in Handlers \ {h} : handler'[g] = handler[g]
         /\ UNCHANGED next
         /\ \/ /\ UNCHANGED <<rows, named>>
               /\ stranded' = IF handler[h].pc = "rename"
                              THEN stranded \cup {<<handler[h].kind, handler[h].id>>} ELSE stranded
            \/ /\ rows' = [rows EXCEPT ![handler[h].kind] = Adopted(h)]
               /\ named' = named \cup handler[h].names
               /\ stranded' = stranded \cup {<<handler[h].kind, j>> : j \in {m \in Ids :
                    Adopted(h)[m].slug = Tmp /\ rows[handler[h].kind][m].slug # Tmp}}
<1>1. handler[h].pc \in {"rename", "save"} /\ handler' = [handler EXCEPT ![h] = Idle] /\ UNCHANGED next
  BY DEF Save
<1>2. handler' \in [Handlers -> HandlerType] /\ handler'[h].pc = "idle"
      /\ \A g \in Handlers \ {h} : handler'[g] = handler[g]
  BY <1>1, Types, IdleType
<1> QED
  BY <1>1, <1>2 DEF Save, At

\* A deletion only takes slugs and parents away.
LEMMA DeleteEffect ==
  ASSUME TypeInv, NEW k \in Kinds, NEW i \in Ids, NEW cascade \in Cascades, Delete(k, i, cascade)
  PROVE  /\ rows' \in [Kinds -> [Ids -> Row]] /\ named' \subseteq Ids
         /\ \A l \in Kinds, j \in Ids : rows'[l][j].slug \in {None, rows[l][j].slug}
         /\ UNCHANGED <<next, handler, stranded>>
<1>1. PICK t \in [Ids -> Row] : t = rows[k]
  BY Types
<1>2. NoRow \in Row /\ NoRow.slug = None
  BY BoundAssumption DEF NoRow, Row
<1>3. ASSUME NEW r \in Row
      PROVE  [r EXCEPT !.parent = 0] \in Row /\ [r EXCEPT !.parent = 0].slug = r.slug
  BY BoundAssumption DEF Row
<1>4. PICK u : u = [j \in Ids |-> IF j = i THEN NoRow
                                  ELSE IF t[j].parent = i THEN [t[j] EXCEPT !.parent = 0] ELSE t[j]]
  OBVIOUS
<1>5. u \in [Ids -> Row] /\ \A j \in Ids : u[j].slug \in {None, t[j].slug}
  BY <1>2, <1>3, <1>4
<1>6. rows' = [rows EXCEPT ![k] = u]
  BY <1>1, <1>4 DEF Delete
<1>7. rows' \in [Kinds -> [Ids -> Row]]
      /\ \A l \in Kinds, j \in Ids : rows'[l][j].slug \in {None, rows[l][j].slug}
  BY <1>1, <1>5, <1>6, Types
<1>8. named' \subseteq Ids /\ UNCHANGED <<next, handler, stranded>>
  BY Types DEF Delete
<1> QED
  BY <1>7, <1>8

\* An update reads the row.
LEMMA UpdateEffect ==
  ASSUME TypeInv, NEW h \in Handlers, NEW i \in Ids, NEW s \in Slugs \cup {None}, NEW p \in 0 .. MaxId,
         UpdateCategory(h, i, s, p)
  PROVE  /\ handler' \in [Handlers -> HandlerType] /\ handler[h].pc = "idle"
         /\ handler'[h].pc = "save" /\ handler'[h].id = i
         /\ \A g \in Handlers \ {h} : handler'[g] = handler[g]
         /\ UNCHANGED <<rows, next, named, stranded>>
<1>1. PICK t \in [Ids -> Row] : t = rows["category"]
  BY Types DEF Kinds
<1>2. PICK row : row = [slug   |-> IF s = None THEN t[i].slug ELSE s,
                        parent |-> IF p = 0 THEN t[i].parent ELSE p]
  OBVIOUS
<1>3. row \in Row
  BY <1>2 DEF Row
<1>4. PICK ch : ch = [j \in Ids |-> IF j \in Children(i) THEN t[j].slug ELSE None]
  OBVIOUS
<1>5. ch \in [Ids -> SlugsOrNone]
  BY <1>4 DEF Row, SlugsOrNone
<1>6. PICK n \in SUBSET Ids : n = named \cap ({i} \cup Children(i))
  BY Types
<1>7. PICK x : x = [pc |-> "save", kind |-> "category", id |-> i, row |-> row, children |-> ch, names |-> n]
  OBVIOUS
<1>8. i \in 0 .. MaxId /\ "category" \in Kinds
  BY BoundAssumption DEF Ids, Kinds
<1>9. x \in HandlerType /\ x.pc = "save" /\ x.id = i
  BY <1>3, <1>5, <1>7, <1>8 DEF HandlerType
<1>10. handler' = [handler EXCEPT ![h] = x] /\ handler[h].pc = "idle"
       /\ UNCHANGED <<rows, next, named, stranded>>
  BY <1>1, <1>2, <1>4, <1>6, <1>7 DEF UpdateCategory, At
<1> QED
  BY <1>9, <1>10, Types

\* The API server stops.
LEMMA CrashEffect ==
  ASSUME TypeInv, Crash
  PROVE  /\ handler' \in [Handlers -> HandlerType] /\ \A h \in Handlers : handler'[h].pc = "idle"
         /\ stranded \subseteq stranded' /\ stranded' \subseteq Kinds \X Ids
         /\ \A h \in Handlers : handler[h].pc = "rename" => <<handler[h].kind, handler[h].id>> \in stranded'
         /\ UNCHANGED <<rows, next, named>>
<1>1. \A h \in Handlers : handler[h].pc = "rename" => handler[h].kind \in Kinds /\ handler[h].id \in Ids
  BY Types DEF HandlerType
<1> QED
  BY <1>1, Types, IdleType DEF Crash, At

\* Whatever administrators do at once.
LEMMA NextType == TypeInv /\ [Next]_vars => TypeInv'
<1> SUFFICES ASSUME TypeInv, [Next]_vars PROVE TypeInv'
  OBVIOUS
<1>0. ASSUME rows' \in [Kinds -> [Ids -> Row]], next' \in [Kinds -> 0 .. MaxId], named' \subseteq Ids,
             handler' \in [Handlers -> HandlerType], stranded' \subseteq Kinds \X Ids,
             \A g \in Handlers : handler'[g].pc # "idle" => handler'[g].id \in Ids
      PROVE  TypeInv'
  BY <1>0 DEF TypeInv, TypeOK, HandlerType, SlugsOrNone, At
<1>1. ASSUME NEW h \in Handlers, NEW k \in Kinds, NEW s \in Slugs \cup {Own}, NEW p \in 0 .. MaxId,
             Create(h, k, s, p)
      PROVE  TypeInv'
  <2>2. handler'[h].id \in Ids /\ \A g \in Handlers \ {h} : handler'[g] = handler[g]
    BY <1>1, CreateEffect
  <2>1. \A g \in Handlers : handler'[g].pc # "idle" => handler'[g].id \in Ids
    BY <2>2, Types
  <2> QED
    BY <1>0, <1>1, <2>1, CreateEffect, Types
<1>2. ASSUME NEW h \in Handlers, NEW i \in Ids, NEW s \in Slugs \cup {None}, NEW p \in 0 .. MaxId,
             UpdateCategory(h, i, s, p)
      PROVE  TypeInv'
  <2>1. \A g \in Handlers : handler'[g].pc # "idle" => handler'[g].id \in Ids
    BY <1>2, UpdateEffect, Types
  <2> QED
    BY <1>0, <1>2, <2>1, UpdateEffect, Types
<1>3. ASSUME NEW h \in Handlers, Save(h) PROVE TypeInv'
  <2>1. handler[h].pc # "idle"
    BY <1>3, SaveEffect
  <2>2. /\ handler[h].kind \in Kinds /\ handler[h].id \in Ids /\ Adopted(h) \in [Ids -> Row]
    BY <2>1, AdoptedType
  <2>3. handler[h].names \subseteq Ids
    BY Types DEF HandlerType
  <2>4. \A g \in Handlers : handler'[g].pc # "idle" => handler'[g].id \in Ids
    BY <1>3, SaveEffect, Types
  <2>5. rows' \in [Kinds -> [Ids -> Row]] /\ named' \subseteq Ids
    BY <1>3, <2>2, <2>3, SaveEffect, Types
  <2>6. stranded' \subseteq Kinds \X Ids
    BY <1>3, <2>2, SaveEffect, Types
  <2> QED
    BY <1>0, <1>3, <2>4, <2>5, <2>6, SaveEffect, Types
<1>4. ASSUME NEW k \in Kinds, NEW i \in Ids, NEW cascade \in Cascades, Delete(k, i, cascade)
      PROVE  TypeInv'
  BY <1>0, <1>4, DeleteEffect, Types
<1>5. ASSUME NEW i \in Ids, UpsertTranslation(i) PROVE TypeInv'
  <2>1. named' \subseteq Ids /\ UNCHANGED <<rows, next, handler, stranded>>
    BY <1>5, Types DEF UpsertTranslation
  <2> QED
    BY <1>0, <2>1, Types
<1>6. CASE Crash
  BY <1>0, <1>6, CrashEffect, Types
<1>7. CASE UNCHANGED vars
  BY <1>0, <1>7, Types DEF vars
<1> QED
  BY <1>1, <1>2, <1>3, <1>4, <1>5, <1>6, <1>7 DEF Next

\* Rows, and what handlers have read of them, are rows.
THEOREM CategoryTyping == Spec => []TypeOK
<1>1. Spec => []TypeInv
  BY InitType, NextType, PTL DEF Spec
<1>2. TypeInv => TypeOK
  BY DEF TypeInv
<1> QED
  BY <1>1, <1>2, PTL

-----------------------------------------------------------------------------
(* Creations: TmpInv is inductive.                                         *)

\* Steps after which every row with the temporary slug had it before, and whoever
\* creates it goes on, or is stranded.
LEMMA TmpStays ==
  ASSUME TmpInv, TypeInv',
         \A g \in Handlers : handler'[g].pc = "rename" => handler'[g].row.slug \notin {None, Tmp},
         stranded \subseteq stranded',
         \A k \in Kinds, i \in Ids :
           rows'[k][i].slug = Tmp => rows[k][i].slug = Tmp \/ <<k, i>> \in stranded',
         \A g \in Handlers : handler[g].pc = "rename" =>
           \/ handler'[g] = handler[g] \/ <<handler[g].kind, handler[g].id>> \in stranded'
           \/ rows'[handler[g].kind][handler[g].id].slug # Tmp
  PROVE  TmpInv'
<1>1. ASSUME NEW k \in Kinds, NEW i \in Ids, rows'[k][i].slug = Tmp
      PROVE  \/ <<k, i>> \in stranded'
             \/ \E g \in Handlers : handler'[g].pc = "rename" /\ handler'[g].kind = k /\ handler'[g].id = i
  <2>1. CASE <<k, i>> \in stranded'
    BY <2>1
  <2>2. CASE \E g \in Handlers : handler[g].pc = "rename" /\ handler[g].kind = k /\ handler[g].id = i
    BY <1>1, <2>2
  <2> QED
    BY <1>1, <2>1, <2>2 DEF TmpInv, TmpIsPassing, At
<1>2. TmpIsPassing'
  BY <1>1 DEF TmpIsPassing, At
<1> QED
  BY <1>2 DEF TmpInv, At

\* A save that is not refused leaves no temporary slug of its own creation, and
\* strands the rows that it gives one.
LEMMA SaveTmp ==
  ASSUME TmpInv, TypeInv', NEW h \in Handlers, Save(h)
  PROVE  TmpInv'
<1>0. TypeInv
  BY DEF TmpInv
<1>1. handler[h].pc # "idle" /\ stranded \subseteq stranded'
  BY <1>0, SaveEffect
<1>2. /\ handler[h].kind \in Kinds /\ handler[h].id \in Ids
      /\ Adopted(h) \in [Ids -> Row] /\ Written(h) \in [Ids -> Row]
  BY <1>0, <1>1, AdoptedType
<1>3. \A g \in Handlers : handler'[g].pc = "rename" => handler'[g].row.slug \notin {None, Tmp}
  BY <1>0, SaveEffect DEF TmpInv, At
<1>4. \A k \in Kinds, i \in Ids :
        rows'[k][i].slug = Tmp => rows[k][i].slug = Tmp \/ <<k, i>> \in stranded'
  <2> SUFFICES ASSUME NEW k \in Kinds, NEW i \in Ids, rows'[k][i].slug = Tmp, rows[k][i].slug # Tmp
               PROVE  <<k, i>> \in stranded'
    OBVIOUS
  <2>1. rows' = [rows EXCEPT ![handler[h].kind] = Adopted(h)]
    BY <1>0, SaveEffect
  <2>2. k = handler[h].kind /\ Adopted(h)[i].slug = Tmp
    BY <1>0, <1>2, <2>1, Types
  <2> QED
    BY <1>0, <2>1, <2>2, SaveEffect
<1>5. ASSUME handler[h].pc = "rename", rows'[handler[h].kind][handler[h].id].slug = Tmp
      PROVE  <<handler[h].kind, handler[h].id>> \in stranded'
  <2> SUFFICES ASSUME rows' = [rows EXCEPT ![handler[h].kind] = Adopted(h)]
               PROVE  <<handler[h].kind, handler[h].id>> \in stranded'
    BY <1>0, <1>5, SaveEffect
  <2>1. PICK k \in Kinds, i \in Ids : k = handler[h].kind /\ i = handler[h].id
    BY <1>2
  <2>2. Adopted(h)[i].slug = Tmp
    BY <1>0, <1>2, <1>5, <2>1, Types
  <2>3. rows[k][i].slug # Tmp
    <3> SUFFICES ASSUME rows[k][i].slug = Tmp PROVE FALSE
      OBVIOUS
    <3>1. Written(h)[i] = handler[h].row
      BY <2>1 DEF Written, Met, Tmp, None
    <3>2. Written(h)[i].slug \notin {None, Tmp}
      BY <1>5, <3>1 DEF TmpInv, At
    <3>3. Adopted(h)[i].slug = Written(h)[i].slug
      BY <3>2 DEF Adopted
    <3> QED
      BY <2>2, <3>2, <3>3
  <2> QED
    BY <1>0, <1>2, <1>4, <1>5, <2>1, <2>3
<1>6. \A g \in Handlers : handler[g].pc = "rename" =>
        \/ handler'[g] = handler[g] \/ <<handler[g].kind, handler[g].id>> \in stranded'
        \/ rows'[handler[g].kind][handler[g].id].slug # Tmp
  BY <1>0, <1>5, SaveEffect
<1> QED
  BY <1>1, <1>3, <1>4, <1>6, TmpStays

\* Every step keeps TmpInv.
LEMMA NextTmp == TmpInv /\ [Next]_vars => TmpInv'
<1> SUFFICES ASSUME TmpInv, [Next]_vars PROVE TmpInv'
  OBVIOUS
<1>0. TypeInv /\ TypeInv' /\ \A g \in Handlers : handler[g].pc = "rename" => handler[g].row.slug \notin {None, Tmp}
  BY NextType DEF TmpInv, At
<1>1. ASSUME NEW h \in Handlers, NEW k \in Kinds, NEW s \in Slugs \cup {Own}, NEW p \in 0 .. MaxId,
             Create(h, k, s, p)
      PROVE  TmpInv'
  <2>1. s \notin {None, Tmp}
    BY SlugAssumption DEF Own, None, Tmp
  <2>2. \A g \in Handlers : handler'[g].pc = "rename" => handler'[g].row.slug \notin {None, Tmp}
    BY <1>0, <1>1, <2>1, CreateEffect
  <2>3. ASSUME NEW l \in Kinds, NEW i \in Ids, rows'[l][i].slug = Tmp
        PROVE  \/ <<l, i>> \in stranded'
               \/ \E g \in Handlers : handler'[g].pc = "rename" /\ handler'[g].kind = l /\ handler'[g].id = i
    <3>1. CASE l = k /\ i = next[k] + 1
      BY <1>0, <1>1, <3>1, CreateEffect
    <3>2. CASE l # k \/ i # next[k] + 1
      <4>1. rows[l][i].slug = Tmp
        BY <1>0, <1>1, <2>3, <3>2, CreateEffect
      <4>2. CASE <<l, i>> \in stranded
        BY <1>0, <1>1, <4>2, CreateEffect
      <4>3. CASE \E g \in Handlers : handler[g].pc = "rename" /\ handler[g].kind = l /\ handler[g].id = i
        BY <1>0, <1>1, <4>3, CreateEffect
      <4> QED
        BY <4>1, <4>2, <4>3 DEF TmpInv, TmpIsPassing, At
    <3> QED
      BY <3>1, <3>2
  <2>4. TmpIsPassing'
    BY <2>3 DEF TmpIsPassing, At
  <2> QED
    BY <1>0, <2>2, <2>4 DEF TmpInv, At
<1>2. ASSUME NEW h \in Handlers, NEW i \in Ids, NEW s \in Slugs \cup {None}, NEW p \in 0 .. MaxId,
             UpdateCategory(h, i, s, p)
      PROVE  TmpInv'
  BY <1>0, <1>2, UpdateEffect, TmpStays
<1>4. ASSUME NEW k \in Kinds, NEW i \in Ids, NEW cascade \in Cascades, Delete(k, i, cascade)
      PROVE  TmpInv'
  <2>1. \A l \in Kinds, j \in Ids : rows'[l][j].slug = Tmp => rows[l][j].slug = Tmp
    BY <1>0, <1>4, DeleteEffect DEF None, Tmp
  <2>2. UNCHANGED <<handler, stranded>>
    BY <1>0, <1>4, DeleteEffect
  <2> QED
    BY <1>0, <2>1, <2>2, TmpStays
<1>5. ASSUME NEW i \in Ids, UpsertTranslation(i) PROVE TmpInv'
  BY <1>0, <1>5, TmpStays DEF UpsertTranslation
<1>6. CASE Crash
  BY <1>0, <1>6, CrashEffect, TmpStays
<1>7. CASE UNCHANGED vars
  BY <1>0, <1>7, TmpStays DEF vars
<1> QED
  BY <1>0, <1>1, <1>2, <1>4, <1>5, <1>6, <1>7, SaveTmp DEF Next

\* A temporary slug is that of a creation under way, however creations, updates
\* and deletions overlap; the exceptions are rows whose creation failed half way
\* or was cut off, and rows that an update gave the slug it had read.
THEOREM TmpPasses == Spec => []TmpIsPassing
<1>1. Init => TmpInv
  <2> SUFFICES ASSUME Init PROVE TmpInv
    OBVIOUS
  <2>1. \A h \in Handlers : handler[h].pc = "idle"
    BY IdleType DEF Init
  <2>2. \A k \in Kinds, i \in Ids : rows[k][i].slug # Tmp
    BY DEF Init, NoRow, None, Tmp
  <2> QED
    BY <2>1, <2>2, InitType DEF TmpInv, TmpIsPassing, At
<1>2. TmpInv => TmpIsPassing
  BY DEF TmpInv
<1> QED
  BY <1>1, <1>2, NextTmp, PTL DEF Spec
=============================================================================
