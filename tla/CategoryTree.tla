---------------------------- MODULE CategoryTree ----------------------------
(***************************************************************************)
(* Categories and tags.  A row is created with the slug "tmp" and saved    *)
(* again with its own, and slugs are unique: one creation at a time can be *)
(* between the two, and one that never gets to the second stops all later  *)
(* ones.  An update saves the row it has read, and with it the children    *)
(* and translations it has read, although any of them may have changed or  *)
(* gone; nothing keeps a category from being moved below itself.  What a   *)
(* deletion does with children and translations depends on how the         *)
(* database was made.                                                      *)
(***************************************************************************)
EXTENDS Naturals, FiniteSets

CONSTANTS
  Handlers,     \* handler goroutines of the API server at work at once
  Slugs,        \* slugs that clients choose
  Cascades,     \* whether foreign keys let a row that others refer to go (the
                \* migrations) or refuse it (AutoMigrate): the databases considered
  MaxId,        \* bound: categories ever created
  MaxTags,      \* bound: tags ever created
  MaxUpdates    \* bound: updates

\* No row; the temporary slug; the row's own id, which stands in for no slug.
None == "none"
Tmp  == "tmp"
Own  == "own"

ASSUME SlugAssumption  == Slugs \cap {None, Tmp, Own} = {}
ASSUME BoundAssumption == /\ {MaxId, MaxTags, MaxUpdates} \subseteq Nat /\ MaxTags <= MaxId
                          /\ Cascades \subseteq BOOLEAN

VARIABLES
  rows,       \* categories and tags: the slug and the parent (0: none) of each id
  next,       \* the last id given in each table
  named,      \* categories with a translation
  handler,    \* local state of each handler goroutine
  stranded,   \* history: rows whose creation failed or was cut off half way, and
              \* rows given the temporary slug by a save that had read it before
  updates

vars == <<rows, next, named, handler, stranded, updates>>

Kinds == {"category", "tag"}
Ids   == 1 .. MaxId
Row   == [slug : Slugs \cup {None, Tmp, Own}, parent : 0 .. MaxId]
NoRow == [slug |-> None, parent |-> 0]

Limit == [category |-> MaxId, tag |-> MaxTags]

\* A handler: the row that it will save, and what it has read with it: the
\* children's slugs, and which of these rows have a translation.
Alone == [i \in Ids |-> None]
Idle  == [pc |-> "idle", kind |-> "tag", id |-> 0, row |-> NoRow, children |-> Alone, names |-> {}]

Init ==
  /\ rows = [k \in Kinds |-> [i \in Ids |-> NoRow]]
  /\ next = [k \in Kinds |-> 0]
  /\ named = {}
  /\ handler = [h \in Handlers |-> Idle]
  /\ stranded = {}
  /\ updates = 0

At(h, pc)       == handler[h].pc = pc
Exists(k, i)    == i \in Ids /\ rows[k][i].slug # None
Children(i)     == {j \in Ids : Exists("category", j) /\ rows["category"][j].parent = i}
Taken(t, i, s)  == s # Own /\ \E j \in Ids \ {i} : t[j].slug = s

-----------------------------------------------------------------------------
(* CreateCategory, CreateTag.                                              *)

\* Defect: without a slug of its own the row is left as it was inserted.
CreateAndLeave(h, k, s, p) ==
  /\ At(h, "idle") /\ next[k] < Limit[k] /\ ~Taken(rows[k], 0, Tmp)
  /\ p = 0 \/ (k = "category" /\ Exists(k, p))
  /\ LET i == next[k] + 1 IN
     /\ rows' = [rows EXCEPT ![k][i] = [slug |-> Tmp, parent |-> p]]
     /\ next' = [next EXCEPT ![k] = i]
     /\ handler' = [handler EXCEPT ![h] =
          IF s = Own THEN Idle
          ELSE [Idle EXCEPT !.pc = "rename", !.kind = k, !.id = i,
                            !.row = [slug |-> s, parent |-> p]]]
  /\ UNCHANGED <<named, stranded, updates>>

\* The first statement; it fails if there is a temporary slug.
Create(h, k, s, p) ==
  /\ At(h, "idle") /\ next[k] < Limit[k] /\ ~Taken(rows[k], 0, Tmp)
  /\ p = 0 \/ (k = "category" /\ Exists(k, p))
  /\ LET i == next[k] + 1 IN
     /\ rows' = [rows EXCEPT ![k][i] = [slug |-> Tmp, parent |-> p]]
     /\ next' = [next EXCEPT ![k] = i]
     /\ handler' = [handler EXCEPT ![h] = [Idle EXCEPT !.pc = "rename", !.kind = k, !.id = i,
                                                       !.row = [slug |-> s, parent |-> p]]]
  /\ UNCHANGED <<named, stranded, updates>>

\* The row of table t that is written when row i is inserted with slug s and the
\* insertion is an update where it meets a row: the one with that id, or slug.
Met(t, i, s, m) ==
  IF t[i].slug = None /\ Taken(t, i, s) THEN t[m].slug = s ELSE m = i

\* The unique key and the foreign keys.
Consistent(t, n) ==
  /\ \A i, j \in Ids : t[i].slug = t[j].slug /\ t[i].slug \notin {None, Own} => i = j
  /\ \A i \in Ids : t[i].parent # 0 => t[t[i].parent].slug # None
  /\ \A i \in n : t[i].slug # None

\* Save writes every column of the row, inserting it again if it has gone ...
Written(h) ==
  LET i == handler[h].id  row == handler[h].row  t == rows[handler[h].kind]
  IN [m \in Ids |-> IF Met(t, i, row.slug, m) THEN row ELSE t[m]]

\* ... then the parent of each child that was read, the child inserted again if
\* it has gone ...
Adopted(h) ==
  LET children == handler[h].children  t == Written(h)
  IN [m \in Ids |->
       IF \E j \in Ids : children[j] # None /\ Met(t, j, children[j], m)
       THEN [slug |-> IF t[m].slug = None THEN children[m] ELSE t[m].slug, parent |-> handler[h].id]
       ELSE t[m]]

\* ... and the translations.  What was read with a row that has gone is written
\* before the row is back.
Save(h) ==
  LET k     == handler[h].kind
      i     == handler[h].id
      after == Adopted(h)
      texts == named \cup handler[h].names
      Fits  == /\ Consistent(after, IF k = "category" THEN texts ELSE {})
               /\ Exists(k, i) \/ (handler[h].children = Alone /\ handler[h].names = {})
  IN /\ handler[h].pc \in {"rename", "save"}
     /\ handler' = [handler EXCEPT ![h] = Idle]
     /\ \/ /\ ~Fits
           /\ stranded' = IF At(h, "rename") THEN stranded \cup {<<k, i>>} ELSE stranded
           /\ UNCHANGED <<rows, named>>
        \/ /\ Fits
           /\ rows' = [rows EXCEPT ![k] = after] /\ named' = texts
           /\ stranded' = stranded \cup
                {<<k, j>> : j \in {m \in Ids : after[m].slug = Tmp /\ rows[k][m].slug # Tmp}}
     /\ UNCHANGED <<next, updates>>

-----------------------------------------------------------------------------
(* UpdateCategory, deletions and translations.                             *)

\* The row is read with its children; either field may be left as it is.
UpdateCategory(h, i, s, p) ==
  /\ At(h, "idle") /\ Exists("category", i)
  /\ updates < MaxUpdates /\ updates' = updates + 1
  /\ LET old == rows["category"][i] IN
     handler' = [handler EXCEPT ![h] =
       [pc |-> "save", kind |-> "category", id |-> i,
        row |-> [slug   |-> IF s = None THEN old.slug ELSE s,
                 parent |-> IF p = 0 THEN old.parent ELSE p],
        children |-> [j \in Ids |-> IF j \in Children(i) THEN rows["category"][j].slug ELSE None],
        names |-> named \cap ({i} \cup Children(i))]]
  /\ UNCHANGED <<rows, next, named, stranded>>

\* Defect: the row stays, marked as deleted.
DeleteSoftly(k, i, cascade) ==
  /\ Exists(k, i)
  /\ rows' = [rows EXCEPT ![k][i].slug = "deleted"]
  /\ UNCHANGED <<next, named, handler, stranded, updates>>

\* Children become top categories and translations go, or either refuses it.
Delete(k, i, cascade) ==
  /\ Exists(k, i)
  /\ k = "category" /\ ~cascade => Children(i) \subseteq {i} /\ i \notin named
  /\ rows' = [rows EXCEPT ![k] = [j \in Ids |->
       IF j = i THEN NoRow
       ELSE IF @[j].parent = i THEN [@[j] EXCEPT !.parent = 0] ELSE @[j]]]
  /\ named' = IF k = "category" THEN named \ {i} ELSE named
  /\ UNCHANGED <<next, handler, stranded, updates>>

\* FirstOrCreate: a translation that is there already is read and kept.
UpsertTranslation(i) ==
  /\ Exists("category", i)
  /\ named' = named \cup {i}
  /\ UNCHANGED <<rows, next, handler, stranded, updates>>

\* The API server stops.
Crash ==
  /\ stranded' = stranded \cup {<<handler[h].kind, handler[h].id>> :
                                  h \in {g \in Handlers : At(g, "rename")}}
  /\ handler' = [h \in Handlers |-> Idle]
  /\ UNCHANGED <<rows, next, named, updates>>

-----------------------------------------------------------------------------
Next ==
  \/ \E h \in Handlers :
       \/ \E k \in Kinds, s \in Slugs \cup {Own}, p \in 0 .. MaxId : Create(h, k, s, p)
       \/ \E i \in Ids, s \in Slugs \cup {None}, p \in 0 .. MaxId :
            UpdateCategory(h, i, s, p)
       \/ Save(h)
  \/ \E k \in Kinds, i \in Ids, cascade \in Cascades : Delete(k, i, cascade)
  \/ \E i \in Ids : UpsertTranslation(i)
  \/ Crash

Spec == Init /\ [][Next]_vars

-----------------------------------------------------------------------------
(* Properties.                                                             *)

TypeOK ==
  /\ rows \in [Kinds -> [Ids -> Row]]
  /\ next \in [Kinds -> 0 .. MaxId]
  /\ named \subseteq Ids
  /\ handler \in [Handlers -> [pc : {"idle", "rename", "save"}, kind : Kinds, id : 0 .. MaxId,
                               row : Row, children : [Ids -> Slugs \cup {None, Tmp, Own}],
                               names : SUBSET Ids]]
  /\ stranded \subseteq Kinds \X Ids

\* A temporary slug, which stops every other creation, lasts no longer than
\* its own creation, unless that failed half way or was cut off, or an update
\* that had read it meanwhile writes it back.
TmpIsPassing ==
  \A k \in Kinds, i \in Ids : rows[k][i].slug = Tmp =>
    \/ <<k, i>> \in stranded
    \/ \E h \in Handlers : At(h, "rename") /\ handler[h].kind = k /\ handler[h].id = i
=============================================================================
