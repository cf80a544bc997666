-------------------------- MODULE LifecycleProofs --------------------------
(***************************************************************************)
(* One call at a time, the engine is the lifecycle machine: proved for any *)
(* number of calls in a row, any contents and any inputs, store failures   *)
(* and lost acknowledgements included.                                     *)
(***************************************************************************)
EXTENDS EngineProofs

\* What an Upsert is about to do to an item it read: one of the operations.
Prepared(in, item, new) ==
  \/ /\ in.op = "SaveDraft" /\ ~item.archived /\ in.fields \in FieldMap
     /\ ValidDraft(item.type, in.fields)
     /\ new = SavedItem(in, SaveTarget(in, item))
  \/ /\ in.op = "Publish" /\ ~item.archived /\ ValidPublish(item.type, item.draft.fields)
     /\ new = [item EXCEPT !.published = item.draft]
  \/ /\ in.op = "Unpublish" /\ ~item.archived /\ item.published # None
     /\ new = [item EXCEPT !.published = None]
  \/ in.op = "Archive" /\ new = [item EXCEPT !.archived = TRUE]
  \/ in.op = "Unarchive" /\ new = [item EXCEPT !.archived = FALSE, !.published = None]

\* The new item of a SaveDraft that found none.
PreparedNew(in, new) ==
  /\ in.fields \in FieldMap
  /\ Registered(in.type) /\ ValidDraft(in.type, in.fields)
  /\ new = SavedItem(in, SaveTarget(in, None))

\* While nobody else works, what a call knows of the collection stays true.
Knows(docs, r, c) ==
  /\ c.pc \in {"getByID", "getByKey", "handler"} /\ c.in.op = "SaveDraft"
       => c.in.fields # None
  /\ c.pc = "getByKey" => c.in.key # None
  /\ c.pc \in {"getByKey", "handler", "delete"} /\ c.id # None
       => c.id \in Stored(docs) /\ c.item = Decode(docs[c.id])
  /\ c.pc = "handler" => \A i \in FieldTargets(docs, c.in.id, c.in.key) : c.id = i
  /\ c.pc = "upsert" =>
       \/ c.id \in Stored(docs) /\ Prepared(c.in, Decode(docs[c.id]), c.item)
       \/ c.id = r /\ PreparedNew(c.in, c.item)
  /\ c.pc \in {"setField", "insertField"} => ValidField(c.type, c.in.slot, c.in.value)
  /\ c.pc = "setField" =>
       \A i \in FieldTargets(docs, c.in.id, c.in.key) :
         ~docs[i].archived /\ docs[i].type = c.type
  /\ c.pc = "insertField" => FindByKey(docs, c.in.key) = {}
  /\ c.pc = "delete" => c.in.op = "Delete"

SeqInv ==
  /\ \A q, r \in Request : Active(q) /\ Active(r) => q = r
  /\ \A r \in Request : Active(r) => Knows(items, r, call[r])
  /\ \A r \in Request : call[r].pc \notin {"emit", "done"} => r \notin Stored(items)
  /\ \A r \in Request : call[r].pc = "idle" => call[r].id = None

------------------------------------------------------------------------------
(* The entry of an item.                                                    *)

Status(item) == IF item.published = None THEN "draft"
                ELSE IF item.draft.revision = item.published.revision THEN "published"
                ELSE "changed"
LiveFields(item) == IF item.published = None THEN None ELSE FieldsOf(item.published)

EntryRecord(key, type, owner, revision, fields, status, live, archived) ==
  [ key |-> key, type |-> type, owner |-> owner, revision |-> revision, fields |-> fields,
    status |-> status, live |-> live, archived |-> archived ]

Only(key, type, owner, revision, fields, status, live, archived) ==
  [ key : {key}, type : {type}, owner : {owner}, revision : {revision}, fields : {fields},
    status : {status}, live : {live}, archived : {archived} ]

LEMMA OnlyRecord ==
  ASSUME NEW k, NEW t, NEW o, NEW n, NEW f, NEW st, NEW live, NEW a,
         NEW e, e \in Only(k, t, o, n, f, st, live, a)
  PROVE  e = EntryRecord(k, t, o, n, f, st, live, a)
BY DEF Only, EntryRecord

Touched(status) == IF status = "draft" THEN "draft" ELSE "changed"

Revised(e, fields, key, owner) ==
  [Promise!Redrafted(e, fields) EXCEPT !.key = key, !.owner = owner]

Edits(e, k, t, o, n, f, st, live, a) ==
  /\ e.key = k /\ e.type = t /\ e.fields = f /\ e.live = live /\ e.archived = a
  /\ [e EXCEPT !.archived = TRUE] = EntryRecord(k, t, o, n, f, st, live, TRUE)
  /\ [e EXCEPT !.status = "published", !.live = e.fields]
       = EntryRecord(k, t, o, n, f, "published", f, a)
  /\ Promise!Withdrawn(e) = EntryRecord(k, t, o, n, f, "draft", None, a)
  /\ [Promise!Withdrawn(e) EXCEPT !.archived = FALSE]
       = EntryRecord(k, t, o, n, f, "draft", None, FALSE)
  /\ \A g : Promise!Redrafted(e, g) = EntryRecord(k, t, o, n + 1, g, Touched(st), live, a)
  /\ \A g, k2, o2 :
       Revised(e, g, k2, o2) = EntryRecord(k2, t, o2, n + 1, g, Touched(st), live, a)

\* What each operation of the lifecycle machine makes of an entry.
LEMMA EntryEdits ==
  ASSUME NEW k, NEW t, NEW o, NEW n, NEW f, NEW st, NEW live, NEW a,
         NEW e, e = EntryRecord(k, t, o, n, f, st, live, a)
  PROVE  Edits(e, k, t, o, n, f, st, live, a)
<1> DEFINE E == [ key |-> k, type |-> t, owner |-> o, revision |-> n, fields |-> f,
                  status |-> st, live |-> live, archived |-> a ]
           W == [E EXCEPT !.status = "draft", !.live = None]
           st2 == Touched(st)
<1>1. /\ E.key = k /\ E.type = t /\ E.fields = f /\ E.live = live /\ E.archived = a
      /\ E.status = st /\ E.revision = n
  OBVIOUS
<1>2. [E EXCEPT !.archived = TRUE] \in Only(k, t, o, n, f, st, live, TRUE)
  BY DEF Only
<1>3. [E EXCEPT !.status = "published", !.live = f]
        \in Only(k, t, o, n, f, "published", f, a)
  BY DEF Only
<1>4. W \in Only(k, t, o, n, f, "draft", None, a)
  BY DEF Only
<1>5. [W EXCEPT !.archived = FALSE] \in Only(k, t, o, n, f, "draft", None, FALSE)
  BY DEF Only
<1>6. ASSUME NEW g, NEW s
      PROVE  [E EXCEPT !.fields = g, !.revision = n + 1, !.status = s]
               \in Only(k, t, o, n + 1, g, s, live, a)
  BY DEF Only
<1>7. ASSUME NEW g, NEW s, NEW k2, NEW o2
      PROVE  [[E EXCEPT !.fields = g, !.revision = n + 1, !.status = s]
                EXCEPT !.key = k2, !.owner = o2]
               \in Only(k2, t, o2, n + 1, g, s, live, a)
  BY DEF Only
<1>8. e = E
  BY DEF EntryRecord
<1> HIDE DEF E, W, st2
<1>9. Promise!Withdrawn(E) = W
  BY Zenon DEF Promise!Withdrawn, W
<1>10. ASSUME NEW g
       PROVE  Promise!Redrafted(E, g)
                = [E EXCEPT !.fields = g, !.revision = n + 1, !.status = st2]
  BY <1>1, Zenon DEF Promise!Redrafted, st2, Touched
<1>11. /\ [E EXCEPT !.archived = TRUE] = EntryRecord(k, t, o, n, f, st, live, TRUE)
       /\ [E EXCEPT !.status = "published", !.live = E.fields]
            = EntryRecord(k, t, o, n, f, "published", f, a)
       /\ Promise!Withdrawn(E) = EntryRecord(k, t, o, n, f, "draft", None, a)
       /\ [Promise!Withdrawn(E) EXCEPT !.archived = FALSE]
            = EntryRecord(k, t, o, n, f, "draft", None, FALSE)
  BY <1>1, <1>2, <1>3, <1>4, <1>5, <1>9, OnlyRecord, Zenon
<1>12. ASSUME NEW g, NEW k2, NEW o2
       PROVE  /\ Promise!Redrafted(E, g) = EntryRecord(k, t, o, n + 1, g, st2, live, a)
              /\ Revised(E, g, k2, o2) = EntryRecord(k2, t, o2, n + 1, g, st2, live, a)
  <2> DEFINE R == [E EXCEPT !.fields = g, !.revision = n + 1, !.status = st2]
  <2>1. R = EntryRecord(k, t, o, n + 1, g, st2, live, a)
    BY <1>6, OnlyRecord
  <2>2. [R EXCEPT !.key = k2, !.owner = o2] \in Only(k2, t, o2, n + 1, g, st2, live, a)
    BY <1>7, Zenon
  <2>3. [R EXCEPT !.key = k2, !.owner = o2] = EntryRecord(k2, t, o2, n + 1, g, st2, live, a)
    BY <2>2, OnlyRecord, Zenon
  <2> QED
    BY <1>10, <2>1, <2>3, Zenon DEF Revised
<1>13. /\ \A g : Promise!Redrafted(E, g) = EntryRecord(k, t, o, n + 1, g, st2, live, a)
       /\ \A g, k2, o2 :
            Revised(E, g, k2, o2) = EntryRecord(k2, t, o2, n + 1, g, st2, live, a)
  BY <1>12, Zenon
<1>14. Edits(E, k, t, o, n, f, st, live, a)
  BY <1>1, <1>11, <1>13, Zenon DEF st2, Edits
<1> QED
  BY <1>8, <1>14, Zenon

LEMMA EntryIs ==
  ASSUME NEW item \in Version
  PROVE  /\ EntryOf(item) = EntryRecord(item.key, item.type, item.owner, item.draft.revision,
                                     FieldsOf(item.draft), Status(item), LiveFields(item),
                                     item.archived)
         /\ EntryOf(item) \in Promise!Entry
         /\ EntryOf(item) # None
<1>1. item \in Item /\ item.draft # None /\ item.draft \in Snapshot
  BY NoneIsNoVersion DEF Version, Honest
<1>2. State([item EXCEPT !.archived = FALSE]) = Status(item)
  <2>1. /\ [item EXCEPT !.archived = FALSE].archived = FALSE
        /\ [item EXCEPT !.archived = FALSE].draft = item.draft
        /\ [item EXCEPT !.archived = FALSE].published = item.published
    BY <1>1 DEF Item
  <2> QED
    BY <1>1, <2>1 DEF State, Status
<1>3. EntryOf(item) = EntryRecord(item.key, item.type, item.owner, item.draft.revision,
                                  FieldsOf(item.draft), Status(item), LiveFields(item),
                                  item.archived)
  BY <1>2 DEF EntryOf, EntryRecord, LiveFields
<1>4. FieldsOf(item.draft) \in ShownFields
  BY <1>1, FieldsAreAMap
<1>5. item.published # None => FieldsOf(item.published) \in ShownFields
  BY <1>1, FieldsAreAMap DEF Item
<1>6. Status(item) \in {"draft", "changed", "published"}
  BY DEF Status
<1>7. item.draft.revision \in Nat
  BY <1>1 DEF Snapshot
<1>8. EntryOf(item) \in Promise!Entry
  BY <1>1, <1>3, <1>4, <1>5, <1>6, <1>7
     DEF EntryRecord, LiveFields, Promise!Entry, Promise!ShownFields, ShownFields, Item
<1> QED
  BY <1>3, <1>8, EntryAssumption

\* A read shows the catalog what is stored.
LEMMA DecodedEntry ==
  ASSUME NEW doc \in Version
  PROVE  /\ Decode(doc) \in Version
         /\ EntryOf(Decode(doc)) = EntryOf(doc)
         /\ Decode(doc).archived = doc.archived /\ Decode(doc).type = doc.type
<1> DEFINE item == Decode(doc)
<1>1. /\ doc \in Item /\ doc.draft # None /\ doc.draft \in Snapshot
      /\ doc.published \in Snapshot \cup {None}
  BY NoneIsNoVersion DEF Version, Honest, Item
<1>2. /\ item.key = doc.key /\ item.type = doc.type /\ item.owner = doc.owner
      /\ item.archived = doc.archived
      /\ item.draft = DecodeSnapshot(doc.draft)
      /\ item.published = DecodeSnapshot(doc.published)
  BY <1>1 DEF Decode, Item
<1>3. ASSUME NEW s \in Snapshot
      PROVE  /\ DecodeSnapshot(s) # None /\ DecodeSnapshot(s).revision = s.revision
             /\ FieldsOf(DecodeSnapshot(s)) = FieldsOf(s)
  <2>1. DecodeSnapshot(s) \in Snapshot /\ FieldsOf(DecodeSnapshot(s)) = FieldsOf(s)
    BY DecodeKeepsSlots
  <2>2. DecodeSnapshot(s).revision = s.revision
    BY DEF DecodeSnapshot, Snapshot
  <2> QED
    BY <2>1, <2>2, NilAssumption
<1>4. DecodeSnapshot(None) = None
  BY DEF DecodeSnapshot
<1>5. /\ item.draft.revision = doc.draft.revision
      /\ FieldsOf(item.draft) = FieldsOf(doc.draft)
      /\ item.published = None <=> doc.published = None
      /\ doc.published # None =>
           /\ item.published.revision = doc.published.revision
           /\ FieldsOf(item.published) = FieldsOf(doc.published)
  BY <1>1, <1>2, <1>3, <1>4
<1>6. Status(item) = Status(doc)
  BY <1>5 DEF Status
<1>7. LiveFields(item) = LiveFields(doc)
  BY <1>5 DEF LiveFields
<1>8. item \in Version
  BY DecodeIsVersion
<1> HIDE DEF item
<1>9. EntryOf(item) = EntryOf(doc)
  BY <1>2, <1>5, <1>6, <1>8, <1>7, EntryIs
<1> QED
  BY <1>2, <1>8, <1>9 DEF item

\* A write to one document changes one entry of the catalog.
LEMMA PutEntry ==
  ASSUME ItemsOK, NEW i \in ID, NEW new \in Version, items' = [items EXCEPT ![i] = new]
  PROVE  Promise!Becomes(i, EntryOf(new))
<1>1. items \in [ID -> Version \cup {None}] /\ items' \in [ID -> Version \cup {None}]
      /\ new # None
  BY NoneIsNoVersion DEF ItemsOK
<1>2. CatalogOf(items)' = CatalogOf(items')
  BY DEF CatalogOf
<1>3. CatalogOf(items') = [CatalogOf(items) EXCEPT ![i] = EntryOf(new)]
  BY <1>1 DEF CatalogOf
<1> QED
  BY <1>2, <1>3 DEF Promise!Becomes

LEMMA RemoveEntry ==
  ASSUME ItemsOK, NEW i \in ID, items' = [items EXCEPT ![i] = None]
  PROVE  Promise!Becomes(i, None)
<1>1. items \in [ID -> Version \cup {None}] /\ items' \in [ID -> Version \cup {None}]
  BY DEF ItemsOK
<1>2. CatalogOf(items)' = CatalogOf(items')
  BY DEF CatalogOf
<1>3. CatalogOf(items') = [CatalogOf(items) EXCEPT ![i] = None]
  BY <1>1 DEF CatalogOf
<1> QED
  BY <1>2, <1>3 DEF Promise!Becomes

\* What the catalog says of a stored item, and of a missing one.
LEMMA CatalogEntry ==
  ASSUME ItemsOK, NEW i \in ID
  PROVE  /\ i \notin Stored(items) => CatalogOf(items)[i] = None
         /\ i \in Stored(items) =>
              /\ items[i] \in Version
              /\ CatalogOf(items)[i] = EntryOf(items[i])
              /\ Promise!Live(i)
<1>1. items \in [ID -> Version \cup {None}]
  BY DEF ItemsOK
<1>2. CatalogOf(items)[i] = IF items[i] = None THEN None ELSE EntryOf(items[i])
  BY DEF CatalogOf
<1>3. i \in Stored(items) <=> items[i] # None
  BY <1>1 DEF Stored
<1> QED
  BY <1>1, <1>2, <1>3, EntryIs DEF Promise!Live

\* The unique index on the collection keeps keys free in the catalog.
LEMMA FreeKey ==
  ASSUME ItemsOK, NEW i \in ID, NEW k \in Key \cup {None}, ~KeyTaken(items, i, k)
  PROVE  Promise!KeyFree(i, k)
<1> SUFFICES ASSUME k # None, NEW j \in ID \ {i}, CatalogOf(items)[j] # None
             PROVE  CatalogOf(items)[j].key # k
  BY DEF Promise!KeyFree
<1>1. j \in Stored(items) /\ items[j] \in Version /\ CatalogOf(items)[j] = EntryOf(items[j])
  BY CatalogEntry
<1>2. items[j].key # k
  BY <1>1 DEF KeyTaken
<1>3. EntryOf(items[j]).key = items[j].key
  BY DEF EntryOf
<1> QED
  BY <1>1, <1>2, <1>3

\* The lifecycle machine validates as the engine does.
LEMMA SameRules ==
  ASSUME NEW t, NEW s, NEW v, NEW f
  PROVE  /\ Promise!ShownFields = ShownFields
         /\ Promise!ValidField(t, s, v) <=> ValidField(t, s, v)
         /\ Promise!ValidDraft(t, f) <=> ValidDraft(t, f)
         /\ Promise!ValidPublish(t, f) <=> ValidPublish(t, f)
BY DEF Promise!ShownFields, ShownFields, Promise!ValidField, ValidField,
       Promise!ValidDraft, ValidDraft, Promise!ValidPublish, ValidPublish,
       Promise!Registered, Registered, Promise!Complete, Complete, Promise!Raw, Raw,
       Promise!At, At, Promise!HasValue, HasValue

\* What an entry shows of a field set is a field set without nulls.
LEMMA ShownSlots ==
  ASSUME NEW f \in ShownFields
  PROVE  /\ f \in FieldMap /\ f \notin {None, Missing}
         /\ \A s \in Slot : Raw(f, s) = f[s] /\ At(f, s) = f[s]
<1>1. f \in FieldMap
  BY DEF ShownFields, FieldMap
<1>2. f \notin {None, Missing}
  BY <1>1, NilAssumption
<1>3. ASSUME NEW s \in Slot PROVE f[s] \notin {Null, NullMap}
  BY NilAssumption DEF ShownFields
<1> QED
  BY <1>1, <1>2, <1>3 DEF Raw, At

\* The slots a valid draft shows are a valid draft of their own.
ShownOf(fields) == [t \in Slot |-> At(fields, t)]

LEMMA ShownDraft ==
  ASSUME NEW t, NEW fields \in FieldMap, ValidDraft(t, fields)
  PROVE  ShownOf(fields) \in ShownFields /\ ValidDraft(t, ShownOf(fields))
<1>1. \A s \in Slot : At(fields, s) \in Value \cup {None}
  BY DEF At, Raw, FieldMap
<1>2. /\ ShownOf(fields) \in ShownFields
      /\ \A s \in Slot : ShownOf(fields)[s] = At(fields, s)
  BY <1>1 DEF ShownOf, ShownFields
<1> HIDE DEF ShownOf
<1>3. \A s \in Slot : /\ Raw(ShownOf(fields), s) = At(fields, s)
                      /\ At(ShownOf(fields), s) = At(fields, s)
  BY <1>2, ShownSlots
<1>4. ASSUME NEW s \in Slot, At(fields, s) # None PROVE ValidField(t, s, At(fields, s))
  BY <1>4, NilAssumption DEF ValidDraft, At
<1>5. \A s \in Slot : At(fields, s) # NullMap
  BY <1>1, NilAssumption
<1>6. Registered(t)
  BY DEF ValidDraft
<1> QED
  BY <1>2, <1>3, <1>4, <1>5, <1>6 DEF ValidDraft

\* The slots of a draft are the fields of its entry.
LEMMA EntryFields ==
  ASSUME NEW item \in Version
  PROVE  /\ \A s : s \in Slot => At(FieldsOf(item.draft), s) = At(item.draft.fields, s)
         /\ \A t : ValidPublish(t, item.draft.fields) => ValidPublish(t, FieldsOf(item.draft))
<1>1. FieldsOf(item.draft) \in ShownFields
  BY NoneIsNoVersion, FieldsAreAMap
<1>3. \A s : s \in Slot => At(FieldsOf(item.draft), s) = At(item.draft.fields, s)
  <2> SUFFICES ASSUME NEW s \in Slot
               PROVE  At(FieldsOf(item.draft), s) = At(item.draft.fields, s)
    OBVIOUS
  <2>1. At(FieldsOf(item.draft), s) = FieldsOf(item.draft)[s]
    BY <1>1, ShownSlots
  <2>2. FieldsOf(item.draft)[s] = At(item.draft.fields, s)
    BY DEF FieldsOf
  <2> QED
    BY <2>1, <2>2
<1>4. ASSUME NEW t, ValidPublish(t, item.draft.fields)
      PROVE  ValidPublish(t, FieldsOf(item.draft))
  <2>1. Schema[t].required \subseteq Slot
    BY <1>4, RegistryAssumption DEF ValidPublish, Registered, SchemaType
  <2> QED
    BY <1>3, <1>4, <2>1 DEF ValidPublish, Complete
<1> QED
  BY <1>3, <1>4

------------------------------------------------------------------------------
(* Every write is an operation of the lifecycle machine.                    *)

\* A saved draft is the entry's next revision.
LEMMA SavedEntry ==
  ASSUME NEW in \in Input, NEW old \in Version, in.fields \in FieldMap,
         NEW new \in Version, new = SavedItem(in, SaveTarget(in, old))
  PROVE  /\ new.key \in Key \cup {None} /\ new.owner \in Owner \cup {None}
         /\ new.key = old.key \/ old.key = None
         /\ EntryOf(new) = EntryRecord(new.key, old.type, new.owner, old.draft.revision + 1,
                                    ShownOf(in.fields),
                                    Touched(Status(old)), LiveFields(old), old.archived)
<1> DEFINE target == SaveTarget(in, old)
           key == IF old.key = None THEN in.key ELSE old.key
           draft == [ revision |-> IF target.draft = None THEN 1 ELSE target.draft.revision + 1,
                      schema   |-> target.type,
                      fields   |-> in.fields ]
           owner == IF in.owner # None THEN in.owner ELSE target.owner
<1>1. /\ old \in Item /\ old # None /\ old.draft # None /\ old.draft \in Snapshot
      /\ old.draft.revision \in Nat
      /\ old.published # None =>
           /\ old.published.revision <= old.draft.revision
           /\ old.published.revision \in Nat
  BY NoneIsNoVersion DEF Version, Honest, Item, Snapshot
<1>2. target = [old EXCEPT !.key = key]
  BY <1>1 DEF SaveTarget
<1>3. /\ target.draft = old.draft /\ target.published = old.published
      /\ target.type = old.type /\ target.archived = old.archived /\ target.key = key
      /\ target = [ key |-> key, type |-> old.type, owner |-> old.owner,
                    draft |-> old.draft, published |-> old.published,
                    archived |-> old.archived ]
  BY <1>1, <1>2 DEF Item
<1>4. new = [target EXCEPT !.draft = draft, !.owner = owner]
  BY DEF SavedItem
<1> HIDE DEF draft, owner, key, target
<1>5. /\ new.key = key /\ new.type = old.type /\ new.owner = owner /\ new.draft = draft
      /\ new.published = old.published /\ new.archived = old.archived
  BY <1>3, <1>4
<1>6. draft.revision = old.draft.revision + 1 /\ draft.fields = in.fields
  BY <1>1, <1>3 DEF draft
<1>7. FieldsOf(new.draft) = ShownOf(in.fields)
  BY <1>5, <1>6 DEF FieldsOf, ShownOf
<1>8. Status(new) = Touched(Status(old))
  BY <1>1, <1>5, <1>6 DEF Status, Touched
<1>9. new.key \in Key \cup {None} /\ new.owner \in Owner \cup {None}
  BY NoneIsNoVersion DEF Version, Item
<1>10. new.key = old.key \/ old.key = None
  BY <1>5 DEF key
<1>11. LiveFields(new) = LiveFields(old)
  BY <1>5 DEF LiveFields
<1> QED
  BY <1>5, <1>6, <1>7, <1>8, <1>9, <1>10, <1>11, EntryIs

\* An Upsert of a call that works alone is Revise, Publish, Unpublish, Archive or
\* Unarchive.
LEMMA PreparedIsPromised ==
  ASSUME ItemsOK, NEW i \in Stored(items), NEW in \in Input, NEW new \in Version,
         Prepared(in, Decode(items[i]), new), ~KeyTaken(items, i, new.key),
         items' = [items EXCEPT ![i] = new]
  PROVE  Promise!Next
<1> DEFINE old == Decode(items[i])
           entry == CatalogOf(items)[i]
           fields == FieldsOf(old.draft)
           shown == ShownOf(in.fields)
<1>0. i \in ID /\ items[i] \in Version
  BY CatalogEntry DEF Stored, ItemsOK
<1>1. old \in Version /\ EntryOf(old) = EntryOf(items[i])
  BY <1>0, DecodedEntry
<1>2. /\ entry = EntryRecord(old.key, old.type, old.owner, old.draft.revision, fields,
                             Status(old), LiveFields(old), old.archived)
      /\ Promise!Live(i)
  BY <1>0, <1>1, CatalogEntry, EntryIs
<1>3. Promise!Becomes(i, EntryOf(new))
  BY <1>0, PutEntry
<1>4. /\ old \in Item /\ old.draft # None /\ old.draft \in Snapshot
      /\ old.published # None => old.published \in Snapshot
  BY <1>1, NoneIsNoVersion DEF Version, Honest, Item
<1>5. Prepared(in, old, new)
  OBVIOUS
<1> HIDE DEF old
<1>6. Edits(entry, old.key, old.type, old.owner, old.draft.revision, fields, Status(old),
            LiveFields(old), old.archived)
  <2> HIDE DEF entry, fields
  <2> QED
    BY <1>2, EntryEdits, Zenon
<1>a. /\ entry.type = old.type /\ entry.archived = old.archived /\ entry.key = old.key
      /\ entry.live = LiveFields(old) /\ entry.fields = fields
  BY <1>6, Zenon DEF Edits
<1>7. CASE /\ in.op = "SaveDraft" /\ ~old.archived /\ in.fields \in FieldMap
           /\ ValidDraft(old.type, in.fields)
           /\ new = SavedItem(in, SaveTarget(in, old))
  <2>1. /\ new.key \in Key \cup {None} /\ new.owner \in Owner \cup {None}
        /\ new.key = old.key \/ old.key = None
        /\ EntryOf(new) = EntryRecord(new.key, old.type, new.owner, old.draft.revision + 1,
                                      shown,
                                      Touched(Status(old)), LiveFields(old), old.archived)
    BY <1>1, <1>7, SavedEntry
  <2>2. Promise!KeyFree(i, new.key)
    BY <1>0, <2>1, FreeKey
  <2>3. Promise!ValidDraft(entry.type, shown) /\ shown \in Promise!ShownFields
    BY <1>a, <1>7, ShownDraft, SameRules
  <2> HIDE DEF shown
  <2>a. Revised(entry, shown, new.key, new.owner) = EntryOf(new)
    <3> HIDE DEF entry, fields
    <3>1. \A g, k, o : Revised(entry, g, k, o)
                         = EntryRecord(k, old.type, o, old.draft.revision + 1, g,
                                       Touched(Status(old)), LiveFields(old), old.archived)
      BY <1>6, Zenon DEF Edits
    <3> QED
      BY <2>1, <3>1
  <2>4. Promise!Becomes(i, [Promise!Redrafted(entry, shown)
                              EXCEPT !.key = new.key, !.owner = new.owner])
    BY <1>3, <2>a, Zenon DEF Revised
  <2>5. new.key = entry.key \/ (entry.key = None /\ Promise!KeyFree(i, new.key))
    BY <1>a, <2>1, <2>2
  <2>6. Promise!Editable(i)
    BY <1>2, <1>a, <1>7 DEF Promise!Editable
  <2>7. Promise!Revise(i)
    BY <2>1, <2>3, <2>4, <2>5, <2>6, Zenon DEF Promise!Revise
  <2> QED
    BY <1>0, <2>7 DEF Promise!Next
<1>8. CASE /\ ~old.archived /\ ValidPublish(old.type, old.draft.fields)
           /\ new = [old EXCEPT !.published = old.draft]
  <2>1. /\ new.key = old.key /\ new.type = old.type /\ new.owner = old.owner
        /\ new.draft = old.draft /\ new.published = old.draft /\ new.archived = old.archived
    BY <1>4, <1>8 DEF Item
  <2>2. Status(new) = "published"
    BY <1>4, <2>1 DEF Status
  <2>3. LiveFields(new) = fields
    BY <1>4, <2>1 DEF LiveFields
  <2>4. EntryOf(new) = EntryRecord(old.key, old.type, old.owner, old.draft.revision, fields,
                                   "published", fields, old.archived)
    BY <2>1, <2>2, <2>3, EntryIs
  <2>5. Promise!ValidPublish(entry.type, entry.fields)
    BY <1>1, <1>a, <1>8, EntryFields, SameRules
  <2>6. Promise!Becomes(i, [entry EXCEPT !.status = "published", !.live = entry.fields])
    BY <1>3, <1>6, <2>4, Zenon DEF Edits
  <2>7. Promise!Editable(i)
    BY <1>2, <1>a, <1>8 DEF Promise!Editable
  <2>8. Promise!Publish(i)
    BY <2>5, <2>6, <2>7, Zenon DEF Promise!Publish
  <2> QED
    BY <1>0, <2>8 DEF Promise!Next
<1>9. CASE ~old.archived /\ old.published # None /\ new = [old EXCEPT !.published = None]
  <2>1. /\ new.key = old.key /\ new.type = old.type /\ new.owner = old.owner
        /\ new.draft = old.draft /\ new.published = None /\ new.archived = old.archived
    BY <1>4, <1>9 DEF Item
  <2>2. Status(new) = "draft" /\ LiveFields(new) = None
    BY <2>1 DEF Status, LiveFields
  <2>a. EntryOf(new) = EntryRecord(old.key, old.type, old.owner, old.draft.revision, fields,
                                   "draft", None, old.archived)
    BY <2>1, <2>2, EntryIs
  <2>3. EntryOf(new) = Promise!Withdrawn(entry)
    BY <1>6, <2>a, Zenon DEF Edits
  <2>4. entry.live # None
    BY <1>4, <1>a, <1>9, FieldsAreAMap DEF LiveFields
  <2>5. Promise!Unpublish(i)
    BY <1>2, <1>3, <1>a, <1>9, <2>3, <2>4 DEF Promise!Unpublish, Promise!Editable
  <2> QED
    BY <1>0, <2>5 DEF Promise!Next
<1>10. CASE new = [old EXCEPT !.archived = TRUE]
  <2>1. /\ new.key = old.key /\ new.type = old.type /\ new.owner = old.owner
        /\ new.draft = old.draft /\ new.published = old.published /\ new.archived = TRUE
    BY <1>4, <1>10 DEF Item
  <2>2. Status(new) = Status(old) /\ LiveFields(new) = LiveFields(old)
    BY <2>1 DEF Status, LiveFields
  <2>a. EntryOf(new) = EntryRecord(old.key, old.type, old.owner, old.draft.revision, fields,
                                   Status(old), LiveFields(old), TRUE)
    BY <2>1, <2>2, EntryIs
  <2>3. EntryOf(new) = [entry EXCEPT !.archived = TRUE]
    BY <1>6, <2>a, Zenon DEF Edits
  <2>4. Promise!Archive(i)
    BY <1>2, <1>3, <2>3 DEF Promise!Archive
  <2> QED
    BY <1>0, <2>4 DEF Promise!Next
<1>11. CASE new = [old EXCEPT !.archived = FALSE, !.published = None]
  <2>1. /\ new.key = old.key /\ new.type = old.type /\ new.owner = old.owner
        /\ new.draft = old.draft /\ new.published = None /\ new.archived = FALSE
    BY <1>4, <1>11 DEF Item
  <2>2. Status(new) = "draft" /\ LiveFields(new) = None
    BY <2>1 DEF Status, LiveFields
  <2>a. EntryOf(new) = EntryRecord(old.key, old.type, old.owner, old.draft.revision, fields,
                                   "draft", None, FALSE)
    BY <2>1, <2>2, EntryIs
  <2>3. EntryOf(new) = [Promise!Withdrawn(entry) EXCEPT !.archived = FALSE]
    BY <1>6, <2>a, Zenon DEF Edits
  <2>4. Promise!Unarchive(i)
    BY <1>2, <1>3, <2>3 DEF Promise!Unarchive
  <2> QED
    BY <1>0, <2>4 DEF Promise!Next
<1> QED
  BY <1>5, <1>7, <1>8, <1>9, <1>10, <1>11 DEF Prepared

\* The SaveDraft and the field write that create an item are Create.
LEMMA NewIsPromised ==
  ASSUME ItemsOK, NEW i \in ID \ Stored(items), NEW new \in Version, NEW f \in ShownFields,
         ValidDraft(new.type, f), FieldsOf(new.draft) = f, new.draft.revision = 1,
         new.published = None, new.archived = FALSE,
         ~KeyTaken(items, i, new.key), items' = [items EXCEPT ![i] = new]
  PROVE  Promise!Next
<1>1. CatalogOf(items)[i] = None
  BY CatalogEntry
<1>2. Promise!Becomes(i, EntryOf(new))
  BY PutEntry
<1>3. /\ new.key \in Key \cup {None} /\ new.owner \in Owner \cup {None}
      /\ new.type \in ContentType
  BY DEF Version, Item
<1>4. Promise!KeyFree(i, new.key)
  BY <1>3, FreeKey
<1>5. Promise!ValidDraft(new.type, f) /\ f \in Promise!ShownFields
  BY SameRules
<1>6. EntryOf(new) = [ key |-> new.key, type |-> new.type, owner |-> new.owner, revision |-> 1,
                       fields |-> f, status |-> "draft", live |-> None, archived |-> FALSE ]
  <2>1. Status(new) = "draft" /\ LiveFields(new) = None
    BY DEF Status, LiveFields
  <2>2. EntryOf(new) = EntryRecord(new.key, new.type, new.owner, 1, f, "draft", None, FALSE)
    BY <2>1, EntryIs
  <2> QED
    BY <2>2 DEF EntryRecord
<1>7. Promise!Create(i)
  BY <1>1, <1>2, <1>3, <1>4, <1>5, <1>6, Zenon DEF Promise!Create
<1> QED
  BY <1>7 DEF Promise!Next

LEMMA PreparedNewIsPromised ==
  ASSUME ItemsOK, NEW i \in ID \ Stored(items), NEW in \in Input, NEW new \in Version,
         PreparedNew(in, new), ~KeyTaken(items, i, new.key),
         items' = [items EXCEPT ![i] = new]
  PROVE  Promise!Next
<1> DEFINE target == [ key |-> in.key, type |-> in.type, owner |-> in.owner,
                       draft |-> None, published |-> None, archived |-> FALSE ]
           draft == [ revision |-> 1, schema |-> in.type, fields |-> in.fields ]
           owner == IF in.owner # None THEN in.owner ELSE target.owner
<1>1. /\ in.fields \in FieldMap /\ ValidDraft(in.type, in.fields)
      /\ new = SavedItem(in, target)
  BY DEF PreparedNew, SaveTarget
<1>2. new = [target EXCEPT !.draft = draft, !.owner = owner]
  BY <1>1 DEF SavedItem
<1>3. /\ new.type = in.type /\ new.draft = draft /\ new.published = None
      /\ new.archived = FALSE
  BY <1>2
<1>4. new.draft.revision = 1 /\ new.draft.fields = in.fields
  BY <1>3
<1> HIDE DEF draft, target, owner
<1>5. FieldsOf(new.draft) = ShownOf(in.fields)
  BY <1>4 DEF FieldsOf, ShownOf
<1>6. ValidDraft(new.type, ShownOf(in.fields)) /\ ShownOf(in.fields) \in ShownFields
  BY <1>1, <1>3, ShownDraft
<1> QED
  BY <1>1, <1>3, <1>4, <1>5, <1>6, NewIsPromised

LEMMA FieldInsertIsPromised ==
  ASSUME ItemsOK, NEW i \in ID \ Stored(items), NEW key \in Key \cup {None},
         NEW type, NEW owner, NEW slot, NEW value \in Value \cup {None},
         ValidField(type, slot, value),
         FieldInserted(key, type, owner, slot, value) \in Version,
         ~KeyTaken(items, i, key),
         items' = [items EXCEPT ![i] = FieldInserted(key, type, owner, slot, value)]
  PROVE  Promise!Next
<1> DEFINE new == FieldInserted(key, type, owner, slot, value)
           fields == FieldsOf(new.draft)
<1>1. /\ new.key = key /\ new.type = type /\ new.published = None /\ new.archived = FALSE
      /\ new.draft.revision = 1
      /\ new.draft.fields = MergeField(Missing, slot, value)
  BY DEF FieldInserted
<1>2. fields \in ShownFields
  <2>1. new.draft \in Snapshot
    BY NoneIsNoVersion
  <2> QED
    BY <2>1, FieldsAreAMap
<1>3. \A s \in Slot : fields[s] = IF slot = s THEN value ELSE None
  <2> TAKE s \in Slot
  <2>1. At(MergeField(Missing, slot, value), s) = IF slot = s THEN value ELSE At(Missing, s)
    BY MergedSlot
  <2> QED
    BY <1>1, <2>1 DEF FieldsOf, At, Raw
<1>4. ValidDraft(type, fields)
  <2>1. \A s \in Slot : /\ Raw(fields, s) = fields[s] /\ At(fields, s) = fields[s]
                        /\ fields[s] # NullMap
    <3> HIDE DEF fields
    <3>1. \A s \in Slot : Raw(fields, s) = fields[s] /\ At(fields, s) = fields[s]
      BY <1>2, ShownSlots
    <3> QED
      BY <1>2, <3>1, NilAssumption DEF ShownFields
  <2>2. Registered(type)
    BY DEF ValidField
  <2>3. ASSUME NEW s \in Slot, fields[s] # None PROVE ValidField(type, s, fields[s])
    BY <1>3, <2>3
  <2> HIDE DEF fields
  <2> QED
    BY <2>1, <2>2, <2>3 DEF ValidDraft
<1> HIDE DEF new, fields
<1>5. new \in Version /\ items' = [items EXCEPT ![i] = new]
  BY DEF new
<1>6. FieldsOf(new.draft) = fields
  BY DEF fields
<1> QED
  BY <1>1, <1>2, <1>4, <1>5, <1>6, NewIsPromised

\* The field write to a stored item is SetField.
LEMMA FieldUpdateIsPromised ==
  ASSUME ItemsOK, NEW i \in Stored(items), NEW slot, NEW value \in Value \cup {None},
         ValidField(items[i].type, slot, value), ~items[i].archived,
         FieldUpdated(items[i], items[i].type, slot, value) \in Version,
         items' = [items EXCEPT ![i] = FieldUpdated(items[i], items[i].type, slot, value)]
  PROVE  Promise!Next
<1> DEFINE old == items[i]
           draft == [ revision |-> old.draft.revision + 1, schema |-> old.type,
                      fields   |-> MergeField(old.draft.fields, slot, value) ]
           new == FieldUpdated(old, old.type, slot, value)
           entry == CatalogOf(items)[i]
           fields == FieldsOf(old.draft)
<1>0. /\ i \in ID /\ old \in Version /\ entry = EntryOf(old) /\ Promise!Live(i)
      /\ new \in Version
  BY CatalogEntry DEF Stored, ItemsOK
<1>1. /\ old \in Item /\ old.draft # None /\ old.draft \in Snapshot
      /\ old.published # None =>
           /\ old.published.revision <= old.draft.revision
           /\ old.published.revision \in Nat
      /\ old.draft.revision \in Nat
  BY <1>0, NoneIsNoVersion DEF Version, Honest, Item, Snapshot
<1>2. new = [old EXCEPT !.type = old.type, !.draft = draft]
  BY DEF FieldUpdated
<1>3. /\ new.key = old.key /\ new.type = old.type /\ new.owner = old.owner
      /\ new.draft = draft /\ new.published = old.published /\ new.archived = old.archived
  <2> HIDE DEF draft, new
  <2> QED
    BY <1>1, <1>2 DEF Item
<1>4. slot \in Slot
  BY RegistryAssumption DEF ValidField, Registered, SchemaType
<1>5. FieldsOf(draft) = [fields EXCEPT ![slot] = value]
  <2>1. fields \in ShownFields
    BY <1>1, FieldsAreAMap
  <2>2. \A s \in Slot : FieldsOf(draft)[s] = IF slot = s THEN value ELSE fields[s]
    <3> TAKE s \in Slot
    <3>1. old.draft.fields \in FieldMap \cup {None, Missing}
      BY <1>1 DEF Snapshot
    <3>2. At(draft.fields, s) = IF slot = s THEN value ELSE At(old.draft.fields, s)
      BY <3>1, MergedSlot
    <3> QED
      BY <3>2 DEF FieldsOf
  <2>3. FieldsOf(draft) = [s \in Slot |-> FieldsOf(draft)[s]]
    BY DEF FieldsOf
  <2> HIDE DEF draft, fields
  <2> QED
    BY <1>4, <2>1, <2>2, <2>3 DEF ShownFields
<1>6. Status(new) = Touched(Status(old)) /\ LiveFields(new) = LiveFields(old)
  <2>1. draft.revision = old.draft.revision + 1
    OBVIOUS
  <2> HIDE DEF draft, new
  <2> QED
    BY <1>1, <1>3, <2>1 DEF Status, Touched, LiveFields
<1>7. EntryOf(new) = EntryRecord(old.key, old.type, old.owner, old.draft.revision + 1,
                                 [fields EXCEPT ![slot] = value], Touched(Status(old)),
                                 LiveFields(old), old.archived)
  <2>1. draft.revision = old.draft.revision + 1
    OBVIOUS
  <2> HIDE DEF draft, new, fields
  <2> QED
    BY <1>0, <1>3, <1>5, <1>6, <2>1, EntryIs
<1>8. entry = EntryRecord(old.key, old.type, old.owner, old.draft.revision, fields,
                          Status(old), LiveFields(old), old.archived)
  BY <1>0, EntryIs
<1>9. Promise!Becomes(i, EntryOf(new))
  BY <1>0, PutEntry
<1> HIDE DEF entry, new, fields, old
<1>10. Edits(entry, old.key, old.type, old.owner, old.draft.revision, fields, Status(old),
             LiveFields(old), old.archived)
  BY <1>8, EntryEdits, Zenon
<1>11. /\ entry.type = old.type /\ entry.archived = old.archived /\ entry.fields = fields
       /\ \A g : Promise!Redrafted(entry, g)
                   = EntryRecord(old.key, old.type, old.owner, old.draft.revision + 1, g,
                                 Touched(Status(old)), LiveFields(old), old.archived)
  BY <1>10, Zenon DEF Edits
<1>12. Promise!Becomes(i, Promise!Redrafted(entry, [entry.fields EXCEPT ![slot] = value]))
  BY <1>7, <1>9, <1>11, Zenon
<1>13. Promise!ValidField(entry.type, slot, value) /\ ~entry.archived
  BY <1>11, SameRules DEF old
<1>14. Promise!SetField(i)
  BY <1>0, <1>4, <1>12, <1>13, Zenon DEF entry, Promise!SetField, Promise!Editable
<1> QED
  BY <1>0, <1>14 DEF Promise!Next

\* The deletion of a stored item is Remove; of a missing one it is no step.
LEMMA RemoveIsPromised ==
  ASSUME ItemsOK, NEW i \in Stored(items), items' = [items EXCEPT ![i] = None]
  PROVE  Promise!Next
<1>1. i \in ID
  BY DEF Stored, ItemsOK
<1>2. Promise!Remove(i)
  BY <1>1, CatalogEntry, RemoveEntry DEF Promise!Remove
<1> QED
  BY <1>1, <1>2 DEF Promise!Next

------------------------------------------------------------------------------
(* What a call that works alone knows, across its steps.                    *)

\* A step that ends in a return or a notification has nothing left to know.
LEMMA NothingToKnow ==
  ASSUME NEW docs, NEW r, NEW c, c.pc \in {"emit", "done"}
  PROVE  Knows(docs, r, c)
BY DEF Knows

LEMMA KnowsAtStart ==
  ASSUME IInv, SeqInv, NEW r \in Request, NEW in \in Inputs, Start(r, in)
  PROVE  Knows(items, r, call'[r])
<1> DEFINE bad == [call[r] EXCEPT !.pc = "done", !.in = in, !.result = "badRequest"]
           started == [call[r] EXCEPT !.pc = FirstStep(in), !.in = in]
<1>1. call[r] \in CallRecord /\ call[r].id = None /\ call \in [Request -> CallRecord]
  BY DEF IInv, CallsOK, SeqInv, Start, PcIs
<1>2. /\ bad.pc = "done"
      /\ started.pc = FirstStep(in) /\ started.in = in /\ started.id = None
  BY <1>1 DEF CallRecord
<1>3. call'[r] = bad \/ (call'[r] = started /\ ~BadArguments(in))
  BY <1>1 DEF Start, Become
<1> HIDE DEF bad, started
<1>4. ASSUME ~BadArguments(in) PROVE Knows(items, r, started)
  <2>1. in.op = "SaveDraft" => in.fields # None
    BY <1>4 DEF BadArguments, BadSave
  <2>2. FirstStep(in) = "handler" => FieldTargets(items, in.id, in.key) = {}
    <3>1. None \notin Stored(items)
      BY RequestAssumption DEF Stored, IInv, ItemsOK
    <3> QED
      BY <3>1 DEF FirstStep, FieldTargets, FindByID
  <2>3. FirstStep(in) = "getByKey" => in.key # None
    BY DEF FirstStep
  <2>4. FirstStep(in) \in {"getByID", "getByKey", "handler"}
    BY DEF FirstStep
  <2> QED
    BY <1>2, <2>1, <2>2, <2>3, <2>4 DEF Knows
<1> QED
  BY <1>2, <1>3, <1>4, NothingToKnow

\* What a step leaves in the call's record.
LEMMA NewRecord ==
  ASSUME IInv, NEW r \in Request
  PROVE  /\ \A pc, id, item : Hold(r, pc, id, item) =>
              /\ call'[r].pc = pc /\ call'[r].id = id /\ call'[r].item = item
              /\ call'[r].in = call[r].in /\ call'[r].type = call[r].type
         /\ \A id, item : Return(r, id, item) => call'[r].pc = "done"
         /\ \A kind : Fail(r, kind) => call'[r].pc = "done"
<1>1. call[r] \in CallRecord /\ call \in [Request -> CallRecord]
  BY DEF IInv, CallsOK
<1>2. ASSUME NEW pc, NEW id, NEW item, Hold(r, pc, id, item)
      PROVE  /\ call'[r].pc = pc /\ call'[r].id = id /\ call'[r].item = item
             /\ call'[r].in = call[r].in /\ call'[r].type = call[r].type
  BY <1>1, <1>2 DEF Hold, Become, CallRecord
<1>3. ASSUME NEW id, NEW item, Return(r, id, item) PROVE call'[r].pc = "done"
  BY <1>1, <1>3 DEF Return, Become, CallRecord
<1>4. ASSUME NEW kind, Fail(r, kind) PROVE call'[r].pc = "done"
  BY <1>1, <1>4 DEF Fail, Become, CallRecord
<1> QED
  BY <1>2, <1>3, <1>4

LEMMA KnowsAfterReads ==
  ASSUME IInv, SeqInv, NEW r \in Request, GetByID(r) \/ GetByKey(r)
  PROVE  Knows(items, r, call'[r])
<1> DEFINE c == call[r]
           d == call'[r]
<1>1. Active(r) /\ Knows(items, r, c)
  BY DEF SeqInv, Active, GetByID, GetByKey, PcIs
<1>2. None \notin Stored(items) /\ KeysUnique(items)
  BY RequestAssumption DEF Stored, IInv, ItemsOK
<1>3. CASE GetByID(r)
  <2> DEFINE next == IF c.in.key # None THEN "getByKey" ELSE "handler"
  <2>1. c.in.op = "SaveDraft" => c.in.fields # None
    BY <1>1, <1>3 DEF GetByID, PcIs, Knows
  <2>2. CASE \E i \in FindByID(items, c.in.id) : Hold(r, next, i, Decode(items[i]))
    <3>1. PICK i \in FindByID(items, c.in.id) : Hold(r, next, i, Decode(items[i]))
      BY <2>2
    <3>2. d.pc = next /\ d.id = i /\ d.item = Decode(items[i]) /\ d.in = c.in
      BY <3>1, NewRecord
    <3>3. i \in Stored(items) /\ i = c.in.id
      BY DEF FindByID
    <3>4. c.in.key = None => \A j \in FieldTargets(items, c.in.id, c.in.key) : j = i
      BY <3>3 DEF FieldTargets, FindByID
    <3> QED
      BY <2>1, <3>2, <3>3, <3>4 DEF Knows
  <2>3. CASE FindByID(items, c.in.id) = {} /\ Hold(r, next, None, None)
    <3>1. d.pc = next /\ d.id = None /\ d.in = c.in
      BY <2>3, NewRecord
    <3>2. c.in.key = None => FieldTargets(items, c.in.id, c.in.key) = {}
      BY <2>3 DEF FieldTargets
    <3> QED
      BY <2>1, <3>1, <3>2 DEF Knows
  <2>4. CASE \E kind : Fail(r, kind)
    BY <2>4, NewRecord, NothingToKnow
  <2> QED
    BY <1>3, <2>2, <2>3, <2>4 DEF GetByID
<1>4. CASE GetByKey(r)
  <2> DEFINE hits == FindByKey(items, c.in.key)
  <2>1. /\ c.in.op = "SaveDraft" => c.in.fields # None
        /\ c.in.key # None
        /\ c.id # None => c.id \in Stored(items) /\ c.item = Decode(items[c.id])
    BY <1>1, <1>4 DEF GetByKey, PcIs, Knows
  <2>2. FieldTargets(items, c.in.id, c.in.key) = hits
    BY <2>1 DEF FieldTargets
  <2>3. ASSUME NEW i \in hits, NEW j \in hits PROVE i = j
    BY <1>2, <2>1 DEF KeysUnique, FindByKey
  <2>4. CASE hits = {} /\ Hold(r, "handler", c.id, c.item)
    <3>1. d.pc = "handler" /\ d.id = c.id /\ d.item = c.item /\ d.in = c.in
      BY <2>4, NewRecord
    <3> QED
      BY <2>1, <2>2, <2>4, <3>1 DEF Knows
  <2>5. CASE \E i \in hits : Hold(r, "handler", i, Decode(items[i]))
    <3>1. PICK i \in hits : Hold(r, "handler", i, Decode(items[i]))
      BY <2>5
    <3>2. d.pc = "handler" /\ d.id = i /\ d.item = Decode(items[i]) /\ d.in = c.in
      BY <3>1, NewRecord
    <3>3. i \in Stored(items)
      BY DEF FindByKey
    <3> HIDE DEF hits
    <3> QED
      BY <2>1, <2>2, <2>3, <3>2, <3>3 DEF Knows
  <2>6. CASE \E i \in hits : c.id = i /\ Hold(r, "handler", c.id, c.item)
    <3>1. /\ c.id \in hits
          /\ d.pc = "handler" /\ d.id = c.id /\ d.item = c.item /\ d.in = c.in
      BY <2>6, NewRecord
    <3> HIDE DEF hits
    <3> QED
      BY <2>1, <2>2, <2>3, <3>1 DEF Knows
  <2>7. CASE \E kind : Fail(r, kind)
    BY <2>7, NewRecord, NothingToKnow
  <2> QED
    BY <1>4, <2>4, <2>5, <2>6, <2>7 DEF GetByKey
<1> QED
  BY <1>3, <1>4

LEMMA KnowsAfterSave ==
  ASSUME IInv, SeqInv, NEW r \in Request, SaveDraft(r)
  PROVE  Knows(items, r, call'[r])
<1> DEFINE c == call[r]
           target == SaveTarget(c.in, c.item)
           new == SavedItem(c.in, target)
           accepted == TypeUnchanged(c.in, target) /\ ValidDraft(target.type, c.in.fields)
<1>1. Active(r) /\ Knows(items, r, c) /\ c.pc = "handler" /\ c.in.op = "SaveDraft"
  BY DEF SeqInv, Active, SaveDraft, Handling, PcIs
<1>2. /\ c.in \in Input /\ (c.id = None <=> c.item = None)
      /\ c.item \in Version \cup {None}
  BY <1>1, ActiveCall DEF IInv
<1>3. c.in.fields \in FieldMap
  BY <1>1, <1>2 DEF Knows, Input
<1>4. CASE \E kind : Fail(r, kind)
  BY <1>4, NewRecord, NothingToKnow
<1>5. CASE /\ ~Frozen(c.item) /\ accepted
           /\ Hold(r, "upsert", IF c.item = None THEN r ELSE c.id, new)
  <2>1. /\ call'[r].pc = "upsert" /\ call'[r].id = IF c.item = None THEN r ELSE c.id
        /\ call'[r].item = new /\ call'[r].in = c.in
    BY <1>5, NewRecord
  <2>2. CASE c.item = None
    <3>1. target.type = c.in.type
      BY <2>2 DEF SaveTarget
    <3>2. Registered(c.in.type)
      BY <1>5, <3>1 DEF ValidDraft
    <3>3. PreparedNew(c.in, new)
      BY <1>3, <1>5, <2>2, <3>1, <3>2 DEF PreparedNew
    <3> HIDE DEF new
    <3> QED
      BY <2>1, <2>2, <3>3 DEF Knows
  <2>3. CASE c.item # None
    <3>1. c.id \in Stored(items) /\ c.item = Decode(items[c.id])
      BY <1>1, <1>2, <2>3 DEF Knows
    <3>2. target.type = c.item.type
      BY <1>2, <2>3 DEF SaveTarget, Version, Item
    <3>3. ~c.item.archived
      BY <1>5, <2>3 DEF Frozen
    <3>4. Prepared(c.in, c.item, new)
      BY <1>1, <1>3, <1>5, <3>2, <3>3 DEF Prepared
    <3> HIDE DEF new
    <3> QED
      BY <2>1, <2>3, <3>1, <3>4 DEF Knows
  <2> QED
    BY <2>2, <2>3
<1> QED
  BY <1>4, <1>5 DEF SaveDraft

LEMMA KnowsAfterFieldHandler ==
  ASSUME IInv, SeqInv, NEW r \in Request, SetFieldValue(r)
  PROVE  Knows(items, r, call'[r])
<1> DEFINE c == call[r]
           type == FieldWriteType(c.in, c.item)
           next == [c EXCEPT !.pc = "setField", !.type = type, !.id = None, !.item = None]
<1>1. Active(r) /\ Knows(items, r, c) /\ c.pc = "handler"
  BY DEF SeqInv, Active, SetFieldValue, Handling, PcIs
<1>2. /\ c \in CallRecord /\ call \in [Request -> CallRecord]
      /\ c.id = None <=> c.item = None
  BY <1>1, ActiveCall DEF IInv, CallsOK
<1>3. CASE \E kind : Fail(r, kind)
  BY <1>3, NewRecord, NothingToKnow
<1>4. CASE /\ ~Frozen(c.item) /\ ValidField(type, c.in.slot, c.in.value)
           /\ Become(r, next)
  <2>1. next.pc = "setField" /\ next.type = type /\ next.in = c.in
    BY <1>2 DEF CallRecord
  <2>2. call'[r] = next
    BY <1>2, <1>4 DEF Become
  <2>3. ASSUME NEW i \in FieldTargets(items, c.in.id, c.in.key)
        PROVE  ~items[i].archived /\ items[i].type = type
    <3>1. c.id = i
      BY <1>1 DEF Knows
    <3>2. i \in ID /\ i # None /\ items[i] \in Version
      BY CatalogEntry, RequestAssumption
         DEF FieldTargets, FindByKey, FindByID, Stored, IInv, ItemsOK
    <3>3. c.item # None /\ c.item = Decode(items[i])
      BY <1>1, <1>2, <3>1, <3>2 DEF Knows
    <3>4. c.item.archived = items[i].archived /\ c.item.type = items[i].type
      BY <3>2, <3>3, DecodedEntry
    <3> QED
      BY <1>4, <3>3, <3>4 DEF Frozen, FieldWriteType
  <2> HIDE DEF next, type
  <2> QED
    BY <1>4, <2>1, <2>2, <2>3 DEF Knows
<1> QED
  BY <1>3, <1>4 DEF SetFieldValue

LEMMA KnowsAfterHandler ==
  ASSUME IInv, SeqInv, NEW r \in Request, Handler(r)
  PROVE  Knows(items, r, call'[r])
<1> DEFINE c == call[r]
           item == c.item
<1>1. Active(r) /\ Knows(items, r, c) /\ c.pc = "handler"
  BY DEF SeqInv, Active, Handler, SaveDraft, SetFieldValue, Publish, Unpublish, Archive,
         Unarchive, Delete, GetItem, Handling, PcIs
<1>2. c.id = None <=> item = None
  BY <1>1, ActiveCall DEF IInv
<1>3. item # None => c.id \in Stored(items) /\ item = Decode(items[c.id])
  BY <1>1, <1>2 DEF Knows
<1>4. ASSUME NEW new, item # None, Prepared(c.in, item, new), Hold(r, "upsert", c.id, new)
      PROVE  Knows(items, r, call'[r])
  <2>1. /\ call'[r].pc = "upsert" /\ call'[r].id = c.id
        /\ call'[r].item = new /\ call'[r].in = c.in
    BY <1>4, NewRecord
  <2> QED
    BY <1>3, <1>4, <2>1 DEF Knows
<1>5. CASE \E kind : Fail(r, kind)
  BY <1>5, NewRecord, NothingToKnow
<1>6. CASE \E id, new : Return(r, id, new)
  BY <1>6, NewRecord, NothingToKnow
<1>7. CASE Publish(r)
  <2>1. CASE /\ item # None /\ ~Frozen(item) /\ Registered(item.type)
             /\ Complete(item.type, item.draft.fields)
             /\ Hold(r, "upsert", c.id, [item EXCEPT !.published = item.draft])
    <3>1. Prepared(c.in, item, [item EXCEPT !.published = item.draft])
      BY <1>7, <2>1 DEF Prepared, Frozen, ValidPublish, Publish, Handling
    <3> QED
      BY <1>4, <2>1, <3>1
  <2> QED
    BY <1>5, <1>7, <2>1 DEF Publish
<1>8. CASE Unpublish(r)
  <2>1. CASE /\ item # None /\ ~Frozen(item) /\ item.published # None
             /\ Hold(r, "upsert", c.id, [item EXCEPT !.published = None])
    <3>1. Prepared(c.in, item, [item EXCEPT !.published = None])
      BY <1>8, <2>1 DEF Prepared, Frozen, Unpublish, Handling
    <3> QED
      BY <1>4, <2>1, <3>1
  <2> QED
    BY <1>5, <1>6, <1>8, <2>1 DEF Unpublish
<1>9. CASE Archive(r)
  <2>1. Prepared(c.in, item, [item EXCEPT !.archived = TRUE])
    BY <1>9 DEF Prepared, Archive, Handling
  <2> QED
    BY <1>4, <1>5, <1>9, <2>1 DEF Archive
<1>10. CASE Unarchive(r)
  <2>1. Prepared(c.in, item, [item EXCEPT !.archived = FALSE, !.published = None])
    BY <1>10 DEF Prepared, Unarchive, Handling
  <2> QED
    BY <1>4, <1>5, <1>10, <2>1 DEF Unarchive
<1>11. CASE Delete(r)
  <2>1. CASE item # None /\ Hold(r, "delete", c.id, item)
    <3>1. /\ call'[r].pc = "delete" /\ call'[r].id = c.id /\ call'[r].item = item
          /\ call'[r].in = c.in
      BY <2>1, NewRecord
    <3>2. c.in.op = "Delete"
      BY <1>11 DEF Delete, Handling
    <3> QED
      BY <1>3, <2>1, <3>1, <3>2 DEF Knows
  <2> QED
    BY <1>6, <1>11, <2>1 DEF Delete
<1>12. CASE GetItem(r)
  BY <1>5, <1>6, <1>12 DEF GetItem
<1> QED
  BY <1>7, <1>8, <1>9, <1>10, <1>11, <1>12, KnowsAfterSave, KnowsAfterFieldHandler
     DEF Handler

\* A field write misses only when no item has its key, and its insert then has
\* nobody to lose to.
LEMMA KnowsAfterWrite ==
  ASSUME IInv, SeqInv, NEW r \in Request, Write(r)
  PROVE  call'[r].pc \in {"emit", "done"} \/ Knows(items, r, call'[r])
<1> DEFINE c == call[r]
           next == [c EXCEPT !.pc = "insertField"]
<1>1. Active(r) /\ Knows(items, r, c)
  BY DEF SeqInv, Active, Write, Upsert, UpdateField, MissField, InsertField, DeleteOne, PcIs
<1>2. c \in CallRecord /\ call \in [Request -> CallRecord]
  BY DEF IInv, CallsOK
<1>3. CASE Upsert(r) \/ UpdateField(r) \/ DeleteOne(r)
  BY <1>3, NewRecord DEF Upsert, UpdateField, DeleteOne
<1>4. CASE MissField(r)
  <2>1. /\ next.pc = "insertField" /\ next.in = c.in /\ next.type = c.type
        /\ Become(r, next) => call'[r] = next
    BY <1>2 DEF CallRecord, Become
  <2>2. CASE c.in.key # None /\ Become(r, next)
    <3>1. ValidField(c.type, c.in.slot, c.in.value)
      BY <1>1, <1>4 DEF MissField, PcIs, Knows
    <3>2. FindByKey(items, c.in.key) = {}
      BY <1>4, <2>2 DEF MissField, FieldTargets
    <3> HIDE DEF next
    <3> QED
      BY <2>1, <2>2, <3>1, <3>2 DEF Knows
  <2> QED
    BY <1>4, <2>2, NewRecord DEF MissField
<1>5. CASE InsertField(r)
  <2>1. FindByKey(items, c.in.key) = {}
    BY <1>1, <1>5 DEF InsertField, PcIs, Knows
  <2>2. ~KeyTaken(items, r, c.in.key)
    BY <2>1 DEF KeyTaken, FindByKey
  <2> QED
    BY <1>5, <2>2, NewRecord DEF InsertField
<1> QED
  BY <1>3, <1>4, <1>5 DEF Write

------------------------------------------------------------------------------
(* The theorem.                                                             *)

\* A call that takes a step is the only one under way.
LEMMA Alone ==
  ASSUME IInv, SeqInv, ~Overlap, NEW r \in Request, CallStep(r)
  PROVE  \A q \in Request \ {r} : ~Active(q)
<1>1. call[r].pc # "done"
  BY CallEffect
<1>2. CASE call[r].pc = "idle"
  <2>1. \E in \in Inputs : Start(r, in)
    BY <1>2 DEF CallStep, Progress, GetByID, GetByKey, Handler, SaveDraft, SetFieldValue,
                Publish, Unpublish, Archive, Unarchive, Delete, GetItem, Write, Upsert,
                UpdateField, MissField, InsertField, DeleteOne, Emit, StoreFails, AckLost,
                Handling, PcIs, StorePC
  <2> QED
    BY <2>1 DEF Start
<1>3. CASE call[r].pc # "idle"
  BY <1>1, <1>3 DEF SeqInv, Active
<1> QED
  BY <1>2, <1>3

\* A write creates no item but the call's own.
LEMMA CreatesItsOwn ==
  ASSUME IInv, SeqInv, NEW r \in Request, CallStep(r)
  PROVE  Stored(items') \subseteq Stored(items) \cup {r}
<1> SUFFICES ASSUME NEW i \in Stored(items') \ Stored(items), i # r
             PROVE  FALSE
  OBVIOUS
<1>1. i = call[r].id /\ call'[r].pc = "emit"
  BY CallEffect
<1>2. DOMAIN items = ID /\ \A j \in ID : items'[j] # items[j] => j = i
  <2>1. DOMAIN items = ID
    BY DEF IInv, ItemsOK
  <2>2. \A j \in ID : items'[j] # items[j] => call'[r].id = j
    BY CallEffect
  <2>3. call'[r].id = i
    BY CallEffect
  <2> QED
    BY <2>1, <2>2, <2>3
<1>3. Write(r)
  <2>1. ~(UNCHANGED items)
    OBVIOUS
  <2> QED
    BY <2>1 DEF CallStep, Progress, Start, GetByID, GetByKey, Handler, SaveDraft,
                SetFieldValue, Publish, Unpublish, Archive, Unarchive, Delete, GetItem, Emit,
                StoreFails, AckLost
<1>4. Knows(items, r, call[r])
  BY <1>3 DEF SeqInv, Active, Write, Upsert, UpdateField, MissField, InsertField, DeleteOne,
              PcIs
<1>5. CASE Upsert(r)
  BY <1>1, <1>4, <1>5 DEF Upsert, PcIs, Knows
<1>6. CASE UpdateField(r)
  <2>1. Stored(items') \subseteq Stored(items)
    BY <1>2, <1>6 DEF UpdateField, FieldTargets, FindByKey, FindByID, Stored
  <2> QED
    BY <2>1
<1>7. CASE InsertField(r)
  BY <1>2, <1>7 DEF InsertField, Stored
<1>8. CASE MissField(r) \/ DeleteOne(r)
  BY <1>2, <1>8 DEF MissField, DeleteOne, Stored
<1> QED
  BY <1>3, <1>5, <1>6, <1>7, <1>8 DEF Write

LEMMA SeqInit == Init => SeqInv
<1> SUFFICES ASSUME Init PROVE SeqInv
  OBVIOUS
<1>1. \A r \in Request : call[r].pc = "idle" /\ call[r].id = None
  BY DEF Init, Idle
<1>2. \A r \in Request : r \notin Stored(items)
  BY ContentsAssumption, RequestAssumption DEF Init
<1> QED
  BY <1>1, <1>2 DEF SeqInv, Active

LEMMA SeqStep ==
  ASSUME IInv, SeqInv, ~Overlap, NEW r \in Request, CallStep(r)
  PROVE  SeqInv'
<1>1. /\ \A q \in Request \ {r} : call'[q] = call[q] /\ ~Active(q)
      /\ call'[r].pc # "idle"
  BY Alone, CallEffect
<1>2. \A q \in Request \ {r} : ~Active(q)'
  BY <1>1 DEF Active
<1>3. ASSUME call'[r].pc \notin {"emit", "done"} PROVE items' = items
  <2>1. IInv'
    BY StepOK DEF Next
  <2>2. items \in [ID -> Version \cup {None}] /\ items' \in [ID -> Version \cup {None}]
    BY <2>1 DEF IInv, ItemsOK
  <2>3. \A i \in ID : items'[i] = items[i]
    BY <1>3, CallEffect
  <2> QED
    BY <2>2, <2>3
<1>4. ASSUME call'[r].pc \notin {"emit", "done"} PROVE Knows(items, r, call'[r])
  <2>1. CASE \E in \in Inputs : Start(r, in)
    BY <2>1, KnowsAtStart
  <2>2. CASE GetByID(r) \/ GetByKey(r)
    BY <2>2, KnowsAfterReads
  <2>3. CASE Handler(r)
    BY <2>3, KnowsAfterHandler
  <2>4. CASE Write(r)
    BY <1>4, <2>4, KnowsAfterWrite
  <2>5. CASE Emit(r) \/ StoreFails(r) \/ AckLost(r)
    <3>1. call[r].pc = "emit" => call'[r].pc = "done"
      BY CallEffect
    <3> QED
      BY <1>4, <2>5, <3>1, NewRecord DEF Emit, StoreFails, AckLost, PcIs
  <2> QED
    BY <2>1, <2>2, <2>3, <2>4, <2>5 DEF CallStep, Progress
<1>5. Active(r)' => Knows(items', r, call'[r])
  BY <1>3, <1>4, NothingToKnow DEF Active
<1>6. ASSUME NEW q \in Request, call'[q].pc \notin {"emit", "done"}
      PROVE  q \notin Stored(items')
  <2>1. CASE q = r
    <3>1. call[r].pc \notin {"emit", "done"}
      BY <1>6, <2>1, CallEffect
    <3> QED
      BY <1>3, <1>6, <2>1, <3>1 DEF SeqInv
  <2>2. CASE q # r
    <3>1. q \notin Stored(items)
      BY <1>1, <1>6, <2>2 DEF SeqInv
    <3> QED
      BY <2>2, <3>1, CreatesItsOwn
  <2> QED
    BY <2>1, <2>2
<1>7. \A q \in Request : call'[q].pc = "idle" => call'[q].id = None
  BY <1>1 DEF SeqInv
<1> QED
  BY <1>2, <1>5, <1>6, <1>7 DEF SeqInv

\* So it is at every step of calls that do not overlap.
LEMMA SeqInvariance == ~Overlap => (Spec => [](IInv /\ SeqInv))
<1> SUFFICES ASSUME ~Overlap PROVE Spec => [](IInv /\ SeqInv)
  OBVIOUS
<1>1. Init => IInv /\ SeqInv
  BY InitOK, SeqInit DEF Init
<1>2. IInv /\ SeqInv /\ [Next]_vars => IInv' /\ SeqInv'
  <2> SUFFICES ASSUME IInv, SeqInv, [Next]_vars PROVE SeqInv'
    BY StepOK
  <2>1. CASE \E r \in Request : CallStep(r)
    BY <2>1, SeqStep
  <2>2. CASE UNCHANGED vars
    BY <2>2 DEF vars, SeqInv, Active
  <2> QED
    BY <2>1, <2>2 DEF Next, Finished
<1> QED
  BY <1>1, <1>2, PTL DEF Spec

\* Each step of a call that works alone is a step of the lifecycle machine.
LEMMA StepIsPromised ==
  ASSUME IInv, SeqInv, NEW r \in Request, CallStep(r)
  PROVE  Promise!Next \/ UNCHANGED CatalogOf(items)
<1> DEFINE c == call[r]
<1>0. ItemsOK
  BY DEF IInv
<1>1. ASSUME UNCHANGED items PROVE UNCHANGED CatalogOf(items)
  BY <1>1 DEF CatalogOf
<1>2. CASE ~Write(r)
  <2>1. UNCHANGED items
    BY <1>2 DEF CallStep, Progress, Start, GetByID, GetByKey, Handler, SaveDraft,
                SetFieldValue, Publish, Unpublish, Archive, Unarchive, Delete, GetItem, Emit,
                StoreFails, AckLost
  <2> QED
    BY <1>1, <2>1
<1>3. CASE Write(r)
  <2>1. /\ c.pc \in {"upsert", "setField", "insertField", "delete"}
        /\ Knows(items, r, c)
    BY <1>3 DEF SeqInv, Active, Write, Upsert, UpdateField, MissField, InsertField,
                DeleteOne, PcIs
  <2>2. /\ c.in \in Input /\ c.item \in Version \cup {None}
        /\ c.id = None <=> c.item = None
        /\ r \in ID /\ r \notin Stored(items)
    <3>1. r \in ID /\ r \notin Stored(items)
      BY <2>1 DEF ID, SeqInv
    <3>2. c.pc # "idle"
      BY <2>1
    <3> QED
      BY <3>1, <3>2, ActiveCall DEF IInv
  <2>3. CASE Upsert(r)
    <3>1. c.pc = "upsert" /\ c.item # None
      BY <2>3 DEF Upsert, PcIs, IInv, CallsOK, CallOK, Equipped
    <3>2. CASE /\ ~KeyTaken(items, c.id, c.item.key)
               /\ items' = [items EXCEPT ![c.id] = c.item]
      <4>1. CASE c.id \in Stored(items) /\ Prepared(c.in, Decode(items[c.id]), c.item)
        BY <1>0, <2>2, <3>1, <3>2, <4>1, PreparedIsPromised
      <4>2. CASE c.id = r /\ PreparedNew(c.in, c.item)
        BY <1>0, <2>2, <3>1, <3>2, <4>2, PreparedNewIsPromised
      <4> QED
        BY <2>1, <3>1, <4>1, <4>2 DEF Knows
    <3> QED
      BY <1>1, <2>3, <3>2 DEF Upsert, UpsertLands
  <2>4. CASE UpdateField(r)
    <3> DEFINE doc(i) == FieldUpdated(items[i], c.type, c.in.slot, c.in.value)
    <3>1. /\ c.pc = "setField" /\ Registered(c.type)
          /\ ValidField(c.type, c.in.slot, c.in.value)
      BY <2>1, <2>4 DEF UpdateField, PcIs, IInv, CallsOK, CallOK, Equipped, Knows
    <3>2. CASE \E i \in FieldTargets(items, c.in.id, c.in.key) :
                 items' = [items EXCEPT ![i] = doc(i)]
      <4>1. PICK i \in FieldTargets(items, c.in.id, c.in.key) :
              items' = [items EXCEPT ![i] = doc(i)]
        BY <3>2
      <4>2. i \in Stored(items) /\ ~items[i].archived /\ items[i].type = c.type
        BY <2>1, <3>1 DEF Knows, FieldTargets, FindByKey, FindByID
      <4>3. i \in ID /\ items[i] \in Version
        BY <1>0, <4>2, CatalogEntry DEF Stored, ItemsOK
      <4>4. FieldUpdated(items[i], items[i].type, c.in.slot, c.in.value) \in Version
        BY <2>2, <3>1, <4>2, <4>3, FieldUpdateIsVersion
      <4>5. c.in.value \in Value \cup {None}
        BY <2>2 DEF Input
      <4> QED
        BY <1>0, <3>1, <4>1, <4>2, <4>4, <4>5, FieldUpdateIsPromised
    <3> QED
      BY <1>1, <2>4, <3>2 DEF UpdateField
  <2>5. CASE InsertField(r)
    <3> DEFINE doc == FieldInserted(c.in.key, c.type, c.in.owner, c.in.slot, c.in.value)
    <3>1. Registered(c.type) /\ ValidField(c.type, c.in.slot, c.in.value)
      BY <2>1, <2>5 DEF InsertField, PcIs, IInv, CallsOK, CallOK, Equipped, Knows
    <3>2. doc \in Version
      BY <2>2, <3>1, FieldInsertIsVersion
    <3>3. c.in.key \in Key \cup {None} /\ c.in.value \in Value \cup {None}
      BY <2>2 DEF Input
    <3>4. CASE ~KeyTaken(items, r, c.in.key) /\ items' = [items EXCEPT ![r] = doc]
      BY <1>0, <2>2, <3>1, <3>2, <3>3, <3>4, FieldInsertIsPromised
    <3> QED
      BY <1>1, <2>5, <3>4 DEF InsertField
  <2>6. CASE DeleteOne(r)
    <3>1. c.pc = "delete" /\ c.item # None /\ items' = [items EXCEPT ![c.id] = None]
      BY <2>6 DEF DeleteOne, PcIs, IInv, CallsOK, CallOK, Equipped
    <3>2. c.id \in Stored(items)
      BY <2>1, <2>2, <3>1 DEF Knows
    <3> QED
      BY <1>0, <3>1, <3>2, RemoveIsPromised
  <2>7. CASE MissField(r)
    BY <1>1, <2>7 DEF MissField
  <2> QED
    BY <1>3, <2>3, <2>4, <2>5, <2>6, <2>7 DEF Write
<1> QED
  BY <1>2, <1>3

\* One call at a time, whatever calls are made in whatever order, with and without
\* store failures, the engine does what the lifecycle machine may do: an item is
\* created as a draft at its first revision, each save or field write is the next
\* revision of a draft nobody else touched, only Publish makes anything live, and
\* archived items change only by Unarchive and Delete (engine.go:59-306).
THEOREM OneCallAtATime == ~Overlap => (Spec => ImplementsLifecycle)
<1> SUFFICES ASSUME ~Overlap PROVE Spec => ImplementsLifecycle
  OBVIOUS
<1>1. Init => Promise!Init
  BY DEF Init, Promise!Init
<1>2. IInv /\ SeqInv /\ [Next]_vars => [Promise!Next]_(CatalogOf(items))
  <2> SUFFICES ASSUME IInv, SeqInv, [Next]_vars
               PROVE  Promise!Next \/ UNCHANGED CatalogOf(items)
    OBVIOUS
  <2>1. CASE \E r \in Request : CallStep(r)
    BY <2>1, StepIsPromised
  <2>2. CASE UNCHANGED vars
    BY <2>2 DEF vars, CatalogOf
  <2> QED
    BY <2>1, <2>2 DEF Next, Finished
<1> QED
  BY <1>1, <1>2, SeqInvariance, PTL DEF Spec, ImplementsLifecycle, Promise!Spec
------------------------------------------------------------------------------
(* What the comments say of an item holds of calls that do not overlap: the  *)
(* disagreements that MCTypeChanges, MCSaveRepublishes, MCCreateOnly and     *)
(* MCArchivedFrozen show are races.                                          *)

\* Decoding changes nothing of a document but a missing field map.
LEMMA DecodedItem ==
  ASSUME NEW doc \in Version
  PROVE  LET item == Decode(doc) IN
         /\ item \in Version
         /\ item.type = doc.type /\ item.archived = doc.archived
         /\ item.published = None <=> doc.published = None
         /\ item.draft.fields # Missing
         /\ doc.draft.fields # Missing => item.draft = doc.draft
<1>1. doc \in Item /\ doc.draft \in Snapshot /\ doc.draft # None
  BY NoneIsNoVersion, NilAssumption DEF Version
<1>2. /\ Decode(doc).type = doc.type /\ Decode(doc).archived = doc.archived
      /\ Decode(doc).draft = DecodeSnapshot(doc.draft)
      /\ Decode(doc).published = DecodeSnapshot(doc.published)
  BY <1>1 DEF Decode, Item
<1>3. ASSUME NEW s \in Snapshot
      PROVE  /\ DecodeSnapshot(s) \in Snapshot /\ DecodeSnapshot(s).fields # Missing
             /\ s.fields # Missing => DecodeSnapshot(s) = s
  <2>1. [s EXCEPT !.fields = None] \in Snapshot /\ [s EXCEPT !.fields = None].fields = None
    BY DEF Snapshot
  <2> QED
    BY <2>1, NilAssumption DEF DecodeSnapshot
<1>4. Decode(doc).published = None <=> doc.published = None
  <2>1. doc.published \in Snapshot \cup {None}
    BY <1>1 DEF Item
  <2> QED
    BY <1>2, <1>3, <2>1, NilAssumption DEF DecodeSnapshot
<1> QED
  BY <1>1, <1>2, <1>3, <1>4, DecodeIsVersion

\* What each operation leaves alone.
LEMMA PreparedItem ==
  ASSUME NEW in \in Input, NEW old \in Version, NEW new, Prepared(in, old, new)
  PROVE  /\ new.type = old.type
         /\ old.archived => /\ new.draft = old.draft
                            /\ new.archived \/ new.published = None
         /\ new.archived => new.draft = old.draft
         /\ in.op = "SaveDraft" => new.published = old.published
<1>1. old \in Item /\ old # None
  BY NoneIsNoVersion DEF Version
<1>2. CASE ~old.archived /\ new = SavedItem(in, SaveTarget(in, old))
  <2> DEFINE target == SaveTarget(in, old)
             key == IF old.key = None THEN in.key ELSE old.key
             draft == [ revision |-> IF target.draft = None THEN 1 ELSE target.draft.revision + 1,
                        schema   |-> target.type,
                        fields   |-> in.fields ]
             owner == IF in.owner # None THEN in.owner ELSE target.owner
  <2>1. target = [ key |-> key, type |-> old.type, owner |-> old.owner,
                   draft |-> old.draft, published |-> old.published,
                   archived |-> old.archived ]
    <3>1. target = [old EXCEPT !.key = key]
      BY <1>1 DEF SaveTarget
    <3> HIDE DEF target, key
    <3> QED
      BY <1>1, <3>1 DEF Item
  <2>2. new = [target EXCEPT !.draft = draft, !.owner = owner]
    BY <1>2 DEF SavedItem
  <2> HIDE DEF draft, owner, key, target
  <2>3. new.type = old.type /\ new.published = old.published /\ new.archived = old.archived
    BY <2>1, <2>2
  <2> QED
    BY <1>2, <2>3
<1>3. CASE /\ in.op = "Publish" /\ ~old.archived
           /\ new = [old EXCEPT !.published = old.draft]
  BY <1>1, <1>3 DEF Item
<1>4. CASE /\ in.op = "Unpublish" /\ ~old.archived
           /\ new = [old EXCEPT !.published = None]
  BY <1>1, <1>4 DEF Item
<1>5. CASE in.op = "Archive" /\ new = [old EXCEPT !.archived = TRUE]
  BY <1>1, <1>5 DEF Item
<1>6. CASE in.op = "Unarchive" /\ new = [old EXCEPT !.archived = FALSE, !.published = None]
  BY <1>1, <1>6 DEF Item
<1> QED
  BY <1>2, <1>3, <1>4, <1>5, <1>6 DEF Prepared

\* A call that works alone changes an item by an Upsert of what it prepared from
\* it, or by a field write to an item that is not archived.
LEMMA ChangesAlone ==
  ASSUME IInv, SeqInv, NEW r \in Request, CallStep(r),
         NEW i \in Stored(items), items'[i] \notin {None, items[i]}
  PROVE  LET c == call[r] IN
         \/ /\ Upsert(r) /\ c.id = i /\ items'[i] = c.item
            /\ Prepared(c.in, Decode(items[i]), c.item)
         \/ /\ UpdateField(r) /\ ~items[i].archived
            /\ items'[i] = FieldUpdated(items[i], items[i].type, c.in.slot, c.in.value)
<1> DEFINE c == call[r]
<1>1. i \in ID /\ DOMAIN items = ID
  BY DEF Stored, IInv, ItemsOK
<1>2. Write(r)
  <2>1. ~(UNCHANGED items)
    BY <1>1
  <2> QED
    BY <2>1 DEF CallStep, Progress, Start, GetByID, GetByKey, Handler, SaveDraft,
                SetFieldValue, Publish, Unpublish, Archive, Unarchive, Delete, GetItem, Emit,
                StoreFails, AckLost
<1>3. Knows(items, r, c) /\ r \notin Stored(items)
  BY <1>2 DEF SeqInv, Active, Write, Upsert, UpdateField, MissField, InsertField,
              DeleteOne, PcIs
<1>4. CASE Upsert(r)
  <2>1. c.id = i /\ items'[i] = c.item
    BY <1>1, <1>4 DEF Upsert
  <2> QED
    BY <1>3, <1>4, <2>1 DEF Upsert, PcIs, Knows
<1>5. CASE UpdateField(r)
  <2>1. PICK j \in FieldTargets(items, c.in.id, c.in.key) :
          items' = [items EXCEPT ![j] = FieldUpdated(items[j], c.type, c.in.slot, c.in.value)]
    BY <1>1, <1>5 DEF UpdateField
  <2>2. i = j
    BY <1>1, <2>1
  <2>3. ~items[i].archived /\ items[i].type = c.type
    BY <1>3, <1>5, <2>1, <2>2 DEF UpdateField, PcIs, Knows
  <2> QED
    BY <1>1, <1>5, <2>1, <2>2, <2>3
<1>6. CASE InsertField(r) \/ DeleteOne(r) \/ MissField(r)
  BY <1>1, <1>3, <1>6 DEF InsertField, DeleteOne, MissField, PcIs
<1> QED
  BY <1>2, <1>4, <1>5, <1>6 DEF Write

\* The type of an item never changes: a field write has checked it, and nobody
\* wrote since (engine.go:121, 161-180).
THEOREM TypesAreKept == ~Overlap => (Spec => TypeNeverChanges)
<1> DEFINE Kept == \A i \in Stored(items) : items'[i] # None => items'[i].type = items[i].type
<1>1. IInv /\ SeqInv /\ [Next]_vars => [Kept]_vars
  <2> SUFFICES ASSUME IInv, SeqInv, NEW r \in Request, CallStep(r), NEW i \in Stored(items),
                      items'[i] \notin {None, items[i]}
               PROVE  items'[i].type = items[i].type
    BY DEF Next, Finished
  <2>1. items[i] \in Version /\ call[r].in \in Input \cup {None}
    BY CatalogEntry DEF IInv, ItemsOK, CallsOK, CallRecord, Stored
  <2>2. CASE Prepared(call[r].in, Decode(items[i]), items'[i]) /\ call[r].in \in Input
    BY <2>1, <2>2, DecodedItem, PreparedItem
  <2>3. CASE items'[i] = FieldUpdated(items[i], items[i].type, call[r].in.slot, call[r].in.value)
    BY <2>1, <2>3 DEF FieldUpdated, Version, Item
  <2>4. Upsert(r) => call[r].in \in Input
    BY <2>1 DEF Upsert, PcIs, IInv, CallsOK, CallOK, Equipped
  <2> QED
    BY <2>2, <2>3, <2>4, ChangesAlone
<1> QED
  BY <1>1, SeqInvariance, PTL DEF TypeNeverChanges, Spec

\* A new item is at its first revision, not published and not archived.
LEMMA NewItem ==
  ASSUME NEW in, NEW new, PreparedNew(in, new)
  PROVE  new.draft.revision = 1 /\ new.published = None /\ ~new.archived
<1> DEFINE target == SaveTarget(in, None)
           draft == [ revision |-> IF target.draft = None THEN 1 ELSE target.draft.revision + 1,
                      schema   |-> target.type,
                      fields   |-> in.fields ]
           owner == IF in.owner # None THEN in.owner ELSE target.owner
<1>1. target = [ key |-> in.key, type |-> in.type, owner |-> in.owner,
                 draft |-> None, published |-> None, archived |-> FALSE ]
  BY DEF SaveTarget
<1>2. new = [target EXCEPT !.draft = draft, !.owner = owner]
  BY DEF PreparedNew, SavedItem
<1>3. draft.revision = 1
  BY <1>1
<1> HIDE DEF target, draft, owner
<1>4. new.draft = draft /\ new.published = None /\ ~new.archived
  BY <1>1, <1>2
<1> QED
  BY <1>3, <1>4

\* No call creates an archived item.
LEMMA BornActive ==
  ASSUME IInv, SeqInv, NEW r \in Request, CallStep(r), NEW i \in Stored(items') \ Stored(items)
  PROVE  ~items'[i].archived
<1>1. i \in ID /\ DOMAIN items = ID /\ items[i] = None /\ items'[i] # None
  <2>1. IInv'
    BY StepOK DEF Next
  <2> QED
    BY <2>1 DEF Stored, IInv, ItemsOK
<1>2. Write(r)
  <2>1. ~(UNCHANGED items)
    BY <1>1
  <2> QED
    BY <2>1 DEF CallStep, Progress, Start, GetByID, GetByKey, Handler, SaveDraft,
                SetFieldValue, Publish, Unpublish, Archive, Unarchive, Delete, GetItem, Emit,
                StoreFails, AckLost
<1>3. Knows(items, r, call[r])
  BY <1>2 DEF SeqInv, Active, Write, Upsert, UpdateField, MissField, InsertField,
              DeleteOne, PcIs
<1>4. CASE Upsert(r)
  <2>1. call[r].id = i /\ items'[i] = call[r].item
    BY <1>1, <1>4 DEF Upsert
  <2>2. PreparedNew(call[r].in, call[r].item)
    BY <1>1, <1>3, <1>4, <2>1 DEF Upsert, PcIs, Knows, Stored
  <2> QED
    BY <2>1, <2>2, NewItem
<1>5. CASE InsertField(r)
  BY <1>1, <1>5 DEF InsertField, FieldInserted
<1>6. CASE UpdateField(r)
  BY <1>1, <1>6 DEF UpdateField, FieldTargets, FindByKey, FindByID, Stored
<1>7. CASE MissField(r) \/ DeleteOne(r)
  BY <1>1, <1>7 DEF MissField, DeleteOne
<1> QED
  BY <1>2, <1>4, <1>5, <1>6, <1>7 DEF Write

\* A SaveDraft that works alone and is past its write has stored a next revision of
\* what it read, or a new item; after that only its notification is left.
LEMMA SaveLands ==
  ASSUME IInv, SeqInv, NEW r \in Request, CallStep(r), call'[r].in.op = "SaveDraft",
         call'[r].pc \in {"emit", "done"}, call'[r].id # None
  PROVE  LET c == call[r] IN
         /\ call'[r].in = c.in /\ call'[r].id = c.id /\ call'[r].item = c.item
         /\ \/ c.pc = "emit"
            \/ /\ c.pc = "upsert" /\ c.in \in Input
               /\ UpsertLands(items, c.id, c.item, c.in.expect)
               /\ items'[c.id] = c.item
               /\ \/ c.id \in Stored(items) /\ Prepared(c.in, Decode(items[c.id]), c.item)
                  \/ c.id = r /\ PreparedNew(c.in, c.item)
<1> DEFINE c == call[r]
<1>0. c \in CallRecord /\ call \in [Request -> CallRecord]
  BY DEF IInv, CallsOK
<1>1. ~ \E kind : Fail(r, kind)
  BY <1>0 DEF Fail, Become, CallRecord
<1>2. \A pc, id, item : Hold(r, pc, id, item) =>
        /\ pc \in {"emit", "done"} /\ call'[r].in = c.in
        /\ call'[r].id = id /\ call'[r].item = item
  BY NewRecord
<1>3. c.pc = "idle" => c.id = None
  BY DEF SeqInv
<1>4. c.pc # "idle" => call'[r].in = c.in
  BY InputKept
<1>5. CASE Upsert(r)
  <2>1. c.pc = "upsert" /\ c.in \in Input /\ Knows(items, r, c) /\ c.item # None
    <3>1. c.pc = "upsert" /\ c.in \in Input /\ c.item # None
      BY <1>5, ActiveCall DEF Upsert, PcIs, IInv, CallsOK, CallOK, Equipped
    <3> QED
      BY <3>1 DEF SeqInv, Active
  <2>2. /\ UpsertLands(items, c.id, c.item, Expected(c.in))
        /\ items' = [items EXCEPT ![c.id] = c.item]
        /\ Hold(r, "emit", c.id, c.item)
    BY <1>1, <1>5 DEF Upsert
  <2>3. call'[r].in = c.in /\ call'[r].id = c.id /\ call'[r].item = c.item
    BY <1>2, <2>2
  <2>4. Expected(c.in) = c.in.expect
    BY <2>3 DEF Expected
  <2>5. items'[c.id] = c.item
    <3>1. c.id \in ID /\ DOMAIN items = ID
      BY <2>1, ActiveCall DEF IInv, ItemsOK
    <3> QED
      BY <2>2, <3>1
  <2> QED
    BY <2>1, <2>2, <2>3, <2>4, <2>5 DEF Knows
<1>6. CASE Emit(r)
  BY <1>0, <1>6 DEF Emit, PcIs, Become, CallRecord
<1>7. CASE \E in \in Inputs : Start(r, in)
  BY <1>0, <1>3, <1>7 DEF Start, PcIs, Become, CallRecord
<1>8. CASE GetByID(r) \/ GetByKey(r)
  BY <1>1, <1>2, <1>8 DEF GetByID, GetByKey
<1>9. CASE Handler(r)
  <2>1. SaveDraft(r)
    BY <1>4, <1>9 DEF Handler, SetFieldValue, Publish, Unpublish, Archive, Unarchive,
                      Delete, GetItem, Handling, PcIs
  <2> QED
    BY <1>1, <1>2, <2>1 DEF SaveDraft
<1>10. ASSUME UpdateField(r) \/ MissField(r) \/ InsertField(r) \/ DeleteOne(r) PROVE FALSE
  <2>1. c.pc \in {"setField", "insertField", "delete"} /\ c.in.op = "SaveDraft"
    BY <1>4, <1>10 DEF UpdateField, MissField, InsertField, DeleteOne, PcIs
  <2>2. c.pc = "delete"
    BY <2>1 DEF IInv, CallsOK, CallOK, Equipped
  <2>3. Knows(items, r, c)
    BY <2>2 DEF SeqInv, Active
  <2> QED
    BY <2>1, <2>2, <2>3 DEF Knows
<1>11. CASE StoreFails(r) \/ AckLost(r)
  BY <1>1, <1>11 DEF StoreFails, AckLost
<1> QED
  BY <1>5, <1>6, <1>7, <1>8, <1>9, <1>10, <1>11 DEF CallStep, Progress, Write

\* A save makes nothing live, whatever it expects (engine.go:59-109): the published
\* snapshot it stores is the one it read.
THEOREM SavesPublishNothing == ~Overlap => (Spec => SaveDraftDoesNotPublish)
<1> DEFINE Nothing ==
      \A r \in Request :
        LET i == call[r].id IN
        /\ PcIs(r, "upsert") /\ call[r].in.op = "SaveDraft" /\ call'[r].pc = "emit"
        /\ items[i] = None \/ items[i].published = None
        => items'[i].published = None
<1>1. IInv /\ SeqInv /\ [Next]_vars => [Nothing]_vars
  <2> SUFFICES ASSUME IInv, SeqInv, NEW q \in Request, CallStep(q),
                      NEW r \in Request, call[r].pc = "upsert", call[r].in.op = "SaveDraft",
                      call'[r].pc = "emit",
                      items[call[r].id] = None \/ items[call[r].id].published = None
               PROVE  items'[call[r].id].published = None
    BY DEF Next, Finished, PcIs
  <2> DEFINE c == call[r]
  <2>1. q = r
    BY CallEffect
  <2>2. call'[r].in = c.in
    BY <2>1, InputKept
  <2>3. call'[r].id # None
    BY <2>1, StepOK DEF Next, IInv, CallsOK, CallOK, Equipped
  <2>4. /\ c.in \in Input /\ items'[c.id] = c.item
        /\ \/ c.id \in Stored(items) /\ Prepared(c.in, Decode(items[c.id]), c.item)
           \/ c.id = r /\ PreparedNew(c.in, c.item)
    BY <2>1, <2>2, <2>3, SaveLands
  <2>5. CASE c.id \in Stored(items) /\ Prepared(c.in, Decode(items[c.id]), c.item)
    <3>1. items[c.id] \in Version /\ items[c.id] # None
      BY <2>5, CatalogEntry DEF IInv, ItemsOK, Stored
    <3>2. Decode(items[c.id]) \in Version /\ Decode(items[c.id]).published = None
      BY <3>1, DecodedItem
    <3> QED
      BY <2>4, <2>5, <3>2, PreparedItem
  <2>6. CASE PreparedNew(c.in, c.item)
    BY <2>4, <2>6, NewItem
  <2> QED
    BY <2>4, <2>5, <2>6
<1> QED
  BY <1>1, SeqInvariance, PTL DEF SaveDraftDoesNotPublish, Spec

\* A save that expects no item creates one: its first revision, under an id of its
\* own, not published (vo.go:118, persistor.go:208-221).
THEOREM CreatesOnlyNew == ~Overlap => (Spec => []CreateOnlyCreates)
<1> SUFFICES ASSUME ~Overlap PROVE Spec => []CreateOnlyCreates
  OBVIOUS
<1>1. Init => CreateOnlyCreates
  BY DEF Init, CreateOnlyCreates, Wrote, Idle
<1>2. IInv /\ SeqInv /\ CreateOnlyCreates /\ [Next]_vars => CreateOnlyCreates'
  <2> SUFFICES ASSUME IInv, SeqInv, CreateOnlyCreates, [Next]_vars,
                      NEW r \in Request, Wrote(r, "SaveDraft")', call'[r].in.expect = 0
               PROVE  /\ call'[r].id = r
                      /\ call'[r].item.draft.revision = 1
                      /\ call'[r].item.published = None
    BY DEF CreateOnlyCreates
  <2>1. CASE call'[r] = call[r]
    BY <2>1 DEF CreateOnlyCreates, Wrote
  <2>2. CASE call'[r] # call[r]
    <3> DEFINE c == call[r]
    <3>1. CallStep(r)
      BY <2>2, CallEffect DEF Next, Finished, vars
    <3>2. /\ call'[r].in = c.in /\ call'[r].id = c.id /\ call'[r].item = c.item
          /\ \/ c.pc = "emit"
             \/ /\ UpsertLands(items, c.id, c.item, c.in.expect)
                /\ \/ c.id \in Stored(items)
                   \/ c.id = r /\ PreparedNew(c.in, c.item)
      BY <3>1, SaveLands DEF Wrote
    <3>3. CASE c.pc = "emit"
      BY <3>2, <3>3 DEF CreateOnlyCreates, Wrote
    <3>4. CASE UpsertLands(items, c.id, c.item, c.in.expect) /\ c.id \in Stored(items)
      BY <3>2, <3>4 DEF UpsertLands, UpsertConflicts, Stored
    <3>5. CASE c.id = r /\ PreparedNew(c.in, c.item)
      BY <3>2, <3>5, NewItem
    <3> QED
      BY <3>2, <3>3, <3>4, <3>5
  <2> QED
    BY <2>1, <2>2
<1> QED
  BY <1>1, <1>2, SeqInvariance, PTL DEF Spec

\* Archive stores a copy it has read, and what is read has a field map or null.
ArchivedWhole(docs) ==
  \A i \in Stored(docs) : docs[i].archived => docs[i].draft.fields # Missing

\* Such an item changes no draft and publishes nothing by leaving the archive.
LEMMA FreezesAlone ==
  ASSUME IInv, SeqInv, ArchivedWhole(items), NEW r \in Request, CallStep(r),
         NEW i \in Stored(items), items'[i] \notin {None, items[i]}
  PROVE  /\ items'[i].archived => items'[i].draft.fields # Missing
         /\ items[i].archived => /\ items'[i].draft = items[i].draft
                                 /\ items'[i].archived \/ items'[i].published = None
<1>1. items[i] \in Version /\ items[i] \in Item
  BY CatalogEntry DEF IInv, ItemsOK, Stored, Version
<1>2. CASE Upsert(r) /\ Prepared(call[r].in, Decode(items[i]), items'[i])
  <2>1. call[r].in \in Input
    BY <1>2, ActiveCall DEF Upsert, PcIs, IInv
  <2>2. /\ items[i].archived => /\ items'[i].draft = Decode(items[i]).draft
                                /\ items'[i].archived \/ items'[i].published = None
        /\ items'[i].archived => items'[i].draft = Decode(items[i]).draft
    BY <1>1, <1>2, <2>1, DecodedItem, PreparedItem
  <2> QED
    BY <1>1, <2>2, DecodedItem DEF ArchivedWhole
<1>3. CASE /\ ~items[i].archived
           /\ items'[i] = FieldUpdated(items[i], items[i].type, call[r].in.slot,
                                       call[r].in.value)
  BY <1>1, <1>3 DEF FieldUpdated, Item
<1> QED
  BY <1>2, <1>3, ChangesAlone

\* Archiving freezes an item: its draft stays as it is, and it leaves the archive
\* with nothing published (engine.go:243-287).
THEOREM ArchivesAreFrozen ==
  ~Overlap /\ (\A docs \in InitialContents : ArchivedWhole(docs))
    => (Spec => ArchivedIsFrozen)
<1> SUFFICES ASSUME ~Overlap, \A docs \in InitialContents : ArchivedWhole(docs)
             PROVE  Spec => ArchivedIsFrozen
  OBVIOUS
<1> DEFINE Whole == ArchivedWhole(items)
           Froze == \A i \in Stored(items) :
                      items[i].archived /\ items'[i] # None =>
                        /\ items'[i].draft = items[i].draft
                        /\ items'[i].archived \/ items'[i].published = None
<1>1. Init => Whole
  BY DEF Init
<1>2. IInv /\ SeqInv /\ Whole /\ [Next]_vars => Whole'
  <2> SUFFICES ASSUME IInv, SeqInv, Whole, NEW r \in Request, CallStep(r),
                      NEW i \in Stored(items'), items'[i].archived
               PROVE  items'[i].draft.fields # Missing
    BY DEF Next, Finished, vars, ArchivedWhole, Stored
  <2>1. CASE i \in Stored(items)
    BY <2>1, FreezesAlone DEF ArchivedWhole, Stored
  <2>2. CASE i \notin Stored(items)
    BY <2>2, BornActive
  <2> QED
    BY <2>1, <2>2
<1>3. IInv /\ SeqInv /\ Whole /\ [Next]_vars => [Froze]_vars
  <2> SUFFICES ASSUME IInv, SeqInv, Whole, NEW r \in Request, CallStep(r),
                      NEW i \in Stored(items), items'[i] \notin {None, items[i]}
               PROVE  items[i].archived => /\ items'[i].draft = items[i].draft
                                           /\ items'[i].archived \/ items'[i].published = None
    BY DEF Next, Finished
  <2> QED
    BY FreezesAlone
<1> QED
  BY <1>1, <1>2, <1>3, SeqInvariance, PTL DEF ArchivedIsFrozen, Spec
=============================================================================
