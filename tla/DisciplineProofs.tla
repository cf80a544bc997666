-------------------------- MODULE DisciplineProofs --------------------------
(***************************************************************************)
(* What the comments of engine.go say and racing calls break (an item's    *)
(* type never changes, zero creates only, a valid field write succeeds)    *)
(* holds when the callers keep to a rule of use, proved for any number of  *)
(* racing calls; each theorem names the rules it needs.                    *)
(***************************************************************************)
EXTENDS EngineProofs

\* An item at this id, as the store has it or as a call holds it.
Copy(i, x) ==
  \/ i \in Stored(items) /\ x = items[i]
  \/ \E r \in Request : call[r].id = i /\ call[r].id # None /\ x = call[r].item

\* What a call that matches by id or by key has done so far.
Matched(r) ==
  LET c == call[r] IN
  /\ c.pc # "idle" => c.in \in Inputs
  /\ c.pc \in {"idle", "getByID", "getByKey", "setField", "insertField"} => c.id = None
  /\ c.pc = "getByID" => c.in.id # None
  /\ c.pc \in {"getByKey", "insertField"} => c.in.key # None
  /\ c.pc \in {"upsert", "delete"} => c.in.op # "SetFieldValue"
  /\ c.pc = "handler" =>
       /\ c.id # None /\ c.in.key # None => c.item.key = c.in.key
       /\ c.in.id # None /\ IDMustResolve(c.in.op) => c.id = c.in.id
  /\ c.pc \in {"emit", "done"} /\ c.in.op = "SetFieldValue" /\ c.id # None /\ c.in.id # None
       => c.id = c.in.id

\* Before a call has created its own item, nobody knows the id.
Unborn(q) ==
  call[q].pc \notin {"emit", "done"} =>
    /\ q \notin Stored(items)
    /\ \A r \in Request : /\ call[r].id = q => r = q /\ call[q].pc = "upsert"
                          /\ call[r].pc = "setField" => call[r].in.id # q

MatchInv == \A r \in Request : Matched(r) /\ Unborn(r)

\* All copies of an item have its key.
KeySteady == \A i \in ID : \A x, y : Copy(i, x) /\ Copy(i, y) => x.key = y.key

\* All copies of an item have its type, the type of its key if it has one, and
\* a field write carries the type of what it is about to hit.
TypeSteady(T) ==
  /\ \A i \in ID : \A x, y : Copy(i, x) /\ Copy(i, y) => x.type = y.type
  /\ \A i \in ID : \A x : Copy(i, x) /\ x.key # None => x.type = T[x.key]
  /\ \A r \in Request :
       LET c == call[r] IN
       c.pc \in {"setField", "insertField"} =>
         IF c.in.key # None THEN c.type = T[c.in.key]
                            ELSE \A x : Copy(c.in.id, x) => x.type = c.type

\* Without deletes what a call has resolved stays, and a create-only save lands
\* nowhere but on its own new item.
Creating(r) ==
  LET c == call[r] IN
  /\ c.pc # "idle" => c.in \in Inputs
  /\ c.pc \in {"idle", "getByID"} => c.id = None
  /\ c.pc \in {"getByKey", "handler"} /\ c.id # None => c.id \in Stored(items)
  /\ c.pc # "delete"
  /\ c.pc = "upsert" /\ c.in.op = "SaveDraft" =>
       \/ c.id \in Stored(items)
       \/ c.id = r /\ c.item.draft.revision = 1 /\ c.item.published = None
CreateInv == CreateOnlyCreates /\ \A r \in Request : Creating(r)

\* A draft in any hands has a field map, and a retried field write finds its item.
Mapped == \A i \in ID : \A x : Copy(i, x) => Writable(x.draft.fields)
Ready(r) ==
  LET c == call[r] IN
  /\ c.pc \in {"idle", "getByID", "getByKey", "handler", "insertField"} => c.retried = FALSE
  /\ c.pc \in {"getByID", "getByKey", "handler"} /\ c.in.op = "SaveDraft"
       => c.in.fields # None
  /\ c.pc = "setField" /\ c.retried =>
       c.in.key # None /\ FindByKey(items, c.in.key) # {}
  /\ c.pc \in {"setField", "insertField"} => c.in.slot \in Slot
BreakInv == Mapped /\ FieldWriteNeverBreaks /\ \A r \in Request : Ready(r)

\* What a copy of item i has of an earlier copy: its key; its type, unless a field
\* write has brought another; and a field map, unless the call brings one of its own.
OwnFields(c, x) ==
  \/ Writable(x.draft.fields)
  \/ c.pc = "handler" /\ c.in.op = "SaveDraft" /\ x.draft.fields = c.in.fields
  \/ c.pc \in {"setField", "insertField"} /\ c.in.value = None
Descends(c, i, x) ==
  \E y : /\ Copy(i, y) /\ x.key = y.key
         /\ \/ x.type = y.type
            \/ /\ c.pc = "setField" /\ x.type = c.type
               /\ i \in FieldTargets(items, c.in.id, c.in.key)
         /\ Writable(y.draft.fields) => OwnFields(c, x)

\* Or it is of the item the call has made itself.
Originates(c, r, i, x) ==
  /\ i = r /\ x.key = c.in.key /\ OwnFields(c, x)
  /\ \/ c.pc = "handler" /\ Registered(c.in.type) /\ x.type = c.in.type
     \/ c.pc = "insertField" /\ x.type = c.type

------------------------------------------------------------------------------
(* Where copies come from.                                                  *)

\* A read gives back the key, the type and the field map that are stored.
LEMMA ReadCopy ==
  ASSUME NEW doc \in Version
  PROVE  LET item == Decode(doc) IN
         /\ item.key = doc.key /\ item.type = doc.type
         /\ item.draft.revision = doc.draft.revision
         /\ Writable(doc.draft.fields) => Writable(item.draft.fields)
<1>1. doc \in Item /\ doc.draft \in Snapshot
  BY NoneIsNoVersion DEF Version
<1>2. /\ Decode(doc).key = doc.key /\ Decode(doc).type = doc.type
      /\ Decode(doc).draft = DecodeSnapshot(doc.draft)
  BY <1>1 DEF Decode, Item
<1>3. /\ Writable(doc.draft.fields) => DecodeSnapshot(doc.draft) = doc.draft
      /\ DecodeSnapshot(doc.draft).revision = doc.draft.revision
  BY <1>1, NilAssumption DEF DecodeSnapshot, Snapshot, Writable
<1> QED
  BY <1>2, <1>3

\* What a SaveDraft makes of the item it resolved, and of none.
LEMMA SavedCopy ==
  ASSUME NEW in \in Input, NEW item \in Version \cup {None}
  PROVE  LET new == SavedItem(in, SaveTarget(in, item)) IN
         /\ new.draft.fields = in.fields
         /\ item # None => /\ new.type = item.type
                           /\ new.key = IF item.key = None THEN in.key ELSE item.key
                           /\ new.draft.revision = item.draft.revision + 1
         /\ item = None => /\ new.key = in.key /\ new.type = in.type
                           /\ new.draft.revision = 1 /\ new.published = None
<1> DEFINE target == SaveTarget(in, item)
           draft == [ revision |-> IF target.draft = None THEN 1 ELSE target.draft.revision + 1,
                      schema   |-> target.type,
                      fields   |-> in.fields ]
           owner == IF in.owner # None THEN in.owner ELSE target.owner
           new == SavedItem(in, target)
<1>1. new = [target EXCEPT !.draft = draft, !.owner = owner]
  BY DEF SavedItem
<1>2. /\ draft.fields = in.fields
      /\ draft.revision = IF target.draft = None THEN 1 ELSE target.draft.revision + 1
  OBVIOUS
<1>3. CASE item # None
  <2> DEFINE key == IF item.key = None THEN in.key ELSE item.key
  <2>1. item \in Item /\ item.draft # None
    BY <1>3 DEF Version, Honest
  <2>2. target = [item EXCEPT !.key = key]
    BY <1>3 DEF SaveTarget
  <2> HIDE DEF target, key, draft, owner, new
  <2>3. target = [ key |-> key, type |-> item.type, owner |-> item.owner,
                   draft |-> item.draft, published |-> item.published,
                   archived |-> item.archived ]
    BY <2>1, <2>2 DEF Item
  <2>4. new.draft = draft /\ new.type = item.type /\ new.key = key /\ target.draft = item.draft
    BY <1>1, <2>3
  <2> QED
    BY <1>2, <1>3, <2>1, <2>4 DEF new, target, key
<1>4. CASE item = None
  <2>1. target = [ key |-> in.key, type |-> in.type, owner |-> in.owner,
                   draft |-> None, published |-> None, archived |-> FALSE ]
    BY <1>4 DEF SaveTarget
  <2> HIDE DEF target, draft, owner, new
  <2>2. /\ new.draft = draft /\ new.type = in.type /\ new.key = in.key
        /\ new.published = None /\ target.draft = None
    BY <1>1, <2>1
  <2> QED
    BY <1>2, <1>4, <2>2 DEF new, target
<1> QED
  BY <1>3, <1>4

\* What a field write stores.
LEMMA WrittenCopy ==
  ASSUME NEW doc \in Version, NEW type, NEW slot, NEW value \in Value \cup {None}
  PROVE  LET new == FieldUpdated(doc, type, slot, value) IN
         /\ new.key = doc.key /\ new.type = type
         /\ new.draft.revision = doc.draft.revision + 1
         /\ Writable(doc.draft.fields) => Writable(new.draft.fields)
<1> DEFINE draft == [ revision |-> doc.draft.revision + 1,
                      schema   |-> type,
                      fields   |-> MergeField(doc.draft.fields, slot, value) ]
           new == FieldUpdated(doc, type, slot, value)
<1>1. doc \in Item /\ doc.draft.fields \in FieldMap \cup {None, Missing}
  BY NoneIsNoVersion DEF Version, Snapshot
<1>2. /\ draft.fields = MergeField(doc.draft.fields, slot, value)
      /\ draft.revision = doc.draft.revision + 1
  OBVIOUS
<1> HIDE DEF draft
<1>3. new.key = doc.key /\ new.type = type /\ new.draft = draft
  BY <1>1 DEF FieldUpdated, Item, draft
<1>4. Writable(doc.draft.fields) => Writable(MergeField(doc.draft.fields, slot, value))
  BY NilAssumption DEF Writable, MergeField, Raw, FieldMap
<1> QED
  BY <1>2, <1>3, <1>4

LEMMA InsertedCopy ==
  ASSUME NEW key, NEW type, NEW owner, NEW slot, NEW value \in Value \cup {None}
  PROVE  LET new == FieldInserted(key, type, owner, slot, value) IN
         /\ new.key = key /\ new.type = type
         /\ value # None => Writable(new.draft.fields)
<1>1. value # None => Writable(MergeField(Missing, slot, value))
  BY NilAssumption DEF Writable, MergeField, Raw, FieldMap
<1> QED
  BY <1>1 DEF FieldInserted

\* What one step of a call leaves in its hands, and in the store, comes from a copy
\* that was there or is its own new item.
LEMMA HeldComes ==
  ASSUME MatchByOne, IInv, NEW r \in Request, Matched(r), CallStep(r)
  PROVE  LET c == call[r]
             d == call'[r] IN
         /\ d.id # None =>
              \/ Descends(c, d.id, d.item)
              \/ Originates(c, r, d.id, d.item) /\ d.pc \in {"upsert", "emit"}
         /\ \A i \in Stored(items') : items'[i] # items[i] =>
              \/ Descends(c, i, items'[i])
              \/ Originates(c, r, i, items'[i]) /\ d.pc = "emit"
<1> DEFINE c == call[r]
           d == call'[r]
           Held == d.id # None =>
                     \/ Descends(c, d.id, d.item)
                     \/ Originates(c, r, d.id, d.item) /\ d.pc \in {"upsert", "emit"}
           Put == \A i \in Stored(items') : items'[i] # items[i] =>
                    \/ Descends(c, i, items'[i])
                    \/ Originates(c, r, i, items'[i]) /\ d.pc = "emit"
<1>0. /\ c \in CallRecord /\ call \in [Request -> CallRecord]
      /\ items \in [ID -> Version \cup {None}] /\ None \notin ID
      /\ c.item \in Version \cup {None} /\ (c.id = None <=> c.item = None)
      /\ c.id \in ID \cup {None} /\ c.pc # "done" => d.pc # "idle"
  BY CallEffect, RequestAssumption DEF IInv, CallsOK, CallOK, Equipped, ItemsOK, CallRecord
<1>1. ASSUME NEW pc, NEW id, NEW item, Hold(r, pc, id, item)
      PROVE  d.pc = pc /\ d.id = id /\ d.item = item
  BY <1>0, <1>1 DEF Hold, Become, CallRecord
<1>2. ASSUME NEW kind, Fail(r, kind) PROVE d.id = None
  BY <1>0, <1>2 DEF Fail, Become, CallRecord
<1>3. ASSUME NEW id, NEW item, Return(r, id, item)
      PROVE  d.id = id /\ d.item = item
  BY <1>0, <1>3 DEF Return, Become, CallRecord
<1>4. ASSUME NEW e, Become(r, e) PROVE d = e
  BY <1>0, <1>4 DEF Become
<1>5. ASSUME UNCHANGED items PROVE Put
  BY <1>5
\* The call keeps what it holds, or a change of it that leaves key, type and draft.
<1>6. ASSUME NEW x, c.id # None,
             x.key = c.item.key, x.type = c.item.type,
             x.draft = c.item.draft \/ (Writable(x.draft.fields))
      PROVE  Descends(c, c.id, x)
  <2>1. Copy(c.id, c.item)
    BY <1>6 DEF Copy
  <2> QED
    BY <1>6, <2>1 DEF Descends, OwnFields
<1>7. ASSUME d.id = c.id, d.item = c.item PROVE Held
  BY <1>6, <1>7
<1>8. ASSUME NEW i \in Stored(items)
      PROVE  Descends(c, i, Decode(items[i]))
  <2>1. items[i] \in Version
    BY <1>0, <1>8 DEF Stored
  <2>2. Copy(i, items[i])
    BY <1>8 DEF Copy
  <2> QED
    BY <2>1, <2>2, ReadCopy DEF Descends, OwnFields
<1>9. CASE \E in \in Inputs : Start(r, in)
  <2>1. PICK in \in Inputs : Start(r, in)
    BY <1>9
  <2> DEFINE bad == [c EXCEPT !.pc = "done", !.in = in, !.result = "badRequest"]
             started == [c EXCEPT !.pc = FirstStep(in), !.in = in]
  <2>2. bad.id = c.id /\ bad.item = c.item /\ started.id = c.id /\ started.item = c.item
    BY <1>0 DEF CallRecord
  <2>3. (d = bad \/ d = started) /\ UNCHANGED items
    BY <1>4, <2>1 DEF Start
  <2> HIDE DEF bad, started
  <2> QED
    BY <1>5, <1>7, <2>2, <2>3
<1>10. CASE GetByID(r)
  BY <1>1, <1>2, <1>5, <1>8, <1>10 DEF GetByID, FindByID
<1>11. CASE GetByKey(r)
  BY <1>1, <1>2, <1>5, <1>7, <1>8, <1>11 DEF GetByKey, FindByKey
<1>12. CASE Handler(r)
  <2>1. UNCHANGED items /\ c.pc = "handler"
    BY <1>12 DEF Handler, SaveDraft, SetFieldValue, Publish, Unpublish, Archive, Unarchive,
                 Delete, GetItem, Handling, PcIs
  <2>2. c.in \in Input
    BY <2>1, ActiveCall DEF IInv
  <2>3. CASE SaveDraft(r)
    <3> DEFINE new == SavedItem(c.in, SaveTarget(c.in, c.item))
    <3>1. c.in.op = "SaveDraft"
      BY <2>3 DEF SaveDraft, Handling
    <3>2. CASE /\ Hold(r, "upsert", IF c.item = None THEN r ELSE c.id, new)
               /\ ValidDraft(SaveTarget(c.in, c.item).type, c.in.fields)
      <4>1. CASE c.item = None
        <5>1. SaveTarget(c.in, c.item).type = c.in.type
          BY <4>1 DEF SaveTarget
        <5>2. /\ d.pc = "upsert" /\ d.id = r /\ d.item = new
              /\ new.key = c.in.key /\ new.type = c.in.type /\ new.draft.fields = c.in.fields
          BY <1>1, <2>2, <3>2, <4>1, SavedCopy
        <5> QED
          BY <2>1, <3>1, <3>2, <5>1, <5>2 DEF Originates, OwnFields, ValidDraft
      <4>2. CASE c.item # None
        <5>1. /\ d.id = c.id /\ d.item = new /\ c.id # None
              /\ new.draft.fields = c.in.fields /\ new.type = c.item.type
              /\ new.key = IF c.item.key = None THEN c.in.key ELSE c.item.key
          BY <1>0, <1>1, <2>2, <3>2, <4>2, SavedCopy
        <5>2. c.in.key # None => c.item.key = c.in.key
          BY <2>1, <5>1 DEF Matched
        <5>3. Copy(c.id, c.item)
          BY <5>1 DEF Copy
        <5> HIDE DEF new
        <5>4. new.key = c.item.key
          BY <5>1, <5>2
        <5> QED
          BY <2>1, <3>1, <5>1, <5>3, <5>4 DEF Descends, OwnFields
      <4> QED
        BY <4>1, <4>2
    <3> QED
      BY <1>2, <1>5, <2>1, <2>3, <3>2 DEF SaveDraft
  <2>4. CASE SetFieldValue(r)
    <3> DEFINE e == [c EXCEPT !.pc = "setField", !.type = FieldWriteType(c.in, c.item),
                              !.id = None, !.item = None]
    <3>1. e.id = None
      BY <1>0 DEF CallRecord
    <3>2. Become(r, e) \/ \E kind : Fail(r, kind)
      BY <2>4 DEF SetFieldValue
    <3> HIDE DEF e
    <3> QED
      BY <1>2, <1>4, <1>5, <2>1, <3>1, <3>2
  <2>5. CASE Publish(r) \/ Unpublish(r) \/ Archive(r) \/ Unarchive(r)
    <3>1. ASSUME NEW x \in { [c.item EXCEPT !.published = c.item.draft],
                             [c.item EXCEPT !.published = None],
                             [c.item EXCEPT !.archived = TRUE],
                             [c.item EXCEPT !.archived = FALSE, !.published = None] },
                 c.item # None, Hold(r, "upsert", c.id, x)
          PROVE  Held
      <4>1. c.item \in Item /\ c.id # None
        BY <1>0, <3>1 DEF Version
      <4>2. x.key = c.item.key /\ x.type = c.item.type /\ x.draft = c.item.draft
        BY <3>1, <4>1 DEF Item
      <4> QED
        BY <1>1, <1>6, <3>1, <4>1, <4>2
    <3>2. CASE Publish(r)
      BY <1>2, <1>5, <2>1, <3>1, <3>2 DEF Publish
    <3>3. CASE Unpublish(r)
      BY <1>2, <1>3, <1>5, <1>7, <2>1, <3>1, <3>3 DEF Unpublish
    <3>4. CASE Archive(r)
      BY <1>2, <1>5, <2>1, <3>1, <3>4 DEF Archive
    <3>5. CASE Unarchive(r)
      BY <1>2, <1>5, <2>1, <3>1, <3>5 DEF Unarchive
    <3> QED
      BY <2>5, <3>2, <3>3, <3>4, <3>5
  <2>6. CASE Delete(r) \/ GetItem(r)
    BY <1>1, <1>2, <1>3, <1>5, <1>7, <2>1, <2>6 DEF Delete, GetItem
  <2> QED
    BY <1>12, <2>3, <2>4, <2>5, <2>6 DEF Handler
<1>13. CASE Upsert(r)
  <2>1. CASE items' = [items EXCEPT ![c.id] = c.item] /\ Hold(r, "emit", c.id, c.item)
    <3>1. Held
      BY <1>1, <1>7, <2>1
    <3>2. ASSUME NEW i \in Stored(items'), items'[i] # items[i]
          PROVE  Descends(c, i, items'[i])
      <4>1. i = c.id /\ i \in ID /\ items'[i] = c.item /\ c.id # None
        BY <1>0, <2>1, <3>2 DEF Stored
      <4> QED
        BY <1>6, <4>1
    <3> QED
      BY <3>1, <3>2
  <2> QED
    BY <1>2, <1>5, <1>13, <2>1 DEF Upsert
<1>14. CASE UpdateField(r)
  <2>1. c.in \in Input /\ c.pc = "setField"
    BY <1>14, ActiveCall DEF UpdateField, PcIs, IInv
  <2>2. PICK i \in FieldTargets(items, c.in.id, c.in.key) :
          IF PathViable(items[i].draft, c.in.slot, c.in.value)
          THEN LET doc == FieldUpdated(items[i], c.type, c.in.slot, c.in.value) IN
               /\ items' = [items EXCEPT ![i] = doc]
               /\ Hold(r, "emit", i, Decode(doc))
          ELSE Fail(r, "internal") /\ UNCHANGED items
    BY <1>14 DEF UpdateField
  <2> DEFINE doc == FieldUpdated(items[i], c.type, c.in.slot, c.in.value)
  <2>3. i \in Stored(items) /\ items[i] \in Version
    BY <1>0 DEF FieldTargets, FindByID, FindByKey, Stored
  <2>4. c.in.value \in Value \cup {None}
    BY <2>1 DEF Input
  <2>5. /\ doc.key = items[i].key /\ doc.type = c.type
        /\ Writable(items[i].draft.fields) => Writable(doc.draft.fields)
    BY <2>3, <2>4, WrittenCopy
  <2>6. CASE /\ items' = [items EXCEPT ![i] = doc]
             /\ Hold(r, "emit", i, Decode(doc))
    <3>1. i \in ID /\ items'[i] = doc /\ \A j \in ID \ {i} : items'[j] = items[j]
      BY <1>0, <2>3, <2>6 DEF Stored
    <3>2. doc \in Version
      BY <2>1, <2>3, FieldUpdateIsVersion DEF IInv, CallsOK, CallOK, Equipped
    <3> HIDE DEF doc
    <3>3. Copy(i, items[i])
      BY <2>3 DEF Copy
    <3>4. Descends(c, i, doc) /\ Descends(c, i, Decode(doc))
      BY <2>1, <2>5, <3>2, <3>3, ReadCopy DEF Descends, OwnFields
    <3>5. Held
      BY <1>1, <2>6, <3>4
    <3>6. Put
      BY <1>0, <3>1, <3>4, <2>6 DEF Stored
    <3> QED
      BY <3>5, <3>6
  <2>7. CASE Fail(r, "internal") /\ UNCHANGED items
    BY <1>2, <1>5, <2>7
  <2> QED
    BY <2>2, <2>6, <2>7
<1>15. CASE MissField(r)
  <2> DEFINE e == [c EXCEPT !.pc = "insertField"]
  <2>1. e.id = c.id /\ e.item = c.item
    BY <1>0 DEF CallRecord
  <2>2. (Become(r, e) \/ \E kind : Fail(r, kind)) /\ UNCHANGED items
    BY <1>15 DEF MissField
  <2> HIDE DEF e
  <2> QED
    BY <1>2, <1>4, <1>5, <1>7, <2>1, <2>2
<1>16. CASE InsertField(r)
  <2> DEFINE doc == FieldInserted(c.in.key, c.type, c.in.owner, c.in.slot, c.in.value)
             e == [c EXCEPT !.pc = "setField", !.retried = TRUE]
  <2>1. c.in \in Input /\ c.pc = "insertField" /\ c.in.value \in Value \cup {None}
    <3>1. c.in \in Input /\ c.pc = "insertField"
      BY <1>16, ActiveCall DEF InsertField, PcIs, IInv
    <3> QED
      BY <3>1 DEF Input
  <2>2. /\ doc.key = c.in.key /\ doc.type = c.type
        /\ c.in.value # None => Writable(doc.draft.fields)
    BY <2>1, InsertedCopy
  <2>3. CASE items' = [items EXCEPT ![r] = doc] /\ Hold(r, "emit", r, Decode(doc))
    <3>1. r \in ID /\ items'[r] = doc /\ \A j \in ID \ {r} : items'[j] = items[j]
      BY <1>0, <2>3 DEF ID
    <3>2. doc \in Version
      BY <2>1, FieldInsertIsVersion DEF IInv, CallsOK, CallOK, Equipped, Input
    <3> HIDE DEF doc
    <3>3. Originates(c, r, r, doc) /\ Originates(c, r, r, Decode(doc))
      BY <2>1, <2>2, <3>2, ReadCopy DEF Originates, OwnFields
    <3>4. Held
      BY <1>1, <2>3, <3>3
    <3>5. d.pc = "emit"
      BY <1>1, <2>3
    <3>6. Put
      BY <1>0, <2>3, <3>1, <3>3, <3>5 DEF Stored
    <3> QED
      BY <3>4, <3>6
  <2>4. CASE UNCHANGED items /\ (Become(r, e) \/ Fail(r, "internal"))
    <3>1. e.id = c.id /\ e.item = c.item
      BY <1>0 DEF CallRecord
    <3> HIDE DEF e
    <3> QED
      BY <1>2, <1>4, <1>5, <1>7, <2>4, <3>1
  <2> QED
    BY <1>16, <2>3, <2>4 DEF InsertField
<1>17. CASE DeleteOne(r)
  <2>1. Held
    BY <1>1, <1>7, <1>17 DEF DeleteOne
  <2>2. Put
    BY <1>0, <1>17 DEF DeleteOne, Stored
  <2> QED
    BY <2>1, <2>2
<1>18. CASE Emit(r)
  <2> DEFINE e == [c EXCEPT
               !.pc = "done", !.result = "ok",
               !.event = IF Suppressed(c.item.type) THEN None
                            ELSE [ op |-> EventOp(c.in.op), type |-> c.item.type,
                                   owner |-> c.item.owner ]]
  <2>1. d = e /\ UNCHANGED items
    BY <1>4, <1>18 DEF Emit
  <2>2. e.id = c.id /\ e.item = c.item
    BY <1>0 DEF CallRecord
  <2> HIDE DEF e
  <2> QED
    BY <1>5, <1>7, <2>1, <2>2
<1>19. CASE StoreFails(r) \/ AckLost(r)
  BY <1>2, <1>5, <1>19 DEF StoreFails, AckLost
<1> QED
  BY <1>9, <1>10, <1>11, <1>12, <1>13, <1>14, <1>15, <1>16, <1>17, <1>18, <1>19
     DEF CallStep, Progress, Write

\* So does every copy there is after the step.
LEMMA CopiesCome ==
  ASSUME MatchByOne, IInv, NEW r \in Request, Matched(r), CallStep(r),
         NEW i \in ID, NEW x, Copy(i, x)'
  PROVE  \/ Copy(i, x)
         \/ Descends(call[r], i, x)
         \/ Originates(call[r], r, i, x) /\ call'[r].pc \in {"upsert", "emit"}
<1>1. CASE i \in Stored(items') /\ x = items'[i]
  <2>1. CASE items'[i] = items[i]
    <3>1. i \in Stored(items)
      BY <1>1, <2>1 DEF Stored, IInv, ItemsOK
    <3> QED
      BY <1>1, <2>1, <3>1 DEF Copy
  <2>2. CASE items'[i] # items[i]
    BY <1>1, <2>2, HeldComes
  <2> QED
    BY <2>1, <2>2
<1>2. CASE \E q \in Request : call'[q].id = i /\ call'[q].id # None /\ x = call'[q].item
  <2>1. PICK q \in Request : call'[q].id = i /\ call'[q].id # None /\ x = call'[q].item
    BY <1>2
  <2>2. CASE q = r
    BY <2>1, <2>2, HeldComes
  <2>3. CASE q # r
    <3>1. call'[q] = call[q]
      BY <2>3, CallEffect
    <3> QED
      BY <2>1, <3>1 DEF Copy
  <2> QED
    BY <2>2, <2>3
<1> QED
  BY <1>1, <1>2 DEF Copy

\* A call that makes an item makes the first copy of it.
LEMMA FirstCopy ==
  ASSUME NEW r \in Request, Unborn(r), NEW i, NEW x, Originates(call[r], r, i, x), NEW y
  PROVE  i = r /\ ~Copy(i, y)
BY DEF Originates, Unborn, Copy

LEMMA MatchInitially == MatchByOne /\ Init => MatchInv
<1> SUFFICES ASSUME Init, NEW r \in Request PROVE Matched(r) /\ Unborn(r)
  BY DEF MatchInv
<1>1. \A q \in Request : call[q] = Idle
  BY DEF Init
<1>2. r \notin Stored(items) /\ r # None
  BY ContentsAssumption, RequestAssumption DEF Init, ID
<1> QED
  BY <1>1, <1>2 DEF Matched, Unborn, Idle

LEMMA MatchStep ==
  ASSUME MatchByOne, IInv, MatchInv, NEW r \in Request, CallStep(r)
  PROVE  Matched(r)'
<1> DEFINE c == call[r]
           d == call'[r]
<1>0. /\ c \in CallRecord /\ call \in [Request -> CallRecord] /\ Matched(r)
      /\ c.pc = "idle" => d.in \in Inputs
      /\ c.pc # "idle" => d.in = c.in
      /\ c.id = None <=> c.item = None
      /\ items \in [ID -> Version \cup {None}]
      /\ c.pc # "idle" => c.in.id = None \/ c.in.key = None
  BY InputKept DEF IInv, CallsOK, CallOK, Equipped, ItemsOK, MatchInv, Matched, MatchByOne
<1>1. ASSUME NEW pc, NEW id, NEW item, Hold(r, pc, id, item)
      PROVE  d.pc = pc /\ d.id = id /\ d.item = item
  BY <1>0, <1>1 DEF Hold, Become, CallRecord
<1>2. ASSUME NEW kind, Fail(r, kind) PROVE d.pc = "done" /\ d.id = None
  BY <1>0, <1>2 DEF Fail, Become, CallRecord
<1>3. ASSUME NEW id, NEW item, Return(r, id, item)
      PROVE  d.pc = "done" /\ d.id = id
  BY <1>0, <1>3 DEF Return, Become, CallRecord
<1>4. ASSUME NEW e, Become(r, e) PROVE d = e
  BY <1>0, <1>4 DEF Become
<1>5. ASSUME d.pc = "done", d.id = None, c.pc # "idle" PROVE Matched(r)'
  BY <1>0, <1>5 DEF Matched
<1>6. CASE \E in \in Inputs : Start(r, in)
  <2>1. PICK in \in Inputs : Start(r, in)
    BY <1>6
  <2> DEFINE bad == [c EXCEPT !.pc = "done", !.in = in, !.result = "badRequest"]
             started == [c EXCEPT !.pc = FirstStep(in), !.in = in]
  <2>2. /\ bad.id = c.id /\ bad.in = in /\ bad.pc = "done"
        /\ started.id = c.id /\ started.in = in /\ started.pc = FirstStep(in)
    BY <1>0 DEF CallRecord
  <2>3. (d = bad \/ d = started) /\ c.pc = "idle"
    BY <1>4, <2>1 DEF Start, PcIs
  <2> HIDE DEF bad, started
  <2> QED
    BY <1>0, <2>2, <2>3 DEF Matched, FirstStep
<1>7. CASE GetByID(r)
  <2>1. c.pc = "getByID" /\ c.in.id # None /\ c.in.key = None
    BY <1>0, <1>7 DEF GetByID, PcIs, Matched
  <2> QED
    BY <1>0, <1>1, <1>2, <1>5, <1>7, <2>1 DEF GetByID, FindByID, Matched
<1>8. CASE GetByKey(r)
  <2>1. c.pc = "getByKey" /\ c.in.key # None /\ c.in.id = None /\ c.id = None
    BY <1>0, <1>8 DEF GetByKey, PcIs, Matched
  <2>2. CASE Hold(r, "handler", c.id, c.item)
    BY <1>0, <1>1, <2>1, <2>2 DEF Matched
  <2>3. CASE \E i \in FindByKey(items, c.in.key) : Hold(r, "handler", i, Decode(items[i]))
    <3>1. PICK i \in FindByKey(items, c.in.key) : Hold(r, "handler", i, Decode(items[i]))
      BY <2>3
    <3>2. items[i] \in Version /\ items[i].key = c.in.key
      BY <1>0 DEF FindByKey, Stored
    <3>3. Decode(items[i]).key = c.in.key
      BY <3>2, ReadCopy
    <3>4. d.pc = "handler" /\ d.item = Decode(items[i])
      BY <1>1, <3>1
    <3> QED
      BY <1>0, <2>1, <3>3, <3>4 DEF Matched
  <2> QED
    BY <1>8, <2>1, <2>2, <2>3 DEF GetByKey
<1>9. CASE Handler(r)
  <2>1. c.pc = "handler"
    BY <1>9 DEF Handler, SaveDraft, SetFieldValue, Publish, Unpublish, Archive, Unarchive,
                Delete, GetItem, Handling, PcIs
  <2>2. CASE SetFieldValue(r)
    <3> DEFINE e == [c EXCEPT !.pc = "setField", !.type = FieldWriteType(c.in, c.item),
                              !.id = None, !.item = None]
    <3>1. e.pc = "setField" /\ e.id = None
      BY <1>0 DEF CallRecord
    <3>2. Become(r, e) \/ \E kind : Fail(r, kind)
      BY <2>2 DEF SetFieldValue
    <3> HIDE DEF e
    <3> QED
      BY <1>0, <1>2, <1>4, <1>5, <2>1, <3>1, <3>2 DEF Matched
  <2>3. CASE Handler(r) /\ ~SetFieldValue(r)
    <3>1. c.in.op # "SetFieldValue" /\ d.in = c.in /\ c.in \in Inputs
      BY <1>0, <2>1, <2>3 DEF Matched, Handler, SaveDraft, Publish, Unpublish, Archive,
           Unarchive, Delete, GetItem, Handling
    <3>2. d.pc \in {"upsert", "delete", "done"}
      BY <1>1, <1>2, <1>3, <2>3 DEF Handler, SaveDraft, Publish, Unpublish, Archive,
           Unarchive, Delete, GetItem
    <3> QED
      BY <3>1, <3>2 DEF Matched
  <2> QED
    BY <1>9, <2>2, <2>3
<1>10. CASE Upsert(r) \/ DeleteOne(r)
  <2>1. c.in.op # "SetFieldValue" /\ d.in = c.in /\ c.in \in Inputs
    BY <1>0, <1>10 DEF Matched, Upsert, DeleteOne, PcIs
  <2>2. d.pc \in {"emit", "done"}
    BY <1>1, <1>2, <1>10 DEF Upsert, DeleteOne
  <2> QED
    BY <2>1, <2>2 DEF Matched
<1>11. CASE UpdateField(r)
  <2>1. c.pc = "setField" /\ d.in = c.in /\ c.in \in Inputs
    BY <1>0, <1>11 DEF Matched, UpdateField, PcIs
  <2>2. \/ d.pc = "done" /\ d.id = None
        \/ d.pc = "emit" /\ (c.in.key = None => d.id = c.in.id)
    BY <1>1, <1>2, <1>11 DEF UpdateField, FieldTargets, FindByID
  <2> QED
    BY <1>0, <2>1, <2>2 DEF Matched
<1>12. CASE MissField(r)
  <2> DEFINE e == [c EXCEPT !.pc = "insertField"]
  <2>1. e.pc = "insertField" /\ e.id = c.id
    BY <1>0 DEF CallRecord
  <2>2. /\ c.pc = "setField" /\ c.id = None
        /\ \/ Become(r, e) /\ c.in.key # None
           \/ \E kind : Fail(r, kind)
    BY <1>0, <1>12 DEF MissField, PcIs, Matched
  <2> HIDE DEF e
  <2> QED
    BY <1>0, <1>2, <1>4, <1>5, <2>1, <2>2 DEF Matched
<1>13. CASE InsertField(r)
  <2> DEFINE e == [c EXCEPT !.pc = "setField", !.retried = TRUE]
  <2>1. e.pc = "setField" /\ e.id = c.id
    BY <1>0 DEF CallRecord
  <2>2. c.pc = "insertField" /\ c.id = None /\ c.in.key # None /\ c.in.id = None
    BY <1>0, <1>13 DEF InsertField, PcIs, Matched
  <2>3. \/ \E item : Hold(r, "emit", r, item)
        \/ \E kind : Fail(r, kind)
        \/ Become(r, e)
    BY <1>13 DEF InsertField
  <2> HIDE DEF e
  <2> QED
    BY <1>0, <1>1, <1>2, <1>4, <1>5, <2>1, <2>2, <2>3 DEF Matched
<1>14. CASE Emit(r)
  <2> DEFINE e == [c EXCEPT
               !.pc = "done", !.result = "ok",
               !.event = IF Suppressed(c.item.type) THEN None
                            ELSE [ op |-> EventOp(c.in.op), type |-> c.item.type,
                                   owner |-> c.item.owner ]]
  <2>1. d = e /\ c.pc = "emit"
    BY <1>4, <1>14 DEF Emit, PcIs
  <2>2. e.id = c.id /\ e.pc = "done"
    BY <1>0 DEF CallRecord
  <2> HIDE DEF e
  <2> QED
    BY <1>0, <2>1, <2>2 DEF Matched
<1>15. CASE StoreFails(r) \/ AckLost(r)
  BY <1>2, <1>5, <1>15 DEF StoreFails, AckLost, StorePC, PcIs
<1> QED
  BY <1>6, <1>7, <1>8, <1>9, <1>10, <1>11, <1>12, <1>13, <1>14, <1>15
     DEF CallStep, Progress, Write

LEMMA UnbornStep ==
  ASSUME MatchByOne, IInv, MatchInv, NEW r \in Request, CallStep(r), NEW q \in Request
  PROVE  Unborn(q)'
<1> SUFFICES ASSUME call'[q].pc \notin {"emit", "done"}
             PROVE  /\ q \notin Stored(items')
                    /\ \A s \in Request :
                         /\ call'[s].id = q => s = q /\ call'[q].pc = "upsert"
                         /\ call'[s].pc = "setField" => call'[s].in.id # q
  BY DEF Unborn
<1>0. q \in ID /\ q # None
  BY RequestAssumption DEF ID
<1>1. call[q].pc \notin {"emit", "done"}
  BY CallEffect
<1>2. /\ q \notin Stored(items)
      /\ \A s \in Request : /\ call[s].id = q => s = q /\ call[q].pc = "upsert"
                            /\ call[s].pc = "setField" => call[s].in.id # q
  BY <1>1 DEF MatchInv, Unborn
<1>3. Onward(call[r], call'[r])
  BY StepIsOnward
<1>4. q \notin Stored(items')
  BY <1>2, CallEffect
<1>5. ASSUME NEW s \in Request, call'[s].id = q PROVE s = q /\ call'[q].pc = "upsert"
  <2>1. CASE s # r
    <3>1. call'[s] = call[s] /\ s = q /\ call[q].pc = "upsert"
      BY <1>2, <1>5, <2>1, CallEffect
    <3> QED
      BY <3>1
  <2>2. CASE s = r
    <3>1. \/ Descends(call[r], q, call'[r].item)
          \/ Originates(call[r], r, q, call'[r].item) /\ call'[r].pc \in {"upsert", "emit"}
      BY <1>0, <1>5, <2>2, HeldComes DEF MatchInv
    <3>2. CASE Descends(call[r], q, call'[r].item)
      <4>1. call[q].pc = "upsert" /\ call[q].id = q
        BY <1>0, <1>2, <3>2 DEF Descends, Copy
      <4>2. r = q
        <5>1. q = call[r].id \/ q = r
          BY <1>0, <1>2, <1>5, <2>2, CallEffect
        <5> QED
          BY <1>2, <5>1
      <4> QED
        BY <1>3, <4>1, <4>2 DEF Onward
    <3>3. CASE Originates(call[r], r, q, call'[r].item) /\ call'[r].pc \in {"upsert", "emit"}
      BY <2>2, <3>3 DEF Originates
    <3> QED
      BY <3>1, <3>2, <3>3
  <2> QED
    BY <2>1, <2>2
<1>6. ASSUME NEW s \in Request, call'[s].pc = "setField" PROVE call'[s].in.id # q
  <2>1. CASE s # r
    BY <1>2, <1>6, <2>1, CallEffect
  <2>2. CASE s = r
    <3> DEFINE c == call[r]
    <3>1. c.pc \in {"handler", "insertField"} /\ call'[r].in = c.in /\ Matched(r)
      BY <1>3, <1>6, <2>2, InputKept DEF Onward, MatchInv
    <3>2. CASE c.pc = "insertField"
      BY <1>0, <2>2, <3>1, <3>2 DEF Matched, MatchByOne
    <3>3. CASE c.pc = "handler"
      <4>1. c.in.op = "SetFieldValue"
        <5>1. IInv'
          BY StepOK DEF Next
        <5> QED
          BY <1>6, <2>2, <3>1, <5>1 DEF IInv, CallsOK, CallOK, Equipped
      <4>2. c.in.id = q => c.id = q
        BY <1>0, <3>1, <3>3, <4>1 DEF Matched, IDMustResolve
      <4> QED
        BY <1>2, <2>2, <3>1, <3>3, <4>2
    <3> QED
      BY <3>1, <3>2, <3>3
  <2> QED
    BY <2>1, <2>2
<1> QED
  BY <1>4, <1>5, <1>6

LEMMA MatchInvariance == MatchByOne => (Spec => [](IInv /\ MatchInv))
<1> SUFFICES ASSUME MatchByOne PROVE Spec => [](IInv /\ MatchInv)
  OBVIOUS
<1>1. Init => MatchInv
  BY MatchInitially
<1>2. IInv /\ MatchInv /\ [Next]_vars => MatchInv'
  <2> SUFFICES ASSUME IInv, MatchInv, [Next]_vars PROVE MatchInv'
    OBVIOUS
  <2>1. ASSUME NEW r \in Request, CallStep(r), NEW q \in Request
        PROVE  Matched(q)' /\ Unborn(q)'
    <3>1. Matched(q)'
      <4>1. CASE q = r
        BY <2>1, <4>1, MatchStep
      <4>2. CASE q # r
        BY <2>1, <4>2, CallEffect DEF MatchInv, Matched
      <4> QED
        BY <4>1, <4>2
    <3> QED
      BY <2>1, <3>1, UnbornStep
  <2>2. CASE UNCHANGED vars
    BY <2>2 DEF vars, MatchInv, Matched, Unborn
  <2> QED
    BY <2>1, <2>2 DEF Next, Finished, MatchInv
<1> QED
  BY <1>1, <1>2, Invariance, PTL DEF Spec

------------------------------------------------------------------------------
(* Matching by id or by key: keys, and the target of a field write.         *)

\* At the start the only copies are the stored ones.
LEMMA CopiesAtStart ==
  ASSUME Init, NEW i, NEW x, Copy(i, x)
  PROVE  i \in Stored(items) /\ x = items[i]
BY DEF Init, Copy, Idle

LEMMA KeyStep ==
  ASSUME MatchByOne, IInv, MatchInv, KeySteady, NEW r \in Request, CallStep(r)
  PROVE  KeySteady'
<1> SUFFICES ASSUME NEW i \in ID, NEW x, NEW y, Copy(i, x)', Copy(i, y)'
             PROVE  x.key = y.key
  BY DEF KeySteady
<1>1. ASSUME NEW z, Copy(i, z)'
      PROVE  \/ \E w : Copy(i, w) /\ z.key = w.key
             \/ Originates(call[r], r, i, z)
  BY <1>1, CopiesCome DEF MatchInv, Descends
<1>2. CASE \E w : Copy(i, w)
  <2>1. ~Originates(call[r], r, i, x) /\ ~Originates(call[r], r, i, y)
    BY <1>2, FirstCopy DEF MatchInv
  <2> QED
    BY <1>1, <2>1 DEF KeySteady
<1>3. CASE ~\E w : Copy(i, w)
  BY <1>1, <1>3 DEF Originates
<1> QED
  BY <1>2, <1>3

LEMMA KeyKept ==
  ASSUME MatchByOne, IInv, MatchInv, KeySteady, NEW r \in Request, CallStep(r),
         NEW i \in Stored(items), items'[i] # None
  PROVE  items'[i].key = items[i].key
<1> SUFFICES ASSUME items'[i] # items[i] PROVE items'[i].key = items[i].key
  OBVIOUS
<1>1. i \in ID /\ i \in Stored(items')
  BY StepOK DEF Next, IInv, ItemsOK, Stored
<1>2. Copy(i, items[i])
  BY DEF Copy
<1>3. Descends(call[r], i, items'[i])
  BY <1>1, <1>2, HeldComes, FirstCopy DEF MatchInv
<1> QED
  BY <1>1, <1>2, <1>3 DEF Descends, KeySteady

LEMMA KeyInvariance == MatchByOne => (Spec => [](IInv /\ MatchInv /\ KeySteady))
<1> SUFFICES ASSUME MatchByOne PROVE Spec => [](IInv /\ MatchInv /\ KeySteady)
  OBVIOUS
<1>1. Init => KeySteady
  BY CopiesAtStart DEF KeySteady
<1>2. IInv /\ MatchInv /\ KeySteady /\ [Next]_vars => KeySteady'
  <2>1. CASE UNCHANGED vars
    BY <2>1 DEF vars, KeySteady, Copy, Stored
  <2> QED
    BY <2>1, KeyStep DEF Next, Finished
<1> QED
  BY <1>1, <1>2, MatchInvariance, PTL DEF Spec

------------------------------------------------------------------------------
(* One type per key.                                                        *)

LEMMA TypesAtStart ==
  ASSUME NEW T, TypesByKey(T), Init
  PROVE  TypeSteady(T)
<1>1. \A r \in Request : call[r].pc = "idle"
  BY DEF Init, Idle
<1>2. \A i \in Stored(items) : items[i].key # None => items[i].type = T[items[i].key]
  BY DEF Init, TypesByKey
<1> QED
  BY <1>1, <1>2, CopiesAtStart DEF TypeSteady

\* A copy after the step has the type its ancestor had: a field write brings the
\* type its target has already.
LEMMA TypeCopy ==
  ASSUME NEW T, TypesByKey(T), MatchByOne, IInv, MatchInv, TypeSteady(T),
         NEW r \in Request, CallStep(r), NEW i \in ID, NEW x, Copy(i, x)'
  PROVE  \/ \E y : Copy(i, y) /\ x.key = y.key /\ x.type = y.type
         \/ /\ Originates(call[r], r, i, x)
            /\ x.key # None => x.type = T[x.key]
<1> DEFINE c == call[r]
<1>1. CASE Copy(i, x)
  BY <1>1
<1>2. CASE Descends(c, i, x)
  <2>1. PICK y : /\ Copy(i, y) /\ x.key = y.key
                 /\ \/ x.type = y.type
                    \/ /\ c.pc = "setField" /\ x.type = c.type
                       /\ i \in FieldTargets(items, c.in.id, c.in.key)
    BY <1>2 DEF Descends
  <2>2. CASE /\ c.pc = "setField" /\ x.type = c.type
             /\ i \in FieldTargets(items, c.in.id, c.in.key)
    <3>1. Copy(i, items[i]) /\ (c.in.key # None => items[i].key = c.in.key)
          /\ (c.in.key = None => i = c.in.id)
      BY <2>2 DEF FieldTargets, FindByID, FindByKey, Copy
    <3>2. IF c.in.key # None THEN c.type = T[c.in.key]
                             ELSE \A z : Copy(c.in.id, z) => z.type = c.type
      BY <2>2 DEF TypeSteady
    <3>3. items[i].type = c.type
      BY <3>1, <3>2 DEF TypeSteady
    <3>4. y.type = c.type
      BY <2>1, <3>1, <3>3 DEF TypeSteady
    <3> QED
      BY <2>1, <2>2, <3>4
  <2> QED
    BY <2>1, <2>2
<1>3. CASE Originates(c, r, i, x)
  <2>1. c.pc \in {"handler", "insertField"} /\ x.key = c.in.key /\ c.in \in Inputs
    BY <1>3 DEF Originates, MatchInv, Matched
  <2>2. CASE c.pc = "handler"
    <3>1. x.type = c.in.type /\ c.in.type \in ContentType
      BY <1>3, <2>2, RegistryAssumption DEF Originates, Registered
    <3> QED
      BY <1>3, <2>1, <3>1, NilAssumption DEF TypesByKey
  <2>3. CASE c.pc = "insertField"
    BY <1>3, <2>1, <2>3 DEF Originates, TypeSteady
  <2> QED
    BY <2>1, <2>2, <2>3
<1> QED
  BY <1>1, <1>2, <1>3, CopiesCome DEF MatchInv

\* What a field write carries is the type of its target-to-be.
LEMMA TypeCarried ==
  ASSUME NEW T, TypesByKey(T), MatchByOne, IInv, MatchInv, TypeSteady(T),
         NEW r \in Request, CallStep(r), call'[r].pc \in {"setField", "insertField"}
  PROVE  LET c == call[r]
             d == call'[r]
         IN
         /\ d.in = c.in
         /\ IF c.in.key # None THEN d.type = T[c.in.key]
                               ELSE \A x : Copy(c.in.id, x) => x.type = d.type
<1> DEFINE c == call[r]
           d == call'[r]
<1>1. c.pc \in {"handler", "setField", "insertField"} /\ d.in = c.in
  BY StepIsOnward, InputKept DEF Onward
<1>2. /\ c \in CallRecord /\ call \in [Request -> CallRecord] /\ c.in \in Input
      /\ c.id = None <=> c.item = None
      /\ Matched(r) /\ c.in \in Inputs
  BY <1>1, ActiveCall DEF IInv, CallsOK, MatchInv, Matched
<1>3. ASSUME NEW e, Become(r, e) PROVE d = e
  BY <1>2, <1>3 DEF Become
<1>4. ASSUME NEW pc, NEW id, NEW item, Hold(r, pc, id, item) PROVE d.pc = pc
  BY <1>2, <1>4 DEF Hold, Become, CallRecord
<1>5. ASSUME NEW kind, Fail(r, kind) PROVE d.pc = "done"
  BY <1>2, <1>5 DEF Fail, Become, CallRecord
<1>6. ASSUME NEW id, NEW item, Return(r, id, item) PROVE d.pc = "done"
  BY <1>2, <1>6 DEF Return, Become, CallRecord
<1>7. CASE c.pc = "handler"
  <2>1. SetFieldValue(r)
    <3>1. Handler(r)
      BY <1>5, <1>7 DEF CallStep, Progress, Start, GetByID, GetByKey, Write, Upsert, UpdateField,
                  MissField, InsertField, DeleteOne, Emit, StoreFails, AckLost, PcIs
    <3> QED
      BY <1>4, <1>5, <1>6, <3>1 DEF Handler, SaveDraft, Publish, Unpublish, Archive,
                                    Unarchive, Delete, GetItem
  <2> DEFINE type == FieldWriteType(c.in, c.item)
             e == [c EXCEPT !.pc = "setField", !.type = type, !.id = None, !.item = None]
  <2>2. Become(r, e) /\ MayWriteField(c.in, c.item) /\ ValidField(type, c.in.slot, c.in.value)
    BY <1>5, <2>1 DEF SetFieldValue
  <2>3. e.type = type
    BY <1>2 DEF CallRecord
  <2>4. d.type = type /\ c.in.op = "SetFieldValue"
    BY <1>3, <2>1, <2>2, <2>3 DEF SetFieldValue, Handling
  <2> HIDE DEF e
  <2>5. CASE c.item = None
    <3>1. type = c.in.type /\ c.in.key # None /\ Registered(c.in.type)
      BY <2>2, <2>5 DEF FieldWriteType, MayWriteField
    <3>2. c.in.type # None
      BY <3>1, RegistryAssumption, NilAssumption DEF Registered
    <3> QED
      BY <1>1, <1>2, <2>4, <3>1, <3>2 DEF TypesByKey
  <2>6. CASE c.item # None
    <3>1. type = c.item.type /\ c.id # None
      BY <1>2, <2>6 DEF FieldWriteType
    <3>2. Copy(c.id, c.item) /\ c.id \in ID
      BY <1>2, <3>1 DEF Copy, CallRecord
    <3>3. CASE c.in.key # None
      <4>1. c.item.key = c.in.key
        BY <1>2, <1>7, <3>1, <3>3 DEF Matched
      <4> QED
        BY <1>1, <2>4, <3>1, <3>2, <3>3, <4>1 DEF TypeSteady
    <3>4. CASE c.in.key = None
      <4>1. ASSUME NEW x, Copy(c.in.id, x) PROVE x.type = d.type
        <5>1. c.in.id # None
          BY <4>1, RequestAssumption DEF Copy, Stored, IInv, ItemsOK
        <5>2. c.id = c.in.id
          BY <1>2, <1>7, <2>4, <5>1 DEF Matched, IDMustResolve
        <5> QED
          BY <2>4, <3>1, <3>2, <4>1, <5>2 DEF TypeSteady
      <4> QED
        BY <1>1, <3>4, <4>1
    <3> QED
      BY <3>3, <3>4
  <2> QED
    BY <2>5, <2>6
<1>8. CASE c.pc \in {"setField", "insertField"}
  <2> DEFINE e == [c EXCEPT !.pc = "insertField"]
             f == [c EXCEPT !.pc = "setField", !.retried = TRUE]
  <2>1. e.type = c.type /\ f.type = c.type
    BY <1>2 DEF CallRecord
  <2>2. d = e \/ d = f
    BY <1>3, <1>4, <1>5, <1>8
       DEF CallStep, Progress, Start, GetByID, GetByKey, Handler, SaveDraft, SetFieldValue,
           Publish, Unpublish, Archive, Unarchive, Delete, GetItem, Handling, Write, Upsert,
           UpdateField, MissField, InsertField, DeleteOne, Emit, StoreFails, AckLost, PcIs
  <2>3. d.type = c.type
    BY <2>1, <2>2
  <2> QED
    BY <1>1, <1>8, <2>3 DEF TypeSteady
<1> QED
  BY <1>1, <1>7, <1>8

LEMMA TypeStep ==
  ASSUME NEW T, TypesByKey(T), MatchByOne, IInv, MatchInv, TypeSteady(T),
         NEW r \in Request, CallStep(r)
  PROVE  TypeSteady(T)'
<1>1. ASSUME NEW i \in ID, NEW x, NEW y, Copy(i, x)', Copy(i, y)' PROVE x.type = y.type
  <2>1. CASE \E w : Copy(i, w)
    <3>1. ~Originates(call[r], r, i, x) /\ ~Originates(call[r], r, i, y)
      BY <2>1, FirstCopy DEF MatchInv
    <3>2. PICK v, w : Copy(i, v) /\ Copy(i, w) /\ x.type = v.type /\ y.type = w.type
      BY <1>1, <3>1, TypeCopy
    <3> QED
      BY <3>2 DEF TypeSteady
  <2>2. CASE ~\E w : Copy(i, w)
    BY <1>1, <2>2, TypeCopy DEF Originates
  <2> QED
    BY <2>1, <2>2
<1>2. ASSUME NEW i \in ID, NEW x, Copy(i, x)', x.key # None PROVE x.type = T[x.key]
  BY <1>2, TypeCopy DEF TypeSteady
<1>3. ASSUME NEW q \in Request, call'[q].pc \in {"setField", "insertField"}
      PROVE  IF call'[q].in.key # None
             THEN call'[q].type = T[call'[q].in.key]
             ELSE \A i, x : i = call'[q].in.id /\ Copy(i, x)' => x.type = call'[q].type
  <2> DEFINE in == call'[q].in
  <2>1. IF in.key # None THEN call'[q].type = T[in.key]
                         ELSE \A x : Copy(in.id, x) => x.type = call'[q].type
    <3>1. CASE q = r
      BY <1>3, <3>1, TypeCarried
    <3>2. CASE q # r
      <4>1. call'[q] = call[q]
        BY <3>2, CallEffect
      <4> QED
        BY <1>3, <4>1 DEF TypeSteady
    <3> QED
      BY <3>1, <3>2
  <2>2. ASSUME in.key = None, NEW i, i = in.id, NEW x, Copy(i, x)'
        PROVE  x.type = call'[q].type
    <3>1. IInv' /\ Matched(q)'
      <4>1. IInv'
        BY StepOK DEF Next
      <4>2. Matched(q)'
        <5>1. CASE q = r
          BY <5>1, MatchStep
        <5>2. CASE q # r
          BY <5>2, CallEffect DEF MatchInv, Matched
        <5> QED
          BY <5>1, <5>2
      <4> QED
        BY <4>1, <4>2
    <3>2. call'[q].pc = "setField"
      BY <1>3, <2>2, <3>1 DEF Matched
    <3>3. i \in ID
      BY <2>2, <3>1 DEF Copy, Stored, IInv, ItemsOK, CallsOK, CallRecord
    <3>4. ~Originates(call[r], r, i, x)
      <4>1. CASE q = r
        <5>1. Unborn(r)'
          BY UnbornStep
        <5>2. in.id # r
          BY <3>2, <4>1, <5>1 DEF Unborn
        <5> QED
          BY <2>2, <5>2 DEF Originates
      <4>2. CASE q # r
        <5>1. call'[q] = call[q]
          BY <4>2, CallEffect
        <5>2. call[r].pc \notin {"emit", "done"} => in.id # r
          BY <3>2, <5>1 DEF MatchInv, Unborn
        <5> QED
          BY <2>2, <5>2 DEF Originates
      <4> QED
        BY <4>1, <4>2
    <3>5. PICK y : Copy(i, y) /\ x.type = y.type
      BY <2>2, <3>3, <3>4, TypeCopy
    <3> QED
      BY <2>1, <2>2, <3>5
  <2> QED
    BY <2>1, <2>2
<1> QED
  BY <1>1, <1>2, <1>3 DEF TypeSteady, Copy

\* An item's type never changes (engine.go:121) when a key has one type: neither by a
\* field write that hits an item created since it resolved (persistor.go:279-312) nor
\* by an Upsert of a stale copy.
THEOREM RacingTypesAreKept == MatchByOne /\ OneTypePerKey => (Spec => TypeNeverChanges)
<1> SUFFICES ASSUME MatchByOne, NEW T, TypesByKey(T) PROVE Spec => TypeNeverChanges
  BY DEF OneTypePerKey
<1> DEFINE Steady == TypeSteady(T)
           Kept == \A i \in Stored(items) : items'[i] # None => items'[i].type = items[i].type
<1>1. Init => Steady
  BY TypesAtStart
<1>2. IInv /\ MatchInv /\ Steady /\ [Next]_vars => Steady'
  <2>1. CASE UNCHANGED vars
    BY <2>1 DEF vars, TypeSteady, Copy, Stored
  <2> QED
    BY <2>1, TypeStep DEF Next, Finished
<1>3. IInv /\ MatchInv /\ Steady /\ [Next]_vars => [Kept]_vars
  <2> SUFFICES ASSUME IInv, MatchInv, Steady, NEW r \in Request, CallStep(r),
                      NEW i \in Stored(items), NEW x, x = items'[i], x # None
               PROVE  x.type = items[i].type
    BY DEF Next, Finished, vars
  <2>1. i \in ID /\ Copy(i, x)'
    <3>1. IInv'
      BY StepOK DEF Next
    <3> QED
      BY <3>1 DEF IInv, ItemsOK, Stored, Copy
  <2>2. Copy(i, items[i])
    BY DEF Copy
  <2>3. ~Originates(call[r], r, i, x)
    BY <2>2, FirstCopy DEF MatchInv
  <2>4. PICK y : Copy(i, y) /\ x.type = y.type
    BY <2>1, <2>3, TypeCopy
  <2> QED
    BY <2>1, <2>2, <2>4 DEF TypeSteady
<1> QED
  BY <1>1, <1>2, <1>3, MatchInvariance, PTL DEF TypeNeverChanges, Spec

------------------------------------------------------------------------------
(* No deletes: a create-only save creates.                                  *)

\* Only DeleteOne takes an item out of the store.
LEMMA NothingLost ==
  ASSUME IInv, NEW r \in Request, CallStep(r), call[r].pc # "delete"
  PROVE  Stored(items) \subseteq Stored(items')
<1> DEFINE c == call[r]
<1>1. items \in [ID -> Version \cup {None}] /\ DOMAIN items' = ID
  BY StepOK DEF Next, IInv, ItemsOK
<1> SUFFICES ASSUME NEW i \in Stored(items), items'[i] = None PROVE FALSE
  BY <1>1 DEF Stored
<1>2. i \in ID /\ items'[i] # items[i]
  BY <1>1 DEF Stored
<1>3. Upsert(r) \/ UpdateField(r) \/ InsertField(r)
  BY <1>2 DEF CallStep, Progress, Start, GetByID, GetByKey, Handler, SaveDraft, SetFieldValue,
     Publish, Unpublish, Archive, Unarchive, Delete, GetItem, Write, MissField, DeleteOne,
     Emit, StoreFails, AckLost, PcIs
<1>4. CASE Upsert(r)
  <2>1. items' = [items EXCEPT ![c.id] = c.item]
    BY <1>2, <1>4 DEF Upsert
  <2>2. c.item # None
    BY <1>4 DEF Upsert, PcIs, IInv, CallsOK, CallOK, Equipped
  <2> QED
    BY <1>1, <1>2, <2>1, <2>2
<1>5. CASE UpdateField(r)
  <2>1. c.in \in Input /\ Registered(c.type)
    BY <1>5, ActiveCall DEF UpdateField, PcIs, IInv, CallsOK, CallOK, Equipped
  <2>2. PICK j \in FieldTargets(items, c.in.id, c.in.key) :
          items' = [items EXCEPT ![j] = FieldUpdated(items[j], c.type, c.in.slot, c.in.value)]
    BY <1>2, <1>5 DEF UpdateField
  <2>3. items[j] \in Version
    BY <1>1 DEF FieldTargets, FindByID, FindByKey, Stored
  <2>4. FieldUpdated(items[j], c.type, c.in.slot, c.in.value) # None
    BY <2>1, <2>3, FieldUpdateIsVersion, NoneIsNoVersion
  <2> QED
    BY <1>1, <1>2, <2>2, <2>4
<1>6. CASE InsertField(r)
  <2>1. c.in \in Input /\ Registered(c.type)
    BY <1>6, ActiveCall DEF InsertField, PcIs, IInv, CallsOK, CallOK, Equipped
  <2>2. items' = [items EXCEPT
             ![r] = FieldInserted(c.in.key, c.type, c.in.owner, c.in.slot, c.in.value)]
    BY <1>2, <1>6 DEF InsertField
  <2>3. FieldInserted(c.in.key, c.type, c.in.owner, c.in.slot, c.in.value) # None
    BY <2>1, FieldInsertIsVersion, NoneIsNoVersion
  <2> QED
    BY <1>1, <1>2, <2>2, <2>3
<1> QED
  BY <1>3, <1>4, <1>5, <1>6

\* What a create-only save has written.
OnlyCreated(r, e) ==
  e.pc \in {"emit", "done"} /\ e.id # None /\ e.in.op = "SaveDraft" /\ e.in.expect = 0
    => e.id = r /\ e.item.draft.revision = 1 /\ e.item.published = None

LEMMA CreateStep ==
  ASSUME NoDeletes, IInv, CreateInv, NEW r \in Request, CallStep(r)
  PROVE  Creating(r)' /\ OnlyCreated(r, call'[r])
<1> DEFINE c == call[r]
           d == call'[r]
           Goal == Creating(r)' /\ OnlyCreated(r, d)
<1>0. /\ c \in CallRecord /\ call \in [Request -> CallRecord] /\ Creating(r)
      /\ OnlyCreated(r, c)
      /\ c.pc = "idle" => d.in \in Inputs
      /\ c.pc # "idle" => d.in = c.in
      /\ c.id = None <=> c.item = None
      /\ items \in [ID -> Version \cup {None}] /\ None \notin ID
      /\ c.id \in ID \cup {None} /\ c.item \in Version \cup {None}
      /\ Stored(items) \subseteq Stored(items')
  <2>1. Creating(r) /\ OnlyCreated(r, c)
    BY DEF CreateInv, CreateOnlyCreates, Wrote, OnlyCreated
  <2>2. Stored(items) \subseteq Stored(items')
    BY <2>1, NothingLost DEF Creating
  <2> QED
    BY <2>1, <2>2, InputKept, RequestAssumption
       DEF IInv, CallsOK, CallOK, Equipped, ItemsOK, CallRecord
<1>1. ASSUME NEW pc, NEW id, NEW item, Hold(r, pc, id, item)
      PROVE  d.pc = pc /\ d.id = id /\ d.item = item
  BY <1>0, <1>1 DEF Hold, Become, CallRecord
<1>2. ASSUME NEW kind, Fail(r, kind) PROVE d.pc = "done" /\ d.id = None
  BY <1>0, <1>2 DEF Fail, Become, CallRecord
<1>3. ASSUME NEW id, NEW item, Return(r, id, item)
      PROVE  d.pc = "done" /\ d.id = id /\ d.item = item
  BY <1>0, <1>3 DEF Return, Become, CallRecord
<1>4. ASSUME NEW e, Become(r, e) PROVE d = e
  BY <1>0, <1>4 DEF Become
<1>5. ASSUME d.pc = "done", d.id = None, c.pc # "idle" PROVE Goal
  BY <1>0, <1>5 DEF Creating, OnlyCreated
<1>6. CASE \E in \in Inputs : Start(r, in)
  <2>1. PICK in \in Inputs : Start(r, in)
    BY <1>6
  <2> DEFINE bad == [c EXCEPT !.pc = "done", !.in = in, !.result = "badRequest"]
             started == [c EXCEPT !.pc = FirstStep(in), !.in = in]
  <2>2. /\ bad.id = c.id /\ bad.pc = "done"
        /\ started.id = c.id /\ started.pc = FirstStep(in)
    BY <1>0 DEF CallRecord
  <2>3. (d = bad \/ d = started) /\ c.pc = "idle"
    BY <1>4, <2>1 DEF Start, PcIs
  <2> HIDE DEF bad, started
  <2> QED
    BY <1>0, <2>2, <2>3 DEF Creating, OnlyCreated, FirstStep
<1>7. CASE GetByID(r)
  <2>1. c.pc = "getByID"
    BY <1>7 DEF GetByID, PcIs
  <2>2. \/ d.pc \in {"getByKey", "handler"} /\ d.id \in Stored(items) \cup {None}
        \/ d.pc = "done" /\ d.id = None
    BY <1>1, <1>2, <1>7 DEF GetByID, FindByID
  <2> QED
    BY <1>0, <1>5, <2>1, <2>2 DEF Creating, OnlyCreated
<1>8. CASE GetByKey(r)
  <2>1. c.pc = "getByKey"
    BY <1>8 DEF GetByKey, PcIs
  <2>2. \/ d.pc = "handler" /\ d.id \in Stored(items) \cup {c.id}
        \/ d.pc = "done" /\ d.id = None
    BY <1>1, <1>2, <1>8 DEF GetByKey, FindByKey
  <2> QED
    BY <1>0, <1>5, <2>1, <2>2 DEF Creating, OnlyCreated
<1>9. CASE Handler(r)
  <2>1. c.pc = "handler" /\ c.in \in Inputs /\ c.in \in Input
    BY <1>0, <1>9, InputAssumption
       DEF Handler, SaveDraft, SetFieldValue, Publish, Unpublish, Archive, Unarchive, Delete,
           GetItem, Handling, PcIs, Creating
  <2>2. CASE SaveDraft(r)
    <3> DEFINE new == SavedItem(c.in, SaveTarget(c.in, c.item))
    <3>1. CASE Hold(r, "upsert", IF c.item = None THEN r ELSE c.id, new)
      <4>1. /\ d.pc = "upsert" /\ d.id = IF c.item = None THEN r ELSE c.id
            /\ d.item = new
        BY <1>1, <3>1
      <4>2. c.item = None => new.draft.revision = 1 /\ new.published = None
        BY <1>0, <2>1, SavedCopy
      <4> HIDE DEF new
      <4> QED
        BY <1>0, <2>1, <4>1, <4>2 DEF Creating, OnlyCreated
    <3> QED
      BY <1>2, <1>5, <2>1, <2>2, <3>1 DEF SaveDraft
  <2>3. CASE SetFieldValue(r)
    <3> DEFINE e == [c EXCEPT !.pc = "setField", !.type = FieldWriteType(c.in, c.item),
                              !.id = None, !.item = None]
    <3>1. e.pc = "setField"
      BY <1>0 DEF CallRecord
    <3>2. Become(r, e) \/ \E kind : Fail(r, kind)
      BY <2>3 DEF SetFieldValue
    <3> HIDE DEF e
    <3> QED
      BY <1>0, <1>2, <1>4, <1>5, <2>1, <3>1, <3>2 DEF Creating, OnlyCreated
  <2>4. CASE Handler(r) /\ ~SaveDraft(r) /\ ~SetFieldValue(r)
    <3>1. c.in.op # "SaveDraft" /\ c.in.op # "Delete"
      BY <2>1, <2>4 DEF NoDeletes, Handler, Publish, Unpublish, Archive, Unarchive, Delete,
                        GetItem, Handling
    <3>2. d.pc \in {"upsert", "done"}
      BY <1>1, <1>2, <1>3, <2>4, <3>1 DEF Handler, Publish, Unpublish, Archive, Unarchive,
                                          Delete, GetItem, Handling
    <3> QED
      BY <1>0, <2>1, <3>1, <3>2 DEF Creating, OnlyCreated
  <2> QED
    BY <1>9, <2>2, <2>3, <2>4
<1>10. CASE Upsert(r)
  <2>1. c.pc = "upsert"
    BY <1>10 DEF Upsert, PcIs
  <2>2. CASE /\ UpsertLands(items, c.id, c.item, Expected(c.in))
             /\ Hold(r, "emit", c.id, c.item)
    <3>1. d.pc = "emit" /\ d.id = c.id /\ d.item = c.item /\ d.in = c.in
      BY <1>0, <1>1, <2>1, <2>2
    <3>2. c.in.op = "SaveDraft" /\ c.in.expect = 0 => c.id \notin Stored(items)
      BY <2>2 DEF UpsertLands, UpsertConflicts, Expected, Stored
    <3> QED
      BY <1>0, <2>1, <3>1, <3>2 DEF Creating, OnlyCreated
  <2> QED
    BY <1>2, <1>5, <1>10, <2>1, <2>2 DEF Upsert
<1>11. CASE UpdateField(r) \/ InsertField(r) \/ MissField(r)
  <2>1. c.pc \in {"setField", "insertField"}
    BY <1>11 DEF UpdateField, MissField, InsertField, PcIs
  <2>2. c.in.op = "SetFieldValue" /\ c.in \in Inputs
    BY <1>0, <2>1 DEF IInv, CallsOK, CallOK, Equipped, Creating
  <2>3. d.pc \in {"setField", "insertField", "emit", "done"}
    BY <2>1, StepIsOnward DEF Onward
  <2> QED
    BY <1>0, <2>1, <2>2, <2>3 DEF Creating, OnlyCreated
<1>12. CASE DeleteOne(r)
  BY <1>0, <1>12 DEF DeleteOne, PcIs, Creating
<1>13. CASE Emit(r)
  <2> DEFINE e == [c EXCEPT
               !.pc = "done", !.result = "ok",
               !.event = IF Suppressed(c.item.type) THEN None
                            ELSE [ op |-> EventOp(c.in.op), type |-> c.item.type,
                                   owner |-> c.item.owner ]]
  <2>1. d = e /\ c.pc = "emit"
    BY <1>4, <1>13 DEF Emit, PcIs
  <2>2. e.id = c.id /\ e.item = c.item /\ e.pc = "done"
    BY <1>0 DEF CallRecord
  <2> HIDE DEF e
  <2> QED
    BY <1>0, <2>1, <2>2 DEF Creating, OnlyCreated
<1>14. CASE StoreFails(r) \/ AckLost(r)
  BY <1>2, <1>5, <1>14 DEF StoreFails, AckLost, StorePC, PcIs
<1> QED
  BY <1>6, <1>7, <1>8, <1>9, <1>10, <1>11, <1>12, <1>13, <1>14
     DEF CallStep, Progress, Write

LEMMA CreateInvariance == NoDeletes => (Spec => [](IInv /\ CreateInv))
<1> SUFFICES ASSUME NoDeletes PROVE Spec => [](IInv /\ CreateInv)
  OBVIOUS
<1>1. Init => CreateInv
  BY DEF Init, Idle, CreateInv, Creating, CreateOnlyCreates, Wrote
<1>2. IInv /\ CreateInv /\ [Next]_vars => CreateInv'
  <2> SUFFICES ASSUME IInv, CreateInv, [Next]_vars PROVE CreateInv'
    OBVIOUS
  <2>1. ASSUME NEW r \in Request, CallStep(r), NEW q \in Request
        PROVE  Creating(q)' /\ OnlyCreated(q, call'[q])
    <3>1. CASE q = r
      BY <2>1, <3>1, CreateStep
    <3>2. CASE q # r
      <4>1. call'[q] = call[q]
        BY <2>1, <3>2, CallEffect
      <4>2. Stored(items) \subseteq Stored(items')
        BY <2>1, NothingLost DEF CreateInv, Creating
      <4>3. Creating(q) /\ OnlyCreated(q, call[q])
        BY DEF CreateInv, CreateOnlyCreates, Wrote, OnlyCreated
      <4> QED
        BY <4>1, <4>2, <4>3 DEF Creating
    <3> QED
      BY <3>1, <3>2
  <2>2. CASE UNCHANGED vars
    BY <2>2 DEF vars, CreateInv, Creating, CreateOnlyCreates, Wrote, Stored
  <2>3. CASE \E r \in Request : CallStep(r)
    BY <2>1, <2>3 DEF CreateInv, CreateOnlyCreates, Wrote, OnlyCreated
  <2> QED
    BY <2>2, <2>3 DEF Next, Finished
<1> QED
  BY <1>1, <1>2, Invariance, PTL DEF Spec

\* Zero creates only when no item exists (vo.go:118), races and lost acknowledgements
\* included, as long as nobody deletes: the id a create-only save resolved is then
\* never free again (engine.go:59-109, persistor.go:208-242).
THEOREM RacingCreatesOnlyNew == NoDeletes => (Spec => []CreateOnlyCreates)
<1> SUFFICES ASSUME NoDeletes PROVE Spec => []CreateOnlyCreates
  OBVIOUS
<1>1. CreateInv => CreateOnlyCreates
  BY DEF CreateInv
<1> QED
  BY <1>1, CreateInvariance, PTL

------------------------------------------------------------------------------
(* No clears: a field write breaks for no technical reason.                 *)

LEMMA MappedStep ==
  ASSUME NoNullMaps, MatchByOne, IInv, MatchInv, BreakInv, NEW r \in Request, CallStep(r)
  PROVE  Mapped'
<1> SUFFICES ASSUME NEW i \in ID, NEW x, Copy(i, x)' PROVE Writable(x.draft.fields)
  BY DEF Mapped
<1> DEFINE c == call[r]
<1>1. CASE OwnFields(c, x)
  <2>1. CASE c.pc = "handler" /\ c.in.op = "SaveDraft" /\ x.draft.fields = c.in.fields
    <3>1. c.in.fields # None /\ c.in \in Inputs
      BY <2>1 DEF BreakInv, Ready, MatchInv, Matched
    <3> QED
      BY <2>1, <3>1 DEF NoNullMaps
  <2>2. ~(c.pc \in {"setField", "insertField"} /\ c.in.value = None)
    BY DEF MatchInv, Matched, IInv, CallsOK, CallOK, Equipped, NoNullMaps
  <2> QED
    BY <1>1, <2>1, <2>2 DEF OwnFields
<1>2. CASE ~OwnFields(c, x)
  BY <1>2, CopiesCome DEF MatchInv, BreakInv, Mapped, Descends, Originates
<1> QED
  BY <1>1, <1>2

\* The item a retried field write lost to is still there, under its key.
LEMMA StillThere ==
  ASSUME NoDeletes, MatchByOne, IInv, MatchInv, KeySteady, CreateInv,
         NEW r \in Request, CallStep(r), NEW k, FindByKey(items, k) # {}
  PROVE  FindByKey(items', k) # {}
<1>1. PICK i \in Stored(items) : items[i].key = k
  BY DEF FindByKey
<1>2. i \in Stored(items')
  BY NothingLost DEF CreateInv, Creating
<1>3. items'[i].key = k
  BY <1>1, <1>2, KeyKept DEF Stored
<1> QED
  BY <1>2, <1>3 DEF FindByKey

LEMMA ReadyStep ==
  ASSUME ~Faults, NoDeletes, NoNullMaps, MatchByOne,
         IInv, MatchInv, KeySteady, CreateInv, BreakInv, NEW r \in Request, CallStep(r)
  PROVE  /\ Ready(r)'
         /\ call'[r].pc = "done" /\ call'[r].in.op = "SetFieldValue"
              => call'[r].result # "internal"
<1> DEFINE c == call[r]
           d == call'[r]
           Goal == /\ Ready(r)'
                   /\ d.pc = "done" /\ d.in.op = "SetFieldValue" => d.result # "internal"
<1>0. /\ c \in CallRecord /\ call \in [Request -> CallRecord]
      /\ Ready(r) /\ Matched(r)
      /\ c.pc # "idle" => d.in = c.in
  BY InputKept DEF IInv, CallsOK, BreakInv, MatchInv
<1>1. ASSUME NEW pc, NEW id, NEW item, Hold(r, pc, id, item)
      PROVE  d.pc = pc /\ d.retried = c.retried
  BY <1>0, <1>1 DEF Hold, Become, CallRecord
<1>2. ASSUME NEW kind, Fail(r, kind) PROVE d.pc = "done" /\ d.result = kind
  BY <1>0, <1>2 DEF Fail, Become, CallRecord
<1>3. ASSUME NEW id, NEW item, Return(r, id, item)
      PROVE  d.pc = "done" /\ d.result = "ok"
  BY <1>0, <1>3 DEF Return, Become, CallRecord
<1>4. ASSUME NEW e, Become(r, e) PROVE d = e
  BY <1>0, <1>4 DEF Become
<1>5. ASSUME d.pc = "done", d.result # "internal" PROVE Goal
  BY <1>5 DEF Ready
<1>6. ASSUME NEW kind \in {"badRequest", "notFound", "notAcceptable", "conflict"},
             Fail(r, kind)
      PROVE  Goal
  BY <1>2, <1>5, <1>6
<1>7. CASE \E in \in Inputs : Start(r, in)
  <2>1. PICK in \in Inputs : Start(r, in)
    BY <1>7
  <2> DEFINE bad == [c EXCEPT !.pc = "done", !.in = in, !.result = "badRequest"]
             started == [c EXCEPT !.pc = FirstStep(in), !.in = in]
  <2>2. /\ bad.pc = "done" /\ bad.result = "badRequest"
        /\ started.pc = FirstStep(in) /\ started.in = in /\ started.retried = c.retried
    BY <1>0 DEF CallRecord
  <2>3. /\ c.pc = "idle"
        /\ \/ d = bad
           \/ d = started /\ (in.op = "SaveDraft" => in.fields # None)
    BY <1>4, <2>1 DEF Start, PcIs, BadArguments, BadSave
  <2> HIDE DEF bad, started
  <2> QED
    BY <1>0, <1>5, <2>2, <2>3 DEF Ready, FirstStep
<1>8. CASE GetByID(r) \/ GetByKey(r)
  <2>1. c.pc \in {"getByID", "getByKey"}
    BY <1>8 DEF GetByID, GetByKey, PcIs
  <2>2. \/ d.pc \in {"getByKey", "handler"} /\ d.retried = c.retried
        \/ \E kind \in {"notFound", "badRequest"} : Fail(r, kind)
    BY <1>1, <1>8 DEF GetByID, GetByKey
  <2> QED
    BY <1>0, <1>6, <2>1, <2>2 DEF Ready
<1>9. CASE Handler(r)
  <2>1. c.pc = "handler"
    BY <1>9 DEF Handler, SaveDraft, SetFieldValue, Publish, Unpublish, Archive, Unarchive,
                Delete, GetItem, Handling, PcIs
  <2>2. CASE SetFieldValue(r)
    <3> DEFINE e == [c EXCEPT !.pc = "setField", !.type = FieldWriteType(c.in, c.item),
                              !.id = None, !.item = None]
    <3>1. e.pc = "setField" /\ e.retried = c.retried
      BY <1>0 DEF CallRecord
    <3>2. \/ Become(r, e) /\ c.in.slot \in Slot
          \/ \E kind \in {"badRequest", "notAcceptable"} : Fail(r, kind)
      <4>1. ASSUME NEW t, ValidField(t, c.in.slot, c.in.value) PROVE c.in.slot \in Slot
        BY <4>1, RegistryAssumption DEF ValidField, Registered, SchemaType
      <4> QED
        BY <2>2, <4>1 DEF SetFieldValue
    <3> HIDE DEF e
    <3> QED
      BY <1>0, <1>4, <1>6, <2>1, <3>1, <3>2 DEF Ready
  <2>3. CASE Handler(r) /\ ~SetFieldValue(r)
    <3>1. \/ \E id, item : Hold(r, "upsert", id, item) \/ Hold(r, "delete", id, item)
                           \/ Return(r, id, item)
          \/ \E kind \in {"badRequest", "notAcceptable", "notFound"} : Fail(r, kind)
      BY <2>3 DEF Handler, SaveDraft, Publish, Unpublish, Archive, Unarchive, Delete, GetItem
    <3>2. CASE \E id, item : Hold(r, "upsert", id, item) \/ Hold(r, "delete", id, item)
                             \/ Return(r, id, item)
      <4>1. d.pc \in {"upsert", "delete"} \/ (d.pc = "done" /\ d.result = "ok")
        BY <1>1, <1>3, <3>2
      <4> QED
        BY <1>5, <4>1 DEF Ready
    <3> QED
      BY <1>6, <3>1, <3>2
  <2> QED
    BY <1>9, <2>2, <2>3
<1>10. CASE Upsert(r) \/ DeleteOne(r)
  <2>1. d.in.op # "SetFieldValue"
    BY <1>0, <1>10 DEF Upsert, DeleteOne, PcIs, Matched
  <2>2. d.pc \in {"emit", "done"}
    BY <1>1, <1>2, <1>10 DEF Upsert, DeleteOne
  <2> QED
    BY <2>1, <2>2 DEF Ready
<1>11. CASE UpdateField(r)
  <2>1. PICK i \in FieldTargets(items, c.in.id, c.in.key) :
          \/ ~PathViable(items[i].draft, c.in.slot, c.in.value)
          \/ \E id, item : Hold(r, "emit", id, item)
    BY <1>11 DEF UpdateField
  <2>2. i \in Stored(items) /\ i \in ID
    BY DEF FieldTargets, FindByID, FindByKey, Stored, IInv, ItemsOK
  <2>3. Writable(items[i].draft.fields)
    BY <2>2 DEF BreakInv, Mapped, Copy
  <2>4. c.in.slot \in Slot
    BY <1>0, <1>11 DEF UpdateField, PcIs, Ready
  <2>5. PathViable(items[i].draft, c.in.slot, c.in.value)
    BY <2>3, <2>4, NilAssumption DEF PathViable, Writable, Raw
  <2>6. d.pc = "emit"
    BY <1>1, <2>1, <2>5
  <2> QED
    BY <2>6 DEF Ready
<1>12. CASE MissField(r)
  <2> DEFINE e == [c EXCEPT !.pc = "insertField"]
  <2>1. e.pc = "insertField" /\ e.retried = c.retried /\ c.retried \in BOOLEAN
    BY <1>0 DEF CallRecord
  <2>2. /\ c.pc = "setField"
        /\ \/ Fail(r, "notFound")
           \/ Become(r, e) /\ FindByKey(items, c.in.key) = {}
    BY <1>12 DEF MissField, PcIs, FieldTargets
  <2> HIDE DEF e
  <2> QED
    BY <1>0, <1>4, <1>6, <2>1, <2>2 DEF Ready
<1>13. CASE InsertField(r)
  <2> DEFINE e == [c EXCEPT !.pc = "setField", !.retried = TRUE]
  <2>1. e.pc = "setField"
    BY <1>0 DEF CallRecord
  <2>2. c.pc = "insertField" /\ c.retried = FALSE /\ c.in.key # None
    BY <1>0, <1>13 DEF InsertField, PcIs, Ready, Matched
  <2>3. \/ \E item : Hold(r, "emit", r, item)
        \/ Become(r, e) /\ KeyTaken(items, r, c.in.key)
    BY <1>13, <2>2 DEF InsertField
  <2>4. CASE \E item : Hold(r, "emit", r, item)
    BY <1>1, <2>4 DEF Ready
  <2> HIDE DEF e
  <2>5. CASE Become(r, e) /\ KeyTaken(items, r, c.in.key)
    <3>1. FindByKey(items, c.in.key) # {}
      BY <2>5 DEF KeyTaken, FindByKey
    <3>2. FindByKey(items', c.in.key) # {}
      BY <3>1, StillThere
    <3> QED
      BY <1>0, <1>4, <2>1, <2>2, <2>5, <3>2 DEF Ready
  <2> QED
    BY <2>3, <2>4, <2>5
<1>14. CASE Emit(r)
  <2> DEFINE e == [c EXCEPT
               !.pc = "done", !.result = "ok",
               !.event = IF Suppressed(c.item.type) THEN None
                            ELSE [ op |-> EventOp(c.in.op), type |-> c.item.type,
                                   owner |-> c.item.owner ]]
  <2>1. d = e
    BY <1>4, <1>14 DEF Emit
  <2>2. e.pc = "done" /\ e.result = "ok"
    BY <1>0 DEF CallRecord
  <2> HIDE DEF e
  <2> QED
    BY <1>5, <2>1, <2>2
<1>15. ~StoreFails(r) /\ ~AckLost(r)
  BY DEF StoreFails, AckLost
<1> QED
  BY <1>7, <1>8, <1>9, <1>10, <1>11, <1>12, <1>13, <1>14, <1>15
     DEF CallStep, Progress, Write

\* While the store answers, a valid field write never fails for a technical reason
\* (engine.go:111): no draft without a field map is in its way, and the single retry
\* of a lost create is enough (persistor.go:244-268).
THEOREM FieldWritesWork ==
  ~Faults /\ NoDeletes /\ NoNullMaps /\ MatchByOne => (Spec => []FieldWriteNeverBreaks)
<1> SUFFICES ASSUME ~Faults, NoDeletes, NoNullMaps, MatchByOne
             PROVE  Spec => []FieldWriteNeverBreaks
  OBVIOUS
<1>1. Init => BreakInv
  <2> SUFFICES ASSUME Init PROVE BreakInv
    OBVIOUS
  <2>1. Mapped
    BY CopiesAtStart DEF Mapped, Init, NoNullMaps
  <2>2. \A r \in Request : call[r].pc = "idle" /\ call[r].retried = FALSE
    BY DEF Init, Idle
  <2> QED
    BY <2>1, <2>2 DEF BreakInv, Ready, FieldWriteNeverBreaks
<1>2. IInv /\ MatchInv /\ KeySteady /\ CreateInv /\ BreakInv /\ [Next]_vars => BreakInv'
  <2> SUFFICES ASSUME IInv, MatchInv, KeySteady, CreateInv, BreakInv, [Next]_vars
               PROVE  BreakInv'
    OBVIOUS
  <2>1. ASSUME NEW r \in Request, CallStep(r), NEW q \in Request
        PROVE  /\ Ready(q)'
               /\ call'[q].pc = "done" /\ call'[q].in.op = "SetFieldValue"
                    => call'[q].result # "internal"
    <3>1. CASE q = r
      BY <2>1, <3>1, ReadyStep
    <3>2. CASE q # r
      <4>1. call'[q] = call[q]
        BY <2>1, <3>2, CallEffect
      <4>2. ASSUME NEW k, FindByKey(items, k) # {} PROVE FindByKey(items', k) # {}
        BY <2>1, <4>2, StillThere
      <4> QED
        BY <4>1, <4>2 DEF BreakInv, Ready, FieldWriteNeverBreaks
    <3> QED
      BY <3>1, <3>2
  <2>2. CASE UNCHANGED vars
    BY <2>2 DEF vars, BreakInv, Mapped, Ready, FieldWriteNeverBreaks, Copy, Stored, FindByKey
  <2>3. CASE \E r \in Request : CallStep(r)
    BY <2>1, <2>3, MappedStep DEF BreakInv, FieldWriteNeverBreaks
  <2> QED
    BY <2>2, <2>3 DEF Next, Finished
<1>3. BreakInv => FieldWriteNeverBreaks
  BY DEF BreakInv
<1> QED
  BY <1>1, <1>2, <1>3, KeyInvariance, CreateInvariance, PTL DEF Spec
=============================================================================
