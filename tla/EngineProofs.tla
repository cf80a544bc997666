---------------------------- MODULE EngineProofs ----------------------------
(***************************************************************************)
(* What every schedule of the engine preserves, proved for any number of   *)
(* calls, items, types, slots and values.                                  *)
(***************************************************************************)
EXTENDS EngineProperties, TLAPS

\* The versions an item may have, stored or held by a call.
Version == {item \in Item : Honest(item)}

\* A call's record is typed, equipped for its next step, and holds a version.
CallOK(c) ==
  /\ c \in CallRecord
  /\ Equipped(c)
  /\ c.item \in Version \cup {None}

ItemsOK == items \in [ID -> Version \cup {None}]
CallsOK == /\ call \in [Request -> CallRecord]
           /\ \A r \in Request : CallOK(call[r])

\* The inductive invariant.  The three properties are not inductive one by one:
\* what is stored is honest because the copies are, and the copies because
\* what is stored is.
IInv == ItemsOK /\ CallsOK /\ KeysUnique(items)

------------------------------------------------------------------------------
(* Lemmas on the data operators.                                            *)

\* None is told apart from every document and version.
LEMMA NoneIsNoVersion ==
  /\ None \notin Version
  /\ \A item \in Version : item.draft \in Snapshot /\ item.type \in ContentType
BY NilAssumption DEF Version, Honest, Item

\* Whatever a read decodes is a version again (GetByID, GetByKey, SetField).
LEMMA DecodeIsVersion ==
  ASSUME NEW doc \in Version
  PROVE  Decode(doc) \in Version
<1>1. doc \in Item /\ Honest(doc)
  BY DEF Version
<1>2. ASSUME NEW s \in Snapshot \cup {None}
      PROVE  /\ DecodeSnapshot(s) \in Snapshot \cup {None}
             /\ DecodeSnapshot(s) = None <=> s = None
             /\ s # None => /\ DecodeSnapshot(s).revision = s.revision
                            /\ DecodeSnapshot(s).schema = s.schema
                            /\ \A t \in Slot : At(DecodeSnapshot(s).fields, t) = At(s.fields, t)
  <2>1. CASE s = None
    BY <2>1 DEF DecodeSnapshot
  <2>2. CASE s # None /\ s.fields # Missing
    BY <2>2 DEF DecodeSnapshot
  <2>3. CASE s # None /\ s.fields = Missing
    <3>1. DecodeSnapshot(s) = [s EXCEPT !.fields = None]
      BY <2>3 DEF DecodeSnapshot
    <3>2. s \in Snapshot
      BY <2>3
    <3>3. [s EXCEPT !.fields = None] \in Snapshot
      BY <3>2 DEF Snapshot
    <3>4. /\ [s EXCEPT !.fields = None].revision = s.revision
          /\ [s EXCEPT !.fields = None].schema = s.schema
          /\ [s EXCEPT !.fields = None].fields = None
      BY <3>2 DEF Snapshot
    <3> QED
      BY <2>3, <3>1, <3>3, <3>4, NilAssumption DEF At, Raw
  <2> QED BY <2>1, <2>2, <2>3
<1>3. Decode(doc) = [doc EXCEPT !.draft = DecodeSnapshot(doc.draft),
                                !.published = DecodeSnapshot(doc.published)]
  BY DEF Decode
<1>4. doc.draft \in Snapshot \cup {None} /\ doc.published \in Snapshot \cup {None}
  BY <1>1 DEF Item
<1>5. Decode(doc) \in Item
  BY <1>1, <1>2, <1>3, <1>4 DEF Item
<1>6. /\ Decode(doc).draft = DecodeSnapshot(doc.draft)
      /\ Decode(doc).published = DecodeSnapshot(doc.published)
      /\ Decode(doc).type = doc.type
  BY <1>1, <1>3 DEF Item
<1>7. Honest(Decode(doc))
  <2>1. /\ Decode(doc).draft # None
        /\ Decode(doc).draft.revision > 0
        /\ Decode(doc).draft.schema = Decode(doc).type
    BY <1>1, <1>2, <1>4, <1>6 DEF Honest
  <2>2. ASSUME Decode(doc).published # None
        PROVE  /\ doc.published # None
               /\ Decode(doc).published.revision = doc.published.revision
               /\ Decode(doc).published.schema = doc.published.schema
               /\ \A t \in Slot : At(Decode(doc).published.fields, t) = At(doc.published.fields, t)
    BY <1>2, <1>4, <1>6, <2>2
  <2>3. /\ Decode(doc).draft.revision = doc.draft.revision
        /\ Decode(doc).draft.schema = doc.draft.schema
        /\ \A t \in Slot : At(Decode(doc).draft.fields, t) = At(doc.draft.fields, t)
    BY <1>1, <1>2, <1>4, <1>6 DEF Honest
  <2>4. ASSUME Decode(doc).published # None
        PROVE  ValidPublish(Decode(doc).published.schema, Decode(doc).published.fields)
    <3>1. ValidPublish(doc.published.schema, doc.published.fields)
      BY <1>1, <2>2, <2>4 DEF Honest
    <3>2. Schema[doc.published.schema].required \subseteq Slot
      BY <3>1, RegistryAssumption DEF ValidPublish, Registered, SchemaType
    <3> QED
      BY <2>2, <2>4, <3>1, <3>2 DEF ValidPublish, Complete
  <2> QED
    BY <1>1, <2>1, <2>2, <2>3, <2>4 DEF Honest
<1> QED
  BY <1>5, <1>7 DEF Version

\* Decoding loses no slot of a snapshot, and no read meets a missing map.
LEMMA DecodeKeepsSlots ==
  ASSUME NEW s \in Snapshot
  PROVE  /\ FieldsOf(DecodeSnapshot(s)) = FieldsOf(s)
         /\ DecodeSnapshot(s) \in Snapshot
         /\ DecodeSnapshot(s).fields \in FieldMap \cup {None}
<1>1. CASE s.fields # Missing
  <2>1. DecodeSnapshot(s) = s
    BY <1>1 DEF DecodeSnapshot
  <2> QED
    BY <1>1, <2>1 DEF Snapshot
<1>2. CASE s.fields = Missing
  <2>1. s # None
    BY NilAssumption
  <2>2. DecodeSnapshot(s) = [s EXCEPT !.fields = None]
    BY <1>2, <2>1 DEF DecodeSnapshot
  <2>3. DecodeSnapshot(s).fields = None /\ DecodeSnapshot(s) \in Snapshot
    BY <2>2 DEF Snapshot
  <2> QED
    BY <1>2, <2>3 DEF FieldsOf, At, Raw
<1> QED
  BY <1>1, <1>2

\* FieldsOf is never taken for no fields at all.
LEMMA FieldsAreAMap ==
  ASSUME NEW s \in Snapshot
  PROVE  FieldsOf(s) \in ShownFields /\ FieldsOf(s) # None
<1>1. ASSUME NEW t \in Slot PROVE At(s.fields, t) \in Value \cup {None}
  BY DEF At, Raw, Snapshot, FieldMap
<1>2. FieldsOf(s) \in ShownFields /\ FieldsOf(s) \in FieldMap
  BY <1>1 DEF FieldsOf, ShownFields, FieldMap
<1> QED
  BY <1>2, NilAssumption

\* Merging one slot into a field set gives a field set (or leaves it null).
LEMMA MergeIsFieldMap ==
  ASSUME NEW fields \in FieldMap \cup {None, Missing}, NEW s,
         NEW value \in Value \cup {None}
  PROVE  MergeField(fields, s, value) \in FieldMap \cup {None, Missing}
<1>1. \A t \in Slot : Raw(fields, t) \in Value \cup {None, Null, NullMap}
  BY DEF Raw, FieldMap
<1>2. CASE value = None
  BY <1>2 DEF MergeField, Raw, FieldMap
<1>3. CASE value # None
  BY <1>1, <1>3 DEF MergeField, Raw, FieldMap
<1> QED
  BY <1>2, <1>3

\* A merge writes one slot of the field set and keeps the others (fieldUpdate,
\* persistor.go:279-312).
LEMMA MergedSlot ==
  ASSUME NEW fields \in FieldMap \cup {None, Missing}, NEW slot,
         NEW value \in Value \cup {None}, NEW s \in Slot
  PROVE  At(MergeField(fields, slot, value), s) = IF slot = s THEN value ELSE At(fields, s)
<1>1. CASE value = None /\ fields \in {None, Missing}
  BY <1>1 DEF MergeField, At, Raw
<1>2. CASE value = None /\ fields \in FieldMap
  <2>1. fields \notin {None, Missing}
    BY <1>2, NilAssumption
  <2> DEFINE left == IF fields[slot] = NullMap THEN NullMap ELSE None
             merged == [fields EXCEPT ![slot] = left]
  <2>2. MergeField(fields, slot, value) = merged
    BY <1>2, <2>1 DEF MergeField
  <2>3. merged \in FieldMap
    BY <1>2 DEF FieldMap
  <2>4. merged \notin {None, Missing}
    BY <2>3, NilAssumption
  <2>5. merged[s] = IF slot = s THEN left ELSE fields[s]
    BY <1>2 DEF FieldMap
  <2> HIDE DEF merged
  <2> QED
    BY <1>2, <2>1, <2>2, <2>4, <2>5, NilAssumption DEF At, Raw
<1>3. CASE value # None
  <2> DEFINE merged == [t \in Slot |-> IF t = slot THEN value ELSE Raw(fields, t)]
  <2>1. MergeField(fields, slot, value) = merged
    BY <1>3 DEF MergeField
  <2>2. \A t \in Slot : Raw(fields, t) \in Value \cup {None, Null, NullMap}
    BY DEF Raw, FieldMap
  <2>3. merged \in FieldMap
    BY <2>2 DEF FieldMap
  <2>4. merged \notin {None, Missing} /\ value \notin {Null, NullMap}
    BY <1>3, <2>3, NilAssumption
  <2>5. merged[s] = IF slot = s THEN value ELSE Raw(fields, s)
    OBVIOUS
  <2> HIDE DEF merged
  <2> QED
    BY <2>1, <2>4, <2>5 DEF At, Raw
<1> QED
  BY <1>1, <1>2, <1>3

\* The caller gets back the draft that was stored.
LEMMA DecodedDraft ==
  ASSUME NEW doc \in Version
  PROVE  /\ Decode(doc) # None
         /\ Decode(doc).draft.revision = doc.draft.revision
         /\ \A s \in Slot : At(Decode(doc).draft.fields, s) = At(doc.draft.fields, s)
<1>1. doc.draft \in Snapshot /\ doc.draft # None /\ doc \in Item
  BY NoneIsNoVersion DEF Version, Honest
<1>2. Decode(doc).draft = DecodeSnapshot(doc.draft)
  BY <1>1 DEF Decode, Item
<1>3. DecodeSnapshot(doc.draft).revision = doc.draft.revision
  BY <1>1 DEF DecodeSnapshot, Snapshot
<1>4. FieldsOf(DecodeSnapshot(doc.draft)) = FieldsOf(doc.draft)
  BY <1>1, DecodeKeepsSlots
<1>5. \A s \in Slot : At(DecodeSnapshot(doc.draft).fields, s) = At(doc.draft.fields, s)
  <2> TAKE s \in Slot
  <2>1. FieldsOf(DecodeSnapshot(doc.draft))[s] = FieldsOf(doc.draft)[s]
    BY <1>4
  <2> QED
    BY <2>1 DEF FieldsOf
<1>6. Decode(doc) # None
  BY DecodeIsVersion, NoneIsNoVersion
<1> QED
  BY <1>2, <1>3, <1>5, <1>6

\* Publish puts a complete draft live (engine.go:182-214).
LEMMA PublishIsVersion ==
  ASSUME NEW item \in Version, Registered(item.type), Complete(item.type, item.draft.fields)
  PROVE  [item EXCEPT !.published = item.draft] \in Version
<1> DEFINE new == [item EXCEPT !.published = item.draft]
<1>1. item \in Item /\ Honest(item)
  BY DEF Version
<1>2. item.draft \in Snapshot
  BY <1>1 DEF Item, Honest
<1>3. new \in Item
  BY <1>1, <1>2 DEF Item
<1>4. new.draft = item.draft /\ new.published = item.draft /\ new.type = item.type
  BY <1>1 DEF Item
<1>5. item.draft.revision \in Nat
  BY <1>2 DEF Snapshot
<1>6. Honest(new)
  BY <1>1, <1>4, <1>5 DEF Honest, ValidPublish
<1> QED
  BY <1>3, <1>6 DEF Version

\* Unpublish and Unarchive take the published snapshot away (engine.go:216-287).
LEMMA WithdrawIsVersion ==
  ASSUME NEW item \in Version
  PROVE  /\ [item EXCEPT !.published = None] \in Version
         /\ [item EXCEPT !.archived = FALSE, !.published = None] \in Version
<1> DEFINE a == [item EXCEPT !.published = None]
           b == [item EXCEPT !.archived = FALSE, !.published = None]
<1>1. item \in Item /\ Honest(item)
  BY DEF Version
<1>2. a \in Item /\ b \in Item
  BY <1>1 DEF Item
<1>3. /\ a.draft = item.draft /\ a.published = None /\ a.type = item.type
      /\ b.draft = item.draft /\ b.published = None /\ b.type = item.type
  BY <1>1 DEF Item
<1>4. Honest(a) /\ Honest(b)
  BY <1>1, <1>3 DEF Honest
<1> QED
  BY <1>2, <1>4 DEF Version

\* Archive changes no snapshot (engine.go:254-268).
LEMMA ArchiveIsVersion ==
  ASSUME NEW item \in Version
  PROVE  [item EXCEPT !.archived = TRUE] \in Version
<1> DEFINE new == [item EXCEPT !.archived = TRUE]
<1>1. item \in Item /\ Honest(item)
  BY DEF Version
<1>2. new \in Item
  BY <1>1 DEF Item
<1>3. new.draft = item.draft /\ new.published = item.published /\ new.type = item.type
  BY <1>1 DEF Item
<1>4. Honest(new)
  BY <1>1, <1>3 DEF Honest
<1> QED
  BY <1>2, <1>4 DEF Version

\* SaveDraft moves the draft ahead of whatever is live, or makes the first draft
\* of a new item (engine.go:82-101, 421-456).
LEMMA SaveIsVersion ==
  ASSUME NEW in \in Input, NEW item \in Version \cup {None},
         Registered(SaveTarget(in, item).type)
  PROVE  SavedItem(in, SaveTarget(in, item)) \in Version
<1> DEFINE target == SaveTarget(in, item)
           new == SavedItem(in, target)
           draft == [ revision |-> IF target.draft = None THEN 1 ELSE target.draft.revision + 1,
                      schema   |-> target.type,
                      fields   |-> in.fields ]
           owner == IF in.owner # None THEN in.owner ELSE target.owner
<1>1. /\ in.key \in Key \cup {None} /\ in.owner \in Owner \cup {None}
      /\ in.fields \in FieldMap \cup {None}
  BY DEF Input
<1>2. target.type \in ContentType
  BY RegistryAssumption DEF Registered
<1>3. /\ target.key \in Key \cup {None} /\ target.owner \in Owner \cup {None}
      /\ target.archived \in BOOLEAN
      /\ target.draft \in Snapshot \cup {None}
      /\ target.published \in Snapshot \cup {None}
      /\ target.published # None =>
           /\ target.draft # None
           /\ target.published.revision <= target.draft.revision
           /\ ValidPublish(target.published.schema, target.published.fields)
      /\ target = [ key |-> target.key, type |-> target.type, owner |-> target.owner,
                    draft |-> target.draft, published |-> target.published,
                    archived |-> target.archived ]
  <2>1. CASE item = None
    BY <1>1, <2>1 DEF SaveTarget
  <2>2. CASE item \in Version
    <3>1. item # None
      BY <2>2, NoneIsNoVersion
    <3>2. item \in Item /\ Honest(item)
      BY <2>2 DEF Version
    <3>3. target = [item EXCEPT !.key = IF item.key = None THEN in.key ELSE item.key]
      BY <3>1 DEF SaveTarget
    <3>4. target \in Item
      BY <1>1, <3>2, <3>3 DEF Item
    <3>5. target.draft = item.draft /\ target.published = item.published
      BY <3>2, <3>3 DEF Item
    <3> QED
      BY <3>2, <3>4, <3>5 DEF Item, Honest
  <2> QED
    BY <2>1, <2>2
<1>4. draft \in Snapshot /\ draft # None /\ draft.revision > 0
  <2>1. CASE target.draft = None
    BY <1>1, <1>2, <2>1, NilAssumption DEF Snapshot
  <2>2. CASE target.draft # None
    <3>1. target.draft.revision \in Nat
      BY <1>3, <2>2 DEF Snapshot
    <3> QED
      BY <1>1, <1>2, <2>2, <3>1, NilAssumption DEF Snapshot
  <2> QED
    BY <2>1, <2>2
<1>5. new = [target EXCEPT !.draft = draft, !.owner = owner]
  BY DEF SavedItem
<1>6. new = [ key |-> target.key, type |-> target.type, owner |-> owner,
              draft |-> draft, published |-> target.published,
              archived |-> target.archived ]
  BY <1>3, <1>5
<1>7. new \in Item
  <2> HIDE DEF draft, target, new
  <2> QED
    BY <1>1, <1>2, <1>3, <1>4, <1>6 DEF Item
<1>8. Honest(new)
  <2>1. /\ new.draft = draft /\ new.published = target.published /\ new.type = target.type
        /\ draft.schema = target.type
    BY <1>6
  <2>2. new.published # None => target.published.revision < draft.revision
    <3>1. target.published # None =>
            target.published.revision \in Nat /\ target.draft.revision \in Nat
      BY <1>3 DEF Snapshot
    <3> QED
      BY <1>3, <2>1, <3>1
  <2>3. draft.revision \in Nat /\ (new.published # None => target.published.revision \in Nat)
    BY <1>3, <1>4, <2>1 DEF Snapshot
  <2> HIDE DEF draft, target, new
  <2> QED
    BY <1>3, <1>4, <2>1, <2>2, <2>3 DEF Honest
<1> QED
  BY <1>7, <1>8 DEF Version

\* The atomic merge of a field moves the draft ahead too, whatever version it
\* finds (persistor.go:279-312).
LEMMA FieldUpdateIsVersion ==
  ASSUME NEW doc \in Version, NEW in \in Input, NEW type, Registered(type)
  PROVE  FieldUpdated(doc, type, in.slot, in.value) \in Version
<1> DEFINE new == FieldUpdated(doc, type, in.slot, in.value)
           merged == MergeField(doc.draft.fields, in.slot, in.value)
           draft == [ revision |-> doc.draft.revision + 1, schema |-> type, fields |-> merged ]
<1>1. doc \in Item /\ Honest(doc)
  BY DEF Version
<1>2. doc.draft \in Snapshot /\ type \in ContentType /\ in.value \in Value \cup {None}
  BY <1>1, RegistryAssumption DEF Item, Honest, Registered, Input
<1>3. merged \in FieldMap \cup {None, Missing}
  BY <1>2, MergeIsFieldMap DEF Snapshot
<1>4. draft \in Snapshot /\ draft # None /\ draft.revision > 0
  <2>1. doc.draft.revision \in Nat
    BY <1>2 DEF Snapshot
  <2> HIDE DEF merged
  <2> QED
    BY <1>2, <1>3, <2>1, NilAssumption DEF Snapshot
<1>5. new = [doc EXCEPT !.type = type, !.draft = draft]
  BY DEF FieldUpdated
<1> HIDE DEF merged
<1>6. new \in Item
  <2> HIDE DEF draft
  <2> QED
    BY <1>1, <1>2, <1>4, <1>5 DEF Item
<1>7. new.type = type /\ new.draft = draft /\ new.published = doc.published
  BY <1>1, <1>5 DEF Item
<1>8. /\ doc.draft.revision \in Nat
      /\ doc.published # None => doc.published.revision \in Nat
  BY <1>1, <1>2 DEF Item, Snapshot
<1>9. Honest(new)
  BY <1>1, <1>4, <1>7, <1>8 DEF Honest
<1> QED
  BY <1>6, <1>9 DEF Version

\* The insert half makes the first draft of an unpublished item.
LEMMA FieldInsertIsVersion ==
  ASSUME NEW in \in Input, NEW type, Registered(type)
  PROVE  FieldInserted(in.key, type, in.owner, in.slot, in.value) \in Version
<1> DEFINE new == FieldInserted(in.key, type, in.owner, in.slot, in.value)
           merged == MergeField(Missing, in.slot, in.value)
           draft == [ revision |-> 1, schema |-> type, fields |-> merged ]
<1>1. /\ type \in ContentType /\ in.value \in Value \cup {None}
      /\ in.key \in Key \cup {None} /\ in.owner \in Owner \cup {None}
  BY RegistryAssumption DEF Registered, Input
<1>2. merged \in FieldMap \cup {None, Missing}
  BY <1>1, MergeIsFieldMap
<1>3. new = [ key |-> in.key, type |-> type, owner |-> in.owner, draft |-> draft,
              published |-> None, archived |-> FALSE ]
  BY DEF FieldInserted
<1> HIDE DEF merged, new
<1>4. draft \in Snapshot /\ draft # None
  BY <1>1, <1>2, NilAssumption DEF Snapshot
<1>5. new \in Item
  <2> HIDE DEF draft
  <2> QED
    BY <1>1, <1>3, <1>4 DEF Item
<1>6. Honest(new)
  BY <1>3, <1>4 DEF Honest
<1> QED
  BY <1>5, <1>6 DEF Version, new

------------------------------------------------------------------------------
(* Lemmas on the steps of one call.                                         *)

\* A step changes one call's record only.
LEMMA BecomeOK ==
  ASSUME CallsOK, NEW r \in Request, NEW c, CallOK(c), Become(r, c)
  PROVE  CallsOK'
BY DEF CallsOK, CallOK, Become

LEMMA HoldOK ==
  ASSUME CallsOK, NEW r \in Request, call[r].in # None,
         NEW pc \in {"getByKey", "handler", "upsert", "delete", "emit"},
         NEW id \in ID \cup {None}, NEW item \in Version \cup {None},
         id = None <=> item = None,
         pc \in {"upsert", "delete", "emit"} => item # None /\ call[r].in.op # "GetItem",
         Hold(r, pc, id, item)
  PROVE  CallsOK'
<1> DEFINE c == [call[r] EXCEPT !.pc = pc, !.id = id, !.item = item]
<1>1. call[r] \in CallRecord
  BY DEF CallsOK
<1>2. item \in Item \cup {None} /\ pc \in PC
  BY DEF Version, PC
<1>3. c \in CallRecord
  BY <1>1, <1>2 DEF CallRecord
<1>4. c.pc = pc /\ c.id = id /\ c.item = item /\ c.in = call[r].in
  BY <1>1 DEF CallRecord
<1>5. Equipped(c)
  BY <1>4 DEF Equipped
<1>6. CallOK(c)
  BY <1>3, <1>4, <1>5 DEF CallOK
<1> QED
  BY <1>6, BecomeOK DEF Hold

LEMMA ReturnOK ==
  ASSUME CallsOK, NEW r \in Request, call[r].in # None,
         NEW id \in ID \cup {None}, NEW item \in Version \cup {None},
         id = None <=> item = None,
         Return(r, id, item)
  PROVE  CallsOK'
<1> DEFINE c == [call[r] EXCEPT !.pc = "done", !.result = "ok", !.id = id, !.item = item]
<1>1. call[r] \in CallRecord
  BY DEF CallsOK
<1>2. item \in Item \cup {None} /\ "done" \in PC /\ "ok" \in Result
  BY DEF Version, PC, Result
<1>3. c \in CallRecord
  BY <1>1, <1>2 DEF CallRecord
<1>4. c.pc = "done" /\ c.id = id /\ c.item = item /\ c.in = call[r].in
  BY <1>1 DEF CallRecord
<1>5. Equipped(c)
  BY <1>4 DEF Equipped
<1>6. CallOK(c)
  BY <1>3, <1>4, <1>5 DEF CallOK
<1> QED
  BY <1>6, BecomeOK DEF Return

LEMMA FailOK ==
  ASSUME CallsOK, NEW r \in Request, call[r].in # None, NEW kind \in Kind, Fail(r, kind)
  PROVE  CallsOK'
<1> DEFINE c == [call[r] EXCEPT !.pc = "done", !.result = kind, !.id = None, !.item = None]
<1>1. call[r] \in CallRecord
  BY DEF CallsOK
<1>2. "done" \in PC /\ kind \in Result
  BY DEF PC, Result
<1>3. c \in CallRecord
  BY <1>1, <1>2 DEF CallRecord
<1>4. c.pc = "done" /\ c.id = None /\ c.item = None /\ c.in = call[r].in
  BY <1>1 DEF CallRecord
<1>5. Equipped(c)
  BY <1>4 DEF Equipped
<1>6. CallOK(c)
  BY <1>3, <1>4, <1>5 DEF CallOK
<1> QED
  BY <1>6, BecomeOK DEF Fail

\* What a call that is under way carries.
LEMMA ActiveCall ==
  ASSUME CallsOK, NEW r \in Request, call[r].pc # "idle"
  PROVE  /\ call[r] \in CallRecord
         /\ call[r].in \in Input
         /\ call[r].in # None
         /\ call[r].id \in ID \cup {None}
         /\ call[r].item \in Version \cup {None}
         /\ call[r].id = None <=> call[r].item = None
<1>1. call[r] \in CallRecord /\ Equipped(call[r]) /\ call[r].item \in Version \cup {None}
  BY DEF CallsOK, CallOK
<1>2. call[r].in # None /\ (call[r].id = None <=> call[r].item = None)
  BY <1>1 DEF Equipped
<1> QED
  BY <1>1, <1>2 DEF CallRecord

\* A document whose key no other document holds keeps the keys unique.
LEMMA PutOK ==
  ASSUME ItemsOK, KeysUnique(items), NEW i \in ID, NEW doc \in Version,
         ~KeyTaken(items, i, doc.key),
         items' = [items EXCEPT ![i] = doc]
  PROVE  ItemsOK' /\ KeysUnique(items)'
<1>1. ItemsOK'
  BY DEF ItemsOK
<1>2. DOMAIN items = ID /\ DOMAIN items' = ID
  BY DEF ItemsOK
<1>3. items'[i] = doc /\ \A j \in ID \ {i} : items'[j] = items[j]
  BY DEF ItemsOK
<1>4. \A j \in ID \ {i} : items[j] # None /\ doc.key # None => items[j].key # doc.key
  BY <1>2 DEF KeyTaken, Stored
<1>5. \A j, k \in ID \ {i} :
        items[j] # None /\ items[k] # None /\ items[j].key # None /\ items[j].key = items[k].key
          => j = k
  BY <1>2 DEF KeysUnique, Stored
<1>6. KeysUnique(items')
  BY <1>2, <1>3, <1>4, <1>5 DEF KeysUnique, Stored
<1> QED
  BY <1>1, <1>6

\* Removing a document does too.
LEMMA RemoveOK ==
  ASSUME ItemsOK, KeysUnique(items), NEW i, items' = [items EXCEPT ![i] = None]
  PROVE  ItemsOK' /\ KeysUnique(items)'
<1>1. ItemsOK'
  BY DEF ItemsOK
<1>2. DOMAIN items = ID /\ DOMAIN items' = ID
  BY DEF ItemsOK
<1>3. \A j \in ID : items'[j] # None => items'[j] = items[j]
  BY DEF ItemsOK
<1>4. KeysUnique(items')
  BY <1>2, <1>3 DEF KeysUnique, Stored
<1> QED
  BY <1>1, <1>4

LEMMA SameItemsOK ==
  ASSUME ItemsOK, KeysUnique(items), UNCHANGED items
  PROVE  ItemsOK' /\ KeysUnique(items)'
BY DEF ItemsOK, KeysUnique, Stored

------------------------------------------------------------------------------
(* The inductive invariant: initially, and across every action.             *)

LEMMA InitOK == Init => IInv
<1> SUFFICES ASSUME Init PROVE IInv
  OBVIOUS
<1>1. items \in InitialContents
  BY DEF Init
<1>2. items \in [ID -> Item \cup {None}] /\ KeysUnique(items)
      /\ \A i \in Stored(items) : Honest(items[i])
  BY <1>1, ContentsAssumption
<1>3. ItemsOK
  <2>1. \A i \in ID : items[i] \in Version \cup {None}
    BY <1>2 DEF Stored, Version
  <2> QED
    BY <1>2, <2>1 DEF ItemsOK
<1>4. CallOK(Idle)
  BY DEF CallOK, CallRecord, Idle, Equipped, PC
<1>5. CallsOK
  BY <1>4 DEF Init, CallsOK, CallOK
<1> QED
  BY <1>2, <1>3, <1>5 DEF IInv

LEMMA StartOK ==
  ASSUME CallsOK, NEW r \in Request, NEW in \in Inputs, Start(r, in)
  PROVE  CallsOK'
<1>1. in \in Input /\ in # None
  BY InputAssumption, RequestAssumption
<1>2. /\ call[r] \in CallRecord /\ call[r].item \in Version \cup {None}
      /\ call[r].id = None <=> call[r].item = None
  BY DEF CallsOK, CallOK, Equipped
<1>3. CASE BadArguments(in)
  <2> DEFINE c == [call[r] EXCEPT !.pc = "done", !.in = in, !.result = "badRequest"]
  <2>1. "done" \in PC /\ "badRequest" \in Result
    BY DEF PC, Result, Kind
  <2>2. c \in CallRecord
    BY <1>1, <1>2, <2>1 DEF CallRecord
  <2>3. c.pc = "done" /\ c.in = in /\ c.id = call[r].id /\ c.item = call[r].item
    BY <1>2 DEF CallRecord
  <2>4. CallOK(c)
    BY <1>1, <1>2, <2>2, <2>3 DEF CallOK, Equipped
  <2> QED
    BY <1>3, <2>4, BecomeOK DEF Start
<1>4. CASE ~BadArguments(in)
  <2> DEFINE c == [call[r] EXCEPT !.pc = FirstStep(in), !.in = in]
  <2>1. FirstStep(in) \in {"getByID", "getByKey", "handler"}
    BY DEF FirstStep
  <2>2. FirstStep(in) \in PC
    BY <2>1 DEF PC
  <2>3. c \in CallRecord
    BY <1>1, <1>2, <2>2 DEF CallRecord
  <2>4. c.pc = FirstStep(in) /\ c.in = in /\ c.id = call[r].id /\ c.item = call[r].item
    BY <1>2 DEF CallRecord
  <2>5. CallOK(c)
    BY <1>1, <1>2, <2>1, <2>3, <2>4 DEF CallOK, Equipped
  <2> QED
    BY <1>4, <2>5, BecomeOK DEF Start
<1> QED
  BY <1>3, <1>4

LEMMA ReadsOK ==
  ASSUME ItemsOK, CallsOK, NEW r \in Request, GetByID(r) \/ GetByKey(r)
  PROVE  CallsOK'
<1>1. call[r].pc # "idle"
  BY DEF GetByID, GetByKey, PcIs
<1>2. /\ call[r].in # None
      /\ call[r].id \in ID \cup {None} /\ call[r].item \in Version \cup {None}
      /\ call[r].id = None <=> call[r].item = None
  BY <1>1, ActiveCall
<1>3. ASSUME NEW i \in Stored(items)
      PROVE  /\ i \in ID /\ i # None
             /\ Decode(items[i]) \in Version /\ Decode(items[i]) # None
  BY <1>3, DecodeIsVersion, NoneIsNoVersion, RequestAssumption DEF Stored, ItemsOK
<1>4. "notFound" \in Kind /\ "badRequest" \in Kind
  BY DEF Kind
<1>5. CASE GetByID(r)
  <2> DEFINE next == IF call[r].in.key # None THEN "getByKey" ELSE "handler"
  <2>1. next \in {"getByKey", "handler"}
    OBVIOUS
  <2> HIDE DEF next
  <2>2. CASE \E i \in FindByID(items, call[r].in.id) : Hold(r, next, i, Decode(items[i]))
    BY <1>2, <1>3, <2>1, <2>2, HoldOK DEF FindByID
  <2>3. CASE Fail(r, "notFound")
    BY <1>2, <1>4, <2>3, FailOK
  <2>4. CASE Hold(r, next, None, None)
    BY <1>2, <2>1, <2>4, HoldOK
  <2> QED
    BY <1>5, <2>2, <2>3, <2>4 DEF GetByID, next
<1>6. CASE GetByKey(r)
  <2>1. CASE Hold(r, "handler", call[r].id, call[r].item)
    BY <1>2, <2>1, HoldOK
  <2>2. CASE \E i \in FindByKey(items, call[r].in.key) : Hold(r, "handler", i, Decode(items[i]))
    BY <1>2, <1>3, <2>2, HoldOK DEF FindByKey
  <2>3. CASE Fail(r, "badRequest")
    BY <1>2, <1>4, <2>3, FailOK
  <2> QED
    BY <1>6, <2>1, <2>2, <2>3 DEF GetByKey
<1> QED
  BY <1>5, <1>6

\* Every handler refuses, returns, or hands a version on to a write.
LEMMA HandlersOK ==
  ASSUME CallsOK, NEW r \in Request, Handler(r)
  PROVE  CallsOK'
<1> DEFINE c == call[r]
<1>1. c.pc = "handler"
  BY DEF Handler, SaveDraft, SetFieldValue, Publish, Unpublish, Archive, Unarchive, Delete,
         GetItem, Handling, PcIs
<1>2. /\ c.in \in Input /\ c.in # None /\ c \in CallRecord
      /\ c.id \in ID \cup {None} /\ c.item \in Version \cup {None}
      /\ c.id = None <=> c.item = None
  BY <1>1, ActiveCall
<1>3. CASE \E kind \in {"notFound", "badRequest", "notAcceptable"} : Fail(r, kind)
  BY <1>2, <1>3, FailOK DEF Kind
<1>4. CASE SaveDraft(r)
  <2> DEFINE target == SaveTarget(c.in, c.item)
             id == IF c.item = None THEN r ELSE c.id
  <2>1. c.in.op = "SaveDraft"
    BY <1>4 DEF SaveDraft, Handling
  <2>2. CASE /\ ValidDraft(target.type, c.in.fields)
             /\ Hold(r, "upsert", id, SavedItem(c.in, target))
    <3>1. SavedItem(c.in, target) \in Version
      BY <1>2, <2>2, SaveIsVersion DEF ValidDraft
    <3>2. id \in ID /\ id # None
      BY <1>2, RequestAssumption DEF ID
    <3> QED
      BY <1>2, <2>1, <2>2, <3>1, <3>2, HoldOK, NoneIsNoVersion
  <2> QED
    BY <1>3, <1>4, <2>2 DEF SaveDraft
<1>5. CASE SetFieldValue(r)
  <2> DEFINE type == FieldWriteType(c.in, c.item)
             new == [call[r] EXCEPT !.pc = "setField", !.type = type, !.id = None, !.item = None]
  <2>1. c.in.op = "SetFieldValue"
    BY <1>5 DEF SetFieldValue, Handling
  <2>2. CASE ValidField(type, c.in.slot, c.in.value) /\ Become(r, new)
    <3>1. Registered(type) /\ type \in ContentType
      BY <2>2, RegistryAssumption DEF ValidField, Registered
    <3>2. "setField" \in PC
      BY DEF PC
    <3> HIDE DEF type
    <3>3. new \in CallRecord
      BY <1>2, <3>1, <3>2 DEF CallRecord
    <3>4. /\ new.pc = "setField" /\ new.type = type /\ new.id = None /\ new.item = None
          /\ new.in = c.in
      BY <1>2 DEF CallRecord
    <3>5. CallOK(new)
      BY <1>2, <2>1, <3>1, <3>3, <3>4 DEF CallOK, Equipped
    <3> QED
      BY <2>2, <3>5, BecomeOK
  <2> QED
    BY <1>3, <1>5, <2>2 DEF SetFieldValue
<1>6. CASE Publish(r)
  <2> DEFINE new == [c.item EXCEPT !.published = c.item.draft]
  <2>1. c.in.op = "Publish"
    BY <1>6 DEF Publish, Handling
  <2>2. CASE /\ c.item # None /\ Registered(c.item.type)
             /\ Complete(c.item.type, c.item.draft.fields)
             /\ Hold(r, "upsert", c.id, new)
    <3>1. new \in Version
      BY <1>2, <2>2, PublishIsVersion
    <3> QED
      BY <1>2, <2>1, <2>2, <3>1, HoldOK, NoneIsNoVersion
  <2> QED
    BY <1>3, <1>6, <2>2 DEF Publish
<1>7. CASE Unpublish(r)
  <2> DEFINE new == [c.item EXCEPT !.published = None]
  <2>1. c.in.op = "Unpublish"
    BY <1>7 DEF Unpublish, Handling
  <2>2. CASE Return(r, c.id, c.item)
    BY <1>2, <2>2, ReturnOK
  <2>3. CASE c.item # None /\ Hold(r, "upsert", c.id, new)
    <3>1. new \in Version
      BY <1>2, <2>3, WithdrawIsVersion
    <3> QED
      BY <1>2, <2>1, <2>3, <3>1, HoldOK, NoneIsNoVersion
  <2> QED
    BY <1>3, <1>7, <2>2, <2>3 DEF Unpublish
<1>8. CASE Archive(r)
  <2> DEFINE new == [c.item EXCEPT !.archived = TRUE]
  <2>1. c.in.op = "Archive"
    BY <1>8 DEF Archive, Handling
  <2>2. CASE c.item # None /\ Hold(r, "upsert", c.id, new)
    <3>1. new \in Version
      BY <1>2, <2>2, ArchiveIsVersion
    <3> QED
      BY <1>2, <2>1, <2>2, <3>1, HoldOK, NoneIsNoVersion
  <2> QED
    BY <1>3, <1>8, <2>2 DEF Archive
<1>9. CASE Unarchive(r)
  <2> DEFINE new == [c.item EXCEPT !.archived = FALSE, !.published = None]
  <2>1. c.in.op = "Unarchive"
    BY <1>9 DEF Unarchive, Handling
  <2>2. CASE c.item # None /\ Hold(r, "upsert", c.id, new)
    <3>1. new \in Version
      BY <1>2, <2>2, WithdrawIsVersion
    <3> QED
      BY <1>2, <2>1, <2>2, <3>1, HoldOK, NoneIsNoVersion
  <2> QED
    BY <1>3, <1>9, <2>2 DEF Unarchive
<1>10. CASE Delete(r)
  <2>1. c.in.op = "Delete"
    BY <1>10 DEF Delete, Handling
  <2>2. CASE Return(r, None, None)
    BY <1>2, <2>2, ReturnOK
  <2>3. CASE c.item # None /\ Hold(r, "delete", c.id, c.item)
    BY <1>2, <2>1, <2>3, HoldOK
  <2> QED
    BY <1>10, <2>2, <2>3 DEF Delete
<1>11. CASE GetItem(r)
  <2>1. CASE Return(r, c.id, c.item)
    BY <1>2, <2>1, ReturnOK
  <2> QED
    BY <1>3, <1>11, <2>1 DEF GetItem
<1> QED
  BY <1>4, <1>5, <1>6, <1>7, <1>8, <1>9, <1>10, <1>11 DEF Handler

\* An Upsert stores the version the call holds, if the key index allows it.
LEMMA UpsertOK ==
  ASSUME IInv, NEW r \in Request, Upsert(r)
  PROVE  IInv'
<1> DEFINE c == call[r]
<1>1. ItemsOK /\ CallsOK /\ KeysUnique(items) /\ c.pc = "upsert"
  BY DEF IInv, Upsert, PcIs
<1>2. /\ c.in # None /\ c.id \in ID \cup {None} /\ c.item \in Version \cup {None}
      /\ c.id = None <=> c.item = None
  BY <1>1, ActiveCall
<1>3. c.item # None /\ c.in.op # "GetItem"
  BY <1>1 DEF CallsOK, CallOK, Equipped
<1>4. CASE /\ ~KeyTaken(items, c.id, c.item.key)
           /\ items' = [items EXCEPT ![c.id] = c.item]
           /\ Hold(r, "emit", c.id, c.item)
  <2>1. CallsOK'
    BY <1>1, <1>2, <1>3, <1>4, HoldOK
  <2>2. ItemsOK' /\ KeysUnique(items)'
    BY <1>1, <1>2, <1>3, <1>4, PutOK
  <2> QED
    BY <2>1, <2>2 DEF IInv
<1>5. CASE \E kind \in {"conflict", "internal"} : Fail(r, kind) /\ UNCHANGED items
  <2>1. CallsOK'
    BY <1>1, <1>2, <1>5, FailOK DEF Kind
  <2>2. ItemsOK' /\ KeysUnique(items)'
    BY <1>1, <1>5, SameItemsOK
  <2> QED
    BY <2>1, <2>2 DEF IInv
<1> QED
  BY <1>4, <1>5 DEF Upsert, UpsertLands

\* The merge keeps the document's key, so no index can object.
LEMMA UpdateFieldOK ==
  ASSUME IInv, NEW r \in Request, UpdateField(r)
  PROVE  IInv'
<1> DEFINE c == call[r]
<1>1. ItemsOK /\ CallsOK /\ KeysUnique(items) /\ c.pc = "setField"
  BY DEF IInv, UpdateField, PcIs
<1>2. c.in \in Input /\ c.in # None
  BY <1>1, ActiveCall
<1>3. Registered(c.type) /\ c.in.op = "SetFieldValue"
  BY <1>1 DEF CallsOK, CallOK, Equipped
<1>4. PICK i \in FieldTargets(items, c.in.id, c.in.key) :
        IF PathViable(items[i].draft, c.in.slot, c.in.value)
        THEN LET doc == FieldUpdated(items[i], c.type, c.in.slot, c.in.value) IN
             /\ items' = [items EXCEPT ![i] = doc]
             /\ Hold(r, "emit", i, Decode(doc))
        ELSE Fail(r, "internal") /\ UNCHANGED items
  BY DEF UpdateField
<1>5. i \in ID /\ i # None /\ items[i] # None /\ items[i] \in Version
  BY <1>1, RequestAssumption DEF FieldTargets, FindByKey, FindByID, Stored, ItemsOK
<1> DEFINE doc == FieldUpdated(items[i], c.type, c.in.slot, c.in.value)
<1>6. doc \in Version
  BY <1>2, <1>3, <1>5, FieldUpdateIsVersion
<1>7. doc.key = items[i].key
  BY <1>5 DEF FieldUpdated, Version, Item
<1>8. ~KeyTaken(items, i, doc.key)
  <2>1. i \in Stored(items)
    BY <1>1, <1>5 DEF Stored, ItemsOK
  <2>2. \A j \in Stored(items) \ {i} : items[i].key # None => items[j].key # items[i].key
    BY <1>1, <2>1 DEF KeysUnique
  <2> HIDE DEF doc
  <2> QED
    BY <1>7, <2>2 DEF KeyTaken
<1> HIDE DEF doc
<1>9. CASE items' = [items EXCEPT ![i] = doc] /\ Hold(r, "emit", i, Decode(doc))
  <2>1. Decode(doc) \in Version /\ Decode(doc) # None
    BY <1>6, DecodeIsVersion, NoneIsNoVersion
  <2>2. CallsOK'
    BY <1>1, <1>2, <1>3, <1>5, <1>9, <2>1, HoldOK
  <2>3. ItemsOK' /\ KeysUnique(items)'
    BY <1>1, <1>5, <1>6, <1>8, <1>9, PutOK
  <2> QED
    BY <2>2, <2>3 DEF IInv
<1>10. CASE Fail(r, "internal") /\ UNCHANGED items
  <2>1. CallsOK'
    BY <1>1, <1>2, <1>10, FailOK DEF Kind
  <2>2. ItemsOK' /\ KeysUnique(items)'
    BY <1>1, <1>10, SameItemsOK
  <2> QED
    BY <2>1, <2>2 DEF IInv
<1> QED
  BY <1>4, <1>9, <1>10 DEF doc

\* A field write that finds nothing changes its own record only.
LEMMA MissFieldOK ==
  ASSUME IInv, NEW r \in Request, MissField(r)
  PROVE  IInv'
<1> DEFINE c == call[r]
           new == [call[r] EXCEPT !.pc = "insertField"]
<1>1. ItemsOK /\ CallsOK /\ KeysUnique(items) /\ c.pc = "setField"
  BY DEF IInv, MissField, PcIs
<1>2. /\ c \in CallRecord /\ c.in # None /\ c.item \in Version \cup {None}
      /\ c.id = None <=> c.item = None
  BY <1>1, ActiveCall
<1>3. Registered(c.type) /\ c.in.op = "SetFieldValue"
  BY <1>1 DEF CallsOK, CallOK, Equipped
<1>4. ASSUME Fail(r, "notFound") PROVE CallsOK'
  BY <1>1, <1>2, <1>4, FailOK DEF Kind
<1>5. ASSUME Become(r, new) PROVE CallsOK'
  <2>1. "insertField" \in PC
    BY DEF PC
  <2>2. new \in CallRecord
    BY <1>2, <2>1 DEF CallRecord
  <2>3. /\ new.pc = "insertField" /\ new.type = c.type /\ new.in = c.in
        /\ new.id = c.id /\ new.item = c.item
    BY <1>2 DEF CallRecord
  <2>4. CallOK(new)
    BY <1>2, <1>3, <2>2, <2>3 DEF CallOK, Equipped
  <2> QED
    BY <1>1, <1>5, <2>4, BecomeOK
<1>6. CallsOK'
  BY <1>4, <1>5 DEF MissField
<1>7. ItemsOK' /\ KeysUnique(items)'
  BY <1>1, SameItemsOK DEF MissField
<1> QED
  BY <1>6, <1>7 DEF IInv

\* The insert lands only while no document has the key.
LEMMA InsertFieldOK ==
  ASSUME IInv, NEW r \in Request, InsertField(r)
  PROVE  IInv'
<1> DEFINE c == call[r]
           doc == FieldInserted(c.in.key, c.type, c.in.owner, c.in.slot, c.in.value)
           new == [call[r] EXCEPT !.pc = "setField", !.retried = TRUE]
<1>1. ItemsOK /\ CallsOK /\ KeysUnique(items) /\ c.pc = "insertField"
  BY DEF IInv, InsertField, PcIs
<1>2. /\ c \in CallRecord /\ c.in \in Input /\ c.in # None
      /\ c.item \in Version \cup {None}
      /\ c.id = None <=> c.item = None
  BY <1>1, ActiveCall
<1>3. Registered(c.type) /\ c.in.op = "SetFieldValue"
  BY <1>1 DEF CallsOK, CallOK, Equipped
<1>4. doc \in Version /\ doc.key = c.in.key
  BY <1>2, <1>3, FieldInsertIsVersion DEF FieldInserted
<1>5. r \in ID /\ r # None
  BY RequestAssumption DEF ID
<1> HIDE DEF doc
<1>6. CASE /\ ~KeyTaken(items, r, c.in.key)
           /\ items' = [items EXCEPT ![r] = doc]
           /\ Hold(r, "emit", r, Decode(doc))
  <2>1. Decode(doc) \in Version /\ Decode(doc) # None
    BY <1>4, DecodeIsVersion, NoneIsNoVersion
  <2>2. CallsOK'
    BY <1>1, <1>2, <1>3, <1>5, <1>6, <2>1, HoldOK
  <2>3. ItemsOK' /\ KeysUnique(items)'
    BY <1>1, <1>4, <1>5, <1>6, PutOK
  <2> QED
    BY <2>2, <2>3 DEF IInv
<1>7. CASE UNCHANGED items /\ (Fail(r, "internal") \/ Become(r, new))
  <2>1. ASSUME Fail(r, "internal") PROVE CallsOK'
    BY <1>1, <1>2, <2>1, FailOK DEF Kind
  <2>2. ASSUME Become(r, new) PROVE CallsOK'
    <3>1. "setField" \in PC
      BY DEF PC
    <3>2. new \in CallRecord
      BY <1>2, <3>1 DEF CallRecord
    <3>3. /\ new.pc = "setField" /\ new.type = c.type /\ new.in = c.in
          /\ new.id = c.id /\ new.item = c.item
      BY <1>2 DEF CallRecord
    <3>4. CallOK(new)
      BY <1>2, <1>3, <3>2, <3>3 DEF CallOK, Equipped
    <3> QED
      BY <1>1, <2>2, <3>4, BecomeOK
  <2>3. ItemsOK' /\ KeysUnique(items)'
    BY <1>1, <1>7, SameItemsOK
  <2> QED
    BY <1>7, <2>1, <2>2, <2>3 DEF IInv
<1> QED
  BY <1>6, <1>7 DEF InsertField, doc

LEMMA DeleteOneOK ==
  ASSUME IInv, NEW r \in Request, DeleteOne(r)
  PROVE  IInv'
<1> DEFINE c == call[r]
<1>1. ItemsOK /\ CallsOK /\ KeysUnique(items) /\ c.pc = "delete"
  BY DEF IInv, DeleteOne, PcIs
<1>2. /\ c.in # None /\ c.id \in ID \cup {None} /\ c.item \in Version \cup {None}
      /\ c.id = None <=> c.item = None
  BY <1>1, ActiveCall
<1>3. c.item # None /\ c.in.op # "GetItem"
  BY <1>1 DEF CallsOK, CallOK, Equipped
<1>4. CallsOK'
  BY <1>1, <1>2, <1>3, HoldOK DEF DeleteOne
<1>5. ItemsOK' /\ KeysUnique(items)'
  BY <1>1, RemoveOK DEF DeleteOne
<1> QED
  BY <1>4, <1>5 DEF IInv

LEMMA EmitOK ==
  ASSUME CallsOK, NEW r \in Request, Emit(r)
  PROVE  CallsOK'
<1> DEFINE c == call[r]
           event == IF Suppressed(c.item.type) THEN None
                    ELSE [ op |-> EventOp(c.in.op), type |-> c.item.type,
                           owner |-> c.item.owner ]
           new == [call[r] EXCEPT !.pc = "done", !.result = "ok", !.event = event]
<1>1. c.pc = "emit"
  BY DEF Emit, PcIs
<1>2. /\ c \in CallRecord /\ c.in \in Input /\ c.in # None
      /\ c.item \in Version \cup {None} /\ (c.id = None <=> c.item = None)
  BY <1>1, ActiveCall
<1>3. c.item # None /\ c.in.op # "GetItem"
  BY <1>1 DEF CallsOK, CallOK, Equipped
<1>4. c.item.type \in ContentType /\ c.item.owner \in Owner \cup {None}
  BY <1>2, <1>3 DEF Version, Item
<1>5. EventOp(c.in.op) \in
        {"saveDraft", "publish", "unpublish", "archive", "unarchive", "delete"}
  <2>1. c.in.op \in Op
    BY <1>2 DEF Input
  <2> QED
    BY <1>3, <2>1 DEF Op, EventOp
<1>6. event \in Event \cup {None}
  <2>1. [ op |-> EventOp(c.in.op), type |-> c.item.type, owner |-> c.item.owner ] \in Event
    BY <1>4, <1>5 DEF Event
  <2> QED
    BY <2>1
<1> HIDE DEF event
<1>7. "done" \in PC /\ "ok" \in Result
  BY DEF PC, Result
<1>8. new \in CallRecord
  BY <1>2, <1>6, <1>7 DEF CallRecord
<1>9. new.pc = "done" /\ new.in = c.in /\ new.id = c.id /\ new.item = c.item
  BY <1>2 DEF CallRecord
<1>10. CallOK(new)
  BY <1>2, <1>8, <1>9 DEF CallOK, Equipped
<1> QED
  BY <1>10, BecomeOK DEF Emit, event

LEMMA FailuresOK ==
  ASSUME CallsOK, NEW r \in Request, StoreFails(r) \/ AckLost(r)
  PROVE  CallsOK'
<1>1. call[r].pc # "idle"
  BY DEF StoreFails, AckLost, PcIs, StorePC
<1>2. call[r].in # None
  BY <1>1, ActiveCall
<1> QED
  BY <1>2, FailOK DEF StoreFails, AckLost, Kind

LEMMA StepOK == IInv /\ [Next]_vars => IInv'
<1> SUFFICES ASSUME IInv, [Next]_vars PROVE IInv'
  OBVIOUS
<1>1. ItemsOK /\ CallsOK /\ KeysUnique(items)
  BY DEF IInv
<1>2. ASSUME CallsOK', UNCHANGED items PROVE IInv'
  BY <1>1, <1>2, SameItemsOK DEF IInv
<1>3. ASSUME NEW r \in Request, NEW in \in Inputs, Start(r, in) PROVE IInv'
  BY <1>1, <1>2, <1>3, StartOK DEF Start
<1>4. ASSUME NEW r \in Request, GetByID(r) \/ GetByKey(r) PROVE IInv'
  BY <1>1, <1>2, <1>4, ReadsOK DEF GetByID, GetByKey
<1>5. ASSUME NEW r \in Request, Handler(r) PROVE IInv'
  <2>1. UNCHANGED items
    BY <1>5 DEF Handler, SaveDraft, SetFieldValue, Publish, Unpublish, Archive, Unarchive,
                Delete, GetItem
  <2> QED
    BY <1>1, <1>2, <1>5, <2>1, HandlersOK
<1>6. ASSUME NEW r \in Request, Write(r) PROVE IInv'
  BY <1>6, UpsertOK, UpdateFieldOK, MissFieldOK, InsertFieldOK, DeleteOneOK DEF Write
<1>7. ASSUME NEW r \in Request, Emit(r) PROVE IInv'
  BY <1>1, <1>2, <1>7, EmitOK DEF Emit
<1>8. ASSUME NEW r \in Request, StoreFails(r) \/ AckLost(r) PROVE IInv'
  BY <1>1, <1>2, <1>8, FailuresOK DEF StoreFails, AckLost
<1>9. CASE UNCHANGED vars
  BY <1>9, <1>1 DEF vars, IInv, ItemsOK, CallsOK, CallOK, KeysUnique, Stored
<1> QED
  BY <1>3, <1>4, <1>5, <1>6, <1>7, <1>8, <1>9 DEF Next, CallStep, Progress, Finished

\* The effect of one step of an item call on what it holds and on which items
\* exist: it holds nothing, what it held, a new item, or one that is stored; an
\* item changes only when a call writes it, and comes into being only when that call
\* held it or it is the call's own new one.
LEMMA CallEffect ==
  ASSUME IInv, NEW r \in Request, CallStep(r)
  PROVE  /\ \A q \in Request \ {r} : call'[q] = call[q]
         /\ call[r].pc # "done" /\ call'[r].pc # "idle"
         /\ call'[r].pc # "done" => call'[r].event = call[r].event
         /\ call[r].pc = "idle" =>
              /\ call'[r].id = call[r].id \/ call'[r].pc = "done"
              /\ Stored(items') \subseteq Stored(items)
         /\ call[r].pc = "emit" =>
              /\ call'[r].pc = "done"
              /\ call'[r].id = call[r].id \/ call'[r].result = "internal"
         /\ call'[r].id \in {None, call[r].id, r} \cup Stored(items)
         /\ \A i \in ID : items'[i] # items[i] => call'[r].pc = "emit" /\ call'[r].id = i
         /\ \A i \in Stored(items') \ Stored(items) :
              /\ call'[r].pc = "emit" /\ call'[r].id = i
              /\ i = call[r].id \/ i = r
<1> DEFINE Effect ==
      /\ \A q \in Request \ {r} : call'[q] = call[q]
      /\ call[r].pc # "done" /\ call'[r].pc # "idle"
      /\ call'[r].pc # "done" => call'[r].event = call[r].event
      /\ call[r].pc = "idle" =>
           /\ call'[r].id = call[r].id \/ call'[r].pc = "done"
           /\ Stored(items') \subseteq Stored(items)
      /\ call[r].pc = "emit" =>
           /\ call'[r].pc = "done"
           /\ call'[r].id = call[r].id \/ call'[r].result = "internal"
      /\ call'[r].id \in {None, call[r].id, r} \cup Stored(items)
      /\ \A i \in ID : items'[i] # items[i] => call'[r].pc = "emit" /\ call'[r].id = i
      /\ \A i \in Stored(items') \ Stored(items) :
           /\ call'[r].pc = "emit" /\ call'[r].id = i
           /\ i = call[r].id \/ i = r
<1>0. /\ DOMAIN items = ID /\ call \in [Request -> CallRecord]
      /\ call[r] \in CallRecord
  BY DEF IInv, ItemsOK, CallsOK
<1> DEFINE c == call[r]
<1>1. ASSUME NEW pc, NEW id, NEW item, Hold(r, pc, id, item)
      PROVE  /\ call'[r].pc = pc /\ call'[r].id = id /\ call'[r].event = c.event
             /\ \A q \in Request \ {r} : call'[q] = call[q]
  BY <1>0, <1>1 DEF Hold, Become, CallRecord
<1>2. ASSUME NEW kind, Fail(r, kind)
      PROVE  /\ call'[r].pc = "done" /\ call'[r].id = None /\ call'[r].result = kind
             /\ \A q \in Request \ {r} : call'[q] = call[q]
  BY <1>0, <1>2 DEF Fail, Become, CallRecord
<1>3. ASSUME NEW id, NEW item, Return(r, id, item)
      PROVE  /\ call'[r].pc = "done" /\ call'[r].id = id
             /\ \A q \in Request \ {r} : call'[q] = call[q]
  BY <1>0, <1>3 DEF Return, Become, CallRecord
<1>4. ASSUME NEW d, Become(r, d)
      PROVE  /\ call'[r] = d
             /\ \A q \in Request \ {r} : call'[q] = call[q]
  BY <1>0, <1>4 DEF Become
<1>5. CASE \E in \in Inputs : Start(r, in)
  <2>1. PICK in \in Inputs : Start(r, in)
    BY <1>5
  <2> DEFINE bad == [c EXCEPT !.pc = "done", !.in = in, !.result = "badRequest"]
             started == [c EXCEPT !.pc = FirstStep(in), !.in = in]
  <2>a. /\ bad.id = c.id /\ bad.pc # "idle" /\ bad.event = c.event
        /\ started.id = c.id /\ started.pc # "idle" /\ started.event = c.event
    BY <1>0 DEF CallRecord, FirstStep
  <2>b. Become(r, bad) \/ Become(r, started)
    BY <2>1 DEF Start
  <2> HIDE DEF bad, started
  <2>2. \E d : Become(r, d) /\ d.id = c.id /\ d.pc # "idle" /\ d.event = c.event
    BY <2>a, <2>b
  <2> QED
    BY <1>4, <2>1, <2>2 DEF Start, PcIs
<1>6. CASE GetByID(r)
  BY <1>1, <1>2, <1>6 DEF GetByID, PcIs, FindByID
<1>7. CASE GetByKey(r)
  BY <1>1, <1>2, <1>7 DEF GetByKey, PcIs, FindByKey
<1>8. CASE SetFieldValue(r)
  <2> DEFINE type == FieldWriteType(c.in, c.item)
             n == [c EXCEPT !.pc = "setField", !.type = type, !.id = None, !.item = None]
  <2>a. n.id = None /\ n.pc = "setField" /\ n.event = c.event
    BY <1>0 DEF CallRecord
  <2>b. (\E kind : Fail(r, kind)) \/ Become(r, n)
    BY <1>8 DEF SetFieldValue
  <2> HIDE DEF n
  <2>1. \/ \E kind : Fail(r, kind)
        \/ \E d : Become(r, d) /\ d.id = None /\ d.pc = "setField" /\ d.event = c.event
    BY <2>a, <2>b
  <2> QED
    BY <1>2, <1>4, <1>8, <2>1 DEF SetFieldValue, Handling, PcIs
<1>9. CASE SaveDraft(r) \/ Publish(r) \/ Unpublish(r) \/ Archive(r) \/ Unarchive(r)
           \/ Delete(r) \/ GetItem(r)
  <2>1. /\ PcIs(r, "handler") /\ UNCHANGED items
        /\ \/ \E kind : Fail(r, kind)
           \/ \E id \in {None, c.id}, item \in {None, c.item} : Return(r, id, item)
           \/ \E pc \in {"upsert", "delete"}, id \in {c.id, r} : \E item : Hold(r, pc, id, item)
    <3>1. CASE SaveDraft(r)
      BY <3>1 DEF SaveDraft, Handling
    <3>2. CASE Publish(r)
      BY <3>2 DEF Publish, Handling
    <3>3. CASE Unpublish(r)
      BY <3>3 DEF Unpublish, Handling
    <3>4. CASE Archive(r)
      BY <3>4 DEF Archive, Handling
    <3>5. CASE Unarchive(r)
      BY <3>5 DEF Unarchive, Handling
    <3>6. CASE Delete(r)
      BY <3>6 DEF Delete, Handling
    <3>7. CASE GetItem(r)
      BY <3>7 DEF GetItem, Handling
    <3> QED
      BY <1>9, <3>1, <3>2, <3>3, <3>4, <3>5, <3>6, <3>7
  <2> QED
    BY <1>1, <1>2, <1>3, <2>1 DEF PcIs
<1>10. CASE Upsert(r)
  <2>1. CASE \E kind : Fail(r, kind) /\ UNCHANGED items
    BY <1>2, <1>10, <2>1 DEF Upsert, PcIs
  <2>2. CASE /\ items' = [items EXCEPT ![c.id] = c.item]
             /\ Hold(r, "emit", c.id, c.item)
    BY <1>0, <1>1, <1>10, <2>2 DEF Upsert, PcIs, Stored
  <2> QED
    BY <1>10, <2>1, <2>2 DEF Upsert
<1>11. CASE UpdateField(r)
  <2>1. CASE \E kind : Fail(r, kind) /\ UNCHANGED items
    BY <1>2, <1>11, <2>1 DEF UpdateField, PcIs
  <2>2. CASE \E i \in Stored(items) : \E doc, item :
               items' = [items EXCEPT ![i] = doc] /\ Hold(r, "emit", i, item)
    BY <1>0, <1>1, <1>11, <2>2 DEF UpdateField, PcIs, Stored
  <2> QED
    BY <1>11, <2>1, <2>2 DEF UpdateField, FieldTargets, FindByKey, FindByID
<1>12. CASE MissField(r)
  <2>1. \/ \E kind : Fail(r, kind)
        \/ \E d : Become(r, d) /\ d.id = c.id /\ d.pc = "insertField" /\ d.event = c.event
    BY <1>0, <1>12 DEF MissField, CallRecord
  <2> QED
    BY <1>2, <1>4, <1>12, <2>1 DEF MissField, PcIs
<1>13. CASE InsertField(r)
  <2>1. CASE \E kind : Fail(r, kind) /\ UNCHANGED items
    BY <1>2, <1>13, <2>1 DEF InsertField, PcIs
  <2>2. CASE \E doc, item : items' = [items EXCEPT ![r] = doc] /\ Hold(r, "emit", r, item)
    BY <1>0, <1>1, <1>13, <2>2 DEF InsertField, PcIs, Stored
  <2>3. CASE \E d : /\ Become(r, d) /\ UNCHANGED items
                    /\ d.id = c.id /\ d.pc = "setField" /\ d.event = c.event
    BY <1>4, <1>13, <2>3 DEF InsertField, PcIs
  <2> DEFINE again == [c EXCEPT !.pc = "setField", !.retried = TRUE]
  <2>4. again.id = c.id /\ again.pc = "setField" /\ again.event = c.event
    BY <1>0 DEF CallRecord
  <2>5. \/ \E kind : Fail(r, kind) /\ UNCHANGED items
        \/ \E doc, item : items' = [items EXCEPT ![r] = doc] /\ Hold(r, "emit", r, item)
        \/ Become(r, again) /\ UNCHANGED items
    BY <1>13 DEF InsertField
  <2> HIDE DEF again
  <2> QED
    BY <2>1, <2>2, <2>3, <2>4, <2>5
<1>14. CASE DeleteOne(r)
  BY <1>0, <1>1, <1>14 DEF DeleteOne, PcIs, Stored
<1>15. CASE Emit(r)
  <2> DEFINE event == IF Suppressed(c.item.type) THEN None
                      ELSE [ op |-> EventOp(c.in.op), type |-> c.item.type,
                             owner |-> c.item.owner ]
             n == [c EXCEPT !.pc = "done", !.result = "ok", !.event = event]
  <2>1. n.id = c.id /\ n.pc = "done"
    BY <1>0 DEF CallRecord
  <2>2. Become(r, n)
    BY <1>15 DEF Emit
  <2> HIDE DEF n
  <2> QED
    BY <1>4, <1>15, <2>1, <2>2 DEF Emit, PcIs
<1>16. CASE StoreFails(r)
  BY <1>2, <1>16 DEF StoreFails, StorePC
<1>17. CASE AckLost(r)
  BY <1>2, <1>17 DEF AckLost, PcIs
<1> QED
  BY <1>5, <1>6, <1>7, <1>8, <1>9, <1>10, <1>11, <1>12, <1>13, <1>14, <1>15, <1>16, <1>17
     DEF CallStep, Progress, Handler, Write

\* A call keeps its arguments, and only a handler prepares an Upsert.
LEMMA InputKept ==
  ASSUME IInv, NEW r \in Request, CallStep(r)
  PROVE  /\ \A q \in Request \ {r} : call'[q] = call[q]
         /\ IF call[r].pc = "idle" THEN call'[r].in \in Inputs
                                   ELSE call'[r].in = call[r].in
         /\ call'[r].pc = "upsert" => Handler(r)
<1> DEFINE c == call[r]
<1>0. c \in CallRecord /\ call \in [Request -> CallRecord]
  BY DEF IInv, CallsOK
<1>1. \A q \in Request \ {r} : call'[q] = call[q]
  BY CallEffect
<1>2. ASSUME NEW d, Become(r, d) PROVE call'[r] = d
  BY <1>0, <1>2 DEF Become
<1>3. ASSUME NEW pc, NEW id, NEW item, Hold(r, pc, id, item)
      PROVE  call'[r].in = c.in /\ call'[r].pc = pc
  BY <1>0, <1>3 DEF Hold, Become, CallRecord
<1>4. ASSUME NEW id, NEW item, Return(r, id, item)
      PROVE  call'[r].in = c.in /\ call'[r].pc = "done"
  BY <1>0, <1>4 DEF Return, Become, CallRecord
<1>5. ASSUME NEW kind, Fail(r, kind)
      PROVE  call'[r].in = c.in /\ call'[r].pc = "done"
  BY <1>0, <1>5 DEF Fail, Become, CallRecord
<1>6. CASE \E in \in Inputs : Start(r, in)
  <2>1. PICK in \in Inputs : Start(r, in)
    BY <1>6
  <2> DEFINE bad == [c EXCEPT !.pc = "done", !.in = in, !.result = "badRequest"]
             started == [c EXCEPT !.pc = FirstStep(in), !.in = in]
  <2>2. bad.in = in /\ bad.pc # "upsert" /\ started.in = in /\ started.pc # "upsert"
    BY <1>0 DEF CallRecord, FirstStep
  <2>3. (call'[r] = bad \/ call'[r] = started) /\ c.pc = "idle"
    BY <1>2, <2>1 DEF Start, PcIs
  <2> HIDE DEF bad, started
  <2> QED
    BY <1>1, <2>2, <2>3
<1>7. CASE GetByID(r) \/ GetByKey(r)
  BY <1>1, <1>3, <1>5, <1>7 DEF GetByID, GetByKey, PcIs
<1>8. CASE Handler(r)
  <2>0. c.pc = "handler"
    BY <1>8 DEF Handler, SaveDraft, SetFieldValue, Publish, Unpublish, Archive, Unarchive,
                Delete, GetItem, Handling, PcIs
  <2>1. call'[r].in = c.in
    <3>1. CASE SetFieldValue(r)
      <4> DEFINE d == [c EXCEPT !.pc = "setField", !.type = FieldWriteType(c.in, c.item),
                                !.id = None, !.item = None]
      <4>1. d.in = c.in
        BY <1>0 DEF CallRecord
      <4>2. Become(r, d) \/ \E kind : Fail(r, kind)
        BY <3>1 DEF SetFieldValue
      <4> HIDE DEF d
      <4> QED
        BY <1>2, <1>5, <4>1, <4>2
    <3>2. CASE SaveDraft(r)
      BY <1>3, <1>5, <3>2 DEF SaveDraft
    <3>3. CASE Publish(r)
      BY <1>3, <1>5, <3>3 DEF Publish
    <3>4. CASE Unpublish(r)
      BY <1>3, <1>4, <1>5, <3>4 DEF Unpublish
    <3>5. CASE Archive(r) \/ Unarchive(r)
      BY <1>3, <1>5, <3>5 DEF Archive, Unarchive
    <3>6. CASE Delete(r) \/ GetItem(r)
      BY <1>3, <1>4, <1>5, <3>6 DEF Delete, GetItem
    <3> QED
      BY <1>8, <3>1, <3>2, <3>3, <3>4, <3>5, <3>6 DEF Handler
  <2> QED
    BY <1>1, <1>8, <2>0, <2>1
<1>9. CASE Write(r)
  <2>0. c.pc \in {"upsert", "setField", "insertField", "delete"}
    BY <1>9 DEF Write, Upsert, UpdateField, MissField, InsertField, DeleteOne, PcIs
  <2>1. CASE Upsert(r) \/ UpdateField(r) \/ DeleteOne(r)
    BY <1>1, <1>3, <1>5, <2>0, <2>1 DEF Upsert, UpdateField, DeleteOne
  <2>2. CASE MissField(r)
    <3> DEFINE d == [c EXCEPT !.pc = "insertField"]
    <3>1. d.in = c.in /\ d.pc = "insertField"
      BY <1>0 DEF CallRecord
    <3>2. Become(r, d) \/ \E kind : Fail(r, kind)
      BY <2>2 DEF MissField
    <3> HIDE DEF d
    <3> QED
      BY <1>1, <1>2, <1>5, <2>0, <3>1, <3>2
  <2>3. CASE InsertField(r)
    <3> DEFINE d == [c EXCEPT !.pc = "setField", !.retried = TRUE]
    <3>1. d.in = c.in /\ d.pc = "setField"
      BY <1>0 DEF CallRecord
    <3>2. Become(r, d) \/ (\E kind : Fail(r, kind)) \/ \E id, item : Hold(r, "emit", id, item)
      BY <2>3 DEF InsertField
    <3> HIDE DEF d
    <3> QED
      BY <1>1, <1>2, <1>3, <1>5, <2>0, <3>1, <3>2
  <2> QED
    BY <1>9, <2>1, <2>2, <2>3 DEF Write
<1>10. CASE Emit(r)
  <2> DEFINE event == IF Suppressed(c.item.type) THEN None
                      ELSE [ op |-> EventOp(c.in.op), type |-> c.item.type,
                             owner |-> c.item.owner ]
             d == [c EXCEPT !.pc = "done", !.result = "ok", !.event = event]
  <2>1. d.pc = "done" /\ d.in = c.in
    BY <1>0 DEF CallRecord
  <2>2. call'[r] = d
    BY <1>2, <1>10 DEF Emit
  <2> HIDE DEF d
  <2> QED
    BY <1>1, <1>10, <2>1, <2>2 DEF Emit, PcIs
<1>11. CASE StoreFails(r) \/ AckLost(r)
  BY <1>1, <1>5, <1>11 DEF StoreFails, AckLost, StorePC, PcIs
<1> QED
  BY <1>6, <1>7, <1>8, <1>9, <1>10, <1>11 DEF CallStep, Progress

------------------------------------------------------------------------------
(* Calls run down.                                                          *)

\* The steps a call's record may take: forward, or once back from a lost insert.
Onward(c, d) ==
  \/ c.pc # "done" /\ d.pc = "done"
  \/ c.pc = "idle" /\ d.pc \in {"getByID", "getByKey", "handler"}
  \/ c.pc = "getByID" /\ d.pc \in {"getByKey", "handler"}
  \/ c.pc = "getByKey" /\ d.pc = "handler"
  \/ c.pc = "handler" /\ d.pc \in {"setField", "upsert", "delete"}
  \/ c.pc \in {"setField", "insertField", "upsert", "delete"} /\ d.pc = "emit"
  \/ c.pc = "setField" /\ d.pc = "insertField" /\ d.retried = c.retried
  \/ c.pc = "insertField" /\ d.pc = "setField" /\ c.retried = FALSE /\ d.retried = TRUE

LEMMA OnwardIsNearer ==
  ASSUME NEW c \in CallRecord, NEW d \in CallRecord, Onward(c, d)
  PROVE  StepsLeft(d) < StepsLeft(c)
<1>1. c.pc \in PC /\ d.pc \in PC /\ c.retried \in BOOLEAN /\ d.retried \in BOOLEAN
  BY DEF CallRecord
<1>2. /\ Stage["idle"] = 9 /\ Stage["getByID"] = 8 /\ Stage["getByKey"] = 7
      /\ Stage["handler"] = 6 /\ Stage["setField"] = 5 /\ Stage["insertField"] = 4
      /\ Stage["upsert"] = 2 /\ Stage["delete"] = 2 /\ Stage["emit"] = 1
      /\ Stage["done"] = 0
  BY DEF Stage
<1>3. ASSUME NEW e \in CallRecord, e.pc \notin {"setField", "insertField"}
      PROVE  StepsLeft(e) = Stage[e.pc]
  <2>1. Stage[e.pc] \in Int
    BY <1>2 DEF CallRecord, PC
  <2> QED
    BY <1>3, <2>1 DEF StepsLeft
<1>4. ASSUME NEW e \in CallRecord, e.pc \in {"setField", "insertField"}
      PROVE  StepsLeft(e) = Stage[e.pc] - (IF e.retried THEN 2 ELSE 0)
  BY <1>4 DEF StepsLeft
<1> USE DEF PC
<1>5. CASE c.pc = "handler"
  BY <1>1, <1>2, <1>3, <1>4, <1>5 DEF Onward
<1>6. CASE c.pc \in {"setField", "insertField"}
  BY <1>1, <1>2, <1>3, <1>4, <1>6 DEF Onward
<1>7. CASE c.pc \notin {"handler", "setField", "insertField"}
  BY <1>1, <1>2, <1>3, <1>7 DEF Onward
<1> QED
  BY <1>5, <1>6, <1>7

LEMMA StepIsOnward ==
  ASSUME IInv, NEW r \in Request, CallStep(r)
  PROVE  Onward(call[r], call'[r])
<1> DEFINE c == call[r]
<1>0. call \in [Request -> CallRecord] /\ c \in CallRecord
  BY DEF IInv, CallsOK
<1>1. ASSUME NEW pc, NEW id, NEW item, Hold(r, pc, id, item)
      PROVE  call'[r].pc = pc /\ call'[r].retried = c.retried
  BY <1>0, <1>1 DEF Hold, Become, CallRecord
<1>2. ASSUME NEW kind, Fail(r, kind)
      PROVE  call'[r].pc = "done"
  BY <1>0, <1>2 DEF Fail, Become, CallRecord
<1>3. ASSUME NEW id, NEW item, Return(r, id, item)
      PROVE  call'[r].pc = "done"
  BY <1>0, <1>3 DEF Return, Become, CallRecord
<1>4. ASSUME NEW d, Become(r, d) PROVE call'[r] = d
  BY <1>0, <1>4 DEF Become
<1>5. CASE \E in \in Inputs : Start(r, in)
  <2>1. PICK in \in Inputs : Start(r, in)
    BY <1>5
  <2> DEFINE bad == [c EXCEPT !.pc = "done", !.in = in, !.result = "badRequest"]
             started == [c EXCEPT !.pc = FirstStep(in), !.in = in]
  <2>2. bad.pc = "done" /\ started.pc \in {"getByID", "getByKey", "handler"}
    BY <1>0 DEF CallRecord, FirstStep
  <2>3. (call'[r] = bad \/ call'[r] = started) /\ c.pc = "idle"
    BY <1>4, <2>1 DEF Start, PcIs
  <2> HIDE DEF bad, started
  <2> QED
    BY <2>2, <2>3 DEF Onward
<1>6. CASE GetByID(r) \/ GetByKey(r)
  BY <1>1, <1>2, <1>6 DEF GetByID, GetByKey, PcIs, Onward
<1>7. CASE Handler(r)
  <2>1. c.pc = "handler"
    BY <1>7 DEF Handler, SaveDraft, SetFieldValue, Publish, Unpublish, Archive, Unarchive,
                Delete, GetItem, Handling, PcIs
  <2>2. CASE SetFieldValue(r)
    <3> DEFINE d == [c EXCEPT !.pc = "setField", !.type = FieldWriteType(c.in, c.item),
                              !.id = None, !.item = None]
    <3>1. d.pc = "setField"
      BY <1>0 DEF CallRecord
    <3>2. Become(r, d) \/ \E kind : Fail(r, kind)
      BY <2>2 DEF SetFieldValue
    <3> HIDE DEF d
    <3> QED
      BY <1>2, <1>4, <2>1, <3>1, <3>2 DEF Onward
  <2>3. CASE SaveDraft(r) \/ Publish(r) \/ Archive(r) \/ Unarchive(r)
    BY <1>1, <1>2, <2>1, <2>3 DEF SaveDraft, Publish, Archive, Unarchive, Onward
  <2>4. CASE Unpublish(r) \/ Delete(r) \/ GetItem(r)
    BY <1>1, <1>2, <1>3, <2>1, <2>4 DEF Unpublish, Delete, GetItem, Onward
  <2> QED
    BY <1>7, <2>2, <2>3, <2>4 DEF Handler
<1>8. CASE Upsert(r) \/ UpdateField(r) \/ DeleteOne(r)
  BY <1>1, <1>2, <1>8 DEF Upsert, UpdateField, DeleteOne, PcIs, Onward
<1>9. CASE MissField(r)
  <2> DEFINE d == [c EXCEPT !.pc = "insertField"]
  <2>1. d.pc = "insertField" /\ d.retried = c.retried
    BY <1>0 DEF CallRecord
  <2>2. (Become(r, d) \/ \E kind : Fail(r, kind)) /\ c.pc = "setField"
    BY <1>9 DEF MissField, PcIs
  <2> HIDE DEF d
  <2> QED
    BY <1>2, <1>4, <2>1, <2>2 DEF Onward
<1>10. CASE InsertField(r)
  <2> DEFINE d == [c EXCEPT !.pc = "setField", !.retried = TRUE]
  <2>1. d.pc = "setField" /\ d.retried = TRUE
    BY <1>0 DEF CallRecord
  <2>2. /\ c.pc = "insertField" /\ c.retried \in BOOLEAN
        /\ \/ \E item : Hold(r, "emit", r, item)
           \/ \E kind : Fail(r, kind)
           \/ c.retried = FALSE /\ Become(r, d)
    <3>1. c.retried \in BOOLEAN
      BY <1>0 DEF CallRecord
    <3> QED
      BY <1>10, <3>1 DEF InsertField, PcIs
  <2> HIDE DEF d
  <2> QED
    BY <1>1, <1>2, <1>4, <2>1, <2>2 DEF Onward
<1>11. CASE Emit(r)
  <2>1. call'[r].pc = "done" /\ c.pc = "emit"
    BY <1>11, CallEffect DEF Emit, PcIs
  <2> QED
    BY <2>1 DEF Onward
<1>12. CASE StoreFails(r) \/ AckLost(r)
  <2>1. call'[r].pc = "done" /\ c.pc # "done"
    BY <1>2, <1>12 DEF StoreFails, AckLost, StorePC, PcIs
  <2> QED
    BY <2>1 DEF Onward
<1> QED
  BY <1>5, <1>6, <1>7, <1>8, <1>9, <1>10, <1>11, <1>12 DEF CallStep, Progress, Write

------------------------------------------------------------------------------
(* The theorems.                                                            *)

LEMMA IInvGives == IInv => TypeOK /\ StoredHonest /\ InFlightHonest /\ KeysStayUnique
<1> SUFFICES ASSUME IInv PROVE TypeOK /\ StoredHonest /\ InFlightHonest /\ KeysStayUnique
  OBVIOUS
<1>1. TypeOK
  BY DEF IInv, ItemsOK, CallsOK, CallOK, TypeOK, Version
<1>2. StoredHonest
  BY DEF IInv, ItemsOK, StoredHonest, Stored, Version
<1>3. InFlightHonest
  BY DEF IInv, CallsOK, CallOK, InFlightHonest, Version
<1>4. KeysStayUnique
  BY DEF IInv, KeysStayUnique
<1> QED
  BY <1>1, <1>2, <1>3, <1>4

\* The invariant holds in every reachable state, whatever the schedule, the
\* faults and the inputs.
THEOREM Invariance == Spec => []IInv
<1>1. Init => IInv
  BY InitOK
<1>2. IInv /\ [Next]_vars => IInv'
  BY StepOK
<1> QED
  BY <1>1, <1>2, PTL DEF Spec

\* No operation passes a missing item, type or argument on, and every stored
\* document and call record has its type (engine.go, persistor.go).
THEOREM TypeCorrect == Spec => []TypeOK
BY Invariance, IInvGives, PTL

\* No interleaving of stale whole-document writes with atomic field merges
\* stores a version whose derived State() lies or whose live snapshot was never
\* complete (engine.go:59-287, vo.go:96-109).
THEOREM StoredIsHonest == Spec => []StoredHonest
BY Invariance, IInvGives, PTL

\* No caller is handed such a version either (engine.go:182-287, 320-323).
THEOREM ReturnedIsHonest == Spec => []InFlightHonest
BY Invariance, IInvGives, PTL

\* No race of creates, key adoptions and field inserts gives two items one key
\* (persistor.go:46-78, 208-268).
THEOREM KeysAreUnique == Spec => []KeysStayUnique
BY Invariance, IInvGives, PTL

\* No call runs on for ever: each of its steps, failures included, brings it nearer to
\* its return, and nothing but its own steps moves it (the single retry,
\* persistor.go:244-268).
THEOREM CallsEndInFewSteps == Spec => CallsRunDown
<1> DEFINE Nearer ==
      \A r \in Request : call'[r] # call[r] => StepsLeft(call'[r]) < StepsLeft(call[r])
<1>1. IInv /\ [Next]_vars => [Nearer]_vars
  <2> SUFFICES ASSUME IInv, Next, NEW r \in Request, call'[r] # call[r]
               PROVE  StepsLeft(call'[r]) < StepsLeft(call[r])
    OBVIOUS
  <2>1. PICK q \in Request : CallStep(q)
    BY DEF Next, Finished, vars
  <2>2. q = r
    BY <2>1, CallEffect
  <2>3. call[r] \in CallRecord /\ call'[r] \in CallRecord
    BY StepOK DEF IInv, CallsOK
  <2> QED
    BY <2>1, <2>2, <2>3, StepIsOnward, OnwardIsNearer
<1>2. Spec => [][Nearer]_vars
  BY <1>1, Invariance, PTL DEF Spec
<1> QED
  BY <1>2 DEF CallsRunDown
=============================================================================
