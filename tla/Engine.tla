------------------------------- MODULE Engine --------------------------------
(***************************************************************************)
(* The engine's item operations (engine.go) running concurrently over one  *)
(* content_items collection.  Every API call is a Request.  Go runs each   *)
(* call on a goroutine of its own with no lock between them, in one        *)
(* process or several, so a step of the model is at most one Store call:   *)
(* a call resolves its item with up to two reads (GetByID, GetByKey), its  *)
(* handler decides on the copy it read, the write follows in a later step, *)
(* and the notification in a step after that.                              *)
(***************************************************************************)
EXTENDS Persistor, FiniteSets

CONSTANTS
  Request,          \* API calls; each is made at most once
  OldID,            \* ids of the items that exist at the start
  InitialContents,  \* collections the store may hold at the start
  Inputs,           \* argument records the calls may carry
  Overlap,          \* TRUE: calls run concurrently; FALSE: one after another
  Faults            \* TRUE: store calls may fail, before or after the write

\* newID(): an id no other call produces, here named after the call itself.
ID == OldID \cup Request

Op == {"SaveDraft", "SetFieldValue", "Publish", "Unpublish", "Archive",
       "Unarchive", "Delete", "GetItem"}

Input == [ op     : Op,
           id     : ID \cup {None},          \* Match.ID
           key    : Key \cup {None},         \* Match.Key
           type   : ContentType \cup {None},
           owner  : Owner \cup {None},
           fields : FieldMap \cup {None},    \* SaveDraft
           expect : Int \cup {None},         \* SaveDraft: ExpectedRevision
           slot   : Slot \cup {None},        \* SetFieldValue
           value  : Value \cup {None} ]      \* SetFieldValue

Event == [ op : {"saveDraft", "publish", "unpublish", "archive", "unarchive",
                 "delete"},
           type  : ContentType,
           owner : Owner \cup {None} ]

Kind == {"internal", "badRequest", "notFound", "notAcceptable", "conflict"}
Result == Kind \cup {"ok"}

PC == {"idle", "getByID", "getByKey", "handler", "upsert", "setField",
       "insertField", "delete", "emit", "done"}

CallRecord == [ pc      : PC,
                in      : Input \cup {None},
                id      : ID \cup {None},           \* of the item in memory
                item    : Item \cup {None},         \* the item in memory
                type    : ContentType \cup {None},  \* FieldUpdate.Type
                retried : BOOLEAN,                  \* SetField's single retry
                result  : Result \cup {None},
                event   : Event \cup {None} ]

\* What every version of an item satisfies, stored or held by a call.
Honest(item) ==
  /\ item.draft # None
  /\ item.draft.revision > 0
  /\ item.draft.schema = item.type
  /\ item.published # None =>
       /\ item.published.revision <= item.draft.revision
       /\ item.published.revision = item.draft.revision
            => /\ item.published.schema = item.draft.schema
               /\ \A s \in Slot : At(item.published.fields, s) = At(item.draft.fields, s)
       /\ ValidPublish(item.published.schema, item.published.fields)

KeysUnique(docs) ==
  \A i, j \in Stored(docs) : docs[i].key # None /\ docs[i].key = docs[j].key => i = j

ASSUME InputAssumption == Inputs \subseteq Input

ASSUME ContentsAssumption ==
  /\ InitialContents \subseteq [ID -> Item \cup {None}]
  /\ \A docs \in InitialContents :
       /\ Stored(docs) \subseteq OldID /\ IsFiniteSet(Stored(docs))
       /\ KeysUnique(docs)
       /\ \A i \in Stored(docs) : Honest(docs[i])

ASSUME RequestAssumption ==
  /\ OldID \cap Request = {}
  /\ None \notin ID /\ None \notin Input /\ None \notin Event
  /\ None \notin Result /\ None \notin Nat

ASSUME ModeAssumption == Overlap \in BOOLEAN /\ Faults \in BOOLEAN

VARIABLES items, call
vars == <<items, call>>
------------------------------------------------------------------------------
Idle == [ pc |-> "idle", in |-> None, id |-> None, item |-> None, type |-> None,
          retried |-> FALSE, result |-> None, event |-> None ]

Init ==
  /\ items \in InitialContents
  /\ call = [r \in Request |-> Idle]

Active(r) == call[r].pc \notin {"idle", "done"}
PcIs(r, pc) == call[r].pc = pc
Handling(r, op) == PcIs(r, "handler") /\ call[r].in.op = op

\* The call's own record changes, and no other call's.
Become(r, c) == call' = [call EXCEPT ![r] = c]

\* The call moves to pc holding this item.
Hold(r, pc, id, item) ==
  Become(r, [call[r] EXCEPT !.pc = pc, !.id = id, !.item = item])
Return(r, id, item) ==
  Become(r, [call[r] EXCEPT !.pc = "done", !.result = "ok",
                             !.id = id, !.item = item])
Fail(r, kind) ==
  Become(r, [call[r] EXCEPT !.pc = "done", !.result = kind,
                             !.id = None, !.item = None])

------------------------------------------------------------------------------
(* Entering a call, and the reads that resolve its item.                    *)

\* Checks made on the arguments alone.
BadSave(in) == in.fields = None \/ (in.expect # None /\ in.expect < 0)
NoSlot(in) == in.slot = None
EmptyMatch(in) == in.id = None /\ in.key = None

BadArguments(in) ==
  \/ in.op = "SaveDraft" /\ BadSave(in)
  \/ in.op = "SetFieldValue" /\ NoSlot(in)
  \/ in.op \notin {"SaveDraft", "SetFieldValue"} /\ EmptyMatch(in)

FirstStep(in) == IF in.id # None THEN "getByID"
                 ELSE IF in.key # None THEN "getByKey" ELSE "handler"

Start(r, in) ==
  /\ PcIs(r, "idle")
  /\ Overlap \/ \A q \in Request : ~Active(q)
  /\ IF BadArguments(in)
     THEN Become(r, [call[r] EXCEPT !.pc = "done", !.in = in,
                                   !.result = "badRequest"])
     ELSE Become(r, [call[r] EXCEPT !.pc = FirstStep(in), !.in = in])
  /\ UNCHANGED items

\* resolveExisting insists that an ID resolves; resolveOptional does not.
IDMustResolve(op) == op \in {"SaveDraft", "SetFieldValue"}

GetByID(r) ==
  LET in   == call[r].in
      next == IF in.key # None THEN "getByKey" ELSE "handler"
  IN
  /\ PcIs(r, "getByID")
  /\ \/ \E i \in FindByID(items, in.id) : Hold(r, next, i, Decode(items[i]))
     \/ /\ FindByID(items, in.id) = {}
        /\ IF IDMustResolve(in.op) THEN Fail(r, "notFound")
                                   ELSE Hold(r, next, None, None)
  /\ UNCHANGED items

GetByKey(r) ==
  LET c == call[r]
      hits == FindByKey(items, c.in.key) IN
  /\ PcIs(r, "getByKey")
  /\ \/ /\ hits = {}
        /\ Hold(r, "handler", c.id, c.item)
     \/ \E i \in hits :
          IF c.id = None
          THEN Hold(r, "handler", i, Decode(items[i]))
          ELSE IF c.id = i THEN Hold(r, "handler", c.id, c.item)
                           ELSE Fail(r, "badRequest")
  /\ UNCHANGED items

------------------------------------------------------------------------------
(* The handlers: what each operation decides on the item it resolved.       *)

\* rejectArchived
Frozen(item) == item # None /\ item.archived

TypeUnchanged(in, item) == in.type # None => in.type = item.type

\* The item a SaveDraft works on: the one resolved, taking the match's key if
\* it has none, or a new one.
SaveTarget(in, item) ==
  IF item # None
  THEN [item EXCEPT !.key = IF @ = None THEN in.key ELSE @]
  ELSE [ key |-> in.key, type |-> in.type, owner |-> in.owner,
         draft |-> None, published |-> None, archived |-> FALSE ]

\* Mutant: the snapshot is stamped with the type the caller asked for.
SavedItem_StampsRequestedType(in, item) ==
  [item EXCEPT
     !.draft = [ revision |-> IF @ = None THEN 1 ELSE @.revision + 1,
                 schema   |-> in.type,
                 fields   |-> in.fields ]]

SavedItem(in, item) ==
  [item EXCEPT
     !.draft = [ revision |-> IF @ = None THEN 1 ELSE @.revision + 1,
                 schema   |-> item.type,
                 fields   |-> in.fields ],
     !.owner = IF in.owner # None THEN in.owner ELSE @]

SaveDraft(r) ==
  LET c == call[r]
      target == SaveTarget(c.in, c.item)
      accepted == TypeUnchanged(c.in, target) /\ ValidDraft(target.type, c.in.fields)
  IN
  /\ Handling(r, "SaveDraft")
  /\ \/ Frozen(c.item) /\ Fail(r, "notAcceptable")
     \/ ~Frozen(c.item) /\ ~accepted /\ Fail(r, "badRequest")
     \/ /\ ~Frozen(c.item) /\ accepted
        /\ Hold(r, "upsert", IF c.item = None THEN r ELSE c.id, SavedItem(c.in, target))
  /\ UNCHANGED items

\* fieldWriteType: an existing item's type, or that of the item to create.
FieldWriteType(in, item) == IF item # None THEN item.type ELSE in.type
MayWriteField(in, item) ==
  IF item # None THEN TypeUnchanged(in, item)
                 ELSE in.key # None /\ Registered(in.type)

SetFieldValue(r) ==
  LET c == call[r]
      type == FieldWriteType(c.in, c.item)
      accepted == MayWriteField(c.in, c.item) /\ ValidField(type, c.in.slot, c.in.value)
  IN
  /\ Handling(r, "SetFieldValue")
  /\ \/ Frozen(c.item) /\ Fail(r, "notAcceptable")
     \/ ~Frozen(c.item) /\ ~accepted /\ Fail(r, "badRequest")
     \/ /\ ~Frozen(c.item) /\ accepted
        /\ Become(r, [call[r] EXCEPT !.pc = "setField", !.type = type,
                                       !.id = None, !.item = None])
  /\ UNCHANGED items

\* Mutant: neither rejectArchived nor validatePublish.
Publish_Unvalidated(r) ==
  LET c == call[r] IN
  /\ Handling(r, "Publish")
  /\ c.item # None
  /\ Hold(r, "upsert", c.id, [c.item EXCEPT !.published = c.item.draft])
  /\ UNCHANGED items

Publish(r) ==
  LET c == call[r]
      item == c.item
      refused == \/ Frozen(item)
                 \/ item.draft = None
                 \/ Registered(item.type) /\ ~Complete(item.type, item.draft.fields)
  IN
  /\ Handling(r, "Publish")
  /\ \/ item = None /\ Fail(r, "notFound")
     \/ item # None /\ refused /\ Fail(r, "notAcceptable")
     \/ item # None /\ ~refused /\ ~Registered(item.type) /\ Fail(r, "badRequest")
     \/ /\ item # None /\ ~refused /\ Registered(item.type)
        /\ Hold(r, "upsert", c.id, [item EXCEPT !.published = item.draft])
  /\ UNCHANGED items

Unpublish(r) ==
  LET c == call[r] IN
  /\ Handling(r, "Unpublish")
  /\ \/ c.item = None /\ Fail(r, "notFound")
     \/ Frozen(c.item) /\ Fail(r, "notAcceptable")
     \/ /\ c.item # None /\ ~Frozen(c.item)
        /\ IF c.item.published = None
           THEN Return(r, c.id, c.item)
           ELSE Hold(r, "upsert", c.id, [c.item EXCEPT !.published = None])
  /\ UNCHANGED items

Archive(r) ==
  LET c == call[r] IN
  /\ Handling(r, "Archive")
  /\ \/ c.item = None /\ Fail(r, "notFound")
     \/ /\ c.item # None
        /\ Hold(r, "upsert", c.id, [c.item EXCEPT !.archived = TRUE])
  /\ UNCHANGED items

\* Mutant: the published snapshot is not dropped.
Unarchive_KeepsPublished(r) ==
  LET c == call[r] IN
  /\ Handling(r, "Unarchive")
  /\ c.item # None
  /\ Hold(r, "upsert", c.id, [c.item EXCEPT !.archived = FALSE])
  /\ UNCHANGED items

Unarchive(r) ==
  LET c == call[r] IN
  /\ Handling(r, "Unarchive")
  /\ \/ c.item = None /\ Fail(r, "notFound")
     \/ /\ c.item # None
        /\ Hold(r, "upsert", c.id,
                [c.item EXCEPT !.archived = FALSE, !.published = None])
  /\ UNCHANGED items

\* Deleting a missing item succeeds and returns false: no item is held.
Delete(r) ==
  LET c == call[r] IN
  /\ Handling(r, "Delete")
  /\ IF c.item = None THEN Return(r, None, None)
                      ELSE Hold(r, "delete", c.id, c.item)
  /\ UNCHANGED items

GetItem(r) ==
  LET c == call[r] IN
  /\ Handling(r, "GetItem")
  /\ IF c.item = None THEN Fail(r, "notFound") ELSE Return(r, c.id, c.item)
  /\ UNCHANGED items

------------------------------------------------------------------------------
(* The writes.                                                              *)

Expected(in) == IF in.op = "SaveDraft" THEN in.expect ELSE None

Upsert(r) ==
  LET c == call[r]
      expected == Expected(c.in)
  IN
  /\ PcIs(r, "upsert")
  /\ \/ /\ UpsertLands(items, c.id, c.item, expected)
        /\ items' = [items EXCEPT ![c.id] = c.item]
        /\ Hold(r, "emit", c.id, c.item)
     \/ /\ UpsertConflicts(items, c.id, c.item, expected)
        /\ Fail(r, "conflict")
        /\ UNCHANGED items
     \/ /\ UpsertErrors(items, c.id, c.item, expected)
        /\ Fail(r, "internal")
        /\ UNCHANGED items

\* findOneAndUpdate on the document the filter finds.
UpdateField(r) ==
  LET c == call[r]
      in == c.in IN
  /\ PcIs(r, "setField")
  /\ \E i \in FieldTargets(items, in.id, in.key) :
       IF PathViable(items[i].draft, in.slot, in.value)
       THEN LET doc == FieldUpdated(items[i], c.type, in.slot, in.value) IN
            /\ items' = [items EXCEPT ![i] = doc]
            /\ Hold(r, "emit", i, Decode(doc))
       ELSE Fail(r, "internal") /\ UNCHANGED items


\* The filter finds nothing: an id-only match gives up, a key match inserts.
MissField(r) ==
  LET in == call[r].in IN
  /\ PcIs(r, "setField")
  /\ FieldTargets(items, in.id, in.key) = {}
  /\ IF in.key = None THEN Fail(r, "notFound")
                      ELSE Become(r, [call[r] EXCEPT !.pc = "insertField"])
  /\ UNCHANGED items

\* Mutants of InsertField: no retry; a retry that repeats only the insert; a retry
\* as often as the insert loses.
InsertField_NoRetry(r) ==
  LET c == call[r]
      in == c.in
      doc == FieldInserted(in.key, c.type, in.owner, in.slot, in.value) IN
  /\ PcIs(r, "insertField")
  /\ \/ /\ ~KeyTaken(items, r, in.key)
        /\ items' = [items EXCEPT ![r] = doc]
        /\ Hold(r, "emit", r, Decode(doc))
     \/ /\ KeyTaken(items, r, in.key)
        /\ Fail(r, "internal")
        /\ UNCHANGED items

InsertField_RetriesInsertOnly(r) ==
  LET c == call[r]
      in == c.in
      doc == FieldInserted(in.key, c.type, in.owner, in.slot, in.value) IN
  /\ PcIs(r, "insertField")
  /\ \/ /\ ~KeyTaken(items, r, in.key)
        /\ items' = [items EXCEPT ![r] = doc]
        /\ Hold(r, "emit", r, Decode(doc))
     \/ /\ KeyTaken(items, r, in.key)
        /\ Become(r, [call[r] EXCEPT !.retried = TRUE])
        /\ UNCHANGED items

InsertField_RetriesForever(r) ==
  LET c == call[r]
      in == c.in
      doc == FieldInserted(in.key, c.type, in.owner, in.slot, in.value) IN
  /\ PcIs(r, "insertField")
  /\ \/ /\ ~KeyTaken(items, r, in.key)
        /\ items' = [items EXCEPT ![r] = doc]
        /\ Hold(r, "emit", r, Decode(doc))
     \/ /\ KeyTaken(items, r, in.key)
        /\ Become(r, [call[r] EXCEPT !.pc = "setField"])
        /\ UNCHANGED items

\* The insert half of an upserting findOneAndUpdate.  It loses to a concurrent
\* create of the same key, and is then retried once from the top.
InsertField(r) ==
  LET c == call[r]
      in == c.in
      doc == FieldInserted(in.key, c.type, in.owner, in.slot, in.value) IN
  /\ PcIs(r, "insertField")
  /\ \/ /\ ~KeyTaken(items, r, in.key)
        /\ items' = [items EXCEPT ![r] = doc]
        /\ Hold(r, "emit", r, Decode(doc))
     \/ /\ KeyTaken(items, r, in.key)
        /\ IF c.retried
           THEN Fail(r, "internal")
           ELSE Become(r, [call[r] EXCEPT !.pc = "setField", !.retried = TRUE])
        /\ UNCHANGED items

\* Mutant: a delete is not notified.
DeleteOne_Silent(r) ==
  LET c == call[r] IN
  /\ PcIs(r, "delete")
  /\ items' = [items EXCEPT ![c.id] = None]
  /\ Return(r, c.id, c.item)

\* Removing an id that is no longer there is not an error.
DeleteOne(r) ==
  LET c == call[r] IN
  /\ PcIs(r, "delete")
  /\ items' = [items EXCEPT ![c.id] = None]
  /\ Hold(r, "emit", c.id, c.item)

EventOp(op) ==
  CASE op \in {"SaveDraft", "SetFieldValue"} -> "saveDraft"
    [] op = "Publish"   -> "publish"
    [] op = "Unpublish" -> "unpublish"
    [] op = "Archive"   -> "archive"
    [] op = "Unarchive" -> "unarchive"
    [] op = "Delete"    -> "delete"

\* Mutant: changes of types that are not registered are suppressed too.
Suppressed_Unregistered(type) == ~Registered(type) \/ Schema[type].suppressed

Suppressed(type) == Registered(type) /\ Schema[type].suppressed

\* emit, then the successful return.
Emit(r) ==
  LET c == call[r] IN
  /\ PcIs(r, "emit")
  /\ Become(r, [call[r] EXCEPT
       !.pc = "done", !.result = "ok",
       !.event = IF Suppressed(c.item.type) THEN None
                    ELSE [ op |-> EventOp(c.in.op), type |-> c.item.type,
                           owner |-> c.item.owner ]])
  /\ UNCHANGED items

------------------------------------------------------------------------------
(* Failures: a store call that errors without effect, and a write whose     *)
(* acknowledgement is lost (a timeout, or the process dying before emit).   *)

StorePC == {"getByID", "getByKey", "upsert", "setField", "insertField", "delete"}

StoreFails(r) ==
  /\ Faults
  /\ call[r].pc \in StorePC
  /\ Fail(r, "internal")
  /\ UNCHANGED items

AckLost(r) ==
  /\ Faults
  /\ PcIs(r, "emit")
  /\ Fail(r, "internal")
  /\ UNCHANGED items

------------------------------------------------------------------------------
Handler(r) ==
  \/ SaveDraft(r) \/ SetFieldValue(r) \/ Publish(r) \/ Unpublish(r)
  \/ Archive(r) \/ Unarchive(r) \/ Delete(r) \/ GetItem(r)

Write(r) == Upsert(r) \/ UpdateField(r) \/ MissField(r) \/ InsertField(r) \/ DeleteOne(r)

Progress(r) == GetByID(r) \/ GetByKey(r) \/ Handler(r) \/ Write(r) \/ Emit(r)

Finished ==
  /\ \A r \in Request : PcIs(r, "done")
  /\ UNCHANGED vars

CallStep(r) ==
  \/ \E in \in Inputs : Start(r, in)
  \/ Progress(r)
  \/ StoreFails(r)
  \/ AckLost(r)

Next == (\E r \in Request : CallStep(r)) \/ Finished

Spec == Init /\ [][Next]_vars

\* A goroutine that is not blocked keeps running until its call returns.
FairSpec == Spec /\ \A r \in Request : WF_vars(Progress(r))
=============================================================================
