-------------------------- MODULE EngineProperties --------------------------
(***************************************************************************)
(* The correctness properties of Engine, and its refinement of Lifecycle.  *)
(***************************************************************************)
EXTENDS Engine

\* What a call has in hand when it is about to use it.
Equipped(c) ==
  /\ c.pc # "idle" => c.in # None
  /\ c.id = None <=> c.item = None
  /\ c.pc \in {"upsert", "delete", "emit"} => c.item # None /\ c.in.op # "GetItem"
  /\ c.pc \in {"setField", "insertField"} =>
       Registered(c.type) /\ c.in.op = "SetFieldValue"

\* Types, and no call ever reaches a store call or a notification without the
\* item, type or arguments it passes on (a nil dereference in engine.go).
TypeOK ==
  /\ items \in [ID -> Item \cup {None}]
  /\ call \in [Request -> CallRecord]
  /\ \A r \in Request : Equipped(call[r])

------------------------------------------------------------------------------
(* Properties of every schedule, with and without failures.                 *)

\* A stored version never lies about itself, whatever stale copy it was
\* written from: it has a draft of its item's type; its published revision is
\* not ahead of the draft; equal revisions mean that what is live is what is
\* in the draft (State() rests on this); and what is live was complete.
\* Whole-document Upserts, engine.go:59-287, State(), vo.go:96-109.
StoredHonest == \A i \in Stored(items) : Honest(items[i])

\* The copies calls hold, and hand back to their callers, are no less honest:
\* each is a version some Upsert may store (resolveForSave, Publish, Unarchive,
\* engine.go:182-287, 421-456).
InFlightHonest == \A r \in Request : call[r].item # None => Honest(call[r].item)

\* Two items never share a key, however creates and key adoptions race
\* (SaveDraft, SetFieldValue; ensureIndexes, persistor.go:46-78).
KeysStayUnique == KeysUnique(items)

------------------------------------------------------------------------------
(* Properties of draft editing: calls that only save, set fields and delete, *)
(* where every SaveDraft states the revision it expects.                     *)

Wrote(r, op) == call[r].pc \in {"emit", "done"} /\ call[r].id # None /\ call[r].in.op = op
DraftWrites(i) ==
  {r \in Request : /\ Wrote(r, "SaveDraft") \/ Wrote(r, "SetFieldValue")
                   /\ call[r].id = i}

RevisionOf(r) == call[r].item.draft.revision
Covers(r, s) == call[r].in.op = "SaveDraft" \/ call[r].in.slot = s
Written(r, s) == IF call[r].in.op = "SaveDraft" THEN At(call[r].in.fields, s)
                                                ELSE call[r].in.value

\* Every slot holds what the latest of these writes that covered it wrote.
ReplayOf(fields, writes) ==
  \A s \in Slot :
    LET covering == {r \in writes : Covers(r, s)} IN
    covering # {} =>
      \E r \in covering : /\ \A q \in covering : RevisionOf(q) <= RevisionOf(r)
                          /\ At(fields, s) = Written(r, s)

Deleted(i) == \E r \in Request : Wrote(r, "Delete") /\ call[r].id = i

\* No acknowledged draft write is lost: until an item is deleted, the writes to
\* it carry consecutive revisions ending at the stored one, and both the stored
\* draft and the draft each caller got back are what replaying the writes up to
\* that revision gives (the conditional Upsert and the atomic SetField merge,
\* persistor.go:208-268).
DraftWritesSerialize ==
  \A i \in Stored(items) :
    LET writes == DraftWrites(i)
        now == items[i].draft.revision
    IN
    ~Deleted(i) /\ writes # {} =>
      /\ {RevisionOf(r) : r \in writes} = (now - Cardinality(writes) + 1) .. now
      /\ i \in Request => now = Cardinality(writes)
      /\ ReplayOf(items[i].draft.fields, writes)
      /\ \A r \in writes :
           ReplayOf(call[r].item.draft.fields,
                    {q \in writes : RevisionOf(q) <= RevisionOf(r)})

\* Of the SaveDrafts that expect one revision of one item, at most one is
\* accepted while the item is not deleted (engine_test.go:622 AllowsOneConcurrentWinner, vo.go:119).
OneWinner ==
  \A q, r \in Request :
    /\ Wrote(q, "SaveDraft") /\ Wrote(r, "SaveDraft")
    /\ call[q].id = call[r].id /\ ~Deleted(call[q].id)
    /\ call[q].in.expect = call[r].in.expect /\ call[q].in.expect # None
    => q = r

\* An acknowledged Delete is final for every call that read the item before
\* it, except a create-only save: a conditional replace does not upsert, and a
\* field write by key creates under a new id (engine.go:289-306,
\* persistor.go:208-277).
RevivedOnlyByCreate ==
  \A r \in Request :
    Wrote(r, "Delete") /\ call[r].id \in Stored(items) =>
      \E q \in Request : /\ Wrote(q, "SaveDraft") /\ call[q].in.expect = 0
                        /\ call[q].id = call[r].id

\* An item that has a key keeps it, until it is deleted.  An item without one takes
\* the key of the first save that matches it by id and key; a save that read the
\* item before that adopts another key on its own copy and is refused, so the first
\* key is not written over (engine.go:434-436, persistor.go:224-231).
KeysNeverChange ==
  [][\A i \in Stored(items) :
       items[i].key # None /\ ~Deleted(i) /\ items'[i] # None
         => items'[i].key = items[i].key]_vars

\* In a burst of SetFieldValue calls of one type at one key, each that returns
\* has landed, and all on the same item: the first creates it exactly once and
\* the ones that lose that race are retried onto it (persistor.go:244-268,
\* store.go:30-33).
BurstLands ==
  LET started == {r \in Request : call[r].pc # "idle"} IN
  (\E k \in Key, t \in DOMAIN Schema : \A r \in started :
      /\ call[r].in.op = "SetFieldValue" /\ call[r].in.key = k /\ call[r].in.id = None
      /\ call[r].in.type = t
      /\ ValidField(t, call[r].in.slot, call[r].in.value))
  => \A q, r \in started :
       /\ call[r].pc = "done" => call[r].result = "ok"
       /\ call[q].pc = "done" /\ call[r].pc = "done" => call[q].id = call[r].id

\* How far a call is from its return, in steps of its own at most.
Stage == [ idle |-> 9, getByID |-> 8, getByKey |-> 7, handler |-> 6, setField |-> 5,
           insertField |-> 4, upsert |-> 2, delete |-> 2, emit |-> 1, done |-> 0 ]
StepsLeft(c) ==
  Stage[c.pc] - (IF c.retried /\ c.pc \in {"setField", "insertField"} THEN 2 ELSE 0)

\* Whatever a call does brings it nearer to its return: no schedule of other calls
\* and no failure makes one try a lost create again and again, and a call that has
\* returned is over (the single retry, persistor.go:255-260).
CallsRunDown ==
  [][\A r \in Request : call'[r] # call[r] => StepsLeft(call'[r]) < StepsLeft(call[r])]_vars

\* Every call returns: the retry of a lost create and the refusals of a
\* conditional save end in a result, whatever the other calls do.
CallsReturn == \A r \in Request : Active(r) ~> PcIs(r, "done")

------------------------------------------------------------------------------
(* What comments and tests say, and concurrent calls break.                 *)

\* engine.go:244 "Archiving freezes an item: it may only be unarchived,
\* deleted, or read": while archived, the draft and type stay as they are, and
\* leaving the archive leaves nothing published.
ArchivedIsFrozen ==
  [][\A i \in Stored(items) :
       items[i].archived /\ items'[i] # None =>
         /\ items'[i].draft = items[i].draft
         /\ items'[i].archived \/ items'[i].published = None]_vars

\* engine.go:121 "an item's type never changes".
TypeNeverChanges ==
  [][\A i \in Stored(items) : items'[i] # None => items'[i].type = items[i].type]_vars

\* engine.go:59 "SaveDraft creates or updates an item's draft snapshot. It does
\* not publish": its write never makes an unpublished item published.
SaveDraftDoesNotPublish ==
  [][\A r \in Request :
       LET i == call[r].id IN
       /\ PcIs(r, "upsert") /\ call[r].in.op = "SaveDraft" /\ call'[r].pc = "emit"
       /\ items[i] = None \/ items[i].published = None
       => items'[i].published = None]_vars

\* vo.go:118 "zero creates only when no item exists": what a create-only save
\* creates is a new item, at its first revision and not published.
CreateOnlyCreates ==
  \A r \in Request :
    Wrote(r, "SaveDraft") /\ call[r].in.expect = 0 =>
      /\ call[r].id = r
      /\ call[r].item.draft.revision = 1
      /\ call[r].item.published = None


\* engine.go:111 "SetFieldValue merges a single field/locale value into the
\* item's draft": a valid value never fails for a technical reason.
FieldWriteNeverBreaks ==
  \A r \in Request :
    call[r].pc = "done" /\ call[r].in.op = "SetFieldValue" => call[r].result # "internal"

------------------------------------------------------------------------------
(* Rules of use.  Under them what the comments say holds of racing calls too. *)

\* A match names an item by its id or by its key, not by both (ContentItemMatch,
\* vo.go:111-115).
MatchByOne == \A in \in Inputs : in.id = None \/ in.key = None

\* All that callers create at one key is of one type.
TypesByKey(T) ==
  /\ \A in \in Inputs : in.key # None /\ in.type # None => in.type = T[in.key]
  /\ \A docs \in InitialContents : \A i \in Stored(docs) :
       docs[i].key # None => docs[i].type = T[docs[i].key]
OneTypePerKey == \E T \in [Key -> ContentType] : TypesByKey(T)

\* Items are archived, never deleted.
NoDeletes == \A in \in Inputs : in.op # "Delete"

\* Field writes set values, and no draft, saved or there at the start, has a null
\* in the place of a map they have to set them in.
Writable(fields) == fields \in FieldMap /\ \A s \in Slot : fields[s] # NullMap
NoNullMaps ==
  /\ \A in \in Inputs :
       /\ in.op = "SetFieldValue" => in.value # None
       /\ in.op = "SaveDraft" /\ in.fields # None => Writable(in.fields)
  /\ \A docs \in InitialContents : \A i \in Stored(docs) : Writable(docs[i].draft.fields)

------------------------------------------------------------------------------
(* Refinement: one call at a time, the engine is the lifecycle machine.     *)

FieldsOf(s) == [t \in Slot |-> At(s.fields, t)]

EntryOf(item) ==
  [ key      |-> item.key,
    type     |-> item.type,
    owner    |-> item.owner,
    revision |-> item.draft.revision,
    fields   |-> FieldsOf(item.draft),
    status   |-> State([item EXCEPT !.archived = FALSE]),
    live     |-> IF item.published = None THEN None ELSE FieldsOf(item.published),
    archived |-> item.archived ]

CatalogOf(docs) == [i \in ID |-> IF docs[i] = None THEN None ELSE EntryOf(docs[i])]

Promise == INSTANCE Lifecycle WITH
             ItemID         <- ID,
             InitialCatalog <- {CatalogOf(docs) : docs \in InitialContents},
             catalog        <- CatalogOf(items)

ASSUME EntryAssumption == None \notin Promise!Entry

\* Every step of the engine is a step of the lifecycle machine or changes
\* nothing it shows, failures and lost acknowledgements included.
ImplementsLifecycle == Promise!Spec
=============================================================================
