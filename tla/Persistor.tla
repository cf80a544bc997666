------------------------------ MODULE Persistor ------------------------------
(***************************************************************************)
(* What each call of the MongoDB-backed Store does to the content_items    *)
(* collection (persistor.go).  A collection is a function from ids to      *)
(* documents, None where no document has the id; the unique partial index  *)
(* on "key" (ensureIndexes) is KeyTaken.  Single-document writes are       *)
(* atomic, as MongoDB's are; the engine's calls interleave between them.   *)
(***************************************************************************)
EXTENDS ContentModel

Stored(docs) == {i \in DOMAIN docs : docs[i] # None}

\* Mutant: the index on key is not unique.
KeyTaken_NotUnique(docs, id, key) == FALSE

\* Another document already holds this key in the unique index.
KeyTaken(docs, id, key) ==
  key # None /\ \E j \in Stored(docs) \ {id} : docs[j].key = key

FindByID(docs, id) == {i \in Stored(docs) : i = id}
FindByKey(docs, key) == {i \in Stored(docs) : docs[i].key = key}

\* Decoding BSON into a ContentItem: a missing fields document is a nil map.
DecodeSnapshot(s) ==
  IF s = None \/ s.fields # Missing THEN s ELSE [s EXCEPT !.fields = None]
Decode(doc) == [doc EXCEPT !.draft = DecodeSnapshot(@),
                           !.published = DecodeSnapshot(@)]

------------------------------------------------------------------------------
(* Upsert: expected 0 is an InsertOne, None a ReplaceOne with upsert, a     *)
(* positive number a ReplaceOne filtered on draft.revision.                 *)

\* Mutants: the filter is on _id alone; it accepts later revisions; a
\* conditional replace upserts.
RevisionMatches_AnyRevision(docs, id, expected) == docs[id] # None
RevisionMatches_AtLeast(docs, id, expected) ==
  docs[id] # None /\ docs[id].draft.revision >= expected
RevisionMatches_Upserts(docs, id, expected) ==
  docs[id] = None \/ docs[id].draft.revision = expected

RevisionMatches(docs, id, expected) ==
  /\ docs[id] # None
  /\ docs[id].draft # None
  /\ docs[id].draft.revision = expected

\* Mutant: a create-only write replaces what it finds.
UpsertConflicts_CreateReplaces(docs, id, item, expected) ==
  \/ expected = 0 /\ KeyTaken(docs, id, item.key)
  \/ expected \notin {0, None} /\ ~RevisionMatches(docs, id, expected)

UpsertConflicts(docs, id, item, expected) ==
  \/ /\ expected = 0
     /\ docs[id] # None \/ KeyTaken(docs, id, item.key)
  \/ /\ expected \notin {0, None}
     /\ ~RevisionMatches(docs, id, expected)

\* A duplicate key in ReplaceOne is an ordinary driver error, not ErrConflict.
UpsertErrors(docs, id, item, expected) ==
  /\ ~UpsertConflicts(docs, id, item, expected)
  /\ KeyTaken(docs, id, item.key)

UpsertLands(docs, id, item, expected) ==
  /\ ~UpsertConflicts(docs, id, item, expected)
  /\ ~KeyTaken(docs, id, item.key)

------------------------------------------------------------------------------
(* SetField: a findOneAndUpdate on the key when the match has one (then it  *)
(* upserts), on the id otherwise.                                           *)

FieldTargets(docs, id, key) ==
  IF key # None THEN FindByKey(docs, key) ELSE FindByID(docs, id)

\* $set below a null draft.fields, or a null locale map in it, fails; $unset below
\* one does nothing.
PathViable(draft, s, value) ==
  value = None \/ (draft.fields # None /\ Raw(draft.fields, s) # NullMap)

MergeField(fields, s, value) ==
  IF value = None
  THEN IF fields \in {None, Missing} THEN fields
       ELSE [fields EXCEPT ![s] = IF @ = NullMap THEN NullMap ELSE None]
  ELSE [t \in Slot |-> IF t = s THEN value ELSE Raw(fields, t)]

\* Mutant: draft.revision is not incremented.
FieldUpdated_NoIncrement(doc, type, s, value) ==
  [doc EXCEPT !.type  = type,
              !.draft = [ revision |-> doc.draft.revision,
                          schema   |-> type,
                          fields   |-> MergeField(doc.draft.fields, s, value) ]]

FieldUpdated(doc, type, s, value) ==
  [doc EXCEPT !.type  = type,
              !.draft = [ revision |-> doc.draft.revision + 1,
                          schema   |-> type,
                          fields   |-> MergeField(doc.draft.fields, s, value) ]]

FieldInserted(key, type, owner, s, value) ==
  [ key       |-> key,
    type      |-> type,
    owner     |-> owner,
    draft     |-> [ revision |-> 1,
                    schema   |-> type,
                    fields   |-> MergeField(Missing, s, value) ],
    published |-> None,
    archived  |-> FALSE ]
=============================================================================
