---------------------------- MODULE ContentModel ----------------------------
(***************************************************************************)
(* The data of the content store: items, snapshots, schemas, and the       *)
(* validation rules the engine applies to them (vo.go, schema.go,          *)
(* validate.go).                                                           *)
(*                                                                         *)
(* A field value lives at draft.fields.<fieldID>.<locale>; the pair        *)
(* (fieldID, locale) is one Slot.  A snapshot's field set is a function    *)
(* from Slot to a value, None where there is no entry, Null where the      *)
(* entry is an explicit null, and NullMap at the slots of a field whose    *)
(* whole locale map is null.  Go reads a nil from all three, but they are  *)
(* validated and written below differently.  An empty locale map is as no  *)
(* map for a field the schema has, and as a null one for any other.  The   *)
(* field set itself can be null (None: a Go nil map written to BSON) or,   *)
(* in a stored draft, not be there at all (Missing).                       *)
(*                                                                         *)
(* Timestamps are left out.  SchemaVersion and SchemaHash are one stamp:   *)
(* the content type whose registered schema the snapshot was written       *)
(* under.                                                                  *)
(***************************************************************************)
EXTENDS Integers

CONSTANTS
  ContentType,   \* content type names
  Schema,        \* the registry: registered type -> its schema
  Slot,          \* (fieldID, locale) pairs
  Value,         \* field values
  Blank,         \* the empty string, a value that does not count as one
  Key,           \* human-assigned item keys
  Owner,         \* owner references
  None,          \* nil / ""
  Null,          \* a null value at a slot
  NullMap,       \* at each slot of a field: the field has a null locale map
  Missing        \* a path that does not exist in a stored document

SchemaType ==
  [ known      : SUBSET Slot,             \* known field
    slots      : SUBSET Slot,             \* known field and supported locale
    accepts    : [Slot -> SUBSET Value],  \* right type, within its size limit
    required   : SUBSET Slot,             \* default-locale slot of required fields
    suppressed : BOOLEAN ]                \* SuppressChangeEvents

FieldMap == [Slot -> Value \cup {None, Null, NullMap}]
ShownFields == [Slot -> Value \cup {None}]
Snapshot == [ revision : Nat,
              schema   : ContentType,
              fields   : FieldMap \cup {None, Missing} ]
Item == [ key       : Key \cup {None},
          type      : ContentType,
          owner     : Owner \cup {None},
          draft     : Snapshot \cup {None},
          published : Snapshot \cup {None},
          archived  : BOOLEAN ]

ASSUME RegistryAssumption ==
  /\ DOMAIN Schema \subseteq ContentType
  /\ \A t \in DOMAIN Schema :
       Schema[t] \in SchemaType /\ Schema[t].slots \subseteq Schema[t].known

ASSUME NilAssumption ==
  /\ Blank \in Value
  /\ None # Missing /\ Null # NullMap /\ None \notin {Null, NullMap}
  /\ {Null, NullMap} \cap Value = {}
  /\ None \notin Value \cup Key \cup Owner \cup ContentType \cup Slot
  /\ {None, Missing} \cap FieldMap = {}
  /\ None \notin Snapshot
  /\ None \notin Item

------------------------------------------------------------------------------
NoFields == [s \in Slot |-> None]

\* What a field set has at a slot.
Raw(fields, s) == IF fields \in {None, Missing} THEN None ELSE fields[s]

\* Fields[fieldID][locale] in Go: nil when either map is nil or lacks the entry.
At(fields, s) == IF Raw(fields, s) \in {Null, NullMap} THEN None ELSE Raw(fields, s)

HasValue(v) == v \notin {None, Blank}

\* State(): archived takes precedence; equal revisions mean published.
State(item) ==
  IF item.archived THEN "archived"
  ELSE IF item.published = None THEN "draft"
  ELSE IF item.draft # None /\ item.draft.revision = item.published.revision
       THEN "published"
       ELSE "changed"

Registered(t) == t \in DOMAIN Schema

ValidField(t, s, v) ==
  /\ Registered(t)
  /\ s \in Schema[t].slots
  /\ v # None => v \in Schema[t].accepts[s]

\* Every entry is checked, a null one for its field and locale, and every field,
\* one with a null map for being known.
ValidDraft(t, fields) ==
  /\ Registered(t)
  /\ \A s \in Slot :
       /\ Raw(fields, s) = NullMap => s \in Schema[t].known
       /\ Raw(fields, s) \notin {None, NullMap} => ValidField(t, s, At(fields, s))

Complete(t, fields) == \A s \in Schema[t].required : HasValue(At(fields, s))

ValidPublish(t, fields) == Registered(t) /\ Complete(t, fields)
=============================================================================
