------------------------------ MODULE MCEngine ------------------------------
(* Small instances of Engine for TLC. *)
EXTENDS EngineProperties, TLC

CONSTANTS article, widget, retired,  \* content types; retired is not registered
          title, body,               \* slots
          blank, text,               \* values
          k1, k2,                    \* keys
          team,                      \* owner
          i1, i2                     \* ids of items that exist at the start

\* An article needs a title; a widget has a body too, needs nothing, and its
\* changes are not notified.  A body takes no blank (a string is no JSON object).
MCSchema ==
  article :> [ known |-> {title}, slots |-> {title}, required |-> {title},
               suppressed |-> FALSE,
               accepts |-> title :> {blank, text} @@ body :> {} ]
  @@
  widget :> [ known |-> {title, body}, slots |-> {title, body}, required |-> {},
              suppressed |-> TRUE,
              accepts |-> title :> {blank, text} @@ body :> {text} ]

RequestSymmetry == Permutations(Request)

------------------------------------------------------------------------------
(* Contents. *)

Fields(t, b) == title :> t @@ body :> b
Draft(rev, type, fields) == [revision |-> rev, schema |-> type, fields |-> fields]
Doc(key, type, draft, published, archived) ==
  [ key |-> key, type |-> type, owner |-> None, draft |-> draft,
    published |-> published, archived |-> archived ]
Contents(docs) == [i \in ID |-> IF i \in DOMAIN docs THEN docs[i] ELSE None]

Titled(rev) == Draft(rev, article, Fields(text, None))
Fresh     == Doc(k1, article, Titled(1), None, FALSE)
Published == Doc(k1, article, Titled(1), Titled(1), FALSE)
Changed   == Doc(k1, article, Titled(2), Titled(1), FALSE)
Archived  == Doc(k1, article, Titled(1), Titled(1), TRUE)
Outgrown  == Doc(k1, article, Draft(2, article, Fields(text, text)), Titled(1), FALSE)
Keyless(type) == Doc(None, type, Draft(1, type, NoFields), None, FALSE)

OnlyEmpty     == {Contents(<<>>)}
OnlyFresh     == {Contents(i1 :> Fresh)}
OnlyPublished == {Contents(i1 :> Published)}
EmptyOrFresh  == OnlyEmpty \cup OnlyFresh
AnyState      == EmptyOrFresh \cup {Contents(i1 :> d) : d \in {Changed, Archived}}
TwoItems      == {Contents(i1 :> d @@ i2 :> Keyless(widget)) :
                     d \in {Fresh, Published, Changed, Archived, Outgrown}}
                 \cup {Contents(i1 :> Fresh @@ i2 :> Keyless(retired))}

------------------------------------------------------------------------------
(* Inputs. *)

Args(op) == [ op |-> op, id |-> None, key |-> None, type |-> None, owner |-> None,
              fields |-> None, expect |-> None, slot |-> None, value |-> None ]
ByKey(op, k) == [Args(op) EXCEPT !.key = k]
ByID(op, i) == [Args(op) EXCEPT !.id = i]
Save(match, type, fields, expect) ==
  [match EXCEPT !.type = type, !.fields = fields, !.expect = expect]
Set(match, type, slot, value) ==
  [match EXCEPT !.type = type, !.slot = slot, !.value = value]

Saved == ByKey("SaveDraft", k1)
FieldSet == ByKey("SetFieldValue", k1)

\* Every operation on one item, racing.
RacingInputs ==
  {ByKey(op, k1) : op \in {"Publish", "Unpublish", "Archive", "Unarchive", "Delete"}}
  \cup {Save(Saved, article, Fields(text, None), 0), Save(Saved, None, Fields(text, None), 1),
        Save(Saved, article, Fields(blank, None), None)}
  \cup {Set(FieldSet, article, title, v) : v \in {blank, None}}
  \cup {Set(FieldSet, widget, body, text)}
  \cup {Save(ByID("SaveDraft", i1), None, Fields(text, None), None),
        Set(ByID("SetFieldValue", i1), None, title, text)}

IDAndKey(op, i, k) == [Args(op) EXCEPT !.id = i, !.key = k]

\* Draft editing: conditional saves, field writes, deletes.  An item without a key
\* can take one of two.
EditingInputs ==
  {Save(Saved, widget, Fields(text, None), 0)}
  \cup {Save(IDAndKey("SaveDraft", i1, k), None, Fields(blank, text), 1) : k \in {k1, k2}}
  \cup {Set(FieldSet, widget, title, None), Set(FieldSet, widget, body, text),
        ByKey("Delete", k1)}
FreshWidget == Doc(k1, widget, Draft(1, widget, Fields(text, text)), None, FALSE)
EmptyOrWidget ==
  OnlyEmpty \cup {Contents(i1 :> d) : d \in {FreshWidget, Keyless(widget)}}

\* One call at a time: every way to match, every argument check.
SequentialInputs ==
  {ByKey(op, k1) : op \in {"Publish", "Unpublish", "Archive", "Unarchive", "Delete", "GetItem"}}
  \cup {ByID(op, i2) : op \in {"Publish", "Delete"}}
  \cup {Args("GetItem"), IDAndKey("Archive", i2, k1), IDAndKey("Delete", i2, k1)}
  \cup {Save(Saved, article, Fields(v, None), e) : v \in {blank, Null}, e \in {None, 0}}
  \cup {Save(Saved, None, Fields(text, None), e) : e \in {-1, 1, 2}}
  \cup {Save(Saved, article, None, None), Save(Saved, article, Fields(NullMap, None), None),
        Save(Saved, article, Fields(text, Null), None),
        Save(Saved, article, Fields(text, NullMap), None),
        Save(Saved, widget, Fields(text, text), None),
        Save(Args("SaveDraft"), widget, Fields(None, text), None),
        Save(Args("SaveDraft"), retired, NoFields, None),
        [Save(IDAndKey("SaveDraft", i2, k2), None, Fields(text, None), None)
           EXCEPT !.owner = team]}
  \cup {Set(FieldSet, None, s, v) : s \in {None, title, body}, v \in {None, text}}
  \cup {Set(m, widget, body, text) :
         m \in {FieldSet, ByKey("SetFieldValue", k2), ByID("SetFieldValue", i2),
               Args("SetFieldValue")}}
  \cup {Set(IDAndKey("SetFieldValue", i1, k2), None, title, blank)}

\* The narrow inputs of the runs that look for one disagreement each.
FieldWriteAndArchive == {Set(FieldSet, None, title, blank), ByKey("Archive", k1)}
TwoTypesAtOneKey == {Set(FieldSet, t, title, text) : t \in {article, widget}}
SaveAndUnpublish == {Save(Saved, None, Fields(blank, None), 1), ByKey("Unpublish", k1)}
CreateAndDelete ==
  {Save(Saved, article, Fields(text, None), 0), ByKey("Delete", k1)}
ClearThenSet ==
  {Set(FieldSet, widget, title, v) : v \in {None, text}}
  \cup {ByKey("Archive", k1), ByKey("Unarchive", k1)}

\* Three of these keep to every rule of use but one, and so show what that one is for.
ASSUME RulesAssumption ==
  /\ Inputs = RacingInputs     => MatchByOne
  /\ Inputs = TwoTypesAtOneKey => MatchByOne /\ ~OneTypePerKey /\ NoDeletes /\ NoNullMaps
  /\ Inputs = CreateAndDelete  => MatchByOne /\ OneTypePerKey /\ ~NoDeletes /\ NoNullMaps
  /\ Inputs = ClearThenSet     => MatchByOne /\ OneTypePerKey /\ NoDeletes /\ ~NoNullMaps
=============================================================================
