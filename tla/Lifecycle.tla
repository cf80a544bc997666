------------------------------ MODULE Lifecycle ------------------------------
(***************************************************************************)
(* What the content store promises about an item, free of how the engine   *)
(* stores it: an item has a working draft with a revision number, possibly *)
(* a live version, and a publishing status that is a state of its own here *)
(* (vo.go derives it from revision numbers).  Every operation is one       *)
(* atomic step.  Engine implements this when its calls do not overlap.     *)
(***************************************************************************)
EXTENDS ContentModel

CONSTANTS ItemID, InitialCatalog

Entry == [ key      : Key \cup {None},
           type     : ContentType,
           owner    : Owner \cup {None},
           revision : Nat,
           fields   : ShownFields,
           status   : {"draft", "changed", "published"},
           live     : ShownFields \cup {None},
           archived : BOOLEAN ]

VARIABLE catalog

Init == catalog \in InitialCatalog

KeyFree(i, k) == k = None \/ \A j \in ItemID \ {i} : catalog[j] # None => catalog[j].key # k

Becomes(i, entry) == catalog' = [catalog EXCEPT ![i] = entry]

Live(i) == catalog[i] # None
Editable(i) == Live(i) /\ ~catalog[i].archived

\* A new item has one draft revision and is not published.
Create(i) ==
  /\ catalog[i] = None
  /\ \E k \in Key \cup {None}, t \in ContentType, o \in Owner \cup {None}, f \in ShownFields :
       /\ KeyFree(i, k)
       /\ ValidDraft(t, f)
       /\ Becomes(i, [ key |-> k, type |-> t, owner |-> o, revision |-> 1, fields |-> f,
                       status |-> "draft", live |-> None, archived |-> FALSE ])

Redrafted(entry, f) ==
  [ entry EXCEPT !.fields = f, !.revision = @ + 1,
                 !.status = IF @ = "draft" THEN "draft" ELSE "changed" ]

\* Saving gives the draft its next revision.  It may name the item or move it
\* to another owner; it never publishes, and a live version stays as it is.
Revise(i) ==
  /\ Editable(i)
  /\ \E k \in Key \cup {None}, o \in Owner \cup {None}, f \in ShownFields :
       /\ k = catalog[i].key \/ (catalog[i].key = None /\ KeyFree(i, k))
       /\ ValidDraft(catalog[i].type, f)
       /\ Becomes(i, [Redrafted(catalog[i], f) EXCEPT !.key = k, !.owner = o])

\* Setting one field does too, and leaves the rest of the draft alone, valid or
\* not: it may have been saved under an older schema.
SetField(i) ==
  /\ Editable(i)
  /\ \E s \in Slot, v \in Value \cup {None} :
       /\ ValidField(catalog[i].type, s, v)
       /\ Becomes(i, Redrafted(catalog[i], [catalog[i].fields EXCEPT ![s] = v]))

\* The live version becomes the working draft, if that is complete.
Publish(i) ==
  /\ Editable(i)
  /\ ValidPublish(catalog[i].type, catalog[i].fields)
  /\ Becomes(i, [catalog[i] EXCEPT !.status = "published", !.live = catalog[i].fields])

Withdrawn(entry) == [entry EXCEPT !.status = "draft", !.live = None]

Unpublish(i) ==
  /\ Editable(i)
  /\ catalog[i].live # None
  /\ Becomes(i, Withdrawn(catalog[i]))

\* An archived item keeps its live version on record.
Archive(i) == Live(i) /\ Becomes(i, [catalog[i] EXCEPT !.archived = TRUE])

\* Bringing an item back never puts it live.
Unarchive(i) ==
  /\ Live(i)
  /\ Becomes(i, [Withdrawn(catalog[i]) EXCEPT !.archived = FALSE])

Remove(i) == Live(i) /\ Becomes(i, None)

Next == \E i \in ItemID :
  \/ Create(i) \/ Revise(i) \/ SetField(i) \/ Publish(i) \/ Unpublish(i)
  \/ Archive(i) \/ Unarchive(i) \/ Remove(i)

Spec == Init /\ [][Next]_catalog
=============================================================================
