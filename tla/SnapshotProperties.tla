------------------------- MODULE SnapshotProperties -------------------------
(***************************************************************************)
(* The correctness properties of bulk reads and of consumers' copies.      *)
(***************************************************************************)
EXTENDS Snapshots, EngineProperties

\* Types; a consumer that is not reading holds nothing of a read, a cursor that is
\* drained has nothing ahead of it, and one that runs knows at least one version of
\* everything and has shown nothing of what it has not reached.
SnapshotsTypeOK ==
  /\ TypeOK
  /\ consumer \in [Consumer -> ConsumerRecord]
  /\ \A c \in Consumer :
       LET k == consumer[c] IN
       /\ k.pc # "find" => k.left = {} /\ k.moved = {}
       /\ k.pc \notin {"find", "found"} => k.rows = NoRows /\ k.wandered = {}
       /\ k.pc \in {"find", "found"} => \A i \in ID : k.versions[i] # {}
       /\ k.moved \subseteq k.wandered
       /\ \A i \in k.left : k.rows[i] = <<>>

------------------------------------------------------------------------------
(* What a view promises to show of an item, said of the catalog entry the   *)
(* item stands for (Lifecycle), not of the stored document.                 *)

Shows(view, entry) ==
  \/ view = "published" /\ entry.live # None /\ ~entry.archived
  \/ view = "preview" /\ ~entry.archived
  \/ view = "archived" /\ entry.archived

StateShown(view, entry) ==
  IF view = "archived" THEN "archived"
  ELSE IF view = "published" THEN "published" ELSE entry.status

DepictsOne(row, q, entry) ==
  /\ row.key = entry.key /\ row.type = entry.type /\ row.owner = entry.owner
  /\ row.state = StateShown(q.view, entry)
  /\ FieldsOf(row) = IF q.view = "published" THEN entry.live ELSE entry.fields

\* The rows show the item once if the view promises to show it, or else not at all.
Depicts(rows, q, doc) ==
  LET entry == EntryOf(doc) IN
  IF doc # None /\ Shows(q.view, entry) /\ Subscribed(q, entry)
  THEN Len(rows) = 1 /\ DepictsOne(rows[1], q, entry)
  ELSE rows = <<>>

\* A read running beside writes is still a read of real items.  Of a document that
\* keeps its place it shows one version the item had between the start of the read
\* and the visit, whole and once, or not at all when that version is not for this
\* view.  A document that moves under the cursor, deleted and inserted again by a
\* stale save or given another type or owner, may come twice or not at all, but each
\* of its rows is a version it had while the cursor could reach it.  So a published
\* read never exposes a working draft or an archived item, and a row never mixes two
\* versions (engine.go:325-381, FindPublished, FindAll, FindArchived,
\* persistor.go:323-391).
RowsAreReal ==
  \A c \in Consumer :
    LET k == consumer[c] IN
    k.pc \in {"find", "found"} =>
      \A i \in ID \ k.left :
        IF i \notin k.wandered
        THEN \E doc \in k.versions[i] : Depicts(k.rows[i], k.query, doc)
        ELSE \A n \in DOMAIN k.rows[i] :
               \E doc \in k.versions[i] : Depicts(<<k.rows[i][n]>>, k.query, doc)

------------------------------------------------------------------------------
(* Consumers' copies.                                                       *)

Quiet(c) ==
  /\ \A r \in Request : ~Active(r)
  /\ Resting(c)
  /\ consumer[c].query.view # None

UpToDate(c, i) == Depicts(consumer[c].copy[i], consumer[c].query, items[i])

\* What the code does not tell a consumer of item i since the consumer last began to
\* read: a write of i by a call that then failed; a write of i while i is of a type
\* with suppressed events; and, to a consumer that narrows its read, a write that
\* moved i out of what it reads, or a delete of i on a copy from before i moved in.
Untold(c, i) == i \in consumer[c].missed

\* Once every call has returned and a consumer has read again after the last
\* event that concerned it, its copy holds each item as the store does, once, unless
\* a write of that very item was withheld from it since that read began: each
\* operation notifies, after its write and never before, with the type and owner of
\* what it wrote or removed (emit, engine.go:308-318; ContentChange, config.go:47-53).
QuietIsFresh ==
  \A c \in Consumer : Quiet(c) => \A i \in ID : UpToDate(c, i) \/ Untold(c, i)

\* No schedule of writes, notifications and reads leaves a consumer stale for good:
\* it is up to date again and again, but for the items of the writes withheld from it.
FreshAgain ==
  \A c \in Consumer :
    []<>(consumer[c].query.view = None \/ \A i \in ID : UpToDate(c, i) \/ Untold(c, i))
=============================================================================
