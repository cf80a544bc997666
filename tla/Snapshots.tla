------------------------------ MODULE Snapshots ------------------------------
(***************************************************************************)
(* Bulk reads beside the item calls: GetSnapshot and GetArchivedSnapshot   *)
(* (engine.go, persistor.go), and the consumers that keep a copy of one    *)
(* such read fresh by reading again when a ContentChange concerns them     *)
(* (config.go).  A find is a cursor over a collection that changes under   *)
(* it: item calls go on writing between its visits, and a document that    *)
(* comes back or changes its place in the index the cursor follows may be  *)
(* returned again, or be passed over.                                      *)
(* Consumers live outside the library; what they do here is what           *)
(* ContentChange is for: mark the copy stale, then read again.             *)
(***************************************************************************)
EXTENDS Engine, Sequences

CONSTANTS
  Consumer,         \* consuming applications
  Subscriptions     \* the reads a consumer may keep a copy of

\* The view "archived" is GetArchivedSnapshot, None a view string that is no
\* SnapshotView; no types means all types, owner None means any owner.
Query == [ view  : {"published", "preview", "archived", None},
           types : SUBSET ContentType,
           owner : Owner \cup {None} ]

Row == [ key    : Key \cup {None},
         type   : ContentType,
         owner  : Owner \cup {None},
         state  : {"draft", "changed", "published", "archived"},
         fields : FieldMap \cup {None} ]

\* The rows a read has of each id, in the order the cursor returned them; the
\* order of rows of different ids is left out.
Rows == [ID -> Seq(Row)]

ConsumerRecord ==
  [ query    : Query,
    pc       : {"idle", "find", "found", "refused"}, \* found: the cursor is drained
    left     : SUBSET ID,   \* ids the cursor has not reached yet
    moved    : SUBSET ID,   \* ids whose document moved since the cursor was there
    wandered : SUBSET ID,   \* history: ids whose document moved during this read
    rows     : Rows,        \* rows of the read under way
    versions : [ID -> SUBSET (Item \cup {None})], \* history: what each id has been
                            \* while this read could still reach it
    copy     : Rows,        \* the last complete read
    stale    : BOOLEAN,     \* a change has come since
    missed   : SUBSET ID ]  \* history: ids written since the last read started by
                            \* a call that is over and did not tell this consumer

ASSUME SubscriptionAssumption ==
  /\ Subscriptions \subseteq Query
  /\ \A q \in Subscriptions : q.view = "archived" => q.owner = None

VARIABLE consumer
readVars == <<items, call, consumer>>
------------------------------------------------------------------------------
(* What a read selects and shows.                                           *)

\* Mutant: archived items are served.
FindPublished_Archived(doc) == doc.published # None

FindPublished(doc) == doc.published # None /\ ~doc.archived
FindAll(doc) == ~doc.archived
FindArchived(doc) == doc.archived

Narrowed(q, doc) ==
  /\ q.types = {} \/ doc.type \in q.types
  /\ q.owner = None \/ doc.owner = q.owner

Found(q, doc) ==
  /\ Narrowed(q, doc)
  /\ \/ q.view = "published" /\ FindPublished(doc)
     \/ q.view = "preview" /\ FindAll(doc)
     \/ q.view = "archived" /\ FindArchived(doc)

\* The snapshot of the item a row takes its fields from.
Shown(q, item) == IF q.view = "published" THEN item.published ELSE item.draft

\* What the visit of a document adds to a read: no row, or one.
RowsOf(q, doc) ==
  IF doc = None \/ ~Found(q, doc) \/ Shown(q, Decode(doc)) = None THEN <<>>
  ELSE << [ key    |-> doc.key,
            type   |-> doc.type,
            owner  |-> doc.owner,
            state  |-> IF q.view = "published" THEN "published" ELSE State(doc),
            fields |-> Shown(q, Decode(doc)).fields ] >>

\* Where the cursor of a read meets a document: in the order of the collection, or
\* of the index on the type or on the owner and the type when it narrows by one.
Place(q, doc) ==
  << IF q.types = {} /\ q.owner = None THEN None ELSE doc.type,
     IF q.owner = None THEN None ELSE doc.owner >>

Moves(q, old, new) == new # None /\ (old = None \/ Place(q, old) # Place(q, new))

------------------------------------------------------------------------------
NoRows == [i \in ID |-> <<>>]
NoVersions == [i \in ID |-> {}]

SnapshotsInit ==
  /\ Init
  /\ \E q \in [Consumer -> Subscriptions] :
       consumer = [c \in Consumer |->
         [ query |-> q[c], pc |-> "idle", left |-> {}, moved |-> {},
           wandered |-> {}, rows |-> NoRows, versions |-> NoVersions,
           copy |-> NoRows, stale |-> TRUE, missed |-> {} ]]

\* The change a step of an item call reports to the Notifier.
Reports(r) == call'[r].event # call[r].event
Concerns(q, event) == Narrowed(q, event)

\* The change a step of item call r reports to nobody who keeps read q: its call
\* failed after the write, its type is suppressed, or the item it holds is none of
\* those the read narrows to.
Subscribed(q, entry) ==
  /\ q.types # {} => entry.type \in q.types
  /\ q.owner # None => entry.owner = q.owner

Withheld(q, r) ==
  LET type == call[r].item.type IN
  /\ call[r].pc = "emit" /\ call'[r].pc = "done"
  /\ \/ call'[r].result = "internal"
     \/ type \in DOMAIN Schema /\ Schema[type].suppressed
     \/ ~Subscribed(q, call[r].item)

Moving(k) == {i \in ID : k.pc = "find" /\ Moves(k.query, items[i], items'[i])}

\* What a step of item call r does to a consumer's record, its history included.
Observed(k, r) ==
  LET ahead == k.left \cup k.moved \cup Moving(k) IN
  [k EXCEPT
     !.stale = @ \/ (Reports(r) /\ Concerns(k.query, call'[r].event)),
     !.missed = IF Withheld(k.query, r) THEN @ \cup {call[r].id} ELSE @,
     !.moved = @ \cup Moving(k),
     !.wandered = @ \cup Moving(k),
     !.versions = [i \in ID |-> IF i \in ahead THEN @[i] \cup {items'[i]} ELSE @[i]]]

Observe(r) == consumer' = [c \in Consumer |-> Observed(consumer[c], r)]

ItemStep(r) == CallStep(r) /\ Observe(r)
ItemProgress(r) == Progress(r) /\ Observe(r)

------------------------------------------------------------------------------
(* GetSnapshot, as a consumer calls it.                                     *)

Reread(c, record) ==
  /\ consumer' = [consumer EXCEPT ![c] = record]
  /\ UNCHANGED <<items, call>>

\* The read ends: its rows and its history go.
Ended(record) == [record EXCEPT !.pc = "idle", !.left = {}, !.moved = {},
                                !.wandered = {}, !.rows = NoRows,
                                !.versions = NoVersions]

\* A consumer that knows of a change reads again; an unsupported view is refused.
Fetch(c) ==
  LET k == consumer[c] IN
  /\ k.pc = "idle" /\ k.stale
  /\ IF k.query.view = None
     THEN Reread(c, [k EXCEPT !.stale = FALSE, !.missed = {}, !.pc = "refused"])
     ELSE Reread(c, [k EXCEPT !.stale = FALSE, !.missed = {}, !.pc = "find", !.left = ID,
                              !.versions = [i \in ID |-> {items[i]}]])

\* The cursor comes to a document: one it has not returned yet, or one that has moved
\* ahead of it since.
Visit(c) ==
  LET k == consumer[c] IN
  /\ k.pc = "find"
  /\ \E i \in k.left \cup k.moved :
       items[i] # None /\
       Reread(c, [k EXCEPT !.left = @ \ {i}, !.moved = @ \ {i},
                           !.rows[i] = @ \o RowsOf(k.query, items[i])])

\* The cursor is drained: of the documents it has not come to, each is gone or has
\* moved to where it had already been.
Drained(c) ==
  LET k == consumer[c] IN
  /\ k.pc = "find" /\ k.left \cap Stored(items) \subseteq k.moved
  /\ Reread(c, [k EXCEPT !.pc = "found", !.left = {}, !.moved = {}])

\* GetSnapshot returns what the cursor returned; repeated items are not removed.
GetSnapshot(c) ==
  LET k == consumer[c] IN
  /\ k.pc = "found"
  /\ Reread(c, [Ended(k) EXCEPT !.copy = k.rows])

\* The find fails: no rows but an error, and the consumer has to read again.
FindFails(c) ==
  LET k == consumer[c] IN
  /\ Faults
  /\ k.pc = "find"
  /\ Reread(c, [Ended(k) EXCEPT !.stale = TRUE])

ReadStep(c) == Fetch(c) \/ Visit(c) \/ Drained(c) \/ GetSnapshot(c)

------------------------------------------------------------------------------
Resting(c) ==
  \/ consumer[c].pc = "idle" /\ ~consumer[c].stale
  \/ consumer[c].pc = "refused"

AtRest ==
  /\ \A r \in Request : PcIs(r, "done")
  /\ \A c \in Consumer : Resting(c)
  /\ UNCHANGED readVars

SnapshotsNext ==
  \/ \E r \in Request : ItemStep(r)
  \/ \E c \in Consumer : ReadStep(c) \/ FindFails(c)
  \/ AtRest

SnapshotsSpec == SnapshotsInit /\ [][SnapshotsNext]_readVars

\* Calls keep running until they return, and so do a consumer's reads, which do
\* not fail for ever.
FairSnapshotsSpec ==
  /\ SnapshotsSpec
  /\ \A r \in Request : WF_readVars(ItemProgress(r))
  /\ \A c \in Consumer : WF_readVars(ReadStep(c))
  /\ \A c \in Consumer : <>[][~FindFails(c)]_readVars
=============================================================================
