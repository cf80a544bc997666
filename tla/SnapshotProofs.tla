--------------------------- MODULE SnapshotProofs ---------------------------
(***************************************************************************)
(* Bulk reads beside item calls: that they disturb nothing, and that what  *)
(* they return is real, proved for any number of calls and consumers, any  *)
(* subscriptions and any order in which a cursor visits the documents.     *)
(***************************************************************************)
EXTENDS SnapshotProperties, EngineProofs, SequenceTheorems

\* Reads and consumers do not disturb the item calls: every behaviour of
\* Snapshots is one of Engine, so what is proved of Engine holds here
\* (engine.go:325-414, persistor.go:323-391 write nothing).
THEOREM ReadsDisturbNothing == SnapshotsSpec => Spec
<1>1. SnapshotsInit => Init
  BY DEF SnapshotsInit
<1>2. [SnapshotsNext]_readVars => [Next]_vars
  <2> SUFFICES ASSUME [SnapshotsNext]_readVars PROVE [Next]_vars
    OBVIOUS
  <2>1. ASSUME NEW r \in Request, ItemStep(r) PROVE Next
    BY <2>1 DEF ItemStep, Next
  <2>2. ASSUME NEW c \in Consumer, ReadStep(c) \/ FindFails(c) PROVE UNCHANGED vars
    BY <2>2 DEF ReadStep, FindFails, Fetch, Visit, Drained, GetSnapshot, Reread, vars
  <2>3. ASSUME AtRest \/ UNCHANGED readVars PROVE UNCHANGED vars
    BY <2>3 DEF AtRest, readVars, vars
  <2> QED
    BY <2>1, <2>2, <2>3 DEF SnapshotsNext
<1> QED
  BY <1>1, <1>2, PTL DEF SnapshotsSpec, Spec

------------------------------------------------------------------------------
(* What a row shows of a document.                                          *)

Views == {"published", "preview", "archived"}

\* What a read selects, it has a row for.
LEMMA FoundRow ==
  ASSUME NEW q, NEW doc \in Version, Found(q, doc)
  PROVE  \E row \in Row :
           /\ RowsOf(q, doc) = <<row>>
           /\ row = [ key    |-> doc.key,
                      type   |-> doc.type,
                      owner  |-> doc.owner,
                      state  |-> IF q.view = "published" THEN "published" ELSE State(doc),
                      fields |-> Shown(q, Decode(doc)).fields ]
<1> DEFINE item == Decode(doc)
           shown == Shown(q, item)
<1>1. /\ doc \in Item /\ doc.draft \in Snapshot
      /\ doc.published \in Snapshot \cup {None} /\ doc # None
  BY NoneIsNoVersion DEF Version, Item
<1>2. /\ item.draft = DecodeSnapshot(doc.draft)
      /\ item.published = DecodeSnapshot(doc.published)
  BY <1>1 DEF Decode, Item
<1>3. q.view = "published" => doc.published \in Snapshot
  BY <1>1 DEF Found, FindPublished
<1>4. shown \in Snapshot /\ shown.fields \in FieldMap \cup {None}
  BY <1>1, <1>2, <1>3, DecodeKeepsSlots DEF Shown
<1> DEFINE row ==
        [ key    |-> doc.key,
          type   |-> doc.type,
          owner  |-> doc.owner,
          state  |-> IF q.view = "published" THEN "published" ELSE State(doc),
          fields |-> shown.fields ]
<1>5. RowsOf(q, doc) = <<row>>
  BY <1>1, <1>4, NilAssumption DEF RowsOf
<1>6. State(doc) \in {"draft", "changed", "published", "archived"}
  BY DEF State
<1>7. row \in Row
  <2> HIDE DEF shown
  <2> QED
    BY <1>1, <1>4, <1>6 DEF Row, Item
<1> QED
  BY <1>5, <1>7

\* The row of a stored version depicts it; so does the lack of one.
LEMMA RowDepicts ==
  ASSUME NEW q, q.view \in Views, NEW doc \in Version \cup {None}
  PROVE  Depicts(RowsOf(q, doc), q, doc)
<1>1. CASE doc = None
  BY <1>1 DEF RowsOf, Depicts
<1>2. CASE doc # None
  <2> DEFINE entry == EntryOf(doc)
             item == Decode(doc)
             shown == Shown(q, item)
  <2>1. /\ doc \in Item /\ doc.draft \in Snapshot
        /\ doc.published \in Snapshot \cup {None}
    BY <1>2, NoneIsNoVersion DEF Version, Item
  <2>2. /\ item.draft = DecodeSnapshot(doc.draft)
        /\ item.published = DecodeSnapshot(doc.published)
    BY <2>1 DEF Decode, Item
  <2>3. (item.published = None) = (doc.published = None)
    BY <2>1, <2>2, DecodeKeepsSlots, NilAssumption DEF DecodeSnapshot
  <2>4. item.draft # None
    BY <2>1, <2>2, DecodeKeepsSlots, NilAssumption
  <2>5. /\ entry.key = doc.key /\ entry.type = doc.type /\ entry.owner = doc.owner
        /\ entry.archived = doc.archived
        /\ entry.fields = FieldsOf(doc.draft)
        /\ entry.live = IF doc.published = None THEN None ELSE FieldsOf(doc.published)
        /\ entry.status = State([doc EXCEPT !.archived = FALSE])
    BY DEF EntryOf
  <2>6. (entry.live # None) = (doc.published # None)
    BY <2>1, <2>5, FieldsAreAMap
  <2>7. Found(q, doc) = (Shows(q.view, entry) /\ Subscribed(q, entry))
    BY <2>5, <2>6 DEF Found, Shows, Subscribed, Narrowed, FindPublished, FindAll,
                      FindArchived, Views
  <2> HIDE DEF entry
  <2>8. CASE ~Found(q, doc)
    BY <1>2, <2>7, <2>8 DEF RowsOf, Depicts, entry
  <2>9. CASE Found(q, doc)
    <3> DEFINE row == [ key    |-> doc.key,
                        type   |-> doc.type,
                        owner  |-> doc.owner,
                        state  |-> IF q.view = "published" THEN "published" ELSE State(doc),
                        fields |-> shown.fields ]
    <3>1. q.view = "published" => doc.published # None
      BY <2>9 DEF Found, FindPublished
    <3>3. RowsOf(q, doc) = <<row>>
      BY <1>2, <2>9, FoundRow
    <3>5. row.state = StateShown(q.view, entry)
      <4>1. q.view = "archived" => doc.archived
        BY <2>9 DEF Found, FindArchived
      <4>2. q.view = "preview" => ~doc.archived
        BY <2>9 DEF Found, FindAll
      <4>3. CASE q.view = "preview"
        <5>1. [doc EXCEPT !.archived = FALSE] = doc
          BY <2>1, <4>2, <4>3 DEF Item
        <5> QED
          BY <2>5, <4>3, <5>1 DEF StateShown
      <4>4. CASE q.view = "archived"
        BY <4>1, <4>4 DEF StateShown, State
      <4>5. CASE q.view = "published"
        BY <4>5 DEF StateShown
      <4> QED
        BY <4>3, <4>4, <4>5 DEF Views
    <3>6. FieldsOf(row) = IF q.view = "published" THEN entry.live ELSE entry.fields
      <4>1. FieldsOf(row) = FieldsOf(shown)
        BY DEF FieldsOf
      <4>2. CASE q.view = "published"
        BY <2>1, <2>2, <2>5, <3>1, <4>1, <4>2, DecodeKeepsSlots DEF Shown
      <4>3. CASE q.view # "published"
        BY <2>1, <2>2, <2>5, <4>1, <4>3, DecodeKeepsSlots DEF Shown
      <4> QED
        BY <4>2, <4>3
    <3>7. row.key = entry.key /\ row.type = entry.type /\ row.owner = entry.owner
      BY <2>5
    <3>8. DepictsOne(row, q, entry)
      BY <3>5, <3>6, <3>7 DEF DepictsOne
    <3> HIDE DEF row
    <3>9. Len(<<row>>) = 1 /\ <<row>>[1] = row
      OBVIOUS
    <3> QED
      BY <1>2, <2>7, <2>9, <3>3, <3>8, <3>9 DEF Depicts, entry
  <2> QED
    BY <2>8, <2>9
<1> QED
  BY <1>1, <1>2

\* A row of an item the view shows once shows it by itself.
LEMMA DepictsEach ==
  ASSUME NEW q, NEW doc, NEW rows \in Seq(Row), Depicts(rows, q, doc), NEW n \in DOMAIN rows
  PROVE  Depicts(<<rows[n]>>, q, doc)
<1>1. DOMAIN rows = 1 .. Len(rows) /\ Len(rows) \in Nat
  BY LenProperties
<1>2. Len(rows) # 0
  BY <1>1
<1>3. rows # <<>>
  BY <1>2, EmptySeq
<1>4. Len(rows) = 1 /\ n = 1
  BY <1>1, <1>3 DEF Depicts
<1> QED
  BY <1>3, <1>4 DEF Depicts

\* What a visit adds to the rows a read has of an item.
LEMMA VisitAdds ==
  ASSUME NEW q, q.view \in Views, NEW doc \in Version \cup {None}, NEW rows \in Seq(Row)
  PROVE  /\ rows \o RowsOf(q, doc) \in Seq(Row)
         /\ rows = <<>> => Depicts(rows \o RowsOf(q, doc), q, doc)
         /\ \A n \in DOMAIN (rows \o RowsOf(q, doc)) :
              \/ n \in DOMAIN rows /\ (rows \o RowsOf(q, doc))[n] = rows[n]
              \/ Depicts(<<(rows \o RowsOf(q, doc))[n]>>, q, doc)
<1> DEFINE more == RowsOf(q, doc)
           all == rows \o more
<1>1. more \in Seq(Row)
  <2>1. CASE doc = None \/ ~Found(q, doc)
    BY <2>1, EmptySeq DEF RowsOf
  <2>2. CASE doc # None /\ Found(q, doc)
    <3>1. PICK row \in Row : RowsOf(q, doc) = <<row>>
      BY <2>2, FoundRow
    <3>2. <<row>> \in Seq(Row)
      OBVIOUS
    <3> QED
      BY <3>1, <3>2
  <2> QED
    BY <2>1, <2>2
<1>2. Depicts(more, q, doc)
  BY RowDepicts
<1> HIDE DEF more
<1>3. /\ all \in Seq(Row) /\ Len(all) = Len(rows) + Len(more)
      /\ \A n \in 1 .. Len(rows) + Len(more) :
           all[n] = IF n <= Len(rows) THEN rows[n] ELSE more[n - Len(rows)]
  BY <1>1, ConcatProperties
<1>4. /\ DOMAIN all = 1 .. Len(all)
      /\ DOMAIN rows = 1 .. Len(rows) /\ Len(rows) \in Nat
      /\ DOMAIN more = 1 .. Len(more) /\ Len(more) \in Nat
  BY <1>1, <1>3, LenProperties
<1>5. rows = <<>> => all = more
  BY <1>1, ConcatEmptySeq
<1>6. ASSUME NEW n \in DOMAIN all, n \notin DOMAIN rows
      PROVE  Depicts(<<all[n]>>, q, doc)
  <2>1. n - Len(rows) \in DOMAIN more /\ all[n] = more[n - Len(rows)]
    BY <1>3, <1>4, <1>6
  <2> QED
    BY <1>1, <1>2, <2>1, DepictsEach
<1>7. ASSUME NEW n \in DOMAIN all, n \in DOMAIN rows PROVE all[n] = rows[n]
  BY <1>3, <1>4, <1>7
<1> HIDE DEF all
<1>8. rows = <<>> => Depicts(all, q, doc)
  BY <1>2, <1>5
<1>9. \A n \in DOMAIN all : \/ n \in DOMAIN rows /\ all[n] = rows[n]
                            \/ Depicts(<<all[n]>>, q, doc)
  BY <1>6, <1>7
<1> QED
  BY <1>3, <1>8, <1>9 DEF all, more

------------------------------------------------------------------------------
(* Types of the consumers' records.                                         *)

ReaderTyped(k) ==
  /\ k \in ConsumerRecord
  /\ k.pc # "find" => k.left = {} /\ k.moved = {}
  /\ k.pc \notin {"find", "found"} => k.rows = NoRows /\ k.wandered = {}
  /\ k.pc \in {"find", "found"} => \A i \in ID : k.versions[i] # {}
  /\ k.moved \subseteq k.wandered
  /\ \A i \in k.left : k.rows[i] = <<>>

ReadersTyped ==
  /\ consumer \in [Consumer -> ConsumerRecord]
  /\ \A c \in Consumer : ReaderTyped(consumer[c])

LEMMA NothingRead ==
  /\ NoRows \in Rows /\ NoVersions \in [ID -> SUBSET (Item \cup {None})]
  /\ \A i \in ID : NoRows[i] = <<>>
<1>1. <<>> \in Seq(Row)
  BY EmptySeq
<1> QED
  BY <1>1 DEF NoRows, NoVersions, Rows

LEMMA TypedInitOK == SnapshotsInit => ReadersTyped
<1> SUFFICES ASSUME SnapshotsInit PROVE ReadersTyped
  OBVIOUS
<1>1. PICK q \in [Consumer -> Subscriptions] :
        consumer = [c \in Consumer |->
          [ query |-> q[c], pc |-> "idle", left |-> {}, moved |-> {},
            wandered |-> {}, rows |-> NoRows, versions |-> NoVersions,
            copy |-> NoRows, stale |-> TRUE, missed |-> {} ]]
  BY DEF SnapshotsInit
<1>2. ASSUME NEW c \in Consumer PROVE ReaderTyped(consumer[c])
  BY <1>1, NothingRead, SubscriptionAssumption DEF ReaderTyped, ConsumerRecord
<1> QED
  BY <1>1, <1>2 DEF ReadersTyped, ReaderTyped

\* What an item call's step makes of a consumer's record.
ObservedAs(k, r, n) ==
  /\ n.query = k.query /\ n.pc = k.pc /\ n.left = k.left /\ n.rows = k.rows
  /\ n.copy = k.copy
  /\ n.moved = k.moved \cup Moving(k) /\ n.wandered = k.wandered \cup Moving(k)
  /\ n.stale = (k.stale \/ (Reports(r) /\ Concerns(k.query, call'[r].event)))
  /\ n.missed = IF Withheld(k.query, r) THEN k.missed \cup {call[r].id} ELSE k.missed
  /\ \A i \in ID :
       n.versions[i] = IF i \in k.left \cup k.moved \cup Moving(k)
                       THEN k.versions[i] \cup {items'[i]} ELSE k.versions[i]

LEMMA ObservedFields ==
  ASSUME NEW r \in Request, NEW k, ReaderTyped(k), call[r].id \in ID \/ ~Withheld(k.query, r),
         items' \in [ID -> Version \cup {None}]
  PROVE  ReaderTyped(Observed(k, r)) /\ ObservedAs(k, r, Observed(k, r))
<1> DEFINE n == Observed(k, r)
           moving == Moving(k)
           ahead == k.left \cup k.moved \cup moving
           seen == [i \in ID |-> IF i \in ahead THEN k.versions[i] \cup {items'[i]}
                                                ELSE k.versions[i]]
           told == k.stale \/ (Reports(r) /\ Concerns(k.query, call'[r].event))
           missed == IF Withheld(k.query, r) THEN k.missed \cup {call[r].id} ELSE k.missed
<1>1. n = [k EXCEPT !.stale = told, !.missed = missed, !.moved = k.moved \cup moving,
                    !.wandered = k.wandered \cup moving, !.versions = seen]
  BY DEF Observed
<1>2. told \in BOOLEAN
  BY Zenon DEF ReaderTyped, ConsumerRecord
<1>3. missed \in SUBSET ID
  BY DEF ReaderTyped, ConsumerRecord
<1>4. moving \subseteq ID /\ (k.pc # "find" => moving = {})
  BY DEF Moving
<1>5. seen \in [ID -> SUBSET (Item \cup {None})]
  BY DEF ReaderTyped, ConsumerRecord, Version
<1>6. ASSUME k.pc \in {"find", "found"}, NEW i \in ID PROVE seen[i] # {}
  BY <1>6 DEF ReaderTyped
<1>7. \A i \in ID : seen[i] = IF i \in ahead THEN k.versions[i] \cup {items'[i]}
                                            ELSE k.versions[i]
  OBVIOUS
<1> HIDE DEF told, missed, seen, moving
<1>8. /\ n.query = k.query /\ n.pc = k.pc /\ n.left = k.left /\ n.rows = k.rows
      /\ n.copy = k.copy /\ n.moved = k.moved \cup moving
      /\ n.wandered = k.wandered \cup moving
      /\ n.stale = told /\ n.missed = missed /\ n.versions = seen
  BY <1>1 DEF ReaderTyped, ConsumerRecord
<1>9. n \in ConsumerRecord
  <2>1. k \in ConsumerRecord
    BY DEF ReaderTyped
  <2>2. k.moved \cup moving \in SUBSET ID /\ k.wandered \cup moving \in SUBSET ID
    BY <1>4, <2>1 DEF ConsumerRecord
  <2>3. [k EXCEPT !.stale = told, !.missed = missed] \in ConsumerRecord
    BY <1>2, <1>3, <2>1 DEF ConsumerRecord
  <2>4. n = [[k EXCEPT !.stale = told, !.missed = missed] EXCEPT
               !.moved = k.moved \cup moving, !.wandered = k.wandered \cup moving,
               !.versions = seen]
    BY <1>1, <2>1 DEF ConsumerRecord
  <2> HIDE DEF n
  <2> QED
    BY <1>5, <2>2, <2>3, <2>4 DEF ConsumerRecord
<1> HIDE DEF n
<1>10. ReaderTyped(n)
  BY <1>4, <1>6, <1>8, <1>9 DEF ReaderTyped
<1> QED
  BY <1>7, <1>8, <1>10 DEF n, told, missed, moving, ObservedAs

\* The item of a call whose notification is over has been one of the store's.
LEMMA WithheldID ==
  ASSUME IInv, NEW r \in Request, NEW q PROVE call[r].id \in ID \/ ~Withheld(q, r)
BY DEF IInv, CallsOK, CallOK, Equipped, Withheld, CallRecord

LEMMA ObserveTyped ==
  ASSUME IInv, ReadersTyped, items' \in [ID -> Version \cup {None}],
         NEW r \in Request, Observe(r)
  PROVE  ReadersTyped'
<1>1. ASSUME NEW c \in Consumer PROVE ReaderTyped(consumer'[c])
  BY ObservedFields, WithheldID DEF ReadersTyped, Observe
<1> QED
  BY <1>1 DEF ReadersTyped, ReaderTyped, Observe

\* A step of one consumer's own.
LEMMA OneTyped ==
  ASSUME ReadersTyped, NEW c \in Consumer, NEW k, ReaderTyped(k), Reread(c, k)
  PROVE  /\ ReadersTyped' /\ consumer'[c] = k
         /\ \A d \in Consumer \ {c} : consumer'[d] = consumer[d]
         /\ UNCHANGED <<items, call>>
BY DEF ReadersTyped, ReaderTyped, Reread

\* The read is over, well or not.
LEMMA EndedTyped ==
  ASSUME NEW k, ReaderTyped(k)
  PROVE  /\ ReaderTyped([Ended(k) EXCEPT !.stale = TRUE])
         /\ ReaderTyped([Ended(k) EXCEPT !.copy = k.rows])
BY NothingRead DEF Ended, ReaderTyped, ConsumerRecord

\* What each step of a read makes of the consumer's record.
Fetched(k) == [k EXCEPT !.stale = FALSE, !.missed = {}, !.pc = "find", !.left = ID,
                        !.versions = [i \in ID |-> {items[i]}]]
Refused(k) == [k EXCEPT !.stale = FALSE, !.missed = {}, !.pc = "refused"]
Visited(k, i) == [k EXCEPT !.left = @ \ {i}, !.moved = @ \ {i},
                           !.rows[i] = @ \o RowsOf(k.query, items[i])]
Emptied(k) == [k EXCEPT !.pc = "found", !.left = {}, !.moved = {}]

LEMMA FetchedFields ==
  ASSUME NEW k, ReaderTyped(k), k.pc = "idle", items \in [ID -> Version \cup {None}]
  PROVE  LET n == Fetched(k) IN
         /\ ReaderTyped(n)
         /\ n.query = k.query /\ n.pc = "find" /\ n.left = ID
         /\ n.moved = {} /\ n.wandered = {}
         /\ \A i \in ID : n.versions[i] = {items[i]}
<1> DEFINE first == [i \in ID |-> {items[i]}]
           n == Fetched(k)
<1>1. first \in [ID -> SUBSET (Item \cup {None})] /\ \A i \in ID : first[i] = {items[i]}
  BY DEF Version
<1>2. n = [k EXCEPT !.stale = FALSE, !.missed = {}, !.pc = "find", !.left = ID,
                    !.versions = first]
  BY DEF Fetched
<1> HIDE DEF first
<1>3. /\ n \in ConsumerRecord
      /\ n.query = k.query /\ n.pc = "find" /\ n.left = ID /\ n.versions = first
      /\ n.moved = k.moved /\ n.wandered = k.wandered /\ n.rows = k.rows
  BY <1>1, <1>2 DEF ReaderTyped, ConsumerRecord
<1> HIDE DEF n
<1>4. k.rows = NoRows /\ k.wandered = {} /\ k.moved = {}
  BY DEF ReaderTyped
<1>5. ReaderTyped(n)
  BY <1>1, <1>3, <1>4, NothingRead DEF ReaderTyped
<1> QED
  BY <1>1, <1>3, <1>4, <1>5 DEF n

LEMMA RefusedFields ==
  ASSUME NEW k, ReaderTyped(k), k.pc = "idle"
  PROVE  LET n == Refused(k) IN
         ReaderTyped(n) /\ n.query = k.query /\ n.pc = "refused"
BY DEF Refused, ReaderTyped, ConsumerRecord

VisitedAs(k, i, n) ==
  /\ n.query = k.query /\ n.pc = "find" /\ n.stale = k.stale
  /\ n.missed = k.missed /\ n.copy = k.copy
  /\ n.left = k.left \ {i} /\ n.moved = k.moved \ {i} /\ n.wandered = k.wandered
  /\ n.versions = k.versions
  /\ n.rows[i] = k.rows[i] \o RowsOf(k.query, items[i])
  /\ \A j \in ID \ {i} : n.rows[j] = k.rows[j]

LEMMA VisitedFields ==
  ASSUME NEW k, ReaderTyped(k), k.pc = "find", k.query.view \in Views,
         NEW i \in k.left \cup k.moved, items \in [ID -> Version \cup {None}]
  PROVE  ReaderTyped(Visited(k, i)) /\ VisitedAs(k, i, Visited(k, i))
<1> DEFINE rows == k.rows[i] \o RowsOf(k.query, items[i])
           n == Visited(k, i)
<1>1. i \in ID /\ items[i] \in Version \cup {None} /\ k.rows[i] \in Seq(Row)
  BY DEF ReaderTyped, ConsumerRecord, Rows
<1>2. rows \in Seq(Row)
  BY <1>1, VisitAdds
<1>3. n = [k EXCEPT !.left = k.left \ {i}, !.moved = k.moved \ {i},
                    !.rows = [k.rows EXCEPT ![i] = rows]]
  BY DEF Visited, ReaderTyped, ConsumerRecord
<1> HIDE DEF rows
<1>4. [k.rows EXCEPT ![i] = rows] \in Rows
  BY <1>2 DEF ReaderTyped, ConsumerRecord, Rows
<1>5. /\ n \in ConsumerRecord
      /\ n.query = k.query /\ n.pc = k.pc /\ n.stale = k.stale
      /\ n.missed = k.missed /\ n.copy = k.copy
      /\ n.left = k.left \ {i} /\ n.moved = k.moved \ {i} /\ n.wandered = k.wandered
      /\ n.versions = k.versions
      /\ n.rows = [k.rows EXCEPT ![i] = rows]
  BY <1>3, <1>4 DEF ReaderTyped, ConsumerRecord
<1>6. n.rows[i] = rows /\ \A j \in ID \ {i} : n.rows[j] = k.rows[j]
  BY <1>1, <1>5 DEF ReaderTyped, ConsumerRecord, Rows
<1> HIDE DEF n
<1>7. k.left \subseteq ID
  BY DEF ReaderTyped, ConsumerRecord
<1>8. ReaderTyped(n)
  BY <1>5, <1>6, <1>7 DEF ReaderTyped
<1> QED
  BY <1>5, <1>6, <1>8 DEF n, rows, VisitedAs

LEMMA EmptiedFields ==
  ASSUME NEW k, ReaderTyped(k), k.pc = "find"
  PROVE  LET n == Emptied(k) IN
         /\ ReaderTyped(n)
         /\ n.query = k.query /\ n.pc = "found" /\ n.stale = k.stale
         /\ n.missed = k.missed /\ n.copy = k.copy
         /\ n.left = {} /\ n.moved = {} /\ n.wandered = k.wandered
         /\ n.versions = k.versions /\ n.rows = k.rows
BY DEF Emptied, ReaderTyped, ConsumerRecord

LEMMA EndedFields ==
  ASSUME NEW k, ReaderTyped(k)
  PROVE  /\ LET n == [Ended(k) EXCEPT !.stale = TRUE] IN
            n.query = k.query /\ n.pc = "idle" /\ n.stale
         /\ LET n == [Ended(k) EXCEPT !.copy = k.rows] IN
            /\ n.query = k.query /\ n.pc = "idle" /\ n.stale = k.stale
            /\ n.missed = k.missed /\ n.copy = k.rows
BY DEF Ended, ReaderTyped, ConsumerRecord

------------------------------------------------------------------------------
(* Reads under way.                                                         *)

\* What a read has of an item it has come to.
RowsReal(k, i) ==
  IF i \notin k.wandered
  THEN \E doc \in k.versions[i] : Depicts(k.rows[i], k.query, doc)
  ELSE \A n \in DOMAIN k.rows[i] :
         \E doc \in k.versions[i] : Depicts(<<k.rows[i][n]>>, k.query, doc)

\* What has been visited depicts a version there has been; what can still be will, as
\* the version stored now is among those on record.
ReadingOK(k, docs) ==
  /\ k.query.view \in Views
  /\ \A i \in k.left \cup k.moved : docs[i] \in k.versions[i]
  /\ \A i \in ID \ k.left : RowsReal(k, i)

ReaderOK(k, docs) ==
  /\ ReaderTyped(k)
  /\ k.pc \in {"find", "found"} => ReadingOK(k, docs)
  /\ k.pc = "refused" => k.query.view = None

ReadersOK ==
  /\ ReadersTyped
  /\ \A c \in Consumer : ReaderOK(consumer[c], items)

LEMMA ReadersInitOK == SnapshotsInit => ReadersOK
<1> SUFFICES ASSUME SnapshotsInit PROVE ReadersOK
  OBVIOUS
<1>1. \A c \in Consumer : consumer[c].pc = "idle"
  BY DEF SnapshotsInit
<1> QED
  BY <1>1, TypedInitOK DEF ReadersOK, ReaderOK, ReadersTyped

\* A read stays real as versions are added and items begin to wander.
LEMMA RowsStay ==
  ASSUME NEW k, ReaderTyped(k), NEW i \in ID, RowsReal(k, i),
         NEW n, n.rows = k.rows, n.query = k.query,
         k.wandered \subseteq n.wandered, k.versions[i] \subseteq n.versions[i]
  PROVE  RowsReal(n, i)
<1>1. k.rows[i] \in Seq(Row)
  BY DEF ReaderTyped, ConsumerRecord, Rows
<1>2. CASE i \notin n.wandered
  BY <1>2 DEF RowsReal
<1>3. CASE i \in k.wandered
  BY <1>3 DEF RowsReal
<1>4. CASE i \in n.wandered \ k.wandered
  <2>1. PICK doc \in k.versions[i] : Depicts(k.rows[i], k.query, doc)
    BY <1>4 DEF RowsReal
  <2>2. \A m \in DOMAIN k.rows[i] : Depicts(<<k.rows[i][m]>>, k.query, doc)
    BY <1>1, <2>1, DepictsEach
  <2> QED
    BY <1>4, <2>1, <2>2 DEF RowsReal
<1> QED
  BY <1>2, <1>3, <1>4

\* A write adds the new version to the record of every read that can still reach it.
LEMMA ObserveOK ==
  ASSUME IInv, ReadersOK, items' \in [ID -> Version \cup {None}],
         NEW r \in Request, Observe(r)
  PROVE  ReadersOK'
<1>1. ASSUME NEW c \in Consumer PROVE ReaderOK(consumer'[c], items')
  <2> DEFINE k == consumer[c]
             n == consumer'[c]
  <2>1. ReaderOK(k, items)
    BY DEF ReadersOK
  <2>2. ReaderTyped(k)
    BY <2>1 DEF ReaderOK
  <2>3. n = Observed(k, r) /\ (call[r].id \in ID \/ ~Withheld(k.query, r))
    BY WithheldID DEF Observe
  <2> HIDE DEF n, k
  <2>4. /\ ReaderTyped(n)
        /\ n.query = k.query /\ n.pc = k.pc /\ n.left = k.left /\ n.rows = k.rows
        /\ n.moved = k.moved \cup Moving(k) /\ n.wandered = k.wandered \cup Moving(k)
        /\ \A i \in ID :
             n.versions[i] = IF i \in k.left \cup k.moved \cup Moving(k)
                             THEN k.versions[i] \cup {items'[i]} ELSE k.versions[i]
    <3>1. ReaderTyped(n) /\ ObservedAs(k, r, n)
      BY <2>2, <2>3, ObservedFields
    <3> QED
      BY <3>1 DEF ObservedAs
  <2>5. ASSUME n.pc \in {"find", "found"} PROVE ReadingOK(n, items')
    <3>1. ReadingOK(k, items)
      BY <2>1, <2>4, <2>5 DEF ReaderOK
    <3>2. \A i \in n.left \cup n.moved : items'[i] \in n.versions[i]
      BY <2>2, <2>4 DEF ReaderTyped, ConsumerRecord, Moving
    <3>3. ASSUME NEW i \in ID \ n.left PROVE RowsReal(n, i)
      BY <2>2, <2>4, <3>1, RowsStay DEF ReadingOK
    <3> QED
      BY <2>4, <3>1, <3>2, <3>3 DEF ReadingOK
  <2> QED
    BY <2>1, <2>4, <2>5 DEF ReaderOK, n, k
<1> QED
  BY <1>1, ObserveTyped DEF ReadersOK

\* A step of one consumer's own.
LEMMA OneReader ==
  ASSUME ReadersOK, NEW c \in Consumer, NEW k, ReaderOK(k, items), Reread(c, k)
  PROVE  ReadersOK'
<1>1. /\ ReadersTyped' /\ consumer'[c] = k
      /\ \A d \in Consumer \ {c} : consumer'[d] = consumer[d]
      /\ items' = items
  BY OneTyped DEF ReadersOK, ReaderOK
<1>2. ASSUME NEW d \in Consumer PROVE ReaderOK(consumer'[d], items')
  BY <1>1 DEF ReadersOK
<1> QED
  BY <1>1, <1>2 DEF ReadersOK

LEMMA EndedOK ==
  ASSUME NEW k, NEW docs, ReaderOK(k, docs), NEW other
  PROVE  /\ ReaderOK([Ended(k) EXCEPT !.stale = TRUE], other)
         /\ ReaderOK([Ended(k) EXCEPT !.copy = k.rows], other)
BY EndedTyped, EndedFields DEF ReaderOK

\* The steps of a read, by what they make of the record.
LEMMA ReadSteps ==
  ASSUME ReadersOK, NEW c \in Consumer, ReadStep(c) \/ FindFails(c)
  PROVE  LET k == consumer[c] IN
         \/ k.pc = "idle" /\ k.query.view = None /\ Reread(c, Refused(k))
         \/ k.pc = "idle" /\ k.query.view # None /\ Reread(c, Fetched(k))
         \/ /\ k.pc = "find"
            /\ \E i \in k.left \cup k.moved : Reread(c, Visited(k, i))
         \/ k.pc = "find" /\ k.left \cap Stored(items) \subseteq k.moved /\ Reread(c, Emptied(k))
         \/ k.pc = "found" /\ Reread(c, [Ended(k) EXCEPT !.copy = k.rows])
         \/ k.pc = "find" /\ Reread(c, [Ended(k) EXCEPT !.stale = TRUE])
BY DEF ReadStep, Fetch, Visit, Drained, GetSnapshot, FindFails,
       Refused, Fetched, Visited, Emptied

LEMMA VisitedOK ==
  ASSUME NEW k, ReaderOK(k, items), k.pc = "find",
         items \in [ID -> Version \cup {None}], NEW i \in k.left \cup k.moved
  PROVE  ReaderOK(Visited(k, i), items)
<1> DEFINE n == Visited(k, i)
<1>1. ReaderTyped(k) /\ ReadingOK(k, items)
  BY DEF ReaderOK
<1>2. i \in ID /\ items[i] \in Version \cup {None} /\ k.rows[i] \in Seq(Row)
  BY <1>1 DEF ReaderTyped, ConsumerRecord, Rows
<1>4. items[i] \in k.versions[i] /\ k.query.view \in Views
  BY <1>1 DEF ReadingOK
<1>3. /\ ReaderTyped(n)
      /\ n.query = k.query /\ n.pc = "find"
      /\ n.left = k.left \ {i} /\ n.moved = k.moved \ {i} /\ n.wandered = k.wandered
      /\ n.versions = k.versions
      /\ n.rows[i] = k.rows[i] \o RowsOf(k.query, items[i])
      /\ \A j \in ID \ {i} : n.rows[j] = k.rows[j]
  <2>1. ReaderTyped(n) /\ VisitedAs(k, i, n)
    BY <1>1, <1>4, VisitedFields
  <2> HIDE DEF n
  <2> QED
    BY <2>1 DEF VisitedAs
<1> HIDE DEF n
<1>5. RowsReal(n, i)
  <2>1. CASE i \notin k.wandered
    <3>1. k.rows[i] = <<>>
      BY <1>1, <2>1 DEF ReaderTyped
    <3>2. Depicts(k.rows[i] \o RowsOf(k.query, items[i]), k.query, items[i])
      BY <1>2, <1>4, <3>1, VisitAdds
    <3> QED
      BY <1>3, <1>4, <2>1, <3>2 DEF RowsReal
  <2>2. CASE i \in k.wandered
    <3>1. ASSUME NEW m \in DOMAIN k.rows[i]
          PROVE  \E doc \in k.versions[i] : Depicts(<<k.rows[i][m]>>, k.query, doc)
      <4>1. CASE i \in k.left
        <5>1. DOMAIN k.rows[i] = {}
          BY <1>1, <4>1 DEF ReaderTyped
        <5> QED
          BY <3>1, <5>1
      <4>2. CASE i \notin k.left
        BY <1>1, <1>2, <2>2, <3>1, <4>2 DEF ReadingOK, RowsReal
      <4> QED
        BY <4>1, <4>2
    <3>2. ASSUME NEW m \in DOMAIN n.rows[i]
          PROVE  \E doc \in n.versions[i] : Depicts(<<n.rows[i][m]>>, n.query, doc)
      <4>1. \/ m \in DOMAIN k.rows[i] /\ n.rows[i][m] = k.rows[i][m]
            \/ Depicts(<<n.rows[i][m]>>, k.query, items[i])
        BY <1>2, <1>3, <1>4, <3>2, VisitAdds
      <4> QED
        BY <1>3, <1>4, <3>1, <4>1
    <3> QED
      BY <1>3, <2>2, <3>2 DEF RowsReal
  <2> QED
    BY <2>1, <2>2
<1>6. ASSUME NEW j \in ID \ n.left, j # i PROVE RowsReal(n, j)
  <2>1. RowsReal(k, j)
    BY <1>1, <1>3, <1>6 DEF ReadingOK
  <2> QED
    BY <1>3, <1>6, <2>1 DEF RowsReal
<1>7. ReadingOK(n, items)
  BY <1>1, <1>3, <1>5, <1>6 DEF ReadingOK
<1> QED
  BY <1>3, <1>7 DEF ReaderOK, n

LEMMA ReadStepOK ==
  ASSUME IInv, ReadersOK, NEW c \in Consumer, ReadStep(c) \/ FindFails(c)
  PROVE  ReadersOK'
<1> DEFINE k == consumer[c]
<1>0. ReaderOK(k, items) /\ ReaderTyped(k) /\ items \in [ID -> Version \cup {None}]
  BY DEF ReadersOK, ReaderOK, IInv, ItemsOK
<1>1. ASSUME k.pc = "idle", k.query.view = None PROVE ReaderOK(Refused(k), items)
  BY <1>0, <1>1, RefusedFields DEF ReaderOK
<1>2. ASSUME k.pc = "idle", k.query.view # None PROVE ReaderOK(Fetched(k), items)
  <2> DEFINE n == Fetched(k)
  <2>1. /\ ReaderTyped(n) /\ n.query = k.query /\ n.pc = "find" /\ n.left = ID
        /\ n.moved = {} /\ \A i \in ID : n.versions[i] = {items[i]}
    BY <1>0, <1>2, FetchedFields
  <2> HIDE DEF n
  <2>2. k.query.view \in Views
    BY <1>0, <1>2 DEF ReaderTyped, ConsumerRecord, Query, Views
  <2> QED
    BY <2>1, <2>2 DEF ReaderOK, ReadingOK, n
<1>3. ASSUME k.pc = "find", k.left \cap Stored(items) \subseteq k.moved
      PROVE  ReaderOK(Emptied(k), items)
  <2> DEFINE n == Emptied(k)
  <2>1. /\ ReaderTyped(n) /\ n.query = k.query /\ n.pc = "found"
        /\ n.left = {} /\ n.moved = {} /\ n.wandered = k.wandered
        /\ n.versions = k.versions /\ n.rows = k.rows
    BY <1>0, <1>3, EmptiedFields
  <2> HIDE DEF n
  <2>2. ReadingOK(k, items)
    BY <1>0, <1>3 DEF ReaderOK
  <2>3. ASSUME NEW i \in ID PROVE RowsReal(n, i)
    <3>1. CASE i \notin k.left
      BY <2>1, <2>2, <3>1 DEF ReadingOK, RowsReal
    <3>2. CASE i \in k.left
      <4>1. n.rows[i] = <<>> /\ DOMAIN n.rows[i] = {}
        BY <1>0, <2>1, <3>2 DEF ReaderTyped
      <4>2. CASE items[i] # None
        <5>1. i \in n.wandered
          BY <1>0, <1>3, <2>1, <3>2, <4>2 DEF ReaderTyped, Stored
        <5> QED
          BY <4>1, <5>1 DEF RowsReal
      <4>3. CASE items[i] = None
        <5>1. None \in n.versions[i]
          BY <2>1, <2>2, <3>2, <4>3 DEF ReadingOK
        <5> QED
          BY <4>1, <5>1 DEF RowsReal, Depicts
      <4> QED
        BY <4>2, <4>3
    <3> QED
      BY <3>1, <3>2
  <2> QED
    BY <2>1, <2>2, <2>3 DEF ReaderOK, ReadingOK, n
<1> QED
  BY <1>0, <1>1, <1>2, <1>3, ReadSteps, VisitedOK, EndedOK, OneReader

LEMMA ReadersGive == ReadersOK => RowsAreReal
BY DEF ReadersOK, ReaderOK, ReadingOK, RowsReal, RowsAreReal

LEMMA TypedGives == IInv /\ ReadersOK => SnapshotsTypeOK
BY IInvGives DEF ReadersOK, ReadersTyped, ReaderTyped, SnapshotsTypeOK

------------------------------------------------------------------------------
(* Consumers' copies.                                                       *)

\* What stands between a consumer and a version it has not seen: it will read
\* again, it has yet to visit the item, it has the version already, a call is
\* about to tell it, or that was withheld.  A cursor that lost an item out of sight
\* lost it to a write, which is told or withheld as well.
FreshAt(k, docs, calls, i) ==
  \/ k.stale
  \/ i \in k.missed
  \/ k.pc = "find" /\ i \in k.left /\ i \notin k.wandered
  \/ /\ k.pc \in {"find", "found"} /\ i \notin k.left \cup k.wandered
     /\ Depicts(k.rows[i], k.query, docs[i])
  \/ k.pc = "idle" /\ Depicts(k.copy[i], k.query, docs[i])
  \/ \E r \in Request : calls[r].pc = "emit" /\ calls[r].id = i

AllFresh(k, docs, calls) ==
  k.query.view # None => \A i \in ID : FreshAt(k, docs, calls, i)

FreshOK ==
  /\ \A r \in Request : call[r].pc # "done" => call[r].event = None
  /\ \A c \in Consumer : AllFresh(consumer[c], items, call)

\* A call that is about to notify either does, and the consumer knows, or withholds it.
LEMMA NotifyOK ==
  ASSUME IInv, NEW r \in Request, CallStep(r),
         call[r].pc = "emit", call[r].event = None, NEW q
  PROVE  \/ Reports(r) /\ Concerns(q, call'[r].event)
         \/ Withheld(q, r)
<1>0. /\ call \in [Request -> CallRecord] /\ call[r] \in CallRecord
      /\ call[r].item # None /\ call[r].in # None /\ call[r].in.op # "GetItem"
  BY DEF IInv, CallsOK, CallOK, Equipped
<1>1. CASE AckLost(r)
  BY <1>0, <1>1 DEF AckLost, Fail, Become, Withheld, CallRecord
<1>2. CASE Emit(r)
  <2> DEFINE told == [ op |-> EventOp(call[r].in.op), type |-> call[r].item.type,
                       owner |-> call[r].item.owner ]
             event == IF Suppressed(call[r].item.type) THEN None ELSE told
             n == [call[r] EXCEPT !.pc = "done", !.result = "ok", !.event = event]
  <2>1. call' = [call EXCEPT ![r] = n]
    BY <1>2 DEF Emit, Become
  <2>2. n.pc = "done" /\ n.event = event
    BY <1>0 DEF CallRecord
  <2> HIDE DEF n
  <2>3. call'[r] = n
    BY <1>0, <2>1
  <2>4. CASE Suppressed(call[r].item.type)
    BY <2>2, <2>3, <2>4 DEF Withheld, Suppressed, Registered
  <2>5. CASE ~Suppressed(call[r].item.type)
    <3>1. told \in Event
      BY <1>0 DEF CallRecord, EventOp, Event, Item, Input, Op
    <3>2. event = told /\ told # None
      BY <2>5, <3>1, RequestAssumption
    <3>3. CASE Subscribed(q, call[r].item)
      <4>1. Narrowed(q, told)
        BY <3>3 DEF Subscribed, Narrowed
      <4> QED
        BY <2>2, <2>3, <3>2, <4>1 DEF Reports, Concerns
    <3>4. CASE ~Subscribed(q, call[r].item)
      BY <2>2, <2>3, <3>4 DEF Withheld
    <3> QED
      BY <3>3, <3>4
  <2> QED
    BY <2>4, <2>5
<1>3. Emit(r) \/ AckLost(r)
  BY DEF CallStep, Start, Progress, GetByID, GetByKey, Handler, Handling,
         SaveDraft, SetFieldValue, Publish, Unpublish, Archive, Unarchive, Delete, GetItem,
         Write, Upsert, UpdateField, MissField, InsertField, DeleteOne, StoreFails, StorePC,
         PcIs
<1> QED
  BY <1>1, <1>2, <1>3

LEMMA ItemStepKeepsFresh ==
  ASSUME IInv, ReadersOK, items' \in [ID -> Version \cup {None}],
         NEW r \in Request, ItemStep(r), NEW c \in Consumer,
         call[r].pc = "emit" => call[r].event = None,
         NEW i \in ID, FreshAt(consumer[c], items, call, i)
  PROVE  consumer'[c].query = consumer[c].query /\ FreshAt(consumer'[c], items', call', i)
<1> DEFINE k == consumer[c]
           n == consumer'[c]
<1>c. CallStep(r)
  BY DEF ItemStep
<1>0. /\ ReaderTyped(k) /\ n = Observed(k, r)
      /\ call[r].id \in ID \/ ~Withheld(k.query, r)
  BY WithheldID DEF ReadersOK, ReaderOK, ItemStep, Observe
<1> HIDE DEF n
<1>1. /\ n.query = k.query /\ n.pc = k.pc /\ n.left = k.left /\ n.rows = k.rows
      /\ n.copy = k.copy /\ n.wandered = k.wandered \cup Moving(k)
      /\ n.stale = (k.stale \/ (Reports(r) /\ Concerns(k.query, call'[r].event)))
      /\ n.missed = IF Withheld(k.query, r) THEN k.missed \cup {call[r].id} ELSE k.missed
  <2>1. ObservedAs(k, r, n)
    BY <1>0, ObservedFields
  <2> QED
    BY <2>1 DEF ObservedAs
<1> SUFFICES FreshAt(n, items', call', i)
  BY <1>1 DEF n
<1>2. CASE items'[i] # items[i]
  BY <1>c, <1>2, CallEffect DEF FreshAt
<1>4. CASE \E q \in Request : call[q].pc = "emit" /\ call[q].id = i
  <2>1. PICK q \in Request : call[q].pc = "emit" /\ call[q].id = i
    BY <1>4
  <2>2. CASE q # r
    BY <1>c, <2>1, <2>2, CallEffect DEF FreshAt
  <2>3. CASE q = r
    <3>1. \/ Reports(r) /\ Concerns(k.query, call'[r].event)
          \/ Withheld(k.query, r)
      BY <1>c, <2>1, <2>3, NotifyOK
    <3> QED
      BY <1>1, <2>1, <2>3, <3>1 DEF FreshAt
  <2> QED
    BY <2>2, <2>3
<1>5. CASE items'[i] = items[i] /\ ~\E q \in Request : call[q].pc = "emit" /\ call[q].id = i
  <2>1. i \notin Moving(k)
    BY <1>5 DEF Moving, Moves
  <2> QED
    BY <1>1, <1>5, <2>1 DEF FreshAt
<1> QED
  BY <1>2, <1>4, <1>5

LEMMA ReadStepKeepsFresh ==
  ASSUME IInv, ReadersOK, NEW c \in Consumer, ReadStep(c) \/ FindFails(c),
         consumer[c].query.view # None,
         NEW i \in ID, FreshAt(consumer[c], items, call, i)
  PROVE  FreshAt(consumer'[c], items, call, i)
<1> DEFINE k == consumer[c]
           n == consumer'[c]
<1> SUFFICES FreshAt(n, items, call, i)
  OBVIOUS
<1>0. /\ ReaderOK(k, items) /\ ReaderTyped(k) /\ consumer \in [Consumer -> ConsumerRecord]
      /\ items \in [ID -> Version \cup {None}]
  BY DEF ReadersOK, ReadersTyped, ReaderOK, IInv, ItemsOK
<1>s. ASSUME \E r \in Request : call[r].pc = "emit" /\ call[r].id = i
      PROVE  FreshAt(n, items, call, i)
  BY <1>s DEF FreshAt
<1>1. ASSUME k.pc = "idle", n = Fetched(k) PROVE FreshAt(n, items, call, i)
  BY <1>0, <1>1, FetchedFields DEF FreshAt
<1>2. ASSUME k.pc = "find", NEW j \in k.left \cup k.moved, n = Visited(k, j)
      PROVE  FreshAt(n, items, call, i)
  <2>1. k.query.view \in Views
    BY <1>0, <1>2 DEF ReaderOK, ReadingOK
  <2> HIDE DEF n, k
  <2>2. /\ n.query = k.query /\ n.pc = "find" /\ n.stale = k.stale
        /\ n.missed = k.missed
        /\ n.left = k.left \ {j} /\ n.wandered = k.wandered
        /\ n.rows[j] = k.rows[j] \o RowsOf(k.query, items[j])
        /\ \A m \in ID \ {j} : n.rows[m] = k.rows[m]
    <3>1. VisitedAs(k, j, n)
      BY <1>0, <1>2, <2>1, VisitedFields
    <3> QED
      BY <3>1 DEF VisitedAs
  <2>3. CASE i = j /\ i \in k.left /\ i \notin k.wandered
    <3>1. k.rows[i] = <<>> /\ items[i] \in Version \cup {None} /\ k.rows[i] \in Seq(Row)
      BY <1>0, <2>3 DEF ReaderTyped, ConsumerRecord, Rows
    <3>2. Depicts(k.rows[i] \o RowsOf(k.query, items[i]), k.query, items[i])
      BY <2>1, <3>1, VisitAdds
    <3> QED
      BY <2>2, <2>3, <3>2 DEF FreshAt
  <2>4. CASE i # j
    BY <1>2, <2>2, <2>4 DEF FreshAt, k
  <2>5. CASE i = j /\ ~(i \in k.left /\ i \notin k.wandered)
    <3>1. i \in k.wandered
      BY <1>0, <1>2, <2>5 DEF ReaderTyped
    <3> QED
      BY <1>2, <2>2, <3>1 DEF FreshAt, k
  <2> QED
    BY <2>3, <2>4, <2>5
<1>3. ASSUME k.pc = "find", k.left \cap Stored(items) \subseteq k.moved, n = Emptied(k)
      PROVE  FreshAt(n, items, call, i)
  <2>1. /\ n.query = k.query /\ n.pc = "found" /\ n.stale = k.stale
        /\ n.missed = k.missed /\ n.left = {} /\ n.wandered = k.wandered
        /\ n.rows = k.rows
    BY <1>0, <1>3, EmptiedFields
  <2>2. ASSUME i \in k.left, i \notin k.wandered
        PROVE  Depicts(k.rows[i], k.query, items[i])
    <3>1. items[i] = None
      BY <1>0, <1>3, <2>2 DEF ReaderTyped, Stored
    <3> QED
      BY <1>0, <2>2, <3>1 DEF ReaderTyped, Depicts
  <2> HIDE DEF n
  <2> QED
    BY <1>3, <2>1, <2>2 DEF FreshAt
<1>4. ASSUME k.pc = "found", n = [Ended(k) EXCEPT !.copy = k.rows]
      PROVE  FreshAt(n, items, call, i)
  <2>1. /\ n.query = k.query /\ n.pc = "idle" /\ n.stale = k.stale
        /\ n.missed = k.missed /\ n.copy = k.rows
    BY <1>0, <1>4, EndedFields
  <2> HIDE DEF n
  <2> QED
    BY <1>4, <2>1 DEF FreshAt
<1>5. ASSUME n = [Ended(k) EXCEPT !.stale = TRUE] PROVE FreshAt(n, items, call, i)
  BY <1>0, <1>5, EndedFields DEF FreshAt
<1>6. \A m : Reread(c, m) => n = m
  BY <1>0 DEF Reread
<1> HIDE DEF n
<1> QED
  BY <1>1, <1>2, <1>3, <1>4, <1>5, <1>6, ReadSteps

\* With nothing under way, only the copy, or a write withheld, is left.
LEMMA FreshGives ==
  ASSUME ReadersOK, NEW c \in Consumer, Quiet(c), NEW i \in ID,
         FreshAt(consumer[c], items, call, i)
  PROVE  UpToDate(c, i) \/ Untold(c, i)
<1>1. consumer[c].pc = "idle" /\ ~consumer[c].stale
  BY DEF Quiet, Resting, ReadersOK, ReaderOK
<1>2. \A r \in Request : call[r].pc # "emit"
  BY DEF Quiet, Active
<1> QED
  BY <1>1, <1>2 DEF FreshAt, UpToDate, Untold

LEMMA EventsOK ==
  ASSUME IInv, NEW r \in Request, CallStep(r),
         \A q \in Request : call[q].pc # "done" => call[q].event = None
  PROVE  \A q \in Request : call'[q].pc # "done" => call'[q].event = None
BY CallEffect

LEMMA ItemStepFreshOK ==
  ASSUME IInv, ReadersOK, FreshOK, items' \in [ID -> Version \cup {None}],
         NEW r \in Request, ItemStep(r)
  PROVE  FreshOK'
<1>1. ASSUME NEW c \in Consumer PROVE AllFresh(consumer'[c], items', call')
  <2>1. consumer'[c].query = consumer[c].query
    BY ObservedFields, WithheldID DEF ItemStep, Observe, ReadersOK, ReaderOK, ObservedAs
  <2> QED
    BY <2>1, ItemStepKeepsFresh DEF FreshOK, AllFresh
<1> QED
  BY <1>1, EventsOK DEF FreshOK, ItemStep

\* A read step changes its own consumer's record only, and never what it reads.
LEMMA ReadFrame ==
  ASSUME IInv, ReadersOK, NEW c \in Consumer, ReadStep(c) \/ FindFails(c)
  PROVE  /\ UNCHANGED <<items, call>>
         /\ consumer'[c].query = consumer[c].query
         /\ \A d \in Consumer \ {c} : consumer'[d] = consumer[d]
<1> DEFINE k == consumer[c]
<1>0. ReaderTyped(k) /\ consumer \in [Consumer -> ConsumerRecord]
      /\ (k.pc = "find" => k.query.view \in Views)
      /\ items \in [ID -> Version \cup {None}]
  BY DEF ReadersOK, ReadersTyped, ReaderOK, ReadingOK, IInv, ItemsOK
<1>1. UNCHANGED <<items, call>> /\ \A d \in Consumer \ {c} : consumer'[d] = consumer[d]
  BY <1>0 DEF ReadStep, FindFails, Fetch, Visit, Drained, GetSnapshot, Reread
<1>2. \A m : Reread(c, m) => consumer'[c] = m
  BY <1>0 DEF Reread
<1> HIDE DEF k
<1>3. k.pc = "idle" => Refused(k).query = k.query /\ Fetched(k).query = k.query
  BY <1>0, RefusedFields, FetchedFields
<1>4. k.pc = "find" => /\ Emptied(k).query = k.query
                       /\ \A i \in k.left \cup k.moved : Visited(k, i).query = k.query
  BY <1>0, EmptiedFields, VisitedFields DEF VisitedAs
<1>5. /\ [Ended(k) EXCEPT !.copy = k.rows].query = k.query
      /\ [Ended(k) EXCEPT !.stale = TRUE].query = k.query
  BY <1>0, EndedFields
<1>6. consumer'[c].query = k.query
  <2> USE DEF k
  <2> QED
    BY <1>2, <1>3, <1>4, <1>5, ReadSteps
<1> QED
  BY <1>1, <1>6 DEF k

LEMMA ReadStepFreshOK ==
  ASSUME IInv, ReadersOK, FreshOK, NEW c \in Consumer, ReadStep(c) \/ FindFails(c)
  PROVE  FreshOK'
<1>1. ASSUME NEW d \in Consumer PROVE AllFresh(consumer'[d], items, call)
  <2>1. CASE d = c
    BY <2>1, ReadFrame, ReadStepKeepsFresh DEF FreshOK, AllFresh
  <2>2. CASE d # c
    BY <2>2, ReadFrame DEF FreshOK
  <2> QED
    BY <2>1, <2>2
<1> QED
  BY <1>1, ReadFrame DEF FreshOK

LEMMA FreshInitOK == SnapshotsInit => FreshOK
<1> SUFFICES ASSUME SnapshotsInit PROVE FreshOK
  OBVIOUS
<1>1. \A c \in Consumer : consumer[c].stale = TRUE
  BY DEF SnapshotsInit
<1> QED
  BY <1>1 DEF FreshOK, AllFresh, FreshAt, SnapshotsInit, Init, Idle

SInv == IInv /\ ReadersOK /\ FreshOK

\* Reads and consumers: the inductive invariant.
THEOREM ReadInvariance == SnapshotsSpec => []SInv
<1>1. SnapshotsInit => SInv
  BY InitOK, ReadersInitOK, FreshInitOK DEF SnapshotsInit, SInv
<1>2. SInv /\ [SnapshotsNext]_readVars => SInv'
  <2> SUFFICES ASSUME IInv, ReadersOK, FreshOK, [SnapshotsNext]_readVars PROVE SInv'
    BY DEF SInv
  <2>1. ASSUME NEW r \in Request, ItemStep(r) PROVE SInv'
    <3>1. IInv'
      BY <2>1, StepOK DEF ItemStep, Next
    <3>2. items' \in [ID -> Version \cup {None}]
      BY <3>1 DEF IInv, ItemsOK
    <3> QED
      BY <2>1, <3>1, <3>2, ObserveOK, ItemStepFreshOK DEF ItemStep, SInv
  <2>2. ASSUME NEW c \in Consumer, ReadStep(c) \/ FindFails(c) PROVE SInv'
    <3>1. UNCHANGED vars
      BY <2>2, ReadFrame DEF vars
    <3> QED
      BY <2>2, <3>1, StepOK, ReadStepOK, ReadStepFreshOK DEF SInv
  <2>3. ASSUME AtRest \/ UNCHANGED readVars PROVE SInv'
    <3>1. UNCHANGED <<items, call, consumer>>
      BY <2>3 DEF AtRest, readVars
    <3>2. IInv'
      BY <3>1, StepOK DEF vars
    <3> QED
      BY <3>1, <3>2 DEF ReadersOK, ReadersTyped, FreshOK, SInv
  <2> QED
    BY <2>1, <2>2, <2>3 DEF SnapshotsNext
<1> QED
  BY <1>1, <1>2, PTL DEF SnapshotsSpec

\* A consumer holds rows of a read only while it reads, a cursor knows a version of
\* every document from the start of the read on, and shows nothing of one it has
\* not come to (engine.go:325-381, persistor.go:323-391).
THEOREM ReadsTypeCorrect == SnapshotsSpec => []SnapshotsTypeOK
<1>1. SInv => SnapshotsTypeOK
  BY TypedGives DEF SInv
<1> QED
  BY <1>1, ReadInvariance, PTL

------------------------------------------------------------------------------
\* What a read has seen is real: each row, and each absence of one, depicts a
\* version the item had between the start of the read and the visit of its
\* document, under every interleaving of reads, writes and failures
\* (engine.go:325-381, persistor.go:323-391).
THEOREM RowsDepictVersions == SnapshotsSpec => []RowsAreReal
<1>1. SInv => RowsAreReal
  BY ReadersGive DEF SInv
<1> QED
  BY <1>1, ReadInvariance, PTL

\* A consumer that reads again after each change that concerns it ends up with
\* what is stored, but for what it is never told, however its reads, the writes
\* and their notifications interleave (emit, engine.go:308-318).
THEOREM QuietConsumersAreFresh == SnapshotsSpec => []QuietIsFresh
<1>1. SInv => QuietIsFresh
  BY FreshGives DEF SInv, FreshOK, AllFresh, QuietIsFresh, Quiet
<1> QED
  BY <1>1, ReadInvariance, PTL

=============================================================================
