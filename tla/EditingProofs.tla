--------------------------- MODULE EditingProofs ---------------------------
(***************************************************************************)
(* Draft editing: calls that save on an expected revision, set fields,     *)
(* delete and read, racing in any number and in any order.  Proved of      *)
(* every behaviour in which the clients do so and no acknowledgement of a  *)
(* write is lost; store calls may fail.  Two kinds of client are shown to  *)
(* do so.  And bursts of field writes at one key, in which no store call   *)
(* fails.                                                                  *)
(***************************************************************************)
EXTENDS DisciplineProofs, FiniteSetTheorems

DraftOps == {"SaveDraft", "SetFieldValue", "Delete", "GetItem"}

\* Every SaveDraft states the revision it expects, and when it found an item that
\* is a revision the item had reached by then (SaveDraftInput, vo.go:111-127).
ClientsNameRevisions ==
  \A r \in Request :
    LET c == call[r] IN
    /\ c.pc # "idle" => /\ c.in.op \in DraftOps
                        /\ c.in.op = "SaveDraft" => c.in.expect # None
    /\ c.pc = "upsert" => c.id = r \/ c.in.expect < c.item.draft.revision

\* No acknowledgement of a write is lost.
AllAcknowledged == [][\A r \in Request : ~AckLost(r)]_vars

DraftEditing == []ClientsNameRevisions /\ AllAcknowledged

------------------------------------------------------------------------------
(* The history of one item, said of any call records, writes and document.  *)

Rev(calls, r) == calls[r].item.draft.revision
Overwrites(calls, r, s) == calls[r].in.op = "SaveDraft" \/ calls[r].in.slot = s
ValueOf(calls, r, s) == IF calls[r].in.op = "SaveDraft" THEN At(calls[r].in.fields, s)
                                                       ELSE calls[r].in.value

Replays(calls, fields, writes) ==
  \A s \in Slot :
    LET covering == {r \in writes : Overwrites(calls, r, s)} IN
    covering # {} =>
      \E r \in covering : /\ \A q \in covering : Rev(calls, q) <= Rev(calls, r)
                          /\ At(fields, s) = ValueOf(calls, r, s)

\* These writes are the last ones of a draft, one after the other: a revision
\* each, each on top of the one before, and of a new item all there are.
Serial(calls, i, writes, draft) ==
  /\ IsFiniteSet(writes)
  /\ {Rev(calls, r) : r \in writes}
       = (draft.revision - Cardinality(writes) + 1) .. draft.revision
  /\ \A q, r \in writes : Rev(calls, q) = Rev(calls, r) => q = r
  /\ i \in Request => draft.revision = Cardinality(writes)
  /\ Replays(calls, draft.fields, writes)
  /\ \A r \in writes :
       /\ Replays(calls, calls[r].item.draft.fields,
                  {q \in writes : Rev(calls, q) <= Rev(calls, r)})
       /\ calls[r].in.op = "SaveDraft" => Rev(calls, r) = calls[r].in.expect + 1

------------------------------------------------------------------------------
(* The inductive invariant.                                                 *)

HasWritten(c) == c.pc \in {"emit", "done"}

\* What a call has in hand is no newer than what is stored, but for the version
\* a SaveDraft is about to store.
HandOK(r) ==
  LET c == call[r]
      ahead == IF c.pc = "upsert" THEN 1 ELSE 0
  IN
  ~HasWritten(c) =>
    /\ c.pc \in {"idle", "getByID", "setField", "insertField"} => c.id = None
    /\ c.pc = "upsert" => /\ c.in.op = "SaveDraft"
                          /\ \A s \in Slot : At(c.item.draft.fields, s) = At(c.in.fields, s)
    /\ c.pc # "idle" /\ c.in.op = "SaveDraft" => c.in.fields # None
    /\ c.pc = "delete" => c.in.op = "Delete"
    /\ c.id # None /\ ~Deleted(c.id) =>
         \/ /\ c.id \in Stored(items)
            /\ c.item.draft.revision <= items[c.id].draft.revision + ahead
         \/ /\ c.id = r /\ r \notin Stored(items)
            /\ c.pc = "upsert" /\ c.item.draft.revision = 1

\* An id of a call is nobody's before that call has created the item.
Made(i) == HasWritten(call[i]) /\ call[i].id = i
IdsOK ==
  \A i \in Request :
    /\ i \in Stored(items) => Made(i)
    /\ \A q \in Request \ {i} : call[q].id = i => Made(i)
    /\ Deleted(i) => Made(i)

HistoryOK ==
  \A i \in ID : ~Deleted(i) =>
    IF i \in Stored(items) THEN Serial(call, i, DraftWrites(i), items[i].draft)
                           ELSE DraftWrites(i) = {}

EditInv ==
  /\ \A r \in Request : HandOK(r)
  /\ IdsOK
  /\ HistoryOK
  /\ RevivedOnlyByCreate

------------------------------------------------------------------------------
(* Lemmas on histories.                                                     *)

\* Before its first write an item has a history of none.
LEMMA NoWrites ==
  ASSUME NEW calls, NEW i, NEW draft, draft.revision \in Nat,
         i \in Request => draft.revision = 0
  PROVE  Serial(calls, i, {}, draft)
<1>1. IsFiniteSet({}) /\ Cardinality({}) = 0
  BY FS_EmptySet
<1>2. (draft.revision - 0 + 1) .. draft.revision = {}
  BY SMT
<1>3. {Rev(calls, r) : r \in {}} = {}
  OBVIOUS
<1>4. Replays(calls, draft.fields, {})
  BY DEF Replays
<1> QED
  BY <1>1, <1>2, <1>3, <1>4 DEF Serial

\* A history says nothing of the calls that are not in it.
LEMMA SerialOfWrites ==
  ASSUME NEW calls, NEW next, NEW i, NEW W, NEW draft,
         \A q \in W : next[q].in = calls[q].in /\ next[q].item = calls[q].item,
         Serial(calls, i, W, draft)
  PROVE  Serial(next, i, W, draft)
<1>1. \A q \in W : /\ Rev(next, q) = Rev(calls, q)
                   /\ \A s : /\ Overwrites(next, q, s) = Overwrites(calls, q, s)
                            /\ ValueOf(next, q, s) = ValueOf(calls, q, s)
  BY DEF Rev, Overwrites, ValueOf
<1>2. ASSUME NEW fields, NEW V \in SUBSET W, Replays(calls, fields, V)
      PROVE  Replays(next, fields, V)
  <2> SUFFICES ASSUME NEW s \in Slot, {r \in V : Overwrites(next, r, s)} # {}
               PROVE  \E r \in {q \in V : Overwrites(next, q, s)} :
                        /\ \A q \in {p \in V : Overwrites(next, p, s)} :
                             Rev(next, q) <= Rev(next, r)
                        /\ At(fields, s) = ValueOf(next, r, s)
    BY DEF Replays
  <2>1. {r \in V : Overwrites(next, r, s)} = {r \in V : Overwrites(calls, r, s)}
    BY <1>1
  <2>2. PICK r \in {q \in V : Overwrites(calls, q, s)} :
               /\ \A q \in {p \in V : Overwrites(calls, p, s)} : Rev(calls, q) <= Rev(calls, r)
               /\ At(fields, s) = ValueOf(calls, r, s)
    BY <1>2, <2>1 DEF Replays
  <2>3. \A q \in {p \in V : Overwrites(next, p, s)} : Rev(next, q) <= Rev(next, r)
    BY <1>1, <2>1, <2>2
  <2>4. At(fields, s) = ValueOf(next, r, s)
    BY <1>1, <2>2
  <2> QED
    BY <2>1, <2>2, <2>3, <2>4
<1>3. {Rev(next, r) : r \in W} = {Rev(calls, r) : r \in W}
  BY <1>1
<1>4. \A r \in W : {q \in W : Rev(next, q) <= Rev(next, r)}
                    = {q \in W : Rev(calls, q) <= Rev(calls, r)}
  BY <1>1
<1>5. ASSUME NEW r \in W
      PROVE  Replays(next, next[r].item.draft.fields, {q \in W : Rev(next, q) <= Rev(next, r)})
  <2>1. Replays(calls, calls[r].item.draft.fields,
                {q \in W : Rev(calls, q) <= Rev(calls, r)})
    BY DEF Serial
  <2>2. Replays(next, calls[r].item.draft.fields,
                {q \in W : Rev(calls, q) <= Rev(calls, r)})
    BY <1>2, <2>1
  <2> QED
    BY <1>4, <2>2
<1>6. Replays(next, draft.fields, W)
  BY <1>2 DEF Serial
<1>7. /\ IsFiniteSet(W)
      /\ {Rev(next, r) : r \in W}
           = (draft.revision - Cardinality(W) + 1) .. draft.revision
      /\ i \in Request => draft.revision = Cardinality(W)
  BY <1>3 DEF Serial
<1>8. \A q, r \in W : Rev(next, q) = Rev(next, r) => q = r
  BY <1>1 DEF Serial
<1>9. \A r \in W : next[r].in.op = "SaveDraft" => Rev(next, r) = next[r].in.expect + 1
  BY <1>1 DEF Serial
<1> QED
  BY <1>5, <1>6, <1>7, <1>8, <1>9 DEF Serial

\* One more write, on top of the last: a SaveDraft replaces every slot, a field
\* write one, and each SaveDraft expected the revision it came on top of.
LEMMA NextWrite ==
  ASSUME NEW calls, NEW i, NEW W, NEW w, w \notin W,
         NEW old, NEW new, old.revision \in Nat,
         Serial(calls, i, W, old),
         new.revision = old.revision + 1,
         Rev(calls, w) = new.revision,
         calls[w].in.op = "SaveDraft" => calls[w].in.expect + 1 = new.revision,
         \A s \in Slot : /\ At(calls[w].item.draft.fields, s) = At(new.fields, s)
                         /\ At(new.fields, s) = IF Overwrites(calls, w, s)
                                                THEN ValueOf(calls, w, s)
                                                ELSE At(old.fields, s)
  PROVE  Serial(calls, i, W \cup {w}, new)
<1> DEFINE V == W \cup {w}
           n == old.revision
           k == Cardinality(W)
<1>1. /\ IsFiniteSet(W)
      /\ {Rev(calls, r) : r \in W} = (n - k + 1) .. n
      /\ \A q, r \in W : Rev(calls, q) = Rev(calls, r) => q = r
      /\ i \in Request => n = k
      /\ Replays(calls, old.fields, W)
      /\ \A r \in W :
           /\ Replays(calls, calls[r].item.draft.fields,
                      {q \in W : Rev(calls, q) <= Rev(calls, r)})
           /\ calls[r].in.op = "SaveDraft" => Rev(calls, r) = calls[r].in.expect + 1
  BY DEF Serial
<1>2. IsFiniteSet(V) /\ Cardinality(V) = k + 1 /\ k \in Nat
  BY <1>1, FS_AddElement, FS_CardinalityType
<1>3. \A r \in W : Rev(calls, r) \in Int /\ Rev(calls, r) <= n
  <2>1. \A r \in W : Rev(calls, r) \in (n - k + 1) .. n
    BY <1>1
  <2> QED
    BY <1>2, <2>1
<1>4. {Rev(calls, r) : r \in V} = (n + 1 - (k + 1) + 1) .. (n + 1)
  <2>1. {Rev(calls, r) : r \in V} = {Rev(calls, r) : r \in W} \cup {n + 1}
    OBVIOUS
  <2>2. n - k + 1 <= n + 1
    BY <1>2
  <2>3. ((n - k + 1) .. n) \cup {n + 1} = (n + 1 - (k + 1) + 1) .. (n + 1)
    BY <1>2, <2>2
  <2> QED
    BY <1>1, <2>1, <2>3
<1>5. \A q, r \in V : Rev(calls, q) = Rev(calls, r) => q = r
  BY <1>1, <1>3
<1>6. ASSUME NEW fields, \A s \in Slot : At(fields, s) = At(new.fields, s)
      PROVE  Replays(calls, fields, V)
  <2> SUFFICES ASSUME NEW s \in Slot, {r \in V : Overwrites(calls, r, s)} # {}
               PROVE  \E r \in {q \in V : Overwrites(calls, q, s)} :
                        /\ \A q \in {p \in V : Overwrites(calls, p, s)} :
                             Rev(calls, q) <= Rev(calls, r)
                        /\ At(fields, s) = ValueOf(calls, r, s)
    BY DEF Replays
  <2>1. CASE Overwrites(calls, w, s)
    <3>1. At(fields, s) = ValueOf(calls, w, s)
      BY <1>6, <2>1
    <3>2. \A q \in V : Rev(calls, q) <= Rev(calls, w)
      BY <1>3
    <3> QED
      BY <2>1, <3>1, <3>2
  <2>2. CASE ~Overwrites(calls, w, s)
    <3>1. {r \in V : Overwrites(calls, r, s)} = {r \in W : Overwrites(calls, r, s)}
      BY <2>2
    <3>2. At(fields, s) = At(old.fields, s)
      BY <1>6, <2>2
    <3> QED
      BY <1>1, <3>1, <3>2 DEF Replays
  <2> QED
    BY <2>1, <2>2
<1>7. ASSUME NEW r \in V
      PROVE  Replays(calls, calls[r].item.draft.fields,
                     {q \in V : Rev(calls, q) <= Rev(calls, r)})
  <2>1. CASE r = w
    <3>1. {q \in V : Rev(calls, q) <= Rev(calls, r)} = V
      BY <1>3, <2>1
    <3>2. Replays(calls, calls[w].item.draft.fields, V)
      BY <1>6
    <3> QED
      BY <2>1, <3>1, <3>2
  <2>2. CASE r \in W
    <3>1. {q \in V : Rev(calls, q) <= Rev(calls, r)}
            = {q \in W : Rev(calls, q) <= Rev(calls, r)}
      BY <1>3, <2>2
    <3> QED
      BY <1>1, <2>2, <3>1
  <2> QED
    BY <2>1, <2>2
<1>8. \A r \in V : calls[r].in.op = "SaveDraft" => Rev(calls, r) = calls[r].in.expect + 1
  BY <1>1
<1>9. i \in Request => new.revision = Cardinality(V)
  BY <1>1, <1>2
<1>10. {Rev(calls, r) : r \in V} = (new.revision - Cardinality(V) + 1) .. new.revision
  BY <1>2, <1>4
<1>11. Replays(calls, new.fields, V)
  BY <1>6
<1> HIDE DEF V
<1>12. Serial(calls, i, V, new)
  BY <1>2, <1>5, <1>7, <1>8, <1>9, <1>10, <1>11 DEF Serial
<1> QED
  BY <1>12 DEF V

------------------------------------------------------------------------------
(* The three kinds of steps a call takes, and why each keeps the invariant. *)

\* A step that writes nothing: a read, a refusal, a lost race, a retry.
LEMMA QuietStep ==
  ASSUME IInv, EditInv, NEW r \in Request, UNCHANGED items,
         \A q \in Request \ {r} : call'[q] = call[q],
         ~HasWritten(call[r]),
         call'[r].pc # "emit",
         call'[r].pc = "done" => call'[r].id = None \/ call'[r].in.op = "GetItem",
         call'[r].id \in {None, call[r].id, r} \cup Stored(items),
         HandOK(r)'
  PROVE  EditInv'
<1>1. \A q \in Request, op \in {"SaveDraft", "SetFieldValue", "Delete"} :
        Wrote(q, op)' <=> Wrote(q, op)
  BY DEF Wrote, HasWritten
<1>2. ~Wrote(r, "SaveDraft") /\ ~Wrote(r, "SetFieldValue") /\ ~Wrote(r, "Delete")
  BY DEF Wrote, HasWritten
<1>3. \A i : DraftWrites(i)' = DraftWrites(i) /\ r \notin DraftWrites(i)
  BY <1>1, <1>2 DEF DraftWrites
<1>4. \A i : Deleted(i)' <=> Deleted(i)
  BY <1>1, <1>2 DEF Deleted
<1>5. \A q \in Request : HandOK(q)'
  <2> SUFFICES ASSUME NEW q \in Request \ {r} PROVE HandOK(q)'
    OBVIOUS
  <2>1. HandOK(q) /\ call'[q] = call[q]
    BY DEF EditInv
  <2> QED
    BY <1>4, <2>1 DEF HandOK
<1>6. ~Made(r) /\ \A i \in Request \ {r} : Made(i)' <=> Made(i)
  BY DEF Made
<1>7. IdsOK'
  <2> SUFFICES ASSUME NEW i \in Request
               PROVE  /\ i \in Stored(items) => Made(i)'
                      /\ \A q \in Request \ {i} : call'[q].id = i => Made(i)'
                      /\ Deleted(i) => Made(i)'
    BY <1>4 DEF IdsOK
  <2>1. /\ i \in Stored(items) => Made(i)
        /\ \A q \in Request \ {i} : call[q].id = i => Made(i)
        /\ Deleted(i) => Made(i)
    BY DEF EditInv, IdsOK
  <2>2. i # None
    BY RequestAssumption DEF ID
  <2>3. ASSUME NEW q \in Request \ {i}, call'[q].id = i PROVE Made(i) /\ i # r
    <3>1. CASE q = r
      BY <1>6, <2>1, <2>2, <2>3, <3>1
    <3>2. CASE q # r
      BY <1>6, <2>1, <2>3, <3>2
    <3> QED
      BY <3>1, <3>2
  <2> QED
    BY <1>6, <2>1, <2>3
<1>8. HistoryOK'
  <2> SUFFICES ASSUME NEW i \in ID, ~Deleted(i)
               PROVE  IF i \in Stored(items)
                      THEN Serial(call', i, DraftWrites(i), items[i].draft)
                      ELSE DraftWrites(i) = {}
    BY <1>3, <1>4 DEF HistoryOK
  <2>1. IF i \in Stored(items) THEN Serial(call, i, DraftWrites(i), items[i].draft)
                               ELSE DraftWrites(i) = {}
    BY DEF EditInv, HistoryOK
  <2>2. \A q \in DraftWrites(i) : call'[q] = call[q]
    BY <1>3 DEF DraftWrites
  <2> QED
    BY <2>1, <2>2, SerialOfWrites
<1>9. RevivedOnlyByCreate'
  <2> SUFFICES ASSUME NEW p \in Request, Wrote(p, "Delete")', call'[p].id \in Stored(items)
               PROVE  \E q \in Request : /\ Wrote(q, "SaveDraft")' /\ call'[q].in.expect = 0
                                         /\ call'[q].id = call'[p].id
    BY DEF RevivedOnlyByCreate
  <2>1. p # r /\ Wrote(p, "Delete") /\ call'[p] = call[p]
    BY <1>1, <1>2
  <2>2. PICK q \in Request : /\ Wrote(q, "SaveDraft") /\ call[q].in.expect = 0
                             /\ call[q].id = call[p].id
    BY <2>1 DEF EditInv, RevivedOnlyByCreate
  <2> QED
    BY <1>1, <1>2, <2>1, <2>2
<1> QED
  BY <1>5, <1>7, <1>8, <1>9 DEF EditInv

\* The notification tells what the call has written.
LEMMA EmitStep ==
  ASSUME IInv, EditInv, NEW r \in Request, UNCHANGED items,
         \A q \in Request \ {r} : call'[q] = call[q],
         call[r].pc = "emit", call'[r].pc = "done",
         call'[r].in = call[r].in, call'[r].id = call[r].id, call'[r].item = call[r].item
  PROVE  EditInv'
<1>1. \A q \in Request : /\ HasWritten(call'[q]) <=> HasWritten(call[q])
                         /\ call'[q].in = call[q].in /\ call'[q].id = call[q].id
                         /\ call'[q].item = call[q].item
  BY DEF HasWritten
<1>2. \A q \in Request : \A op : Wrote(q, op)' <=> Wrote(q, op)
  BY <1>1 DEF Wrote, HasWritten
<1>3. \A i : DraftWrites(i)' = DraftWrites(i)
  BY <1>1, <1>2 DEF DraftWrites
<1>4. \A i : Deleted(i)' <=> Deleted(i)
  BY <1>1, <1>2 DEF Deleted
<1>5. \A q \in Request : HandOK(q)'
  <2>1. HandOK(r)'
    BY DEF HandOK, HasWritten
  <2> SUFFICES ASSUME NEW q \in Request \ {r} PROVE HandOK(q)'
    BY <2>1
  <2>2. HandOK(q) /\ call'[q] = call[q]
    BY DEF EditInv
  <2> QED
    BY <1>4, <2>2 DEF HandOK
<1>6. \A i \in Request : Made(i)' <=> Made(i)
  BY <1>1 DEF Made
<1>7. IdsOK'
  <2> SUFFICES ASSUME NEW i \in Request
               PROVE  /\ i \in Stored(items) => Made(i)
                      /\ \A q \in Request \ {i} : call[q].id = i => Made(i)
                      /\ Deleted(i) => Made(i)
    BY <1>1, <1>4, <1>6 DEF IdsOK
  <2> QED
    BY DEF EditInv, IdsOK
<1>8. HistoryOK'
  <2> SUFFICES ASSUME NEW i \in ID, ~Deleted(i)
               PROVE  IF i \in Stored(items)
                      THEN Serial(call', i, DraftWrites(i), items[i].draft)
                      ELSE DraftWrites(i) = {}
    BY <1>3, <1>4 DEF HistoryOK
  <2>1. IF i \in Stored(items) THEN Serial(call, i, DraftWrites(i), items[i].draft)
                               ELSE DraftWrites(i) = {}
    BY DEF EditInv, HistoryOK
  <2>2. \A q \in DraftWrites(i) : call'[q].in = call[q].in /\ call'[q].item = call[q].item
    BY <1>1 DEF DraftWrites
  <2> QED
    BY <2>1, <2>2, SerialOfWrites
<1>9. RevivedOnlyByCreate'
  <2>1. RevivedOnlyByCreate
    BY DEF EditInv
  <2> QED
    BY <1>1, <1>2, <2>1 DEF RevivedOnlyByCreate
<1> QED
  BY <1>5, <1>7, <1>8, <1>9 DEF EditInv

\* A draft write lands: on top of what is stored, or as a new item's first
\* revision; onto a deleted item only a create.
LEMMA LandStep ==
  ASSUME IInv, EditInv, NEW r \in Request, NEW j \in ID, NEW doc \in Version,
         items' = [items EXCEPT ![j] = doc],
         \A q \in Request \ {r} : call'[q] = call[q],
         ~HasWritten(call[r]),
         call'[r].pc = "emit", call'[r].id = j, call'[r].item # None,
         call'[r].in.op \in {"SaveDraft", "SetFieldValue"},
         call'[r].item.draft.revision = doc.draft.revision,
         \A s \in Slot : At(call'[r].item.draft.fields, s) = At(doc.draft.fields, s),
         j \in {call[r].id, r} \cup Stored(items),
         j \in Stored(items) /\ ~Deleted(j) =>
           /\ doc.draft.revision = items[j].draft.revision + 1
           /\ \A s \in Slot : At(doc.draft.fields, s) =
                IF Overwrites(call', r, s) THEN ValueOf(call', r, s)
                                           ELSE At(items[j].draft.fields, s),
         j \notin Stored(items) /\ ~Deleted(j) =>
           /\ j = r /\ doc.draft.revision = 1
           /\ \A s \in Slot : At(doc.draft.fields, s) =
                IF Overwrites(call', r, s) THEN ValueOf(call', r, s) ELSE None,
         ~Deleted(j) /\ call'[r].in.op = "SaveDraft"
           => call'[r].in.expect + 1 = doc.draft.revision,
         j \notin Stored(items) /\ Deleted(j)
           => call'[r].in.op = "SaveDraft" /\ call'[r].in.expect = 0
  PROVE  EditInv'
<1>1. /\ items \in [ID -> Version \cup {None}] /\ DOMAIN items' = ID
      /\ items'[j] = doc /\ \A i \in ID \ {j} : items'[i] = items[i]
      /\ doc # None /\ j # None /\ None \notin ID
  BY RequestAssumption, NoneIsNoVersion DEF IInv, ItemsOK
<1>2. \A i \in ID : i \in Stored(items)' <=> i = j \/ i \in Stored(items)
  BY <1>1 DEF Stored
<1>3. \A q \in Request, op \in {"SaveDraft", "SetFieldValue", "Delete"} :
        q # r => (Wrote(q, op)' <=> Wrote(q, op))
  BY DEF Wrote
<1>4. /\ ~Wrote(r, "SaveDraft") /\ ~Wrote(r, "SetFieldValue") /\ ~Wrote(r, "Delete")
      /\ ~Wrote(r, "Delete")'
      /\ Wrote(r, "SaveDraft")' \/ Wrote(r, "SetFieldValue")'
      /\ call'[r].in.op = "SaveDraft" => Wrote(r, "SaveDraft")'
  BY <1>1 DEF Wrote, HasWritten
<1>5. /\ \A i \in ID : r \notin DraftWrites(i)
      /\ \A i \in ID \ {j} : DraftWrites(i)' = DraftWrites(i)
      /\ DraftWrites(j)' = DraftWrites(j) \cup {r}
  BY <1>3, <1>4 DEF DraftWrites
<1>6. \A i : Deleted(i)' <=> Deleted(i)
  BY <1>3, <1>4 DEF Deleted
<1>7. ~Made(r) /\ \A i \in Request \ {r} : Made(i)' <=> Made(i)
  BY DEF Made
<1>8. IdsOK
  BY DEF EditInv
<1>9. r \notin Stored(items) /\ ~Deleted(r) /\ \A q \in Request \ {r} : call[q].id # r
  BY <1>7, <1>8 DEF IdsOK
<1>10. IdsOK'
  <2> SUFFICES ASSUME NEW i \in Request
               PROVE  /\ i \in Stored(items)' => Made(i)'
                      /\ \A q \in Request \ {i} : call'[q].id = i => Made(i)'
                      /\ Deleted(i) => Made(i)'
    BY <1>6 DEF IdsOK
  <2>1. CASE i = r
    <3>1. j = r => Made(r)'
      BY DEF Made, HasWritten
    <3> QED
      BY <1>1, <1>2, <1>9, <2>1, <3>1 DEF ID
  <2>2. CASE i # r
    <3>1. /\ i \in Stored(items) => Made(i)
          /\ \A q \in Request \ {i} : call[q].id = i => Made(i)
          /\ Deleted(i) => Made(i)
      BY <1>8 DEF IdsOK
    <3>2. i = j => Made(i)
      BY <2>2, <3>1
    <3> QED
      BY <1>1, <1>2, <1>7, <2>2, <3>1, <3>2 DEF ID
  <2> QED
    BY <2>1, <2>2
<1>11. \A q \in Request : HandOK(q)'
  <2>1. HandOK(r)'
    BY DEF HandOK, HasWritten
  <2> SUFFICES ASSUME NEW q \in Request \ {r} PROVE HandOK(q)'
    BY <2>1
  <2>2. HandOK(q) /\ call'[q] = call[q]
    BY DEF EditInv
  <2>3. CASE HasWritten(call[q]) \/ call[q].id = None \/ Deleted(call[q].id)
    BY <1>6, <2>2, <2>3 DEF HandOK
  <2>4. CASE ~HasWritten(call[q]) /\ call[q].id # None /\ ~Deleted(call[q].id)
    <3> DEFINE c == call[q]
               ahead == IF c.pc = "upsert" THEN 1 ELSE 0
    <3>1. CASE c.id # j
      <4>1. c.id \in ID
        <5>1. call[q] \in CallRecord
          BY DEF IInv, CallsOK
        <5> QED
          BY <2>4, <5>1 DEF CallRecord
      <4>2. items'[c.id] = items[c.id] /\ (c.id \in Stored(items)' <=> c.id \in Stored(items))
        BY <1>1, <1>2, <3>1, <4>1
      <4>3. q \in ID
        BY DEF ID
      <4> QED
        BY <1>6, <1>2, <2>2, <2>4, <3>1, <4>2, <4>3 DEF HandOK
    <3>2. CASE c.id = j
      <4>1. j \in Stored(items) /\ c.item.draft.revision <= items[j].draft.revision + ahead
        BY <2>2, <2>4, <3>2 DEF HandOK
      <4>2. doc.draft.revision = items[j].draft.revision + 1
        BY <2>4, <3>2, <4>1
      <4>3. items[j].draft.revision \in Nat
        BY <1>1, <4>1, NoneIsNoVersion DEF Stored, Snapshot
      <4>4. c.item.draft.revision \in Nat
        <5>1. c.item \in Version \cup {None} /\ (c.id = None <=> c.item = None)
          BY DEF IInv, CallsOK, CallOK, Equipped
        <5>2. c.item \in Version
          BY <2>4, <5>1
        <5> QED
          BY <5>2, NoneIsNoVersion DEF Snapshot
      <4>5. c.item.draft.revision <= doc.draft.revision + ahead
        BY <4>1, <4>2, <4>3, <4>4
      <4>6. /\ call'[q].id \in Stored(items)'
            /\ call'[q].item.draft.revision <=
                 items'[call'[q].id].draft.revision + (IF call'[q].pc = "upsert" THEN 1 ELSE 0)
        BY <1>1, <1>2, <2>2, <3>2, <4>5
      <4> QED
        BY <2>2, <2>4, <4>6 DEF HandOK
    <3> QED
      BY <3>1, <3>2
  <2> QED
    BY <2>3, <2>4
<1>12. HistoryOK'
  <2> SUFFICES ASSUME NEW i \in ID, ~Deleted(i)
               PROVE  IF i \in Stored(items)'
                      THEN Serial(call', i, DraftWrites(i)', items'[i].draft)
                      ELSE DraftWrites(i)' = {}
    BY <1>6 DEF HistoryOK
  <2>1. IF i \in Stored(items) THEN Serial(call, i, DraftWrites(i), items[i].draft)
                               ELSE DraftWrites(i) = {}
    BY DEF EditInv, HistoryOK
  <2>2. \A q \in DraftWrites(i) : call'[q] = call[q]
    BY <1>5 DEF DraftWrites
  <2>3. i \in Stored(items) => Serial(call', i, DraftWrites(i), items[i].draft)
    BY <2>1, <2>2, SerialOfWrites
  <2>4. CASE i # j
    <3>1. items'[i] = items[i] /\ (i \in Stored(items)' <=> i \in Stored(items))
      BY <1>1, <1>2, <2>4
    <3>2. DraftWrites(i)' = DraftWrites(i)
      BY <1>5, <2>4
    <3> QED
      BY <2>1, <2>3, <3>1, <3>2
  <2>5. CASE i = j
    <3> DEFINE W == DraftWrites(j)
    <3>1. r \notin W /\ Rev(call', r) = doc.draft.revision
      BY <1>5 DEF Rev
    <3>2. CASE j \in Stored(items)
      <4>1. items[j].draft.revision \in Nat
        BY <1>1, <3>2, NoneIsNoVersion DEF Stored, Snapshot
      <4>2. Serial(call', j, W \cup {r}, doc.draft)
        <5> DEFINE old == items[j].draft
                   new == doc.draft
        <5>1. /\ Serial(call', j, W, old) /\ old.revision \in Nat
              /\ new.revision = old.revision + 1
              /\ \A s \in Slot : At(new.fields, s) =
                   IF Overwrites(call', r, s) THEN ValueOf(call', r, s) ELSE At(old.fields, s)
          BY <2>3, <2>5, <3>2, <4>1
        <5>2. /\ call'[r].in.op = "SaveDraft" => call'[r].in.expect + 1 = new.revision
              /\ \A s \in Slot : At(call'[r].item.draft.fields, s) = At(new.fields, s)
              /\ Rev(call', r) = new.revision
          BY <2>5, <3>1
        <5> HIDE DEF W, old, new
        <5> QED
          BY <3>1, <5>1, <5>2, NextWrite DEF W, new
      <4> QED
        BY <1>1, <1>2, <1>5, <2>5, <4>2
    <3>3. CASE j \notin Stored(items)
      <4> DEFINE old == [revision |-> 0, fields |-> None]
                 new == doc.draft
      <4>1. W = {}
        BY <2>1, <2>5, <3>3
      <4>2. Serial(call', j, {}, old)
        BY NoWrites
      <4>3. /\ old.revision \in Nat /\ new.revision = old.revision + 1
            /\ \A s \in Slot : At(new.fields, s) =
                 IF Overwrites(call', r, s) THEN ValueOf(call', r, s) ELSE At(old.fields, s)
        BY <2>5, <3>3 DEF At, Raw
      <4>4. /\ call'[r].in.op = "SaveDraft" => call'[r].in.expect + 1 = new.revision
            /\ \A s \in Slot : At(call'[r].item.draft.fields, s) = At(new.fields, s)
            /\ Rev(call', r) = new.revision
        BY <2>5, <3>1
      <4>5. Serial(call', j, {} \cup {r}, new)
        <5> HIDE DEF old, new
        <5> QED
          BY <4>2, <4>3, <4>4, NextWrite
      <4>6. DraftWrites(j)' = {} \cup {r} /\ items'[j].draft = new /\ j \in Stored(items)'
        BY <1>1, <1>2, <1>5, <4>1
      <4> QED
        BY <2>5, <4>5, <4>6
    <3> QED
      BY <3>2, <3>3
  <2> QED
    BY <2>4, <2>5
<1>13. RevivedOnlyByCreate'
  <2> SUFFICES ASSUME NEW p \in Request, Wrote(p, "Delete")', call'[p].id \in Stored(items)'
               PROVE  \E q \in Request : /\ Wrote(q, "SaveDraft")' /\ call'[q].in.expect = 0
                                         /\ call'[q].id = call'[p].id
    BY DEF RevivedOnlyByCreate
  <2>1. p # r /\ Wrote(p, "Delete") /\ call'[p] = call[p]
    BY <1>3, <1>4
  <2>2. CASE call[p].id \in Stored(items)
    <3>1. PICK q \in Request : /\ Wrote(q, "SaveDraft") /\ call[q].in.expect = 0
                               /\ call[q].id = call[p].id
      BY <2>1, <2>2 DEF EditInv, RevivedOnlyByCreate
    <3> QED
      BY <1>3, <1>4, <2>1, <3>1
  <2>3. CASE call[p].id \notin Stored(items)
    <3>1. call[p].id \in ID
      BY <1>1, <2>1 DEF Stored
    <3>2. call[p].id = j
      BY <1>2, <2>1, <2>3, <3>1
    <3>3. Deleted(j)
      BY <2>1, <3>2 DEF Deleted
    <3> QED
      BY <1>4, <2>1, <2>3, <3>2, <3>3
  <2> QED
    BY <2>2, <2>3
<1> QED
  BY <1>10, <1>11, <1>12, <1>13 DEF EditInv

\* A delete ends the history of the item it removes.
LEMMA DeleteStep ==
  ASSUME IInv, EditInv, NEW r \in Request, NEW j \in ID,
         items' = [items EXCEPT ![j] = None],
         \A q \in Request \ {r} : call'[q] = call[q],
         call[r].pc = "delete", call[r].in.op = "Delete", call[r].id = j,
         call'[r].pc = "emit", call'[r].id = j, call'[r].in = call[r].in
  PROVE  EditInv'
<1>1. /\ items \in [ID -> Version \cup {None}] /\ DOMAIN items' = ID
      /\ items'[j] = None /\ \A i \in ID \ {j} : items'[i] = items[i]
      /\ j # None /\ None \notin ID
  BY RequestAssumption DEF IInv, ItemsOK
<1>2. \A i \in ID : i \in Stored(items)' <=> i # j /\ i \in Stored(items)
  BY <1>1 DEF Stored
<1>3. \A q \in Request, op \in {"SaveDraft", "SetFieldValue", "Delete"} :
        q # r => (Wrote(q, op)' <=> Wrote(q, op))
  BY DEF Wrote
<1>4. /\ ~Wrote(r, "SaveDraft") /\ ~Wrote(r, "SetFieldValue") /\ ~Wrote(r, "Delete")
      /\ ~Wrote(r, "SaveDraft")' /\ ~Wrote(r, "SetFieldValue")' /\ Wrote(r, "Delete")'
  BY <1>1 DEF Wrote
<1>5. \A i : DraftWrites(i)' = DraftWrites(i)
  BY <1>3, <1>4 DEF DraftWrites
<1>6. \A i : Deleted(i)' <=> i = j \/ Deleted(i)
  BY <1>3, <1>4 DEF Deleted
<1>7. ~Made(r) /\ \A i \in Request \ {r} : Made(i)' <=> Made(i)
  BY DEF Made, HasWritten
<1>8. IdsOK
  BY DEF EditInv
<1>9. r \notin Stored(items) /\ ~Deleted(r) /\ \A q \in Request \ {r} : call[q].id # r
  BY <1>7, <1>8 DEF IdsOK
<1>10. j # r
  <2>1. HandOK(r)
    BY DEF EditInv
  <2> QED
    BY <1>1, <1>9, <2>1 DEF HandOK, HasWritten
<1>11. IdsOK'
  <2> SUFFICES ASSUME NEW i \in Request
               PROVE  /\ i \in Stored(items)' => Made(i)'
                      /\ \A q \in Request \ {i} : call'[q].id = i => Made(i)'
                      /\ i = j \/ Deleted(i) => Made(i)'
    BY <1>6 DEF IdsOK
  <2>1. CASE i = r
    <3>1. r \in ID
      BY DEF ID
    <3> QED
      BY <1>2, <1>9, <1>10, <2>1, <3>1
  <2>2. CASE i # r
    <3>1. /\ i \in Stored(items) => Made(i)
          /\ \A q \in Request \ {i} : call[q].id = i => Made(i)
          /\ Deleted(i) => Made(i)
      BY <1>8 DEF IdsOK
    <3>2. i = j => Made(i)
      BY <2>2, <3>1
    <3> QED
      BY <1>1, <1>2, <1>7, <2>2, <3>1, <3>2 DEF ID
  <2> QED
    BY <2>1, <2>2
<1>12. \A q \in Request : HandOK(q)'
  <2>1. HandOK(r)'
    BY DEF HandOK, HasWritten
  <2> SUFFICES ASSUME NEW q \in Request \ {r} PROVE HandOK(q)'
    BY <2>1
  <2>2. HandOK(q) /\ call'[q] = call[q]
    BY DEF EditInv
  <2>3. call[q].id \in ID \cup {None} /\ q \in ID
    <3>1. call[q] \in CallRecord
      BY DEF IInv, CallsOK
    <3> QED
      BY <3>1 DEF CallRecord, ID
  <2>4. call[q].id \in {j, None} \/ (/\ items'[call[q].id] = items[call[q].id]
                                      /\ call[q].id \in Stored(items)' <=> call[q].id \in Stored(items))
    BY <1>1, <1>2, <2>3
  <2> QED
    BY <1>2, <1>6, <2>2, <2>3, <2>4 DEF HandOK
<1>13. HistoryOK'
  <2> SUFFICES ASSUME NEW i \in ID \ {j}, ~Deleted(i)
               PROVE  IF i \in Stored(items)
                      THEN Serial(call', i, DraftWrites(i), items[i].draft)
                      ELSE DraftWrites(i) = {}
    BY <1>1, <1>2, <1>5, <1>6 DEF HistoryOK
  <2>1. IF i \in Stored(items) THEN Serial(call, i, DraftWrites(i), items[i].draft)
                               ELSE DraftWrites(i) = {}
    BY DEF EditInv, HistoryOK
  <2>2. \A q \in DraftWrites(i) : call'[q] = call[q]
    BY <1>4 DEF DraftWrites
  <2> QED
    BY <2>1, <2>2, SerialOfWrites
<1>14. RevivedOnlyByCreate'
  <2> SUFFICES ASSUME NEW p \in Request, Wrote(p, "Delete")', call'[p].id \in Stored(items)'
               PROVE  \E q \in Request : /\ Wrote(q, "SaveDraft")' /\ call'[q].in.expect = 0
                                         /\ call'[q].id = call'[p].id
    BY DEF RevivedOnlyByCreate
  <2>1. call'[p].id \in ID
    BY <1>1 DEF Stored
  <2>2. call'[p].id # j /\ call'[p].id \in Stored(items)
    BY <1>2, <2>1
  <2>3. p # r /\ Wrote(p, "Delete") /\ call'[p] = call[p]
    BY <1>3, <2>2
  <2>4. PICK q \in Request : /\ Wrote(q, "SaveDraft") /\ call[q].in.expect = 0
                             /\ call[q].id = call[p].id
    BY <2>2, <2>3 DEF EditInv, RevivedOnlyByCreate
  <2> QED
    BY <1>3, <1>4, <2>3, <2>4
<1> QED
  BY <1>11, <1>12, <1>13, <1>14 DEF EditInv

------------------------------------------------------------------------------
(* Every step of a call is of one of these kinds.                           *)

LEMMA EditStep ==
  ASSUME IInv, EditInv, ClientsNameRevisions, ClientsNameRevisions',
         NEW r \in Request, CallStep(r), ~AckLost(r)
  PROVE  EditInv'
<1> DEFINE c == call[r]
<1>0. /\ items \in [ID -> Version \cup {None}] /\ DOMAIN items = ID
      /\ call \in [Request -> CallRecord] /\ c \in CallRecord /\ CallOK(c)
      /\ r \in ID /\ r # None
      /\ \A i \in Stored(items) : i \in ID /\ i # None /\ items[i] \in Version
  BY RequestAssumption DEF IInv, ItemsOK, CallsOK, ID, Stored
<1>1. /\ \A q \in Request \ {r} : call'[q] = call[q]
      /\ call'[r].id \in {None, call[r].id, r} \cup Stored(items)
  BY CallEffect
<1>2. HandOK(r) /\ IdsOK
  BY DEF EditInv
<1>3. ~HasWritten(c) => r \notin Stored(items) /\ ~Deleted(r)
  BY <1>2 DEF IdsOK, Made
<1>4. /\ c.id \in ID \cup {None} /\ c.item \in Version \cup {None}
      /\ c.id = None <=> c.item = None
      /\ c.pc # "idle" => c.in \in Input /\ c.in.op \in DraftOps
      /\ c.pc \in {"upsert", "delete", "emit"} => c.item # None /\ c.in.op # "GetItem"
      /\ c.pc \in {"setField", "insertField"} => Registered(c.type) /\ c.in.op = "SetFieldValue"
  BY <1>0 DEF CallOK, Equipped, CallRecord, ClientsNameRevisions
\* How the record of a call changes.
<1>5. ASSUME NEW pc, NEW id, NEW item, Hold(r, pc, id, item)
      PROVE  /\ call'[r].pc = pc /\ call'[r].id = id /\ call'[r].item = item
             /\ call'[r].in = c.in
  BY <1>0, <1>5 DEF Hold, Become, CallRecord
<1>6. ASSUME NEW id, NEW item, Return(r, id, item)
      PROVE  call'[r].pc = "done" /\ call'[r].id = id /\ call'[r].in = c.in
  BY <1>0, <1>6 DEF Return, Become, CallRecord
\* A quiet step by a call that holds what HandOK allows.
<1>7. ASSUME ~HasWritten(c), UNCHANGED items
      PROVE  \A i : Deleted(i) => Deleted(i)'
  <2>1. \A q \in Request : Wrote(q, "Delete") => q # r
    BY <1>7 DEF Wrote, HasWritten
  <2> QED
    BY <1>1, <2>1 DEF Deleted, Wrote
<1>8. ASSUME ~HasWritten(c), UNCHANGED items, call'[r].pc # "emit", HandOK(r)',
             call'[r].pc = "done" => call'[r].id = None \/ call'[r].in.op = "GetItem"
      PROVE  EditInv'
  BY <1>1, <1>8, QuietStep
<1>9. ASSUME ~HasWritten(c), UNCHANGED items, NEW kind, Fail(r, kind)
      PROVE  EditInv'
  <2>1. call'[r].pc = "done" /\ call'[r].id = None
    BY <1>0, <1>9 DEF Fail, Become, CallRecord
  <2>2. HandOK(r)'
    BY <2>1 DEF HandOK, HasWritten
  <2> QED
    BY <1>8, <1>9, <2>1, <2>2
\* A read or a handler passes on the item it has, or one just read.
<1>10. ASSUME c.pc \in {"getByID", "getByKey", "handler"}, UNCHANGED items,
              NEW pc \in {"getByKey", "handler", "delete"},
              pc = "delete" => c.in.op = "Delete",
              NEW id, NEW item, Hold(r, pc, id, item),
              \/ id = None
              \/ id = c.id /\ item = c.item
              \/ id \in Stored(items) /\ item = Decode(items[id])
       PROVE  EditInv'
  <2>1. /\ call'[r].pc = pc /\ call'[r].id = id /\ call'[r].item = item /\ call'[r].in = c.in
        /\ ~HasWritten(c)
    BY <1>5, <1>10 DEF HasWritten
  <2>2. c.in.op = "SaveDraft" => c.in.fields # None
    BY <1>2, <1>10 DEF HandOK, HasWritten
  <2>3. ASSUME id # None, ~Deleted(id)'
        PROVE  id \in Stored(items) /\ item.draft.revision <= items[id].draft.revision
    <3>1. CASE id = c.id /\ item = c.item
      <4>1. ~Deleted(c.id)
        BY <1>7, <1>10, <2>1, <2>3, <3>1
      <4>2. /\ c.id \in Stored(items)
            /\ c.item.draft.revision <= items[c.id].draft.revision + 0
        BY <1>2, <1>10, <2>1, <2>3, <3>1, <4>1 DEF HandOK
      <4>3. items[c.id].draft.revision \in Nat
        BY <1>0, <4>2, NoneIsNoVersion DEF Snapshot
      <4> QED
        BY <3>1, <4>2, <4>3
    <3>2. CASE id \in Stored(items) /\ item = Decode(items[id])
      <4>1. /\ items[id] \in Version /\ items[id].draft \in Snapshot
            /\ items[id].draft # None
        BY <1>0, <3>2, NoneIsNoVersion DEF Version, Honest
      <4>2. item.draft = DecodeSnapshot(items[id].draft)
        BY <3>2, <4>1 DEF Decode, Version, Item
      <4>3. item.draft.revision = items[id].draft.revision
        BY <4>1, <4>2 DEF DecodeSnapshot, Snapshot
      <4>4. items[id].draft.revision \in Nat
        BY <4>1 DEF Snapshot
      <4> QED
        BY <3>2, <4>3, <4>4
    <3> QED
      BY <1>10, <2>3, <3>1, <3>2
  <2>4. ASSUME id # None, ~Deleted(id)'
        PROVE  items[id].draft.revision \in Nat
    BY <1>0, <2>3, <2>4, NoneIsNoVersion DEF Snapshot
  <2>5. HandOK(r)'
    BY <1>10, <2>1, <2>2, <2>3, <2>4 DEF HandOK
  <2> QED
    BY <1>8, <1>10, <2>1, <2>5
<1>11. CASE \E in \in Inputs : Start(r, in)
  <2>1. PICK in \in Inputs : Start(r, in)
    BY <1>11
  <2>2. c.pc = "idle" /\ c.id = None /\ ~HasWritten(c) /\ UNCHANGED items
    BY <1>2, <2>1 DEF Start, PcIs, HandOK, HasWritten
  <2>3. CASE BadArguments(in)
    <3> DEFINE d == [c EXCEPT !.pc = "done", !.in = in, !.result = "badRequest"]
    <3>1. d.pc = "done" /\ d.id = None
      BY <1>0, <2>2 DEF CallRecord
    <3>2. call'[r] = d
      BY <1>0, <2>1, <2>3 DEF Start, Become
    <3>3. HandOK(r)'
      BY <3>1, <3>2 DEF HandOK, HasWritten
    <3> QED
      BY <1>8, <2>2, <3>1, <3>2, <3>3
  <2>4. CASE ~BadArguments(in)
    <3> DEFINE d == [c EXCEPT !.pc = FirstStep(in), !.in = in]
    <3>1. d.pc = FirstStep(in) /\ d.in = in /\ d.id = None
      BY <1>0, <2>2 DEF CallRecord
    <3>2. call'[r] = d
      BY <1>0, <2>1, <2>4 DEF Start, Become
    <3>3. FirstStep(in) \in {"getByID", "getByKey", "handler"}
      BY DEF FirstStep
    <3>4. in.op = "SaveDraft" => in.fields # None
      BY <2>4 DEF BadArguments, BadSave
    <3> HIDE DEF d
    <3>5. HandOK(r)'
      BY <3>1, <3>2, <3>3, <3>4 DEF HandOK
    <3> QED
      BY <1>8, <2>2, <3>1, <3>2, <3>3, <3>5
  <2> QED
    BY <2>3, <2>4
<1>12. CASE GetByID(r)
  <2>1. c.pc = "getByID" /\ ~HasWritten(c) /\ UNCHANGED items
    BY <1>12 DEF GetByID, PcIs, HasWritten
  <2> DEFINE next == IF c.in.key # None THEN "getByKey" ELSE "handler"
  <2>2. next \in {"getByKey", "handler"}
    OBVIOUS
  <2>3. \/ \E i \in Stored(items) : Hold(r, next, i, Decode(items[i]))
        \/ Hold(r, next, None, None)
        \/ \E kind : Fail(r, kind)
    BY <1>12 DEF GetByID, FindByID
  <2> HIDE DEF next
  <2>4. next # "delete"
    BY <2>2
  <2>5. CASE \E i \in Stored(items) : Hold(r, next, i, Decode(items[i]))
    BY <1>10, <2>1, <2>2, <2>4, <2>5
  <2>6. CASE Hold(r, next, None, None)
    BY <1>10, <2>1, <2>2, <2>4, <2>6
  <2> QED
    BY <1>9, <2>1, <2>3, <2>5, <2>6
<1>13. CASE GetByKey(r)
  <2>1. c.pc = "getByKey" /\ ~HasWritten(c) /\ UNCHANGED items
    BY <1>13 DEF GetByKey, PcIs, HasWritten
  <2>2. \/ \E i \in Stored(items) : Hold(r, "handler", i, Decode(items[i]))
        \/ Hold(r, "handler", c.id, c.item)
        \/ \E kind : Fail(r, kind)
    BY <1>13 DEF GetByKey, FindByKey
  <2>3. CASE \E i \in Stored(items) : Hold(r, "handler", i, Decode(items[i]))
    BY <1>10, <2>1, <2>3
  <2>4. CASE Hold(r, "handler", c.id, c.item)
    BY <1>10, <2>1, <2>4
  <2> QED
    BY <1>9, <2>1, <2>2, <2>3, <2>4
<1>14. CASE SaveDraft(r)
  <2> DEFINE target == SaveTarget(c.in, c.item)
             new == SavedItem(c.in, target)
             id == IF c.item = None THEN r ELSE c.id
  <2>1. c.pc = "handler" /\ c.in.op = "SaveDraft" /\ ~HasWritten(c) /\ UNCHANGED items
    BY <1>14 DEF SaveDraft, Handling, PcIs, HasWritten
  <2>2. (\E kind : Fail(r, kind)) \/ Hold(r, "upsert", id, new)
    BY <1>14 DEF SaveDraft
  <2>3. CASE Hold(r, "upsert", id, new)
    <3>1. c.in.fields # None /\ c.in.fields \in FieldMap
      BY <1>2, <1>4, <2>1 DEF HandOK, Input
    <3>2. c.in.fields \notin {None, Missing}
      BY <3>1, NilAssumption
    <3> DEFINE draft == [ revision |-> IF target.draft = None THEN 1
                                       ELSE target.draft.revision + 1,
                          schema   |-> target.type,
                          fields   |-> c.in.fields ]
    <3>3. new.draft = draft /\ (c.item # None => target.draft = c.item.draft)
                            /\ (c.item = None => target.draft = None)
      <4>1. CASE c.item = None
        BY <4>1 DEF SaveTarget, SavedItem
      <4>2. CASE c.item # None
        <5>1. c.item \in Item
          BY <1>4, <4>2 DEF Version
        <5>2. target = [c.item EXCEPT !.key = IF c.item.key = None THEN c.in.key ELSE c.item.key]
          BY <4>2 DEF SaveTarget
        <5>3. target.draft = c.item.draft /\ "draft" \in DOMAIN target
          BY <5>1, <5>2 DEF Item
        <5>4. new.draft = draft
          <6> HIDE DEF target
          <6> QED
            BY <5>1, <5>2, <5>3 DEF SavedItem, Item, target
        <5> QED
          BY <4>2, <5>3, <5>4
      <4> QED
        BY <4>1, <4>2
    <3>4. \A s \in Slot : At(new.draft.fields, s) = At(c.in.fields, s)
      BY <3>2, <3>3 DEF At, Raw
    <3>5. /\ call'[r].pc = "upsert" /\ call'[r].id = id /\ call'[r].item = new
          /\ call'[r].in = c.in
      BY <1>5, <2>3
    <3> HIDE DEF target, new
    <3>6. \A i : Deleted(i) => Deleted(i)'
      BY <1>7, <2>1
    <3>7. CASE c.item = None
      <4>1. new.draft.revision = 1 /\ id = r
        BY <3>3, <3>7
      <4>2. HandOK(r)'
        BY <1>0, <1>3, <2>1, <3>1, <3>4, <3>5, <4>1 DEF HandOK
      <4> QED
        BY <1>8, <2>1, <3>5, <4>2
    <3>8. CASE c.item # None
      <4>1. id = c.id /\ c.id # None /\ c.item \in Version
        BY <1>4, <3>8
      <4>2. c.item.draft.revision \in Nat /\ c.item.draft # None
        BY <4>1, NoneIsNoVersion DEF Snapshot, Version, Honest
      <4>3. new.draft.revision = c.item.draft.revision + 1
        BY <3>3, <3>8, <4>2
      <4>4. PICK i : i = id
        OBVIOUS
      <4>5. ASSUME ~Deleted(i)'
            PROVE  i \in Stored(items) /\ new.draft.revision <= items[i].draft.revision + 1
        <5>1. ~Deleted(i) /\ i = c.id
          BY <3>6, <4>1, <4>4, <4>5
        <5>2. /\ c.id \in Stored(items)
              /\ c.item.draft.revision <= items[c.id].draft.revision + 0
          BY <1>2, <2>1, <4>1, <5>1 DEF HandOK
        <5>3. items[c.id].draft.revision \in Nat
          BY <1>0, <5>2, NoneIsNoVersion DEF Snapshot
        <5> QED
          BY <4>2, <4>3, <5>1, <5>2, <5>3
      <4>6. HandOK(r)'
        <5> HIDE DEF id
        <5>1. call'[r].id = i
          BY <3>5, <4>4
        <5> QED
          BY <2>1, <3>1, <3>4, <3>5, <4>5, <5>1 DEF HandOK
      <4> QED
        BY <1>8, <2>1, <3>5, <4>6
    <3> QED
      BY <3>7, <3>8
  <2> QED
    BY <1>9, <2>1, <2>2, <2>3
<1>15. CASE SetFieldValue(r)
  <2> DEFINE type == FieldWriteType(c.in, c.item)
             d == [c EXCEPT !.pc = "setField", !.type = type, !.id = None, !.item = None]
  <2>1. c.pc = "handler" /\ c.in.op = "SetFieldValue" /\ ~HasWritten(c) /\ UNCHANGED items
    BY <1>15 DEF SetFieldValue, Handling, PcIs, HasWritten
  <2>2. (\E kind : Fail(r, kind)) \/ Become(r, d)
    BY <1>15 DEF SetFieldValue
  <2>3. d.pc = "setField" /\ d.id = None /\ d.in = c.in
    BY <1>0 DEF CallRecord
  <2> HIDE DEF d
  <2>4. CASE Become(r, d)
    <3>1. call'[r] = d
      BY <1>0, <2>4 DEF Become
    <3>2. HandOK(r)'
      BY <2>1, <2>3, <3>1 DEF HandOK
    <3> QED
      BY <1>8, <2>1, <2>3, <3>1, <3>2
  <2> QED
    BY <1>9, <2>1, <2>2, <2>4
<1>16. CASE Publish(r) \/ Unpublish(r) \/ Archive(r) \/ Unarchive(r)
  <2>1. c.pc = "handler" /\ c.in.op \in {"Publish", "Unpublish", "Archive", "Unarchive"}
    BY <1>16 DEF Publish, Unpublish, Archive, Unarchive, Handling, PcIs
  <2> QED
    BY <1>4, <2>1 DEF DraftOps
<1>17. CASE Delete(r)
  <2>1. c.pc = "handler" /\ c.in.op = "Delete" /\ ~HasWritten(c) /\ UNCHANGED items
    BY <1>17 DEF Delete, Handling, PcIs, HasWritten
  <2>2. CASE Return(r, None, None)
    <3>1. call'[r].pc = "done" /\ call'[r].id = None
      BY <1>6, <2>2
    <3>2. HandOK(r)'
      BY <3>1 DEF HandOK, HasWritten
    <3> QED
      BY <1>8, <2>1, <3>1, <3>2
  <2>3. CASE Hold(r, "delete", c.id, c.item)
    BY <1>10, <2>1, <2>3
  <2> QED
    BY <1>17, <2>2, <2>3 DEF Delete
<1>18. CASE GetItem(r)
  <2>1. c.pc = "handler" /\ c.in.op = "GetItem" /\ ~HasWritten(c) /\ UNCHANGED items
    BY <1>18 DEF GetItem, Handling, PcIs, HasWritten
  <2>2. CASE Return(r, c.id, c.item)
    <3>1. call'[r].pc = "done" /\ call'[r].in.op = "GetItem"
      BY <1>6, <2>1, <2>2
    <3>2. HandOK(r)'
      BY <3>1 DEF HandOK, HasWritten
    <3> QED
      BY <1>8, <2>1, <3>1, <3>2
  <2> QED
    BY <1>9, <1>18, <2>1, <2>2 DEF GetItem
<1>19. CASE Upsert(r)
  <2> DEFINE e == c.in.expect
  <2>1. /\ c.pc = "upsert" /\ ~HasWritten(c) /\ c.in.op = "SaveDraft"
        /\ \A s \in Slot : At(c.item.draft.fields, s) = At(c.in.fields, s)
    BY <1>2, <1>19 DEF Upsert, PcIs, HasWritten, HandOK
  <2>2. /\ c.item \in Version /\ c.id \in ID /\ c.id # None /\ c.item # None
        /\ c.item.draft.revision \in Nat
    BY <1>4, <2>1, NoneIsNoVersion DEF Snapshot
  <2>3. Expected(c.in) = e /\ e # None /\ e \in Int
    BY <1>4, <2>1 DEF Expected, ClientsNameRevisions, Input
  <2>4. CASE \E kind : Fail(r, kind) /\ UNCHANGED items
    BY <1>9, <2>1, <2>4
  <2>5. CASE /\ UpsertLands(items, c.id, c.item, e)
             /\ items' = [items EXCEPT ![c.id] = c.item]
             /\ Hold(r, "emit", c.id, c.item)
    <3>1. /\ call'[r].pc = "emit" /\ call'[r].id = c.id /\ call'[r].item = c.item
          /\ call'[r].in = c.in
      BY <1>5, <2>5
    <3>2. /\ e = 0 => items[c.id] = None
          /\ e # 0 => RevisionMatches(items, c.id, e)
      BY <2>3, <2>5 DEF UpsertLands, UpsertConflicts
    <3>3. c.id \in Stored(items) <=> items[c.id] # None
      BY <1>0, <2>2 DEF Stored
    <3>4. \A s \in Slot : /\ Overwrites(call', r, s)
                          /\ At(c.item.draft.fields, s) = ValueOf(call', r, s)
      BY <2>1, <3>1 DEF Overwrites, ValueOf
    <3>5. ASSUME c.id \in Stored(items), ~Deleted(c.id)
          PROVE  c.item.draft.revision = items[c.id].draft.revision + 1
                 /\ e + 1 = c.item.draft.revision
      <4>1. items[c.id].draft.revision = e
        BY <3>2, <3>3, <3>5 DEF RevisionMatches
      <4>2. c.id # r
        BY <1>3, <2>1, <3>5
      <4>3. e < c.item.draft.revision
        BY <2>1, <4>2 DEF ClientsNameRevisions
      <4>4. c.item.draft.revision <= items[c.id].draft.revision + 1
        BY <1>2, <2>1, <2>2, <3>5 DEF HandOK
      <4> QED
        BY <2>2, <2>3, <4>1, <4>3, <4>4
    <3>6. ASSUME c.id \notin Stored(items), ~Deleted(c.id)
          PROVE  c.id = r /\ c.item.draft.revision = 1 /\ e = 0
      BY <1>2, <2>1, <2>2, <3>2, <3>3, <3>6 DEF HandOK, RevisionMatches
    <3>7. c.id \notin Stored(items) => e = 0
      BY <3>2, <3>3 DEF RevisionMatches
    <3>8. ~Deleted(c.id) => e + 1 = c.item.draft.revision
      BY <3>5, <3>6
    <3>9. call'[r].in.op = "SaveDraft" /\ call'[r].in.expect = e
      BY <2>1, <3>1
    <3> HIDE DEF e
    <3> QED
      BY <1>1, <2>1, <2>2, <2>5, <3>1, <3>4, <3>5, <3>6, <3>7, <3>8, <3>9, LandStep
  <2> QED
    BY <1>19, <2>3, <2>4, <2>5 DEF Upsert
<1>20. CASE UpdateField(r)
  <2>1. c.pc = "setField" /\ ~HasWritten(c) /\ c.in.op = "SetFieldValue"
    BY <1>4, <1>20 DEF UpdateField, PcIs, HasWritten
  <2>2. CASE \E kind : Fail(r, kind) /\ UNCHANGED items
    BY <1>9, <2>1, <2>2
  <2>3. ASSUME NEW i \in Stored(items), NEW doc,
               doc = FieldUpdated(items[i], c.type, c.in.slot, c.in.value),
               items' = [items EXCEPT ![i] = doc],
               Hold(r, "emit", i, Decode(doc))
        PROVE  EditInv'
    <3>1. i \in ID /\ items[i] \in Version /\ items[i] \in Item /\ items[i].draft \in Snapshot
      BY <1>0, <2>3, NoneIsNoVersion DEF Version
    <3>2. doc \in Version
      BY <1>4, <2>1, <2>3, <3>1, FieldUpdateIsVersion
    <3>3. /\ doc.draft.revision = items[i].draft.revision + 1
          /\ doc.draft.fields = MergeField(items[i].draft.fields, c.in.slot, c.in.value)
      BY <2>3, <3>1 DEF FieldUpdated, Item
    <3>4. /\ items[i].draft.fields \in FieldMap \cup {None, Missing}
          /\ c.in.value \in Value \cup {None}
      BY <1>4, <2>1, <3>1 DEF Snapshot, Input
    <3>5. /\ call'[r].pc = "emit" /\ call'[r].id = i /\ call'[r].item = Decode(doc)
          /\ call'[r].in = c.in
      BY <1>5, <2>3
    <3>6. \A s \in Slot : At(doc.draft.fields, s) =
            IF Overwrites(call', r, s) THEN ValueOf(call', r, s)
                                       ELSE At(items[i].draft.fields, s)
      BY <2>1, <3>3, <3>4, <3>5, MergedSlot DEF Overwrites, ValueOf
    <3>7. /\ Decode(doc) # None
          /\ Decode(doc).draft.revision = doc.draft.revision
          /\ \A s \in Slot : At(Decode(doc).draft.fields, s) = At(doc.draft.fields, s)
      BY <3>2, DecodedDraft
    <3>8. /\ call'[r].item # None /\ call'[r].in.op = "SetFieldValue"
          /\ call'[r].item.draft.revision = doc.draft.revision
          /\ \A s \in Slot : At(call'[r].item.draft.fields, s) = At(doc.draft.fields, s)
      BY <2>1, <3>5, <3>7
    <3> QED
      BY <1>1, <2>1, <2>3, <3>1, <3>2, <3>3, <3>5, <3>6, <3>8, LandStep
  <2> QED
    BY <1>20, <2>2, <2>3 DEF UpdateField, FieldTargets, FindByKey, FindByID
<1>21. CASE MissField(r)
  <2>1. /\ c.pc = "setField" /\ ~HasWritten(c) /\ c.in.op = "SetFieldValue"
        /\ c.id = None /\ UNCHANGED items
    BY <1>2, <1>4, <1>21 DEF MissField, PcIs, HasWritten, HandOK
  <2> DEFINE d == [c EXCEPT !.pc = "insertField"]
  <2>2. d.pc = "insertField" /\ d.id = None /\ d.in = c.in
    BY <1>0, <2>1 DEF CallRecord
  <2>3. (\E kind : Fail(r, kind)) \/ Become(r, d)
    BY <1>21 DEF MissField
  <2> HIDE DEF d
  <2>4. CASE Become(r, d)
    <3>1. call'[r] = d
      BY <1>0, <2>4 DEF Become
    <3>2. HandOK(r)'
      BY <2>1, <2>2, <3>1 DEF HandOK
    <3> QED
      BY <1>8, <2>1, <2>2, <3>1, <3>2
  <2> QED
    BY <1>9, <2>1, <2>3, <2>4
<1>22. CASE InsertField(r)
  <2> DEFINE doc == FieldInserted(c.in.key, c.type, c.in.owner, c.in.slot, c.in.value)
             d == [c EXCEPT !.pc = "setField", !.retried = TRUE]
  <2>1. /\ c.pc = "insertField" /\ ~HasWritten(c) /\ c.in.op = "SetFieldValue"
        /\ c.id = None
    BY <1>2, <1>4, <1>22 DEF InsertField, PcIs, HasWritten, HandOK
  <2>2. d.pc = "setField" /\ d.id = None /\ d.in = c.in
    BY <1>0, <2>1 DEF CallRecord
  <2>3. \/ /\ items' = [items EXCEPT ![r] = doc]
           /\ Hold(r, "emit", r, Decode(doc))
        \/ /\ (\E kind : Fail(r, kind)) \/ Become(r, d)
           /\ UNCHANGED items
    BY <1>22 DEF InsertField
  <2>4. /\ doc \in Version /\ doc.draft.revision = 1
        /\ doc.draft.fields = MergeField(Missing, c.in.slot, c.in.value)
    BY <1>4, <2>1, FieldInsertIsVersion DEF FieldInserted
  <2> HIDE DEF d, doc
  <2>5. CASE Become(r, d) /\ UNCHANGED items
    <3>1. call'[r] = d
      BY <1>0, <2>5 DEF Become
    <3>2. HandOK(r)'
      BY <2>1, <2>2, <3>1 DEF HandOK
    <3> QED
      BY <1>8, <2>1, <2>2, <2>5, <3>1, <3>2
  <2>6. CASE items' = [items EXCEPT ![r] = doc] /\ Hold(r, "emit", r, Decode(doc))
    <3>1. /\ call'[r].pc = "emit" /\ call'[r].id = r /\ call'[r].item = Decode(doc)
          /\ call'[r].in = c.in
      BY <1>5, <2>6
    <3>2. c.in.value \in Value \cup {None}
      BY <1>4, <2>1 DEF Input
    <3>3. \A s \in Slot : At(doc.draft.fields, s) =
            IF Overwrites(call', r, s) THEN ValueOf(call', r, s) ELSE None
      <4>1. \A s \in Slot : At(Missing, s) = None
        BY DEF At, Raw
      <4> QED
        BY <2>1, <2>4, <3>1, <3>2, <4>1, MergedSlot DEF Overwrites, ValueOf
    <3>4. /\ Decode(doc) # None
          /\ Decode(doc).draft.revision = doc.draft.revision
          /\ \A s \in Slot : At(Decode(doc).draft.fields, s) = At(doc.draft.fields, s)
      BY <2>4, DecodedDraft
    <3>5. r \notin Stored(items) /\ ~Deleted(r)
      BY <1>3, <2>1
    <3>6. /\ call'[r].item # None /\ call'[r].in.op = "SetFieldValue"
          /\ call'[r].item.draft.revision = doc.draft.revision
          /\ \A s \in Slot : At(call'[r].item.draft.fields, s) = At(doc.draft.fields, s)
      BY <2>1, <3>1, <3>4
    <3> QED
      BY <1>0, <1>1, <2>1, <2>4, <2>6, <3>1, <3>3, <3>5, <3>6, LandStep
  <2> QED
    BY <1>9, <2>1, <2>3, <2>5, <2>6
<1>23. CASE DeleteOne(r)
  <2>1. c.pc = "delete" /\ c.in.op = "Delete" /\ c.id \in ID
    BY <1>2, <1>4, <1>23 DEF DeleteOne, PcIs, HandOK, HasWritten
  <2>2. call'[r].pc = "emit" /\ call'[r].id = c.id /\ call'[r].in = c.in
    BY <1>5, <1>23 DEF DeleteOne
  <2> QED
    BY <1>1, <1>23, <2>1, <2>2, DeleteStep DEF DeleteOne
<1>24. CASE Emit(r)
  <2> DEFINE event == IF Suppressed(c.item.type) THEN None
                      ELSE [ op |-> EventOp(c.in.op), type |-> c.item.type,
                             owner |-> c.item.owner ]
             d == [c EXCEPT !.pc = "done", !.result = "ok", !.event = event]
  <2>1. d.pc = "done" /\ d.in = c.in /\ d.id = c.id /\ d.item = c.item
    BY <1>0 DEF CallRecord
  <2>2. call'[r] = d
    BY <1>0, <1>24 DEF Emit, Become
  <2> HIDE DEF d
  <2> QED
    BY <1>1, <1>24, <2>1, <2>2, EmitStep DEF Emit, PcIs
<1>25. CASE StoreFails(r)
  <2>1. ~HasWritten(c)
    BY <1>25 DEF StoreFails, StorePC, HasWritten
  <2> QED
    BY <1>9, <1>25, <2>1 DEF StoreFails
<1> QED
  BY <1>11, <1>12, <1>13, <1>14, <1>15, <1>16, <1>17, <1>18, <1>19, <1>20, <1>21, <1>22,
     <1>23, <1>24, <1>25 DEF CallStep, Progress, Handler, Write

------------------------------------------------------------------------------
(* The theorems.                                                            *)

LEMMA EditInit == Init => EditInv
<1> SUFFICES ASSUME Init PROVE EditInv
  OBVIOUS
<1>1. /\ items \in [ID -> Item \cup {None}] /\ Stored(items) \subseteq OldID
      /\ \A i \in Stored(items) : Honest(items[i])
      /\ \A i \in OldID : i \notin Request
      /\ \A r \in Request : r \in ID /\ r # None
  BY ContentsAssumption, RequestAssumption DEF Init, ID
<1>2. \A r \in Request : call[r] = Idle
  BY DEF Init
<1>3. \A r \in Request : \A op : ~Wrote(r, op)
  BY <1>2 DEF Wrote, Idle
<1>4. /\ \A i : DraftWrites(i) = {} /\ ~Deleted(i)
      /\ \A r \in Request : call[r].id = None
  BY <1>2, <1>3 DEF DraftWrites, Deleted, Idle
<1>5. \A r \in Request : HandOK(r)
  BY <1>2 DEF HandOK, Idle
<1>6. IdsOK
  BY <1>1, <1>4 DEF IdsOK
<1>7. HistoryOK
  <2> SUFFICES ASSUME NEW i \in Stored(items) PROVE Serial(call, i, {}, items[i].draft)
    BY <1>4 DEF HistoryOK
  <2>1. i \notin Request /\ items[i].draft.revision \in Nat
    <3>1. items[i] \in Item /\ items[i].draft # None
      BY <1>1 DEF Stored, Honest
    <3> QED
      BY <1>1, <3>1 DEF Item, Snapshot
  <2> QED
    BY <2>1, NoWrites
<1>8. RevivedOnlyByCreate
  BY <1>3 DEF RevivedOnlyByCreate
<1> QED
  BY <1>5, <1>6, <1>7, <1>8 DEF EditInv

LEMMA EditStutter ==
  ASSUME EditInv, UNCHANGED vars
  PROVE  EditInv'
<1>1. items' = items /\ call' = call
  BY DEF vars
<1>2. \A r \in Request : HandOK(r)'
  <2> SUFFICES ASSUME NEW r \in Request PROVE HandOK(r)'
    OBVIOUS
  <2>1. HandOK(r)
    BY DEF EditInv
  <2> QED
    BY <1>1, <2>1 DEF HandOK, HasWritten, Deleted, Wrote, Stored, At, Raw
<1>3. IdsOK'
  BY <1>1 DEF EditInv, IdsOK, Made, HasWritten, Deleted, Wrote, Stored
<1>4. HistoryOK'
  <2> SUFFICES ASSUME NEW i \in ID, ~Deleted(i)'
               PROVE  IF i \in Stored(items)'
                      THEN Serial(call, i, DraftWrites(i), items[i].draft)'
                      ELSE DraftWrites(i)' = {}
    BY DEF HistoryOK
  <2>1. /\ ~Deleted(i) /\ DraftWrites(i)' = DraftWrites(i)
        /\ items'[i].draft = items[i].draft /\ Stored(items)' = Stored(items)
    BY <1>1 DEF Deleted, DraftWrites, Wrote, Stored
  <2>2. IF i \in Stored(items) THEN Serial(call, i, DraftWrites(i), items[i].draft)
                               ELSE DraftWrites(i) = {}
    BY <2>1 DEF EditInv, HistoryOK
  <2> QED
    BY <1>1, <2>1, <2>2
<1>5. RevivedOnlyByCreate'
  BY <1>1 DEF EditInv, RevivedOnlyByCreate, Wrote, Stored
<1> QED
  BY <1>2, <1>3, <1>4, <1>5 DEF EditInv

\* The invariant of draft editing holds whatever the schedule, and also when
\* store calls fail before they take effect.
THEOREM EditInvariance == Spec /\ DraftEditing => []EditInv
<1>1. Init => EditInv
  BY EditInit
<1>2. /\ IInv /\ EditInv /\ ClientsNameRevisions /\ ClientsNameRevisions'
      /\ [Next]_vars /\ [\A r \in Request : ~AckLost(r)]_vars
      => EditInv'
  <2> SUFFICES ASSUME IInv, EditInv, ClientsNameRevisions, ClientsNameRevisions',
                      [Next]_vars, [\A r \in Request : ~AckLost(r)]_vars
               PROVE  EditInv'
    OBVIOUS
  <2>1. CASE UNCHANGED vars
    BY <2>1, EditStutter
  <2>2. CASE (\E r \in Request : CallStep(r)) /\ \A r \in Request : ~AckLost(r)
    BY <2>2, EditStep
  <2> QED
    BY <2>1, <2>2 DEF Next, Finished
<1> QED
  BY <1>1, <1>2, Invariance, PTL DEF Spec, DraftEditing, AllAcknowledged

LEMMA EditInvGives == IInv /\ EditInv => DraftWritesSerialize /\ OneWinner
<1> SUFFICES ASSUME IInv, EditInv PROVE DraftWritesSerialize /\ OneWinner
  OBVIOUS
<1>1. \A i : DraftWrites(i) \subseteq Request
  BY DEF DraftWrites
<1>2. ASSUME NEW fields, NEW W \in SUBSET Request, Replays(call, fields, W)
      PROVE  ReplayOf(fields, W)
  BY <1>2 DEF Replays, ReplayOf, Overwrites, Covers, Rev, RevisionOf, ValueOf, Written
<1>3. DraftWritesSerialize
  <2> SUFFICES ASSUME NEW i \in Stored(items), ~Deleted(i), DraftWrites(i) # {}
               PROVE  LET W == DraftWrites(i)
                          now == items[i].draft.revision
                      IN  /\ {RevisionOf(r) : r \in W} = (now - Cardinality(W) + 1) .. now
                          /\ i \in Request => now = Cardinality(W)
                          /\ ReplayOf(items[i].draft.fields, W)
                          /\ \A r \in W :
                               ReplayOf(call[r].item.draft.fields,
                                        {q \in W : RevisionOf(q) <= RevisionOf(r)})
    BY DEF DraftWritesSerialize
  <2> DEFINE W == DraftWrites(i)
             now == items[i].draft.revision
  <2>1. Serial(call, i, W, items[i].draft)
    BY DEF EditInv, HistoryOK, IInv, ItemsOK, Stored
  <2>2. {RevisionOf(r) : r \in W} = {Rev(call, r) : r \in W}
    BY DEF RevisionOf, Rev
  <2>3. /\ {RevisionOf(r) : r \in W} = (now - Cardinality(W) + 1) .. now
        /\ i \in Request => now = Cardinality(W)
    BY <2>1, <2>2 DEF Serial
  <2>4. ReplayOf(items[i].draft.fields, W)
    BY <1>1, <1>2, <2>1 DEF Serial
  <2>5. ASSUME NEW r \in W
        PROVE  ReplayOf(call[r].item.draft.fields, {q \in W : RevisionOf(q) <= RevisionOf(r)})
    <3>1. {q \in W : RevisionOf(q) <= RevisionOf(r)} = {q \in W : Rev(call, q) <= Rev(call, r)}
      BY DEF RevisionOf, Rev
    <3>2. Replays(call, call[r].item.draft.fields, {q \in W : Rev(call, q) <= Rev(call, r)})
      BY <2>1 DEF Serial
    <3> QED
      BY <1>1, <1>2, <3>1, <3>2
  <2> QED
    BY <2>3, <2>4, <2>5
<1>4. OneWinner
  <2> SUFFICES ASSUME NEW q \in Request, NEW r \in Request,
                      Wrote(q, "SaveDraft"), Wrote(r, "SaveDraft"),
                      call[q].id = call[r].id, ~Deleted(call[q].id),
                      call[q].in.expect = call[r].in.expect
               PROVE  q = r
    BY DEF OneWinner
  <2> DEFINE i == call[q].id
  <2>1. i \in ID
    <3>1. call[q] \in CallRecord
      BY DEF IInv, CallsOK
    <3> QED
      BY <3>1 DEF CallRecord, Wrote
  <2>2. q \in DraftWrites(i) /\ r \in DraftWrites(i)
    BY DEF DraftWrites
  <2>3. Serial(call, i, DraftWrites(i), items[i].draft)
    BY <2>1, <2>2 DEF EditInv, HistoryOK
  <2>4. /\ Rev(call, q) = call[q].in.expect + 1
        /\ Rev(call, r) = call[r].in.expect + 1
    BY <2>2, <2>3 DEF Serial, Wrote
  <2> QED
    BY <2>2, <2>3, <2>4 DEF Serial
<1> QED
  BY <1>3, <1>4

\* No acknowledged save or field write is lost while its item lives, whatever
\* they race with: one revision each, and both what is stored and what each
\* caller got back are their replay (persistor.go:208-268, engine.go:59-180).
THEOREM NoDraftWriteIsLost == Spec /\ DraftEditing => []DraftWritesSerialize
BY Invariance, EditInvariance, EditInvGives, PTL

\* Of any number of SaveDrafts that expect one revision, one is accepted
\* (vo.go:119, persistor.go:222-241).
THEOREM OneSaveWins == Spec /\ DraftEditing => []OneWinner
BY Invariance, EditInvariance, EditInvGives, PTL

\* No stale save or field write brings a deleted item back; a create-only save
\* under the id it once read is the one call that can (engine.go:289-306).
THEOREM DeleteIsFinal == Spec /\ DraftEditing => []RevivedOnlyByCreate
<1>1. EditInv => RevivedOnlyByCreate
  BY DEF EditInv
<1> QED
  BY <1>1, EditInvariance, PTL

------------------------------------------------------------------------------
(* Keys: a copy that is no older than the store has the key of the store.   *)

KeyHeld(r) ==
  LET c == call[r]
      ahead == IF c.pc = "upsert" THEN 1 ELSE 0
  IN
  \A i \in Stored(items) :
    /\ ~HasWritten(c) /\ c.id = i /\ ~Deleted(i)
    /\ items[i].key # None
    /\ c.item.draft.revision = items[i].draft.revision + ahead
    => c.item.key = items[i].key
KeysHeld == \A r \in Request : KeyHeld(r)

\* What KeysNeverChange says of one step.
KeysKept ==
  \A i \in Stored(items) :
    items[i].key # None /\ ~Deleted(i) /\ items'[i] # None => items'[i].key = items[i].key

\* A step that writes nothing leaves only the call's own copy to check.
LEMMA QuietKeys ==
  ASSUME KeysHeld, UNCHANGED items, NEW r \in Request,
         \A q \in Request \ {r} : call'[q] = call[q],
         \A i : Deleted(i) => Deleted(i)', KeyHeld(r)'
  PROVE  KeysHeld' /\ KeysKept
<1>1. KeysKept
  BY DEF KeysKept
<1>2. ASSUME NEW q \in Request \ {r} PROVE KeyHeld(q)'
  <2>1. KeyHeld(q)
    BY DEF KeysHeld
  <2> QED
    BY <2>1 DEF KeyHeld, HasWritten, Stored
<1> QED
  BY <1>1, <1>2 DEF KeysHeld

\* A write of a newer version with the same key: copies of the version before are
\* out of date, and of an item that is new there are none.
LEMMA LandedKeys ==
  ASSUME IInv, EditInv, KeysHeld, NEW r \in Request, HasWritten(call'[r]),
         \A q \in Request \ {r} : call'[q] = call[q],
         \A i : Deleted(i) => Deleted(i)',
         NEW i \in ID, NEW doc \in Version \cup {None}, items' = [items EXCEPT ![i] = doc],
         doc # None /\ i \in Stored(items) /\ ~Deleted(i) =>
           /\ doc.draft.revision = items[i].draft.revision + 1
           /\ items[i].key # None => doc.key = items[i].key,
         doc # None /\ i \notin Stored(items) /\ ~Deleted(i) => i = r /\ ~HasWritten(call[r])
  PROVE  KeysHeld' /\ KeysKept
<1>0. /\ items \in [ID -> Version \cup {None}] /\ DOMAIN items = ID
      /\ \A q \in Request : CallOK(call[q])
      /\ items'[i] = doc /\ \A j \in ID \ {i} : items'[j] = items[j]
      /\ \A j : j \in Stored(items)' <=> j \in ID /\ items'[j] # None
      /\ \A j \in Stored(items) : j \in ID /\ items[j] \in Version
  BY DEF IInv, ItemsOK, CallsOK, Stored
<1>1. KeysKept
  BY <1>0 DEF KeysKept
<1>2. ASSUME NEW q \in Request \ {r}, ~HasWritten(call[q]), call[q].id = i,
             doc # None, ~Deleted(i)',
             call[q].item.draft.revision = doc.draft.revision
                                           + IF call[q].pc = "upsert" THEN 1 ELSE 0
      PROVE  FALSE
  <2>1. ~Deleted(i) /\ i # None
    BY <1>2, RequestAssumption
  <2>2. HandOK(q)
    BY DEF EditInv
  <2>3. CASE i \in Stored(items)
    <3>1. call[q].item.draft.revision
            <= items[i].draft.revision + IF call[q].pc = "upsert" THEN 1 ELSE 0
      <4>1. ~(i = q /\ q \notin Stored(items))
        BY <2>3
      <4> QED
        BY <1>2, <2>1, <2>2, <4>1 DEF HandOK
    <3>2. items[i].draft.revision \in Nat
      BY <1>0, <2>3, NoneIsNoVersion DEF Snapshot
    <3>3. doc.draft.revision = items[i].draft.revision + 1
      BY <1>2, <2>1, <2>3
    <3> QED
      BY <1>2, <3>1, <3>2, <3>3
  <2>4. CASE i \notin Stored(items)
    <3>1. i = r /\ ~HasWritten(call[r]) /\ i \in Request
      BY <1>2, <2>1, <2>4
    <3>2. Made(i)
      BY <1>2, <3>1 DEF EditInv, IdsOK
    <3> QED
      BY <3>1, <3>2 DEF Made
  <2> QED
    BY <2>3, <2>4
<1>3. ASSUME NEW q \in Request \ {r} PROVE KeyHeld(q)'
  <2>1. KeyHeld(q) /\ call'[q] = call[q]
    BY DEF KeysHeld
  <2>2. CASE call[q].id = i
    BY <1>0, <1>2, <2>1, <2>2 DEF KeyHeld, HasWritten
  <2>3. CASE call[q].id # i
    <3>1. call[q].id \in Stored(items)' =>
            call[q].id \in Stored(items) /\ items'[call[q].id] = items[call[q].id]
      BY <1>0, <2>3 DEF Stored
    <3> QED
      BY <2>1, <3>1 DEF KeyHeld, HasWritten
  <2> QED
    BY <2>2, <2>3
<1>4. KeyHeld(r)'
  BY DEF KeyHeld, HasWritten
<1> QED
  BY <1>1, <1>3, <1>4 DEF KeysHeld

LEMMA KeysHeldStep ==
  ASSUME IInv, EditInv, ClientsNameRevisions, KeysHeld,
         NEW r \in Request, CallStep(r), ~AckLost(r)
  PROVE  KeysHeld' /\ KeysKept
<1> DEFINE c == call[r]
<1>0. /\ items \in [ID -> Version \cup {None}] /\ DOMAIN items = ID
      /\ c \in CallRecord /\ CallOK(c) /\ call \in [Request -> CallRecord]
      /\ r \in ID /\ r # None /\ None \notin ID
      /\ \A i \in Stored(items) : i \in ID /\ items[i] \in Version
      /\ \A q \in Request \ {r} : call'[q] = call[q]
      /\ HandOK(r) /\ IdsOK /\ KeyHeld(r)
  BY RequestAssumption, CallEffect DEF IInv, ItemsOK, CallsOK, ID, Stored, EditInv, KeysHeld
<1>1. ~HasWritten(c) => r \notin Stored(items) /\ ~Deleted(r)
  BY <1>0 DEF IdsOK, Made
<1>2. ASSUME NEW pc, NEW id, NEW item, Hold(r, pc, id, item)
      PROVE  /\ call'[r].pc = pc /\ call'[r].id = id /\ call'[r].item = item
             /\ call'[r].in = c.in
  BY <1>0, <1>2 DEF Hold, Become, CallRecord
<1>3. ~HasWritten(c) => \A i : Deleted(i) => Deleted(i)'
  <2>1. ~HasWritten(c) => \A q \in Request : Wrote(q, "Delete") => q # r
    BY DEF Wrote, HasWritten
  <2> QED
    BY <1>0, <2>1 DEF Deleted, Wrote
<1>4. ASSUME ~HasWritten(c), UNCHANGED items, KeyHeld(r)' PROVE KeysHeld' /\ KeysKept
  BY <1>0, <1>3, <1>4, QuietKeys
<1>5. ASSUME ~HasWritten(c), UNCHANGED items, NEW d, Become(r, d),
             HasWritten(d) \/ d.id = None
      PROVE  KeysHeld' /\ KeysKept
  <2>1. call'[r] = d /\ None \notin Stored(items)'
    BY <1>0, <1>5 DEF Become, Stored
  <2>2. KeyHeld(r)'
    BY <1>5, <2>1 DEF KeyHeld, HasWritten
  <2> QED
    BY <1>4, <1>5, <2>2
<1>6. ASSUME ~HasWritten(c), UNCHANGED items, NEW kind, Fail(r, kind)
      PROVE  KeysHeld' /\ KeysKept
  <2> DEFINE d == [c EXCEPT !.pc = "done", !.result = kind, !.id = None, !.item = None]
  <2>1. Become(r, d) /\ d.id = None
    BY <1>0, <1>6 DEF Fail, CallRecord
  <2> HIDE DEF d
  <2> QED
    BY <1>5, <1>6, <2>1
\* A read or a handler passes on the item it has, or one just read.
<1>7. ASSUME c.pc \in {"getByID", "getByKey", "handler"}, UNCHANGED items,
             NEW pc \in {"getByKey", "handler", "delete"}, NEW id, NEW item,
             Hold(r, pc, id, item),
             \/ id = None
             \/ id = c.id /\ item = c.item
             \/ id \in Stored(items) /\ item = Decode(items[id])
      PROVE  KeysHeld' /\ KeysKept
  <2>1. /\ call'[r].pc = pc /\ call'[r].id = id /\ call'[r].item = item
        /\ ~HasWritten(c) /\ pc # "upsert" /\ c.pc # "upsert"
    BY <1>2, <1>7 DEF HasWritten
  <2>2. /\ Stored(items)' = Stored(items) /\ None \notin Stored(items)
        /\ \A i : ~Deleted(i)' => ~Deleted(i)
    <3>1. \A i : ~Deleted(i)' => ~Deleted(i)
      BY <1>3, <2>1
    <3>2. Stored(items)' = Stored(items) /\ None \notin Stored(items)
      BY <1>0, <1>7 DEF Stored
    <3> QED
      BY <3>1, <3>2
  <2>3. ASSUME id = None PROVE KeyHeld(r)'
    BY <2>1, <2>2, <2>3 DEF KeyHeld
  <2>4. ASSUME id = c.id /\ item = c.item PROVE KeyHeld(r)'
    BY <1>0, <1>7, <2>1, <2>2, <2>4 DEF KeyHeld
  <2>5. ASSUME id \in Stored(items) /\ item = Decode(items[id]) PROVE KeyHeld(r)'
    <3>1. item.key = items[id].key
      BY <1>0, <2>5, ReadCopy
    <3> QED
      BY <1>7, <2>1, <3>1 DEF KeyHeld
  <2>6. KeyHeld(r)'
    BY <1>7, <2>3, <2>4, <2>5
  <2> QED
    BY <1>4, <1>7, <2>1, <2>6
<1>8. CASE \E in \in Inputs : Start(r, in)
  <2>1. PICK in \in Inputs : Start(r, in)
    BY <1>8
  <2> DEFINE bad == [c EXCEPT !.pc = "done", !.in = in, !.result = "badRequest"]
             started == [c EXCEPT !.pc = FirstStep(in), !.in = in]
  <2>2. c.pc = "idle" /\ c.id = None /\ ~HasWritten(c) /\ UNCHANGED items
    BY <1>0, <2>1 DEF Start, PcIs, HandOK, HasWritten
  <2>3. bad.id = None /\ started.id = None
    BY <1>0, <2>2 DEF CallRecord
  <2>4. Become(r, bad) \/ Become(r, started)
    BY <2>1 DEF Start
  <2> HIDE DEF bad, started
  <2> QED
    BY <1>5, <2>2, <2>3, <2>4
<1>9. CASE GetByID(r)
  <2> DEFINE next == IF c.in.key # None THEN "getByKey" ELSE "handler"
  <2>1. c.pc = "getByID" /\ ~HasWritten(c) /\ UNCHANGED items
        /\ next \in {"getByKey", "handler", "delete"}
    BY <1>9 DEF GetByID, PcIs, HasWritten
  <2>2. \/ \E i \in Stored(items) : Hold(r, next, i, Decode(items[i]))
        \/ Hold(r, next, None, None)
        \/ \E kind : Fail(r, kind)
    BY <1>9 DEF GetByID, FindByID
  <2> HIDE DEF next
  <2> QED
    BY <1>6, <1>7, <2>1, <2>2
<1>10. CASE GetByKey(r)
  <2>1. c.pc = "getByKey" /\ ~HasWritten(c) /\ UNCHANGED items
    BY <1>10 DEF GetByKey, PcIs, HasWritten
  <2>2. \/ \E i \in Stored(items) : Hold(r, "handler", i, Decode(items[i]))
        \/ Hold(r, "handler", c.id, c.item)
        \/ \E kind : Fail(r, kind)
    BY <1>10 DEF GetByKey, FindByKey
  <2> QED
    BY <1>6, <1>7, <2>1, <2>2
<1>11. CASE SaveDraft(r)
  <2> DEFINE new == SavedItem(c.in, SaveTarget(c.in, c.item))
             id == IF c.item = None THEN r ELSE c.id
  <2>1. c.pc = "handler" /\ ~HasWritten(c) /\ UNCHANGED items
    BY <1>11 DEF SaveDraft, Handling, PcIs, HasWritten
  <2>2. (\E kind : Fail(r, kind)) \/ Hold(r, "upsert", id, new)
    BY <1>11 DEF SaveDraft
  <2>3. /\ c.in \in Input /\ c.item \in Version \cup {None}
        /\ c.id = None <=> c.item = None
    BY <1>0, <2>1 DEF CallOK, Equipped, CallRecord
  <2>4. c.item # None =>
          /\ new.key = IF c.item.key = None THEN c.in.key ELSE c.item.key
          /\ new.draft.revision = c.item.draft.revision + 1
    BY <2>3, SavedCopy
  <2> HIDE DEF new
  <2>5. CASE Hold(r, "upsert", id, new)
    <3>1. call'[r].pc = "upsert" /\ call'[r].id = id /\ call'[r].item = new
      BY <1>2, <2>5
    <3>2. ASSUME NEW i \in Stored(items), id = i, ~Deleted(i), items[i].key # None,
                 new.draft.revision = items[i].draft.revision + 1
          PROVE  new.key = items[i].key
      <4>1. c.item # None /\ i = c.id
        BY <1>1, <2>1, <3>2
      <4>2. items[i].draft.revision \in Nat /\ c.item.draft.revision \in Nat
        BY <1>0, <2>3, <4>1, NoneIsNoVersion DEF Snapshot
      <4>3. c.item.draft.revision = items[i].draft.revision + 0
        BY <2>4, <3>2, <4>1, <4>2
      <4>4. c.item.key = items[i].key
        BY <1>0, <2>1, <3>2, <4>1, <4>3 DEF KeyHeld
      <4> QED
        BY <2>4, <3>2, <4>1, <4>4
    <3>3. \A i : ~Deleted(i)' => ~Deleted(i)
      BY <1>3, <2>1
    <3> HIDE DEF id
    <3>5. KeyHeld(r)'
      BY <2>1, <3>1, <3>2, <3>3 DEF KeyHeld, Stored
    <3> QED
      BY <1>4, <2>1, <3>5
  <2> QED
    BY <1>6, <2>1, <2>2, <2>5
<1>12. CASE SetFieldValue(r)
  <2> DEFINE d == [c EXCEPT !.pc = "setField", !.type = FieldWriteType(c.in, c.item),
                            !.id = None, !.item = None]
  <2>1. c.pc = "handler" /\ ~HasWritten(c) /\ UNCHANGED items /\ d.id = None
    BY <1>0, <1>12 DEF SetFieldValue, Handling, PcIs, HasWritten, CallRecord
  <2>2. (\E kind : Fail(r, kind)) \/ Become(r, d)
    BY <1>12 DEF SetFieldValue
  <2> HIDE DEF d
  <2> QED
    BY <1>5, <1>6, <2>1, <2>2
<1>13. CASE Publish(r) \/ Unpublish(r) \/ Archive(r) \/ Unarchive(r)
  <2>1. c.pc = "handler" /\ c.in.op \in {"Publish", "Unpublish", "Archive", "Unarchive"}
    BY <1>13 DEF Publish, Unpublish, Archive, Unarchive, Handling, PcIs
  <2> QED
    BY <2>1 DEF ClientsNameRevisions, DraftOps
<1>14. CASE Delete(r) \/ GetItem(r)
  <2>1. c.pc = "handler" /\ ~HasWritten(c) /\ UNCHANGED items
    BY <1>14 DEF Delete, GetItem, Handling, PcIs, HasWritten
  <2>2. \/ \E id, item : Return(r, id, item)
        \/ Hold(r, "delete", c.id, c.item)
        \/ \E kind : Fail(r, kind)
    BY <1>14 DEF Delete, GetItem
  <2>3. ASSUME NEW id, NEW item, Return(r, id, item) PROVE KeysHeld' /\ KeysKept
    <3> DEFINE d == [c EXCEPT !.pc = "done", !.result = "ok", !.id = id, !.item = item]
    <3>1. Become(r, d) /\ HasWritten(d)
      BY <1>0, <2>3 DEF Return, HasWritten, CallRecord
    <3> HIDE DEF d
    <3> QED
      BY <1>5, <2>1, <3>1
  <2> QED
    BY <1>6, <1>7, <2>1, <2>2, <2>3
<1>15. CASE Upsert(r)
  <2> DEFINE e == c.in.expect
  <2>1. c.pc = "upsert" /\ ~HasWritten(c) /\ c.in.op = "SaveDraft"
    BY <1>0, <1>15 DEF Upsert, PcIs, HasWritten, HandOK
  <2>2. /\ c.item \in Version /\ c.id \in ID /\ c.item.draft.revision \in Nat
        /\ Expected(c.in) = e /\ e # None /\ e \in Int
    <3>1. c.item \in Version /\ c.id \in ID /\ c.in \in Input
      BY <1>0, <2>1 DEF CallOK, Equipped, CallRecord
    <3> QED
      BY <2>1, <3>1, NoneIsNoVersion
         DEF Snapshot, Expected, ClientsNameRevisions, Input
  <2>3. CASE \E kind : Fail(r, kind) /\ UNCHANGED items
    BY <1>6, <2>1, <2>3
  <2>4. CASE /\ UpsertLands(items, c.id, c.item, e)
             /\ items' = [items EXCEPT ![c.id] = c.item]
             /\ Hold(r, "emit", c.id, c.item)
    <3>1. HasWritten(call'[r])
      BY <1>2, <2>4 DEF HasWritten
    <3>2. /\ e = 0 => items[c.id] = None
          /\ e # 0 => RevisionMatches(items, c.id, e)
      BY <2>2, <2>4 DEF UpsertLands, UpsertConflicts
    <3>3. ASSUME c.id \in Stored(items), ~Deleted(c.id)
          PROVE  /\ c.item.draft.revision = items[c.id].draft.revision + 1
                 /\ items[c.id].key # None => c.item.key = items[c.id].key
      <4>1. items[c.id].draft.revision = e
        BY <3>2, <3>3 DEF RevisionMatches, Stored
      <4>2. c.id # r
        BY <1>1, <2>1, <3>3
      <4>3. e < c.item.draft.revision
        BY <2>1, <4>2 DEF ClientsNameRevisions
      <4>4. c.item.draft.revision <= items[c.id].draft.revision + 1
        BY <1>0, <2>1, <2>2, <3>3, <4>2 DEF HandOK
      <4>5. c.item.draft.revision = items[c.id].draft.revision + 1
        BY <2>2, <4>1, <4>3, <4>4
      <4> QED
        BY <1>0, <2>1, <3>3, <4>5 DEF KeyHeld
    <3>4. ASSUME c.id \notin Stored(items), ~Deleted(c.id) PROVE c.id = r
      BY <1>0, <2>1, <2>2, <3>4 DEF HandOK
    <3> QED
      BY <1>0, <1>3, <2>1, <2>2, <2>4, <3>1, <3>3, <3>4, LandedKeys
  <2> QED
    BY <1>15, <2>2, <2>3, <2>4 DEF Upsert
<1>16. CASE UpdateField(r)
  <2>1. c.pc = "setField" /\ ~HasWritten(c)
    BY <1>16 DEF UpdateField, PcIs, HasWritten
  <2>2. CASE \E kind : Fail(r, kind) /\ UNCHANGED items
    BY <1>6, <2>1, <2>2
  <2>3. ASSUME NEW i \in Stored(items), NEW doc,
               doc = FieldUpdated(items[i], c.type, c.in.slot, c.in.value),
               items' = [items EXCEPT ![i] = doc],
               Hold(r, "emit", i, Decode(doc))
        PROVE  KeysHeld' /\ KeysKept
    <3>1. i \in ID /\ items[i] \in Version /\ items[i] \in Item
      BY <1>0 DEF Version
    <3>2. c.in \in Input /\ Registered(c.type)
      BY <1>0, <2>1 DEF CallOK, Equipped, CallRecord
    <3>3. doc \in Version
      BY <2>3, <3>1, <3>2, FieldUpdateIsVersion
    <3>4. doc.draft.revision = items[i].draft.revision + 1 /\ doc.key = items[i].key
      BY <2>3, <3>1 DEF FieldUpdated, Item
    <3>5. HasWritten(call'[r])
      BY <1>2, <2>3 DEF HasWritten
    <3> QED
      BY <1>0, <1>3, <2>1, <2>3, <3>1, <3>3, <3>4, <3>5, LandedKeys
  <2> QED
    BY <1>16, <2>2, <2>3 DEF UpdateField, FieldTargets, FindByKey, FindByID
<1>17. CASE MissField(r)
  <2> DEFINE d == [c EXCEPT !.pc = "insertField"]
  <2>1. c.pc = "setField" /\ ~HasWritten(c) /\ d.id = None /\ UNCHANGED items
    BY <1>0, <1>17 DEF MissField, PcIs, HasWritten, HandOK, CallRecord
  <2>2. (\E kind : Fail(r, kind)) \/ Become(r, d)
    BY <1>17 DEF MissField
  <2> HIDE DEF d
  <2> QED
    BY <1>5, <1>6, <2>1, <2>2
<1>18. CASE InsertField(r)
  <2> DEFINE doc == FieldInserted(c.in.key, c.type, c.in.owner, c.in.slot, c.in.value)
             d == [c EXCEPT !.pc = "setField", !.retried = TRUE]
  <2>1. c.pc = "insertField" /\ ~HasWritten(c) /\ d.id = None
    BY <1>0, <1>18 DEF InsertField, PcIs, HasWritten, HandOK, CallRecord
  <2>2. \/ items' = [items EXCEPT ![r] = doc] /\ Hold(r, "emit", r, Decode(doc))
        \/ ((\E kind : Fail(r, kind)) \/ Become(r, d)) /\ UNCHANGED items
    BY <1>18 DEF InsertField
  <2>3. doc \in Version
    <3>1. c.in \in Input /\ Registered(c.type)
      BY <1>0, <2>1 DEF CallOK, Equipped, CallRecord
    <3> QED
      BY <3>1, FieldInsertIsVersion
  <2> HIDE DEF doc, d
  <2>4. CASE items' = [items EXCEPT ![r] = doc] /\ Hold(r, "emit", r, Decode(doc))
    <3>1. HasWritten(call'[r])
      BY <1>2, <2>4 DEF HasWritten
    <3> QED
      BY <1>0, <1>1, <1>3, <2>1, <2>3, <2>4, <3>1, LandedKeys
  <2> QED
    BY <1>5, <1>6, <2>1, <2>2, <2>4
<1>19. CASE DeleteOne(r)
  <2>1. c.pc = "delete" /\ ~HasWritten(c) /\ c.id \in ID
    BY <1>0, <1>19 DEF DeleteOne, PcIs, HasWritten, CallOK, Equipped, CallRecord
  <2>2. HasWritten(call'[r]) /\ items' = [items EXCEPT ![c.id] = None]
    BY <1>2, <1>19 DEF DeleteOne, HasWritten
  <2> QED
    BY <1>0, <1>3, <2>1, <2>2, LandedKeys
<1>20. CASE Emit(r)
  <2> DEFINE event == IF Suppressed(c.item.type) THEN None
                      ELSE [ op |-> EventOp(c.in.op), type |-> c.item.type,
                             owner |-> c.item.owner ]
             d == [c EXCEPT !.pc = "done", !.result = "ok", !.event = event]
  <2>1. d.pc = "done" /\ d.in = c.in /\ d.id = c.id
    BY <1>0 DEF CallRecord
  <2>2. call'[r] = d /\ UNCHANGED items /\ c.pc = "emit"
    BY <1>0, <1>20 DEF Emit, Become, PcIs
  <2> HIDE DEF d
  <2>3. \A i : Deleted(i) => Deleted(i)'
    BY <1>0, <2>1, <2>2 DEF Deleted, Wrote
  <2>4. KeyHeld(r)'
    BY <2>1, <2>2 DEF KeyHeld, HasWritten
  <2> QED
    BY <1>0, <2>2, <2>3, <2>4, QuietKeys
<1>21. CASE StoreFails(r)
  <2>1. ~HasWritten(c)
    BY <1>21 DEF StoreFails, StorePC, HasWritten
  <2> QED
    BY <1>6, <1>21, <2>1 DEF StoreFails
<1> QED
  BY <1>8, <1>9, <1>10, <1>11, <1>12, <1>13, <1>14, <1>15, <1>16, <1>17, <1>18, <1>19,
     <1>20, <1>21 DEF CallStep, Progress, Handler, Write

\* The key an item has, or takes from a save that matches it by id and key, is
\* never written over, however many saves on stale copies bring others
\* (engine.go:434-436, persistor.go:224-231).
THEOREM KeysAreNotWrittenOver == Spec /\ DraftEditing => KeysNeverChange
<1>1. Init => KeysHeld
  <2>1. ASSUME Init, NEW r \in Request PROVE KeyHeld(r)
    <3>1. call[r].id = None /\ None \notin Stored(items)
      BY <2>1, RequestAssumption, ContentsAssumption DEF Init, Idle, Stored
    <3> QED
      BY <3>1 DEF KeyHeld
  <2> QED
    BY <2>1 DEF KeysHeld
<1>2. /\ IInv /\ EditInv /\ ClientsNameRevisions /\ KeysHeld
      /\ [Next]_vars /\ [\A r \in Request : ~AckLost(r)]_vars
      => KeysHeld' /\ (KeysKept \/ UNCHANGED vars)
  <2> SUFFICES ASSUME IInv, EditInv, ClientsNameRevisions, KeysHeld,
                      [Next]_vars, [\A r \in Request : ~AckLost(r)]_vars
               PROVE  KeysHeld' /\ (KeysKept \/ UNCHANGED vars)
    OBVIOUS
  <2>1. CASE UNCHANGED vars
    <3> SUFFICES ASSUME NEW r \in Request PROVE KeyHeld(r)'
      BY <2>1 DEF KeysHeld
    <3>1. KeyHeld(r)
      BY DEF KeysHeld
    <3> QED
      BY <2>1, <3>1 DEF vars, KeyHeld, HasWritten, Stored, Deleted, Wrote
  <2>2. CASE (\E r \in Request : CallStep(r)) /\ \A r \in Request : ~AckLost(r)
    BY <2>2, KeysHeldStep
  <2> QED
    BY <2>1, <2>2 DEF Next, Finished
<1>3. KeysKept \/ UNCHANGED vars =>
        [\A i \in Stored(items) :
           items[i].key # None /\ ~Deleted(i) /\ items'[i] # None
             => items'[i].key = items[i].key]_vars
  BY DEF KeysKept
<1> QED
  BY <1>1, <1>2, <1>3, EditInvariance, Invariance, PTL
     DEF Spec, DraftEditing, AllAcknowledged, KeysNeverChange

------------------------------------------------------------------------------
(* The hypothesis is what clients that know of at most one revision do.     *)

\* Clients that only create items or save on top of a first revision.
FirstRevisionClients ==
  \A in \in Inputs : /\ in.op \in DraftOps
                     /\ in.op = "SaveDraft" => in.expect \in {0, 1}

OnFirstRevision ==
  \A r \in Request :
    LET c == call[r] IN
    /\ c.pc # "idle" => c.in \in Inputs
    /\ c.pc = "upsert" => /\ c.in.op = "SaveDraft"
                          /\ c.id = r \/ c.item.draft.revision > 1

\* Such clients edit drafts in this sense, as long as no store call fails: the
\* theorems above are about the behaviours TLC explores, and many more
\* (SaveDraftInput.ExpectedRevision, vo.go:111-127).
THEOREM FirstRevisionEditing == FirstRevisionClients /\ ~Faults => (Spec => DraftEditing)
<1> SUFFICES ASSUME FirstRevisionClients, ~Faults PROVE Spec => DraftEditing
  OBVIOUS
<1>1. Init => OnFirstRevision
  BY DEF Init, Idle, OnFirstRevision
<1>2. IInv /\ OnFirstRevision /\ [Next]_vars => OnFirstRevision'
  <2> SUFFICES ASSUME IInv, OnFirstRevision, [Next]_vars PROVE OnFirstRevision'
    OBVIOUS
  <2>1. CASE UNCHANGED vars
    BY <2>1 DEF vars, OnFirstRevision
  <2>2. ASSUME NEW r \in Request, CallStep(r) PROVE OnFirstRevision'
    <3> DEFINE c == call[r]
    <3>1. \A q \in Request \ {r} : call'[q] = call[q]
      BY <2>2, InputKept
    <3>2. call'[r].in \in Inputs
      BY <2>2, InputKept DEF OnFirstRevision
    <3>3. ASSUME call'[r].pc = "upsert"
          PROVE  /\ call'[r].in.op = "SaveDraft"
                 /\ call'[r].id = r \/ call'[r].item.draft.revision > 1
      <4>1. Handler(r)
        BY <2>2, <3>3, InputKept
      <4>2. /\ c.pc = "handler" /\ call[r] \in CallRecord /\ call \in [Request -> CallRecord]
            /\ c.item \in Version \cup {None}
        BY <4>1 DEF Handler, SaveDraft, SetFieldValue, Publish, Unpublish, Archive, Unarchive,
                    Delete, GetItem, Handling, PcIs, IInv, CallsOK, CallOK
      <4>3. c.in.op \in DraftOps
        BY <4>2 DEF OnFirstRevision, FirstRevisionClients
      <4>4. ASSUME NEW d, Become(r, d) PROVE d.pc = "upsert" /\ call'[r] = d
        BY <3>3, <4>2, <4>4 DEF Become
      <4>5. ASSUME NEW kind, Fail(r, kind) PROVE FALSE
        <5> DEFINE d == [c EXCEPT !.pc = "done", !.result = kind, !.id = None, !.item = None]
        <5>1. d.pc = "done"
          BY <4>2 DEF CallRecord
        <5>2. Become(r, d)
          BY <4>5 DEF Fail
        <5> HIDE DEF d
        <5> QED
          BY <4>4, <5>1, <5>2
      <4>6. ASSUME SetFieldValue(r) PROVE FALSE
        <5> DEFINE d == [c EXCEPT !.pc = "setField", !.type = FieldWriteType(c.in, c.item),
                                  !.id = None, !.item = None]
        <5>1. d.pc = "setField"
          BY <4>2 DEF CallRecord
        <5>2. Become(r, d) \/ \E kind : Fail(r, kind)
          BY <4>6 DEF SetFieldValue
        <5> HIDE DEF d
        <5> QED
          BY <4>4, <4>5, <5>1, <5>2
      <4>7. ASSUME Delete(r) \/ GetItem(r) PROVE FALSE
        <5>1. ASSUME NEW id, NEW item, Return(r, id, item) PROVE FALSE
          BY <3>3, <4>2, <5>1 DEF Return, Become, CallRecord
        <5>2. ASSUME NEW id, NEW item, Hold(r, "delete", id, item) PROVE FALSE
          BY <3>3, <4>2, <5>2 DEF Hold, Become, CallRecord
        <5> QED
          BY <4>5, <4>7, <5>1, <5>2 DEF Delete, GetItem
      <4>8. ASSUME c.item # None
            PROVE  SavedItem(c.in, SaveTarget(c.in, c.item)).draft.revision > 1
        <5>1. c.item.draft.revision \in Nat /\ c.item.draft.revision > 0 /\ c.in \in Input
          BY <4>2, <4>8, NoneIsNoVersion, ActiveCall DEF Version, Honest, Snapshot, IInv
        <5> QED
          BY <4>2, <4>8, <5>1, SavedCopy
      <4>9. CASE SaveDraft(r)
        <5> DEFINE id == IF c.item = None THEN r ELSE c.id
                   new == SavedItem(c.in, SaveTarget(c.in, c.item))
                   d == [c EXCEPT !.pc = "upsert", !.id = id, !.item = new]
        <5>1. Become(r, d)
          BY <4>5, <4>9 DEF SaveDraft, Hold
        <5>2. d.id = id /\ d.item = new
          BY <4>2 DEF CallRecord
        <5> HIDE DEF d, new
        <5>3. call'[r].id = id /\ call'[r].item = new
          BY <4>4, <5>1, <5>2
        <5>4. call'[r].in.op = "SaveDraft"
          BY <2>2, <4>2, <4>9, InputKept DEF SaveDraft, Handling
        <5> QED
          BY <4>8, <5>3, <5>4 DEF new
      <4> QED
        BY <4>1, <4>3, <4>6, <4>7, <4>9
           DEF Handler, DraftOps, Publish, Unpublish, Archive, Unarchive, Handling
    <3> QED
      BY <3>1, <3>2, <3>3 DEF OnFirstRevision
  <2> QED
    BY <2>1, <2>2 DEF Next, Finished
<1>3. IInv /\ OnFirstRevision => ClientsNameRevisions
  <2> SUFFICES ASSUME IInv, OnFirstRevision, NEW r \in Request
               PROVE  LET c == call[r] IN
                      /\ c.pc # "idle" => /\ c.in.op \in DraftOps
                                          /\ c.in.op = "SaveDraft" => c.in.expect # None
                      /\ c.pc = "upsert" => c.id = r \/ c.in.expect < c.item.draft.revision
    BY DEF ClientsNameRevisions
  <2>1. 0 # None /\ 1 # None
    BY RequestAssumption
  <2>2. call[r].pc # "idle" => /\ call[r].in.op \in DraftOps
                               /\ call[r].in.op = "SaveDraft" => call[r].in.expect \in {0, 1}
    BY DEF OnFirstRevision, FirstRevisionClients
  <2>3. ASSUME call[r].pc = "upsert"
        PROVE  call[r].in.op = "SaveDraft" /\ call[r].item.draft.revision \in Nat
    <3>1. call[r].item \in Version
      BY <2>3 DEF IInv, CallsOK, CallOK, Equipped
    <3>2. call[r].in.op = "SaveDraft"
      BY <2>3 DEF OnFirstRevision
    <3> QED
      BY <3>1, <3>2, NoneIsNoVersion DEF Snapshot
  <2> QED
    <3>1. call[r].pc # "idle" /\ call[r].in.op = "SaveDraft" => call[r].in.expect # None
      BY <2>1, <2>2
    <3>2. ASSUME call[r].pc = "upsert"
          PROVE  call[r].id = r \/ call[r].in.expect < call[r].item.draft.revision
      <4>1. call[r].id = r \/ call[r].item.draft.revision > 1
        BY <3>2 DEF OnFirstRevision
      <4>2. call[r].in.expect \in {0, 1} /\ call[r].item.draft.revision \in Nat
        BY <2>2, <2>3, <3>2
      <4> QED
        BY <4>1, <4>2
    <3> QED
      BY <2>2, <3>1, <3>2
<1>4. ~Faults => AllAcknowledged
  <2>1. ~Faults => [\A r \in Request : ~AckLost(r)]_vars
    BY DEF AckLost
  <2> QED
    BY <2>1, PTL DEF AllAcknowledged
<1> QED
  BY <1>1, <1>2, <1>3, <1>4, Invariance, PTL DEF Spec, DraftEditing

------------------------------------------------------------------------------
(* And what clients do that save on top of a revision they were shown.      *)

\* The match names an item that has reached the revision the save expects.
Reached(in) ==
  \E i \in Stored(items) :
    /\ in.id = i \/ (in.key # None /\ items[i].key = in.key)
    /\ in.expect <= items[i].draft.revision

Informed(in) ==
  /\ in.op \in DraftOps
  /\ in.op = "SaveDraft" => in.expect # None /\ (in.expect = 0 \/ Reached(in))

\* Every client, when it makes its call, expects a revision that it can have seen.
InformedClients ==
  [][\A r \in Request : PcIs(r, "idle") /\ call'[r].pc # "idle" => Informed(call'[r].in)]_vars

OnReached(r) ==
  LET c == call[r] IN
  /\ c.pc # "idle" => /\ c.in.op \in DraftOps
                      /\ c.in.op = "SaveDraft" => c.in.expect # None
  /\ c.pc \in {"getByID", "getByKey", "handler"} /\ c.in.op = "SaveDraft" =>
       IF c.id = None THEN c.in.expect = 0 \/ Reached(c.in)
                      ELSE c.in.expect <= c.item.draft.revision
  /\ c.pc = "upsert" => c.id = r \/ c.in.expect < c.item.draft.revision

OnRevisions == \A r \in Request : OnReached(r)

LEMMA OnRevisionsNames == OnRevisions => ClientsNameRevisions
BY DEF OnRevisions, OnReached, ClientsNameRevisions

\* No draft write takes a revision back.
LEMMA RevisionsRise ==
  ASSUME IInv, EditInv, ClientsNameRevisions, NEW r \in Request, CallStep(r),
         NEW i \in Stored(items), items'[i] # None
  PROVE  items[i].draft.revision <= items'[i].draft.revision
<1> DEFINE c == call[r]
<1>0. /\ items \in [ID -> Version \cup {None}] /\ i \in ID /\ items[i] \in Version
      /\ c \in CallRecord
  BY DEF IInv, ItemsOK, CallsOK, Stored
<1>1. \A x \in Version : x.draft.revision \in Nat
  BY NoneIsNoVersion DEF Version, Snapshot
<1> SUFFICES ASSUME items'[i] # items[i]
             PROVE  items[i].draft.revision <= items'[i].draft.revision
  BY <1>0, <1>1
<1>2. ~HasWritten(c)
  <2>1. c.pc # "done" /\ (c.pc = "emit" => call'[r].pc = "done") /\ call'[r].pc = "emit"
    BY <1>0, CallEffect
  <2> QED
    BY <2>1 DEF HasWritten
<1>3. r \notin Stored(items)
  BY <1>2 DEF EditInv, IdsOK, Made
<1>4. Upsert(r) \/ UpdateField(r) \/ InsertField(r) \/ DeleteOne(r)
  BY DEF CallStep, Progress, Start, GetByID, GetByKey, Handler, SaveDraft, SetFieldValue,
     Publish, Unpublish, Archive, Unarchive, Delete, GetItem, Write, MissField, DeleteOne,
     Emit, StoreFails, AckLost, PcIs
<1>5. CASE Upsert(r)
  <2>1. /\ items' = [items EXCEPT ![c.id] = c.item]
        /\ UpsertLands(items, c.id, c.item, Expected(c.in)) /\ c.pc = "upsert"
    BY <1>5 DEF Upsert, PcIs
  <2>2. i = c.id /\ items'[i] = c.item /\ c.item \in Version
    BY <1>0, <2>1 DEF IInv, CallsOK, CallOK, Equipped
  <2>3. c.in.op = "SaveDraft" /\ c.in.expect # None /\ c.in.expect < c.item.draft.revision
    BY <1>2, <1>3, <2>1, <2>2 DEF EditInv, HandOK, ClientsNameRevisions
  <2>4. items[i].draft.revision = c.in.expect
    BY <2>1, <2>2, <2>3 DEF UpsertLands, UpsertConflicts, RevisionMatches, Expected, Stored
  <2> QED
    BY <1>0, <1>1, <2>2, <2>3, <2>4
<1>6. CASE UpdateField(r)
  <2>1. PICK j \in FieldTargets(items, c.in.id, c.in.key) :
          items' = [items EXCEPT ![j] = FieldUpdated(items[j], c.type, c.in.slot, c.in.value)]
    BY <1>6 DEF UpdateField
  <2>2. i = j /\ items'[i] = FieldUpdated(items[i], c.type, c.in.slot, c.in.value)
    BY <1>0, <2>1
  <2>3. c.in.value \in Value \cup {None}
    BY <1>6, ActiveCall DEF UpdateField, PcIs, IInv, Input
  <2>4. items'[i].draft.revision = items[i].draft.revision + 1
    BY <1>0, <2>2, <2>3, WrittenCopy
  <2> QED
    BY <1>0, <1>1, <2>4
<1>7. CASE InsertField(r)
  BY <1>0, <1>3, <1>7 DEF InsertField, Stored
<1>8. CASE DeleteOne(r)
  BY <1>0, <1>8 DEF DeleteOne
<1> QED
  BY <1>4, <1>5, <1>6, <1>7, <1>8

\* So what an item had reached stays reached while nobody deletes it.
LEMMA ReachedStays ==
  ASSUME MatchByOne, NoDeletes, IInv, MatchInv, KeySteady, EditInv, ClientsNameRevisions,
         NEW r \in Request, CallStep(r), NEW in \in Input, in.expect # None, Reached(in)
  PROVE  Reached(in)'
<1>1. PICK i \in Stored(items) :
        /\ in.id = i \/ (in.key # None /\ items[i].key = in.key)
        /\ in.expect <= items[i].draft.revision
  BY DEF Reached
<1>2. call[r].pc # "delete"
  <2>1. call[r].pc = "delete" => call[r].in.op = "Delete" /\ call[r].in \in Inputs
    BY DEF EditInv, HandOK, HasWritten, MatchInv, Matched
  <2> QED
    BY <2>1 DEF NoDeletes
<1>3. i \in Stored(items') /\ items'[i] # None
  BY <1>2, NothingLost DEF Stored
<1>4. items'[i].key = items[i].key
  BY <1>3, KeyKept
<1>5. items[i].draft.revision <= items'[i].draft.revision
  BY <1>3, RevisionsRise
<1>6. items[i] \in Version /\ items'[i] \in Version
  BY <1>3, StepOK DEF Next, IInv, ItemsOK, Stored
<1>7. \A x \in Version : x.draft.revision \in Nat
  BY NoneIsNoVersion DEF Version, Snapshot
<1>8. in.expect \in Int
  BY DEF Input
<1>9. in.expect <= items'[i].draft.revision
  BY <1>1, <1>5, <1>6, <1>7, <1>8
<1> QED
  BY <1>1, <1>3, <1>4, <1>9 DEF Reached

LEMMA OwnReach ==
  ASSUME MatchByOne, IInv, MatchInv, OnRevisions, NEW r \in Request, CallStep(r),
         PcIs(r, "idle") /\ call'[r].pc # "idle" => Informed(call'[r].in)
  PROVE  OnReached(r)'
<1> DEFINE c == call[r]
           d == call'[r]
<1>0. /\ c \in CallRecord /\ call \in [Request -> CallRecord]
      /\ items \in [ID -> Version \cup {None}] /\ KeysUnique(items)
      /\ c.item \in Version \cup {None} /\ (c.id = None <=> c.item = None)
      /\ c.pc # "idle" => d.in = c.in /\ c.in \in Input /\ c.in \in Inputs
      /\ OnReached(r) /\ Matched(r) /\ Onward(c, d)
  BY InputKept, ActiveCall, StepIsOnward
     DEF IInv, CallsOK, CallOK, Equipped, ItemsOK, MatchInv, Matched, OnRevisions
<1>1. ASSUME NEW pc, NEW id, NEW item, Hold(r, pc, id, item)
      PROVE  d.pc = pc /\ d.id = id /\ d.item = item
  BY <1>0, <1>1 DEF Hold, Become, CallRecord
<1>2. ASSUME NEW kind, Fail(r, kind) PROVE d.pc = "done"
  BY <1>0, <1>2 DEF Fail, Become, CallRecord
<1>3. ASSUME NEW id, NEW item, Return(r, id, item) PROVE d.pc = "done"
  BY <1>0, <1>3 DEF Return, Become, CallRecord
<1>4. d.pc # "idle" => /\ d.in.op \in DraftOps
                       /\ d.in.op = "SaveDraft" => d.in.expect # None
  BY <1>0 DEF OnReached, Informed, PcIs
<1>5. ASSUME d.pc \in {"getByID", "getByKey", "handler"}, d.in.op = "SaveDraft"
      PROVE  /\ items' = items
             /\ IF d.id = None THEN d.in.expect = 0 \/ Reached(d.in)
                               ELSE d.in.expect <= d.item.draft.revision
  <2>1. items' = items
    <3>1. \A i \in ID : items'[i] = items[i]
      BY <1>5, CallEffect
    <3>2. items' \in [ID -> Version \cup {None}]
      BY StepOK DEF Next, IInv, ItemsOK
    <3> QED
      BY <1>0, <3>1, <3>2
  <2>3. CASE c.pc = "idle"
    <3>1. d.id = None
      BY <1>0, <1>5, <2>3, CallEffect DEF Matched
    <3>2. d.in.expect = 0 \/ Reached(d.in)
      BY <1>5, <2>3 DEF PcIs, Informed
    <3> QED
      BY <2>1, <3>1, <3>2
  <2>4. CASE c.pc = "getByID"
    <3>1. GetByID(r)
      BY <1>2, <1>5, <2>4 DEF CallStep, Progress, Start, GetByKey, Handler, SaveDraft,
         SetFieldValue, Publish, Unpublish, Archive, Unarchive, Delete, GetItem, Handling,
         Write, Upsert, UpdateField, MissField, InsertField, DeleteOne, Emit, StoreFails,
         AckLost, PcIs
    <3>2. /\ c.in.id # None /\ c.in.key = None /\ c.id = None /\ c.in.op = "SaveDraft"
          /\ c.in.expect = 0 \/ Reached(c.in)
      BY <1>0, <1>5, <2>4 DEF Matched, MatchByOne, OnReached
    <3>3. PICK i \in FindByID(items, c.in.id) : d.id = i /\ d.item = Decode(items[i])
      BY <1>1, <1>2, <1>5, <3>1, <3>2 DEF GetByID, IDMustResolve
    <3>4. i = c.in.id /\ items[i] \in Version /\ i # None
      BY <1>0, <3>2, <3>3 DEF FindByID, Stored
    <3>5. d.item.draft.revision = items[i].draft.revision /\ items[i].draft.revision \in Nat
      BY <3>3, <3>4, ReadCopy, NoneIsNoVersion DEF Version, Snapshot
    <3>6. c.in.expect <= items[i].draft.revision
      BY <3>2, <3>4, <3>5 DEF Reached
    <3> QED
      BY <1>0, <2>1, <2>4, <3>3, <3>4, <3>5, <3>6
  <2>5. CASE c.pc = "getByKey"
    <3>1. GetByKey(r)
      BY <1>2, <1>5, <2>5 DEF CallStep, Progress, Start, GetByID, Handler, SaveDraft,
         SetFieldValue, Publish, Unpublish, Archive, Unarchive, Delete, GetItem, Handling,
         Write, Upsert, UpdateField, MissField, InsertField, DeleteOne, Emit, StoreFails,
         AckLost, PcIs
    <3>2. /\ c.in.key # None /\ c.in.id = None /\ c.in.op = "SaveDraft"
          /\ IF c.id = None THEN c.in.expect = 0 \/ Reached(c.in)
                            ELSE c.in.expect <= c.item.draft.revision
      BY <1>0, <1>5, <2>5 DEF Matched, MatchByOne, OnReached
    <3>3. CASE d.id = c.id /\ d.item = c.item
      BY <1>0, <2>1, <2>5, <3>2, <3>3
    <3>4. CASE /\ c.id = None
               /\ \E i \in FindByKey(items, c.in.key) : d.id = i /\ d.item = Decode(items[i])
      <4>1. PICK i \in FindByKey(items, c.in.key) : d.id = i /\ d.item = Decode(items[i])
        BY <3>4
      <4>2. /\ i \in Stored(items) /\ items[i].key = c.in.key /\ items[i] \in Version
            /\ i # None
        BY <1>0, <4>1, RequestAssumption DEF FindByKey, Stored
      <4>3. d.item.draft.revision = items[i].draft.revision /\ items[i].draft.revision \in Nat
        BY <4>1, <4>2, ReadCopy, NoneIsNoVersion DEF Version, Snapshot
      <4>4. ASSUME Reached(c.in) PROVE c.in.expect <= items[i].draft.revision
        <5>1. PICK j \in Stored(items) :
                /\ c.in.id = j \/ (c.in.key # None /\ items[j].key = c.in.key)
                /\ c.in.expect <= items[j].draft.revision
          BY <4>4 DEF Reached
        <5>2. j # None
          BY <1>0, RequestAssumption DEF Stored
        <5>3. i = j
          BY <1>0, <3>2, <4>2, <5>1, <5>2 DEF KeysUnique
        <5> QED
          BY <5>1, <5>3
      <4>5. c.in.expect <= items[i].draft.revision
        BY <3>2, <3>4, <4>3, <4>4
      <4> QED
        BY <1>0, <2>1, <2>5, <4>1, <4>2, <4>3, <4>5
    <3> QED
      BY <1>1, <1>2, <1>5, <3>1, <3>3, <3>4 DEF GetByKey
  <2> QED
    BY <1>0, <1>5, <2>3, <2>4, <2>5 DEF Onward
<1>6. ASSUME d.pc = "upsert" PROVE d.id = r \/ d.in.expect < d.item.draft.revision
  <2>1. Handler(r)
    BY <1>6, InputKept
  <2>2. c.pc = "handler" /\ c.in.op \in DraftOps
    BY <1>0, <2>1 DEF Handler, SaveDraft, SetFieldValue, Publish, Unpublish, Archive,
                      Unarchive, Delete, GetItem, Handling, PcIs, OnReached
  <2>3. ASSUME SetFieldValue(r) PROVE FALSE
    <3> DEFINE e == [c EXCEPT !.pc = "setField", !.type = FieldWriteType(c.in, c.item),
                              !.id = None, !.item = None]
    <3>1. e.pc = "setField"
      BY <1>0 DEF CallRecord
    <3>2. d = e \/ \E kind : Fail(r, kind)
      BY <1>0, <2>3 DEF SetFieldValue, Become
    <3> HIDE DEF e
    <3> QED
      BY <1>2, <1>6, <3>1, <3>2
  <2>4. SaveDraft(r)
    BY <1>1, <1>2, <1>3, <1>6, <2>1, <2>2, <2>3
       DEF Handler, DraftOps, Publish, Unpublish, Archive, Unarchive, Delete, GetItem, Handling
  <2>5. /\ d.id = IF c.item = None THEN r ELSE c.id
        /\ d.item = SavedItem(c.in, SaveTarget(c.in, c.item))
        /\ c.in.op = "SaveDraft"
    BY <1>1, <1>2, <1>6, <2>4 DEF SaveDraft, Handling
  <2>6. CASE c.item # None
    <3>1. c.in.expect <= c.item.draft.revision /\ c.in.expect # None
      BY <1>0, <2>2, <2>5, <2>6 DEF OnReached
    <3>2. c.item.draft.revision \in Nat /\ c.in.expect \in Int
      BY <1>0, <2>2, <2>6, <3>1, NoneIsNoVersion DEF Version, Snapshot, Input
    <3>3. d.item.draft.revision = c.item.draft.revision + 1
      BY <1>0, <2>2, <2>5, <2>6, SavedCopy
    <3> QED
      BY <1>0, <2>2, <3>1, <3>2, <3>3
  <2> QED
    BY <2>5, <2>6
<1> QED
  BY <1>4, <1>5, <1>6 DEF OnReached, Reached

\* Clients that name the revision of an item they have been shown edit drafts in the
\* sense of the theorems above, if a match is by id or by key and nobody deletes
\* (SaveDraftInput.ExpectedRevision, vo.go:117-127).  With deletes they need not: a
\* key may come to name a younger item, whose revision then grows to the one expected.
THEOREM InformedEditing ==
  MatchByOne /\ NoDeletes => (Spec /\ InformedClients /\ AllAcknowledged => DraftEditing)
<1> SUFFICES ASSUME MatchByOne, NoDeletes
             PROVE  Spec /\ InformedClients /\ AllAcknowledged => DraftEditing
  OBVIOUS
<1> DEFINE Told == \A r \in Request :
                     PcIs(r, "idle") /\ call'[r].pc # "idle" => Informed(call'[r].in)
           Kept == \A r \in Request : ~AckLost(r)
           Known == IInv /\ MatchInv /\ KeySteady
           Inv == EditInv /\ OnRevisions
<1>1. Init => Inv
  <2>1. Init => OnRevisions
    BY DEF Init, Idle, OnRevisions, OnReached
  <2> QED
    BY <2>1, EditInit
<1>2. Known /\ Inv /\ [Next]_vars /\ [Told]_vars /\ [Kept]_vars => Inv'
  <2> SUFFICES ASSUME Known, Inv, [Next]_vars, [Told]_vars, [Kept]_vars PROVE Inv'
    OBVIOUS
  <2>1. CASE UNCHANGED vars
    <3>1. OnRevisions'
      BY <2>1 DEF vars, OnRevisions, OnReached, Reached, HasWritten, Deleted, Wrote, Stored
    <3> QED
      BY <2>1, <3>1, EditStutter
  <2>2. CASE Told /\ Kept /\ \E r \in Request : CallStep(r)
    <3>1. PICK r \in Request : CallStep(r)
      BY <2>2
    <3>2. ClientsNameRevisions
      BY OnRevisionsNames
    <3>3. OnReached(r)'
      BY <2>2, <3>1, OwnReach
    <3>4. ASSUME NEW q \in Request \ {r} PROVE OnReached(q)'
      <4>1. call'[q] = call[q] /\ OnReached(q)
        BY <3>1, CallEffect DEF OnRevisions
      <4>2. call[q].pc # "idle" => call[q].in \in Input
        BY ActiveCall DEF IInv
      <4>3. ASSUME call[q].pc # "idle", call[q].in.expect # None, Reached(call[q].in),
                   NEW in, in = call[q].in
            PROVE  Reached(in)'
        BY <3>1, <3>2, <4>2, <4>3, ReachedStays
      <4>4. call[q].pc # "idle" /\ call[q].in.expect # None /\ Reached(call[q].in)
              => Reached(call[q].in)'
        BY <4>1, <4>3 DEF Reached
      <4> QED
        BY <4>1, <4>4 DEF OnReached
    <3>5. OnRevisions'
      BY <3>3, <3>4 DEF OnRevisions
    <3>6. ClientsNameRevisions'
      BY <3>5 DEF OnRevisions, OnReached, ClientsNameRevisions
    <3>7. EditInv'
      BY <2>2, <3>1, <3>2, <3>6, EditStep
    <3> QED
      BY <3>5, <3>7
  <2> QED
    BY <2>1, <2>2 DEF Next, Finished
<1>3. Inv => ClientsNameRevisions
  BY OnRevisionsNames
<1> QED
  BY <1>1, <1>2, <1>3, KeyInvariance, PTL DEF Spec, InformedClients, AllAcknowledged, DraftEditing

\* So the saves of such clients and the field writes racing with them are one history,
\* and one save wins each revision.
THEOREM InformedSavesSerialize ==
  MatchByOne /\ NoDeletes =>
    (Spec /\ InformedClients /\ AllAcknowledged => [](DraftWritesSerialize /\ OneWinner))
BY InformedEditing, NoDraftWriteIsLost, OneSaveWins, PTL

------------------------------------------------------------------------------
(* A burst of field writes at one key.                                      *)

Started(c) == c.pc # "idle"

\* Every call made so far is a valid field write of this type at this key.
InBurst(in, k, t) ==
  /\ in.op = "SetFieldValue" /\ in.key = k /\ in.id = None /\ in.type = t
  /\ ValidField(t, in.slot, in.value)
Burst(k, t) == \A r \in Request : Started(call[r]) => InBurst(call[r].in, k, t)

\* The fields of a draft have no null in the place of a map.
Mapping(fields) == fields # None /\ \A s \in Slot : Raw(fields, s) # NullMap

\* An item with this key can take such a write: it is not archived, of another
\* type, or left with a null in the place of a map (SetField, persistor.go:244-312).
Mergeable(docs, k, t) ==
  \A i \in Stored(docs) :
    docs[i].key = k => ~docs[i].archived /\ docs[i].type = t /\ Mapping(docs[i].draft.fields)

\* No store call fails, and what the store holds at the start can take the
\* field writes that match by key alone.
BurstAssumed ==
  /\ ~Faults
  /\ \A docs \in InitialContents, in \in Inputs :
       in.op = "SetFieldValue" /\ in.key # None /\ in.id = None
         => Mergeable(docs, in.key, in.type)

Holds(k) == \E i \in Stored(items) : items[i].key = k

\* A call of a burst finds nothing to object to, retries only when the item is
\* there, and ends on it.
BurstCallOK(c, k, t) ==
  /\ c.pc \in {"getByKey", "handler", "setField", "insertField", "emit", "done"}
  /\ c.pc = "getByKey" => c.id = None
  /\ c.pc = "handler" => c.item = None \/ (~c.item.archived /\ c.item.type = t)
  /\ c.pc \in {"setField", "insertField"} => c.type = t
  /\ c.pc = "insertField" => ~c.retried
  /\ c.retried => Holds(k)
  /\ c.pc \in {"emit", "done"} => c.id \in Stored(items) /\ items[c.id].key = k
  /\ c.pc = "done" => c.result = "ok"

BurstInv ==
  /\ (\A r \in Request : ~Started(call[r])) => items \in InitialContents
  /\ \A r \in Request : ~Started(call[r]) => call[r].id = None /\ ~call[r].retried
  /\ \A k \in Key, t \in DOMAIN Schema :
       Burst(k, t) /\ (\E r \in Request : Started(call[r])) =>
         /\ Mergeable(items, k, t)
         /\ \A r \in Request : Started(call[r]) => BurstCallOK(call[r], k, t)

\* A field write leaves every map a map.
LEMMA MergedMaps ==
  ASSUME NEW fields \in FieldMap \cup {Missing}, Mapping(fields),
         NEW s \in Slot \cup {None}, NEW v \in Value \cup {None}
  PROVE  Mapping(MergeField(fields, s, v))
<1> DEFINE merged == MergeField(fields, s, v)
<1>1. CASE v = None /\ fields = Missing
  BY <1>1, NilAssumption DEF MergeField, Mapping
<1>2. CASE v = None /\ fields # Missing
  <2>1. /\ fields \in FieldMap /\ fields # None
        /\ merged = [fields EXCEPT ![s] = IF @ = NullMap THEN NullMap ELSE None]
    BY <1>2, NilAssumption DEF MergeField
  <2>2. merged \in FieldMap /\ \A t \in Slot : merged[t] = None \/ merged[t] = fields[t]
    BY <2>1 DEF FieldMap
  <2> HIDE DEF merged
  <2>3. merged \notin {None, Missing} /\ fields \notin {None, Missing}
    BY <2>1, <2>2, NilAssumption
  <2>4. \A t \in Slot : fields[t] # NullMap
    BY <2>3 DEF Mapping, Raw
  <2>5. \A t \in Slot : merged[t] # NullMap
    BY <2>2, <2>4, NilAssumption
  <2> QED
    BY <2>3, <2>5 DEF Mapping, Raw, merged
<1>3. CASE v # None
  <2>1. merged = [t \in Slot |-> IF t = s THEN v ELSE Raw(fields, t)]
    BY <1>3 DEF MergeField
  <2>2. \A t \in Slot : Raw(fields, t) \in Value \cup {None, Null}
    BY NilAssumption DEF Mapping, Raw, FieldMap
  <2>3. v \in Value /\ v # NullMap
    BY <1>3, NilAssumption
  <2>4. merged \in FieldMap /\ \A t \in Slot : merged[t] # NullMap
    BY <2>1, <2>2, <2>3, NilAssumption DEF FieldMap
  <2> HIDE DEF merged
  <2>5. merged \notin {None, Missing}
    BY <2>4, NilAssumption
  <2> QED
    BY <2>4, <2>5 DEF Mapping, Raw, merged
<1> QED
  BY <1>1, <1>2, <1>3

\* One step of a burst: an item with the key stays and stays writable, and the
\* call goes on as a call of a burst does.
LEMMA BurstCallStep ==
  ASSUME IInv, ~Faults, NEW r \in Request, CallStep(r),
         NEW k \in Key, NEW t \in DOMAIN Schema,
         Mergeable(items, k, t),
         InBurst(call'[r].in, k, t),
         Started(call[r]) => call'[r].in = call[r].in /\ BurstCallOK(call[r], k, t),
         ~Started(call[r]) => call[r].id = None /\ ~call[r].retried
  PROVE  /\ Mergeable(items', k, t)
         /\ \A i \in Stored(items) :
              items[i].key = k => i \in Stored(items') /\ items'[i].key = k
         /\ BurstCallOK(call[r], k, t)'
<1> DEFINE c == call[r]
           in == call'[r].in
           d == call'[r]
<1>0. /\ items \in [ID -> Version \cup {None}] /\ DOMAIN items = ID
      /\ call \in [Request -> CallRecord] /\ c \in CallRecord /\ CallOK(c)
      /\ r \in ID /\ r # None
      /\ \A i \in Stored(items) : i \in ID /\ i # None /\ items[i] \in Version
      /\ k # None /\ Registered(t) /\ t \in ContentType
  BY RequestAssumption, RegistryAssumption, NilAssumption
     DEF IInv, ItemsOK, CallsOK, ID, Stored, Registered
<1>1. /\ in.op = "SetFieldValue" /\ in.key = k /\ in.id = None /\ in.type = t
      /\ ValidField(t, in.slot, in.value)
  BY DEF InBurst
<1>2. in.slot # None
  <2>1. in.slot \in Schema[t].slots /\ Schema[t] \in SchemaType
    BY <1>1, RegistryAssumption DEF ValidField
  <2> QED
    BY <2>1, NilAssumption DEF SchemaType
<1>3. Started(c) =>
        /\ c.in = in
        /\ c.pc \in {"getByKey", "handler", "setField", "insertField", "emit", "done"}
        /\ c.pc = "getByKey" => c.id = None
        /\ c.pc = "handler" => c.item = None \/ (~c.item.archived /\ c.item.type = t)
        /\ c.pc \in {"setField", "insertField"} => c.type = t
        /\ c.pc = "insertField" => ~c.retried
        /\ c.retried => Holds(k)
        /\ c.pc \in {"emit", "done"} => c.id \in Stored(items) /\ items[c.id].key = k
  BY DEF BurstCallOK
<1>4. c.retried => Holds(k)
  BY <1>3
<1>5. ASSUME NEW e, Become(r, e) PROVE d = e
  BY <1>0, <1>5 DEF Become
<1>6. ASSUME NEW pc, NEW id, NEW item, Hold(r, pc, id, item)
      PROVE  d.pc = pc /\ d.id = id /\ d.item = item /\ d.retried = c.retried
  BY <1>0, <1>6 DEF Hold, Become, CallRecord
\* Without a write there is only the call's own record to check.
<1>7. ASSUME UNCHANGED items, BurstCallOK(d, k, t)
      PROVE  /\ Mergeable(items', k, t)
             /\ \A i \in Stored(items) :
                  items[i].key = k => i \in Stored(items') /\ items'[i].key = k
             /\ BurstCallOK(call[r], k, t)'
  BY <1>7 DEF Mergeable, BurstCallOK, Holds
<1>8. CASE \E input \in Inputs : Start(r, input)
  <2>1. PICK input \in Inputs : Start(r, input)
    BY <1>8
  <2>2. c.pc = "idle" /\ UNCHANGED items /\ c.id = None /\ ~c.retried
    BY <2>1 DEF Start, PcIs, Started
  <2> DEFINE bad == [c EXCEPT !.pc = "done", !.in = input, !.result = "badRequest"]
             started == [c EXCEPT !.pc = FirstStep(input), !.in = input]
  <2>3. /\ bad.in = input /\ started.in = input
        /\ started.pc = FirstStep(input) /\ started.id = None /\ ~started.retried
    BY <1>0, <2>2 DEF CallRecord
  <2>4. IF BadArguments(input) THEN d = bad ELSE d = started
    BY <1>5, <2>1 DEF Start
  <2> HIDE DEF bad, started
  <2>5. input = in
    BY <2>3, <2>4
  <2>6. ~BadArguments(in) /\ FirstStep(in) = "getByKey"
    BY <1>0, <1>1, <1>2 DEF BadArguments, NoSlot, FirstStep
  <2>7. BurstCallOK(d, k, t)
    BY <2>3, <2>4, <2>5, <2>6 DEF BurstCallOK
  <2> QED
    BY <1>7, <2>2, <2>7
<1>9. CASE GetByKey(r)
  <2>1. c.pc = "getByKey" /\ UNCHANGED items /\ c.id = None /\ c.item = None /\ c.in = in
    <3>1. c.pc = "getByKey" /\ UNCHANGED items /\ (c.id = None <=> c.item = None)
      BY <1>0, <1>9 DEF GetByKey, PcIs, CallOK, Equipped
    <3> QED
      BY <1>3, <3>1 DEF Started
  <2>2. \/ Hold(r, "handler", None, None)
        \/ \E i \in FindByKey(items, k) : Hold(r, "handler", i, Decode(items[i]))
    BY <1>1, <1>9, <2>1 DEF GetByKey
  <2>3. ASSUME NEW i \in FindByKey(items, k)
        PROVE  ~Decode(items[i]).archived /\ Decode(items[i]).type = t
    <3>1. items[i] \in Item /\ ~items[i].archived /\ items[i].type = t
      BY <1>0 DEF FindByKey, Mergeable, Version
    <3> QED
      BY <3>1 DEF Decode, Item
  <2>4. d.pc = "handler" /\ d.retried = c.retried
        /\ (d.item = None \/ (~d.item.archived /\ d.item.type = t))
    BY <1>6, <2>2, <2>3
  <2>5. BurstCallOK(d, k, t)
    BY <1>4, <2>4 DEF BurstCallOK
  <2> QED
    BY <1>7, <2>1, <2>5
<1>10. CASE SetFieldValue(r)
  <2> DEFINE type == FieldWriteType(c.in, c.item)
             e == [c EXCEPT !.pc = "setField", !.type = type, !.id = None, !.item = None]
  <2>1. /\ c.pc = "handler" /\ UNCHANGED items /\ c.in = in
        /\ c.item = None \/ (~c.item.archived /\ c.item.type = t)
    <3>1. c.pc = "handler" /\ UNCHANGED items
      BY <1>10 DEF SetFieldValue, Handling, PcIs
    <3> QED
      BY <1>3, <3>1 DEF Started
  <2>2. type = t
    BY <1>1, <2>1 DEF FieldWriteType
  <2>3. ~Frozen(c.item) /\ MayWriteField(c.in, c.item)
    BY <1>0, <1>1, <2>1 DEF Frozen, MayWriteField, TypeUnchanged
  <2>4. Become(r, e)
    BY <1>1, <1>10, <2>1, <2>2, <2>3 DEF SetFieldValue
  <2>5. e.pc = "setField" /\ e.type = type /\ e.retried = c.retried
    BY <1>0 DEF CallRecord
  <2> HIDE DEF e, type
  <2>6. BurstCallOK(d, k, t)
    BY <1>4, <1>5, <2>2, <2>4, <2>5 DEF BurstCallOK
  <2> QED
    BY <1>7, <2>1, <2>6
<1>11. CASE UpdateField(r)
  <2>1. c.pc = "setField" /\ c.type = t /\ c.in = in
    <3>1. c.pc = "setField"
      BY <1>11 DEF UpdateField, PcIs
    <3> QED
      BY <1>3, <3>1 DEF Started
  <2>2. PICK i \in FieldTargets(items, c.in.id, c.in.key) :
          IF PathViable(items[i].draft, c.in.slot, c.in.value)
          THEN LET doc == FieldUpdated(items[i], c.type, c.in.slot, c.in.value) IN
               /\ items' = [items EXCEPT ![i] = doc]
               /\ Hold(r, "emit", i, Decode(doc))
          ELSE Fail(r, "internal") /\ UNCHANGED items
    BY <1>11 DEF UpdateField
  <2>3. i \in Stored(items) /\ items[i].key = k
    BY <1>0, <1>1, <2>1, <2>2 DEF FieldTargets, FindByKey
  <2>4. /\ i \in ID /\ items[i] \in Version /\ items[i] \in Item
        /\ items[i].draft \in Snapshot
        /\ ~items[i].archived /\ Mapping(items[i].draft.fields)
    BY <1>0, <2>3, NoneIsNoVersion DEF Version, Mergeable
  <2> DEFINE doc == FieldUpdated(items[i], t, in.slot, in.value)
             merged == MergeField(items[i].draft.fields, in.slot, in.value)
  <2>5. items' = [items EXCEPT ![i] = doc] /\ Hold(r, "emit", i, Decode(doc))
    <3>1. in.slot \in Slot
      BY <1>1, RegistryAssumption DEF ValidField, Registered, SchemaType
    <3>2. PathViable(items[i].draft, in.slot, in.value)
      BY <2>4, <3>1 DEF PathViable, Mapping
    <3> QED
      BY <2>1, <2>2, <3>2
  <2>6. /\ doc.key = k /\ ~doc.archived /\ doc.type = t /\ doc.draft.fields = merged
    BY <2>3, <2>4 DEF FieldUpdated, Item
  <2>7. Mapping(merged)
    <3>1. in.value \in Value \cup {None} /\ in.slot \in Slot \cup {None}
      <4>1. c.in \in Input
        BY <1>0, <2>1, ActiveCall DEF IInv
      <4> QED
        BY <2>1, <4>1 DEF Input
    <3>2. items[i].draft.fields \in FieldMap \cup {Missing}
      BY <2>4 DEF Snapshot, Mapping
    <3> QED
      BY <2>4, <3>1, <3>2, MergedMaps
  <2>8. doc # None
    <3>1. in \in Input
      BY <1>0, <2>1, ActiveCall DEF IInv
    <3> QED
      BY <1>0, <2>4, <3>1, FieldUpdateIsVersion, NoneIsNoVersion
  <2> HIDE DEF doc, merged
  <2>9. /\ items'[i] = doc /\ \A j \in ID \ {i} : items'[j] = items[j]
        /\ \A j : j \in Stored(items)' <=> j \in Stored(items)
    BY <1>0, <2>3, <2>4, <2>5, <2>8 DEF Stored
  <2>10. Mergeable(items', k, t)
    BY <1>0, <2>6, <2>7, <2>9 DEF Mergeable
  <2>11. \A j \in Stored(items) :
           items[j].key = k => j \in Stored(items') /\ items'[j].key = k
    BY <1>0, <2>6, <2>9
  <2>12. d.pc = "emit" /\ d.id = i
    BY <1>6, <2>5
  <2>13. Holds(k)'
    BY <2>3, <2>6, <2>9 DEF Holds
  <2>14. BurstCallOK(call[r], k, t)'
    BY <2>3, <2>6, <2>9, <2>12, <2>13 DEF BurstCallOK
  <2> QED
    BY <2>10, <2>11, <2>14
<1>12. CASE MissField(r)
  <2>1. c.pc = "setField" /\ c.type = t /\ c.in = in /\ UNCHANGED items
    <3>1. c.pc = "setField" /\ UNCHANGED items
      BY <1>12 DEF MissField, PcIs
    <3> QED
      BY <1>3, <3>1 DEF Started
  <2> DEFINE e == [c EXCEPT !.pc = "insertField"]
  <2>2. Become(r, e) /\ FindByKey(items, k) = {}
    BY <1>0, <1>1, <1>12, <2>1 DEF MissField, FieldTargets
  <2>3. ~Holds(k)
    BY <2>2 DEF Holds, FindByKey
  <2>4. e.pc = "insertField" /\ e.type = t /\ e.retried = c.retried
    BY <1>0, <2>1 DEF CallRecord
  <2> HIDE DEF e
  <2>5. BurstCallOK(d, k, t)
    BY <1>4, <1>5, <2>2, <2>3, <2>4 DEF BurstCallOK
  <2> QED
    BY <1>7, <2>1, <2>5
<1>13. CASE InsertField(r)
  <2>1. c.pc = "insertField" /\ c.type = t /\ c.in = in /\ ~c.retried
    <3>1. c.pc = "insertField"
      BY <1>13 DEF InsertField, PcIs
    <3> QED
      BY <1>3, <3>1 DEF Started
  <2> DEFINE doc == FieldInserted(k, t, in.owner, in.slot, in.value)
             e == [c EXCEPT !.pc = "setField", !.retried = TRUE]
  <2>2. \/ /\ ~KeyTaken(items, r, k)
           /\ items' = [items EXCEPT ![r] = doc]
           /\ Hold(r, "emit", r, Decode(doc))
        \/ KeyTaken(items, r, k) /\ Become(r, e) /\ UNCHANGED items
    BY <1>1, <1>13, <2>1 DEF InsertField
  <2>3. /\ doc.key = k /\ ~doc.archived /\ doc.type = t
        /\ doc.draft.fields = MergeField(Missing, in.slot, in.value)
    BY DEF FieldInserted
  <2>4. in \in Input
    BY <1>0, <2>1, ActiveCall DEF IInv
  <2>5. doc # None
    BY <1>0, <1>1, <2>4, FieldInsertIsVersion, NoneIsNoVersion
  <2>6. e.pc = "setField" /\ e.type = t
    BY <1>0, <2>1 DEF CallRecord
  <2>7. Mapping(MergeField(Missing, in.slot, in.value))
    <3>1. in.value \in Value \cup {None} /\ in.slot \in Slot \cup {None}
      BY <2>4 DEF Input
    <3>2. Mapping(Missing)
      BY NilAssumption DEF Mapping, Raw
    <3> QED
      BY <3>1, <3>2, MergedMaps
  <2> HIDE DEF doc, e
  <2>8. CASE KeyTaken(items, r, k) /\ Become(r, e) /\ UNCHANGED items
    <3>1. Holds(k)
      BY <2>8 DEF KeyTaken, Holds
    <3>2. BurstCallOK(d, k, t)
      BY <1>5, <2>6, <2>8, <3>1 DEF BurstCallOK
    <3> QED
      BY <1>7, <2>8, <3>2
  <2>9. CASE items' = [items EXCEPT ![r] = doc] /\ Hold(r, "emit", r, Decode(doc))
    <3>1. /\ items'[r] = doc /\ \A j \in ID \ {r} : items'[j] = items[j]
          /\ \A j : j \in Stored(items)' <=> j = r \/ j \in Stored(items)
      BY <1>0, <2>5, <2>9 DEF Stored
    <3>2. Mergeable(items', k, t)
      BY <1>0, <2>3, <2>7, <3>1 DEF Mergeable
    <3>3. \A j \in Stored(items) :
            items[j].key = k => j \in Stored(items') /\ items'[j].key = k
      BY <1>0, <2>3, <3>1
    <3>4. d.pc = "emit" /\ d.id = r
      BY <1>6, <2>9
    <3>5. Holds(k)'
      BY <2>3, <3>1 DEF Holds
    <3>6. BurstCallOK(call[r], k, t)'
      BY <2>3, <3>1, <3>4, <3>5 DEF BurstCallOK
    <3> QED
      BY <3>2, <3>3, <3>6
  <2> QED
    BY <2>2, <2>8, <2>9
<1>14. CASE Emit(r)
  <2> DEFINE event == IF Suppressed(c.item.type) THEN None
                      ELSE [ op |-> EventOp(c.in.op), type |-> c.item.type,
                             owner |-> c.item.owner ]
             e == [c EXCEPT !.pc = "done", !.result = "ok", !.event = event]
  <2>1. c.pc = "emit" /\ UNCHANGED items /\ c.id \in Stored(items) /\ items[c.id].key = k
    <3>1. c.pc = "emit" /\ UNCHANGED items
      BY <1>14 DEF Emit, PcIs
    <3> QED
      BY <1>3, <3>1 DEF Started
  <2>2. e.pc = "done" /\ e.result = "ok" /\ e.id = c.id /\ e.retried = c.retried
    BY <1>0 DEF CallRecord
  <2>3. Become(r, e)
    BY <1>14 DEF Emit
  <2> HIDE DEF e
  <2>4. BurstCallOK(d, k, t)
    BY <1>4, <1>5, <2>1, <2>2, <2>3 DEF BurstCallOK
  <2> QED
    BY <1>7, <2>1, <2>4
\* No other action is one of such a call.
<1>15. ASSUME \/ GetByID(r) \/ Upsert(r) \/ DeleteOne(r)
              \/ SaveDraft(r) \/ Publish(r) \/ Unpublish(r) \/ Archive(r) \/ Unarchive(r)
              \/ Delete(r) \/ GetItem(r)
       PROVE  FALSE
  BY <1>1, <1>3, <1>15 DEF GetByID, Upsert, DeleteOne, SaveDraft, Publish, Unpublish, Archive,
     Unarchive, Delete, GetItem, Handling, PcIs, Started
<1> QED
  BY <1>8, <1>9, <1>10, <1>11, <1>12, <1>13, <1>14, <1>15
     DEF CallStep, Progress, Handler, Write, StoreFails, AckLost

LEMMA BurstStep ==
  ASSUME IInv, BurstAssumed, BurstInv, NEW r \in Request, CallStep(r)
  PROVE  BurstInv'
<1>1. /\ \A q \in Request \ {r} : call'[q] = call[q]
      /\ Started(call[r]) => call'[r].in = call[r].in
      /\ ~Started(call[r]) => call'[r].in \in Inputs
      /\ Started(call'[r])
  BY InputKept, CallEffect DEF Started
<1>2. ~(\A q \in Request : ~Started(call'[q]))
  BY <1>1
<1>3. \A q \in Request : ~Started(call'[q]) => call'[q].id = None /\ ~call'[q].retried
  BY <1>1 DEF BurstInv
<1>4. ASSUME NEW k \in Key, NEW t \in DOMAIN Schema, Burst(k, t)'
      PROVE  /\ Mergeable(items', k, t)
             /\ \A q \in Request : Started(call'[q]) => BurstCallOK(call[q], k, t)'
  <2>1. Burst(k, t) /\ InBurst(call'[r].in, k, t)
    BY <1>1, <1>4 DEF Burst
  <2>2. Mergeable(items, k, t)
    <3>1. CASE \E q \in Request : Started(call[q])
      BY <2>1, <3>1 DEF BurstInv
    <3>2. CASE \A q \in Request : ~Started(call[q])
      <4>1. items \in InitialContents /\ call'[r].in \in Inputs
        BY <1>1, <3>2 DEF BurstInv
      <4>2. k # None
        BY NilAssumption
      <4> QED
        BY <2>1, <4>1, <4>2 DEF BurstAssumed, InBurst
    <3> QED
      BY <3>1, <3>2
  <2>3. \A q \in Request : Started(call[q]) => BurstCallOK(call[q], k, t)
    BY <2>1 DEF BurstInv
  <2>4. /\ Mergeable(items', k, t)
        /\ \A i \in Stored(items) :
             items[i].key = k => i \in Stored(items') /\ items'[i].key = k
        /\ BurstCallOK(call[r], k, t)'
    <3>1. ~Started(call[r]) => call[r].id = None /\ ~call[r].retried
      BY DEF BurstInv
    <3> QED
      BY <1>1, <2>1, <2>2, <2>3, <3>1, BurstCallStep DEF BurstAssumed
  <2>5. ASSUME NEW q \in Request \ {r}, Started(call'[q]) PROVE BurstCallOK(call[q], k, t)'
    <3>1. BurstCallOK(call[q], k, t) /\ call'[q] = call[q]
      BY <1>1, <2>3, <2>5
    <3>2. Holds(k) => Holds(k)'
      BY <2>4 DEF Holds
    <3> QED
      BY <2>4, <3>1, <3>2 DEF BurstCallOK
  <2> QED
    BY <2>4, <2>5
<1> QED
  BY <1>2, <1>3, <1>4 DEF BurstInv

\* In a burst of field writes at one key every call that returns has landed,
\* and all on one item, which the first of them created or found
\* (persistor.go:244-277, store.go:30-33).
THEOREM EveryBurstLands == BurstAssumed => (Spec => []BurstLands)
<1> SUFFICES ASSUME BurstAssumed PROVE Spec => []BurstLands
  OBVIOUS
<1>1. Init => BurstInv
  BY DEF Init, BurstInv, Started, Idle
<1>2. IInv /\ BurstInv /\ [Next]_vars => BurstInv'
  <2> SUFFICES ASSUME IInv, BurstInv, [Next]_vars PROVE BurstInv'
    OBVIOUS
  <2>1. CASE UNCHANGED vars
    BY <2>1 DEF vars, BurstInv, Burst, BurstCallOK, Holds, Stored, Mergeable
  <2> QED
    BY <2>1, BurstStep DEF Next, Finished
<1>3. IInv /\ BurstInv => BurstLands
  <2> SUFFICES ASSUME IInv, BurstInv,
                      NEW k \in Key, NEW t \in DOMAIN Schema, Burst(k, t),
                      NEW q \in Request, NEW r \in Request, Started(call[q]), Started(call[r])
               PROVE  /\ call[r].pc = "done" => call[r].result = "ok"
                      /\ call[q].pc = "done" /\ call[r].pc = "done" => call[q].id = call[r].id
    BY DEF BurstLands, Burst, InBurst, Started
  <2>1. BurstCallOK(call[q], k, t) /\ BurstCallOK(call[r], k, t)
    BY DEF BurstInv
  <2>2. k # None
    BY NilAssumption
  <2> QED
    BY <2>1, <2>2 DEF BurstCallOK, IInv, KeysUnique
<1> QED
  BY <1>1, <1>2, <1>3, Invariance, PTL DEF Spec
=============================================================================
