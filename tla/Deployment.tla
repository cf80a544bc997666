----------------------------- MODULE Deployment -----------------------------
(***************************************************************************)
(* One deployment as a whole: the item calls and bulk reads of Snapshots   *)
(* together with ExportContent and ReplaceContent (transfer.go), and the   *)
(* store calls behind them, ExportAll and ReplaceAll (persistor.go), on    *)
(* the same collection.                                                    *)
(*                                                                         *)
(* An export lists entries; the order of the list is left out of checksums *)
(* as it is in the code (sorted by id), and a checksum is the set of       *)
(* entries it was computed from, so that different contents have different *)
(* checksums.  An entry is exact when MongoDB gives it back as it was      *)
(* written; a payload whose timestamps are finer than a millisecond is not.*)
(***************************************************************************)
EXTENDS Snapshots, SequencesExt

CONSTANTS
  Transfer,         \* calls of ExportContent and ReplaceContent, each made once
  ConfiguredRoles,  \* Deps.Role, None when it is not set
  Payloads          \* exports that ReplaceContent may be called with

ContentExportFormatVersion == 1

Entry == [ id    : ID \cup {None},
           item  : [ key       : Key \cup {None},
                     type      : ContentType \cup {None},
                     owner     : Owner \cup {None},
                     draft     : Snapshot \cup {None},
                     published : Snapshot \cup {None},
                     archived  : BOOLEAN ],
           exact : BOOLEAN ]

Export == [ version  : Nat,
            count    : Nat,
            checksum : SUBSET (Entry \cup {None}) \cup {None},
            items    : Seq(Entry \cup {None}) ]

TransferRecord ==
  [ pc       : {"idle", "export", "create", "index", "fill", "verify", "rename",
                "cleanup", "emit", "done", "dead"},
    op       : {"ExportContent", "ReplaceContent", None},
    payload  : Export \cup {None},          \* to install, or exported
    snap     : [ID -> Item \cup {None}] \cup {None},  \* the export's transaction
    left     : SUBSET ID,                   \* ids the export's find has not reached yet
    got      : SUBSET Entry,                \* what the find has returned
    moments  : SUBSET [ID -> Item \cup {None}], \* history: the collection, time by
                            \* time, while the export ran
    swapped  : BOOLEAN,
    result   : Result \cup {"forbidden", None},
    faulted  : BOOLEAN,     \* history: a store call of it failed, or it died
    orphaned : BOOLEAN,     \* history: nothing will drop its collection any more
    current  : BOOLEAN,     \* history: no other replacement was installed since
    flying   : SUBSET Request ]  \* history: item calls active at the swap

\* A temporary collection.
Temp == [indexed : BOOLEAN, entries : SUBSET Entry]

------------------------------------------------------------------------------
(* Payloads.                                                                *)

\* validateContentItems
ValidItems(entries) ==
  /\ \A n \in DOMAIN entries :
       entries[n] # None /\ entries[n].id # None /\ entries[n].item.type # None
  /\ \A m, n \in DOMAIN entries :
       m # n => /\ entries[m].id # entries[n].id
                /\ entries[m].item.key # None => entries[m].item.key # entries[n].item.key

Checksum(entries) == {entries[n] : n \in DOMAIN entries}

ValidExport(x) ==
  /\ x.version = ContentExportFormatVersion
  /\ x.count = Len(x.items)
  /\ ValidItems(x.items)
  /\ x.checksum = Checksum(x.items)

NewExport(entries) ==
  [ version  |-> ContentExportFormatVersion,
    count    |-> Len(entries),
    checksum |-> Checksum(entries),
    items    |-> entries ]

\* What MongoDB gives back of an entry: no longer the one that was sent, unless
\* that was exact.
Persisted(entry) == [entry EXCEPT !.exact = TRUE]

Documents(entries) ==
  [i \in ID |-> IF \E e \in entries : e.id = i
                THEN (CHOOSE e \in entries : e.id = i).item
                ELSE None]

EntryOfItem(i, doc) == [id |-> i, item |-> Decode(doc), exact |-> TRUE]

ASSUME PayloadAssumption ==
  /\ Payloads \subseteq Export /\ None \notin Payloads
  /\ \A x \in Payloads : ValidExport(x) =>
       \A n \in DOMAIN x.items : x.items[n].item \in Item /\ Honest(x.items[n].item)
  /\ ConfiguredRoles \subseteq {"canonical", "sandbox", None}
  /\ None \notin Entry /\ None \notin Temp /\ None \notin [ID -> Item \cup {None}]

VARIABLES role, transfer, temps,
          origin   \* history: the call that first inserted each id since the last swap
transferVars == <<role, transfer, temps, origin>>
deploymentVars == <<items, call, consumer, role, transfer, temps, origin>>
------------------------------------------------------------------------------
NoTransfer == [ pc |-> "idle", op |-> None, payload |-> None, snap |-> None,
                left |-> {}, got |-> {}, moments |-> {}, swapped |-> FALSE,
                result |-> None, faulted |-> FALSE, orphaned |-> FALSE,
                current |-> FALSE, flying |-> {} ]

\* New: an engine without a role is canonical.
EffectiveRole(configured) == IF configured = None THEN "canonical" ELSE configured

DeploymentInit ==
  /\ SnapshotsInit
  /\ \E r \in ConfiguredRoles : role = EffectiveRole(r)
  /\ transfer = [t \in Transfer |-> NoTransfer]
  /\ temps = [t \in Transfer |-> None]
  /\ origin = [i \in ID |-> None]

Doing(t, pc) == transfer[t].pc = pc
Advance(t, record) == transfer' = [transfer EXCEPT ![t] = record]
Finish(t, result) ==
  Advance(t, [transfer[t] EXCEPT !.pc = "done", !.result = result])
Step(t, pc) == Advance(t, [transfer[t] EXCEPT !.pc = pc])
SetTemp(t, temp) == temps' = [temps EXCEPT ![t] = temp]

------------------------------------------------------------------------------
(* ExportContent.                                                           *)

StartExport(t) ==
  LET x == [transfer[t] EXCEPT !.op = "ExportContent"] IN
  /\ Doing(t, "idle")
  /\ IF role # "canonical"
     THEN Advance(t, [x EXCEPT !.pc = "done", !.result = "forbidden"])
     ELSE Advance(t, [x EXCEPT !.pc = "export", !.snap = items, !.left = ID,
                               !.moments = {items}])
  /\ UNCHANGED <<readVars, role, temps, origin>>

\* Mutant: no transaction; the find comes to each document as it is by then.
Snapshotted_Live(t) == items

\* The find of the snapshot transaction reads the collection as it began.
Snapshotted(t) == transfer[t].snap

\* The find of ExportAll comes to the next document.
ExportOne(t) ==
  /\ Doing(t, "export")
  /\ \E i \in transfer[t].left \cap Stored(Snapshotted(t)) :
       Advance(t, [transfer[t] EXCEPT !.left = @ \ {i},
                                      !.got = @ \cup {EntryOfItem(i, Snapshotted(t)[i])}])
  /\ UNCHANGED <<readVars, role, temps, origin>>

\* The transaction is committed and the export put together.
ExportAll(t) ==
  LET entries == SetToSeq(transfer[t].got) IN
  /\ Doing(t, "export") /\ transfer[t].left \cap Stored(Snapshotted(t)) = {}
  /\ IF ValidItems(entries)
     THEN Advance(t, [transfer[t] EXCEPT !.pc = "done", !.result = "ok",
                                         !.payload = NewExport(entries)])
     ELSE Finish(t, "internal")
  /\ UNCHANGED <<readVars, role, temps, origin>>

------------------------------------------------------------------------------
(* ReplaceContent and ReplaceAll.                                           *)

StartReplace(t, x) ==
  LET c == [transfer[t] EXCEPT !.op = "ReplaceContent"] IN
  /\ Doing(t, "idle")
  /\ \/ /\ role # "sandbox"
        /\ Advance(t, [c EXCEPT !.pc = "done", !.result = "forbidden"])
     \/ /\ role = "sandbox" /\ ~ValidExport(x)
        /\ Advance(t, [c EXCEPT !.pc = "done", !.result = "badRequest"])
     \/ /\ role = "sandbox" /\ ValidExport(x)
        /\ Advance(t, [c EXCEPT !.pc = "create", !.payload = x])
  /\ UNCHANGED <<readVars, role, temps, origin>>

\* Mutant: the temporary collection is filled without its indexes.
CreateTemp_NoIndex(t) ==
  /\ Doing(t, "create")
  /\ SetTemp(t, [indexed |-> FALSE, entries |-> {}])
  /\ Step(t, "fill")
  /\ UNCHANGED <<readVars, role, origin>>

CreateTemp(t) ==
  /\ Doing(t, "create")
  /\ SetTemp(t, [indexed |-> FALSE, entries |-> {}])
  /\ Step(t, "index")
  /\ UNCHANGED <<readVars, role, origin>>

IndexTemp(t) ==
  /\ Doing(t, "index")
  /\ SetTemp(t, [temps[t] EXCEPT !.indexed = TRUE])
  /\ Step(t, "fill")
  /\ UNCHANGED <<readVars, role, origin>>

\* The documents of the first n entries are in the temporary collection.
Filled(t, n) ==
  [temps[t] EXCEPT !.entries = {Persisted(transfer[t].payload.items[m]) : m \in 1 .. n}]

FillTemp(t) ==
  /\ Doing(t, "fill")
  /\ SetTemp(t, Filled(t, Len(transfer[t].payload.items)))
  /\ Step(t, "verify")
  /\ UNCHANGED <<readVars, role, origin>>

\* Mutant: a collection that fails the verification is left behind.
VerifyTemp_NoCleanup(t) ==
  /\ Doing(t, "verify")
  /\ IF temps[t].entries = transfer[t].payload.checksum
     THEN Step(t, "rename") ELSE Finish(t, "internal")
  /\ UNCHANGED <<readVars, role, temps, origin>>

\* Mutant: only the count is compared.
VerifyTemp_CountOnly(t) ==
  /\ Doing(t, "verify")
  /\ IF Cardinality(temps[t].entries) = Len(transfer[t].payload.items)
     THEN Step(t, "rename") ELSE Step(t, "cleanup")
  /\ UNCHANGED <<readVars, role, temps, origin>>

\* Count and checksum of what was stored against those of the payload.
VerifyTemp(t) ==
  LET wanted == transfer[t].payload.items
      stored == temps[t].entries
  IN
  /\ Doing(t, "verify")
  /\ IF Cardinality(stored) = Len(wanted) /\ stored = Checksum(wanted)
     THEN Step(t, "rename") ELSE Step(t, "cleanup")
  /\ UNCHANGED <<readVars, role, temps, origin>>

\* Mutant: the rename keeps what the target held (no dropTarget).
Swapped_Merges(t) ==
  [i \in ID |-> IF Documents(temps[t].entries)[i] # None
                THEN Documents(temps[t].entries)[i] ELSE items[i]]

Swapped(t) == Documents(temps[t].entries)

Unread == [c \in Consumer |-> [consumer[c] EXCEPT !.missed = ID]]

\* renameCollection puts the temporary collection in the place of content_items
\* and drops the old one, and with it the cursors that are not drained yet: those
\* reads fail.  A replacement that goes on to fail tells nobody of the swap.
Install(t, record) ==
  /\ items' = Swapped(t)
  /\ SetTemp(t, None)
  /\ transfer' = [u \in Transfer |->
       IF u = t THEN [record EXCEPT !.current = TRUE,
                                    !.flying = {r \in Request : Active(r)}]
                ELSE [transfer[u] EXCEPT !.current = FALSE]]
  /\ consumer' = [c \in Consumer |->
       LET k == IF record.pc = "emit" THEN consumer[c] ELSE Unread[c] IN
       IF k.pc = "find" THEN [Ended(k) EXCEPT !.stale = TRUE] ELSE k]
  /\ origin' = [i \in ID |-> None]
  /\ UNCHANGED <<call, role>>

Rename(t) ==
  /\ Doing(t, "rename")
  /\ Install(t, [transfer[t] EXCEPT !.pc = "emit", !.swapped = TRUE])

\* The deferred drop; dropping a collection that is not there does nothing.
Cleanup(t) ==
  /\ Doing(t, "cleanup")
  /\ ~transfer[t].swapped
  /\ SetTemp(t, None)
  /\ Finish(t, "internal")
  /\ UNCHANGED <<readVars, role, origin>>

\* Mutant: nobody is told.
EmitReset_Silent(t) ==
  /\ Doing(t, "emit")
  /\ Finish(t, "ok")
  /\ UNCHANGED <<readVars, role, temps, origin>>

\* The contentReset notification concerns every consumer.
EmitReset(t) ==
  /\ Doing(t, "emit")
  /\ Finish(t, "ok")
  /\ consumer' = [c \in Consumer |-> [consumer[c] EXCEPT !.stale = TRUE]]
  /\ UNCHANGED <<items, call, role, temps, origin>>

------------------------------------------------------------------------------
(* Failures.                                                                *)

Faulty(t) == [transfer[t] EXCEPT !.faulted = TRUE]

\* A store call fails and has done nothing.  Up to CreateCollection there is
\* nothing to drop; after it the deferred drop runs.
TransferFails(t) ==
  /\ Faults
  /\ \/ /\ transfer[t].pc \in {"export", "create"}
        /\ Advance(t, [Faulty(t) EXCEPT !.pc = "done", !.result = "internal"])
     \/ /\ transfer[t].pc \in {"index", "fill", "verify", "rename"}
        /\ Advance(t, [Faulty(t) EXCEPT !.pc = "cleanup"])
  /\ UNCHANGED <<readVars, role, temps, origin>>

\* CreateCollection takes effect and reports an error: no drop is deferred yet.
CreateUnacknowledged(t) ==
  /\ Faults
  /\ Doing(t, "create")
  /\ SetTemp(t, [indexed |-> FALSE, entries |-> {}])
  /\ Advance(t, [Faulty(t) EXCEPT !.pc = "done", !.result = "internal",
                                  !.orphaned = TRUE])
  /\ UNCHANGED <<readVars, role, origin>>

\* InsertMany stops after some of the documents.
FillStops(t) ==
  /\ Faults
  /\ Doing(t, "fill")
  /\ \E n \in 0 .. Len(transfer[t].payload.items) : SetTemp(t, Filled(t, n))
  /\ Advance(t, [Faulty(t) EXCEPT !.pc = "cleanup"])
  /\ UNCHANGED <<readVars, role, origin>>

\* The rename takes effect and reports an error: the drop runs all the same.
RenameUnacknowledged(t) ==
  /\ Faults
  /\ Doing(t, "rename")
  /\ Install(t, [Faulty(t) EXCEPT !.pc = "cleanup"])

\* The drop's error is ignored.
DropFails(t) ==
  /\ Faults
  /\ Doing(t, "cleanup")
  /\ Advance(t, [Faulty(t) EXCEPT !.pc = "done", !.result = "internal",
                                  !.orphaned = TRUE])
  /\ UNCHANGED <<readVars, role, temps, origin>>

\* The process stops; nothing at the next start looks for leftovers, or tells of
\* a swap that was not yet told.
Dies(t) ==
  /\ Faults
  /\ transfer[t].pc \notin {"idle", "done", "dead"}
  /\ Advance(t, [Faulty(t) EXCEPT !.pc = "dead", !.orphaned = TRUE])
  /\ consumer' = IF Doing(t, "emit") THEN Unread ELSE consumer
  /\ UNCHANGED <<items, call, role, temps, origin>>

------------------------------------------------------------------------------
TransferStep(t) ==
  \/ StartExport(t) \/ ExportOne(t) \/ ExportAll(t)
  \/ \E x \in Payloads : StartReplace(t, x)
  \/ CreateTemp(t) \/ IndexTemp(t) \/ FillTemp(t) \/ VerifyTemp(t) \/ Rename(t)
  \/ Cleanup(t) \/ EmitReset(t)

TransferFault(t) ==
  \/ TransferFails(t) \/ CreateUnacknowledged(t) \/ FillStops(t)
  \/ RenameUnacknowledged(t) \/ DropFails(t) \/ Dies(t)

DeploymentAtRest ==
  /\ AtRest
  /\ \A t \in Transfer : transfer[t].pc \in {"done", "dead"}
  /\ UNCHANGED transferVars

\* The histories follow what item call r writes.
Witness(r) ==
  /\ transfer' = [t \in Transfer |->
       IF Doing(t, "export") THEN [transfer[t] EXCEPT !.moments = @ \cup {items'}]
                             ELSE transfer[t]]
  /\ origin' = [i \in ID |->
       IF origin[i] = None /\ items[i] = None /\ items'[i] # None THEN r ELSE origin[i]]
  /\ UNCHANGED <<role, temps>>

DeploymentNext ==
  \/ \E r \in Request : ItemStep(r) /\ Witness(r)
  \/ \E c \in Consumer : (ReadStep(c) \/ FindFails(c)) /\ UNCHANGED transferVars
  \/ \E t \in Transfer : TransferStep(t) \/ TransferFault(t)
  \/ DeploymentAtRest

DeploymentSpec == DeploymentInit /\ [][DeploymentNext]_deploymentVars
=============================================================================
