-------------------------- MODULE DeploymentProofs --------------------------
(***************************************************************************)
(* What bulk reads and replacements leave intact, and what a transfer      *)
(* answers, proved for any number of calls, consumers and transfers, any   *)
(* payloads and any failures.                                              *)
(***************************************************************************)
EXTENDS DeploymentProperties, SnapshotProofs, LifecycleProofs, FiniteSetTheorems

------------------------------------------------------------------------------
(* The invariant of transfers.                                              *)

TransferFields == {"pc", "op", "payload", "snap", "left", "got", "moments", "swapped",
                   "result", "faulted", "orphaned", "current", "flying"}

Building == {"create", "index", "fill", "verify", "rename"}

\* A replacement works on a valid payload; before the rename its collection holds
\* exactly that; a collection is there only while the call runs, or is orphaned.
TransferOK(c, temp) ==
  /\ DOMAIN c = TransferFields
  /\ c.pc = "idle" => c.op = None /\ c.payload = None
  /\ c.pc = "export" => c.op = "ExportContent"
  /\ c.pc \in Building \cup {"emit", "cleanup"} => c.op = "ReplaceContent"
  /\ c.pc \in Building => c.payload \in Payloads /\ ValidExport(c.payload)
  /\ temp # None => c.pc \in {"index", "fill", "verify", "rename", "cleanup"} \/ c.orphaned
  /\ c.pc \in {"index", "fill", "verify", "rename"} => DOMAIN temp = {"indexed", "entries"}
  /\ c.pc \in {"verify", "rename"} => \A e \in temp.entries : e.exact = TRUE
  /\ c.pc = "rename" => temp.entries = Checksum(c.payload.items)

TransfersOK ==
  /\ DOMAIN transfer = Transfer /\ DOMAIN temps = Transfer
  /\ \A t \in Transfer : TransferOK(transfer[t], temps[t])

DInv == IInv /\ TransfersOK

------------------------------------------------------------------------------
\* A valid payload, as a collection: honest items, and unique keys.
LEMMA PayloadIsCollection ==
  ASSUME NEW x \in Payloads, ValidExport(x)
  PROVE  /\ Documents(Checksum(x.items)) \in [ID -> Version \cup {None}]
         /\ KeysUnique(Documents(Checksum(x.items)))
<1> DEFINE entries == Checksum(x.items)
           docs == Documents(entries)
<1>1. x \in Export /\ ValidItems(x.items)
  BY PayloadAssumption DEF ValidExport
<1>2. ASSUME NEW n \in DOMAIN x.items PROVE x.items[n].item \in Version
  BY <1>2, PayloadAssumption DEF Version
<1>3. ASSUME NEW e \in entries
      PROVE  e.item \in Version /\ e.item # None
  BY <1>2, <1>3, NoneIsNoVersion DEF Checksum
<1>4. ASSUME NEW e \in entries, NEW f \in entries, e.id = f.id PROVE e = f
  BY <1>1, <1>4 DEF Checksum, ValidItems
<1>5. ASSUME NEW i \in ID, docs[i] # None
      PROVE  \E e \in entries : e.id = i /\ docs[i] = e.item
  BY <1>5 DEF Documents
<1>6. docs \in [ID -> Version \cup {None}]
  <2>1. ASSUME NEW i \in ID PROVE docs[i] \in Version \cup {None}
    BY <1>3, <1>5
  <2> QED
    BY <2>1 DEF Documents
<1>7. ASSUME NEW i \in Stored(docs), NEW j \in Stored(docs),
             docs[i].key # None, docs[i].key = docs[j].key
      PROVE  i = j
  <2>1. DOMAIN docs = ID
    BY DEF Documents
  <2>2. PICK e \in entries : e.id = i /\ docs[i] = e.item
    BY <1>5, <1>7, <2>1 DEF Stored
  <2>3. PICK f \in entries : f.id = j /\ docs[j] = f.item
    BY <1>5, <1>7, <2>1 DEF Stored
  <2>4. PICK m \in DOMAIN x.items : e = x.items[m]
    BY DEF Checksum
  <2>5. PICK n \in DOMAIN x.items : f = x.items[n]
    BY DEF Checksum
  <2>6. m = n
    BY <1>1, <1>7, <2>2, <2>3, <2>4, <2>5 DEF ValidItems
  <2> QED
    BY <2>2, <2>3, <2>4, <2>5, <2>6
<1> QED
  BY <1>6, <1>7 DEF KeysUnique

\* The rename puts a collection in place that satisfies the engine's invariant.
LEMMA SwapOK ==
  ASSUME IInv, NEW t \in Transfer, transfer[t].payload \in Payloads,
         ValidExport(transfer[t].payload),
         temps[t].entries = Checksum(transfer[t].payload.items),
         items' = Swapped(t), call' = call
  PROVE  IInv'
<1>1. items' \in [ID -> Version \cup {None}] /\ KeysUnique(items')
  BY PayloadIsCollection DEF Swapped
<1> QED
  BY <1>1 DEF IInv, ItemsOK, CallsOK

\* A step of one transfer that leaves its own record and collection in order.
LEMMA OneTransfer ==
  ASSUME TransfersOK, NEW t \in Transfer, NEW c, NEW temp, TransferOK(c, temp),
         transfer' = [transfer EXCEPT ![t] = c],
         temps' = [temps EXCEPT ![t] = temp] \/ (temps' = temps /\ temp = temps[t])
  PROVE  TransfersOK'
<1>1. DOMAIN transfer' = Transfer /\ DOMAIN temps' = Transfer
  BY DEF TransfersOK
<1>2. transfer'[t] = c /\ temps'[t] = temp
  BY DEF TransfersOK
<1>3. ASSUME NEW u \in Transfer \ {t}
      PROVE  transfer'[u] = transfer[u] /\ temps'[u] = temps[u]
  BY DEF TransfersOK
<1> QED
  BY <1>1, <1>2, <1>3 DEF TransfersOK

LEMMA DeploymentInitOK == DeploymentInit => DInv
<1> SUFFICES ASSUME DeploymentInit PROVE DInv
  OBVIOUS
<1>1. IInv
  BY InitOK DEF DeploymentInit, SnapshotsInit
<1>2. TransferOK(NoTransfer, None)
  BY DEF TransferOK, NoTransfer, TransferFields, Building
<1> QED
  BY <1>1, <1>2 DEF DInv, TransfersOK, DeploymentInit

\* What an item call does to the record of a transfer: history only.
Witnessed(c, d, docs) ==
  /\ DOMAIN d = TransferFields
  /\ \A f \in TransferFields \ {"moments"} : d[f] = c[f]
  /\ d.moments = IF c.pc = "export" THEN c.moments \cup {docs} ELSE c.moments

LEMMA WitnessFields ==
  ASSUME NEW r \in Request, Witness(r), NEW t \in Transfer,
         DOMAIN transfer[t] = TransferFields
  PROVE  Witnessed(transfer[t], transfer'[t], items')
BY DEF Witness, Witnessed, TransferFields, Doing

LEMMA WitnessedFields ==
  ASSUME NEW c, NEW d, NEW docs, Witnessed(c, d, docs)
  PROVE  /\ d.pc = c.pc /\ d.op = c.op /\ d.payload = c.payload /\ d.snap = c.snap
         /\ d.left = c.left /\ d.got = c.got /\ d.swapped = c.swapped
         /\ d.result = c.result /\ d.faulted = c.faulted /\ d.orphaned = c.orphaned
         /\ d.current = c.current /\ d.flying = c.flying
BY DEF Witnessed, TransferFields

\* What does not concern a transfer: item calls, reads and consumers.
LEMMA OthersOK ==
  ASSUME DInv,
         \/ \E r \in Request : ItemStep(r) /\ Witness(r)
         \/ /\ \E c \in Consumer : ReadStep(c) \/ FindFails(c)
            /\ UNCHANGED transferVars
  PROVE  DInv'
<1>1. ASSUME NEW r \in Request, ItemStep(r) PROVE [Next]_vars
  BY <1>1 DEF ItemStep, Next
<1>2. ASSUME NEW c \in Consumer, ReadStep(c) \/ FindFails(c) PROVE [Next]_vars
  BY <1>2 DEF ReadStep, FindFails, Fetch, Visit, Drained, GetSnapshot, Reread, vars
<1>3. IInv'
  BY <1>1, <1>2, StepOK DEF DInv
<1>4. TransfersOK'
  <2>1. CASE UNCHANGED transferVars
    BY <2>1 DEF DInv, TransfersOK, transferVars
  <2>2. ASSUME NEW r \in Request, Witness(r) PROVE TransfersOK'
    <3>1. DOMAIN transfer' = Transfer /\ temps' = temps
      BY <2>2 DEF Witness
    <3>2. ASSUME NEW t \in Transfer PROVE TransferOK(transfer'[t], temps[t])
      <4>1. TransferOK(transfer[t], temps[t])
        BY DEF DInv, TransfersOK
      <4>2. Witnessed(transfer[t], transfer'[t], items')
        BY <2>2, <4>1, WitnessFields DEF TransferOK
      <4>3. DOMAIN transfer'[t] = TransferFields
        BY <4>2 DEF Witnessed
      <4> QED
        BY <4>1, <4>2, <4>3, WitnessedFields DEF TransferOK
    <3> QED
      BY <3>1, <3>2 DEF DInv, TransfersOK
  <2> QED
    BY <2>1, <2>2
<1> QED
  BY <1>3, <1>4 DEF DInv

\* What the temporary collection gives back is exact, however much of it is there.
LEMMA FilledIsExact ==
  ASSUME NEW t \in Transfer, NEW n \in Nat, n <= Len(transfer[t].payload.items),
         transfer[t].payload \in Payloads, ValidExport(transfer[t].payload),
         DOMAIN temps[t] = {"indexed", "entries"}
  PROVE  /\ DOMAIN Filled(t, n) = {"indexed", "entries"}
         /\ \A e \in Filled(t, n).entries : e.exact = TRUE
<1> DEFINE sent == transfer[t].payload.items
<1>1. sent \in Seq(Entry \cup {None}) /\ ValidItems(sent)
  BY PayloadAssumption DEF Export, ValidExport
<1>2. ASSUME NEW m \in 1 .. n PROVE Persisted(sent[m]).exact = TRUE
  <2>1. m \in DOMAIN sent
    BY <1>1
  <2>2. sent[m] \in Entry
    BY <1>1, <2>1 DEF ValidItems
  <2> QED
    BY <2>2 DEF Persisted, Entry
<1> QED
  BY <1>2 DEF Filled

\* The swap, acknowledged or not.
LEMMA RenameOK ==
  ASSUME DInv, NEW t \in Transfer, Doing(t, "rename"), NEW record,
         DOMAIN record = TransferFields,
         record.pc \in {"emit", "cleanup"}, record.op = "ReplaceContent",
         Install(t, record)
  PROVE  DInv'
<1>1. IInv'
  BY SwapOK DEF DInv, TransfersOK, TransferOK, Building, Doing, Install
<1>2. DOMAIN transfer' = Transfer /\ DOMAIN temps' = Transfer
  BY DEF DInv, TransfersOK, Install, SetTemp
<1>3. TransferOK(transfer'[t], temps'[t])
  <2>1. temps'[t] = None
    BY DEF DInv, TransfersOK, Install, SetTemp
  <2>2. transfer'[t] = [record EXCEPT !.current = TRUE,
                                      !.flying = {r \in Request : Active(r)}]
    BY DEF Install
  <2> QED
    BY <2>1, <2>2 DEF TransferOK, TransferFields, Building
<1>4. ASSUME NEW u \in Transfer \ {t}
      PROVE  TransferOK(transfer'[u], temps'[u])
  <2>1. temps'[u] = temps[u]
    BY DEF DInv, TransfersOK, Install, SetTemp
  <2>2. transfer'[u] = [transfer[u] EXCEPT !.current = FALSE]
    BY DEF Install
  <2>3. TransferOK(transfer[u], temps[u])
    BY DEF DInv, TransfersOK
  <2> QED
    BY <2>1, <2>2, <2>3 DEF TransferOK, TransferFields
<1> QED
  BY <1>1, <1>2, <1>3, <1>4 DEF DInv, TransfersOK

LEMMA TransferStepOK ==
  ASSUME DInv, NEW t \in Transfer, TransferStep(t)
  PROVE  DInv'
<1> DEFINE c == transfer[t]
<1> USE DEF DInv
<1>0. /\ TransferOK(c, temps[t])
      /\ DOMAIN c = TransferFields
  BY DEF TransfersOK, TransferOK
<1>s. ASSUME UNCHANGED <<items, call>> PROVE IInv'
  BY <1>s DEF IInv, ItemsOK, CallsOK, KeysUnique
<1>1. CASE StartExport(t)
  <2> DEFINE x == [c EXCEPT !.op = "ExportContent"]
  <2>1. TransferOK([x EXCEPT !.pc = "done", !.result = "forbidden"], temps[t])
    BY <1>1, <1>0 DEF TransferOK, TransferFields, Building, StartExport, Doing
  <2>2. TransferOK([x EXCEPT !.pc = "export", !.snap = items, !.left = ID,
                             !.moments = {items}], temps[t])
    BY <1>1, <1>0 DEF TransferOK, TransferFields, Building, StartExport, Doing
  <2> QED
    BY <1>1, <1>s, <2>1, <2>2, OneTransfer DEF StartExport, Advance, readVars
<1>2. CASE ExportAll(t)
  <2> DEFINE entries == SetToSeq(c.got)
  <2>1. TransferOK([c EXCEPT !.pc = "done", !.result = "ok", !.payload = NewExport(entries)],
                   temps[t])
    BY <1>2, <1>0 DEF TransferOK, TransferFields, Building, ExportAll, Doing
  <2>2. TransferOK([c EXCEPT !.pc = "done", !.result = "internal"], temps[t])
    BY <1>2, <1>0 DEF TransferOK, TransferFields, Building, ExportAll, Doing
  <2> QED
    BY <1>2, <1>s, <2>1, <2>2, OneTransfer DEF ExportAll, Advance, Finish, readVars
<1>11. CASE ExportOne(t)
  <2>1. PICK i \in c.left \cap Stored(Snapshotted(t)) :
          Advance(t, [c EXCEPT !.left = @ \ {i},
                               !.got = @ \cup {EntryOfItem(i, Snapshotted(t)[i])}])
    BY <1>11 DEF ExportOne
  <2> DEFINE d == [c EXCEPT !.left = @ \ {i},
                            !.got = @ \cup {EntryOfItem(i, Snapshotted(t)[i])}]
  <2>2. TransferOK(d, temps[t])
    BY <1>11, <1>0 DEF TransferOK, TransferFields, Building, ExportOne, Doing
  <2> HIDE DEF d
  <2> QED
    BY <1>11, <1>s, <2>1, <2>2, OneTransfer DEF ExportOne, Advance, readVars, d
<1>3. ASSUME NEW x \in Payloads, StartReplace(t, x) PROVE DInv'
  <2> DEFINE d == [c EXCEPT !.op = "ReplaceContent"]
  <2>1. TransferOK([d EXCEPT !.pc = "done", !.result = "forbidden"], temps[t])
    BY <1>3, <1>0 DEF TransferOK, TransferFields, Building, StartReplace, Doing
  <2>2. TransferOK([d EXCEPT !.pc = "done", !.result = "badRequest"], temps[t])
    BY <1>3, <1>0 DEF TransferOK, TransferFields, Building, StartReplace, Doing
  <2>3. ASSUME ValidExport(x)
        PROVE  TransferOK([d EXCEPT !.pc = "create", !.payload = x], temps[t])
    BY <1>3, <1>0, <2>3 DEF TransferOK, TransferFields, Building, StartReplace, Doing
  <2> QED
    BY <1>3, <1>s, <2>1, <2>2, <2>3, OneTransfer DEF StartReplace, Advance, readVars
<1>4. CASE CreateTemp(t)
  <2>1. TransferOK([c EXCEPT !.pc = "index"], [indexed |-> FALSE, entries |-> {}])
    BY <1>4, <1>0 DEF TransferOK, TransferFields, Building, CreateTemp, Doing
  <2> QED
    BY <1>4, <1>s, <2>1, OneTransfer DEF CreateTemp, Advance, Step, SetTemp, readVars
<1>5. CASE IndexTemp(t)
  <2>1. TransferOK([c EXCEPT !.pc = "fill"], [temps[t] EXCEPT !.indexed = TRUE])
    BY <1>5, <1>0 DEF TransferOK, TransferFields, Building, IndexTemp, Doing
  <2> QED
    BY <1>5, <1>s, <2>1, OneTransfer DEF IndexTemp, Advance, Step, SetTemp, readVars
<1>6. CASE FillTemp(t)
  <2> DEFINE n == Len(c.payload.items)
  <2>1. /\ c.payload \in Payloads /\ ValidExport(c.payload)
        /\ DOMAIN temps[t] = {"indexed", "entries"}
    BY <1>6, <1>0 DEF TransferOK, Building, FillTemp, Doing
  <2>2. n \in Nat /\ n <= Len(transfer[t].payload.items)
    BY <2>1, PayloadAssumption DEF Export
  <2> HIDE DEF n
  <2>3. /\ DOMAIN Filled(t, n) = {"indexed", "entries"}
        /\ \A e \in Filled(t, n).entries : e.exact = TRUE
    BY <2>1, <2>2, FilledIsExact
  <2>4. TransferOK([c EXCEPT !.pc = "verify"], Filled(t, n))
    BY <1>6, <1>0, <2>3 DEF TransferOK, TransferFields, Building, FillTemp, Doing
  <2> QED
    BY <1>6, <1>s, <2>4, OneTransfer DEF FillTemp, Advance, n, Step, SetTemp, readVars
<1>7. CASE VerifyTemp(t)
  <2>1. ASSUME temps[t].entries = Checksum(c.payload.items)
        PROVE  TransferOK([c EXCEPT !.pc = "rename"], temps[t])
    BY <1>7, <1>0, <2>1 DEF TransferOK, TransferFields, Building, VerifyTemp, Doing
  <2>2. TransferOK([c EXCEPT !.pc = "cleanup"], temps[t])
    BY <1>7, <1>0 DEF TransferOK, TransferFields, Building, VerifyTemp, Doing
  <2> QED
    BY <1>7, <1>s, <2>1, <2>2, OneTransfer DEF VerifyTemp, Advance, Step, readVars
<1>8. CASE Rename(t)
  <2> DEFINE record == [c EXCEPT !.pc = "emit", !.swapped = TRUE]
  <2>1. /\ DOMAIN record = TransferFields
        /\ record.pc = "emit" /\ record.op = "ReplaceContent"
    BY <1>8, <1>0 DEF TransferOK, TransferFields, Building, Rename, Doing
  <2> HIDE DEF record
  <2>2. Doing(t, "rename") /\ Install(t, record)
    BY <1>8 DEF Rename, record
  <2> QED
    BY <2>1, <2>2, RenameOK
<1>9. CASE Cleanup(t)
  <2>1. TransferOK([c EXCEPT !.pc = "done", !.result = "internal"], None)
    BY <1>9, <1>0 DEF TransferOK, TransferFields, Building, Cleanup, Doing
  <2> QED
    BY <1>9, <1>s, <2>1, OneTransfer DEF Cleanup, Advance, Finish, SetTemp, readVars
<1>10. CASE EmitReset(t)
  <2>1. TransferOK([c EXCEPT !.pc = "done", !.result = "ok"], temps[t])
    BY <1>10, <1>0 DEF TransferOK, TransferFields, Building, EmitReset, Doing
  <2> QED
    BY <1>10, <1>s, <2>1, OneTransfer DEF EmitReset, Advance, Finish
<1> QED
  BY <1>1, <1>2, <1>3, <1>4, <1>5, <1>6, <1>7, <1>8, <1>9, <1>10, <1>11
     DEF TransferStep

LEMMA TransferFaultOK ==
  ASSUME DInv, NEW t \in Transfer, TransferFault(t)
  PROVE  DInv'
<1> DEFINE c == transfer[t]
           f == Faulty(t)
<1> USE DEF DInv
<1>0. TransferOK(c, temps[t]) /\ DOMAIN c = TransferFields
  BY DEF TransfersOK, TransferOK
<1>s. ASSUME UNCHANGED <<items, call>> PROVE IInv'
  BY <1>s DEF IInv, ItemsOK, CallsOK, KeysUnique
<1>1. CASE TransferFails(t)
  <2>1. ASSUME c.pc \in {"export", "create"}
        PROVE  TransferOK([f EXCEPT !.pc = "done", !.result = "internal"], temps[t])
    BY <1>1, <1>0, <2>1 DEF TransferOK, TransferFields, Building, Faulty
  <2>2. ASSUME c.pc \in {"index", "fill", "verify", "rename"}
        PROVE  TransferOK([f EXCEPT !.pc = "cleanup"], temps[t])
    BY <1>1, <1>0, <2>2 DEF TransferOK, TransferFields, Building, Faulty
  <2> QED
    BY <1>1, <1>s, <2>1, <2>2, OneTransfer DEF TransferFails, Advance, readVars
<1>2. CASE CreateUnacknowledged(t)
  <2>1. TransferOK([f EXCEPT !.pc = "done", !.result = "internal", !.orphaned = TRUE],
                   [indexed |-> FALSE, entries |-> {}])
    BY <1>2, <1>0 DEF TransferOK, TransferFields, Building, Faulty
  <2> QED
    BY <1>2, <1>s, <2>1, OneTransfer DEF CreateUnacknowledged, Advance, SetTemp, readVars
<1>3. CASE FillStops(t)
  <2>1. ASSUME NEW n PROVE TransferOK([f EXCEPT !.pc = "cleanup"], Filled(t, n))
    BY <1>3, <1>0 DEF TransferOK, TransferFields, Building, Faulty, FillStops, Doing
  <2> QED
    BY <1>3, <1>s, <2>1, OneTransfer DEF FillStops, Advance, SetTemp, readVars
<1>4. CASE RenameUnacknowledged(t)
  <2> DEFINE record == [f EXCEPT !.pc = "cleanup"]
  <2>1. /\ DOMAIN record = TransferFields
        /\ record.pc = "cleanup" /\ record.op = "ReplaceContent"
    BY <1>4, <1>0 DEF TransferOK, TransferFields, Building, RenameUnacknowledged, Doing, Faulty
  <2> HIDE DEF record
  <2>2. Doing(t, "rename") /\ Install(t, record)
    BY <1>4 DEF RenameUnacknowledged, record
  <2> QED
    BY <2>1, <2>2, RenameOK
<1>5. CASE DropFails(t)
  <2>1. TransferOK([f EXCEPT !.pc = "done", !.result = "internal", !.orphaned = TRUE], temps[t])
    BY <1>5, <1>0 DEF TransferOK, TransferFields, Building, Faulty
  <2> QED
    BY <1>5, <1>s, <2>1, OneTransfer DEF DropFails, Advance, readVars
<1>6. CASE Dies(t)
  <2>1. TransferOK([f EXCEPT !.pc = "dead", !.orphaned = TRUE], temps[t])
    BY <1>6, <1>0 DEF TransferOK, TransferFields, Building, Faulty
  <2> QED
    BY <1>6, <1>s, <2>1, OneTransfer DEF Dies, Advance, readVars
<1> QED
  BY <1>1, <1>2, <1>3, <1>4, <1>5, <1>6 DEF TransferFault

LEMMA DeploymentStepOK == DInv /\ [DeploymentNext]_deploymentVars => DInv'
<1> SUFFICES ASSUME DInv, [DeploymentNext]_deploymentVars PROVE DInv'
  OBVIOUS
<1>1. ASSUME NEW t \in Transfer, TransferStep(t) \/ TransferFault(t) PROVE DInv'
  BY <1>1, TransferStepOK, TransferFaultOK
<1>2. ASSUME UNCHANGED deploymentVars PROVE DInv'
  BY <1>2 DEF deploymentVars, DInv, IInv, ItemsOK, CallsOK, KeysUnique, TransfersOK
<1>3. DeploymentAtRest => UNCHANGED deploymentVars
  BY DEF DeploymentAtRest, AtRest, transferVars, deploymentVars, readVars
<1> QED
  BY <1>1, <1>2, <1>3, OthersOK DEF DeploymentNext

\* The item calls' invariant survives replacements, and transfers keep theirs.
THEOREM DeploymentInvariance == DeploymentSpec => []DInv
BY DeploymentInitOK, DeploymentStepOK, PTL DEF DeploymentSpec

\* Replacing the whole content under running calls, with any of them failing or
\* stopping anywhere, gives no two items one key: a call that read the old content
\* writes into the new one, where its item's key may have another owner, and is
\* refused by an index that was built with the new collection
\* (validateContentItems, transfer.go:92-117; ensureIndexes, persistor.go:39-78).
THEOREM ReplacedKeysAreUnique == DeploymentSpec => []KeysStayUnique
<1>1. DInv => KeysStayUnique
  BY IInvGives DEF DInv
<1> QED
  BY <1>1, DeploymentInvariance, PTL

\* A temporary collection is left behind only where the code gives it up
\* (persistor.go:117-129).
THEOREM LeftoversAreExplained == DeploymentSpec => []LeftoversExplained
<1>1. DInv => LeftoversExplained
  BY DEF DInv, TransfersOK, TransferOK, LeftoversExplained, Settled
<1> QED
  BY <1>1, DeploymentInvariance, PTL

------------------------------------------------------------------------------
(* Collections as lists of entries.                                         *)

\* A finite set is listed once each, all of it, in some order.
LEMMA SetToSeqLists ==
  ASSUME NEW S, IsFiniteSet(S)
  PROVE  /\ SetToSeq(S) \in Seq(S)
         /\ IsInjective(SetToSeq(S))
         /\ {SetToSeq(S)[n] : n \in DOMAIN SetToSeq(S)} = S
<1> DEFINE size == Cardinality(S)
           list == SetToSeq(S)
<1>1. size \in Nat /\ ExistsBijection(1 .. size, S)
  BY FS_CardinalityType
<1>2. PICK f \in [1 .. size -> S] : IsInjective(f)
  BY <1>1 DEF ExistsBijection, Bijection, Injection
<1>3. list \in [1 .. size -> S] /\ IsInjective(list)
  BY <1>2 DEF SetToSeq
<1>4. Cardinality(1 .. size) = size
  BY <1>1, FS_Interval
<1>5. list \in Surjection(1 .. size, S)
  BY <1>1, <1>3, <1>4, FS_Injection DEF Injection
<1> HIDE DEF list, size
<1>6. DOMAIN list = 1 .. size /\ \A n \in 1 .. size : list[n] \in S
  BY <1>3
<1>7. {list[n] : n \in DOMAIN list} = S
  BY <1>5, <1>6 DEF Surjection
<1>8. list \in Seq(S)
  BY <1>1, <1>3
<1> QED
  BY <1>3, <1>7, <1>8 DEF list

\* What ValidItems accepts lists its entries once each.
LEMMA ValidItemsCount ==
  ASSUME NEW list \in Seq(Entry \cup {None}), ValidItems(list)
  PROVE  IsFiniteSet(Checksum(list)) /\ Cardinality(Checksum(list)) = Len(list)
<1>1. Len(list) \in Nat /\ DOMAIN list = 1 .. Len(list)
  OBVIOUS
<1>2. list \in Bijection(1 .. Len(list), Checksum(list))
  <2>1. list \in [1 .. Len(list) -> Checksum(list)]
    BY <1>1 DEF Checksum
  <2>2. IsInjective(list)
    BY <1>1 DEF IsInjective, ValidItems
  <2>3. \A e \in Checksum(list) : \E n \in 1 .. Len(list) : list[n] = e
    BY <1>1 DEF Checksum
  <2> QED
    BY <2>1, <2>2, <2>3 DEF Bijection, Injection, Surjection
<1>3. IsFiniteSet(1 .. Len(list)) /\ Cardinality(1 .. Len(list)) = Len(list)
  BY <1>1, FS_Interval
<1> QED
  BY <1>2, <1>3, FS_Bijection DEF ExistsBijection

\* A list makes a finite collection.
LEMMA DocumentsFinite ==
  ASSUME NEW list \in Seq(Entry \cup {None})
  PROVE  IsFiniteSet(Stored(Documents(Checksum(list))))
<1> DEFINE ids == {list[n].id : n \in 1 .. Len(list)}
           idOf == [n \in 1 .. Len(list) |-> list[n].id]
<1>1. Len(list) \in Nat /\ DOMAIN list = 1 .. Len(list)
  OBVIOUS
<1>2. IsFiniteSet(1 .. Len(list))
  BY <1>1, FS_Interval
<1>3. idOf \in Surjection(1 .. Len(list), ids)
  BY DEF Surjection
<1>4. IsFiniteSet(ids)
  <2> HIDE DEF ids, idOf
  <2> QED
    BY <1>2, <1>3, FS_Surjection
<1>5. Stored(Documents(Checksum(list))) \in SUBSET ids
  <2> SUFFICES ASSUME NEW i \in Stored(Documents(Checksum(list))) PROVE i \in ids
    OBVIOUS
  <2>1. PICK e \in Checksum(list) : e.id = i
    BY DEF Stored, Documents
  <2> QED
    BY <1>1, <2>1 DEF Checksum
<1> QED
  BY <1>4, <1>5, FS_Subset

EntriesOf(docs) == {EntryOfItem(i, docs[i]) : i \in Stored(docs)}

Collection(docs) ==
  /\ docs \in [ID -> Version \cup {None}]
  /\ KeysUnique(docs)
  /\ IsFiniteSet(Stored(docs))

\* The entries of a collection: one for each document, keys told apart.
LEMMA EntriesOK ==
  ASSUME NEW docs, Collection(docs)
  PROVE  /\ IsFiniteSet(EntriesOf(docs)) /\ EntriesOf(docs) \subseteq Entry
         /\ \A e \in EntriesOf(docs) :
              /\ e # None /\ e.id \in Stored(docs) /\ e.id # None
              /\ e.item = Decode(docs[e.id]) /\ e.item.type # None
              /\ e.item.key = docs[e.id].key
         /\ \A e, f \in EntriesOf(docs) : e.id = f.id => e = f
         /\ \A i \in Stored(docs) : \E e \in EntriesOf(docs) : e.id = i
<1> DEFINE entry(i) == [id |-> i, item |-> Decode(docs[i]), exact |-> TRUE]
           entryOf == [i \in Stored(docs) |-> entry(i)]
<1>1. ASSUME NEW i \in Stored(docs)
      PROVE  /\ entry(i) \in Entry /\ Decode(docs[i]).type # None
             /\ Decode(docs[i]).key = docs[i].key /\ i # None
  <2>1. i \in ID /\ docs[i] \in Version /\ docs[i] \in Item
    BY DEF Collection, Stored, Version
  <2>2. Decode(docs[i]) \in Item
    BY <2>1, DecodeIsVersion DEF Version
  <2>3. Decode(docs[i]).key = docs[i].key
    BY <2>1 DEF Decode, Item
  <2> QED
    BY <2>1, <2>2, <2>3, NilAssumption, RequestAssumption DEF Item, Entry
<1>2. EntriesOf(docs) = {entry(i) : i \in Stored(docs)}
  BY DEF EntriesOf, EntryOfItem
<1>3. entryOf \in Surjection(Stored(docs), EntriesOf(docs))
  BY <1>2 DEF Surjection
<1>4. IsFiniteSet(EntriesOf(docs))
  <2> HIDE DEF entryOf
  <2> QED
    BY <1>3, FS_Surjection DEF Collection
<1>5. EntriesOf(docs) \subseteq Entry
  BY <1>1, <1>2
<1>6. ASSUME NEW e \in EntriesOf(docs)
      PROVE  /\ e.id \in Stored(docs) /\ e = entry(e.id)
             /\ e.item = Decode(docs[e.id])
  BY <1>2
<1>7. ASSUME NEW i \in Stored(docs) PROVE \E e \in EntriesOf(docs) : e.id = i
  <2>1. entry(i) \in EntriesOf(docs)
    BY <1>2
  <2>2. entry(i).id = i
    OBVIOUS
  <2> QED
    BY <2>1, <2>2
<1>8. ASSUME NEW e \in EntriesOf(docs)
      PROVE  /\ e # None /\ e.id # None
             /\ e.item.type # None /\ e.item.key = docs[e.id].key
  BY <1>1, <1>5, <1>6, PayloadAssumption
<1>9. ASSUME NEW e \in EntriesOf(docs), NEW f \in EntriesOf(docs), e.id = f.id
      PROVE  e = f
  BY <1>6, <1>9
<1> QED
  BY <1>4, <1>5, <1>6, <1>7, <1>8, <1>9

\* An export of a collection passes the validation of ReplaceContent, and installed
\* it is that collection again.
LEMMA ExportOK ==
  ASSUME NEW docs, Collection(docs)
  PROVE  LET entries == SetToSeq(EntriesOf(docs)) IN
         /\ NewExport(entries) \in Export
         /\ ValidItems(entries) /\ ValidExport(NewExport(entries))
         /\ CatalogOf(Documents(Checksum(entries))) = CatalogOf(docs)
<1> DEFINE entries == SetToSeq(EntriesOf(docs))
           back == Documents(EntriesOf(docs))
<1>1. /\ entries \in Seq(EntriesOf(docs)) /\ IsInjective(entries)
      /\ Checksum(entries) = EntriesOf(docs)
  BY EntriesOK, SetToSeqLists DEF Checksum
<1> HIDE DEF entries
<1>2. ASSUME NEW n \in DOMAIN entries PROVE entries[n] \in EntriesOf(docs)
  BY <1>1
<1>3. ValidItems(entries)
  <2>1. ASSUME NEW m \in DOMAIN entries, NEW n \in DOMAIN entries, m # n
        PROVE  /\ entries[m].id # entries[n].id
               /\ entries[m].item.key # None => entries[m].item.key # entries[n].item.key
    <3>1. entries[m].id # entries[n].id
      BY <1>1, <1>2, <2>1, EntriesOK DEF IsInjective
    <3> QED
      BY <1>2, <3>1, EntriesOK DEF Collection, KeysUnique
  <2> QED
    BY <1>2, <2>1, EntriesOK DEF ValidItems
<1>4. entries \in Seq(Entry \cup {None}) /\ Len(entries) \in Nat
      /\ Checksum(entries) \in SUBSET (Entry \cup {None})
  BY <1>1, EntriesOK
<1>5. NewExport(entries) \in Export
  BY <1>4 DEF NewExport, Export, ContentExportFormatVersion
<1>6. ValidExport(NewExport(entries))
  BY <1>3 DEF NewExport, ValidExport
<1>7. ASSUME NEW i \in ID
      PROVE  /\ docs[i] = None => back[i] = None
             /\ docs[i] # None => back[i] # None /\ EntryOf(back[i]) = EntryOf(docs[i])
  <2>1. CASE docs[i] = None
    BY <2>1, EntriesOK DEF Documents, Stored
  <2>2. CASE docs[i] # None
    <3>1. i \in Stored(docs) /\ docs[i] \in Version
      BY <2>2 DEF Collection, Stored
    <3>2. back[i] = Decode(docs[i])
      BY <3>1, EntriesOK DEF Documents
    <3> QED
      BY <2>2, <3>1, <3>2, DecodedEntry, NoneIsNoVersion
  <2> QED
    BY <2>1, <2>2
<1>8. CatalogOf(back) = CatalogOf(docs)
  BY <1>7 DEF CatalogOf
<1> QED
  BY <1>1, <1>3, <1>5, <1>6, <1>8 DEF entries

------------------------------------------------------------------------------
(* Types of the transfers' records, and what a transfer answers.            *)

Working == Building \cup {"emit", "cleanup"}

\* An export under way has the entries of the documents it has come to, of one
\* collection that there was.
Exporting(c) ==
  /\ Collection(c.snap) /\ c.snap \in c.moments
  /\ c.got = {EntryOfItem(i, c.snap[i]) : i \in Stored(c.snap) \ c.left}

TransferTyped(c, temp) ==
  /\ c \in TransferRecord /\ temp \in Temp \cup {None}
  /\ c.pc = "export" => c.snap # None /\ Exporting(c)
  /\ c.pc = "idle" => c.got = {}
  /\ c.pc \in Working => c.payload # None /\ ValidExport(c.payload)
  /\ c.pc \in {"index", "fill", "verify", "rename"} => temp # None
  /\ c.pc = "fill" => temp.indexed
  /\ temp # None /\ temp.entries # {} => temp.indexed

\* What OnlyFaultsFail asks of one transfer.
AsAsked(c) ==
  /\ c.op = "ExportContent" /\ role = "canonical" =>
       /\ c.result = "ok"
       /\ ValidExport(c.payload)
       /\ \E docs \in c.moments :
            CatalogOf(Documents(Checksum(c.payload.items))) = CatalogOf(docs)
  /\ c.op = "ReplaceContent" /\ c.payload # None =>
       (c.result = "ok") = Exact(c.payload)

\* A replacement that nothing failed for has all its entries in its collection when
\* they are verified, and gets past the verification exactly when they are exact.
TransferAnswers(c, temp) ==
  /\ c.pc = "verify" =>
       temp.entries = {Persisted(c.payload.items[n]) : n \in DOMAIN c.payload.items}
  /\ c.pc \in {"rename", "emit"} => Exact(c.payload)
  /\ c.pc = "cleanup" /\ ~c.faulted => ~Exact(c.payload)
  /\ c.pc = "done" /\ ~c.faulted => AsAsked(c)

TransferSound(c, temp) == TransferTyped(c, temp) /\ TransferAnswers(c, temp)

TransfersSound ==
  /\ role \in {"canonical", "sandbox"}
  /\ IsFiniteSet(Stored(items))
  /\ transfer \in [Transfer -> TransferRecord] /\ temps \in [Transfer -> Temp \cup {None}]
  /\ origin \in [ID -> Request \cup {None}]
  /\ \A t \in Transfer : TransferSound(transfer[t], temps[t])

LEMMA SoundInitOK == DeploymentInit => TransfersSound
<1> SUFFICES ASSUME DeploymentInit PROVE TransfersSound
  OBVIOUS
<1>1. role \in {"canonical", "sandbox"}
  BY PayloadAssumption DEF DeploymentInit, EffectiveRole
<1>2. IsFiniteSet(Stored(items))
  BY ContentsAssumption DEF DeploymentInit, SnapshotsInit, Init
<1>3. NoTransfer \in TransferRecord
  BY DEF NoTransfer, TransferRecord
<1>4. TransferSound(NoTransfer, None)
  BY <1>3 DEF TransferSound, TransferTyped, TransferAnswers, NoTransfer, Working, Building
<1> QED
  BY <1>1, <1>2, <1>3, <1>4 DEF TransfersSound, DeploymentInit

\* A step of one transfer that leaves its own record and collection in order.
LEMMA OneSound ==
  ASSUME TransfersSound, UNCHANGED <<items, role, origin>>,
         NEW t \in Transfer, NEW c, NEW temp, TransferSound(c, temp),
         transfer' = [transfer EXCEPT ![t] = c],
         temps' = [temps EXCEPT ![t] = temp] \/ (temps' = temps /\ temp = temps[t])
  PROVE  TransfersSound'
<1>1. /\ transfer'[t] = c /\ temps'[t] = temp
      /\ \A u \in Transfer \ {t} : transfer'[u] = transfer[u] /\ temps'[u] = temps[u]
  BY DEF TransfersSound
<1>2. /\ transfer' \in [Transfer -> TransferRecord]
      /\ temps' \in [Transfer -> Temp \cup {None}]
  BY DEF TransfersSound, TransferSound, TransferTyped
<1>3. ASSUME NEW u \in Transfer PROVE TransferSound(transfer[u], temps[u])'
  BY <1>1 DEF TransfersSound, TransferSound, TransferTyped, TransferAnswers, AsAsked, Exporting
<1> QED
  BY <1>2, <1>3 DEF TransfersSound

\* A transfer between two steps of which the first has to be typed.
LEMMA StartsSound ==
  ASSUME DInv, TransfersSound, NEW t \in Transfer,
         StartExport(t) \/ \E x \in Payloads : StartReplace(t, x)
  PROVE  TransfersSound'
<1> DEFINE c == transfer[t]
<1>0. /\ TransferOK(c, temps[t]) /\ TransferSound(c, temps[t]) /\ c \in TransferRecord
      /\ UNCHANGED <<items, role, origin>> /\ c.pc = "idle" /\ temps' = temps
  BY DEF DInv, TransfersOK, TransfersSound, StartExport, StartReplace, readVars, Doing
<1>1. CASE StartExport(t)
  <2> DEFINE no == [c EXCEPT !.op = "ExportContent", !.pc = "done", !.result = "forbidden"]
             go == [c EXCEPT !.op = "ExportContent", !.pc = "export", !.snap = items,
                             !.left = ID, !.moments = {items}]
  <2>1. Collection(items) /\ items # None /\ items \in [ID -> Item \cup {None}]
    BY PayloadAssumption DEF DInv, IInv, ItemsOK, Version, Collection, TransfersSound
  <2>2. no \in TransferRecord /\ go \in TransferRecord
    BY <1>0, <2>1 DEF TransferRecord
  <2>3. /\ no.pc = "done" /\ no.op = "ExportContent"
        /\ go.pc = "export" /\ go.snap = items /\ go.left = ID /\ go.got = c.got
        /\ go.moments = {items}
    BY <1>0 DEF TransferRecord
  <2>4. IF role # "canonical" THEN Advance(t, no) ELSE Advance(t, go)
    BY <1>1 DEF StartExport
  <2> HIDE DEF no, go
  <2>7. c.got = {}
    BY <1>0 DEF TransferSound, TransferTyped
  <2>8. Exporting(go)
    <3>1. Stored(items) \ ID = {}
      BY <2>1 DEF Stored
    <3> QED
      BY <2>1, <2>3, <2>7, <3>1 DEF Exporting
  <2>5. TransferSound(go, temps[t])
    BY <1>0, <2>1, <2>2, <2>3, <2>8 DEF TransferSound, TransferTyped, TransferAnswers, Working, Building
  <2>6. ASSUME role # "canonical" PROVE TransferSound(no, temps[t])
    BY <1>0, <2>2, <2>3, <2>6 DEF TransferSound, TransferTyped, TransferAnswers, Working, Building,
       AsAsked
  <2> QED
    BY <1>0, <2>4, <2>5, <2>6, OneSound DEF Advance
<1>2. ASSUME NEW x \in Payloads, StartReplace(t, x) PROVE TransfersSound'
  <2> DEFINE no == [c EXCEPT !.op = "ReplaceContent", !.pc = "done", !.result = "forbidden"]
             bad == [c EXCEPT !.op = "ReplaceContent", !.pc = "done", !.result = "badRequest"]
             go == [c EXCEPT !.op = "ReplaceContent", !.pc = "create", !.payload = x]
  <2>1. x \in Export /\ x # None /\ c.payload = None
    BY <1>0, PayloadAssumption DEF TransferOK
  <2>2. no \in TransferRecord /\ bad \in TransferRecord /\ go \in TransferRecord
    <3>1. no \in TransferRecord
      BY <1>0 DEF TransferRecord
    <3>2. bad \in TransferRecord
      BY <1>0 DEF TransferRecord, Result, Kind
    <3>3. go \in TransferRecord
      BY <1>0, <2>1 DEF TransferRecord
    <3> QED
      BY <3>1, <3>2, <3>3
  <2>3. /\ no.pc = "done" /\ no.op = "ReplaceContent" /\ no.payload = None
        /\ bad.pc = "done" /\ bad.op = "ReplaceContent" /\ bad.payload = None
        /\ go.pc = "create" /\ go.payload = x
    BY <1>0, <2>1 DEF TransferRecord
  <2>4. Advance(t, no) \/ Advance(t, bad) \/ (ValidExport(x) /\ Advance(t, go))
    BY <1>2 DEF StartReplace
  <2> HIDE DEF no, bad, go
  <2>5. ASSUME ValidExport(x) PROVE TransferSound(go, temps[t])
    BY <1>0, <2>1, <2>2, <2>3, <2>5 DEF TransferSound, TransferTyped, TransferAnswers, Working, Building
  <2>6. TransferSound(no, temps[t]) /\ TransferSound(bad, temps[t])
    BY <1>0, <2>2, <2>3 DEF TransferSound, TransferTyped, TransferAnswers, Working, Building,
       AsAsked
  <2> QED
    BY <1>0, <2>4, <2>5, <2>6, OneSound DEF Advance
<1> QED
  BY <1>1, <1>2

\* The export comes to one more document.
LEMMA ExportGoesOn ==
  ASSUME DInv, TransfersSound, NEW t \in Transfer, ExportOne(t)
  PROVE  TransfersSound'
<1> DEFINE c == transfer[t]
<1>0. /\ TransferSound(c, temps[t]) /\ c \in TransferRecord /\ Exporting(c)
      /\ UNCHANGED <<items, role, origin>> /\ c.pc = "export" /\ temps' = temps
  BY DEF TransfersSound, TransferSound, TransferTyped, ExportOne, readVars, Doing
<1>1. PICK i \in c.left \cap Stored(c.snap) :
        Advance(t, [c EXCEPT !.left = @ \ {i}, !.got = @ \cup {EntryOfItem(i, c.snap[i])}])
  BY DEF ExportOne, Snapshotted
<1> DEFINE d == [c EXCEPT !.left = @ \ {i}, !.got = @ \cup {EntryOfItem(i, c.snap[i])}]
<1>2. EntryOfItem(i, c.snap[i]) \in Entry
  <2>1. EntryOfItem(i, c.snap[i]) \in EntriesOf(c.snap)
    BY DEF EntriesOf
  <2> QED
    BY <1>0, <2>1, EntriesOK DEF Exporting
<1>3. /\ d \in TransferRecord /\ d.pc = "export" /\ d.snap = c.snap
      /\ d.moments = c.moments /\ d.left = c.left \ {i}
      /\ d.got = c.got \cup {EntryOfItem(i, c.snap[i])}
  BY <1>0, <1>2 DEF TransferRecord
<1>4. Advance(t, d)
  BY <1>1
<1> HIDE DEF d
<1>5. Exporting(d)
  <2>1. Stored(d.snap) \ d.left = (Stored(c.snap) \ c.left) \cup {i}
    BY <1>3
  <2> QED
    BY <1>0, <1>3, <2>1 DEF Exporting
<1>6. TransferSound(d, temps[t])
  BY <1>0, <1>3, <1>5 DEF TransferSound, TransferTyped, TransferAnswers, Working, Building
<1> QED
  BY <1>0, <1>4, <1>6, OneSound DEF Advance

\* The export's answer.
LEMMA ExportSound ==
  ASSUME DInv, TransfersSound, NEW t \in Transfer, ExportAll(t)
  PROVE  TransfersSound'
<1> DEFINE c == transfer[t]
           x == NewExport(SetToSeq(c.got))
           good == [c EXCEPT !.pc = "done", !.result = "ok", !.payload = x]
<1>0. /\ TransferOK(c, temps[t]) /\ TransferSound(c, temps[t]) /\ c \in TransferRecord
      /\ UNCHANGED <<items, role, origin>> /\ c.pc = "export" /\ temps' = temps
      /\ c.left \cap Stored(c.snap) = {}
  BY DEF DInv, TransfersOK, TransfersSound, ExportAll, readVars, Doing, Snapshotted
<1>1. Exporting(c) /\ c.op = "ExportContent"
  BY <1>0 DEF TransferSound, TransferTyped, TransferOK
<1>e. c.got = EntriesOf(c.snap)
  <2>1. Stored(c.snap) \ c.left = Stored(c.snap)
    BY <1>0
  <2> QED
    BY <1>1, <2>1 DEF Exporting, EntriesOf
<1>2. /\ x \in Export /\ ValidItems(SetToSeq(c.got)) /\ ValidExport(x)
      /\ CatalogOf(Documents(Checksum(x.items))) = CatalogOf(c.snap)
  BY <1>1, <1>e, ExportOK DEF NewExport, Exporting
<1>3. transfer' = [transfer EXCEPT ![t] = good]
  BY <1>2 DEF ExportAll, Advance
<1> HIDE DEF x
<1>4. good \in TransferRecord
  BY <1>0, <1>2 DEF TransferRecord, Result
<1>5. /\ good.pc = "done" /\ good.op = "ExportContent" /\ good.result = "ok"
      /\ good.payload = x /\ c.snap \in good.moments
  BY <1>0, <1>1 DEF TransferRecord, Exporting
<1> HIDE DEF good
<1>6. TransferSound(good, temps[t])
  BY <1>0, <1>2, <1>4, <1>5 DEF TransferSound, TransferTyped, TransferAnswers, Working,
     Building, AsAsked
<1> QED
  BY <1>0, <1>3, <1>6, OneSound

\* What a record has of its payload, and the payload of its list.
LEMMA PayloadOf ==
  ASSUME DInv, TransfersSound, NEW t \in Transfer, transfer[t].pc \in Building
  PROVE  /\ transfer[t].payload \in Payloads /\ ValidExport(transfer[t].payload)
         /\ transfer[t].payload.items \in Seq(Entry \cup {None})
         /\ ValidItems(transfer[t].payload.items)
BY PayloadAssumption DEF DInv, TransfersOK, TransferOK, ValidExport, Export

\* A temporary collection holds entries, the ones of the payload.
LEMMA FilledTyped ==
  ASSUME DInv, TransfersSound, NEW t \in Transfer, Doing(t, "fill"),
         NEW n \in Nat, n <= Len(transfer[t].payload.items)
  PROVE  /\ Filled(t, n) \in Temp /\ Filled(t, n) # None /\ Filled(t, n).indexed
         /\ Filled(t, n).entries = {Persisted(transfer[t].payload.items[m]) : m \in 1 .. n}
<1> DEFINE sent == transfer[t].payload.items
           stored == {Persisted(sent[m]) : m \in 1 .. n}
<1>1. sent \in Seq(Entry \cup {None}) /\ ValidItems(sent)
  BY PayloadOf DEF Doing, Building
<1>2. ASSUME NEW m \in 1 .. n PROVE Persisted(sent[m]) \in Entry
  <2>1. m \in DOMAIN sent
    BY <1>1
  <2>2. sent[m] \in Entry
    BY <1>1, <2>1 DEF ValidItems
  <2> QED
    BY <2>2 DEF Persisted, Entry
<1>3. temps[t] \in Temp /\ temps[t].indexed
  BY DEF Doing, TransfersSound, TransferSound, TransferTyped
<1>4. stored \in SUBSET Entry
  BY <1>2
<1>5. Filled(t, n) = [temps[t] EXCEPT !.entries = stored]
  BY DEF Filled
<1> HIDE DEF stored
<1>6. Filled(t, n) \in Temp /\ Filled(t, n).indexed /\ Filled(t, n).entries = stored
  BY <1>3, <1>4, <1>5 DEF Temp
<1> QED
  BY <1>6, PayloadAssumption DEF stored

LEMMA BuildSound ==
  ASSUME DInv, TransfersSound, NEW t \in Transfer,
         CreateTemp(t) \/ IndexTemp(t) \/ FillTemp(t)
  PROVE  TransfersSound'
<1> DEFINE c == transfer[t]
<1>0. /\ TransferSound(c, temps[t]) /\ c \in TransferRecord
      /\ c.pc \in Building /\ UNCHANGED <<items, role, origin>>
  BY DEF TransfersSound, TransferSound, TransferTyped, CreateTemp, IndexTemp, FillTemp, readVars, Doing,
         Building
<1>p. c.payload # None /\ ValidExport(c.payload)
  BY <1>0 DEF TransferSound, TransferTyped, Working
<1>1. CASE CreateTemp(t)
  <2> DEFINE n == [c EXCEPT !.pc = "index"]
             temp == [indexed |-> FALSE, entries |-> {}]
  <2>1. n \in TransferRecord /\ n.pc = "index" /\ n.payload = c.payload
    BY <1>0 DEF TransferRecord
  <2>2. temp \in Temp /\ temp.entries = {}
    BY DEF Temp
  <2>3. Advance(t, n) /\ SetTemp(t, temp)
    BY <1>1 DEF CreateTemp, Step
  <2> HIDE DEF n, temp
  <2>4. TransferSound(n, temp)
    BY <1>p, <2>1, <2>2, PayloadAssumption DEF TransferSound, TransferTyped, TransferAnswers
  <2> QED
    BY <1>0, <2>3, <2>4, OneSound DEF Advance, SetTemp
<1>2. CASE IndexTemp(t)
  <2> DEFINE n == [c EXCEPT !.pc = "fill"]
             temp == [temps[t] EXCEPT !.indexed = TRUE]
  <2>1. n \in TransferRecord /\ n.pc = "fill" /\ n.payload = c.payload
    BY <1>0 DEF TransferRecord
  <2>2. temps[t] \in Temp
    BY <1>0, <1>2 DEF TransferSound, TransferTyped, IndexTemp, Doing
  <2>3. temp \in Temp /\ temp.indexed = TRUE
    BY <2>2 DEF Temp
  <2>4. Advance(t, n) /\ SetTemp(t, temp)
    BY <1>2 DEF IndexTemp, Step
  <2> HIDE DEF n, temp
  <2>5. TransferSound(n, temp)
    BY <1>p, <2>1, <2>3, PayloadAssumption DEF TransferSound, TransferTyped, TransferAnswers
  <2> QED
    BY <1>0, <2>4, <2>5, OneSound DEF Advance, SetTemp
<1>3. CASE FillTemp(t)
  <2> DEFINE n == [c EXCEPT !.pc = "verify"]
             temp == Filled(t, Len(c.payload.items))
  <2>1. n \in TransferRecord /\ n.pc = "verify" /\ n.payload = c.payload
    BY <1>0 DEF TransferRecord
  <2>2. /\ Len(c.payload.items) \in Nat
        /\ DOMAIN c.payload.items = 1 .. Len(c.payload.items)
    BY <1>0, PayloadOf
  <2>3. /\ temp \in Temp /\ temp # None /\ temp.indexed
        /\ temp.entries = {Persisted(c.payload.items[m]) : m \in DOMAIN c.payload.items}
    <3> DEFINE size == Len(c.payload.items)
    <3>1. Doing(t, "fill") /\ size \in Nat /\ size <= Len(transfer[t].payload.items)
      BY <1>3, <2>2 DEF FillTemp
    <3>2. c.payload.items = transfer[t].payload.items /\ DOMAIN c.payload.items = 1 .. size
      BY <2>2
    <3> HIDE DEF size, c
    <3>3. /\ Filled(t, size) \in Temp /\ Filled(t, size) # None /\ Filled(t, size).indexed
          /\ Filled(t, size).entries = {Persisted(transfer[t].payload.items[m]) : m \in 1 .. size}
      BY <3>1, FilledTyped
    <3> QED
      BY <3>2, <3>3 DEF size
  <2>4. Advance(t, n) /\ SetTemp(t, temp)
    BY <1>3 DEF FillTemp, Step
  <2> HIDE DEF n, temp
  <2>5. TransferSound(n, temp)
    BY <1>p, <2>1, <2>3 DEF TransferSound, TransferTyped, TransferAnswers
  <2> QED
    BY <1>0, <2>4, <2>5, OneSound DEF Advance, SetTemp
<1> QED
  BY <1>1, <1>2, <1>3

\* Verification passes a complete collection exactly when MongoDB gives it back as
\* it was sent.
LEMMA VerifySound ==
  ASSUME DInv, TransfersSound, NEW t \in Transfer, VerifyTemp(t)
  PROVE  TransfersSound'
<1> DEFINE c == transfer[t]
           wanted == c.payload.items
           stored == temps[t].entries
           pass == [c EXCEPT !.pc = "rename"]
           fail == [c EXCEPT !.pc = "cleanup"]
           ok == Cardinality(stored) = Len(wanted) /\ stored = Checksum(wanted)
<1>0. /\ TransferSound(c, temps[t]) /\ c \in TransferRecord /\ c.pc = "verify"
      /\ UNCHANGED <<items, role, origin>> /\ temps' = temps
  BY DEF TransfersSound, VerifyTemp, readVars, Doing
<1>1. /\ wanted \in Seq(Entry \cup {None}) /\ ValidItems(wanted)
      /\ c.payload # None /\ ValidExport(c.payload)
      /\ temps[t] \in Temp /\ temps[t] # None
      /\ stored = {Persisted(wanted[n]) : n \in DOMAIN wanted}
  BY <1>0, PayloadOf DEF Building, Working, TransferSound, TransferTyped, TransferAnswers
<1>2. ASSUME NEW n \in DOMAIN wanted
      PROVE  /\ wanted[n] \in Entry /\ Persisted(wanted[n]).exact = TRUE
             /\ wanted[n].exact => Persisted(wanted[n]) = wanted[n]
  <2>1. wanted[n] \in Entry
    BY <1>1 DEF ValidItems
  <2> QED
    BY <2>1 DEF Persisted, Entry
<1>3. ASSUME Exact(c.payload) PROVE ok
  <2>1. stored = Checksum(wanted)
    BY <1>1, <1>2, <1>3 DEF Exact, Checksum
  <2> QED
    BY <1>1, <2>1, ValidItemsCount
<1>4. ASSUME ok PROVE Exact(c.payload)
  <2>1. ASSUME NEW n \in DOMAIN wanted PROVE wanted[n].exact = TRUE
    <3>1. wanted[n] \in stored
      BY <1>4 DEF Checksum
    <3>2. PICK m \in DOMAIN wanted : wanted[n] = Persisted(wanted[m])
      BY <1>1, <3>1
    <3> QED
      BY <1>2, <3>2
  <2> QED
    BY <2>1 DEF Exact
<1>5. /\ pass \in TransferRecord /\ pass.pc = "rename" /\ pass.payload = c.payload
      /\ fail \in TransferRecord /\ fail.pc = "cleanup" /\ fail.payload = c.payload
  BY <1>0 DEF TransferRecord
<1>6. IF ok THEN Advance(t, pass) ELSE Advance(t, fail)
  BY DEF VerifyTemp, Step
<1> HIDE DEF pass, fail, ok
<1>7. ASSUME ok PROVE TransferSound(pass, temps[t])
  BY <1>0, <1>1, <1>4, <1>5, <1>7 DEF TransferSound, TransferTyped, TransferAnswers
<1>8. ASSUME ~ok PROVE TransferSound(fail, temps[t])
  BY <1>0, <1>1, <1>3, <1>5, <1>8 DEF TransferSound, TransferTyped, TransferAnswers
<1> QED
  BY <1>0, <1>6, <1>7, <1>8, OneSound DEF Advance

\* What the swap does to a record is no matter here.
LEMMA SwapIsFree ==
  ASSUME NEW c, NEW temp, TransferSound(c, temp), NEW n \in TransferRecord,
         n.pc = c.pc, n.op = c.op, n.payload = c.payload, n.snap = c.snap,
         n.left = c.left, n.got = c.got, c.moments \subseteq n.moments,
         n.result = c.result, n.faulted = c.faulted
  PROVE  TransferSound(n, temp)
BY DEF TransferSound, TransferTyped, TransferAnswers, AsAsked, Exporting

LEMMA InstallSound ==
  ASSUME DInv, TransfersSound, NEW t \in Transfer, Doing(t, "rename"),
         NEW record, TransferSound(record, None), Install(t, record)
  PROVE  TransfersSound'
<1>0. temps' = [temps EXCEPT ![t] = None] /\ role' = role /\ items' = Swapped(t)
  BY DEF Install, SetTemp
<1>1. IsFiniteSet(Stored(items'))
  <2>1. temps[t].entries = Checksum(transfer[t].payload.items)
    BY DEF DInv, TransfersOK, TransferOK, Doing
  <2>2. transfer[t].payload.items \in Seq(Entry \cup {None})
    BY PayloadOf DEF Doing, Building
  <2> QED
    BY <1>0, <2>1, <2>2, DocumentsFinite DEF Swapped
<1>2. ASSUME NEW u \in Transfer
      PROVE  /\ transfer'[u] \in TransferRecord
             /\ temps'[u] \in Temp \cup {None}
             /\ TransferSound(transfer'[u], temps'[u])
  <2>1. CASE u = t
    <3> DEFINE flying == {r \in Request : Active(r)}
               n == transfer'[u]
    <3>1. n = [record EXCEPT !.current = TRUE, !.flying = flying]
      BY <2>1 DEF Install
    <3>2. record \in TransferRecord /\ temps'[u] = None
      BY <1>0, <2>1 DEF TransferSound, TransferTyped, TransfersSound
    <3>3. flying \in SUBSET Request
      OBVIOUS
    <3> HIDE DEF n, flying
    <3>4. /\ n \in TransferRecord /\ n.pc = record.pc /\ n.op = record.op
          /\ n.payload = record.payload /\ n.snap = record.snap /\ n.left = record.left
          /\ n.got = record.got /\ n.moments = record.moments
          /\ n.result = record.result /\ n.faulted = record.faulted
      BY <3>1, <3>2, <3>3 DEF TransferRecord
    <3>5. TransferSound(n, None)
      BY <3>4, SwapIsFree
    <3> QED
      BY <3>2, <3>4, <3>5 DEF n
  <2>2. CASE u # t
    <3>1. transfer'[u] = [transfer[u] EXCEPT !.current = FALSE]
      BY <2>2 DEF Install
    <3>2. /\ transfer[u] \in TransferRecord /\ TransferSound(transfer[u], temps[u])
          /\ temps'[u] = temps[u]
      BY <1>0, <2>2 DEF TransfersSound
    <3> DEFINE c == transfer[u]
               n == transfer'[u]
    <3>3. /\ n \in TransferRecord /\ n.pc = c.pc /\ n.op = c.op
          /\ n.payload = c.payload /\ n.snap = c.snap /\ n.left = c.left
          /\ n.got = c.got /\ n.moments = c.moments
          /\ n.result = c.result /\ n.faulted = c.faulted
      BY <3>1, <3>2 DEF TransferRecord
    <3> HIDE DEF n
    <3>4. TransferSound(n, temps'[u])
      BY <3>2, <3>3, SwapIsFree
    <3> QED
      BY <3>2, <3>3, <3>4 DEF n, TransferSound, TransferTyped
  <2> QED
    BY <2>1, <2>2
<1>3. DOMAIN transfer' = Transfer /\ DOMAIN temps' = Transfer
  BY <1>0 DEF Install, TransfersSound
<1>4. transfer' = [u \in Transfer |-> transfer'[u]] /\ temps' = [u \in Transfer |-> temps'[u]]
  BY <1>0 DEF Install, TransfersSound
<1>5. /\ transfer' \in [Transfer -> TransferRecord]
      /\ temps' \in [Transfer -> Temp \cup {None}]
  BY <1>2, <1>4
<1>6. ASSUME NEW u \in Transfer PROVE TransferSound(transfer[u], temps[u])'
  BY <1>0, <1>2 DEF TransferSound, TransferTyped, TransferAnswers, AsAsked, Exporting
<1>7. origin' \in [ID -> Request \cup {None}]
  BY DEF Install
<1> QED
  BY <1>0, <1>1, <1>5, <1>6, <1>7 DEF TransfersSound

LEMMA RenameSound ==
  ASSUME DInv, TransfersSound, NEW t \in Transfer, Rename(t) \/ RenameUnacknowledged(t)
  PROVE  TransfersSound'
<1> DEFINE c == transfer[t]
           done == [c EXCEPT !.pc = "emit", !.swapped = TRUE]
           lost == [Faulty(t) EXCEPT !.pc = "cleanup"]
<1>0. /\ TransferSound(c, temps[t]) /\ c \in TransferRecord /\ c.pc = "rename"
  BY DEF TransfersSound, Rename, RenameUnacknowledged, Doing
<1>1. c.payload # None /\ ValidExport(c.payload) /\ Exact(c.payload)
  BY <1>0 DEF TransferSound, TransferTyped, TransferAnswers, Working, Building
<1>2. /\ done \in TransferRecord /\ done.pc = "emit" /\ done.payload = c.payload
      /\ lost \in TransferRecord /\ lost.pc = "cleanup" /\ lost.payload = c.payload
      /\ lost.faulted = TRUE
  BY <1>0 DEF TransferRecord, Faulty
<1>3. Install(t, done) \/ Install(t, lost)
  BY DEF Rename, RenameUnacknowledged
<1> HIDE DEF done, lost
<1>4. TransferSound(done, None) /\ TransferSound(lost, None)
  BY <1>1, <1>2 DEF TransferSound, TransferTyped, TransferAnswers
<1> QED
  BY <1>0, <1>3, <1>4, InstallSound DEF Doing

\* The end of a replacement.
LEMMA EndsSound ==
  ASSUME DInv, TransfersSound, NEW t \in Transfer, Cleanup(t) \/ EmitReset(t)
  PROVE  TransfersSound'
<1> DEFINE c == transfer[t]
           no == [c EXCEPT !.pc = "done", !.result = "internal"]
           yes == [c EXCEPT !.pc = "done", !.result = "ok"]
<1>0. /\ TransferOK(c, temps[t]) /\ TransferSound(c, temps[t]) /\ c \in TransferRecord
      /\ c.pc \in {"cleanup", "emit"} /\ UNCHANGED <<items, role, origin>>
  BY DEF DInv, TransfersOK, TransfersSound, Cleanup, EmitReset, readVars, Doing
<1>1. c.op = "ReplaceContent"
  BY <1>0 DEF TransferOK
<1>2. /\ no \in TransferRecord /\ no.pc = "done" /\ no.op = "ReplaceContent"
      /\ no.payload = c.payload /\ no.faulted = c.faulted /\ no.result = "internal"
      /\ yes \in TransferRecord /\ yes.pc = "done" /\ yes.op = "ReplaceContent"
      /\ yes.payload = c.payload /\ yes.faulted = c.faulted /\ yes.result = "ok"
  BY <1>0, <1>1 DEF TransferRecord, Result, Kind
<1>3. CASE Cleanup(t)
  <2>1. Advance(t, no) /\ SetTemp(t, None) /\ c.pc = "cleanup"
    BY <1>3 DEF Cleanup, Finish, Doing
  <2> HIDE DEF no
  <2>2. ASSUME ~no.faulted PROVE AsAsked(no)
    <3>1. Exact(no.payload) = FALSE
      BY <1>0, <1>2, <2>1, <2>2 DEF TransferSound, TransferAnswers, Exact
    <3> QED
      BY <1>2, <3>1 DEF AsAsked
  <2>3. TransferSound(no, None)
    BY <1>2, <2>2 DEF TransferSound, TransferTyped, TransferAnswers, Working, Building
  <2> QED
    BY <1>0, <2>1, <2>3, OneSound DEF Advance, SetTemp
<1>4. CASE EmitReset(t)
  <2>1. Advance(t, yes) /\ temps' = temps /\ c.pc = "emit"
    BY <1>4 DEF EmitReset, Finish, Doing
  <2> HIDE DEF yes
  <2>2. TransferSound(yes, temps[t])
    BY <1>0, <1>2, <2>1 DEF TransferSound, TransferTyped, TransferAnswers, Working, Building,
       AsAsked
  <2> QED
    BY <1>0, <2>1, <2>2, OneSound DEF Advance
<1> QED
  BY <1>3, <1>4

LEMMA FaultSound ==
  ASSUME DInv, TransfersSound, NEW t \in Transfer, TransferFault(t)
  PROVE  TransfersSound'
<1> DEFINE c == transfer[t]
           failed == [Faulty(t) EXCEPT !.pc = "done", !.result = "internal"]
           undone == [Faulty(t) EXCEPT !.pc = "cleanup"]
           left == [Faulty(t) EXCEPT !.pc = "done", !.result = "internal", !.orphaned = TRUE]
           dead == [Faulty(t) EXCEPT !.pc = "dead", !.orphaned = TRUE]
           fresh == [indexed |-> FALSE, entries |-> {}]
<1>0. TransferSound(c, temps[t]) /\ c \in TransferRecord
  BY DEF TransfersSound
<1>1. /\ failed \in TransferRecord /\ failed.pc = "done" /\ failed.faulted = TRUE
      /\ undone \in TransferRecord /\ undone.pc = "cleanup" /\ undone.faulted = TRUE
      /\ undone.payload = c.payload
      /\ left \in TransferRecord /\ left.pc = "done" /\ left.faulted = TRUE
      /\ dead \in TransferRecord /\ dead.pc = "dead"
  BY <1>0 DEF TransferRecord, Faulty, Result, Kind
<1>2. fresh \in Temp /\ fresh.entries = {}
  BY DEF Temp
<1>3. CASE TransferFails(t)
  <2>1. /\ UNCHANGED <<items, role, origin>> /\ temps' = temps
        /\ Advance(t, failed) \/ (c.pc \in Building /\ Advance(t, undone))
    BY <1>3 DEF TransferFails, readVars, Building
  <2> HIDE DEF failed, undone
  <2>2. TransferSound(failed, temps[t])
    BY <1>0, <1>1 DEF TransferSound, TransferTyped, TransferAnswers, Working, Building
  <2>3. ASSUME c.pc \in Building PROVE TransferSound(undone, temps[t])
    BY <1>0, <1>1, <2>3 DEF TransferSound, TransferTyped, TransferAnswers, Working
  <2> QED
    BY <2>1, <2>2, <2>3, OneSound DEF Advance
<1>4. CASE CreateUnacknowledged(t)
  <2>1. UNCHANGED <<items, role, origin>> /\ Advance(t, left) /\ SetTemp(t, fresh)
    BY <1>4 DEF CreateUnacknowledged, readVars
  <2> HIDE DEF left, fresh
  <2>2. TransferSound(left, fresh)
    BY <1>1, <1>2 DEF TransferSound, TransferTyped, TransferAnswers, Working, Building
  <2> QED
    BY <2>1, <2>2, OneSound DEF Advance, SetTemp
<1>5. CASE FillStops(t)
  <2>1. PICK n \in 0 .. Len(c.payload.items) : SetTemp(t, Filled(t, n))
    BY <1>5 DEF FillStops
  <2>2. UNCHANGED <<items, role, origin>> /\ Advance(t, undone) /\ Doing(t, "fill") /\ c.pc = "fill"
    BY <1>5 DEF FillStops, readVars, Doing
  <2>3. Len(c.payload.items) \in Nat /\ n \in Nat /\ n <= Len(c.payload.items)
    BY <2>2, PayloadOf DEF Building
  <2>4. Filled(t, n) \in Temp /\ Filled(t, n).indexed
    BY <2>2, <2>3, FilledTyped
  <2> HIDE DEF undone
  <2>5. TransferSound(undone, Filled(t, n))
    BY <1>0, <1>1, <2>2, <2>4 DEF TransferSound, TransferTyped, TransferAnswers, Working, Building
  <2> QED
    BY <2>1, <2>2, <2>5, OneSound DEF Advance, SetTemp
<1>6. CASE RenameUnacknowledged(t)
  BY <1>6, RenameSound
<1>7. CASE DropFails(t) \/ Dies(t)
  <2>1. /\ UNCHANGED <<items, role, origin>> /\ temps' = temps
        /\ Advance(t, left) \/ Advance(t, dead)
    BY <1>7 DEF DropFails, Dies, readVars
  <2> HIDE DEF left, dead
  <2>2. TransferSound(left, temps[t]) /\ TransferSound(dead, temps[t])
    BY <1>0, <1>1 DEF TransferSound, TransferTyped, TransferAnswers, Working, Building
  <2> QED
    BY <2>1, <2>2, OneSound DEF Advance
<1> QED
  BY <1>3, <1>4, <1>5, <1>6, <1>7 DEF TransferFault

\* An item call adds one document at most, and a moment to every export.
LEMMA OthersSound ==
  ASSUME DInv, DInv', TransfersSound,
         \/ \E r \in Request : ItemStep(r) /\ Witness(r)
         \/ /\ \E c \in Consumer : ReadStep(c) \/ FindFails(c)
            /\ UNCHANGED transferVars
  PROVE  TransfersSound'
<1>1. ASSUME NEW c \in Consumer, ReadStep(c) \/ FindFails(c), UNCHANGED transferVars
      PROVE  TransfersSound'
  <2>1. UNCHANGED items
    BY <1>1 DEF ReadStep, FindFails, Fetch, Visit, Drained, GetSnapshot, Reread
  <2> QED
    BY <1>1, <2>1 DEF TransfersSound, TransferSound, TransferTyped, TransferAnswers, AsAsked,
       Exporting, transferVars
<1>2. ASSUME NEW r \in Request, ItemStep(r), Witness(r) PROVE TransfersSound'
  <2>1. IsFiniteSet(Stored(items'))
    <3> DEFINE i == call'[r].id
    <3>1. Stored(items') \in SUBSET (Stored(items) \cup {i})
      BY <1>2, CallEffect DEF ItemStep, DInv
    <3>2. IsFiniteSet(Stored(items) \cup {i})
      BY FS_AddElement DEF TransfersSound
    <3> HIDE DEF i
    <3> QED
      BY <3>1, <3>2, FS_Subset
  <2>2. items' \in [ID -> Item \cup {None}]
    BY DEF DInv, IInv, ItemsOK, Version
  <2>3. ASSUME NEW t \in Transfer
        PROVE  /\ transfer'[t] \in TransferRecord
               /\ TransferSound(transfer'[t], temps'[t])
    <3> DEFINE c == transfer[t]
               n == transfer'[t]
    <3>1. c \in TransferRecord /\ TransferSound(c, temps[t]) /\ temps' = temps
      BY <1>2 DEF TransfersSound, Witness
    <3>2. n = c \/ n = [c EXCEPT !.moments = @ \cup {items'}]
      BY <1>2 DEF Witness
    <3> HIDE DEF n
    <3>3. /\ n \in TransferRecord /\ n.pc = c.pc /\ n.op = c.op
          /\ n.payload = c.payload /\ n.snap = c.snap /\ n.left = c.left
          /\ n.got = c.got /\ c.moments \subseteq n.moments
          /\ n.result = c.result /\ n.faulted = c.faulted
      BY <2>2, <3>1, <3>2 DEF TransferRecord
    <3>4. TransferSound(n, temps[t])
      BY <3>1, <3>3, SwapIsFree
    <3> QED
      BY <3>1, <3>3, <3>4 DEF n
  <2>4. /\ transfer' \in [Transfer -> TransferRecord] /\ temps' = temps /\ role' = role
        /\ origin' \in [ID -> Request \cup {None}]
    <3>1. DOMAIN transfer' = Transfer /\ transfer' = [t \in Transfer |-> transfer'[t]]
      BY <1>2 DEF Witness
    <3>2. transfer' \in [Transfer -> TransferRecord]
      BY <2>3, <3>1
    <3> QED
      BY <1>2, <3>2 DEF Witness, TransfersSound
  <2>5. ASSUME NEW t \in Transfer PROVE TransferSound(transfer[t], temps[t])'
    BY <2>3, <2>4 DEF TransferSound, TransferTyped, TransferAnswers, AsAsked, Exporting
  <2> QED
    BY <2>1, <2>4, <2>5 DEF TransfersSound
<1> QED
  BY <1>1, <1>2

LEMMA SoundStepOK ==
  DInv /\ TransfersSound /\ [DeploymentNext]_deploymentVars => TransfersSound'
<1> SUFFICES ASSUME DInv, TransfersSound, [DeploymentNext]_deploymentVars
             PROVE  TransfersSound'
  OBVIOUS
<1>1. ASSUME NEW t \in Transfer, TransferStep(t) \/ TransferFault(t) PROVE TransfersSound'
  BY <1>1, StartsSound, ExportGoesOn, ExportSound, BuildSound, VerifySound, RenameSound, EndsSound, FaultSound
     DEF TransferStep
<1>2. ASSUME DeploymentAtRest \/ UNCHANGED deploymentVars PROVE TransfersSound'
  <2>1. UNCHANGED deploymentVars
    BY <1>2 DEF DeploymentAtRest, AtRest, transferVars, deploymentVars, readVars
  <2> QED
    BY <2>1 DEF deploymentVars, TransfersSound, TransferSound, TransferTyped, TransferAnswers,
       AsAsked, Exporting
<1> QED
  BY <1>1, <1>2, OthersSound, DeploymentStepOK DEF DeploymentNext

\* What a transfer may do to a consumer's record: tell it, end its read, or take
\* note that it will not be told.
Affected(k) ==
  LET lost == [k EXCEPT !.missed = ID] IN
  {k, [k EXCEPT !.stale = TRUE], lost,
   [Ended(k) EXCEPT !.stale = TRUE], [Ended(lost) EXCEPT !.stale = TRUE]}

LEMMA TransferTouches ==
  ASSUME NEW t \in Transfer, TransferStep(t) \/ TransferFault(t), DOMAIN consumer = Consumer
  PROVE  /\ DOMAIN consumer' = Consumer
         /\ \A c \in Consumer : consumer'[c] \in Affected(consumer[c])
         /\ items' = items \/ \E record : Install(t, record)
<1> DEFINE Goal == /\ DOMAIN consumer' = Consumer
                   /\ \A c \in Consumer : consumer'[c] \in Affected(consumer[c])
                   /\ items' = items \/ \E record : Install(t, record)
<1>1. ASSUME NEW record, Install(t, record) PROVE Goal
  BY <1>1 DEF Install, Unread, Affected
<1>2. CASE EmitReset(t)
  BY <1>2 DEF EmitReset, Affected
<1>3. CASE Dies(t)
  BY <1>3 DEF Dies, Unread, Affected
<1>4. ASSUME UNCHANGED readVars PROVE Goal
  BY <1>4 DEF readVars, Affected
<1>5. \/ UNCHANGED readVars \/ EmitReset(t) \/ Dies(t)
      \/ \E record : Install(t, record)
  BY DEF TransferStep, TransferFault, StartExport, ExportOne, ExportAll, StartReplace,
         CreateTemp, IndexTemp, FillTemp, VerifyTemp, Rename, Cleanup, TransferFails,
         CreateUnacknowledged, FillStops, RenameUnacknowledged, DropFails
<1> QED
  BY <1>1, <1>2, <1>3, <1>4, <1>5

\* A record that was touched is in order; after a swap it is no longer in a find.
LEMMA TouchedOK ==
  ASSUME NEW k, NEW docs, ReaderOK(k, docs), NEW n \in Affected(k), NEW other,
         other = docs \/ n.pc # "find"
  PROVE  ReaderOK(n, other)
<1> DEFINE lost == [k EXCEPT !.missed = ID]
           told == [k EXCEPT !.stale = TRUE]
<1>1. ReaderTyped(k)
  BY DEF ReaderOK
<1>2. /\ told.query = k.query /\ told.pc = k.pc /\ told.left = k.left /\ told.moved = k.moved
      /\ told.wandered = k.wandered /\ told.rows = k.rows /\ told.versions = k.versions
      /\ lost.query = k.query /\ lost.pc = k.pc /\ lost.left = k.left /\ lost.moved = k.moved
      /\ lost.wandered = k.wandered /\ lost.rows = k.rows /\ lost.versions = k.versions
  BY <1>1 DEF ReaderTyped, ConsumerRecord
<1>3. ReaderTyped(told) /\ ReaderTyped(lost)
  BY <1>1 DEF ReaderTyped, ConsumerRecord
<1> HIDE DEF told, lost
<1>4. ReaderOK(told, docs) /\ ReaderOK(lost, docs)
  BY <1>2, <1>3 DEF ReaderOK, ReadingOK, RowsReal
<1>5. CASE n \in {k, told, lost}
  <2>1. ReaderOK(n, docs)
    BY <1>4, <1>5
  <2>2. CASE n.pc # "find"
    <3>1. n.left = {} /\ n.moved = {}
      BY <2>1, <2>2 DEF ReaderOK, ReaderTyped
    <3> QED
      BY <2>1, <3>1 DEF ReaderOK, ReadingOK
  <2> QED
    BY <2>1, <2>2
<1>6. /\ ReaderOK([Ended(k) EXCEPT !.stale = TRUE], other)
      /\ ReaderOK([Ended(lost) EXCEPT !.stale = TRUE], other)
  BY <1>4, EndedOK
<1> QED
  BY <1>5, <1>6 DEF Affected, told, lost

\* The swap leaves no read in its find.
LEMMA InstallEndsReads ==
  ASSUME NEW t, NEW record, Install(t, record), ReadersTyped, NEW c \in Consumer
  PROVE  consumer'[c].pc # "find"
<1> DEFINE k == consumer[c]
           lost == [k EXCEPT !.missed = ID]
<1>1. ReaderTyped(k)
  BY DEF ReadersTyped
<1>2. lost.pc = k.pc /\ ReaderTyped(lost)
  BY <1>1 DEF ReaderTyped, ConsumerRecord
<1>3. /\ [Ended(k) EXCEPT !.stale = TRUE].pc = "idle"
      /\ [Ended(lost) EXCEPT !.stale = TRUE].pc = "idle"
  BY <1>1, <1>2, EndedFields
<1>4. consumer'[c] = LET m == IF record.pc = "emit" THEN k ELSE lost IN
                     IF m.pc = "find" THEN [Ended(m) EXCEPT !.stale = TRUE] ELSE m
  BY DEF Install, Unread
<1> HIDE DEF k, lost
<1> QED
  BY <1>2, <1>3, <1>4

\* A transfer leaves consumers in order: a swap ends the reads whose cursor is not
\* drained, and the others go on.
LEMMA TransferKeepsReaders ==
  ASSUME ReadersOK, NEW t \in Transfer, TransferStep(t) \/ TransferFault(t)
  PROVE  ReadersOK'
<1>0. ReadersTyped /\ DOMAIN consumer = Consumer
  BY DEF ReadersOK, ReadersTyped
<1>1. ASSUME NEW c \in Consumer PROVE ReaderOK(consumer'[c], items')
  <2>1. ReaderOK(consumer[c], items) /\ consumer'[c] \in Affected(consumer[c])
    BY <1>0, TransferTouches DEF ReadersOK
  <2>2. items' = items \/ consumer'[c].pc # "find"
    BY <1>0, TransferTouches, InstallEndsReads
  <2> QED
    BY <2>1, <2>2, TouchedOK
<1>2. DOMAIN consumer' = Consumer /\ \A c \in Consumer : ReaderTyped(consumer'[c])
  BY <1>0, <1>1, TransferTouches DEF ReaderOK
<1>3. consumer' = [c \in Consumer |-> consumer'[c]]
  BY <1>0 DEF TransferStep, TransferFault, StartExport, ExportOne, ExportAll, StartReplace,
         CreateTemp, IndexTemp, FillTemp, VerifyTemp, Rename, Cleanup, TransferFails, Install,
         CreateUnacknowledged, FillStops, RenameUnacknowledged, DropFails, Dies, EmitReset,
         Unread, readVars, ReadersTyped
<1>4. consumer' \in [Consumer -> ConsumerRecord]
  BY <1>2, <1>3 DEF ReaderTyped
<1> QED
  BY <1>1, <1>2, <1>4 DEF ReadersOK, ReadersTyped

\* The invariant of a whole deployment's types, and of what transfers answer.
THEOREM SoundInvariance == DeploymentSpec => [](DInv /\ TransfersSound /\ ReadersOK)
<1> DEFINE Sound == DInv /\ TransfersSound /\ ReadersOK
<1>1. DeploymentInit => Sound
  BY DeploymentInitOK, SoundInitOK, ReadersInitOK DEF DeploymentInit
<1>2. Sound /\ [DeploymentNext]_deploymentVars => Sound'
  <2> SUFFICES ASSUME DInv, TransfersSound, ReadersOK, [DeploymentNext]_deploymentVars
               PROVE  Sound'
    OBVIOUS
  <2>1. DInv' /\ TransfersSound'
    BY DeploymentStepOK, SoundStepOK
  <2>2. ReadersOK'
    <3>1. IInv /\ items' \in [ID -> Version \cup {None}]
      BY <2>1 DEF DInv, IInv, ItemsOK
    <3>2. ASSUME NEW r \in Request, ItemStep(r) PROVE ReadersOK'
      BY <3>1, <3>2, ObserveOK DEF ItemStep
    <3>3. ASSUME NEW c \in Consumer, ReadStep(c) \/ FindFails(c) PROVE ReadersOK'
      BY <3>1, <3>3, ReadStepOK
    <3>4. ASSUME NEW t \in Transfer, TransferStep(t) \/ TransferFault(t) PROVE ReadersOK'
      BY <3>4, TransferKeepsReaders
    <3>5. ASSUME DeploymentAtRest \/ UNCHANGED deploymentVars PROVE ReadersOK'
      <4>1. UNCHANGED <<items, consumer>>
        BY <3>5 DEF DeploymentAtRest, AtRest, readVars, deploymentVars
      <4> QED
        BY <4>1 DEF ReadersOK, ReadersTyped, ReaderOK, ReadingOK
    <3> QED
      BY <3>2, <3>3, <3>4, <3>5 DEF DeploymentNext
  <2> QED
    BY <2>1, <2>2
<1> QED
  BY <1>1, <1>2, PTL DEF DeploymentSpec

\* From its first step on a replacement has a payload that passed validation, from
\* its second on a collection, and nothing is put into one without its indexes
\* (transfer.go:30-45, persistor.go:108-156).
THEOREM TransfersTypeCorrect == DeploymentSpec => []DeploymentTypeOK
<1>1. DInv /\ TransfersSound /\ ReadersOK => DeploymentTypeOK
  <2> SUFFICES ASSUME DInv, TransfersSound, ReadersOK PROVE DeploymentTypeOK
    OBVIOUS
  <2>1. SnapshotsTypeOK
    BY TypedGives DEF DInv
  <2>2. ASSUME NEW t \in Transfer
        PROVE  LET c == transfer[t] IN
               /\ c.pc = "export" => c.snap # None
               /\ Replacing(t) => c.payload # None /\ ValidExport(c.payload)
               /\ c.pc \in {"index", "fill", "verify", "rename"} => temps[t] # None
               /\ temps[t] # None /\ temps[t].entries # {} => temps[t].indexed
    BY DEF TransfersSound, TransferSound, TransferTyped, Replacing, Working, Building
  <2> QED
    BY <2>1, <2>2 DEF TransfersSound, DeploymentTypeOK
<1> QED
  BY <1>1, SoundInvariance, PTL

\* A transfer that nothing failed for is refused for its role or its payload only:
\* whatever is written meanwhile, an export of a canonical deployment succeeds with
\* a payload that ReplaceContent accepts and that is the collection as it was at one
\* moment, although it is read one document at a time, and a replacement on a sandbox
\* succeeds exactly when MongoDB gives its payload back as it was sent
\* (persistor.go:80-174, transfer.go:15-99).
THEOREM TransfersAnswer == DeploymentSpec => []OnlyFaultsFail
<1>1. TransfersSound => OnlyFaultsFail
  BY DEF TransfersSound, TransferSound, TransferAnswers, AsAsked, OnlyFaultsFail
<1> QED
  BY <1>1, SoundInvariance, PTL
=============================================================================
