------------------------- MODULE ReplacementProofs -------------------------
(***************************************************************************)
(* Replacing the whole content.  Deployment implements Replacement:        *)
(* whatever fails and whoever writes meanwhile, a replacement is one step  *)
(* on the content; and what the swap does to the calls and reads that are  *)
(* under way.  Proved for any number of item calls, consumers and          *)
(* transfers and any payloads.                                             *)
(***************************************************************************)
EXTENDS DeploymentProofs

------------------------------------------------------------------------------
(* The refinement.                                                          *)

Offers == [t \in Transfer |-> OfferOf(transfer[t])]
Outcomes == [t \in Transfer |-> OutcomeOf(transfer[t])]

\* A call writes one document at a time.
LEMMA CallEditsOneItem ==
  ASSUME NEW r \in Request, CallStep(r), DOMAIN items = ID
  PROVE  \E i \in ID : \A j \in ID \ {i} : items'[j] = items[j]
<1> DEFINE Goal == \E i \in ID : \A j \in ID \ {i} : items'[j] = items[j]
<1>1. ASSUME NEW i, NEW doc, items' = [items EXCEPT ![i] = doc] PROVE Goal
  <2>1. \A j \in ID \ {i} : items'[j] = items[j]
    BY <1>1
  <2>2. CASE i \in ID
    BY <2>1, <2>2
  <2>3. CASE i \notin ID
    BY <2>1, <2>3 DEF ID
  <2> QED
    BY <2>2, <2>3
<1>2. ASSUME UNCHANGED items PROVE Goal
  BY <1>2 DEF ID
<1>3. CASE \E in \in Inputs : Start(r, in)
  BY <1>2, <1>3 DEF Start
<1>4. CASE GetByID(r) \/ GetByKey(r) \/ Emit(r) \/ StoreFails(r) \/ AckLost(r)
  BY <1>2, <1>4 DEF GetByID, GetByKey, Emit, StoreFails, AckLost
<1>5. CASE Handler(r)
  BY <1>2, <1>5 DEF Handler, SaveDraft, SetFieldValue, Publish, Unpublish, Archive,
                    Unarchive, Delete, GetItem
<1>6. CASE Upsert(r)
  BY <1>1, <1>2, <1>6 DEF Upsert
<1>7. CASE UpdateField(r)
  <2>1. UNCHANGED items \/ \E i \in ID : \E doc : items' = [items EXCEPT ![i] = doc]
    BY <1>7 DEF UpdateField, FieldTargets, FindByKey, FindByID, Stored
  <2> QED
    BY <1>1, <1>2, <2>1
<1>8. CASE MissField(r)
  BY <1>2, <1>8 DEF MissField
<1>9. CASE InsertField(r)
  BY <1>1, <1>2, <1>9 DEF InsertField
<1>10. CASE DeleteOne(r)
  BY <1>1, <1>10 DEF DeleteOne
<1> QED
  BY <1>3, <1>4, <1>5, <1>6, <1>7, <1>8, <1>9, <1>10 DEF CallStep, Progress, Write

------------------------------------------------------------------------------
(* Steps of one transfer that leave the content alone.                      *)

LEMMA MapsFollow ==
  ASSUME NEW t \in Transfer, NEW c, DOMAIN transfer = Transfer,
         transfer' = [transfer EXCEPT ![t] = c]
  PROVE  /\ Offers' = [Offers EXCEPT ![t] = OfferOf(c)]
         /\ Outcomes' = [Outcomes EXCEPT ![t] = OutcomeOf(c)]
<1>1. /\ transfer'[t] = c
      /\ \A u \in Transfer \ {t} : transfer'[u] = transfer[u]
  OBVIOUS
<1>2. \A u \in Transfer : Offers'[u] = IF u = t THEN OfferOf(c) ELSE Offers[u]
  BY <1>1 DEF Offers
<1>3. \A u \in Transfer : Outcomes'[u] = IF u = t THEN OutcomeOf(c) ELSE Outcomes[u]
  BY <1>1 DEF Outcomes
<1> QED
  BY <1>2, <1>3 DEF Offers, Outcomes

\* The outcome stays, becomes a failure, or becomes a success once installed.
LEMMA OutcomeStep ==
  ASSUME NEW t \in Transfer, NEW c, DOMAIN transfer = Transfer,
         transfer' = [transfer EXCEPT ![t] = c],
         UNCHANGED <<items, role>>,
         OfferOf(c) = OfferOf(transfer[t]),
         \/ OutcomeOf(c) = OutcomeOf(transfer[t])
         \/ OutcomeOf(transfer[t]) \in {"pending", "installed"} /\ OutcomeOf(c) = "failed"
         \/ OutcomeOf(transfer[t]) = "installed" /\ OutcomeOf(c) = "succeeded"
  PROVE  [Swap!Next]_(Swap!vars)
<1>1. /\ Offers[t] = OfferOf(transfer[t]) /\ Outcomes[t] = OutcomeOf(transfer[t])
      /\ DOMAIN Offers = Transfer /\ DOMAIN Outcomes = Transfer
  BY DEF Offers, Outcomes
<1>2. Offers' = Offers
  BY <1>1, MapsFollow DEF Offers
<1>3. Outcomes' = [Outcomes EXCEPT ![t] = OutcomeOf(c)]
  BY MapsFollow
<1>4. CASE OutcomeOf(c) = OutcomeOf(transfer[t])
  <2>1. Outcomes' = Outcomes
    BY <1>1, <1>3, <1>4 DEF Outcomes
  <2> QED
    BY <1>2, <2>1 DEF Swap!vars, Offers, Outcomes
<1>5. CASE Outcomes[t] \in {"pending", "installed"} /\ OutcomeOf(c) = "failed"
  BY <1>2, <1>3, <1>5 DEF Swap!Next, Swap!Fail, Offers, Outcomes
<1>6. CASE Outcomes[t] = "installed" /\ OutcomeOf(c) = "succeeded"
  BY <1>2, <1>3, <1>6 DEF Swap!Next, Swap!Succeed, Offers, Outcomes
<1> QED
  BY <1>1, <1>4, <1>5, <1>6
\* The rename installs exactly what was offered, acknowledged or not.
LEMMA InstallStep ==
  ASSUME DInv, NEW t \in Transfer, Doing(t, "rename"),
         NEW record, DOMAIN record = TransferFields, Install(t, record),
         record.payload = transfer[t].payload, record.op = "ReplaceContent",
         record.pc \in {"emit", "cleanup"}
  PROVE  [Swap!Next]_(Swap!vars)
<1> DEFINE c == transfer[t]
           d == [record EXCEPT !.current = TRUE, !.flying = {r \in Request : Active(r)}]
<1>1. /\ DOMAIN transfer = Transfer /\ TransferOK(c, temps[t]) /\ c.pc = "rename"
      /\ \A u \in Transfer : TransferOK(transfer[u], temps[u])
  BY DEF DInv, TransfersOK, Doing
<1>2. /\ c.payload \in Payloads /\ c.payload # None /\ c.op = "ReplaceContent"
      /\ temps[t].entries = Checksum(c.payload.items)
      /\ \A e \in temps[t].entries : e.exact = TRUE
  BY <1>1, PayloadAssumption DEF TransferOK, Building
<1>3. Exact(c.payload)
  BY <1>2 DEF Exact, Checksum
<1>4. OfferOf(c) = {items'} /\ OutcomeOf(c) = "pending"
  BY <1>1, <1>2, <1>3 DEF OfferOf, OutcomeOf, Install, Swapped
<1>5. transfer'[t] = d
  BY DEF Install
<1>6. OfferOf(d) = OfferOf(c) /\ OutcomeOf(d) \in {"installed", "failed"}
  <2>1. d.payload = c.payload /\ d.op = c.op /\ d.pc \in {"emit", "cleanup"}
    BY <1>2 DEF TransferFields
  <2> HIDE DEF d
  <2> QED
    BY <1>2, <2>1 DEF OfferOf, OutcomeOf
<1>7. ASSUME NEW u \in Transfer \ {t}
      PROVE  /\ OfferOf(transfer'[u]) = OfferOf(transfer[u])
             /\ OutcomeOf(transfer'[u]) = OutcomeOf(transfer[u])
  <2>1. transfer'[u] = [transfer[u] EXCEPT !.current = FALSE]
    BY DEF Install
  <2>2. DOMAIN transfer[u] = TransferFields
    BY <1>1 DEF TransferOK
  <2> QED
    BY <2>1, <2>2 DEF OfferOf, OutcomeOf, TransferFields
<1>8. Offers' = Offers
  BY <1>5, <1>6, <1>7 DEF Offers
<1>9. Outcomes' = [Outcomes EXCEPT ![t] = OutcomeOf(d)]
  BY <1>5, <1>7 DEF Outcomes
<1>10. Outcomes[t] = "pending" /\ items' \in Offers[t] /\ role' = role
  BY <1>4 DEF Outcomes, Offers, Install
<1>11. Swap!Install(t)
  BY <1>6, <1>8, <1>9, <1>10 DEF Swap!Install, Offers, Outcomes
<1> QED
  BY <1>11 DEF Swap!Next

LEMMA TransferStepImplements ==
  ASSUME DInv, NEW t \in Transfer, TransferStep(t)
  PROVE  [Swap!Next]_(Swap!vars)
<1> DEFINE c == transfer[t]
<1>0. /\ DOMAIN transfer = Transfer /\ TransferOK(c, temps[t])
      /\ DOMAIN c = TransferFields
  BY DEF DInv, TransfersOK, TransferOK
<1>1. CASE StartExport(t)
  <2> DEFINE x == [c EXCEPT !.op = "ExportContent"]
  <2>1. /\ c.payload = None /\ OfferOf(c) = {} /\ OutcomeOf(c) = "pending"
    BY <1>0, <1>1 DEF TransferOK, StartExport, Doing, OfferOf, OutcomeOf
  <2>2. ASSUME NEW d, d.op = "ExportContent"
        PROVE  OfferOf(d) = {} /\ OutcomeOf(d) = "pending"
    BY <2>2 DEF OfferOf, OutcomeOf
  <2>3. [x EXCEPT !.pc = "done", !.result = "forbidden"].op = "ExportContent"
    BY <1>0 DEF TransferFields
  <2>4. [x EXCEPT !.pc = "export", !.snap = items, !.left = ID, !.moments = {items}].op
          = "ExportContent"
    BY <1>0 DEF TransferFields
  <2> QED
    BY <1>0, <1>1, <2>1, <2>2, <2>3, <2>4, OutcomeStep DEF StartExport, Advance, readVars
<1>2. CASE ExportAll(t)
  <2> DEFINE entries == SetToSeq(c.got)
  <2>1. c.op = "ExportContent"
    BY <1>0, <1>2 DEF TransferOK, ExportAll, Doing
  <2>2. ASSUME NEW d, d.op = "ExportContent"
        PROVE  OfferOf(d) = {} /\ OutcomeOf(d) = "pending"
    BY <2>2 DEF OfferOf, OutcomeOf
  <2>3. PICK d : Advance(t, d) /\ d.op = "ExportContent"
    <3>1. [c EXCEPT !.pc = "done", !.result = "ok", !.payload = NewExport(entries)].op
            = "ExportContent"
      BY <1>0, <2>1 DEF TransferFields
    <3>2. [c EXCEPT !.pc = "done", !.result = "internal"].op = "ExportContent"
      BY <1>0, <2>1 DEF TransferFields
    <3> QED
      BY <1>2, <3>1, <3>2 DEF ExportAll, Finish
  <2>4. UNCHANGED <<items, role>>
    BY <1>2 DEF ExportAll, readVars
  <2> QED
    BY <1>0, <2>1, <2>2, <2>3, <2>4, OutcomeStep DEF Advance
<1>3. ASSUME NEW x \in Payloads, StartReplace(t, x) PROVE [Swap!Next]_(Swap!vars)
  <2> DEFINE d == [c EXCEPT !.op = "ReplaceContent"]
             offered == [d EXCEPT !.pc = "create", !.payload = x]
  <2>1. c.payload = None /\ OfferOf(c) = {} /\ OutcomeOf(c) = "pending"
    BY <1>0, <1>3 DEF TransferOK, StartReplace, Doing, OfferOf, OutcomeOf
  <2>2. ASSUME NEW kind, Advance(t, [d EXCEPT !.pc = "done", !.result = kind]), kind # "ok"
        PROVE  [Swap!Next]_(Swap!vars)
    <3> DEFINE f == [d EXCEPT !.pc = "done", !.result = kind]
    <3>1. f.payload = None /\ f.op = "ReplaceContent" /\ f.pc = "done" /\ f.result = kind
      BY <1>0, <2>1 DEF TransferFields
    <3> HIDE DEF f
    <3>2. OfferOf(f) = {} /\ OutcomeOf(f) = "failed"
      BY <2>2, <3>1 DEF OfferOf, OutcomeOf
    <3>3. transfer' = [transfer EXCEPT ![t] = f] /\ UNCHANGED <<items, role>>
      BY <1>3, <2>2 DEF StartReplace, Advance, readVars, f
    <3> QED
      BY <1>0, <2>1, <3>2, <3>3, OutcomeStep
  <2>3. ASSUME role = "sandbox", Advance(t, offered)
        PROVE  [Swap!Next]_(Swap!vars)
    <3>1. PICK f : transfer' = [transfer EXCEPT ![t] = f] /\ OutcomeOf(f) = "pending"
      <4>1. transfer' = [transfer EXCEPT ![t] = offered]
        BY <2>3 DEF Advance
      <4>2. OutcomeOf(offered) = "pending"
        BY <1>0 DEF OutcomeOf, TransferFields
      <4> QED
        BY <4>1, <4>2
    <3>2. Offers' = [Offers EXCEPT ![t] = OfferOf(f)] /\ Outcomes' = Outcomes
      <4>0. DOMAIN transfer = Transfer
        BY <1>0
      <4>1. /\ Offers' = [Offers EXCEPT ![t] = OfferOf(f)]
            /\ Outcomes' = [Outcomes EXCEPT ![t] = OutcomeOf(f)]
        BY <4>0, <3>1, MapsFollow
      <4> QED
        BY <2>1, <3>1, <4>1 DEF Outcomes
    <3>3. /\ \A u \in Transfer \ {t} : Offers'[u] = Offers[u]
          /\ Offers[t] = {} /\ Outcomes[t] = "pending"
      BY <2>1, <3>2 DEF Offers, Outcomes
    <3>4. UNCHANGED <<items, role>>
      BY <1>3 DEF StartReplace, readVars
    <3>5. Swap!Offer(t)
      BY <2>3, <3>2, <3>3, <3>4 DEF Swap!Offer, Offers, Outcomes
    <3> QED
      BY <3>5 DEF Swap!Next
  <2> QED
    BY <1>3, <2>2, <2>3 DEF StartReplace
<1>4. ASSUME NEW pc \in Building \cup {"cleanup"}, c.pc \in Building, Step(t, pc),
             UNCHANGED <<items, role>>
      PROVE  [Swap!Next]_(Swap!vars)
  <2> DEFINE d == [c EXCEPT !.pc = pc]
  <2>1. /\ c.op = "ReplaceContent"
        /\ d.op = c.op /\ d.payload = c.payload /\ d.pc = pc
    BY <1>0, <1>4 DEF TransferOK, TransferFields
  <2> HIDE DEF d
  <2>2. /\ OfferOf(d) = OfferOf(c) /\ OutcomeOf(c) = "pending"
        /\ OutcomeOf(d) \in {"pending", "failed"}
    BY <1>4, <2>1 DEF OfferOf, OutcomeOf, Building
  <2>3. transfer' = [transfer EXCEPT ![t] = d]
    BY <1>4 DEF Step, Advance, d
  <2> QED
    BY <1>0, <1>4, <2>2, <2>3, OutcomeStep
<1>5. CASE CreateTemp(t)
  BY <1>4, <1>5 DEF CreateTemp, Doing, Building, readVars
<1>6. CASE IndexTemp(t)
  BY <1>4, <1>6 DEF IndexTemp, Doing, Building, readVars
<1>7. CASE FillTemp(t)
  BY <1>4, <1>7 DEF FillTemp, Doing, Building, readVars
<1>8. CASE VerifyTemp(t)
  BY <1>4, <1>8 DEF VerifyTemp, Doing, Building, readVars
<1>9. CASE Rename(t)
  <2> DEFINE record == [c EXCEPT !.pc = "emit", !.swapped = TRUE]
  <2>1. /\ DOMAIN record = TransferFields /\ record.payload = c.payload
        /\ record.pc = "emit" /\ record.op = "ReplaceContent"
    BY <1>9, <1>0 DEF TransferOK, TransferFields, Building, Rename, Doing
  <2> HIDE DEF record
  <2>2. Doing(t, "rename") /\ Install(t, record)
    BY <1>9 DEF Rename, record
  <2> QED
    BY <2>1, <2>2, InstallStep
<1>10. ASSUME NEW result \in {"ok", "internal"}, Finish(t, result), UNCHANGED <<items, role>>,
              \/ c.pc = "cleanup" /\ result = "internal"
              \/ c.pc = "emit" /\ result = "ok"
       PROVE  [Swap!Next]_(Swap!vars)
  <2> DEFINE d == [c EXCEPT !.pc = "done", !.result = result]
  <2>1. /\ c.op = "ReplaceContent"
        /\ d.op = c.op /\ d.payload = c.payload /\ d.pc = "done" /\ d.result = result
    BY <1>0, <1>10 DEF TransferOK, TransferFields
  <2> HIDE DEF d
  <2>2. /\ OfferOf(d) = OfferOf(c)
        /\ \/ OutcomeOf(c) = "failed" /\ OutcomeOf(d) = "failed"
           \/ OutcomeOf(c) = "installed" /\ OutcomeOf(d) = "succeeded"
    BY <1>10, <2>1 DEF OfferOf, OutcomeOf
  <2>3. transfer' = [transfer EXCEPT ![t] = d]
    BY <1>10 DEF Finish, Advance, d
  <2> QED
    BY <1>0, <1>10, <2>2, <2>3, OutcomeStep
<1>11. CASE Cleanup(t)
  BY <1>10, <1>11 DEF Cleanup, Doing, readVars
<1>12. CASE EmitReset(t)
  BY <1>10, <1>12 DEF EmitReset, Doing
<1>13. CASE ExportOne(t)
  <2>1. PICK i \in c.left \cap Stored(Snapshotted(t)) :
          Advance(t, [c EXCEPT !.left = @ \ {i},
                               !.got = @ \cup {EntryOfItem(i, Snapshotted(t)[i])}])
    BY <1>13 DEF ExportOne
  <2> DEFINE d == [c EXCEPT !.left = @ \ {i},
                            !.got = @ \cup {EntryOfItem(i, Snapshotted(t)[i])}]
  <2>2. c.op = "ExportContent" /\ d.op = c.op
    BY <1>0, <1>13 DEF TransferOK, TransferFields, ExportOne, Doing
  <2>3. Advance(t, d) /\ UNCHANGED <<items, role>>
    BY <1>13, <2>1 DEF ExportOne, readVars
  <2> HIDE DEF d
  <2>4. /\ OfferOf(d) = {} /\ OutcomeOf(d) = "pending"
        /\ OfferOf(c) = {} /\ OutcomeOf(c) = "pending"
    BY <2>2 DEF OfferOf, OutcomeOf
  <2> QED
    BY <1>0, <2>3, <2>4, OutcomeStep DEF Advance
<1> QED
  BY <1>1, <1>2, <1>3, <1>5, <1>6, <1>7, <1>8, <1>9, <1>11, <1>12, <1>13 DEF TransferStep

LEMMA TransferFaultImplements ==
  ASSUME DInv, NEW t \in Transfer, TransferFault(t)
  PROVE  [Swap!Next]_(Swap!vars)
<1> DEFINE c == transfer[t]
<1>0. /\ DOMAIN transfer = Transfer /\ TransferOK(c, temps[t])
      /\ DOMAIN c = TransferFields
  BY DEF DInv, TransfersOK, TransferOK
<1>1. ASSUME NEW d, Advance(t, d), UNCHANGED <<items, role>>,
             d.op = c.op, d.payload = c.payload,
             c.pc # "done",
             \/ d.pc \in {"cleanup", "dead"}
             \/ d.pc = "done" /\ d.result = "internal"
      PROVE  [Swap!Next]_(Swap!vars)
  <2>1. OfferOf(d) = OfferOf(c)
    BY <1>1 DEF OfferOf
  <2>2. CASE c.op # "ReplaceContent"
    <3>1. OutcomeOf(d) = OutcomeOf(c)
      BY <1>1, <2>2 DEF OutcomeOf
    <3> QED
      BY <1>0, <1>1, <2>1, <3>1, OutcomeStep DEF Advance
  <2>3. CASE c.op = "ReplaceContent"
    <3>1. OutcomeOf(d) = "failed" /\ OutcomeOf(c) \in {"pending", "installed", "failed"}
      BY <1>1, <2>3 DEF OutcomeOf
    <3> QED
      BY <1>0, <1>1, <2>1, <3>1, OutcomeStep DEF Advance
  <2> QED
    BY <2>2, <2>3
<1>2. CASE TransferFails(t)
  <2>1. ASSUME c.pc \in {"export", "create"},
               Advance(t, [Faulty(t) EXCEPT !.pc = "done", !.result = "internal"])
        PROVE  [Swap!Next]_(Swap!vars)
    <3> DEFINE d == [Faulty(t) EXCEPT !.pc = "done", !.result = "internal"]
    <3>1. d.op = c.op /\ d.payload = c.payload /\ d.pc = "done" /\ d.result = "internal"
      BY <1>0 DEF TransferFields, Faulty
    <3> HIDE DEF d
    <3> QED
      BY <1>1, <1>2, <2>1, <3>1 DEF TransferFails, readVars, d
  <2>2. ASSUME c.pc \in {"index", "fill", "verify", "rename"},
               Advance(t, [Faulty(t) EXCEPT !.pc = "cleanup"])
        PROVE  [Swap!Next]_(Swap!vars)
    <3> DEFINE d == [Faulty(t) EXCEPT !.pc = "cleanup"]
    <3>1. d.op = c.op /\ d.payload = c.payload /\ d.pc = "cleanup"
      BY <1>0 DEF TransferFields, Faulty
    <3> HIDE DEF d
    <3> QED
      BY <1>1, <1>2, <2>2, <3>1 DEF TransferFails, readVars, d
  <2> QED
    BY <1>2, <2>1, <2>2 DEF TransferFails
<1>3. CASE CreateUnacknowledged(t) \/ DropFails(t)
  <2> DEFINE d == [Faulty(t) EXCEPT !.pc = "done", !.result = "internal", !.orphaned = TRUE]
  <2>1. d.op = c.op /\ d.payload = c.payload /\ d.pc = "done" /\ d.result = "internal"
    BY <1>0 DEF TransferFields, Faulty
  <2> HIDE DEF d
  <2>2. Advance(t, d) /\ UNCHANGED <<items, role>> /\ c.pc \in {"create", "cleanup"}
    BY <1>3 DEF CreateUnacknowledged, DropFails, Doing, readVars, d
  <2> QED
    BY <1>1, <2>1, <2>2
<1>4. CASE FillStops(t)
  <2> DEFINE d == [Faulty(t) EXCEPT !.pc = "cleanup"]
  <2>1. d.op = c.op /\ d.payload = c.payload /\ d.pc = "cleanup"
    BY <1>0 DEF TransferFields, Faulty
  <2> HIDE DEF d
  <2>2. Advance(t, d) /\ UNCHANGED <<items, role>> /\ c.pc = "fill"
    BY <1>4 DEF FillStops, Doing, readVars, d
  <2> QED
    BY <1>1, <2>1, <2>2
<1>5. CASE RenameUnacknowledged(t)
  <2> DEFINE record == [Faulty(t) EXCEPT !.pc = "cleanup"]
  <2>1. /\ DOMAIN record = TransferFields /\ record.payload = c.payload
        /\ record.pc = "cleanup" /\ record.op = "ReplaceContent"
    BY <1>5, <1>0 DEF TransferOK, TransferFields, Building, RenameUnacknowledged, Doing, Faulty
  <2> HIDE DEF record
  <2>2. Doing(t, "rename") /\ Install(t, record)
    BY <1>5 DEF RenameUnacknowledged, record
  <2> QED
    BY <2>1, <2>2, InstallStep
<1>6. CASE Dies(t)
  <2> DEFINE d == [Faulty(t) EXCEPT !.pc = "dead", !.orphaned = TRUE]
  <2>1. d.op = c.op /\ d.payload = c.payload /\ d.pc = "dead"
    BY <1>0 DEF TransferFields, Faulty
  <2> HIDE DEF d
  <2>2. Advance(t, d) /\ UNCHANGED <<items, role>>
    BY <1>6 DEF Dies, readVars, d
  <2>3. c.pc # "done"
    BY <1>6 DEF Dies
  <2> QED
    BY <1>1, <2>1, <2>2, <2>3
<1> QED
  BY <1>2, <1>3, <1>4, <1>5, <1>6 DEF TransferFault

------------------------------------------------------------------------------
LEMMA ReplacementInitOK == DeploymentInit => Swap!Init
<1> SUFFICES ASSUME DeploymentInit PROVE Swap!Init
  OBVIOUS
<1>1. OfferOf(NoTransfer) = {} /\ OutcomeOf(NoTransfer) = "pending"
  BY DEF OfferOf, OutcomeOf, NoTransfer
<1>2. \A t \in Transfer : transfer[t] = NoTransfer
  BY DEF DeploymentInit
<1> QED
  BY <1>1, <1>2 DEF Swap!Init

LEMMA ReplacementStepOK ==
  DInv /\ [DeploymentNext]_deploymentVars => [Swap!Next]_(Swap!vars)
<1> SUFFICES ASSUME DInv, [DeploymentNext]_deploymentVars PROVE [Swap!Next]_(Swap!vars)
  OBVIOUS
<1>0. DOMAIN items = ID
  BY DEF DInv, IInv, ItemsOK
<1>1. ASSUME UNCHANGED <<items, role, transfer>> PROVE UNCHANGED Swap!vars
  BY <1>1 DEF Swap!vars
<1>2. ASSUME NEW r \in Request, ItemStep(r), Witness(r) PROVE Swap!Next
  <2>1. \E i \in ID : \A j \in ID \ {i} : items'[j] = items[j]
    BY <1>0, <1>2, CallEditsOneItem DEF ItemStep
  <2>2. ASSUME NEW t \in Transfer
        PROVE  /\ OfferOf(transfer'[t]) = OfferOf(transfer[t])
               /\ OutcomeOf(transfer'[t]) = OutcomeOf(transfer[t])
    <3>1. Witnessed(transfer[t], transfer'[t], items')
      BY <1>2, WitnessFields DEF DInv, TransfersOK, TransferOK
    <3> QED
      BY <3>1, WitnessedFields DEF OfferOf, OutcomeOf
  <2>3. UNCHANGED <<Offers, Outcomes, role>>
    BY <1>2, <2>2 DEF Offers, Outcomes, Witness
  <2> QED
    BY <2>1, <2>3 DEF Swap!Next, Swap!EditItem, Offers, Outcomes
<1>3. ASSUME NEW c \in Consumer, ReadStep(c) \/ FindFails(c), UNCHANGED transferVars
      PROVE  UNCHANGED Swap!vars
  BY <1>1, <1>3 DEF ReadStep, FindFails, Fetch, Visit, Drained, GetSnapshot, Reread, transferVars
<1>4. CASE DeploymentAtRest \/ UNCHANGED deploymentVars
  BY <1>1, <1>4 DEF DeploymentAtRest, AtRest, transferVars, readVars, deploymentVars
<1> QED
  BY <1>2, <1>3, <1>4, TransferStepImplements, TransferFaultImplements DEF DeploymentNext

\* Readers and item calls see the content replaced whole or not at all, on a
\* sandbox only, with exactly the payload, whichever store call of a replacement
\* fails, loses its acknowledgement or is the last one of its process
\* (persistor.go:105-174, transfer.go:30-45).
THEOREM ReplacementIsAtomic == DeploymentSpec => ImplementsReplacement
<1> QED
  BY ReplacementInitOK, ReplacementStepOK, DeploymentInvariance, PTL
     DEF DeploymentSpec, ImplementsReplacement, Swap!Spec

------------------------------------------------------------------------------
(* Calls in flight at a swap.                                               *)

AfterSwap == {"emit", "cleanup", "done", "dead"}
IdsOf(x) == {x.items[n].id : n \in DOMAIN x.items}

\* An item is of the payload of c, or was inserted after the swap.
Accounted(c, first, i) == i \in IdsOf(c.payload) \/ first[i] # None

\* After the swap of c: what is stored is accounted for; what was inserted since has
\* the id of the call that inserted it, or that call was in flight; and so other calls
\* hold no id but their own and those that are accounted for: they have read it since.
SwapOf(c, docs, calls, first) ==
  /\ c.pc \in AfterSwap
  /\ c.flying \subseteq Request
  /\ \A i \in Stored(docs) : Accounted(c, first, i)
  /\ \A i \in ID : first[i] # None =>
       i \in IdsOf(c.payload) \/ first[i] = i \/ first[i] \in c.flying
  /\ \A r \in Request \ c.flying :
       calls[r].pc \notin {"idle", "done"} /\ calls[r].id # None
         => calls[r].id = r \/ Accounted(c, first, calls[r].id)

SwapsOK ==
  /\ \A r \in Request : call[r].pc = "idle" => call[r].id = None
  /\ \A t \in Transfer : transfer[t].current => SwapOf(transfer[t], items, call, origin)

\* Consumers are fresh as they are without replacements, or one of these is about
\* to notify them all.
ResetsOK ==
  \/ FreshOK
  \/ /\ \A r \in Request : call[r].pc # "done" => call[r].event = None
     /\ \E t \in Transfer : Doing(t, "emit")

\* The whole invariant of a deployment.
WholeInv == DInv /\ ReadersOK /\ SwapsOK /\ ResetsOK

LEMMA CallKeepsSwap ==
  ASSUME IInv, SwapsOK, NEW t \in Transfer, NEW r \in Request, CallStep(r), Witness(r),
         transfer[t].current
  PROVE  SwapOf(transfer[t], items', call', origin')
<1> DEFINE c == transfer[t]
<1>0. /\ SwapOf(c, items, call, origin)
      /\ call[r].pc = "idle" => call[r].id = None
      /\ DOMAIN items = ID /\ DOMAIN items' = ID
      /\ r # None /\ None \notin ID
  <2>1. IInv'
    BY StepOK DEF Next
  <2> QED
    BY <2>1, RequestAssumption DEF SwapsOK, IInv, ItemsOK, ID
<1>1. ASSUME NEW i \in ID
      PROVE  origin'[i] = IF origin[i] = None /\ items[i] = None /\ items'[i] # None
                          THEN r ELSE origin[i]
  BY DEF Witness
<1>2. ASSUME NEW i \in ID, Accounted(c, origin, i) PROVE Accounted(c, origin', i)
  BY <1>0, <1>1, <1>2 DEF Accounted
<1>3. ASSUME NEW i \in Stored(items') PROVE Accounted(c, origin', i)
  BY <1>0, <1>1, <1>2 DEF Accounted, Stored, SwapOf
<1>4. ASSUME NEW i \in ID, origin'[i] # None
      PROVE  i \in IdsOf(c.payload) \/ origin'[i] = i \/ origin'[i] \in c.flying
  <2>1. CASE origin[i] # None
    BY <1>0, <1>1, <2>1 DEF SwapOf
  <2>2. CASE origin[i] = None
    <3>1. i \in Stored(items') \ Stored(items) /\ origin'[i] = r
      BY <1>0, <1>1, <1>4, <2>2 DEF Stored
    <3>2. i = call[r].id \/ i = r
      BY <3>1, CallEffect
    <3>3. call[r].pc \notin {"idle", "done"}
      BY <3>1, CallEffect
    <3>4. ASSUME r \notin c.flying, i = call[r].id, i # r PROVE i \in IdsOf(c.payload)
      <4>1. Accounted(c, origin, i)
        BY <1>0, <3>3, <3>4 DEF SwapOf
      <4> QED
        BY <2>2, <4>1 DEF Accounted
    <3> QED
      BY <3>1, <3>2, <3>4
  <2> QED
    BY <2>1, <2>2
<1>5. ASSUME NEW q \in Request \ c.flying,
             call'[q].pc \notin {"idle", "done"}, call'[q].id # None
      PROVE  call'[q].id = q \/ Accounted(c, origin', call'[q].id)
  <2>1. ASSUME NEW i, i = call[q].id, i # q, i # None, call[q].pc \notin {"idle", "done"}
        PROVE  Accounted(c, origin', i)
    <3>1. Accounted(c, origin, i)
      BY <1>0, <2>1 DEF SwapOf
    <3>2. i \in ID
      BY <2>1 DEF IInv, CallsOK, CallRecord
    <3> QED
      BY <1>2, <3>1, <3>2
  <2>2. CASE q # r
    <3>1. call'[q] = call[q]
      BY <2>2, CallEffect
    <3> QED
      BY <1>5, <2>1, <3>1
  <2>3. CASE q = r
    <3>1. CASE call'[r].id \in Stored(items)
      BY <1>0, <1>2, <2>3, <3>1 DEF SwapOf, Stored
    <3>2. CASE call'[r].id = call[r].id
      <4>1. call[r].pc \notin {"idle", "done"} /\ call[r].id # None
        BY <1>0, <1>5, <2>3, <3>2, CallEffect
      <4> QED
        BY <2>1, <2>3, <3>2, <4>1
    <3> QED
      BY <1>5, <2>3, <3>1, <3>2, CallEffect
  <2> QED
    BY <2>2, <2>3
<1>6. c.pc \in AfterSwap /\ c.flying \subseteq Request
  BY <1>0 DEF SwapOf
<1> QED
  BY <1>3, <1>4, <1>5, <1>6 DEF SwapOf

LEMMA CallKeepsSwaps ==
  ASSUME DInv, SwapsOK, NEW r \in Request, CallStep(r), Witness(r)
  PROVE  SwapsOK'
<1>0. IInv
  BY DEF DInv
<1>1. ASSUME NEW q \in Request, call'[q].pc = "idle" PROVE call'[q].id = None
  BY <1>0, <1>1, CallEffect DEF SwapsOK
<1>2. ASSUME NEW t \in Transfer, transfer'[t].current
      PROVE  SwapOf(transfer'[t], items', call', origin')
  <2>1. Witnessed(transfer[t], transfer'[t], items')
    BY WitnessFields DEF DInv, TransfersOK, TransferOK
  <2>2. /\ transfer'[t].pc = transfer[t].pc /\ transfer'[t].payload = transfer[t].payload
        /\ transfer'[t].current = transfer[t].current
        /\ transfer'[t].flying = transfer[t].flying
    BY <2>1, WitnessedFields
  <2>3. SwapOf(transfer[t], items', call', origin')
    BY <1>0, <1>2, <2>2, CallKeepsSwap
  <2> QED
    BY <2>2, <2>3 DEF SwapOf, Accounted
<1> QED
  BY <1>1, <1>2 DEF SwapsOK

\* The swap itself: what is stored is the payload, and whoever is not in flight
\* holds nothing.
LEMMA InstallKeepsSwaps ==
  ASSUME DInv, SwapsOK, NEW t \in Transfer, Doing(t, "rename"), NEW record,
         DOMAIN record = TransferFields, record.payload = transfer[t].payload,
         record.pc \in {"emit", "cleanup"}, Install(t, record)
  PROVE  SwapsOK'
<1> DEFINE d == transfer'[t]
<1>1. d = [record EXCEPT !.current = TRUE, !.flying = {r \in Request : Active(r)}]
  BY DEF Install
<1>2. /\ d.payload = transfer[t].payload /\ d.pc \in {"emit", "cleanup"}
      /\ d.flying = {r \in Request : Active(r)}
  BY <1>1 DEF TransferFields
<1>3. items' = Documents(Checksum(d.payload.items))
  BY <1>2 DEF DInv, TransfersOK, TransferOK, Doing, Install, Swapped
<1>4. Stored(items') \subseteq IdsOf(d.payload)
  BY <1>3 DEF Stored, Documents, Checksum, IdsOf
<1>5. \A r \in Request \ d.flying : call[r].pc \in {"idle", "done"}
  BY <1>2 DEF Active
<1> HIDE DEF d
<1>6. SwapOf(d, items', call', origin')
  BY <1>2, <1>4, <1>5 DEF SwapOf, Accounted, AfterSwap, Install
<1>7. ASSUME NEW u \in Transfer \ {t} PROVE ~transfer'[u].current
  BY DEF Install, DInv, TransfersOK, TransferOK, TransferFields
<1> QED
  BY <1>6, <1>7 DEF SwapsOK, Install, d

\* Every other step of a transfer leaves these histories alone.
SameHistory(c, d) ==
  /\ d.current = c.current /\ d.flying = c.flying
  /\ c.pc \in AfterSwap => d.pc \in AfterSwap /\ d.payload = c.payload

LEMMA HistoryKeepsSwaps ==
  ASSUME DInv, SwapsOK, NEW t \in Transfer, NEW d, Advance(t, d),
         SameHistory(transfer[t], d), UNCHANGED <<items, call, origin>>
  PROVE  SwapsOK'
<1>1. ASSUME NEW u \in Transfer, transfer'[u].current
      PROVE  SwapOf(transfer'[u], items, call, origin)
  <2>1. CASE u = t
    <3>1. transfer'[t] = d
      BY DEF Advance, DInv, TransfersOK
    <3>2. SwapOf(transfer[t], items, call, origin)
      BY <1>1, <2>1, <3>1 DEF SameHistory, SwapsOK
    <3>3. d.pc \in AfterSwap /\ d.payload = transfer[t].payload /\ d.flying = transfer[t].flying
      BY <3>2 DEF SwapOf, SameHistory
    <3> QED
      BY <2>1, <3>1, <3>2, <3>3 DEF SwapOf, Accounted
  <2>2. CASE u # t
    BY <1>1, <2>2 DEF Advance, DInv, TransfersOK, SwapsOK
  <2> QED
    BY <2>1, <2>2
<1> QED
  BY <1>1 DEF SwapsOK

LEMMA TransferKeepsSwaps ==
  ASSUME DInv, SwapsOK, NEW t \in Transfer, TransferStep(t) \/ TransferFault(t)
  PROVE  SwapsOK'
<1> DEFINE c == transfer[t]
<1>0. DOMAIN c = TransferFields /\ TransferOK(c, temps[t])
  BY DEF DInv, TransfersOK, TransferOK
<1>1. ASSUME NEW d, Advance(t, d), SameHistory(c, d), UNCHANGED <<items, call, origin>>
      PROVE  SwapsOK'
  BY <1>1, HistoryKeepsSwaps
<1>2. CASE StartExport(t)
  <2> DEFINE x == [c EXCEPT !.op = "ExportContent"]
             refused == [x EXCEPT !.pc = "done", !.result = "forbidden"]
             begun == [x EXCEPT !.pc = "export", !.snap = items, !.left = ID,
                                !.moments = {items}]
  <2>1. SameHistory(c, refused) /\ SameHistory(c, begun)
    BY <1>0, <1>2 DEF SameHistory, TransferFields, AfterSwap, StartExport, Doing
  <2>2. (Advance(t, refused) \/ Advance(t, begun)) /\ UNCHANGED <<items, call, origin>>
    BY <1>2 DEF StartExport, readVars
  <2> HIDE DEF refused, begun
  <2> QED
    BY <1>1, <2>1, <2>2
<1>3. CASE ExportAll(t)
  <2> DEFINE entries == SetToSeq(c.got)
             x == NewExport(entries)
             good == [c EXCEPT !.pc = "done", !.result = "ok", !.payload = x]
             bad == [c EXCEPT !.pc = "done", !.result = "internal"]
  <2>1. (Advance(t, good) \/ Advance(t, bad)) /\ UNCHANGED <<items, call, origin>>
    BY <1>3 DEF ExportAll, Finish, readVars
  <2> HIDE DEF x
  <2>2. SameHistory(c, good) /\ SameHistory(c, bad)
    BY <1>0, <1>3 DEF SameHistory, TransferFields, AfterSwap, ExportAll, Doing
  <2> HIDE DEF good, bad
  <2> QED
    BY <1>1, <2>1, <2>2
<1>4. ASSUME NEW x \in Payloads, StartReplace(t, x) PROVE SwapsOK'
  <2> DEFINE b == [c EXCEPT !.op = "ReplaceContent"]
             forbidden == [b EXCEPT !.pc = "done", !.result = "forbidden"]
             bad == [b EXCEPT !.pc = "done", !.result = "badRequest"]
             begun == [b EXCEPT !.pc = "create", !.payload = x]
  <2>1. SameHistory(c, forbidden) /\ SameHistory(c, bad) /\ SameHistory(c, begun)
    BY <1>0, <1>4 DEF SameHistory, TransferFields, AfterSwap, StartReplace, Doing
  <2>2. (Advance(t, forbidden) \/ Advance(t, bad) \/ Advance(t, begun)) /\ UNCHANGED <<items, call, origin>>
    BY <1>4 DEF StartReplace, readVars
  <2> HIDE DEF forbidden, bad, begun
  <2> QED
    BY <1>1, <2>1, <2>2
<1>5. ASSUME NEW pc, Step(t, pc), c.pc \notin AfterSwap, UNCHANGED <<items, call, origin>> PROVE SwapsOK'
  <2> DEFINE d == [c EXCEPT !.pc = pc]
  <2>1. SameHistory(c, d)
    BY <1>0, <1>5 DEF SameHistory, TransferFields
  <2> HIDE DEF d
  <2> QED
    BY <1>1, <1>5, <2>1 DEF Step, d
<1>6. CASE CreateTemp(t) \/ IndexTemp(t) \/ FillTemp(t) \/ VerifyTemp(t)
  BY <1>5, <1>6 DEF CreateTemp, IndexTemp, FillTemp, VerifyTemp, Doing, AfterSwap, readVars
<1>7. CASE Rename(t)
  <2> DEFINE record == [c EXCEPT !.pc = "emit", !.swapped = TRUE]
  <2>1. DOMAIN record = TransferFields /\ record.payload = c.payload /\ record.pc = "emit"
    BY <1>0 DEF TransferFields
  <2>2. Doing(t, "rename") /\ Install(t, record)
    BY <1>7 DEF Rename
  <2> HIDE DEF record
  <2> QED
    BY <2>1, <2>2, InstallKeepsSwaps
<1>8. CASE RenameUnacknowledged(t)
  <2> DEFINE record == [Faulty(t) EXCEPT !.pc = "cleanup"]
  <2>1. DOMAIN record = TransferFields /\ record.payload = c.payload /\ record.pc = "cleanup"
    BY <1>0 DEF TransferFields, Faulty
  <2>2. Doing(t, "rename") /\ Install(t, record)
    BY <1>8 DEF RenameUnacknowledged
  <2> HIDE DEF record
  <2> QED
    BY <2>1, <2>2, InstallKeepsSwaps
<1>9. CASE Cleanup(t) \/ EmitReset(t)
  <2> DEFINE good == [c EXCEPT !.pc = "done", !.result = "ok"]
             bad == [c EXCEPT !.pc = "done", !.result = "internal"]
  <2>1. SameHistory(c, good) /\ SameHistory(c, bad)
    BY <1>0 DEF SameHistory, TransferFields, AfterSwap
  <2>2. (Advance(t, good) \/ Advance(t, bad)) /\ UNCHANGED <<items, call, origin>>
    BY <1>9 DEF Cleanup, EmitReset, Finish, readVars
  <2> HIDE DEF good, bad
  <2> QED
    BY <1>1, <2>1, <2>2
<1>10. CASE TransferFails(t) \/ CreateUnacknowledged(t) \/ FillStops(t) \/ DropFails(t) \/ Dies(t)
  <2> DEFINE failed == [Faulty(t) EXCEPT !.pc = "done", !.result = "internal"]
             undone == [Faulty(t) EXCEPT !.pc = "cleanup"]
             left == [Faulty(t) EXCEPT !.pc = "done", !.result = "internal", !.orphaned = TRUE]
             dead == [Faulty(t) EXCEPT !.pc = "dead", !.orphaned = TRUE]
  <2>1. /\ SameHistory(c, failed) /\ SameHistory(c, undone)
        /\ SameHistory(c, left) /\ SameHistory(c, dead)
    BY <1>0 DEF SameHistory, TransferFields, AfterSwap, Faulty
  <2>2. /\ Advance(t, failed) \/ Advance(t, undone) \/ Advance(t, left) \/ Advance(t, dead)
        /\ UNCHANGED <<items, call, origin>>
    BY <1>10 DEF TransferFails, CreateUnacknowledged, FillStops, DropFails, Dies, readVars
  <2> HIDE DEF failed, undone, left, dead
  <2> QED
    BY <1>1, <2>1, <2>2
<1>11. CASE ExportOne(t)
  <2>1. PICK i \in c.left \cap Stored(Snapshotted(t)) :
          Advance(t, [c EXCEPT !.left = @ \ {i},
                               !.got = @ \cup {EntryOfItem(i, Snapshotted(t)[i])}])
    BY <1>11 DEF ExportOne
  <2> DEFINE d == [c EXCEPT !.left = @ \ {i},
                            !.got = @ \cup {EntryOfItem(i, Snapshotted(t)[i])}]
  <2>2. SameHistory(c, d)
    BY <1>0 DEF SameHistory, TransferFields
  <2>3. Advance(t, d) /\ UNCHANGED <<items, call, origin>>
    BY <1>11, <2>1 DEF ExportOne, readVars
  <2> HIDE DEF d
  <2> QED
    BY <1>1, <2>2, <2>3
<1> QED
  BY <1>2, <1>3, <1>4, <1>6, <1>7, <1>8, <1>9, <1>10, <1>11 DEF TransferStep, TransferFault

------------------------------------------------------------------------------
(* Consumers and resets.                                                    *)

\* A consumer that will not be told of the swap is marked as missing every item.
LEMMA SilentSwapsAreNoted ==
  ASSUME ReadersOK, NEW t \in Transfer,
         RenameUnacknowledged(t) \/ (Dies(t) /\ Doing(t, "emit")), DOMAIN transfer = Transfer,
         DOMAIN transfer[t] = TransferFields,
         NEW c \in Consumer
  PROVE  consumer'[c].stale \/ consumer'[c].missed = ID
<1> DEFINE k == consumer[c]
           lost == [k EXCEPT !.missed = ID]
           record == [Faulty(t) EXCEPT !.pc = "cleanup"]
<1>1. ReaderTyped(k)
  BY DEF ReadersOK, ReadersTyped
<1>2. ReaderTyped(lost) /\ lost.missed = ID
  BY <1>1 DEF ReaderTyped, ConsumerRecord
<1>3. [Ended(lost) EXCEPT !.stale = TRUE].stale
  BY <1>2, EndedTyped DEF ReaderTyped, ConsumerRecord
<1>4. record.pc = "cleanup"
  BY DEF Faulty, TransferFields
<1>5. Unread[c] = lost
  BY DEF Unread
<1> HIDE DEF lost
<1>6. CASE RenameUnacknowledged(t)
  <2>1. consumer'[c] = IF lost.pc = "find" THEN [Ended(lost) EXCEPT !.stale = TRUE] ELSE lost
    BY <1>4, <1>5, <1>6 DEF RenameUnacknowledged, Install
  <2> QED
    BY <1>2, <1>3, <2>1
<1>7. CASE Dies(t) /\ Doing(t, "emit")
  BY <1>2, <1>5, <1>7 DEF Dies
<1> QED
  BY <1>6, <1>7

LEMMA TransferKeepsResets ==
  ASSUME DInv, ReadersOK, ResetsOK, NEW t \in Transfer, TransferStep(t) \/ TransferFault(t)
  PROVE  ResetsOK'
<1>0. /\ DOMAIN transfer = Transfer /\ DOMAIN transfer[t] = TransferFields
      /\ \A c \in Consumer : ReaderTyped(consumer[c])
  BY DEF DInv, TransfersOK, TransferOK, ReadersOK, ReadersTyped
<1>1. call' = call /\ \A r \in Request : call[r].pc # "done" => call[r].event = None
  BY DEF ResetsOK, FreshOK, TransferStep, TransferFault, StartExport, ExportOne, ExportAll,
         StartReplace, CreateTemp, IndexTemp, FillTemp, VerifyTemp, Rename, Install, Cleanup,
         EmitReset, TransferFails, CreateUnacknowledged, FillStops, RenameUnacknowledged,
         DropFails, Dies, readVars
<1>2. ASSUME \A c \in Consumer : consumer'[c].stale \/ consumer'[c].missed = ID
      PROVE  ResetsOK'
  BY <1>1, <1>2 DEF ResetsOK, FreshOK, AllFresh, FreshAt
<1>3. CASE EmitReset(t)
  <2>1. \A c \in Consumer : consumer'[c].stale
    BY <1>0, <1>3 DEF EmitReset, ReaderTyped, ConsumerRecord
  <2> QED
    BY <1>2, <2>1
<1>4. CASE RenameUnacknowledged(t) \/ (Dies(t) /\ Doing(t, "emit"))
  BY <1>0, <1>2, <1>4, SilentSwapsAreNoted
<1>5. CASE Rename(t)
  <2> DEFINE record == [transfer[t] EXCEPT !.pc = "emit", !.swapped = TRUE]
  <2>1. record.pc = "emit" /\ DOMAIN record = TransferFields
    BY <1>0 DEF TransferFields
  <2>2. transfer' = [u \in Transfer |->
          IF u = t THEN [record EXCEPT !.current = TRUE,
                                       !.flying = {r \in Request : Active(r)}]
                   ELSE [transfer[u] EXCEPT !.current = FALSE]]
    BY <1>5 DEF Rename, Install
  <2> HIDE DEF record
  <2>3. transfer'[t].pc = "emit"
    BY <2>1, <2>2 DEF TransferFields
  <2> QED
    BY <1>1, <2>3 DEF ResetsOK, Doing
<1>6. ASSUME UNCHANGED readVars, NEW d, Advance(t, d), ~Doing(t, "emit") PROVE ResetsOK'
  <2>1. CASE FreshOK
    BY <1>6, <2>1 DEF ResetsOK, FreshOK, readVars
  <2>2. CASE \E u \in Transfer : Doing(u, "emit")
    <3>1. PICK u \in Transfer : Doing(u, "emit")
      BY <2>2
    <3>2. transfer'[u].pc = "emit"
      BY <1>0, <1>6, <3>1 DEF Advance, Doing
    <3> QED
      BY <1>1, <3>2 DEF ResetsOK, Doing
  <2> QED
    BY <2>1, <2>2 DEF ResetsOK
<1>7. \/ EmitReset(t) \/ Rename(t) \/ RenameUnacknowledged(t)
      \/ Dies(t) /\ Doing(t, "emit")
      \/ UNCHANGED readVars /\ ~Doing(t, "emit") /\ \E d : Advance(t, d)
  BY DEF TransferStep, TransferFault, StartExport, ExportOne, ExportAll, StartReplace,
         CreateTemp, IndexTemp, FillTemp, VerifyTemp, Cleanup, TransferFails,
         CreateUnacknowledged, FillStops, DropFails, Dies, Doing, Step, Finish, readVars
<1> QED
  BY <1>3, <1>4, <1>5, <1>6, <1>7

------------------------------------------------------------------------------
LEMMA WholeStepOK ==
  WholeInv /\ [DeploymentNext]_deploymentVars => WholeInv'
<1> SUFFICES ASSUME WholeInv, [DeploymentNext]_deploymentVars PROVE WholeInv'
  OBVIOUS
<1> USE DEF WholeInv
<1>0. DInv' /\ IInv /\ DOMAIN items = ID
  BY DeploymentStepOK DEF DInv, IInv, ItemsOK
<1>1. ASSUME NEW r \in Request, ItemStep(r), Witness(r)
      PROVE  ReadersOK' /\ SwapsOK' /\ ResetsOK'
  <2>1. CallStep(r) /\ Observe(r)
    BY <1>1 DEF ItemStep
  <2>2. ResetsOK'
    <3>1. CASE FreshOK
      <4>1. items' \in [ID -> Version \cup {None}]
        BY <1>0 DEF DInv, IInv, ItemsOK
      <4> QED
        BY <1>0, <1>1, <3>1, <4>1, ItemStepFreshOK DEF ResetsOK
    <3>2. CASE ~FreshOK
      <4>1. PICK t \in Transfer : Doing(t, "emit")
        BY <3>2 DEF ResetsOK
      <4>2. Witnessed(transfer[t], transfer'[t], items')
        BY <1>1, WitnessFields DEF DInv, TransfersOK, TransferOK
      <4>3. transfer'[t].pc = "emit"
        BY <4>1, <4>2, WitnessedFields DEF Doing
      <4> QED
        BY <1>0, <2>1, <3>2, <4>3, EventsOK DEF ResetsOK, Doing
    <3> QED
      BY <3>1, <3>2
  <2> QED
    BY <1>0, <1>1, <2>1, <2>2, ObserveOK, CallKeepsSwaps DEF DInv, IInv, ItemsOK
<1>2. ASSUME NEW c \in Consumer, ReadStep(c) \/ FindFails(c), UNCHANGED transferVars
      PROVE  ReadersOK' /\ SwapsOK' /\ ResetsOK'
  <2>1. UNCHANGED <<items, call, transfer, origin>>
    BY <1>2 DEF ReadStep, FindFails, Fetch, Visit, Drained, GetSnapshot, Reread, transferVars
  <2>2. SwapsOK'
    BY <2>1 DEF SwapsOK
  <2>3. ResetsOK'
    BY <1>0, <1>2, <2>1, ReadStepFreshOK DEF ResetsOK, Doing
  <2> QED
    BY <1>0, <1>2, <2>2, <2>3, ReadStepOK
<1>3. ASSUME NEW t \in Transfer, TransferStep(t) \/ TransferFault(t)
      PROVE  ReadersOK' /\ SwapsOK' /\ ResetsOK'
  BY <1>3, TransferKeepsReaders, TransferKeepsSwaps, TransferKeepsResets
<1>4. ASSUME DeploymentAtRest \/ UNCHANGED deploymentVars PROVE ReadersOK' /\ SwapsOK' /\ ResetsOK'
  <2>1. UNCHANGED <<items, call, consumer, transfer, origin>>
    BY <1>4 DEF DeploymentAtRest, AtRest, transferVars, readVars, deploymentVars
  <2> QED
    BY <2>1 DEF ReadersOK, ReadersTyped, ReaderOK, ReadingOK, SwapsOK, ResetsOK, FreshOK, Doing
<1> QED
  BY <1>0, <1>1, <1>2, <1>3, <1>4 DEF DeploymentNext

LEMMA WholeInitOK == DeploymentInit => WholeInv
<1> SUFFICES ASSUME DeploymentInit PROVE WholeInv
  OBVIOUS
<1>1. SwapsOK
  BY DEF SwapsOK, DeploymentInit, SnapshotsInit, Init, Idle, NoTransfer
<1> QED
  BY <1>1, DeploymentInitOK, ReadersInitOK, FreshInitOK DEF WholeInv, ResetsOK, DeploymentInit

\* The inductive invariant of a whole deployment: item calls, cursors, copies and
\* transfers are each well formed; a copy that is not marked stale differs from the
\* store only in items whose writes were withheld from its consumer, unless a swap is
\* about to be told; and after a swap every item that is not of the payload is due to a
\* later call that created it or to one that was in flight (engine.go:308-383,
\* persistor.go:105-174, transfer.go:30-45).
THEOREM WholeInvariance == DeploymentSpec => []WholeInv
BY WholeInitOK, WholeStepOK, PTL DEF DeploymentSpec

\* After a replacement, a stored item that is not in the payload was created, under
\* its own new id, by a call made later, or inserted by one that was in flight at the
\* swap: nothing else of the old content comes back, however many calls, transfers
\* and failures (persistor.go:158-167, 224-226).
THEOREM OldItemsAreAccountedFor == DeploymentSpec => []OldItemsOnlyFromInFlight
<1>1. WholeInv => OldItemsOnlyFromInFlight
  <2> SUFFICES ASSUME WholeInv, NEW t \in Transfer, transfer[t].current,
                      NEW i \in Stored(items), i \notin IdsOf(transfer[t].payload)
               PROVE  origin[i] = i \/ origin[i] \in transfer[t].flying
    BY DEF OldItemsOnlyFromInFlight, IdsOf
  <2>1. SwapOf(transfer[t], items, call, origin)
    BY DEF WholeInv, SwapsOK
  <2>2. i \in ID
    BY DEF WholeInv, DInv, IInv, ItemsOK, Stored
  <2> QED
    BY <2>1, <2>2 DEF SwapOf, Accounted
<1> QED
  BY <1>1, WholeInvariance, PTL

\* Replacements end the reads whose cursor is not drained and spoil none: the rows
\* that are returned, repeated ones too, depict versions of their items
\* (persistor.go:375-391, 158-167).
THEOREM RowsStayReal == DeploymentSpec => []RowsAreReal
<1>1. WholeInv => RowsAreReal
  BY ReadersGive DEF WholeInv
<1> QED
  BY <1>1, WholeInvariance, PTL

\* After a replacement, too, once its notification is out, a consumer that has read
\* again since the last event has each item as it is stored, unless a write of that
\* item, or the swap of a replacement that ended without notifying, was withheld from
\* it since it began that read (transfer.go:36-44, engine.go:308-318).
THEOREM ResetsReachConsumers == DeploymentSpec => []ResetReachesConsumers
<1>1. WholeInv => ResetReachesConsumers
  <2> SUFFICES ASSUME WholeInv, \A t \in Transfer : ~Doing(t, "emit"),
                      NEW c \in Consumer, Quiet(c), NEW i \in ID
               PROVE  UpToDate(c, i) \/ Untold(c, i)
    BY DEF ResetReachesConsumers, QuietIsFresh
  <2>1. FreshAt(consumer[c], items, call, i)
    BY DEF WholeInv, ResetsOK, FreshOK, AllFresh, Quiet
  <2> QED
    BY <2>1, FreshGives DEF WholeInv
<1> QED
  BY <1>1, WholeInvariance, PTL
=============================================================================
