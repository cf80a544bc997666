------------------------ MODULE DeploymentProperties ------------------------
(***************************************************************************)
(* The correctness properties of export and replacement, and the           *)
(* refinement of Replacement.                                              *)
(***************************************************************************)
EXTENDS Deployment, SnapshotProperties

Settled(t) == transfer[t].pc \in {"done", "dead"}
Replacing(t) == transfer[t].pc \in {"create", "index", "fill", "verify", "rename", "emit", "cleanup"}

\* Types; a replacement has a valid payload from its first step on and its
\* temporary collection, indexed before anything is put in, from its second on.
DeploymentTypeOK ==
  /\ SnapshotsTypeOK
  /\ role \in {"canonical", "sandbox"}
  /\ transfer \in [Transfer -> TransferRecord]
  /\ temps \in [Transfer -> Temp \cup {None}]
  /\ origin \in [ID -> Request \cup {None}]
  /\ \A t \in Transfer :
       LET c == transfer[t] IN
       /\ c.pc = "export" => c.snap # None
       /\ Replacing(t) => c.payload # None /\ ValidExport(c.payload)
       /\ c.pc \in {"index", "fill", "verify", "rename"} => temps[t] # None
       /\ temps[t] # None /\ temps[t].entries # {} => temps[t].indexed

------------------------------------------------------------------------------
(* Refinement: whatever fails and whoever writes meanwhile, replacement is  *)
(* one step (persistor.go:105-107, transfer.go:42-43).                      *)

Exact(x) == \A n \in DOMAIN x.items : x.items[n].exact

OfferOf(c) ==
  IF c.op = "ReplaceContent" /\ c.payload # None /\ Exact(c.payload)
  THEN {Documents(Checksum(c.payload.items))} ELSE {}

OutcomeOf(c) ==
  IF c.op # "ReplaceContent" THEN "pending"
  ELSE IF c.pc = "emit" THEN "installed"
  ELSE IF c.pc = "done" /\ c.result = "ok" THEN "succeeded"
  ELSE IF c.pc \in {"done", "dead", "cleanup"} THEN "failed"
  ELSE "pending"

Swap == INSTANCE Replacement WITH
          ItemID  <- ID,
          Caller  <- Transfer,
          content <- items,
          open    <- role = "sandbox",
          offer   <- [t \in Transfer |-> OfferOf(transfer[t])],
          outcome <- [t \in Transfer |-> OutcomeOf(transfer[t])]

\* Building, checking and renaming a temporary collection, dropping it, losing
\* an acknowledgement or the whole process at any point: readers and item calls
\* see the content replaced whole or not at all, on a sandbox only, and with
\* exactly the payload.
ImplementsReplacement == Swap!Spec

------------------------------------------------------------------------------

\* Without a failing store call or a stopped process, a transfer is refused for
\* its role or its payload only: an export of a canonical deployment always
\* succeeds, its payload passes the validation of ReplaceContent, and installed
\* it is the collection as it was at one moment of the export again, however many
\* documents are written while the find goes from one to the next (the snapshot
\* transaction, persistor.go:80-103; newContentExport, validateContentExport,
\* transfer.go:48-90).
OnlyFaultsFail ==
  \A t \in Transfer :
    LET c == transfer[t] IN
    c.pc = "done" /\ ~c.faulted =>
      /\ c.op = "ExportContent" /\ role = "canonical" =>
           /\ c.result = "ok"
           /\ ValidExport(c.payload)
           /\ \E docs \in c.moments :
                CatalogOf(Documents(Checksum(c.payload.items))) = CatalogOf(docs)
      /\ c.op = "ReplaceContent" /\ c.payload # None =>
           (c.result = "ok") = Exact(c.payload)

\* A temporary collection outlives its call only when the process stopped, the
\* creation was not acknowledged, or the drop failed: every other way out of
\* ReplaceAll drops it (the deferred cleanup, persistor.go:121-130).
LeftoversExplained ==
  \A t \in Transfer : Settled(t) /\ temps[t] # None => transfer[t].orphaned

\* After a replacement, until the next one, nothing of the old content comes
\* back by itself: an item that is stored and not in the payload was created by a
\* call made later, or brought back by one that was under way at the swap and wrote
\* what it had read before (Upsert by id, persistor.go:224-226; the rename with
\* dropTarget, persistor.go:158-167).
OldItemsOnlyFromInFlight ==
  \A t \in Transfer :
    LET c == transfer[t] IN
    c.current =>
      \A i \in Stored(items) :
        i \notin {c.payload.items[n].id : n \in DOMAIN c.payload.items} =>
          origin[i] = i \/ origin[i] \in c.flying

\* A consumer that has read again since the last event has the content as it is
\* stored, also across a swap, until the swap's notification is due; what is
\* withheld from it is the swap of a replacement that ended without notifying, and
\* the item writes of Untold (emit contentReset, transfer.go:42-44).
ResetReachesConsumers ==
  (\A t \in Transfer : ~Doing(t, "emit")) => QuietIsFresh
=============================================================================
