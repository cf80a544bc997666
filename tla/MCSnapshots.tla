----------------------------- MODULE MCSnapshots -----------------------------
(* Small instances of Snapshots for TLC: the contents and inputs of MCEngine. *)
EXTENDS SnapshotProperties, MCEngine

Reading(view, types, owner) == [view |-> view, types |-> types, owner |-> owner]

\* Whole and narrowed reads, and a view that does not exist.
ManyReads ==
  {Reading("published", {}, None), Reading("preview", {}, team),
   Reading("archived", {article}, None), Reading(None, {}, None)}

ArticleOrRetired ==
  {Contents(i1 :> d) :
     d \in {Changed, [Doc(k1, retired, Draft(1, retired, NoFields), None, FALSE)
                        EXCEPT !.owner = team]}}

WritesUnderReads ==
  {ByKey(op, k1) : op \in {"Publish", "Archive", "Delete"}}
  \cup {[Save(Saved, None, Fields(blank, None), None) EXCEPT !.owner = team],
        Set(ByKey("SetFieldValue", k2), widget, title, text)}
=============================================================================
