---------------------------- MODULE MCDeployment ----------------------------
(* Small instances of Deployment for TLC. *)
EXTENDS DeploymentProperties, MCEngine

AnyRole == {"canonical", "sandbox", None}

WholePreview == {[view |-> "preview", types |-> {}, owner |-> None]}

EntryFor(id, item) == [id |-> id, item |-> item, exact |-> TRUE]
Whole == NewExport(<<EntryFor(i2, Published)>>)

Other == NewExport(<<EntryFor(i2, [Published EXCEPT !.key = k2])>>)

\* Two good payloads, one that takes the key of the stored item and one that leaves
\* it free; one that MongoDB does not give back exactly, and one for
\* each check that a payload can fail.
GoodAndBad ==
  {Whole, Other, NewExport(<<[EntryFor(i1, Fresh) EXCEPT !.exact = FALSE]>>)}
  \cup {[Whole EXCEPT !.version = 2], [Whole EXCEPT !.count = 2], [Whole EXCEPT !.checksum = None]}
  \cup {NewExport(entries) : entries \in
          { <<None>>,
            <<EntryFor(None, Fresh)>>,
            <<EntryFor(i2, [Fresh EXCEPT !.type = None])>>,
            <<EntryFor(i2, Fresh), EntryFor(i2, Published)>>,
            <<EntryFor(i1, Fresh), EntryFor(i2, Published)>> }}

\* One save that creates or updates, and a delete.
WritesUnderTransfers == {Save(Saved, article, Fields(text, None), None), ByKey("Delete", k1)}

\* A consumer reads while no item call is active (reads beside item calls are checked
\* in MCSnapshots).  On a sandbox one item call is made, beside two replacements; on a
\* canonical deployment two, beside one export, and nobody reads meanwhile.
FewActors ==
  LET reading == \E c \in Consumer : consumer[c].pc # "idle" IN
  /\ reading => \A r \in Request : ~Active(r)
  /\ role = "sandbox" => Cardinality({r \in Request : ~PcIs(r, "idle")}) <= 1
  /\ role = "canonical" =>
       /\ \E t \in Transfer : transfer[t].op # "ExportContent"
       /\ reading => \A t \in Transfer : ~Doing(t, "export")

DeploymentSymmetry == Permutations(Transfer) \cup Permutations(Request)
=============================================================================
