----------------------------- MODULE Replacement -----------------------------
(***************************************************************************)
(* What replacing a deployment's content promises, free of temporary       *)
(* collections: the content changes one item at a time, or becomes a whole *)
(* offered content in one step; only a sandbox is ever replaced; a         *)
(* replacement that reports success has been installed, once; one that     *)
(* reports failure was installed at most at the moment it failed.          *)
(***************************************************************************)
CONSTANTS ItemID, Caller

VARIABLES content,   \* item id -> item
          open,      \* this deployment may be replaced
          offer,     \* caller -> the content it asked to install, a set of at most one
          outcome    \* caller -> where its request is

vars == <<content, open, offer, outcome>>

Init ==
  /\ offer = [t \in Caller |-> {}]
  /\ outcome = [t \in Caller |-> "pending"]

\* Item operations go on, whatever replacements are under way.
EditItem ==
  /\ \E i \in ItemID : \A j \in ItemID \ {i} : content'[j] = content[j]
  /\ UNCHANGED <<open, offer, outcome>>

Offer(t) ==
  /\ open
  /\ outcome[t] = "pending" /\ offer[t] = {}
  /\ \A u \in Caller \ {t} : offer'[u] = offer[u]
  /\ UNCHANGED <<content, open, outcome>>

\* The caller may learn of it or not.
Install(t) ==
  /\ outcome[t] = "pending"
  /\ content' \in offer[t]
  /\ \E o \in {"installed", "failed"} : outcome' = [outcome EXCEPT ![t] = o]
  /\ UNCHANGED <<open, offer>>

Succeed(t) ==
  /\ outcome[t] = "installed"
  /\ outcome' = [outcome EXCEPT ![t] = "succeeded"]
  /\ UNCHANGED <<content, open, offer>>

Fail(t) ==
  /\ outcome[t] \in {"pending", "installed"}
  /\ outcome' = [outcome EXCEPT ![t] = "failed"]
  /\ UNCHANGED <<content, open, offer>>

Next == EditItem \/ \E t \in Caller : Offer(t) \/ Install(t) \/ Succeed(t) \/ Fail(t)

Spec == Init /\ [][Next]_vars
=============================================================================
