----------------------------- MODULE SealContract -----------------------------
(***************************************************************************)
(* What Seal promises the owner of a document: a POST makes it pending; an *)
(* attempt may fail and a later one succeed; "completed" is final.         *)
(***************************************************************************)
CONSTANT Docs
VARIABLE view   \* what GET /documents/{id} shows of each document

Init == view = [d \in Docs |-> "none"]

Move(d, from, to) ==
  /\ view[d] \in from
  /\ view' = [view EXCEPT ![d] = to]

Accept(d) == Move(d, {"none"}, "pending")
Disappoint(d) == Move(d, {"pending"}, "failed")
Complete(d) == Move(d, {"pending", "failed"}, "completed")

Next == \E d \in Docs : Accept(d) \/ Disappoint(d) \/ Complete(d)

Spec == Init /\ [][Next]_view

=============================================================================
