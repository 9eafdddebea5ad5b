--------------------------- MODULE WorkloadContract ---------------------------
(***************************************************************************)
(* The life of a workload as the tool's help describes it: it is           *)
(* scaffolded, promoted, taken back and, only then, deleted.               *)
(***************************************************************************)
CONSTANT Workloads
VARIABLE life

Init == life \in [Workloads -> {"absent", "scaffolded", "enabled"}]

Move(w, from, to) ==
  /\ life[w] = from
  /\ life' = [life EXCEPT ![w] = to]

Scaffold(w) == Move(w, "absent", "scaffolded")
Promote(w) == Move(w, "scaffolded", "enabled")
TakeBack(w) == Move(w, "enabled", "scaffolded")
Discard(w) == Move(w, "scaffolded", "absent")

Next == \E w \in Workloads : Scaffold(w) \/ Promote(w) \/ TakeBack(w) \/ Discard(w)

Spec == Init /\ [][Next]_life

=============================================================================
