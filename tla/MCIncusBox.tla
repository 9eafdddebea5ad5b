------------------------------ MODULE MCIncusBox ------------------------------
(* An instance of IncusBox for TLC: the working data is a directory, a link *)
(* to elsewhere, a plain file or missing when the scripts are first run.    *)
EXTENDS IncusBox

MCPlacements ==
  {[d \in Dirs |-> IF d = "incus" THEN "dir" ELSE p] : p \in {"absent", "dir", "stray", "other"}}

=============================================================================
