------------------------------ MODULE MCAtlasSeed ------------------------------
(* An instance of AtlasSeed for TLC: two groups with an application of the  *)
(* same name, the first with a mapping of two paths and a workload of its   *)
(* own beside it; two checkouts, the second without the first's new seeds.  *)
EXTENDS AtlasSeed, TLC

MCWorkloads == {<<"team-a", "web">>, <<"team-b", "web">>, <<"team-a", "api">>}
MCEntries == [w \in MCWorkloads |->
  IF w = <<"team-a", "web">> THEN {"main", "cert"} ELSE {"main"}]
MCSettings == {"scaffold", "workloads_dir"}
MCOverlay == [s \in MCSettings |-> IF s = "scaffold" THEN Relative ELSE Unset]
MCSeedFiles == [r \in Repos |-> [w \in MCWorkloads |->
  IF r = "here" THEN 1 ELSE IF w = <<"team-b", "web">> THEN NoFile ELSE Blank]]

MCSymmetry == Permutations(Operators)

=============================================================================
