------------------------------ MODULE AtlasConfig ------------------------------
(***************************************************************************)
(* Where atlasctl works (pkg/config, cmd/init.go): built-in settings, the  *)
(* overlay beside the binary and the user's config.yaml are merged and the *)
(* relative paths are resolved against the checkout one stands in.         *)
(***************************************************************************)
CONSTANTS
  Operators,        \* people, each with a home directory
  Repos,            \* checkouts of the repository
  Outside,          \* a working directory in none of them
  Unset, Relative,  \* a setting left out; the built-in relative path
  PathSettings,     \* templates, scaffold, workloads_dir, ...
  Overlay           \* the settings in atlasctl.yaml beside the binary; an absolute
                    \* path is named by the checkout it leads into

Values == Repos \cup {Unset, Relative}
Config == [PathSettings -> Values]

ASSUME ConfigAssumption ==
  /\ Outside \notin Repos
  /\ Unset \notin Repos \cup {Relative} /\ Relative \notin Repos
  /\ Overlay \in Config
  /\ "scaffold" \in PathSettings

VARIABLE user  \* each operator's ~/.config/atlasctl/config.yaml

NoConfig == [s \in PathSettings |-> Unset]
Default == [s \in PathSettings |-> Relative]

ConfigInit == user = [o \in Operators |-> NoConfig]

(* A setting that is given replaces the one below it. *)
Merge(base, over) ==
  [s \in PathSettings |-> IF over[s] # Unset THEN over[s] ELSE base[s]]

(* The root is looked for from the working directory up; without one the   *)
(* paths stay as they are.                                                 *)
ResolvePaths(cfg, cwd) ==
  [s \in PathSettings |-> IF cfg[s] = Relative /\ cwd \in Repos THEN cwd ELSE cfg[s]]

(* config.Load; noUser says that ATLASCTL_NO_USER_CONFIG is set. *)
Load(o, cwd, noUser) ==
  LET base == Merge(Default, Overlay)
  IN ResolvePaths(IF noUser THEN base ELSE Merge(base, user[o]), cwd)

(* Mistake: only the directories the scaffolding needs are saved. *)
InitScaffold(o, cwd, noUser) ==
  /\ cwd \in Repos
  /\ user' = [user EXCEPT ![o] =
       [s \in PathSettings |-> IF s = "scaffold" THEN Load(o, cwd, noUser)[s] ELSE @[s]]]

(* atlasctl init, in a checkout: all the paths as loaded, so those of an   *)
(* earlier init stay unless the user config is disabled.                   *)
InitCommand(o, cwd, noUser) ==
  /\ cwd \in Repos
  /\ user' = [user EXCEPT ![o] = Load(o, cwd, noUser)]

(* The overlay leaves the paths relative, or names one checkout for all.   *)
OverlayInOnePlace ==
  \/ \A s \in PathSettings : Overlay[s] \in {Unset, Relative}
  \/ \E r \in Repos : \A s \in PathSettings : Overlay[s] = r

(* A command finds all its paths in one checkout, never the workloads of   *)
(* one and the gateway of another, unless the overlay takes them apart.    *)
OneCheckout ==
  OverlayInOnePlace =>
  \A o \in Operators, cwd \in Repos \cup {Outside}, noUser \in BOOLEAN :
    \E place \in Repos \cup {Relative} :
      \A s \in PathSettings : Load(o, cwd, noUser)[s] = place

=============================================================================
