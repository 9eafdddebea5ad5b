----------------------------- MODULE AtlasWorkload -----------------------------
(***************************************************************************)
(* The workload commands of atlasctl: new, enable, disable, delete, list   *)
(* and status.  One command runs at a time and changes one file or         *)
(* directory per step; it may be killed or fail between any two steps, and *)
(* the operator may edit the workload directories between commands.  A     *)
(* dry run and a declined prompt change nothing.                           *)
(***************************************************************************)
EXTENDS AtlasGateway

CONSTANTS
  Workloads,         \* pairs <<group, app>>
  Extras,            \* manifests enable copies as they are
  Scaffolded,        \* the workload directories there are at the start
  PlatformFile,      \* the gateway.yaml of the platform, at the start
  NoRoute, PlatformRoute,
  Options,           \* the flags --force, --sync and --push as given
  MaxCommands, MaxEdits, MaxFaults  \* bounds

Group(w) == w[1]
App(w) == w[2]
Owners == Workloads \cup {NoRoute, PlatformRoute}

ASSUME WorkloadAssumption ==
  /\ Workloads \subseteq STRING \X Names
  /\ Scaffolded \subseteq Workloads
  /\ {"app.yaml", "gateway.yaml", ".secret-seed", "."} \cap Extras = {}
  /\ NoRoute \notin Workloads \cup {PlatformRoute} /\ PlatformRoute \notin Workloads
  /\ PlatformFile \in Seq(Line) /\ WellFormed(PlatformFile)
  /\ Options \subseteq [force : BOOLEAN, sync : BOOLEAN, push : BOOLEAN]
  /\ MaxCommands \in Nat /\ MaxEdits \in Nat /\ MaxFaults \in Nat

VARIABLES
  dirs,       \* workloads/<group>/<app>: its entries, {} when there is no directory
  manifest,   \* the workloads with a gitops/workloads/<group>/<app>.yaml
  resources,  \* gitops/workloads/<group>/<app>/resources: likewise
  routes,     \* gateway-routes/<app>.yaml: whose infra/gateway.yaml it copies
  gateway,    \* the lines of gateway.yaml
  index,      \* what git has staged of the four above
  head,       \* what git has committed of them
  pushed,     \* whether the remote has that commit
  cmd,        \* the command under way
  todo,       \* the files its loop still has to handle
  half,       \* history: workloads some enable or disable left half done
  served,     \* history: workloads whose last complete command enabled a gateway
  commands, edits, faults  \* history: what the bounds count

tree == <<dirs, manifest, resources, routes, gateway>>
git == <<index, head, pushed>>
bounds == <<commands, edits, faults>>
history == <<half, served>>
vars == <<tree, git, cmd, todo, history, bounds>>

Templates == Extras \cup {"app.yaml", "gateway.yaml"}
File == Templates \cup {".secret-seed"}

(* A directory holds the entry "." and its files. *)
NoDir == {}
Files(dir) == dir \ {"."}

Idle == [step |-> "idle"]
Steps == {"render", "manifest", "sync", "route", "listener", "commit", "push", "enabled",
          "unlisten", "unmanifest", "unresource", "unroute", "uncommit", "disabled", "erase"}
Command == [step : Steps, w : Workloads, gw : BOOLEAN, sync : BOOLEAN, push : BOOLEAN,
            ok : BOOLEAN]
Tracked == [manifest : SUBSET Workloads, resources : [Workloads -> SUBSET Extras],
            routes : [Names -> Owners], gateway : Seq(Line)]

TypeOK ==
  /\ dirs \in [Workloads -> SUBSET (File \cup {"."})]
  /\ manifest \subseteq Workloads
  /\ resources \in [Workloads -> SUBSET (Extras \cup {"."})]
  /\ routes \in [Names -> Owners]
  /\ gateway \in Seq(Line)
  /\ index \in Tracked /\ head \in Tracked /\ pushed \in BOOLEAN
  /\ cmd \in Command \cup {Idle}
  /\ todo \subseteq File
  /\ half \subseteq Workloads /\ served \subseteq Workloads
  /\ commands \in Nat /\ edits \in Nat /\ faults \in Nat

Init ==
  /\ dirs = [w \in Workloads |-> IF w \in Scaffolded THEN File \cup {"."} ELSE NoDir]
  /\ manifest = {}
  /\ resources = [w \in Workloads |-> NoDir]
  /\ routes = [a \in Names |-> IF a \in Listeners(PlatformFile) THEN PlatformRoute ELSE NoRoute]
  /\ gateway = PlatformFile
  /\ head = [manifest |-> {}, resources |-> [w \in Workloads |-> {}],
             routes |-> routes, gateway |-> PlatformFile]
  /\ index = head /\ pushed = TRUE
  /\ cmd = Idle /\ todo = {} /\ half = {} /\ served = {}
  /\ commands = 0 /\ edits = 0 /\ faults = 0

(* A command starts, having made its checks. *)
Start(step, w, gw, opt) ==
  /\ cmd = Idle
  /\ commands < MaxCommands
  /\ commands' = commands + 1
  /\ cmd' = [step |-> step, w |-> w, gw |-> gw, sync |-> opt.sync, push |-> opt.push,
             ok |-> TRUE]
  /\ UNCHANGED <<git, edits, faults>>

At(step) == cmd.step = step
Goto(step) == cmd' = [cmd EXCEPT !.step = step]

(* The command reports that it is complete; the workload stays half done   *)
(* when an error was passed over.                                          *)
Finish(step) ==
  /\ At(step)
  /\ half' = IF cmd.ok THEN half \ {cmd.w} ELSE half \cup {cmd.w}
  /\ served' = IF step = "enabled" /\ cmd.gw THEN served \cup {cmd.w} ELSE served \ {cmd.w}
  /\ cmd' = Idle
  /\ UNCHANGED <<tree, git, todo, bounds>>

-----------------------------------------------------------------------------
(* atlasctl new: the directory, the templates one by one, .secret-seed.    *)
New(w) ==
  /\ dirs[w] = NoDir
  /\ \E opt \in Options : Start("render", w, FALSE, opt)
  /\ dirs' = [dirs EXCEPT ![w] = {"."}]
  /\ todo' = Templates
  /\ UNCHANGED <<manifest, resources, routes, gateway, history>>

RenderTemplate(f) ==
  /\ At("render") /\ f \in todo
  /\ dirs' = [dirs EXCEPT ![cmd.w] = @ \cup {f}]
  /\ todo' = todo \ {f}
  /\ UNCHANGED <<manifest, resources, routes, gateway, git, cmd, history, bounds>>

WriteSecretSeed ==
  /\ At("render") /\ todo = {}
  /\ dirs' = [dirs EXCEPT ![cmd.w] = @ \cup {".secret-seed"}]
  /\ cmd' = Idle
  /\ UNCHANGED <<manifest, resources, routes, gateway, git, todo, history, bounds>>

-----------------------------------------------------------------------------
(* atlasctl enable.  With --force and no app.yaml the copy fails before    *)
(* anything is written.                                                    *)
Enable(w) ==
  /\ "app.yaml" \in dirs[w]
  /\ \E opt \in Options :
       /\ opt.force \/ w \notin manifest
       /\ Start("manifest", w, "gateway.yaml" \in dirs[w], opt)
  /\ UNCHANGED <<tree, todo, history>>

(* Mistake: everything in the directory is copied. *)
CopiedAll(w) == Files(dirs[w])

(* What is copied to resources: not app.yaml, .secret-seed or the gateway. *)
Copied(w) == dirs[w] \cap Extras

CopyManifest ==
  /\ At("manifest")
  /\ manifest' = manifest \cup {cmd.w}
  /\ half' = half \cup {cmd.w}
  /\ todo' = Copied(cmd.w)
  /\ Goto("sync")
  /\ UNCHANGED <<dirs, resources, routes, gateway, git, served, bounds>>

AfterFiles == IF cmd.sync THEN "commit" ELSE "enabled"
AfterRemoval == IF cmd.sync THEN "uncommit" ELSE "disabled"

(* The resources directory is made and filled, never emptied. *)
SyncResources(done) ==
  /\ At("sync")
  /\ IF todo = {} THEN done = {} ELSE \E f \in todo : done = {f}
  /\ resources' = [resources EXCEPT ![cmd.w] = @ \cup {"."} \cup done]
  /\ todo' = todo \ done
  /\ IF done # {} THEN UNCHANGED cmd ELSE Goto(IF cmd.gw THEN "route" ELSE AfterFiles)
  /\ UNCHANGED <<dirs, manifest, routes, gateway, git, history, bounds>>

CopyRoute ==
  /\ At("route")
  /\ routes' = [routes EXCEPT ![App(cmd.w)] = cmd.w]
  /\ Goto("listener")
  /\ UNCHANGED <<dirs, manifest, resources, gateway, git, todo, history, bounds>>

AddListener ==
  /\ At("listener")
  /\ gateway' = IF HasListenerInFile(gateway, App(cmd.w)) THEN gateway
                ELSE AppendListenerToFile(gateway, App(cmd.w))
  /\ Goto(AfterFiles)
  /\ UNCHANGED <<dirs, manifest, resources, routes, git, todo, history, bounds>>

Enabled == Finish("enabled")

-----------------------------------------------------------------------------
(* Mistake: the resources are forgotten. *)
StageManifestOnly(w) == [index EXCEPT !.manifest = @ \cup {w}]

(* git add -A of the paths of w, as enable lists them. *)
StageEnable(w) ==
  LET files == [index EXCEPT !.manifest = @ \cup {w}, !.resources[w] = Files(resources[w])]
  IN IF routes[App(w)] = NoRoute THEN files
     ELSE [files EXCEPT !.routes[App(w)] = routes[App(w)], !.gateway = gateway]

(* git add -A of the group's directory, the gateway file and the route, as *)
(* disable lists them: when a path is neither on disk nor tracked git adds *)
(* nothing, and the error is ignored.  The group's directory is on disk    *)
(* while anything of the group is, be it an empty directory.               *)
Siblings(w) == {v \in Workloads : Group(v) = Group(w)}

Known(w) ==
  \E v \in Siblings(w) :
    \/ v \in manifest \cup index.manifest
    \/ resources[v] \cup index.resources[v] # {}

CanStageDisable == Known(cmd.w) /\ (cmd.gw => index.routes[App(cmd.w)] # NoRoute)

StageDisable(w) ==
  [index EXCEPT
     !.manifest = (@ \ Siblings(w)) \cup (manifest \cap Siblings(w)),
     !.resources = [v \in Workloads |-> IF v \in Siblings(w) THEN Files(resources[v]) ELSE @[v]],
     !.gateway = gateway,
     !.routes[App(w)] = IF cmd.gw THEN routes[App(w)] ELSE @]

(* The commit of what is staged; its failure counts as "nothing to commit". *)
CommitAndMaybePush(staged, ok, done) ==
  /\ ok \/ faults < MaxFaults
  /\ faults' = IF ok THEN faults ELSE faults + 1
  /\ index' = staged
  /\ head' = IF ok THEN staged ELSE head
  /\ pushed' = (pushed /\ head' = head)
  /\ cmd' = [cmd EXCEPT !.step = IF cmd.push THEN "push" ELSE done, !.ok = @ /\ ok]
  /\ UNCHANGED <<tree, todo, history, commands, edits>>

CommitEnable(ok) == At("commit") /\ CommitAndMaybePush(StageEnable(cmd.w), ok, "enabled")

CommitDisable(ok) ==
  /\ At("uncommit")
  /\ CommitAndMaybePush(IF CanStageDisable THEN StageDisable(cmd.w) ELSE index, ok, "disabled")

Push ==
  /\ At("push")
  /\ pushed' = TRUE
  /\ Goto(IF cmd.w \in manifest THEN "enabled" ELSE "disabled")
  /\ UNCHANGED <<tree, index, head, todo, history, bounds>>

-----------------------------------------------------------------------------
(* atlasctl disable: the listener, the manifest, the resources, the route, *)
(* the commit.                                                             *)
Disable(w) ==
  /\ w \in manifest
  /\ \E opt \in Options : Start("unlisten", w, routes[App(w)] # NoRoute, opt)
  /\ UNCHANGED <<tree, todo, history>>

RemoveListener ==
  /\ At("unlisten")
  /\ gateway' = RemoveListenerFromFile(gateway, App(cmd.w))
  /\ half' = half \cup {cmd.w}
  /\ Goto("unmanifest")
  /\ UNCHANGED <<dirs, manifest, resources, routes, git, todo, served, bounds>>

RemoveManifest ==
  /\ At("unmanifest")
  /\ manifest' = manifest \ {cmd.w}
  /\ Goto("unresource")
  /\ UNCHANGED <<dirs, resources, routes, gateway, git, todo, history, bounds>>

(* Mistake: the directory is kept. *)
KeepResources(left) ==
  /\ At("unresource") /\ left = NoDir
  /\ Goto(IF cmd.gw THEN "unroute" ELSE AfterRemoval)
  /\ UNCHANGED <<tree, git, todo, history, bounds>>

(* RemoveAll may leave files behind, and its error is ignored.             *)
RemoveResources(left) ==
  /\ At("unresource")
  /\ left = NoDir \/ (left \subseteq resources[cmd.w] /\ "." \in left /\ faults < MaxFaults)
  /\ resources' = [resources EXCEPT ![cmd.w] = left]
  /\ faults' = IF left = NoDir THEN faults ELSE faults + 1
  /\ cmd' = [cmd EXCEPT !.step = IF cmd.gw THEN "unroute" ELSE AfterRemoval, !.ok = left = NoDir]
  /\ UNCHANGED <<dirs, manifest, routes, gateway, git, todo, history, commands, edits>>

(* Mistake: the route is kept. *)
KeepRoute == At("unroute") /\ Goto(AfterRemoval) /\ UNCHANGED <<tree, git, todo, history, bounds>>

RemoveRoute ==
  /\ At("unroute")
  /\ routes' = [routes EXCEPT ![App(cmd.w)] = NoRoute]
  /\ Goto(AfterRemoval)
  /\ UNCHANGED <<dirs, manifest, resources, gateway, git, todo, history, bounds>>

Disabled == Finish("disabled")

-----------------------------------------------------------------------------
(* Mistake: an enabled workload is deleted too. *)
DeleteEnabled(w) ==
  /\ dirs[w] # NoDir
  /\ \E opt \in Options : Start("erase", w, FALSE, opt)
  /\ UNCHANGED <<tree, todo, history>>

(* atlasctl delete: only what is not enabled, file by file. *)
Delete(w) ==
  /\ dirs[w] # NoDir /\ w \notin manifest
  /\ \E opt \in Options : Start("erase", w, FALSE, opt)
  /\ UNCHANGED <<tree, todo, history>>

Erase ==
  /\ At("erase")
  /\ \/ \E f \in Files(dirs[cmd.w]) :
          dirs' = [dirs EXCEPT ![cmd.w] = @ \ {f}] /\ UNCHANGED cmd
     \/ Files(dirs[cmd.w]) = {} /\ dirs' = [dirs EXCEPT ![cmd.w] = NoDir] /\ cmd' = Idle
  /\ UNCHANGED <<manifest, resources, routes, gateway, git, todo, history, bounds>>

-----------------------------------------------------------------------------
(* The command is killed, or a file operation, git add or git push fails.  *)
Stop ==
  /\ cmd # Idle /\ ~ At("enabled") /\ ~ At("disabled")
  /\ faults < MaxFaults
  /\ faults' = faults + 1
  /\ cmd' = Idle /\ todo' = {}
  /\ UNCHANGED <<tree, git, history, commands, edits>>

(* The owner edits the workload directory: a file comes or goes. *)
Edit(w, f) ==
  /\ cmd = Idle /\ dirs[w] # NoDir
  /\ edits < MaxEdits
  /\ edits' = edits + 1
  /\ dirs' = [dirs EXCEPT ![w] = IF f \in @ THEN @ \ {f} ELSE @ \cup {f}]
  /\ UNCHANGED <<manifest, resources, routes, gateway, git, cmd, todo, history, commands, faults>>

NewStep == (\E f \in Templates : RenderTemplate(f)) \/ WriteSecretSeed

EnableStep ==
  \/ CopyManifest \/ CopyRoute \/ AddListener \/ Enabled
  \/ \E done \in {{}} \cup {{f} : f \in Templates} : SyncResources(done)
  \/ \E ok \in BOOLEAN : CommitEnable(ok)

DisableStep ==
  \/ RemoveListener \/ RemoveManifest \/ RemoveRoute \/ Disabled
  \/ \E left \in SUBSET (Extras \cup {"."}) : RemoveResources(left)
  \/ \E ok \in BOOLEAN : CommitDisable(ok)

Next ==
  \/ \E w \in Workloads :
       \/ New(w) \/ Enable(w) \/ Disable(w) \/ Delete(w)
       \/ \E f \in Templates : Edit(w, f)
  \/ NewStep \/ EnableStep \/ DisableStep \/ Push \/ Erase \/ Stop

Spec == Init /\ [][Next]_vars

-----------------------------------------------------------------------------
(* atlasctl status, and list, which shows the directories with an app.yaml. *)
(* Of the features those whose files are in File: a policy, a gateway.yaml *)
(* outside infra and a monitoring rule are not among them.                 *)
Features(w) == {"secrets" : f \in dirs[w] \cap {".secret-seed"}}
                 \cup {"gateway" : f \in dirs[w] \cap {"gateway.yaml"}}
Status(w) == [features |-> Features(w),
              enabled |-> w \in manifest,
              listener |-> HasListenerInFile(gateway, App(w))]
List == [w \in {v \in Workloads : "app.yaml" \in dirs[v]} |-> Status(w)]

-----------------------------------------------------------------------------
(* The manifest of a workload is there only while its directory is: delete *)
(* never pulls the source away under an enabled workload.  The life of a   *)
(* workload is the one the help text describes, kills included.            *)
Life == [w \in Workloads |->
  IF w \in manifest THEN "enabled" ELSE IF dirs[w] = NoDir THEN "absent" ELSE "scaffolded"]
Contract == INSTANCE WorkloadContract WITH life <- Life
LifeFollowsContract == Contract!Spec

(* A workload that is neither enabled nor left half done has no resources  *)
(* in gitops: nothing would ever remove them.                              *)
NoResidue == \A w \in Workloads \ (manifest \cup half) : resources[w] = NoDir

(* Every route and every listener that is not the platform's belongs to a  *)
(* workload of that name that is enabled or was left half done.            *)
InUse(a) == \E w \in manifest \cup half : App(w) = a
RoutesInUse == \A a \in Names : routes[a] \in Workloads => InUse(a)
ListenersInUse == \A a \in Listeners(gateway) \ Listeners(PlatformFile) : InUse(a)

(* The gateway file stays a sequence of complete blocks, one per listener. *)
GatewayWellFormed == WellFormed(gateway)

(* A listener goes only when a workload of exactly that name is disabled.  *)
ListenerLeavesWithItsApp ==
  [][\A a \in Listeners(gateway) \ Listeners(gateway') :
       cmd.step = "unlisten" /\ App(cmd.w) = a]_vars

(* An enabled workload whose name is its own (no other workload has it, no *)
(* listener's name starts with it) has the route it brought and the        *)
(* listener that list reports, whatever happened before and whatever the   *)
(* commands on other workloads do.                                         *)
OwnName(w) ==
  /\ \A v \in Workloads : App(v) = App(w) => v = w
  /\ \A a \in Names : <<App(w), a>> \in Prefixes => a = App(w)
EnabledIsServed ==
  \A w \in served \ half :
    OwnName(w) =>
      /\ App(w) \in Listeners(gateway) /\ routes[App(w)] = w
      /\ w \in DOMAIN List => List[w].enabled /\ List[w].listener

(* A complete enable has put every manifest there is under resources; with *)
(* --sync it is committed, and a complete disable --sync is committed too  *)
(* unless the route it removed had never been.                             *)
CompleteIsCommitted ==
  /\ At("enabled") =>
       /\ Copied(cmd.w) \subseteq resources[cmd.w]
       /\ cmd.sync /\ cmd.ok =>
            /\ cmd.w \in head.manifest
            /\ head.resources[cmd.w] = Files(resources[cmd.w])
            /\ cmd.gw => head.routes[App(cmd.w)] = cmd.w /\ head.gateway = gateway
            /\ cmd.push => pushed
  /\ At("disabled") /\ cmd.sync /\ cmd.ok =>
       \/ cmd.w \notin head.manifest
       \/ cmd.gw /\ head.routes[App(cmd.w)] = NoRoute

=============================================================================
