---------------------------- MODULE AtlasSeedProofs ----------------------------
(***************************************************************************)
(* Theorems about seeding and its configuration, for any number of         *)
(* operators, checkouts, workloads and runs, and any number of failures.   *)
(***************************************************************************)
EXTENDS AtlasSeed, TLAPS

-----------------------------------------------------------------------------
(* The configuration.  A user's config.yaml is empty or names one checkout. *)
Saved(o) ==
  user[o] = NoConfig \/ \E r \in Repos : user[o] = [s \in PathSettings |-> r]
ConfigInv ==
  user \in [Operators -> Config] /\ (OverlayInOnePlace => \A o \in Operators : Saved(o))

(* The built-in settings and the overlay leave every path relative, or in  *)
(* one checkout, and so all paths end up in one place: in a checkout if    *)
(* one stands in one.                                                      *)
LEMMA LoadIsUniform ==
  ASSUME NEW o \in Operators, NEW cwd \in Repos \cup {Outside}, NEW noUser \in BOOLEAN, Saved(o),
         OverlayInOnePlace
  PROVE  \E place \in Repos \cup {Relative} :
           /\ Load(o, cwd, noUser) = [s \in PathSettings |-> place]
           /\ cwd \in Repos => place \in Repos
<1>1. PICK base \in Repos \cup {Relative} :
        Merge(Default, Overlay) = [s \in PathSettings |-> base]
  <2>1. CASE \A s \in PathSettings : Overlay[s] \in {Unset, Relative}
    <3>1. Merge(Default, Overlay) = [s \in PathSettings |-> Relative]
      BY <2>1, ConfigAssumption DEF Merge, Default
    <3> QED BY <3>1
  <2>2. ASSUME NEW r \in Repos, \A s \in PathSettings : Overlay[s] = r
        PROVE  Merge(Default, Overlay) = [s \in PathSettings |-> r]
    BY <2>2, ConfigAssumption DEF Merge, Default
  <2> QED BY <2>1, <2>2 DEF OverlayInOnePlace
<1>2. Merge(Merge(Default, Overlay), user[o]) = [s \in PathSettings |-> base]
      \/ \E r \in Repos : Merge(Merge(Default, Overlay), user[o]) = [s \in PathSettings |-> r]
  <2>1. CASE user[o] = NoConfig
    BY <1>1, <2>1 DEF Merge, NoConfig
  <2>2. CASE \E r \in Repos : user[o] = [s \in PathSettings |-> r]
    <3>1. PICK r \in Repos : user[o] = [s \in PathSettings |-> r]
      BY <2>2
    <3>2. Merge(Merge(Default, Overlay), user[o]) = [s \in PathSettings |-> r]
      BY <1>1, <3>1, ConfigAssumption DEF Merge
    <3> QED BY <3>2
  <2> QED BY <2>1, <2>2 DEF Saved
<1>3. ResolvePaths([s \in PathSettings |-> Relative], cwd)
        = [s \in PathSettings |-> IF cwd \in Repos THEN cwd ELSE Relative]
  BY DEF ResolvePaths
<1>4. ASSUME NEW r \in Repos
      PROVE  ResolvePaths([s \in PathSettings |-> r], cwd) = [s \in PathSettings |-> r]
  BY ConfigAssumption DEF ResolvePaths
<1>5. \E place \in Repos \cup {Relative} :
        /\ ResolvePaths([s \in PathSettings |-> base], cwd) = [s \in PathSettings |-> place]
        /\ cwd \in Repos => place \in Repos
  <2>1. CASE base = Relative /\ cwd \in Repos
    BY <1>3, <2>1
  <2>2. CASE base = Relative /\ cwd \notin Repos
    BY <1>3, <2>2
  <2>3. CASE base \in Repos
    BY <1>4, <2>3
  <2> QED BY <2>1, <2>2, <2>3
<1> QED BY <1>1, <1>2, <1>4, <1>5 DEF Load

(* Whatever the overlay, init saves settings.                              *)
LEMMA LoadType ==
  ASSUME user \in [Operators -> Config], NEW o \in Operators, NEW cwd, NEW noUser \in BOOLEAN
  PROVE  Load(o, cwd, noUser) \in Config
<1>1. ASSUME NEW a \in Config, NEW b \in Config PROVE Merge(a, b) \in Config
  BY DEF Merge, Config
<1>2. Default \in Config
  BY DEF Default, Config, Values
<1>3. ASSUME NEW a \in Config PROVE ResolvePaths(a, cwd) \in Config
  BY DEF ResolvePaths, Config, Values
<1> QED BY <1>1, <1>2, <1>3, ConfigAssumption DEF Load

LEMMA InitCommandSaves ==
  ASSUME ConfigInv, NEW o \in Operators, NEW cwd \in Repos \cup {Outside},
         NEW noUser \in BOOLEAN, InitCommand(o, cwd, noUser)
  PROVE  ConfigInv'
<1>1. cwd \in Repos /\ user' = [user EXCEPT ![o] = Load(o, cwd, noUser)]
  BY DEF InitCommand
<1>2. user' \in [Operators -> Config]
  BY <1>1, LoadType DEF ConfigInv
<1>3. ASSUME OverlayInOnePlace, NEW p \in Operators PROVE Saved(p)'
  <2>1. PICK place \in Repos \cup {Relative} :
          /\ Load(o, cwd, noUser) = [s \in PathSettings |-> place]
          /\ cwd \in Repos => place \in Repos
    BY <1>3, LoadIsUniform DEF ConfigInv
  <2>2. PICK r \in Repos : user' = [user EXCEPT ![o] = [s \in PathSettings |-> r]]
    BY <1>1, <2>1
  <2>3. CASE p = o
    BY <2>2, <2>3 DEF ConfigInv, Saved
  <2>4. CASE p # o
    BY <1>3, <2>2, <2>4 DEF ConfigInv, Saved
  <2> QED BY <2>3, <2>4
<1> QED BY <1>2, <1>3 DEF ConfigInv, OverlayInOnePlace

(* Whatever init was run where, a command works in one checkout. *)
LEMMA ConfigInvImpliesOneCheckout == ConfigInv => OneCheckout
<1> SUFFICES ASSUME ConfigInv, OverlayInOnePlace, NEW o \in Operators,
                    NEW cwd \in Repos \cup {Outside},
                    NEW noUser \in BOOLEAN
             PROVE  \E place \in Repos \cup {Relative} :
                      \A s \in PathSettings : Load(o, cwd, noUser)[s] = place
  BY DEF OneCheckout
<1> QED BY LoadIsUniform DEF ConfigInv

-----------------------------------------------------------------------------
(* The seed.  A command under way leaves the other runs alone, but for a   *)
(* seed that starts beside them.                                           *)
LEMMA RunShape ==
  ASSUME TypeOK, NEW o \in Operators, run[o] # Idle
  PROVE  run[o] \in Run
  BY DEF TypeOK

LEMMA AtShape ==
  ASSUME TypeOK, NEW o \in Operators, NEW step \in Steps, At(o, step)
  PROVE  run[o] \in Run /\ run[o] # Idle
<1>1. run[o].pc \in Steps
  BY DEF At
<1>2. Idle.pc = "idle"
  BY DEF Idle
<1>3. run[o] # Idle
  BY <1>1, <1>2 DEF Steps
<1> QED BY <1>3, RunShape

LEMMA InitType == Init => TypeOK
  BY SeedAssumption DEF Init, ConfigInit, NoConfig, TypeOK, Config, Values, Idle

(* A kubectl command, a refused or broken run, a killed one: the operator's *)
(* run moves on or ends.                                                    *)
Moves(o, step) == run' = [run EXCEPT ![o] = [@ EXCEPT !.pc = step]]
Ends(o) == run' = [run EXCEPT ![o] = Idle]

LEMMA MovesType ==
  ASSUME TypeOK, NEW o \in Operators, run[o] # Idle, NEW step \in Steps,
         Moves(o, step) \/ Ends(o)
  PROVE  run' \in [Operators -> Run \cup {Idle}]
<1>1. run[o] \in Run
  BY RunShape
<1>2. [run[o] EXCEPT !.pc = step] \in Run
  BY <1>1 DEF Run
<1> QED BY <1>2 DEF TypeOK, Moves, Ends

LEMMA ProceedType ==
  ASSUME TypeOK, NEW o \in Operators, NEW heard \in BOOLEAN, NEW step \in Steps, run[o] # Idle,
         Proceed(o, heard, step)
  PROVE  /\ run' \in [Operators -> Run \cup {Idle}]
         /\ faults' \in Nat /\ runs' = runs /\ edits' = edits /\ intact' = intact
         /\ user' = user /\ seedFile' = seedFile /\ broken' = broken
         /\ (heard /\ Moves(o, step)) \/ (~ heard /\ Ends(o))
<1>1. (heard /\ Moves(o, step)) \/ (~ heard /\ Ends(o))
  BY DEF Proceed, Moves, Ends
<1>2. run' \in [Operators -> Run \cup {Idle}]
  BY <1>1, MovesType
<1> QED BY <1>1, <1>2 DEF Proceed, TypeOK, files

LEMMA SecretType ==
  ASSUME TypeOK, NEW o \in Operators, run[o] # Idle
  PROVE  Secret(o) \in Secrets /\ run[o].w \in Workloads /\ Role(o) \in Apps
  BY RunShape DEF Run, Secret, Role, Apps

LEMMA CommandType ==
  ASSUME TypeOK, NEW o \in Operators, NEW heard \in BOOLEAN,
         \/ CreateDatabase(o, heard) \/ SetPassword(o, heard) \/ Grant(o, heard)
         \/ MakeBucket(o, heard) \/ AddUser(o, heard)
  PROVE  TypeOK'
<1>1. run[o] # Idle
  BY AtShape DEF CreateDatabase, SetPassword, Grant, MakeBucket, AddUser, Steps
<1>2. Secret(o) \in Secrets /\ run[o].w \in Workloads /\ Role(o) \in Apps
  BY <1>1, SecretType
<1>3. \E step \in Steps : Proceed(o, heard, step)
  BY DEF CreateDatabase, SetPassword, Grant, MakeBucket, AddUser, Steps
<1>4. /\ run' \in [Operators -> Run \cup {Idle}]
      /\ faults' \in Nat /\ runs' = runs /\ edits' = edits /\ intact' = intact
      /\ user' = user /\ seedFile' = seedFile /\ broken' = broken
  BY <1>1, <1>3, ProceedType
<1>5. CASE CreateDatabase(o, heard)
  BY <1>2, <1>4, <1>5 DEF CreateDatabase, TypeOK, s3
<1>6. CASE SetPassword(o, heard)
  BY <1>2, <1>4, <1>6 DEF SetPassword, Password, TypeOK, s3
<1>7. CASE Grant(o, heard)
  BY <1>2, <1>4, <1>7 DEF Grant, TypeOK, s3
<1>8. CASE MakeBucket(o, heard)
  BY <1>2, <1>4, <1>8 DEF MakeBucket, TypeOK, db
<1>9. CASE AddUser(o, heard)
  BY <1>2, <1>4, <1>9 DEF AddUser, TypeOK, db
<1> QED BY <1>5, <1>6, <1>7, <1>8, <1>9

LEMMA PassedOverType ==
  ASSUME TypeOK, NEW o \in Operators, NEW ok \in BOOLEAN,
         RemoveUser(o, ok) \/ AttachPolicy(o, ok)
  PROVE  TypeOK'
<1>1. run[o] # Idle /\ run[o] \in Run
  BY AtShape DEF RemoveUser, AttachPolicy, Steps
<1>2. Secret(o) \in Secrets
  BY <1>1, SecretType
<1>3. run' \in [Operators -> Run \cup {Idle}]
  <2>1. CASE RemoveUser(o, ok)
    <3>1. Moves(o, "add")
      BY <2>1 DEF RemoveUser, Moves
    <3> QED BY <1>1, <3>1, MovesType DEF Steps
  <2>2. CASE AttachPolicy(o, ok)
    <3>1. [run[o] EXCEPT !.pc = "vault", !.alone = @ /\ ok] \in Run
      BY <1>1 DEF Run, Steps
    <3> QED BY <2>2, <3>1 DEF AttachPolicy, TypeOK
  <2> QED BY <2>1, <2>2
<1>4. s3Users' \subseteq Secrets /\ attached' \subseteq Secrets /\ faults' \in Nat
  BY <1>2 DEF RemoveUser, AttachPolicy, TypeOK
<1> QED BY <1>3, <1>4 DEF RemoveUser, AttachPolicy, TypeOK, files, db

LEMMA EndType ==
  ASSUME TypeOK, NEW o \in Operators, Abort(o) \/ AddNobody(o) \/ BrokenMapping(o)
  PROVE  TypeOK'
<1>1. run' = [run EXCEPT ![o] = Idle] /\ faults' \in Nat
  BY DEF Abort, AddNobody, BrokenMapping, bounds, TypeOK
<1> QED BY <1>1 DEF Abort, AddNobody, BrokenMapping, bounds, TypeOK, files, db, s3

LEMMA WriteVaultType ==
  ASSUME TypeOK, NEW o \in Operators, NEW kind \in Kinds, NEW heard \in BOOLEAN,
         WriteVault(o, kind, heard)
  PROVE  TypeOK'
<1>1. run[o] # Idle /\ run[o] \in Run
  BY AtShape DEF WriteVault, Steps
<1>2. Secret(o) \in Secrets /\ run[o].w \in Workloads /\ Role(o) \in Apps
  BY <1>1, SecretType
<1>3. [run[o] EXCEPT !.todo = run[o].todo \ {kind}] \in Run
  BY <1>1 DEF Run
<1>4. run' \in [Operators -> Run \cup {Idle}]
  BY <1>3 DEF WriteVault, TypeOK
<1>5. intact' \in [Apps -> Workloads \cup {NoSecret}]
  BY <1>2 DEF WriteVault, TypeOK
<1>6. vault' \in [Workloads \X Kinds -> Secrets \cup {NoSecret}]
  BY <1>2 DEF WriteVault, VaultPath, TypeOK
<1>7. faults' \in Nat
  BY DEF WriteVault, TypeOK
<1> QED BY <1>4, <1>5, <1>6, <1>7 DEF WriteVault, TypeOK, files, db, s3

LEMMA SeedType ==
  ASSUME TypeOK, NEW o \in Operators, NEW w \in Workloads, NEW cwd \in Repos \cup {Outside},
         NEW noUser \in BOOLEAN, NEW force \in BOOLEAN, Seed(o, w, cwd, noUser, force)
  PROVE  TypeOK'
<1> DEFINE checkout == Load(o, cwd, noUser)["scaffold"]
<1>1. checkout \in Repos /\ seedFile[checkout][w] \in Versions \cup {Blank}
  BY DEF Seed, Readable, TypeOK
<1>2. <<w, seedFile[checkout][w]>> \in Secrets /\ Entries[w] \subseteq {"main", "cert"}
  BY <1>1, SeedAssumption DEF Secrets
<1> HIDE DEF checkout
<1>3. ASSUME NEW p \in Operators, run[p] # Idle
      PROVE  [run[p] EXCEPT !.alone = FALSE] \in Run
  BY <1>3, RunShape DEF Run
<1>4. run' \in [Operators -> Run \cup {Idle}]
  <2> DEFINE others == {p \in Operators : Busy(p, App(w))}
  <2>1. [pc |-> "database", w |-> w, secret |-> <<w, seedFile[checkout][w]>>,
         todo |-> Entries[w], alone |-> others = {}] \in Run
    BY <1>2 DEF Run, Steps
  <2>2. \A p \in others : [run[p] EXCEPT !.alone = FALSE] \in Run
    BY <1>3 DEF Busy
  <2>3. run' = [p \in Operators |->
          IF p = o THEN [pc |-> "database", w |-> w, secret |-> <<w, seedFile[checkout][w]>>,
                         todo |-> Entries[w], alone |-> others = {}]
          ELSE IF p \in others THEN [run[p] EXCEPT !.alone = FALSE] ELSE run[p]]
    BY DEF Seed, checkout
  <2> HIDE DEF others
  <2> QED BY <2>1, <2>2, <2>3 DEF TypeOK
<1>5. intact' \in [Apps -> Workloads \cup {NoSecret}] /\ runs' \in Nat
  BY DEF Seed, TypeOK, Apps
<1>6. UNCHANGED <<files, db, s3, vault, used, edits, faults>>
  BY DEF Seed
<1> QED BY <1>4, <1>5, <1>6 DEF TypeOK, files, db, s3

LEMMA FileType ==
  ASSUME TypeOK,
         \/ \E w \in Workloads : EditMapping(w)
         \/ \E w \in Workloads, r \in Repos, v \in Versions \cup {Blank, NoFile} :
              EditSeedFile(r, w, v)
  PROVE  TypeOK'
<1>1. CASE \E w \in Workloads : EditMapping(w)
  BY <1>1 DEF EditMapping, TypeOK, db, s3
<1>2. CASE \E w \in Workloads, r \in Repos, v \in Versions \cup {Blank, NoFile} :
             EditSeedFile(r, w, v)
  <2>1. seedFile' \in [Repos -> [Workloads -> Versions \cup {Blank, NoFile}]]
    BY <1>2 DEF EditSeedFile, TypeOK
  <2> QED BY <1>2, <2>1 DEF EditSeedFile, TypeOK, db, s3
<1> QED BY <1>1, <1>2

LEMMA InitConfigType ==
  ASSUME TypeOK, ConfigInv, NEW o \in Operators, NEW cwd \in Repos \cup {Outside},
         NEW noUser \in BOOLEAN, InitConfig(o, cwd, noUser)
  PROVE  TypeOK' /\ ConfigInv'
<1>1. ConfigInv'
  BY InitCommandSaves DEF InitConfig
<1> QED BY <1>1 DEF InitConfig, ConfigInv, TypeOK, db, s3

-----------------------------------------------------------------------------
(* The steps of a seed, and the others.                                     *)
Elsewhere ==
  \/ \E w \in Workloads : EditMapping(w)
  \/ \E w \in Workloads, r \in Repos, v \in Versions \cup {Blank, NoFile} : EditSeedFile(r, w, v)
  \/ \E o \in Operators, cwd \in Repos \cup {Outside}, noUser \in BOOLEAN :
       InitConfig(o, cwd, noUser)
Starts ==
  \E o \in Operators, w \in Workloads, cwd \in Repos \cup {Outside}, noUser, force \in BOOLEAN :
    Seed(o, w, cwd, noUser, force)

LEMMA Cases ==
  ASSUME [Next]_vars
  PROVE  Elsewhere \/ Starts \/ (\E o \in Operators : SeedStep(o)) \/ UNCHANGED vars
  BY DEF Next, Elsewhere, Starts

LEMMA StepType ==
  ASSUME TypeOK, ConfigInv, [Next]_vars
  PROVE  TypeOK' /\ ConfigInv'
<1>1. CASE Elsewhere
  <2>1. CASE \E o \in Operators, cwd \in Repos \cup {Outside}, noUser \in BOOLEAN :
               InitConfig(o, cwd, noUser)
    BY <2>1, InitConfigType
  <2>2. CASE ~ \E o \in Operators, cwd \in Repos \cup {Outside}, noUser \in BOOLEAN :
                 InitConfig(o, cwd, noUser)
    <3>1. TypeOK'
      BY <1>1, <2>2, FileType DEF Elsewhere
    <3>2. user' = user
      BY <1>1, <2>2 DEF Elsewhere, EditMapping, EditSeedFile
    <3> QED BY <3>1, <3>2 DEF ConfigInv, Saved
  <2> QED BY <2>1, <2>2
<1>2. CASE Starts
  <2>1. TypeOK'
    BY <1>2, SeedType DEF Starts
  <2>2. user' = user
    BY <1>2 DEF Starts, Seed, files
  <2> QED BY <2>1, <2>2 DEF ConfigInv, Saved
<1>3. ASSUME NEW o \in Operators, SeedStep(o) PROVE TypeOK' /\ ConfigInv'
  <2>1. TypeOK'
    BY <1>3, CommandType, PassedOverType, EndType, WriteVaultType DEF SeedStep
  <2>2. user' = user
    BY <1>3 DEF SeedStep, Abort, AddNobody, BrokenMapping, CreateDatabase, SetPassword, Grant,
                MakeBucket, RemoveUser, AddUser, AttachPolicy, WriteVault, Proceed, files
  <2> QED BY <2>1, <2>2 DEF ConfigInv, Saved
<1>4. CASE UNCHANGED vars
  BY <1>4 DEF vars, files, db, s3, bounds, TypeOK, ConfigInv, Saved
<1> QED BY <1>1, <1>2, <1>3, <1>4, Cases

THEOREM TypeCorrect == Spec => []TypeOK
<1>1. Init => TypeOK /\ ConfigInv
  <2>1. Init => ConfigInv
    BY DEF Init, ConfigInit, ConfigInv, Saved, Config, Values, NoConfig
  <2> QED BY <2>1, InitType
<1>2. TypeOK /\ ConfigInv /\ [Next]_vars => TypeOK' /\ ConfigInv'
  BY StepType
<1> QED BY <1>1, <1>2, PTL DEF Spec

(* A command finds all its paths in one checkout, whatever operators ran   *)
(* atlasctl init in whichever checkouts: the configuration never mixes the *)
(* workloads of one with the gateway of another.                           *)
THEOREM PathsInOneCheckout == Spec => []OneCheckout
<1>1. Init => TypeOK /\ ConfigInv
  <2>1. Init => ConfigInv
    BY DEF Init, ConfigInit, ConfigInv, Saved, Config, Values, NoConfig
  <2> QED BY <2>1, InitType
<1>2. TypeOK /\ ConfigInv /\ [Next]_vars => TypeOK' /\ ConfigInv'
  BY StepType
<1>3. ConfigInv => OneCheckout
  BY ConfigInvImpliesOneCheckout
<1> QED BY <1>1, <1>2, <1>3, PTL DEF Spec

-----------------------------------------------------------------------------
(* How far a run has come, and what it has used by then; what is in Vault  *)
(* under a workload is a secret of that workload.                          *)
Progress(o) ==
  run[o] # Idle =>
    /\ run[o].secret[1] = run[o].w
    /\ run[o].pc # "vault" => run[o].todo = Entries[run[o].w]
    /\ run[o].todo \subseteq Entries[run[o].w] /\ run[o].todo # {}
    /\ run[o].pc \notin {"database", "role"} => run[o].secret \in used.db
    /\ run[o].pc \in {"attach", "vault"} => run[o].secret \in used.s3
OwnVault == \A p \in DOMAIN vault : vault[p] # NoSecret => vault[p][1] = p[1]

VaultInv == TypeOK /\ ConfigInv /\ (\A o \in Operators : Progress(o)) /\ OwnVault /\ VaultIsLast

(* Nothing that was used is forgotten. *)
LEMMA UsedGrows ==
  ASSUME TypeOK, [Next]_vars
  PROVE  used.db \subseteq used'.db /\ used.s3 \subseteq used'.s3
<1>0. used \in [db : SUBSET Secrets, s3 : SUBSET Secrets]
  BY DEF TypeOK
<1>1. CASE Elsewhere \/ Starts \/ UNCHANGED vars
  BY <1>1 DEF Elsewhere, Starts, EditMapping, EditSeedFile, InitConfig, Seed, vars
<1>2. ASSUME NEW o \in Operators, SeedStep(o)
      PROVE  used.db \subseteq used'.db /\ used.s3 \subseteq used'.s3
  <2>1. CASE \E ok \in BOOLEAN : SetPassword(o, ok)
    BY <1>0, <2>1 DEF SetPassword
  <2>2. CASE \E ok \in BOOLEAN : AddUser(o, ok)
    BY <1>0, <2>2 DEF AddUser
  <2>3. CASE used' = used
    BY <2>3
  <2> QED BY <1>2, <2>1, <2>2, <2>3 DEF SeedStep, Abort, AddNobody, BrokenMapping,
         CreateDatabase, Grant, MakeBucket, RemoveUser, AttachPolicy, WriteVault
<1> QED BY <1>1, <1>2, Cases

(* The run of o after a step of o: it has ended, or moved on. *)
LEMMA OwnStep ==
  ASSUME VaultInv, NEW o \in Operators, SeedStep(o)
  PROVE  Progress(o)'
<1>1. SUFFICES ASSUME run'[o] # Idle PROVE Progress(o)'
  BY DEF Progress
<1>2. /\ Progress(o) /\ TypeOK
      /\ used \in [db : SUBSET Secrets, s3 : SUBSET Secrets]
      /\ run \in [Operators -> Run \cup {Idle}]
  BY DEF VaultInv, TypeOK
<1>3. ASSUME NEW ok \in BOOLEAN, NEW step \in Steps, Proceed(o, ok, step)
      PROVE  run'[o] = [run[o] EXCEPT !.pc = step]
  BY <1>1, <1>2, <1>3 DEF Proceed
<1>4. CASE Abort(o) \/ AddNobody(o) \/ BrokenMapping(o)
  BY <1>1, <1>2, <1>4 DEF Abort, AddNobody, BrokenMapping
<1>5. CASE \E ok \in BOOLEAN : CreateDatabase(o, ok)
  <2>1. run[o] \in Run /\ run[o] # Idle /\ run[o].pc = "database"
    BY <1>2, <1>5, AtShape DEF CreateDatabase, Steps, At
  <2>2. run'[o] = [run[o] EXCEPT !.pc = "role"] /\ used' = used
    BY <1>3, <1>5 DEF CreateDatabase, Steps
  <2> QED BY <1>2, <2>1, <2>2 DEF Progress, Run
<1>6. CASE \E ok \in BOOLEAN : SetPassword(o, ok)
  <2>1. run[o] \in Run /\ run[o] # Idle /\ run[o].pc = "role"
    BY <1>2, <1>6, AtShape DEF SetPassword, Steps, At
  <2>2. run'[o] = [run[o] EXCEPT !.pc = "grant"] /\ used' = [used EXCEPT !.db = @ \cup {Secret(o)}]
    BY <1>3, <1>6 DEF SetPassword, Steps
  <2> QED BY <1>2, <2>1, <2>2 DEF Progress, Run, Secret
<1>7. CASE \E ok \in BOOLEAN : Grant(o, ok)
  <2>1. run[o] \in Run /\ run[o] # Idle /\ run[o].pc = "grant"
    BY <1>2, <1>7, AtShape DEF Grant, Steps, At
  <2>2. run'[o] = [run[o] EXCEPT !.pc = "bucket"] /\ used' = used
    BY <1>3, <1>7 DEF Grant, Steps
  <2> QED BY <1>2, <2>1, <2>2 DEF Progress, Run
<1>8. CASE \E ok \in BOOLEAN : MakeBucket(o, ok)
  <2>1. run[o] \in Run /\ run[o] # Idle /\ run[o].pc = "bucket"
    BY <1>2, <1>8, AtShape DEF MakeBucket, Steps, At
  <2>2. run'[o] = [run[o] EXCEPT !.pc = "remove"] /\ used' = used
    BY <1>3, <1>8 DEF MakeBucket, Steps
  <2> QED BY <1>2, <2>1, <2>2 DEF Progress, Run
<1>9. CASE \E ok \in BOOLEAN : RemoveUser(o, ok)
  <2>1. run[o] \in Run /\ run[o] # Idle /\ run[o].pc = "remove"
    BY <1>2, <1>9, AtShape DEF RemoveUser, Steps, At
  <2>2. run'[o] = [run[o] EXCEPT !.pc = "add"] /\ used' = used
    BY <1>2, <1>9 DEF RemoveUser
  <2> QED BY <1>2, <2>1, <2>2 DEF Progress, Run
<1>10. CASE \E ok \in BOOLEAN : AddUser(o, ok)
  <2>1. run[o] \in Run /\ run[o] # Idle /\ run[o].pc = "add"
    BY <1>2, <1>10, AtShape DEF AddUser, Steps, At
  <2>2. run'[o] = [run[o] EXCEPT !.pc = "attach"] /\ used' = [used EXCEPT !.s3 = @ \cup {Secret(o)}]
    BY <1>3, <1>10 DEF AddUser, Steps
  <2> QED BY <1>2, <2>1, <2>2 DEF Progress, Run, Secret
<1>11. CASE \E ok \in BOOLEAN : AttachPolicy(o, ok)
  <2>1. run[o] \in Run /\ run[o] # Idle /\ run[o].pc = "attach"
    BY <1>2, <1>11, AtShape DEF AttachPolicy, Steps, At
  <2>2. PICK ok \in BOOLEAN : run'[o] = [run[o] EXCEPT !.pc = "vault", !.alone = @ /\ ok]
                              /\ used' = used
    BY <1>2, <1>11 DEF AttachPolicy
  <2> QED BY <1>2, <2>1, <2>2 DEF Progress, Run
<1>12. CASE \E ok \in BOOLEAN, kind \in Kinds : WriteVault(o, kind, ok)
  <2>1. run[o] \in Run /\ run[o] # Idle /\ run[o].pc = "vault"
    BY <1>2, <1>12, AtShape DEF WriteVault, Steps, At
  <2>2. PICK kind \in Kinds :
          /\ run[o].todo \ {kind} # {} /\ used' = used
          /\ run'[o] = [run[o] EXCEPT !.todo = run[o].todo \ {kind}]
    BY <1>1, <1>2, <1>12 DEF WriteVault
  <2> QED BY <1>2, <2>1, <2>2 DEF Progress, Run
<1> QED BY <1>4, <1>5, <1>6, <1>7, <1>8, <1>9, <1>10, <1>11, <1>12 DEF SeedStep

LEMMA OtherRuns ==
  ASSUME TypeOK, NEW o \in Operators, SeedStep(o), NEW p \in Operators, p # o
  PROVE  run'[p] = run[p]
  BY DEF TypeOK, SeedStep, Abort, AddNobody, BrokenMapping, CreateDatabase, SetPassword, Grant,
         MakeBucket, RemoveUser, AddUser, AttachPolicy, WriteVault, Proceed

LEMMA ProgressStep ==
  ASSUME VaultInv, [Next]_vars, NEW p \in Operators
  PROVE  Progress(p)'
<1>1. Progress(p) /\ TypeOK
  BY DEF VaultInv
<1>2. used.db \subseteq used'.db /\ used.s3 \subseteq used'.s3
  BY <1>1, UsedGrows
<1>3. CASE run'[p] = run[p]
  BY <1>1, <1>2, <1>3 DEF Progress
<1>4. CASE Starts
  <2>1. PICK o \in Operators, w \in Workloads, cwd \in Repos \cup {Outside},
             noUser \in BOOLEAN, force \in BOOLEAN : Seed(o, w, cwd, noUser, force)
    BY <1>4 DEF Starts
  <2>2. CASE p = o
    <3>1. /\ run'[p].pc = "database" /\ run'[p].w = w /\ run'[p].secret[1] = w
          /\ run'[p].todo = Entries[w]
      BY <2>1, <2>2 DEF Seed
    <3>2. Entries[w] # {}
      BY SeedAssumption
    <3> QED BY <3>1, <3>2 DEF Progress
  <2>3. CASE p # o
    <3>1. run'[p] = run[p] \/ (run[p] # Idle /\ run'[p] = [run[p] EXCEPT !.alone = FALSE])
      BY <2>1, <2>3 DEF Seed, Busy
    <3>2. CASE run[p] # Idle /\ run'[p] = [run[p] EXCEPT !.alone = FALSE]
      BY <1>1, <1>2, <3>2, RunShape DEF Progress, Run
    <3> QED BY <1>3, <3>1, <3>2
  <2> QED BY <2>2, <2>3
<1>5. ASSUME NEW o \in Operators, SeedStep(o) PROVE Progress(p)'
  BY <1>1, <1>3, <1>5, OwnStep, OtherRuns
<1>6. CASE Elsewhere \/ UNCHANGED vars
  BY <1>3, <1>6 DEF Elsewhere, EditMapping, EditSeedFile, InitConfig, vars
<1> QED BY <1>4, <1>5, <1>6, Cases

LEMMA VaultStep ==
  ASSUME VaultInv, [Next]_vars
  PROVE  OwnVault' /\ VaultIsLast'
<1>1. TypeOK /\ OwnVault /\ VaultIsLast
      /\ vault \in [Workloads \X Kinds -> Secrets \cup {NoSecret}]
  BY DEF VaultInv, TypeOK
<1>2. used.db \subseteq used'.db /\ used.s3 \subseteq used'.s3
  BY <1>1, UsedGrows
<1>3. CASE vault' = vault
  BY <1>1, <1>2, <1>3 DEF OwnVault, VaultIsLast
<1>4. ASSUME NEW o \in Operators, NEW kind \in Kinds, NEW ok \in BOOLEAN, WriteVault(o, kind, ok)
      PROVE  OwnVault' /\ VaultIsLast'
  <2>1. run[o] # Idle /\ run[o].pc = "vault"
    BY <1>1, <1>4, AtShape DEF WriteVault, Steps, At
  <2>2. /\ run[o].w \in Workloads
        /\ Secret(o)[1] = run[o].w /\ Secret(o) \in used.db \cap used.s3
    BY <1>1, <2>1, SecretType DEF VaultInv, Progress, Secret
  <2>3. vault' = [vault EXCEPT ![<<run[o].w, kind>>] = Secret(o)]
    BY <1>4 DEF WriteVault, VaultPath
  <2>4. ASSUME NEW q \in DOMAIN vault', vault'[q] # NoSecret
        PROVE  vault'[q][1] = q[1] /\ vault'[q] \in used'.db \cap used'.s3
    <3>1. CASE q = <<run[o].w, kind>>
      BY <1>1, <1>2, <2>2, <2>3, <2>4, <3>1
    <3>2. CASE q # <<run[o].w, kind>>
      BY <1>1, <1>2, <2>3, <2>4, <3>2 DEF OwnVault, VaultIsLast
    <3> QED BY <3>1, <3>2
  <2> QED BY <2>4 DEF OwnVault, VaultIsLast
<1>5. ASSUME NEW o \in Operators, SeedStep(o) PROVE OwnVault' /\ VaultIsLast'
  BY <1>3, <1>4, <1>5 DEF SeedStep, Abort, AddNobody, BrokenMapping, CreateDatabase, SetPassword,
     Grant, MakeBucket, RemoveUser, AddUser, AttachPolicy
<1>6. CASE Elsewhere \/ Starts \/ UNCHANGED vars
  BY <1>3, <1>6 DEF Elsewhere, Starts, EditMapping, EditSeedFile, InitConfig, Seed, vars
<1> QED BY <1>5, <1>6, Cases

LEMMA VaultInvInit == Init => VaultInv
<1>1. Init => ConfigInv
  BY DEF Init, ConfigInit, ConfigInv, Saved, Config, Values, NoConfig
<1> QED BY <1>1, InitType DEF Init, VaultInv, Progress, OwnVault, VaultIsLast

LEMMA VaultInvStep == VaultInv /\ [Next]_vars => VaultInv'
  BY StepType, ProgressStep, VaultStep DEF VaultInv

(* Vault never hands out a password that the database or keys that MinIO   *)
(* never had, however many runs stopped half-way or ran side by side.      *)
THEOREM SecretsWereUsed == Spec => []VaultIsLast
<1>1. VaultInv => VaultIsLast
  BY DEF VaultInv
<1> QED BY <1>1, VaultInvInit, VaultInvStep, PTL DEF Spec

-----------------------------------------------------------------------------
(* A seed changes only what belongs to its application's name.             *)
Untouched(a) ==
  /\ a \in databases <=> a \in databases'
  /\ dbPass'[a] = dbPass[a]
  /\ a \in granted <=> a \in granted'
  /\ \A w \in Workloads : App(w) = a =>
       /\ w \in buckets <=> w \in buckets'
       /\ \A kind \in Kinds : vault'[<<w, kind>>] = vault[<<w, kind>>]
       /\ \A s \in Secrets : s[1] = w =>
            (s \in s3Users <=> s \in s3Users') /\ (s \in attached <=> s \in attached')

LEMMA Frame ==
  ASSUME VaultInv, NEW o \in Operators, SeedStep(o), NEW a \in Apps, ~ Busy(o, a)
  PROVE  Untouched(a)
<1>0. TypeOK
  BY DEF VaultInv
<1>1. CASE Abort(o) \/ AddNobody(o) \/ BrokenMapping(o)
  BY <1>1 DEF Abort, AddNobody, BrokenMapping, Untouched, db, s3
<1>2. CASE ~ (Abort(o) \/ AddNobody(o) \/ BrokenMapping(o))
  <2>1. run[o] # Idle
    BY <1>0, <1>2, AtShape DEF SeedStep, CreateDatabase, SetPassword, Grant, MakeBucket,
       RemoveUser, AddUser, AttachPolicy, WriteVault, Steps
  <2>2. Role(o) # a /\ App(run[o].w) # a /\ Secret(o)[1] = run[o].w /\ run[o].w \in Workloads
    BY <1>0, <2>1, SecretType DEF Busy, Role, VaultInv, Progress, Secret
  <2>3. ASSUME NEW w \in Workloads, App(w) = a
        PROVE  w # run[o].w /\ \A s \in Secrets : s[1] = w => s # Secret(o)
    BY <2>2, <2>3
  <2>4. CASE \E ok \in BOOLEAN : CreateDatabase(o, ok)
    BY <2>2, <2>4 DEF CreateDatabase, Untouched, s3
  <2>5. CASE \E ok \in BOOLEAN : SetPassword(o, ok)
    BY <1>0, <2>2, <2>5 DEF SetPassword, Untouched, s3, TypeOK
  <2>6. CASE \E ok \in BOOLEAN : Grant(o, ok)
    BY <2>2, <2>6 DEF Grant, Untouched, s3
  <2>7. CASE \E ok \in BOOLEAN : MakeBucket(o, ok)
    BY <2>3, <2>7 DEF MakeBucket, Untouched, db
  <2>8. CASE \E ok \in BOOLEAN : RemoveUser(o, ok)
    BY <2>3, <2>8 DEF RemoveUser, Untouched, db
  <2>9. CASE \E ok \in BOOLEAN : AddUser(o, ok)
    BY <2>3, <2>9 DEF AddUser, Untouched, db
  <2>10. CASE \E ok \in BOOLEAN : AttachPolicy(o, ok)
    BY <2>3, <2>10 DEF AttachPolicy, Untouched, db
  <2>11. CASE \E ok \in BOOLEAN, kind \in Kinds : WriteVault(o, kind, ok)
    <3>1. PICK kind \in Kinds : vault' = [vault EXCEPT ![<<run[o].w, kind>>] = Secret(o)]
      BY <2>11 DEF WriteVault, VaultPath
    <3>2. ASSUME NEW w \in Workloads, App(w) = a, NEW k \in Kinds
          PROVE  vault'[<<w, k>>] = vault[<<w, k>>]
      BY <1>0, <2>3, <3>1, <3>2 DEF TypeOK
    <3>3. UNCHANGED <<db, s3>>
      BY <2>11 DEF WriteVault
    <3> QED BY <3>2, <3>3 DEF Untouched, db, s3
  <2> QED BY <1>2, <2>4, <2>5, <2>6, <2>7, <2>8, <2>9, <2>10, <2>11 DEF SeedStep
<1> QED BY <1>1, <1>2

LEMMA ElsewhereFrame ==
  ASSUME Elsewhere \/ Starts \/ UNCHANGED vars, NEW a \in Apps
  PROVE  Untouched(a)
<1>1. UNCHANGED <<db, s3, vault>>
  BY DEF Elsewhere, Starts, EditMapping, EditSeedFile, InitConfig, Seed, vars
<1> QED BY <1>1 DEF Untouched, db, s3

LEMMA UntouchedWorks ==
  ASSUME VaultInv, NEW w \in Workloads, Untouched(App(w)), Works(w)
  PROVE  Works(w)'
<1>1. PICK s \in Secrets :
        /\ \A kind \in Entries[w] : vault[<<w, kind>>] = s
        /\ App(w) \in databases \cap granted /\ dbPass[App(w)] = s
        /\ w \in buckets /\ s \in s3Users \cap attached
  BY DEF Works
<1>2. PICK kind \in Entries[w] : kind \in Kinds
  BY SeedAssumption DEF Kinds
<1>3. Entries[w] \subseteq Kinds
  BY SeedAssumption DEF Kinds
<1>4. s[1] = w
  <2>1. <<w, kind>> \in DOMAIN vault /\ vault[<<w, kind>>] # NoSecret
    BY <1>1, <1>2, SeedAssumption DEF VaultInv, TypeOK
  <2> QED BY <1>1, <2>1 DEF VaultInv, OwnVault
<1>5. /\ \A k \in Entries[w] : vault'[<<w, k>>] = s
      /\ App(w) \in databases' \cap granted' /\ dbPass'[App(w)] = s
      /\ w \in buckets' /\ s \in s3Users' \cap attached'
  BY <1>1, <1>3, <1>4 DEF Untouched
<1> QED BY <1>5 DEF Works

LEMMA BreaksByName ==
  ASSUME VaultInv, [Next]_vars, NEW w \in Workloads, Works(w), ~ Works(w)'
  PROVE  \E o \in Operators : run[o] # run'[o] /\ Busy(o, App(w))
<1>1. App(w) \in Apps
  BY DEF Apps
<1>2. ~ (Elsewhere \/ Starts \/ UNCHANGED vars)
  BY <1>1, ElsewhereFrame, UntouchedWorks
<1>3. PICK o \in Operators : SeedStep(o)
  BY <1>2, Cases
<1>4. Busy(o, App(w))
  BY <1>1, <1>3, Frame, UntouchedWorks
<1>5. run[o] # run'[o]
  <2>0. TypeOK /\ run \in [Operators -> Run \cup {Idle}]
    BY DEF VaultInv, TypeOK
  <2>1. run[o] # Idle /\ run[o] \in Run
    BY <1>4, <2>0, RunShape DEF Busy
  <2>2. ASSUME NEW step \in Steps, NEW ok \in BOOLEAN, run[o].pc # step, Proceed(o, ok, step)
        PROVE  run[o] # run'[o]
    <3>1. run'[o] = Idle \/ run'[o] = [run[o] EXCEPT !.pc = step]
      BY <2>0, <2>2 DEF Proceed
    <3> QED BY <2>1, <2>2, <3>1 DEF Run
  <2>3. CASE Abort(o) \/ AddNobody(o) \/ BrokenMapping(o)
    BY <2>0, <2>1, <2>3 DEF Abort, AddNobody, BrokenMapping
  <2>4. CASE \E ok \in BOOLEAN : \/ CreateDatabase(o, ok) \/ SetPassword(o, ok) \/ Grant(o, ok)
                                 \/ MakeBucket(o, ok) \/ AddUser(o, ok)
    BY <2>2, <2>4 DEF CreateDatabase, SetPassword, Grant, MakeBucket, AddUser, At, Steps
  <2>5. CASE \E ok \in BOOLEAN : RemoveUser(o, ok) \/ AttachPolicy(o, ok)
    <3>1. run[o].pc # "vault" /\ (run'[o].pc = "add" \/ run'[o].pc = "vault")
          /\ (run'[o].pc = "add" => run[o].pc # "add")
      BY <2>0, <2>1, <2>5 DEF RemoveUser, AttachPolicy, At, Run
    <3> QED BY <3>1
  <2>6. CASE \E ok \in BOOLEAN, kind \in Kinds : WriteVault(o, kind, ok)
    <3>1. PICK kind \in run[o].todo :
            run'[o] = Idle \/ run'[o] = [run[o] EXCEPT !.todo = run[o].todo \ {kind}]
      BY <2>0, <2>6 DEF WriteVault
    <3> QED BY <2>1, <3>1 DEF Run
  <2> QED BY <1>3, <2>3, <2>4, <2>5, <2>6 DEF SeedStep
<1> QED BY <1>4, <1>5

(* Credentials that work stop working only by a seed of an application of  *)
(* that name: the database account is named after it alone.                *)
THEOREM OnlyItsNameBreaksIt == Spec => BrokenByItsNameOnly
<1>1. VaultInv /\ [Next]_vars =>
        [\A w \in Workloads : Works(w) /\ ~ Works(w)' =>
           \E o \in Operators : run[o] # run'[o] /\ Busy(o, App(w))]_vars
  BY BreaksByName
<1> QED BY <1>1, VaultInvInit, VaultInvStep, PTL DEF Spec, BrokenByItsNameOnly

-----------------------------------------------------------------------------
(* What a run that is alone has brought about so far, all of it in place;  *)
(* nobody is at its account beside it, or at an account that is intact.    *)
Done(o) ==
  run[o] # Idle /\ run[o].alone =>
    /\ run[o].pc # "database" => Role(o) \in databases
    /\ run[o].pc \notin {"database", "role"} => dbPass[Role(o)] = Password(Secret(o))
    /\ run[o].pc \notin {"database", "role", "grant"} => Role(o) \in granted
    /\ run[o].pc \in {"remove", "add", "attach", "vault"} => run[o].w \in buckets
    /\ run[o].pc \in {"attach", "vault"} => Secret(o) \in s3Users
    /\ run[o].pc = "vault" =>
         /\ Secret(o) \in attached
         /\ \A kind \in Entries[run[o].w] \ run[o].todo : vault[<<run[o].w, kind>>] = Secret(o)
Alone(o) ==
  run[o] # Idle /\ run[o].alone => \A p \in Operators \ {o} : ~ Busy(p, Role(o))
Quiet == \A a \in Apps : intact[a] # NoSecret => \A o \in Operators : ~ Busy(o, a)

SeedInv ==
  VaultInv /\ (\A o \in Operators : Done(o) /\ Alone(o)) /\ Quiet /\ IntactWorks

LEMMA RunMoves ==
  ASSUME TypeOK, NEW o \in Operators, SeedStep(o), run'[o] # Idle
  PROVE  /\ run[o] # Idle /\ run[o] \in Run
         /\ run'[o].w = run[o].w /\ run'[o].secret = run[o].secret
         /\ run'[o].alone => run[o].alone
<1>0. run \in [Operators -> Run \cup {Idle}]
  BY DEF TypeOK
<1>1. run[o] # Idle /\ run[o] \in Run
  BY AtShape, RunShape DEF SeedStep, Abort, AddNobody, BrokenMapping, CreateDatabase, SetPassword,
     Grant, MakeBucket, RemoveUser, AddUser, AttachPolicy, WriteVault, Steps
<1>2. ASSUME NEW step \in Steps, NEW ok \in BOOLEAN, Proceed(o, ok, step)
      PROVE  run'[o] = [run[o] EXCEPT !.pc = step]
  BY <1>0, <1>2 DEF Proceed
<1>3. \/ \E step \in Steps : run'[o] = [run[o] EXCEPT !.pc = step]
      \/ \E ok \in BOOLEAN : run'[o] = [run[o] EXCEPT !.pc = "vault", !.alone = @ /\ ok]
      \/ \E kind \in Kinds : run'[o] = [run[o] EXCEPT !.todo = run[o].todo \ {kind}]
  <2>1. CASE Abort(o) \/ AddNobody(o) \/ BrokenMapping(o)
    BY <1>0, <2>1 DEF Abort, AddNobody, BrokenMapping
  <2>2. CASE \E ok \in BOOLEAN : \/ CreateDatabase(o, ok) \/ SetPassword(o, ok) \/ Grant(o, ok)
                                 \/ MakeBucket(o, ok) \/ AddUser(o, ok)
    BY <1>2, <2>2 DEF CreateDatabase, SetPassword, Grant, MakeBucket, AddUser, Steps
  <2>3. CASE \E ok \in BOOLEAN : RemoveUser(o, ok)
    BY <1>0, <2>3 DEF RemoveUser, Steps
  <2>4. CASE \E ok \in BOOLEAN : AttachPolicy(o, ok)
    BY <1>0, <2>4 DEF AttachPolicy
  <2>5. CASE \E ok \in BOOLEAN, kind \in Kinds : WriteVault(o, kind, ok)
    BY <1>0, <2>5 DEF WriteVault
  <2> QED BY <2>1, <2>2, <2>3, <2>4, <2>5 DEF SeedStep
<1> QED BY <1>1, <1>3 DEF Run

LEMMA OwnDone ==
  ASSUME SeedInv, NEW o \in Operators, SeedStep(o)
  PROVE  Done(o)'
<1> SUFFICES ASSUME run'[o] # Idle, run'[o].alone PROVE Done(o)'
  BY DEF Done
<1>0. /\ TypeOK /\ Done(o) /\ Progress(o) /\ run \in [Operators -> Run \cup {Idle}]
      /\ dbPass \in [Apps -> Secrets \cup {NoSecret}]
      /\ vault \in [Workloads \X Kinds -> Secrets \cup {NoSecret}]
  BY DEF SeedInv, VaultInv, TypeOK
<1>1. /\ run[o] # Idle /\ run[o] \in Run
      /\ run'[o].w = run[o].w /\ run'[o].secret = run[o].secret /\ run[o].alone
  BY <1>0, RunMoves
<1>2. Role(o)' = Role(o) /\ Secret(o)' = Secret(o) /\ Role(o) \in Apps /\ run[o].w \in Workloads
  BY <1>0, <1>1, SecretType DEF Role, Secret
<1>3. ASSUME NEW step \in Steps, NEW ok \in BOOLEAN, Proceed(o, ok, step)
      PROVE  run'[o].pc = step
  BY <1>0, <1>1, <1>3 DEF Proceed, Run
<1>4. CASE Abort(o) \/ AddNobody(o) \/ BrokenMapping(o)
  BY <1>0, <1>4 DEF Abort, AddNobody, BrokenMapping
<1>5. CASE \E ok \in BOOLEAN : CreateDatabase(o, ok)
  BY <1>0, <1>1, <1>2, <1>3, <1>5 DEF CreateDatabase, Done, At, Steps
<1>6. CASE \E ok \in BOOLEAN : SetPassword(o, ok)
  BY <1>0, <1>1, <1>2, <1>3, <1>6 DEF SetPassword, Done, At, Steps
<1>7. CASE \E ok \in BOOLEAN : Grant(o, ok)
  BY <1>0, <1>1, <1>2, <1>3, <1>7 DEF Grant, Done, At, Steps
<1>8. CASE \E ok \in BOOLEAN : MakeBucket(o, ok)
  BY <1>0, <1>1, <1>2, <1>3, <1>8 DEF MakeBucket, Done, At, Steps, db
<1>9. CASE \E ok \in BOOLEAN : RemoveUser(o, ok)
  <2>1. run'[o].pc = "add"
    BY <1>0, <1>1, <1>9 DEF RemoveUser, Run
  <2> QED BY <1>0, <1>1, <1>2, <1>9, <2>1 DEF RemoveUser, Done, At, Steps, db
<1>10. CASE \E ok \in BOOLEAN : AddUser(o, ok)
  BY <1>0, <1>1, <1>2, <1>3, <1>10 DEF AddUser, Done, At, Steps, db
<1>11. CASE \E ok \in BOOLEAN : AttachPolicy(o, ok)
  <2>1. PICK ok \in BOOLEAN : AttachPolicy(o, ok)
    BY <1>11
  <2>2. run'[o] = [run[o] EXCEPT !.pc = "vault", !.alone = @ /\ ok]
    BY <1>0, <2>1 DEF AttachPolicy
  <2>3. run'[o].pc = "vault" /\ run'[o].todo = run[o].todo /\ (run'[o].alone <=> run[o].alone /\ ok)
    BY <1>1, <2>2 DEF Run
  <2>4. Secret(o) \in attached'
    BY <2>1, <2>3 DEF AttachPolicy
  <2>5. run[o].pc = "attach" /\ run[o].todo = Entries[run[o].w]
    BY <1>0, <1>1, <2>1 DEF AttachPolicy, At, Progress
  <2>6. UNCHANGED <<db, buckets, s3Users>>
    BY <2>1 DEF AttachPolicy
  <2> QED BY <1>0, <1>1, <1>2, <2>3, <2>4, <2>5, <2>6 DEF Done, db
<1>12. CASE \E ok \in BOOLEAN, kind \in Kinds : WriteVault(o, kind, ok)
  <2>1. PICK kind \in Kinds :
          /\ run'[o] = [run[o] EXCEPT !.todo = run[o].todo \ {kind}]
          /\ vault' = [vault EXCEPT ![<<run[o].w, kind>>] = Secret(o)]
          /\ UNCHANGED <<db, s3>> /\ At(o, "vault")
    BY <1>0, <1>12 DEF WriteVault, VaultPath
  <2>2. run'[o].pc = "vault" /\ run'[o].todo = run[o].todo \ {kind} /\ run[o].pc = "vault"
    BY <1>1, <2>1 DEF Run, At
  <2>3. ASSUME NEW k \in Entries[run[o].w] \ run'[o].todo
        PROVE  vault'[<<run[o].w, k>>] = Secret(o)
    <3>1. k \in Kinds
      BY <1>2, SeedAssumption DEF Kinds
    <3>2. CASE k = kind
      BY <1>0, <1>2, <2>1, <3>2
    <3>3. CASE k # kind
      BY <1>0, <1>1, <1>2, <2>1, <2>2, <2>3, <3>1, <3>3 DEF Done
    <3> QED BY <3>2, <3>3
  <2> QED BY <1>0, <1>1, <1>2, <2>1, <2>2, <2>3 DEF Done, db, s3
<1> QED BY <1>4, <1>5, <1>6, <1>7, <1>8, <1>9, <1>10, <1>11, <1>12 DEF SeedStep

(* A run whose account nobody touches keeps what it brought about. *)
LEMMA UntouchedDone ==
  ASSUME VaultInv, NEW p \in Operators, Done(p), run'[p] = run[p],
         run[p] # Idle => Untouched(Role(p))
  PROVE  Done(p)'
<1> SUFFICES ASSUME run[p] # Idle, run[p].alone PROVE Done(p)'
  BY DEF Done
<1>1. /\ TypeOK /\ run[p].w \in Workloads /\ Secret(p) \in Secrets
      /\ App(run[p].w) = Role(p) /\ Secret(p)[1] = run[p].w
  BY SecretType DEF VaultInv, Progress, Secret, Role
<1>2. Role(p)' = Role(p) /\ Secret(p)' = Secret(p)
  BY DEF Role, Secret
<1>3. Entries[run[p].w] \subseteq Kinds
  BY <1>1, SeedAssumption DEF Kinds
<1> QED BY <1>1, <1>2, <1>3 DEF Done, Untouched

LEMMA StartStep ==
  ASSUME SeedInv, Starts
  PROVE  (\A o \in Operators : Done(o)' /\ Alone(o)') /\ Quiet' /\ IntactWorks'
<1>1. PICK o \in Operators, w \in Workloads, cwd \in Repos \cup {Outside},
           noUser \in BOOLEAN, force \in BOOLEAN : Seed(o, w, cwd, noUser, force)
  BY DEF Starts
<1>0. /\ TypeOK /\ run \in [Operators -> Run \cup {Idle}] /\ App(w) \in Apps
      /\ intact \in [Apps -> Workloads \cup {NoSecret}]
  BY DEF SeedInv, VaultInv, TypeOK, Apps
<1> DEFINE others == {p \in Operators : Busy(p, App(w))}
<1>2. /\ run'[o].pc = "database" /\ run'[o].w = w /\ run'[o] # Idle
      /\ run'[o].alone <=> others = {}
  <2>1. /\ run'[o].pc = "database" /\ run'[o].w = w
        /\ run'[o].alone <=> others = {}
    BY <1>1 DEF Seed
  <2> QED BY <2>1 DEF Idle
<1>3. ASSUME NEW p \in Operators, p # o
      PROVE  \/ p \notin others /\ run'[p] = run[p]
             \/ /\ p \in others /\ run'[p] # Idle /\ ~ run'[p].alone /\ run'[p].w = run[p].w
  <2>1. run'[p] = IF p \in others THEN [run[p] EXCEPT !.alone = FALSE] ELSE run[p]
    BY <1>1, <1>3 DEF Seed
  <2>2. CASE p \in others
    <3>1. run[p] \in Run
      BY <1>0, <2>2, RunShape DEF Busy
    <3>2. /\ run'[p].alone = FALSE /\ run'[p].w = run[p].w /\ run'[p].pc = run[p].pc
          /\ run[p].pc \in Steps
      BY <2>1, <2>2, <3>1 DEF Run
    <3> QED BY <2>2, <3>2 DEF Idle, Steps
  <2> QED BY <2>1, <2>2
<1>4. UNCHANGED <<db, s3, vault>> /\ intact' = [intact EXCEPT ![App(w)] = NoSecret]
  BY <1>1 DEF Seed
<1>5. run[o] = Idle
  BY <1>1 DEF Seed
<1>6. ASSUME NEW p \in Operators PROVE Done(p)'
  <2>1. CASE p = o
    BY <1>2, <2>1 DEF Done
  <2>2. CASE p # o /\ p \notin others
    <3>1. run'[p] = run[p] /\ Done(p) /\ VaultInv
      BY <1>3, <2>2 DEF SeedInv
    <3>2. run[p] # Idle => Untouched(Role(p))
      BY <1>4 DEF Untouched, db, s3
    <3> QED BY <3>1, <3>2, UntouchedDone
  <2>3. CASE p # o /\ p \in others
    BY <1>3, <2>3 DEF Done
  <2> QED BY <2>1, <2>2, <2>3
<1>8. ASSUME NEW p \in Operators, run'[p] # Idle, run'[p].alone,
             NEW q \in Operators, q # p, run'[q] # Idle, App(run'[q].w) = App(run'[p].w)
      PROVE  FALSE
  <2>1. CASE p = o
    <3>1. Busy(q, App(w)) /\ others = {}
      BY <1>2, <1>3, <1>8, <2>1 DEF Busy, Role
    <3> QED BY <3>1
  <2>2. CASE p # o
    <3>1. p \notin others /\ run'[p] = run[p] /\ Alone(p)
      BY <1>3, <1>8, <2>2 DEF SeedInv
    <3>2. CASE q = o
      BY <1>2, <1>8, <3>1, <3>2 DEF Busy, Role
    <3>3. CASE q # o
      BY <1>3, <1>8, <3>1, <3>3 DEF Busy, Role, Alone
    <3> QED BY <3>2, <3>3
  <2> QED BY <2>1, <2>2
<1>9. ASSUME NEW p \in Operators PROVE Alone(p)'
  BY <1>8 DEF Alone, Busy, Role
<1>10. Quiet'
  <2> SUFFICES ASSUME NEW a \in Apps, intact'[a] # NoSecret, NEW q \in Operators, Busy(q, a)'
               PROVE  FALSE
    BY DEF Quiet
  <2>1. a # App(w) /\ intact[a] # NoSecret
    BY <1>0, <1>4
  <2>2. ~ Busy(q, a)
    BY <2>1 DEF SeedInv, Quiet
  <2> QED BY <1>2, <1>3, <2>1, <2>2 DEF Busy
<1>11. IntactWorks'
  <2> SUFFICES ASSUME NEW v \in Workloads, intact'[App(v)] = v PROVE Works(v)'
    BY DEF IntactWorks
  <2>1. App(v) \in Apps
    BY DEF Apps
  <2>2. intact[App(v)] = v
    BY <1>0, <1>4, <2>1, SeedAssumption
  <2>3. Works(v) /\ VaultInv
    BY <2>2 DEF SeedInv, IntactWorks
  <2> QED BY <2>1, <2>3, ElsewhereFrame, UntouchedWorks
<1> QED BY <1>6, <1>9, <1>10, <1>11

LEMMA OthersStep ==
  ASSUME SeedInv, NEW o \in Operators, SeedStep(o)
  PROVE  (\A p \in Operators : Done(p)' /\ Alone(p)')
<1>0. TypeOK /\ VaultInv
  BY DEF SeedInv, VaultInv
<1>1. ASSUME NEW q \in Operators, run'[q] # Idle
      PROVE  /\ run[q] # Idle /\ run'[q].w = run[q].w
             /\ run'[q].alone => run[q].alone
  BY <1>0, <1>1, RunMoves, OtherRuns
<1>2. ASSUME NEW p \in Operators, run'[p] # Idle, run'[p].alone,
             NEW q \in Operators, q # p, run'[q] # Idle, App(run'[q].w) = App(run'[p].w)
      PROVE  FALSE
  BY <1>1, <1>2 DEF SeedInv, Alone, Busy, Role
<1>3. ASSUME NEW p \in Operators PROVE Alone(p)'
  BY <1>2 DEF Alone, Busy, Role
<1>4. ASSUME NEW p \in Operators PROVE Done(p)'
  <2>1. CASE p = o
    BY <2>1, OwnDone
  <2>2. CASE p # o
    <3>1. run'[p] = run[p] /\ Done(p) /\ Alone(p)
      BY <1>0, <2>2, OtherRuns DEF SeedInv
    <3>2. CASE run[p] # Idle /\ run[p].alone
      <4>1. ~ Busy(o, Role(p)) /\ Role(p) \in Apps
        BY <1>0, <2>2, <3>1, <3>2, SecretType DEF Alone
      <4>2. Untouched(Role(p))
        BY <1>0, <4>1, Frame
      <4> QED BY <1>0, <3>1, <4>2, UntouchedDone
    <3>3. CASE ~ (run[p] # Idle /\ run[p].alone)
      BY <3>1, <3>3 DEF Done
    <3> QED BY <3>2, <3>3
  <2> QED BY <2>1, <2>2
<1> QED BY <1>3, <1>4

(* The last write of a run that is alone. *)
LEMMA Completion ==
  ASSUME SeedInv, NEW o \in Operators, SeedStep(o), intact' # intact
  PROVE  /\ intact' = [intact EXCEPT ![Role(o)] = run[o].w]
         /\ run'[o] = Idle /\ run[o] # Idle /\ run[o].alone
         /\ \A w \in Workloads : w = run[o].w => Works(w)'
<1>0. /\ TypeOK /\ Done(o) /\ Progress(o) /\ run \in [Operators -> Run \cup {Idle}]
      /\ vault \in [Workloads \X Kinds -> Secrets \cup {NoSecret}]
  BY DEF SeedInv, VaultInv, TypeOK
<1>1. PICK kind \in Kinds, heard \in BOOLEAN : WriteVault(o, kind, heard)
  BY DEF SeedStep, Abort, AddNobody, BrokenMapping, CreateDatabase, SetPassword, Grant,
     MakeBucket, RemoveUser, AddUser, AttachPolicy, Proceed
<1>2. /\ heard /\ run[o].todo \ {kind} = {} /\ run[o].alone
      /\ intact' = [intact EXCEPT ![Role(o)] = run[o].w]
      /\ run'[o] = Idle
      /\ vault' = [vault EXCEPT ![<<run[o].w, kind>>] = Secret(o)]
      /\ UNCHANGED <<db, s3>> /\ Password(Secret(o)) # NoSecret
  BY <1>0, <1>1 DEF WriteVault, VaultPath
<1>3. run[o] # Idle /\ run[o] \in Run /\ run[o].pc = "vault"
  BY <1>0, <1>1, AtShape DEF WriteVault, Steps, At
<1>4. Secret(o) \in Secrets /\ run[o].w \in Workloads /\ App(run[o].w) = Role(o)
  BY <1>0, <1>3, SecretType DEF Role
<1>5. ASSUME NEW k \in Entries[run[o].w] PROVE vault'[<<run[o].w, k>>] = Secret(o)
  <2>1. k \in Kinds
    BY <1>4, SeedAssumption DEF Kinds
  <2>2. CASE k = kind
    BY <1>0, <1>2, <1>4, <2>2
  <2>3. CASE k # kind
    BY <1>0, <1>2, <1>3, <1>4, <2>1, <2>3 DEF Done
  <2> QED BY <2>2, <2>3
<1>6. /\ Role(o) \in databases /\ Role(o) \in granted /\ dbPass[Role(o)] = Secret(o)
      /\ run[o].w \in buckets /\ Secret(o) \in s3Users /\ Secret(o) \in attached
  BY <1>0, <1>2, <1>3 DEF Done, Password
<1>7. ASSUME NEW w \in Workloads, w = run[o].w PROVE Works(w)'
  <2>2. PICK s \in Secrets : s = Secret(o)
    BY <1>4
  <2>3. /\ \A k \in Entries[w] : vault'[<<w, k>>] = s
        /\ App(w) \in databases' \cap granted' /\ dbPass'[App(w)] = s
        /\ w \in buckets' /\ s \in s3Users' \cap attached'
    BY <1>2, <1>4, <1>5, <1>6, <1>7, <2>2 DEF db, s3
  <2>4. \E t \in Secrets :
          /\ \A k \in Entries[w] : vault'[<<w, k>>] = t
          /\ App(w) \in databases' \cap granted' /\ dbPass'[App(w)] = t
          /\ w \in buckets' /\ t \in s3Users' \cap attached'
    BY <2>3
  <2> QED BY <2>4 DEF Works
<1> QED BY <1>2, <1>3, <1>7

LEMMA IntactStep ==
  ASSUME SeedInv, NEW o \in Operators, SeedStep(o)
  PROVE  Quiet' /\ IntactWorks'
<1>0. /\ TypeOK /\ VaultInv /\ run \in [Operators -> Run \cup {Idle}]
      /\ intact \in [Apps -> Workloads \cup {NoSecret}]
  BY DEF SeedInv, VaultInv, TypeOK
<1>1. ASSUME NEW q \in Operators, run'[q] # Idle
      PROVE  run[q] # Idle /\ run'[q].w = run[q].w
  BY <1>0, <1>1, RunMoves, OtherRuns
<1>2. ASSUME NEW a \in Apps, intact[a] # NoSecret
      PROVE  Untouched(a) /\ \A q \in Operators : ~ Busy(q, a)'
  <2>1. \A q \in Operators : ~ Busy(q, a)
    BY <1>2 DEF SeedInv, Quiet
  <2>2. Untouched(a)
    BY <1>0, <2>1, Frame
  <2> QED BY <1>1, <2>1, <2>2 DEF Busy
<1>3. ASSUME NEW w \in Workloads, intact[App(w)] = w PROVE Works(w)'
  <2>1. App(w) \in Apps /\ intact[App(w)] # NoSecret
    BY <1>3, SeedAssumption DEF Apps
  <2>2. Works(w) /\ Untouched(App(w))
    BY <1>2, <1>3, <2>1 DEF SeedInv, IntactWorks
  <2> QED BY <1>0, <2>2, UntouchedWorks
<1>4. CASE intact' = intact
  BY <1>2, <1>3, <1>4 DEF Quiet, IntactWorks
<1>5. CASE intact' # intact
  <2>1. /\ intact' = [intact EXCEPT ![Role(o)] = run[o].w]
        /\ run'[o] = Idle /\ run[o] # Idle /\ run[o].alone
        /\ \A w \in Workloads : w = run[o].w => Works(w)'
    BY <1>5, Completion
  <2>2. ASSUME NEW q \in Operators, Busy(q, Role(o)) PROVE q = o
    BY <2>1, <2>2 DEF SeedInv, Alone
  <2>3. ASSUME NEW a \in Apps, intact'[a] # NoSecret, NEW q \in Operators, Busy(q, a)'
        PROVE  FALSE
    <3>1. CASE a = Role(o)
      BY <1>1, <2>1, <2>2, <2>3, <3>1 DEF Busy
    <3>2. CASE a # Role(o)
      BY <1>0, <1>2, <2>1, <2>3, <3>2
    <3> QED BY <3>1, <3>2
  <2>4. ASSUME NEW w \in Workloads, intact'[App(w)] = w PROVE Works(w)'
    <3>1. App(w) \in Apps
      BY DEF Apps
    <3>2. CASE App(w) = Role(o)
      BY <1>0, <2>1, <2>4, <3>1, <3>2
    <3>3. CASE App(w) # Role(o)
      BY <1>0, <1>3, <2>1, <2>4, <3>1, <3>3
    <3> QED BY <3>2, <3>3
  <2> QED BY <2>3, <2>4 DEF Quiet, IntactWorks
<1> QED BY <1>4, <1>5

LEMMA QuietElsewhere ==
  ASSUME SeedInv, Elsewhere \/ UNCHANGED vars
  PROVE  (\A o \in Operators : Done(o)' /\ Alone(o)') /\ Quiet' /\ IntactWorks'
<1>1. UNCHANGED <<run, intact, databases, dbPass, granted, buckets, s3Users, attached, vault>>
  BY DEF Elsewhere, EditMapping, EditSeedFile, InitConfig, vars, db, s3
<1>2. \A o \in Operators : Done(o) /\ Alone(o)
  BY DEF SeedInv
<1>3. ASSUME NEW o \in Operators PROVE Done(o)' /\ Alone(o)'
  BY <1>1, <1>2 DEF Done, Alone, Busy, Role, Secret
<1>4. Quiet' /\ IntactWorks'
  BY <1>1 DEF SeedInv, Quiet, Busy, IntactWorks, Works
<1> QED BY <1>3, <1>4

LEMMA SeedInvStep == SeedInv /\ [Next]_vars => SeedInv'
<1> SUFFICES ASSUME SeedInv, [Next]_vars PROVE SeedInv'
  OBVIOUS
<1>1. VaultInv'
  BY VaultInvStep DEF SeedInv
<1>2. (\A o \in Operators : Done(o)' /\ Alone(o)') /\ Quiet' /\ IntactWorks'
  BY StartStep, OthersStep, IntactStep, QuietElsewhere, Cases
<1> QED BY <1>1, <1>2 DEF SeedInv

LEMMA SeedInvInit == Init => SeedInv
<1> SUFFICES ASSUME Init PROVE SeedInv
  OBVIOUS
<1>1. /\ \A o \in Operators : run[o] = Idle
      /\ \A w \in Workloads : intact[App(w)] = NoSecret
      /\ \A a \in Apps : intact[a] = NoSecret
  BY DEF Init, Apps
<1> QED BY <1>1, VaultInvInit, SeedAssumption
        DEF SeedInv, Done, Alone, Quiet, IntactWorks

(* A seed that ran to its end, alone at its account, leaves credentials    *)
(* that work until the next seed of that application name, whatever failed *)
(* before, and whatever the other operators do meanwhile.                  *)
THEOREM IntactSeedWorks == Spec => []IntactWorks
<1>1. SeedInv => IntactWorks
  BY DEF SeedInv
<1> QED BY <1>1, SeedInvInit, SeedInvStep, PTL DEF Spec

=============================================================================
