------------------------------- MODULE AtlasSeed -------------------------------
(***************************************************************************)
(* atlasctl seed (cmd/seed.go, pkg/seed): the database account, the MinIO  *)
(* bucket and user, then the Vault secret, each by commands run in the     *)
(* pods of the one cluster all operators share.  A command may fail, with  *)
(* or without its effect, and the tool may be killed; then somebody runs   *)
(* it again.  enable --seed runs the same steps.                           *)
(***************************************************************************)
EXTENDS Naturals, AtlasConfig

CONSTANTS
  Workloads,       \* pairs <<group, app>>
  Versions,        \* the generations of a workload's .secret-seed
  Incomplete,      \* those with an empty DB_PASSWORD or REDIS_PASSWORD
  Passwordless,    \* those with an empty DB_PASSWORD
  Blank, NoFile,   \* a .secret-seed with an empty S3 key; none
  NoSecret,
  Entries,         \* the paths, below the workload's own, that its mapping names
  SeedFiles,       \* the .secret-seed of each checkout, at the start
  MaxRuns, MaxEdits, MaxFaults  \* bounds

Group(w) == w[1]
App(w) == w[2]
Apps == {App(w) : w \in Workloads}
Secrets == Workloads \X (Versions \cup {Blank})

ASSUME SeedAssumption ==
  /\ Passwordless \subseteq Incomplete /\ Incomplete \subseteq Versions
  /\ {Blank, NoFile} \cap Versions = {} /\ Blank # NoFile
  /\ NoSecret \notin Secrets /\ NoSecret \notin Workloads
  /\ Entries \in [Workloads -> SUBSET {"main", "cert"}]
  /\ \A w \in Workloads : Entries[w] # {}
  /\ SeedFiles \in [Repos -> [Workloads -> Versions \cup {Blank, NoFile}]]
  /\ MaxRuns \in Nat /\ MaxEdits \in Nat /\ MaxFaults \in Nat

VARIABLES
  seedFile,   \* the version of .secret-seed in each checkout
  broken,     \* workloads whose mapping names a variable there is not
  databases,  \* the databases there are, one per application name
  dbPass,     \* the password of each database role
  granted,    \* the roles that may use their database
  buckets,    \* the buckets there are, one per workload
  s3Users,    \* the MinIO users, named by the secret that holds their keys
  attached,   \* those with the readwrite policy
  vault,      \* the secret at each Vault path
  run,        \* what each operator's seed is doing
  intact,     \* history: by application, whose seed ran last, alone, to its end
              \* and with a password
  used,       \* history: the secrets that were a database password and a MinIO user
  runs, edits, faults  \* history: what the bounds count

files == <<user, seedFile, broken>>
db == <<databases, dbPass, granted>>
s3 == <<buckets, s3Users, attached>>
bounds == <<runs, edits, faults>>
vars == <<files, db, s3, vault, run, intact, used, bounds>>

Idle == [pc |-> "idle"]
Steps == {"database", "role", "grant", "bucket", "remove", "add", "attach", "vault"}
Run == [pc : Steps, w : Workloads, secret : Secrets, todo : SUBSET {"main", "cert"},
        alone : BOOLEAN]
Kinds == {"main", "cert"}

TypeOK ==
  /\ user \in [Operators -> Config]
  /\ seedFile \in [Repos -> [Workloads -> Versions \cup {Blank, NoFile}]]
  /\ broken \subseteq Workloads
  /\ databases \subseteq Apps /\ granted \subseteq Apps
  /\ dbPass \in [Apps -> Secrets \cup {NoSecret}]
  /\ buckets \subseteq Workloads
  /\ s3Users \subseteq Secrets /\ attached \subseteq Secrets
  /\ vault \in [Workloads \X Kinds -> Secrets \cup {NoSecret}]
  /\ run \in [Operators -> Run \cup {Idle}]
  /\ intact \in [Apps -> Workloads \cup {NoSecret}]
  /\ used \in [db : SUBSET Secrets, s3 : SUBSET Secrets]
  /\ runs \in Nat /\ edits \in Nat /\ faults \in Nat

Init ==
  /\ ConfigInit
  /\ seedFile = SeedFiles
  /\ broken = {}
  /\ databases = {} /\ dbPass = [a \in Apps |-> NoSecret] /\ granted = {}
  /\ buckets = {} /\ s3Users = {} /\ attached = {}
  /\ vault = [p \in Workloads \X Kinds |-> NoSecret]
  /\ run = [o \in Operators |-> Idle]
  /\ intact = [a \in Apps |-> NoSecret]
  /\ used = [db |-> {}, s3 |-> {}]
  /\ runs = 0 /\ edits = 0 /\ faults = 0

Busy(o, a) == run[o] # Idle /\ App(run[o].w) = a

(* Mistake: a missing file reads as a file that says nothing. *)
ReadableOrForced(v, force) == force \/ v \notin Incomplete \cup {Blank}

(* There is a .secret-seed and, without --force, no value of it is empty.  *)
Readable(v, force) == v # NoFile /\ (force \/ v \notin Incomplete \cup {Blank})

(* The .secret-seed of the checkout the configuration names is read.  A    *)
(* run is alone while no other run is at the same account.                 *)
Seed(o, w, cwd, noUser, force) ==
  LET checkout == Load(o, cwd, noUser)["scaffold"]
      others == {p \in Operators : Busy(p, App(w))}
  IN /\ run[o] = Idle
     /\ runs < MaxRuns
     /\ checkout \in Repos
     /\ Readable(seedFile[checkout][w], force)
     /\ runs' = runs + 1
     /\ run' = [p \in Operators |->
          IF p = o THEN [pc |-> "database", w |-> w, secret |-> <<w, seedFile[checkout][w]>>,
                         todo |-> Entries[w], alone |-> others = {}]
          ELSE IF p \in others THEN [run[p] EXCEPT !.alone = FALSE] ELSE run[p]]
     /\ intact' = [intact EXCEPT ![App(w)] = NoSecret]
     /\ UNCHANGED <<files, db, s3, vault, used, edits, faults>>

At(o, pc) == run[o].pc = pc
Secret(o) == run[o].secret
Role(o) == App(run[o].w)

(* A kubectl exec had its effect; when its reply is lost the seed ends with *)
(* an error.                                                               *)
Proceed(o, heard, next) ==
  /\ heard \/ faults < MaxFaults
  /\ faults' = IF heard THEN faults ELSE faults + 1
  /\ run' = [run EXCEPT ![o] = IF heard THEN [@ EXCEPT !.pc = next] ELSE Idle]
  /\ UNCHANGED <<files, intact, runs, edits>>

(* A command fails without effect, or the tool is killed. *)
Abort(o) ==
  /\ run[o] # Idle
  /\ faults < MaxFaults
  /\ faults' = faults + 1
  /\ run' = [run EXCEPT ![o] = Idle]
  /\ UNCHANGED <<files, db, s3, vault, intact, used, runs, edits>>

(* CREATE DATABASE unless it exists.  Here and below the question and the  *)
(* command are one action: when somebody else answers the question in      *)
(* between the command fails, which is Abort.                              *)
CreateDatabase(o, heard) ==
  /\ At(o, "database")
  /\ databases' = databases \cup {Role(o)}
  /\ Proceed(o, heard, "role")
  /\ UNCHANGED <<dbPass, granted, s3, vault, used>>

(* An empty password is none: PostgreSQL clears it and nobody logs in.     *)
Password(s) == IF s[2] \in Passwordless THEN NoSecret ELSE s

(* Mistake: an existing user keeps its password. *)
KeepPassword(o, heard) ==
  /\ At(o, "role")
  /\ IF dbPass[Role(o)] = NoSecret
     THEN /\ dbPass' = [dbPass EXCEPT ![Role(o)] = Password(Secret(o))]
          /\ used' = [used EXCEPT !.db = @ \cup {Secret(o)}]
     ELSE UNCHANGED <<dbPass, used>>
  /\ Proceed(o, heard, "grant")
  /\ UNCHANGED <<databases, granted, s3, vault>>

(* CREATE USER or ALTER USER: the password is the seed's either way. *)
SetPassword(o, heard) ==
  /\ At(o, "role")
  /\ dbPass' = [dbPass EXCEPT ![Role(o)] = Password(Secret(o))]
  /\ used' = [used EXCEPT !.db = @ \cup {Secret(o)}]
  /\ Proceed(o, heard, "grant")
  /\ UNCHANGED <<databases, granted, s3, vault>>

Grant(o, heard) ==
  /\ At(o, "grant")
  /\ granted' = granted \cup {Role(o)}
  /\ Proceed(o, heard, "bucket")
  /\ UNCHANGED <<databases, dbPass, s3, vault, used>>

(* mc mb unless mc stat finds the bucket. *)
MakeBucket(o, heard) ==
  /\ At(o, "bucket")
  /\ buckets' = buckets \cup {run[o].w}
  /\ Proceed(o, heard, "remove")
  /\ UNCHANGED <<db, s3Users, attached, vault, used>>

(* A listed user is removed; an error of the listing or the removal is     *)
(* passed over and the user stays.                                         *)
RemoveUser(o, gone) ==
  /\ At(o, "remove")
  /\ gone \/ faults < MaxFaults
  /\ s3Users' = IF gone THEN s3Users \ {Secret(o)} ELSE s3Users
  /\ attached' = IF gone THEN attached \ {Secret(o)} ELSE attached
  /\ faults' = IF gone THEN faults ELSE faults + 1
  /\ run' = [run EXCEPT ![o].pc = "add"]
  /\ UNCHANGED <<files, db, buckets, vault, intact, used, runs, edits>>

(* mc admin user add; an empty access key is refused. *)
AddUser(o, heard) ==
  /\ At(o, "add") /\ Secret(o)[2] # Blank
  /\ s3Users' = s3Users \cup {Secret(o)}
  /\ used' = [used EXCEPT !.s3 = @ \cup {Secret(o)}]
  /\ Proceed(o, heard, "attach")
  /\ UNCHANGED <<db, buckets, attached, vault>>

(* Mistake: the refusal is passed over. *)
AddNobodyGoesOn(o) ==
  /\ At(o, "add") /\ Secret(o)[2] = Blank
  /\ run' = [run EXCEPT ![o].pc = "attach"]
  /\ UNCHANGED <<files, db, s3, vault, intact, used, bounds>>

AddNobody(o) ==
  /\ At(o, "add") /\ Secret(o)[2] = Blank
  /\ run' = [run EXCEPT ![o] = Idle]
  /\ UNCHANGED <<files, db, s3, vault, intact, used, bounds>>

(* The policy; an error is passed over. *)
AttachPolicy(o, done) ==
  /\ At(o, "attach")
  /\ done \/ faults < MaxFaults
  /\ attached' = IF done THEN attached \cup {Secret(o)} ELSE attached
  /\ faults' = IF done THEN faults ELSE faults + 1
  /\ run' = [run EXCEPT ![o].pc = "vault", ![o].alone = @ /\ done]
  /\ UNCHANGED <<files, db, buckets, s3Users, vault, intact, used, runs, edits>>

(* Mistake: the path is the group's, not the workload's. *)
GroupPath(w, kind) == <<CHOOSE v \in Workloads : Group(v) = Group(w), kind>>

VaultPath(w, kind) == <<w, kind>>

(* The mapping is read once, before the first path is written. *)
Unparsed(o) == run[o].todo = Entries[run[o].w]

(* A mapping that names an undefined variable ends the seed here, when the *)
(* database and MinIO have long been changed.                              *)
BrokenMapping(o) ==
  /\ At(o, "vault") /\ Unparsed(o) /\ run[o].w \in broken
  /\ run' = [run EXCEPT ![o] = Idle]
  /\ UNCHANGED <<files, db, s3, vault, intact, used, bounds>>

(* One kv put per path, in the order of a Go map; the last one completes   *)
(* the seed.                                                               *)
WriteVault(o, kind, heard) ==
  /\ At(o, "vault") /\ (Unparsed(o) => run[o].w \notin broken)
  /\ kind \in run[o].todo
  /\ heard \/ faults < MaxFaults
  /\ vault' = [vault EXCEPT ![VaultPath(run[o].w, kind)] = Secret(o)]
  /\ faults' = IF heard THEN faults ELSE faults + 1
  /\ LET left == run[o].todo \ {kind}
     IN /\ run' = [run EXCEPT ![o] =
             IF heard /\ left # {} THEN [@ EXCEPT !.todo = left] ELSE Idle]
        /\ intact' = IF heard /\ left = {} /\ run[o].alone /\ Password(Secret(o)) # NoSecret
                     THEN [intact EXCEPT ![Role(o)] = run[o].w] ELSE intact
  /\ UNCHANGED <<files, db, s3, used, runs, edits>>

SeedStep(o) ==
  \/ Abort(o) \/ AddNobody(o) \/ BrokenMapping(o)
  \/ \E ok \in BOOLEAN :
       \/ CreateDatabase(o, ok) \/ SetPassword(o, ok) \/ Grant(o, ok)
       \/ MakeBucket(o, ok) \/ RemoveUser(o, ok) \/ AddUser(o, ok) \/ AttachPolicy(o, ok)
       \/ \E kind \in Kinds : WriteVault(o, kind, ok)

-----------------------------------------------------------------------------
(* A .secret-seed comes, with fresh random values from atlasctl new, or is *)
(* edited, blanked or deleted; a mapping is edited.                        *)
EditSeedFile(r, w, v) ==
  /\ edits < MaxEdits
  /\ edits' = edits + 1
  /\ seedFile' = [seedFile EXCEPT ![r][w] = v]
  /\ UNCHANGED <<user, broken, db, s3, vault, run, intact, used, runs, faults>>

EditMapping(w) ==
  /\ edits < MaxEdits
  /\ edits' = edits + 1
  /\ broken' = IF w \in broken THEN broken \ {w} ELSE broken \cup {w}
  /\ UNCHANGED <<user, seedFile, db, s3, vault, run, intact, used, runs, faults>>

InitConfig(o, cwd, noUser) ==
  /\ InitCommand(o, cwd, noUser)
  /\ edits < MaxEdits
  /\ edits' = edits + 1
  /\ UNCHANGED <<seedFile, broken, db, s3, vault, run, intact, used, runs, faults>>

Next ==
  \/ \E o \in Operators :
       \/ SeedStep(o)
       \/ \E cwd \in Repos \cup {Outside}, noUser \in BOOLEAN :
            \/ InitConfig(o, cwd, noUser)
            \/ \E w \in Workloads, force \in BOOLEAN : Seed(o, w, cwd, noUser, force)
  \/ \E w \in Workloads :
       \/ EditMapping(w)
       \/ \E r \in Repos, v \in Versions \cup {Blank, NoFile} : EditSeedFile(r, w, v)

Spec == Init /\ [][Next]_vars

-----------------------------------------------------------------------------
(* With what Vault holds for it the workload reaches its database and its  *)
(* bucket.                                                                 *)
Works(w) ==
  \E s \in Secrets :
    /\ \A kind \in Entries[w] : vault[<<w, kind>>] = s
    /\ App(w) \in databases \cap granted /\ dbPass[App(w)] = s
    /\ w \in buckets /\ s \in s3Users \cap attached

(* Whatever failed or half done runs came before, a seed that ran to its   *)
(* end, alone at its account, with no error passed over and with a         *)
(* password, leaves credentials that work, and they work until the next    *)
(* seed of an application of that name.                                    *)
IntactWorks == \A w \in Workloads : intact[App(w)] = w => Works(w)

(* Vault never hands out a password the database never had, nor keys MinIO *)
(* never had: it is written last.                                          *)
VaultIsLast ==
  \A p \in DOMAIN vault : vault[p] # NoSecret => vault[p] \in used.db \cap used.s3

(* What works breaks only by a seed of an application of the same name.    *)
BrokenByItsNameOnly ==
  [][\A w \in Workloads : Works(w) /\ ~ Works(w)' =>
       \E o \in Operators : run[o] # run'[o] /\ Busy(o, App(w))]_vars

=============================================================================
