# Verification of Atlas IDP

TLA+ models, TLC runs and TLAPS proofs for the repository's own programs. The
platform itself is mostly declarative (Terraform, Argo CD, Helm, Kyverno); the
programs with state and control of their own are the Seal services
(`apps/seal`), the `atlasctl` CLI (`tools/atlasctl`) and the operational
scripts (`tools`). Seal, `atlasctl` and the Incus scripts are modelled; what is
left out, and why, is under *Not modelled*.

## Inventory

| component | state | operations | hard behaviour | what makes it correct |
|---|---|---|---|---|
| **seal-worker** (Go) | Redis lists `seal:jobs`, `seal:processing`, `seal:dlq`, `seal:results`; bucket `seal-outputs`; the job in hand | BLMOVE a job, make and sign a PDF, upload it, push a result, retry or bury, LREM | many pods; a kill or a scale-down between two calls; the retry count is the length of a shared list; commands repeated or lost | one worker per job; nothing lost; bounded attempts; an object behind every completed result; "completed" is the last word |
| **seal-api** (Go) | table `documents`; the two lists it shares with the workers | POST (INSERT, then RPUSH), GET, download, verify; a background consumer (BLPOP, then UPDATE) in each replica | two replicas; the pop is destructive; a crash or a failure between the two halves of either operation | the status a client sees follows a contract; every accepted document is settled |
| **seal chart** | - | CronJob: LMOVE DLQ to jobs; KEDA: 0..n workers by the length of `seal:jobs` | runs at any time between two calls of a worker | DLQ jobs come back; no duplicate |
| **seal-ui** (Go) | what each page shows, its document id, the attempt the client is at | POST with up to 3 attempts, poll the status, download, verify | a retried POST that is executed after all; an answer that is old when it is rendered | few documents per submission; a page follows its own document; its links work; it stops spinning |
| **atlasctl lifecycle** (Go) | files of a workload in `workloads/` and `gitops/`, routes, gateway listeners, git | new, enable, disable, delete, list, status | a command that stops half way, repeated; names shared by two groups | nothing is left behind; what is enabled is served; what is complete is committed |
| **atlasctl gateway editing** (Go) | the lines of the gateway file | append, find, remove a listener block | prefixes of names, the end of a block | the file stays a sequence of complete blocks |
| **atlasctl seed** (Go) | databases, MinIO users, Vault secrets | provision DB, S3, then Vault | failure between the steps; two operators; names shared by two groups | the secret names working credentials |
| **atlasctl configuration** (Go) | the user's `config.yaml` | load, merge, resolve, init | an init in a second checkout | all paths in one checkout |
| **layer synchronisation** (shell) | the sync and health status of Argo CD applications | sync a layer up to 3 times, settle, gate | status changes between two readings | a green run means healthy layers |
| **Vault seeding** (shell) | secrets in Vault | compare, put or patch, verify | partial failure, rerun | after success all paths hold the file's values |
| **Incus scripts** (shell) | VMs, snapshots, data directories | create, restore, delete, relocate on/off | interrupted loops | no data lost, no mixed restore |
| infra, gitops manifests, policies, templates, CI, test scripts | declarative | - | - | not modelled |

Interactions: the UI calls the API over HTTP; all it sees of the rest of Seal
is the status of a document, which is what `SealContract` is about. The API and the workers share
only two Redis lists: `seal:jobs` (API to workers) and `seal:results` (workers
to API). The CronJob and KEDA act on the lists and on the pods from outside.
Nothing else is shared, so the system model is the composition of two
components over these two lists. `atlasctl` shares nothing with Seal but the
credentials `seed` provides. The workload commands and `seed` meet in
`enable --seed`, which runs the steps of `seed` after its own: a failure there
is the `Stop` of the one and the `Abort` of the other model. The two Incus scripts
share the machine: one stops the service the other one talks to.

## Modules

| module | models | source |
|---|---|---|
| `SealRedis` | the list commands as the Go code uses them, and the four ways a call can end | external, from `worker.go`, `queue.go` |
| `SealWorker` | the worker pool, the CronJob, KEDA, and the API's two moves as its environment | `seal-worker/internal/worker.go`, `storage.go`, `cmd/worker/main.go`, chart |
| `SealApi` | the API replicas: handler, table, results consumer | `seal-api/internal/*.go`, `cmd/api/main.go` |
| `SealContract` | abstract: what the owner of a document is promised | the refinement target |
| `SealSystem` | `SealWorker` and `SealApi` over shared lists | the deployment |
| `SealUi` | browser pages and the client behind them; the rest of Seal is `SealContract` | `seal-ui/internal/client/api.go`, `handlers/document.go` |
| `AtlasGateway` | the listener file as a sequence of lines | `pkg/gateway/gateway.go` |
| `AtlasWorkload` | new, enable, disable, delete, list, status (extends `AtlasGateway`) | `cmd/*.go`, `pkg/gitops/gitops.go` |
| `WorkloadContract` | abstract: absent, scaffolded, enabled | the help texts; the refinement target |
| `AtlasConfig` | where a command works | `pkg/config/config.go`, `cmd/init.go` |
| `AtlasSeed` | seeds of several operators (extends `AtlasConfig`) | `cmd/seed.go`, `pkg/seed`, `pkg/vault`, `pkg/k8s` |
| `IncusBox` | relocation and snapshots on one machine | `tools/incus/*.sh` |
| `MCSealWorker`, `MCSealSystem`, `MCAtlasWorkload`, `MCAtlasSeed`, `MCIncusBox` | instances for TLC | - |
| `SealRedisProofs` | lemmas about lists | - |
| `SealWorkerProofs`, `SealRecoveryProofs` | theorems about the pool | - |
| `SealSystemProofs` | theorems about the composition | - |
| `SealUiProofs`, `AtlasWorkloadProofs`, `AtlasSeedProofs`, `IncusBoxProofs` | theorems about these components | - |

### How the state of Seal corresponds to the code

A Redis list is a sequence whose head is the left end; `seal:processing` is
only ever counted (LLEN), added to (BLMOVE) and cleared of a value (LREM 0),
so it is the number of copies of each job. A job message is its document id:
the text and the trace parent never influence the control. `pc[w]` is the call
worker `w` makes next, so every Redis or MinIO call is a step of its own and
everything can happen between two of them:

    idle -Take-> produce -> upload -> publish -> remove -> idle
                    \         \-> report -> count -> requeue -> idle
                     \--------/              \-> bury -> remove
    idle -Take (malformed message)-> remove

`stored[d]` is the object `<id>.pdf` (none, unsigned, signed), `status[d]` the
row (none, pending, completed, failed), `creating[r]` the rows replica `r` has
inserted and not pushed yet, `popped[r]` the result its consumer has in hand.
`submitted`, `attempts`, `published` are history; `failures`, `crashes`,
`faults`, `apiFaults`, `apiCrashes` count what the bounds limit.

*Outcomes.* go-redis repeats a command after a network error unless MaxRetries
says otherwise, and neither service sets it. So a command ends in one of four
ways: applied ("ok"), applied twice with success ("twice"), not applied with
an error ("lost"), applied with an error ("torn"). The two applications of a
repeated command follow each other at once: nothing else happens between them.
A BLMOVE that is repeated on a list it has just emptied times out, and its job
is left in `seal:processing` while the worker asks for the next. Each action
treats the error the way the code does: it ends the worker's process (BLMOVE),
goes to the DLQ (LLEN, LPUSH), or is only logged (pushResult, LPUSH to the DLQ, LREM,
RPUSH of the API, UPDATE).

*Kills.* main of the worker does not wait for `Run`, and a job in progress at
SIGTERM makes its remaining calls with a cancelled context, all of which fail
before they reach the server. A roll-out, a scale-down and a crash are thus
one action, `Crash`: the job in hand is forgotten, the lists stay. It may
happen before any call. The API's `CrashReplica` is the same for a request
between INSERT and RPUSH and for a popped result.

*Abstractions.* PDF generation, signing and the empty-text check touch only
the worker: one step with two ends. The three PutObject attempts of an upload
are one step: they write the same object, and when all fail the object may be
there or not. `UPDATE` and `INSERT` are single statements. Metrics, tracing,
health endpoints and configuration change no modelled state.

*UI.* A page is one submission and its result area. `page[p]` is what it shows
(`form`, `spinner`, `download`, `failed`, `refused`, `frozen`) or the call its
handler is waiting for (`posting`, `asking`). The client's loop repeats a call
until it is answered or `MaxRetries` attempts failed; a failed POST may have
been executed (`CreateUnheard`), may be executed later (`LateCreate`), or never.
Only what `doRequest` itself notices is repeated: no answer, or a status of 500
and more. Another unexpected status, or a body that cannot be decoded (the client's
timeout may strike while it is read), ends the call at once: `CreateRejected`,
`CreateUnread` (the 201 has made its row) and `GetUnusable`; `unusable` is the
history of the pages that got such a reply. `refused` and `frozen` are the 500 that htmx does not swap in. `view` moves as
`SealContract` lets it, and `answer[p]` is the status between the client's GET
and the rendered fragment. A document id is chosen by the API at random: the
model takes any free one.

### How the state of atlasctl corresponds to the code

*Workload commands.* `dirs`, `manifest`, `resources`, `routes` and `gateway` are
the files the commands touch; `index`, `head` and `pushed` are git. `cmd` is the
command under way and the step it is at:

    new      render each template, then .secret-seed
    enable   manifest -> sync (file by file) -> route -> listener -> commit -> push
    disable  unlisten -> unmanifest -> unresource -> unroute -> uncommit -> push
    delete   erase, file by file

`Stop` ends a command between any two steps: a kill and a file or git operation
that fails are the same for the files. What the code ignores is modelled as
ignored: an error of RemoveAll, of `git add` in disable, of `git commit`
everywhere. `disable` stages the group's directory, so the other workloads of
the group come along, and when one of the paths it lists is unknown git stages
nothing. Between commands the operator edits a workload directory (`Edit`).
`half` and `served` are history: the workloads some command left half done, and
those whose last complete command was an enable with a gateway. A listener is
found by substring (`HasListenerInFile`, by `Prefixes`) and removed by its exact
marker, up to the next line that is indented no deeper than a marker. The
listeners are taken to be the last section of the file, as they are in the
repository's, and one write of the file is atomic. `status` reports the features
whose files the model has; a Vault policy, a `gateway.yaml` outside `infra` and a
monitoring rule are not among them (`status.go:22-38`).

*Seed.* One variable per kind of object a seed changes: databases, passwords and
grants of the roles (named by the application only), buckets, MinIO users and
their policy, Vault paths. The values in a `.secret-seed` are abstracted to the
workload and the version they come from. `--force` lets a file with an empty value
through (`seed.go:160-174`): without an S3 key MinIO refuses the user (`Blank`), while an empty
`REDIS_PASSWORD` or `DB_PASSWORD` (`Incomplete`, `Passwordless`) goes on to Vault, and
PostgreSQL takes an empty password for none (`Password`). Every command that changes something is
an action and may succeed, fail with its effect (`heard` is FALSE) or without
(`Abort`). The question that some of them ask first in an exec of its own (is there such a
database, role, bucket, MinIO user: `seed.go:181-266`) is one step with the
command, and so are the two GRANTs: a question that fails is `Abort`, and so is the
CREATE of the slower of two operators who asked at the same time;
removal of the old user and the policy pass over an error, as in the code. The
mapping is parsed when the Vault step begins (`BrokenMapping`). Several
operators run at once, each with a configuration of their own: `Load` gives the
checkout whose `.secret-seed` is read. `intact[a]` is history: the workload
whose seed ran last at application `a`, alone and to its end.

### How the state of IncusBox corresponds to the scripts

`link[d]` is what is at the local path of a directory (nothing, a directory, the
link to the box, a link elsewhere, something else), `local[d]` and `box[d]` hold
the version of each file in the two places. rsync moves one file per step; the
script may be killed before each, and between `rm -rf` and `ln`. People write
into the directories meanwhile, somebody or a reboot starts Incus, and Incus
makes a fresh `database` where it finds none. A link elsewhere, which `on` repoints
with a warning (`atlas-relocate.sh:60-67`), is taken to hold no data and not to be
written through: what lies at its old target the script leaves there, and Incus no
longer sees it, so nothing said below is about it. `latest` is history: the version
last written. `split` is history: the directories that were written to, or
used by Incus, while their data was in two places; what they hold afterwards no
script could put together. `running`, `disk` and `snaps` are the VMs;
`incus-control.sh` sees them while Incus runs on the database they are in.
`clean` is history: no control run has failed and none found a VM down.

## Runs

| run (cfg) | instance | checks | result |
|---|---|---|---|
| worker_pool (`MCWorkerPool`) | 2 documents, 2 workers, 3 failures, 1 kill, CronJob on, reliable Redis | `TypeOK`, `OnePlace`, `CompletedIsLast`, `CompletedHasObject` | hold, 74 113 states |
| worker_recovery (`MCWorkerRecovery`) | 2 documents and a malformed message, 2 workers, 4 failures, 2 kills, CronJob off | `HeldIsRecorded`, `NothingLost`, `AttemptsBounded` | hold, about 238 000 states |
| system (`MCSystem`) | 2 documents, 2 workers, 1 replica, 2 failures, 1 kill of each kind, fairness | `OnlyKillsLose`, `StatusFollowsContract`, `SettledUnlessKilled`, `PoolIsAWorkerPool` | hold, about 159 000 states |
| system_faulty (`MCSystemFaulty`) | 2 documents, 1 worker, 2 replicas, all four outcomes, 1 fault on each side, 1 kill of each kind | `TypeOK`, `DownloadHasObject`, `QueuedHasRow` | hold, 1.25 million states |
| seal_ui (`MCSealUi`) | 2 pages, 3 documents, 2 attempts per call, 3 failed attempts per page, fairness | `TypeOK`, `FewRowsPerSubmission`, `PageShowsOwnRow`, `DownloadLinksWork`, `RetriesMaskFaults`, `SettledIsShown` | hold, 553 714 states |
| atlas_workload (`MCAtlasWorkload`) | 3 workloads of 2 groups, two with the same application name, which a platform listener's name starts with; 3 commands, 1 edit, 1 fault | `TypeOK`, `NoResidue`, `RoutesInUse`, `ListenersInUse`, `GatewayWellFormed`, `EnabledIsServed`, `CompleteIsCommitted`, `LifeFollowsContract`, `ListenerLeavesWithItsApp` | hold, about 961 000 states |
| atlas_seed (`MCAtlasSeed`) | 2 operators, 2 checkouts, 3 workloads, two with the same application name; `.secret-seed` files that are whole, without a Redis or database password, or without an S3 key; 2 seeds, 1 edit, 1 fault | `TypeOK`, `IntactWorks`, `VaultIsLast`, `OneCheckout`, `BrokenByItsNameOnly` | hold, 167 399 states |
| incus_box (`MCIncusBox`) | 2 directories of 2 files, 2 VMs, 1 snapshot name, 3 relocations, 2 control runs, 1 write or start by hand, 1 fault | `TypeOK`, `OnIsWhole`, `IncusSeesItsData`, `RestoreIsWhole`, `OneVMDown`, `BoxNeverGoesBack` | hold, 2.96 million states |
| worker_retry_count (`MCWorkerRetryCount`) | 2 workers, 4 failures, no kill, no CronJob | `DlqAfterAllRetries` | violated |
| worker_shutdown (`MCWorkerShutdown`) | 1 document, 2 workers, 1 kill, fairness | `InFlightIsFinished` | violated |
| system_result_order (`MCSystemResultOrder`) | 1 document, 1 worker, 2 replicas, no kill, no fault, fairness | `CompletedResultSticks` | violated |
| system_verify (`MCSystemVerify`) | a worker without a certificate | `VerifyTruthful` | violated |

What the properties say beyond the comments in the modules:

- `OnePlace` is the heart of the pool: retries, DLQ, CronJob and kills move a
  job between three places and four actors, and it never is in two.
- `CompletedIsLast` and `StatusFollowsContract` say the same thing at the two
  ends of `seal:results`. The UPDATE is unconditional, so the order of the
  results is all that keeps "completed" final. With two replicas the order is
  lost between pop and update, which is what system_result_order shows.
- `NothingLost` is about Redis, `SettledUnlessKilled` about the client: it
  lists the only three ways a document can stay unsettled when no command
  fails (`Abandoned`, `NeverPushed`, `ResultLost`), each after a kill. Its
  fairness-dependent part is that the CronJob and the retries end. Its safety
  core, that none of the three comes about without a kill, is `OnlyKillsLose`,
  which is proved.
- `HeldIsRecorded` and `NothingLost` hold with the CronJob off. With it on,
  the CronJob can move a job back between `LPUSH seal:dlq` and `LREM`, another
  worker can take it, and the LREM of the first removes the copy of the
  second; a kill of the second worker then loses the job. That is one of the
  cases of `Abandoned`.
- `OnePlace`, `CompletedIsLast` and the liveness properties are claimed for
  commands that end "ok": a repeated RPUSH queues a job twice and a lost LPUSH
  to the DLQ drops one. `DownloadHasObject`, `CompletedHasObject` and
  `QueuedHasRow` are claimed, and proved, for every outcome.
- `DownloadHasObject` has no clock: an object never leaves the bucket. The
  30-day retention of `seal-outputs` that the documentation names
  (`apps/seal/doc/architecture.md:246`) is not configured (`purge: false`,
  `gitops/platform/storage/minio.yaml:38-40`); if it were, completed rows would
  outlive their files.
- `FewRowsPerSubmission`: a POST is not idempotent, and the client repeats it, so
  one click may leave up to `MaxRetries` documents. That is the bound, also
  counting the requests that are still alive in the API. `PageShowsOwnRow` says
  the page never follows another one's document, `RetriesMaskFaults` what the
  retries are for: fewer failures than attempts are not seen. It excepts the
  replies the client does not repeat, a status below 500 other than the expected one
  and a body it cannot decode (`api.go:71-79`, `93-101`): one of them is enough
  to refuse or freeze the page.
- `SettledIsShown` lets the page end at "failed" or frozen: the fragment of a
  failed status has no trigger, so a completion by a retry or the CronJob is
  not shown on a page that saw the failure.
- `NoResidue`, `RoutesInUse`, `ListenersInUse`: whatever sequence of commands,
  half-done ones included, has no residue that no workload accounts for. They
  except the workloads some command left half done, which is exactly the set
  an operator has to look at after an error.
- `EnabledIsServed` is claimed of a workload whose name is its own. The exception
  is the code's: routes and listeners are keyed by the application alone, and a
  listener is looked for by substring. Without the second conjunct of `OwnName`
  TLC answers with one command: enabling `s3` beside the platform's
  `s3-console` finds `- name: https-s3` in `- name: https-s3-console`
  (`gateway.go:94`) and completes without a listener.
- `CompleteIsCommitted` names the two ways `--sync` can complete and commit
  nothing: a failure of `git commit` (taken for "nothing to commit"), and a
  route that was never tracked, which makes `git add` in disable fail as a
  whole. It is about `--sync`: `--push` without `--sync` does nothing, although
  its help says that it implies `--sync` (`enable.go:136`).
- `LifeFollowsContract` is a refinement: every step of the files maps to one of
  four moves, so no interleaving of kills and reruns makes an enabled workload
  without a directory.
- `IntactWorks` and `BrokenByItsNameOnly` say what a seed is worth: after a failed
  one, rerun it; it works until someone seeds a workload of that name, of any
  group. `VaultIsLast` is the order the steps must keep. Two successes are
  excepted: an ignored policy error, and a forced seed with an empty `DB_PASSWORD`,
  which reports that it is complete and leaves a user that cannot log in.
- `OneCheckout` is what makes the configuration usable at all. It holds when the
  checkout's `atlasctl.yaml` leaves the paths relative or puts all of them in one
  checkout (`OverlayInOnePlace`); absolute paths into different places, which the
  code accepts (`config.go:124-131`), are what was asked for. It does not say
  *which* checkout: a second `init` saves the paths of the first again, because
  the configuration it saves was loaded with the old one merged in
  (`init.go:41`).
- `OnIsWhole` and `IncusSeesItsData` claim that interruption loses nothing: a
  rerun finishes the move. The exception `split` is no rarity. `off` starts
  Incus on an empty directory, where it makes a database, and the next `on` moves
  that one over the database on the box; so with Incus in use `on` does not
  "restore the previous state instantly" (`atlas-relocate.sh:18-19`).
  `BoxNeverGoesBack` is what remains true then: what replaces a file is newer.
- `RestoreIsWhole` and `OneVMDown`: restore works VM by VM, so a failure leaves
  the VMs before on the snapshot, at most one down and the others as they were.
  Its first half holds always; the second needs that no VM was down at `create`,
  since only running VMs get the snapshot.

### What the properties do not catch

Each exception above is a hole, and these are the failures that fall through:

- a failed LPUSH to the DLQ or RPUSH of a job, after which the document stays
  pending (`worker.go:263`, `handler.go:97`): the properties about lost jobs are
  claimed for commands that end ok, `DownloadHasObject` and `QueuedHasRow` for all;
- what an interrupted `enable` or `disable`, or one whose RemoveAll failed,
  leaves behind (`half`), and that the rerun of such a `disable` is refused;
- what two groups with one application name, or names of which one starts with
  the other, do to each other's routes and listeners (`OwnName`);
- a seed whose own steps fail, whose policy was not attached, or which ran beside
  another one of that name (`intact`): until a rerun the credentials may not work;
- data written into a directory while it is moved, the fresh database after
  `off` (`split`), mixed ages after a failed restore (`clean`), and a VM that a
  relocation left down.

### Findings

1. **Shutdown** (`main.go:99`): the log says "finishing in-flight job", the job
   is abandoned and its copy in `seal:processing` is never read again.
2. **Retry count** (`worker.go:244`): `maxJobRetries` is compared with the
   number of copies of all jobs in flight, so a job may reach the DLQ before
   its third attempt. Orphans of killed workers count too, for ever.
3. **Order of results** (`repository.go:81`): with two API replicas a failed
   result may overwrite the completed one that followed it.
4. **Verification** (`handler.go:192`): "valid" is answered for every completed
   document, also for one uploaded unsigned.

### Bounds

`MaxJobRetries` is the code's 3. Failures, kills and faults are bounded by
`MaxFailures`, `MaxCrashes`, `MaxFaults`, `MaxApiFaults` and `MaxApiCrashes`
in the guards of the actions that cause them. Three failures bring one job
through all its retries into the DLQ and back through the CronJob; four leave
one more for the other job. Two workers and two documents are the smallest
instance in which one job's retry count is disturbed by another job and in
which the CronJob's race with LREM needs a second worker; two replicas are the
smallest in which results are reordered. One fault per side reaches every
branch on an error, and a repeated or lost command at every call. The safety
properties of the pool for any number of pods and documents are proved.

For the UI `MaxRetries` is 2 where the code has 3: nothing in the model depends
on the number but the comparison with it, the theorems hold for every value,
and with three documents and two pages one page can then leave two rows while
the other one still gets its own. Three failed attempts per page are one more
than a call survives. For the workloads (`MaxCommands`, `MaxEdits`,
`MaxFaults`) three commands are enable, disable and a rerun, or two workloads
of one name and a third command on either; one edit makes a manifest come or go
between two of them. For the seeds (`MaxRuns`, `MaxEdits`, `MaxFaults`) two runs
are a failure and its rerun, or two operators at one account, or two groups
with one name. For the machine (`MaxMoves`, `MaxRuns`, `MaxWrites`,
`MaxFaults`) three relocations are on, off and on, or an interrupted on, its
rerun and an off; two control runs are a create and its restore, either of which may
be cut. The same properties hold, in a separate check, with four control runs and one
relocation.
Deadlock checking is off: the system stops when all documents are settled and
the bounds are used up.

### Fairness

`WF(WorkerStep(w))` for every worker: a running goroutine keeps running, and
KEDA starts workers while `seal:jobs` is not empty. `WF(Reprocess)`: the
CronJob runs on schedule. `WF` of each replica's consumer and of a request
that has inserted its row. Nothing is assumed of clients, and kills are never
fair, so a liveness property cannot rely on them. In a fair run failures end
because the bound on them does; with failures for ever no document need ever
be completed.

In `SealUi` the browser fires its trigger (`WF(Poll(p))`) and a status request
is carried out (`WF(Asking(p))`: answered, failed or rendered); nobody has to
submit a form and no document has to change. Nothing is assumed of operators: a
command of `atlasctl` or a script may stop for ever, so those models have safety
properties only.

## Proofs

All theorems hold for every value of the constants that satisfies
the assumption of their module (`WorkerAssumption`, `SystemAssumption`,
`UiAssumption`, `GatewayAssumption` and `WorkloadAssumption`, `ConfigAssumption`,
`SeedAssumption` and `BoxAssumption`): any number of documents, pods, workloads, operators,
failures, kills and faults.

| theorem | states | argument |
|---|---|---|
| `TypeCorrect` | `Spec => []TypeOK` | `TypeInv` = `TypeOK` and `HandsFull` (a worker past BLMOVE has a job): without the second the pushes could push `NoDoc` |
| `CompletedObjectExists` | `Spec => []CompletedHasObject`, all outcomes | `ObjectInv` adds `UploadedFirst`: at `publish` the object is stored |
| `JobInOnePlace` | `Reliable => (Spec => []OnePlace)` | `PlaceInv` adds `Known`: lists and hands contain submitted jobs only, which is what makes a fresh job fresh |
| `CompletedIsFinal` | `Reliable => (Spec => []CompletedIsLast)` | `LastInv` adds that a completed result in the list is published and that a published document was submitted; uses `OnePlace` to know that nobody else has the job being published |
| `JobInHandIsRecorded` | `Reliable /\ ~ DlqReprocessing => (Spec => []HeldIsRecorded)` | `RecordInv` adds `Removing` to `PlaceInv`: LREM is only called for a job that nobody holds or will take. The CronJob breaks exactly that |
| `NoJobLost` | `Reliable /\ ~ DlqReprocessing => (Spec => []NothingLost)` | the same invariant: such a job is buried, published or malformed, so clearing its copies loses nothing |
| `AttemptsAreBounded` | `Reliable /\ ~ DlqReprocessing /\ IsFiniteSet(Docs) => (Spec => []AttemptsBounded)` | a job that is waiting or in hand has as many copies in `seal:processing` as it had attempts (a retry leaves the old copy there), so the length of the list that `handleFailure` reads, the sum over all jobs, is at least the attempts at this one: the code may give up early, never late. That the sum, a fold over the documents, is no less than a term of it is shown from a least counterexample among the finite subsets of `Docs`, in place of an induction |
| `SystemTypeCorrect`, `QueuedDocumentsHaveRows`, `DownloadsWork` | the composed system, all outcomes: `[]TypeOK`, `[]QueuedHasRow`, `[]DownloadHasObject` | `SystemInv` = the pool's `ObjectInv`, the API's types, `Rows` (a document that is queued, held, reported or popped was inserted) and `Shown` (a completed row or popped result was published). The chain object - published - result - row is four variables of two components; no part of it is inductive alone |
| `PoolInSystem` | `Spec => PoolIsAWorkerPool` | each step of the API is one of the two environment moves of `SealWorker`, or none, with `SystemInv` for the types |
| `TableKeepsContract` | `Pool!Reliable /\ OneReplica => (Spec => StatusFollowsContract)` | step simulation under `ContractInv`: the pool's `LastInv` (its completed result is the last one pushed of a document) and `FinalInv`, which carries that order through the list, the replica's hand and the row: a completed row has no result left anywhere, a completed result in hand none behind it. `OneReplica` (at most one) is needed in the middle: two hands have no order, see finding 3 |
| `KillsAloneLose` | `Pool!Reliable /\ OneReplica => (Spec => []OnlyKillsLose)` | `KillInv` adds `LossInv` to `ContractInv`: with no worker killed every submitted document is finished or in a list or hand (`Kept`); with no replica killed every row was pushed or is about to be, and every published document's completed result is in the list, in hand or in the table. The CronJob may be on: what a raced LREM removes is only the copy in `seal:processing`, and its job is still in a hand as long as nobody is killed |
| `UiTypeCorrect`, `SubmissionsAreBounded`, `PagesShowTheirOwn`, `LinksWork`, `FaultsMasked` | the five invariants of `SealUi` | one invariant per page (`PageInv`) over its phase: rows + requests alive + attempts made never exceed `MaxRetries`, which needs that the owner of a row never changes (`RowsGrow`); a page that is refused or frozen has used up its attempts or is in `unusable` |
| `WorkloadsTypeCorrect`, `GatewayStaysWellFormed`, `NothingIsLeftBehind`, `RoutesHaveAnOwner`, `ListenersHaveAnOwner`, `ServedStaysServed`, `CompleteMeansCommitted` | the seven invariants of `AtlasWorkload` | one invariant: types, `Directories` (an enabled workload has one), and one conjunct per command that says what is already done at each of its steps (`Enabling`, `Disabling`, `Committed`, `Serving`, `Belonging`). The lemmas under it are about blocks of lines: what adding and removing one does to a well-formed file |
| `CommandsFollowTheContract` | `Spec => LifeFollowsContract` | step simulation under `Life`: only CopyManifest, RemoveManifest, New and the last step of Erase move a workload |
| `OnlyItsOwnListenerLeaves` | `Spec => ListenerLeavesWithItsApp` | from well-formedness: the block that is cut holds no other marker |
| `TypeCorrect`, `PathsInOneCheckout`, `SecretsWereUsed`, `OnlyItsNameBreaksIt`, `IntactSeedWorks` (`AtlasSeedProofs`) | the properties of `AtlasSeed` | for `OneCheckout` that, with `OverlayInOnePlace`, a saved configuration is wholly unset or wholly one checkout's; for `IntactWorks` that a run that is alone has, at each of its steps, what the steps before it made |
| `BoxTypeCorrect`, `BoxHasTheData`, `IncusHasItsData`, `BoxOnlyGrows` | `[]TypeOK`, `[]OnIsWhole`, `[]IncusSeesItsData`, `BoxNeverGoesBack` of `IncusBox` | `DataInv`, about the files: `Newest` (what lies below the local path is at least as new as the box, and with nothing there the box has the newest), for each step of a relocation what holds at it (`Rsyncing`, `Linking`, `Making`), that the directories `on` is done with are links, and that Incus is down during a move. A kill or an error between any two steps leaves `Newest` alone, which is why a rerun finishes the move |
| `RestoreRestores`, `RestoreRolls` | `[]RestoreIsWhole`, `[]OneVMDown` | `SnapInv`, about the VMs: at most the VM in hand is down (`Restoring`), and while no run failed the snapshots of one name are of one create, those the create under way has still to replace aside (`OneCreate`). The cardinality comes from the set of downed VMs being empty or that one VM |

`Reliable` is `MaxFaults = 0` and `EnvOutcomes = {"ok"}`; in the system
(`Pool!Reliable`) the environment is the API, so it also says that
`ApiOutcomes` is `{"ok"}`. Errors of a signer, kills of workers and replicas and
the CronJob remain. `OneReplica` is the chart's default (`replicaCount: 1`,
`charts/seal/values.yaml:22`), the time of a rollout aside, when an old and a new
pod overlap. `IsFiniteSet(Docs)` holds because a document is named by a UUID.
Each proof has one lemma for each action, or group of
actions, that disturbs the invariant and a "quiet step" lemma for the others.
The list lemmas (`LPushOk`, `RPushOk`, `DropElems`, `DropKeeps`, `DropHead`,
`PopHead`) are in `SealRedisProofs`. TLC checked each inductive invariant on
an instance before it was proved.

Every safety and action property of a passing run is a theorem. Only
model-checked is what needs fairness, which is out of the prover's reach:
`SettledUnlessKilled` and `SettledIsShown`.

## Not modelled

- The bytes of PDFs and signatures, HTTP and JSON details, tracing, metrics, and
  the services' configuration; Redis persistence and fail-over (a Redis that
  forgets its lists loses jobs by definition).
- Of `atlasctl`: `backup` and `logs` (one resource applied, one log printed), the
  prompts and dry runs (nothing changes), the contents of the templates, a
  `gateway.yaml` that is only half written when the tool is killed, and a mapping
  that names a path outside the workload's own.
- Of the Incus scripts: `list` and `status`, which print. A relocation is taken
  not to disturb the VMs that run; what `incus stop` and `start` do to a VM that
  is already down or up is that of Incus.
- The layer synchronisation (`sync-layers.sh`, `wait-layer.sh`): one `argocd` or
  `kubectl` call after the other, whose interesting state is Argo CD's. Reading it
  one notices that its final gate rejects a list of bad states, so that a layer
  that is still progressing passes (`sync-layers.sh:150`).
- The Vault seeding scripts: write, read back and compare, path by path, from the
  start when it fails.
- The declarative parts: Terraform, Argo CD applications, Helm values, Kyverno
  policies, workload templates; CI workflows and platform tests.

## What could follow

1. `EnabledIsServed` for shared names: which of two groups wins, and what the
   other one's `disable` takes from it.
2. `LayerSync`, against an environment of layers that change their state.
