------------------------------ MODULE SealSystem ------------------------------
(***************************************************************************)
(* Seal as deployed: the API replicas and the worker pool around the Redis *)
(* lists.  The lists seal:jobs and seal:results are shared; everything     *)
(* else belongs to one of the two components.                              *)
(***************************************************************************)
EXTENDS SealRedis

CONSTANTS
  Docs, Workers, Signers, NoDoc, MaxJobRetries, DlqReprocessing,
  MaxFailures, MaxCrashes, MaxFaults,
  Replicas, NoResult, ApiOutcomes, MaxApiFaults, MaxApiCrashes

ASSUME SystemAssumption ==
  /\ Signers \subseteq Workers
  /\ NoDoc \notin Docs
  /\ NoResult \notin [doc : Docs, status : {"completed", "failed"}]
  /\ MaxJobRetries \in Nat \ {0}
  /\ DlqReprocessing \in BOOLEAN
  /\ ApiOutcomes \subseteq Outcome
  /\ MaxFailures \in Nat /\ MaxCrashes \in Nat /\ MaxFaults \in Nat
  /\ MaxApiFaults \in Nat /\ MaxApiCrashes \in Nat

VARIABLES
  jobs, results, submitted,
  processing, dlq, stored, pc, job, attempts, published,
  failures, crashes, faults,
  status, creating, popped, apiFaults, apiCrashes

(* The API marshals every job it pushes: none is malformed. *)
Worker == INSTANCE SealWorker WITH Malformed <- {}, EnvOutcomes <- ApiOutcomes
Api == INSTANCE SealApi

workerOnly == <<processing, dlq, stored, pc, job, attempts, published,
                failures, crashes, faults>>
apiOnly == <<status, creating, popped, apiFaults, apiCrashes>>
vars == <<jobs, results, submitted, workerOnly, apiOnly>>

TypeOK == Worker!TypeOK /\ Api!TypeOK

Init == Worker!Init /\ Api!Init

WorkerMove(w) == Worker!WorkerStep(w) /\ UNCHANGED apiOnly
WorkerCrash(w) == Worker!Crash(w) /\ UNCHANGED apiOnly
DlqMove == Worker!Reprocess /\ UNCHANGED apiOnly
ApiMove == Api!Next /\ UNCHANGED workerOnly

Next ==
  \/ \E w \in Workers : WorkerMove(w) \/ WorkerCrash(w)
  \/ DlqMove
  \/ ApiMove

Spec == Init /\ [][Next]_vars

ConsumerMove(r) == Api!Consumer(r) /\ UNCHANGED workerOnly
HandlerMove(r, d) == Api!Handler(r, d) /\ UNCHANGED workerOnly

(* Running goroutines keep running, KEDA and the CronJob do their work; no *)
(* client has to create a document and nothing has to be killed.           *)
Fairness ==
  /\ \A w \in Workers : WF_vars(WorkerMove(w))
  /\ WF_vars(DlqMove)
  /\ \A r \in Replicas : WF_vars(ConsumerMove(r))
  /\ \A r \in Replicas, d \in Docs : WF_vars(HandlerMove(r, d))

FairSpec == Spec /\ Fairness

-----------------------------------------------------------------------------
(* GET .../download never hands out a URL whose object is missing, however *)
(* Redis, the database and the pods fail between upload, result and UPDATE.*)
DownloadHasObject ==
  \A d \in Docs : Api!GetDownloadURL(d) = "url" => stored[d] # "none"

(* Every job and every result belongs to a row of the table: the INSERT    *)
(* commits before the push, so no UPDATE ever misses its row.              *)
QueuedHasRow ==
  /\ \A d \in Elems(jobs) \cup Elems(dlq) : status[d] # "none"
  /\ \A i \in DOMAIN results : status[results[i].doc] # "none"
  /\ \A r \in Replicas : popped[r] # NoResult => status[popped[r].doc] # "none"

(* The worker pool inside the system is the pool SealWorker specifies. *)
PoolIsAWorkerPool == Worker!Spec

(* With one replica the table shows a document the way the contract says:  *)
(* above all "completed" is final although every result overwrites the row.*)
Contract == INSTANCE SealContract WITH view <- status
StatusFollowsContract == Contract!Spec

(* With one replica every accepted document is completed in the end,       *)
(* unless a pod was killed at the wrong moment.  The worst a killed worker *)
(* can do is to leave its job in no list that is ever read again; the      *)
(* worst a killed replica can do is not to push a row it inserted, or to   *)
(* lose the completed result it had popped.                                *)
Abandoned(d) == d \in submitted \ published /\ ~ Worker!Live(d)
NeverPushed(d) == d \notin submitted /\ \A r \in Replicas : d \notin creating[r]
ResultLost(d) ==
  /\ d \in published /\ status[d] # "completed"
  /\ \A i \in DOMAIN results : results[i].doc # d
  /\ \A r \in Replicas : popped[r] # NoResult => popped[r].doc # d
SettledUnlessKilled ==
  \A d \in Docs : status[d] # "none" ~>
    \/ status[d] = "completed"
    \/ crashes > 0 /\ Abandoned(d)
    \/ apiCrashes > 0 /\ (NeverPushed(d) \/ ResultLost(d))

(* Nothing but a kill loses anything, whichever calls of the pods, the     *)
(* replicas and the CronJob interleave: a job is in no list and no hand, a *)
(* row has no push ahead, a completed result is neither in the table nor   *)
(* on its way, only when a worker or a replica was killed.                 *)
OnlyKillsLose ==
  \A d \in Docs :
    /\ Abandoned(d) => crashes > 0
    /\ status[d] # "none" /\ NeverPushed(d) => apiCrashes > 0
    /\ ResultLost(d) => apiCrashes > 0

(* "seal-api consumes it and marks the document completed": once a         *)
(* completed result was pushed the row ends up completed and stays so.     *)
CompletedResultSticks ==
  \A d \in Docs : d \in published ~> [](status[d] = "completed")

(* The verify endpoint's "valid", signed by seal-worker, is true of the    *)
(* stored file.                                                            *)
VerifyTruthful ==
  \A d \in Docs : Api!VerifyDocument(d) = "valid" => stored[d] = "signed"

=============================================================================
