------------------------------ MODULE SealWorker ------------------------------
(***************************************************************************)
(* The seal-worker pool (src/apps/seal/seal-worker) with the Redis lists   *)
(* and the MinIO bucket it works on, the DLQ CronJob, and the two moves of *)
(* its environment: the API appends a job, the API pops a result.          *)
(*                                                                         *)
(* Every Redis or MinIO call of Worker.process is a step of its own, since *)
(* other workers, the CronJob and a kill of the pod can come in between.   *)
(***************************************************************************)
EXTENDS SealRedis, FiniteSets, Functions

CONSTANTS
  Docs,             \* document ids, one job message each
  Malformed,        \* ids whose message is not JSON or not a UUID
  Workers,          \* worker pods
  Signers,          \* the pods that found a certificate at start-up
  NoDoc,            \* no job in hand
  MaxJobRetries,    \* maxJobRetries
  DlqReprocessing,  \* .Values.cronjob.enabled
  MaxFailures,      \* bound: PDF, signing and upload failures
  MaxCrashes,       \* bound: pods killed while running
  MaxFaults,        \* bound: the workers' Redis commands that end not "ok"
  EnvOutcomes       \* the outcomes of the API's Redis commands

ASSUME WorkerAssumption ==
  /\ Malformed \subseteq Docs
  /\ Signers \subseteq Workers
  /\ NoDoc \notin Docs
  /\ MaxJobRetries \in Nat \ {0}
  /\ DlqReprocessing \in BOOLEAN
  /\ EnvOutcomes \subseteq Outcome
  /\ MaxFailures \in Nat /\ MaxCrashes \in Nat /\ MaxFaults \in Nat

VARIABLES
  jobs,        \* seal:jobs
  processing,  \* seal:processing: copies of each job (its order is never read)
  results,     \* seal:results
  dlq,         \* seal:dlq
  stored,      \* the object <id>.pdf in bucket seal-outputs
  pc,          \* the call each worker is about to make
  job,         \* the message each worker holds
  submitted,   \* history: ids PushTask was called for
  attempts,    \* history: times a job was taken since it was queued afresh
  published,   \* history: ids a completed result was pushed for
  failures, crashes, faults   \* history: what the bounds count

queues == <<jobs, processing, results, dlq>>
history == <<submitted, attempts, published>>
budget == <<failures, crashes, faults>>
workerVars == <<queues, stored, pc, job, history, budget>>

Result == [doc : Docs, status : {"completed", "failed"}]
Objects == {"none", "signed", "unsigned"}

(* The calls at which a worker is responsible for its job: from BLMOVE to  *)
(* the call that hands the job on or ends it.  A worker about to LREM has  *)
(* already done that.                                                      *)
Owning == {"produce", "upload", "publish", "report", "count", "requeue", "bury"}
Labels == Owning \cup {"down", "idle", "remove"}

TypeOK ==
  /\ jobs \in Seq(Docs) /\ dlq \in Seq(Docs)
  /\ processing \in [Docs -> Nat]
  /\ results \in Seq(Result)
  /\ stored \in [Docs -> Objects]
  /\ pc \in [Workers -> Labels]
  /\ job \in [Workers -> Docs \cup {NoDoc}]
  /\ submitted \subseteq Docs /\ published \subseteq Docs
  /\ attempts \in [Docs -> Nat]
  /\ failures \in Nat /\ crashes \in Nat /\ faults \in Nat

(* KEDA keeps no worker while seal:jobs is empty. *)
Init ==
  /\ jobs = <<>> /\ results = <<>> /\ dlq = <<>>
  /\ processing = [d \in Docs |-> 0]
  /\ stored = [d \in Docs |-> "none"]
  /\ pc = [w \in Workers |-> "down"]
  /\ job = [w \in Workers |-> NoDoc]
  /\ submitted = {} /\ published = {}
  /\ attempts = [d \in Docs |-> 0]
  /\ failures = 0 /\ crashes = 0 /\ faults = 0

-----------------------------------------------------------------------------
(* A command with outcome o, within the bound on faults. *)
Command(o) ==
  /\ o = "ok" \/ faults < MaxFaults
  /\ faults' = IF o = "ok" THEN faults ELSE faults + 1
  /\ UNCHANGED <<failures, crashes>>

Goto(w, l) == pc' = [pc EXCEPT ![w] = l]

(* process returns: the loop of Run asks for the next job. *)
Done(w) ==
  /\ pc' = [pc EXCEPT ![w] = "idle"]
  /\ job' = [job EXCEPT ![w] = NoDoc]

(* process failed before anything was stored: a failed result comes next. *)
Fail(w) ==
  /\ failures < MaxFailures
  /\ failures' = failures + 1
  /\ Goto(w, "report")

-----------------------------------------------------------------------------
(* Mistake: LPOP instead of BLMOVE. *)
TakeUnrecorded(w, o) ==
  /\ pc[w] = "idle"
  /\ Len(jobs) >= Times(o)
  /\ Command(o)
  /\ jobs' = SubSeq(jobs, Times(o) + 1, Len(jobs))
  /\ attempts' = [attempts EXCEPT ![Head(jobs)] = @ + 1]
  /\ job' = [job EXCEPT ![w] = Head(jobs)]
  /\ Goto(w, "produce")
  /\ UNCHANGED <<processing, results, dlq, stored, submitted, published>>

(* BLMOVE seal:jobs seal:processing LEFT RIGHT.  An error ends Run and the *)
(* process; if the server had moved the job, nobody holds it.  A command   *)
(* sent twice orphans the first job and brings the second; with no second  *)
(* it times out, Run asks again and the first job is an orphan too.        *)
Take(w, o) ==
  /\ pc[w] = "idle"
  /\ Len(jobs) >= Times(o)
  /\ Command(o)
  /\ LET d == jobs[Times(o)]
         copies(x) == Cardinality({i \in 1 .. Times(o) : jobs[i] = x})
     IN  /\ jobs' = SubSeq(jobs, Times(o) + 1, Len(jobs))
         /\ processing' = [x \in Docs |-> processing[x] + copies(x)]
         /\ attempts' = [x \in Docs |-> attempts[x] + copies(x)]
         /\ \/ IsError(o) /\ Goto(w, "down") /\ UNCHANGED job
            \/ o = "torn" /\ Len(jobs) = 1 /\ UNCHANGED <<pc, job>>
            \/ /\ ~ IsError(o)
               /\ job' = [job EXCEPT ![w] = d]
               /\ Goto(w, IF d \in Malformed THEN "remove" ELSE "produce")
  /\ UNCHANGED <<results, dlq, stored, submitted, published>>

(* Mistake: the result is announced before the upload. *)
ProduceThenPublish(w) ==
  /\ pc[w] = "produce"
  /\ Goto(w, "publish")
  /\ UNCHANGED <<queues, stored, job, history, budget>>

(* The empty-text check, GeneratePDF and Sign touch only this worker. *)
Produce(w) ==
  /\ pc[w] = "produce"
  /\ \/ Goto(w, "upload") /\ UNCHANGED failures
     \/ Fail(w)
  /\ UNCHANGED <<queues, stored, job, history, crashes, faults>>

(* Mistake: the error of Upload is not looked at. *)
UploadUnchecked(w) ==
  /\ pc[w] = "upload"
  /\ stored' \in {stored, [stored EXCEPT ![job[w]] = "signed"]}
  /\ Goto(w, "publish")
  /\ UNCHANGED <<queues, job, history, budget>>

(* Storage.Upload: three PutObject attempts.  When all of them fail the    *)
(* object may have been written all the same.                              *)
Upload(w) ==
  /\ pc[w] = "upload"
  /\ LET put == [stored EXCEPT ![job[w]] =
                   IF w \in Signers THEN "signed" ELSE "unsigned"]
     IN  \/ stored' = put /\ Goto(w, "publish") /\ UNCHANGED failures
         \/ stored' \in {put, stored} /\ Fail(w)
  /\ UNCHANGED <<queues, job, history, crashes, faults>>

(* Mistake: no return after a success, retryOrDLQ runs as well. *)
PublishAndRetry(w, o) ==
  /\ pc[w] = "publish"
  /\ Command(o)
  /\ results' = RPush(results, [doc |-> job[w], status |-> "completed"], o)
  /\ published' = published \cup {job[w]}
  /\ Goto(w, "count")
  /\ UNCHANGED <<jobs, processing, dlq, stored, job, submitted, attempts>>

(* pushResult after a success: an error is logged and the job still ends. *)
Publish(w, o) ==
  /\ pc[w] = "publish"
  /\ Command(o)
  /\ results' = RPush(results, [doc |-> job[w], status |-> "completed"], o)
  /\ published' = IF o = "lost" THEN published ELSE published \cup {job[w]}
  /\ Goto(w, "remove")
  /\ UNCHANGED <<jobs, processing, dlq, stored, job, submitted, attempts>>

(* pushResult after a failure: its error is ignored. *)
Report(w, o) ==
  /\ pc[w] = "report"
  /\ Command(o)
  /\ results' = RPush(results, [doc |-> job[w], status |-> "failed"], o)
  /\ Goto(w, "count")
  /\ UNCHANGED <<jobs, processing, dlq, stored, job, history>>

(* LLEN seal:processing counts the copies of every job in flight. *)
InFlight == FoldFunction(LAMBDA x, y : x + y, 0, processing)

(* Mistakes: one retry too many; a job out of retries is dropped. *)
CountOneMore(w, o) ==
  /\ pc[w] = "count"
  /\ Command(o)
  /\ Goto(w, IF IsError(o) \/ InFlight > MaxJobRetries THEN "bury" ELSE "requeue")
  /\ UNCHANGED <<queues, stored, job, history>>

CountAndDrop(w, o) ==
  /\ pc[w] = "count"
  /\ Command(o)
  /\ Goto(w, IF IsError(o) \/ InFlight >= MaxJobRetries THEN "remove" ELSE "requeue")
  /\ UNCHANGED <<queues, stored, job, history>>

(* retryOrDLQ, the decision. *)
Count(w, o) ==
  /\ pc[w] = "count"
  /\ Command(o)
  /\ Goto(w, IF IsError(o) \/ InFlight >= MaxJobRetries THEN "bury" ELSE "requeue")
  /\ UNCHANGED <<queues, stored, job, history>>

(* Mistakes: the retry pushes the job it has just cleared; no return after *)
(* the retry, so that the job goes to the DLQ as well.                     *)
RequeueCleared(w, o) ==
  /\ pc[w] = "requeue"
  /\ Command(o)
  /\ Done(w)
  /\ jobs' = LPush(jobs, job'[w], o)
  /\ UNCHANGED <<processing, results, dlq, stored, history>>

RequeueAndBury(w, o) ==
  /\ pc[w] = "requeue"
  /\ Command(o)
  /\ jobs' = LPush(jobs, job[w], o)
  /\ Goto(w, "bury")
  /\ UNCHANGED <<processing, results, dlq, stored, job, history>>

(* retryOrDLQ, the retry: to the head of seal:jobs, the copy in            *)
(* seal:processing stays.                                                  *)
Requeue(w, o) ==
  /\ pc[w] = "requeue"
  /\ Command(o)
  /\ jobs' = LPush(jobs, job[w], o)
  /\ IF IsError(o) THEN Goto(w, "bury") /\ UNCHANGED job ELSE Done(w)
  /\ UNCHANGED <<processing, results, dlq, stored, history>>

(* pushToDLQ, its LPUSH: an error is logged. *)
Bury(w, o) ==
  /\ pc[w] = "bury"
  /\ Command(o)
  /\ dlq' = LPush(dlq, job[w], o)
  /\ Goto(w, "remove")
  /\ UNCHANGED <<jobs, processing, results, stored, job, history>>

(* removeFromProcessing: LREM 0, every equal copy; an error is logged. *)
Remove(w, o) ==
  /\ pc[w] = "remove"
  /\ Command(o)
  /\ processing' = IF o = "lost" THEN processing
                                 ELSE [processing EXCEPT ![job[w]] = 0]
  /\ Done(w)
  /\ UNCHANGED <<jobs, results, dlq, stored, history>>

(* The pod is gone: a crash, a KEDA scale-down, a roll-out.  main waits    *)
(* for the metrics server and not for Run, and every call made after       *)
(* SIGTERM fails on the cancelled context, so a SIGTERM is a crash too.    *)
Crash(w) ==
  /\ pc[w] # "down"
  /\ crashes < MaxCrashes
  /\ crashes' = crashes + 1
  /\ Goto(w, "down")
  /\ job' = [job EXCEPT ![w] = NoDoc]
  /\ UNCHANGED <<queues, stored, history, failures, faults>>

(* KEDA starts workers while seal:jobs is not empty. *)
Start(w) ==
  /\ pc[w] = "down"
  /\ jobs # <<>>
  /\ Goto(w, "idle")
  /\ UNCHANGED <<queues, stored, job, history, budget>>

-----------------------------------------------------------------------------
(* The CronJob: LMOVE seal:dlq seal:jobs LEFT LEFT. *)
Reprocess ==
  /\ DlqReprocessing
  /\ dlq # <<>>
  /\ jobs' = LPush(jobs, Head(dlq), "ok")
  /\ dlq' = Tail(dlq)
  /\ attempts' = [attempts EXCEPT ![Head(dlq)] = 0]
  /\ UNCHANGED <<processing, results, stored, pc, job, submitted, published, budget>>

(* PushTask of the API.  A document has one id and is pushed once. *)
Submit(d, o) ==
  /\ d \notin submitted
  /\ jobs' = RPush(jobs, d, o)
  /\ submitted' = submitted \cup {d}
  /\ UNCHANGED <<processing, results, dlq, stored, pc, job, attempts, published, budget>>

(* BLPOP seal:results by the API. *)
Consume(o) ==
  /\ Len(results) >= Times(o)
  /\ results' = SubSeq(results, Times(o) + 1, Len(results))
  /\ UNCHANGED <<jobs, processing, dlq, stored, pc, job, history, budget>>

WorkerStep(w) ==
  \/ Produce(w) \/ Upload(w) \/ Start(w)
  \/ \E o \in Outcome : \/ Take(w, o) \/ Publish(w, o) \/ Report(w, o)
                        \/ Count(w, o) \/ Requeue(w, o) \/ Bury(w, o)
                        \/ Remove(w, o)

Next ==
  \/ \E w \in Workers : WorkerStep(w) \/ Crash(w)
  \/ Reprocess
  \/ \E o \in EnvOutcomes : Consume(o) \/ \E d \in Docs : Submit(d, o)

Spec == Init /\ [][Next]_workerVars

(* Workers run until they block, KEDA starts them while there are jobs and *)
(* the CronJob runs every five minutes; nothing makes a worker crash.      *)
Fairness ==
  /\ \A w \in Workers : WF_workerVars(WorkerStep(w))
  /\ WF_workerVars(Reprocess)

FairSpec == Spec /\ Fairness

-----------------------------------------------------------------------------
Holds(w, d) == pc[w] \in Owning /\ job[w] = d
Live(d) == d \in Elems(jobs) \/ d \in Elems(dlq) \/ \E w \in Workers : Holds(w, d)

(* Without redelivered commands a job is in one place: once in seal:jobs,  *)
(* once in seal:dlq, or with one worker.  Two workers never work on the    *)
(* same document, whatever fails or is killed between two calls and        *)
(* whenever the CronJob runs.                                              *)
OnePlace ==
  /\ NoRepeat(jobs) /\ NoRepeat(dlq)
  /\ Elems(jobs) \cap Elems(dlq) = {}
  /\ \A w \in Workers, d \in Docs :
       Holds(w, d) => /\ d \notin Elems(jobs) \cup Elems(dlq)
                      /\ \A v \in Workers : Holds(v, d) => v = w

(* After a completed result was pushed the job is never worked on again,   *)
(* so no failed result of the same document can follow it: "completed" is  *)
(* the last word on seal:results.                                          *)
CompletedIsLast ==
  /\ \A d \in published : ~ Live(d)
  /\ \A i, j \in DOMAIN results :
       i < j /\ results[i].doc = results[j].doc => results[i].status # "completed"

(* A completed result is only ever seen once the object it points at is in *)
(* the bucket, even when Redis commands fail or are applied twice.         *)
CompletedHasObject ==
  /\ \A d \in published : stored[d] # "none"
  /\ \A r \in Elems(results) : r.status = "completed" => r.doc \in published

(* What BLMOVE is for: while a worker holds a job, seal:processing has a   *)
(* copy of it to recover the job from.                                     *)
HeldIsRecorded ==
  \A w \in Workers, d \in Docs : Holds(w, d) => processing[d] > 0

(* Every well-formed job that was queued is waiting, in the DLQ, recorded  *)
(* in seal:processing, or finished: killing workers loses none.            *)
NothingLost ==
  \A d \in submitted \ Malformed :
    \/ d \in Elems(jobs) \/ d \in Elems(dlq)
    \/ processing[d] > 0
    \/ d \in published

(* maxJobRetries bounds the attempts at a job until it is queued afresh. *)
AttemptsBounded == \A d \in Docs : attempts[d] <= MaxJobRetries

(* A job reaches the DLQ only after maxJobRetries attempts. *)
DlqAfterAllRetries == \A d \in Elems(dlq) : attempts[d] = MaxJobRetries

(* What Run announces on shutdown, "finishing in-flight job": the job a    *)
(* worker holds leaves its hands finished, queued again or in the DLQ.     *)
InFlightIsFinished ==
  \A d \in Docs : (\E w \in Workers : Holds(w, d)) ~>
     (d \in published \/ d \in Elems(jobs) \/ d \in Elems(dlq))

=============================================================================
