------------------------------- MODULE SealApi -------------------------------
(***************************************************************************)
(* The seal-api replicas (src/apps/seal/seal-api): the documents table,    *)
(* the POST handler that inserts a row and then pushes its job, and the    *)
(* background consumer of each replica, which pops a result and then       *)
(* writes it to the table.  Reading a document, its download URL or its    *)
(* verification is a function of the table.                                *)
(***************************************************************************)
EXTENDS SealRedis

CONSTANTS
  Docs,          \* document ids, one per accepted POST
  Replicas,      \* API pods
  NoResult,      \* a consumer between two results
  ApiOutcomes,   \* the outcomes of the replicas' Redis and database calls
  MaxApiFaults,  \* bound: calls whose outcome is not "ok"
  MaxApiCrashes  \* bound: replicas killed with work in hand

VARIABLES
  jobs,         \* seal:jobs
  results,      \* seal:results
  submitted,    \* history: ids PushTask was called for
  status,       \* documents.status, "none" while there is no row
  creating,     \* rows each replica inserted and has not yet pushed
  popped,       \* the result each consumer has in hand
  apiFaults, apiCrashes  \* history: what the bounds count

apiOnly == <<status, creating, popped, apiFaults, apiCrashes>>
apiVars == <<jobs, results, submitted, apiOnly>>

Statuses == {"none", "pending", "completed", "failed"}
Result == [doc : Docs, status : {"completed", "failed"}]

TypeOK ==
  /\ jobs \in Seq(Docs) /\ results \in Seq(Result)
  /\ submitted \subseteq Docs
  /\ status \in [Docs -> Statuses]
  /\ creating \in [Replicas -> SUBSET Docs]
  /\ popped \in [Replicas -> Result \cup {NoResult}]
  /\ apiFaults \in Nat /\ apiCrashes \in Nat

Init ==
  /\ jobs = <<>> /\ results = <<>> /\ submitted = {}
  /\ status = [d \in Docs |-> "none"]
  /\ creating = [r \in Replicas |-> {}]
  /\ popped = [r \in Replicas |-> NoResult]
  /\ apiFaults = 0 /\ apiCrashes = 0

(* A call with outcome o, within the bound on faults. *)
ApiCall(o) ==
  /\ o = "ok" \/ apiFaults < MaxApiFaults
  /\ apiFaults' = IF o = "ok" THEN apiFaults ELSE apiFaults + 1
  /\ UNCHANGED apiCrashes

(* Mistake: the job is pushed although the INSERT failed. *)
CreateUnchecked(r, d, o) ==
  /\ status[d] = "none"
  /\ o \in {"ok", "torn", "lost"}
  /\ ApiCall(o)
  /\ status' = IF o = "lost" THEN status ELSE [status EXCEPT ![d] = "pending"]
  /\ creating' = [creating EXCEPT ![r] = @ \cup {d}]
  /\ UNCHANGED <<jobs, results, submitted, popped>>

(* POST /documents, the INSERT: the table's default status is 'pending'.   *)
(* When the INSERT commits and its reply is lost the handler answers 500   *)
(* and pushes nothing.                                                     *)
CreateDocument(r, d, o) ==
  /\ status[d] = "none"
  /\ o \in {"ok", "torn"}
  /\ ApiCall(o)
  /\ status' = [status EXCEPT ![d] = "pending"]
  /\ creating' = IF o = "ok" THEN [creating EXCEPT ![r] = @ \cup {d}] ELSE creating
  /\ UNCHANGED <<jobs, results, submitted, popped>>

(* Mistake: the job is pushed again after a success. *)
PushAgain(r, d, o) ==
  /\ d \in creating[r]
  /\ ApiCall(o)
  /\ jobs' = RPush(jobs, d, o)
  /\ submitted' = submitted \cup {d}
  /\ UNCHANGED <<results, status, creating, popped>>

(* POST /documents, the RPUSH: an error is logged and the answer is 201    *)
(* all the same.                                                           *)
PushTask(r, d, o) ==
  /\ d \in creating[r]
  /\ ApiCall(o)
  /\ jobs' = RPush(jobs, d, o)
  /\ submitted' = submitted \cup {d}
  /\ creating' = [creating EXCEPT ![r] = @ \ {d}]
  /\ UNCHANGED <<results, status, popped>>

(* Mistakes: the newest result first (BRPOP); a result used in spite of    *)
(* the error.                                                              *)
PopNewest(r, o) ==
  /\ popped[r] = NoResult
  /\ Len(results) >= Times(o)
  /\ ApiCall(o)
  /\ results' = SubSeq(results, 1, Len(results) - Times(o))
  /\ popped' = [popped EXCEPT ![r] = results[Len(results)]]
  /\ UNCHANGED <<jobs, submitted, status, creating>>

PopUnchecked(r, o) ==
  /\ popped[r] = NoResult
  /\ Len(results) >= Times(o)
  /\ ApiCall(o)
  /\ results' = SubSeq(results, Times(o) + 1, Len(results))
  /\ popped' = [popped EXCEPT ![r] =
       IF IsError(o) THEN [doc |-> NoResult, status |-> "failed"] ELSE results[Times(o)]]
  /\ UNCHANGED <<jobs, submitted, status, creating>>

(* The consumer's BLPOP: what is popped is gone from Redis, also when the  *)
(* reply never arrives.                                                    *)
PopResult(r, o) ==
  /\ popped[r] = NoResult
  /\ Len(results) >= Times(o)
  /\ ApiCall(o)
  /\ results' = SubSeq(results, Times(o) + 1, Len(results))
  /\ popped' = IF IsError(o) THEN popped
                             ELSE [popped EXCEPT ![r] = results[Times(o)]]
  /\ UNCHANGED <<jobs, submitted, status, creating>>

(* Mistake: the UPDATE applies to pending rows only. *)
UpdatePending(r, o) ==
  /\ popped[r] # NoResult
  /\ o # "twice"
  /\ ApiCall(o)
  /\ status' = IF o = "lost" \/ status[popped[r].doc] # "pending" THEN status
               ELSE [status EXCEPT ![popped[r].doc] = popped[r].status]
  /\ popped' = [popped EXCEPT ![r] = NoResult]
  /\ UNCHANGED <<jobs, results, submitted, creating>>

(* The consumer's UPDATE, whatever the row says so far; a missing row is   *)
(* no error and a failed UPDATE is only logged.                            *)
UpdateStatus(r, o) ==
  /\ popped[r] # NoResult
  /\ o # "twice"
  /\ ApiCall(o)
  /\ status' = IF o = "lost" \/ status[popped[r].doc] = "none" THEN status
               ELSE [status EXCEPT ![popped[r].doc] = popped[r].status]
  /\ popped' = [popped EXCEPT ![r] = NoResult]
  /\ UNCHANGED <<jobs, results, submitted, creating>>

(* The pod is killed and replaced: requests and the popped result are gone *)
(* (main does not wait for the consumer either).                           *)
CrashReplica(r) ==
  /\ creating[r] # {} \/ popped[r] # NoResult
  /\ apiCrashes < MaxApiCrashes
  /\ apiCrashes' = apiCrashes + 1
  /\ creating' = [creating EXCEPT ![r] = {}]
  /\ popped' = [popped EXCEPT ![r] = NoResult]
  /\ UNCHANGED <<jobs, results, submitted, status, apiFaults>>

Consumer(r) == \E o \in ApiOutcomes : PopResult(r, o) \/ UpdateStatus(r, o)

Handler(r, d) == \E o \in ApiOutcomes : PushTask(r, d, o)

Next ==
  \E r \in Replicas :
    \/ Consumer(r)
    \/ CrashReplica(r)
    \/ \E d \in Docs : \/ Handler(r, d)
                       \/ \E o \in ApiOutcomes : CreateDocument(r, d, o)

Spec == Init /\ [][Next]_apiVars

-----------------------------------------------------------------------------
(* GET /documents/{id}/download and GET /documents/{id}/verify. *)
GetDownloadURL(d) ==
  CASE status[d] = "none" -> "document not found"
    [] status[d] = "completed" -> "url"
    [] OTHER -> "document not ready yet"

VerifyDocument(d) ==
  CASE status[d] = "none" -> "document not found"
    [] status[d] = "completed" -> "valid"
    [] OTHER -> "document not ready yet"

=============================================================================
