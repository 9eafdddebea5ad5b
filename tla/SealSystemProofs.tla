--------------------------- MODULE SealSystemProofs ---------------------------
(***************************************************************************)
(* Theorems about Seal as a whole, for any number of replicas, pods and    *)
(* documents: the worker pool inside it is the pool of SealWorker, so what *)
(* SealWorkerProofs proves of the pool holds here too, and on top of it    *)
(* what the API's table, the queues and the bucket say of each other.      *)
(***************************************************************************)
EXTENDS SealSystem, SealRedisProofs

(* The pool with its theorems: an instance equal to Worker. *)
Pool == INSTANCE SealWorkerProofs WITH Malformed <- {}, EnvOutcomes <- ApiOutcomes

LEMMA PoolAssumption == Pool!WorkerAssumption
  BY SystemAssumption DEF Pool!WorkerAssumption, Pool!Outcome, Outcome

(* The two instances say the same, definition by definition. *)
LEMMA SameInFlight == Worker!InFlight = Pool!InFlight
  BY DEF Worker!InFlight, Pool!InFlight, Worker!FoldFunction, Pool!FoldFunction,
         Worker!FoldFunctionOnSet, Pool!FoldFunctionOnSet, Worker!MapThenFoldSet,
         Pool!MapThenFoldSet

LEMMA SameStep ==
  ASSUME NEW w
  PROVE  /\ Worker!WorkerStep(w) <=> Pool!WorkerStep(w)
         /\ Worker!Crash(w) <=> Pool!Crash(w)
<1> USE DEF Worker!Command, Pool!Command, Worker!Goto, Pool!Goto, Worker!Done, Pool!Done,
            Worker!Fail, Pool!Fail, Worker!Times, Pool!Times, Worker!IsError, Pool!IsError,
            Worker!queues, Pool!queues, Worker!history, Pool!history,
            Worker!budget, Pool!budget, Worker!LPush, Pool!LPush, Worker!RPush, Pool!RPush,
            Worker!Copies, Pool!Copies
<1>1. ASSUME NEW o PROVE Worker!Take(w, o) <=> Pool!Take(w, o)
  BY DEF Worker!Take, Pool!Take, Worker!Cardinality, Pool!Cardinality
<1>2. Worker!Produce(w) <=> Pool!Produce(w)
  BY DEF Worker!Produce, Pool!Produce
<1>3. Worker!Upload(w) <=> Pool!Upload(w)
  BY DEF Worker!Upload, Pool!Upload
<1>4. ASSUME NEW o PROVE Worker!Publish(w, o) <=> Pool!Publish(w, o)
  BY DEF Worker!Publish, Pool!Publish
<1>5. ASSUME NEW o PROVE Worker!Report(w, o) <=> Pool!Report(w, o)
  BY DEF Worker!Report, Pool!Report
<1>6. ASSUME NEW o PROVE Worker!Count(w, o) <=> Pool!Count(w, o)
  BY SameInFlight DEF Worker!Count, Pool!Count
<1>7. ASSUME NEW o PROVE Worker!Requeue(w, o) <=> Pool!Requeue(w, o)
  BY DEF Worker!Requeue, Pool!Requeue
<1>8. ASSUME NEW o PROVE Worker!Bury(w, o) <=> Pool!Bury(w, o)
  BY DEF Worker!Bury, Pool!Bury
<1>9. ASSUME NEW o PROVE Worker!Remove(w, o) <=> Pool!Remove(w, o)
  BY DEF Worker!Remove, Pool!Remove
<1>10. Worker!Crash(w) <=> Pool!Crash(w)
  BY DEF Worker!Crash, Pool!Crash
<1>11. Worker!Start(w) <=> Pool!Start(w)
  BY DEF Worker!Start, Pool!Start
<1>12. Worker!Outcome = Pool!Outcome
  BY DEF Worker!Outcome, Pool!Outcome
<1> QED
  BY <1>1, <1>2, <1>3, <1>4, <1>5, <1>6, <1>7, <1>8, <1>9, <1>10, <1>11, <1>12
     DEF Worker!WorkerStep, Pool!WorkerStep

LEMMA SamePool ==
  /\ Worker!Init <=> Pool!Init
  /\ Worker!Next <=> Pool!Next
  /\ Worker!Reprocess <=> Pool!Reprocess
  /\ Worker!workerVars = Pool!workerVars
  /\ Worker!TypeOK <=> Pool!TypeOK
<1> USE DEF Worker!Times, Pool!Times, Worker!queues, Pool!queues, Worker!history, Pool!history,
            Worker!budget, Pool!budget, Worker!LPush, Pool!LPush, Worker!RPush, Pool!RPush,
            Worker!Copies, Pool!Copies
<1>1. Worker!Init <=> Pool!Init
  BY DEF Worker!Init, Pool!Init
<1>2. Worker!Reprocess <=> Pool!Reprocess
  BY DEF Worker!Reprocess, Pool!Reprocess
<1>3. \A o, d : Worker!Submit(d, o) <=> Pool!Submit(d, o)
  BY DEF Worker!Submit, Pool!Submit
<1>4. \A o : Worker!Consume(o) <=> Pool!Consume(o)
  BY DEF Worker!Consume, Pool!Consume
<1>5. Worker!workerVars = Pool!workerVars
  BY DEF Worker!workerVars, Pool!workerVars
<1>6. Worker!TypeOK <=> Pool!TypeOK
  BY DEF Worker!TypeOK, Pool!TypeOK, Worker!Result, Pool!Result, Worker!Objects, Pool!Objects,
         Worker!Labels, Pool!Labels, Worker!Owning, Pool!Owning
<1>7. Worker!Next <=> Pool!Next
  BY <1>2, <1>3, <1>4, SameStep DEF Worker!Next, Pool!Next
<1> QED BY <1>1, <1>2, <1>5, <1>6, <1>7

LEMMA SameLists ==
  ASSUME NEW q, NEW x, NEW o
  PROVE  /\ Api!RPush(q, x, o) = RPush(q, x, o) /\ Pool!RPush(q, x, o) = RPush(q, x, o)
         /\ Pool!Elems(q) = Elems(q)
         /\ Api!Times(o) = Times(o) /\ Pool!Times(o) = Times(o)
         /\ Api!IsError(o) <=> IsError(o)
         /\ Api!Result = Pool!Result
  BY DEF Api!RPush, Pool!RPush, RPush, Api!Copies, Pool!Copies, Copies, Api!Times, Pool!Times,
         Times, Api!IsError, IsError, Pool!Elems, Elems, Api!Result, Pool!Result

-----------------------------------------------------------------------------
(* The rows of the table and what the pool and the replicas have in hand.  *)
HasRow == {d \in Docs : status[d] # "none"}

Rows ==
  /\ Pool!Within(HasRow)
  /\ submitted \subseteq HasRow
  /\ \A r \in Replicas : creating[r] \subseteq HasRow \ submitted
  /\ \A r, s \in Replicas : r # s => creating[r] \cap creating[s] = {}
  /\ \A r \in Replicas : popped[r] # NoResult => popped[r].doc \in HasRow

(* What is completed, in the table or on its way to it, was published.     *)
Shown ==
  /\ \A d \in Docs : status[d] = "completed" => d \in published
  /\ \A r \in Replicas :
       popped[r] # NoResult /\ popped[r].status = "completed" => popped[r].doc \in published

SystemInv == Pool!ObjectInv /\ Api!TypeOK /\ Rows /\ Shown

LEMMA SystemInit == Init => SystemInv
<1> SUFFICES ASSUME Init PROVE SystemInv
  OBVIOUS
<1>1. Pool!ObjectInv
  BY PoolAssumption, SamePool, Pool!InitObject DEF Init
<1>2. /\ jobs = <<>> /\ results = <<>> /\ dlq = <<>> /\ submitted = {}
      /\ \A w \in Workers : pc[w] = "down"
      /\ status = [d \in Docs |-> "none"]
      /\ creating = [r \in Replicas |-> {}] /\ popped = [r \in Replicas |-> NoResult]
      /\ apiFaults = 0 /\ apiCrashes = 0
  BY DEF Init, Worker!Init, Api!Init
<1>3. Api!TypeOK
  BY <1>2 DEF Api!TypeOK, Api!Statuses, Api!Result
<1>4. Pool!Within(HasRow)
  BY <1>2 DEF Pool!Within, Pool!Elems, Pool!Owning
<1>5. Rows /\ Shown
  BY <1>2, <1>4 DEF Rows, Shown
<1> QED BY <1>1, <1>3, <1>5 DEF SystemInv

(* A step of the pool and a step of the API, seen from the pool.           *)
LEMMA PoolStep ==
  ASSUME SystemInv, [Next]_vars
  PROVE  [Pool!Next]_Pool!workerVars
<1>1. CASE UNCHANGED vars
  BY <1>1 DEF vars, workerOnly, Pool!workerVars, Pool!queues, Pool!history, Pool!budget
<1>2. ASSUME NEW w \in Workers, WorkerMove(w) \/ WorkerCrash(w) PROVE Pool!Next
  BY <1>2, SameStep DEF WorkerMove, WorkerCrash, Pool!Next
<1>3. CASE DlqMove
  BY <1>3, SamePool DEF DlqMove, Pool!Next
<1>4. ASSUME UNCHANGED workerOnly,
             NEW r \in Replicas, NEW o \in ApiOutcomes, Api!PopResult(r, o) PROVE Pool!Next
  <2>1. Pool!Consume(o)
    BY <1>4, SameLists DEF Api!PopResult, Pool!Consume, Pool!history, Pool!budget, workerOnly
  <2> QED BY <2>1 DEF Pool!Next
<1>5. ASSUME UNCHANGED workerOnly,
             NEW r \in Replicas, NEW d \in Docs, NEW o \in ApiOutcomes, Api!PushTask(r, d, o)
      PROVE  Pool!Next
  <2>1. d \notin submitted
    BY <1>5 DEF Api!PushTask, SystemInv, Rows
  <2>2. Pool!Submit(d, o)
    BY <1>5, <2>1, SameLists DEF Api!PushTask, Pool!Submit, Pool!budget, workerOnly
  <2> QED BY <2>2 DEF Pool!Next
<1>6. ASSUME UNCHANGED workerOnly, UNCHANGED <<jobs, results, submitted>>
      PROVE  UNCHANGED Pool!workerVars
  BY <1>6 DEF workerOnly, Pool!workerVars, Pool!queues, Pool!history, Pool!budget
<1>7. ASSUME UNCHANGED workerOnly, NEW r \in Replicas, NEW d \in Docs, NEW o \in ApiOutcomes,
             Api!CreateDocument(r, d, o)
      PROVE  UNCHANGED Pool!workerVars
  BY <1>6, <1>7 DEF Api!CreateDocument
<1>8. ASSUME UNCHANGED workerOnly, NEW r \in Replicas, NEW o \in ApiOutcomes,
             Api!UpdateStatus(r, o)
      PROVE  UNCHANGED Pool!workerVars
  BY <1>6, <1>8 DEF Api!UpdateStatus
<1>9. ASSUME UNCHANGED workerOnly, NEW r \in Replicas, Api!CrashReplica(r)
      PROVE  UNCHANGED Pool!workerVars
  BY <1>6, <1>9 DEF Api!CrashReplica
<1>10. CASE ApiMove
  BY <1>4, <1>5, <1>7, <1>8, <1>9, <1>10 DEF ApiMove, Api!Next, Api!Consumer, Api!Handler
<1> QED BY <1>1, <1>2, <1>3, <1>10 DEF Next

(* The pool's part of the invariant, and what the pool does to the rest.   *)
LEMMA InvOfPool ==
  ASSUME SystemInv, [Next]_vars
  PROVE  /\ Pool!ObjectInv'
         /\ jobs' \in Seq(Docs) /\ results' \in Seq(Api!Result) /\ submitted' \subseteq Docs
<1>1. Pool!ObjectInv'
  BY PoolStep, PoolAssumption, Pool!NextObject DEF SystemInv
<1>2. Api!Result = Pool!Result
  BY SameLists
<1> QED BY <1>1, <1>2 DEF Pool!ObjectInv, Pool!TypeInv, Pool!TypeOK

LEMMA PoolMoves ==
  ASSUME SystemInv, [Next]_vars, UNCHANGED apiOnly,
         (\E w \in Workers : Pool!WorkerStep(w) \/ Pool!Crash(w)) \/ Pool!Reprocess
  PROVE  SystemInv'
<1>1. /\ Pool!ObjectInv' /\ jobs' \in Seq(Docs) /\ results' \in Seq(Api!Result)
      /\ submitted' \subseteq Docs
  BY InvOfPool
<1>2. submitted' = submitted /\ published \subseteq published'
  BY PoolAssumption, Pool!PoolKeeps
<1>3. PICK D : D = HasRow
  OBVIOUS
<1>4. Pool!TypeInv /\ Pool!Within(D)
  BY <1>3 DEF SystemInv, Pool!ObjectInv, Rows
<1>5. Pool!Within(D)'
  BY <1>4, PoolAssumption, Pool!PoolInventsNothing
<1>6. D = HasRow'
  BY <1>3 DEF HasRow, apiOnly
<1>7. Pool!Within(HasRow)'
  BY <1>5, <1>6 DEF Pool!Within
<1>8. Api!TypeOK'
  BY <1>1 DEF SystemInv, Api!TypeOK, apiOnly
<1>9. Rows'
  BY <1>2, <1>3, <1>6, <1>7 DEF SystemInv, Rows, apiOnly
<1>10. Shown'
  BY <1>2 DEF SystemInv, Shown, apiOnly
<1> QED BY <1>1, <1>8, <1>9, <1>10 DEF SystemInv

(* What the table and the replicas hold, flat for the provers.             *)
LEMMA ApiTypes ==
  ASSUME SystemInv
  PROVE  /\ status \in [Docs -> Api!Statuses] /\ creating \in [Replicas -> SUBSET Docs]
         /\ popped \in [Replicas -> Api!Result \cup {NoResult}]
         /\ apiFaults \in Nat /\ apiCrashes \in Nat
         /\ jobs \in Seq(Docs) /\ results \in Seq(Api!Result)
  BY DEF SystemInv, Api!TypeOK

(* An INSERT makes a row.                                                  *)
LEMMA CreateMoves ==
  ASSUME SystemInv, [Next]_vars, UNCHANGED workerOnly, NEW r \in Replicas, NEW d \in Docs,
         NEW o \in ApiOutcomes, Api!CreateDocument(r, d, o)
  PROVE  SystemInv'
<1>1. /\ Pool!ObjectInv' /\ jobs' \in Seq(Docs) /\ results' \in Seq(Api!Result)
      /\ submitted' \subseteq Docs
  BY InvOfPool
<1>2. /\ status[d] = "none" /\ popped' = popped
      /\ status' = [status EXCEPT ![d] = "pending"]
      /\ creating' \in {creating, [creating EXCEPT ![r] = @ \cup {d}]}
      /\ UNCHANGED <<jobs, results, submitted>>
  BY DEF Api!CreateDocument
<1>3. apiFaults' \in Nat /\ apiCrashes' \in Nat
  BY ApiTypes DEF Api!CreateDocument, Api!ApiCall
<1>4. HasRow' = HasRow \cup {d} /\ d \notin HasRow
  BY <1>2, ApiTypes DEF HasRow
<1>5. Api!TypeOK'
  BY <1>1, <1>2, <1>3, ApiTypes DEF Api!TypeOK, Api!Statuses
<1>6. Pool!Within(HasRow)'
  BY <1>2, <1>4 DEF SystemInv, Rows, Pool!Within, workerOnly
<1>7. \A s \in Replicas : /\ creating'[s] \subseteq creating[s] \cup {d}
                          /\ s # r => creating'[s] = creating[s]
  BY <1>2, ApiTypes
<1>8. Rows'
  BY <1>2, <1>4, <1>6, <1>7 DEF SystemInv, Rows
<1>9. \A e \in Docs : status'[e] = "completed" => status[e] = "completed"
  BY <1>2, ApiTypes
<1>10. Shown'
  BY <1>2, <1>9 DEF SystemInv, Shown, workerOnly
<1> QED BY <1>1, <1>5, <1>8, <1>10 DEF SystemInv

(* An UPDATE writes what was popped to a row that exists.                  *)
LEMMA UpdateMoves ==
  ASSUME SystemInv, [Next]_vars, UNCHANGED workerOnly, NEW r \in Replicas,
         NEW o \in ApiOutcomes, Api!UpdateStatus(r, o)
  PROVE  SystemInv'
<1>1. /\ Pool!ObjectInv' /\ jobs' \in Seq(Docs) /\ results' \in Seq(Api!Result)
      /\ submitted' \subseteq Docs
  BY InvOfPool
<1>2. /\ popped[r] # NoResult /\ creating' = creating
      /\ popped' = [popped EXCEPT ![r] = NoResult]
      /\ status' \in {status, [status EXCEPT ![popped[r].doc] = popped[r].status]}
      /\ UNCHANGED <<jobs, results, submitted>>
  BY DEF Api!UpdateStatus
<1>3. apiFaults' \in Nat /\ apiCrashes' \in Nat
  BY ApiTypes DEF Api!UpdateStatus, Api!ApiCall
<1>4. popped[r].doc \in HasRow /\ popped[r].doc \in Docs /\ popped[r].status \in {"completed", "failed"}
  <2>1. popped[r] \in Api!Result
    BY <1>2, ApiTypes
  <2>2. popped[r].doc \in HasRow
    BY <1>2 DEF SystemInv, Rows
  <2> QED BY <2>1, <2>2 DEF Api!Result
<1>5. HasRow' = HasRow
  BY <1>2, <1>4, ApiTypes DEF HasRow
<1>6. status' \in [Docs -> Api!Statuses] /\ popped' \in [Replicas -> Api!Result \cup {NoResult}]
  BY <1>2, <1>4, ApiTypes DEF Api!Statuses
<1>7. Api!TypeOK'
  BY <1>1, <1>2, <1>3, <1>6, ApiTypes DEF Api!TypeOK
<1>8. Pool!Within(HasRow)'
  BY <1>2, <1>5 DEF SystemInv, Rows, Pool!Within, workerOnly
<1>9. \A s \in Replicas : popped'[s] # NoResult => popped'[s] = popped[s]
  BY <1>2, ApiTypes
<1>10. Rows'
  BY <1>2, <1>5, <1>8, <1>9 DEF SystemInv, Rows
<1>11. \A e \in Docs : status'[e] = "completed" =>
          \/ status[e] = "completed"
          \/ popped[r].status = "completed" /\ popped[r].doc = e
  BY <1>2, <1>4, ApiTypes
<1>12. Shown'
  BY <1>2, <1>9, <1>11 DEF SystemInv, Shown, workerOnly
<1> QED BY <1>1, <1>7, <1>10, <1>12 DEF SystemInv

(* A job is pushed for a row this replica inserted, and only once.         *)
LEMMA PushMoves ==
  ASSUME SystemInv, [Next]_vars, UNCHANGED workerOnly, NEW r \in Replicas, NEW d \in Docs,
         NEW o \in ApiOutcomes, Api!PushTask(r, d, o)
  PROVE  SystemInv'
<1>1. /\ Pool!ObjectInv' /\ jobs' \in Seq(Docs) /\ results' \in Seq(Api!Result)
      /\ submitted' \subseteq Docs
  BY InvOfPool
<1>2. /\ d \in creating[r] /\ jobs' = RPush(jobs, d, o) /\ submitted' = submitted \cup {d}
      /\ creating' = [creating EXCEPT ![r] = @ \ {d}]
      /\ UNCHANGED <<results, status, popped>>
  BY SameLists DEF Api!PushTask
<1>3. apiFaults' \in Nat /\ apiCrashes' \in Nat /\ HasRow' = HasRow
  BY <1>2, ApiTypes DEF Api!PushTask, Api!ApiCall, HasRow
<1>4. Elems(jobs') \subseteq Elems(jobs) \cup {d}
  <2>1. o \in Outcome
    BY SystemAssumption
  <2> QED BY <1>2, <2>1, ApiTypes, PushAny
<1>5. d \in HasRow
  BY <1>2 DEF SystemInv, Rows
<1>6. Api!TypeOK'
  BY <1>1, <1>2, <1>3, ApiTypes DEF Api!TypeOK
<1>7. Pool!Within(HasRow)'
  BY <1>2, <1>3, <1>4, <1>5, SameLists DEF SystemInv, Rows, Pool!Within, workerOnly
<1>8. \A s \in Replicas : creating'[s] \subseteq creating[s] /\ d \notin creating'[s]
  BY <1>2, ApiTypes DEF SystemInv, Rows
<1>9. Rows'
  BY <1>2, <1>3, <1>5, <1>7, <1>8 DEF SystemInv, Rows
<1>10. Shown'
  BY <1>2 DEF SystemInv, Shown, workerOnly
<1> QED BY <1>1, <1>6, <1>9, <1>10 DEF SystemInv

(* A consumer pops what the pool reported, or loses it.                    *)
LEMMA PopMoves ==
  ASSUME SystemInv, [Next]_vars, UNCHANGED workerOnly, NEW r \in Replicas,
         NEW o \in ApiOutcomes, Api!PopResult(r, o)
  PROVE  SystemInv'
<1>1. /\ Pool!ObjectInv' /\ jobs' \in Seq(Docs) /\ results' \in Seq(Api!Result)
      /\ submitted' \subseteq Docs
  BY InvOfPool
<1>2. /\ Len(results) >= Times(o)
      /\ results' = SubSeq(results, Times(o) + 1, Len(results))
      /\ popped' = IF IsError(o) THEN popped ELSE [popped EXCEPT ![r] = results[Times(o)]]
      /\ UNCHANGED <<jobs, submitted, creating, status>>
  BY SameLists DEF Api!PopResult
<1>3. apiFaults' \in Nat /\ apiCrashes' \in Nat /\ HasRow' = HasRow
  BY <1>2, ApiTypes DEF Api!PopResult, Api!ApiCall, HasRow
<1>4. o \in Outcome /\ Times(o) \in 0 .. Len(results)
  <2>1. o \in Outcome
    BY SystemAssumption
  <2>2. Times(o) \in 0 .. 2
    BY <2>1, TimesType
  <2>3. Len(results) \in Nat
    BY ApiTypes
  <2> QED BY <1>2, <2>1, <2>2, <2>3
<1>5. Elems(results') \subseteq Elems(results)
  BY <1>2, <1>4, ApiTypes, DropElems
<1>6. ~ IsError(o) => results[Times(o)] \in Elems(results) /\ results[Times(o)] \in Api!Result
  <2>1. ~ IsError(o) => Times(o) \in 1 .. Len(results)
    BY <1>4 DEF IsError, Times, Outcome
  <2> QED BY <2>1, ApiTypes DEF Elems
<1>7. /\ popped' \in [Replicas -> Api!Result \cup {NoResult}]
      /\ \A s \in Replicas : popped'[s] = popped[s] \/ popped'[s] \in Elems(results)
  BY <1>2, <1>6, ApiTypes
<1>8. Api!TypeOK'
  BY <1>1, <1>2, <1>3, <1>7, ApiTypes DEF Api!TypeOK
<1>9. Pool!Within(HasRow) /\ \A x \in Elems(results) : x.doc \in HasRow
  BY SameLists DEF SystemInv, Rows, Pool!Within
<1>10. Pool!Within(HasRow)'
  BY <1>2, <1>3, <1>5, <1>9, SameLists DEF Pool!Within, workerOnly
<1>11. Rows'
  BY <1>2, <1>3, <1>7, <1>9, <1>10 DEF SystemInv, Rows
<1>12. \A x \in Elems(results) : x.status = "completed" => x.doc \in published
  BY SameLists DEF SystemInv, Pool!ObjectInv, Pool!CompletedHasObject
<1>13. Shown'
  BY <1>2, <1>7, <1>12 DEF SystemInv, Shown, workerOnly
<1> QED BY <1>1, <1>8, <1>11, <1>13 DEF SystemInv

LEMMA CrashMoves ==
  ASSUME SystemInv, [Next]_vars, UNCHANGED workerOnly, NEW r \in Replicas, Api!CrashReplica(r)
  PROVE  SystemInv'
<1>1. Pool!ObjectInv'
  BY InvOfPool
<1>2. /\ UNCHANGED <<jobs, results, submitted, status>>
      /\ creating' = [creating EXCEPT ![r] = {}]
      /\ popped' = [popped EXCEPT ![r] = NoResult]
  BY DEF Api!CrashReplica
<1>3. /\ \A s \in Replicas : creating'[s] \subseteq creating[s]
      /\ \A s \in Replicas : popped'[s] # NoResult => popped'[s] = popped[s]
      /\ HasRow' = HasRow
  BY <1>2, ApiTypes DEF HasRow
<1>4. Api!TypeOK'
  BY <1>2 DEF SystemInv, Api!TypeOK, Api!CrashReplica
<1>5. Pool!Within(HasRow)'
  BY <1>2, <1>3 DEF SystemInv, Rows, Pool!Within, workerOnly
<1>6. Rows'
  BY <1>2, <1>3, <1>5 DEF SystemInv, Rows
<1>7. Shown'
  BY <1>2, <1>3 DEF SystemInv, Shown, workerOnly
<1> QED BY <1>1, <1>4, <1>6, <1>7 DEF SystemInv

LEMMA SystemNext == SystemInv /\ [Next]_vars => SystemInv'
<1> SUFFICES ASSUME SystemInv, [Next]_vars PROVE SystemInv'
  OBVIOUS
<1>1. CASE UNCHANGED vars
  <2>1. Pool!ObjectInv'
    BY InvOfPool
  <2>2. HasRow' = HasRow
    BY <1>1 DEF vars, apiOnly, HasRow
  <2>3. Pool!Within(HasRow)'
    BY <1>1, <2>2 DEF vars, workerOnly, SystemInv, Rows, Pool!Within
  <2>4. Rows' /\ Shown' /\ Api!TypeOK'
    BY <1>1, <2>2, <2>3 DEF vars, workerOnly, apiOnly, SystemInv, Rows, Shown, Api!TypeOK
  <2> QED BY <2>1, <2>4 DEF SystemInv
<1>2. ASSUME NEW w \in Workers, WorkerMove(w) \/ WorkerCrash(w) PROVE SystemInv'
  BY <1>2, SameStep, PoolMoves DEF WorkerMove, WorkerCrash
<1>3. CASE DlqMove
  BY <1>3, SamePool, PoolMoves DEF DlqMove
<1>4. CASE ApiMove
  <2>1. UNCHANGED workerOnly /\ Api!Next
    BY <1>4 DEF ApiMove
  <2>2. ASSUME NEW r \in Replicas, NEW o \in ApiOutcomes, Api!PopResult(r, o) \/ Api!UpdateStatus(r, o)
        PROVE  SystemInv'
    BY <2>1, <2>2, PopMoves, UpdateMoves
  <2>3. ASSUME NEW r \in Replicas, Api!CrashReplica(r) PROVE SystemInv'
    BY <2>1, <2>3, CrashMoves
  <2>4. ASSUME NEW r \in Replicas, NEW d \in Docs, NEW o \in ApiOutcomes,
               Api!PushTask(r, d, o) \/ Api!CreateDocument(r, d, o)
        PROVE  SystemInv'
    BY <2>1, <2>4, PushMoves, CreateMoves
  <2> QED BY <2>1, <2>2, <2>3, <2>4 DEF Api!Next, Api!Consumer, Api!Handler
<1> QED BY <1>1, <1>2, <1>3, <1>4 DEF Next

-----------------------------------------------------------------------------
LEMMA SystemAlways == Spec => []SystemInv
  BY SystemInit, SystemNext, PTL DEF Spec

(* The pool and the replicas agree on the types of what they share.        *)
THEOREM SystemTypeCorrect == Spec => []TypeOK
<1>1. SystemInv => TypeOK
  BY SamePool DEF SystemInv, Pool!ObjectInv, Pool!TypeInv, TypeOK
<1> QED BY <1>1, SystemAlways, PTL

(* A job, a dead letter or a result always has its row in the table,       *)
(* whatever INSERT, push or UPDATE fails in between.                       *)
THEOREM QueuedDocumentsHaveRows == Spec => []QueuedHasRow
<1>1. SystemInv => QueuedHasRow
  <2> SUFFICES ASSUME SystemInv PROVE QueuedHasRow
    OBVIOUS
  <2>1. Elems(jobs) \cup Elems(dlq) \subseteq HasRow /\ \A x \in Elems(results) : x.doc \in HasRow
    BY SameLists DEF SystemInv, Rows, Pool!Within
  <2>2. \A r \in Replicas : popped[r] # NoResult => popped[r].doc \in HasRow
    BY DEF SystemInv, Rows
  <2> QED BY <2>1, <2>2 DEF QueuedHasRow, HasRow, Elems
<1> QED BY <1>1, SystemAlways, PTL

(* A download URL is only handed out for an object that was stored.        *)
THEOREM DownloadsWork == Spec => []DownloadHasObject
<1>1. SystemInv => DownloadHasObject
  <2> SUFFICES ASSUME SystemInv, NEW d \in Docs, Api!GetDownloadURL(d) = "url"
               PROVE  stored[d] # "none"
    BY DEF DownloadHasObject
  <2>1. status[d] = "completed"
    BY DEF Api!GetDownloadURL
  <2> QED BY <2>1 DEF SystemInv, Shown, Pool!ObjectInv, Pool!CompletedHasObject
<1> QED BY <1>1, SystemAlways, PTL

(* Seen from the lists and the bucket, the deployed system is a worker     *)
(* pool of SealWorker: PushTask is its Submit, the consumers its Consume.  *)
THEOREM PoolInSystem == Spec => PoolIsAWorkerPool
<1>1. SystemInv /\ [Next]_vars => [Worker!Next]_Worker!workerVars
  <2>1. UNCHANGED Pool!workerVars => UNCHANGED Worker!workerVars
    BY DEF Worker!workerVars, Pool!workerVars, Worker!queues, Pool!queues,
           Worker!history, Pool!history, Worker!budget, Pool!budget
  <2> QED BY <2>1, PoolStep, SamePool
<1>2. Init => Worker!Init
  BY DEF Init
<1> QED BY <1>1, <1>2, SystemAlways, PTL DEF Spec, PoolIsAWorkerPool, Worker!Spec

-----------------------------------------------------------------------------
(* The contract of the table: one replica, and commands that end "ok".     *)
OneReplica == \A r, s \in Replicas : r = s

(* A completed row has no result left, and the completed result in hand is *)
(* the last of its document.                                               *)
FinalInv ==
  /\ \A d \in Docs : status[d] = "completed" =>
       /\ \A x \in Elems(results) : x.doc # d
       /\ \A r \in Replicas : popped[r] # NoResult => popped[r].doc # d
  /\ \A r \in Replicas : popped[r] # NoResult /\ popped[r].status = "completed" =>
       \A x \in Elems(results) : x.doc # popped[r].doc

ContractInv == SystemInv /\ Pool!LastInv /\ FinalInv

LEMMA ContractInit == Init => ContractInv
<1> SUFFICES ASSUME Init PROVE ContractInv
  OBVIOUS
<1>1. Pool!LastInv
  BY PoolAssumption, SamePool, Pool!InitLast DEF Init
<1>2. FinalInv
  BY DEF Init, Api!Init, FinalInv
<1> QED BY <1>1, <1>2, SystemInit DEF ContractInv

(* The pool adds results only of documents no completed result was pushed  *)
(* for.                                                                    *)
LEMMA PoolFinal ==
  ASSUME Pool!Reliable, ContractInv, UNCHANGED apiOnly,
         (\E w \in Workers : Pool!WorkerStep(w) \/ Pool!Crash(w)) \/ Pool!Reprocess
  PROVE  FinalInv'
<1>1. \A x \in Elems(results') : x \in Elems(results) \/ x.doc \notin published
  <2>1. \A x \in Pool!Elems(results') : x \in Pool!Elems(results) \/ x.doc \notin published
    BY PoolAssumption, Pool!NewResults DEF ContractInv
  <2> QED BY <2>1, SameLists
<1>2. UNCHANGED <<status, popped>>
  BY DEF apiOnly
<1>3. ASSUME NEW d \in Docs, status[d] = "completed", NEW x \in Elems(results')
      PROVE  x.doc # d
  BY <1>1, <1>3 DEF ContractInv, SystemInv, Shown, FinalInv
<1>4. ASSUME NEW r \in Replicas, popped[r] # NoResult, popped[r].status = "completed",
             NEW x \in Elems(results')
      PROVE  x.doc # popped[r].doc
  BY <1>1, <1>4 DEF ContractInv, SystemInv, Shown, FinalInv
<1> QED BY <1>2, <1>3, <1>4 DEF ContractInv, FinalInv

(* The consumer takes the oldest result, so that what a completed result   *)
(* leaves behind is of other documents.                                    *)
LEMMA PopFinal ==
  ASSUME OneReplica, ContractInv, NEW r \in Replicas, Api!PopResult(r, "ok")
  PROVE  FinalInv'
<1>0. Api!Times("ok") = 1 /\ ~ Api!IsError("ok")
  BY DEF Api!Times, Api!IsError
<1>1. /\ results \in Seq(Api!Result) /\ Len(results) >= 1
      /\ results' = SubSeq(results, 1 + 1, Len(results)) /\ status' = status
      /\ popped' = [popped EXCEPT ![r] = results[1]]
      /\ popped \in [Replicas -> Api!Result \cup {NoResult}]
  BY <1>0, ApiTypes DEF ContractInv, Api!PopResult
<1>2. Len(results) \in Nat /\ 1 \in 0 .. Len(results) /\ 1 \in DOMAIN results
  BY <1>1
<1>3. Elems(results') \subseteq Elems(results) /\ results[1] \in Elems(results)
  BY <1>1, <1>2, DropElems DEF Elems
<1>4. \A s \in Replicas : popped'[s] = results[1]
  BY <1>1 DEF OneReplica
<1>5. ASSUME results[1].status = "completed", NEW x \in Elems(results')
      PROVE  x.doc # results[1].doc
  <2>1. PICK q \in Seq(Api!Result) :
          /\ q = results' /\ \A i \in 1 .. Len(q) : q[i] = results[1 + i] /\ 1 + i \in 1 .. Len(results)
    BY <1>1, <1>2, DropAt
  <2>2. PICK i \in 1 .. Len(q) : x = q[i]
    BY <1>5, <2>1 DEF Elems
  <2>3. x = results[1 + i] /\ 1 + i \in DOMAIN results /\ 1 < 1 + i
    BY <1>1, <2>1, <2>2
  <2> QED BY <1>2, <1>5, <2>3 DEF ContractInv, Pool!LastInv, Pool!CompletedIsLast
<1> QED BY <1>1, <1>3, <1>4, <1>5 DEF ContractInv, FinalInv

LEMMA UpdateFinal ==
  ASSUME OneReplica, ContractInv, NEW r \in Replicas, Api!UpdateStatus(r, "ok")
  PROVE  FinalInv'
<1>1. /\ popped[r] # NoResult /\ popped' = [popped EXCEPT ![r] = NoResult]
      /\ results' = results
      /\ status' \in {status, [status EXCEPT ![popped[r].doc] = popped[r].status]}
      /\ status \in [Docs -> Api!Statuses] /\ popped \in [Replicas -> Api!Result \cup {NoResult}]
  BY ApiTypes DEF ContractInv, Api!UpdateStatus
<1>2. \A s \in Replicas : popped'[s] = NoResult
  BY <1>1 DEF OneReplica
<1>3. \A d \in Docs : status'[d] = "completed" =>
        status[d] = "completed" \/ (popped[r].status = "completed" /\ popped[r].doc = d)
  BY <1>1
<1> QED BY <1>1, <1>2, <1>3 DEF ContractInv, FinalInv

(* The other steps of the API complete no row and pop no result.           *)
LEMMA QuietFinal ==
  ASSUME ContractInv, results' = results,
         \A d \in Docs : status'[d] = "completed" => status[d] = "completed",
         \A r \in Replicas : popped'[r] # NoResult => popped'[r] = popped[r]
  PROVE  FinalInv'
  BY DEF ContractInv, FinalInv

LEMMA ContractNext ==
  Pool!Reliable /\ OneReplica /\ ContractInv /\ [Next]_vars => ContractInv'
<1> SUFFICES ASSUME Pool!Reliable, OneReplica, ContractInv, [Next]_vars PROVE ContractInv'
  OBVIOUS
<1>1. SystemInv'
  BY SystemNext DEF ContractInv
<1>2. Pool!LastInv'
  BY PoolStep, PoolAssumption, Pool!NextLast DEF ContractInv
<1>3. ApiOutcomes = {"ok"}
  BY DEF Pool!Reliable
<1>4. CASE UNCHANGED vars
  <2>1. FinalInv'
    BY <1>4, QuietFinal DEF vars, apiOnly
  <2> QED BY <1>1, <1>2, <2>1 DEF ContractInv
<1>5. ASSUME NEW w \in Workers, WorkerMove(w) \/ WorkerCrash(w) PROVE FinalInv'
  BY <1>5, SameStep, PoolFinal DEF WorkerMove, WorkerCrash
<1>6. CASE DlqMove
  <2>1. FinalInv'
    BY <1>6, SamePool, PoolFinal DEF DlqMove
  <2> QED BY <1>1, <1>2, <2>1 DEF ContractInv
<1>7. ASSUME NEW r \in Replicas, NEW d \in Docs, Api!PushTask(r, d, "ok") PROVE FinalInv'
  BY <1>7, QuietFinal DEF Api!PushTask
<1>8. ASSUME NEW r \in Replicas, NEW d \in Docs, Api!CreateDocument(r, d, "ok") PROVE FinalInv'
  <2>1. /\ status' = [status EXCEPT ![d] = "pending"] /\ UNCHANGED <<results, popped>>
        /\ status \in [Docs -> Api!Statuses]
    BY <1>8, ApiTypes DEF Api!CreateDocument, ContractInv
  <2>2. \A e \in Docs : status'[e] = "completed" => status[e] = "completed"
    BY <2>1
  <2> QED BY <2>1, <2>2, QuietFinal
<1>9. ASSUME NEW r \in Replicas, Api!CrashReplica(r) PROVE FinalInv'
  <2>1. /\ popped' = [popped EXCEPT ![r] = NoResult] /\ UNCHANGED <<results, status>>
        /\ popped \in [Replicas -> Api!Result \cup {NoResult}]
    BY <1>9, ApiTypes DEF Api!CrashReplica, ContractInv
  <2>2. \A s \in Replicas : popped'[s] # NoResult => popped'[s] = popped[s]
    BY <2>1
  <2> QED BY <2>1, <2>2, QuietFinal
<1>10. CASE ApiMove
  <2>1. FinalInv'
    BY <1>3, <1>7, <1>8, <1>9, <1>10, PopFinal, UpdateFinal
       DEF ApiMove, Api!Next, Api!Consumer, Api!Handler
  <2> QED BY <1>1, <1>2, <2>1 DEF ContractInv
<1> QED BY <1>1, <1>2, <1>4, <1>5, <1>6, <1>10 DEF Next, ContractInv

(* Each step is a step of the contract or leaves the table as it is.       *)
LEMMA ContractStep ==
  ASSUME Pool!Reliable, ContractInv, [Next]_vars
  PROVE  [Contract!Next]_status
<1>1. ApiOutcomes = {"ok"} /\ status \in [Docs -> Api!Statuses]
  BY ApiTypes DEF Pool!Reliable, ContractInv
<1>2. ASSUME NEW r \in Replicas, NEW d \in Docs, Api!CreateDocument(r, d, "ok")
      PROVE  Contract!Next
  BY <1>2 DEF Api!CreateDocument, Contract!Next, Contract!Accept, Contract!Move
<1>3. ASSUME NEW r \in Replicas, Api!UpdateStatus(r, "ok")
      PROVE  Contract!Next \/ status' = status
  <2>1. PICK x \in Api!Result : x = popped[r] /\ popped[r] # NoResult
    BY <1>3, ApiTypes DEF Api!UpdateStatus, ContractInv
  <2>2. x.doc \in Docs /\ x.status \in {"completed", "failed"}
    BY DEF Api!Result
  <2>3. status[x.doc] \in {"pending", "failed"}
    <3>1. status[x.doc] \in {"none", "pending", "completed", "failed"}
      BY <1>1, <2>2 DEF Api!Statuses
    <3>2. status[x.doc] # "none"
      BY <2>1 DEF ContractInv, SystemInv, Rows, HasRow
    <3>3. status[x.doc] # "completed"
      BY <2>1, <2>2 DEF ContractInv, FinalInv
    <3> QED BY <3>1, <3>2, <3>3
  <2>4. status' = [status EXCEPT ![x.doc] = x.status]
    BY <1>3, <2>1, <2>3 DEF Api!UpdateStatus
  <2>5. CASE x.status = "completed"
    BY <2>2, <2>3, <2>4, <2>5 DEF Contract!Next, Contract!Complete, Contract!Move
  <2>6. CASE x.status = "failed" /\ status[x.doc] = "pending"
    BY <2>2, <2>4, <2>6 DEF Contract!Next, Contract!Disappoint, Contract!Move
  <2>7. CASE x.status = "failed" /\ status[x.doc] = "failed"
    BY <1>1, <2>2, <2>4, <2>7
  <2> QED BY <2>2, <2>3, <2>5, <2>6, <2>7
<1>4. CASE UNCHANGED vars
  BY <1>4 DEF vars, apiOnly
<1>5. ASSUME NEW w \in Workers, WorkerMove(w) \/ WorkerCrash(w) PROVE status' = status
  BY <1>5 DEF WorkerMove, WorkerCrash, apiOnly
<1>6. CASE DlqMove
  BY <1>6 DEF DlqMove, apiOnly
<1>7. ASSUME NEW r \in Replicas,
             \/ Api!PopResult(r, "ok") \/ Api!CrashReplica(r)
             \/ \E d \in Docs : Api!PushTask(r, d, "ok")
      PROVE  status' = status
  BY <1>7 DEF Api!PopResult, Api!CrashReplica, Api!PushTask
<1>8. CASE ApiMove
  BY <1>1, <1>2, <1>3, <1>7, <1>8 DEF ApiMove, Api!Next, Api!Consumer, Api!Handler
<1> QED BY <1>4, <1>5, <1>6, <1>8 DEF Next

(* With one replica and commands that end "ok" the table keeps the         *)
(* contract, however many pods, failures, retries, reprocessed letters and *)
(* kills there are: a POST makes a row pending, an attempt may fail and a  *)
(* later one succeed, and nothing overwrites "completed".                  *)
THEOREM TableKeepsContract ==
  Pool!Reliable /\ OneReplica => (Spec => StatusFollowsContract)
<1> SUFFICES ASSUME Pool!Reliable, OneReplica PROVE Spec => StatusFollowsContract
  OBVIOUS
<1>1. ContractInv /\ [Next]_vars => ContractInv'
  BY ContractNext
<1>2. ContractInv /\ [Next]_vars => [Contract!Next]_status
  BY ContractStep
<1>3. Init => Contract!Init
  BY DEF Init, Api!Init, Contract!Init
<1> QED BY ContractInit, <1>1, <1>2, <1>3, PTL DEF Spec, StatusFollowsContract, Contract!Spec

-----------------------------------------------------------------------------
(* What may be lost, and only by a kill: a row that was not pushed, a      *)
(* completed result.                                                       *)
Arriving(d) ==
  \/ status[d] = "completed"
  \/ \E x \in Elems(results) : x.doc = d /\ x.status = "completed"
  \/ \E r \in Replicas : popped[r] # NoResult /\ popped[r].doc = d /\ popped[r].status = "completed"

LossInv ==
  /\ Pool!Kept
  /\ apiCrashes = 0 =>
       /\ \A d \in HasRow : d \in submitted \/ \E r \in Replicas : d \in creating[r]
       /\ \A d \in published : Arriving(d)

KillInv == ContractInv /\ LossInv

LEMMA KillInit == Init => KillInv
<1> SUFFICES ASSUME Init PROVE KillInv
  OBVIOUS
<1>1. submitted = {} /\ published = {} /\ HasRow = {}
  BY DEF Init, Worker!Init, Api!Init, HasRow
<1> QED BY <1>1, ContractInit DEF KillInv, LossInv, Pool!Kept

(* A step of the pool reports, and adds no row.                            *)
LEMMA PoolLoss ==
  ASSUME Pool!Reliable, KillInv, UNCHANGED apiOnly, Pool!Kept',
         (\E w \in Workers : Pool!WorkerStep(w) \/ Pool!Crash(w)) \/ Pool!Reprocess
  PROVE  LossInv'
<1>1. UNCHANGED <<status, creating, popped, apiCrashes>> /\ HasRow' = HasRow
  BY DEF apiOnly, HasRow
<1>2. submitted' = submitted
  BY PoolAssumption, Pool!PoolKeeps
<1>3. /\ Elems(results) \subseteq Elems(results')
      /\ \A d \in published' \ published :
           \E x \in Elems(results') : x.doc = d /\ x.status = "completed"
  <2>1. Pool!PlaceInv
    BY DEF KillInv, ContractInv, Pool!LastInv
  <2>2. /\ Pool!Elems(results) \subseteq Pool!Elems(results')
        /\ \A d \in published' \ published :
             \E x \in Pool!Elems(results') : x.doc = d /\ x.status = "completed"
    BY <2>1, PoolAssumption, Pool!PublishedHasResult
  <2> QED BY <2>2, SameLists
<1>4. ASSUME apiCrashes = 0, NEW d \in published' PROVE Arriving(d)'
  <2>1. CASE d \in published
    <3>1. Arriving(d)
      BY <1>4, <2>1 DEF KillInv, LossInv
    <3> QED BY <1>1, <1>3, <3>1 DEF Arriving
  <2>2. CASE d \notin published
    BY <1>3, <1>4, <2>2 DEF Arriving
  <2> QED BY <2>1, <2>2
<1> QED BY <1>1, <1>2, <1>4 DEF KillInv, LossInv

(* A step of the API publishes nothing.                                    *)
LEMMA ApiLoss ==
  ASSUME KillInv, UNCHANGED workerOnly, Pool!Kept', apiCrashes' = apiCrashes,
         submitted \subseteq submitted',
         \A d \in HasRow' : \/ d \in HasRow \/ d \in submitted'
                            \/ \E r \in Replicas : d \in creating'[r],
         \A r \in Replicas : creating[r] \subseteq creating'[r] \cup submitted',
         \A d \in published : Arriving(d) => Arriving(d)'
  PROVE  LossInv'
<1>1. published' = published
  BY DEF workerOnly
<1> QED BY <1>1 DEF KillInv, LossInv

LEMMA PopLoss ==
  ASSUME KillInv, NEW r \in Replicas, Api!PopResult(r, "ok"), UNCHANGED workerOnly, Pool!Kept'
  PROVE  LossInv'
<1>1. Api!Times("ok") = 1 /\ ~ Api!IsError("ok")
  BY DEF Api!Times, Api!IsError
<1>2. /\ results \in Seq(Api!Result) /\ Len(results) >= 1
      /\ results' = SubSeq(results, 1 + 1, Len(results))
      /\ UNCHANGED <<status, submitted, creating, apiCrashes>> /\ popped[r] = NoResult
      /\ popped' = [popped EXCEPT ![r] = results[1]]
      /\ popped \in [Replicas -> Api!Result \cup {NoResult}]
  BY <1>1, ApiTypes DEF KillInv, ContractInv, Api!PopResult, Api!ApiCall
<1>3. Elems(results) \subseteq Elems(results') \cup {results[1]}
  <2>1. results' = SubSeq(results, 2, Len(results))
    BY <1>2
  <2> QED BY <1>2, <2>1, DropKeeps
<1>4. results[1] \in Api!Result /\ results[1] # NoResult
  <2>1. results[1] \in Api!Result
    BY <1>2
  <2> QED BY <2>1, SystemAssumption DEF Api!Result
<1>5. popped'[r] = results[1] /\ \A s \in Replicas : popped[s] # NoResult => popped'[s] = popped[s]
  BY <1>2
<1>6. \A d \in published : Arriving(d) => Arriving(d)'
  BY <1>2, <1>3, <1>4, <1>5 DEF Arriving
<1>7. HasRow' = HasRow
  BY <1>2 DEF HasRow
<1> QED BY <1>2, <1>6, <1>7, ApiLoss

(* The UPDATE brings a completed result to its row; no failed one is left  *)
(* for a completed row.                                                    *)
LEMMA UpdateLoss ==
  ASSUME KillInv, NEW r \in Replicas, Api!UpdateStatus(r, "ok"), UNCHANGED workerOnly, Pool!Kept'
  PROVE  LossInv'
<1>1. PICK x \in Api!Result : x = popped[r] /\ popped[r] # NoResult
  BY ApiTypes DEF Api!UpdateStatus, KillInv, ContractInv
<1>2. x.doc \in Docs /\ x.status \in {"completed", "failed"} /\ status[x.doc] # "none"
  BY <1>1 DEF Api!Result, KillInv, ContractInv, SystemInv, Rows, HasRow
<1>3. status[x.doc] # "completed"
  BY <1>1, <1>2 DEF KillInv, ContractInv, FinalInv
<1>4. /\ status' = [status EXCEPT ![x.doc] = x.status]
      /\ popped' = [popped EXCEPT ![r] = NoResult]
      /\ UNCHANGED <<results, submitted, creating, apiCrashes>>
      /\ status \in [Docs -> Api!Statuses] /\ popped \in [Replicas -> Api!Result \cup {NoResult}]
  BY <1>1, <1>2, ApiTypes DEF Api!UpdateStatus, Api!ApiCall, KillInv, ContractInv
<1>5. ASSUME NEW d \in published, Arriving(d) PROVE Arriving(d)'
  <2>1. d \in Docs
    BY <1>5 DEF KillInv, ContractInv, SystemInv, Pool!ObjectInv, Pool!TypeInv, Pool!TypeOK
  <2>2. CASE status[d] = "completed"
    <3>1. status'[d] = "completed"
      BY <1>3, <1>4, <2>1, <2>2
    <3> QED BY <3>1 DEF Arriving
  <2>3. CASE \E y \in Elems(results) : y.doc = d /\ y.status = "completed"
    BY <1>4, <2>3 DEF Arriving
  <2>4. ASSUME NEW s \in Replicas, popped[s] # NoResult, popped[s].doc = d,
               popped[s].status = "completed"
        PROVE  Arriving(d)'
    <3>1. CASE s = r
      <4>1. status'[d] = "completed"
        BY <1>1, <1>2, <1>4, <2>1, <2>4, <3>1
      <4> QED BY <4>1 DEF Arriving
    <3>2. CASE s # r
      <4>1. popped'[s] = popped[s]
        BY <1>4, <3>2
      <4> QED BY <2>4, <4>1 DEF Arriving
    <3> QED BY <3>1, <3>2
  <2> QED BY <1>5, <2>2, <2>3, <2>4 DEF Arriving
<1>6. HasRow' = HasRow
  BY <1>2, <1>4 DEF HasRow
<1> QED BY <1>4, <1>5, <1>6, ApiLoss

LEMMA PushLoss ==
  ASSUME KillInv, NEW r \in Replicas, NEW d \in Docs, Api!PushTask(r, d, "ok"),
         UNCHANGED workerOnly, Pool!Kept'
  PROVE  LossInv'
<1>1. /\ submitted' = submitted \cup {d} /\ creating' = [creating EXCEPT ![r] = @ \ {d}]
      /\ UNCHANGED <<results, status, popped, apiCrashes>>
      /\ creating \in [Replicas -> SUBSET Docs]
  BY ApiTypes DEF Api!PushTask, Api!ApiCall, KillInv, ContractInv
<1>2. HasRow' = HasRow /\ \A e \in published : Arriving(e) => Arriving(e)'
  BY <1>1 DEF HasRow, Arriving
<1>3. \A s \in Replicas : creating[s] \subseteq creating'[s] \cup submitted'
  BY <1>1
<1> QED BY <1>1, <1>2, <1>3, ApiLoss

LEMMA CreateLoss ==
  ASSUME KillInv, NEW r \in Replicas, NEW d \in Docs, Api!CreateDocument(r, d, "ok"),
         UNCHANGED workerOnly, Pool!Kept'
  PROVE  LossInv'
<1>1. /\ status' = [status EXCEPT ![d] = "pending"] /\ status[d] = "none"
      /\ creating' = [creating EXCEPT ![r] = @ \cup {d}]
      /\ UNCHANGED <<results, submitted, popped, apiCrashes>>
      /\ creating \in [Replicas -> SUBSET Docs] /\ status \in [Docs -> Api!Statuses]
  BY ApiTypes DEF Api!CreateDocument, Api!ApiCall, KillInv, ContractInv
<1>2. \A s \in Replicas : creating[s] \subseteq creating'[s]
  BY <1>1
<1>3. \A e \in HasRow' : e \in HasRow \/ e \in creating'[r]
  BY <1>1 DEF HasRow
<1>4. \A e \in published : Arriving(e) => Arriving(e)'
  <2>1. published \subseteq Docs
    BY DEF KillInv, ContractInv, SystemInv, Pool!ObjectInv, Pool!TypeInv, Pool!TypeOK
  <2>2. \A e \in Docs : status[e] = "completed" => status'[e] = "completed"
    BY <1>1
  <2> QED BY <1>1, <2>1, <2>2 DEF Arriving
<1> QED BY <1>1, <1>2, <1>3, <1>4, ApiLoss

LEMMA KillNext ==
  Pool!Reliable /\ OneReplica /\ KillInv /\ [Next]_vars => KillInv'
<1> SUFFICES ASSUME Pool!Reliable, OneReplica, KillInv, [Next]_vars PROVE KillInv'
  OBVIOUS
<1>1. ContractInv'
  BY ContractNext DEF KillInv
<1>2. SystemInv /\ Pool!PlaceInv /\ Pool!Kept
  BY DEF KillInv, ContractInv, Pool!LastInv, LossInv
<1>3. Pool!Kept'
  <2>1. [Pool!Next]_Pool!workerVars
    BY <1>2, PoolStep
  <2> QED BY <1>2, <2>1, PoolAssumption, Pool!KeptNext
<1>4. ApiOutcomes = {"ok"} /\ apiCrashes \in Nat
  BY <1>2, ApiTypes DEF Pool!Reliable
<1>5. CASE UNCHANGED vars
  <2>1. HasRow' = HasRow /\ \A d : Arriving(d) => Arriving(d)'
    BY <1>5 DEF vars, apiOnly, HasRow, Arriving
  <2>2. LossInv'
    BY <1>3, <1>5, <2>1, ApiLoss DEF vars, apiOnly
  <2> QED BY <1>1, <2>2 DEF KillInv
<1>6. ASSUME NEW w \in Workers, WorkerMove(w) \/ WorkerCrash(w) PROVE LossInv'
  BY <1>3, <1>6, SameStep, PoolLoss DEF WorkerMove, WorkerCrash
<1>7. CASE DlqMove
  <2>1. LossInv'
    BY <1>3, <1>7, SamePool, PoolLoss DEF DlqMove
  <2> QED BY <1>1, <2>1 DEF KillInv
<1>8. ASSUME NEW r \in Replicas, Api!CrashReplica(r) PROVE LossInv'
  BY <1>3, <1>4, <1>8 DEF Api!CrashReplica, LossInv
<1>9. CASE ApiMove
  <2>1. UNCHANGED workerOnly
    BY <1>9 DEF ApiMove
  <2>2. LossInv'
    BY <1>3, <1>4, <1>8, <1>9, <2>1, PopLoss, UpdateLoss, PushLoss, CreateLoss
       DEF ApiMove, Api!Next, Api!Consumer, Api!Handler
  <2> QED BY <1>1, <2>2 DEF KillInv
<1> QED BY <1>1, <1>5, <1>6, <1>7, <1>9 DEF Next, KillInv

LEMMA SameLive == ASSUME NEW d PROVE Worker!Live(d) <=> Pool!Live(d)
  BY DEF Worker!Live, Pool!Live, Worker!Holds, Pool!Holds, Worker!Elems, Pool!Elems,
         Worker!Owning, Pool!Owning

(* With one replica and commands that end "ok" only a kill can leave a     *)
(* document where nobody will touch it again: a killed worker its job, a   *)
(* killed replica a row it had not pushed or a completed result it had     *)
(* popped.                                                                 *)
THEOREM KillsAloneLose ==
  Pool!Reliable /\ OneReplica => (Spec => []OnlyKillsLose)
<1> SUFFICES ASSUME Pool!Reliable, OneReplica PROVE Spec => []OnlyKillsLose
  OBVIOUS
<1>1. KillInv /\ [Next]_vars => KillInv'
  BY KillNext
<1>2. KillInv => OnlyKillsLose
  <2> SUFFICES ASSUME KillInv, NEW d \in Docs
               PROVE  /\ Abandoned(d) => crashes > 0
                      /\ status[d] # "none" /\ NeverPushed(d) => apiCrashes > 0
                      /\ ResultLost(d) => apiCrashes > 0
    BY DEF OnlyKillsLose
  <2>1. crashes \in Nat /\ apiCrashes \in Nat
    BY ApiTypes DEF KillInv, ContractInv, SystemInv, Pool!ObjectInv, Pool!TypeInv, Pool!TypeOK
  <2>2. Abandoned(d) => crashes > 0
    BY <2>1, SameLive DEF Abandoned, KillInv, LossInv, Pool!Kept
  <2>3. status[d] # "none" /\ NeverPushed(d) => apiCrashes > 0
    BY <2>1 DEF NeverPushed, KillInv, LossInv, HasRow
  <2>4. ResultLost(d) => apiCrashes > 0
    BY <2>1 DEF ResultLost, KillInv, LossInv, Arriving, Elems
  <2> QED BY <2>2, <2>3, <2>4
<1> QED BY KillInit, <1>1, <1>2, PTL DEF Spec

=============================================================================
