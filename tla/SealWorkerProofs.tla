--------------------------- MODULE SealWorkerProofs ---------------------------
(***************************************************************************)
(* Theorems about the worker pool, for any number of pods and documents.   *)
(***************************************************************************)
EXTENDS SealWorker, SealRedisProofs, FiniteSetTheorems

(* A worker between BLMOVE and LREM has a job in hand. *)
HandsFull ==
  \A w \in Workers : pc[w] \in Owning \cup {"remove"} => job[w] \in Docs

TypeInv == TypeOK /\ HandsFull

LEMMA InitType == Init => TypeInv
  BY WorkerAssumption DEF Init, TypeInv, TypeOK, HandsFull, Labels, Owning, Objects

LEMMA TakeType ==
  ASSUME TypeInv, NEW w \in Workers, NEW o \in Outcome, Take(w, o)
  PROVE  TypeInv'
<1>0. /\ jobs \in Seq(Docs) /\ dlq \in Seq(Docs) /\ results \in Seq(Result)
      /\ pc \in [Workers -> Labels] /\ job \in [Workers -> Docs \cup {NoDoc}]
      /\ faults \in Nat /\ failures \in Nat /\ crashes \in Nat
      /\ HandsFull
  BY DEF TypeInv, TypeOK
<1>1. Times(o) \in 0 .. Len(jobs)
  <2>1. Len(jobs) >= Times(o)
    BY DEF Take
  <2>2. Times(o) \in 0 .. 2 /\ Len(jobs) \in Nat
    BY <1>0, TimesType
  <2> QED BY <2>1, <2>2
<1>2. jobs' \in Seq(Docs)
  BY <1>0, <1>1, DropElems DEF Take
<1>3. ASSUME NEW x \in Docs
      PROVE  Cardinality({i \in 1 .. Times(o) : jobs[i] = x}) \in Nat
  <2>1. IsFiniteSet(1 .. Times(o))
    BY <1>1, FS_Interval
  <2>2. IsFiniteSet({i \in 1 .. Times(o) : jobs[i] = x})
    BY <2>1, FS_Subset
  <2> QED BY <2>2, FS_CardinalityType
<1>4. processing' \in [Docs -> Nat] /\ attempts' \in [Docs -> Nat]
  <2>1. PICK n \in [Docs -> Nat] :
          \A x \in Docs : n[x] = Cardinality({i \in 1 .. Times(o) : jobs[i] = x})
    <3> DEFINE n == [x \in Docs |-> Cardinality({i \in 1 .. Times(o) : jobs[i] = x})]
    <3>1. n \in [Docs -> Nat]
      BY <1>3
    <3> QED BY <3>1
  <2>2. /\ processing' = [x \in Docs |-> processing[x] + n[x]]
        /\ attempts' = [x \in Docs |-> attempts[x] + n[x]]
    BY <2>1 DEF Take
  <2> QED BY <2>1, <2>2 DEF TypeInv, TypeOK
<1>5. ~ IsError(o) => jobs[Times(o)] \in Docs
  <2>1. ~ IsError(o) => Times(o) \in 1 .. Len(jobs)
    BY <1>1 DEF IsError, Times, Outcome
  <2> QED BY <1>0, <2>1
<1>6. \/ /\ ~ IsError(o)
         /\ job' = [job EXCEPT ![w] = jobs[Times(o)]]
         /\ \E l \in {"remove", "produce"} : pc' = [pc EXCEPT ![w] = l]
      \/ job' = job /\ pc' = [pc EXCEPT ![w] = "down"]
      \/ job' = job /\ pc' = pc
  BY DEF Take, Goto
<1>7. pc' \in [Workers -> Labels] /\ job' \in [Workers -> Docs \cup {NoDoc}]
  BY <1>0, <1>5, <1>6 DEF Labels, Owning
<1>8. HandsFull'
  BY <1>0, <1>5, <1>6 DEF HandsFull, Labels, Owning
<1>9. faults' \in Nat /\ failures' \in Nat /\ crashes' \in Nat
  BY <1>0 DEF Take, Command
<1> QED BY <1>2, <1>4, <1>7, <1>8, <1>9 DEF Take, TypeInv, TypeOK

(* Moving one worker to another label. *)
LEMMA GotoType ==
  ASSUME TypeInv, NEW w \in Workers, NEW l \in Labels, Goto(w, l),
         \/ job' = job /\ (l \in Owning \cup {"remove"} => job[w] \in Docs)
         \/ l \in {"idle", "down"} /\ job' = [job EXCEPT ![w] = NoDoc]
  PROVE  pc' \in [Workers -> Labels] /\ job' \in [Workers -> Docs \cup {NoDoc}] /\ HandsFull'
<1>1. pc \in [Workers -> Labels] /\ job \in [Workers -> Docs \cup {NoDoc}] /\ HandsFull
  BY DEF TypeInv, TypeOK
<1>2. pc' = [pc EXCEPT ![w] = l]
  BY DEF Goto
<1>3. pc' \in [Workers -> Labels] /\ job' \in [Workers -> Docs \cup {NoDoc}]
  BY <1>1, <1>2
<1>4. ASSUME NEW v \in Workers, pc'[v] \in Owning \cup {"remove"} PROVE job'[v] \in Docs
  <2>1. CASE v = w
    BY <2>1, <1>1, <1>2, <1>4 DEF Owning
  <2>2. CASE v # w
    BY <2>2, <1>1, <1>2, <1>4 DEF HandsFull
  <2> QED BY <2>1, <2>2
<1> QED BY <1>3, <1>4 DEF HandsFull

LEMMA LocalType ==
  ASSUME TypeInv, NEW w \in Workers, Produce(w) \/ Upload(w) \/ Start(w) \/ Crash(w)
  PROVE  TypeInv'
<1> USE DEF TypeInv, TypeOK
<1>1. pc[w] \in Owning => job[w] \in Docs
  BY DEF HandsFull
<1>2. {"upload", "publish", "report", "idle", "down"} \subseteq Labels
  BY DEF Labels, Owning
<1>3. CASE Produce(w)
  <2>1. Goto(w, "upload") \/ Goto(w, "report")
    BY <1>3 DEF Produce, Fail
  <2>2. job[w] \in Docs /\ job' = job
    BY <1>1, <1>3 DEF Produce, Owning
  <2>3. pc' \in [Workers -> Labels] /\ job' \in [Workers -> Docs \cup {NoDoc}] /\ HandsFull'
    BY <1>2, <2>1, <2>2, GotoType
  <2> QED BY <1>3, <2>3 DEF Produce, Fail, queues, history
<1>4. CASE Upload(w)
  <2>1. Goto(w, "publish") \/ Goto(w, "report")
    BY <1>4 DEF Upload, Fail
  <2>2. job[w] \in Docs /\ job' = job
    BY <1>1, <1>4 DEF Upload, Owning
  <2>3. pc' \in [Workers -> Labels] /\ job' \in [Workers -> Docs \cup {NoDoc}] /\ HandsFull'
    BY <1>2, <2>1, <2>2, GotoType
  <2>4. stored' \in [Docs -> Objects]
    <3>1. \E x \in Objects : stored' \in {stored, [stored EXCEPT ![job[w]] = x]}
      BY <1>4 DEF Upload, Objects
    <3> QED BY <3>1
  <2>5. failures' \in Nat
    BY <1>4 DEF Upload, Fail
  <2> QED BY <1>4, <2>3, <2>4, <2>5 DEF Upload, queues, history
<1>5. CASE Start(w)
  <2>1. Goto(w, "idle") /\ job' = job
    BY <1>5 DEF Start
  <2>2. pc' \in [Workers -> Labels] /\ job' \in [Workers -> Docs \cup {NoDoc}] /\ HandsFull'
    BY <1>2, <2>1, GotoType DEF Owning
  <2> QED BY <1>5, <2>2 DEF Start, queues, history, budget
<1>6. CASE Crash(w)
  <2>1. Goto(w, "down") /\ job' = [job EXCEPT ![w] = NoDoc]
    BY <1>6 DEF Crash
  <2>2. pc' \in [Workers -> Labels] /\ job' \in [Workers -> Docs \cup {NoDoc}] /\ HandsFull'
    BY <1>2, <2>1, GotoType
  <2> QED BY <1>6, <2>2 DEF Crash, queues, history
<1> QED BY <1>3, <1>4, <1>5, <1>6

LEMMA CommandType ==
  ASSUME TypeInv, NEW w \in Workers, NEW o \in Outcome,
         \/ Publish(w, o) \/ Report(w, o) \/ Count(w, o)
         \/ Requeue(w, o) \/ Bury(w, o) \/ Remove(w, o)
  PROVE  TypeInv'
<1> DEFINE Hands == /\ pc' \in [Workers -> Labels]
                    /\ job' \in [Workers -> Docs \cup {NoDoc}] /\ HandsFull'
<1> USE DEF TypeInv, TypeOK
<1>1. job[w] \in Docs
  BY DEF HandsFull, Owning, Publish, Report, Count, Requeue, Bury, Remove
<1>2. {"remove", "count", "bury", "requeue", "idle"} \subseteq Labels
  BY DEF Labels, Owning
<1>3. failures' \in Nat /\ crashes' \in Nat /\ faults' \in Nat
  BY DEF Command, Publish, Report, Count, Requeue, Bury, Remove
<1>4. CASE Publish(w, o)
  <2>1. Hands
    <3>1. Goto(w, "remove") /\ job' = job
      BY <1>4 DEF Publish
    <3> QED BY <3>1, <1>1, <1>2, GotoType
  <2>2. results' \in Seq(Result)
    <3>1. [doc |-> job[w], status |-> "completed"] \in Result
      BY <1>1 DEF Result
    <3> QED BY <1>4, <3>1, PushAny DEF Publish
  <2> QED BY <1>1, <1>3, <1>4, <2>1, <2>2 DEF Publish
<1>5. CASE Report(w, o)
  <2>1. Hands
    <3>1. Goto(w, "count") /\ job' = job
      BY <1>5 DEF Report
    <3> QED BY <3>1, <1>1, <1>2, GotoType
  <2>2. results' \in Seq(Result)
    <3>1. [doc |-> job[w], status |-> "failed"] \in Result
      BY <1>1 DEF Result
    <3> QED BY <1>5, <3>1, PushAny DEF Report
  <2> QED BY <1>3, <1>5, <2>1, <2>2 DEF Report, history
<1>6. CASE Count(w, o)
  <2>1. Hands
    <3>1. (Goto(w, "bury") \/ Goto(w, "requeue")) /\ job' = job
      BY <1>6 DEF Count
    <3> QED BY <3>1, <1>1, <1>2, GotoType
  <2> QED BY <1>3, <1>6, <2>1 DEF Count, queues, history
<1>7. CASE Requeue(w, o)
  <2>1. Hands
    <3>1. \/ Goto(w, "bury") /\ job' = job
          \/ Goto(w, "idle") /\ job' = [job EXCEPT ![w] = NoDoc]
      BY <1>7 DEF Requeue, Done, Goto
    <3> QED BY <3>1, <1>1, <1>2, GotoType
  <2>2. jobs' \in Seq(Docs)
    BY <1>1, <1>7, PushAny DEF Requeue
  <2> QED BY <1>3, <1>7, <2>1, <2>2 DEF Requeue, history
<1>8. CASE Bury(w, o)
  <2>1. Hands
    <3>1. Goto(w, "remove") /\ job' = job
      BY <1>8 DEF Bury
    <3> QED BY <3>1, <1>1, <1>2, GotoType
  <2>2. dlq' \in Seq(Docs)
    BY <1>1, <1>8, PushAny DEF Bury
  <2> QED BY <1>3, <1>8, <2>1, <2>2 DEF Bury, history
<1>9. CASE Remove(w, o)
  <2>1. Hands
    <3>1. Goto(w, "idle") /\ job' = [job EXCEPT ![w] = NoDoc]
      BY <1>9 DEF Remove, Done, Goto
    <3> QED BY <3>1, <1>2, GotoType
  <2>2. processing' \in [Docs -> Nat]
    BY <1>9 DEF Remove
  <2> QED BY <1>3, <1>9, <2>1, <2>2 DEF Remove, history
<1> QED BY <1>4, <1>5, <1>6, <1>7, <1>8, <1>9

LEMMA EnvType ==
  ASSUME TypeInv,
         \/ Reprocess
         \/ \E o \in EnvOutcomes : Consume(o) \/ \E d \in Docs : Submit(d, o)
  PROVE  TypeInv'
<1> USE DEF TypeInv, TypeOK
<1>1. CASE Reprocess
  <2>1. Head(dlq) \in Docs /\ Tail(dlq) \in Seq(Docs)
    BY <1>1, HeadTailProperties DEF Reprocess
  <2>2. "ok" \in Outcome
    BY DEF Outcome
  <2>3. jobs' \in Seq(Docs)
    BY <1>1, <2>1, <2>2, PushAny DEF Reprocess
  <2> QED BY <1>1, <2>1, <2>3 DEF Reprocess, HandsFull, budget
<1>2. ASSUME NEW o \in EnvOutcomes, Consume(o) PROVE TypeInv'
  <2>1. Times(o) \in 0 .. Len(results)
    <3>1. Len(results) >= Times(o)
      BY <1>2 DEF Consume
    <3>2. o \in Outcome
      BY WorkerAssumption
    <3>3. Times(o) \in 0 .. 2 /\ Len(results) \in Nat
      BY <3>2, TimesType
    <3> QED BY <3>1, <3>3
  <2>2. results' \in Seq(Result)
    BY <1>2, <2>1, DropElems DEF Consume
  <2> QED BY <1>2, <2>2 DEF Consume, HandsFull, history, budget
<1>3. ASSUME NEW o \in EnvOutcomes, NEW d \in Docs, Submit(d, o) PROVE TypeInv'
  <2>1. jobs' \in Seq(Docs)
    BY <1>3, PushAny, WorkerAssumption DEF Submit
  <2> QED BY <1>3, <2>1 DEF Submit, HandsFull, budget
<1> QED BY <1>1, <1>2, <1>3

LEMMA NextType == TypeInv /\ [Next]_workerVars => TypeInv'
<1> SUFFICES ASSUME TypeInv, [Next]_workerVars PROVE TypeInv'
  OBVIOUS
<1>1. CASE UNCHANGED workerVars
  BY <1>1 DEF workerVars, queues, history, budget, TypeInv, TypeOK, HandsFull
<1>2. CASE Next
  BY <1>2, TakeType, LocalType, CommandType, EnvType DEF Next, WorkerStep
<1> QED BY <1>1, <1>2

(* The variables keep their types in every execution, and a worker that is *)
(* past BLMOVE always has a job to work on.                                *)
THEOREM TypeCorrect == Spec => []TypeOK
<1>1. Spec => []TypeInv
  BY InitType, NextType, PTL DEF Spec
<1>2. TypeInv => TypeOK
  BY DEF TypeInv
<1> QED BY <1>1, <1>2, PTL

-----------------------------------------------------------------------------
(* A worker that is about to report success has uploaded the object. *)
UploadedFirst == \A w \in Workers : pc[w] = "publish" => stored[job[w]] # "none"

ObjectInv == TypeInv /\ CompletedHasObject /\ UploadedFirst

LEMMA InitObject == Init => ObjectInv
<1> SUFFICES ASSUME Init PROVE ObjectInv
  OBVIOUS
<1>1. TypeInv
  BY InitType
<1>2. Elems(results) = {}
  BY DEF Init, Elems
<1> QED BY <1>1, <1>2 DEF ObjectInv, CompletedHasObject, UploadedFirst, Init

(* A step that leaves the bucket and what is published alone, pushes no    *)
(* completed result and brings no worker to the point of reporting success.*)
LEMMA QuietObject ==
  ASSUME ObjectInv, TypeInv', UNCHANGED <<stored, published>>,
         \A r \in Elems(results') : r \in Elems(results) \/ r.status = "failed",
         \A w \in Workers : pc'[w] = "publish" => pc[w] = "publish" /\ job'[w] = job[w]
  PROVE  ObjectInv'
  BY DEF ObjectInv, CompletedHasObject, UploadedFirst

LEMMA UploadObject ==
  ASSUME ObjectInv, TypeInv', NEW w \in Workers, Upload(w)
  PROVE  ObjectInv'
<1>1. /\ stored \in [Docs -> Objects] /\ pc \in [Workers -> Labels]
      /\ job[w] \in Docs /\ job' = job
  BY DEF ObjectInv, TypeInv, TypeOK, HandsFull, Upload, Owning
<1>2. \A d \in Docs : stored[d] # "none" => stored'[d] # "none"
  BY <1>1 DEF Upload
<1>3. pc'[w] = "publish" => stored'[job[w]] # "none"
  BY <1>1 DEF Upload, Fail, Goto
<1>4. \A v \in Workers : v # w => pc'[v] = pc[v]
  BY <1>1 DEF Upload, Fail, Goto
<1>5. UploadedFirst'
  <2> SUFFICES ASSUME NEW v \in Workers, pc'[v] = "publish" PROVE stored'[job[v]] # "none"
    BY <1>1 DEF UploadedFirst
  <2>1. CASE v # w
    <3>1. pc[v] = "publish" /\ stored[job[v]] # "none"
      BY <2>1, <1>4 DEF ObjectInv, UploadedFirst
    <3>2. job[v] \in Docs
      BY <3>1 DEF ObjectInv, TypeInv, HandsFull, Owning
    <3> QED BY <3>1, <3>2, <1>2
  <2> QED BY <2>1, <1>3
<1>6. published \subseteq Docs /\ published' = published /\ results' = results
  BY DEF ObjectInv, TypeInv, TypeOK, Upload, queues, history
<1>7. CompletedHasObject'
  BY <1>2, <1>6 DEF ObjectInv, CompletedHasObject
<1> QED BY <1>5, <1>7 DEF ObjectInv

LEMMA PublishObject ==
  ASSUME ObjectInv, TypeInv', NEW w \in Workers, NEW o \in Outcome, Publish(w, o)
  PROVE  ObjectInv'
<1> DEFINE x == [doc |-> job[w], status |-> "completed"]
<1>1. /\ results \in Seq(Result) /\ pc \in [Workers -> Labels]
      /\ job[w] \in Docs /\ job' = job /\ stored' = stored
  BY DEF ObjectInv, TypeInv, TypeOK, HandsFull, Publish, Owning
<1>2. stored[job[w]] # "none"
  BY DEF ObjectInv, UploadedFirst, Publish
<1>3. /\ Elems(results') \subseteq Elems(results) \cup {x}
      /\ o = "lost" => Elems(results') \subseteq Elems(results)
  <2>1. x \in Result
    BY <1>1 DEF Result
  <2> QED BY <1>1, <2>1, PushAny DEF Publish
<1>4. /\ published \subseteq published' /\ published' \subseteq published \cup {job[w]}
      /\ o # "lost" => job[w] \in published'
  BY DEF Publish
<1>5. \A d \in published' : stored'[d] # "none"
  BY <1>1, <1>2, <1>4 DEF ObjectInv, CompletedHasObject
<1>6. ASSUME NEW r \in Elems(results'), r.status = "completed" PROVE r.doc \in published'
  <2>1. CASE r \in Elems(results)
    BY <2>1, <1>4, <1>6 DEF ObjectInv, CompletedHasObject
  <2>2. CASE r \notin Elems(results)
    BY <2>2, <1>3, <1>4
  <2> QED BY <2>1, <2>2
<1>7. UploadedFirst'
  <2>1. \A v \in Workers : pc'[v] = "publish" => pc[v] = "publish"
    BY <1>1 DEF Publish, Goto
  <2> QED BY <2>1, <1>1 DEF ObjectInv, UploadedFirst
<1> QED BY <1>5, <1>6, <1>7 DEF ObjectInv, CompletedHasObject

LEMMA ReportObject ==
  ASSUME ObjectInv, TypeInv', NEW w \in Workers, NEW o \in Outcome, Report(w, o)
  PROVE  ObjectInv'
<1>1. /\ results \in Seq(Result) /\ pc \in [Workers -> Labels] /\ job[w] \in Docs
  BY DEF ObjectInv, TypeInv, TypeOK, HandsFull, Report, Owning
<1>2. [doc |-> job[w], status |-> "failed"] \in Result
  BY <1>1 DEF Result
<1>3. Elems(results') \subseteq Elems(results) \cup {[doc |-> job[w], status |-> "failed"]}
  BY <1>1, <1>2, PushAny DEF Report
<1>4. \A r \in Elems(results') : r \in Elems(results) \/ r.status = "failed"
  BY <1>3
<1>5. \A v \in Workers : pc'[v] = "publish" => pc[v] = "publish"
  BY <1>1 DEF Report, Goto
<1>6. job' = job /\ UNCHANGED <<stored, published>>
  BY DEF Report, history
<1> QED BY <1>4, <1>5, <1>6, QuietObject

LEMMA ConsumeObject ==
  ASSUME ObjectInv, TypeInv', NEW o \in EnvOutcomes, Consume(o)
  PROVE  ObjectInv'
<1>1. results \in Seq(Result) /\ Times(o) \in 0 .. Len(results)
  <2>1. Len(results) >= Times(o) /\ o \in Outcome
    BY WorkerAssumption DEF Consume
  <2>2. results \in Seq(Result)
    BY DEF ObjectInv, TypeInv, TypeOK
  <2>3. Times(o) \in 0 .. 2 /\ Len(results) \in Nat
    BY <2>1, <2>2, TimesType
  <2> QED BY <2>1, <2>2, <2>3
<1>2. Elems(results') \subseteq Elems(results)
  BY <1>1, DropElems DEF Consume
<1>3. /\ UNCHANGED <<stored, published>>
      /\ \A w \in Workers : pc'[w] = "publish" => pc[w] = "publish" /\ job'[w] = job[w]
  BY DEF Consume, history
<1> QED BY <1>2, <1>3, QuietObject

LEMMA NextObject == ObjectInv /\ [Next]_workerVars => ObjectInv'
<1> SUFFICES ASSUME ObjectInv, [Next]_workerVars PROVE ObjectInv'
  OBVIOUS
<1>1. TypeInv' /\ pc \in [Workers -> Labels] /\ job \in [Workers -> Docs \cup {NoDoc}]
  BY NextType DEF ObjectInv, TypeInv, TypeOK
<1> DEFINE Quiet == /\ UNCHANGED <<stored, published, results>>
                    /\ \A v \in Workers : pc'[v] = "publish" =>
                                              pc[v] = "publish" /\ job'[v] = job[v]
<1>2. Quiet => ObjectInv'
  BY <1>1, QuietObject
<1>3. ASSUME NEW w \in Workers, WorkerStep(w) \/ Crash(w) PROVE ObjectInv'
  <2>1. CASE Produce(w) \/ Start(w) \/ Crash(w)
    <3>1. Quiet
      BY <2>1, <1>1 DEF Produce, Fail, Start, Crash, Goto, queues, history, budget
    <3> QED BY <3>1, <1>2
  <2>2. ASSUME NEW o \in Outcome, Take(w, o) PROVE ObjectInv'
    <3>1. UNCHANGED <<stored, published, results>>
      BY <2>2 DEF Take
    <3>2. \/ job' = job /\ pc' \in {pc, [pc EXCEPT ![w] = "down"]}
          \/ /\ \E l \in {"remove", "produce"} : pc' = [pc EXCEPT ![w] = l]
             /\ \E d : job' = [job EXCEPT ![w] = d]
      BY <2>2 DEF Take, Goto
    <3>3. Quiet
      BY <3>1, <3>2, <1>1
    <3> QED BY <3>3, <1>2
  <2>3. ASSUME NEW o \in Outcome, Count(w, o) \/ Requeue(w, o) \/ Bury(w, o) \/ Remove(w, o)
        PROVE  ObjectInv'
    <3>1. Quiet
      BY <2>3, <1>1 DEF Count, Requeue, Bury, Remove, Done, Goto, queues, history
    <3> QED BY <3>1, <1>2
  <2> QED BY <2>1, <2>2, <2>3, <1>1, <1>3, UploadObject, PublishObject, ReportObject
          DEF WorkerStep
<1>4. CASE Reprocess
  <2>1. Quiet
    BY <1>4 DEF Reprocess
  <2> QED BY <2>1, <1>2
<1>5. ASSUME NEW o \in EnvOutcomes, NEW d \in Docs, Submit(d, o) PROVE ObjectInv'
  <2>1. Quiet
    BY <1>5 DEF Submit
  <2> QED BY <2>1, <1>2
<1>6. CASE UNCHANGED workerVars
  <2>1. Quiet
    BY <1>6 DEF workerVars, queues, history
  <2> QED BY <2>1, <1>2
<1> QED BY <1>1, <1>3, <1>4, <1>5, <1>6, ConsumeObject DEF Next

(* Every document reported completed has its object in the bucket, for any *)
(* number of workers and with Redis commands lost, torn or repeated: the   *)
(* upload of process comes before its pushResult.                          *)
THEOREM CompletedObjectExists == Spec => []CompletedHasObject
<1>1. Spec => []ObjectInv
  BY InitObject, NextObject, PTL DEF Spec
<1>2. ObjectInv => CompletedHasObject
  BY DEF ObjectInv
<1> QED BY <1>1, <1>2, PTL

-----------------------------------------------------------------------------
(* Every document that is queued, held or reported is one of D.            *)
Within(D) ==
  /\ Elems(jobs) \subseteq D /\ Elems(dlq) \subseteq D
  /\ \A r \in Elems(results) : r.doc \in D
  /\ \A w \in Workers : pc[w] \in Owning \cup {"remove"} => job[w] \in D

(* The pool works on what was queued and invents no document.              *)
LEMMA PoolInventsNothing ==
  ASSUME NEW D, TypeInv, Within(D),
         \/ \E w \in Workers : WorkerStep(w) \/ Crash(w)
         \/ Reprocess
         \/ \E o \in EnvOutcomes : Consume(o)
         \/ UNCHANGED workerVars
  PROVE  Within(D)'
<1>1. /\ jobs \in Seq(Docs) /\ dlq \in Seq(Docs) /\ results \in Seq(Result)
      /\ pc \in [Workers -> Labels] /\ job \in [Workers -> Docs \cup {NoDoc}] /\ HandsFull
  BY DEF TypeInv, TypeOK
<1>2. ASSUME NEW w \in Workers, Produce(w) \/ Upload(w) \/ Start(w) \/ Crash(w)
      PROVE  Within(D)'
  <2>1. UNCHANGED queues
    BY <1>2 DEF Produce, Upload, Start, Crash
  <2>2. \A v \in Workers : pc'[v] \in Owning \cup {"remove"} =>
          pc[v] \in Owning \cup {"remove"} /\ job'[v] = job[v]
    BY <1>1, <1>2 DEF Produce, Upload, Start, Crash, Fail, Goto, Owning
  <2> QED BY <2>1, <2>2 DEF Within, queues
<1>3. ASSUME NEW w \in Workers, NEW o \in Outcome, Take(w, o) PROVE Within(D)'
  <2>1. Times(o) \in 0 .. Len(jobs)
    <3>1. Len(jobs) >= Times(o)
      BY <1>3 DEF Take
    <3>2. Times(o) \in 0 .. 2 /\ Len(jobs) \in Nat
      BY <1>1, TimesType
    <3> QED BY <3>1, <3>2
  <2>2. Elems(jobs') \subseteq Elems(jobs) /\ UNCHANGED <<dlq, results>>
    BY <1>1, <1>3, <2>1, DropElems DEF Take
  <2>3. ~ IsError(o) => jobs[Times(o)] \in Elems(jobs)
    <3>1. ~ IsError(o) => Times(o) \in 1 .. Len(jobs)
      BY <2>1 DEF IsError, Times, Outcome
    <3> QED BY <1>1, <3>1 DEF Elems
  <2>4. \/ job' = job /\ pc' \in {pc, [pc EXCEPT ![w] = "down"]}
        \/ /\ \E l : pc' = [pc EXCEPT ![w] = l]
           /\ \E d \in Elems(jobs) : job' = [job EXCEPT ![w] = d]
    BY <1>3, <2>3 DEF Take, Goto
  <2>5. \A v \in Workers : \/ job'[v] = job[v] /\ pc'[v] \in {pc[v], "down"}
                           \/ job'[v] \in Elems(jobs)
    BY <1>1, <2>4
  <2> QED BY <2>2, <2>5 DEF Within, Owning
<1>4. ASSUME NEW w \in Workers, NEW o \in Outcome, Publish(w, o) \/ Report(w, o) PROVE Within(D)'
  <2>1. job[w] \in D /\ job[w] \in Docs
    BY <1>1, <1>4 DEF Publish, Report, Within, HandsFull, Owning
  <2>2. PICK r \in Result : r.doc = job[w] /\ results' = RPush(results, r, o)
    BY <1>4, <2>1 DEF Publish, Report, Result
  <2>3. Elems(results') \subseteq Elems(results) \cup {r}
    BY <1>1, <2>2, PushAny
  <2>4. UNCHANGED <<jobs, dlq, job>> /\ \E l : pc' = [pc EXCEPT ![w] = l]
    BY <1>4 DEF Publish, Report, Goto
  <2> QED BY <1>1, <2>1, <2>2, <2>3, <2>4 DEF Within
<1>5. ASSUME NEW w \in Workers, NEW o \in Outcome, Count(w, o) \/ Remove(w, o) PROVE Within(D)'
  <2>1. UNCHANGED <<jobs, dlq, results>>
    BY <1>5 DEF Count, Remove, queues
  <2>2. \A v \in Workers : pc'[v] \in Owning \cup {"remove"} =>
          pc[v] \in Owning \cup {"remove"} /\ job'[v] = job[v]
    BY <1>1, <1>5 DEF Count, Remove, Done, Goto, Owning
  <2> QED BY <2>1, <2>2 DEF Within
<1>6. ASSUME NEW w \in Workers, NEW o \in Outcome, Requeue(w, o) \/ Bury(w, o) PROVE Within(D)'
  <2>1. job[w] \in D /\ job[w] \in Docs
    BY <1>1, <1>6 DEF Requeue, Bury, Within, HandsFull, Owning
  <2>2. Elems(jobs') \subseteq Elems(jobs) \cup {job[w]} /\ Elems(dlq') \subseteq Elems(dlq) \cup {job[w]}
    BY <1>1, <1>6, <2>1, LPushElems DEF Requeue, Bury
  <2>3. \A v \in Workers : pc'[v] \in Owning \cup {"remove"} =>
          pc[v] \in Owning \cup {"remove"} /\ job'[v] = job[v]
    BY <1>1, <1>6 DEF Requeue, Bury, Done, Goto, Owning
  <2>4. results' = results
    BY <1>6 DEF Requeue, Bury
  <2> QED BY <2>1, <2>2, <2>3, <2>4 DEF Within
<1>7. CASE Reprocess
  <2>1. Head(dlq) \in Elems(dlq) /\ Head(dlq) \in Docs /\ Tail(dlq) \in Seq(Docs)
    BY <1>1, <1>7 DEF Reprocess, Elems
  <2>2. Elems(Tail(dlq)) \subseteq Elems(dlq)
    BY <1>1, <1>7 DEF Reprocess, Elems
  <2>3. Elems(jobs') \subseteq Elems(jobs) \cup {Head(dlq)}
    <3>1. "ok" \in Outcome
      BY DEF Outcome
    <3> QED BY <1>1, <1>7, <2>1, <3>1, LPushElems DEF Reprocess
  <2> QED BY <1>7, <2>1, <2>2, <2>3 DEF Reprocess, Within
<1>8. ASSUME NEW o \in EnvOutcomes, Consume(o) PROVE Within(D)'
  <2>1. Times(o) \in 0 .. Len(results)
    <3>1. Len(results) >= Times(o)
      BY <1>8 DEF Consume
    <3>2. Times(o) \in 0 .. 2 /\ Len(results) \in Nat
      BY <1>1, TimesType, WorkerAssumption
    <3> QED BY <3>1, <3>2
  <2>2. Elems(results') \subseteq Elems(results)
    BY <1>1, <1>8, <2>1, DropElems DEF Consume
  <2> QED BY <1>8, <2>2 DEF Consume, Within
<1>9. CASE UNCHANGED workerVars
  BY <1>9 DEF workerVars, queues, Within
<1> QED BY <1>2, <1>3, <1>4, <1>5, <1>6, <1>7, <1>8, <1>9 DEF WorkerStep

(* It pushes no job of its own and takes no completed result back.         *)
LEMMA PoolKeeps ==
  ASSUME \/ \E w \in Workers : WorkerStep(w) \/ Crash(w)
         \/ Reprocess
  PROVE  submitted' = submitted /\ published \subseteq published'
<1>1. ASSUME NEW w \in Workers, Produce(w) \/ Upload(w) \/ Start(w) \/ Crash(w)
      PROVE  UNCHANGED history
  BY <1>1 DEF Produce, Upload, Start, Crash
<1>2. ASSUME NEW w \in Workers, NEW o \in Outcome,
             Count(w, o) \/ Requeue(w, o) \/ Bury(w, o) \/ Remove(w, o) \/ Report(w, o)
      PROVE  UNCHANGED history
  BY <1>2 DEF Count, Requeue, Bury, Remove, Report
<1>3. ASSUME NEW w \in Workers, NEW o \in Outcome, Take(w, o) \/ Publish(w, o)
      PROVE  submitted' = submitted /\ published \subseteq published'
  BY <1>3 DEF Take, Publish
<1>4. CASE Reprocess
  BY <1>4 DEF Reprocess
<1> QED BY <1>1, <1>2, <1>3, <1>4 DEF WorkerStep, history

-----------------------------------------------------------------------------
(* Where the jobs of the pool are, for any number of pods, documents,      *)
(* failures and kills, with the CronJob on or off, as long as Redis        *)
(* commands end "ok".                                                      *)

(* No command is lost, torn or repeated. *)
Reliable == MaxFaults = 0 /\ EnvOutcomes = {"ok"}

(* Only what was submitted is anywhere. *)
Known ==
  /\ Elems(jobs) \cup Elems(dlq) \subseteq submitted
  /\ \A w \in Workers, d \in Docs : Holds(w, d) => d \in submitted

PlaceInv == TypeInv /\ OnePlace /\ Known

LEMMA InitPlace == Init => PlaceInv
<1> SUFFICES ASSUME Init PROVE PlaceInv
  OBVIOUS
<1>1. TypeInv
  BY InitType
<1>2. jobs = <<>> /\ dlq = <<>> /\ Elems(jobs) = {} /\ Elems(dlq) = {}
  BY DEF Init, Elems
<1>3. \A w \in Workers, d \in Docs : ~ Holds(w, d)
  BY DEF Init, Holds, Owning
<1>4. NoRepeat(jobs) /\ NoRepeat(dlq)
  BY <1>2 DEF NoRepeat
<1> QED BY <1>1, <1>2, <1>3, <1>4 DEF PlaceInv, OnePlace, Known

LEMMA OnlyOk ==
  ASSUME Reliable, TypeInv, NEW o, Command(o)
  PROVE  o = "ok" /\ Times(o) = 1 /\ ~ IsError(o)
<1>1. faults \in Nat \/ o = "ok"
  BY DEF TypeInv, TypeOK
<1>2. o = "ok" \/ faults < MaxFaults
  BY DEF Command
<1> QED BY <1>1, <1>2 DEF Reliable, Times, IsError, Command

(* A step that leaves the lists alone and hands nothing to a worker. *)
LEMMA QuietPlace ==
  ASSUME PlaceInv, TypeInv', UNCHANGED <<jobs, dlq, submitted>>,
         \A w \in Workers, d \in Docs : Holds(w, d)' => Holds(w, d)
  PROVE  PlaceInv'
  BY DEF PlaceInv, OnePlace, Known

(* A worker that goes where it holds no more than before. *)
LEMMA MoveHolds ==
  ASSUME TypeInv, NEW w \in Workers, NEW l \in Labels, Goto(w, l),
         \/ job' = job /\ (l \in Owning => pc[w] \in Owning)
         \/ l \notin Owning /\ job' = [job EXCEPT ![w] = NoDoc]
  PROVE  /\ \A v \in Workers, d \in Docs : Holds(v, d)' => Holds(v, d)
         /\ l \notin Owning => \A d \in Docs : ~ Holds(w, d)'
<1>1. pc \in [Workers -> Labels] /\ job \in [Workers -> Docs \cup {NoDoc}]
  BY DEF TypeInv, TypeOK
<1>2. ASSUME NEW v \in Workers, NEW d \in Docs, Holds(v, d)' PROVE Holds(v, d)
  <2>1. pc'[v] \in Owning /\ job'[v] = d
    BY <1>2 DEF Holds
  <2>2. CASE v = w
    BY <2>1, <2>2, <1>1 DEF Holds, Goto
  <2>3. CASE v # w
    BY <2>1, <2>3, <1>1 DEF Holds, Goto
  <2> QED BY <2>2, <2>3
<1>3. l \notin Owning => \A d \in Docs : ~ Holds(w, d)'
  BY <1>1 DEF Holds, Goto
<1> QED BY <1>2, <1>3

(* BLMOVE: the head of seal:jobs leaves the list for the worker's hands. *)
LEMMA TakePlace ==
  ASSUME Reliable, PlaceInv, TypeInv', NEW w \in Workers, NEW o \in Outcome, Take(w, o)
  PROVE  PlaceInv'
<1>1. o = "ok" /\ Times(o) = 1 /\ ~ IsError(o)
  BY OnlyOk DEF PlaceInv, Take
<1>2. /\ jobs \in Seq(Docs) /\ Len(jobs) >= 1 /\ NoRepeat(jobs)
      /\ pc \in [Workers -> Labels] /\ job \in [Workers -> Docs \cup {NoDoc}]
  BY <1>1 DEF PlaceInv, OnePlace, TypeInv, TypeOK, Take
<1>3. PICK d \in Docs : d = jobs[1]
  BY <1>2
<1>4. /\ jobs' = SubSeq(jobs, 2, Len(jobs)) /\ dlq' = dlq /\ submitted' = submitted
      /\ job' = [job EXCEPT ![w] = d] /\ \E l \in Labels : pc' = [pc EXCEPT ![w] = l]
  BY <1>1, <1>3 DEF Take, Goto, Labels, Owning
<1>5. d \in Elems(jobs) /\ d \notin Elems(jobs')
  BY <1>2, <1>3, <1>4, DropHead
<1>6. Elems(jobs') \subseteq Elems(jobs) /\ NoRepeat(jobs')
  <2>1. 1 \in 0 .. Len(jobs)
    BY <1>2
  <2> QED BY <1>2, <1>4, <2>1, DropElems
<1>7. d \notin Elems(dlq) /\ d \in submitted /\ \A v \in Workers : ~ Holds(v, d)
  BY <1>5 DEF PlaceInv, OnePlace, Known
<1>8. ASSUME NEW v \in Workers, NEW e \in Docs, Holds(v, e)'
      PROVE  (v = w /\ e = d) \/ (v # w /\ e # d /\ Holds(v, e))
  <2>1. CASE v = w
    BY <2>1, <1>2, <1>4, <1>8 DEF Holds
  <2>2. CASE v # w
    <3>1. Holds(v, e)
      BY <2>2, <1>2, <1>4, <1>8 DEF Holds
    <3> QED BY <2>2, <3>1, <1>7
  <2> QED BY <2>1, <2>2
<1>9. OnePlace'
  <2>1. NoRepeat(jobs') /\ NoRepeat(dlq') /\ Elems(jobs') \cap Elems(dlq') = {}
    BY <1>4, <1>6 DEF PlaceInv, OnePlace
  <2>2. ASSUME NEW v \in Workers, NEW e \in Docs, Holds(v, e)'
        PROVE  /\ e \notin Elems(jobs') \cup Elems(dlq')
               /\ \A u \in Workers : Holds(u, e)' => u = v
    <3>1. e \notin Elems(jobs') \cup Elems(dlq')
      BY <2>2, <1>4, <1>5, <1>6, <1>7, <1>8 DEF PlaceInv, OnePlace
    <3>2. ASSUME NEW u \in Workers, Holds(u, e)' PROVE u = v
      BY <2>2, <3>2, <1>8 DEF PlaceInv, OnePlace
    <3> QED BY <3>1, <3>2
  <2> QED BY <2>1, <2>2 DEF OnePlace
<1>10. Known'
  <2>1. Elems(jobs') \cup Elems(dlq') \subseteq submitted'
    BY <1>4, <1>6 DEF PlaceInv, Known
  <2>2. ASSUME NEW v \in Workers, NEW e \in Docs, Holds(v, e)' PROVE e \in submitted'
    BY <2>2, <1>4, <1>7, <1>8 DEF PlaceInv, Known
  <2> QED BY <2>1, <2>2 DEF Known
<1> QED BY <1>9, <1>10 DEF PlaceInv

(* The worker's LPUSH to seal:jobs or to seal:dlq: the job leaves its      *)
(* hands for one of the two lists.                                         *)
LEMMA HandOverPlace ==
  ASSUME Reliable, PlaceInv, TypeInv', NEW w \in Workers, NEW o \in Outcome,
         Requeue(w, o) \/ Bury(w, o)
  PROVE  PlaceInv'
<1>1. o = "ok" /\ Times(o) = 1 /\ ~ IsError(o)
  BY OnlyOk DEF PlaceInv, Requeue, Bury
<1>2. /\ jobs \in Seq(Docs) /\ dlq \in Seq(Docs)
      /\ pc \in [Workers -> Labels] /\ job \in [Workers -> Docs \cup {NoDoc}]
  BY DEF PlaceInv, TypeInv, TypeOK
<1>3. PICK d \in Docs : d = job[w] /\ Holds(w, d)
  BY DEF PlaceInv, TypeInv, HandsFull, Requeue, Bury, Holds, Owning
<1>4. /\ d \notin Elems(jobs) /\ d \notin Elems(dlq) /\ d \in submitted
      /\ \A v \in Workers : Holds(v, d) => v = w
  BY <1>3 DEF PlaceInv, OnePlace, Known
<1>5. \/ jobs' = LPush(jobs, d, "ok") /\ dlq' = dlq
      \/ dlq' = LPush(dlq, d, "ok") /\ jobs' = jobs
  BY <1>1, <1>3 DEF Requeue, Bury
<1>6. /\ NoRepeat(jobs') /\ NoRepeat(dlq')
      /\ \/ Elems(jobs') = Elems(jobs) \cup {d} /\ Elems(dlq') = Elems(dlq)
         \/ Elems(dlq') = Elems(dlq) \cup {d} /\ Elems(jobs') = Elems(jobs)
  BY <1>2, <1>4, <1>5, LPushOk DEF PlaceInv, OnePlace
<1>7. /\ \A v \in Workers, e \in Docs : Holds(v, e)' => Holds(v, e)
      /\ \A e \in Docs : ~ Holds(w, e)'
  <2>1. \/ Goto(w, "idle") /\ job' = [job EXCEPT ![w] = NoDoc]
        \/ Goto(w, "remove") /\ job' = job
    BY <1>1 DEF Requeue, Bury, Done, Goto
  <2>2. {"idle", "remove"} \subseteq Labels \ Owning
    BY DEF Labels, Owning
  <2> QED BY <2>1, <2>2, MoveHolds DEF PlaceInv
<1>8. submitted' = submitted
  BY DEF Requeue, Bury, history
<1>9. OnePlace'
  <2>1. Elems(jobs') \cap Elems(dlq') = {}
    BY <1>4, <1>6 DEF PlaceInv, OnePlace
  <2>2. ASSUME NEW v \in Workers, NEW e \in Docs, Holds(v, e)'
        PROVE  /\ e \notin Elems(jobs') \cup Elems(dlq')
               /\ \A u \in Workers : Holds(u, e)' => u = v
    <3>1. Holds(v, e) /\ e # d
      BY <2>2, <1>4, <1>7
    <3> QED BY <3>1, <1>6, <1>7 DEF PlaceInv, OnePlace
  <2> QED BY <1>6, <2>1, <2>2 DEF OnePlace
<1>10. Known'
  <2>1. Elems(jobs') \cup Elems(dlq') \subseteq submitted'
    BY <1>4, <1>6, <1>8 DEF PlaceInv, Known
  <2>2. \A v \in Workers, e \in Docs : Holds(v, e)' => e \in submitted'
    BY <1>7, <1>8 DEF PlaceInv, Known
  <2> QED BY <2>1, <2>2 DEF Known
<1> QED BY <1>9, <1>10 DEF PlaceInv

(* The CronJob's LMOVE from seal:dlq to seal:jobs. *)
LEMMA ReprocessPlace ==
  ASSUME PlaceInv, TypeInv', Reprocess
  PROVE  PlaceInv'
<1>1. dlq \in Seq(Docs) /\ jobs \in Seq(Docs) /\ dlq # <<>> /\ NoRepeat(dlq)
  BY DEF PlaceInv, TypeInv, TypeOK, OnePlace, Reprocess
<1>2. dlq' = Tail(dlq)
  BY DEF Reprocess
<1>3. PICK d \in Docs : d = Head(dlq)
  BY <1>1, PopHead
<1>4. d \in Elems(dlq) /\ d \notin Elems(dlq')
  BY <1>1, <1>2, <1>3, PopHead
<1>5. Elems(dlq') \subseteq Elems(dlq) /\ NoRepeat(dlq')
  BY <1>1, <1>2, PopHead
<1>6. d \notin Elems(jobs) /\ d \in submitted /\ \A v \in Workers : ~ Holds(v, d)
  BY <1>4 DEF PlaceInv, OnePlace, Known
<1>7. Elems(jobs') = Elems(jobs) \cup {d} /\ NoRepeat(jobs')
  <2>1. jobs' = LPush(jobs, d, "ok")
    BY <1>3 DEF Reprocess
  <2>2. NoRepeat(jobs) /\ jobs \in Seq(Docs) /\ d \notin Elems(jobs)
    BY <1>1, <1>6 DEF PlaceInv, OnePlace
  <2>3. Elems(LPush(jobs, d, "ok")) = Elems(jobs) \cup {d} /\ NoRepeat(LPush(jobs, d, "ok"))
    BY <2>2, LPushOk
  <2> QED BY <2>1, <2>3
<1>8. submitted' = submitted /\ \A v \in Workers, e \in Docs : Holds(v, e)' => Holds(v, e)
  BY DEF Reprocess, Holds
<1>9. OnePlace'
  <2>1. Elems(jobs') \cap Elems(dlq') = {}
    BY <1>4, <1>5, <1>7 DEF PlaceInv, OnePlace
  <2>2. ASSUME NEW v \in Workers, NEW e \in Docs, Holds(v, e)'
        PROVE  /\ e \notin Elems(jobs') \cup Elems(dlq')
               /\ \A u \in Workers : Holds(u, e)' => u = v
    <3>1. Holds(v, e) /\ e # d
      BY <2>2, <1>6, <1>8
    <3> QED BY <3>1, <1>5, <1>7, <1>8 DEF PlaceInv, OnePlace
  <2> QED BY <1>5, <1>7, <2>1, <2>2 DEF OnePlace
<1>10. Known'
  BY <1>5, <1>6, <1>7, <1>8 DEF PlaceInv, Known
<1> QED BY <1>9, <1>10 DEF PlaceInv

(* The API appends a job that was never there. *)
LEMMA SubmitPlace ==
  ASSUME PlaceInv, TypeInv', NEW d \in Docs, Submit(d, "ok")
  PROVE  PlaceInv'
<1>1. jobs \in Seq(Docs) /\ d \notin submitted /\ NoRepeat(jobs)
  BY DEF PlaceInv, TypeInv, TypeOK, OnePlace, Submit
<1>2. /\ d \notin Elems(jobs) /\ d \notin Elems(dlq)
      /\ \A v \in Workers : ~ Holds(v, d)
  BY <1>1 DEF PlaceInv, Known
<1>3. Elems(jobs') = Elems(jobs) \cup {d} /\ NoRepeat(jobs')
  BY <1>1, <1>2, RPushOk DEF Submit
<1>4. /\ dlq' = dlq /\ submitted' = submitted \cup {d}
      /\ \A v \in Workers, e \in Docs : Holds(v, e)' => Holds(v, e)
  BY DEF Submit, Holds
<1>5. OnePlace'
  BY <1>2, <1>3, <1>4 DEF PlaceInv, OnePlace
<1>6. Known'
  BY <1>3, <1>4 DEF PlaceInv, Known
<1> QED BY <1>5, <1>6 DEF PlaceInv

(* The steps of a worker that leave the lists of jobs alone. *)
LEMMA WorkPlace ==
  ASSUME PlaceInv, NEW w \in Workers,
         \/ Produce(w) \/ Upload(w) \/ Start(w) \/ Crash(w)
         \/ \E o \in Outcome : \/ Publish(w, o) \/ Report(w, o)
                               \/ Count(w, o) \/ Remove(w, o)
  PROVE  \A v \in Workers, d \in Docs : Holds(v, d)' => Holds(v, d)
<1>1. /\ "idle" \in Labels \ Owning /\ "down" \in Labels \ Owning
      /\ "remove" \in Labels \ Owning /\ Owning \subseteq Labels
      /\ {"produce", "upload", "publish", "report", "count", "requeue", "bury"} = Owning
  BY DEF Labels, Owning
<1>2. CASE Produce(w) \/ Upload(w)
  <2>1. job' = job /\ pc[w] \in Owning /\ \E l \in Owning : Goto(w, l)
    BY <1>1, <1>2 DEF Produce, Upload, Fail
  <2> QED BY <1>1, <2>1, MoveHolds DEF PlaceInv
<1>3. CASE Start(w)
  <2>1. job' = job /\ Goto(w, "idle")
    BY <1>3 DEF Start
  <2> QED BY <1>1, <2>1, MoveHolds DEF PlaceInv
<1>4. CASE Crash(w)
  <2>1. job' = [job EXCEPT ![w] = NoDoc] /\ Goto(w, "down")
    BY <1>4 DEF Crash
  <2> QED BY <1>1, <2>1, MoveHolds DEF PlaceInv
<1>5. ASSUME NEW o \in Outcome, Publish(w, o)
      PROVE  \A v \in Workers, d \in Docs : Holds(v, d)' => Holds(v, d)
  <2>1. job' = job /\ Goto(w, "remove")
    BY <1>5 DEF Publish
  <2> QED BY <1>1, <2>1, MoveHolds DEF PlaceInv
<1>6. ASSUME NEW o \in Outcome, Report(w, o) \/ Count(w, o)
      PROVE  \A v \in Workers, d \in Docs : Holds(v, d)' => Holds(v, d)
  <2>1. job' = job /\ pc[w] \in Owning /\ \E l \in Owning : Goto(w, l)
    BY <1>1, <1>6 DEF Report, Count
  <2> QED BY <1>1, <2>1, MoveHolds DEF PlaceInv
<1>7. ASSUME NEW o \in Outcome, Remove(w, o)
      PROVE  \A v \in Workers, d \in Docs : Holds(v, d)' => Holds(v, d)
  <2>1. job' = [job EXCEPT ![w] = NoDoc] /\ Goto(w, "idle")
    BY <1>7 DEF Remove, Done, Goto
  <2> QED BY <1>1, <2>1, MoveHolds DEF PlaceInv
<1> QED BY <1>2, <1>3, <1>4, <1>5, <1>6, <1>7

LEMMA NextPlace == Reliable /\ PlaceInv /\ [Next]_workerVars => PlaceInv'
<1> SUFFICES ASSUME Reliable, PlaceInv, [Next]_workerVars PROVE PlaceInv'
  OBVIOUS
<1>1. TypeInv'
  BY NextType DEF PlaceInv
<1>2. ASSUME NEW w \in Workers, WorkerStep(w) \/ Crash(w) PROVE PlaceInv'
  <2>1. ASSUME \/ Produce(w) \/ Upload(w) \/ Start(w) \/ Crash(w)
               \/ \E o \in Outcome : \/ Publish(w, o) \/ Report(w, o)
                                     \/ Count(w, o) \/ Remove(w, o)
        PROVE  PlaceInv'
    <3>1. UNCHANGED <<jobs, dlq, submitted>>
      BY <2>1 DEF Produce, Upload, Start, Crash, Publish, Report, Count, Remove,
                  queues, history
    <3>2. \A v \in Workers, d \in Docs : Holds(v, d)' => Holds(v, d)
      BY <2>1, WorkPlace
    <3> QED BY <1>1, <3>1, <3>2, QuietPlace
  <2> QED BY <1>1, <1>2, <2>1, TakePlace, HandOverPlace DEF WorkerStep
<1>3. CASE Reprocess
  BY <1>1, <1>3, ReprocessPlace
<1>4. ASSUME NEW o \in EnvOutcomes, Consume(o) PROVE PlaceInv'
  <2>1. /\ UNCHANGED <<jobs, dlq, submitted>>
        /\ \A v \in Workers, d \in Docs : Holds(v, d)' => Holds(v, d)
    BY <1>4 DEF Consume, Holds, history
  <2> QED BY <1>1, <2>1, QuietPlace
<1>5. ASSUME NEW o \in EnvOutcomes, NEW d \in Docs, Submit(d, o) PROVE PlaceInv'
  BY <1>1, <1>5, SubmitPlace DEF Reliable
<1>6. CASE UNCHANGED workerVars
  <2>1. /\ UNCHANGED <<jobs, dlq, submitted>>
        /\ \A v \in Workers, d \in Docs : Holds(v, d)' => Holds(v, d)
    BY <1>6 DEF workerVars, queues, history, Holds
  <2> QED BY <1>1, <2>1, QuietPlace
<1> QED BY <1>2, <1>3, <1>4, <1>5, <1>6 DEF Next

(* With reliable commands no job is ever in two lists, twice in a list, or *)
(* in the hands of two workers, however many pods run and are killed: the  *)
(* order "push, then forget" of retryOrDLQ and pushToDLQ and the atomic    *)
(* BLMOVE and LMOVE are enough.                                            *)
THEOREM JobInOnePlace == Reliable => (Spec => []OnePlace)
<1> SUFFICES ASSUME Reliable PROVE Spec => []OnePlace
  OBVIOUS
<1>1. PlaceInv /\ [Next]_workerVars => PlaceInv'
  BY NextPlace
<1>2. PlaceInv => OnePlace
  BY DEF PlaceInv
<1> QED BY InitPlace, <1>1, <1>2, PTL DEF Spec

-----------------------------------------------------------------------------
(* A completed result is in seal:results only for a published document, a  *)
(* published document was submitted.                                       *)
LastInv ==
  /\ PlaceInv
  /\ CompletedIsLast
  /\ published \subseteq submitted
  /\ \A r \in Elems(results) : r.status = "completed" => r.doc \in published

LEMMA InitLast == Init => LastInv
<1> SUFFICES ASSUME Init PROVE LastInv
  OBVIOUS
<1>1. PlaceInv
  BY InitPlace
<1>2. published = {} /\ results = <<>> /\ Elems(results) = {}
  BY DEF Init, Elems
<1>3. CompletedIsLast
  BY <1>2 DEF CompletedIsLast
<1> QED BY <1>1, <1>2, <1>3 DEF LastInv

(* A step that neither pushes a result nor makes a published document live.*)
LEMMA QuietLast ==
  ASSUME LastInv, PlaceInv', UNCHANGED <<results, published>>, submitted \subseteq submitted',
         \A d \in published : Live(d)' => Live(d)
  PROVE  LastInv'
  BY DEF LastInv, CompletedIsLast

(* The results with one more at the end: nothing completed before it has   *)
(* its document.                                                           *)
LEMMA AppendLast ==
  ASSUME LastInv, NEW d \in Docs, NEW s \in {"completed", "failed"}, d \notin published,
         results' = RPush(results, [doc |-> d, status |-> s], "ok")
  PROVE  /\ \A i, j \in DOMAIN results' :
              i < j /\ results'[i].doc = results'[j].doc => results'[i].status # "completed"
         /\ Elems(results') = Elems(results) \cup {[doc |-> d, status |-> s]}
<1> DEFINE x == [doc |-> d, status |-> s]
<1>1. results \in Seq(Result) /\ x \in Result
  BY DEF LastInv, PlaceInv, TypeInv, TypeOK, Result
<1>2. Elems(results') = Elems(results) \cup {x}
  BY <1>1, RPushOk
<1>3. PICK r \in Seq(Result) :
        /\ r = results' /\ Len(r) = Len(results) + 1
        /\ \A i \in 1 .. Len(results) : r[i] = results[i]
        /\ r[Len(r)] = x
  <2>1. PICK o \in Outcome : o = "ok" /\ Times(o) = 1
    BY DEF Outcome, Times
  <2>2. PICK r \in Seq(Result) :
          /\ r = RPush(results, x, o) /\ Len(r) = Len(results) + Times(o)
          /\ \A i \in 1 .. Len(results) : r[i] = results[i]
          /\ \A i \in 1 .. Times(o) : r[Len(results) + i] = x
    BY <1>1, RPushAt
  <2>3. r[Len(r)] = x
    BY <2>1, <2>2
  <2> QED BY <2>1, <2>2, <2>3
<1>4. ASSUME NEW i \in 1 .. Len(r), NEW j \in 1 .. Len(r), i < j, r[i].doc = r[j].doc
      PROVE  r[i].status # "completed"
  <2>1. i \in 1 .. Len(results) /\ r[i] = results[i] /\ results[i] \in Elems(results)
    BY <1>1, <1>3, <1>4 DEF Elems
  <2>2. CASE j \in 1 .. Len(results)
    BY <1>1, <1>3, <1>4, <2>1, <2>2 DEF LastInv, CompletedIsLast
  <2>3. CASE j = Len(r)
    <3>1. r[i].doc = d
      BY <1>3, <1>4, <2>3
    <3> QED BY <2>1, <3>1 DEF LastInv
  <2> QED BY <1>3, <2>2, <2>3
<1> QED BY <1>2, <1>3, <1>4

(* A worker pushes a result of the job it holds: "completed", and then the *)
(* job is over, or "failed".                                               *)
LEMMA PushLast ==
  ASSUME Reliable, LastInv, PlaceInv', NEW w \in Workers, NEW o \in Outcome,
         Publish(w, o) \/ Report(w, o)
  PROVE  LastInv'
<1>1. o = "ok"
  BY OnlyOk DEF LastInv, PlaceInv, Publish, Report
<1>2. PICK d \in Docs : d = job[w] /\ Holds(w, d)
  BY DEF LastInv, PlaceInv, TypeInv, HandsFull, Publish, Report, Holds, Owning
<1>3. d \notin published /\ d \in submitted
  BY <1>2 DEF LastInv, CompletedIsLast, Live, PlaceInv, Known
<1>4. UNCHANGED <<jobs, dlq, submitted, job>>
  BY DEF Publish, Report, history
<1>5. \A v \in Workers, e \in Docs : Holds(v, e)' => Holds(v, e)
  BY WorkPlace DEF LastInv
<1>6. \A e \in Docs : Live(e)' => Live(e)
  BY <1>4, <1>5 DEF Live
<1>7. CASE Publish(w, o)
  <2>1. /\ published' = published \cup {d}
        /\ results' = RPush(results, [doc |-> d, status |-> "completed"], "ok")
    BY <1>1, <1>2, <1>7 DEF Publish
  <2>2. ~ Live(d)'
    <3>1. \A v \in Workers : Holds(v, d)' => v = w
      BY <1>2, <1>5 DEF LastInv, PlaceInv, OnePlace
    <3>2. ~ Holds(w, d)'
      BY <1>7 DEF Publish, Goto, Holds, Owning, LastInv, PlaceInv, TypeInv, TypeOK
    <3>3. d \notin Elems(jobs') /\ d \notin Elems(dlq')
      BY <1>2, <1>4 DEF LastInv, PlaceInv, OnePlace
    <3> QED BY <3>1, <3>2, <3>3 DEF Live
  <2>3. \A e \in published' : ~ Live(e)'
    <3>1. published \subseteq Docs
      BY DEF LastInv, PlaceInv, TypeInv, TypeOK
    <3> QED BY <1>6, <2>1, <2>2, <3>1 DEF LastInv, CompletedIsLast
  <2>4. /\ \A i, j \in DOMAIN results' :
             i < j /\ results'[i].doc = results'[j].doc => results'[i].status # "completed"
        /\ Elems(results') = Elems(results) \cup {[doc |-> d, status |-> "completed"]}
    BY <1>3, <2>1, AppendLast
  <2>5. ASSUME NEW r \in Elems(results'), r.status = "completed" PROVE r.doc \in published'
    BY <2>1, <2>4, <2>5 DEF LastInv
  <2>6. published' \subseteq submitted'
    BY <1>3, <1>4, <2>1 DEF LastInv
  <2> QED BY <2>3, <2>4, <2>5, <2>6 DEF LastInv, CompletedIsLast
<1>8. CASE Report(w, o)
  <2>1. /\ published' = published
        /\ results' = RPush(results, [doc |-> d, status |-> "failed"], "ok")
    BY <1>1, <1>2, <1>8 DEF Report, history
  <2>2. \A e \in published' : ~ Live(e)'
    <3>1. published \subseteq Docs
      BY DEF LastInv, PlaceInv, TypeInv, TypeOK
    <3> QED BY <1>6, <2>1, <3>1 DEF LastInv, CompletedIsLast
  <2>3. /\ \A i, j \in DOMAIN results' :
             i < j /\ results'[i].doc = results'[j].doc => results'[i].status # "completed"
        /\ Elems(results') = Elems(results) \cup {[doc |-> d, status |-> "failed"]}
    BY <1>3, <2>1, AppendLast
  <2>4. ASSUME NEW r \in Elems(results'), r.status = "completed" PROVE r.doc \in published'
    BY <2>1, <2>3, <2>4 DEF LastInv
  <2>5. published' \subseteq submitted'
    BY <1>4, <2>1 DEF LastInv
  <2> QED BY <2>2, <2>3, <2>4, <2>5 DEF LastInv, CompletedIsLast
<1> QED BY <1>7, <1>8

(* BLPOP by the API takes the oldest result and keeps the order. *)
LEMMA ConsumeLast ==
  ASSUME LastInv, PlaceInv', Consume("ok")
  PROVE  LastInv'
<1>1. results \in Seq(Result) /\ 1 \in 0 .. Len(results) /\ results' = SubSeq(results, 1 + 1, Len(results))
  <2>1. Times("ok") = 1 /\ results \in Seq(Result) /\ Len(results) \in Nat
    BY DEF Times, LastInv, PlaceInv, TypeInv, TypeOK
  <2> QED BY <2>1 DEF Consume
<1>2. Elems(results') \subseteq Elems(results)
  BY <1>1, DropElems
<1>3. PICK r \in Seq(Result) :
        /\ r = results' /\ Len(r) = Len(results) - 1
        /\ \A i \in 1 .. Len(r) : r[i] = results[1 + i] /\ 1 + i \in 1 .. Len(results)
  BY <1>1, DropAt
<1>4. UNCHANGED <<jobs, dlq, submitted, published, pc, job>>
  BY DEF Consume, history
<1>5. ASSUME NEW i \in 1 .. Len(r), NEW j \in 1 .. Len(r), i < j, r[i].doc = r[j].doc
      PROVE  r[i].status # "completed"
  <2>1. 1 + i < 1 + j /\ 1 + i \in DOMAIN results /\ 1 + j \in DOMAIN results
    BY <1>1, <1>3, <1>5
  <2> QED BY <1>3, <1>5, <2>1 DEF LastInv, CompletedIsLast
<1>6. \A d : Live(d)' => Live(d)
  BY <1>4 DEF Live, Holds
<1> QED BY <1>2, <1>3, <1>4, <1>5, <1>6 DEF LastInv, CompletedIsLast

(* Jobs that move between the lists and the workers were live before; a    *)
(* job that appears is of a document never submitted, so never published.  *)
LEMMA MoveLast ==
  ASSUME Reliable, LastInv, PlaceInv, PlaceInv',
         \/ \E w \in Workers : \/ Produce(w) \/ Upload(w) \/ Start(w) \/ Crash(w)
                              \/ \E o \in Outcome : \/ Take(w, o) \/ Count(w, o)
                                                    \/ Requeue(w, o) \/ Bury(w, o)
                                                    \/ Remove(w, o)
         \/ Reprocess
         \/ \E d \in Docs : Submit(d, "ok")
  PROVE  LastInv'
<1>0. /\ jobs \in Seq(Docs) /\ dlq \in Seq(Docs) /\ NoRepeat(jobs) /\ NoRepeat(dlq)
      /\ pc \in [Workers -> Labels] /\ job \in [Workers -> Docs \cup {NoDoc}]
      /\ published \subseteq Docs /\ published \subseteq submitted
  BY DEF LastInv, PlaceInv, OnePlace, TypeInv, TypeOK
<1>1. ASSUME NEW w \in Workers,
             \/ Produce(w) \/ Upload(w) \/ Start(w) \/ Crash(w)
             \/ \E o \in Outcome : Count(w, o) \/ Remove(w, o)
      PROVE  LastInv'
  <2>1. UNCHANGED <<jobs, dlq, submitted, published, results>>
    BY <1>1 DEF Produce, Upload, Start, Crash, Count, Remove, queues, history
  <2>2. \A v \in Workers, d \in Docs : Holds(v, d)' => Holds(v, d)
    BY <1>1, WorkPlace
  <2>3. \A d \in published : Live(d)' => Live(d)
    BY <1>0, <2>1, <2>2 DEF Live
  <2> QED BY <2>1, <2>3, QuietLast
<1>2. ASSUME NEW w \in Workers, NEW o \in Outcome, Take(w, o) PROVE LastInv'
  <2>1. o = "ok" /\ Times(o) = 1 /\ ~ IsError(o)
    BY <1>2, OnlyOk DEF PlaceInv, Take
  <2>2. /\ UNCHANGED <<dlq, submitted, published, results>>
        /\ Len(jobs) >= 1 /\ jobs' = SubSeq(jobs, 2, Len(jobs))
        /\ job' = [job EXCEPT ![w] = jobs[1]] /\ \E l \in Labels : pc' = [pc EXCEPT ![w] = l]
    BY <1>2, <2>1 DEF Take, Goto, Labels, Owning
  <2>3. 1 \in 0 .. Len(jobs) /\ SubSeq(jobs, 2, Len(jobs)) = SubSeq(jobs, 1 + 1, Len(jobs))
    BY <1>0, <2>2
  <2>4. Elems(jobs') \subseteq Elems(jobs) /\ jobs[1] \in Elems(jobs)
    BY <1>0, <2>2, <2>3, DropElems, DropHead
  <2>5. ASSUME NEW d \in published, NEW v \in Workers, Holds(v, d)' PROVE Live(d)
    <3>1. CASE v = w
      <4>1. d = jobs[1]
        BY <1>0, <2>2, <2>5, <3>1 DEF Holds
      <4> QED BY <2>4, <4>1 DEF Live
    <3>2. CASE v # w
      <4>1. Holds(v, d)
        BY <1>0, <2>2, <2>5, <3>2 DEF Holds
      <4> QED BY <4>1 DEF Live
    <3> QED BY <3>1, <3>2
  <2>6. \A d \in published : Live(d)' => Live(d)
    BY <2>2, <2>4, <2>5 DEF Live
  <2> QED BY <2>2, <2>6, QuietLast
<1>3. ASSUME NEW w \in Workers, NEW o \in Outcome, Requeue(w, o) \/ Bury(w, o) PROVE LastInv'
  <2>1. o = "ok" /\ ~ IsError(o)
    BY <1>3, OnlyOk DEF PlaceInv, Requeue, Bury
  <2>2. PICK d \in Docs : d = job[w] /\ Holds(w, d)
    BY <1>3 DEF PlaceInv, TypeInv, HandsFull, Requeue, Bury, Holds, Owning
  <2>3. /\ UNCHANGED <<submitted, published, results>>
        /\ \/ jobs' = LPush(jobs, d, "ok") /\ dlq' = dlq
           \/ dlq' = LPush(dlq, d, "ok") /\ jobs' = jobs
    BY <1>3, <2>1, <2>2 DEF Requeue, Bury, history
  <2>4. Elems(jobs') \cup Elems(dlq') \subseteq Elems(jobs) \cup Elems(dlq) \cup {d}
    BY <1>0, <2>3, LPushOk
  <2>5. \A v \in Workers, e \in Docs : Holds(v, e)' => Holds(v, e)
    <3>1. \/ Goto(w, "idle") /\ job' = [job EXCEPT ![w] = NoDoc]
          \/ Goto(w, "remove") /\ job' = job
      BY <1>3, <2>1 DEF Requeue, Bury, Done, Goto
    <3>2. {"idle", "remove"} \subseteq Labels \ Owning
      BY DEF Labels, Owning
    <3> QED BY <3>1, <3>2, MoveHolds DEF PlaceInv
  <2>6. \A e \in published : Live(e)' => Live(e)
    BY <1>0, <2>2, <2>4, <2>5 DEF Live
  <2> QED BY <2>3, <2>6, QuietLast
<1>4. CASE Reprocess
  <2>1. dlq # <<>> /\ dlq' = Tail(dlq) /\ jobs' = LPush(jobs, Head(dlq), "ok")
    BY <1>4 DEF Reprocess
  <2>2. Head(dlq) \in Docs /\ Head(dlq) \in Elems(dlq) /\ Elems(dlq') \subseteq Elems(dlq)
    BY <1>0, <2>1, PopHead
  <2>3. Elems(jobs') = Elems(jobs) \cup {Head(dlq)}
    <3>1. PICK d \in Docs : d = Head(dlq)
      BY <2>2
    <3>2. jobs \in Seq(Docs)
      BY <1>0
    <3>3. Elems(LPush(jobs, d, "ok")) = Elems(jobs) \cup {d}
      BY <3>2, LPushOk
    <3> QED BY <2>1, <3>1, <3>3
  <2>4. UNCHANGED <<results, submitted, published, pc, job>>
    BY <1>4 DEF Reprocess
  <2>5. \A d \in published : Live(d)' => Live(d)
    BY <2>2, <2>3, <2>4 DEF Live, Holds
  <2> QED BY <2>4, <2>5, QuietLast
<1>5. ASSUME NEW d \in Docs, Submit(d, "ok") PROVE LastInv'
  <2>1. Elems(jobs') = Elems(jobs) \cup {d}
    BY <1>0, <1>5, RPushOk DEF Submit
  <2>2. UNCHANGED <<results, dlq, published, pc, job>> /\ submitted' = submitted \cup {d}
    BY <1>5 DEF Submit
  <2>3. d \notin published
    BY <1>0, <1>5 DEF Submit
  <2>4. \A e \in published : Live(e)' => Live(e)
    BY <2>1, <2>2, <2>3 DEF Live, Holds
  <2> QED BY <2>2, <2>4, QuietLast
<1> QED BY <1>1, <1>2, <1>3, <1>4, <1>5

LEMMA NextLast == Reliable /\ LastInv /\ [Next]_workerVars => LastInv'
<1> SUFFICES ASSUME Reliable, LastInv, [Next]_workerVars PROVE LastInv'
  OBVIOUS
<1>1. PlaceInv /\ PlaceInv'
  BY NextPlace DEF LastInv
<1>2. CASE UNCHANGED workerVars
  <2>1. /\ UNCHANGED <<results, published, submitted>>
        /\ \A d \in published : Live(d)' => Live(d)
    BY <1>2 DEF workerVars, queues, history, Live, Holds
  <2> QED BY <1>1, <2>1, QuietLast
<1>3. ASSUME NEW o \in EnvOutcomes, Consume(o) PROVE LastInv'
  BY <1>1, <1>3, ConsumeLast DEF Reliable
<1>4. ASSUME NEW w \in Workers, NEW o \in Outcome, Publish(w, o) \/ Report(w, o) PROVE LastInv'
  BY <1>1, <1>4, PushLast
<1>5. CASE \/ \E w \in Workers : \/ Produce(w) \/ Upload(w) \/ Start(w) \/ Crash(w)
                                \/ \E o \in Outcome : \/ Take(w, o) \/ Count(w, o)
                                                      \/ Requeue(w, o) \/ Bury(w, o)
                                                      \/ Remove(w, o)
           \/ Reprocess
           \/ \E d \in Docs : Submit(d, "ok")
  BY <1>1, <1>5, MoveLast
<1>6. CASE Next
  <2>1. ASSUME NEW w \in Workers, WorkerStep(w) \/ Crash(w) PROVE LastInv'
    BY <2>1, <1>4, <1>5 DEF WorkerStep
  <2>2. ASSUME NEW o \in EnvOutcomes, NEW d \in Docs, Submit(d, o) PROVE LastInv'
    <3>1. Submit(d, "ok")
      BY <2>2 DEF Reliable
    <3> QED BY <3>1, <1>5
  <2> QED BY <1>3, <1>5, <1>6, <2>1, <2>2 DEF Next
<1> QED BY <1>2, <1>6

(* The pool reports only on jobs that are not over.                        *)
LEMMA NewResults ==
  ASSUME Reliable, LastInv, (\E w \in Workers : WorkerStep(w) \/ Crash(w)) \/ Reprocess
  PROVE  \A x \in Elems(results') : x \in Elems(results) \/ x.doc \notin published
<1>1. ASSUME NEW w \in Workers, NEW o \in Outcome, Publish(w, o) \/ Report(w, o)
      PROVE  \A x \in Elems(results') : x \in Elems(results) \/ x.doc \notin published
  <2>1. o = "ok"
    BY <1>1, OnlyOk DEF LastInv, PlaceInv, Publish, Report
  <2>2. PICK d \in Docs : d = job[w] /\ Holds(w, d)
    BY <1>1 DEF LastInv, PlaceInv, TypeInv, HandsFull, Publish, Report, Holds, Owning
  <2>3. d \notin published
    BY <2>2 DEF LastInv, CompletedIsLast, Live
  <2>4. PICK s \in {"completed", "failed"} : results' = RPush(results, [doc |-> d, status |-> s], "ok")
    BY <1>1, <2>1, <2>2 DEF Publish, Report
  <2>5. Elems(results') = Elems(results) \cup {[doc |-> d, status |-> s]}
    BY <2>3, <2>4, AppendLast
  <2> QED BY <2>3, <2>5
<1>2. results' = results => \A x \in Elems(results') : x \in Elems(results)
  OBVIOUS
<1>3. ASSUME NEW w \in Workers, WorkerStep(w) \/ Crash(w)
      PROVE  \/ results' = results
             \/ \E o \in Outcome : Publish(w, o) \/ Report(w, o)
  BY <1>3 DEF WorkerStep, Produce, Upload, Start, Crash, Take, Count, Requeue, Bury, Remove, queues
<1>4. Reprocess => results' = results
  BY DEF Reprocess
<1> QED BY <1>1, <1>2, <1>3, <1>4

(* With reliable commands "completed" is the last word: after pushResult   *)
(* of a success no worker ever gets the job again, so no failed result of  *)
(* it is ever pushed.                                                      *)
THEOREM CompletedIsFinal == Reliable => (Spec => []CompletedIsLast)
<1> SUFFICES ASSUME Reliable PROVE Spec => []CompletedIsLast
  OBVIOUS
<1>1. LastInv /\ [Next]_workerVars => LastInv'
  BY NextLast
<1>2. LastInv => CompletedIsLast
  BY DEF LastInv
<1> QED BY InitLast, <1>1, <1>2, PTL DEF Spec

-----------------------------------------------------------------------------
(* Without a kill a submitted job is at work, waiting or over, with the    *)
(* CronJob on or off.                                                      *)
Kept == crashes = 0 => \A d \in submitted \ (published \cup Malformed) : Live(d)

(* A step that takes no well-formed job out of its place.                  *)
LEMMA QuietKept ==
  ASSUME Kept, UNCHANGED <<submitted, published, crashes>>,
         \A d \in submitted \ (published \cup Malformed) : Live(d) => Live(d)'
  PROVE  Kept'
  BY DEF Kept

(* A worker goes on with its job, or had none.                             *)
LEMMA GoOnHolding ==
  ASSUME TypeInv, NEW w \in Workers, NEW l \in Labels, Goto(w, l),
         \/ l \in Owning /\ job' = job
         \/ pc[w] \notin Owning /\ \E x : job' = [job EXCEPT ![w] = x]
  PROVE  \A v \in Workers, d \in Docs : Holds(v, d) => Holds(v, d)'
<1>1. pc \in [Workers -> Labels] /\ job \in [Workers -> Docs \cup {NoDoc}]
  BY DEF TypeInv, TypeOK
<1>2. ASSUME NEW v \in Workers, NEW d \in Docs, Holds(v, d) PROVE Holds(v, d)'
  <2>1. CASE v = w
    BY <1>1, <1>2, <2>1 DEF Holds, Goto
  <2>2. CASE v # w
    BY <1>1, <1>2, <2>2 DEF Holds, Goto
  <2> QED BY <2>1, <2>2
<1> QED BY <1>2

LEMMA WorkKept ==
  ASSUME PlaceInv, Kept, NEW w \in Workers,
         \/ Produce(w) \/ Upload(w) \/ Start(w)
         \/ \E o \in Outcome : Report(w, o) \/ Count(w, o) \/ Remove(w, o)
  PROVE  Kept'
<1>1. /\ UNCHANGED <<jobs, dlq, submitted, published, crashes>> /\ TypeInv
      /\ submitted \subseteq Docs
  BY DEF Produce, Upload, Start, Report, Count, Remove, Fail, Command, queues, history, budget,
         PlaceInv, TypeInv, TypeOK
<1>2. /\ "idle" \in Labels \ Owning /\ "down" \in Labels \ Owning
      /\ "remove" \in Labels \ Owning /\ Owning \subseteq Labels
      /\ {"produce", "upload", "publish", "report", "count", "requeue", "bury"} = Owning
  BY DEF Labels, Owning
<1>3. \/ job' = job /\ \E l \in Owning : Goto(w, l)
      \/ pc[w] \notin Owning /\ Goto(w, "idle") /\ \E x : job' = [job EXCEPT ![w] = x]
  <2>1. CASE Produce(w) \/ Upload(w) \/ \E o \in Outcome : Report(w, o) \/ Count(w, o)
    BY <1>2, <2>1 DEF Produce, Upload, Report, Count, Fail
  <2>2. CASE Start(w)
    <3>1. job' = [job EXCEPT ![w] = job[w]]
      BY <2>2 DEF Start, PlaceInv, TypeInv, TypeOK
    <3> QED BY <1>2, <2>2, <3>1 DEF Start
  <2>3. CASE \E o \in Outcome : Remove(w, o)
    BY <1>2, <2>3 DEF Remove, Done, Goto
  <2> QED BY <2>1, <2>2, <2>3
<1>4. \A v \in Workers, d \in Docs : Holds(v, d) => Holds(v, d)'
  BY <1>1, <1>2, <1>3, GoOnHolding
<1>5. \A d \in submitted \ (published \cup Malformed) : Live(d) => Live(d)'
  BY <1>1, <1>4 DEF Live
<1> QED BY <1>1, <1>5, QuietKept

(* BLMOVE: the head goes to the worker, unless it is malformed.            *)
LEMMA TakeKept ==
  ASSUME Reliable, PlaceInv, Kept, NEW w \in Workers, NEW o \in Outcome, Take(w, o)
  PROVE  Kept'
<1>1. o = "ok" /\ Times(o) = 1 /\ ~ IsError(o)
  BY OnlyOk DEF PlaceInv, Take
<1>2. /\ jobs \in Seq(Docs) /\ Len(jobs) >= 1 /\ submitted \subseteq Docs
      /\ pc \in [Workers -> Labels] /\ job \in [Workers -> Docs \cup {NoDoc}]
      /\ pc[w] = "idle" /\ TypeInv
  BY <1>1 DEF PlaceInv, TypeInv, TypeOK, Take
<1>3. PICK d \in Docs : d = jobs[1]
  BY <1>2
<1>4. /\ jobs' = SubSeq(jobs, 2, Len(jobs))
      /\ UNCHANGED <<dlq, submitted, published, crashes>>
      /\ job' = [job EXCEPT ![w] = d]
      /\ pc' = [pc EXCEPT ![w] = IF d \in Malformed THEN "remove" ELSE "produce"]
  BY <1>1, <1>3 DEF Take, Goto, Command
<1>5. Elems(jobs) \subseteq Elems(jobs') \cup {d}
  BY <1>2, <1>3, <1>4, DropKeeps
<1>6. d \notin Malformed => Holds(w, d)'
  BY <1>2, <1>4 DEF Holds, Owning
<1>7. \A v \in Workers, e \in Docs : Holds(v, e) => Holds(v, e)'
  BY <1>2, <1>4 DEF Holds, Owning
<1>8. \A e \in submitted \ (published \cup Malformed) : Live(e) => Live(e)'
  BY <1>2, <1>4, <1>5, <1>6, <1>7 DEF Live
<1> QED BY <1>4, <1>8, QuietKept

(* The job goes to a list, or is over.                                     *)
LEMMA HandOverKept ==
  ASSUME Reliable, PlaceInv, Kept, NEW w \in Workers, NEW o \in Outcome,
         Requeue(w, o) \/ Bury(w, o) \/ Publish(w, o)
  PROVE  Kept'
<1>1. o = "ok" /\ ~ IsError(o)
  BY OnlyOk DEF PlaceInv, Requeue, Bury, Publish
<1>2. /\ jobs \in Seq(Docs) /\ dlq \in Seq(Docs) /\ submitted \subseteq Docs
      /\ pc \in [Workers -> Labels] /\ job \in [Workers -> Docs \cup {NoDoc}]
  BY DEF PlaceInv, TypeInv, TypeOK
<1>3. PICK d \in Docs : d = job[w] /\ Holds(w, d)
  BY DEF PlaceInv, TypeInv, HandsFull, Requeue, Bury, Publish, Holds, Owning
<1>4. \/ jobs' = LPush(jobs, d, "ok") /\ dlq' = dlq /\ published' = published
      \/ dlq' = LPush(dlq, d, "ok") /\ jobs' = jobs /\ published' = published
      \/ jobs' = jobs /\ dlq' = dlq /\ published' = published \cup {d}
  BY <1>1, <1>3 DEF Requeue, Bury, Publish, history
<1>5. /\ Elems(jobs) \subseteq Elems(jobs') /\ Elems(dlq) \subseteq Elems(dlq')
      /\ published \subseteq published'
      /\ d \in Elems(jobs') \cup Elems(dlq') \cup published'
  BY <1>2, <1>4, LPushOk
<1>6. \A v \in Workers, e \in Docs : Holds(v, e) => (v = w /\ e = d) \/ Holds(v, e)'
  <2>1. \/ pc' = [pc EXCEPT ![w] = "idle"] /\ job' = [job EXCEPT ![w] = NoDoc]
        \/ pc' = [pc EXCEPT ![w] = "remove"] /\ job' = job
    BY <1>1 DEF Requeue, Bury, Publish, Done, Goto
  <2> QED BY <1>2, <1>3, <2>1 DEF Holds
<1>7. submitted' = submitted /\ crashes' = crashes
  BY DEF Requeue, Bury, Publish, history, Command
<1> QED BY <1>2, <1>5, <1>6, <1>7 DEF Kept, Live

LEMMA KeptNext == Reliable /\ PlaceInv /\ Kept /\ [Next]_workerVars => Kept'
<1> SUFFICES ASSUME Reliable, PlaceInv, Kept, [Next]_workerVars PROVE Kept'
  OBVIOUS
<1>1. /\ jobs \in Seq(Docs) /\ dlq \in Seq(Docs) /\ submitted \subseteq Docs /\ crashes \in Nat
      /\ NoRepeat(dlq)
  BY DEF PlaceInv, OnePlace, TypeInv, TypeOK
<1>2. CASE UNCHANGED workerVars
  <2>1. \A d : Live(d) => Live(d)'
    BY <1>2 DEF workerVars, queues, Live, Holds
  <2> QED BY <1>2, <2>1, QuietKept DEF workerVars, history, budget
<1>3. ASSUME NEW w \in Workers, WorkerStep(w) PROVE Kept'
  BY <1>3, WorkKept, TakeKept, HandOverKept DEF WorkerStep
<1>4. ASSUME NEW w \in Workers, Crash(w) PROVE Kept'
  BY <1>1, <1>4 DEF Crash, Kept
<1>5. CASE Reprocess
  <2>1. /\ dlq # <<>> /\ dlq' = Tail(dlq) /\ jobs' = LPush(jobs, Head(dlq), "ok")
        /\ UNCHANGED <<submitted, published, crashes, pc, job>>
    BY <1>5 DEF Reprocess, budget
  <2>2. PICK d \in Docs : d = Head(dlq) /\ d = dlq[1]
    BY <1>1, <2>1, PopHead
  <2>3. Elems(dlq) \subseteq Elems(dlq') \cup {d}
    <3>1. Len(dlq) >= 1 /\ dlq' = SubSeq(dlq, 2, Len(dlq))
      BY <1>1, <2>1, TailIsSubSeq
    <3> QED BY <1>1, <2>2, <3>1, DropKeeps
  <2>4. Elems(jobs') = Elems(jobs) \cup {d}
    <3>1. Elems(LPush(jobs, d, "ok")) = Elems(jobs) \cup {d}
      BY <1>1, LPushOk
    <3> QED BY <2>1, <2>2, <3>1
  <2>5. \A e : Live(e) => Live(e)'
    BY <2>1, <2>3, <2>4 DEF Live, Holds
  <2> QED BY <2>1, <2>5, QuietKept
<1>6. ASSUME NEW o \in EnvOutcomes, Consume(o) PROVE Kept'
  <2>1. \A d : Live(d) => Live(d)'
    BY <1>6 DEF Consume, Live, Holds
  <2> QED BY <1>6, <2>1, QuietKept DEF Consume, history, budget
<1>7. ASSUME NEW o \in EnvOutcomes, NEW d \in Docs, Submit(d, o) PROVE Kept'
  <2>1. /\ jobs' = RPush(jobs, d, "ok") /\ submitted' = submitted \cup {d}
        /\ UNCHANGED <<dlq, pc, job, published, crashes>>
    BY <1>7 DEF Submit, Reliable, budget
  <2>2. Elems(jobs') = Elems(jobs) \cup {d}
    BY <1>1, <2>1, RPushOk
  <2> QED BY <2>1, <2>2 DEF Kept, Live, Holds
<1> QED BY <1>2, <1>3, <1>4, <1>5, <1>6, <1>7 DEF Next

(* What was reported stays in the list until the API takes it, and what is *)
(* newly over has its result there.                                        *)
LEMMA PublishedHasResult ==
  ASSUME Reliable, PlaceInv, (\E w \in Workers : WorkerStep(w) \/ Crash(w)) \/ Reprocess
  PROVE  /\ Elems(results) \subseteq Elems(results')
         /\ \A d \in published' \ published :
              \E x \in Elems(results') : x.doc = d /\ x.status = "completed"
<1>1. ASSUME NEW w \in Workers, NEW o \in Outcome, Publish(w, o) \/ Report(w, o)
      PROVE  /\ Elems(results) \subseteq Elems(results')
             /\ \A d \in published' \ published :
                  \E x \in Elems(results') : x.doc = d /\ x.status = "completed"
  <2>1. o = "ok" /\ results \in Seq(Result)
    BY <1>1, OnlyOk DEF PlaceInv, TypeInv, TypeOK, Publish, Report
  <2>2. job[w] \in Docs
    BY <1>1 DEF PlaceInv, TypeInv, HandsFull, Publish, Report, Owning
  <2>3. PICK s \in {"completed", "failed"} :
          /\ results' = RPush(results, [doc |-> job[w], status |-> s], "ok")
          /\ \/ s = "completed" /\ published' = published \cup {job[w]}
             \/ published' = published
    BY <1>1, <2>1 DEF Publish, Report, history
  <2>4. [doc |-> job[w], status |-> s] \in Result
    BY <2>2 DEF Result
  <2>5. Elems(results') = Elems(results) \cup {[doc |-> job[w], status |-> s]}
    BY <2>1, <2>3, <2>4, RPushOk
  <2> QED BY <2>3, <2>5
<1>2. ASSUME NEW w \in Workers, WorkerStep(w) \/ Crash(w)
      PROVE  \/ UNCHANGED <<results, published>>
             \/ \E o \in Outcome : Publish(w, o) \/ Report(w, o)
  BY <1>2 DEF WorkerStep, Produce, Upload, Start, Crash, Take, Count, Requeue, Bury, Remove,
              queues, history
<1>3. Reprocess => UNCHANGED <<results, published>>
  BY DEF Reprocess
<1> QED BY <1>1, <1>2, <1>3

=============================================================================
