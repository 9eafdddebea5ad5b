--------------------------- MODULE SealRecoveryProofs ---------------------------
(***************************************************************************)
(* What seal:processing is good for: with the CronJob off and Redis        *)
(* commands that end "ok", any number of kills loses no job.               *)
(***************************************************************************)
EXTENDS SealWorkerProofs, WellFoundedInduction

(* Nobody works on the job or will take it, and it does not need anybody:  *)
(* it is buried, finished or malformed.                                    *)
HandedOn(d) ==
  /\ d \in submitted
  /\ d \notin Elems(jobs)
  /\ \A v \in Workers : ~ Holds(v, d)
  /\ d \in Elems(dlq) \cup published \cup Malformed

(* LREM is only ever called for such a job. *)
Removing ==
  \A w \in Workers, d \in Docs : pc[w] = "remove" /\ job[w] = d => HandedOn(d)

Over == published \subseteq submitted

RecordInv == PlaceInv /\ HeldIsRecorded /\ NothingLost /\ Removing /\ Over

LEMMA InitRecord == Init => RecordInv
<1> SUFFICES ASSUME Init PROVE RecordInv
  OBVIOUS
<1>1. PlaceInv
  BY InitPlace
<1>2. \A w \in Workers : pc[w] = "down"
  BY DEF Init
<1>3. HeldIsRecorded /\ Removing
  BY <1>2 DEF HeldIsRecorded, Removing, Holds, Owning
<1>4. NothingLost /\ Over
  BY DEF Init, NothingLost, Over
<1> QED BY <1>1, <1>3, <1>4 DEF RecordInv

(* A step that takes nothing out of the lists and seal:processing, queues  *)
(* nothing, and leaves every worker where it was or holding less.          *)
LEMMA QuietRecord ==
  ASSUME RecordInv, PlaceInv', jobs' = jobs, dlq' = dlq, processing' = processing,
         submitted' = submitted, published' = published,
         \A v \in Workers, d \in Docs : Holds(v, d)' => Holds(v, d),
         \A v \in Workers : pc'[v] = "remove" => pc[v] = "remove" /\ job'[v] = job[v]
  PROVE  RecordInv'
<1>1. HeldIsRecorded' /\ NothingLost' /\ Over'
  BY DEF RecordInv, HeldIsRecorded, NothingLost, Over
<1>2. ASSUME NEW u \in Workers, NEW e \in Docs, pc'[u] = "remove", job'[u] = e
      PROVE  HandedOn(e)'
  <2>1. HandedOn(e)
    BY <1>2 DEF RecordInv, Removing
  <2> QED BY <2>1 DEF HandedOn
<1> QED BY <1>1, <1>2 DEF RecordInv, Removing

(* A worker moves from a call at which it holds its job to LREM.           *)
LEMMA ToRemove ==
  ASSUME RecordInv, PlaceInv', NEW w \in Workers, pc[w] \in Owning,
         Goto(w, "remove"), job' = job, jobs' = jobs, submitted' = submitted,
         Elems(dlq) \subseteq Elems(dlq'), published \subseteq published',
         job[w] \in Elems(dlq') \cup published'
  PROVE  Removing' /\ \A v \in Workers, d \in Docs : Holds(v, d)' => Holds(v, d)
<1>1. /\ pc \in [Workers -> Labels] /\ job \in [Workers -> Docs \cup {NoDoc}]
      /\ "remove" \in Labels \ Owning /\ TypeInv
  BY DEF RecordInv, PlaceInv, TypeInv, TypeOK, Labels, Owning
<1>2. /\ \A v \in Workers, d \in Docs : Holds(v, d)' => Holds(v, d)
      /\ \A d \in Docs : ~ Holds(w, d)'
  BY <1>1, MoveHolds
<1>3. PICK e \in Docs : e = job[w] /\ Holds(w, e)
  BY DEF RecordInv, PlaceInv, TypeInv, HandsFull, Holds
<1>4. /\ e \in submitted /\ e \notin Elems(jobs)
      /\ \A v \in Workers : Holds(v, e) => v = w
  BY <1>3 DEF RecordInv, PlaceInv, OnePlace, Known
<1>5. HandedOn(e)'
  BY <1>2, <1>3, <1>4 DEF HandedOn
<1>6. ASSUME NEW u \in Workers, NEW d \in Docs, pc'[u] = "remove", job'[u] = d, u # w
      PROVE  HandedOn(d)'
  <2>1. pc[u] = "remove" /\ job[u] = d
    BY <1>1, <1>6 DEF Goto
  <2>2. HandedOn(d)
    BY <2>1 DEF RecordInv, Removing
  <2> QED BY <2>2, <1>2 DEF HandedOn
<1> QED BY <1>2, <1>3, <1>5, <1>6 DEF Removing

LEMMA TakeRecord ==
  ASSUME Reliable, RecordInv, PlaceInv', NEW w \in Workers, NEW o \in Outcome, Take(w, o)
  PROVE  RecordInv'
<1>1. o = "ok" /\ Times(o) = 1 /\ ~ IsError(o)
  BY OnlyOk DEF RecordInv, PlaceInv, Take
<1>2. /\ jobs \in Seq(Docs) /\ Len(jobs) >= 1 /\ NoRepeat(jobs)
      /\ pc \in [Workers -> Labels] /\ job \in [Workers -> Docs \cup {NoDoc}]
      /\ processing \in [Docs -> Nat] /\ pc[w] = "idle"
  BY <1>1 DEF RecordInv, PlaceInv, OnePlace, TypeInv, TypeOK, Take
<1>3. PICK d \in Docs : d = jobs[1]
  BY <1>2
<1>4. /\ jobs' = SubSeq(jobs, 2, Len(jobs))
      /\ UNCHANGED <<dlq, submitted, published>>
      /\ job' = [job EXCEPT ![w] = d]
      /\ pc' = [pc EXCEPT ![w] = IF d \in Malformed THEN "remove" ELSE "produce"]
  BY <1>1, <1>3 DEF Take, Goto
<1>5. \A x \in Docs : /\ processing'[x] \in Nat /\ processing'[x] >= processing[x]
                      /\ processing'[d] > 0
  <2>1. ASSUME NEW x \in Docs
        PROVE  Cardinality({i \in 1 .. 1 : jobs[i] = x}) \in Nat
    <3>1. CASE jobs[1] = x
      <4>1. {i \in 1 .. 1 : jobs[i] = x} = {1}
        BY <3>1
      <4> QED BY <4>1, FS_Singleton
    <3>2. CASE jobs[1] # x
      <4>1. {i \in 1 .. 1 : jobs[i] = x} = {}
        BY <3>2
      <4> QED BY <4>1, FS_EmptySet
    <3> QED BY <3>1, <3>2
  <2>2. Cardinality({i \in 1 .. 1 : jobs[i] = d}) = 1
    <3>1. {i \in 1 .. 1 : jobs[i] = d} = {1}
      BY <1>3
    <3> QED BY <3>1, FS_Singleton
  <2>3. PICK n \in [Docs -> Nat] :
          \A x \in Docs : n[x] = Cardinality({i \in 1 .. 1 : jobs[i] = x})
    <3> DEFINE n == [x \in Docs |-> Cardinality({i \in 1 .. 1 : jobs[i] = x})]
    <3>1. n \in [Docs -> Nat]
      BY <2>1
    <3> QED BY <3>1
  <2>4. \A x \in Docs : processing'[x] = processing[x] + n[x]
    BY <1>1, <2>3 DEF Take
  <2>5. n[d] = 1
    BY <2>2, <2>3
  <2> QED BY <1>2, <2>3, <2>4, <2>5
<1>6. /\ d \in Elems(jobs) /\ d \notin Elems(jobs')
      /\ Elems(jobs') \subseteq Elems(jobs)
  <2>1. 1 \in 0 .. Len(jobs) /\ SubSeq(jobs, 2, Len(jobs)) = SubSeq(jobs, 1 + 1, Len(jobs))
    BY <1>2
  <2> QED BY <1>2, <1>3, <1>4, <2>1, DropHead, DropElems
<1>7. ASSUME NEW e \in Elems(jobs), e # d PROVE e \in Elems(jobs')
  <2>1. PICK r \in Seq(Docs) :
          /\ r = SubSeq(jobs, 1 + 1, Len(jobs)) /\ Len(r) = Len(jobs) - 1
          /\ \A i \in 1 .. Len(r) : r[i] = jobs[1 + i] /\ 1 + i \in 1 .. Len(jobs)
    <3>1. 1 \in 0 .. Len(jobs)
      BY <1>2
    <3> QED BY <1>2, <3>1, DropAt
  <2>2. r = jobs'
    BY <1>4, <2>1
  <2>3. PICK i \in 1 .. Len(jobs) : e = jobs[i] /\ i # 1
    BY <1>2, <1>3, <1>7 DEF Elems
  <2>4. i - 1 \in 1 .. Len(r) /\ 1 + (i - 1) = i
    BY <1>2, <2>1, <2>3
  <2>5. PICK k \in 1 .. Len(r) : 1 + k = i
    BY <2>4
  <2>6. r[k] = e
    BY <2>1, <2>3, <2>5
  <2> QED BY <2>2, <2>5, <2>6 DEF Elems
<1>8. d \in submitted /\ d \notin Elems(dlq) /\ \A v \in Workers : ~ Holds(v, d)
  BY <1>6 DEF RecordInv, PlaceInv, OnePlace, Known
<1>9. ASSUME NEW v \in Workers, NEW e \in Docs, Holds(v, e)'
      PROVE  (v = w /\ e = d /\ d \notin Malformed) \/ (v # w /\ e # d /\ Holds(v, e))
  <2>1. CASE v = w
    <3>1. e = d /\ pc'[w] \in Owning
      BY <2>1, <1>2, <1>4, <1>9 DEF Holds
    <3>2. d \notin Malformed
      BY <3>1, <1>2, <1>4 DEF Owning
    <3> QED BY <2>1, <3>1, <3>2
  <2>2. CASE v # w
    <3>1. Holds(v, e)
      BY <2>2, <1>2, <1>4, <1>9 DEF Holds
    <3> QED BY <2>2, <3>1, <1>8
  <2> QED BY <2>1, <2>2
<1>10. HeldIsRecorded'
  BY <1>2, <1>5, <1>9 DEF RecordInv, HeldIsRecorded
<1>11. NothingLost'
  <2> SUFFICES ASSUME NEW e \in submitted' \ Malformed
               PROVE  \/ e \in Elems(jobs') \/ e \in Elems(dlq')
                      \/ processing'[e] > 0 \/ e \in published'
    BY DEF NothingLost
  <2>1. e \in Docs /\ processing[e] \in Nat
    BY <1>2, <1>4 DEF RecordInv, PlaceInv, TypeInv, TypeOK
  <2>2. e \in Elems(jobs) \/ e \in Elems(dlq) \/ processing[e] > 0 \/ e \in published
    BY <1>4 DEF RecordInv, NothingLost
  <2> QED BY <2>1, <2>2, <1>4, <1>5, <1>7
<1>12. ASSUME NEW u \in Workers, NEW e \in Docs, pc'[u] = "remove", job'[u] = e
       PROVE  HandedOn(e)'
  <2>1. CASE u = w
    <3>1. e = d /\ d \in Malformed
      BY <2>1, <1>2, <1>4, <1>12
    <3>2. \A v \in Workers : ~ Holds(v, d)'
      BY <3>1, <1>9
    <3> QED BY <3>1, <3>2, <1>4, <1>6, <1>8 DEF HandedOn
  <2>2. CASE u # w
    <3>1. pc[u] = "remove" /\ job[u] = e
      BY <2>2, <1>2, <1>4, <1>12
    <3>2. HandedOn(e)
      BY <3>1 DEF RecordInv, Removing
    <3>3. e # d
      BY <3>2, <1>6 DEF HandedOn
    <3>4. \A v \in Workers : ~ Holds(v, e)'
      BY <3>2, <3>3, <1>9 DEF HandedOn
    <3> QED BY <3>2, <3>4, <1>4, <1>6 DEF HandedOn
  <2> QED BY <2>1, <2>2
<1>13. Over'
  BY <1>4 DEF RecordInv, Over
<1> QED BY <1>10, <1>11, <1>12, <1>13 DEF RecordInv, Removing

LEMMA PublishRecord ==
  ASSUME Reliable, RecordInv, PlaceInv', NEW w \in Workers, NEW o \in Outcome, Publish(w, o)
  PROVE  RecordInv'
<1>1. o = "ok"
  BY OnlyOk DEF RecordInv, PlaceInv, Publish
<1>2. /\ published' = published \cup {job[w]} /\ Goto(w, "remove")
      /\ UNCHANGED <<jobs, processing, dlq, job, submitted>> /\ pc[w] \in Owning
  BY <1>1 DEF Publish, Owning
<1>3. Removing' /\ \A v \in Workers, d \in Docs : Holds(v, d)' => Holds(v, d)
  BY <1>2, ToRemove
<1>4. job[w] \in submitted
  BY <1>2 DEF RecordInv, PlaceInv, TypeInv, HandsFull, Known, Holds
<1>5. HeldIsRecorded' /\ NothingLost' /\ Over'
  BY <1>2, <1>3, <1>4 DEF RecordInv, HeldIsRecorded, NothingLost, Over
<1> QED BY <1>3, <1>5 DEF RecordInv

LEMMA HandOverRecord ==
  ASSUME Reliable, RecordInv, PlaceInv', NEW w \in Workers, NEW o \in Outcome,
         Requeue(w, o) \/ Bury(w, o)
  PROVE  RecordInv'
<1>1. o = "ok" /\ ~ IsError(o)
  BY OnlyOk DEF RecordInv, PlaceInv, Requeue, Bury
<1>2. /\ jobs \in Seq(Docs) /\ dlq \in Seq(Docs) /\ TypeInv
      /\ pc \in [Workers -> Labels] /\ job \in [Workers -> Docs \cup {NoDoc}]
  BY DEF RecordInv, PlaceInv, TypeInv, TypeOK
<1>3. PICK d \in Docs : d = job[w] /\ Holds(w, d) /\ pc[w] \in Owning
  BY DEF RecordInv, PlaceInv, TypeInv, HandsFull, Requeue, Bury, Holds, Owning
<1>4. UNCHANGED <<processing, submitted, published>>
  BY DEF Requeue, Bury, history
<1>5. CASE Requeue(w, o)
  <2>1. jobs' = LPush(jobs, d, "ok") /\ dlq' = dlq
    BY <1>1, <1>3, <1>5 DEF Requeue
  <2>2. Elems(jobs') = Elems(jobs) \cup {d}
    BY <1>2, <2>1, LPushOk
  <2>3. Goto(w, "idle") /\ job' = [job EXCEPT ![w] = NoDoc]
    BY <1>1, <1>5 DEF Requeue, Done, Goto
  <2>4. \A v \in Workers, e \in Docs : Holds(v, e)' => Holds(v, e)
    <3>1. "idle" \in Labels \ Owning
      BY DEF Labels, Owning
    <3> QED BY <1>2, <2>3, <3>1, MoveHolds
  <2>5. ASSUME NEW u \in Workers, NEW e \in Docs, pc'[u] = "remove", job'[u] = e
        PROVE  HandedOn(e)'
    <3>1. pc[u] = "remove" /\ job[u] = e
      BY <2>3, <2>5, <1>2 DEF Goto
    <3>2. HandedOn(e)
      BY <3>1 DEF RecordInv, Removing
    <3>3. e # d
      BY <3>2, <1>3 DEF HandedOn
    <3> QED BY <3>2, <3>3, <2>1, <2>2, <2>4, <1>4 DEF HandedOn
  <2>6. HeldIsRecorded' /\ NothingLost' /\ Over'
    BY <1>4, <2>1, <2>2, <2>4 DEF RecordInv, HeldIsRecorded, NothingLost, Over
  <2> QED BY <2>5, <2>6 DEF RecordInv, Removing
<1>6. CASE Bury(w, o)
  <2>1. dlq' = LPush(dlq, d, "ok") /\ jobs' = jobs /\ job' = job /\ Goto(w, "remove")
    BY <1>1, <1>3, <1>6 DEF Bury
  <2>2. Elems(dlq') = Elems(dlq) \cup {d}
    BY <1>2, <2>1, LPushOk
  <2>3. Removing' /\ \A v \in Workers, e \in Docs : Holds(v, e)' => Holds(v, e)
    BY <1>3, <1>4, <2>1, <2>2, ToRemove
  <2>4. HeldIsRecorded' /\ NothingLost' /\ Over'
    BY <1>4, <2>1, <2>2, <2>3 DEF RecordInv, HeldIsRecorded, NothingLost, Over
  <2> QED BY <2>3, <2>4 DEF RecordInv
<1> QED BY <1>5, <1>6

(* LREM clears the copies of a job that nobody has. *)
LEMMA RemoveRecord ==
  ASSUME Reliable, RecordInv, PlaceInv', NEW w \in Workers, NEW o \in Outcome, Remove(w, o)
  PROVE  RecordInv'
<1>1. o = "ok"
  BY OnlyOk DEF RecordInv, PlaceInv, Remove
<1>2. /\ processing \in [Docs -> Nat] /\ TypeInv
      /\ pc \in [Workers -> Labels] /\ job \in [Workers -> Docs \cup {NoDoc}]
  BY DEF RecordInv, PlaceInv, TypeInv, TypeOK
<1>3. PICK d \in Docs : /\ d = job[w] /\ \A v \in Workers : ~ Holds(v, d)
                        /\ d \in Elems(dlq) \cup published \cup Malformed
  BY DEF RecordInv, Removing, HandedOn, PlaceInv, TypeInv, HandsFull, Remove
<1>4. /\ processing' = [processing EXCEPT ![d] = 0]
      /\ Goto(w, "idle") /\ job' = [job EXCEPT ![w] = NoDoc]
      /\ UNCHANGED <<jobs, dlq, submitted, published>>
  BY <1>1, <1>3 DEF Remove, Done, Goto, history
<1>5. \A v \in Workers, e \in Docs : Holds(v, e)' => Holds(v, e)
  <2>1. "idle" \in Labels \ Owning
    BY DEF Labels, Owning
  <2> QED BY <1>2, <1>4, <2>1, MoveHolds
<1>6. HeldIsRecorded'
  <2> SUFFICES ASSUME NEW v \in Workers, NEW e \in Docs, Holds(v, e)' PROVE processing'[e] > 0
    BY DEF HeldIsRecorded
  <2>1. Holds(v, e) /\ e # d
    BY <1>3, <1>5
  <2> QED BY <2>1, <1>2, <1>4 DEF RecordInv, HeldIsRecorded
<1>7. NothingLost'
  <2> SUFFICES ASSUME NEW e \in submitted' \ Malformed
               PROVE  \/ e \in Elems(jobs') \/ e \in Elems(dlq')
                      \/ processing'[e] > 0 \/ e \in published'
    BY DEF NothingLost
  <2>1. CASE e = d
    BY <2>1, <1>3, <1>4
  <2>2. CASE e # d
    <3>1. processing'[e] = processing[e]
      BY <2>2, <1>2, <1>4
    <3> QED BY <3>1, <1>4 DEF RecordInv, NothingLost
  <2> QED BY <2>1, <2>2
<1>8. ASSUME NEW u \in Workers, NEW e \in Docs, pc'[u] = "remove", job'[u] = e
      PROVE  HandedOn(e)'
  <2>1. pc[u] = "remove" /\ job[u] = e
    BY <1>2, <1>4, <1>8 DEF Goto
  <2>2. HandedOn(e)
    BY <2>1 DEF RecordInv, Removing
  <2> QED BY <2>2, <1>4, <1>5 DEF HandedOn
<1>9. Over'
  BY <1>4 DEF RecordInv, Over
<1> QED BY <1>6, <1>7, <1>8, <1>9 DEF RecordInv, Removing

LEMMA SubmitRecord ==
  ASSUME RecordInv, PlaceInv', NEW d \in Docs, Submit(d, "ok")
  PROVE  RecordInv'
<1>1. jobs \in Seq(Docs) /\ d \notin submitted
  BY DEF RecordInv, PlaceInv, TypeInv, TypeOK, Submit
<1>2. Elems(jobs') = Elems(jobs) \cup {d}
  BY <1>1, RPushOk DEF Submit
<1>3. /\ submitted' = submitted \cup {d}
      /\ UNCHANGED <<processing, dlq, published, pc, job>>
      /\ \A v \in Workers, e \in Docs : Holds(v, e)' <=> Holds(v, e)
  BY DEF Submit, Holds
<1>4. HeldIsRecorded' /\ NothingLost' /\ Over'
  BY <1>2, <1>3 DEF RecordInv, HeldIsRecorded, NothingLost, Over
<1>5. ASSUME NEW u \in Workers, NEW e \in Docs, pc'[u] = "remove", job'[u] = e
      PROVE  HandedOn(e)'
  <2>1. HandedOn(e)
    BY <1>3, <1>5 DEF RecordInv, Removing
  <2> QED BY <2>1, <1>1, <1>2, <1>3 DEF HandedOn
<1> QED BY <1>4, <1>5 DEF RecordInv, Removing

LEMMA NextRecord ==
  Reliable /\ ~ DlqReprocessing /\ RecordInv /\ [Next]_workerVars => RecordInv'
<1> SUFFICES ASSUME Reliable, ~ DlqReprocessing, RecordInv, [Next]_workerVars PROVE RecordInv'
  OBVIOUS
<1>1. PlaceInv' /\ pc \in [Workers -> Labels]
  BY NextPlace DEF RecordInv, PlaceInv, TypeInv, TypeOK
<1> DEFINE Quiet == /\ UNCHANGED <<jobs, dlq, processing, submitted, published>>
                    /\ \A v \in Workers, d \in Docs : Holds(v, d)' => Holds(v, d)
                    /\ \A v \in Workers : pc'[v] = "remove" =>
                                            pc[v] = "remove" /\ job'[v] = job[v]
<1>2. Quiet => RecordInv'
  BY <1>1, QuietRecord
<1>3. ASSUME NEW w \in Workers, WorkerStep(w) \/ Crash(w) PROVE RecordInv'
  <2>1. ASSUME \/ Produce(w) \/ Upload(w) \/ Start(w) \/ Crash(w)
               \/ \E o \in Outcome : Report(w, o) \/ Count(w, o)
        PROVE  RecordInv'
    <3>1. UNCHANGED <<jobs, dlq, processing, submitted, published>>
      BY <2>1 DEF Produce, Upload, Start, Crash, Report, Count, queues, history
    <3>2. \A v \in Workers, d \in Docs : Holds(v, d)' => Holds(v, d)
      BY <2>1, WorkPlace DEF RecordInv
    <3>3. \/ job' = job /\ \E l \in Labels \ {"remove"} : pc' = [pc EXCEPT ![w] = l]
          \/ pc' = [pc EXCEPT ![w] = "down"] /\ job' = [job EXCEPT ![w] = NoDoc]
      BY <2>1 DEF Produce, Upload, Fail, Start, Crash, Report, Count, Goto, Labels, Owning
    <3>4. \A v \in Workers : pc'[v] = "remove" => pc[v] = "remove" /\ job'[v] = job[v]
      BY <1>1, <3>3 DEF RecordInv, PlaceInv, TypeInv, TypeOK
    <3> QED BY <1>2, <3>1, <3>2, <3>4
  <2> QED BY <1>1, <1>3, <2>1, TakeRecord, PublishRecord, HandOverRecord, RemoveRecord
          DEF WorkerStep
<1>4. ~ Reprocess
  BY DEF Reprocess
<1>5. ASSUME NEW o \in EnvOutcomes, Consume(o) PROVE RecordInv'
  <2>1. Quiet
    BY <1>5 DEF Consume, history, Holds
  <2> QED BY <1>2, <2>1
<1>6. ASSUME NEW o \in EnvOutcomes, NEW d \in Docs, Submit(d, o) PROVE RecordInv'
  <2>1. Submit(d, "ok")
    BY <1>6 DEF Reliable
  <2> QED BY <1>1, <2>1, SubmitRecord
<1>7. CASE UNCHANGED workerVars
  <2>1. Quiet
    BY <1>7 DEF workerVars, queues, history, Holds
  <2> QED BY <1>2, <2>1
<1> QED BY <1>3, <1>4, <1>5, <1>6, <1>7 DEF Next

(* With the CronJob off, a worker's job always has its copy in             *)
(* seal:processing: LREM only ever clears the copies of a job that nobody  *)
(* has.                                                                    *)
THEOREM JobInHandIsRecorded ==
  Reliable /\ ~ DlqReprocessing => (Spec => []HeldIsRecorded)
<1> SUFFICES ASSUME Reliable, ~ DlqReprocessing PROVE Spec => []HeldIsRecorded
  OBVIOUS
<1>1. RecordInv /\ [Next]_workerVars => RecordInv'
  BY NextRecord
<1>2. RecordInv => HeldIsRecorded
  BY DEF RecordInv
<1> QED BY InitRecord, <1>1, <1>2, PTL DEF Spec

(* And every well-formed job that was submitted is still in Redis until    *)
(* its completed result was pushed, however many workers are killed.       *)
THEOREM NoJobLost ==
  Reliable /\ ~ DlqReprocessing => (Spec => []NothingLost)
<1> SUFFICES ASSUME Reliable, ~ DlqReprocessing PROVE Spec => []NothingLost
  OBVIOUS
<1>1. RecordInv /\ [Next]_workerVars => RecordInv'
  BY NextRecord
<1>2. RecordInv => NothingLost
  BY DEF RecordInv
<1> QED BY InitRecord, <1>1, <1>2, PTL DEF Spec

-----------------------------------------------------------------------------
(* What LLEN seal:processing counts: never less than the copies of one job. *)
(* Induction over the documents, with the least counterexample in the      *)
(* place of the induction rule.                                            *)

(* A non-empty set of numbers has a least one.                             *)
LEMMA Least ==
  ASSUME NEW T, T \subseteq Nat, T # {}
  PROVE  \E n \in T : \A m \in T : n <= m
<1>1. PICK n \in T : \A m \in T : <<m, n>> \notin OpToRel(<, Nat)
  BY NatLessThanWellFounded, WFMin
<1>2. ASSUME NEW m \in T PROVE n <= m
  <2>1. ~ (m < n)
    BY <1>1 DEF OpToRel
  <2> QED BY <2>1
<1> QED BY <1>2

(* The recursion behind FoldFunction(+, 0, f), as an equation for g.        *)
First(s) == CHOOSE x \in s : TRUE
SumEq(g, f, S) == g = [s \in SUBSET S |-> IF s = {} THEN 0 ELSE f[First(s)] + g[s \ {First(s)}]]

LEMMA Rest ==
  ASSUME NEW S, IsFiniteSet(S), NEW s \in SUBSET S, s # {}
  PROVE  /\ First(s) \in s /\ s \ {First(s)} \in SUBSET S
         /\ Cardinality(s) \in Nat /\ Cardinality(s \ {First(s)}) = Cardinality(s) - 1
         /\ Cardinality(s) > 0
<1>1. First(s) \in s
  BY DEF First
<1>2. IsFiniteSet(s)
  BY FS_Subset
<1>3. Cardinality(s) \in Nat /\ Cardinality(s) # 0
  BY <1>2, FS_CardinalityType, FS_EmptySet
<1>4. Cardinality(s \ {First(s)}) = Cardinality(s) - 1
  BY <1>1, <1>2, FS_RemoveElement
<1> QED BY <1>1, <1>3, <1>4

(* It has a solution: one for the sets of up to n elements for every n.     *)
LEMMA SumExists ==
  ASSUME NEW S, IsFiniteSet(S), NEW f \in [S -> Nat]
  PROVE  \E g : SumEq(g, f, S)
<1> DEFINE Right(g, s) == g[s] = IF s = {} THEN 0 ELSE f[First(s)] + g[s \ {First(s)}]
           Solved(n) == \E g \in [SUBSET S -> Nat] :
                        \A s \in SUBSET S : Cardinality(s) <= n => Right(g, s)
           T == {n \in Nat : ~ Solved(n)}
<1>1. Solved(0)
  <2> DEFINE g == [s \in SUBSET S |-> 0]
  <2>1. \A s \in SUBSET S : Cardinality(s) <= 0 => s = {}
    <3> SUFFICES ASSUME NEW s \in SUBSET S, s # {} PROVE ~ (Cardinality(s) <= 0)
      OBVIOUS
    <3>1. Cardinality(s) \in Nat /\ Cardinality(s) > 0
      BY Rest
    <3> QED BY <3>1
  <2>2. g \in [SUBSET S -> Nat]
    OBVIOUS
  <2> QED BY <2>1, <2>2
<1>2. ASSUME NEW n \in Nat, Solved(n) PROVE Solved(n + 1)
  <2>1. PICK g \in [SUBSET S -> Nat] : \A s \in SUBSET S : Cardinality(s) <= n => Right(g, s)
    BY <1>2
  <2> DEFINE h == [s \in SUBSET S |-> IF s = {} THEN 0 ELSE f[First(s)] + g[s \ {First(s)}]]
  <2>2. h \in [SUBSET S -> Nat]
    <3> SUFFICES ASSUME NEW s \in SUBSET S, s # {}
                 PROVE  f[First(s)] + g[s \ {First(s)}] \in Nat
      OBVIOUS
    <3>1. First(s) \in S /\ s \ {First(s)} \in SUBSET S
      BY Rest
    <3>2. f[First(s)] \in Nat /\ g[s \ {First(s)}] \in Nat
      BY <3>1
    <3> QED BY <3>2
  <2>3. \A s \in SUBSET S : Cardinality(s) <= n => h[s] = g[s]
    BY <2>1
  <2>4. ASSUME NEW s \in SUBSET S, Cardinality(s) <= n + 1, s # {}
        PROVE  h[s \ {First(s)}] = g[s \ {First(s)}]
    <3>1. s \ {First(s)} \in SUBSET S /\ Cardinality(s \ {First(s)}) <= n
      BY <2>4, Rest
    <3> QED BY <3>1, <2>3
  <2>5. \A s \in SUBSET S : Cardinality(s) <= n + 1 => Right(h, s)
    BY <2>4
  <2> QED BY <2>2, <2>5
<1>3. ASSUME NEW n \in Nat PROVE Solved(n)
  <2>1. CASE T = {}
    BY <2>1
  <2>2. CASE T # {}
    <3>1. PICK m \in T : \A k \in T : m <= k
      <4> HIDE DEF Solved
      <4> QED BY <2>2, Least
    <3>2. m \in Nat /\ ~ Solved(m) /\ m # 0
      BY <3>1, <1>1
    <3>3. m - 1 \in Nat /\ m - 1 \notin T
      <4> HIDE DEF Solved
      <4> QED BY <3>1, <3>2
    <3>4. Solved(m - 1)
      BY <3>3
    <3> HIDE DEF Solved
    <3>5. Solved((m - 1) + 1)
      BY <3>3, <3>4, <1>2
    <3>6. (m - 1) + 1 = m
      BY <3>2
    <3> QED BY <3>2, <3>5, <3>6
  <2> QED BY <2>1, <2>2
<1>4. PICK g \in [SUBSET S -> Nat] : \A s \in SUBSET S : Right(g, s)
  <2>1. Cardinality(S) \in Nat /\ \A s \in SUBSET S : Cardinality(s) <= Cardinality(S)
    BY FS_Subset, FS_CardinalityType
  <2>2. Solved(Cardinality(S))
    BY <2>1, <1>3
  <2> QED BY <2>1, <2>2
<1>5. SumEq(g, f, S)
  BY <1>4 DEF SumEq
<1> QED BY <1>5

(* Every solution is at least as large as each number that is added.       *)
LEMMA SumBounds ==
  ASSUME NEW S, IsFiniteSet(S), NEW f \in [S -> Nat], NEW g, SumEq(g, f, S)
  PROVE  g[S] \in Nat /\ \A x \in S : g[S] >= f[x]
<1> DEFINE Good(s) == g[s] \in Nat /\ \A x \in s : g[s] >= f[x]
           T == {Cardinality(s) : s \in {u \in SUBSET S : ~ Good(u)}}
<1>1. \A s \in SUBSET S : g[s] = IF s = {} THEN 0 ELSE f[First(s)] + g[s \ {First(s)}]
  BY DEF SumEq
<1>2. ASSUME NEW s \in SUBSET S, s # {}, Good(s \ {First(s)}) PROVE Good(s)
  <2>1. First(s) \in S /\ g[s] = f[First(s)] + g[s \ {First(s)}]
    BY <1>1, <1>2, Rest
  <2>2. PICK c \in S : c = First(s)
    BY <2>1
  <2>3. PICK r \in Nat : r = g[s \ {c}] /\ g[s] = f[c] + r
    BY <1>2, <2>1, <2>2
  <2>4. f[c] \in Nat /\ g[s] \in Nat /\ g[s] >= f[c] /\ g[s] >= r
    BY <2>3
  <2>5. ASSUME NEW x \in s PROVE g[s] >= f[x]
    <3>1. CASE x = c
      BY <3>1, <2>4
    <3>2. CASE x # c
      <4>1. r >= f[x] /\ f[x] \in Nat
        BY <3>2, <1>2, <2>2, <2>3
      <4> QED BY <4>1, <2>4
    <3> QED BY <3>1, <3>2
  <2> QED BY <2>4, <2>5
<1>3. Good({})
  <2>1. {} \in SUBSET S
    OBVIOUS
  <2>2. g[{}] = 0
    BY <1>1, <2>1
  <2> QED BY <2>2
<1> HIDE DEF Good
<1>4. ASSUME T # {} PROVE FALSE
  <2>1. T \subseteq Nat
    BY FS_Subset, FS_CardinalityType
  <2>2. PICK n \in T : \A m \in T : n <= m
    BY <1>4, <2>1, Least
  <2>3. PICK s \in SUBSET S : ~ Good(s) /\ n = Cardinality(s)
    BY <2>2
  <2>4. s # {}
    BY <1>3, <2>3
  <2>5. ~ Good(s \ {First(s)})
    BY <1>2, <2>3, <2>4
  <2>6. Cardinality(s \ {First(s)}) \in T
    BY <2>4, <2>5, Rest
  <2>7. Cardinality(s) \in Nat /\ Cardinality(s \ {First(s)}) = Cardinality(s) - 1
    BY <2>4, Rest
  <2>8. Cardinality(s) <= Cardinality(s \ {First(s)})
    BY <2>2, <2>3, <2>6
  <2> QED BY <2>7, <2>8
<1>5. Good(S)
  BY <1>4
<1> QED BY <1>5 DEF Good

LEMMA InFlightIs ==
  ASSUME IsFiniteSet(Docs), processing \in [Docs -> Nat]
  PROVE  InFlight \in Nat /\ \A d \in Docs : InFlight >= processing[d]
<1> DEFINE g == CHOOSE iter : SumEq(iter, processing, Docs)
<1>1. SumEq(g, processing, Docs)
  BY SumExists
<1>2. InFlight = g[Docs]
  BY DEF InFlight, FoldFunction, FoldFunctionOnSet, MapThenFoldSet, SumEq, First
<1> HIDE DEF g
<1> QED BY <1>1, <1>2, SumBounds

-----------------------------------------------------------------------------
(* A job that is queued or held has been taken as often as it has copies   *)
(* in seal:processing, and less often than maxJobRetries when it is or     *)
(* will be queued.                                                         *)
Tries ==
  /\ AttemptsBounded
  /\ \A d \in Elems(jobs) : attempts[d] = processing[d] /\ attempts[d] < MaxJobRetries
  /\ \A w \in Workers, d \in Docs :
       /\ Holds(w, d) => attempts[d] = processing[d]
       /\ pc[w] = "requeue" /\ job[w] = d => attempts[d] < MaxJobRetries
  /\ \A d \in Docs \ submitted : attempts[d] = 0 /\ processing[d] = 0

TriesInv == RecordInv /\ Tries

LEMMA InitTries == Init => TriesInv
<1> SUFFICES ASSUME Init PROVE TriesInv
  OBVIOUS
<1>1. /\ jobs = <<>> /\ \A w \in Workers : pc[w] = "down"
      /\ \A d \in Docs : attempts[d] = 0 /\ processing[d] = 0
  BY DEF Init
<1>2. Tries
  BY <1>1, WorkerAssumption DEF Tries, AttemptsBounded, Elems, Holds, Owning
<1> QED BY <1>2, InitRecord DEF TriesInv

(* A step that takes no job and decides on no retry.                       *)
LEMMA QuietTries ==
  ASSUME Tries, UNCHANGED <<jobs, attempts, processing, submitted>>,
         \A v \in Workers, d \in Docs : Holds(v, d)' => Holds(v, d),
         \A v \in Workers : pc'[v] = "requeue" => pc[v] = "requeue" /\ job'[v] = job[v]
  PROVE  Tries'
  BY DEF Tries, AttemptsBounded

LEMMA TakeTries ==
  ASSUME Reliable, TriesInv, RecordInv', NEW w \in Workers, NEW o \in Outcome, Take(w, o)
  PROVE  Tries'
<1>1. o = "ok" /\ Times(o) = 1 /\ ~ IsError(o)
  BY OnlyOk DEF TriesInv, RecordInv, PlaceInv, Take
<1>2. /\ jobs \in Seq(Docs) /\ Len(jobs) >= 1 /\ NoRepeat(jobs) /\ submitted' = submitted
      /\ pc \in [Workers -> Labels] /\ job \in [Workers -> Docs \cup {NoDoc}]
      /\ processing \in [Docs -> Nat] /\ attempts \in [Docs -> Nat]
  BY <1>1 DEF TriesInv, RecordInv, PlaceInv, OnePlace, TypeInv, TypeOK, Take
<1>3. PICK d \in Docs : d = jobs[1]
  BY <1>2
<1>4. /\ jobs' = SubSeq(jobs, 2, Len(jobs))
      /\ job' = [job EXCEPT ![w] = d]
      /\ pc' = [pc EXCEPT ![w] = IF d \in Malformed THEN "remove" ELSE "produce"]
  BY <1>1, <1>3 DEF Take, Goto
<1>5. /\ d \in Elems(jobs) /\ d \notin Elems(jobs') /\ Elems(jobs') \subseteq Elems(jobs)
  <2>1. 1 \in 0 .. Len(jobs) /\ SubSeq(jobs, 2, Len(jobs)) = SubSeq(jobs, 1 + 1, Len(jobs))
    BY <1>2
  <2> QED BY <1>2, <1>3, <1>4, <2>1, DropHead, DropElems
<1>6. /\ processing'[d] = processing[d] + 1 /\ attempts'[d] = attempts[d] + 1
      /\ \A x \in Docs \ {d} : processing'[x] = processing[x] /\ attempts'[x] = attempts[x]
  <2>1. Cardinality({i \in 1 .. 1 : jobs[i] = d}) = 1
    <3>1. {i \in 1 .. 1 : jobs[i] = d} = {1}
      BY <1>3
    <3> QED BY <3>1, FS_Singleton
  <2>2. ASSUME NEW x \in Docs \ {d} PROVE Cardinality({i \in 1 .. 1 : jobs[i] = x}) = 0
    <3>1. {i \in 1 .. 1 : jobs[i] = x} = {}
      BY <1>3
    <3> QED BY <3>1, FS_EmptySet
  <2>3. \A x \in Docs :
          /\ processing'[x] = processing[x] + Cardinality({i \in 1 .. 1 : jobs[i] = x})
          /\ attempts'[x] = attempts[x] + Cardinality({i \in 1 .. 1 : jobs[i] = x})
    BY <1>1 DEF Take
  <2>4. processing'[d] = processing[d] + 1 /\ attempts'[d] = attempts[d] + 1
    BY <2>1, <2>3
  <2>5. ASSUME NEW x \in Docs \ {d} PROVE processing'[x] = processing[x] /\ attempts'[x] = attempts[x]
    <3>1. processing'[x] = processing[x] + 0 /\ attempts'[x] = attempts[x] + 0
      BY <2>2, <2>3
    <3> QED BY <1>2, <3>1
  <2> QED BY <2>4, <2>5
<1>7. attempts[d] = processing[d] /\ attempts[d] < MaxJobRetries /\ d \in submitted
  BY <1>5 DEF TriesInv, Tries, RecordInv, PlaceInv, Known
<1>8. ASSUME NEW v \in Workers, NEW e \in Docs, Holds(v, e)', ~ (v = w /\ e = d)
      PROVE  Holds(v, e) /\ e # d /\ pc'[v] = pc[v] /\ job'[v] = job[v]
  <2>1. v # w
    BY <1>2, <1>4, <1>8 DEF Holds
  <2>2. Holds(v, e) /\ pc'[v] = pc[v] /\ job'[v] = job[v]
    BY <1>2, <1>4, <1>8, <2>1 DEF Holds
  <2> QED BY <1>5, <2>2 DEF TriesInv, RecordInv, PlaceInv, OnePlace
<1>9. AttemptsBounded'
  <2>1. attempts[d] \in Nat /\ MaxJobRetries \in Nat
    BY <1>2, WorkerAssumption
  <2>2. attempts'[d] <= MaxJobRetries
    BY <1>6, <1>7, <2>1
  <2>3. \A x \in Docs \ {d} : attempts'[x] <= MaxJobRetries
    BY <1>6 DEF TriesInv, Tries, AttemptsBounded
  <2> QED BY <2>2, <2>3 DEF AttemptsBounded
<1>10. \A e \in Elems(jobs') : attempts'[e] = processing'[e] /\ attempts'[e] < MaxJobRetries
  <2>1. Elems(jobs) \subseteq Docs
    BY <1>2 DEF Elems
  <2> QED BY <1>5, <1>6, <2>1 DEF TriesInv, Tries
<1>11. ASSUME NEW v \in Workers, NEW e \in Docs
       PROVE  /\ Holds(v, e)' => attempts'[e] = processing'[e]
              /\ pc'[v] = "requeue" /\ job'[v] = e => attempts'[e] < MaxJobRetries
  <2>1. Holds(v, e)' => attempts'[e] = processing'[e]
    BY <1>6, <1>7, <1>8 DEF TriesInv, Tries
  <2>2. ASSUME pc'[v] = "requeue", job'[v] = e PROVE attempts'[e] < MaxJobRetries
    <3>1. v # w /\ Holds(v, e)'
      BY <1>2, <1>4, <2>2 DEF Holds, Owning
    <3>2. e # d /\ pc[v] = "requeue" /\ job[v] = e
      BY <1>8, <2>2, <3>1
    <3> QED BY <1>6, <3>2 DEF TriesInv, Tries
  <2> QED BY <2>1, <2>2
<1>12. \A e \in Docs \ submitted' : attempts'[e] = 0 /\ processing'[e] = 0
  BY <1>2, <1>6, <1>7 DEF TriesInv, Tries
<1> QED BY <1>9, <1>10, <1>11, <1>12 DEF Tries

(* retryOrDLQ goes for a retry only below maxJobRetries copies of all jobs, *)
(* so of this one too.                                                     *)
LEMMA CountTries ==
  ASSUME IsFiniteSet(Docs), TriesInv, NEW w \in Workers, NEW o \in Outcome, Count(w, o)
  PROVE  Tries'
<1>1. /\ processing \in [Docs -> Nat] /\ pc \in [Workers -> Labels] /\ attempts \in [Docs -> Nat]
      /\ job \in [Workers -> Docs \cup {NoDoc}] /\ TypeInv /\ MaxJobRetries \in Nat
  BY WorkerAssumption DEF TriesInv, RecordInv, PlaceInv, TypeInv, TypeOK
<1>2. PICK d \in Docs : d = job[w] /\ Holds(w, d)
  BY <1>1 DEF TypeInv, HandsFull, Count, Holds, Owning
<1>3. UNCHANGED <<jobs, attempts, processing, submitted, job>>
  BY DEF Count, queues, history
<1>4. \A v \in Workers, e \in Docs : Holds(v, e)' => Holds(v, e)
  BY WorkPlace DEF TriesInv, RecordInv
<1>5. pc'[w] = "requeue" => attempts[d] < MaxJobRetries
  <2>1. pc'[w] = "requeue" => InFlight < MaxJobRetries
    <3>1. InFlight \in Nat
      BY <1>1, InFlightIs
    <3>2. pc'[w] = "requeue" => ~ (InFlight >= MaxJobRetries)
      BY <1>1 DEF Count, Goto
    <3> QED BY <1>1, <3>1, <3>2
  <2>2. InFlight \in Nat /\ InFlight >= processing[d] /\ attempts[d] = processing[d]
    BY <1>1, <1>2, InFlightIs DEF TriesInv, Tries
  <2> QED BY <1>1, <2>1, <2>2
<1>6. ASSUME NEW v \in Workers, NEW e \in Docs, pc'[v] = "requeue", job'[v] = e
      PROVE  attempts'[e] < MaxJobRetries
  <2>1. CASE v = w
    BY <1>2, <1>3, <1>5, <1>6, <2>1
  <2>2. CASE v # w
    <3>1. pc[v] = "requeue" /\ job[v] = e
      BY <1>1, <1>3, <1>6, <2>2 DEF Count, Goto
    <3> QED BY <1>3, <3>1 DEF TriesInv, Tries
  <2> QED BY <2>1, <2>2
<1> QED BY <1>3, <1>4, <1>6 DEF TriesInv, Tries, AttemptsBounded

(* The retry queues a job that has an attempt left.                        *)
LEMMA RequeueTries ==
  ASSUME Reliable, TriesInv, NEW w \in Workers, NEW o \in Outcome, Requeue(w, o)
  PROVE  Tries'
<1>1. o = "ok" /\ ~ IsError(o)
  BY OnlyOk DEF TriesInv, RecordInv, PlaceInv, Requeue
<1>2. /\ jobs \in Seq(Docs) /\ TypeInv
      /\ pc \in [Workers -> Labels] /\ job \in [Workers -> Docs \cup {NoDoc}]
  BY DEF TriesInv, RecordInv, PlaceInv, TypeInv, TypeOK
<1>3. PICK d \in Docs : d = job[w] /\ Holds(w, d) /\ pc[w] = "requeue"
  BY <1>2 DEF TypeInv, HandsFull, Requeue, Holds, Owning
<1>4. /\ jobs' = LPush(jobs, d, "ok") /\ UNCHANGED <<attempts, processing, submitted>>
      /\ Goto(w, "idle") /\ job' = [job EXCEPT ![w] = NoDoc]
  BY <1>1, <1>3 DEF Requeue, Done, Goto, history
<1>5. Elems(jobs') = Elems(jobs) \cup {d}
  BY <1>2, <1>4, LPushOk
<1>6. \A v \in Workers, e \in Docs : Holds(v, e)' => Holds(v, e)
  <2>1. "idle" \in Labels \ Owning
    BY DEF Labels, Owning
  <2> QED BY <1>2, <1>4, <2>1, MoveHolds
<1>7. attempts[d] = processing[d] /\ attempts[d] < MaxJobRetries
  BY <1>3 DEF TriesInv, Tries
<1>8. \A v \in Workers : pc'[v] = "requeue" => pc[v] = "requeue" /\ job'[v] = job[v]
  BY <1>2, <1>4 DEF Goto
<1> QED BY <1>4, <1>5, <1>6, <1>7, <1>8 DEF TriesInv, Tries, AttemptsBounded

(* LREM forgets the copies of a job that is neither queued nor held.       *)
LEMMA RemoveTries ==
  ASSUME Reliable, TriesInv, NEW w \in Workers, NEW o \in Outcome, Remove(w, o)
  PROVE  Tries'
<1>1. o = "ok"
  BY OnlyOk DEF TriesInv, RecordInv, PlaceInv, Remove
<1>2. /\ processing \in [Docs -> Nat] /\ TypeInv /\ jobs \in Seq(Docs)
      /\ pc \in [Workers -> Labels] /\ job \in [Workers -> Docs \cup {NoDoc}]
  BY DEF TriesInv, RecordInv, PlaceInv, TypeInv, TypeOK
<1>3. PICK d \in Docs : /\ d = job[w] /\ d \notin Elems(jobs) /\ d \in submitted
                        /\ \A v \in Workers : ~ Holds(v, d)
  BY DEF TriesInv, RecordInv, Removing, HandedOn, PlaceInv, TypeInv, HandsFull, Remove
<1>4. /\ processing' = [processing EXCEPT ![d] = 0]
      /\ Goto(w, "idle") /\ job' = [job EXCEPT ![w] = NoDoc]
      /\ UNCHANGED <<jobs, attempts, submitted>>
  BY <1>1, <1>3 DEF Remove, Done, Goto, history
<1>5. \A v \in Workers, e \in Docs : Holds(v, e)' => Holds(v, e) /\ e # d
  <2>1. "idle" \in Labels \ Owning
    BY DEF Labels, Owning
  <2> QED BY <1>2, <1>3, <1>4, <2>1, MoveHolds
<1>6. \A v \in Workers : pc'[v] = "requeue" => pc[v] = "requeue" /\ job'[v] = job[v]
  BY <1>2, <1>4 DEF Goto
<1>7. \A e \in Docs : e # d => processing'[e] = processing[e]
  BY <1>2, <1>4
<1>8. Elems(jobs) \subseteq Docs
  BY <1>2 DEF Elems
<1> QED BY <1>3, <1>4, <1>5, <1>6, <1>7, <1>8 DEF TriesInv, Tries, AttemptsBounded

LEMMA SubmitTries ==
  ASSUME TriesInv, NEW d \in Docs, Submit(d, "ok")
  PROVE  Tries'
<1>1. jobs \in Seq(Docs) /\ d \notin submitted
  BY DEF TriesInv, RecordInv, PlaceInv, TypeInv, TypeOK, Submit
<1>2. Elems(jobs') = Elems(jobs) \cup {d}
  BY <1>1, RPushOk DEF Submit
<1>3. submitted' = submitted \cup {d} /\ UNCHANGED <<processing, attempts, pc, job>>
  BY DEF Submit
<1>4. attempts[d] = processing[d] /\ attempts[d] < MaxJobRetries
  BY <1>1, WorkerAssumption DEF TriesInv, Tries
<1> QED BY <1>2, <1>3, <1>4 DEF TriesInv, Tries, AttemptsBounded, Holds

LEMMA NextTries ==
  Reliable /\ ~ DlqReprocessing /\ IsFiniteSet(Docs) /\ TriesInv /\ [Next]_workerVars => TriesInv'
<1> SUFFICES ASSUME Reliable, ~ DlqReprocessing, IsFiniteSet(Docs), TriesInv, [Next]_workerVars
             PROVE  Tries'
  BY NextRecord DEF TriesInv
<1>1. RecordInv' /\ pc \in [Workers -> Labels] /\ TypeInv
  BY NextRecord DEF TriesInv, RecordInv, PlaceInv, TypeInv, TypeOK
<1> DEFINE Quiet == /\ UNCHANGED <<jobs, attempts, processing, submitted>>
                    /\ \A v \in Workers, d \in Docs : Holds(v, d)' => Holds(v, d)
                    /\ \A v \in Workers : pc'[v] = "requeue" =>
                                            pc[v] = "requeue" /\ job'[v] = job[v]
<1>2. Quiet => Tries'
  BY QuietTries DEF TriesInv
<1>3. ASSUME NEW w \in Workers, WorkerStep(w) \/ Crash(w) PROVE Tries'
  <2>1. ASSUME \/ Produce(w) \/ Upload(w) \/ Start(w) \/ Crash(w)
               \/ \E o \in Outcome : Report(w, o) \/ Publish(w, o)
        PROVE  Tries'
    <3>1. UNCHANGED <<jobs, attempts, processing, submitted>>
      BY <2>1 DEF Produce, Upload, Start, Crash, Report, Publish, queues, history
    <3>2. \A v \in Workers, d \in Docs : Holds(v, d)' => Holds(v, d)
      BY <2>1, WorkPlace DEF TriesInv, RecordInv
    <3>3. \/ job' = job /\ \E l \in Labels \ {"requeue"} : pc' = [pc EXCEPT ![w] = l]
          \/ pc' = [pc EXCEPT ![w] = "down"] /\ job' = [job EXCEPT ![w] = NoDoc]
      BY <2>1 DEF Produce, Upload, Fail, Start, Crash, Report, Publish, Goto, Labels, Owning
    <3>4. \A v \in Workers : pc'[v] = "requeue" => pc[v] = "requeue" /\ job'[v] = job[v]
      BY <1>1, <3>3 DEF TypeInv, TypeOK
    <3> QED BY <1>2, <3>1, <3>2, <3>4
  <2>2. ASSUME NEW o \in Outcome, Bury(w, o) PROVE Tries'
    <3>1. UNCHANGED <<jobs, attempts, processing, submitted, job>> /\ Goto(w, "remove")
      BY <2>2 DEF Bury, history
    <3>2. \A v \in Workers, d \in Docs : Holds(v, d)' => Holds(v, d)
      <4>1. "remove" \in Labels \ Owning
        BY DEF Labels, Owning
      <4> QED BY <1>1, <3>1, <4>1, MoveHolds
    <3>3. \A v \in Workers : pc'[v] = "requeue" => pc[v] = "requeue" /\ job'[v] = job[v]
      BY <1>1, <3>1 DEF Goto
    <3> QED BY <1>2, <3>1, <3>2, <3>3
  <2> QED BY <1>1, <1>3, <2>1, <2>2, TakeTries, CountTries, RequeueTries, RemoveTries
          DEF WorkerStep
<1>4. ~ Reprocess
  BY DEF Reprocess
<1>5. ASSUME NEW o \in EnvOutcomes, Consume(o) PROVE Tries'
  <2>1. Quiet
    BY <1>5 DEF Consume, history, Holds
  <2> QED BY <1>2, <2>1
<1>6. ASSUME NEW o \in EnvOutcomes, NEW d \in Docs, Submit(d, o) PROVE Tries'
  <2>1. Submit(d, "ok")
    BY <1>6 DEF Reliable
  <2> QED BY <2>1, SubmitTries
<1>7. CASE UNCHANGED workerVars
  <2>1. Quiet
    BY <1>7 DEF workerVars, queues, history, Holds
  <2> QED BY <1>2, <2>1
<1> QED BY <1>3, <1>4, <1>5, <1>6, <1>7 DEF Next

(* With the CronJob off no job is attempted more often than maxJobRetries, *)
(* although retryOrDLQ counts the copies of all jobs and not the attempts  *)
(* at this one, and workers are killed at any time: counting too much only *)
(* ends the retries early.                                                 *)
THEOREM AttemptsAreBounded ==
  Reliable /\ ~ DlqReprocessing /\ IsFiniteSet(Docs) => (Spec => []AttemptsBounded)
<1> SUFFICES ASSUME Reliable, ~ DlqReprocessing, IsFiniteSet(Docs)
             PROVE  Spec => []AttemptsBounded
  OBVIOUS
<1>1. TriesInv /\ [Next]_workerVars => TriesInv'
  BY NextTries
<1>2. TriesInv => AttemptsBounded
  BY DEF TriesInv, Tries
<1> QED BY InitTries, <1>1, <1>2, PTL DEF Spec

=============================================================================
