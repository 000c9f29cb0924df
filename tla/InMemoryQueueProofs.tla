------------------------ MODULE InMemoryQueueProofs ------------------------
(***************************************************************************)
(* Theorems about InMemoryQueue, for every set of jobs, every retry limit  *)
(* and every buffer size.                                                  *)
(***************************************************************************)
EXTENDS InMemoryQueue, SequenceTheorems, TLAPS

\* What a send does to the buffer.
LEMMA SendToBuffer ==
    ASSUME queue \in Seq(Jobs), NEW j \in Jobs, queue' = Append(queue, j)
    PROVE  /\ queue' \in Seq(Jobs) /\ Len(queue') = Len(queue) + 1
           /\ Queued' = Queued \cup {j}
           /\ (j \notin Queued /\ \A i, k \in DOMAIN queue : queue[i] = queue[k] => i = k)
                => \A i, k \in DOMAIN queue' : queue'[i] = queue'[k] => i = k
<1>1. /\ queue' \in Seq(Jobs) /\ Len(queue') = Len(queue) + 1
      /\ \A i \in 1..Len(queue) : queue'[i] = queue[i]
      /\ queue'[Len(queue) + 1] = j
  BY AppendProperties
<1>2. /\ Len(queue) \in Nat
      /\ DOMAIN queue = 1..Len(queue) /\ DOMAIN queue' = 1..(Len(queue) + 1)
  BY <1>1, LenProperties
<1>3. Queued' = Queued \cup {j}
  BY <1>1, <1>2 DEF Queued
<1>4. ASSUME j \notin Queued, \A i, k \in DOMAIN queue : queue[i] = queue[k] => i = k,
             NEW i \in DOMAIN queue', NEW k \in DOMAIN queue', queue'[i] = queue'[k]
      PROVE  i = k
  BY <1>1, <1>2, <1>4 DEF Queued
<1> QED BY <1>1, <1>3, <1>4

\* What a receive does to the buffer.
LEMMA ReceiveFromBuffer ==
    ASSUME queue \in Seq(Jobs), queue # <<>>, queue' = Tail(queue)
    PROVE  /\ Head(queue) \in Jobs /\ queue' \in Seq(Jobs) /\ Len(queue') = Len(queue) - 1
           /\ Queued = Queued' \cup {Head(queue)}
           /\ (\A i, k \in DOMAIN queue : queue[i] = queue[k] => i = k)
                => /\ \A i, k \in DOMAIN queue' : queue'[i] = queue'[k] => i = k
                   /\ Head(queue) \notin Queued'
<1>1. /\ Head(queue) \in Jobs /\ queue' \in Seq(Jobs) /\ Len(queue') = Len(queue) - 1
      /\ \A i \in 1..Len(queue') : queue'[i] = queue[i + 1]
      /\ Head(queue) = queue[1]
  BY HeadTailProperties
<1>2. /\ Len(queue) \in Nat \ {0}
      /\ DOMAIN queue = 1..Len(queue) /\ DOMAIN queue' = 1..(Len(queue) - 1)
  BY <1>1, LenProperties, EmptySeq
<1>3. Queued = Queued' \cup {Head(queue)}
  <2>1. Queued' \cup {Head(queue)} \subseteq Queued
    BY <1>1, <1>2 DEF Queued
  <2>2. ASSUME NEW i \in DOMAIN queue, i # 1 PROVE queue[i] \in Queued'
    <3>1. i - 1 \in DOMAIN queue' /\ queue'[i - 1] = queue[i]
      BY <1>1, <1>2, <2>2
    <3> QED BY <3>1 DEF Queued
  <2> QED BY <1>1, <2>1, <2>2 DEF Queued
<1>4. ASSUME \A i, k \in DOMAIN queue : queue[i] = queue[k] => i = k
      PROVE  /\ \A i, k \in DOMAIN queue' : queue'[i] = queue'[k] => i = k
             /\ Head(queue) \notin Queued'
  BY <1>1, <1>2, <1>4 DEF Queued
<1> QED BY <1>1, <1>3, <1>4

\* A tree is made of entries, and has its root in it when that has an entry.
LEMMA JobTreeEntries ==
    ASSUME NEW j \in Jobs
    PROVE  /\ JobTree(j) \subseteq Entries
           /\ HasEntry(j) => j \in JobTree(j)
BY DEF JobTree, Entries

----------------------------------------------------------------------------
\* A job that was never created is nowhere.
AbsentIsNowhere ==
    \A j \in Jobs :
       status[j] = "absent" => stage[j] = "none" /\ j \notin Queued /\ j # worker.job

\* Until it has stored a retry, the worker holds the map entry itself or its
\* entry is gone; the entry of a job that is handled is not pending.
WorkerHoldsEntry ==
    worker.phase \in {"received", "handling", "retry"} =>
       /\ worker.object = "live" <=> HasEntry(worker.job)
       /\ worker.phase = "handling" => status[worker.job] # "pending"

\* The inductive invariant.
Delivery ==
    /\ TypeOK
    /\ OneDelivery
    /\ AbsentIsNowhere
    /\ WorkerHoldsEntry
    /\ PendingIsDelivered

LEMMA InitDelivery == Init => Delivery
<1> SUFFICES ASSUME Init PROVE Delivery
  OBVIOUS
<1>1. Queued = {} /\ Len(queue) = 0 /\ queue \in Seq(Jobs) /\ DOMAIN queue = {}
  BY EmptySeq DEF Init, Queued
<1>2. TypeOK
  <2>1. worker.job = NoJob /\ worker.phase = "idle"
    BY DEF Init, Resting
  <2>2. worker \in [phase : Phases, job : Jobs \cup {NoJob},
                   object : Statuses \cup {"live"}, retries : Nat]
    BY DEF Init, Resting, Phases
  <2>3. /\ status \in [Jobs -> Statuses] /\ retries \in [Jobs -> Nat]
        /\ parent \in [Jobs -> Jobs \cup {NoJob}] /\ by \in [Jobs -> {"client", "handler"}]
        /\ stage \in [Jobs -> {"none", "created", "sending", "undo"}]
    BY DEF Init, Statuses
  <2>4. stopped \in BOOLEAN
    BY DEF Init
  <2> QED BY <1>1, <2>1, <2>2, <2>3, <2>4, BufferAssumption DEF TypeOK
<1> QED BY <1>1, <1>2, InMemJobsAssumption
        DEF Init, Delivery, OneDelivery, AbsentIsNowhere, WorkerHoldsEntry, PendingIsDelivered,
            Resting, Submitting, HasEntry

\* deleteRecursive, in a step that may also end the submission of what it deletes.
LEMMA DeletionDelivery ==
    ASSUME Delivery, NEW S \in SUBSET Entries, DeleteEntries(S),
           UNCHANGED <<by, queue, stopped>>,
           stage' \in [Jobs -> {"none", "created", "sending", "undo"}],
           \A k \in Jobs : \/ stage'[k] = stage[k]
                           \/ stage'[k] = "none" /\ (k \in S \/ ~HasEntry(k))
    PROVE  Delivery'
<1> USE InMemJobsAssumption DEF Delivery
<1>1. /\ status' = [k \in Jobs |-> IF k \in S THEN "removed" ELSE status[k]]
      /\ \A k \in S : k \in Jobs /\ status[k] \notin {"absent", "removed"}
      /\ Queued' = Queued
  BY DEF DeleteEntries, Entries, HasEntry, Queued
<1>2. /\ worker'.phase = worker.phase /\ worker'.job = worker.job
      /\ worker' \in [phase : Phases, job : Jobs \cup {NoJob},
                      object : Statuses \cup {"live"}, retries : Nat]
      /\ worker.job \notin S => worker' = worker
      /\ worker.job \in S => worker'.object # "live"
  BY <1>1 DEF DeleteEntries, TypeOK, Statuses
<1>3. TypeOK'
  BY <1>1, <1>2 DEF DeleteEntries, TypeOK, Statuses
<1>4. OneDelivery'
  BY <1>1, <1>2 DEF TypeOK, OneDelivery, Submitting
<1>5. AbsentIsNowhere' /\ PendingIsDelivered'
  BY <1>1, <1>2 DEF TypeOK, AbsentIsNowhere, PendingIsDelivered, HasEntry
<1>6. WorkerHoldsEntry'
  BY <1>1, <1>2 DEF TypeOK, WorkerHoldsEntry, HasEntry
<1> QED BY <1>3, <1>4, <1>5, <1>6

\* CreateJob and Enqueue.
LEMMA CreationDelivery ==
    ASSUME Delivery, Creation
    PROVE  Delivery'
<1> USE InMemJobsAssumption DEF Delivery
<1>1. CASE \E j \in Jobs : \/ \E p \in Jobs \cup {NoJob} : ApiCreateJob(j, p)
                           \/ HandlerCreateChild(j)
  <2>1. PICK j \in Jobs, p \in Jobs \cup {NoJob}, who \in {"client", "handler"} :
           CreateJob(j, p, who)
    BY <1>1 DEF ApiCreateJob, HandlerCreateChild, TypeOK
  <2>2. UNCHANGED <<queue, worker, stopped>> /\ Queued' = Queued
    BY <2>1 DEF CreateJob, Queued
  <2>3. /\ stage[j] = "none" /\ j \notin Queued /\ j # worker.job
        /\ status' = [status EXCEPT ![j] = "pending"]
        /\ stage' = [stage EXCEPT ![j] = "created"]
    BY <2>1 DEF CreateJob, AbsentIsNowhere
  <2>4. TypeOK'
    BY <2>1, <2>2 DEF CreateJob, TypeOK, Statuses
  <2>5. OneDelivery'
    BY <2>2, <2>3 DEF TypeOK, OneDelivery, Submitting
  <2>6. AbsentIsNowhere' /\ WorkerHoldsEntry' /\ PendingIsDelivered'
    BY <2>2, <2>3 DEF TypeOK, AbsentIsNowhere, WorkerHoldsEntry, PendingIsDelivered, HasEntry
  <2> QED BY <2>4, <2>5, <2>6
<1>2. ASSUME NEW j \in Jobs, EnqueueStore(j) PROVE Delivery'
  <2>1. /\ UNCHANGED <<queue, worker, stopped>> /\ Queued' = Queued
        /\ stage[j] = "created" /\ j # worker.job
        /\ status' = [status EXCEPT ![j] = "pending"]
        /\ stage' = [stage EXCEPT ![j] = "sending"]
    BY <1>2 DEF EnqueueStore, Queued, OneDelivery, Submitting
  <2>2. TypeOK'
    BY <1>2, <2>1 DEF EnqueueStore, TypeOK, Statuses
  <2>3. OneDelivery'
    BY <2>1 DEF TypeOK, OneDelivery, Submitting
  <2>4. AbsentIsNowhere' /\ WorkerHoldsEntry' /\ PendingIsDelivered'
    BY <2>1 DEF TypeOK, AbsentIsNowhere, WorkerHoldsEntry, PendingIsDelivered, HasEntry
  <2> QED BY <2>2, <2>3, <2>4
<1>3. ASSUME NEW j \in Jobs, EnqueueSend(j) PROVE Delivery'
  <2>1. /\ UNCHANGED <<status, retries, parent, by, worker, stopped>>
        /\ stage[j] = "sending" /\ Len(queue) < BufferSize /\ j # worker.job /\ j \notin Queued
        /\ stage' = [stage EXCEPT ![j] = "none"] /\ queue' = Append(queue, j)
    BY <1>3 DEF EnqueueSend, store, OneDelivery, Submitting
  <2>2. /\ queue' \in Seq(Jobs) /\ Len(queue') = Len(queue) + 1 /\ Len(queue) \in Nat
        /\ Queued' = Queued \cup {j}
        /\ \A i, k \in DOMAIN queue' : queue'[i] = queue'[k] => i = k
    BY <2>1, SendToBuffer, LenProperties DEF TypeOK, OneDelivery
  <2>3. TypeOK'
    BY <2>1, <2>2, BufferAssumption DEF TypeOK
  <2>4. OneDelivery'
    BY <2>1, <2>2 DEF TypeOK, OneDelivery, Submitting
  <2>5. AbsentIsNowhere' /\ WorkerHoldsEntry' /\ PendingIsDelivered'
    BY <2>1, <2>2 DEF TypeOK, AbsentIsNowhere, WorkerHoldsEntry, PendingIsDelivered, HasEntry
  <2> QED BY <2>3, <2>4, <2>5
<1>4. ASSUME NEW j \in Jobs, EnqueueFails(j) PROVE Delivery'
  <2>1. /\ UNCHANGED <<status, retries, parent, by, queue, worker, stopped>> /\ Queued' = Queued
        /\ stage[j] \in {"created", "sending"}
        /\ stage' = [stage EXCEPT ![j] = IF by[j] = "client" THEN "undo" ELSE "none"]
        /\ by[j] = "client" \/ stopped
    BY <1>4 DEF EnqueueFails, store, Queued
  <2>2. TypeOK'
    BY <2>1 DEF TypeOK
  <2>3. OneDelivery'
    BY <2>1 DEF TypeOK, OneDelivery, Submitting
  <2>4. AbsentIsNowhere' /\ WorkerHoldsEntry' /\ PendingIsDelivered'
    BY <2>1 DEF TypeOK, AbsentIsNowhere, WorkerHoldsEntry, PendingIsDelivered, HasEntry
  <2> QED BY <2>2, <2>3, <2>4
<1>5. ASSUME NEW j \in Jobs, ApiUndo(j) PROVE Delivery'
  <2>1. stage[j] = "undo" /\ stage' = [stage EXCEPT ![j] = "none"]
    BY <1>5 DEF ApiUndo
  <2>2. stage' \in [Jobs -> {"none", "created", "sending", "undo"}]
    BY <2>1 DEF TypeOK
  <2>3. \A k \in Jobs : \/ stage'[k] = stage[k]
                        \/ stage'[k] = "none" /\ (k \in JobTree(j) \/ ~HasEntry(k))
    BY <2>1, JobTreeEntries DEF TypeOK
  <2> QED BY <1>5, <2>2, <2>3, JobTreeEntries, DeletionDelivery DEF ApiUndo
<1> QED BY <1>1, <1>2, <1>3, <1>4, <1>5 DEF Creation

\* CancelJob, DeleteJob and CleanupJobs.
LEMMA RemovalDelivery ==
    ASSUME Delivery, Removal
    PROVE  Delivery'
<1> USE InMemJobsAssumption DEF Delivery
<1>1. ASSUME NEW j \in Jobs, CancelJob(j) PROVE Delivery'
  <2>1. /\ UNCHANGED <<retries, parent, stage, by, queue, worker, stopped>> /\ Queued' = Queued
        /\ status' \in [Jobs -> Statuses]
        /\ \A k \in Jobs : \/ status'[k] = status[k]
                           \/ status[k] \in {"pending", "running"} /\ status'[k] = "failed"
    BY <1>1 DEF CancelJob, Queued, TypeOK, Statuses
  <2>2. TypeOK' /\ OneDelivery'
    BY <2>1 DEF TypeOK, OneDelivery, Submitting
  <2>3. AbsentIsNowhere' /\ WorkerHoldsEntry' /\ PendingIsDelivered'
    BY <2>1 DEF TypeOK, AbsentIsNowhere, WorkerHoldsEntry, PendingIsDelivered, HasEntry
  <2> QED BY <2>2, <2>3
<1>2. ASSUME NEW j \in Jobs, DeleteJob(j) PROVE Delivery'
  <2>1. stage' = stage /\ JobTree(j) \in SUBSET Entries
    BY <1>2, JobTreeEntries DEF DeleteJob
  <2> QED BY <1>2, <2>1, DeletionDelivery DEF DeleteJob, TypeOK
<1>3. CASE CleanupJobs
  <2>1. PICK R \in SUBSET Jobs : DeleteEntries(UNION {JobTree(j) : j \in R})
    BY <1>3 DEF CleanupJobs
  <2>2. UNION {JobTree(j) : j \in R} \in SUBSET Entries
    BY JobTreeEntries
  <2>3. UNCHANGED <<stage, by, queue, stopped>>
    BY <1>3 DEF CleanupJobs
  <2> QED BY <2>1, <2>2, <2>3, DeletionDelivery DEF TypeOK
<1> QED BY <1>1, <1>2, <1>3 DEF Removal

\* A write to the worker's object reaches the map exactly when the object is
\* the entry.
LEMMA ObjectWrite ==
    ASSUME TypeOK, worker.job \in Jobs, status[worker.job] # "absent",
           worker.object = "live" <=> HasEntry(worker.job),
           NEW s \in Statuses, NEW n \in Nat, SetObject(s, n)
    PROVE  /\ status' \in [Jobs -> Statuses] /\ retries' \in [Jobs -> Nat]
           /\ \A k \in Jobs \ {worker.job} : status'[k] = status[k]
           /\ status'[worker.job] = IF worker.object = "live" THEN s ELSE "removed"
<1>1. status \in [Jobs -> Statuses] /\ retries \in [Jobs -> Nat]
  BY DEF TypeOK
<1>2. CASE worker.object = "live"
  <2>1. /\ status' = [status EXCEPT ![worker.job] = s]
        /\ retries' = [retries EXCEPT ![worker.job] = n]
    BY <1>2 DEF SetObject
  <2> QED BY <1>1, <1>2, <2>1
<1>3. CASE worker.object # "live"
  <2>1. status' = status /\ retries' = retries
    BY <1>3 DEF SetObject
  <2>2. status[worker.job] = "removed"
    BY <1>3 DEF HasEntry
  <2> QED BY <1>1, <1>3, <2>1, <2>2
<1> QED BY <1>2, <1>3

\* The worker goroutine.
LEMMA WorkDelivery ==
    ASSUME Delivery, Work
    PROVE  Delivery'
<1> USE InMemJobsAssumption DEF Delivery
<1>1. CASE Receive
  <2>1. /\ UNCHANGED <<status, retries, parent, stage, by, stopped>>
        /\ worker.phase = "idle" /\ worker.job = NoJob
        /\ queue # <<>> /\ queue' = Tail(queue)
        /\ worker' = IF HasEntry(Head(queue))
                     THEN [Resting("received") EXCEPT !.job = Head(queue)] ELSE Resting("idle")
    BY <1>1 DEF Receive, store, TypeOK
  <2>2. /\ Head(queue) \in Jobs /\ queue' \in Seq(Jobs) /\ Len(queue') = Len(queue) - 1
        /\ Queued = Queued' \cup {Head(queue)} /\ Head(queue) \notin Queued'
        /\ \A i, k \in DOMAIN queue' : queue'[i] = queue'[k] => i = k
        /\ Len(queue) \in Nat /\ NoJob \notin Queued
    BY <2>1, ReceiveFromBuffer, LenProperties DEF TypeOK, OneDelivery
  <2>3. /\ worker' \in [phase : Phases, job : Jobs \cup {NoJob},
                        object : Statuses \cup {"live"}, retries : Nat]
        /\ worker'.object = "live"
        /\ \/ /\ HasEntry(Head(queue)) /\ worker'.phase = "received" /\ worker'.job = Head(queue)
           \/ /\ ~HasEntry(Head(queue)) /\ worker'.phase = "idle" /\ worker'.job = NoJob
    BY <2>1, <2>2 DEF Resting, Phases
  <2>4. TypeOK'
    BY <2>1, <2>2, <2>3, BufferAssumption DEF TypeOK
  <2>5. OneDelivery'
    BY <2>1, <2>2, <2>3 DEF OneDelivery, Submitting
  <2>6. AbsentIsNowhere' /\ WorkerHoldsEntry' /\ PendingIsDelivered'
    BY <2>1, <2>2, <2>3 DEF AbsentIsNowhere, WorkerHoldsEntry, PendingIsDelivered, HasEntry
  <2> QED BY <2>4, <2>5, <2>6
<1>2. ASSUME worker.phase \in {"received", "handling", "retry", "retrySend"},
             UNCHANGED <<parent, stage, by, queue, stopped>>,
             status' \in [Jobs -> Statuses], retries' \in [Jobs -> Nat],
             worker' \in [phase : Phases, job : Jobs \cup {NoJob},
                          object : Statuses \cup {"live"}, retries : Nat],
             \A k \in Jobs \ {worker.job} : status'[k] = status[k],
             status'[worker.job] # "absent",
             \/ /\ worker'.phase = "idle" /\ worker'.job = NoJob
                /\ stopped \/ status'[worker.job] # "pending"
             \/ /\ worker'.phase = "retrySend" /\ worker'.job = worker.job
             \/ /\ worker'.phase \in {"handling", "retry"} /\ worker'.job = worker.job
                /\ worker'.object = "live" <=> HasEntry(worker.job)'
                /\ worker'.phase = "handling" => status'[worker.job] # "pending"
      PROVE  Delivery'
  <2>1. worker.job \in Jobs /\ Queued' = Queued /\ NoJob \notin Queued
    BY <1>2, LenProperties DEF TypeOK, Queued
  <2>2. TypeOK'
    BY <1>2, <2>1 DEF TypeOK
  <2>3. OneDelivery'
    BY <1>2, <2>1 DEF OneDelivery, Submitting
  <2>4. AbsentIsNowhere'
    BY <1>2, <2>1 DEF AbsentIsNowhere
  <2>5. WorkerHoldsEntry'
    BY <1>2, <2>1 DEF WorkerHoldsEntry, HasEntry
  <2>6. PendingIsDelivered'
    BY <1>2, <2>1 DEF PendingIsDelivered
  <2> QED BY <2>2, <2>3, <2>4, <2>5, <2>6
<1>3. ASSUME worker.phase \in {"received", "handling", "retry", "retrySend"}
      PROVE  /\ worker.job \in Jobs /\ status[worker.job] \in Statuses \ {"absent"}
             /\ ObjectRetries \in Nat
             /\ worker.phase # "retrySend" => ObjectStatus \in Statuses
  BY <1>3 DEF TypeOK, AbsentIsNowhere, ObjectRetries, ObjectStatus
<1>4. CASE Begin
  <2>1. worker.phase = "received" /\ UNCHANGED <<parent, stage, by, queue, stopped>>
    BY <1>4 DEF Begin
  <2>2. worker.object = "live" <=> HasEntry(worker.job)
    BY <2>1 DEF WorkerHoldsEntry
  <2>3. CASE worker' = Resting("idle") /\ UNCHANGED <<status, retries>> /\ ObjectStatus # "pending"
    BY <1>2, <1>3, <2>1, <2>2, <2>3 DEF TypeOK, Resting, Phases, ObjectStatus, HasEntry
  <2>4. CASE worker' = Resting("idle") /\ SetObject("failed", ObjectRetries)
    <3>1. /\ status' \in [Jobs -> Statuses] /\ retries' \in [Jobs -> Nat]
          /\ \A k \in Jobs \ {worker.job} : status'[k] = status[k]
          /\ status'[worker.job] \in {"failed", "removed"}
      BY <1>3, <2>1, <2>2, <2>4, ObjectWrite DEF Statuses
    <3> QED BY <1>2, <2>1, <2>4, <3>1 DEF Resting, Phases
  <2>5. CASE SetObject("running", ObjectRetries) /\ WorkerNext("handling", "running", ObjectRetries)
    <3>1. /\ status' \in [Jobs -> Statuses] /\ retries' \in [Jobs -> Nat]
          /\ \A k \in Jobs \ {worker.job} : status'[k] = status[k]
          /\ status'[worker.job] = IF worker.object = "live" THEN "running" ELSE "removed"
      BY <1>3, <2>1, <2>2, <2>5, ObjectWrite DEF Statuses
    <3>2. /\ worker'.phase = "handling" /\ worker'.job = worker.job
          /\ worker'.object = IF worker.object = "live" THEN "live" ELSE "running"
          /\ worker' \in [phase : Phases, job : Jobs \cup {NoJob},
                          object : Statuses \cup {"live"}, retries : Nat]
      BY <1>3, <2>1, <2>5 DEF TypeOK, WorkerNext, Phases, Statuses
    <3> QED BY <1>2, <2>1, <3>1, <3>2 DEF HasEntry
  <2> QED BY <1>4, <2>3, <2>4, <2>5 DEF Begin, Terminal
<1>5. ASSUME NEW r \in Results, Finish(r) PROVE Delivery'
  <2> DEFINE n == IF r = "ok" THEN ObjectRetries ELSE ObjectRetries + 1
             s == AfterRun(r, n)
  <2>1. worker.phase = "handling" /\ UNCHANGED <<parent, stage, by, queue, stopped>>
    BY <1>5 DEF Finish
  <2>2. /\ worker.object = "live" <=> HasEntry(worker.job)
        /\ status[worker.job] # "pending"
    BY <2>1 DEF WorkerHoldsEntry
  <2>3. n \in Nat /\ s \in {"completed", "failed", "pending"}
    BY <1>3, <2>1 DEF AfterRun
  <2> HIDE DEF n, s
  <2>4. CASE worker' = Resting("idle") /\ UNCHANGED <<status, retries>>
    BY <1>2, <1>3, <2>1, <2>2, <2>4 DEF TypeOK, Resting, Phases
  <2>5. CASE s # "pending" /\ SetObject(s, n) /\ WorkerNext("idle", s, n)
    <3>1. /\ status' \in [Jobs -> Statuses] /\ retries' \in [Jobs -> Nat]
          /\ \A k \in Jobs \ {worker.job} : status'[k] = status[k]
          /\ status'[worker.job] \in {"completed", "failed", "removed"}
      BY <1>3, <2>1, <2>2, <2>3, <2>5, ObjectWrite DEF Statuses
    <3>2. worker' = Resting("idle")
      BY <2>5 DEF WorkerNext
    <3> QED BY <1>2, <2>1, <3>1, <3>2 DEF Resting, Phases
  <2>6. CASE s = "pending" /\ SetObject(s, n) /\ WorkerNext("retry", s, n)
    <3>1. /\ status' \in [Jobs -> Statuses] /\ retries' \in [Jobs -> Nat]
          /\ \A k \in Jobs \ {worker.job} : status'[k] = status[k]
          /\ status'[worker.job] = IF worker.object = "live" THEN "pending" ELSE "removed"
      BY <1>3, <2>1, <2>2, <2>3, <2>6, ObjectWrite DEF Statuses
    <3>2. /\ worker'.phase = "retry" /\ worker'.job = worker.job
          /\ worker'.object = IF worker.object = "live" THEN "live" ELSE "pending"
          /\ worker' \in [phase : Phases, job : Jobs \cup {NoJob},
                          object : Statuses \cup {"live"}, retries : Nat]
      BY <1>3, <2>1, <2>3, <2>6 DEF TypeOK, WorkerNext, Phases, Statuses
    <3> QED BY <1>2, <2>1, <3>1, <3>2 DEF HasEntry
  <2> QED BY <1>5, <2>4, <2>5, <2>6 DEF Finish, n, s
<1>6. CASE RetryStore
  <2>1. worker.phase = "retry" /\ UNCHANGED <<parent, stage, by, queue, stopped>>
    BY <1>6 DEF RetryStore
  <2>2. CASE stopped
    BY <1>2, <1>3, <1>6, <2>1, <2>2 DEF RetryStore, TypeOK, Resting, Phases
  <2>3. CASE ~stopped
    <3>1. /\ status' \in [Jobs -> Statuses] /\ retries' \in [Jobs -> Nat]
          /\ \A k \in Jobs \ {worker.job} : status'[k] = status[k]
          /\ status'[worker.job] = "pending"
      <4>1. /\ status' = [status EXCEPT ![worker.job] = "pending"]
            /\ retries' = [retries EXCEPT ![worker.job] =
                              IF HasEntry(worker.job) THEN @ ELSE ObjectRetries]
        BY <1>6, <2>3 DEF RetryStore
      <4>2. status \in [Jobs -> Statuses] /\ retries \in [Jobs -> Nat]
        BY DEF TypeOK
      <4> QED BY <1>3, <2>1, <4>1, <4>2 DEF Statuses
    <3>2. /\ worker'.phase = "retrySend" /\ worker'.job = worker.job
          /\ worker' \in [phase : Phases, job : Jobs \cup {NoJob},
                          object : Statuses \cup {"live"}, retries : Nat]
      BY <1>6, <2>3 DEF RetryStore, TypeOK, Phases
    <3> QED BY <1>2, <2>1, <3>1, <3>2
  <2> QED BY <2>2, <2>3
<1>7. CASE RetrySend
  <2>1. /\ UNCHANGED <<status, retries, parent, stage, by, stopped>>
        /\ worker.phase = "retrySend" /\ Len(queue) < BufferSize
        /\ queue' = Append(queue, worker.job) /\ worker' = Resting("idle")
    BY <1>7 DEF RetrySend, store
  <2>2. /\ worker.job \in Jobs /\ worker.job \notin Queued /\ ~Submitting(worker.job)
        /\ queue' \in Seq(Jobs) /\ Len(queue') = Len(queue) + 1 /\ Len(queue) \in Nat
        /\ Queued' = Queued \cup {worker.job}
        /\ \A i, k \in DOMAIN queue' : queue'[i] = queue'[k] => i = k
        /\ NoJob \notin Queued'
    <3>1. worker.job \in Jobs /\ worker.job \notin Queued /\ ~Submitting(worker.job)
      BY <1>3, <2>1 DEF OneDelivery
    <3>2. Queued \subseteq Jobs /\ Len(queue) \in Nat
      BY LenProperties DEF TypeOK, Queued
    <3> QED BY <2>1, <3>1, <3>2, SendToBuffer DEF TypeOK, OneDelivery
  <2>3. /\ worker'.phase = "idle" /\ worker'.job = NoJob
        /\ worker' \in [phase : Phases, job : Jobs \cup {NoJob},
                        object : Statuses \cup {"live"}, retries : Nat]
    BY <2>1 DEF Resting, Phases
  <2>4. TypeOK'
    BY <2>1, <2>2, <2>3, BufferAssumption DEF TypeOK
  <2>5. OneDelivery'
    BY <2>1, <2>2, <2>3 DEF OneDelivery, Submitting
  <2>6. AbsentIsNowhere' /\ WorkerHoldsEntry' /\ PendingIsDelivered'
    BY <2>1, <2>2, <2>3 DEF AbsentIsNowhere, WorkerHoldsEntry, PendingIsDelivered
  <2> QED BY <2>4, <2>5, <2>6
<1>8. CASE RetryFails
  BY <1>2, <1>3, <1>8 DEF RetryFails, store, TypeOK, Resting, Phases
<1>9. CASE WorkerExit
  <2>1. /\ UNCHANGED <<status, retries, parent, stage, by, queue, stopped>> /\ Queued' = Queued
        /\ worker.job = NoJob /\ worker'.phase = "exited" /\ worker'.job = NoJob
        /\ worker' \in [phase : Phases, job : Jobs \cup {NoJob},
                        object : Statuses \cup {"live"}, retries : Nat]
    BY <1>9 DEF WorkerExit, store, TypeOK, Resting, Phases, Queued
  <2>2. TypeOK' /\ OneDelivery'
    BY <2>1 DEF TypeOK, OneDelivery, Submitting
  <2> QED BY <2>1, <2>2 DEF AbsentIsNowhere, WorkerHoldsEntry, PendingIsDelivered
<1> QED BY <1>1, <1>4, <1>5, <1>6, <1>7, <1>8, <1>9 DEF Work

LEMMA NextDelivery == Delivery /\ [Next]_vars => Delivery'
<1> SUFFICES ASSUME Delivery, [Next]_vars PROVE Delivery'
  OBVIOUS
<1>1. CASE Creation \/ Removal \/ Work
  BY <1>1, CreationDelivery, RemovalDelivery, WorkDelivery
<1>2. CASE Stop
  BY <1>2 DEF Stop, store, Delivery, TypeOK, OneDelivery, AbsentIsNowhere, WorkerHoldsEntry,
              PendingIsDelivered, Queued, Submitting, HasEntry
<1>3. CASE UNCHANGED vars
  BY <1>3 DEF vars, Delivery, TypeOK, OneDelivery, AbsentIsNowhere, WorkerHoldsEntry,
              PendingIsDelivered, Queued, Submitting, HasEntry
<1> QED BY <1>1, <1>2, <1>3 DEF Next

\* The channel, the map and the worker stay in agreement.
THEOREM DeliveryInvariant == Spec => []Delivery
<1>1. Init => Delivery
  BY InitDelivery
<1>2. Delivery /\ [Next]_vars => Delivery'
  BY NextDelivery
<1> QED BY <1>1, <1>2, PTL DEF Spec

\* Whatever is cancelled, deleted, retried and re-created, an identifier is
\* never twice on its way to the worker (Enqueue, processJob).
THEOREM DeliveredOnce == Spec => []OneDelivery
<1>1. Delivery => OneDelivery
  BY DEF Delivery
<1> QED BY <1>1, DeliveryInvariant, PTL

\* No pending job is forgotten before Stop, although nothing polls the map
\* (Enqueue, processJob, deleteRecursive).
THEOREM NothingForgotten == Spec => []PendingIsDelivered
<1>1. Delivery => PendingIsDelivered
  BY DEF Delivery
<1> QED BY <1>1, DeliveryInvariant, PTL
----------------------------------------------------------------------------
\* The driver implements JobLifecycle. An execution is a submission that stays
\* open until its retry is stored.
Executing(j) ==
    /\ worker.job = j
    /\ \/ worker.phase \in {"handling", "retry"}
       \/ worker.phase = "received" /\ ObjectStatus = "pending"
Submission ==
    {j \in Jobs :
        \/ stage[j] = "created"
        \/ /\ worker.job = j
           /\ \/ worker.phase \in {"handling", "retry"}
              \/ worker.phase = "received" /\ ObjectStatus = "pending"}

\* A deletion changes no entry but to "removed", and leaves executions as they are.
LEMMA DeletionKeepsExecutions ==
    ASSUME Delivery, NEW S \in SUBSET Entries, DeleteEntries(S), NEW j \in Jobs
    PROVE  /\ \/ status'[j] = status[j]
              \/ status[j] # "absent" /\ status'[j] = "removed"
           /\ Executing(j)' => Executing(j)
<1>1. /\ status' = [k \in Jobs |-> IF k \in S THEN "removed" ELSE status[k]]
      /\ \A k \in S : k \in Jobs /\ status[k] \notin {"absent", "removed"}
  BY DEF DeleteEntries, Entries, HasEntry
<1>2. /\ worker'.phase = worker.phase /\ worker'.job = worker.job
      /\ worker'.object = IF worker.job \in S /\ worker.object = "live"
                          THEN status[worker.job] ELSE worker.object
  BY DEF DeleteEntries, Delivery, TypeOK
<1>3. worker.job = j => ObjectStatus' = ObjectStatus \/ worker.phase = "retrySend"
  <2>1. CASE worker.job = j /\ worker.phase \in {"received", "handling", "retry"}
    BY <1>1, <1>2, <2>1 DEF ObjectStatus, Delivery, TypeOK, WorkerHoldsEntry, HasEntry, Statuses
  <2> QED BY <2>1, InMemJobsAssumption DEF Delivery, TypeOK, Phases
<1> QED BY <1>1, <1>2, <1>3 DEF Executing

LEMMA CreationImplements ==
    ASSUME Delivery, Delivery', Creation, NEW j \in Jobs
    PROVE  \/ Lifecycle!Create(j) \/ Lifecycle!Submit(j) \/ Lifecycle!Remove(j)
           \/ Lifecycle!Keep(j)
<1> USE InMemJobsAssumption
        DEF Lifecycle!Create, Lifecycle!Submit, Lifecycle!Remove, Lifecycle!Keep
<1>1. PICK k \in Jobs : \/ \E p \in Jobs \cup {NoJob} : ApiCreateJob(k, p)
                        \/ HandlerCreateChild(k)
                        \/ EnqueueStore(k) \/ EnqueueSend(k) \/ EnqueueFails(k) \/ ApiUndo(k)
  BY DEF Creation
<1>2. CASE (\E p \in Jobs \cup {NoJob} : ApiCreateJob(k, p)) \/ HandlerCreateChild(k)
  <2>1. /\ status[k] = "absent" /\ status' = [status EXCEPT ![k] = "pending"]
        /\ stage' = [stage EXCEPT ![k] = "created"] /\ UNCHANGED <<retries, worker>>
    BY <1>2 DEF ApiCreateJob, HandlerCreateChild, CreateJob
  <2>2. CASE j = k
    BY <2>1, <2>2 DEF Delivery, TypeOK
  <2>3. CASE j # k
    BY <2>1, <2>3 DEF Delivery, TypeOK, ObjectStatus
  <2> QED BY <2>2, <2>3
<1>3. CASE EnqueueStore(k)
  <2>1. /\ stage[k] = "created" /\ status' = [status EXCEPT ![k] = "pending"]
        /\ stage' = [stage EXCEPT ![k] = "sending"] /\ UNCHANGED <<retries, worker>>
        /\ k # worker.job
    BY <1>3 DEF EnqueueStore, Delivery, OneDelivery, Submitting
  <2>2. CASE j = k
    BY <2>1, <2>2 DEF Delivery, TypeOK
  <2>3. CASE j # k
    BY <2>1, <2>3 DEF Delivery, TypeOK, ObjectStatus
  <2> QED BY <2>2, <2>3
<1>4. CASE EnqueueSend(k) \/ EnqueueFails(k)
  BY <1>4 DEF EnqueueSend, EnqueueFails, store, Delivery, TypeOK, ObjectStatus
<1>5. CASE ApiUndo(k)
  <2>1. stage[k] = "undo" /\ stage' = [stage EXCEPT ![k] = "none"] /\ DeleteEntries(JobTree(k))
    BY <1>5 DEF ApiUndo
  <2>2. stage'[j] = "created" => stage[j] = "created"
    BY <2>1 DEF Delivery, TypeOK
  <2>3. JobTree(k) \in SUBSET Entries
    BY JobTreeEntries
  <2> QED BY <2>1, <2>2, <2>3, DeletionKeepsExecutions DEF Executing
<1> QED BY <1>1, <1>2, <1>3, <1>4, <1>5

LEMMA RemovalImplements ==
    ASSUME Delivery, Delivery', Removal, NEW j \in Jobs
    PROVE  Lifecycle!Settle(j) \/ Lifecycle!Remove(j) \/ Lifecycle!Keep(j)
<1> USE InMemJobsAssumption DEF Lifecycle!Settle, Lifecycle!Remove, Lifecycle!Keep
<1>1. ASSUME NEW k \in Jobs, CancelJob(k)
      PROVE  Lifecycle!Settle(j) \/ Lifecycle!Keep(j)
  <2>1. /\ UNCHANGED <<retries, stage, worker>>
        /\ \A i \in Jobs : \/ status'[i] = status[i]
                           \/ status[i] \in {"pending", "running"} /\ status'[i] = "failed"
    BY <1>1 DEF CancelJob, Delivery, TypeOK
  <2>2. Executing(j)' => Executing(j)
    BY <2>1 DEF Executing, ObjectStatus, Delivery, TypeOK
  <2> QED BY <2>1, <2>2 DEF Executing
<1>2. ASSUME NEW S \in SUBSET Entries, DeleteEntries(S), UNCHANGED stage
      PROVE  Lifecycle!Remove(j) \/ Lifecycle!Keep(j)
  BY <1>2, DeletionKeepsExecutions DEF Executing
<1>3. CASE \E k \in Jobs : DeleteJob(k)
  BY <1>2, <1>3, JobTreeEntries DEF DeleteJob
<1>4. CASE CleanupJobs
  <2>1. PICK R \in SUBSET Jobs : DeleteEntries(UNION {JobTree(k) : k \in R})
    BY <1>4 DEF CleanupJobs
  <2>2. UNION {JobTree(k) : k \in R} \in SUBSET Entries
    BY JobTreeEntries
  <2> QED BY <1>2, <1>4, <2>1, <2>2 DEF CleanupJobs
<1> QED BY <1>1, <1>3, <1>4 DEF Removal

LEMMA WorkImplements ==
    ASSUME Delivery, Delivery', Work, NEW j \in Jobs
    PROVE  \/ Lifecycle!Submit(j) \/ Lifecycle!Claim(j) \/ Lifecycle!Settle(j)
           \/ Lifecycle!Keep(j)
<1> USE InMemJobsAssumption
        DEF Lifecycle!Submit, Lifecycle!Claim, Lifecycle!Settle, Lifecycle!Keep
<1>1. /\ UNCHANGED stage /\ status \in [Jobs -> Statuses]
      /\ worker.job = NoJob <=> worker.phase \in {"idle", "exited"}
      /\ worker.job \in Jobs => stage[worker.job] # "created"
  BY DEF Work, Receive, Begin, Finish, RetryStore, RetrySend, RetryFails, WorkerExit,
         Delivery, TypeOK, OneDelivery, Submitting
<1>2. CASE Receive
  <2>1. status' = status /\ worker.job = NoJob
    BY <1>1, <1>2 DEF Receive, store
  <2>2. Executing(j)' => status[j] = "pending"
    BY <1>2, <2>1 DEF Receive, Executing, ObjectStatus, Resting
  <2> QED BY <1>1, <2>1, <2>2 DEF Executing
<1>3. ASSUME worker' = Resting("idle"),
             \/ status'[j] = status[j]
             \/ status[j] = "running" /\ status'[j] \in {"completed", "failed"}
             \/ status[j] = "pending" /\ status'[j] = "failed"
      PROVE  Lifecycle!Settle(j) \/ Lifecycle!Keep(j)
  <2>1. ~Executing(j)'
    BY <1>3 DEF Executing, Resting
  <2> QED BY <1>1, <1>3, <2>1 DEF Executing
<1>4. ASSUME worker.phase \in {"received", "handling", "retry"}
      PROVE  /\ worker.job \in Jobs /\ status[worker.job] \in Statuses \ {"absent"}
             /\ worker.object = "live" <=> HasEntry(worker.job)
             /\ ObjectRetries \in Nat
             /\ worker.object # "live" => status[worker.job] = "removed"
  BY <1>4 DEF Delivery, TypeOK, AbsentIsNowhere, WorkerHoldsEntry, HasEntry, ObjectRetries
<1>5. CASE Begin
  <2>1. worker.phase = "received"
    BY <1>5 DEF Begin
  <2>2. CASE worker' = Resting("idle") /\ UNCHANGED status
    BY <1>3, <2>2
  <2>3. CASE /\ worker' = Resting("idle") /\ SetObject("failed", ObjectRetries)
             /\ ObjectStatus \notin Terminal
    <3>1. /\ \A k \in Jobs \ {worker.job} : status'[k] = status[k]
          /\ status'[worker.job] = IF worker.object = "live" THEN "failed" ELSE "removed"
      BY <1>4, <2>1, <2>3, ObjectWrite DEF Statuses, Delivery
    <3>2. worker.object = "live" => status[worker.job] \in {"pending", "running"}
      BY <1>4, <2>1, <2>3 DEF ObjectStatus, Terminal, Statuses, HasEntry
    <3> QED BY <1>3, <1>4, <2>1, <2>3, <3>1, <3>2
  <2>4. CASE /\ ObjectStatus = "pending" /\ SetObject("running", ObjectRetries)
             /\ WorkerNext("handling", "running", ObjectRetries)
    <3>1. /\ \A k \in Jobs \ {worker.job} : status'[k] = status[k]
          /\ status'[worker.job] = IF worker.object = "live" THEN "running" ELSE "removed"
      BY <1>4, <2>1, <2>4, ObjectWrite DEF Statuses, Delivery
    <3>2. worker'.job = worker.job
      BY <2>4 DEF WorkerNext, Delivery, TypeOK
    <3>3. worker.object = "live" => status[worker.job] = "pending"
      BY <2>4 DEF ObjectStatus
    <3>4. Executing(worker.job)
      BY <2>1, <2>4 DEF Executing
    <3> QED BY <1>1, <1>4, <2>1, <3>1, <3>2, <3>3, <3>4 DEF Executing
  <2> QED BY <1>5, <2>2, <2>3, <2>4 DEF Begin
<1>6. ASSUME NEW r \in Results, Finish(r)
      PROVE  Lifecycle!Settle(j) \/ Lifecycle!Keep(j)
  <2> DEFINE n == IF r = "ok" THEN ObjectRetries ELSE ObjectRetries + 1
             s == AfterRun(r, n)
  <2>1. worker.phase = "handling"
    BY <1>6 DEF Finish
  <2>2. n \in Nat /\ s \in {"completed", "failed", "pending"}
    BY <1>4, <2>1 DEF AfterRun
  <2> HIDE DEF n, s
  <2>3. CASE worker' = Resting("idle") /\ UNCHANGED status
    BY <1>3, <2>3
  <2>4. CASE Finishable /\ SetObject(s, n) /\ (worker' = Resting("idle") \/ worker'.job = worker.job)
    <3>1. /\ \A k \in Jobs \ {worker.job} : status'[k] = status[k]
          /\ status'[worker.job] = IF worker.object = "live" THEN s ELSE "removed"
      BY <1>4, <2>1, <2>2, <2>4, ObjectWrite DEF Statuses, Delivery
    <3>2. worker.object = "live" => status[worker.job] = "running"
      BY <2>4 DEF Finishable, ObjectStatus
    <3>3. Executing(worker.job) /\ (Executing(j)' => j = worker.job)
      BY <2>1, <2>4 DEF Executing, Resting
    <3> QED BY <1>1, <1>4, <2>1, <2>2, <3>1, <3>2, <3>3 DEF Executing
  <2>5. WorkerNext(IF s = "pending" THEN "retry" ELSE "idle", s, n) =>
           worker' = Resting("idle") \/ worker'.job = worker.job
    BY DEF WorkerNext, Delivery, TypeOK
  <2> QED BY <1>6, <2>3, <2>4, <2>5 DEF Finish, n, s
<1>7. CASE RetryStore
  <2>1. worker.phase = "retry"
    BY <1>7 DEF RetryStore
  <2>2. CASE stopped
    BY <1>3, <1>7, <2>2 DEF RetryStore
  <2>3. CASE ~stopped
    <3>1. status' = [status EXCEPT ![worker.job] = "pending"] /\ worker'.phase = "retrySend"
      BY <1>7, <2>3 DEF RetryStore, Delivery, TypeOK
    <3>2. ~Executing(j)' /\ Executing(worker.job)
      BY <2>1, <3>1 DEF Executing
    <3> QED BY <1>1, <1>4, <2>1, <3>1, <3>2 DEF Executing
  <2> QED BY <2>2, <2>3
<1>8. CASE RetrySend \/ RetryFails
  BY <1>3, <1>8 DEF RetrySend, RetryFails, store
<1>9. CASE WorkerExit
  <2>1. status' = status /\ ~Executing(j)'
    BY <1>9 DEF WorkerExit, store, Executing, Resting
  <2> QED BY <1>1, <2>1 DEF Executing
<1> QED BY <1>2, <1>5, <1>6, <1>7, <1>8, <1>9 DEF Work

\* Whatever the interleaving of requests, deletions, retries and Stop, a settled
\* or removed job comes back only through a submission or an execution that was
\* already under way: the driver keeps the contract of queue.go.
THEOREM RefinesLifecycle == Spec => ImplementsLifecycle
<1>1. Init => Lifecycle!Init
  BY InMemJobsAssumption DEF Init, Lifecycle!Init, Resting
<1>2. ASSUME Delivery, Delivery', [Next]_vars
      PROVE  [Lifecycle!Next /\ Lifecycle!Typed']_<<status, Submission>>
  <2>1. CASE Next
    <3>1. ASSUME NEW j \in Jobs
          PROVE  \/ Lifecycle!Create(j) \/ Lifecycle!Submit(j) \/ Lifecycle!Claim(j)
                 \/ Lifecycle!Settle(j) \/ Lifecycle!Remove(j) \/ Lifecycle!Keep(j)
      <4>1. CASE Stop
        BY <4>1 DEF Stop, store, Lifecycle!Keep, ObjectStatus
      <4> QED BY <1>2, <2>1, <4>1, CreationImplements, RemovalImplements, WorkImplements DEF Next
    <3>2. Lifecycle!Next
      BY <3>1 DEF Lifecycle!Next
    <3>3. Lifecycle!Typed'
      BY <1>2 DEF Delivery, TypeOK, Lifecycle!Typed, Lifecycle!States, Statuses
    <3> QED BY <3>2, <3>3
  <2>2. CASE UNCHANGED vars
    BY <2>2 DEF vars, Submission, Executing, ObjectStatus
  <2> QED BY <1>2, <2>1, <2>2
<1> QED BY <1>1, <1>2, DeliveryInvariant, PTL
        DEF Spec, ImplementsLifecycle, Lifecycle!Spec, Submission
-----------------------------------------------------------------------------
(***************************************************************************)
(* The retry budget                                                        *)
(***************************************************************************)
Fits(j, n) == n = 0 \/ n < MaxRetries[j]

\* A job that is being submitted was never tried; a detached object keeps the
\* budget of its entry, and a retry is decided with tries left.
Budget ==
    /\ RetryBudget
    /\ \A j \in Jobs : status[j] = "absent" \/ stage[j] = "created" => retries[j] = 0
    /\ worker.phase \in {"received", "handling"} /\ worker.object \in {"pending", "running"} =>
          Fits(worker.job, worker.retries)
    /\ worker.phase = "retry" => ObjectRetries < MaxRetries[worker.job]

\* A step that leaves the worker, or puts it to rest.
LEMMA RestBudget ==
    ASSUME RetryBudget',
           \A j \in Jobs : status'[j] = "absent" \/ stage'[j] = "created" => retries'[j] = 0,
           worker'.phase \notin {"received", "handling", "retry"}
    PROVE  Budget'
BY DEF Budget

LEMMA DeleteBudget ==
    ASSUME Delivery, Budget, NEW S, DeleteEntries(S),
           \A k \in Jobs : stage'[k] = "created" => stage[k] = "created"
    PROVE  Budget'
<1>1. TypeOK /\ WorkerHoldsEntry
  BY DEF Delivery
<1>2. /\ status' = [k \in Jobs |-> IF k \in S THEN "removed" ELSE status[k]]
      /\ retries' = [k \in Jobs |-> IF k \in S THEN 0 ELSE retries[k]]
      /\ worker' = IF worker.job \in S /\ worker.object = "live"
                   THEN [worker EXCEPT !.object = status[worker.job],
                                       !.retries = retries[worker.job]]
                   ELSE worker
  BY DEF DeleteEntries
<1>3. /\ RetryBudget'
      /\ \A j \in Jobs : status'[j] = "absent" \/ stage'[j] = "created" => retries'[j] = 0
  BY <1>2 DEF Budget, RetryBudget
<1>4. /\ worker.phase \in {"received", "handling", "retry"} => worker.job \in Jobs
      /\ DOMAIN worker = {"phase", "job", "object", "retries"}
  BY <1>1 DEF TypeOK
<1>5. CASE worker.job \in S /\ worker.object = "live"
  <2>1. /\ worker'.phase = worker.phase /\ worker'.job = worker.job
        /\ worker'.object = status[worker.job] /\ worker'.retries = retries[worker.job]
    BY <1>2, <1>4, <1>5
  <2>2. ObjectRetries = retries[worker.job]
    BY <1>5 DEF ObjectRetries
  <2>3. worker.phase \in {"received", "handling", "retry"} => ObjectRetries' = ObjectRetries
    <3>1. worker.phase \in {"received", "handling", "retry"} => status[worker.job] # "live"
      BY <1>1, <1>4 DEF TypeOK, Statuses
    <3> QED BY <2>1, <2>2, <3>1 DEF ObjectRetries
  <2> QED BY <1>3, <1>4, <2>1, <2>2, <2>3 DEF Budget, RetryBudget, Fits
<1>6. CASE ~(worker.job \in S /\ worker.object = "live")
  <2>1. worker' = worker
    BY <1>2, <1>6
  <2>2. worker.phase = "retry" => ObjectRetries' = ObjectRetries
    BY <1>2, <1>4, <1>6, <2>1 DEF ObjectRetries
  <2> QED BY <1>3, <2>1, <2>2 DEF Budget, Fits
<1> QED BY <1>5, <1>6

LEMMA CreationBudget ==
    ASSUME Delivery, Budget, Creation
    PROVE  Budget'
<1>1. TypeOK /\ OneDelivery /\ AbsentIsNowhere
  BY DEF Delivery
<1>2. PICK j \in Jobs : \/ \E p \in Jobs \cup {NoJob} : ApiCreateJob(j, p)
                        \/ HandlerCreateChild(j) \/ EnqueueStore(j)
                        \/ EnqueueSend(j) \/ EnqueueFails(j) \/ ApiUndo(j)
  BY DEF Creation
<1>3. CASE (\E p \in Jobs \cup {NoJob} : ApiCreateJob(j, p)) \/ HandlerCreateChild(j) \/ EnqueueStore(j)
  <2>1. /\ status' = [status EXCEPT ![j] = "pending"] /\ retries' = retries /\ worker' = worker
        /\ \E st \in {"created", "sending"} : stage' = [stage EXCEPT ![j] = st]
        /\ status[j] = "absent" \/ stage[j] = "created"
    BY <1>3 DEF ApiCreateJob, HandlerCreateChild, CreateJob, EnqueueStore
  <2>2. retries[j] = 0 /\ j # worker.job
    BY <1>1, <2>1 DEF Budget, OneDelivery, AbsentIsNowhere, Submitting
  <2>3. \A k \in Jobs : /\ status'[k] = IF k = j THEN "pending" ELSE status[k]
                        /\ k # j => stage'[k] = stage[k]
    BY <1>1, <2>1 DEF TypeOK
  <2>4. RetryBudget'
    BY <2>1, <2>2, <2>3 DEF Budget, RetryBudget
  <2>5. ObjectRetries' = ObjectRetries
    BY <2>1 DEF ObjectRetries
  <2> QED BY <2>1, <2>2, <2>3, <2>4, <2>5 DEF Budget, Fits
<1>4. CASE EnqueueSend(j) \/ EnqueueFails(j)
  <2>1. /\ status' = status /\ retries' = retries /\ worker' = worker
        /\ \E st \in {"undo", "none"} : stage' = [stage EXCEPT ![j] = st]
    BY <1>4 DEF EnqueueSend, EnqueueFails, store
  <2>2. \A k \in Jobs : stage'[k] = "created" => stage[k] = "created"
    BY <1>1, <2>1 DEF TypeOK
  <2>3. RetryBudget' /\ ObjectRetries' = ObjectRetries
    BY <2>1 DEF Budget, RetryBudget, ObjectRetries
  <2> QED BY <2>1, <2>2, <2>3 DEF Budget, Fits
<1>5. CASE ApiUndo(j)
  <2>1. stage' = [stage EXCEPT ![j] = "none"] /\ DeleteEntries(JobTree(j))
    BY <1>5 DEF ApiUndo
  <2>2. \A k \in Jobs : stage'[k] = "created" => stage[k] = "created"
    BY <1>1, <2>1 DEF TypeOK
  <2> QED BY <2>1, <2>2, DeleteBudget
<1> QED BY <1>2, <1>3, <1>4, <1>5

LEMMA RemovalBudget ==
    ASSUME Delivery, Budget, Removal
    PROVE  Budget'
<1>1. CASE \E j \in Jobs : CancelJob(j)
  <2>1. PICK j \in Jobs : CancelJob(j)
    BY <1>1
  <2>2. /\ \A k \in Jobs : status'[k] = status[k] \/ status'[k] = "failed"
        /\ retries' = retries /\ stage' = stage /\ worker' = worker
    BY <2>1 DEF CancelJob
  <2>3. RetryBudget' /\ ObjectRetries' = ObjectRetries
    BY <2>2 DEF Budget, RetryBudget, ObjectRetries
  <2> QED BY <2>2, <2>3 DEF Budget, Fits
<1>2. CASE (\E j \in Jobs : DeleteJob(j)) \/ CleanupJobs
  <2>1. stage' = stage /\ \E S : DeleteEntries(S)
    BY <1>2 DEF DeleteJob, CleanupJobs
  <2> QED BY <2>1, DeleteBudget
<1> QED BY <1>1, <1>2 DEF Removal

LEMMA WorkBudget ==
    ASSUME Delivery, Budget, Work
    PROVE  Budget'
<1>1. TypeOK /\ OneDelivery /\ AbsentIsNowhere /\ WorkerHoldsEntry
  BY DEF Delivery
<1>2. /\ status \in [Jobs -> Statuses] /\ retries \in [Jobs -> Nat] /\ MaxRetries \in [Jobs -> Nat]
      /\ DOMAIN worker = {"phase", "job", "object", "retries"} /\ worker.retries \in Nat
      /\ worker.phase \in {"received", "handling", "retry"} =>
            worker.job \in Jobs /\ stage[worker.job] # "created" /\ status[worker.job] # "absent"
            /\ ObjectRetries \in Nat
  BY <1>1, InMemJobsAssumption
     DEF TypeOK, OneDelivery, AbsentIsNowhere, Submitting, ObjectRetries
<1>3. /\ Resting("idle").phase = "idle" /\ Resting("exited").phase = "exited"
  BY DEF Resting
<1>4. CASE Receive
  <2>1. /\ status' = status /\ retries' = retries /\ stage' = stage
        /\ worker' = Resting("idle") \/ worker' = [Resting("received") EXCEPT !.job = Head(queue)]
    BY <1>4 DEF Receive, store
  <2>2. RetryBudget' /\ \A j \in Jobs : status'[j] = "absent" \/ stage'[j] = "created" => retries'[j] = 0
    BY <2>1 DEF Budget, RetryBudget
  <2>3. worker'.phase = "idle" \/ (worker'.phase = "received" /\ worker'.object = "live")
    BY <2>1 DEF Resting
  <2> QED BY <2>2, <2>3 DEF Budget
<1>5. CASE Begin
  <2>1. worker.phase = "received" /\ stage' = stage
    BY <1>5 DEF Begin
  <2>2. CASE worker' = Resting("idle")
    <3>1. \/ status' = status /\ retries' = retries
          \/ /\ status' = [status EXCEPT ![worker.job] = "failed"]
             /\ retries' = [retries EXCEPT ![worker.job] = ObjectRetries]
      <4>1. worker.job \in Unhandled \/ ObjectStatus # "pending"
        <5>1. SUFFICES ASSUME worker.job \notin Unhandled, ObjectStatus = "pending" PROVE FALSE
          OBVIOUS
        <5>2. WorkerNext("handling", "running", ObjectRetries)
          BY <1>5, <5>1 DEF Begin
        <5>3. worker'.phase = "handling"
          BY <1>2, <5>2 DEF WorkerNext
        <5> QED BY <1>3, <2>2, <5>3
      <4> QED BY <1>5, <4>1 DEF Begin, SetObject
    <3>2. \A j \in Jobs : \/ status'[j] = status[j] /\ retries'[j] = retries[j]
                          \/ j = worker.job /\ status'[j] = "failed"
      BY <1>2, <3>1
    <3>3. RetryBudget' /\ \A j \in Jobs : status'[j] = "absent" \/ stage'[j] = "created" => retries'[j] = 0
      BY <1>2, <2>1, <3>2 DEF Budget, RetryBudget
    <3> QED BY <1>3, <2>2, <3>3, RestBudget
  <2>3. CASE worker' # Resting("idle")
    <3>1. /\ ObjectStatus = "pending" /\ SetObject("running", ObjectRetries)
          /\ WorkerNext("handling", "running", ObjectRetries)
      BY <1>5, <2>3 DEF Begin
    <3>2. CASE worker.object = "live"
      <4>1. /\ status' = [status EXCEPT ![worker.job] = "running"]
            /\ retries' = [retries EXCEPT ![worker.job] = retries[worker.job]]
            /\ status[worker.job] = "pending"
        BY <3>1, <3>2 DEF SetObject, ObjectRetries, ObjectStatus
      <4>2. worker'.phase = "handling" /\ worker'.object = "live"
        BY <1>2, <3>1, <3>2 DEF WorkerNext
      <4>3. retries' = retries /\ \A j \in Jobs : status'[j] = IF j = worker.job THEN "running" ELSE status[j]
        BY <1>2, <4>1
      <4>4. RetryBudget' /\ \A j \in Jobs : status'[j] = "absent" \/ stage'[j] = "created" => retries'[j] = 0
        BY <2>1, <4>1, <4>3 DEF Budget, RetryBudget
      <4> QED BY <4>2, <4>4 DEF Budget
    <3>3. CASE worker.object # "live"
      <4>1. /\ status' = status /\ retries' = retries /\ worker.object = "pending"
            /\ ObjectRetries = worker.retries
        BY <3>1, <3>3 DEF SetObject, ObjectRetries, ObjectStatus
      <4>2. /\ worker'.phase = "handling" /\ worker'.retries = worker.retries
            /\ worker'.job = worker.job
        BY <1>2, <3>1, <3>3, <4>1 DEF WorkerNext
      <4>3. Fits(worker.job, worker.retries)
        BY <2>1, <4>1 DEF Budget
      <4>4. RetryBudget' /\ \A j \in Jobs : status'[j] = "absent" \/ stage'[j] = "created" => retries'[j] = 0
        BY <2>1, <4>1 DEF Budget, RetryBudget
      <4> QED BY <4>2, <4>3, <4>4 DEF Budget, Fits
    <3> QED BY <3>2, <3>3
  <2> QED BY <2>2, <2>3
<1>6. ASSUME NEW r \in Results, Finish(r) PROVE Budget'
  <2> DEFINE n == IF r = "ok" THEN ObjectRetries ELSE ObjectRetries + 1
             s == AfterRun(r, n)
  <2>1. worker.phase = "handling" /\ stage' = stage
    BY <1>6 DEF Finish
  <2>2. n \in Nat /\ (s = "pending" => n < MaxRetries[worker.job]) /\ s \in {"completed", "failed", "pending"}
    BY <1>2, <2>1 DEF AfterRun
  <2>3. CASE ~Finishable
    <3>1. status' = status /\ retries' = retries /\ worker' = Resting("idle")
      BY <1>6, <2>3 DEF Finish
    <3>2. RetryBudget' /\ \A j \in Jobs : status'[j] = "absent" \/ stage'[j] = "created" => retries'[j] = 0
      BY <2>1, <3>1 DEF Budget, RetryBudget
    <3> QED BY <1>3, <3>1, <3>2, RestBudget
  <2>4. CASE Finishable
    <3>1. SetObject(s, n) /\ WorkerNext(IF s = "pending" THEN "retry" ELSE "idle", s, n)
      BY <1>6, <2>4 DEF Finish
    <3> HIDE DEF n, s
    <3>2. \/ /\ worker.object = "live"
             /\ status' = [status EXCEPT ![worker.job] = s] /\ retries' = [retries EXCEPT ![worker.job] = n]
          \/ worker.object # "live" /\ status' = status /\ retries' = retries
      BY <3>1 DEF SetObject
    <3>3. RetryBudget' /\ \A j \in Jobs : status'[j] = "absent" \/ stage'[j] = "created" => retries'[j] = 0
      <4>1. \A j \in Jobs : \/ status'[j] = status[j] /\ retries'[j] = retries[j]
                            \/ j = worker.job /\ status'[j] = s /\ retries'[j] = n
        BY <1>2, <3>2
      <4> QED BY <1>2, <2>1, <2>2, <4>1 DEF Budget, RetryBudget
    <3>4. CASE s # "pending"
      <4>1. worker' = Resting("idle")
        BY <3>1, <3>4 DEF WorkerNext
      <4> QED BY <1>3, <3>3, <4>1, RestBudget
    <3>5. CASE s = "pending"
      <4>1. worker' = [worker EXCEPT !.phase = "retry", !.object = IF @ = "live" THEN "live" ELSE s,
                                     !.retries = IF worker.object = "live" THEN 0 ELSE n]
        BY <3>1, <3>5 DEF WorkerNext
      <4>2. /\ worker'.phase = "retry" /\ worker'.job = worker.job
            /\ worker'.object = "live" <=> worker.object = "live"
            /\ worker.object # "live" => worker'.retries = n
        BY <1>2, <3>5, <4>1
      <4>3. ObjectRetries' = n
        BY <1>2, <2>1, <3>2, <4>2 DEF ObjectRetries
      <4> QED BY <2>2, <3>3, <3>5, <4>2, <4>3 DEF Budget
    <3> QED BY <3>4, <3>5
  <2> QED BY <2>3, <2>4
<1>7. CASE RetryStore
  <2>1. worker.phase = "retry" /\ stage' = stage
    BY <1>7 DEF RetryStore
  <2>2. CASE stopped
    <3>1. status' = status /\ retries' = retries /\ worker' = Resting("idle")
      BY <1>7, <2>2 DEF RetryStore
    <3>2. RetryBudget' /\ \A j \in Jobs : status'[j] = "absent" \/ stage'[j] = "created" => retries'[j] = 0
      BY <2>1, <3>1 DEF Budget, RetryBudget
    <3> QED BY <1>3, <3>1, <3>2, RestBudget
  <2>3. CASE ~stopped
    <3>1. /\ status' = [status EXCEPT ![worker.job] = "pending"]
          /\ retries' = [retries EXCEPT ![worker.job] =
                              IF HasEntry(worker.job) THEN @ ELSE ObjectRetries]
          /\ worker' = [worker EXCEPT !.phase = "retrySend"]
      BY <1>7, <2>3 DEF RetryStore
    <3>2. HasEntry(worker.job) => retries[worker.job] = ObjectRetries
      BY <1>1, <2>1 DEF WorkerHoldsEntry, ObjectRetries
    <3>3. /\ \A j \in Jobs : /\ status'[j] = IF j = worker.job THEN "pending" ELSE status[j]
                             /\ retries'[j] = IF j = worker.job THEN ObjectRetries ELSE retries[j]
          /\ worker'.phase = "retrySend"
      BY <1>2, <3>1, <3>2
    <3>4. ObjectRetries < MaxRetries[worker.job]
      BY <2>1 DEF Budget
    <3>5. RetryBudget' /\ \A j \in Jobs : status'[j] = "absent" \/ stage'[j] = "created" => retries'[j] = 0
      BY <1>2, <2>1, <3>3, <3>4 DEF Budget, RetryBudget
    <3> QED BY <3>3, <3>5, RestBudget
  <2> QED BY <2>2, <2>3
<1>8. CASE RetrySend \/ RetryFails \/ WorkerExit
  <2>1. /\ status' = status /\ retries' = retries /\ stage' = stage
        /\ worker' \in {Resting("idle"), Resting("exited")}
    BY <1>8 DEF RetrySend, RetryFails, WorkerExit, store
  <2>2. RetryBudget' /\ \A j \in Jobs : status'[j] = "absent" \/ stage'[j] = "created" => retries'[j] = 0
    BY <2>1 DEF Budget, RetryBudget
  <2> QED BY <1>3, <2>1, <2>2, RestBudget
<1> QED BY <1>4, <1>5, <1>6, <1>7, <1>8 DEF Work

\* A job is tried at most max(1, MaxRetries) times, also when its entry is
\* deleted under the worker and the retry creates it again (processJob).
THEOREM RetriesBounded == Spec => []RetryBudget
<1>1. Init => Budget
  BY DEF Init, Budget, RetryBudget, Resting
<1>2. Delivery /\ Budget /\ [Next]_vars => Budget'
  <2>1. SUFFICES ASSUME Delivery, Budget, [Next]_vars PROVE Budget'
    OBVIOUS
  <2>2. CASE Stop \/ UNCHANGED vars
    BY <2>1, <2>2 DEF Stop, store, vars, Budget, RetryBudget, ObjectRetries, Fits
  <2> QED BY <2>1, <2>2, CreationBudget, RemovalBudget, WorkBudget DEF Next
<1>3. Budget => RetryBudget
  BY DEF Budget
<1> QED BY <1>1, <1>2, <1>3, DeliveryInvariant, PTL DEF Spec

=============================================================================
