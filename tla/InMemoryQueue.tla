--------------------------- MODULE InMemoryQueue ---------------------------
(***************************************************************************)
(* The ephemeral job queue, internal/queue/inmemory/driver.go, fed by the  *)
(* HTTP handlers and by enqueueChild.                                      *)
(*                                                                         *)
(* Jobs live in the map d.jobs; identifiers travel through the buffered    *)
(* channel queueChan to one worker goroutine. A sender blocks while the    *)
(* buffer is full, and the worker itself is a sender: when the handler it  *)
(* runs enqueues a child, and when it re-enqueues a job to retry it. The   *)
(* worker keeps a pointer to the job it processes; DeleteJob removes the   *)
(* map entry and leaves the worker with a detached object.                 *)
(***************************************************************************)
EXTENDS Naturals, Sequences

CONSTANTS
    Jobs,        \* job identifiers (UUIDs; never handed out twice)
    NoJob,       \* no parent; the idle worker's job
    Unhandled,   \* jobs whose type has no registered handler
    MaxRetries,  \* MaxRetries of each job
    BufferSize   \* capacity of queueChan: NewDriver(cfg.QueueConcurrency)

ASSUME InMemJobsAssumption ==
    /\ NoJob \notin Jobs
    /\ Unhandled \subseteq Jobs
    /\ MaxRetries \in [Jobs -> Nat]
ASSUME BufferAssumption == BufferSize \in Nat \ {0}

VARIABLES
    status,     \* Status of the map entry; "absent" before CreateJob, "removed" after a delete
    retries,    \* Retries of the map entry
    parent,     \* ParentID
    stage,      \* how far the creator of a job is: "none", "created", "sending", "undo"
    by,         \* who creates it: "client" or "handler"
    queue,      \* the buffer of queueChan
    worker,     \* what the worker goroutine is doing
    stopped     \* stopChan is closed

store == <<status, retries, parent>>
vars  == <<status, retries, parent, stage, by, queue, worker, stopped>>

Statuses == {"absent", "pending", "running", "completed", "failed", "removed"}
Terminal == {"completed", "failed"}
Results  == {"ok", "transient", "permanent"}
Phases   == {"idle", "received", "handling", "retry", "retrySend", "exited"}

\* Names ending in Mutant are slips a programmer could make in the definition
\* below them; no action uses them.
HasEntry(j) == status[j] \notin {"absent", "removed"}
Entries     == {j \in Jobs : HasEntry(j)}

\* The entries deleteRecursive and CancelJob reach from j.
ClosedUnderChildren(S) == \A k \in Entries : parent[k] \in S => k \in S
JobTree(j) ==
    IF ~HasEntry(j) THEN {}
    ELSE {k \in Entries : \A S \in SUBSET Entries :
                             (j \in S /\ ClosedUnderChildren(S)) => k \in S}

\* The worker's object: "live" while it is the map entry itself, otherwise
\* the status the object had when its entry was deleted.
Resting(ph) == [phase |-> ph, job |-> NoJob, object |-> "live", retries |-> 0]
ObjectStatus  == IF worker.object = "live" THEN status[worker.job] ELSE worker.object
ObjectRetries == IF worker.object = "live" THEN retries[worker.job] ELSE worker.retries

Init ==
    /\ status = [j \in Jobs |-> "absent"]
    /\ retries = [j \in Jobs |-> 0]
    /\ parent = [j \in Jobs |-> NoJob]
    /\ stage = [j \in Jobs |-> "none"]
    /\ by = [j \in Jobs |-> "client"]
    /\ queue = <<>>
    /\ worker = Resting("idle")
    /\ stopped = FALSE

----------------------------------------------------------------------------
(***************************************************************************)
(* CreateJob, then Enqueue                                                 *)
(***************************************************************************)
CreateJob(j, p, who) ==
    /\ status[j] = "absent"
    /\ status' = [status EXCEPT ![j] = "pending"]
    /\ parent' = [parent EXCEPT ![j] = p]
    /\ stage' = [stage EXCEPT ![j] = "created"]
    /\ by' = [by EXCEPT ![j] = who]
    /\ UNCHANGED <<retries, queue, worker, stopped>>

ApiCreateJob(j, p) ==
    /\ ~stopped
    /\ p \in {NoJob} \cup {k \in Jobs : status[k] # "absent"}
    /\ CreateJob(j, p, "client")

\* The handler is busy while enqueueChild is on its way.
HandlerBusy == \E k \in Jobs : by[k] = "handler" /\ stage[k] # "none"

HandlerCreateChild(j) ==
    /\ worker.phase = "handling"
    /\ ~HandlerBusy
    /\ CreateJob(j, worker.job, "handler")

\* Enqueue, first half: the entry is pending, again or anew.
EnqueueStore(j) ==
    /\ stage[j] = "created"
    /\ ~stopped
    /\ status' = [status EXCEPT ![j] = "pending"]
    /\ stage' = [stage EXCEPT ![j] = "sending"]
    /\ UNCHANGED <<retries, parent, by, queue, worker, stopped>>

EnqueueSendMutant1(j) ==
    /\ stage[j] = "sending"
    /\ queue' = Append(queue, j)
    /\ stage' = [stage EXCEPT ![j] = "none"]
    /\ UNCHANGED <<store, by, worker, stopped>>

EnqueueSendMutant2(j) ==
    /\ stage[j] = "sending"
    /\ Len(queue) < BufferSize
    /\ queue' = Append(queue, j)
    /\ UNCHANGED <<store, stage, by, worker, stopped>>

\* Enqueue, second half: the send, when the buffer has room.
EnqueueSend(j) ==
    /\ stage[j] = "sending"
    /\ Len(queue) < BufferSize
    /\ queue' = Append(queue, j)
    /\ stage' = [stage EXCEPT ![j] = "none"]
    /\ UNCHANGED <<store, by, worker, stopped>>

\* Enqueue fails: the driver is stopped, or the request is cancelled while
\* it waits to send. The API then deletes the job, a handler does not.
EnqueueFails(j) ==
    /\ \/ stage[j] = "created" /\ stopped
       \/ stage[j] = "sending" /\ (stopped \/ by[j] = "client")
    /\ stage' = [stage EXCEPT ![j] = IF by[j] = "client" THEN "undo" ELSE "none"]
    /\ UNCHANGED <<store, by, queue, worker, stopped>>

\* deleteRecursive: the entries go; the worker may be left with its object.
DeleteEntries(S) ==
    /\ status' = [k \in Jobs |-> IF k \in S THEN "removed" ELSE status[k]]
    /\ retries' = [k \in Jobs |-> IF k \in S THEN 0 ELSE retries[k]]
    /\ worker' = IF worker.job \in S /\ worker.object = "live"
                 THEN [worker EXCEPT !.object = status[worker.job],
                                     !.retries = retries[worker.job]]
                 ELSE worker
    /\ UNCHANGED parent

ApiUndo(j) ==
    /\ stage[j] = "undo"
    /\ stage' = [stage EXCEPT ![j] = "none"]
    /\ DeleteEntries(JobTree(j))
    /\ UNCHANGED <<by, queue, stopped>>

----------------------------------------------------------------------------
(***************************************************************************)
(* Cancelling, deleting and pruning: each holds d.mu throughout            *)
(***************************************************************************)
CancelJob(j) ==
    LET S == {k \in JobTree(j) : status[k] \in {"pending", "running"}}
    IN  /\ HasEntry(j)
        /\ ~stopped
        /\ status' = [k \in Jobs |-> IF k \in S THEN "failed" ELSE status[k]]
        /\ UNCHANGED <<retries, parent, stage, by, queue, worker, stopped>>

DeleteJob(j) ==
    /\ HasEntry(j)
    /\ ~stopped
    /\ DeleteEntries(JobTree(j))
    /\ UNCHANGED <<stage, by, queue, stopped>>

\* CleanupJobs: some roots (the old ones) whose whole tree is terminal.
Prunable(j) ==
    /\ HasEntry(j)
    /\ parent[j] = NoJob
    /\ \A k \in JobTree(j) : status[k] \in Terminal

CleanupJobs ==
    /\ \E R \in SUBSET {j \in Jobs : Prunable(j)} \ {{}} :
          DeleteEntries(UNION {JobTree(j) : j \in R})
    /\ UNCHANGED <<stage, by, queue, stopped>>

----------------------------------------------------------------------------
(***************************************************************************)
(* The worker goroutine: Start and processJob                              *)
(***************************************************************************)
\* A message is taken and its entry looked up.
Receive ==
    /\ worker.phase = "idle"
    /\ queue # <<>>
    /\ queue' = Tail(queue)
    /\ worker' = IF HasEntry(Head(queue))
                 THEN [Resting("received") EXCEPT !.job = Head(queue)]
                 ELSE Resting("idle")
    /\ UNCHANGED <<store, stage, by, stopped>>

\* The worker's object changes: the map entry, or the detached copy.
SetObject(s, n) ==
    IF worker.object = "live"
    THEN /\ status' = [status EXCEPT ![worker.job] = s]
         /\ retries' = [retries EXCEPT ![worker.job] = n]
    ELSE UNCHANGED <<status, retries>>

WorkerNext(ph, s, n) ==
    worker' = IF ph = "idle" THEN Resting("idle")
              ELSE [worker EXCEPT !.phase = ph,
                                  !.object = IF @ = "live" THEN "live" ELSE s,
                                  !.retries = IF worker.object = "live" THEN 0 ELSE n]

BeginMutant ==
    /\ worker.phase = "received"
    /\ IF ObjectStatus = "pending"
       THEN /\ SetObject("running", ObjectRetries)
            /\ IF worker.job \in Unhandled THEN worker' = Resting("idle")
               ELSE WorkerNext("handling", "running", ObjectRetries)
       ELSE UNCHANGED <<status, retries>> /\ worker' = Resting("idle")
    /\ UNCHANGED <<parent, stage, by, queue, stopped>>

\* A job without a handler fails unless it is settled; any other is run if it
\* is pending and dropped if it is not. The check before the lock (an
\* unsynchronized read) only anticipates this one.
Begin ==
    /\ worker.phase = "received"
    /\ IF worker.job \in Unhandled
       THEN /\ IF ObjectStatus \in Terminal THEN UNCHANGED <<status, retries>>
               ELSE SetObject("failed", ObjectRetries)
            /\ worker' = Resting("idle")
       ELSE IF ObjectStatus = "pending"
            THEN /\ SetObject("running", ObjectRetries)
                 /\ WorkerNext("handling", "running", ObjectRetries)
            ELSE UNCHANGED <<status, retries>> /\ worker' = Resting("idle")
    /\ UNCHANGED <<parent, stage, by, queue, stopped>>

AfterRunMutant(r, n) ==
    IF r = "ok" THEN "completed"
    ELSE IF r = "permanent" \/ n > MaxRetries[worker.job] THEN "failed" ELSE "pending"

AfterRun(r, n) ==
    IF r = "ok" THEN "completed"
    ELSE IF r = "permanent" \/ n >= MaxRetries[worker.job] THEN "failed" ELSE "pending"

FinishableMutant == TRUE

\* An object that is no longer running (it was cancelled) is left alone.
Finishable == ObjectStatus = "running"

FinishMutant(r) ==
    LET n == IF r = "ok" THEN ObjectRetries ELSE ObjectRetries + 1
        s == AfterRun(r, n)
    IN  /\ worker.phase = "handling"
        /\ ~HandlerBusy
        /\ IF Finishable THEN SetObject(s, n) ELSE UNCHANGED <<status, retries>>
        /\ worker' = Resting("idle")
        /\ UNCHANGED <<parent, stage, by, queue, stopped>>

\* The handler returned r.
Finish(r) ==
    LET n == IF r = "ok" THEN ObjectRetries ELSE ObjectRetries + 1
        s == AfterRun(r, n)
    IN  /\ worker.phase = "handling"
        /\ ~HandlerBusy
        /\ IF Finishable
           THEN /\ SetObject(s, n)
                /\ WorkerNext(IF s = "pending" THEN "retry" ELSE "idle", s, n)
           ELSE UNCHANGED <<status, retries>> /\ worker' = Resting("idle")
        /\ UNCHANGED <<parent, stage, by, queue, stopped>>

\* The retry: Enqueue by the worker itself, whatever happened to the entry
\* since Finish released the lock; a missing entry is created from the object.
RetryStore ==
    /\ worker.phase = "retry"
    /\ IF stopped
       THEN UNCHANGED <<status, retries>> /\ worker' = Resting("idle")
       ELSE /\ status' = [status EXCEPT ![worker.job] = "pending"]
            /\ retries' = [retries EXCEPT ![worker.job] =
                              IF HasEntry(worker.job) THEN @ ELSE ObjectRetries]
            /\ worker' = [worker EXCEPT !.phase = "retrySend"]
    /\ UNCHANGED <<parent, stage, by, queue, stopped>>

RetrySend ==
    /\ worker.phase = "retrySend"
    /\ Len(queue) < BufferSize
    /\ queue' = Append(queue, worker.job)
    /\ worker' = Resting("idle")
    /\ UNCHANGED <<store, stage, by, stopped>>

RetryFailsMutant ==
    /\ worker.phase = "retrySend"
    /\ stopped
    /\ Len(queue) < BufferSize
    /\ worker' = Resting("idle")
    /\ UNCHANGED <<store, stage, by, queue, stopped>>

\* The send of a retry is given up once stopChan is closed.
RetryFails ==
    /\ worker.phase = "retrySend"
    /\ stopped
    /\ worker' = Resting("idle")
    /\ UNCHANGED <<store, stage, by, queue, stopped>>

Stop ==
    /\ ~stopped
    /\ stopped' = TRUE
    /\ UNCHANGED <<store, stage, by, queue, worker>>

WorkerExit ==
    /\ stopped
    /\ worker.phase = "idle"
    /\ worker' = Resting("exited")
    /\ UNCHANGED <<store, stage, by, queue, stopped>>

----------------------------------------------------------------------------
Creation ==
    \E j \in Jobs :
       \/ \E p \in Jobs \cup {NoJob} : ApiCreateJob(j, p)
       \/ HandlerCreateChild(j)
       \/ EnqueueStore(j)
       \/ EnqueueSend(j)
       \/ EnqueueFails(j)
       \/ ApiUndo(j)

Removal == (\E j \in Jobs : CancelJob(j) \/ DeleteJob(j)) \/ CleanupJobs

Work ==
    \/ Receive \/ Begin
    \/ \E r \in Results : Finish(r)
    \/ RetryStore \/ RetrySend \/ RetryFails
    \/ WorkerExit

Next == Creation \/ Removal \/ Work \/ Stop

Spec == Init /\ [][Next]_vars

\* The worker goroutine and the requests keep running and handlers return;
\* the driver need not be stopped, and no client need go away.
Fairness ==
    /\ WF_vars(Work)
    /\ \A j \in Jobs :
          /\ WF_vars(EnqueueStore(j))
          /\ WF_vars(EnqueueSend(j))
          /\ WF_vars(stopped /\ EnqueueFails(j))
          /\ WF_vars(ApiUndo(j))

FairSpec == Spec /\ Fairness

----------------------------------------------------------------------------
(***************************************************************************)
(* Properties                                                              *)
(***************************************************************************)
\* Types of the map entries, of the channel and of the worker's object.
TypeOK ==
    /\ status \in [Jobs -> Statuses]
    /\ retries \in [Jobs -> Nat]
    /\ parent \in [Jobs -> Jobs \cup {NoJob}]
    /\ stage \in [Jobs -> {"none", "created", "sending", "undo"}]
    /\ by \in [Jobs -> {"client", "handler"}]
    /\ queue \in Seq(Jobs)
    /\ Len(queue) <= BufferSize
    /\ worker \in [phase : Phases, job : Jobs \cup {NoJob},
                   object : Statuses \cup {"live"}, retries : Nat]
    /\ worker.job = NoJob <=> worker.phase \in {"idle", "exited"}
    /\ stopped \in BOOLEAN

Queued == {queue[i] : i \in DOMAIN queue}
Submitting(j) == stage[j] \in {"created", "sending"}

\* An identifier is on its way to the worker at most once: with its creator,
\* in the buffer or at the worker, retries and re-created entries included.
\* A job is thus never handled twice for one submission.
OneDelivery ==
    /\ \A i, k \in DOMAIN queue : queue[i] = queue[k] => i = k
    /\ \A j \in Jobs : Submitting(j) => j \notin Queued /\ j # worker.job
    /\ worker.job \notin Queued

\* Until the driver is stopped no pending job is forgotten: its creator, the
\* buffer or the worker still has it. (There is no poller to find it again.)
PendingIsDelivered ==
    \A j \in Jobs :
       ~stopped /\ status[j] = "pending" =>
          stage[j] # "none" \/ j \in Queued \/ j = worker.job

\* A job is tried at most max(1, MaxRetries) times, also when a delete forgot
\* its entry and the retry re-created it.
RetryBudget ==
    \A j \in Jobs :
       status[j] \in {"pending", "running"} => retries[j] = 0 \/ retries[j] < MaxRetries[j]

\* The driver implements the same lifecycle as the SQLite driver; here the
\* execution itself stays a submission under way, since its retry is an
\* Enqueue made after the lock was released.
Lifecycle ==
    INSTANCE JobLifecycle
       WITH state <- status,
            open <- {j \in Jobs :
                        \/ stage[j] = "created"
                        \/ /\ worker.job = j
                           /\ \/ worker.phase \in {"handling", "retry"}
                              \/ worker.phase = "received" /\ ObjectStatus = "pending"}

ImplementsLifecycle == Lifecycle!Spec

\* Once Stop closes stopChan the worker goroutine returns, also when it waits
\* to send or when jobs are left in the buffer: Stop does not hang.
StopReturns == stopped ~> (worker.phase = "exited")

\* While the driver is not stopped, the only way for a job to stay pending for
\* ever is a worker that never gets back to its receive: as long as it keeps
\* doing so, every pending job is eventually settled or deleted, also those
\* that wait as senders at a full buffer and those that are being retried.
ServedUnlessStuck ==
    []~stopped /\ []<>(worker.phase = "idle") =>
       \A j \in Jobs : status[j] = "pending" ~> (status[j] \in Terminal \cup {"removed"})

\* While the driver is not stopped every pending job is eventually settled
\* or deleted. The state diagram of docs/design/background_jobs.md says
\* "Pending --> Running: Worker Pick Up". It holds when the buffer has room
\* for every job; with a smaller one the only reader of queueChan may block
\* as a sender, and everything stands still.
PendingIsServed ==
    []~stopped =>
       \A j \in Jobs : status[j] = "pending" ~> (status[j] \in Terminal \cup {"removed"})

(***************************************************************************)
(* What docs/design/background_jobs.md says and the driver does not keep   *)
(***************************************************************************)
\* "Failed --> [*]", and "Cancel an active or queued job": a cancellation that
\* comes between the end of an attempt and its retry is undone by the retry.
FailedIsFinal ==
    [][\A j \in Jobs : stage[j] = "none" /\ status[j] = "failed" =>
                            status'[j] \in {"failed", "removed"}]_vars

\* "Permanently remove a job": a job deleted between the end of an attempt and
\* its retry, or while it runs and fails, is put back by the retry.
DeletedStaysDeleted ==
    [][\A j \in Jobs : stage[j] = "none" /\ status[j] = "removed" =>
                            status'[j] = "removed"]_vars
=============================================================================
